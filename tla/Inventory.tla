----------------------------- MODULE Inventory -----------------------------
(***************************************************************************)
(* OrganizationInventory (services/inventory.py): the shared cache of one  *)
(* organisation, its one lock, and the coroutines that read through it.    *)
(*                                                                         *)
(* A read looks into the cache, queues for the lock when the entry is      *)
(* missing or expired, looks again, and fetches while it holds the lock.   *)
(* Under a network filter some reads then need the networks entry and      *)
(* read it in turn: devices after releasing the lock, availabilities       *)
(* while still holding it.  A forced read looks at no entry.               *)
(***************************************************************************)
EXTENDS Integers, Sequences, FiniteSets, SequencesExt

CONSTANTS Readers,       \* coroutines that read the cache or invalidate it
          Forcers,       \* those that may pass force_refresh
          Kinds,         \* the entries of the cache
          Networks,      \* the entry a filter is resolved against
          FilterOutside, \* entries filtered after the lock is released
          FilterInside,  \* entries filtered while the lock is held
          FilterActive,  \* TRUE when a network filter is configured
          Early,         \* age from which the jitter may expire an entry
          Late,          \* age from which it certainly expires it
          Deadline,      \* how long a fetch may take
          MayCancel,     \* TRUE when a reader's collector may time out
          AgeCap         \* bound: ages are not counted beyond it

ASSUME KindsAssumption ==
    /\ Networks \in Kinds
    /\ FilterOutside \subseteq Kinds \ {Networks}
    /\ FilterInside \subseteq Kinds \ {Networks}
    /\ FilterActive \in BOOLEAN /\ MayCancel \in BOOLEAN
ASSUME AgesAssumption ==
    /\ Early \in [Kinds -> Nat \ {0}] /\ Late \in [Kinds -> Nat]
    /\ \A k \in Kinds : Early[k] <= Late[k] /\ Late[k] <= AgeCap
    /\ Deadline \in Nat /\ AgeCap \in Nat /\ Deadline <= AgeCap

None == "none"
Purge == "invalidate"
ASSUME NamesAssumption == {None, Purge} \cap (Readers \cup Kinds) = {}

VARIABLES stamp,    \* age of an entry's timestamp, or Absent
          holder,   \* who holds the lock
          queue,    \* who waits for it
          pc,       \* "idle", "wait", "fetch", or "back" with an answer
          goal,     \* what the caller asked for: a kind, or Purge
          want,     \* what is being read: the goal, or Networks for its filter
          asked,    \* age of current_time, taken when the read began
          forced,   \* readers called with force_refresh
          fetchAge, \* age of the fetch in flight
          born,     \* ghost: age of the data of an entry
          outdated, \* ghost: entries and fetches begun before an invalidation
          late,     \* ghost: readers that began after the last invalidation
          answer,   \* ghost: age of the data a reader has in hand
          bought    \* ghost: unforced fetches of an entry that is still good

lock == <<holder, queue>>
call == <<pc, goal, want, asked, forced>>
vars == <<stamp, lock, call, fetchAge, born, outdated, late, answer, bought>>

-----------------------------------------------------------------------------
Absent == -1
Wrong == -2     \* ghost: the answer predates an invalidation

Present(k) == stamp[k] # Absent

(* _is_expired draws a jitter on every call, so between Early and Late an     *)
(* entry may count as valid and as expired.                                   *)
MayHit(k) == Present(k) /\ stamp[k] < Late[k]
MayMiss(k) == ~Present(k) \/ stamp[k] >= Early[k]

(* force_refresh goes with the read the caller asked for, not with the read   *)
(* of the networks on behalf of its filter.                                   *)
Bypasses(r) == r \in forced /\ want[r] = goal[r]

(* _maybe_filter_availabilities and the end of get_devices: the filter needs  *)
(* the networks entry, of whatever age, and reads it when there is none.      *)
NeedsNetworks(k) ==
    FilterActive /\ k \in FilterOutside \cup FilterInside /\ ~Present(Networks)

Init ==
    /\ stamp = [k \in Kinds |-> Absent]
    /\ holder = None
    /\ queue = <<>>
    /\ pc = [r \in Readers |-> "idle"]
    /\ goal = [r \in Readers |-> None]
    /\ want = [r \in Readers |-> None]
    /\ asked = [r \in Readers |-> 0]
    /\ forced = {}
    /\ fetchAge = 0
    /\ born = [k \in Kinds |-> 0]
    /\ outdated = {}
    /\ late = {}
    /\ answer = [r \in Readers |-> 0]
    /\ bought = [k \in Kinds |-> 0]

(* r queues for the lock to read, or invalidate, k.  q is what the queue is   *)
(* otherwise.                                                                 *)
WaitFor(r, k, q) ==
    /\ queue' = Append(q, r)
    /\ pc' = [pc EXCEPT ![r] = "wait"]
    /\ want' = [want EXCEPT ![r] = k]
    /\ asked' = [asked EXCEPT ![r] = 0]

GoBack(r, q) ==
    /\ queue' = q
    /\ pc' = [pc EXCEPT ![r] = "back"]
    /\ UNCHANGED <<want, asked>>

(* r has read k, of that age, and its lock is to be released unless the       *)
(* filter is applied under it.                                                *)
HasRead(r, k, age, old, q) ==
    /\ IF NeedsNetworks(k) THEN WaitFor(r, Networks, q) ELSE GoBack(r, q)
    /\ answer' = [answer EXCEPT ![r] = IF k # goal'[r] THEN @ ELSE IF old THEN Wrong ELSE age]

KeepsLock(k) == k \in FilterInside /\ NeedsNetworks(k)

Leave(r) ==
    /\ pc' = [pc EXCEPT ![r] = "idle"]
    /\ goal' = [goal EXCEPT ![r] = None]
    /\ want' = [want EXCEPT ![r] = None]
    /\ asked' = [asked EXCEPT ![r] = 0]
    /\ forced' = forced \ {r}
    /\ late' = late \ {r}
    /\ answer' = [answer EXCEPT ![r] = 0]

(* Ghost: what an entry has cost counts for as long as no read may miss it.   *)
Bought(n) ==
    bought' = [k \in Kinds |-> IF stamp'[k] # Absent /\ stamp'[k] < Early[k] THEN n[k] ELSE 0]

-----------------------------------------------------------------------------
(* get_networks, get_devices, get_device_availabilities and the rest: the     *)
(* look into the cache before the lock.                                       *)
Begin(r, k) ==
    /\ pc[r] = "idle"
    /\ goal' = [goal EXCEPT ![r] = k]
    /\ late' = late \cup {r}

Hit(r, k) ==
    /\ Begin(r, k) /\ MayHit(k)
    /\ HasRead(r, k, born[k], k \in outdated, queue)
    /\ UNCHANGED <<stamp, holder, forced, fetchAge, born, outdated, bought>>

Miss(r, k) ==
    /\ Begin(r, k)
    /\ \/ MayMiss(k) /\ UNCHANGED forced
       \/ r \in Forcers /\ forced' = forced \cup {r}
    /\ WaitFor(r, k, queue)
    /\ UNCHANGED <<stamp, holder, fetchAge, born, outdated, answer, bought>>

(* invalidate. *)
PurgeAtOnce(r) ==
    /\ Begin(r, Purge)
    /\ stamp' = [k \in Kinds |-> Absent]
    /\ outdated' = {Purge}
    /\ GoBack(r, queue)
    /\ Bought(bought)
    /\ UNCHANGED <<holder, forced, fetchAge, born, answer>>
AskPurge(r) ==
    /\ Begin(r, Purge)
    /\ WaitFor(r, Purge, queue)
    /\ UNCHANGED <<stamp, holder, forced, fetchAge, born, outdated, answer, bought>>

-----------------------------------------------------------------------------
(* The lock goes to the first in its queue. *)
Granted(r) == holder = None /\ queue # <<>> /\ r = Head(queue)

(* The look into the cache under the lock. *)
HitLocked(r) ==
    /\ Granted(r) /\ want[r] # Purge /\ ~Bypasses(r) /\ MayHit(want[r])
    /\ holder' = IF KeepsLock(want[r]) THEN r ELSE None
    /\ UNCHANGED goal
    /\ HasRead(r, want[r], born[want[r]], want[r] \in outdated /\ r \in late, Tail(queue))
    /\ UNCHANGED <<stamp, forced, fetchAge, born, outdated, late, bought>>

MissesUnseen(k) == TRUE
MissesLocked(k) == MayMiss(k)
MissLocked(r) ==
    /\ Granted(r) /\ want[r] # Purge /\ (Bypasses(r) \/ MissesLocked(want[r]))
    /\ holder' = r
    /\ queue' = Tail(queue)
    /\ pc' = [pc EXCEPT ![r] = "fetch"]
    /\ fetchAge' = 0
    /\ outdated' = outdated \ {Purge}
    /\ UNCHANGED <<stamp, goal, want, asked, forced, born, late, answer, bought>>

PurgeLocked(r) ==
    /\ Granted(r) /\ want[r] = Purge
    /\ stamp' = [k \in Kinds |-> Absent]
    /\ queue' = Tail(queue)
    /\ pc' = [pc EXCEPT ![r] = "back"]
    /\ outdated' = {Purge}
    /\ late' = {}
    /\ Bought(bought)
    /\ UNCHANGED <<holder, goal, want, asked, forced, fetchAge, born, answer>>

(* The answer is cached under the time at which the read began. *)
StampWhenCached(r) == 0
Stamp(r) == asked[r]

Fetched(r) ==
    /\ pc[r] = "fetch"
    /\ stamp' = [stamp EXCEPT ![want[r]] = Stamp(r)]
    /\ born' = [born EXCEPT ![want[r]] = fetchAge]
    /\ outdated' = IF Purge \in outdated THEN outdated \cup {want[r]} ELSE outdated \ {want[r]}
    /\ holder' = IF KeepsLock(want[r]) THEN r ELSE None
    /\ UNCHANGED goal
    /\ HasRead(r, want[r], fetchAge, Purge \in outdated /\ r \in late, queue)
    /\ Bought(IF Bypasses(r) THEN bought ELSE [bought EXCEPT ![want[r]] = @ + 1])
    /\ UNCHANGED <<forced, fetchAge, late>>

(* The fetch raises: nothing is cached and the lock is released. *)
FetchErrorLocked(r) ==
    /\ pc[r] = "fetch"
    /\ UNCHANGED holder
    /\ Leave(r)
    /\ UNCHANGED <<stamp, queue, fetchAge, born, outdated, bought>>
FetchError(r) ==
    /\ pc[r] = "fetch"
    /\ holder' = None
    /\ Leave(r)
    /\ UNCHANGED <<stamp, queue, fetchAge, born, outdated, bought>>

(* The caller's collector times out: whatever r waits for is cancelled, and   *)
(* `async with` releases the lock if r holds it.                              *)
Cancel(r) ==
    /\ MayCancel
    /\ \/ pc[r] = "fetch" /\ UNCHANGED queue
       \/ \E i \in 1..Len(queue) : queue[i] = r /\ queue' = RemoveAt(queue, i)
    /\ holder' = IF holder = r THEN None ELSE holder
    /\ Leave(r)
    /\ UNCHANGED <<stamp, fetchAge, born, outdated, bought>>

Finish(r) ==
    /\ pc[r] = "back"
    /\ Leave(r)
    /\ UNCHANGED <<stamp, lock, fetchAge, born, outdated, bought>>

-----------------------------------------------------------------------------
Older(a) == IF a < AgeCap THEN a + 1 ELSE a
Fetching == \E r \in Readers : pc[r] = "fetch"

(* The API facade ends a fetch by its deadline. *)
BeforeDeadline == Fetching => fetchAge < Deadline

(* A reader whose data is in hand while it reads the networks for its filter. *)
Detours(r) == pc[r] \in {"wait", "fetch"} /\ want[r] # goal[r]
HandAged(r) == IF Detours(r) /\ answer[r] # Wrong THEN Older(answer[r]) ELSE answer[r]

(* Time passes while everybody waits or fetches: a read that has its answer   *)
(* returns without suspending.                                                *)
Tick ==
    /\ BeforeDeadline
    /\ \A r \in Readers : pc[r] # "back"
    /\ stamp' = [k \in Kinds |-> IF Present(k) THEN Older(stamp[k]) ELSE Absent]
    /\ born' = [k \in Kinds |-> IF Present(k) THEN Older(born[k]) ELSE 0]
    /\ asked' = [r \in Readers |-> IF pc[r] \in {"wait", "fetch"} THEN Older(asked[r]) ELSE 0]
    /\ fetchAge' = IF Fetching THEN fetchAge + 1 ELSE 0
    /\ answer' = [r \in Readers |-> HandAged(r)]
    /\ Bought(bought)
    /\ UNCHANGED <<lock, pc, goal, want, forced, outdated, late>>

Serve(r) ==
    HitLocked(r) \/ MissLocked(r) \/ PurgeLocked(r) \/ Fetched(r) \/ FetchError(r) \/ Finish(r)

Next ==
    \/ \E r \in Readers :
          \/ \E k \in Kinds : Hit(r, k) \/ Miss(r, k)
          \/ AskPurge(r)
          \/ Serve(r)
          \/ Cancel(r)
    \/ Tick

Spec == Init /\ [][Next]_vars

(* The event loop runs what is ready, and fetches end. *)
FairSpec == Spec /\ \A r \in Readers : WF_vars(Serve(r))

-----------------------------------------------------------------------------
TypeOK ==
    /\ stamp \in [Kinds -> Absent..AgeCap]
    /\ holder \in Readers \cup {None}
    /\ queue \in Seq(Readers)
    /\ pc \in [Readers -> {"idle", "wait", "fetch", "back"}]
    /\ goal \in [Readers -> Kinds \cup {None, Purge}]
    /\ want \in [Readers -> Kinds \cup {None, Purge}]
    /\ asked \in [Readers -> 0..AgeCap]
    /\ fetchAge \in 0..Deadline
    /\ born \in [Kinds -> 0..AgeCap]
    /\ outdated \subseteq Kinds \cup {Purge}
    /\ late \subseteq Readers
    /\ answer \in [Readers -> Wrong..AgeCap]
    /\ forced \subseteq Readers
    /\ bought \in [Kinds -> Nat]

(* One fetch at a time, by the holder of the lock, and nobody queues twice,   *)
(* however reads, errors and cancellations interleave.                        *)
LockDiscipline ==
    /\ \A r \in Readers : pc[r] = "fetch" => holder = r
    /\ \A r \in Readers : pc[r] = "wait" <=> r \in Range(queue)
    /\ IsInjective(queue)
    /\ holder # None => pc[holder] \in {"fetch", "wait"}

(* When a reader gets its data, they were fetched no longer ago than the      *)
(* jittered TTL of their entry, or than one fetch may take, not counting the  *)
(* time that reading the networks for its filter took with the data in hand:  *)
(* fetches are slow and readers wait in line, but an entry's timestamp is     *)
(* never younger than its data (_is_expired).                                 *)
DetourTime(r) == IF want[r] = goal[r] THEN 0 ELSE asked[r]
FreshAnswers ==
    \A r \in Readers :
        pc[r] = "back" /\ goal[r] # Purge =>
            LET age == answer[r] - DetourTime(r) IN age < Late[goal[r]] \/ age <= Deadline

(* A forced reader gets no data that was requested before it began, however   *)
(* often others filled the entry while it waited (force_refresh).             *)
ForcedAnswers ==
    \A r \in forced : pc[r] = "back" => answer[r] <= asked[r] \/ want[r] # goal[r]

(* A reader that begins after invalidate() returned gets no data that was     *)
(* requested before it, not even from a fetch that was in flight.             *)
InvalidationHolds == \A r \in Readers : answer[r] # Wrong

(* No answer is older than its reader may be given.                           *)
AnswersSound == TypeOK /\ FreshAnswers /\ ForcedAnswers /\ InvalidationHolds

(* From when an entry is filled until it is dropped or a jittered look may    *)
(* expire it, all reads that do not force a refresh cost one fetch of it,     *)
(* whoever missed it together, was cancelled, failed or waited in line        *)
(* meanwhile (the second look, under the lock).                               *)
SingleFlight == \A k \in Kinds : bought[k] <= 1

(* Every read ends, with an answer or an error, without the help of a         *)
(* timeout: whatever fails or is cancelled, the lock is released, unless a    *)
(* reader waits for the lock that it holds itself.                            *)
WaitsForItself == holder # None /\ pc[holder] = "wait"

ReadsEnd ==
    \A r \in Readers : pc[r] = "wait" ~> pc[r] \in {"back", "idle"} \/ WaitsForItself

(* What a comment promises: a read of the networks on behalf of a filter      *)
(* comes back.                                                                *)
FilterAnswered ==
    \A r \in Readers :
        pc[r] = "wait" /\ want[r] = Networks /\ goal[r] # Networks ~> pc[r] \in {"back", "idle"}

=============================================================================
