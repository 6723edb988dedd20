-------------------------- MODULE Inventory_proofs --------------------------
(***************************************************************************)
(* Machine-checked proofs about Inventory, for every set of readers and    *)
(* entries, every TTL and deadline, with and without a filter.             *)
(***************************************************************************)
EXTENDS Inventory, BasicLemmas, SequenceTheorems, TLAPS

-----------------------------------------------------------------------------
(* The readers of P stand in line in q, each once. *)
Lined(q, P) ==
    /\ q \in Seq(Readers)
    /\ \A i, j \in 1..Len(q) : q[i] = q[j] => i = j
    /\ P = {q[i] : i \in 1..Len(q)}

LEMMA JoinsLine ==
    ASSUME NEW q, NEW P, Lined(q, P), NEW r \in Readers, r \notin P
    PROVE  Lined(Append(q, r), P \cup {r})
<1>1. q \in Seq(Readers) /\ Append(q, r) \in Seq(Readers) /\ Len(Append(q, r)) = Len(q) + 1
  BY AppendProperties DEF Lined
<1>2. \A i \in 1..(Len(q) + 1) : Append(q, r)[i] = IF i <= Len(q) THEN q[i] ELSE r
  BY <1>1, AppendProperties
<1>3. \A i \in 1..Len(q) : q[i] # r
  BY DEF Lined
<1>4. \A i, j \in 1..Len(Append(q, r)) : Append(q, r)[i] = Append(q, r)[j] => i = j
  BY <1>1, <1>2, <1>3, LenProperties DEF Lined
<1>5. P \cup {r} = {Append(q, r)[i] : i \in 1..Len(Append(q, r))}
  <2>1. \A x \in P : \E i \in 1..Len(Append(q, r)) : x = Append(q, r)[i]
    BY <1>1, <1>2, LenProperties DEF Lined
  <2>2. r = Append(q, r)[Len(q) + 1] /\ Len(q) + 1 \in 1..Len(Append(q, r))
    BY <1>1, <1>2, LenProperties
  <2>3. \A i \in 1..Len(Append(q, r)) : Append(q, r)[i] \in P \cup {r}
    BY <1>1, <1>2, LenProperties DEF Lined
  <2> QED  BY <2>1, <2>2, <2>3
<1> QED  BY <1>1, <1>4, <1>5 DEF Lined

LEMMA LeavesLine ==
    ASSUME NEW q, NEW P, Lined(q, P), NEW n \in 1..Len(q)
    PROVE  Lined(RemoveAt(q, n), P \ {q[n]})
<1> DEFINE t == RemoveAt(q, n)
<1>1. q \in Seq(Readers)
  BY DEF Lined
<1>2. t \in Seq(Readers) /\ Len(t) = Len(q) - 1
  BY <1>1, RemoveAtFacts
<1>3. \A i \in 1..(Len(q) - 1) : t[i] = IF i < n THEN q[i] ELSE q[i + 1]
  BY <1>1, RemoveAtFacts
<1> HIDE DEF t
<1>4. ASSUME NEW i \in 1..Len(t), NEW j \in 1..Len(t), t[i] = t[j]
      PROVE  i = j
  <2> DEFINE f(x) == IF x < n THEN x ELSE x + 1
  <2>1. f(i) \in 1..Len(q) /\ f(j) \in 1..Len(q)
    BY <1>1, <1>2, LenProperties
  <2>2. t[i] = q[f(i)] /\ t[j] = q[f(j)]
    BY <1>1, <1>2, <1>3, LenProperties
  <2>3. f(i) = f(j)
    BY <1>4, <2>1, <2>2 DEF Lined
  <2> QED  BY <1>1, <1>2, <2>3, LenProperties
<1>5. P \ {q[n]} = {t[i] : i \in 1..Len(t)}
  <2>1. ASSUME NEW x \in P, x # q[n]
        PROVE  \E i \in 1..Len(t) : x = t[i]
    <3>1. PICK j \in 1..Len(q) : x = q[j] /\ j # n
      BY <2>1 DEF Lined
    <3>2. CASE j < n
      BY <1>1, <1>2, <1>3, <3>1, <3>2, LenProperties
    <3>3. CASE j > n
      <4>1. j - 1 \in 1..Len(t) /\ t[j - 1] = q[j]
        BY <1>1, <1>2, <1>3, <3>3, LenProperties
      <4> QED  BY <3>1, <4>1
    <3> QED  BY <3>1, <3>2, <3>3
  <2>2. ASSUME NEW i \in 1..Len(t)
        PROVE  t[i] \in P /\ t[i] # q[n]
    <3>1. PICK j \in 1..Len(q) : t[i] = q[j] /\ j # n
      BY <1>1, <1>2, <1>3, LenProperties
    <3> QED  BY <3>1 DEF Lined
  <2> QED  BY <2>1, <2>2
<1> QED  BY <1>2, <1>4, <1>5 DEF Lined, t

LEMMA HeadLeavesLine ==
    ASSUME NEW q, NEW P, Lined(q, P), q # <<>>
    PROVE  Head(q) \in P /\ Lined(Tail(q), P \ {Head(q)})
<1>1. q \in Seq(Readers) /\ 1 \in 1..Len(q) /\ Head(q) = q[1]
  BY HeadTailProperties, EmptySeq, LenProperties DEF Lined
<1>2. RemoveAt(q, 1) = Tail(q)
  <2>1. RemoveAt(q, 1) \in Seq(Readers) /\ Len(RemoveAt(q, 1)) = Len(q) - 1
    BY <1>1, RemoveAtFacts
  <2>2. \A i \in 1..(Len(q) - 1) : RemoveAt(q, 1)[i] = q[i + 1]
    BY <1>1, RemoveAtFacts
  <2>3. Tail(q) \in Seq(Readers) /\ Len(Tail(q)) = Len(q) - 1
    BY <1>1, HeadTailProperties
  <2>4. \A i \in 1..Len(Tail(q)) : Tail(q)[i] = q[i + 1]
    BY <1>1, HeadTailProperties
  <2> QED  BY <2>1, <2>2, <2>3, <2>4, SeqEqual
<1>3. Lined(RemoveAt(q, 1), P \ {q[1]})
  BY <1>1, LeavesLine
<1>4. q[1] \in P
  BY <1>1 DEF Lined
<1> QED  BY <1>1, <1>2, <1>3, <1>4

-----------------------------------------------------------------------------
(* Whoever fetches holds the lock. *)
FetcherHolds ==
    /\ pc \in [Readers -> {"idle", "wait", "fetch", "back"}]
    /\ \A r \in Readers : pc[r] = "fetch" => holder = r

(* There is one fetch at a time (async with self._lock around every call).    *)
THEOREM LockKept == Spec => []FetcherHolds
<1>1. Init => FetcherHolds
  BY DEF Init, FetcherHolds
<1>2. FetcherHolds /\ [Next]_vars => FetcherHolds'
  <2> SUFFICES ASSUME FetcherHolds, [Next]_vars
               PROVE  FetcherHolds'
    OBVIOUS
  <2> USE NamesAssumption
  <2>1. ASSUME NEW r \in Readers, NEW k \in Kinds, Hit(r, k)
        PROVE  FetcherHolds'
    BY <2>1 DEF Hit, Begin, HasRead, WaitFor, GoBack, FetcherHolds
  <2>2. ASSUME NEW r \in Readers, NEW k \in Kinds, Miss(r, k)
        PROVE  FetcherHolds'
    BY <2>2 DEF Miss, Begin, WaitFor, FetcherHolds
  <2>3. ASSUME NEW r \in Readers, AskPurge(r)
        PROVE  FetcherHolds'
    BY <2>3 DEF AskPurge, Begin, WaitFor, FetcherHolds
  <2>4. ASSUME NEW r \in Readers, HitLocked(r)
        PROVE  FetcherHolds'
    BY <2>4 DEF HitLocked, Granted, HasRead, WaitFor, GoBack, FetcherHolds, None
  <2>5. ASSUME NEW r \in Readers, MissLocked(r)
        PROVE  FetcherHolds'
    BY <2>5 DEF MissLocked, Granted, FetcherHolds, None
  <2>6. ASSUME NEW r \in Readers, PurgeLocked(r)
        PROVE  FetcherHolds'
    BY <2>6 DEF PurgeLocked, Granted, FetcherHolds, None
  <2>7. ASSUME NEW r \in Readers, Fetched(r)
        PROVE  FetcherHolds'
    BY <2>7 DEF Fetched, HasRead, WaitFor, GoBack, FetcherHolds
  <2>8. ASSUME NEW r \in Readers, FetchError(r)
        PROVE  FetcherHolds'
    BY <2>8 DEF FetchError, Leave, FetcherHolds
  <2>9. ASSUME NEW r \in Readers, Cancel(r)
        PROVE  FetcherHolds'
    BY <2>9 DEF Cancel, Leave, FetcherHolds
  <2>10. ASSUME NEW r \in Readers, Finish(r)
         PROVE  FetcherHolds'
    BY <2>10 DEF Finish, Leave, lock, FetcherHolds
  <2>11. CASE Tick
    BY <2>11 DEF Tick, lock, FetcherHolds
  <2>12. CASE UNCHANGED vars
    BY <2>12 DEF vars, lock, call, FetcherHolds
  <2> QED
    BY <2>1, <2>2, <2>3, <2>4, <2>5, <2>6, <2>7, <2>8, <2>9, <2>10, <2>11, <2>12
    DEF Next, Serve
<1> QED  BY <1>1, <1>2, PTL DEF Spec

-----------------------------------------------------------------------------
(* Who waits stands in line, once, and a held lock is held by a reader that   *)
(* fetches or waits for the networks.                                         *)
Waiting == {r \in Readers : pc[r] = "wait"}

LineInv ==
    /\ Lined(queue, Waiting)
    /\ holder \in Readers \cup {None}
    /\ holder # None => pc[holder] \in {"fetch", "wait"}

(* r joins the line or goes back, from outside the line q. *)
LEMMA AfterRead ==
    ASSUME NEW r \in Readers, NEW k, NEW age, NEW old, NEW q, NEW P, FetcherHolds,
           Lined(q, P), P = Waiting \ {r}, HasRead(r, k, age, old, q)
    PROVE  /\ Lined(queue', Waiting')
           /\ \A o \in Readers : o # r => pc'[o] = pc[o]
           /\ NeedsNetworks(k) => pc'[r] = "wait"
<1>1. CASE NeedsNetworks(k)
  <2>1. pc' = [pc EXCEPT ![r] = "wait"] /\ queue' = Append(q, r)
    BY <1>1 DEF HasRead, WaitFor
  <2>2. Waiting' = P \cup {r}
    BY <2>1 DEF Waiting, FetcherHolds
  <2>3. Lined(Append(q, r), P \cup {r})
    BY JoinsLine
  <2> QED  BY <2>1, <2>2, <2>3 DEF FetcherHolds, Lined
<1>2. CASE ~NeedsNetworks(k)
  <2>1. pc' = [pc EXCEPT ![r] = "back"] /\ queue' = q
    BY <1>2 DEF HasRead, GoBack
  <2>2. Waiting' = P
    BY <2>1 DEF Waiting, FetcherHolds
  <2> QED  BY <1>2, <2>1, <2>2 DEF FetcherHolds, Lined
<1> QED  BY <1>1, <1>2

LEMMA GrantedWaits ==
    ASSUME NEW r \in Readers, LineInv, Granted(r)
    PROVE  pc[r] = "wait" /\ Lined(Tail(queue), Waiting \ {r})
  BY HeadLeavesLine DEF LineInv, Granted, Waiting

LEMMA LineStep ==
    ASSUME FetcherHolds, LineInv, Next
    PROVE  LineInv'
<1> USE NamesAssumption DEF None
<1>1. ASSUME NEW r \in Readers, NEW k \in Kinds, Hit(r, k)
      PROVE  LineInv'
  <2>1. /\ pc[r] = "idle" /\ UNCHANGED holder
        /\ HasRead(r, k, born[k], k \in outdated, queue)
    BY <1>1 DEF Hit, Begin
  <2>2. Lined(queue, Waiting) /\ Waiting = Waiting \ {r}
    BY <2>1 DEF LineInv, Waiting
  <2>3. Lined(queue', Waiting') /\ \A o \in Readers : o # r => pc'[o] = pc[o]
    BY <2>1, <2>2, AfterRead
  <2> QED  BY <2>1, <2>3 DEF LineInv
<1>2. ASSUME NEW r \in Readers, NEW k, pc[r] = "idle", WaitFor(r, k, queue), UNCHANGED holder
      PROVE  LineInv'
  <2>1. Waiting' = Waiting \cup {r} /\ r \notin Waiting
    BY <1>2 DEF WaitFor, Waiting, FetcherHolds
  <2>2. Lined(queue', Waiting')
    BY <1>2, <2>1, JoinsLine DEF LineInv, WaitFor
  <2> QED  BY <1>2, <2>2 DEF LineInv, WaitFor, FetcherHolds
<1>3. ASSUME NEW r \in Readers, HitLocked(r)
      PROVE  LineInv'
  <2>1. /\ holder = None /\ holder' = IF KeepsLock(want[r]) THEN r ELSE None
        /\ HasRead(r, want[r], born[want[r]], want[r] \in outdated /\ r \in late, Tail(queue))
    BY <1>3 DEF HitLocked, Granted
  <2>2. Lined(Tail(queue), Waiting \ {r})
    BY <1>3, GrantedWaits DEF HitLocked
  <2>3. Lined(queue', Waiting') /\ (NeedsNetworks(want[r]) => pc'[r] = "wait")
    BY <2>1, <2>2, AfterRead
  <2> QED  BY <2>1, <2>3 DEF LineInv, KeepsLock
<1>4. ASSUME NEW r \in Readers, MissLocked(r)
      PROVE  LineInv'
  <2>1. Lined(queue', Waiting \ {r})
    BY <1>4, GrantedWaits DEF MissLocked
  <2>2. Waiting' = Waiting \ {r}
    BY <1>4 DEF MissLocked, Waiting, FetcherHolds
  <2> QED  BY <1>4, <2>1, <2>2 DEF LineInv, MissLocked, FetcherHolds
<1>5. ASSUME NEW r \in Readers, PurgeLocked(r)
      PROVE  LineInv'
  <2>1. Lined(queue', Waiting \ {r})
    BY <1>5, GrantedWaits DEF PurgeLocked
  <2>2. Waiting' = Waiting \ {r}
    BY <1>5 DEF PurgeLocked, Waiting, FetcherHolds
  <2> QED  BY <1>5, <2>1, <2>2 DEF LineInv, PurgeLocked, Granted
<1>6. ASSUME NEW r \in Readers, Fetched(r)
      PROVE  LineInv'
  <2>1. /\ pc[r] = "fetch" /\ holder' = IF KeepsLock(want[r]) THEN r ELSE None
        /\ HasRead(r, want[r], fetchAge, Purge \in outdated /\ r \in late, queue)
    BY <1>6 DEF Fetched
  <2>2. Lined(queue, Waiting) /\ Waiting = Waiting \ {r}
    BY <2>1 DEF LineInv, Waiting
  <2>3. Lined(queue', Waiting') /\ (NeedsNetworks(want[r]) => pc'[r] = "wait")
    BY <2>1, <2>2, AfterRead
  <2> QED  BY <2>1, <2>3 DEF LineInv, KeepsLock
<1>7. ASSUME NEW r \in Readers, pc[r] # "wait", Leave(r), UNCHANGED queue,
             holder' = IF holder = r THEN None ELSE holder
      PROVE  LineInv'
  <2>1. Waiting' = Waiting
    BY <1>7 DEF Leave, Waiting, FetcherHolds
  <2> QED  BY <1>7, <2>1 DEF LineInv, Leave, FetcherHolds, Lined
<1>8. ASSUME NEW r \in Readers, Cancel(r)
      PROVE  LineInv'
  <2>1. CASE pc[r] = "fetch" /\ UNCHANGED queue
    BY <1>7, <1>8, <2>1 DEF Cancel
  <2>2. ASSUME NEW i \in 1..Len(queue), queue[i] = r, queue' = RemoveAt(queue, i)
        PROVE  LineInv'
    <3>1. Lined(queue', Waiting \ {r})
      BY <2>2, LeavesLine DEF LineInv
    <3>2. Waiting' = Waiting \ {r}
      BY <1>8 DEF Cancel, Leave, Waiting, FetcherHolds
    <3> QED  BY <1>8, <3>1, <3>2 DEF LineInv, Cancel, Leave, FetcherHolds
  <2> QED  BY <1>8, <2>1, <2>2 DEF Cancel
<1>9. ASSUME NEW r \in Readers, FetchError(r)
      PROVE  LineInv'
  BY <1>7, <1>9 DEF FetchError, FetcherHolds
<1>10. ASSUME NEW r \in Readers, Finish(r)
       PROVE  LineInv'
  <2>1. pc[r] = "back" /\ Leave(r) /\ UNCHANGED <<queue, holder>>
    BY <1>10 DEF Finish, lock
  <2> QED  BY <1>7, <2>1 DEF LineInv
<1>11. CASE Tick
  BY <1>11 DEF Tick, lock, LineInv, Waiting, Lined
<1> QED
  BY <1>1, <1>2, <1>3, <1>4, <1>5, <1>6, <1>8, <1>9, <1>10, <1>11
  DEF Next, Serve, Miss, AskPurge, Begin

-----------------------------------------------------------------------------
(* What else the reads rely on. *)
Ages ==
    /\ stamp \in [Kinds -> Absent..AgeCap]
    /\ born \in [Kinds -> 0..AgeCap]
    /\ asked \in [Readers -> 0..AgeCap]
    /\ fetchAge \in 0..Deadline
    /\ answer \in [Readers -> 0..AgeCap]

(* A reader reads its goal or the networks; a purge is nobody's detour. *)
Goals ==
    /\ goal \in [Readers -> Kinds \cup {None, Purge}]
    /\ want \in [Readers -> Kinds \cup {None, Purge}]
    /\ \A r \in Readers : pc[r] = "wait" =>
          (goal[r] \in Kinds /\ want[r] \in {goal[r], Networks}) \/ (want[r] = Purge /\ goal[r] = Purge)
    /\ \A r \in Readers : pc[r] = "fetch" => goal[r] \in Kinds /\ want[r] \in {goal[r], Networks}

(* Nothing that was requested before an invalidation outlives it. *)
NoneOutdated ==
    /\ outdated \subseteq {Purge}
    /\ Purge \in outdated => \A r \in Readers : pc[r] # "fetch"

(* Not counting the detour through the networks. *)
Fresh(r) ==
    LET age == answer[r] - DetourTime(r) IN age < Late[goal[r]] \/ age <= Deadline

(* Timestamps are at least as old as the data they stand for. *)
Freshness ==
    /\ \A k \in Kinds : Present(k) => born[k] <= stamp[k]
    /\ \A r \in Readers : pc[r] = "fetch" => fetchAge <= asked[r]
    /\ \A r \in Readers :
          pc[r] \in {"wait", "fetch"} /\ want[r] # goal[r] => Fresh(r)
    /\ \A r \in Readers : pc[r] = "back" /\ goal[r] # Purge => Fresh(r)

IInv == FetcherHolds /\ Ages /\ Goals /\ NoneOutdated /\ Freshness

(* Reading an entry in time leaves the reader with a fresh answer, on its way *)
(* back or to the networks.                                                   *)
LEMMA ReadIsFresh ==
    ASSUME NEW r \in Readers, NEW k \in Kinds, NEW age \in 0..AgeCap, NEW q,
           IInv, HasRead(r, k, age, FALSE, q),
           goal' \in [Readers -> Kinds \cup {None, Purge}], goal'[r] \in Kinds,
           \A o \in Readers : o # r => goal'[o] = goal[o],
           k = goal'[r] => age < Late[k] \/ age <= Deadline,
           k # goal'[r] => goal'[r] = goal[r] /\ pc[r] \in {"wait", "fetch"} /\ want[r] = k,
           k # goal'[r] => Fresh(r),
           \A o \in Readers : o # r /\ pc[o] = "fetch" => holder' = o,
           \A o \in Readers : o # r /\ pc[o] = "fetch" => fetchAge' <= asked[o]
    PROVE  /\ answer' \in [Readers -> 0..AgeCap]
           /\ asked' \in [Readers -> 0..AgeCap]
           /\ FetcherHolds' /\ Goals'
           /\ \A o \in Readers : pc'[o] = "fetch" => pc[o] = "fetch" /\ o # r
           /\ \A o \in Readers : pc'[o] = "fetch" => fetchAge' <= asked'[o]
           /\ \A o \in Readers : pc'[o] \in {"wait", "fetch"} /\ want'[o] # goal'[o] => Fresh(o)'
           /\ \A o \in Readers : pc'[o] = "back" /\ goal'[o] # Purge => Fresh(o)'
<1> USE NamesAssumption, KindsAssumption, AgesAssumption
<1>1. answer' \in [Readers -> 0..AgeCap] /\ asked' \in [Readers -> 0..AgeCap]
  <2> DEFINE read == IF k # goal'[r] THEN answer[r] ELSE age
  <2>1. answer' = [answer EXCEPT ![r] = read]
    BY DEF HasRead
  <2>2. read \in 0..AgeCap
    BY DEF IInv, Ages
  <2>3. answer' \in [Readers -> 0..AgeCap]
    <3> HIDE DEF read
    <3> QED  BY <2>1, <2>2 DEF IInv, Ages
  <2>4. asked' = [asked EXCEPT ![r] = 0] \/ asked' = asked
    BY DEF HasRead, WaitFor, GoBack
  <2>5. asked' \in [Readers -> 0..AgeCap]
    BY <2>4 DEF IInv, Ages
  <2> QED  BY <2>3, <2>5
<1>2. FetcherHolds' /\ \A o \in Readers : pc'[o] = "fetch" => pc[o] = "fetch" /\ o # r
  BY DEF HasRead, WaitFor, GoBack, IInv, FetcherHolds
<1>3. Goals'
  <2>1. want' = [want EXCEPT ![r] = Networks] \/ want' = want
    BY DEF HasRead, WaitFor, GoBack
  <2>2. /\ pc'[r] = "wait" => want'[r] = Networks
        /\ pc'[r] \in {"wait", "back"}
    BY DEF HasRead, WaitFor, GoBack, IInv, Goals, FetcherHolds
  <2>3. \A o \in Readers : o # r => want'[o] = want[o] /\ pc'[o] = pc[o]
    BY DEF HasRead, WaitFor, GoBack, IInv, Goals, FetcherHolds
  <2>4. \A o \in Readers : pc'[o] = "wait" =>
            \/ goal'[o] \in Kinds /\ want'[o] \in {goal'[o], Networks}
            \/ want'[o] = Purge /\ goal'[o] = Purge
    BY <2>2, <2>3 DEF IInv, Goals
  <2>5. \A o \in Readers : pc'[o] = "fetch" =>
            goal'[o] \in Kinds /\ want'[o] \in {goal'[o], Networks}
    BY <2>2, <2>3 DEF IInv, Goals
  <2>6. want' \in [Readers -> Kinds \cup {None, Purge}]
    BY <2>1 DEF IInv, Goals
  <2> QED  BY <2>4, <2>5, <2>6 DEF Goals
<1>4. \A o \in Readers : pc'[o] = "fetch" => fetchAge' <= asked'[o]
  BY <1>2 DEF HasRead, WaitFor, GoBack, IInv, Ages
<1>5. Fresh(r)'
  <2>1. CASE k = goal'[r]
    <3>1. answer'[r] = age
      BY <2>1 DEF HasRead, IInv, Ages
    <3>2. asked'[r] \in Nat
      BY <1>1
    <3>3. Late[k] \in Int /\ Deadline \in Int
      OBVIOUS
    <3>4. CASE want'[r] = goal'[r]
      BY <2>1, <3>1, <3>3, <3>4 DEF Fresh, DetourTime
    <3>5. CASE want'[r] # goal'[r]
      BY <2>1, <3>1, <3>2, <3>3, <3>5 DEF Fresh, DetourTime
    <3> QED  BY <3>4, <3>5
  <2>2. CASE k # goal'[r]
    <3>1. k = Networks /\ ~NeedsNetworks(k)
      BY <2>2 DEF IInv, Goals, NeedsNetworks
    <3>2. UNCHANGED <<want, asked>> /\ answer'[r] = answer[r]
      BY <2>2, <3>1 DEF HasRead, GoBack, IInv, Ages
    <3>3. DetourTime(r)' = DetourTime(r)
      BY <2>2, <3>2 DEF DetourTime
    <3> QED  BY <2>2, <3>2, <3>3 DEF Fresh
  <2> QED  BY <2>1, <2>2
<1>6. \A o \in Readers : o # r =>
          /\ answer'[o] = answer[o] /\ goal'[o] = goal[o] /\ pc'[o] = pc[o]
          /\ want'[o] = want[o] /\ asked'[o] = asked[o]
  BY DEF HasRead, WaitFor, GoBack, IInv, FetcherHolds, Goals, Ages
<1>7. \A o \in Readers : o # r /\ Fresh(o) => Fresh(o)'
  BY <1>6 DEF Fresh, DetourTime
<1>8. \A o \in Readers : pc'[o] \in {"wait", "fetch"} /\ want'[o] # goal'[o] => Fresh(o)'
  BY <1>5, <1>6, <1>7 DEF IInv, Freshness
<1>9. \A o \in Readers : pc'[o] = "back" /\ goal'[o] # Purge => Fresh(o)'
  BY <1>5, <1>6, <1>7 DEF IInv, Freshness
<1> QED  BY <1>1, <1>2, <1>3, <1>4, <1>8, <1>9

(* A reader that leaves disturbs nobody. *)
LEMMA LeavingIsSafe ==
    ASSUME NEW r \in Readers, IInv, Leave(r),
           \A o \in Readers : o # r /\ pc[o] = "fetch" => holder' = o,
           UNCHANGED <<stamp, fetchAge, born, outdated>>
    PROVE  IInv'
<1> USE NamesAssumption, KindsAssumption, AgesAssumption
<1>1. FetcherHolds' /\ \A o \in Readers : pc'[o] = "fetch" => pc[o] = "fetch" /\ o # r
  BY DEF Leave, IInv, FetcherHolds
<1>2. Ages'
  BY DEF Leave, IInv, Ages
<1>3. Goals'
  BY DEF Leave, IInv, Goals, FetcherHolds
<1>4. NoneOutdated'
  BY <1>1 DEF IInv, NoneOutdated
<1>5. \A o \in Readers : o # r =>
          /\ answer'[o] = answer[o] /\ goal'[o] = goal[o] /\ pc'[o] = pc[o]
          /\ want'[o] = want[o] /\ asked'[o] = asked[o]
  BY DEF Leave, IInv, FetcherHolds, Goals, Ages
<1>6. pc'[r] = "idle"
  BY DEF Leave, IInv, FetcherHolds
<1>7. Freshness'
  BY <1>5, <1>6 DEF IInv, Freshness, Fresh, DetourTime, Present
<1> QED  BY <1>1, <1>2, <1>3, <1>4, <1>7 DEF IInv

LEMMA InitInv == Init => IInv
  BY NamesAssumption, KindsAssumption, AgesAssumption
  DEF Init, IInv, FetcherHolds, Ages, Goals, NoneOutdated, Freshness, Fresh, DetourTime, Present, Absent

(* Beginning a read. *)
LEMMA HitKeeps ==
    ASSUME NEW r \in Readers, NEW k \in Kinds, IInv, Hit(r, k)
    PROVE  IInv'
<1> USE NamesAssumption, KindsAssumption, AgesAssumption
<1>1. /\ pc[r] = "idle" /\ goal' = [goal EXCEPT ![r] = k] /\ MayHit(k)
      /\ HasRead(r, k, born[k], k \in outdated, queue)
      /\ UNCHANGED <<stamp, holder, fetchAge, born, outdated>>
  BY DEF Hit, Begin
<1>2. k \notin outdated /\ born[k] \in 0..AgeCap /\ born[k] < Late[k]
  BY <1>1 DEF IInv, NoneOutdated, Ages, Freshness, MayHit
<1>3. HasRead(r, k, born[k], FALSE, queue)
  BY <1>1, <1>2 DEF HasRead
<1>4. /\ goal' \in [Readers -> Kinds \cup {None, Purge}] /\ goal'[r] = k
      /\ \A o \in Readers : o # r => goal'[o] = goal[o]
  BY <1>1 DEF IInv, Goals
<1>5. /\ \A o \in Readers : o # r /\ pc[o] = "fetch" => holder' = o
      /\ \A o \in Readers : o # r /\ pc[o] = "fetch" => fetchAge' <= asked[o]
  BY <1>1 DEF IInv, FetcherHolds, Freshness
<1>6. /\ answer' \in [Readers -> 0..AgeCap] /\ asked' \in [Readers -> 0..AgeCap]
      /\ FetcherHolds' /\ Goals'
      /\ \A o \in Readers : pc'[o] = "fetch" => pc[o] = "fetch" /\ o # r
      /\ \A o \in Readers : pc'[o] = "fetch" => fetchAge' <= asked'[o]
      /\ \A o \in Readers : pc'[o] \in {"wait", "fetch"} /\ want'[o] # goal'[o] => Fresh(o)'
      /\ \A o \in Readers : pc'[o] = "back" /\ goal'[o] # Purge => Fresh(o)'
  BY <1>2, <1>3, <1>4, <1>5, ReadIsFresh
<1>7. Ages' /\ NoneOutdated'
  BY <1>1, <1>6 DEF IInv, Ages, NoneOutdated
<1>8. Freshness'
  BY <1>1, <1>6 DEF IInv, Freshness, Present
<1> QED  BY <1>6, <1>7, <1>8 DEF IInv

(* r joins the queue for k without having read anything. *)
LEMMA JoiningIsSafe ==
    ASSUME NEW r \in Readers, NEW k \in Kinds \cup {Purge}, NEW q, IInv,
           Begin(r, k), WaitFor(r, k, q),
           UNCHANGED <<stamp, holder, fetchAge, born, outdated, answer>>
    PROVE  IInv'
<1> USE NamesAssumption, KindsAssumption, AgesAssumption
<1>1. /\ \A o \in Readers : o # r =>
            /\ goal'[o] = goal[o] /\ pc'[o] = pc[o] /\ want'[o] = want[o] /\ asked'[o] = asked[o]
      /\ pc'[r] = "wait" /\ want'[r] = k /\ goal'[r] = k
  BY DEF Begin, WaitFor, IInv, FetcherHolds, Goals, Ages
<1>2. FetcherHolds'
  BY <1>1 DEF Begin, WaitFor, IInv, FetcherHolds
<1>3. Ages' /\ NoneOutdated'
  BY <1>1 DEF WaitFor, IInv, Ages, NoneOutdated
<1>4. Goals'
  BY <1>1 DEF Begin, WaitFor, IInv, Goals
<1>5. Freshness'
  BY <1>1 DEF IInv, Freshness, Fresh, DetourTime, Present
<1> QED  BY <1>2, <1>3, <1>4, <1>5 DEF IInv

(* The second look, under the lock. *)
LEMMA HitLockedKeeps ==
    ASSUME NEW r \in Readers, IInv, pc[r] = "wait", HitLocked(r)
    PROVE  IInv'
<1> USE NamesAssumption, KindsAssumption, AgesAssumption
<1> DEFINE k == want[r]
<1>1. /\ holder = None /\ k # Purge /\ MayHit(k)
      /\ holder' = IF KeepsLock(k) THEN r ELSE None
      /\ HasRead(r, k, born[k], k \in outdated /\ r \in late, Tail(queue))
      /\ UNCHANGED <<stamp, fetchAge, born, outdated, goal>>
  BY DEF HitLocked, Granted
<1>2. k \in Kinds /\ k \notin outdated /\ born[k] \in 0..AgeCap /\ born[k] < Late[k]
  BY <1>1 DEF IInv, Goals, NoneOutdated, Ages, Freshness, MayHit
<1>3. HasRead(r, k, born[k], FALSE, Tail(queue))
  BY <1>1, <1>2 DEF HasRead
<1>4. \A o \in Readers : pc[o] # "fetch"
  BY <1>1 DEF IInv, FetcherHolds
<1>5. /\ goal' \in [Readers -> Kinds \cup {None, Purge}] /\ goal'[r] \in Kinds
      /\ \A o \in Readers : o # r => goal'[o] = goal[o]
  BY <1>1 DEF IInv, Goals
<1>6. k # goal'[r] => Fresh(r)
  BY <1>1 DEF IInv, Freshness
<1> HIDE DEF k
<1>7. /\ answer' \in [Readers -> 0..AgeCap] /\ asked' \in [Readers -> 0..AgeCap]
      /\ FetcherHolds' /\ Goals'
      /\ \A o \in Readers : pc'[o] = "fetch" => pc[o] = "fetch" /\ o # r
      /\ \A o \in Readers : pc'[o] = "fetch" => fetchAge' <= asked'[o]
      /\ \A o \in Readers : pc'[o] \in {"wait", "fetch"} /\ want'[o] # goal'[o] => Fresh(o)'
      /\ \A o \in Readers : pc'[o] = "back" /\ goal'[o] # Purge => Fresh(o)'
  BY <1>1, <1>2, <1>3, <1>4, <1>5, <1>6, ReadIsFresh DEF k
<1>8. Ages' /\ NoneOutdated'
  BY <1>1, <1>7 DEF IInv, Ages, NoneOutdated
<1>9. Freshness'
  BY <1>1, <1>7 DEF IInv, Freshness, Present
<1> QED  BY <1>7, <1>8, <1>9 DEF IInv

(* The end of a fetch. *)
LEMMA FetchedKeeps ==
    ASSUME NEW r \in Readers, IInv, Fetched(r)
    PROVE  IInv'
<1> USE NamesAssumption, KindsAssumption, AgesAssumption
<1> DEFINE k == want[r]
<1>1. /\ pc[r] = "fetch"
      /\ stamp' = [stamp EXCEPT ![k] = asked[r]]
      /\ born' = [born EXCEPT ![k] = fetchAge]
      /\ outdated' = IF Purge \in outdated THEN outdated \cup {k} ELSE outdated \ {k}
      /\ HasRead(r, k, fetchAge, Purge \in outdated /\ r \in late, queue)
      /\ UNCHANGED <<goal, fetchAge>>
  BY DEF Fetched, Stamp
<1>2. /\ k \in Kinds /\ goal[r] \in Kinds /\ outdated = {} /\ fetchAge <= asked[r]
      /\ fetchAge \in 0..AgeCap /\ fetchAge <= Deadline /\ asked[r] \in 0..AgeCap
  BY <1>1 DEF IInv, Goals, NoneOutdated, Ages, Freshness
<1>3. HasRead(r, k, fetchAge, FALSE, queue)
  BY <1>1, <1>2 DEF HasRead
<1>4. /\ \A o \in Readers : o # r => pc[o] # "fetch"
      /\ k # goal[r] => Fresh(r)
  BY <1>1 DEF IInv, FetcherHolds, Freshness
<1>5. /\ goal' \in [Readers -> Kinds \cup {None, Purge}] /\ goal'[r] \in Kinds
      /\ \A o \in Readers : o # r => goal'[o] = goal[o]
  BY <1>1, <1>2 DEF IInv, Goals
<1> HIDE DEF k
<1>6. /\ answer' \in [Readers -> 0..AgeCap] /\ asked' \in [Readers -> 0..AgeCap]
      /\ FetcherHolds' /\ Goals'
      /\ \A o \in Readers : pc'[o] = "fetch" => pc[o] = "fetch" /\ o # r
      /\ \A o \in Readers : pc'[o] = "fetch" => fetchAge' <= asked'[o]
      /\ \A o \in Readers : pc'[o] \in {"wait", "fetch"} /\ want'[o] # goal'[o] => Fresh(o)'
      /\ \A o \in Readers : pc'[o] = "back" /\ goal'[o] # Purge => Fresh(o)'
  BY <1>1, <1>2, <1>3, <1>4, <1>5, ReadIsFresh DEF k
<1>7. Ages' /\ NoneOutdated'
  <2>1. outdated' = {}
    BY <1>1, <1>2
  <2>2. stamp' \in [Kinds -> Absent..AgeCap] /\ born' \in [Kinds -> 0..AgeCap]
    BY <1>1, <1>2 DEF IInv, Ages, Absent
  <2> QED  BY <1>1, <1>6, <2>1, <2>2 DEF IInv, Ages, NoneOutdated
<1>8. \A c \in Kinds : Present(c)' => born'[c] <= stamp'[c]
  BY <1>1, <1>2 DEF IInv, Ages, Freshness, Present
<1>9. Freshness'
  BY <1>6, <1>8 DEF Freshness
<1> QED  BY <1>6, <1>7, <1>9 DEF IInv

(* The lock is granted to start a fetch. *)
LEMMA MissLockedKeeps ==
    ASSUME NEW r \in Readers, IInv, pc[r] = "wait", MissLocked(r)
    PROVE  IInv'
<1> USE NamesAssumption, KindsAssumption, AgesAssumption
<1>1. /\ holder = None /\ want[r] # Purge /\ holder' = r
      /\ pc' = [pc EXCEPT ![r] = "fetch"]
      /\ fetchAge' = 0 /\ outdated' = outdated \ {Purge}
      /\ UNCHANGED <<stamp, goal, want, asked, born, answer>>
  BY DEF MissLocked, Granted
<1>2. \A o \in Readers : pc[o] # "fetch"
  BY <1>1 DEF IInv, FetcherHolds
<1>3. FetcherHolds'
  BY <1>1, <1>2 DEF IInv, FetcherHolds
<1>4. Ages' /\ NoneOutdated'
  BY <1>1 DEF IInv, Ages, NoneOutdated
<1>5. Goals'
  BY <1>1 DEF IInv, Goals, FetcherHolds
<1>6. Freshness'
  BY <1>1, <1>2 DEF IInv, Freshness, Fresh, DetourTime, Present, FetcherHolds, Ages
<1> QED  BY <1>3, <1>4, <1>5, <1>6 DEF IInv

LEMMA PurgeLockedKeeps ==
    ASSUME NEW r \in Readers, IInv, pc[r] = "wait", PurgeLocked(r)
    PROVE  IInv'
<1> USE NamesAssumption, KindsAssumption, AgesAssumption
<1>1. /\ holder = None /\ want[r] = Purge
      /\ stamp' = [k \in Kinds |-> Absent]
      /\ pc' = [pc EXCEPT ![r] = "back"] /\ outdated' = {Purge}
      /\ UNCHANGED <<holder, goal, want, asked, fetchAge, born, answer>>
  BY DEF PurgeLocked, Granted
<1>2. (\A o \in Readers : pc[o] # "fetch") /\ goal[r] = Purge
  BY <1>1 DEF IInv, FetcherHolds, Goals
<1>3. FetcherHolds' /\ Goals'
  BY <1>1, <1>2 DEF IInv, FetcherHolds, Goals
<1>4. Ages' /\ NoneOutdated'
  BY <1>1, <1>2 DEF IInv, Ages, NoneOutdated, FetcherHolds, Absent
<1>5. Freshness'
  BY <1>1, <1>2 DEF IInv, Freshness, Fresh, DetourTime, Present, FetcherHolds
<1> QED  BY <1>3, <1>4, <1>5 DEF IInv

LEMMA TickKeeps ==
    ASSUME IInv, Tick
    PROVE  IInv'
<1> USE NamesAssumption, KindsAssumption, AgesAssumption
<1>1. /\ stamp' = [k \in Kinds |-> IF Present(k) THEN Older(stamp[k]) ELSE Absent]
      /\ born' = [k \in Kinds |-> IF Present(k) THEN Older(born[k]) ELSE 0]
      /\ asked' = [r \in Readers |-> IF pc[r] \in {"wait", "fetch"} THEN Older(asked[r]) ELSE 0]
      /\ fetchAge' = IF Fetching THEN fetchAge + 1 ELSE 0
      /\ Fetching => fetchAge < Deadline
      /\ answer' = [r \in Readers |-> HandAged(r)]
      /\ \A r \in Readers : pc[r] # "back"
      /\ UNCHANGED <<holder, queue, pc, goal, want, outdated>>
  BY DEF Tick, lock, BeforeDeadline
<1>2. /\ \A a \in 0..AgeCap : Older(a) \in 0..AgeCap
      /\ \A a, b \in 0..AgeCap : a <= b => Older(a) <= Older(b)
      /\ \A a \in 0..AgeCap, b \in 0..Deadline : b <= a /\ b < Deadline => b + 1 <= Older(a)
      /\ \A a, b \in 0..AgeCap : Older(a) - Older(b) <= a - b \/ Older(a) - Older(b) <= 0
  BY DEF Older
<1>3. \A k \in Kinds : Present(k) => stamp[k] \in 0..AgeCap
  BY DEF IInv, Ages, Present, Absent
<1> HIDE DEF Older
<1>4. fetchAge' \in 0..Deadline
  BY <1>1 DEF IInv, Ages
<1>5. stamp' \in [Kinds -> Absent..AgeCap] /\ born' \in [Kinds -> 0..AgeCap]
  BY <1>1, <1>2, <1>3 DEF IInv, Ages, Absent
<1>6. asked' \in [Readers -> 0..AgeCap]
  BY <1>1, <1>2 DEF IInv, Ages
<1>7. answer' \in [Readers -> 0..AgeCap]
  <2>1. \A r \in Readers : HandAged(r) \in 0..AgeCap
    BY <1>2 DEF HandAged, IInv, Ages
  <2> QED  BY <1>1, <2>1
<1>8. Ages'
  BY <1>1, <1>4, <1>5, <1>6, <1>7 DEF IInv, Ages
<1>9. \A k \in Kinds : Present(k)' => Present(k) /\ born'[k] <= stamp'[k]
  BY <1>1, <1>2, <1>3 DEF IInv, Ages, Freshness, Present, Absent
<1>10. \A r \in Readers : pc'[r] = "fetch" => fetchAge' <= asked'[r]
  BY <1>1, <1>2 DEF IInv, Ages, Freshness, Fetching
<1>11. ASSUME NEW r \in Readers, pc[r] \in {"wait", "fetch"}, want[r] # goal[r]
       PROVE  Fresh(r)'
  <2>1. goal[r] \in Kinds /\ Late[goal[r]] \in Int /\ Deadline \in Nat
    BY <1>11 DEF IInv, Goals
  <2>2. answer[r] \in 0..AgeCap /\ asked[r] \in 0..AgeCap /\ answer[r] # Wrong
    BY DEF IInv, Ages, Wrong
  <2>3. answer'[r] = Older(answer[r]) /\ asked'[r] = Older(asked[r]) /\ goal'[r] = goal[r] /\ want'[r] = want[r]
    BY <1>1, <1>11, <2>2 DEF HandAged, Detours
  <2>4. LET age == answer[r] - asked[r] IN age < Late[goal[r]] \/ age <= Deadline
    BY <1>11 DEF IInv, Freshness, Fresh, DetourTime
  <2>5. Older(answer[r]) - Older(asked[r]) <= answer[r] - asked[r] \/ Older(answer[r]) - Older(asked[r]) <= 0
    BY <1>2, <2>2
  <2>6. Older(answer[r]) \in Int /\ Older(asked[r]) \in Int
    BY <1>2, <2>2
  <2>7. LET age == Older(answer[r]) - Older(asked[r]) IN age < Late[goal[r]] \/ age <= Deadline
    BY <2>1, <2>2, <2>4, <2>5, <2>6
  <2> QED  BY <1>11, <2>3, <2>7 DEF Fresh, DetourTime
<1>12. Freshness'
  BY <1>1, <1>9, <1>10, <1>11 DEF IInv, Freshness
<1>13. FetcherHolds' /\ Goals' /\ NoneOutdated'
  BY <1>1 DEF IInv, FetcherHolds, Goals, NoneOutdated
<1> QED  BY <1>8, <1>13, <1>12 DEF IInv

LEMMA InvStep ==
    ASSUME IInv, LineInv, Next
    PROVE  IInv'
<1>1. ASSUME NEW r \in Readers, NEW k \in Kinds, Miss(r, k)
      PROVE  IInv'
  BY <1>1, JoiningIsSafe DEF Miss
<1>2. ASSUME NEW r \in Readers, AskPurge(r)
      PROVE  IInv'
  BY <1>2, JoiningIsSafe DEF AskPurge
<1>3. ASSUME NEW r \in Readers, HitLocked(r) \/ MissLocked(r) \/ PurgeLocked(r)
      PROVE  IInv'
  <2>1. pc[r] = "wait"
    BY <1>3, GrantedWaits DEF HitLocked, MissLocked, PurgeLocked
  <2> QED  BY <1>3, <2>1, HitLockedKeeps, MissLockedKeeps, PurgeLockedKeeps
<1>4. ASSUME NEW r \in Readers, FetchError(r) \/ Cancel(r) \/ Finish(r)
      PROVE  IInv'
  <2>1. /\ Leave(r) /\ UNCHANGED <<stamp, fetchAge, born, outdated>>
        /\ holder' = holder \/ holder = r \/ pc[r] = "fetch"
    BY <1>4 DEF FetchError, Cancel, Finish, lock
  <2>2. \A o \in Readers : o # r /\ pc[o] = "fetch" => holder' = o
    BY <2>1 DEF IInv, FetcherHolds
  <2> QED  BY <2>1, <2>2, LeavingIsSafe
<1>5. CASE Tick
  BY <1>5, TickKeeps
<1> QED
  BY <1>1, <1>2, <1>3, <1>4, <1>5, HitKeeps, FetchedKeeps DEF Next, Serve

-----------------------------------------------------------------------------
LEMMA LineAndInv == Spec => [](IInv /\ LineInv)
<1>1. Init => IInv /\ LineInv
  <2>1. Init => LineInv
    BY NamesAssumption DEF Init, LineInv, Lined, Waiting
  <2> QED  BY <2>1, InitInv
<1>2. IInv /\ LineInv /\ [Next]_vars => (IInv /\ LineInv)'
  <2>1. ASSUME IInv, LineInv, Next
        PROVE  IInv' /\ LineInv'
    BY <2>1, InvStep, LineStep DEF IInv
  <2>2. ASSUME IInv, LineInv, UNCHANGED vars
        PROVE  IInv' /\ LineInv'
    BY <2>2 DEF vars, lock, call, IInv, FetcherHolds, Ages, Goals, NoneOutdated,
                Freshness, Fresh, DetourTime, Present, LineInv, Lined, Waiting
  <2> QED  BY <2>1, <2>2
<1> QED  BY <1>1, <1>2, PTL DEF Spec

(* Fetches never overlap, a reader waits in line once or not at all, and a    *)
(* held lock is held by a reader that will go on: for every number of         *)
(* readers, whatever fails or is cancelled (async with self._lock).           *)
THEOREM LockSafe == Spec => []LockDiscipline
<1>1. FetcherHolds /\ LineInv => LockDiscipline
  <2> SUFFICES ASSUME FetcherHolds, LineInv
               PROVE  LockDiscipline
    OBVIOUS
  <2>1. DOMAIN queue = 1..Len(queue)
    BY LenProperties DEF LineInv, Lined
  <2>2. IsInjective(queue)
    BY <2>1 DEF IsInjective, LineInv, Lined
  <2>3. \A r \in Readers : pc[r] = "wait" <=> r \in Range(queue)
    BY <2>1 DEF Range, LineInv, Lined, Waiting
  <2> QED  BY <2>2, <2>3 DEF LockDiscipline, FetcherHolds, LineInv
<1> QED  BY <1>1, LineAndInv, PTL DEF IInv

(* Whatever readers do, the late ones are readers. *)
LEMMA LateOnes == Spec => [](late \subseteq Readers)
<1>1. Init => late \subseteq Readers
  BY DEF Init
<1>2. late \subseteq Readers /\ [Next]_vars => (late \subseteq Readers)'
  BY DEF Next, vars, Serve, Hit, Miss, AskPurge, Begin, HitLocked, MissLocked, PurgeLocked,
         Fetched, FetchError, Finish, Cancel, Leave, Tick
<1> QED  BY <1>1, <1>2, PTL DEF Spec

(* Nothing requested before an invalidation is given to a reader that begins  *)
(* after it (invalidate).                                                     *)
THEOREM InvalidationKept == Spec => []InvalidationHolds
<1>1. IInv => InvalidationHolds
  BY DEF IInv, Ages, InvalidationHolds, Wrong
<1> QED  BY <1>1, LineAndInv, PTL

(* What a reader is given is no older than the jittered TTL of its entry, or  *)
(* than one fetch takes, not counting how long the networks for its filter    *)
(* took to read with the data in hand (_is_expired).                          *)
THEOREM FreshnessKept == Spec => []FreshAnswers
<1>1. IInv => FreshAnswers
  BY DEF IInv, Freshness, FreshAnswers, Fresh
<1> QED  BY <1>1, LineAndInv, PTL

-----------------------------------------------------------------------------
(* A forced reader is none that idles or invalidates, and has its answer from *)
(* a fetch of its own.                                                        *)
ForcedInv ==
    /\ forced \subseteq Readers
    /\ \A r \in forced : pc[r] # "idle" /\ goal[r] # Purge
    /\ \A r \in forced : pc[r] = "back" => answer[r] <= asked[r] \/ want[r] # goal[r]

(* What r does to others that were forced. *)
LEMMA OthersForced ==
    ASSUME NEW r \in Readers, IInv, ForcedInv, forced' \subseteq forced \cup {r},
           \A o \in Readers \ {r} :
               /\ pc'[o] = pc[o] /\ goal'[o] = goal[o] /\ want'[o] = want[o]
               /\ asked'[o] = asked[o] /\ answer'[o] = answer[o],
           r \in forced' =>
               /\ pc'[r] # "idle" /\ goal'[r] # Purge
               /\ pc'[r] = "back" => answer'[r] <= asked'[r] \/ want'[r] # goal'[r]
    PROVE  ForcedInv'
  BY DEF ForcedInv

LEMMA ReadForced ==
    ASSUME NEW r \in Readers, NEW k, NEW age, NEW old, NEW q, IInv, HasRead(r, k, age, old, q)
    PROVE  /\ \A o \in Readers \ {r} :
                 /\ pc'[o] = pc[o] /\ want'[o] = want[o]
                 /\ asked'[o] = asked[o] /\ answer'[o] = answer[o]
           /\ pc'[r] # "idle"
           /\ pc'[r] = "back" => want'[r] = want[r] /\ asked'[r] = asked[r]
  BY DEF HasRead, WaitFor, GoBack, IInv, FetcherHolds, Goals, Ages

LEMMA ForcedStep ==
    ASSUME IInv, LineInv, ForcedInv, Next
    PROVE  ForcedInv'
<1> USE NamesAssumption
<1>1. ASSUME NEW r \in Readers, NEW k \in Kinds, Hit(r, k)
      PROVE  ForcedInv'
  <2>1. /\ pc[r] = "idle" /\ goal' = [goal EXCEPT ![r] = k] /\ forced' = forced
        /\ HasRead(r, k, born[k], k \in outdated, queue)
    BY <1>1 DEF Hit, Begin
  <2>2. r \notin forced /\ \A o \in Readers \ {r} : goal'[o] = goal[o]
    BY <2>1 DEF ForcedInv, IInv, Goals
  <2> QED  BY <2>1, <2>2, ReadForced, OthersForced
<1>2. ASSUME NEW r \in Readers, NEW k \in Kinds \cup {Purge}, pc[r] = "idle",
             Begin(r, k), WaitFor(r, k, queue), UNCHANGED answer,
             forced' = forced \/ (k # Purge /\ forced' = forced \cup {r})
      PROVE  ForcedInv'
  <2>1. r \notin forced
    BY <1>2 DEF ForcedInv
  <2>2. pc'[r] = "wait" /\ goal'[r] = k
    BY <1>2 DEF Begin, WaitFor, IInv, FetcherHolds, Goals
  <2>3. \A o \in Readers \ {r} :
            /\ pc'[o] = pc[o] /\ goal'[o] = goal[o] /\ want'[o] = want[o]
            /\ asked'[o] = asked[o] /\ answer'[o] = answer[o]
    BY <1>2 DEF Begin, WaitFor, IInv, FetcherHolds, Goals, Ages
  <2> QED  BY <1>2, <2>1, <2>2, <2>3, OthersForced
<1>3. ASSUME NEW r \in Readers, HitLocked(r)
      PROVE  ForcedInv'
  <2>1. /\ pc[r] = "wait" /\ goal' = goal /\ forced' = forced /\ ~Bypasses(r) /\ want[r] # Purge
        /\ HasRead(r, want[r], born[want[r]], want[r] \in outdated /\ r \in late, Tail(queue))
    BY <1>3, GrantedWaits DEF HitLocked
  <2>2. r \in forced => want[r] # goal[r] /\ goal'[r] # Purge
    BY <2>1 DEF Bypasses, ForcedInv
  <2> QED  BY <2>1, <2>2, ReadForced, OthersForced
<1>4. ASSUME NEW r \in Readers, MissLocked(r)
      PROVE  ForcedInv'
  BY <1>4 DEF MissLocked, ForcedInv, IInv, FetcherHolds
<1>5. ASSUME NEW r \in Readers, PurgeLocked(r)
      PROVE  ForcedInv'
  <2>1. goal[r] = Purge
    <3>1. pc[r] = "wait" /\ want[r] = Purge
      BY <1>5, GrantedWaits DEF PurgeLocked
    <3> QED  BY <3>1, KindsAssumption DEF IInv, Goals
  <2> QED  BY <1>5, <2>1 DEF PurgeLocked, ForcedInv, IInv, FetcherHolds
<1>6. ASSUME NEW r \in Readers, Fetched(r)
      PROVE  ForcedInv'
  <2>1. /\ pc[r] = "fetch" /\ goal' = goal /\ forced' = forced /\ fetchAge <= asked[r]
        /\ HasRead(r, want[r], fetchAge, Purge \in outdated /\ r \in late, queue)
    BY <1>6 DEF Fetched, IInv, Freshness
  <2>2. Purge \notin outdated
    BY <2>1 DEF IInv, NoneOutdated
  <2>3. want[r] = goal[r] => answer'[r] = fetchAge
    BY <2>1, <2>2 DEF HasRead, IInv, Ages
  <2>4. r \in forced => goal'[r] # Purge
    BY <2>1 DEF ForcedInv
  <2> QED  BY <2>1, <2>3, <2>4, ReadForced, OthersForced
<1>7. ASSUME NEW r \in Readers, Leave(r)
      PROVE  ForcedInv'
  BY <1>7 DEF Leave, ForcedInv, IInv, FetcherHolds, Goals, Ages
<1>8. CASE Tick
  BY <1>8 DEF Tick, ForcedInv
<1> QED
  BY <1>1, <1>2, <1>3, <1>4, <1>5, <1>6, <1>7, <1>8
  DEF Next, Serve, Miss, AskPurge, Begin, FetchError, Cancel, Finish

LEMMA ForcedHolds == Spec => []ForcedInv
<1>1. Init => ForcedInv
  BY DEF Init, ForcedInv
<1>2. IInv /\ LineInv /\ ForcedInv /\ [Next]_vars => ForcedInv'
  <2>1. ASSUME ForcedInv, UNCHANGED vars
        PROVE  ForcedInv'
    BY <2>1 DEF vars, call, ForcedInv
  <2> QED  BY <2>1, ForcedStep
<1> QED  BY <1>1, <1>2, LineAndInv, PTL DEF Spec

(* However often others fill the entry while it waits for the lock, a forced  *)
(* reader is given nothing requested before it began (force_refresh).         *)
THEOREM ForcedKept == Spec => []ForcedAnswers
<1>1. ForcedInv => ForcedAnswers
  BY DEF ForcedInv, ForcedAnswers
<1> QED  BY <1>1, ForcedHolds, PTL

-----------------------------------------------------------------------------
(* An entry that no look may miss cost at most one fetch, and one that is     *)
(* being fetched, none.                                                       *)
BoughtInv ==
    /\ bought \in [Kinds -> {0, 1}]
    /\ \A k \in Kinds : bought[k] = 1 => stamp[k] # Absent /\ stamp[k] < Early[k]
    /\ \A r \in Readers : pc[r] = "fetch" /\ ~Bypasses(r) => bought[want[r]] = 0

LEMMA StillBought ==
    ASSUME NEW n \in [Kinds -> {0, 1}], Bought(n)
    PROVE  /\ bought' \in [Kinds -> {0, 1}]
           /\ \A k \in Kinds : bought'[k] = 1 => stamp'[k] # Absent /\ stamp'[k] < Early[k]
           /\ \A k \in Kinds : n[k] = 0 => bought'[k] = 0
  BY DEF Bought

LEMMA BoughtStep ==
    ASSUME IInv, LineInv, BoughtInv, Next
    PROVE  BoughtInv'
<1> USE NamesAssumption, KindsAssumption, AgesAssumption
<1>1. ASSUME UNCHANGED <<stamp, bought>>,
             \A r \in Readers : pc'[r] = "fetch" =>
                 pc[r] = "fetch" /\ want'[r] = want[r] /\ (Bypasses(r) => Bypasses(r)')
      PROVE  BoughtInv'
  BY <1>1 DEF BoughtInv
<1>2. ASSUME NEW r \in Readers, NEW k, NEW age, NEW old, NEW q, HasRead(r, k, age, old, q),
             forced' = forced, \A o \in Readers \ {r} : goal'[o] = goal[o]
      PROVE  \A o \in Readers : pc'[o] = "fetch" =>
                 /\ o # r /\ pc[o] = "fetch" /\ want'[o] = want[o]
                 /\ Bypasses(o) => Bypasses(o)'
  BY <1>2 DEF HasRead, WaitFor, GoBack, IInv, FetcherHolds, Goals, Bypasses
<1>3. ASSUME NEW r \in Readers, NEW k \in Kinds, Hit(r, k)
      PROVE  BoughtInv'
  <2>1. /\ HasRead(r, k, born[k], k \in outdated, queue) /\ forced' = forced
        /\ \A o \in Readers \ {r} : goal'[o] = goal[o]
        /\ UNCHANGED <<stamp, bought>>
    BY <1>3 DEF Hit, Begin, IInv, Goals
  <2> QED  BY <1>1, <1>2, <2>1
<1>4. ASSUME NEW r \in Readers, NEW k \in Kinds \cup {Purge}, pc[r] = "idle",
             Begin(r, k), WaitFor(r, k, queue), UNCHANGED <<stamp, bought>>,
             forced' = forced \/ forced' = forced \cup {r}
      PROVE  BoughtInv'
  BY <1>1, <1>4 DEF Begin, WaitFor, IInv, FetcherHolds, Goals, Bypasses
<1>5. ASSUME NEW r \in Readers, HitLocked(r)
      PROVE  BoughtInv'
  <2>1. /\ HasRead(r, want[r], born[want[r]], want[r] \in outdated /\ r \in late, Tail(queue))
        /\ forced' = forced /\ goal' = goal /\ UNCHANGED <<stamp, bought>>
    BY <1>5 DEF HitLocked
  <2> QED  BY <1>1, <1>2, <2>1
<1>6. ASSUME NEW r \in Readers, MissLocked(r)
      PROVE  BoughtInv'
  <2>1. /\ Bypasses(r) \/ MayMiss(want[r])
        /\ pc' = [pc EXCEPT ![r] = "fetch"]
        /\ UNCHANGED <<stamp, goal, want, forced, bought>>
    BY <1>6 DEF MissLocked, MissesLocked
  <2>2. want[r] \in Kinds /\ stamp[want[r]] \in Int /\ Early[want[r]] \in Int
    <3>1. pc[r] = "wait" /\ want[r] # Purge
      BY <1>6, GrantedWaits DEF MissLocked
    <3>2. want[r] \in Kinds
      BY <3>1 DEF IInv, Goals
    <3> QED  BY <3>2 DEF IInv, Ages, Absent
  <2>3. Bypasses(r) \/ bought[want[r]] = 0
    BY <2>1, <2>2 DEF MayMiss, Present, BoughtInv
  <2>4. \A o \in Readers : Bypasses(o)' = Bypasses(o)
    BY <2>1 DEF Bypasses
  <2> QED  BY <2>1, <2>3, <2>4 DEF BoughtInv, IInv, FetcherHolds
<1>7. ASSUME NEW r \in Readers, PurgeLocked(r)
      PROVE  BoughtInv'
  <2>1. /\ Bought(bought) /\ pc' = [pc EXCEPT ![r] = "back"]
        /\ UNCHANGED <<goal, want, forced>>
    BY <1>7 DEF PurgeLocked
  <2>2. \A o \in Readers : pc'[o] = "fetch" => pc[o] = "fetch" /\ want[o] \in Kinds
    BY <2>1 DEF IInv, FetcherHolds, Goals
  <2>3. \A o \in Readers : Bypasses(o)' = Bypasses(o)
    BY <2>1 DEF Bypasses
  <2> QED  BY <2>1, <2>2, <2>3, StillBought DEF BoughtInv
<1>8. ASSUME NEW r \in Readers, Fetched(r)
      PROVE  BoughtInv'
  <2> DEFINE n == IF Bypasses(r) THEN bought ELSE [bought EXCEPT ![want[r]] = @ + 1]
  <2>1. /\ pc[r] = "fetch" /\ goal' = goal /\ forced' = forced
        /\ HasRead(r, want[r], fetchAge, Purge \in outdated /\ r \in late, queue)
        /\ Bought(n)
    BY <1>8 DEF Fetched
  <2>2. n \in [Kinds -> {0, 1}]
    <3>1. want[r] \in Kinds /\ (Bypasses(r) \/ bought[want[r]] = 0)
      BY <2>1 DEF BoughtInv, IInv, Goals
    <3> QED  BY <3>1 DEF BoughtInv
  <2>3. \A o \in Readers : pc'[o] # "fetch"
    BY <1>2, <2>1 DEF IInv, FetcherHolds
  <2> HIDE DEF n
  <2> QED  BY <2>1, <2>2, <2>3, StillBought DEF BoughtInv
<1>9. ASSUME NEW r \in Readers, Leave(r), UNCHANGED <<stamp, bought>>
      PROVE  BoughtInv'
  BY <1>1, <1>9 DEF Leave, IInv, FetcherHolds, Goals, Bypasses
<1>10. CASE Tick
  <2>1. Bought(bought) /\ UNCHANGED <<pc, goal, want, forced>>
    BY <1>10 DEF Tick
  <2>2. \A o \in Readers : pc[o] = "fetch" => want[o] \in Kinds
    BY DEF IInv, Goals
  <2>3. \A o \in Readers : Bypasses(o)' = Bypasses(o)
    BY <2>1 DEF Bypasses
  <2> QED  BY <2>1, <2>2, <2>3, StillBought DEF BoughtInv
<1> QED
  BY <1>3, <1>4, <1>5, <1>6, <1>7, <1>8, <1>9, <1>10
  DEF Next, Serve, Miss, AskPurge, Begin, FetchError, Cancel, Finish

LEMMA BoughtHolds == Spec => []BoughtInv
<1>1. Init => BoughtInv
  BY DEF Init, BoughtInv
<1>2. IInv /\ LineInv /\ BoughtInv /\ [Next]_vars => BoughtInv'
  <2>1. ASSUME BoughtInv, UNCHANGED vars
        PROVE  BoughtInv'
    BY <2>1 DEF vars, call, BoughtInv, Bypasses
  <2> QED  BY <2>1, BoughtStep
<1> QED  BY <1>1, <1>2, LineAndInv, PTL DEF Spec

(* From its filling until a jittered look may expire it or it is dropped, an  *)
(* entry costs the unforced reads of it one fetch: whoever missed it          *)
(* together, failed or was cancelled (the second look, under the lock).       *)
THEOREM FlightKept == Spec => []SingleFlight
<1>1. BoughtInv => SingleFlight
  BY DEF BoughtInv, SingleFlight
<1> QED  BY <1>1, BoughtHolds, PTL

-----------------------------------------------------------------------------
(* The cache's entries, its lock and its readers keep their types: a queue of *)
(* readers, ages up to the bound, no purge outstanding but of the fetch in    *)
(* flight.                                                                    *)
THEOREM TypeCorrect == Spec => []TypeOK
<1>1. IInv /\ LineInv /\ late \subseteq Readers /\ ForcedInv /\ BoughtInv => TypeOK
  <2>1. BoughtInv => bought \in [Kinds -> Nat]
    BY DEF BoughtInv
  <2>2. IInv => answer \in [Readers -> Wrong..AgeCap]
    BY DEF IInv, Ages, Wrong
  <2> QED
    BY <2>1, <2>2 DEF IInv, LineInv, Lined, FetcherHolds, Ages, Goals, NoneOutdated, ForcedInv,
                      TypeOK
<1> QED  BY <1>1, LineAndInv, LateOnes, ForcedHolds, BoughtHolds, PTL

(* With the types, what every answer of the cache keeps to (_is_expired,      *)
(* invalidate).                                                               *)
THEOREM AnswersHold == Spec => []AnswersSound
  BY TypeCorrect, InvalidationKept, FreshnessKept, ForcedKept, PTL DEF AnswersSound
=============================================================================
