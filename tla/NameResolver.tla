----------------------------- MODULE NameResolver -----------------------------
(***************************************************************************)
(* DNSResolver (services/dns_resolver.py) as the clients collector uses    *)
(* it: for the list of each network a batch of reverse lookups, made of a  *)
(* producer, a bounded queue and workers; the cache of the names and the   *)
(* record of the clients' addresses, which the batches of networks         *)
(* collected together share; and the threads that make the lookups, which  *)
(* a timeout abandons and cannot stop.                                     *)
(*                                                                         *)
(* A name is told only by its age: a lookup that found none is cached too. *)
(***************************************************************************)
EXTENDS ClientParameters, Sequences, SequencesExt, FiniteSetsExt

VARIABLES
    list,      \* ips_to_resolve of a network's batch, empty without a batch
    put,       \* items its producer has put in the queue, sentinels included
    taken,     \* items its workers have got
    looking,   \* the items of the list its workers are looking up
    done,      \* how many of its workers have got a sentinel
    threads,   \* lookups that have a thread of the executor, <<n, item>>
    hung,      \* threads whose lookup was abandoned
    nameAge,   \* the age of a cache entry, NameTTL once expired, or Absent
    tracked,   \* _client_tracking, in the order of insertion
    vacated    \* ghost: addresses their client is known to have left, not looked up since

batches == <<list, put, taken, looking, done>>
names == <<nameAge, tracked, vacated>>
vars == <<batches, threads, hung, names>>

-----------------------------------------------------------------------------
Absent == NameTTL + 1
Items == UNION {1..MaxList[n] : n \in Networks}
NoBatch == [n \in Networks |-> 0]

Cached == {a \in Addresses : nameAge[a] # Absent}
InFlight == UNION {{list[n][i].addr : i \in looking[n]} : n \in Networks}

(* What may be listed of a network: each client once.                         *)
Lists == [n \in Networks |->
    {l \in BoundedSeq([client : ClientIds, addr : Addresses], MaxList[n]) :
        l # <<>> /\ \A i, j \in DOMAIN l : l[i].client = l[j].client => i = j}]

Init ==
    /\ list = [n \in Networks |-> <<>>]
    /\ put = NoBatch /\ taken = NoBatch /\ done = NoBatch
    /\ looking = [n \in Networks |-> {}]
    /\ threads = {} /\ hung = 0
    /\ nameAge = [a \in Addresses |-> Absent]
    /\ tracked = <<>> /\ vacated = {}

-----------------------------------------------------------------------------
(* The address a client had, when it is listed at another.                    *)
Left(known, e) ==
    {known[i].addr : i \in {j \in DOMAIN known :
                                known[j].client = e.client /\ known[j].addr # e.addr}}

(* Mutant: a move is recorded, and the cached name stays. *)
ForgottenNever(left) == nameAge

(* The cache without the names of the addresses that are left.                *)
Forgotten(left) == [a \in Addresses |-> IF a \in left THEN Absent ELSE nameAge[a]]

(* track_client: a client keeps its place, or enters last and the first goes. *)
Recorded(known, e) ==
    IF \E i \in DOMAIN known : known[i].client = e.client
    THEN [i \in DOMAIN known |-> IF known[i].client = e.client THEN e ELSE known[i]]
    ELSE IF Len(known) = NameEntries THEN Append(Tail(known), e) ELSE Append(known, e)

(* What tracking a list, one client after the other, comes to.                *)
Track(known, l) ==
    FoldLeft(LAMBDA s, e : [known |-> Recorded(s.known, e), left |-> s.left \cup Left(s.known, e)],
             [known |-> known, left |-> {}], l)

(* The start of resolve_multiple, up to its first await.                      *)
Begin(n, l) ==
    /\ list[n] = <<>>
    /\ list' = [list EXCEPT ![n] = l]
    /\ LET t == Track(tracked, l) IN
          /\ tracked' = t.known
          /\ nameAge' = Forgotten(t.left)
          /\ vacated' = vacated \cup (t.left \ InFlight)
    /\ UNCHANGED <<put, taken, looking, done, threads, hung>>

-----------------------------------------------------------------------------
Sentinels == Lookups

Running(n) == list[n] # <<>>

(* produce: the list and a sentinel for each worker, as the queue has room.   *)
Put(n) ==
    /\ Running(n) /\ put[n] < Len(list[n]) + Sentinels
    /\ put[n] - taken[n] < Lookups
    /\ put' = [put EXCEPT ![n] = @ + 1]
    /\ UNCHANGED <<list, taken, looking, done, threads, hung, names>>

Idle(n) == done[n] + Cardinality(looking[n]) < Lookups

(* A worker gets an item: a sentinel, which ends it, or an address, whose     *)
(* cached name it returns at once, or which it looks up.                      *)
GetSentinel(n) == done' = [done EXCEPT ![n] = @ + 1] /\ UNCHANGED <<looking, nameAge, vacated>>

GetClient(n, i) ==
    LET a == list[n][i].addr IN
    /\ IF nameAge[a] < NameTTL THEN UNCHANGED <<looking, nameAge, vacated>>
       ELSE /\ looking' = [looking EXCEPT ![n] = @ \cup {i}]
            /\ nameAge' = [nameAge EXCEPT ![a] = Absent]
            /\ vacated' = vacated \ {a}
    /\ UNCHANGED done

Get(n) ==
    /\ Running(n) /\ Idle(n) /\ taken[n] < put[n]
    /\ taken' = [taken EXCEPT ![n] = @ + 1]
    /\ \/ taken[n] < Len(list[n]) /\ GetClient(n, taken[n] + 1)
       \/ taken[n] >= Len(list[n]) /\ GetSentinel(n)
    /\ UNCHANGED <<list, put, threads, hung, tracked>>

(* The executor has as many threads as a batch has workers.                   *)
Start(n, i) ==
    /\ i \in looking[n] /\ <<n, i>> \notin threads
    /\ Cardinality(threads) + hung < Lookups
    /\ threads' = threads \cup {<<n, i>>}
    /\ UNCHANGED <<batches, hung, names>>

(* _prune_cache: what has expired, or else an oldest.                         *)
Pruned(ages) ==
    LET cached == {a \in Addresses : ages[a] # Absent}
        expired == {a \in Addresses : ages[a] = NameTTL}
        oldest == {a \in cached : \A b \in cached : ages[b] <= ages[a]}
    IN  IF Cardinality(cached) <= NameEntries THEN {ages}
        ELSE IF expired # {}
        THEN {[a \in Addresses |-> IF a \in expired THEN Absent ELSE ages[a]]}
        ELSE {[ages EXCEPT ![a] = Absent] : a \in oldest}

(* What a lookup comes to, a name or none, is put in the cache.               *)
Conclude(n, i) ==
    /\ i \in looking[n]
    /\ nameAge' \in Pruned([nameAge EXCEPT ![list[n][i].addr] = 0])
    /\ looking' = [looking EXCEPT ![n] = @ \ {i}]
    /\ threads' = threads \ {<<n, i>>}
    /\ UNCHANGED <<list, put, taken, done, tracked, vacated>>

Answer(n, i) ==
    /\ <<n, i>> \in threads
    /\ Conclude(n, i)
    /\ UNCHANGED hung

(* Mutant: the timeout is that of the thread. *)
TimedOutInThread(n, i) ==
    /\ <<n, i>> \in threads
    /\ Conclude(n, i)
    /\ hung' = hung + 1

(* dns_timeout, whether the lookup has a thread, which is then lost, or not.  *)
TimedOut(n, i) ==
    /\ Conclude(n, i)
    /\ hung' = hung + Cardinality(threads \cap {<<n, i>>})

(* A lookup that nobody waits for returns after all.                          *)
Return ==
    /\ hung > 0
    /\ hung' = hung - 1
    /\ UNCHANGED <<batches, threads, names>>

Over(n) ==
    /\ list' = [list EXCEPT ![n] = <<>>]
    /\ put' = [put EXCEPT ![n] = 0] /\ taken' = [taken EXCEPT ![n] = 0]
    /\ looking' = [looking EXCEPT ![n] = {}] /\ done' = [done EXCEPT ![n] = 0]
    /\ UNCHANGED names

(* gather returns once producer and workers have all ended.                   *)
End(n) ==
    /\ Running(n) /\ put[n] = Len(list[n]) + Sentinels
    /\ done[n] = Lookups
    /\ Over(n)
    /\ UNCHANGED <<threads, hung>>

(* The collection is cancelled, and gather cancels all of them.               *)
Cancel(n) ==
    /\ Running(n)
    /\ Over(n)
    /\ threads' = threads \ ({n} \X Items)
    /\ hung' = hung + Cardinality(threads \cap ({n} \X Items))

(* clear_cache, asked for on the clients page.                                *)
ClearCache ==
    /\ nameAge' = [a \in Addresses |-> Absent] /\ tracked' = <<>>
    /\ UNCHANGED <<batches, threads, hung, vacated>>

Tick ==
    /\ nameAge' = [a \in Addresses |-> IF nameAge[a] < NameTTL THEN nameAge[a] + 1 ELSE nameAge[a]]
    /\ UNCHANGED <<batches, threads, hung, tracked, vacated>>

Next ==
    \/ ClearCache \/ Tick \/ Return
    \/ \E n \in Networks :
          \/ Put(n) \/ Get(n) \/ End(n) \/ Cancel(n)
          \/ \E l \in Lists[n] : Begin(n, l)
          \/ \E i \in Items : Start(n, i) \/ Answer(n, i) \/ TimedOut(n, i)

Spec == Init /\ [][Next]_vars

(* The event loop goes on with a batch, and a lookup is answered or times out.*)
Work(n) == Put(n) \/ Get(n) \/ End(n) \/ \E i \in Items : Answer(n, i) \/ TimedOut(n, i)

FairSpec == Spec /\ \A n \in Networks : WF_vars(Work(n))

-----------------------------------------------------------------------------
TypeOK ==
    /\ \A n \in Networks :
          /\ list[n] \in Lists[n] \cup {<<>>}
          /\ taken[n] <= put[n] /\ put[n] <= Len(list[n]) + Sentinels
    /\ looking \in [Networks -> SUBSET Items] /\ done \in [Networks -> 0..Lookups]
    /\ threads \subseteq Networks \X Items /\ hung \in Nat
    /\ nameAge \in [Addresses -> 0..Absent]
    /\ tracked \in Seq([client : ClientIds, addr : Addresses])
    /\ vacated \subseteq Addresses

(* The cache and the record of the addresses keep to dns_cache_max_entries,   *)
(* whatever is put in from several batches; and the threads that hang are at  *)
(* most those of the executor, which no other call of the exporter needs.     *)
Bounded ==
    /\ Cardinality(Cached) <= NameEntries /\ Len(tracked) <= NameEntries
    /\ Cardinality(threads) + hung <= Lookups

(* track_client: the name of an address that its client has left is not used  *)
(* before it is looked up again, unless a lookup was under way as it left.    *)
MovedForgotten == vacated \cap Cached = {}

(* What is cached is bounded, well typed, and not of those that have left.    *)
NamesInv == TypeOK /\ Bounded /\ MovedForgotten

(* Every batch ends, although its queue holds only Lookups items and any      *)
(* lookup may hang for ever: the collection of a network never waits for the  *)
(* names of its clients for good.                                             *)
BatchEnds == \A n \in Networks : []<>~Running(n)
=============================================================================
