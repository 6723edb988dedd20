------------------------ MODULE Coordinators_proofs ------------------------
(***************************************************************************)
(* Machine-checked proofs about what the coordinators of the collectors    *)
(* leave behind: how long their series live, for every interval, retry and *)
(* cycle, given the contract of the calls (Collection), and whom their     *)
(* failures hold back, for every set of domains, every threshold and every *)
(* backoff (OrgHealth).                                                    *)
(***************************************************************************)
EXTENDS MCCoordinators, BasicLemmas, TLAPS

(* The first moment at which a gate may be due, and the longest a door takes  *)
(* to open again: the interval or a retry, or the next cycle.                 *)
Ripe == (9 * Interval + 9) \div 10
Bound(door) == IF door = {} THEN CycleGap ELSE IF Ripe < Retry THEN Retry ELSE Ripe
Horizon(door, stamp) == Bound(door) + (IF stamp = {} THEN 0 ELSE Interval - 1)
Grace(door, stamp) == Horizon(door, stamp) + Bound(door)

(* No more than n ticks pass before the door is open to a cycle, and before   *)
(* the door and the timestamp both are.                                       *)
DoorWithin(door, n) ==
    /\ n >= 0
    /\ door = {} => CycleGap - idle <= n
    /\ \A k \in door : Ripe - ran[k] <= n /\ Retry - tried[k] <= n /\ (idle = 0 => 1 <= n)

Within(door, stamp, n) ==
    /\ (\A k \in stamp : ran[k] = Interval) => DoorWithin(door, n)
    /\ \A k \in stamp : ran[k] < Interval => Interval - ran[k] + Bound(door) - 1 <= n

(* How long a series may still wait: as long as nothing failed since it was   *)
(* written, and once something has.                                           *)
Timed(door, stamp) ==
    /\ age # Unwritten /\ misses = 0 => Within(door, stamp, Horizon(door, stamp) - age)
    /\ age # Unwritten /\ misses = 1 /\ at.series[2] \notin StampedRegardless =>
          Within(door, stamp, Grace(door, stamp) - age)

(* The same of a series that its timestamp may spare a cycle.                 *)
Leeway(door) == CycleGap + Bound(door)
Pardon(door) == Leeway(door) + (IF CycleGap < Retry THEN Retry ELSE CycleGap)

SparedWithin(door, stamp, n) ==
    /\ (\A k \in stamp : ran[k] = Interval) => DoorWithin(door, n)
    /\ \A k \in stamp : ran[k] < Interval => CycleGap - idle + Bound(door) <= n

SparedTimed(door, stamp) ==
    /\ age # Unwritten /\ misses = 0 => SparedWithin(door, stamp, Leeway(door) - age)
    /\ age # Unwritten /\ misses = 1 => SparedWithin(door, stamp, Pardon(door) - age)

(* The timestamps that do not last are due in every cycle.                    *)
FleetingDue == \A k \in Fleeting(at.site, at.series) : ran[k] = Interval

(* What the waits of a series rest on: its door and its timestamp, and that   *)
(* the others are due whenever they matter.                                   *)
FedInv ==
    /\ FleetingDue
    /\ \E door, stamp \in Single(Gates) :
          \/ FedBy(at.site, at.series, door, stamp) /\ Timed(door, stamp)
          \/ SparedBy(at.site, at.series, door, stamp) /\ SparedTimed(door, stamp)

(* The gates a series is written through keep step, and are no older than it. *)
InStep(gates) ==
    /\ \A k, l \in gates : ran[k] = ran[l] /\ tried[k] = tried[l]
    /\ age # Unwritten /\ last.mark # "open" => \A k \in gates : ran[k] <= age

(* The exceptions that the code makes are named in Collection.                *)
PacedInv ==
    \/ at.series[2] = Cadence
    \/ <<at.site, at.series[2]>> \in WrittenUnasked \cup StampsForgotten
    \/ \E gates \in SUBSET Gates : PacedBy(at.site, at.series, gates) /\ InStep(gates)

(* The inductive invariant: the types, when the series is written again at    *)
(* the latest (FaultTolerated rests on it), and at the earliest (Paced does). *)
CollectionIInv == TypeOK /\ FedInv /\ PacedInv

-----------------------------------------------------------------------------
(* The constants, and the first whole moment within the tolerance.            *)
LEMMA CollectionNumbers ==
    /\ Interval \in Nat /\ Interval > 0 /\ Retry \in Nat /\ Retry > 0 /\ Retry <= Interval
    /\ CycleGap \in Nat /\ CycleGap > 0 /\ CycleGap <= Interval
    /\ Ripe \in Nat /\ Ripe > 0 /\ Ripe <= Interval
    /\ \A n \in Int : 10 * n >= 9 * Interval <=> n >= Ripe
    /\ TTL \in Nat /\ (at.series[2] = Cadence => TTL = 2 * CycleGap)
    /\ at.series[2] # Cadence => TTL = 2 * Interval
BY CollectionAssumption DEF Ripe, TTL

(* A door is open again before the interval is over.                          *)
LEMMA Bounds ==
    ASSUME NEW door, NEW stamp
    PROVE  /\ Bound(door) \in Nat /\ Bound(door) > 0 /\ Bound(door) <= Interval
           /\ door = {} => Bound(door) = CycleGap
           /\ door # {} => Ripe <= Bound(door) /\ Retry <= Bound(door)
           /\ Horizon(door, stamp) \in Nat /\ Grace(door, stamp) \in Nat
           /\ Grace(door, stamp) = Horizon(door, stamp) + Bound(door)
           /\ stamp = {} => Horizon(door, stamp) = Bound(door)
           /\ stamp # {} => Horizon(door, stamp) = Interval + Bound(door) - 1
BY CollectionNumbers DEF Bound, Horizon, Grace

(* The rows of the table that a cycle may take. *)
LEMMA RowTypes ==
    ASSUME TypeOK, NEW v \in Views[at.site][at.series][Due]
    PROVE  /\ Due \in SUBSET Gates
           /\ v \in ViewsOf(at.site, at.series)
           /\ v.result \in Results /\ v.mark \in Marks
<1>1. at.site \in Sites /\ at.series \in SeriesOf[at.site]
  BY DEF TypeOK
<1>2. Due \in SUBSET Gates
  BY DEF Due
<1>3. v \in ViewsOf(at.site, at.series)
  BY <1>2 DEF ViewsOf, Gates
<1> QED  BY <1>1, <1>2, <1>3, OutcomesAssumption

(* The types are kept by a cycle and by a tick.                               *)
LEMMA CollectionTypesStay == TypeOK /\ [Next]_vars => TypeOK'
<1> SUFFICES ASSUME TypeOK, [Next]_vars PROVE TypeOK'
  OBVIOUS
<1> USE CollectionNumbers DEF TypeOK
<1>1. CASE Cycle
  <2>1. PICK v \in Views[at.site][at.series][Due] :
          /\ ran' = [k \in Gates |-> IF k \notin v.kept THEN Interval
                                     ELSE IF k \in v.marked THEN 0 ELSE ran[k]]
          /\ tried' = [k \in Gates |-> IF k \in v.marked THEN Retry
                                       ELSE IF k \in v.asked THEN 0 ELSE tried[k]]
          /\ age' = IF v.result = "wrote" THEN 0 ELSE age
          /\ misses' = CASE v.result = "wrote"  -> 0
                         [] v.result = "absent" -> 2
                         [] v.result = "missed" -> AtMost(misses + 1, 2)
                         [] v.result = "passed" -> misses
          /\ last' = [result |-> v.result,
                      mark   |-> IF v.mark = "closed" THEN last.mark ELSE v.mark]
    BY <1>1 DEF Cycle
  <2>2. v.result \in Results /\ v.mark \in Marks
    BY RowTypes
  <2>3. at' = at /\ idle' = 0 /\ Gates' = Gates /\ TTL' = TTL
    BY <1>1 DEF Cycle, Gates, TTL
  <2>4. ran' \in [Gates -> 0 .. Interval] /\ tried' \in [Gates -> 0 .. Retry]
    BY <2>1
  <2>5. age' \in Unwritten .. TTL + 1
    BY <2>1 DEF Unwritten
  <2>6. misses' \in 0 .. 2
    BY <2>1, <2>2 DEF Results, AtMost
  <2>7. last' \in [result : {"wrote", "absent", "missed", "passed"},
                    mark : {"earned", "hollow", "unsung", "open"}]
    BY <2>1, <2>2 DEF Results, Marks
  <2> QED  BY <2>3, <2>4, <2>5, <2>6, <2>7
<1>2. CASE Tick
  <2>1. at' = at /\ Gates' = Gates /\ TTL' = TTL /\ misses' = misses /\ last' = last
    BY <1>2 DEF Tick, Gates, TTL
  <2>2. ran' \in [Gates -> 0 .. Interval] /\ tried' \in [Gates -> 0 .. Retry]
    BY <1>2 DEF Tick, AtMost
  <2>3. age' \in Unwritten .. TTL + 1 /\ idle' \in 0 .. CycleGap
    BY <1>2 DEF Tick, AtMost, Unwritten
  <2> QED  BY <2>1, <2>2, <2>3
<1>3. CASE UNCHANGED vars
  BY <1>3 DEF vars, Gates, TTL
<1> QED  BY <1>1, <1>2, <1>3 DEF Next

LEMMA CollectionTypesBegin == Init => TypeOK
BY CollectionNumbers DEF Init, TypeOK, Gates, Unwritten, TTL

-----------------------------------------------------------------------------
(* A door and a timestamp, and those of the series.                           *)
Placed(door, stamp) ==
    /\ door \subseteq Gates /\ stamp \subseteq Gates
    /\ (\A k, l \in door : k = l) /\ \A k, l \in stamp : k = l
    /\ (\A k \in door : k[2] = Org) /\ \A k \in stamp : k[2] # Org

Feeders(door, stamp) ==
    /\ door \subseteq Gates /\ stamp \subseteq Gates
    /\ FedBy(at.site, at.series, door, stamp)

LEMMA FeedersPlaced ==
    ASSUME NEW door, NEW stamp, Feeders(door, stamp)
    PROVE  Placed(door, stamp)
BY DEF Feeders, FedBy, Placed

(* What the clocks of a door and of a timestamp may say.                      *)
LEMMA Clocks ==
    ASSUME TypeOK, NEW door, NEW stamp, Placed(door, stamp)
    PROVE  /\ \A k \in door \cup stamp :
                  /\ k \in Gates /\ ran[k] \in Nat /\ ran[k] <= Interval
                  /\ tried[k] \in Nat /\ tried[k] <= Retry
           /\ idle \in Nat /\ idle <= CycleGap
           /\ \A k \in door : IsDue(k) <=> ran[k] >= Ripe /\ tried[k] = Retry
           /\ \A k \in stamp : IsDue(k) <=> ran[k] = Interval
           /\ door # {} => \E k \in door : door = {k}
           /\ stamp # {} => \E k \in stamp : stamp = {k}
<1>1. \A k \in door \cup stamp :
          k \in Gates /\ ran[k] \in 0 .. Interval /\ tried[k] \in 0 .. Retry
  BY DEF TypeOK, Placed
<1>2. \A k \in door : IsDue(k) <=> ran[k] >= Ripe /\ tried[k] = Retry
  BY <1>1, CollectionNumbers DEF IsDue, Placed
<1> QED  BY <1>1, <1>2, CollectionNumbers DEF IsDue, Placed, TypeOK

(* Who has longer to wait has as long.                                        *)
LEMMA Later ==
    ASSUME TypeOK, NEW door, NEW stamp, Placed(door, stamp),
           NEW n \in Int, NEW m \in Int, n <= m
    PROVE  DoorWithin(door, n) => DoorWithin(door, m)
BY CollectionNumbers, Clocks DEF DoorWithin

(* Whatever the clocks say, the door opens within its bound, and the next     *)
(* moment to write is a horizon away.                                         *)
LEMMA NeverNow ==
    ASSUME TypeOK, NEW door, NEW stamp, Placed(door, stamp)
    PROVE  DoorWithin(door, Bound(door))
<1>1. CASE door = {}
  <2>1. Bound(door) = CycleGap /\ CycleGap \in Nat /\ idle \in Nat
    BY <1>1, Bounds, CollectionNumbers, Clocks
  <2> QED  BY <1>1, <2>1 DEF DoorWithin
<1>2. CASE door # {}
  <2>1. Bound(door) \in Nat /\ Bound(door) > 0 /\ Ripe <= Bound(door) /\ Retry <= Bound(door)
    BY <1>2, Bounds
  <2> QED  BY <1>2, <2>1, CollectionNumbers, Clocks DEF DoorWithin
<1> QED  BY <1>1, <1>2

LEMMA NeverFar ==
    ASSUME TypeOK, NEW door, NEW stamp, Placed(door, stamp)
    PROVE  Within(door, stamp, Horizon(door, stamp))
<1>1. /\ Bound(door) \in Nat /\ Horizon(door, stamp) \in Nat /\ Interval \in Nat
      /\ Bound(door) <= Horizon(door, stamp)
      /\ stamp # {} => Horizon(door, stamp) = Interval + Bound(door) - 1
  BY Bounds, CollectionNumbers
<1>2. DoorWithin(door, Horizon(door, stamp))
  BY <1>1, NeverNow, Later
<1>3. \A k \in stamp : Interval - ran[k] + Bound(door) - 1 <= Horizon(door, stamp)
  BY <1>1, Clocks
<1> QED  BY <1>2, <1>3 DEF Within

(* It comes nearer with each tick, since none passes over an open door.       *)
LEMMA DoorTick ==
    ASSUME TypeOK, Tick, NEW door, NEW stamp, Placed(door, stamp),
           NEW n \in Int, NEW m \in Int, n - 1 <= m, DoorWithin(door, n)
    PROVE  DoorWithin(door, m)'
<1>1. /\ \A k \in Gates : ran'[k] = AtMost(ran[k] + 1, Interval)
      /\ \A k \in Gates : tried'[k] = AtMost(tried[k] + 1, Retry)
      /\ idle' = idle + 1 /\ idle < CycleGap /\ at' = at
  BY DEF Tick
<1>2. idle = 0 \/ \A k \in door : ~IsDue(k)
  <2>1. \A k \in door : k \in Gates /\ k[2] = Org
    BY DEF Placed
  <2> QED  BY <2>1 DEF Tick, Awaited, Due
<1>3. CASE door = {}
  BY <1>1, <1>3, CollectionNumbers, Clocks DEF DoorWithin
<1>4. CASE door # {}
  <2>1. PICK k \in door : door = {k}
    BY <1>4, Clocks
  <2>2. k \in Gates /\ ran[k] \in Nat /\ tried[k] \in Nat /\ tried[k] <= Retry
    BY Clocks
  <2>3. n >= 1
    BY <1>2, <2>1, <2>2, Clocks, CollectionNumbers DEF DoorWithin
  <2>4. Ripe - ran'[k] <= m /\ Retry - tried'[k] <= m
    <3>1. Ripe - ran[k] <= n /\ Retry - tried[k] <= n
      BY <2>1 DEF DoorWithin
    <3> QED  BY <1>1, <2>2, <2>3, <3>1, CollectionNumbers DEF AtMost
  <2>5. idle' # 0
    BY <1>1, Clocks
  <2> QED  BY <2>1, <2>3, <2>4, <2>5 DEF DoorWithin, Ripe
<1> QED  BY <1>3, <1>4

LEMMA TickNearer ==
    ASSUME TypeOK, Tick, NEW door, NEW stamp, Placed(door, stamp),
           NEW n \in Int, NEW m \in Int, n - 1 <= m, Within(door, stamp, n)
    PROVE  Within(door, stamp, m)'
<1>1. \A k \in Gates : ran'[k] = AtMost(ran[k] + 1, Interval)
  BY DEF Tick
<1>2. Bound(door) \in Nat /\ Bound(door) > 0 /\ Bound(door)' = Bound(door)
  BY Bounds DEF Bound, Ripe
<1> HIDE DEF Bound
<1>3. ASSUME DoorWithin(door, n) PROVE DoorWithin(door, m)'
  BY <1>3, DoorTick
<1>4. CASE stamp = {}
  <2>1. DoorWithin(door, n)
    BY <1>4 DEF Within
  <2> QED  BY <1>3, <1>4, <2>1 DEF Within
<1>5. CASE stamp # {}
  <2>1. PICK k \in stamp : stamp = {k}
    BY <1>5, Clocks
  <2>2. k \in Gates /\ ran[k] \in Nat /\ ran[k] <= Interval
    BY Clocks
  <2>3. ran'[k] = AtMost(ran[k] + 1, Interval)
    BY <1>1, <2>2
  <2>4. CASE ran[k] = Interval
    <3>1. DoorWithin(door, n)
      BY <2>1, <2>4 DEF Within
    <3>2. ran'[k] = Interval
      BY <2>3, <2>4, CollectionNumbers DEF AtMost
    <3>3. ~(ran'[k] < Interval)
      BY <3>2, CollectionNumbers
    <3> QED  BY <1>3, <2>1, <3>1, <3>2, <3>3 DEF Within
  <2>5. CASE ran[k] < Interval
    <3>1. Interval - ran[k] + Bound(door) - 1 <= n
      BY <2>1, <2>5 DEF Within
    <3>2. ran'[k] = ran[k] + 1
      BY <2>2, <2>3, <2>5, CollectionNumbers DEF AtMost
    <3>3. CASE ran'[k] = Interval
      <4>1. Bound(door) <= n
        BY <1>2, <2>2, <3>1, <3>2, <3>3, CollectionNumbers
      <4>2. DoorWithin(door, n)
        BY <1>2, <4>1, NeverNow, Later
      <4>3. ~(ran'[k] < Interval)
        BY <3>3, CollectionNumbers
      <4> QED  BY <1>3, <2>1, <3>3, <4>2, <4>3 DEF Within
    <3>4. CASE ran'[k] < Interval
      <4>1. Interval - ran'[k] + Bound(door) - 1 <= m
        BY <1>2, <2>2, <3>1, <3>2, CollectionNumbers
      <4>2. ran'[k] # Interval
        BY <2>2, <3>2, <3>4, CollectionNumbers
      <4> QED  BY <1>2, <2>1, <4>1, <4>2 DEF Within
    <3> QED  BY <2>2, <2>5, <3>2, <3>3, <3>4, CollectionNumbers
  <2> QED  BY <2>2, <2>4, <2>5, CollectionNumbers
<1> QED  BY <1>4, <1>5

(* Age and wait balance: what a tick adds to one it takes from the other.     *)
LEMMA TickTimed ==
    ASSUME TypeOK, Tick, NEW door, NEW stamp, Placed(door, stamp), Timed(door, stamp)
    PROVE  Timed(door, stamp)'
<1>1. at' = at /\ misses' = misses
  BY DEF Tick
<1>2. age' # Unwritten => age # Unwritten /\ age \in Nat /\ age' \in Nat /\ age' <= age + 1
  BY CollectionNumbers DEF Tick, AtMost, Unwritten, TypeOK
<1> DEFINE H == Horizon(door, stamp)
           G == Grace(door, stamp)
<1>3. H \in Nat /\ G \in Nat /\ H' = H /\ G' = G
  BY Bounds DEF Grace, Horizon, Bound, Ripe
<1> HIDE DEF H, G
<1>4. ASSUME NEW n \in Int, Within(door, stamp, n - age), age' # Unwritten
      PROVE  Within(door, stamp, n - age)'
  <2>1. PICK p \in Int, q \in Int : p = n - age /\ q = n - age' /\ p - 1 <= q
    BY <1>2, <1>4
  <2>2. Within(door, stamp, p)
    BY <1>4, <2>1
  <2>3. Within(door, stamp, q)'
    BY <2>1, <2>2, TickNearer
  <2> QED  BY <2>1, <2>3
<1>5. ASSUME (age # Unwritten)', (misses = 0)' PROVE Within(door, stamp, H - age)'
  BY <1>1, <1>2, <1>3, <1>4, <1>5 DEF Timed, H
<1>6. ASSUME (age # Unwritten)', (misses = 1)', (at.series[2] \notin StampedRegardless)'
      PROVE  Within(door, stamp, G - age)'
  BY <1>1, <1>2, <1>3, <1>4, <1>6 DEF Timed, G
<1> QED  BY <1>5, <1>6 DEF Timed, H, G

-----------------------------------------------------------------------------
(* A cycle takes a row of the table.                                          *)
Takes(v) ==
    /\ ran' = [k \in Gates |-> IF k \notin v.kept THEN Interval
                               ELSE IF k \in v.marked THEN 0 ELSE ran[k]]
    /\ tried' = [k \in Gates |-> IF k \in v.marked THEN Retry
                                 ELSE IF k \in v.asked THEN 0 ELSE tried[k]]
    /\ age' = IF v.result = "wrote" THEN 0 ELSE age
    /\ misses' = CASE v.result = "wrote"  -> 0
                   [] v.result = "absent" -> 2
                   [] v.result = "missed" -> AtMost(misses + 1, 2)
                   [] v.result = "passed" -> misses
    /\ last' = [result |-> v.result,
                mark   |-> IF v.mark = "closed" THEN last.mark ELSE v.mark]

LEMMA CycleTakes ==
    ASSUME TypeOK, Cycle
    PROVE  /\ \E v \in Views[at.site][at.series][Due] : Takes(v)
           /\ idle' = 0 /\ at' = at /\ Gates' = Gates /\ (Awaited \/ idle > 0)
BY DEF Cycle, Takes, Gates

(* The contract at the row that the cycle takes.                              *)
LEMMA RowFacts ==
    ASSUME TypeOK, NEW door, NEW stamp, Feeders(door, stamp),
           NEW v \in Views[at.site][at.series][Due]
    PROVE  /\ v.asked \subseteq Due /\ v.marked \subseteq Due
           /\ door \subseteq v.kept
           /\ door \subseteq Due \/ v.marked \cap stamp = {}
           /\ door \cup stamp \cup Fleeting(at.site, at.series) \subseteq Due =>
                 v.result # "passed"
           /\ v.result = "missed" /\ at.series[2] \notin StampedRegardless =>
                 v.marked \cap v.kept \cap stamp = {}
<1>1. Due \in SUBSET Clocked(at.site, at.series)
  BY DEF Due, Gates
<1>2. FedBy(at.site, at.series, door, stamp)
  BY DEF Feeders
<1> HIDE DEF Due
<1> QED  BY <1>1, <1>2 DEF FedBy

(* A timestamp that does not outlast its cycle is due in every one.           *)
LEMMA FleetingIsDue ==
    ASSUME TypeOK, FleetingDue
    PROVE  Fleeting(at.site, at.series) \subseteq Due
BY DEF FleetingDue, Fleeting, Due, IsDue, Gates

(* The same of any state, to be said of the next one.                         *)
Far ==
    \A door, stamp : TypeOK /\ Placed(door, stamp) => Within(door, stamp, Horizon(door, stamp))

Soon ==
    \A door, stamp : TypeOK /\ Placed(door, stamp) =>
        \A n \in Int : Bound(door) <= n => DoorWithin(door, n)

LEMMA AnyTime == Far /\ Soon
<1>1. Far
  BY NeverFar DEF Far
<1>2. Soon
  <2> SUFFICES ASSUME NEW door, NEW stamp, TypeOK, Placed(door, stamp),
                      NEW n \in Int, Bound(door) <= n
               PROVE  DoorWithin(door, n)
    BY DEF Soon
  <2>1. DoorWithin(door, Bound(door)) /\ Bound(door) \in Int
    BY NeverNow, Bounds
  <2> QED  BY <2>1, Later
<1> QED  BY <1>1, <1>2

LEMMA NextTime == Far' /\ Soon'
BY AnyTime, PTL

(* A door that a cycle found closed is as near as before.                     *)
LEMMA DoorKept ==
    ASSUME TypeOK, TypeOK', NEW door, NEW stamp, Placed(door, stamp), ~(door \subseteq Due),
           NEW v \in Views[at.site][at.series][Due], Takes(v), idle' = 0,
           (v.asked \cup v.marked) \cap door \subseteq Due, door \subseteq v.kept,
           NEW n \in Int, NEW m \in Int, n <= m, DoorWithin(door, n)
    PROVE  DoorWithin(door, m)'
<1>1. PICK k \in door : door = {k} /\ k \notin Due
  BY Clocks
<1>2. k \in Gates /\ ran[k] \in Nat /\ tried[k] \in Nat /\ tried[k] <= Retry
  BY Clocks
<1>3. ran'[k] = ran[k] /\ tried'[k] = tried[k]
  BY <1>1, <1>2 DEF Takes
<1>4. ~IsDue(k)
  BY <1>1, <1>2 DEF Due
<1>5. Ripe - ran[k] <= n /\ Retry - tried[k] <= n /\ n >= 0
  BY <1>1 DEF DoorWithin
<1>6. n >= 1
  BY <1>1, <1>2, <1>4, <1>5, Clocks, CollectionNumbers
<1>7. /\ Ripe - ran'[k] <= m /\ Retry - tried'[k] <= m
      /\ m >= 0 /\ 1 <= m
  BY <1>2, <1>3, <1>5, <1>6, CollectionNumbers
<1> QED  BY <1>1, <1>7 DEF DoorWithin, Ripe

(* After a cycle that found the door or the timestamp closed.                 *)
LEMMA CycleNearer ==
    ASSUME TypeOK, TypeOK', NEW door, NEW stamp, Feeders(door, stamp),
           NEW v \in Views[at.site][at.series][Due], Takes(v), idle' = 0, at' = at,
           NEW n \in Int, NEW m \in Int, n <= m, Within(door, stamp, n),
           ~(door \cup stamp \subseteq Due)
    PROVE  Within(door, stamp, m)'
<1> Placed(door, stamp)
  BY FeedersPlaced
<1>1. /\ Placed(door, stamp)'
      /\ Bound(door)' = Bound(door) /\ Bound(door) \in Nat /\ Bound(door) > 0
  BY Bounds DEF Placed, Gates, Bound, Ripe
<1>2. \A k \in stamp : k \notin v.marked => ran'[k] = ran[k] \/ ran'[k] = Interval
  BY Clocks DEF Takes
<1>3. \A k \in Gates : k \in Due <=> IsDue(k)
  BY DEF Due
<1> HIDE DEF Bound, Due
<1>4. ASSUME DoorWithin(door, n), ~(door \subseteq Due) PROVE DoorWithin(door, m)'
  BY <1>4, DoorKept, RowFacts
<1>5. CASE stamp = {}
  <2>1. DoorWithin(door, n) /\ ~(door \subseteq Due)
    BY <1>5 DEF Within
  <2> QED  BY <1>4, <1>5, <2>1 DEF Within
<1>6. CASE stamp # {}
  <2>1. PICK k \in stamp : stamp = {k}
    BY <1>6, Clocks
  <2>2. k \in Gates /\ ran[k] \in Nat /\ ran[k] <= Interval /\ (IsDue(k) <=> ran[k] = Interval)
    BY Clocks
  <2>3. CASE ran[k] = Interval
    <3>1. DoorWithin(door, n)
      BY <2>1, <2>3 DEF Within
    <3>2. ~(door \subseteq Due)
      BY <1>3, <2>1, <2>2, <2>3
    <3>3. ran'[k] = Interval
      BY <1>2, <2>1, <2>3, <3>2, RowFacts
    <3>4. ~(ran'[k] < Interval)
      BY <3>3, CollectionNumbers
    <3> QED  BY <1>4, <2>1, <3>1, <3>2, <3>3, <3>4 DEF Within
  <2>4. CASE ran[k] < Interval
    <3>1. Interval - ran[k] + Bound(door) - 1 <= n
      BY <2>1, <2>4 DEF Within
    <3>2. k \notin v.marked
      BY <1>3, <2>2, <2>4, RowFacts, CollectionNumbers
    <3>3. CASE ran'[k] = ran[k]
      <4>1. Interval - ran'[k] + Bound(door) - 1 <= m
        BY <1>1, <2>2, <3>1, <3>3, CollectionNumbers
      <4>2. ran'[k] # Interval
        BY <2>2, <2>4, <3>3, CollectionNumbers
      <4> QED  BY <1>1, <2>1, <4>1, <4>2 DEF Within
    <3>4. CASE ran'[k] = Interval
      <4>1. Bound(door) <= m
        BY <1>1, <2>2, <2>4, <3>1, CollectionNumbers
      <4>2. DoorWithin(door, m)'
        BY <1>1, <4>1, NextTime DEF Soon
      <4>3. ~(ran'[k] < Interval)
        BY <3>4, CollectionNumbers
      <4> QED  BY <2>1, <3>4, <4>2, <4>3 DEF Within
    <3> QED  BY <1>2, <2>1, <3>2, <3>3, <3>4
  <2> QED  BY <2>2, <2>3, <2>4, CollectionNumbers
<1> QED  BY <1>5, <1>6

(* The waits of a series are kept by a cycle. *)
LEMMA CycleTimed ==
    ASSUME TypeOK, TypeOK', Cycle, FleetingDue,
           NEW door, NEW stamp, Feeders(door, stamp), Timed(door, stamp)
    PROVE  Timed(door, stamp)'
<1>1. PICK v \in Views[at.site][at.series][Due] : Takes(v)
  BY CycleTakes
<1> Placed(door, stamp)
  BY FeedersPlaced
<1>2. idle' = 0 /\ at' = at /\ Placed(door, stamp)'
  BY CycleTakes DEF Placed
<1>3. v.result \in Results
  BY RowTypes
<1> DEFINE H == Horizon(door, stamp)
           G == Grace(door, stamp)
           B == Bound(door)
<1>4. /\ H \in Nat /\ G \in Nat /\ B \in Nat /\ G = H + B
      /\ H' = H /\ G' = G /\ B' = B
  BY Bounds DEF Grace, Horizon, Bound, Ripe
<1>5. age' = (IF v.result = "wrote" THEN 0 ELSE age) /\ misses \in 0 .. 2
  BY <1>1 DEF Takes, TypeOK
<1>6. age \in Int
  BY DEF TypeOK, Unwritten
<1> HIDE DEF H, G, B
<1>7. CASE v.result = "wrote"
  <2>1. misses' = 0 /\ age' = 0
    BY <1>1, <1>7 DEF Takes
  <2>2. Within(door, stamp, H)'
    BY <1>2, NextTime DEF Far, H
  <2>3. H' - age' = H'
    BY <1>4, <2>1
  <2>4. Within(door, stamp, H - age)'
    BY <2>2, <2>3
  <2> QED  BY <2>1, <2>4 DEF Timed, H
<1>8. CASE v.result = "absent"
  <2>1. misses' = 2
    BY <1>1, <1>8 DEF Takes
  <2> QED  BY <2>1 DEF Timed
<1>9. CASE v.result = "passed"
  <2>1. misses' = misses /\ age' = age
    BY <1>1, <1>9 DEF Takes
  <2>2. ~(door \cup stamp \subseteq Due)
    <3>1. Fleeting(at.site, at.series) \subseteq Due
      BY FleetingIsDue
    <3> QED  BY <1>9, <3>1, RowFacts
  <2>3. ASSUME NEW n \in Int, Within(door, stamp, n - age) PROVE Within(door, stamp, n - age)'
    <3>1. PICK p \in Int : p = n - age
      BY <1>6
    <3>2. Within(door, stamp, p)'
      BY <1>1, <1>2, <2>2, <2>3, <3>1, CycleNearer
    <3> QED  BY <2>1, <3>1, <3>2
  <2>4. ASSUME (age # Unwritten)', (misses = 0)' PROVE Within(door, stamp, H - age)'
    BY <1>4, <2>1, <2>3, <2>4 DEF Timed, H
  <2>5. ASSUME (age # Unwritten)', (misses = 1)', (at.series[2] \notin StampedRegardless)'
        PROVE  Within(door, stamp, G - age)'
    BY <1>2, <1>4, <2>1, <2>3, <2>5 DEF Timed, G
  <2> QED  BY <2>4, <2>5 DEF Timed, H, G
<1>10. CASE v.result = "missed"
  <2>1. misses' = AtMost(misses + 1, 2) /\ age' = age
    BY <1>1, <1>10 DEF Takes
  <2>2. misses' # 0 /\ (misses' = 1 => misses = 0)
    BY <1>5, <2>1 DEF AtMost
  <2>3. ASSUME (age # Unwritten)', (misses = 1)', (at.series[2] \notin StampedRegardless)'
        PROVE  Within(door, stamp, G - age)'
    <3>1. Within(door, stamp, H - age) /\ at.series[2] \notin StampedRegardless
      BY <1>2, <2>1, <2>2, <2>3 DEF Timed, H
    <3>2. PICK p \in Int, q \in Int : p = H - age /\ q = G - age /\ q = p + B
      BY <1>4, <1>6
    <3>3. CASE ~(door \cup stamp \subseteq Due)
      <4>1. Within(door, stamp, p) /\ p <= q
        BY <1>4, <3>1, <3>2
      <4>2. Within(door, stamp, q)'
        BY <1>1, <1>2, <3>2, <3>3, <4>1, CycleNearer
      <4> QED  BY <1>4, <2>1, <3>2, <4>2
    <3>4. CASE door \cup stamp \subseteq Due
      <4>1. \A k \in stamp : ran[k] = Interval
        BY <3>4, Clocks DEF Due
      <4>2. p >= 0
        BY <3>1, <3>2, <4>1 DEF Within, DoorWithin
      <4>3. \A k \in stamp : ran'[k] = Interval
        <5>1. v.marked \cap v.kept \cap stamp = {}
          BY <1>10, <3>1, RowFacts
        <5> QED  BY <1>1, <4>1, <5>1, Clocks DEF Takes
      <4>4. DoorWithin(door, q)'
        <5>1. Bound(door)' <= q
          BY <1>4, <3>2, <4>2 DEF B
        <5> QED  BY <1>2, <3>2, <5>1, NextTime DEF Soon
      <4>5. Within(door, stamp, q)'
        BY <4>3, <4>4, CollectionNumbers DEF Within
      <4> QED  BY <1>4, <2>1, <3>2, <4>5
    <3> QED  BY <3>3, <3>4
  <2> QED  BY <2>2, <2>3 DEF Timed, G
<1> QED  BY <1>3, <1>7, <1>8, <1>9, <1>10 DEF Results

-----------------------------------------------------------------------------
(* A series that its timestamp may spare a cycle.                             *)
Sparers(door, stamp) ==
    /\ door \subseteq Gates /\ stamp \subseteq Gates
    /\ SparedBy(at.site, at.series, door, stamp)

LEMMA SparersPlaced ==
    ASSUME NEW door, NEW stamp, Sparers(door, stamp)
    PROVE  Placed(door, stamp)
BY DEF Sparers, SparedBy, Placed

LEMMA SparedBounds ==
    ASSUME NEW door
    PROVE  /\ Leeway(door) \in Nat /\ Pardon(door) \in Nat
           /\ Leeway(door) = CycleGap + Bound(door)
           /\ Leeway(door) + Retry <= Pardon(door) /\ Leeway(door) + CycleGap <= Pardon(door)
           /\ Pardon(door) = Leeway(door) + Retry \/ Pardon(door) = Leeway(door) + CycleGap
<1>1. Bound(door) \in Nat
  BY Bounds
<1> HIDE DEF Bound
<1> QED  BY <1>1, CollectionNumbers DEF Leeway, Pardon

(* The contract at the row that the cycle takes.                              *)
LEMMA SparedFacts ==
    ASSUME TypeOK, NEW door, NEW stamp, Sparers(door, stamp),
           NEW v \in Views[at.site][at.series][Due]
    PROVE  /\ v.asked \subseteq Due /\ v.marked \cap door \subseteq Due
           /\ door \subseteq v.kept
           /\ door \cup stamp \subseteq Due => v.result # "passed"
           /\ v.marked \cap v.kept \cap stamp # {} => v.result = "wrote"
           /\ v.result = "passed" => v.kept \cap stamp = {}
           /\ v.result = "missed" => v.marked \cap door = {}
<1>1. Due \in SUBSET Clocked(at.site, at.series)
  BY DEF Due, Gates
<1>2. SparedBy(at.site, at.series, door, stamp)
  BY DEF Sparers
<1> HIDE DEF Due
<1> QED  BY <1>1, <1>2 DEF SparedBy

(* Its next moment, too, comes nearer with each tick.                         *)
LEMMA SparedNearer ==
    ASSUME TypeOK, Tick, NEW door, NEW stamp, Placed(door, stamp), stamp # {},
           NEW n \in Int, NEW m \in Int, n - 1 <= m, SparedWithin(door, stamp, n)
    PROVE  SparedWithin(door, stamp, m)'
<1>1. (\A k \in Gates : ran'[k] = AtMost(ran[k] + 1, Interval)) /\ idle' = idle + 1 /\ at' = at
  BY DEF Tick
<1>2. Bound(door) \in Nat /\ Bound(door) > 0 /\ Bound(door)' = Bound(door)
  BY Bounds DEF Bound, Ripe
<1>3. Placed(door, stamp)' /\ TypeOK'
  BY <1>1, CollectionTypesStay DEF Placed, Gates, Next
<1> HIDE DEF Bound
<1>4. PICK k \in stamp : stamp = {k}
  BY Clocks
<1>5. k \in Gates /\ ran[k] \in Nat /\ ran[k] <= Interval /\ idle \in Nat /\ idle < CycleGap
  BY <1>4, Clocks DEF Tick
<1>6. ran'[k] = AtMost(ran[k] + 1, Interval)
  BY <1>1, <1>5
<1>7. CASE ran[k] = Interval
  <2>1. DoorWithin(door, n)
    BY <1>4, <1>7 DEF SparedWithin
  <2>2. ran'[k] = Interval /\ ~(ran'[k] < Interval)
    BY <1>6, <1>7, CollectionNumbers DEF AtMost
  <2>3. DoorWithin(door, m)'
    BY <2>1, DoorTick
  <2> QED  BY <1>4, <2>2, <2>3 DEF SparedWithin
<1>8. CASE ran[k] < Interval
  <2>1. CycleGap - idle + Bound(door) <= n
    BY <1>4, <1>8 DEF SparedWithin
  <2>2. CycleGap - idle' + Bound(door) <= m /\ Bound(door) <= m
    BY <1>1, <1>2, <1>5, <2>1, CollectionNumbers
  <2>3. DoorWithin(door, m)'
    BY <1>2, <1>3, <2>2, NextTime DEF Soon
  <2> QED  BY <1>2, <1>4, <2>2, <2>3 DEF SparedWithin
<1> QED  BY <1>5, <1>7, <1>8, CollectionNumbers

LEMMA TickSpared ==
    ASSUME TypeOK, Tick, NEW door, NEW stamp, Placed(door, stamp), stamp # {},
           SparedTimed(door, stamp)
    PROVE  SparedTimed(door, stamp)'
<1>1. misses' = misses
  BY DEF Tick
<1>2. age' # Unwritten => age # Unwritten /\ age \in Nat /\ age' \in Nat /\ age' <= age + 1
  BY CollectionNumbers DEF Tick, AtMost, Unwritten, TypeOK
<1> DEFINE H == Leeway(door)
           G == Pardon(door)
<1>3. H \in Nat /\ G \in Nat /\ H' = H /\ G' = G
  BY SparedBounds DEF Leeway, Pardon, Bound, Ripe
<1> HIDE DEF H, G
<1>4. ASSUME NEW n \in Int, SparedWithin(door, stamp, n - age), age' # Unwritten
      PROVE  SparedWithin(door, stamp, n - age)'
  <2>1. PICK p \in Int, q \in Int : p = n - age /\ q = n - age' /\ p - 1 <= q
    BY <1>2, <1>4
  <2>2. SparedWithin(door, stamp, p)
    BY <1>4, <2>1
  <2>3. SparedWithin(door, stamp, q)'
    BY <2>1, <2>2, SparedNearer
  <2> QED  BY <2>1, <2>3
<1>5. ASSUME (age # Unwritten)', (misses = 0)' PROVE SparedWithin(door, stamp, H - age)'
  BY <1>1, <1>2, <1>3, <1>4, <1>5 DEF SparedTimed, H
<1>6. ASSUME (age # Unwritten)', (misses = 1)' PROVE SparedWithin(door, stamp, G - age)'
  BY <1>1, <1>2, <1>3, <1>4, <1>6 DEF SparedTimed, G
<1> QED  BY <1>5, <1>6 DEF SparedTimed, H, G

(* A cycle that passes it over drops the timestamp, and one that misses it    *)
(* leaves the door unmarked.                                                  *)
LEMMA CycleSpared ==
    ASSUME TypeOK, TypeOK', Cycle, NEW door, NEW stamp, Sparers(door, stamp),
           SparedTimed(door, stamp)
    PROVE  SparedTimed(door, stamp)'
<1> Placed(door, stamp)
  BY SparersPlaced
<1>1. PICK v \in Views[at.site][at.series][Due] : Takes(v)
  BY CycleTakes
<1>2. idle' = 0 /\ at' = at /\ Placed(door, stamp)'
  BY CycleTakes DEF Placed
<1>3. v.result \in Results
  BY RowTypes
<1> DEFINE H == Leeway(door)
           G == Pardon(door)
           B == Bound(door)
<1>4. /\ H \in Nat /\ G \in Nat /\ B \in Nat /\ H = CycleGap + B
      /\ H + Retry <= G /\ H + CycleGap <= G
      /\ H' = H /\ G' = G /\ B' = B
  BY Bounds, SparedBounds DEF Leeway, Pardon, Bound, Ripe
<1>5. /\ age \in Int /\ misses \in 0 .. 2
      /\ idle \in Nat /\ idle <= CycleGap /\ CycleGap \in Nat /\ Retry \in Nat /\ Retry > 0
  BY Clocks, CollectionNumbers DEF TypeOK, Unwritten
<1>6. PICK k \in stamp : stamp = {k}
  BY Clocks DEF Sparers, SparedBy
<1>7. k \in Gates /\ ran[k] \in Nat /\ ran[k] <= Interval /\ (k \in Due <=> ran[k] = Interval)
  BY <1>6, Clocks DEF Due
<1>8. ran'[k] = IF k \notin v.kept THEN Interval ELSE IF k \in v.marked THEN 0 ELSE ran[k]
  BY <1>1, <1>7 DEF Takes
<1>9. \A n \in Int : B <= n => DoorWithin(door, n)'
  BY <1>2, <1>4, NextTime DEF Soon, B
<1> HIDE DEF H, G, B
<1>10. ASSUME NEW n \in Int, NEW m \in Int, n <= m, DoorWithin(door, n), ~(door \subseteq Due)
       PROVE  DoorWithin(door, m)'
  <2>1. (v.asked \cup v.marked) \cap door \subseteq Due /\ door \subseteq v.kept
    BY SparedFacts
  <2> QED  BY <1>1, <1>2, <1>10, <2>1, DoorKept
<1>11. CASE v.result = "wrote"
  <2>1. misses' = 0 /\ age' = 0
    BY <1>1, <1>11 DEF Takes
  <2>2. CycleGap - idle' + Bound(door)' <= H
    BY <1>2, <1>4, <1>5 DEF B
  <2>3. DoorWithin(door, H)'
    BY <1>4, <1>5, <1>9
  <2>4. SparedWithin(door, stamp, H)'
    BY <2>2, <2>3 DEF SparedWithin
  <2>5. H' - age' = H'
    BY <1>4, <2>1
  <2>6. SparedWithin(door, stamp, H - age)'
    BY <2>4, <2>5
  <2> QED  BY <2>1, <2>6 DEF SparedTimed, H
<1>12. CASE v.result = "absent"
  <2>1. misses' = 2
    BY <1>1, <1>12 DEF Takes
  <2> QED  BY <2>1 DEF SparedTimed
<1>13. CASE v.result = "passed"
  <2>1. misses' = misses /\ age' = age
    BY <1>1, <1>13 DEF Takes
  <2>2. ran'[k] = Interval /\ ~(ran'[k] < Interval)
    BY <1>6, <1>7, <1>8, <1>13, SparedFacts, CollectionNumbers
  <2>3. ASSUME NEW n \in Int, SparedWithin(door, stamp, n)
        PROVE  SparedWithin(door, stamp, n)'
    <3>1. CASE ran[k] = Interval
      <4>1. DoorWithin(door, n) /\ ~(door \subseteq Due)
        BY <1>6, <1>7, <1>13, <2>3, <3>1, SparedFacts DEF SparedWithin
      <4>2. DoorWithin(door, n)'
        BY <1>10, <4>1
      <4> QED  BY <1>6, <2>2, <4>2 DEF SparedWithin
    <3>2. CASE ran[k] < Interval
      <4>1. CycleGap - idle + B <= n
        BY <1>6, <2>3, <3>2 DEF SparedWithin, B
      <4>2. B <= n
        BY <1>4, <1>5, <4>1
      <4>3. DoorWithin(door, n)'
        BY <1>9, <4>2
      <4> QED  BY <1>6, <2>2, <4>3 DEF SparedWithin
    <3> QED  BY <1>7, <3>1, <3>2, CollectionNumbers
  <2>4. ASSUME NEW n \in Int, SparedWithin(door, stamp, n - age)
        PROVE  SparedWithin(door, stamp, n - age)'
    <3>1. PICK p \in Int : p = n - age
      BY <1>5
    <3>2. SparedWithin(door, stamp, p)'
      BY <2>3, <2>4, <3>1
    <3> QED  BY <2>1, <3>1, <3>2
  <2>5. ASSUME (age # Unwritten)', (misses = 0)' PROVE SparedWithin(door, stamp, H - age)'
    BY <1>4, <2>1, <2>4, <2>5 DEF SparedTimed, H
  <2>6. ASSUME (age # Unwritten)', (misses = 1)' PROVE SparedWithin(door, stamp, G - age)'
    BY <1>4, <2>1, <2>4, <2>6 DEF SparedTimed, G
  <2> QED  BY <2>5, <2>6 DEF SparedTimed, H, G
<1>14. CASE v.result = "missed"
  <2>1. misses' = AtMost(misses + 1, 2) /\ age' = age
    BY <1>1, <1>14 DEF Takes
  <2>2. misses' # 0 /\ (misses' = 1 => misses = 0)
    BY <1>5, <2>1 DEF AtMost
  <2>3. ran'[k] = ran[k] \/ ran'[k] = Interval
    BY <1>6, <1>8, <1>14, SparedFacts
  <2>4. ASSUME (age # Unwritten)', (misses = 1)' PROVE SparedWithin(door, stamp, G - age)'
    <3>1. SparedWithin(door, stamp, H - age)
      BY <2>1, <2>2, <2>4 DEF SparedTimed, H
    <3>2. PICK p \in Int, q \in Int :
            p = H - age /\ q = G - age /\ p + Retry <= q /\ p + CycleGap <= q
      BY <1>4, <1>5
    <3>3. CASE ran[k] = Interval
      <4>1. ran'[k] = Interval /\ ~(ran'[k] < Interval)
        BY <2>3, <3>3, CollectionNumbers
      <4>2. DoorWithin(door, p)
        BY <1>6, <3>1, <3>2, <3>3 DEF SparedWithin
      <4>3. CASE ~(door \subseteq Due)
        <5>1. p <= q
          BY <1>5, <3>2
        <5>2. DoorWithin(door, q)'
          BY <1>10, <3>2, <4>2, <4>3, <5>1
        <5>3. SparedWithin(door, stamp, q)'
          BY <1>6, <4>1, <5>2 DEF SparedWithin
        <5> QED  BY <1>4, <2>1, <3>2, <5>3
      <4>4. CASE door \subseteq Due
        <5>1. PICK l \in door : door = {l}
          BY Clocks DEF Sparers, SparedBy
        <5>2. /\ l \in Gates /\ ran[l] \in Nat /\ ran[l] >= Ripe /\ tried[l] = Retry
          BY <4>4, <5>1, Clocks DEF Due
        <5>3. ran'[l] = ran[l] /\ tried'[l] \in {0, Retry}
          BY <1>1, <1>14, <5>1, <5>2, SparedFacts DEF Takes
        <5>4. p >= 0
          BY <4>2 DEF DoorWithin
        <5>5. /\ q >= 0 /\ 1 <= q /\ Ripe - ran'[l] <= q /\ Retry - tried'[l] <= q
          BY <1>5, <3>2, <5>2, <5>3, <5>4, CollectionNumbers
        <5>6. DoorWithin(door, q)'
          BY <5>1, <5>5 DEF DoorWithin, Ripe
        <5>7. SparedWithin(door, stamp, q)'
          BY <1>6, <4>1, <5>6 DEF SparedWithin
        <5> QED  BY <1>4, <2>1, <3>2, <5>7
      <4> QED  BY <4>3, <4>4
    <3>4. CASE ran[k] < Interval
      <4>1. CycleGap - idle + B <= p
        BY <1>6, <3>1, <3>2, <3>4 DEF SparedWithin, B
      <4>2. B <= q /\ CycleGap - idle' + B <= q
        BY <1>2, <1>4, <1>5, <3>2, <4>1
      <4>3. DoorWithin(door, q)'
        BY <1>9, <4>2
      <4>4. CycleGap - idle' + Bound(door)' <= q
        BY <1>4, <4>2 DEF B
      <4>5. SparedWithin(door, stamp, q)'
        BY <4>3, <4>4 DEF SparedWithin
      <4> QED  BY <1>4, <2>1, <3>2, <4>5
    <3> QED  BY <1>7, <3>3, <3>4, CollectionNumbers
  <2> QED  BY <2>2, <2>4 DEF SparedTimed, G
<1> QED  BY <1>3, <1>11, <1>12, <1>13, <1>14 DEF Results

-----------------------------------------------------------------------------
(* They are due still after any step.                                         *)
LEMMA FleetingStays ==
    ASSUME TypeOK, FleetingDue, [Next]_vars
    PROVE  FleetingDue'
<1>1. CASE Cycle
  <2>1. PICK v \in Views[at.site][at.series][Due] : Takes(v)
    BY <1>1, CycleTakes
  <2>2. at' = at
    BY <1>1, CycleTakes
  <2>3. v \in ViewsOf(at.site, at.series)
    BY <2>1, RowTypes
  <2>4. ASSUME NEW k \in Fleeting(at.site, at.series) PROVE ran'[k] = Interval
    <3>1. k \in Gates /\ k \notin v.marked \cap v.kept /\ ran[k] = Interval
      BY <2>3 DEF Fleeting, Gates, FleetingDue
    <3> QED  BY <2>1, <3>1 DEF Takes
  <2> QED  BY <2>2, <2>4 DEF FleetingDue
<1>2. CASE Tick
  <2>1. at' = at /\ \A k \in Gates : ran'[k] = AtMost(ran[k] + 1, Interval)
    BY <1>2 DEF Tick
  <2>2. \A k \in Fleeting(at.site, at.series) : k \in Gates
    BY DEF Fleeting, Gates
  <2> QED  BY <2>1, <2>2, CollectionNumbers DEF FleetingDue, AtMost
<1>3. CASE UNCHANGED vars
  BY <1>3 DEF vars, FleetingDue
<1> QED  BY <1>1, <1>2, <1>3 DEF Next

(* A series keeps its door and its timestamp, and is kept within its wait.    *)
LEMMA FedStays ==
    ASSUME TypeOK, TypeOK', FedInv, [Next]_vars
    PROVE  FedInv'
<1>1. FleetingDue'
  BY FleetingStays DEF FedInv
<1>2. PICK door \in Single(Gates), stamp \in Single(Gates) :
          \/ FedBy(at.site, at.series, door, stamp) /\ Timed(door, stamp)
          \/ SparedBy(at.site, at.series, door, stamp) /\ SparedTimed(door, stamp)
  BY DEF FedInv
<1>3. at' = at /\ Gates' = Gates
  BY DEF Next, Cycle, Tick, vars, Gates
<1>4. door \subseteq Gates /\ stamp \subseteq Gates
  BY DEF Single
<1>5. CASE FedBy(at.site, at.series, door, stamp) /\ Timed(door, stamp)
  <2>1. Feeders(door, stamp) /\ Placed(door, stamp)
    BY <1>4, <1>5, FeedersPlaced DEF Feeders
  <2>2. CASE Cycle
    BY <1>1, <1>3, <1>5, <2>1, <2>2, CycleTimed DEF FedInv
  <2>3. CASE Tick
    BY <1>1, <1>3, <1>5, <2>1, <2>3, TickTimed DEF FedInv
  <2>4. CASE UNCHANGED vars
    <3>1. Timed(door, stamp)'
      BY <1>5, <2>4 DEF vars, Timed, Within, DoorWithin, Horizon, Grace, Bound, Ripe
    <3> QED  BY <1>1, <1>3, <1>5, <3>1 DEF FedInv
  <2> QED  BY <2>2, <2>3, <2>4 DEF Next
<1>6. CASE SparedBy(at.site, at.series, door, stamp) /\ SparedTimed(door, stamp)
  <2>1. Sparers(door, stamp) /\ Placed(door, stamp) /\ stamp # {}
    BY <1>4, <1>6, SparersPlaced DEF Sparers, SparedBy
  <2>2. CASE Cycle
    BY <1>1, <1>3, <1>6, <2>1, <2>2, CycleSpared DEF FedInv
  <2>3. CASE Tick
    BY <1>1, <1>3, <1>6, <2>1, <2>3, TickSpared DEF FedInv
  <2>4. CASE UNCHANGED vars
    <3>1. SparedTimed(door, stamp)'
      BY <1>6, <2>4 DEF vars, SparedTimed, SparedWithin, DoorWithin, Leeway, Pardon, Bound, Ripe
    <3> QED  BY <1>1, <1>3, <1>6, <3>1 DEF FedInv
  <2> QED  BY <2>2, <2>3, <2>4 DEF Next
<1> QED  BY <1>2, <1>5, <1>6

LEMMA FedBegins == Init => FedInv
<1> SUFFICES ASSUME Init PROVE FedInv
  OBVIOUS
<1>1. at.site \in Sites /\ at.series \in SeriesOf[at.site] /\ age = Unwritten
  BY DEF Init
<1>2. PICK door \in Single(Gates), stamp \in Single(Gates) :
          FedBy(at.site, at.series, door, stamp) \/ SparedBy(at.site, at.series, door, stamp)
  BY <1>1, OutcomesAssumption DEF Gates
<1>3. Timed(door, stamp) /\ SparedTimed(door, stamp)
  BY <1>1 DEF Timed, SparedTimed
<1>4. FleetingDue
  BY DEF FleetingDue, Fleeting, Init, Gates
<1> QED  BY <1>2, <1>3, <1>4 DEF FedInv

-----------------------------------------------------------------------------
(* One failure may pass, or two.                                              *)
LEMMA FeedersTolerate ==
    ASSUME TypeOK, NEW door, NEW stamp, Feeders(door, stamp), Timed(door, stamp),
           2 * CycleGap <= Interval
    PROVE  FaultTolerated
<1> SUFFICES ASSUME ~FaultTolerated PROVE FALSE
  OBVIOUS
<1> Placed(door, stamp)
  BY FeedersPlaced
<1>1. FedBy(at.site, at.series, door, stamp) /\ Timed(door, stamp)
  BY DEF Feeders
<1>3. age > TTL /\ age \in Int /\ age # Unwritten /\ misses \in 0 .. 2
  BY CollectionNumbers DEF FaultTolerated, Gone, TypeOK, Unwritten
<1>4. \/ misses = 0
      \/ misses = 1 /\ at.series[2] \notin StampedRegardless
  BY <1>3 DEF FaultTolerated, Gone
<1>5. /\ Horizon(door, stamp) \in Nat /\ Grace(door, stamp) \in Nat
      /\ Bound(door) \in Nat /\ Bound(door) > 0
  BY Bounds
<1>6. ASSUME NEW n \in Int, Within(door, stamp, n) PROVE n >= 0
  <2>1. CASE stamp = {}
    BY <1>6, <2>1 DEF Within, DoorWithin
  <2>2. CASE stamp # {}
    <3>1. PICK k \in stamp : stamp = {k} /\ ran[k] \in Nat /\ ran[k] <= Interval
      BY <2>2, Clocks
    <3>2. CASE ran[k] = Interval
      BY <1>6, <3>1, <3>2 DEF Within, DoorWithin
    <3>3. CASE ran[k] < Interval
      <4>1. Interval - ran[k] + Bound(door) - 1 <= n
        BY <1>6, <3>1, <3>3 DEF Within
      <4> QED  BY <1>5, <3>1, <3>3, <4>1, CollectionNumbers
    <3> QED  BY <3>1, <3>2, <3>3, CollectionNumbers
  <2> QED  BY <2>1, <2>2
<1>7. Horizon(door, stamp) <= TTL
  <2>1. CASE at.series[2] = Cadence
    <3>1. door = {} /\ stamp = {}
      BY <1>1, <2>1 DEF FedBy
    <3> QED  BY <2>1, <3>1, Bounds, CollectionNumbers
  <2>2. CASE at.series[2] # Cadence
    <3>1. TTL = 2 * Interval /\ Bound(door) <= Interval
      BY <2>2, Bounds, CollectionNumbers
    <3>2. Horizon(door, stamp) <= Interval + Bound(door) - 1
      BY Bounds, CollectionNumbers
    <3> QED  BY <1>5, <3>1, <3>2, CollectionNumbers
  <2> QED  BY <2>1, <2>2
<1>8. ASSUME at.series[2] \notin StampedRegardless PROVE Grace(door, stamp) <= TTL
  <2>1. CASE at.series[2] = Cadence
    <3>1. door = {} /\ stamp = {}
      BY <1>1, <2>1 DEF FedBy
    <3>2. Bound(door) = CycleGap /\ Horizon(door, stamp) = CycleGap /\ TTL = 2 * CycleGap
      BY <2>1, <3>1, Bounds, CollectionNumbers
    <3> QED  BY <1>5, <3>2, Bounds, CollectionNumbers
  <2>2. CASE at.series[2] # Cadence
    <3>1. /\ TTL = 2 * Interval /\ Bound(door) <= Interval
          /\ Grace(door, stamp) = Horizon(door, stamp) + Bound(door)
      BY <2>2, Bounds, CollectionNumbers
    <3>2. CASE stamp = {}
      <4>1. Horizon(door, stamp) = Bound(door)
        BY <3>2, Bounds
      <4> QED  BY <1>5, <3>1, <4>1, CollectionNumbers
    <3>3. CASE stamp # {}
      <4>1. door = {}
        BY <1>1, <1>8, <3>3 DEF FedBy
      <4>2. Bound(door) = CycleGap /\ Horizon(door, stamp) = Interval + CycleGap - 1
        BY <3>3, <4>1, Bounds
      <4> QED  BY <1>5, <3>1, <4>2, CollectionNumbers
    <3> QED  BY <3>2, <3>3
  <2> QED  BY <2>1, <2>2
<1>9. CASE misses = 0
  <2>1. Within(door, stamp, Horizon(door, stamp) - age)
    BY <1>1, <1>3, <1>9 DEF Timed
  <2>2. PICK n \in Int : n = Horizon(door, stamp) - age
    BY <1>3, <1>5
  <2>3. n >= 0
    BY <1>6, <2>1, <2>2
  <2> QED  BY <1>3, <1>5, <1>7, <2>2, <2>3, CollectionNumbers
<1>10. CASE misses = 1 /\ at.series[2] \notin StampedRegardless
  <2>1. Within(door, stamp, Grace(door, stamp) - age)
    BY <1>1, <1>3, <1>10 DEF Timed
  <2>2. PICK n \in Int : n = Grace(door, stamp) - age
    BY <1>3, <1>5
  <2>3. n >= 0
    BY <1>6, <2>1, <2>2
  <2> QED  BY <1>3, <1>5, <1>8, <1>10, <2>2, <2>3, CollectionNumbers
<1> QED  BY <1>4, <1>9, <1>10

(* The usage of the ports needs a gap and a retry to fit its interval, too.   *)
Tolerable == at.series[2] = "ms_port_usage" => CycleGap + Retry <= Interval

LEMMA SparersTolerate ==
    ASSUME TypeOK, NEW door, NEW stamp, Sparers(door, stamp), SparedTimed(door, stamp),
           2 * CycleGap <= Interval, Tolerable
    PROVE  FaultTolerated
<1> SUFFICES ASSUME ~FaultTolerated PROVE FALSE
  OBVIOUS
<1> Placed(door, stamp)
  BY SparersPlaced
<1>1. age > TTL /\ age \in Int /\ age # Unwritten /\ misses \in 0 .. 1 /\ TTL = 2 * Interval
  BY CollectionNumbers DEF Cadence, FaultTolerated, Gone, TypeOK, Unwritten, Sparers, SparedBy
<1>2. ASSUME NEW n \in Int, SparedWithin(door, stamp, n) PROVE n >= 0
  <2>1. PICK k \in stamp : stamp = {k} /\ ran[k] \in Nat /\ ran[k] <= Interval
    BY Clocks DEF Sparers, SparedBy
  <2>2. CASE ran[k] = Interval
    BY <1>2, <2>1, <2>2 DEF SparedWithin, DoorWithin
  <2>3. CASE ran[k] < Interval
    <3>1. CycleGap - idle + Bound(door) <= n
      BY <1>2, <2>1, <2>3 DEF SparedWithin
    <3>2. Bound(door) \in Nat /\ idle \in Nat /\ idle <= CycleGap
      BY Bounds, Clocks
    <3> QED  BY <3>1, <3>2, CollectionNumbers
  <2> QED  BY <2>1, <2>2, <2>3, CollectionNumbers
<1>3. /\ Leeway(door) \in Nat /\ Pardon(door) \in Nat
      /\ Leeway(door) <= TTL /\ Pardon(door) <= TTL
  <2>1. Bound(door) \in Nat /\ Bound(door) <= Interval
    BY Bounds
  <2>2. CycleGap + Retry <= Interval
    BY DEF Tolerable, Sparers, SparedBy
  <2> QED  BY <1>1, <2>1, <2>2, SparedBounds, CollectionNumbers
<1>4. CASE misses = 0
  <2>1. PICK n \in Int : n = Leeway(door) - age
    BY <1>1, <1>3
  <2>2. SparedWithin(door, stamp, n)
    BY <1>1, <1>4, <2>1 DEF SparedTimed
  <2>3. n >= 0
    BY <1>2, <2>2
  <2> QED  BY <1>1, <1>3, <2>1, <2>3, CollectionNumbers
<1>5. CASE misses = 1
  <2>1. PICK n \in Int : n = Pardon(door) - age
    BY <1>1, <1>3
  <2>2. SparedWithin(door, stamp, n)
    BY <1>1, <1>5, <2>1 DEF SparedTimed
  <2>3. n >= 0
    BY <1>2, <2>2
  <2> QED  BY <1>1, <1>3, <2>1, <2>3, CollectionNumbers
<1> QED  BY <1>1, <1>4, <1>5

LEMMA FedTolerates ==
    ASSUME TypeOK, FedInv, 2 * CycleGap <= Interval, Tolerable
    PROVE  FaultTolerated
<1>1. PICK door \in Single(Gates), stamp \in Single(Gates) :
          \/ FedBy(at.site, at.series, door, stamp) /\ Timed(door, stamp)
          \/ SparedBy(at.site, at.series, door, stamp) /\ SparedTimed(door, stamp)
  BY DEF FedInv
<1>2. door \subseteq Gates /\ stamp \subseteq Gates
  BY DEF Single
<1> QED  BY <1>1, <1>2, FeedersTolerate, SparersTolerate DEF Feeders, Sparers

-----------------------------------------------------------------------------
(* What a cycle does to the gates that a series is written through.           *)
Paces(gates) == gates \subseteq Gates /\ PacedBy(at.site, at.series, gates)

(* The contract at the row that the cycle takes.                              *)
LEMMA GateFacts ==
    ASSUME TypeOK, NEW gates, Paces(gates), NEW v \in Views[at.site][at.series][Due]
    PROVE  /\ gates \subseteq v.kept
           /\ gates \cap Due = {} =>
                 /\ v.result # "wrote" /\ v.mark = "closed"
                 /\ (v.asked \cup v.marked) \cap gates = {}
           /\ gates \subseteq Due =>
                 /\ v.asked \cap gates \in {{}, gates}
                 /\ v.marked \cap gates \in {{}, gates}
                 /\ v.result = "wrote" => v.mark # "closed"
                 /\ v.mark \in {"open", "closed"} \/ gates \subseteq v.marked
<1>1. Due \in SUBSET Clocked(at.site, at.series)
  BY DEF Due, Gates
<1>2. PacedBy(at.site, at.series, gates)
  BY DEF Paces
<1> HIDE DEF Due
<1> QED  BY <1>1, <1>2 DEF PacedBy

(* What the clocks of the gates may say.                                      *)
LEMMA GateClocks ==
    ASSUME TypeOK, NEW gates, Paces(gates)
    PROVE  \A k \in gates : /\ k \in Gates /\ ran[k] \in Nat /\ ran[k] <= Interval
                            /\ tried[k] \in Nat /\ tried[k] <= Retry
<1>1. \A k \in gates : k \in Gates /\ ran[k] \in 0 .. Interval /\ tried[k] \in 0 .. Retry
  BY DEF TypeOK, Paces
<1> QED  BY <1>1, CollectionNumbers

(* Gates that keep step are due together.                                     *)
LEMMA AllOrNone ==
    ASSUME TypeOK, NEW gates, Paces(gates), InStep(gates)
    PROVE  gates \subseteq Due \/ gates \cap Due = {}
<1> SUFFICES ASSUME NEW k \in gates, NEW l \in gates, k \in Due, l \notin Due
             PROVE  FALSE
  OBVIOUS
<1>1. k \in Gates /\ l \in Gates /\ k[2] = Org /\ l[2] = Org
  BY DEF Paces, PacedBy
<1>2. ran[k] = ran[l] /\ tried[k] = tried[l]
  BY DEF InStep
<1> QED  BY <1>1, <1>2 DEF Due, IsDue

(* A cycle marks all the gates or none, and a row that it writes leaves the   *)
(* mark open or the gates marked.                                             *)
LEMMA CyclePaced ==
    ASSUME TypeOK, TypeOK', Cycle, NEW gates, Paces(gates), InStep(gates)
    PROVE  InStep(gates)'
<1>1. PICK v \in Views[at.site][at.series][Due] : Takes(v)
  BY CycleTakes
<1>2. \A k \in gates : /\ ran'[k] = IF k \in v.marked THEN 0 ELSE ran[k]
                       /\ tried'[k] = IF k \in v.marked THEN Retry
                                      ELSE IF k \in v.asked THEN 0 ELSE tried[k]
  BY <1>1, GateFacts, GateClocks DEF Takes
<1>3. /\ age' = (IF v.result = "wrote" THEN 0 ELSE age)
      /\ last'.mark = IF v.mark = "closed" THEN last.mark ELSE v.mark
  BY <1>1 DEF Takes
<1>4. age \in Int /\ (age # Unwritten => age >= 0)
  BY DEF TypeOK, Unwritten
<1>5. \A k, l \in gates : ran[k] = ran[l] /\ tried[k] = tried[l]
  BY DEF InStep
<1>6. CASE gates \cap Due = {}
  <2>1. v.result # "wrote" /\ v.mark = "closed" /\ (v.asked \cup v.marked) \cap gates = {}
    BY <1>1, <1>6, GateFacts
  <2>2. \A k \in gates : ran'[k] = ran[k] /\ tried'[k] = tried[k]
    BY <1>2, <2>1
  <2>3. age' = age /\ last'.mark = last.mark
    BY <1>3, <2>1
  <2> QED  BY <2>2, <2>3 DEF InStep
<1>7. CASE gates \subseteq Due
  <2>1. /\ v.asked \cap gates \in {{}, gates} /\ v.marked \cap gates \in {{}, gates}
        /\ v.result = "wrote" => v.mark # "closed"
        /\ v.mark \in {"open", "closed"} \/ gates \subseteq v.marked
    BY <1>1, <1>7, GateFacts
  <2>2. \A k, l \in gates : ran'[k] = ran'[l] /\ tried'[k] = tried'[l]
    <3>1. \A k, l \in gates : /\ k \in v.marked <=> l \in v.marked
                              /\ k \in v.asked <=> l \in v.asked
      BY <2>1
    <3> QED  BY <1>2, <1>5, <3>1
  <2>3. ASSUME age' # Unwritten, last'.mark # "open", NEW k \in gates
        PROVE  ran'[k] <= age'
    <3>1. CASE v.mark = "closed"
      <4>1. age' = age /\ last.mark # "open"
        BY <1>3, <2>1, <2>3, <3>1
      <4>2. ran[k] <= age /\ ran[k] \in Nat
        BY <2>3, <4>1, GateClocks DEF InStep
      <4> QED  BY <1>2, <1>4, <4>1, <4>2
    <3>2. CASE v.mark # "closed"
      <4>1. k \in v.marked
        BY <1>3, <2>1, <2>3, <3>2
      <4>2. ran'[k] = 0 /\ age' >= 0
        BY <1>2, <1>3, <1>4, <2>3, <4>1
      <4> QED  BY <4>2
    <3> QED  BY <3>1, <3>2
  <2> QED  BY <2>2, <2>3 DEF InStep, Unwritten
<1> QED  BY <1>6, <1>7, AllOrNone

(* Time passes for the gates as for the series, up to a bound that is beyond  *)
(* the interval.                                                              *)
LEMMA TickPaced ==
    ASSUME TypeOK, Tick, at.series[2] # Cadence, NEW gates, Paces(gates), InStep(gates)
    PROVE  InStep(gates)'
<1>1. /\ \A k \in Gates : ran'[k] = AtMost(ran[k] + 1, Interval)
      /\ \A k \in Gates : tried'[k] = AtMost(tried[k] + 1, Retry)
      /\ age' = (IF age = Unwritten THEN age ELSE AtMost(age + 1, TTL + 1))
      /\ last' = last
  BY DEF Tick
<1>2. TTL = 2 * Interval /\ age \in Int
  BY CollectionNumbers DEF TypeOK, Unwritten
<1>3. \A k, l \in gates : ran'[k] = ran'[l] /\ tried'[k] = tried'[l]
  BY <1>1, GateClocks DEF InStep
<1>4. ASSUME age' # Unwritten, last'.mark # "open", NEW k \in gates
      PROVE  ran'[k] <= age'
  <2>1. age # Unwritten /\ ran[k] <= age /\ ran[k] \in Nat /\ ran[k] <= Interval
    BY <1>1, <1>4, GateClocks DEF InStep
  <2>2. ran'[k] = AtMost(ran[k] + 1, Interval) /\ age' = AtMost(age + 1, 2 * Interval + 1)
    BY <1>1, <1>2, <2>1, GateClocks
  <2> QED  BY <1>2, <2>1, <2>2, CollectionNumbers DEF AtMost
<1> QED  BY <1>3, <1>4 DEF InStep, Unwritten

LEMMA PacedStays ==
    ASSUME TypeOK, TypeOK', PacedInv, [Next]_vars
    PROVE  PacedInv'
<1>1. at' = at /\ Gates' = Gates
  BY DEF Next, Cycle, Tick, vars, Gates
<1>2. CASE at.series[2] = Cadence \/ <<at.site, at.series[2]>> \in WrittenUnasked \cup StampsForgotten
  BY <1>1, <1>2 DEF PacedInv
<1>3. CASE at.series[2] # Cadence /\ <<at.site, at.series[2]>> \notin WrittenUnasked \cup StampsForgotten
  <2>1. PICK gates \in SUBSET Gates : PacedBy(at.site, at.series, gates) /\ InStep(gates)
    BY <1>3 DEF PacedInv
  <2>2. Paces(gates)
    BY <2>1 DEF Paces
  <2>3. InStep(gates)'
    <3>1. CASE Cycle
      BY <2>1, <2>2, <3>1, CyclePaced
    <3>2. CASE Tick
      BY <1>3, <2>1, <2>2, <3>2, TickPaced
    <3>3. CASE UNCHANGED vars
      BY <2>1, <3>3 DEF vars, InStep
    <3> QED  BY <3>1, <3>2, <3>3 DEF Next
  <2> QED  BY <1>1, <2>1, <2>3 DEF PacedInv
<1> QED  BY <1>2, <1>3

LEMMA PacedBegins == Init => PacedInv
<1> SUFFICES ASSUME Init, at.series[2] # Cadence,
                    <<at.site, at.series[2]>> \notin WrittenUnasked \cup StampsForgotten
             PROVE  PacedInv
  BY DEF PacedInv
<1>1. at.site \in Sites /\ at.series \in SeriesOf[at.site] /\ age = Unwritten
  BY DEF Init
<1>2. PICK gates \in SUBSET Gates : PacedBy(at.site, at.series, gates)
  BY <1>1, OutcomesAssumption DEF Gates
<1>3. InStep(gates)
  BY <1>1, <1>2 DEF InStep, Init
<1> QED  BY <1>2, <1>3 DEF PacedInv

(* A write needs a gate that is due, and none is sooner than the tolerance.   *)
LEMMA StepPaced ==
    ASSUME TypeOK, PacedInv, [Next]_vars
    PROVE  [WrittenInTime(WrittenUnasked \cup StampsForgotten)]_vars
<1> SUFFICES ASSUME last'.result = "wrote", age' = 0, idle' = 0,
                    age # Unwritten, last.mark # "open",
                    at.series[2] # Cadence,
                    <<at.site, at.series[2]>> \notin WrittenUnasked \cup StampsForgotten,
                    ~UNCHANGED vars
             PROVE  10 * age >= 9 * Interval
  BY DEF WrittenInTime
<1>1. PICK gates \in SUBSET Gates : PacedBy(at.site, at.series, gates) /\ InStep(gates)
  BY DEF PacedInv
<1>2. Paces(gates)
  BY <1>1 DEF Paces
<1>3. Cycle
  <2>1. ~Tick
    BY CollectionNumbers DEF Tick, TypeOK
  <2> QED  BY <2>1 DEF Next
<1>4. PICK v \in Views[at.site][at.series][Due] : Takes(v)
  BY <1>3, CycleTakes
<1>5. v.result = "wrote"
  BY <1>4 DEF Takes
<1>6. PICK k \in gates : k \in Due
  BY <1>2, <1>4, <1>5, GateFacts
<1>7. ran[k] <= age /\ ran[k] \in Nat /\ age \in Int
  BY <1>1, <1>2, GateClocks DEF InStep, TypeOK, Unwritten
<1>8. 10 * ran[k] >= 9 * Interval
  BY <1>6, <1>7, CollectionNumbers DEF Due, IsDue
<1> QED  BY <1>7, <1>8, CollectionNumbers

-----------------------------------------------------------------------------
(* Every row of the table that is marked for nothing belongs to a group that  *)
(* the code marks regardless.                                                 *)
LEMMA MarksStay == TypeOK /\ MarksHonest /\ [Next]_vars => MarksHonest'
<1> SUFFICES ASSUME TypeOK, MarksHonest, [Next]_vars PROVE MarksHonest'
  OBVIOUS
<1>1. CASE Cycle
  <2>1. PICK v \in Views[at.site][at.series][Due] : Takes(v)
    BY <1>1, CycleTakes
  <2>2. (v.mark = "hollow" => at.series[2] \in MarkedRegardless) /\ v.mark # "unsung"
    BY <2>1, RowTypes, OutcomesAssumption DEF TypeOK
  <2>3. at' = at /\ last'.mark = IF v.mark = "closed" THEN last.mark ELSE v.mark
    BY <1>1, <2>1, CycleTakes DEF Takes
  <2> QED  BY <2>2, <2>3 DEF MarksHonest
<1>2. CASE Tick \/ UNCHANGED vars
  BY <1>2 DEF Tick, vars, MarksHonest
<1> QED  BY <1>1, <1>2 DEF Next

-----------------------------------------------------------------------------
(* The invariant holds throughout.                                            *)
LEMMA CollectionInductive == Spec => [](CollectionIInv /\ MarksHonest)
<1>1. Init => CollectionIInv /\ MarksHonest
  <2>1. Init => MarksHonest
    BY DEF Init, MarksHonest
  <2> QED  BY <2>1, CollectionTypesBegin, FedBegins, PacedBegins DEF CollectionIInv
<1>2. CollectionIInv /\ MarksHonest /\ [Next]_vars => (CollectionIInv /\ MarksHonest)'
  BY CollectionTypesStay, FedStays, PacedStays, MarksStay DEF CollectionIInv
<1> QED  BY <1>1, <1>2, PTL DEF Spec

(* The clocks and ages keep their bounds, and a group is marked by a cycle    *)
(* that got none of its data only where the code marks it regardless, and     *)
(* marked by every cycle that met with nothing amiss (mark_ran and the calls  *)
(* before it), for every interval, retry and gap between cycles.              *)
THEOREM CollectionSound == Spec => []CollectionInv
<1>1. CollectionIInv /\ MarksHonest => CollectionInv
  BY DEF CollectionIInv, CollectionInv
<1> QED  BY <1>1, CollectionInductive, PTL

(* A series outlives one failed collection, and one whose timestamp is set    *)
(* whatever came of the call expires only after a failure (set_metric's TTL,  *)
(* should_run, mark_ran), when a cycle comes at least twice an interval: a    *)
(* timestamp that becomes due just after a cycle waits for the next, and the  *)
(* failure of that one for another, or for a retry (Tolerable).               *)
THEOREM FailureOutlived ==
    2 * CycleGap <= Interval => (Spec => [](Tolerable => FaultTolerated))
<1> SUFFICES ASSUME 2 * CycleGap <= Interval
             PROVE  Spec => [](Tolerable => FaultTolerated)
  OBVIOUS
<1>1. CollectionIInv => (Tolerable => FaultTolerated)
  BY FedTolerates DEF CollectionIInv
<1> QED  BY <1>1, CollectionInductive, PTL

(* A series whose gates were marked is not written again before the interval  *)
(* is over, within the tolerance of should_run.                               *)
THEOREM WritesPaced == Spec => Paced
<1>1. CollectionIInv /\ [Next]_vars => [WrittenInTime(WrittenUnasked \cup StampsForgotten)]_vars
  BY StepPaced DEF CollectionIInv
<1> QED  BY <1>1, CollectionInductive, PTL DEF Spec, Paced

-----------------------------------------------------------------------------
(* The domains whose last Threshold collections failed. *)
Full == {e \in Domains : streak[e] >= Threshold}

(* Why the global source holds what it holds: an authentication failure of   *)
(* each that it counts, or two domains with a full streak.                   *)
GlobalCause ==
    /\ category[Global] \in {"auth", "net", Health!Unnamed}
    /\ category[Global] = Health!Unnamed => streak[Global] = 0
    /\ category[Global] = "net" => Cardinality(Full) >= 2
    /\ category[Global] = "auth" =>
          \/ Cardinality(Full) >= 2
          \/ authSince = Threshold
          \/ streak[Global] <= authSince
    /\ wait[Global] > 0 => streak[Global] >= Threshold

(* What is left of a backoff, and what has passed of it, make up all of it.  *)
Spaced == \A d \in Domains : streak[d] >= Threshold =>
              since[d] + wait[d] >= Health!WaitAfter(streak[d])

(* The record itself, and with it the workers. *)
TypedRecord ==
    /\ streak \in [Health!Sources -> 0..StreakCap]
    /\ wait \in [Health!Sources -> 0..MaxWait]
    /\ category \in [Health!Sources -> Health!Categories \ {"gone"}]
    /\ backoff \in 0..MaxWait
    /\ authSince \in 0..Threshold
    /\ since \in [Domains -> 0..MaxWait]

Record == TypedRecord /\ Health!AggregateAgrees /\ GlobalCause

HealthIInv == Record /\ running \subseteq Domains /\ mishap \in BOOLEAN

-----------------------------------------------------------------------------
(* The operators of the tracker; those of the libraries are its own.          *)

LEMMA HealthCard == \A S : Health!Cardinality(S) = Cardinality(S)
BY DEF Health!Cardinality, Cardinality

LEMMA HealthMin ==
    ASSUME NEW a \in Int, NEW b \in Int
    PROVE  /\ Health!Min({a, b}) \in {a, b}
           /\ Health!Min({a, b}) <= a /\ Health!Min({a, b}) <= b
<1>1. Health!Min({a, b}) = Min({a, b})
  BY DEF Health!Min, Min
<1> QED  BY <1>1, MinOfTwo

LEMMA HealthMax ==
    ASSUME NEW a \in Int, NEW b \in Int
    PROVE  /\ Health!Max({a, b}) \in {a, b}
           /\ Health!Max({a, b}) >= a /\ Health!Max({a, b}) >= b
<1>1. Health!Max({a, b}) = Max({a, b})
  BY DEF Health!Max, Max
<1> QED  BY <1>1, MaxOfTwo

LEMMA HealthFiniteMax ==
    ASSUME NEW S \in SUBSET Int, IsFiniteSet(S), S # {}
    PROVE  Health!Max(S) \in S /\ \A y \in S : Health!Max(S) >= y
<1>1. Health!Max(S) = Max(S)
  BY DEF Health!Max, Max
<1> QED  BY <1>1, FiniteMax

LEMMA SourcesFacts ==
    /\ IsFiniteSet(Health!Sources) /\ Health!Sources # {} /\ Global \in Health!Sources
    /\ Domains \subseteq Health!Sources
    /\ \A d \in Domains : d \in Health!Sources /\ d # Global
<1>1. IsFiniteSet(Domains \cup {Global})
  BY DomainsAssumption, FS_AddElement
<1> QED  BY <1>1, DomainsAssumption DEF Health!Sources

(* The aggregate is the wait of some source, and no wait is longer. *)
LEMMA LongestFacts ==
    ASSUME NEW waits \in [Health!Sources -> Int]
    PROVE  /\ \A s \in Health!Sources : waits[s] <= Health!Longest(waits)
           /\ \E s \in Health!Sources : Health!Longest(waits) = waits[s]
<1> DEFINE W == {waits[s] : s \in Health!Sources}
<1>1. W \subseteq Int /\ W # {} /\ IsFiniteSet(W)
  BY SourcesFacts, ValuesFinite
<1>2. Health!Max(W) \in W /\ \A w \in W : Health!Max(W) >= w
  <2> HIDE DEF W
  <2> QED  BY <1>1, HealthFiniteMax
<1> QED  BY <1>1, <1>2 DEF Health!Longest

LEMMA LongestTyped ==
    ASSUME NEW waits \in [Health!Sources -> 0..MaxWait]
    PROVE  Health!Longest(waits) \in 0..MaxWait
<1>1. waits \in [Health!Sources -> Int]
  BY NumbersAssumption
<1> QED  BY <1>1, LongestFacts

LEMMA WaitAfterTyped == \A f \in Threshold..StreakCap : Health!WaitAfter(f) \in 0..MaxWait
<1> SUFFICES ASSUME NEW f \in Threshold..StreakCap
             PROVE  Health!WaitAfter(f) \in 0..MaxWait
  OBVIOUS
<1> DEFINE p == 2 ^ (f - Threshold)
<1>1. f - Threshold \in 0..(StreakCap - Threshold)
  BY NumbersAssumption
<1>2. p \in Int
  BY <1>1
<1>3. p > 0
  BY <1>1, PowerAssumption
<1>4. Health!WaitAfter(f) = Health!Min({Base * p, MaxWait})
  BY DEF Health!WaitAfter
<1> HIDE DEF p
<1>5. Base * p \in Int /\ Base * p >= 0 /\ MaxWait \in Int /\ MaxWait >= 0
  BY <1>2, <1>3, NumbersAssumption
<1>6. /\ Health!Min({Base * p, MaxWait}) \in {Base * p, MaxWait}
      /\ Health!Min({Base * p, MaxWait}) <= MaxWait
  BY <1>5, HealthMin
<1> QED  BY <1>4, <1>5, <1>6

(* Two domains are enough, and more of them do not hurt. *)
LEMMA MoreFull ==
    ASSUME NEW S \in SUBSET Domains, NEW T \in SUBSET S, Cardinality(T) >= 2
    PROVE  Cardinality(S) >= 2
<1>1. IsFiniteSet(S)
  BY DomainsAssumption, FS_Subset
<1>2. /\ Cardinality(T) <= Cardinality(S)
      /\ Cardinality(T) \in Nat /\ Cardinality(S) \in Nat
  BY <1>1, FS_Subset, FS_CardinalityType
<1> QED  BY <1>2

LEMMA CountsAreNumbers == \A S \in SUBSET Domains : Cardinality(S) \in Nat
BY DomainsAssumption, FS_Subset, FS_CardinalityType

-----------------------------------------------------------------------------
LEMMA HealthBegins == Health!Init => HealthIInv
<1> SUFFICES ASSUME Health!Init PROVE HealthIInv
  OBVIOUS
<1>1. TypedRecord
  BY NumbersAssumption DEF Health!Init, TypedRecord, Health!Categories, Health!Unnamed
<1>2. Health!AggregateAgrees
  <2>1. wait \in [Health!Sources -> Int] /\ \A s \in Health!Sources : wait[s] = 0
    BY DEF Health!Init
  <2> QED  BY <2>1, LongestFacts DEF Health!Init, Health!AggregateAgrees
<1>3. GlobalCause
  BY SourcesFacts DEF Health!Init, GlobalCause, Health!Unnamed
<1> QED  BY <1>1, <1>2, <1>3 DEF Health!Init, HealthIInv, Record

(* A success takes back what rests on it. *)
LEMMA SuccessKeeps ==
    ASSUME Record, NEW d \in Domains, Health!RecordSuccess(d)
    PROVE  Record'
<1> DEFINE failures == [streak EXCEPT ![d] = 0]
           waits == [wait EXCEPT ![d] = 0]
           categories == [category EXCEPT ![d] = Health!Unnamed]
           cleared == Health!GlobalCleared(categories, failures)
<1> USE SourcesFacts
<1>1. /\ streak' = IF cleared THEN [failures EXCEPT ![Global] = 0] ELSE failures
      /\ wait' = IF cleared THEN [waits EXCEPT ![Global] = 0] ELSE waits
      /\ category' = IF cleared THEN [categories EXCEPT ![Global] = Health!Unnamed]
                     ELSE categories
      /\ backoff' = Health!Longest(wait')
      /\ authSince' = 0
      /\ since' = [since EXCEPT ![d] = MaxWait]
  BY DEF Health!RecordSuccess
<1>2. /\ failures \in [Health!Sources -> 0..StreakCap]
      /\ waits \in [Health!Sources -> 0..MaxWait]
      /\ categories \in [Health!Sources -> Health!Categories \ {"gone"}]
  BY NumbersAssumption DEF Record, TypedRecord, Health!Categories, Health!Unnamed
<1>3. /\ failures[Global] = streak[Global] /\ waits[Global] = wait[Global]
      /\ categories[Global] = category[Global]
  BY DEF Record, TypedRecord
<1>4. cleared <=> \/ category[Global] = "auth"
                  \/ category[Global] = "net"
                     /\ Cardinality(Health!Disconnected(failures, categories)) < 2
  BY <1>3, HealthCard DEF Health!GlobalCleared
<1> HIDE DEF failures, waits, categories, cleared
<1>5. TypedRecord'
  <2>1. streak' \in [Health!Sources -> 0..StreakCap] /\ wait' \in [Health!Sources -> 0..MaxWait]
    BY <1>1, <1>2, NumbersAssumption
  <2>2. category' \in [Health!Sources -> Health!Categories \ {"gone"}]
    BY <1>1, <1>2 DEF Health!Categories, Health!Unnamed
  <2>3. backoff' \in 0..MaxWait
    BY <1>1, <2>1, LongestTyped
  <2> QED  BY <1>1, <2>1, <2>2, <2>3, NumbersAssumption DEF Record, TypedRecord
<1>6. Health!AggregateAgrees'
  BY <1>1 DEF Health!AggregateAgrees, Health!Longest
<1>7. GlobalCause'
  <2>1. CASE cleared
    BY <1>1, <1>2, <2>1 DEF GlobalCause, Health!Unnamed
  <2>2. CASE ~cleared
    <3>1. /\ streak' = failures /\ wait' = waits /\ category' = categories
      BY <1>1, <2>2
    <3>2. category'[Global] = category[Global] /\ category[Global] # "auth"
      BY <1>3, <1>4, <2>2, <3>1
    <3>3. category[Global] = "net" => Cardinality(Full') >= 2
      <4>1. Health!Disconnected(failures, categories) \subseteq Full' /\ Full' \subseteq Domains
        BY <3>1 DEF Health!Disconnected, Full
      <4>2. category[Global] = "net" => Cardinality(Health!Disconnected(failures, categories)) >= 2
        BY <1>4, <2>2, <4>1, CountsAreNumbers
      <4> QED  BY <4>1, <4>2, MoreFull
    <3> QED  BY <1>3, <3>1, <3>2, <3>3 DEF Record, GlobalCause
  <2> QED  BY <2>1, <2>2
<1> QED  BY <1>5, <1>6, <1>7 DEF Record

(* A failure gives the global source no cause that it does not have. *)
LEMMA FailureKeeps ==
    ASSUME Record, NEW d \in Domains, NEW c \in Health!Categories \ {"gone"},
           Health!RecordFailure(d, c)
    PROVE  Record'
<1> DEFINE s == Health!Charged(d, c)
           failures == [streak EXCEPT ![s] = Health!Min({@ + 1, StreakCap})]
           categories == IF c = Health!Unnamed THEN category ELSE [category EXCEPT ![s] = c]
           waits == IF failures[s] >= Threshold
                    THEN [wait EXCEPT ![s] = Health!WaitAfter(failures[s])] ELSE wait
           broken == Health!Disconnected(failures, categories)
           Overflowed == /\ streak' = failures /\ category' = categories
                         /\ UNCHANGED <<wait, backoff>>
           Promoted == /\ Health!Promotes(c, failures, categories)
                       /\ streak' = [failures EXCEPT ![Global] =
                                        Health!Max({failures[e] : e \in broken})]
                       /\ wait' = [waits EXCEPT ![Global] = Health!Max({waits[e] : e \in broken})]
                       /\ category' = [categories EXCEPT ![Global] = c]
                       /\ backoff' = Health!Longest(wait')
           Counted == /\ streak' = failures /\ wait' = waits /\ category' = categories
                      /\ backoff' = Health!Longest(waits)
<1> USE SourcesFacts
<1>1. /\ since' = IF s = d THEN [since EXCEPT ![d] = 0] ELSE since
      /\ authSince' = IF c = "auth" THEN Health!Min({authSince + 1, Threshold}) ELSE authSince
      /\ Overflowed \/ Promoted \/ Counted
  BY DEF Health!RecordFailure
<1>2. s \in Health!Sources /\ (c = "auth" <=> s = Global)
  BY DEF Health!Charged
<1>3. /\ failures \in [Health!Sources -> 0..StreakCap]
      /\ failures[s] <= streak[s] + 1 /\ failures[s] >= streak[s]
      /\ \A e \in Health!Sources \ {s} : failures[e] = streak[e]
      /\ \A e \in Health!Sources : failures[e] >= streak[e]
  <2>1. streak[s] + 1 \in Int /\ StreakCap \in Int /\ streak[s] \in 0..StreakCap
    BY <1>2, NumbersAssumption DEF Record, TypedRecord
  <2>2. /\ Health!Min({streak[s] + 1, StreakCap}) \in {streak[s] + 1, StreakCap}
        /\ Health!Min({streak[s] + 1, StreakCap}) <= streak[s] + 1
        /\ Health!Min({streak[s] + 1, StreakCap}) <= StreakCap
    BY <2>1, HealthMin
  <2>3. failures[s] = Health!Min({streak[s] + 1, StreakCap})
    BY <1>2 DEF Record, TypedRecord
  <2>4. Health!Min({streak[s] + 1, StreakCap}) \in 0..StreakCap
    BY <2>1, <2>2
  <2>5. failures \in [Health!Sources -> 0..StreakCap]
    BY <1>2, <2>4 DEF Record, TypedRecord
  <2>6. \A e \in Health!Sources \ {s} : failures[e] = streak[e]
    BY DEF Record, TypedRecord
  <2>7. failures[s] <= streak[s] + 1 /\ failures[s] >= streak[s]
    BY <2>1, <2>2, <2>3
  <2>8. \A e \in Health!Sources : failures[e] >= streak[e]
    <3>1. \A e \in Health!Sources : streak[e] \in Int
      BY DEF Record, TypedRecord
    <3> HIDE DEF failures
    <3> QED  BY <2>6, <2>7, <3>1
  <2> QED  BY <2>5, <2>6, <2>7, <2>8
<1>4. /\ categories \in [Health!Sources -> Health!Categories \ {"gone"}]
      /\ c # "auth" => categories[Global] = category[Global]
      /\ c = "auth" => categories[Global] = "auth"
  BY <1>2 DEF Record, TypedRecord, Health!Unnamed
<1>5. /\ waits \in [Health!Sources -> 0..MaxWait]
      /\ waits[Global] > 0 => failures[Global] >= Threshold \/ wait[Global] > 0
      /\ c # "auth" => waits[Global] = wait[Global]
  <2>1. failures[s] >= Threshold => Health!WaitAfter(failures[s]) \in 0..MaxWait
    BY <1>2, <1>3, WaitAfterTyped, NumbersAssumption
  <2> HIDE DEF failures
  <2>2. waits \in [Health!Sources -> 0..MaxWait]
    BY <1>2, <2>1 DEF Record, TypedRecord
  <2> QED  BY <1>2, <2>2 DEF Record, TypedRecord
<1>6. broken \subseteq Domains /\ \A e \in broken : failures[e] >= Threshold
  BY DEF Health!Disconnected
<1>7. Full \subseteq {e \in Domains : failures[e] >= Threshold}
  BY <1>3, NumbersAssumption DEF Full, Record, TypedRecord
<1>8. c = "auth" => /\ authSince' \in {authSince + 1, Threshold}
                    /\ authSince' \in 0..Threshold
  <2>1. authSince + 1 \in Int /\ Threshold \in Int /\ authSince \in 0..Threshold
    BY NumbersAssumption DEF Record, TypedRecord
  <2>2. /\ Health!Min({authSince + 1, Threshold}) \in {authSince + 1, Threshold}
        /\ Health!Min({authSince + 1, Threshold}) <= Threshold
    BY <2>1, HealthMin
  <2> QED  BY <1>1, <2>1, <2>2
<1>9. ASSUME Promoted
      PROVE  /\ Health!Max({failures[e] : e \in broken}) \in Threshold..StreakCap
             /\ Health!Max({waits[e] : e \in broken}) \in 0..MaxWait
             /\ Cardinality(broken) >= 2 /\ c = "net"
  <2>1. Cardinality(broken) >= 2 /\ c = "net"
    BY <1>9, HealthCard DEF Health!Promotes
  <2> DEFINE F == {failures[e] : e \in broken}
             W == {waits[e] : e \in broken}
  <2>2. IsFiniteSet(broken) /\ broken # {}
    <3>1. IsFiniteSet(broken)
      BY <1>6, DomainsAssumption, FS_Subset
    <3>2. Cardinality(broken) # 0
      BY <2>1
    <3> QED  BY <3>1, <3>2, FS_EmptySet, Zenon
  <2> HIDE DEF failures, waits, broken
  <2>3. /\ F \subseteq Threshold..StreakCap /\ F # {} /\ IsFiniteSet(F)
    <3>1. IsFiniteSet(F)
      BY <2>2, ValuesFinite
    <3> QED  BY <1>3, <1>6, <2>2, <3>1, NumbersAssumption
  <2>4. /\ W \subseteq 0..MaxWait /\ W # {} /\ IsFiniteSet(W)
    <3>1. IsFiniteSet(W)
      BY <2>2, ValuesFinite
    <3> QED  BY <1>5, <1>6, <2>2, <3>1
  <2>5. Health!Max(F) \in F
    <3> HIDE DEF F
    <3>1. F \subseteq Int
      BY <2>3
    <3> QED  BY <2>3, <3>1, HealthFiniteMax
  <2>6. Health!Max(W) \in W
    <3> HIDE DEF W
    <3>1. W \subseteq Int
      BY <2>4
    <3> QED  BY <2>4, <3>1, HealthFiniteMax
  <2> QED  BY <2>1, <2>3, <2>4, <2>5, <2>6
<1> HIDE DEF s, failures, categories, waits, broken
<1>10. TypedRecord'
  <2>1. since' \in [Domains -> 0..MaxWait]
    BY <1>1, NumbersAssumption DEF Record, TypedRecord
  <2>2. authSince' \in 0..Threshold
    BY <1>1, <1>8 DEF Record, TypedRecord
  <2>3. CASE Overflowed
    BY <1>3, <1>4, <2>1, <2>2, <2>3 DEF Record, TypedRecord
  <2>4. CASE Promoted
    <3>1. wait' \in [Health!Sources -> 0..MaxWait]
      BY <1>5, <1>9, <2>4
    <3>2. streak' \in [Health!Sources -> 0..StreakCap]
      BY <1>3, <1>9, <2>4, NumbersAssumption
    <3>3. category' \in [Health!Sources -> Health!Categories \ {"gone"}]
      BY <1>4, <2>4
    <3>4. backoff' \in 0..MaxWait
      BY <2>4, <3>1, LongestTyped
    <3> QED  BY <2>1, <2>2, <3>1, <3>2, <3>3, <3>4 DEF TypedRecord
  <2>5. CASE Counted
    BY <1>3, <1>4, <1>5, <2>1, <2>2, <2>5, LongestTyped DEF TypedRecord
  <2> QED  BY <1>1, <2>3, <2>4, <2>5
<1>11. Health!AggregateAgrees'
  BY <1>1 DEF Health!AggregateAgrees, Health!Longest, Record
<1>12. GlobalCause'
  <2>1. Full' \subseteq Domains /\ Full \subseteq Full'
    <3>1. \A e \in Domains : streak'[e] = failures[e]
      BY <1>1, <1>3
    <3> QED  BY <1>7, <3>1 DEF Full
  <2>2. Cardinality(Full) >= 2 => Cardinality(Full') >= 2
    BY <2>1, MoreFull
  <2>3. CASE Promoted
    <3>1. category'[Global] = "net" /\ streak'[Global] >= Threshold
      BY <1>3, <1>4, <1>9, <2>3
    <3>2. broken \subseteq Full'
      BY <1>3, <1>6, <2>3 DEF Full
    <3>3. Cardinality(Full') >= 2
      BY <1>9, <2>1, <2>3, <3>2, MoreFull
    <3> QED  BY <3>1, <3>3 DEF GlobalCause, Health!Unnamed
  <2>4. CASE Overflowed \/ Counted
    <3>1. streak'[Global] = failures[Global] /\ category'[Global] = categories[Global]
      BY <2>4
    <3>2. wait'[Global] \in {wait[Global], waits[Global]}
      BY <2>4
    <3>3. wait'[Global] > 0 => streak'[Global] >= Threshold
      BY <1>3, <1>5, <3>1, <3>2, NumbersAssumption DEF Record, TypedRecord, GlobalCause
    <3>4. CASE c = "auth"
      <4>1. category'[Global] = "auth"
        BY <1>4, <3>1, <3>4
      <4>2. streak'[Global] <= streak[Global] + 1
        BY <1>2, <1>3, <3>1, <3>4
      <4>3. \/ Cardinality(Full') >= 2 \/ authSince' = Threshold
            \/ streak'[Global] <= authSince'
        <5>1. \/ Cardinality(Full) >= 2 \/ authSince = Threshold
              \/ streak[Global] <= authSince
          BY NumbersAssumption DEF Record, TypedRecord, GlobalCause
        <5>2. /\ authSince \in 0..Threshold /\ streak[Global] \in Int /\ streak'[Global] \in Int
              /\ Threshold \in Nat
          BY <1>10, NumbersAssumption DEF Record, TypedRecord
        <5>3. authSince = Threshold => authSince' = Threshold
          BY <1>8, <3>4, <5>2
        <5>4. streak[Global] <= authSince =>
                  authSince' = Threshold \/ streak'[Global] <= authSince'
          BY <1>8, <3>4, <4>2, <5>2
        <5> QED  BY <2>2, <5>1, <5>3, <5>4
      <4> QED  BY <3>3, <4>1, <4>3 DEF GlobalCause, Health!Unnamed
    <3>5. CASE c # "auth"
      <4>1. category'[Global] = category[Global] /\ streak'[Global] = streak[Global]
            /\ authSince' = authSince
        BY <1>1, <1>2, <1>3, <1>4, <3>1, <3>5
      <4> QED  BY <2>2, <3>3, <4>1 DEF Record, GlobalCause
    <3> QED  BY <3>4, <3>5
  <2> QED  BY <1>1, <2>3, <2>4
<1> QED  BY <1>10, <1>11, <1>12 DEF Record

LEMMA ElapsedFacts ==
    \A w \in Nat : /\ Health!Elapsed(w) \in Nat
                   /\ Health!Elapsed(w) <= w /\ Health!Elapsed(w) >= w - 1
                   /\ Health!Elapsed(w) \in {w - 1, 0}
<1> SUFFICES ASSUME NEW w \in Nat
             PROVE  /\ Health!Elapsed(w) \in Nat
                    /\ Health!Elapsed(w) <= w /\ Health!Elapsed(w) >= w - 1
                    /\ Health!Elapsed(w) \in {w - 1, 0}
  OBVIOUS
<1>1. w - 1 \in Int /\ 0 \in Int
  OBVIOUS
<1>2. /\ Health!Max({w - 1, 0}) \in {w - 1, 0}
      /\ Health!Max({w - 1, 0}) >= w - 1 /\ Health!Max({w - 1, 0}) >= 0
  BY <1>1, HealthMax
<1> QED  BY <1>2 DEF Health!Elapsed

(* Time passes for the aggregate as for the waits. *)
LEMMA TickKeeps ==
    ASSUME Record, Health!Tick
    PROVE  Record'
<1>1. \A s \in Health!Sources : /\ wait[s] \in Nat /\ wait[s] <= MaxWait
                         /\ wait'[s] = Health!Elapsed(wait[s])
  BY NumbersAssumption DEF Health!Tick, Record, TypedRecord
<1>2. backoff \in Nat /\ backoff <= MaxWait /\ backoff' = Health!Elapsed(backoff)
  BY NumbersAssumption DEF Health!Tick, Record, TypedRecord
<1>3. wait' \in [Health!Sources -> 0..MaxWait]
  <2>1. \A s \in Health!Sources : Health!Elapsed(wait[s]) \in 0..MaxWait
    <3> SUFFICES ASSUME NEW s \in Health!Sources PROVE Health!Elapsed(wait[s]) \in 0..MaxWait
      OBVIOUS
    <3>1. wait[s] \in Nat /\ wait[s] <= MaxWait /\ MaxWait \in Nat
      BY <1>1, NumbersAssumption
    <3> QED  BY <3>1, ElapsedFacts
  <2> QED  BY <2>1 DEF Health!Tick
<1>4. backoff' \in 0..MaxWait
  <2>1. Health!Elapsed(backoff) \in Nat /\ Health!Elapsed(backoff) <= backoff
    BY <1>2, ElapsedFacts
  <2> QED  BY <1>2, <2>1, NumbersAssumption
<1>5. since' \in [Domains -> 0..MaxWait]
  <2>1. ASSUME NEW d \in Domains PROVE Health!Min({since[d] + 1, MaxWait}) \in 0..MaxWait
    <3>1. since[d] \in 0..MaxWait /\ since[d] + 1 \in Int /\ MaxWait \in Int
      BY NumbersAssumption DEF Record, TypedRecord
    <3>2. /\ Health!Min({since[d] + 1, MaxWait}) \in {since[d] + 1, MaxWait}
          /\ Health!Min({since[d] + 1, MaxWait}) <= MaxWait
      BY <3>1, HealthMin
    <3> QED  BY <3>1, <3>2
  <2> QED  BY <2>1 DEF Health!Tick
<1>6. TypedRecord'
  BY <1>3, <1>4, <1>5 DEF Health!Tick, Record, TypedRecord
<1>7. Health!AggregateAgrees'
  <2>1. wait \in [Health!Sources -> Int] /\ wait' \in [Health!Sources -> Int]
    BY <1>3 DEF Record, TypedRecord
  <2>2. \A s \in Health!Sources : wait[s] <= backoff
    BY <2>1, LongestFacts DEF Record, Health!AggregateAgrees
  <2>3. PICK s \in Health!Sources : backoff = wait[s]
    BY <2>1, LongestFacts DEF Record, Health!AggregateAgrees
  <2>4. wait'[s] = backoff'
    BY <1>1, <1>2, <2>3
  <2>5. \A t \in Health!Sources : wait'[t] <= backoff'
    <3> SUFFICES ASSUME NEW t \in Health!Sources PROVE wait'[t] <= backoff'
      OBVIOUS
    <3>1. wait[t] \in Nat /\ wait[t] <= backoff /\ backoff \in Nat
      BY <1>1, <1>2, <2>2
    <3>2. /\ Health!Elapsed(wait[t]) \in {wait[t] - 1, 0}
          /\ Health!Elapsed(backoff) \in Nat /\ Health!Elapsed(backoff) >= backoff - 1
      BY <3>1, ElapsedFacts
    <3> QED  BY <1>1, <1>2, <3>1, <3>2
  <2>6. /\ \A t \in Health!Sources : wait'[t] <= Health!Longest(wait')
        /\ \E t \in Health!Sources : Health!Longest(wait') = wait'[t]
    BY <2>1, LongestFacts
  <2>7. backoff' = Health!Longest(wait')
    BY <1>4, <2>1, <2>4, <2>5, <2>6
  <2> QED  BY <2>7 DEF Health!AggregateAgrees, Health!Longest
<1>8. GlobalCause'
  <2>1. UNCHANGED <<streak, category, authSince>> /\ Full' = Full
    BY DEF Health!Tick, Full
  <2>2. wait'[Global] > 0 => wait[Global] > 0
    BY <1>1, SourcesFacts, ElapsedFacts
  <2> QED  BY <2>1, <2>2 DEF Record, GlobalCause
<1> QED  BY <1>6, <1>7, <1>8 DEF Record

LEMMA RecordStays ==
    ASSUME Record, UNCHANGED <<Health!tracker, authSince, since>>
    PROVE  Record'
BY DEF Health!tracker, Record, TypedRecord, Health!AggregateAgrees, GlobalCause, Full,
       Health!Longest

LEMMA RecordNext ==
    ASSUME Record, [Health!Next]_Health!vars
    PROVE  Record'
<1>1. CASE Health!Tick
  BY <1>1, TickKeeps
<1>2. ASSUME NEW d \in Domains, Health!Begin(d)
      PROVE  Record'
  BY <1>2, RecordStays DEF Health!Begin
<1>3. ASSUME NEW d \in Domains, Health!Return(d)
      PROVE  Record'
  BY <1>3, SuccessKeeps DEF Health!Return
<1>4. ASSUME NEW d \in Domains, Health!Cancel(d)
      PROVE  Record'
  BY <1>4, SuccessKeeps, RecordStays DEF Health!Cancel
<1>5. ASSUME NEW d \in Domains, NEW c \in Health!Categories, Health!Raise(d, c)
      PROVE  Record'
  BY <1>5, FailureKeeps, RecordStays DEF Health!Raise
<1>6. CASE UNCHANGED Health!vars
  BY <1>6, RecordStays DEF Health!vars
<1> QED  BY <1>1, <1>2, <1>3, <1>4, <1>5, <1>6 DEF Health!Next

LEMMA HealthInductive == Health!Spec => []HealthIInv
<1>1. ASSUME HealthIInv, [Health!Next]_Health!vars
      PROVE  HealthIInv'
  <2>1. Record'
    BY <1>1, RecordNext DEF HealthIInv
  <2>2. running' \subseteq Domains /\ mishap' \in BOOLEAN
    BY <1>1 DEF HealthIInv, Health!Next, Health!vars, Health!Tick, Health!Begin, Health!Return,
                Health!Cancel, Health!Raise, Health!End
  <2> QED  BY <2>1, <2>2 DEF HealthIInv
<1> QED  BY <1>1, HealthBegins, PTL DEF Health!Spec

-----------------------------------------------------------------------------
(* The record keeps its types, the aggregate is its longest wait, and no     *)
(* domain is held back but on evidence about the whole organisation          *)
(* (record_failure, record_success, should_collect).                         *)
THEOREM HealthHolds == Health!Spec => []HealthInv
<1>1. HealthIInv => HealthInv
  <2> SUFFICES ASSUME HealthIInv PROVE HealthInv
    OBVIOUS
  <2>1. Health!TypeOK
    BY DEF HealthIInv, Record, TypedRecord, Health!TypeOK
  <2>2. Health!SuppressionJustified
    <3> SUFFICES ASSUME NEW d \in Domains, ~Health!ShouldCollect(d), wait[d] = 0
                 PROVE  \/ authSince >= Threshold \/ Cardinality(Full) >= 2
      BY HealthCard DEF Health!SuppressionJustified, Full
    <3>1. wait[Global] > 0 /\ wait[Global] \in Nat
      BY SourcesFacts DEF Health!ShouldCollect, HealthIInv, Record, TypedRecord
    <3>2. streak[Global] >= Threshold /\ streak[Global] \in Nat
      BY <3>1, SourcesFacts DEF HealthIInv, Record, TypedRecord, GlobalCause
    <3>3. category[Global] # Health!Unnamed
      BY <3>2, NumbersAssumption DEF HealthIInv, Record, GlobalCause
    <3> QED  BY <3>2, <3>3, NumbersAssumption DEF HealthIInv, Record, TypedRecord, GlobalCause
  <2> QED  BY <2>1, <2>2 DEF HealthIInv, Record, HealthInv, Health!HealthInv
<1> QED  BY <1>1, HealthInductive, PTL
-----------------------------------------------------------------------------
(* No streak that is counted exceeds what a float can hold the power of: the *)
(* hazard of record_failure that the README lists.                           *)
NoOverflow == StreakCap - Threshold < FloatLimit

LEMMA SpacedInit == Health!Init => Spaced
BY NumbersAssumption DEF Health!Init, Spaced, Health!Sources

LEMMA SpacedSuccess ==
    ASSUME Record, Spaced, NEW d \in Domains, Health!RecordSuccess(d)
    PROVE  Spaced'
<1> USE SourcesFacts
<1> SUFFICES ASSUME NEW e \in Domains, streak'[e] >= Threshold
             PROVE  since'[e] + wait'[e] >= Health!WaitAfter(streak'[e])
  BY DEF Spaced, Health!WaitAfter
<1>1. streak'[d] = 0
  BY DEF Health!RecordSuccess, Record, TypedRecord
<1>2. e # d
  BY <1>1, NumbersAssumption
<1>3. streak'[e] = streak[e] /\ wait'[e] = wait[e] /\ since'[e] = since[e]
  BY <1>2 DEF Health!RecordSuccess, Record, TypedRecord
<1> QED  BY <1>3 DEF Spaced

LEMMA SpacedFailure ==
    ASSUME NoOverflow, Record, Spaced, NEW d \in Domains,
           NEW c \in Health!Categories \ {"gone"}, Health!RecordFailure(d, c)
    PROVE  Spaced'
<1> USE SourcesFacts
<1> SUFFICES ASSUME NEW e \in Domains, streak'[e] >= Threshold
             PROVE  since'[e] + wait'[e] >= Health!WaitAfter(streak'[e])
  BY DEF Spaced, Health!WaitAfter
<1>1. Record' /\ streak'[e] \in Threshold..StreakCap
  <2>1. Record'
    BY FailureKeeps
  <2> QED  BY <2>1 DEF Record, TypedRecord
<1>2. Health!WaitAfter(streak'[e]) \in 0..MaxWait
  BY <1>1, WaitAfterTyped
<1>3. CASE e = Health!Charged(d, c)
  <2>1. e = d
    BY <1>3 DEF Health!Charged
  <2>2. since'[e] = 0
    BY <1>3, <2>1 DEF Health!RecordFailure, Record, TypedRecord
  <2> DEFINE failures == [streak EXCEPT ![e] = Health!Min({@ + 1, StreakCap})]
  <2>3. streak'[e] = failures[e]
    BY <1>3 DEF Health!RecordFailure, Record, TypedRecord
  <2>4. ~Health!Overflows(failures[e])
    BY <1>1, <2>3, NumbersAssumption DEF Health!Overflows, NoOverflow
  <2>5. wait'[e] = Health!WaitAfter(failures[e])
    BY <1>3, <2>3, <2>4 DEF Health!RecordFailure, Record, TypedRecord
  <2> HIDE DEF failures
  <2> QED  BY <1>2, <2>2, <2>3, <2>5
<1>4. CASE e # Health!Charged(d, c)
  <2>1. since'[e] = since[e]
    BY <1>4 DEF Health!RecordFailure, Record, TypedRecord
  <2>2. streak'[e] = streak[e] /\ wait'[e] = wait[e]
    BY <1>4 DEF Health!RecordFailure, Record, TypedRecord
  <2> QED  BY <2>1, <2>2 DEF Spaced
<1> QED  BY <1>3, <1>4

LEMMA SpacedTick ==
    ASSUME Record, Spaced, Health!Tick
    PROVE  Spaced'
<1> SUFFICES ASSUME NEW e \in Domains, streak'[e] >= Threshold
             PROVE  since'[e] + wait'[e] >= Health!WaitAfter(streak'[e])
  BY DEF Spaced, Health!WaitAfter
<1>1. streak'[e] = streak[e] /\ streak[e] \in Threshold..StreakCap
  BY SourcesFacts DEF Health!Tick, Record, TypedRecord
<1>2. Health!WaitAfter(streak[e]) \in 0..MaxWait
  BY <1>1, WaitAfterTyped
<1>3. since[e] + wait[e] >= Health!WaitAfter(streak[e])
  BY <1>1 DEF Spaced
<1>4. since[e] \in 0..MaxWait /\ wait[e] \in Nat
  BY SourcesFacts, NumbersAssumption DEF Record, TypedRecord
<1>5. since[e] + 1 \in Int /\ MaxWait \in Int
  BY <1>4, NumbersAssumption
<1>6. since'[e] \in {since[e] + 1, MaxWait}
  BY <1>5, HealthMin DEF Health!Tick
<1>7. wait'[e] \in Nat /\ wait'[e] >= wait[e] - 1
  BY <1>4, SourcesFacts, ElapsedFacts DEF Health!Tick
<1> QED  BY <1>1, <1>2, <1>3, <1>4, <1>5, <1>6, <1>7

LEMMA SpacedStays ==
    ASSUME Spaced, UNCHANGED <<Health!tracker, authSince, since>>
    PROVE  Spaced'
BY DEF Health!tracker, Spaced, Health!WaitAfter

(* A domain that failed often enough is left alone for the whole of its      *)
(* backoff, whatever the others record in between (record_failure,           *)
(* should_collect).                                                          *)
THEOREM RetriesAreSpaced ==
    ASSUME NoOverflow
    PROVE  Health!Spec => RetriesSpaced
<1>1. ASSUME Record, Spaced, [Health!Next]_Health!vars
      PROVE  Spaced'
  <2>1. ASSUME NEW d \in Domains, Health!Begin(d)
        PROVE  Spaced'
    BY <1>1, <2>1, SpacedStays DEF Health!Begin
  <2>2. ASSUME NEW d \in Domains, Health!Return(d)
        PROVE  Spaced'
    BY <1>1, <2>2, SpacedSuccess DEF Health!Return
  <2>3. ASSUME NEW d \in Domains, Health!Cancel(d)
        PROVE  Spaced'
    BY <1>1, <2>3, SpacedSuccess, SpacedStays DEF Health!Cancel
  <2>4. ASSUME NEW d \in Domains, NEW c \in Health!Categories, Health!Raise(d, c)
        PROVE  Spaced'
    BY <1>1, <2>4, SpacedFailure, SpacedStays DEF Health!Raise
  <2>5. CASE Health!Tick
    BY <1>1, <2>5, SpacedTick
  <2>6. CASE UNCHANGED Health!vars
    BY <1>1, <2>6, SpacedStays DEF Health!vars
  <2> QED  BY <1>1, <2>1, <2>2, <2>3, <2>4, <2>5, <2>6 DEF Health!Next
<1>2. ASSUME Record, Spaced, NEW d \in Domains, Health!Begin(d), streak[d] >= Threshold
      PROVE  since[d] >= Health!WaitAfter(streak[d])
  <2>1. wait[d] = 0 /\ since[d] \in 0..MaxWait
    BY <1>2 DEF Health!Begin, Health!ShouldCollect, Record, TypedRecord
  <2>2. since[d] + wait[d] >= Health!WaitAfter(streak[d])
    BY <1>2 DEF Spaced
  <2> QED  BY <2>1, <2>2
<1>3. HealthIInv => Record
  BY DEF HealthIInv
<1>4. Health!Spec => []Spaced
  BY <1>1, <1>3, SpacedInit, HealthInductive, PTL DEF Health!Spec
<1>5. Record /\ Spaced /\ [Health!Next]_Health!vars =>
        [\A d \in Domains :
            Health!Begin(d) /\ streak[d] >= Threshold =>
                since[d] >= Health!WaitAfter(streak[d])]_Health!vars
  BY <1>2
<1> QED  BY <1>3, <1>4, <1>5, HealthInductive, PTL
         DEF Health!Spec, RetriesSpaced, Health!RetriesSpaced

-----------------------------------------------------------------------------
(* The run of the tracker takes its steps, and those of no series.            *)
LEMMA HealthRun == HealthSpec => Health!Spec
<1>1. HealthInit => Health!Init
  BY DEF HealthInit
<1>2. [Health!Next /\ UNCHANGED vars]_<<vars, Health!vars>> => [Health!Next]_Health!vars
  OBVIOUS
<1> QED  BY <1>1, <1>2, PTL DEF HealthSpec, Health!Spec
=============================================================================
