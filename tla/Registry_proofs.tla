-------------------------- MODULE Registry_proofs --------------------------
(***************************************************************************)
(* Machine-checked proofs about the series of the registry: how long they  *)
(* live (SeriesExpiry), and what polls and webhooks write into those of    *)
(* the devices (DeviceState), for all values of the constants.             *)
(***************************************************************************)
EXTENDS MCRegistry, BasicLemmas, FiniteSetTheorems, TLAPS

Ttls == {i * Multiplier : i \in Intervals}

LEMMA IntervalFacts ==
    \A i \in Intervals :
        /\ i \in Nat /\ i * Multiplier \in Nat
        /\ i * Multiplier # Lazy
        /\ i * Multiplier + Period < AgeCap
        /\ i + Slack < RanCap
<1> SUFFICES ASSUME NEW i \in Intervals
             PROVE  /\ i \in Nat /\ i * Multiplier \in Nat
                    /\ i * Multiplier # Lazy
                    /\ i * Multiplier + Period < AgeCap
                    /\ i + Slack < RanCap
  OBVIOUS
<1>1. i \in Nat \ {0} /\ Multiplier \in Nat \ {0}
  BY NumbersAssumption
<1>2. i * Multiplier \in Nat /\ i * Multiplier > 0
  BY <1>1
<1> QED  BY <1>1, <1>2, NumbersAssumption DEF Lazy

-----------------------------------------------------------------------------
(* The tracking tables: what NoLeak says, with the types, and how old a      *)
(* series with a TTL of its own may be between two cleanups.                 *)
Tables ==
    /\ age \in [Series -> Int]
    /\ \A s \in Series : -1 <= age[s] /\ age[s] <= AgeCap
    /\ ttl \in [Series -> {Lazy} \cup Ttls]
    /\ exposed \subseteq Tracked
    /\ count = Cardinality(Tracked)

Clocks ==
    /\ interval \in [Groups -> Intervals]
    /\ ranAge \in [Groups -> 0..RanCap]
    /\ lapse \in 0..Period

Fresh == \A s \in Tracked : ttl[s] # Lazy => age[s] <= ttl[s] + lapse

Lagging == gauge \in 0..Cardinality(Series) /\ GaugeLags

IInv == Tables /\ Clocks /\ Fresh /\ Lagging /\ reported \subseteq Series

LEMMA TrackedFinite ==
    \A S \in SUBSET Series : IsFiniteSet(S) /\ Cardinality(S) \in Nat
        /\ Cardinality(S) <= Cardinality(Series)
BY FS_Subset, FS_CardinalityType, SeriesAssumption

LEMMA InitInv == Init => IInv
<1> SUFFICES ASSUME Init PROVE IInv
  OBVIOUS
<1>1. Tracked = {}
  BY DEF Init, Tracked
<1>2. Tables
  BY <1>1, FS_EmptySet, NumbersAssumption DEF Init, Tables, Absent
<1>3. Clocks /\ Fresh /\ reported \subseteq Series
  BY <1>1, NumbersAssumption DEF Init, Clocks, Fresh
<1>4. Lagging
  <2>1. Cardinality(Series) \in Nat
    BY TrackedFinite
  <2> QED  BY <2>1 DEF Init, Lagging, GaugeLags
<1> QED  BY <1>2, <1>3, <1>4 DEF IInv

(* A write tracks what it writes with a solved TTL. *)
LEMMA WriteKeeps ==
    ASSUME IInv, NEW batch \in SUBSET Series, Write(batch),
           UNCHANGED <<interval, lapse>>
    PROVE  Tables' /\ Fresh' /\ Lagging'
<1> USE DEF Absent
<1>1. \A s \in Series : age'[s] = IF s \in batch THEN 0 ELSE age[s]
  BY DEF Write
<1>2. \A s \in Series : ttl'[s] = IF s \in batch THEN SolvedTtl(s) ELSE ttl[s]
  BY DEF Write
<1>3. \A s \in Series : SolvedTtl(s) \in {Lazy} \cup Ttls
  BY SeriesAssumption DEF SolvedTtl, Ttls, IInv, Clocks
<1>4. Tracked' = Tracked \cup batch
  BY <1>1 DEF Tracked
<1>5. count' = Cardinality(Tracked')
  <2>1. IsFiniteSet(Tracked) /\ IsFiniteSet(batch \ Tracked)
    BY TrackedFinite DEF Tracked
  <2>2. Tracked' = Tracked \cup (batch \ Tracked)
    BY <1>4
  <2>3. Tracked \cap (batch \ Tracked) = {}
    OBVIOUS
  <2>4. /\ Cardinality(Tracked) \in Nat
        /\ Cardinality(batch \ Tracked) \in Nat
    BY <2>1, FS_CardinalityType
  <2>5. Cardinality(Tracked') = Cardinality(Tracked) + Cardinality(batch \ Tracked)
    <3>1. Cardinality(Tracked \cup (batch \ Tracked)) =
              Cardinality(Tracked) + Cardinality(batch \ Tracked)
              - Cardinality(Tracked \cap (batch \ Tracked))
      BY <2>1, FS_Union
    <3>2. Cardinality(Tracked \cap (batch \ Tracked)) = 0
      BY <2>3, FS_EmptySet, Zenon
    <3> QED  BY <2>2, <2>4, <3>1, <3>2
  <2> QED  BY <2>5 DEF Write, IInv, Tables
<1>6. exposed' \subseteq Tracked'
  BY <1>4 DEF Write, IInv, Tables
<1>7. age' \in [Series -> Int] /\ ttl' \in [Series -> {Lazy} \cup Ttls]
  BY <1>1, <1>2, <1>3 DEF Write, IInv, Tables
<1>8. \A s \in Series : -1 <= age'[s] /\ age'[s] <= AgeCap
  BY <1>1, NumbersAssumption DEF IInv, Tables
<1>9. Tables'
  BY <1>5, <1>6, <1>7, <1>8 DEF Tables
<1>10. ASSUME NEW s \in Tracked', ttl'[s] # Lazy
       PROVE  age'[s] <= ttl'[s] + lapse'
  <2>1. s \in Series
    BY DEF Tracked
  <2>2. CASE s \in batch
    <3>1. age'[s] = 0 /\ ttl'[s] \in Ttls /\ lapse' \in Nat
      BY <1>1, <1>2, <1>3, <2>1, <2>2, <1>10 DEF IInv, Clocks
    <3>2. ttl'[s] \in Nat
      BY <3>1, IntervalFacts DEF Ttls
    <3> QED  BY <3>1, <3>2
  <2>3. CASE s \notin batch
    BY <1>1, <1>2, <1>4, <2>1, <2>3, <1>10 DEF IInv, Fresh
  <2> QED  BY <2>2, <2>3
<1>11. Lagging'
  <2>1. IsFiniteSet(batch \ Tracked)
    BY TrackedFinite
  <2>2. Cardinality(batch \ Tracked) \in Nat /\ Cardinality(Series) \in Nat
    BY <2>1, FS_CardinalityType, TrackedFinite
  <2>3. count \in Nat
    BY TrackedFinite DEF Tracked, IInv, Tables
  <2>4. count' \in Nat /\ count' >= count /\ gauge' = gauge
    BY <2>2, <2>3 DEF Write
  <2> QED  BY <2>2, <2>3, <2>4, NumbersAssumption DEF IInv, Lagging, GaugeLags
<1> QED  BY <1>9, <1>10, <1>11 DEF Fresh

(* A cleanup drops the expired series, and any others, from both tables. *)
LEMMA ForgetKeeps ==
    ASSUME IInv, NEW gone \in SUBSET Tracked, Expired \subseteq gone, Forget(gone),
           lapse' = 0, UNCHANGED interval
    PROVE  Tables' /\ Fresh'
<1> USE DEF Absent
<1>1. \A s \in Series : age'[s] = IF s \in gone THEN -1 ELSE age[s]
  BY DEF Forget
<1>2. \A s \in Series : ttl'[s] = IF s \in gone THEN Lazy ELSE ttl[s]
  BY DEF Forget
<1>3. Tracked' = Tracked \ gone
  BY <1>1 DEF Tracked
<1>4. count' = Cardinality(Tracked')
  <2>1. IsFiniteSet(Tracked \ gone) /\ IsFiniteSet(gone)
    BY TrackedFinite DEF Tracked
  <2>2. Tracked = (Tracked \ gone) \cup gone /\ (Tracked \ gone) \cap gone = {}
    OBVIOUS
  <2>3. Cardinality(Tracked \ gone) \in Nat /\ Cardinality(gone) \in Nat
    BY <2>1, FS_CardinalityType
  <2>4. Cardinality(Tracked) = Cardinality(Tracked \ gone) + Cardinality(gone)
    <3>1. Cardinality((Tracked \ gone) \cup gone) =
              Cardinality(Tracked \ gone) + Cardinality(gone)
              - Cardinality((Tracked \ gone) \cap gone)
      BY <2>1, FS_Union
    <3>2. Cardinality((Tracked \ gone) \cap gone) = 0
      BY <2>2, FS_EmptySet, Zenon
    <3>3. Cardinality(Tracked) = Cardinality((Tracked \ gone) \cup gone)
      BY <2>2
    <3> QED  BY <2>3, <3>1, <3>2, <3>3
  <2> QED  BY <1>3, <2>3, <2>4 DEF Forget, IInv, Tables
<1>5. exposed' \subseteq Tracked'
  BY <1>3 DEF Forget, IInv, Tables
<1>6. age' \in [Series -> Int] /\ ttl' \in [Series -> {Lazy} \cup Ttls]
  BY <1>1, <1>2 DEF Forget, IInv, Tables
<1>7. \A s \in Series : -1 <= age'[s] /\ age'[s] <= AgeCap
  BY <1>1, NumbersAssumption DEF IInv, Tables
<1>8. Tables'
  BY <1>4, <1>5, <1>6, <1>7 DEF Tables
<1>9. ASSUME NEW s \in Tracked', ttl'[s] # Lazy
      PROVE  age'[s] <= ttl'[s] + lapse'
  <2>1. s \in Series /\ s \in Tracked /\ s \notin gone
    BY <1>3 DEF Tracked
  <2>2. ttl'[s] = ttl[s] /\ age'[s] = age[s] /\ s \notin Expired
    BY <1>1, <1>2, <2>1
  <2>3. ~(age[s] > ttl[s])
    BY <2>1, <2>2, <1>9 DEF Expired, PastTtl
  <2>4. ttl[s] \in Int /\ age[s] \in Int
    BY <2>1, IntervalFacts DEF IInv, Tables, Ttls, Lazy
  <2> QED  BY <2>2, <2>3, <2>4
<1> QED  BY <1>8, <1>9 DEF Fresh

LEMMA TickKeeps ==
    ASSUME IInv, Tick
    PROVE  IInv'
<1> USE DEF Absent
<1>1. \A s \in Series : /\ age[s] = -1 => age'[s] = -1
                        /\ age[s] # -1 => /\ age'[s] \in {age[s] + 1, AgeCap}
                                          /\ age'[s] <= age[s] + 1
                                          /\ age'[s] <= AgeCap
  <2> SUFFICES ASSUME NEW s \in Series
               PROVE  /\ age[s] = -1 => age'[s] = -1
                      /\ age[s] # -1 => /\ age'[s] \in {age[s] + 1, AgeCap}
                                        /\ age'[s] <= age[s] + 1
                                        /\ age'[s] <= AgeCap
    OBVIOUS
  <2>1. age'[s] = Older(age[s]) /\ age[s] + 1 \in Int /\ AgeCap \in Int
    BY NumbersAssumption DEF Tick, IInv, Tables
  <2> QED  BY <2>1, MinOfTwo DEF Older
<1>2. Tracked' = Tracked
  BY <1>1, NumbersAssumption DEF Tracked, IInv, Tables
<1>3. Tables'
  <2>1. age' \in [Series -> Int]
    BY <1>1, NumbersAssumption DEF Tick, IInv, Tables
  <2>2. \A s \in Series : -1 <= age'[s] /\ age'[s] <= AgeCap
    BY <1>1, NumbersAssumption DEF IInv, Tables
  <2> QED  BY <1>2, <2>1, <2>2 DEF Tick, IInv, Tables
<1>4. Clocks'
  <2>1. \A g \in Groups : ranAge'[g] \in 0..RanCap
    <3> SUFFICES ASSUME NEW g \in Groups PROVE ranAge'[g] \in 0..RanCap
      OBVIOUS
    <3>1. /\ ranAge'[g] = Min({ranAge[g] + 1, RanCap})
          /\ ranAge[g] \in 0..RanCap /\ RanCap \in Nat
      BY NumbersAssumption DEF Tick, IInv, Clocks
    <3>2. ranAge[g] + 1 \in Int /\ RanCap \in Int
      BY <3>1
    <3>3. Min({ranAge[g] + 1, RanCap}) \in {ranAge[g] + 1, RanCap}
          /\ Min({ranAge[g] + 1, RanCap}) <= RanCap
      BY <3>2, MinOfTwo
    <3> QED  BY <3>1, <3>3
  <2>2. ranAge' \in [Groups -> 0..RanCap]
    BY <2>1 DEF Tick
  <2> QED  BY <2>2, NumbersAssumption DEF Tick, IInv, Clocks
<1>5. Fresh'
  <2> SUFFICES ASSUME NEW s \in Tracked', ttl'[s] # Lazy
               PROVE  age'[s] <= ttl'[s] + lapse'
    BY DEF Fresh
  <2>1. /\ s \in Series /\ s \in Tracked /\ age[s] # -1
        /\ ttl'[s] = ttl[s] /\ lapse' = lapse + 1
    BY <1>2 DEF Tracked, Tick
  <2>2. age[s] <= ttl[s] + lapse
    BY <2>1 DEF IInv, Fresh
  <2>3. ttl[s] \in Int /\ age[s] \in Int /\ age'[s] \in Int /\ lapse \in Int
    BY <1>3, <2>1, IntervalFacts DEF IInv, Tables, Clocks, Ttls, Lazy
  <2> QED  BY <1>1, <2>1, <2>2, <2>3
<1>6. reported' \subseteq Series
  BY DEF Tick, IInv
<1>7. Lagging'
  BY DEF Tick, IInv, Lagging, GaugeLags
<1> QED  BY <1>3, <1>4, <1>5, <1>6, <1>7 DEF IInv

LEMMA ShedFacts ==
    ASSUME NEW kept, NEW shed \in Sheds(kept)
    PROVE  shed \subseteq kept
BY DEF Sheds, Oldest

(* What the budget takes, of the series that have not expired.               *)
LEMMA OldestFacts ==
    ASSUME NEW all \in SUBSET Series, NEW shed \in Oldest(all)
    PROVE  /\ Cardinality(all \ shed) <= Budget
           /\ shed # {} => Cardinality(all \ shed) = Budget
           /\ \A s \in shed, t \in all \ shed : age[s] >= age[t]
<1>1. /\ shed \subseteq all
      /\ Cardinality(shed) = Max({Cardinality(all) - Budget, 0})
      /\ \A s \in shed, t \in all \ shed : age[s] >= age[t]
  BY DEF Oldest
<1>2. /\ IsFiniteSet(all) /\ IsFiniteSet(shed)
      /\ Cardinality(all) \in Nat /\ Cardinality(shed) \in Nat
  BY <1>1, TrackedFinite
<1>3. Cardinality(all \ shed) = Cardinality(all) - Cardinality(shed)
  <2>1. all \cap shed = shed
    BY <1>1
  <2> QED  BY <1>2, <2>1, FS_Difference
<1>4. /\ Cardinality(shed) \in {Cardinality(all) - Budget, 0}
      /\ Cardinality(shed) >= Cardinality(all) - Budget
  BY <1>1, <1>2, MaxOfTwo, NumbersAssumption
<1>5. shed # {} => Cardinality(shed) # 0
  BY <1>2, FS_EmptySet
<1> QED  BY <1>1, <1>2, <1>3, <1>4, <1>5, NumbersAssumption

LEMMA CleanupLags ==
    ASSUME IInv, Cleanup
    PROVE  Lagging'
<1>1. PICK shed \in Sheds(Tracked \ Expired) : Forget(Expired \cup shed)
  BY DEF Cleanup
<1> DEFINE kept == Tracked \ Expired
<1>2. shed \subseteq kept /\ Expired \subseteq Tracked /\ Tracked \subseteq Series
  BY <1>1, ShedFacts DEF Expired, Tracked
<1>3. /\ IsFiniteSet(Tracked) /\ IsFiniteSet(Expired) /\ IsFiniteSet(kept) /\ IsFiniteSet(shed)
      /\ Cardinality(kept) \in Nat /\ Cardinality(kept) <= Cardinality(Series)
      /\ Cardinality(kept \ shed) \in Nat /\ Cardinality(Series) \in Nat
  BY <1>2, TrackedFinite
<1>4. Cardinality(kept) = Cardinality(Tracked) - Cardinality(Expired)
  <2>1. Tracked \cap Expired = Expired
    BY <1>2
  <2> QED  BY <1>3, <2>1, FS_Difference
<1>5. gauge' = Cardinality(kept)
  BY <1>4 DEF Cleanup, Gauged, IInv, Tables
<1>6. count' = Cardinality(kept \ shed)
  <2>1. Tables' /\ Tracked' = kept \ shed
    <3>1. Expired \cup shed \subseteq Tracked
      BY <1>2
    <3>2. Tables'
      BY <1>1, <3>1, ForgetKeeps DEF Cleanup
    <3>3. Tracked' = Tracked \ (Expired \cup shed)
      BY <1>1 DEF Forget, Tracked, Absent
    <3> QED  BY <3>2, <3>3
  <2> QED  BY <2>1 DEF Tables
<1>7. shed = {} \/ (Drops /\ Cardinality(kept \ shed) = Budget)
  <2>1. CASE Drops
    <3>1. shed \in Oldest(kept) /\ kept \in SUBSET Series
      BY <1>2, <2>1 DEF Sheds
    <3> QED  BY <2>1, <3>1, OldestFacts
  <2>2. CASE ~Drops
    BY <2>2 DEF Sheds
  <2> QED  BY <2>1, <2>2, NumbersAssumption
<1> HIDE DEF kept
<1>8. shed = {} => count' = gauge'
  <2>1. shed = {} => kept \ shed = kept
    OBVIOUS
  <2> QED  BY <1>5, <1>6, <2>1
<1> QED  BY <1>3, <1>5, <1>6, <1>7, <1>8, NumbersAssumption DEF Lagging, GaugeLags

LEMMA InductiveInv == Spec => []IInv
<1>1. ASSUME IInv, [Next]_vars
      PROVE  IInv'
  <2>1. ASSUME NEW g \in Groups, NEW batch \in Writable(g), Fetch(g, batch)
        PROVE  IInv'
    <3>1. batch \in SUBSET Series
      BY DEF Writable
    <3>2. Tables' /\ Fresh' /\ Lagging'
      BY <1>1, <2>1, <3>1, WriteKeeps DEF Fetch
    <3>3. Clocks'
      BY <1>1, <2>1, NumbersAssumption DEF Fetch, IInv, Clocks
    <3> QED  BY <1>1, <2>1, <3>1, <3>2, <3>3 DEF Fetch, IInv
  <2>2. ASSUME NEW g \in Groups, NEW batch \in Writable(g), FetchFails(g, batch)
        PROVE  IInv'
    <3>1. batch \in SUBSET Series
      BY DEF Writable
    <3>2. Tables' /\ Fresh' /\ Lagging'
      BY <1>1, <2>2, <3>1, WriteKeeps DEF FetchFails
    <3> QED  BY <1>1, <2>2, <3>2 DEF FetchFails, IInv, Clocks
  <2>3. CASE Resolve
    BY <1>1, <2>3 DEF Resolve, tracking, IInv, Tables, Clocks, Fresh, Tracked, Lagging, GaugeLags
  <2>4. CASE Cleanup
    <3>1. PICK shed \in Sheds(Tracked \ Expired) : Forget(Expired \cup shed)
      BY <2>4 DEF Cleanup
    <3>2. Expired \cup shed \subseteq Tracked
      BY ShedFacts DEF Expired
    <3>3. Tables' /\ Fresh'
      BY <1>1, <2>4, <3>1, <3>2, ForgetKeeps DEF Cleanup
    <3>4. Clocks'
      BY <1>1, <2>4, NumbersAssumption DEF Cleanup, IInv, Clocks
    <3>5. Lagging'
      BY <1>1, <2>4, CleanupLags
    <3> QED  BY <1>1, <2>4, <3>3, <3>4, <3>5 DEF Cleanup, IInv
  <2>5. CASE Tick
    BY <1>1, <2>5, TickKeeps
  <2>6. CASE UNCHANGED vars
    BY <1>1, <2>6 DEF vars, tracking, IInv, Tables, Clocks, Fresh, Tracked, Lagging, GaugeLags
  <2> QED  BY <1>1, <2>1, <2>2, <2>3, <2>4, <2>5, <2>6 DEF Next
<1> QED  BY <1>1, InitInv, PTL DEF Spec

-----------------------------------------------------------------------------
(* The tables and clocks keep their types.                                   *)
THEOREM TypeCorrect == Spec => []TypeOK
<1>1. IInv => TypeOK
  <2> SUFFICES ASSUME IInv PROVE TypeOK
    OBVIOUS
  <2>1. age \in [Series -> -1..AgeCap]
    BY NumbersAssumption DEF IInv, Tables
  <2>2. count \in 0..Cardinality(Series)
    <3>1. Tracked \subseteq Series
      BY DEF Tracked
    <3>2. /\ Cardinality(Tracked) \in Nat
          /\ Cardinality(Tracked) <= Cardinality(Series)
          /\ Cardinality(Series) \in Nat
      BY <3>1, TrackedFinite
    <3> QED  BY <3>2 DEF IInv, Tables
  <2>3. exposed \subseteq Series
    BY DEF IInv, Tables, Tracked
  <2> QED  BY <2>1, <2>2, <2>3 DEF TypeOK, IInv, Tables, Clocks, Lagging, Ttls
<1> QED  BY <1>1, InductiveInv, PTL

(* Whatever is in the registry is tracked, and _metric_counts counts what is *)
(* tracked (track_metric_update, _cleanup_expired_metrics).                  *)
THEOREM LeakSafe == Spec => []NoLeak
<1>1. IInv => NoLeak
  BY DEF IInv, Tables, NoLeak
<1> QED  BY <1>1, InductiveInv, PTL

(* A series with a TTL of its own outlives it by one cleanup period at most  *)
(* (_cleanup_loop).                                                          *)
THEOREM StaleBounded == Spec => []StaleGoes
<1>1. IInv => StaleGoes
  <2> SUFFICES ASSUME IInv, NEW s \in Tracked, ttl[s] # Lazy
               PROVE  age[s] <= ttl[s] + Period
    BY DEF StaleGoes
  <2>1. s \in Series /\ age[s] \in Int /\ ttl[s] \in Ttls
    BY DEF Tracked, IInv, Tables
  <2>2. ttl[s] \in Nat /\ lapse \in 0..Period /\ age[s] <= ttl[s] + lapse
    BY <2>1, IntervalFacts DEF Ttls, IInv, Clocks, Fresh
  <2> QED  BY <2>1, <2>2, NumbersAssumption
<1> QED  BY <1>1, InductiveInv, PTL

(* With the types, the registry: all of it is tracked and counted, none of   *)
(* it is too old, and the gauge tells more than there is only after a        *)
(* cleanup that shed for the budget (MetricExpirationManager).               *)
THEOREM RegistryKept == Spec => []RegistrySound
<1>1. IInv => GaugeLags
  BY DEF IInv, Lagging
<1> QED  BY <1>1, InductiveInv, TypeCorrect, LeakSafe, StaleBounded, PTL DEF RegistrySound

-----------------------------------------------------------------------------
(* A reported series is in the registry, and no older than the clock of its  *)
(* group, or the clocks of all when every group writes it; no such clock is  *)
(* behind by more than an interval and Slack.                                *)
Writers(s) == IF groupOf[s] = Straggler THEN Groups ELSE {groupOf[s]}

OnTime(s) ==
    /\ \A g \in Writers(s) : age[s] <= ranAge[g]
    /\ \E i \in Intervals : age[s] <= i + Slack

Reports == reported \subseteq exposed /\ \A s \in reported : OnTime(s)

(* Every interval that the solver may install, with the slack, is within any *)
(* TTL that it may have given: what the README calls a bounded stretch.      *)
StretchBounded == \A i, j \in Intervals : i + Slack <= j * Multiplier

LEMMA ReportsWrite ==
    ASSUME IInv, Reports, NEW g \in Groups, NEW batch \in Writable(g), Write(batch),
           \/ reported' = {s \in reported : groupOf[s] \notin {g, Straggler}} \cup batch
              /\ ranAge' = [ranAge EXCEPT ![g] = 0]
           \/ reported' = reported \ UNION {rivals[s] : s \in batch}
              /\ UNCHANGED ranAge
    PROVE  Reports'
<1>1. batch \subseteq Series /\ \A s \in batch : groupOf[s] \in {g, Straggler}
  BY DEF Writable
<1>2. \A s \in batch : \A t \in rivals[s] : groupOf[t] = groupOf[s]
  BY <1>1, SeriesAssumption
<1>3. exposed' = (exposed \ UNION {rivals[s] : s \in batch}) \cup batch
  BY DEF Write
<1>4. reported' \subseteq exposed'
  BY <1>1, <1>2, <1>3 DEF Reports
<1>5. ASSUME NEW s \in reported' PROVE OnTime(s)'
  <2>1. s \in Series /\ groupOf[s] \in Groups \cup {Straggler}
    BY <1>1, SeriesAssumption DEF IInv
  <2>2. age'[s] = IF s \in batch THEN 0 ELSE age[s]
    BY <2>1 DEF Write
  <2>3. \A h \in Groups : ranAge'[h] \in {ranAge[h], 0} /\ ranAge[h] \in Nat
    BY NumbersAssumption DEF IInv, Clocks
  <2>4. Writers(s) \subseteq Groups /\ Writers(s)' = Writers(s)
    BY <2>1 DEF Writers
  <2>5. CASE s \in batch
    <3>1. interval[g] \in Intervals /\ interval[g] \in Nat
      BY IntervalFacts DEF IInv, Clocks
    <3>2. 0 <= interval[g] + Slack
      BY <3>1, NumbersAssumption
    <3> QED  BY <2>2, <2>3, <2>4, <2>5, <3>1, <3>2 DEF OnTime
  <2>6. CASE s \notin batch
    <3>1. s \in reported /\ age'[s] = age[s] /\ OnTime(s)
      BY <2>2, <2>6 DEF Reports
    <3>2. \A h \in Writers(s) : ranAge'[h] = ranAge[h]
      <4>1. CASE /\ s \in {t \in reported : groupOf[t] \notin {g, Straggler}}
                 /\ ranAge' = [ranAge EXCEPT ![g] = 0]
        BY <4>1 DEF Writers, IInv, Clocks
      <4>2. CASE UNCHANGED ranAge
        BY <4>2
      <4> QED  BY <2>6, <4>1, <4>2
    <3> QED  BY <2>4, <3>1, <3>2 DEF OnTime
  <2> QED  BY <2>5, <2>6
<1> QED  BY <1>4, <1>5 DEF Reports

LEMMA ReportsTick ==
    ASSUME IInv, Reports, Tick
    PROVE  Reports'
<1> USE DEF Absent
<1>1. exposed' = exposed /\ reported' = {s \in reported : ~Overdue(s)}
  BY DEF Tick
<1>2. ASSUME NEW s \in reported' PROVE OnTime(s)'
  <2>1. s \in reported /\ s \in Series /\ s \in Tracked /\ OnTime(s) /\ ~Overdue(s)
    BY <1>1 DEF Reports, IInv, Tables
  <2>2. age[s] \in Int /\ age[s] # -1 /\ age'[s] = Min({age[s] + 1, AgeCap})
    BY <2>1 DEF Tracked, Tick, Older, IInv, Tables
  <2>3. age'[s] \in Int /\ age'[s] <= age[s] + 1
    <3>1. age[s] + 1 \in Int /\ AgeCap \in Int
      BY <2>2, NumbersAssumption
    <3>2. age'[s] \in {age[s] + 1, AgeCap} /\ age'[s] <= age[s] + 1
      BY <2>2, <3>1, MinOfTwo
    <3> QED  BY <3>1, <3>2
  <2>4. Writers(s) \subseteq Groups /\ Writers(s)' = Writers(s)
    BY <2>1, SeriesAssumption DEF Writers
  <2>5. \A h \in Groups : /\ ranAge[h] \in Nat /\ ranAge'[h] \in Nat
                          /\ ranAge'[h] = RanCap \/ ranAge'[h] = ranAge[h] + 1
    <3> SUFFICES ASSUME NEW h \in Groups
                 PROVE  /\ ranAge[h] \in Nat /\ ranAge'[h] \in Nat
                        /\ ranAge'[h] = RanCap \/ ranAge'[h] = ranAge[h] + 1
      OBVIOUS
    <3>1. ranAge[h] \in Nat /\ RanCap \in Nat /\ ranAge'[h] = Min({ranAge[h] + 1, RanCap})
      BY NumbersAssumption DEF Tick, IInv, Clocks
    <3>2. ranAge[h] + 1 \in Int /\ RanCap \in Int
      BY <3>1
    <3>3. ranAge'[h] \in {ranAge[h] + 1, RanCap}
      BY <3>1, <3>2, MinOfTwo
    <3> QED  BY <3>1, <3>3
  <2>6. \A h \in Groups : interval[h] \in Intervals /\ interval[h] \in Nat
                          /\ interval[h] + Slack < RanCap
    BY IntervalFacts DEF IInv, Clocks
  <2>7. PICK h \in Writers(s) : \A k \in Writers(s) : ranAge'[h] <= interval[k] + Slack
    <3>1. CASE groupOf[s] = Straggler
      <4>1. PICK h \in Groups : \A k \in Groups : ~(ranAge'[h] > interval[k] + Slack)
        BY <2>1, <3>1 DEF Overdue
      <4> QED  BY <2>5, <2>6, <3>1, <4>1, NumbersAssumption DEF Writers
    <3>2. CASE groupOf[s] # Straggler
      BY <2>1, <2>4, <2>5, <2>6, <3>2, NumbersAssumption DEF Writers, Overdue
    <3> QED  BY <3>1, <3>2
  <2>8. age'[s] <= ranAge'[h]
    BY <2>1, <2>2, <2>3, <2>4, <2>5, <2>6, <2>7, NumbersAssumption DEF OnTime
  <2>9. age'[s] <= interval[h] + Slack /\ interval[h] \in Intervals
    BY <2>3, <2>4, <2>5, <2>6, <2>7, <2>8, NumbersAssumption
  <2>10. \A k \in Writers(s) : age'[s] <= ranAge'[k]
    <3> SUFFICES ASSUME NEW k \in Writers(s) PROVE age'[s] <= ranAge'[k]
      OBVIOUS
    <3>1. CASE ranAge'[k] = ranAge[k] + 1
      BY <2>1, <2>2, <2>3, <2>4, <2>5, <3>1 DEF OnTime
    <3>2. CASE ranAge'[k] = RanCap
      BY <2>3, <2>4, <2>6, <2>9, <3>2, NumbersAssumption
    <3> QED  BY <2>4, <2>5, <3>1, <3>2
  <2> QED  BY <2>4, <2>9, <2>10 DEF OnTime
<1> QED  BY <1>1, <1>2 DEF Reports

(* What is on time is not expired: the heart of the matter. *)
LEMMA OnTimeFresh ==
    ASSUME IInv, StretchBounded, NEW s \in Tracked, OnTime(s)
    PROVE  s \notin Expired
<1>1. s \in Series /\ age[s] \in Int
  BY DEF Tracked, IInv, Tables
<1>2. PICK i \in Intervals : age[s] <= i + Slack
  BY DEF OnTime
<1>3. \A j \in Intervals : /\ i + Slack \in Int /\ j * Multiplier \in Int
                           /\ i + Slack <= j * Multiplier
  BY IntervalFacts, NumbersAssumption DEF StretchBounded
<1>4. \A j \in Intervals : ~(age[s] > j * Multiplier)
  BY <1>1, <1>2, <1>3
<1>5. CASE ttl[s] = Lazy
  BY <1>4, <1>5 DEF Expired, PastTtl, PastFallback, IInv, Clocks
<1>6. CASE ttl[s] # Lazy
  <2>1. ttl[s] \in Ttls
    BY <1>1, <1>6 DEF IInv, Tables
  <2> QED  BY <1>4, <1>6, <2>1 DEF Expired, PastTtl, Ttls
<1> QED  BY <1>5, <1>6

LEMMA ReportsCleanup ==
    ASSUME IInv, StretchBounded, Reports, Cleanup
    PROVE  Reports'
<1>1. PICK shed \in Sheds(Tracked \ Expired) :
          Forget(Expired \cup shed) /\ reported' = reported \ shed
  BY DEF Cleanup
<1>2. exposed' = exposed \ (Expired \cup shed)
  BY <1>1 DEF Forget
<1>3. reported \subseteq Tracked /\ reported \cap Expired = {}
  BY OnTimeFresh DEF Reports, IInv, Tables
<1>4. \A s \in reported' : s \in Series /\ age'[s] = age[s]
  BY <1>1, <1>3 DEF Forget, IInv
<1>5. UNCHANGED <<interval, ranAge>>
  BY DEF Cleanup
<1>6. \A s \in reported' : OnTime(s)'
  BY <1>1, <1>4, <1>5 DEF Reports, OnTime, Writers
<1> QED  BY <1>1, <1>2, <1>3, <1>6 DEF Reports

(* A series that a fetch reported does not flap, as long as the fetches are  *)
(* on time and no stretch exceeds the multiplier (_set_metric, and the TTL   *)
(* solved with it).                                                          *)
THEOREM ReportsStay ==
    ASSUME StretchBounded
    PROVE  Spec => []ReportedStays
<1>1. Init => Reports
  BY DEF Init, Reports
<1>2. ASSUME IInv, Reports, [Next]_vars
      PROVE  Reports'
  <2>1. ASSUME NEW g \in Groups, NEW batch \in Writable(g), Fetch(g, batch)
        PROVE  Reports'
    BY <1>2, <2>1, ReportsWrite DEF Fetch
  <2>2. ASSUME NEW g \in Groups, NEW batch \in Writable(g), FetchFails(g, batch)
        PROVE  Reports'
    BY <1>2, <2>2, ReportsWrite DEF FetchFails
  <2>3. CASE Resolve
    BY <1>2, <2>3 DEF Resolve, tracking, Reports, OnTime, Writers
  <2>4. CASE Cleanup
    BY <1>2, <2>4, ReportsCleanup
  <2>5. CASE Tick
    BY <1>2, <2>5, ReportsTick
  <2>6. CASE UNCHANGED vars
    BY <1>2, <2>6 DEF vars, tracking, Reports, OnTime, Writers
  <2> QED  BY <1>2, <2>1, <2>2, <2>3, <2>4, <2>5, <2>6 DEF Next
<1>3. Reports => ReportedStays
  BY DEF Reports, ReportedStays
<1> QED  BY <1>1, <1>2, <1>3, InductiveInv, PTL DEF Spec

-----------------------------------------------------------------------------
(* A cleanup sheds the oldest, and no more than the budget asks              *)
(* (_alarm_and_maybe_shed).                                                  *)
THEOREM ShedsSoundly == Spec => ShedSound
<1> DEFINE left == {s \in Series : age'[s] # Absent}
           taken == Tracked \ (left \cup Expired)
<1> SUFFICES ASSUME IInv, [Next]_vars, lapse' = 0 /\ lapse > 0
             PROVE  /\ Drops => Cardinality(left) <= Budget
                    /\ taken # {} => Drops /\ Cardinality(left) = Budget
                    /\ \A s \in taken, t \in left : age[s] >= age[t]
  BY InductiveInv, PTL DEF Spec, ShedSound
<1>1. Cleanup
  <2>1. ~Tick
    BY DEF Tick, IInv, Clocks
  <2>2. ~UNCHANGED lapse
    BY DEF IInv, Clocks
  <2> QED  BY <2>1, <2>2 DEF Next, vars, Fetch, FetchFails, Resolve
<1>2. PICK shed \in Sheds(Tracked \ Expired) : Forget(Expired \cup shed)
  BY <1>1 DEF Cleanup
<1>3. shed \subseteq Tracked \ Expired /\ Expired \subseteq Tracked
  BY ShedFacts DEF Expired
<1>4. left = (Tracked \ Expired) \ shed
  BY <1>2 DEF Forget, Tracked, Absent
<1>5. taken = shed
  BY <1>3, <1>4
<1> HIDE DEF left, taken
<1>6. CASE Drops
  <2>1. shed \in Oldest(Tracked \ Expired)
    BY <1>6 DEF Sheds
  <2>2. Tracked \ Expired \in SUBSET Series
    BY DEF Tracked
  <2> QED  BY <1>4, <1>5, <1>6, <2>1, <2>2, OldestFacts
<1>7. CASE ~Drops
  BY <1>5, <1>7 DEF Sheds
<1> QED  BY <1>6, <1>7

-----------------------------------------------------------------------------
(* What the runs of MCRegistry do is what the components do.                 *)
LEMMA EachRun == (ExpirySpec => Spec) /\ (DeviceSpec => Device!Spec)
<1>1. [Next /\ UNCHANGED deviceVars]_registryVars => [Next]_vars
  BY DEF registryVars
<1>2. [Device!Next /\ UNCHANGED vars]_registryVars => [Device!Next]_(Device!vars)
  BY DEF registryVars, deviceVars, Device!vars, Device!dashboard, Device!cached,
         Device!poll, Device!series, Device!ghosts
<1>3. (ExpiryInit => Init) /\ (DeviceInit => Device!Init)
  BY DEF ExpiryInit, DeviceInit
<1> QED  BY <1>1, <1>2, <1>3, PTL DEF ExpirySpec, Spec, DeviceSpec, Device!Spec

-----------------------------------------------------------------------------
(* DeviceState: for every set of devices, networks and names and any number  *)
(* of changes.                                                               *)
LEMMA DeviceCard == \A S : Device!Cardinality(S) = Cardinality(S)
  BY DEF Device!Cardinality, Cardinality

(* No labels have two statuses, and none that was written last contradicts a *)
(* device_up of 1: what StatusConsistent says, without counting.             *)
Told ==
    /\ \A i \in Device!Places : info[i] = {} \/ \E st \in Device!Statuses : info[i] = {st}
    /\ \A i \in written : up[Device!UpLabels(i)] = 1 => info[i] \subseteq {"online"}

(* A series that the last poll to write any has written, or of a device that *)
(* has joined or moved since: nothing else is in the map the webhook goes    *)
(* by, in the poll under way, in the cache or in the Dashboard, where the    *)
(* next map comes from.                                                      *)
Known(s) == s \in Device!UpOf(written) \/ s[1] \in moved

Foreseen ==
    /\ \A s \in labels : Known(s)
    /\ \A i \in devices : Known(Device!UpLabels(i))
    /\ \A i \in listed : Known(Device!UpLabels(i))
    /\ \A d \in Devices : status[d] # Device!Gone => Known(<<d, home[d]>>)

DIInv == Device!TypeOK /\ Told /\ Foreseen

LEMMA ReportedFacts ==
    \A st \in Device!Statuses \cup {Device!Gone} :
        /\ Device!Reported(st) \in Device!Statuses
        /\ Device!Verdict(Device!Reported(st)) \in {0, 1}
        /\ Device!Verdict(Device!Reported(st)) = 1 => Device!Reported(st) = "online"
BY DEF Device!Reported, Device!Verdict, Device!Statuses, Device!Gone

(* What the Dashboard lists, well typed and known.                           *)
LEMMA InventoriedFacts ==
    ASSUME Device!TypeOK
    PROVE  /\ Device!Inventoried \subseteq Device!Places
           /\ Foreseen => \A i \in Device!Inventoried : Known(Device!UpLabels(i))
<1>1. /\ home \in [Devices -> Networks] /\ name \in [Devices -> Names]
      /\ \A d \in Device!Present : d \in Devices /\ status[d] # Device!Gone
  BY DEF Device!TypeOK, Device!Present
<1>2. \A i \in Device!Inventoried : \E d \in Device!Present : i = <<d, home[d], name[d]>>
  BY DEF Device!Inventoried
<1>3. Device!Inventoried \subseteq Device!Places
  BY <1>1, <1>2 DEF Device!Places
<1>4. ASSUME Foreseen, NEW i \in Device!Inventoried
      PROVE  Known(Device!UpLabels(i))
  <2>1. PICK d \in Device!Present : i = <<d, home[d], name[d]>>
    BY <1>2
  <2>2. Device!UpLabels(i) = <<d, home[d]>>
    BY <2>1 DEF Device!UpLabels
  <2> QED  BY <1>1, <1>4, <2>2 DEF Foreseen
<1> QED  BY <1>3, <1>4

LEMMA DeviceBegins ==
    ASSUME Device!Init
    PROVE  DIInv
<1>1. Device!Nothing \in [Devices -> Device!Statuses \cup {Device!Gone}]
  BY DEF Device!Nothing
<1>2. changes \in 0..Changes /\ alerts \subseteq Devices
  BY ChangesAssumption DEF Device!Init
<1>3. /\ status \in [Devices -> Device!Statuses \cup {Device!Gone}] /\ avail = status
      /\ home \in [Devices -> Networks] /\ name \in [Devices -> Names] /\ others \in BOOLEAN
      /\ open \in BOOLEAN /\ overdue \in BOOLEAN /\ due \in BOOLEAN
      /\ pc \in {"idle", "availabilities", "networks"}
  BY DEF Device!Init
<1>4. /\ devices = {} /\ seen = Device!Nothing /\ labels = {} /\ written = {}
      /\ moved = Devices /\ listed = Device!Inventoried
  BY DEF Device!Init
<1>5. listed \subseteq Device!Places
  <2>1. Device!Inventoried \subseteq Device!Places
    BY <1>3 DEF Device!Inventoried, Device!Present, Device!Places
  <2> QED  BY <1>4, <2>1
<1>6. /\ up \in [Device!Labels -> {0, 1, Device!Absent}]
      /\ info \in [Device!Places -> SUBSET Device!Statuses]
      /\ \A i \in Device!Places : info[i] = {}
  BY DEF Device!Init
<1>7. Device!TypeOK
  BY <1>1, <1>2, <1>3, <1>4, <1>5, <1>6 DEF Device!TypeOK
<1>8. Told
  BY <1>4, <1>6 DEF Told
<1>9. Foreseen
  <2>1. \A i \in listed : Device!UpLabels(i)[1] \in Devices
    BY <1>5 DEF Device!Places, Device!UpLabels
  <2>2. \A d \in Devices : <<d, home[d]>>[1] = d
    OBVIOUS
  <2> QED  BY <1>4, <2>1, <2>2 DEF Foreseen, Known
<1> QED  BY <1>7, <1>8, <1>9 DEF DIInv

(* The writes of a poll that were due. *)
LEMMA WrittenFacts ==
    ASSUME Device!TypeOK, Told
    PROVE  /\ Device!WrittenUp \in [Device!Labels -> {0, 1, Device!Absent}]
           /\ Device!WrittenInfo \in [Device!Places -> SUBSET Device!Statuses]
           /\ \A i \in Device!Places :
                 \/ Device!WrittenInfo[i] = {}
                 \/ \E st \in Device!Statuses : Device!WrittenInfo[i] = {st}
           /\ \A i \in devices :
                 Device!WrittenUp[Device!UpLabels(i)] = 1 => Device!WrittenInfo[i] \subseteq {"online"}
<1>1. /\ seen \in [Devices -> Device!Statuses \cup {Device!Gone}]
      /\ up \in [Device!Labels -> {0, 1, Device!Absent}]
      /\ info \in [Device!Places -> SUBSET Device!Statuses]
      /\ devices \subseteq Device!Places
  BY DEF Device!TypeOK
<1>2. \A d \in Devices :
         /\ Device!Reported(seen[d]) \in Device!Statuses
         /\ Device!Verdict(Device!Reported(seen[d])) \in {0, 1}
         /\ Device!Verdict(Device!Reported(seen[d])) = 1 => Device!Reported(seen[d]) = "online"
  BY <1>1, ReportedFacts
<1>3. (\A s \in Device!Labels : s[1] \in Devices) /\ \A i \in Device!Places : i[1] \in Devices
  BY DEF Device!Labels, Device!Places
<1>4. Device!WrittenUp \in [Device!Labels -> {0, 1, Device!Absent}]
  BY <1>1, <1>2, <1>3 DEF Device!WrittenUp
<1>5. Device!WrittenInfo \in [Device!Places -> SUBSET Device!Statuses]
  BY <1>1, <1>2, <1>3 DEF Device!WrittenInfo
<1>6. ASSUME NEW i \in Device!Places
      PROVE  \/ Device!WrittenInfo[i] = {}
             \/ \E st \in Device!Statuses : Device!WrittenInfo[i] = {st}
  <2>1. CASE i \in devices
    <3>1. Device!WrittenInfo[i] = {Device!Reported(seen[i[1]])}
      BY <2>1 DEF Device!WrittenInfo
    <3> QED  BY <1>2, <1>3, <3>1
  <2>2. CASE i \notin devices
    BY <2>2 DEF Told, Device!WrittenInfo
  <2> QED  BY <2>1, <2>2
<1>7. ASSUME NEW i \in devices, Device!WrittenUp[Device!UpLabels(i)] = 1
      PROVE  Device!WrittenInfo[i] \subseteq {"online"}
  <2>1. /\ Device!UpLabels(i) \in Device!Labels /\ Device!UpLabels(i) \in Device!Polled
        /\ Device!UpLabels(i)[1] = i[1]
    BY <1>1 DEF Device!UpLabels, Device!UpOf, Device!Polled, Device!Labels, Device!Places
  <2>2. Device!Verdict(Device!Reported(seen[i[1]])) = 1
    BY <1>7, <2>1 DEF Device!WrittenUp
  <2>3. Device!WrittenInfo[i] = {Device!Reported(seen[i[1]])}
    BY <1>1 DEF Device!WrittenInfo
  <2> QED  BY <1>1, <1>2, <1>3, <2>2, <2>3
<1> QED  BY <1>4, <1>5, <1>6, <1>7

(* After a poll that was due, all there is is written or elsewhere.          *)
LEMMA WrittenForeseen ==
    ASSUME DIInv, Device!Write, due
    PROVE  Foreseen'
<1>1. /\ written' = devices /\ moved' = Device!Elsewhere /\ devices' = {}
      /\ labels' = Device!UpOf(devices)
      /\ UNCHANGED <<status, home, listed>>
  BY DEF Device!Write, Device!Idle, Device!RebuiltMap, Device!Polled, Device!dashboard,
         Device!cached
<1>2. ASSUME NEW i \in listed \cup Device!Inventoried
      PROVE  /\ \/ Device!UpLabels(i) \in Device!UpOf(devices)
                \/ Device!UpLabels(i)[1] \in Device!Elsewhere
  <2>1. Device!UpLabels(i)[1] = i[1]
    BY DEF Device!UpLabels
  <2> QED  BY <2>1 DEF Device!Elsewhere, Device!Polled
<1>3. ASSUME NEW d \in Devices, status[d] # Device!Gone
      PROVE  <<d, home[d]>> \in Device!UpOf(devices) \/ d \in Device!Elsewhere
  <2>1. <<d, home[d], name[d]>> \in Device!Inventoried
    BY <1>3 DEF Device!Inventoried, Device!Present
  <2>2. Device!UpLabels(<<d, home[d], name[d]>>) = <<d, home[d]>>
    BY DEF Device!UpLabels
  <2> QED  BY <1>2, <2>1, <2>2
<1>4. \A s : Known(s)' <=> s \in Device!UpOf(devices) \/ s[1] \in Device!Elsewhere
  BY <1>1 DEF Known, Device!UpOf
<1>5. \A s \in labels' : Known(s)'
  BY <1>1, <1>4
<1>6. \A i \in listed' : Known(Device!UpLabels(i))'
  BY <1>1, <1>2, <1>4 DEF Device!UpLabels
<1>7. (\A d \in Devices : status[d] # Device!Gone => Known(<<d, home[d]>>))'
  BY <1>1, <1>3, <1>4
<1> QED  BY <1>1, <1>5, <1>6, <1>7 DEF Foreseen, Known, Device!UpLabels

(* Steps that leave alone what a part speaks of leave it true.               *)
LEMMA ToldStays ==
    ASSUME Told, UNCHANGED <<up, info, written>>
    PROVE  Told'
BY DEF Told, Device!UpLabels

LEMMA ForeseenStays ==
    ASSUME Foreseen, UNCHANGED <<status, home, listed, devices, labels, written, moved>>
    PROVE  Foreseen'
BY DEF Foreseen, Known, Device!UpLabels, Device!UpOf

(* The Dashboard's changes make a device known that they put elsewhere.      *)
LEMMA ForeseenMoves ==
    ASSUME DIInv, UNCHANGED <<listed, devices, labels, written>>, moved \subseteq moved',
           \A d \in Devices :
               \/ status'[d] = Device!Gone \/ d \in moved'
               \/ status[d] # Device!Gone /\ home'[d] = home[d]
    PROVE  Foreseen'
<1>1. \A s : Known(s) => Known(s)'
  BY DEF Known, Device!UpOf, Device!UpLabels
<1>2. ASSUME NEW d \in Devices, status'[d] # Device!Gone
      PROVE  Known(<<d, home[d]>>)'
  <2>1. CASE d \in moved'
    BY <2>1 DEF Known
  <2>2. CASE status[d] # Device!Gone /\ home'[d] = home[d]
    BY <1>1, <2>2 DEF DIInv, Foreseen
  <2> QED  BY <1>2, <2>1, <2>2
<1>3. (\A s \in labels' : Known(s)') /\ \A i \in devices' \cup listed' : Known(Device!UpLabels(i))'
  BY <1>1 DEF DIInv, Foreseen, Device!UpLabels
<1> QED  BY <1>2, <1>3 DEF Foreseen, Known, Device!UpLabels

LEMMA DeviceStep ==
    ASSUME DIInv, [Device!Next]_(Device!vars)
    PROVE  DIInv'
<1> USE DEF DIInv
<1>1. ASSUME NEW d \in Devices, NEW st \in Device!Statuses \cup {Device!Gone}, Device!Change(d, st)
      PROVE  DIInv'
  <2>1. Device!TypeOK'
    BY <1>1, ChangesAssumption
       DEF Device!Change, Device!cached, Device!poll, Device!series, Device!TypeOK
  <2>2. Told'
    BY <1>1, ToldStays DEF Device!Change, Device!series
  <2>3. Foreseen'
    BY <1>1, ForeseenMoves DEF Device!Change, Device!cached, Device!poll, Device!TypeOK
  <2> QED  BY <2>1, <2>2, <2>3
<1>2. ASSUME NEW d \in Devices, NEW n \in Networks, Device!Move(d, n)
      PROVE  DIInv'
  <2>1. Device!TypeOK'
    BY <1>2, ChangesAssumption
       DEF Device!Move, Device!cached, Device!poll, Device!series, Device!TypeOK
  <2>2. Told'
    BY <1>2, ToldStays DEF Device!Move, Device!series
  <2>3. Foreseen'
    BY <1>2, ForeseenMoves DEF Device!Move, Device!cached, Device!poll, Device!TypeOK
  <2> QED  BY <2>1, <2>2, <2>3
<1>3. ASSUME NEW d \in Devices, NEW m \in Names, Device!Rename(d, m)
      PROVE  DIInv'
  <2>1. Device!TypeOK'
    BY <1>3, ChangesAssumption
       DEF Device!Rename, Device!cached, Device!poll, Device!series, Device!ghosts, Device!TypeOK
  <2> QED  BY <1>3, <2>1, ToldStays, ForeseenStays
           DEF Device!Rename, Device!cached, Device!poll, Device!series, Device!ghosts
<1>4. ASSUME NEW d \in Devices, Device!Lose(d)
      PROVE  DIInv'
  <2>1. Device!TypeOK'
    BY <1>4 DEF Device!Lose, Device!dashboard, Device!cached, Device!poll, Device!series,
                Device!ghosts, Device!TypeOK
  <2> QED  BY <1>4, <2>1, ToldStays, ForeseenStays
           DEF Device!Lose, Device!dashboard, Device!cached, Device!poll, Device!series,
               Device!ghosts
<1>5. ASSUME NEW d \in Devices, Device!Deliver(d)
      PROVE  DIInv'
  <2>1. /\ alerts' \subseteq Devices
        /\ UNCHANGED <<status, home, name, others, changes, listed, avail, open, overdue, pc,
                       devices, due, seen, labels, info, written, moved>>
    BY <1>5 DEF Device!Deliver, Device!TypeOK, Device!dashboard, Device!cached, Device!poll,
                Device!ghosts
  <2>2. /\ up' \in [Device!Labels -> {0, 1, Device!Absent}]
        /\ \A s \in Device!Labels : up'[s] = 1 => up[s] = 1
    BY <1>5 DEF Device!Deliver, Device!TypeOK
  <2>3. Device!TypeOK'
    BY <2>1, <2>2 DEF Device!TypeOK
  <2>4. Told'
    <3>1. \A i \in written : Device!UpLabels(i) \in Device!Labels
      BY DEF Device!TypeOK, Device!Places, Device!UpLabels, Device!Labels
    <3> QED  BY <2>1, <2>2, <3>1 DEF Told, Device!UpLabels
  <2> QED  BY <2>1, <2>3, <2>4, ForeseenStays
<1>6. CASE Device!RefreshDevices
  <2>1. /\ listed' = Device!Inventoried
        /\ UNCHANGED <<status, home, name, others, changes, alerts, avail, open, overdue, pc,
                       devices, due, seen, labels, up, info, written, moved>>
    BY <1>6 DEF Device!RefreshDevices, Device!dashboard, Device!poll, Device!series,
                Device!ghosts
  <2>2. Device!TypeOK'
    BY <2>1, InventoriedFacts DEF Device!TypeOK
  <2>3. Foreseen'
    BY <2>1, InventoriedFacts DEF Foreseen, Known, Device!UpLabels, Device!UpOf
  <2> QED  BY <2>1, <2>2, <2>3, ToldStays
<1>7. CASE Device!RefreshAvailabilities
  <2>1. Device!TypeOK'
    BY <1>7 DEF Device!RefreshAvailabilities, Device!dashboard, Device!poll, Device!series,
                Device!ghosts, Device!TypeOK
  <2> QED  BY <1>7, <2>1, ToldStays, ForeseenStays
           DEF Device!RefreshAvailabilities, Device!dashboard, Device!poll, Device!series,
               Device!ghosts
<1>8. CASE Device!Reopen
  <2>1. Device!TypeOK'
    BY <1>8 DEF Device!Reopen, Device!dashboard, Device!cached, Device!series, Device!ghosts,
                Device!TypeOK
  <2> QED  BY <1>8, <2>1, ToldStays, ForeseenStays
           DEF Device!Reopen, Device!dashboard, Device!cached, Device!series, Device!ghosts
<1>9. ASSUME NEW forced \in BOOLEAN, Device!FetchDevices(forced)
      PROVE  DIInv'
  <2>1. /\ devices' = listed
        /\ UNCHANGED <<status, home, name, others, changes, alerts, listed, avail, overdue,
                       seen, labels, up, info, written, moved>>
    BY <1>9 DEF Device!FetchDevices, Device!dashboard, Device!cached, Device!series,
                Device!ghosts
  <2>2. Device!TypeOK'
    BY <1>9, <2>1 DEF Device!FetchDevices, Device!TypeOK
  <2>3. Foreseen'
    BY <2>1 DEF Foreseen, Known, Device!UpLabels, Device!UpOf
  <2> QED  BY <2>1, <2>2, <2>3, ToldStays
<1>10. CASE Device!FetchAvailabilities
  <2>1. Device!TypeOK'
    BY <1>10 DEF Device!FetchAvailabilities, Device!dashboard, Device!cached, Device!series,
                 Device!ghosts, Device!TypeOK
  <2> QED  BY <1>10, <2>1, ToldStays, ForeseenStays
           DEF Device!FetchAvailabilities, Device!dashboard, Device!cached, Device!series,
               Device!ghosts
<1>11. Device!Nothing \in [Devices -> Device!Statuses \cup {Device!Gone}]
  BY DEF Device!Nothing
<1>12. CASE Device!PollFails
  <2>1. Device!TypeOK'
    BY <1>11, <1>12 DEF Device!PollFails, Device!Idle, Device!dashboard, Device!cached,
                        Device!series, Device!ghosts, Device!TypeOK
  <2>2. Foreseen'
    BY <1>12 DEF Device!PollFails, Device!Idle, Device!dashboard, Device!cached, Device!ghosts,
                 Foreseen, Known, Device!UpLabels, Device!UpOf
  <2> QED  BY <1>12, <2>1, <2>2, ToldStays DEF Device!PollFails, Device!series, Device!ghosts
<1>13. CASE Device!Write
  <2>1. /\ devices' = {} /\ due' = FALSE /\ seen' = Device!Nothing /\ pc' = "idle"
        /\ labels' = Device!UpOf(devices) /\ overdue' = (overdue /\ ~due)
        /\ UNCHANGED <<status, home, name, others, changes, alerts, listed, avail, open>>
    BY <1>13 DEF Device!Write, Device!Idle, Device!RebuiltMap, Device!Polled,
                 Device!dashboard, Device!cached
  <2>2. labels' \subseteq Device!Labels
    BY <2>1 DEF Device!UpOf, Device!UpLabels, Device!Labels, Device!Places, Device!TypeOK
  <2>3. CASE due
    <3>1. up' = Device!WrittenUp /\ info' = Device!WrittenInfo /\ written' = devices
      BY <1>13, <2>3 DEF Device!Write
    <3>2. moved' \subseteq Devices
      <4>1. \A i \in listed \cup Device!Inventoried : i[1] \in Devices
        BY InventoriedFacts DEF Device!TypeOK, Device!Places
      <4>2. Device!Elsewhere \subseteq Devices
        BY <4>1 DEF Device!Elsewhere
      <4> QED  BY <1>13, <2>3, <4>2 DEF Device!Write
    <3>3. Device!TypeOK'
      BY <1>11, <2>1, <2>2, <3>1, <3>2, WrittenFacts DEF Device!TypeOK
    <3>4. Told'
      BY <3>1, WrittenFacts DEF Told, Device!UpLabels
    <3> QED  BY <1>13, <2>3, <3>3, <3>4, WrittenForeseen
  <2>4. CASE ~due
    <3>1. UNCHANGED <<up, info, written, moved>>
      BY <1>13, <2>4 DEF Device!Write, Device!series, Device!ghosts
    <3>2. Device!TypeOK'
      BY <1>11, <2>1, <2>2, <3>1 DEF Device!TypeOK
    <3>3. \A s \in labels' : Known(s)
      BY <2>1 DEF Device!UpOf, Foreseen
    <3>4. Foreseen'
      BY <2>1, <3>1, <3>3 DEF Foreseen, Known, Device!UpLabels, Device!UpOf
    <3> QED  BY <3>1, <3>2, <3>4, ToldStays
  <2> QED  BY <2>3, <2>4 DEF Device!TypeOK
<1>14. ASSUME NEW s \in Device!Labels, Device!ExpireUp(s)
       PROVE  DIInv'
  <2>1. /\ up' = [up EXCEPT ![s] = Device!Absent]
        /\ UNCHANGED <<status, home, name, others, changes, alerts, listed, avail, open, overdue,
                       pc, devices, due, seen, labels, info, written, moved>>
    BY <1>14 DEF Device!ExpireUp, Device!dashboard, Device!cached, Device!poll, Device!ghosts
  <2>2. /\ up' \in [Device!Labels -> {0, 1, Device!Absent}]
        /\ \A t \in Device!Labels : up'[t] = 1 => up[t] = 1
    BY <2>1 DEF Device!TypeOK, Device!Absent
  <2>3. Device!TypeOK'
    BY <2>1, <2>2 DEF Device!TypeOK
  <2>4. Told'
    <3>1. \A i \in written : Device!UpLabels(i) \in Device!Labels
      BY DEF Device!TypeOK, Device!Places, Device!UpLabels, Device!Labels
    <3> QED  BY <2>1, <2>2, <3>1 DEF Told, Device!UpLabels
  <2> QED  BY <2>1, <2>3, <2>4, ForeseenStays
<1>15. ASSUME NEW i \in Device!Places, Device!ExpireInfo(i)
       PROVE  DIInv'
  <2>1. /\ info' = [info EXCEPT ![i] = {}]
        /\ UNCHANGED <<status, home, name, others, changes, alerts, listed, avail, open, overdue,
                       pc, devices, due, seen, labels, up, written, moved>>
    BY <1>15 DEF Device!ExpireInfo, Device!dashboard, Device!cached, Device!poll, Device!ghosts
  <2>2. /\ info' \in [Device!Places -> SUBSET Device!Statuses]
        /\ \A j \in Device!Places : info'[j] = {} \/ info'[j] = info[j]
    BY <2>1 DEF Device!TypeOK
  <2>3. Device!TypeOK'
    BY <2>1, <2>2 DEF Device!TypeOK
  <2>4. Told'
    BY <2>1, <2>2 DEF Told, Device!UpLabels, Device!TypeOK
  <2> QED  BY <2>1, <2>3, <2>4, ForeseenStays
<1>16. CASE UNCHANGED Device!vars
  <2>1. Device!TypeOK'
    BY <1>16 DEF Device!vars, Device!dashboard, Device!cached, Device!poll, Device!series,
                 Device!ghosts, Device!TypeOK
  <2> QED  BY <1>16, <2>1, ToldStays, ForeseenStays
           DEF Device!vars, Device!dashboard, Device!cached, Device!poll, Device!series,
               Device!ghosts
<1> QED  BY <1>1, <1>2, <1>3, <1>4, <1>5, <1>6, <1>7, <1>8, <1>9, <1>10, <1>12, <1>13, <1>14,
            <1>15, <1>16 DEF Device!Next

LEMMA DeviceInductive == Device!Spec => []DIInv
<1>1. DIInv /\ [Device!Next]_(Device!vars) => DIInv'
  BY DeviceStep
<1> QED  BY <1>1, DeviceBegins, PTL DEF Device!Spec

-----------------------------------------------------------------------------
(* One status at most under any labels, and none that contradicts a          *)
(* device_up of 1 under those that the last poll to write any used, wherever *)
(* in a poll an alert lands (_collect_common_metrics).                       *)
THEOREM DeviceHolds == Device!Spec => []DeviceInv
<1>1. ASSUME DIInv
      PROVE  Device!DeviceInv
  <2>1. ASSUME NEW i \in Device!Places
        PROVE  Device!Cardinality(info[i]) <= 1
    <3>1. CASE info[i] = {}
      <4>1. Device!Cardinality({}) = 0
        BY FS_EmptySet, DeviceCard
      <4> QED  BY <3>1, <4>1
    <3>2. ASSUME NEW st \in Device!Statuses, info[i] = {st}
          PROVE  Device!Cardinality(info[i]) <= 1
      <4>1. Device!Cardinality({st}) = 1
        BY FS_Singleton, DeviceCard
      <4> QED  BY <3>2, <4>1
    <3> QED  BY <1>1, <3>1, <3>2 DEF DIInv, Told
  <2> QED  BY <1>1, <2>1 DEF DIInv, Told, Device!DeviceInv, Device!StatusConsistent
<1> QED  BY <1>1, DeviceInductive, PTL DEF DeviceInv

(* A webhook changes a series that the last poll to write any has written,   *)
(* or one of a device that joined or moved since, and no other               *)
(* (apply_webhook_device_state).                                             *)
THEOREM WebhookHolds == Device!Spec => WebhookFollowsPoll
<1>1. ASSUME DIInv, [Device!Next]_(Device!vars), NEW s \in Device!Labels, Device!ByWebhook(s)
      PROVE  Known(s)
  <2>1. PICK d \in Devices : Device!Deliver(d)
    BY <1>1 DEF Device!ByWebhook, Device!Next, Device!vars, Device!series, Device!ghosts,
                Device!Change, Device!Move, Device!Rename, Device!RefreshDevices,
                Device!Lose, Device!RefreshAvailabilities, Device!Reopen, Device!FetchDevices,
                Device!FetchAvailabilities, Device!PollFails,
                Device!Write, Device!ExpireUp, Device!ExpireInfo
  <2>2. s \in labels
    BY <1>1, <2>1 DEF Device!Deliver, Device!ByWebhook
  <2> QED  BY <1>1, <2>2 DEF DIInv, Foreseen
<1>2. DIInv /\ [Device!Next]_(Device!vars)
      => [\A s \in Device!Labels :
             Device!ByWebhook(s) => s \in Device!UpOf(written) \/ s[1] \in moved]_(Device!vars)
  BY <1>1 DEF Known
<1> QED  BY <1>2, DeviceInductive, PTL DEF Device!Spec, Device!WebhookFollowsPoll, WebhookFollowsPoll
=============================================================================
