------------------------ MODULE CollectorLoop_proofs ------------------------
(***************************************************************************)
(* Machine-checked proofs about CollectorLoop, for every set of groups,    *)
(* every order of stages, every floor, plan and timeout.                   *)
(***************************************************************************)
EXTENDS CollectorLoop, BasicLemmas, FiniteSetTheorems, TLAPS

Starting == [interval |-> Floor, shed |-> {}, off |-> {}]

Typed ==
    /\ plan \in Plans \cup {Starting}
    /\ ran \in [Groups -> Age]
    /\ tried \in [Groups -> Age]
    /\ counted \in [Groups -> BOOLEAN]
    /\ runner \in {"none", "loop", "forced"}
    /\ stage \in 0..(Len(Stages) + 1)
    /\ fetching \subseteq Groups
    /\ elapsed \in 0..Timeout
    /\ sleepLeft \in -1..ResolveCap
    /\ succeeded \in BOOLEAN
    /\ data \subseteq Groups
    /\ outcome \in [Groups -> {"none", "open", "ok", "failed", "lost"}]

(* Only a cycle fetches, and only the groups of its stage. *)
InStage ==
    fetching # {} =>
        /\ runner # "none" /\ stage \in 1..Len(Stages)
        /\ fetching \subseteq Stages[stage]

(* An attempt of this cycle that has brought nothing: as mark_failed sees it *)
(* (no success since), and younger than the cycle.                           *)
Vain(g) ==
    /\ runner = "loop"
    /\ tried[g] # Never /\ tried[g] <= elapsed
    /\ ran[g] = Never \/ ran[g] > tried[g]

(* What the gates say of a group's last attempt is what became of it.        *)
GateAgrees(g) ==
    /\ outcome[g] = "none" => tried[g] = Never /\ ~counted[g]
    /\ outcome[g] = "open" => ~counted[g] /\ g \in fetching /\ Vain(g)
    /\ outcome[g] = "ok" =>
          ~counted[g] /\ ran[g] # Never /\ tried[g] # Never /\ ran[g] <= tried[g]
    /\ outcome[g] = "failed" => counted[g] \/ g \in Unconditional \/ Vain(g)
    /\ runner = "loop" /\ g \in fetching => outcome[g] = "open"

Attempts == \A g \in Groups : GateAgrees(g)

Shape == Typed /\ InStage

IInv == Shape /\ Attempts

-----------------------------------------------------------------------------
(* The operators of the gates and of the sleep. *)

LEMMA StagesFacts ==
    /\ Len(Stages) \in Nat
    /\ \A i \in 1..Len(Stages) : Stages[i] \in SUBSET Groups
BY GroupsAssumption

LEMMA PlanFacts ==
    ASSUME plan \in Plans \cup {Starting}
    PROVE  /\ plan \in [interval : [Groups -> Nat \ {0}], shed : SUBSET Groups, off : SUBSET Groups]
           /\ \A g \in Groups : plan.interval[g] \in Nat \ {0}
<1>1. Starting \in [interval : [Groups -> Nat \ {0}], shed : SUBSET Groups, off : SUBSET Groups]
  BY FloorAssumption DEF Starting
<1>2. plan \in [interval : [Groups -> Nat \ {0}], shed : SUBSET Groups, off : SUBSET Groups]
  BY <1>1, PlansAssumption
<1> QED  BY <1>2

LEMMA GateTimeFacts ==
    /\ \A i \in Nat \ {0} : GateTime(i) \in Nat /\ GateTime(i) >= 1
    /\ \A i, j \in Nat : i <= j => GateTime(i) <= GateTime(j)
BY DEF GateTime

(* An age grows with time, up to its bound, and keeps its order. *)
LEMMA OlderFacts ==
    /\ \A a \in Age : Older(a) \in Age /\ (Older(a) = Never <=> a = Never)
    /\ \A a, b \in Age : a # Never /\ b # Never /\ a <= b => Older(a) <= Older(b)
    /\ \A a \in Age : a # Never => Older(a) <= a + 1
    /\ \A a, b \in Age : a # Never /\ b # Never /\ a > b /\ b + 1 < AgeCap => Older(a) > Older(b)
BY TimesAssumption DEF Older, Age, Never, Lesser

LEMMA NextDueTyped ==
    ASSUME Typed, NEW g \in Groups
    PROVE  NextDue(ran, tried, g) \in Int
<1>1. GateTime(plan.interval[g]) \in Int
  BY PlanFacts, GateTimeFacts DEF Typed
<1>2. ran[g] \in Int /\ tried[g] \in Int /\ Retry \in Int
  BY TimesAssumption DEF Typed, Age
<1> QED  BY <1>1, <1>2 DEF NextDue, Greater

(* The sleep is no longer than a resolve period, and no longer than until    *)
(* the first group is due, but for the least sleep.                          *)
LEMMA SleepFacts ==
    ASSUME Typed
    PROVE  /\ SleepFor(ran, tried) \in 1..ResolveCap
           /\ \A g \in Groups : Schedulable(g) =>
                 SleepFor(ran, tried) <= Greater(1, NextDue(ran, tried, g))
<1> DEFINE Open == {g \in Groups : Schedulable(g)}
           next == [g \in Open |-> NextDue(ran, tried, g)]
           D == DueTimes(ran, tried) \cup {ResolveCap}
<1>1. IsFiniteSet(Open)
  BY GroupsAssumption, FS_Subset
<1>2. DueTimes(ran, tried) = {next[g] : g \in Open}
  BY DEF DueTimes
<1>3. IsFiniteSet(D)
  <2>1. IsFiniteSet({next[g] : g \in Open})
    <3> HIDE DEF next, Open
    <3> QED  BY <1>1, ValuesFinite
  <2> QED  BY <1>2, <2>1, FS_AddElement
<1>4. D \in SUBSET Int /\ D # {}
  BY NextDueTyped, TimesAssumption DEF DueTimes
<1>5. Min(D) \in D /\ \A x \in D : Min(D) <= x
  <2> HIDE DEF D
  <2> QED  BY <1>3, <1>4, FiniteMin
<1>6. Min(D) \in Int /\ Min(D) <= ResolveCap
  BY <1>4, <1>5
<1>7. SleepFor(ran, tried) = IF 1 >= Min(D) THEN 1 ELSE Min(D)
  BY DEF SleepFor, Greater
<1>8. ASSUME NEW g \in Groups, Schedulable(g)
      PROVE  SleepFor(ran, tried) <= Greater(1, NextDue(ran, tried, g))
  <2>1. NextDue(ran, tried, g) \in D
    BY <1>8 DEF DueTimes
  <2>2. Min(D) <= NextDue(ran, tried, g) /\ NextDue(ran, tried, g) \in Int
    BY <1>5, <2>1, NextDueTyped
  <2> HIDE DEF D
  <2> QED  BY <1>6, <1>7, <2>2 DEF Greater
<1>9. SleepFor(ran, tried) \in 1..ResolveCap
  <2> HIDE DEF D
  <2> QED  BY <1>6, <1>7, TimesAssumption
<1> QED  BY <1>8, <1>9

LEMMA BackToSleepTyped ==
    ASSUME Typed, BackToSleep(ran, tried)
    PROVE  sleepLeft' \in -1..ResolveCap
BY SleepFacts, TimesAssumption DEF BackToSleep, FallAsleep, nap, Typed

-----------------------------------------------------------------------------
LEMMA InitInv == Init => IInv
<1> SUFFICES ASSUME Init PROVE IInv
  OBVIOUS
<1>1. Typed
  <2>1. Never \in Age /\ 0 \in 0..Timeout /\ -1 \in -1..ResolveCap
    BY TimesAssumption DEF Age, Never
  <2>2. 0 \in 0..(Len(Stages) + 1)
    BY StagesFacts
  <2> QED  BY <2>1, <2>2 DEF Init, Typed, Starting, Unstarted
<1>2. InStage /\ Attempts
  BY DEF Init, InStage, Attempts, GateAgrees
<1> QED  BY <1>1, <1>2 DEF IInv, Shape

LEMMA ReleaseShape ==
    ASSUME Shape, Release, BackToSleep(ran, tried), UNCHANGED <<plan, ran, tried>>,
           counted' \in [Groups -> BOOLEAN], succeeded' \in BOOLEAN, data' \subseteq Groups,
           outcome' \in [Groups -> {"none", "open", "ok", "failed", "lost"}]
    PROVE  Shape'
<1>1. sleepLeft' \in -1..ResolveCap
  BY BackToSleepTyped DEF Shape
<1>2. 0 \in 0..(Len(Stages) + 1) /\ 0 \in 0..Timeout
  BY StagesFacts, TimesAssumption
<1> QED  BY <1>1, <1>2 DEF Release, Shape, Typed, InStage

LEMMA ShapeNext ==
    ASSUME Shape, [Next]_vars
    PROVE  Shape'
<1> USE DEF Shape
<1>1. CASE Wake
  <2>1. CASE Start("loop") /\ UNCHANGED sleepLeft
    BY <2>1 DEF Start, gates, Typed, InStage
  <2>2. CASE FallAsleep(ran, tried)
             /\ UNCHANGED <<plan, gates, cycle, succeeded, data, outcome>>
    <3>1. sleepLeft' \in -1..ResolveCap
      BY <2>2, SleepFacts DEF FallAsleep
    <3> QED  BY <2>2, <3>1 DEF gates, cycle, Typed, InStage
  <2> QED  BY <1>1, <2>1, <2>2 DEF Wake
<1>2. CASE Trigger
  BY <1>2 DEF Trigger, Start, gates, nap, Typed, InStage
<1>3. CASE Prefetch \/ PrefetchEmpty
  <2>1. /\ stage = 0 /\ stage' \in {1, Len(Stages) + 1}
        /\ UNCHANGED <<plan, gates, runner, fetching, elapsed, nap, succeeded, data, outcome>>
    BY <1>3 DEF Prefetch, PrefetchEmpty
  <2> QED  BY <2>1, StagesFacts DEF gates, nap, Typed, InStage
<1>4. CASE PrefetchError \/ CycleSuccess
  <2>1. /\ Release /\ BackToSleep(ran, tried) /\ UNCHANGED <<plan, ran, tried, data, outcome>>
        /\ counted' \in [Groups -> BOOLEAN] /\ succeeded' \in BOOLEAN
    BY <1>4 DEF PrefetchError, CycleSuccess, EndCycle, CountFailures, Typed
  <2> QED  BY <2>1, ReleaseShape DEF Typed
<1>5. CASE Consult
  <2> DEFINE due == {g \in Stages[stage] : ShouldRun(g)}
  <2>1. /\ runner # "none" /\ stage \in 1..Len(Stages)
        /\ fetching' = due /\ stage' = IF due = {} THEN stage + 1 ELSE stage
        /\ UNCHANGED <<plan, ran, runner, elapsed, nap, succeeded, data>>
        /\ IF runner = "loop" THEN RecordAttempt(due) ELSE UNCHANGED <<tried, counted, outcome>>
    BY <1>5 DEF Consult
  <2>2. due \subseteq Stages[stage] /\ due \subseteq Groups
    BY <2>1, StagesFacts
  <2> HIDE DEF due
  <2>3. stage' \in 0..(Len(Stages) + 1)
    BY <2>1, StagesFacts
  <2>4. tried' \in [Groups -> Age]
    <3>1. 0 \in Age
      BY TimesAssumption DEF Age
    <3> QED  BY <2>1, <3>1 DEF RecordAttempt, Typed
  <2>5. /\ counted' \in [Groups -> BOOLEAN]
        /\ outcome' \in [Groups -> {"none", "open", "ok", "failed", "lost"}]
    BY <2>1 DEF RecordAttempt, Typed
  <2> QED  BY <2>1, <2>2, <2>3, <2>4, <2>5 DEF nap, Typed, InStage
<1>6. ASSUME NEW ok \in SUBSET Groups, Fetched(ok)
      PROVE  Shape'
  <2>1. ran' \in [Groups -> Age]
    BY <1>6, TimesAssumption DEF Fetched, Marked, Typed, Age
  <2>2. outcome' \in [Groups -> {"none", "open", "ok", "failed", "lost"}]
    BY <1>6 DEF Fetched, Conclude, Typed
  <2>3. stage' \in 0..(Len(Stages) + 1)
    BY <1>6, StagesFacts DEF Fetched, InStage
  <2> QED  BY <1>6, <2>1, <2>2, <2>3 DEF Fetched, Conclude, Typed, InStage
<1>7. CASE FetchError
  <2>1. /\ Release /\ BackToSleep(ran, tried) /\ UNCHANGED <<plan, ran, tried, succeeded>>
        /\ counted' \in [Groups -> BOOLEAN] /\ data' \subseteq Groups
        /\ outcome' \in [Groups -> {"none", "open", "ok", "failed", "lost"}]
    BY <1>7 DEF FetchError, Conclude, EndCycle, CountFailures, Typed
  <2> QED  BY <2>1, ReleaseShape DEF Typed
<1>8. CASE CycleTimeout
  <2>1. /\ Release /\ BackToSleep(ran, tried) /\ UNCHANGED <<plan, gates, succeeded, data>>
        /\ outcome' \in [Groups -> {"none", "open", "ok", "failed", "lost"}]
    BY <1>8 DEF CycleTimeout, Typed
  <2> QED  BY <2>1, ReleaseShape DEF gates, Typed
<1>9. ASSUME NEW p \in Plans, Resolve(p)
      PROVE  Shape'
  BY <1>9 DEF Resolve, gates, cycle, Typed, InStage
<1>10. CASE Tick
  <2>1. \A g \in Groups : ran[g] \in Age /\ tried[g] \in Age
    BY DEF Typed
  <2>2. ran' \in [Groups -> Age] /\ tried' \in [Groups -> Age]
    BY <1>10, <2>1, OlderFacts DEF Tick
  <2>3. elapsed' \in 0..Timeout /\ sleepLeft' \in -1..ResolveCap
    BY <1>10, TimesAssumption DEF Tick, Typed
  <2> QED  BY <1>10, <2>2, <2>3 DEF Tick, Typed, InStage
<1>11. CASE UNCHANGED vars
  BY <1>11 DEF vars, gates, cycle, nap, Typed, InStage
<1> QED  BY <1>1, <1>2, <1>3, <1>4, <1>5, <1>6, <1>7, <1>8, <1>9, <1>10, <1>11
            DEF Next, CycleStep

LEMMA ShapeHolds == Spec => []Shape
<1>1. Init => Shape
  BY InitInv DEF IInv
<1> QED  BY <1>1, ShapeNext, PTL DEF Spec

-----------------------------------------------------------------------------
(* How a cycle ends that counts its failures, from what Conclude or nothing  *)
(* made of the outcomes.                                                     *)
LEMMA EndKeeps ==
    ASSUME IInv, EndCycle(ran), UNCHANGED <<ran, tried>>,
           \A g \in Groups :
               \/ outcome[g] # "open" /\ outcome'[g] = outcome[g]
               \/ outcome[g] = "open" /\ outcome'[g] = "failed"
    PROVE  Attempts'
<1>1. runner' = "none" /\ fetching' = {}
  BY DEF EndCycle, Release
<1>2. counted' = [g \in Groups |->
          counted[g] \/ (tried[g] # Never /\ (ran[g] = Never \/ ran[g] > tried[g]))]
  BY DEF EndCycle, CountFailures
<1> SUFFICES ASSUME NEW g \in Groups PROVE GateAgrees(g)'
  BY DEF Attempts
<1>3. GateAgrees(g) /\ ran[g] \in Int /\ tried[g] \in Int
  BY DEF IInv, Attempts, Shape, Typed, Age
<1>4. counted'[g] <=>
        counted[g] \/ (tried[g] # Never /\ (ran[g] = Never \/ ran[g] > tried[g]))
  BY <1>2
<1>5. outcome'[g] # "open"
  OBVIOUS
<1>6. outcome'[g] = "none" => tried'[g] = Never /\ ~counted'[g]
  BY <1>3, <1>4 DEF GateAgrees
<1>7. outcome'[g] = "ok" =>
        ~counted'[g] /\ ran'[g] # Never /\ tried'[g] # Never /\ ran'[g] <= tried'[g]
  BY <1>3, <1>4 DEF GateAgrees
<1>8. outcome'[g] = "failed" => counted'[g] \/ g \in Unconditional
  BY <1>3, <1>4 DEF GateAgrees, Vain
<1> QED  BY <1>1, <1>5, <1>6, <1>7, <1>8 DEF GateAgrees

LEMMA ConsultKeeps ==
    ASSUME IInv, Consult
    PROVE  Attempts'
<1> DEFINE due == {g \in Stages[stage] : ShouldRun(g)}
<1>1. /\ stage \in 1..Len(Stages) /\ fetching = {} /\ fetching' = due
      /\ UNCHANGED <<plan, ran, runner, elapsed>>
      /\ IF runner = "loop" THEN RecordAttempt(due) ELSE UNCHANGED <<tried, counted, outcome>>
  BY DEF Consult
<1>2. due \subseteq Groups
  BY <1>1, StagesFacts
<1>3. \A g \in due : ShouldRun(g)
  OBVIOUS
<1> HIDE DEF due
<1>4. CASE runner = "loop"
  <2>1. RecordAttempt(due)
    BY <1>1, <1>4
  <2>2. ASSUME NEW g \in due PROVE GateAgrees(g)'
    <3>1. g \in Groups /\ tried'[g] = 0 /\ counted'[g] = FALSE /\ outcome'[g] = "open"
      BY <1>2, <2>1 DEF RecordAttempt
    <3>2. ran[g] = Never \/ ran[g] >= GateTime(plan.interval[g])
      BY <1>3, <1>4 DEF ShouldRun, Due
    <3>3. GateTime(plan.interval[g]) \in Nat /\ GateTime(plan.interval[g]) >= 1
      BY <3>1, PlanFacts, GateTimeFacts DEF IInv, Shape, Typed
    <3>4. ran[g] = Never \/ ran[g] > 0
      BY <3>1, <3>2, <3>3 DEF IInv, Shape, Typed, Age
    <3>5. Vain(g)'
      BY <1>1, <1>4, <3>1, <3>4 DEF Vain, Never, IInv, Shape, Typed
    <3> QED  BY <1>1, <3>1, <3>5 DEF GateAgrees
  <2>3. ASSUME NEW g \in Groups \ due PROVE GateAgrees(g)'
    <3>1. tried'[g] = tried[g] /\ counted'[g] = counted[g] /\ outcome'[g] = outcome[g]
      BY <2>1 DEF RecordAttempt
    <3>2. GateAgrees(g) /\ g \notin fetching /\ g \notin fetching'
      BY <1>1 DEF IInv, Attempts
    <3> QED  BY <1>1, <3>1, <3>2 DEF GateAgrees, Vain
  <2> QED  BY <2>2, <2>3 DEF Attempts
<1>5. CASE runner # "loop"
  <2>1. ASSUME NEW g \in Groups PROVE GateAgrees(g)'
    <3>1. GateAgrees(g)
      BY DEF IInv, Attempts
    <3> QED  BY <1>1, <1>5, <3>1 DEF GateAgrees, Vain
  <2> QED  BY <2>1 DEF Attempts
<1> QED  BY <1>4, <1>5

LEMMA FetchedKeeps ==
    ASSUME IInv, NEW ok \in SUBSET Groups, Fetched(ok)
    PROVE  Attempts'
<1>1. /\ ok \subseteq fetching /\ fetching' = {}
      /\ UNCHANGED <<tried, counted, runner, elapsed>>
  BY DEF Fetched
<1>2. \A g \in Groups :
          /\ ran'[g] = IF g \in ok \cup (fetching \cap Unconditional) THEN 0 ELSE ran[g]
          /\ outcome'[g] = IF g \in fetching /\ outcome[g] = "open"
                           THEN (IF g \in ok THEN "ok" ELSE "failed") ELSE outcome[g]
  BY DEF Fetched, Conclude, Marked
<1> SUFFICES ASSUME NEW g \in Groups PROVE GateAgrees(g)'
  BY DEF Attempts
<1>3. GateAgrees(g) /\ tried[g] \in Int /\ (tried[g] # Never => tried[g] >= 0)
  BY DEF IInv, Attempts, Shape, Typed, Age, Never
<1>4. CASE outcome[g] = "open"
  <2>1. g \in fetching /\ ~counted[g] /\ Vain(g)
    BY <1>3, <1>4 DEF GateAgrees
  <2>2. CASE g \in ok
    BY <1>1, <1>2, <1>3, <1>4, <2>1, <2>2 DEF GateAgrees, Vain, Never
  <2>3. CASE g \notin ok
    BY <1>1, <1>2, <1>4, <2>1, <2>3 DEF GateAgrees, Vain
  <2> QED  BY <2>2, <2>3
<1>5. CASE outcome[g] # "open"
  <2>1. outcome'[g] = outcome[g] /\ (g \in fetching => runner # "loop")
    BY <1>2, <1>3, <1>5 DEF GateAgrees
  <2>2. ran'[g] = ran[g] \/ (ran'[g] = 0 /\ g \in fetching)
    BY <1>1, <1>2
  <2> QED  BY <1>1, <1>3, <1>5, <2>1, <2>2 DEF GateAgrees, Vain, Never
<1> QED  BY <1>4, <1>5

LEMMA FetchErrorKeeps ==
    ASSUME IInv, FetchError
    PROVE  Attempts'
<1>1. \A g \in Groups :
          \/ outcome[g] # "open" /\ outcome'[g] = outcome[g]
          \/ outcome[g] = "open" /\ outcome'[g] = "failed"
  BY DEF FetchError, Conclude, IInv, Attempts, GateAgrees
<1> QED  BY <1>1, EndKeeps DEF FetchError

LEMMA EndedKeeps ==
    ASSUME IInv, EndCycle(ran), fetching = {}, UNCHANGED <<ran, tried, outcome>>
    PROVE  Attempts'
<1>1. \A g \in Groups : outcome[g] # "open"
  BY DEF IInv, Attempts, GateAgrees
<1> QED  BY <1>1, EndKeeps

LEMMA TimeoutKeeps ==
    ASSUME IInv, CycleTimeout
    PROVE  Attempts'
<1>1. runner' = "none" /\ fetching' = {} /\ UNCHANGED gates
  BY DEF CycleTimeout, Release
<1>2. \A g \in Groups : outcome'[g] =
          IF outcome[g] \in {"open", "failed"} /\ ~counted[g] THEN "lost" ELSE outcome[g]
  BY DEF CycleTimeout
<1> SUFFICES ASSUME NEW g \in Groups PROVE GateAgrees(g)'
  BY DEF Attempts
<1>3. GateAgrees(g)
  BY DEF IInv, Attempts
<1> QED  BY <1>1, <1>2, <1>3 DEF GateAgrees, gates

LEMMA TickKeeps ==
    ASSUME IInv, Tick
    PROVE  Attempts'
<1>1. \A g \in Groups : ran'[g] = Older(ran[g]) /\ tried'[g] = Older(tried[g])
                        /\ ran[g] \in Age /\ tried[g] \in Age
  BY DEF Tick, IInv, Shape, Typed
<1>2. /\ runner = "loop" => elapsed' = elapsed + 1 /\ elapsed < Timeout
      /\ UNCHANGED <<counted, runner, fetching, outcome>>
  BY DEF Tick
<1> SUFFICES ASSUME NEW g \in Groups PROVE GateAgrees(g)'
  BY DEF Attempts
<1>3. GateAgrees(g)
  BY DEF IInv, Attempts
<1>4. /\ ran'[g] = Never <=> ran[g] = Never
      /\ tried'[g] = Never <=> tried[g] = Never
  BY <1>1, OlderFacts
<1>5. ran[g] # Never /\ tried[g] # Never /\ ran[g] <= tried[g] => ran'[g] <= tried'[g]
  BY <1>1, OlderFacts
<1>6. Vain(g) => Vain(g)'
  <2> SUFFICES ASSUME Vain(g) PROVE Vain(g)'
    OBVIOUS
  <2>1. tried[g] # Never /\ tried[g] <= elapsed /\ elapsed \in Nat /\ elapsed < Timeout
        /\ tried[g] \in Int /\ elapsed' = elapsed + 1 /\ Timeout \in Nat /\ AgeCap \in Nat
        /\ AgeCap > Timeout
    BY <1>1, <1>2, TimesAssumption DEF Vain, IInv, Shape, Typed, Age
  <2>2. tried'[g] <= elapsed' /\ tried'[g] # Never
    <3>1. tried'[g] <= tried[g] + 1 /\ tried'[g] \in Int
      BY <1>1, <2>1, OlderFacts DEF Age
    <3> QED  BY <1>4, <2>1, <3>1
  <2>3. tried[g] + 1 < AgeCap
    BY <2>1
  <2>4. ran'[g] = Never \/ ran'[g] > tried'[g]
    BY <1>1, <1>4, <2>1, <2>3, OlderFacts DEF Vain
  <2> QED  BY <1>2, <2>2, <2>4 DEF Vain
<1> QED  BY <1>2, <1>3, <1>4, <1>5, <1>6 DEF GateAgrees

LEMMA AttemptsNext ==
    ASSUME IInv, [Next]_vars
    PROVE  Attempts'
<1>1. ASSUME runner = "none", Start("loop") \/ Start("forced")
      PROVE  Attempts'
  <2>1. fetching = {} /\ UNCHANGED <<gates, fetching, outcome>>
    BY <1>1 DEF Start, IInv, Shape, InStage
  <2> QED  BY <1>1, <2>1 DEF gates, IInv, Attempts, GateAgrees, Vain
<1>2. CASE Wake
  BY <1>1, <1>2 DEF Wake, gates, cycle, IInv, Attempts, GateAgrees, Vain
<1>3. CASE Trigger
  BY <1>1, <1>3 DEF Trigger
<1>4. CASE Prefetch \/ PrefetchEmpty
  BY <1>4 DEF Prefetch, PrefetchEmpty, gates, IInv, Attempts, GateAgrees, Vain
<1>5. CASE PrefetchError \/ CycleSuccess
  <2>1. fetching = {}
    BY <1>5, StagesFacts DEF PrefetchError, CycleSuccess, IInv, Shape, InStage
  <2> QED  BY <1>5, <2>1, EndedKeeps DEF PrefetchError, CycleSuccess
<1>6. CASE Consult
  BY <1>6, ConsultKeeps
<1>7. ASSUME NEW ok \in SUBSET Groups, Fetched(ok)
      PROVE  Attempts'
  BY <1>7, FetchedKeeps
<1>12. CASE FetchError
  BY <1>12, FetchErrorKeeps
<1>8. CASE CycleTimeout
  BY <1>8, TimeoutKeeps
<1>9. ASSUME NEW p \in Plans, Resolve(p)
      PROVE  Attempts'
  BY <1>9 DEF Resolve, gates, cycle, IInv, Attempts, GateAgrees, Vain
<1>10. CASE Tick
  BY <1>10, TickKeeps
<1>11. CASE UNCHANGED vars
  BY <1>11 DEF vars, gates, cycle, IInv, Attempts, GateAgrees, Vain
<1> QED  BY <1>2, <1>3, <1>4, <1>5, <1>6, <1>7, <1>8, <1>9, <1>10, <1>11, <1>12
            DEF Next, CycleStep

-----------------------------------------------------------------------------
(* What the sleeping loop does not know of was brought forward, and nothing  *)
(* waits for longer than what was left of a resolve period.                  *)
Napping ==
    /\ news \subseteq Groups /\ overdue \in Nat
    /\ \A g \in Groups : Overslept(g) => g \in news
    /\ news # {} => sleepLeft > 1
    /\ overdue > 0 => sleepLeft # Unstarted
    /\ runner = "loop" => sleepLeft = 0
    /\ overdue + Greater(0, sleepLeft) <= ResolveCap

LEMMA NextDueOfPlan ==
    ASSUME Typed, Typed', NEW g \in Groups
    PROVE  /\ NextDue(ran, tried, g) \in Int
           /\ NextDue(ran, tried, g)' \in Int
<1>1. NextDue(ran, tried, g) \in Int
  BY NextDueTyped
<1>2. GateTime(plan'.interval[g]) \in Int
  <2>1. plan' \in Plans \cup {Starting}
    BY DEF Typed
  <2>2. plan'.interval[g] \in Nat \ {0}
    BY <2>1, PlansAssumption, FloorAssumption DEF Starting
  <2> QED  BY <2>2, GateTimeFacts
<1>3. ran'[g] \in Int /\ tried'[g] \in Int /\ Retry \in Int
  BY TimesAssumption DEF Typed, Age
<1> QED  BY <1>1, <1>2, <1>3 DEF NextDue, Greater

(* Time brings a group no nearer than it passes. *)
LEMMA DueInTime ==
    ASSUME Typed, NEW g \in Groups, NEW s \in Int, s > 1, UNCHANGED plan,
           ran'[g] = Older(ran[g]), tried'[g] = Older(tried[g]), s > NextDue(ran, tried, g)'
    PROVE  s + 1 > NextDue(ran, tried, g)
<1> DEFINE G == GateTime(plan.interval[g])
<1>1. G \in Int
  BY PlanFacts, GateTimeFacts DEF Typed
<1>2. ran[g] \in Age /\ tried[g] \in Age
  BY DEF Typed
<1>3. NextDue(ran, tried, g) =
          LET base == IF ran[g] = Never THEN 0 ELSE G - ran[g]
          IN  IF tried[g] # Never /\ (ran[g] = Never \/ tried[g] < ran[g])
              THEN Greater(base, Retry - tried[g]) ELSE base
  BY DEF NextDue
<1>4. NextDue(ran, tried, g)' =
          LET base == IF Older(ran[g]) = Never THEN 0 ELSE G - Older(ran[g])
          IN  IF Older(tried[g]) # Never
                 /\ (Older(ran[g]) = Never \/ Older(tried[g]) < Older(ran[g]))
              THEN Greater(base, Retry - Older(tried[g])) ELSE base
  BY DEF NextDue
<1> HIDE DEF G
<1> QED  BY <1>1, <1>2, <1>3, <1>4, TimesAssumption DEF Older, Lesser, Greater, Age, Never

LEMMA FallenAsleep ==
    ASSUME Typed, FallAsleep(ran, tried), UNCHANGED <<plan, ran, tried>>, runner' # "loop"
    PROVE  Napping'
<1>1. SleepFor(ran, tried) \in 1..ResolveCap
  BY SleepFacts
<1>2. ASSUME NEW g \in Groups, Overslept(g)' PROVE FALSE
  <2>1. Schedulable(g) /\ sleepLeft' > 1 /\ sleepLeft' > NextDue(ran, tried, g)
    BY <1>2 DEF Overslept, Schedulable, NextDue
  <2>2. sleepLeft' <= Greater(1, NextDue(ran, tried, g)) /\ NextDue(ran, tried, g) \in Int
    BY <2>1, SleepFacts, NextDueTyped DEF FallAsleep
  <2> QED  BY <1>1, <2>1, <2>2 DEF Greater, FallAsleep
<1> QED  BY <1>1, <1>2, TimesAssumption DEF FallAsleep, Napping, Greater, Unstarted

LEMMA SleptOn ==
    ASSUME Typed, Napping, UNCHANGED <<plan, nap>>, runner' = "loop" => sleepLeft = 0,
           sleepLeft > 1 => UNCHANGED <<ran, tried>>
    PROVE  Napping'
<1>1. \A g \in Groups : Overslept(g)' => Overslept(g)
  BY DEF nap, Overslept, Schedulable, NextDue
<1> QED  BY <1>1 DEF nap, Napping

LEMMA GoneToSleep ==
    ASSUME Typed, Napping, Release, BackToSleep(ran, tried), UNCHANGED <<plan, ran, tried>>
    PROVE  Napping'
<1>1. runner' = "none"
  BY DEF Release
<1>2. CASE runner = "loop"
  BY <1>1, <1>2, FallenAsleep DEF BackToSleep
<1>3. CASE runner # "loop" /\ sleepLeft = Unstarted
  <2>1. /\ sleepLeft' \in {0, 1} /\ news' = news /\ overdue' = overdue
        /\ overdue = 0 /\ news = {}
    BY <1>3 DEF BackToSleep, Napping, Unstarted
  <2>2. \A g \in Groups : ~Overslept(g)'
    BY <2>1 DEF Overslept
  <2>3. overdue' = 0 /\ news' = {} /\ runner' # "loop"
    BY <1>1, <2>1
  <2>4. overdue' + Greater(0, sleepLeft') <= ResolveCap
    <3>1. Greater(0, sleepLeft') \in {0, 1}
      BY <2>1 DEF Greater
    <3> QED  BY <2>3, <3>1, TimesAssumption
  <2> QED  BY <2>2, <2>3, <2>4 DEF Napping
<1>4. CASE runner # "loop" /\ sleepLeft # Unstarted
  BY <1>1, <1>4, SleptOn DEF BackToSleep
<1> QED  BY <1>2, <1>3, <1>4

LEMMA NewsNoticed ==
    ASSUME Typed, Typed', Napping, Unnoticed, UNCHANGED <<runner, sleepLeft, overdue>>
    PROVE  Napping'
<1>1. ASSUME NEW g \in Groups, Overslept(g)' PROVE g \in news'
  <2>1. CASE BroughtForward(g)
    BY <1>1, <2>1 DEF Unnoticed
  <2>2. CASE ~BroughtForward(g)
    <3>1. Schedulable(g) /\ ~(NextDue(ran, tried, g)' < NextDue(ran, tried, g))
      BY <1>1, <2>2 DEF BroughtForward, Overslept
    <3>2. sleepLeft > 1 /\ sleepLeft > NextDue(ran, tried, g)' /\ sleepLeft \in Int
      BY <1>1 DEF Overslept, Typed
    <3>3. Overslept(g)
      BY <3>1, <3>2, NextDueOfPlan DEF Overslept
    <3> QED  BY <1>1, <3>3 DEF Napping, Unnoticed
  <2> QED  BY <2>1, <2>2
<1>2. news' \subseteq Groups /\ (news' # {} => sleepLeft' > 1)
  BY DEF Unnoticed, Overslept
<1> QED  BY <1>1, <1>2 DEF Napping

LEMMA NapTicks ==
    ASSUME Typed, Typed', Napping, Tick
    PROVE  Napping'
<1>1. /\ UNCHANGED <<plan, runner>> /\ news' = {g \in news : Overslept(g)'}
      /\ sleepLeft' = IF sleepLeft > 0 THEN sleepLeft - 1 ELSE sleepLeft
      /\ \A g \in Groups : ran'[g] = Older(ran[g]) /\ tried'[g] = Older(tried[g])
  BY DEF Tick
<1>2. sleepLeft \in Int /\ overdue \in Nat /\ ResolveCap \in Nat
  BY TimesAssumption DEF Typed, Napping
<1>3. ASSUME NEW g \in Groups, Overslept(g)' PROVE g \in news'
  <2>1. sleepLeft' > 1 /\ sleepLeft' > NextDue(ran, tried, g)' /\ Schedulable(g)
    BY <1>1, <1>3 DEF Overslept, Schedulable
  <2>2. sleepLeft' \in Int /\ sleepLeft = sleepLeft' + 1
    BY <1>1, <1>2, <2>1
  <2>3. PICK s \in Int : s = sleepLeft'
    BY <2>2
  <2>4. s + 1 > NextDue(ran, tried, g)
    BY <1>1, <2>1, <2>3, DueInTime
  <2>5. Overslept(g)
    <3>1. NextDue(ran, tried, g) \in Int
      BY NextDueTyped
    <3>2. sleepLeft = s + 1 /\ s > 1
      BY <2>1, <2>2, <2>3
    <3>3. sleepLeft > 1 /\ sleepLeft > NextDue(ran, tried, g)
      BY <2>4, <3>1, <3>2
    <3> QED  BY <2>1, <3>3 DEF Overslept
  <2> QED  BY <1>1, <1>3, <2>5 DEF Napping
<1>4. news' \subseteq Groups /\ (news' # {} => sleepLeft' > 1)
  BY <1>1 DEF Napping, Overslept
<1>5. overdue' \in Nat /\ overdue' + Greater(0, sleepLeft') <= ResolveCap
      /\ (overdue' > 0 => sleepLeft' # Unstarted)
  <2>1. overdue' = 0 \/ (overdue' = overdue + 1 /\ news # {})
    BY DEF Tick
  <2>2. CASE overdue' = 0
    BY <1>1, <1>2, <2>2 DEF Napping, Greater
  <2>3. CASE overdue' = overdue + 1 /\ sleepLeft > 1
    BY <1>1, <1>2, <2>3 DEF Napping, Greater, Unstarted
  <2> QED  BY <2>1, <2>2, <2>3 DEF Napping
<1>6. runner' = "loop" => sleepLeft' = 0
  BY <1>1 DEF Napping
<1> QED  BY <1>3, <1>4, <1>5, <1>6 DEF Napping

LEMMA NappingNext ==
    ASSUME Shape, Shape', Napping, [Next]_vars
    PROVE  Napping'
<1>0. Typed /\ Typed' /\ sleepLeft \in Int
  BY DEF Shape, Typed
<1>1. CASE Wake
  <2>1. CASE runner = "none" /\ Start("loop") /\ sleepLeft' = 0 /\ overdue' = 0 /\ news' = {}
    BY <2>1, TimesAssumption DEF Napping, Overslept, Greater
  <2>2. CASE runner = "forced" /\ FallAsleep(ran, tried)
             /\ UNCHANGED <<plan, gates, cycle, succeeded, data, outcome>>
    BY <1>0, <2>2, FallenAsleep DEF gates, cycle
  <2> QED  BY <1>1, <2>1, <2>2 DEF Wake
<1>2. CASE Trigger
  BY <1>0, <1>2, SleptOn DEF Trigger, Start, gates
<1>3. CASE Prefetch \/ PrefetchEmpty
  BY <1>0, <1>3, SleptOn DEF Prefetch, PrefetchEmpty, gates, Napping
<1>4. CASE PrefetchError \/ CycleSuccess \/ FetchError
  BY <1>0, <1>4, GoneToSleep DEF PrefetchError, CycleSuccess, FetchError, EndCycle
<1>5. CASE Consult
  <2>1. UNCHANGED <<plan, nap, ran, runner>> /\ (runner # "loop" => UNCHANGED tried)
    BY <1>5 DEF Consult
  <2> QED  BY <1>0, <2>1, SleptOn DEF Napping
<1>6. ASSUME NEW ok \in SUBSET Groups, Fetched(ok)
      PROVE  Napping'
  BY <1>0, <1>6, NewsNoticed DEF Fetched
<1>7. CASE CycleTimeout
  BY <1>0, <1>7, GoneToSleep DEF CycleTimeout, gates
<1>8. ASSUME NEW p \in Plans, Resolve(p)
      PROVE  Napping'
  BY <1>0, <1>8, NewsNoticed DEF Resolve, cycle
<1>9. CASE Tick
  BY <1>0, <1>9, NapTicks
<1>10. CASE UNCHANGED vars
  BY <1>0, <1>10, SleptOn DEF vars, gates, cycle, Napping
<1> QED  BY <1>1, <1>2, <1>3, <1>4, <1>5, <1>6, <1>7, <1>8, <1>9, <1>10 DEF Next, CycleStep

LEMMA NapsHold == Spec => [](Shape /\ Napping)
<1>1. Init => Napping
  BY TimesAssumption DEF Init, Napping, Overslept, Unstarted, Greater
<1>2. Shape /\ Shape' /\ Napping /\ [Next]_vars => Napping'
  BY NappingNext
<1> QED  BY <1>1, <1>2, ShapeHolds, PTL DEF Spec

-----------------------------------------------------------------------------
(* No attempt that succeeded is ever counted as failed, and every one that   *)
(* failed is by the end of its cycle (mark_failed, collect).                 *)
THEOREM LoopHolds == Spec => []LoopInv
<1>1. IInv /\ Napping => LoopInv
  <2> SUFFICES ASSUME IInv, Napping PROVE LoopInv
    OBVIOUS
  <2>1. TypeOK
    <3>1. overdue \in 0..ResolveCap /\ news \subseteq Groups
      BY TimesAssumption DEF IInv, Shape, Typed, Napping, Greater
    <3> QED  BY <3>1, PlanFacts, TimesAssumption DEF IInv, Shape, Typed, TypeOK, Greater
  <2>2. ASSUME NEW g \in Groups
        PROVE  /\ counted[g] => outcome[g] \in {"failed", "lost"}
               /\ runner = "none" =>
                     /\ outcome[g] # "open"
                     /\ outcome[g] = "failed" => counted[g] \/ g \in Unconditional
    <3>1. GateAgrees(g) /\ outcome[g] \in {"none", "open", "ok", "failed", "lost"}
      BY DEF IInv, Shape, Typed, Attempts
    <3> QED  BY <3>1 DEF GateAgrees, Vain
  <2> QED  BY <2>1, <2>2 DEF LoopInv, FailuresAttributed
<1>2. ASSUME IInv, [Next]_vars
      PROVE  IInv'
  BY <1>2, ShapeNext, AttemptsNext DEF IInv
<1> QED  BY <1>1, <1>2, InitInv, NapsHold, PTL DEF Spec

(* The loop sleeps past the moment a group is due only if a plan or a forced *)
(* run brought the group forward during that sleep, and the group then waits *)
(* no longer than a resolve period (_collector_loop, seconds_until_due).     *)
THEOREM SleepHolds == Spec => []NeverOversleeps
<1>1. Shape /\ Napping => NeverOversleeps
  BY DEF Shape, Typed, Napping, NeverOversleeps, Greater, Unstarted
<1> QED  BY <1>1, NapsHold, PTL

(* A group is not polled below its floor, and a failing one not before its   *)
(* retry time (should_run, next_due).                                        *)
THEOREM PollRateHolds == Spec => PollRateBounded
<1>1. ASSUME Shape, [Next]_vars, NEW g \in Groups,
             runner = "loop", g \in fetching' \ fetching, tried[g] # Never
      PROVE  /\ tried[g] >= Lesser(Retry, GateTime(MinInterval(g)))
             /\ \/ outcome[g] = "ok"
                \/ tried[g] >= Retry
                \/ ran[g] # Never /\ ran[g] <= tried[g]
  <2>1. Consult
    BY <1>1 DEF Next, CycleStep, Wake, Start, Trigger, Prefetch, PrefetchError, PrefetchEmpty,
                Fetched, FetchError, CycleSuccess, CycleTimeout, EndCycle, Release, Resolve,
                Tick, vars, cycle
  <2>2. Due(g)
    BY <1>1, <2>1 DEF Consult, ShouldRun
  <2>3. ran[g] \in Int /\ tried[g] \in Int /\ Retry \in Int
    BY TimesAssumption, <1>1 DEF Shape, Typed, Age
  <2>4. GateTime(MinInterval(g)) \in Int
        /\ GateTime(MinInterval(g)) <= GateTime(plan.interval[g])
        /\ GateTime(plan.interval[g]) \in Int
    <3> DEFINE I == {p.interval[g] : p \in Plans} \cup {Floor[g]}
    <3>1. I \in SUBSET (Nat \ {0}) /\ I # {}
      BY FloorAssumption, PlansAssumption
    <3>2. plan.interval[g] \in I
      BY <1>1 DEF Shape, Typed, Starting
    <3>3. Min(I) \in I /\ \A i \in I : Min(I) <= i
      <4> HIDE DEF I
      <4>1. I \in SUBSET Nat
        BY <3>1
      <4> QED  BY <3>1, <4>1, NatMin
    <3>4. Min(I) \in Nat \ {0} /\ plan.interval[g] \in Nat \ {0} /\ Min(I) <= plan.interval[g]
      BY <3>1, <3>2, <3>3
    <3>5. MinInterval(g) = Min(I)
      BY DEF MinInterval
    <3> HIDE DEF I
    <3> QED  BY <3>4, <3>5, GateTimeFacts
  <2>5. CASE LastAttemptFailed(g)
    <3>1. tried[g] >= Retry
      BY <2>2, <2>5 DEF Due
    <3> QED  BY <2>3, <2>4, <3>1 DEF Lesser
  <2>6. CASE ~LastAttemptFailed(g)
    <3>1. ran[g] # Never /\ ran[g] <= tried[g]
      BY <1>1, <2>3, <2>6 DEF LastAttemptFailed
    <3>2. ran[g] >= GateTime(plan.interval[g])
      BY <2>2, <3>1 DEF Due
    <3> QED  BY <2>3, <2>4, <3>1, <3>2 DEF Lesser
  <2> QED  BY <2>5, <2>6
<1>2. Shape /\ [Next]_vars =>
        [\A g \in Groups :
          runner = "loop" /\ g \in fetching' \ fetching /\ tried[g] # Never =>
              /\ tried[g] >= Lesser(Retry, GateTime(MinInterval(g)))
              /\ \/ outcome[g] = "ok"
                 \/ tried[g] >= Retry
                 \/ ran[g] # Never /\ ran[g] <= tried[g]]_vars
  BY <1>1
<1> QED  BY <1>2, ShapeHolds, PTL DEF Spec, PollRateBounded
=============================================================================
