--------------------------- MODULE Services_proofs ---------------------------
(***************************************************************************)
(* Machine-checked proofs about the components that MCServices runs side   *)
(* by side, for every value of their constants: the interval solver, the   *)
(* rate limiter, the webhook receiver, the task group, the store of the    *)
(* clients, the resolver of their names, and the start and end of the      *)
(* exporter.  Each is proved of the component's own specification, and at  *)
(* the end of FairServices, under which TLC checks it.                     *)
(***************************************************************************)
EXTENDS MCServices, BasicLemmas, TLAPS

(* The interval solver.  Its invariants speak of the published plan; they   *)
(* are inductive once the same facts are known of the working copy from     *)
(* which the plan is published (Working).                                   *)

(* A step of the stretch loop raises an interval by at most a half and stays  *)
(* at or below the cap.                                                       *)
LEMMA StretchStepBounds ==
    ASSUME NEW g \in Groups, interval \in Intervals,
           interval[g] >= Floor[g], interval[g] < Cap(g)
    PROVE  /\ StretchStep(g) \in Nat \ {0}
           /\ StretchStep(g) >= interval[g]
           /\ StretchStep(g) <= Cap(g)
           /\ 2 * StretchStep(g) <= 3 * interval[g]
  <1> DEFINE i == interval[g]
             c == Cap(g)
             s == (i * 3) \div 2
  <1>1. i \in Nat /\ i >= 2
    BY FloorAssumption DEF Intervals
  <1>2. c \in Nat
    BY FloorAssumption, CapAssumption DEF Cap, Lesser
  <1>3. s \in Nat /\ s >= i /\ 2 * s <= 3 * i
    BY <1>1
  <1>4. StretchStep(g) = IF s <= c THEN s ELSE c
    BY DEF StretchStep, Lesser
  <1> HIDE DEF i, c, s
  <1>5. i < c
    BY DEF i, c
  <1>6. QED
    BY <1>1, <1>2, <1>3, <1>4, <1>5 DEF i, c

-----------------------------------------------------------------------------
(* What is known of the working copy while resolve() runs. *)
PinsKept == \A g \in Pinned : interval[g] = Pins[g]

StretchedOnly ==
    \A g \in Groups \ Pinned :
        /\ interval[g] >= Floor[g]
        /\ interval[g] # Floor[g] =>
              g \in Stretchable /\ g \in enabled /\ interval[g] <= Cap(g)

OrderKept ==
    \A g, h \in Stretchable :
        /\ g \in enabled /\ h \in enabled
        /\ Priority[h] > Priority[g]
        /\ interval[g] > Floor[g]
        => interval[h] >= Cap(h)

EvenKept ==
    \A g, h \in Stretchable :
        /\ g \in enabled /\ h \in enabled
        /\ Priority[g] = Priority[h]
        /\ interval[h] < Cap(h)
        => 2 * interval[g] * Floor[h] <= 3 * interval[h] * Floor[g]

Working == phase # "idle" => PinsKept /\ StretchedOnly /\ OrderKept /\ EvenKept

PlanSound ==
    /\ IntervalBounds
    /\ AvailabilityContract
    /\ LessImportantFirst
    /\ EvenStretch
    /\ DisabledKeepsFloor

IInv == TypeOK /\ shed \subseteq Sheddable /\ Working /\ PlanSound

USE DEF Pinned

-----------------------------------------------------------------------------
LEMMA FloorFacts ==
    /\ Floor \in Intervals
    /\ \A g \in Groups : Floor[g] \in Nat /\ Floor[g] >= 2 /\ Priority[g] \in 1..4
    /\ Stretchable \subseteq Groups
    /\ Sheddable \subseteq Groups
    /\ \A g \in Stretchable : Priority[g] > 2 /\ g \in Gated /\ g \notin Pinned
    /\ \A g \in Sheddable : Priority[g] >= 3 /\ g \in Gated
  BY FloorAssumption, PriorityAssumption, GroupsAssumption
     DEF Intervals, Stretchable, Sheddable

LEMMA EvenAtFloor ==
    \A g, h \in Groups : 2 * Floor[g] * Floor[h] <= 3 * Floor[h] * Floor[g]
  <1> SUFFICES ASSUME NEW g \in Groups, NEW h \in Groups
               PROVE  2 * Floor[g] * Floor[h] <= 3 * Floor[h] * Floor[g]
    OBVIOUS
  <1> DEFINE x == Floor[g]
             y == Floor[h]
  <1>1. x \in Nat /\ y \in Nat
    BY FloorFacts
  <1> HIDE DEF x, y
  <1>2. x * y \in Nat /\ x * y = y * x
    BY <1>1
  <1>3. 2 * x * y = 2 * (x * y) /\ 3 * y * x = 3 * (x * y)
    BY <1>1
  <1>4. 2 * x * y <= 3 * y * x
    BY <1>2, <1>3
  <1>5. QED
    BY <1>4 DEF x, y

LEMMA TypeInit == Init => TypeOK
  BY FloorFacts DEF Init, TypeOK, NoPlan

LEMMA InitOK == Init => IInv
  <1> SUFFICES ASSUME Init PROVE IInv
    OBVIOUS
  <1>1. TypeOK
    BY TypeInit
  <1>2. shed \subseteq Sheddable /\ Working
    BY DEF Init, Working
  <1>3. plan.interval = Floor /\ plan.shed = {} /\ plan.enabled = Groups /\ ~plan.solved
    BY DEF Init, NoPlan
  <1>4. IntervalBounds /\ AvailabilityContract /\ DisabledKeepsFloor /\ LessImportantFirst
    BY <1>3, FloorFacts
       DEF IntervalBounds, AvailabilityContract, DisabledKeepsFloor, LessImportantFirst
  <1>5. EvenStretch
    BY <1>3, FloorFacts, EvenAtFloor DEF EvenStretch
  <1>6. QED
    BY <1>1, <1>2, <1>4, <1>5 DEF IInv, PlanSound

-----------------------------------------------------------------------------
(* While the plan is not published PlanSound cannot change. *)
LEMMA PlanUnchanged ==
    ASSUME PlanSound, plan' = plan
    PROVE  PlanSound'
  BY DEF PlanSound, IntervalBounds, AvailabilityContract, LessImportantFirst, EvenStretch,
         DisabledKeepsFloor, Cap

LEMMA BeginOK ==
    ASSUME IInv, NEW off \in SUBSET Toggled, NEW b \in Budgets, Begin(off, b)
    PROVE  IInv'
  <1> DEFINE start == [g \in Groups |-> InitialInterval(g)]
  <1>1. start \in Intervals
    BY FloorFacts, PinsAssumption DEF Intervals, InitialInterval
  <1>2. interval' = start /\ shed' = {} /\ plan' = plan /\ phase' = "stretching"
    BY DEF Begin
  <1>3. TypeOK'
    BY <1>1, <1>2, BudgetsAssumption DEF IInv, TypeOK, Begin
  <1>4. \A g \in Groups : g \notin Pinned => interval'[g] = Floor[g]
    BY <1>2 DEF InitialInterval
  <1>5. \A g \in Pinned : interval'[g] = Pins[g]
    BY <1>2, PinsAssumption DEF InitialInterval
  <1>6. PinsKept' /\ StretchedOnly'
    BY <1>4, <1>5, FloorFacts DEF PinsKept, StretchedOnly
  <1>7. OrderKept'
    BY <1>4, FloorFacts DEF OrderKept
  <1>8. EvenKept'
    BY <1>4, FloorFacts, EvenAtFloor DEF EvenKept
  <1>9. PlanSound'
    BY <1>2, PlanUnchanged DEF IInv
  <1>10. QED
    BY <1>2, <1>3, <1>6, <1>7, <1>8, <1>9 DEF IInv, Working

-----------------------------------------------------------------------------
LEMMA StretchOK ==
    ASSUME IInv, NEW g \in Groups, Stretch(g)
    PROVE  IInv'
  <1>1. /\ phase = "stretching" /\ phase' = phase
        /\ enabled' = enabled /\ shed' = shed /\ plan' = plan /\ target' = target
        /\ interval' = [interval EXCEPT ![g] = StretchStep(g)]
        /\ g \in Stretchable /\ g \in enabled /\ interval[g] < Cap(g)
        /\ \A h \in Stretchable : h \in enabled /\ interval[h] < Cap(h) => Before(g, h)
    BY DEF Stretch, Candidates
  <1>2. interval \in Intervals /\ PinsKept /\ StretchedOnly /\ OrderKept /\ EvenKept
    BY <1>1 DEF IInv, TypeOK, Working
  <1>3. g \notin Pinned /\ interval[g] >= Floor[g]
    BY <1>1, <1>2, FloorFacts DEF StretchedOnly
  <1> DEFINE s == StretchStep(g)
  <1>4. s \in Nat \ {0} /\ s >= interval[g] /\ s <= Cap(g) /\ 2 * s <= 3 * interval[g]
    BY <1>1, <1>2, <1>3, StretchStepBounds
  <1> HIDE DEF s
  <1>5. /\ interval' \in Intervals /\ interval'[g] = s
        /\ \A h \in Groups : h # g => interval'[h] = interval[h]
    BY <1>1, <1>2, <1>4 DEF Intervals, s
  <1>6. TypeOK'
    BY <1>1, <1>5 DEF IInv, TypeOK
  <1>7. \A h \in Groups : interval[h] \in Nat \ {0} /\ Cap(h) \in Nat
    BY <1>2, FloorAssumption, CapAssumption DEF Intervals, Cap, Lesser
  <1>8. PinsKept'
    BY <1>2, <1>3, <1>5, PinsAssumption DEF PinsKept
  <1>9. StretchedOnly'
    <2> SUFFICES ASSUME NEW h \in Groups \ Pinned
                 PROVE  /\ interval'[h] >= Floor[h]
                        /\ interval'[h] # Floor[h] =>
                              h \in Stretchable /\ h \in enabled' /\ interval'[h] <= Cap(h)
      BY DEF StretchedOnly, Cap
    <2>1. CASE h = g
      BY <2>1, <1>1, <1>3, <1>4, <1>5, <1>7, FloorFacts
    <2>2. CASE h # g
      BY <2>2, <1>1, <1>2, <1>5 DEF StretchedOnly
    <2>3. QED
      BY <2>1, <2>2
  <1>10. OrderKept'
    <2> SUFFICES ASSUME NEW a \in Stretchable, NEW h \in Stretchable,
                        a \in enabled, h \in enabled, Priority[h] > Priority[a],
                        interval'[a] > Floor[a]
                 PROVE  interval'[h] >= Cap(h)
      BY <1>1 DEF OrderKept, Cap
    <2>1. a \in Groups /\ h \in Groups /\ a # h
      BY FloorFacts
    <2>2. CASE a = g
      <3>1. ~Before(g, h)
        BY <2>1, <2>2, FloorFacts DEF Before
      <3>2. interval[h] >= Cap(h)
        BY <3>1, <2>1, <1>1, <1>7
      <3>3. QED
        BY <3>2, <2>1, <2>2, <1>5
    <2>3. CASE a # g
      <3>1. interval[h] >= Cap(h)
        BY <2>1, <2>3, <1>2, <1>5 DEF OrderKept
      <3>2. h # g
        BY <3>1, <1>1, <1>7
      <3>3. QED
        BY <3>1, <3>2, <2>1, <1>5
    <2>4. QED
      BY <2>2, <2>3
  <1>11. EvenKept'
    <2> SUFFICES ASSUME NEW a \in Stretchable, NEW h \in Stretchable,
                        a \in enabled, h \in enabled, Priority[a] = Priority[h],
                        interval'[h] < Cap(h)
                 PROVE  2 * interval'[a] * Floor[h] <= 3 * interval'[h] * Floor[a]
      BY <1>1 DEF EvenKept, Cap
    <2> DEFINE ia == interval[a]
               ih == interval[h]
               fa == Floor[a]
               fh == Floor[h]
    <2>1. a \in Groups /\ h \in Groups
      BY FloorFacts
    <2>2. ia \in Nat /\ ih \in Nat /\ fa \in Nat /\ fh \in Nat /\ s \in Nat
      BY <2>1, <1>4, <1>7, FloorFacts
    <2>3. interval[h] < Cap(h)
      BY <2>1, <1>1, <1>5
    <2>4. CASE a = g /\ h # g
      <3>1. Before(g, h)
        BY <2>3, <1>1
      <3>2. ia * fh <= ih * fa
        BY <3>1, <2>2, <2>4, <2>1, FloorFacts DEF Before, LessStretched, EquallyStretched
      <3>3. (2 * s) * fh <= (3 * ia) * fh
        BY <2>2, <2>4, <1>4, MulMonotone
      <3>4. (3 * ia) * fh = 3 * (ia * fh) /\ (3 * ih) * fa = 3 * (ih * fa)
        BY <2>2
      <3>5. ia * fh \in Nat /\ ih * fa \in Nat /\ (2 * s) * fh \in Nat
        BY <2>2
      <3>6. (2 * s) * fh <= (3 * ih) * fa
        BY <3>2, <3>3, <3>4, <3>5
      <3>7. QED
        BY <3>6, <2>1, <2>4, <1>5
    <2>5. CASE a # g /\ h = g
      <3>1. (2 * ia) * fh <= (3 * ih) * fa
        BY <2>3, <1>2 DEF EvenKept
      <3>2. (3 * ih) * fa <= (3 * s) * fa
        BY <2>2, <2>5, <1>4, MulMonotone
      <3>3. (2 * ia) * fh \in Nat /\ (3 * ih) * fa \in Nat /\ (3 * s) * fa \in Nat
        BY <2>2
      <3>4. (2 * ia) * fh <= (3 * s) * fa
        BY <3>1, <3>2, <3>3
      <3>5. QED
        BY <3>4, <2>1, <2>5, <1>5
    <2>6. CASE a = g /\ h = g
      <3>1. (2 * s) * fh <= (3 * s) * fh
        BY <2>2, MulMonotone
      <3>2. QED
        BY <3>1, <2>6, <1>5
    <2>7. CASE a # g /\ h # g
      BY <2>1, <2>3, <2>7, <1>2, <1>5 DEF EvenKept
    <2>8. QED
      BY <2>4, <2>5, <2>6, <2>7
  <1>12. PlanSound'
    BY <1>1, PlanUnchanged DEF IInv
  <1>13. QED
    BY <1>1, <1>6, <1>8, <1>9, <1>10, <1>11, <1>12 DEF IInv, Working

-----------------------------------------------------------------------------
(* The working facts hold on as long as the working copy does not change. *)
LEMMA WorkingUnchanged ==
    ASSUME Working, phase # "idle", interval' = interval, enabled' = enabled
    PROVE  Working'
  BY DEF Working, PinsKept, StretchedOnly, OrderKept, EvenKept, Cap

LEMMA StretchEndOK == ASSUME IInv, StretchEnd PROVE IInv'
  <1>1. TypeOK' /\ shed' \subseteq Sheddable
    BY DEF IInv, TypeOK, StretchEnd
  <1>2. Working'
    BY WorkingUnchanged DEF IInv, StretchEnd
  <1>3. PlanSound'
    BY PlanUnchanged DEF IInv, StretchEnd
  <1>4. QED
    BY <1>1, <1>2, <1>3 DEF IInv

LEMMA ShedOK == ASSUME IInv, NEW g \in Groups, Shed(g) PROVE IInv'
  <1>1. TypeOK' /\ shed' \subseteq Sheddable
    BY DEF IInv, TypeOK, Shed
  <1>2. Working'
    BY WorkingUnchanged DEF IInv, Shed
  <1>3. PlanSound'
    BY PlanUnchanged DEF IInv, Shed
  <1>4. QED
    BY <1>1, <1>2, <1>3 DEF IInv

LEMMA PublishOK == ASSUME IInv, Publish PROVE IInv'
  <1>1. /\ plan'.interval = interval /\ plan'.shed = shed /\ plan'.enabled = enabled
        /\ phase = "shedding" /\ phase' = "idle"
        /\ interval' = interval /\ shed' = shed /\ enabled' = enabled /\ target' = target
    BY DEF Publish
  <1>2. TypeOK'
    BY <1>1 DEF IInv, TypeOK, Publish
  <1>3. /\ shed \subseteq Sheddable /\ interval \in Intervals
        /\ PinsKept /\ StretchedOnly /\ OrderKept /\ EvenKept
    BY <1>1 DEF IInv, Working, TypeOK
  <1>4. \A g \in Groups : g \notin Pinned =>
            /\ interval[g] \in Nat /\ interval[g] >= Floor[g]
            /\ interval[g] = Floor[g] \/ interval[g] <= Cap(g)
    BY <1>3 DEF StretchedOnly, Intervals
  <1>5. IntervalBounds'
    BY <1>1, <1>3, <1>4 DEF IntervalBounds, PinsKept, Cap
  <1>6. AvailabilityContract'
    BY <1>1, <1>3, FloorFacts DEF AvailabilityContract, StretchedOnly
  <1>7. LessImportantFirst' /\ EvenStretch'
    BY <1>1, <1>3 DEF LessImportantFirst, EvenStretch, OrderKept, EvenKept, Cap
  <1>8. DisabledKeepsFloor'
    BY <1>1, <1>3 DEF DisabledKeepsFloor, StretchedOnly
  <1>9. QED
    BY <1>1, <1>2, <1>3, <1>5, <1>6, <1>7, <1>8 DEF IInv, Working, PlanSound

-----------------------------------------------------------------------------
LEMMA StutterOK == ASSUME IInv, UNCHANGED vars PROVE IInv'
  <1>1. TypeOK' /\ shed' \subseteq Sheddable
    BY DEF IInv, TypeOK, vars
  <1>2. Working'
    BY DEF IInv, vars, Working, PinsKept, StretchedOnly, OrderKept, EvenKept, Cap
  <1>3. PlanSound'
    BY PlanUnchanged DEF IInv, vars
  <1>4. QED
    BY <1>1, <1>2, <1>3 DEF IInv

LEMMA Inductive == Spec => []IInv
  <1>1. IInv /\ [Next]_vars => IInv'
    <2> SUFFICES ASSUME IInv, [Next]_vars PROVE IInv'
      OBVIOUS
    <2>1. ASSUME NEW off \in SUBSET Toggled, NEW b \in Budgets, Begin(off, b) PROVE IInv'
      BY <2>1, BeginOK
    <2>2. ASSUME NEW g \in Groups, Stretch(g) PROVE IInv'
      BY <2>2, StretchOK
    <2>3. ASSUME NEW g \in Groups, Shed(g) PROVE IInv'
      BY <2>3, ShedOK
    <2>4. CASE StretchEnd
      BY <2>4, StretchEndOK
    <2>5. CASE Publish
      BY <2>5, PublishOK
    <2>6. CASE UNCHANGED vars
      BY <2>6, StutterOK
    <2>7. QED
      BY <2>1, <2>2, <2>3, <2>4, <2>5, <2>6 DEF Next, Work
  <1>2. QED
    BY <1>1, InitOK, PTL DEF Spec

(* Intervals are positive and every set in the state is one of groups, for    *)
(* every sequence of calls of resolve().                                      *)
THEOREM TypeCorrect == Spec => []TypeOK
  BY Inductive, PTL DEF IInv

(* A pin is honoured exactly; any other interval of a published plan lies     *)
(* between the floor and the larger of floor and cap.                         *)
THEOREM BoundsHold == Spec => []IntervalBounds
  BY Inductive, PTL DEF IInv, PlanSound

(* No budget, however small, makes resolve() stretch or shed a group of       *)
(* priority 1 or 2 or an ungated one.                                         *)
THEOREM AvailabilityHolds == Spec => []AvailabilityContract
  BY Inductive, PTL DEF IInv, PlanSound

(* A class is stretched only once the less important ones are at their cap.   *)
THEOREM PriorityOrderHolds == Spec => []LessImportantFirst
  BY Inductive, PTL DEF IInv, PlanSound

(* Both together: a plan favours what is important (solve_intervals).         *)
THEOREM PrioritiesHold == Spec => []PrioritiesKept
  BY Inductive, PTL DEF IInv, PlanSound, PrioritiesKept

(* Within a class no group is stretched more than one step beyond another     *)
(* that could still be stretched.                                             *)
THEOREM FairnessHolds == Spec => []EvenStretch
  BY Inductive, PTL DEF IInv, PlanSound

(* The interval of a group the shape disables does not move.                  *)
THEOREM DisabledHolds == Spec => []DisabledKeepsFloor
  BY Inductive, PTL DEF IInv, PlanSound
-----------------------------------------------------------------------------
(* The two loops of resolve().  What a plan demands is a sum, whatever the    *)
(* order in which MapThenSumSet takes the groups.                             *)
GroupRates(e, i) == [g \in Groups |-> Rate(e, i, g)]

LEMMA RateIsNat ==
    ASSUME NEW e, NEW i \in Intervals, NEW g \in Groups
    PROVE  Rate(e, i, g) \in Nat
<1>1. Cost[g] * Scale \in Nat /\ i[g] \in Nat \ {0}
  BY CostAssumption DEF Intervals
<1> DEFINE c == Cost[g] * Scale
<1> HIDE DEF c
<1>2. c \div i[g] \in Nat
  BY <1>1 DEF c
<1> QED  BY <1>2 DEF Rate, c

LEMMA DemandIsSum ==
    ASSUME NEW e, NEW i \in Intervals, NEW s \in SUBSET Groups
    PROVE  Demand(e, i, s) = Sum(GroupRates(e, i), s)
<1> DEFINE w == [g \in s |-> Rate(e, i, g)]
           Folds(f) == f = [t \in SUBSET s |->
                               IF t = {} THEN 0
                               ELSE Rate(e, i, CHOOSE x \in t : TRUE)
                                    + f[t \ {CHOOSE x \in t : TRUE}]]
           f0 == CHOOSE f : Folds(f)
           sums == [t \in SUBSET s |-> Sum(w, t)]
<1>1. Demand(e, i, s) = f0[s]
  BY DEF Demand, MapThenSumSet, MapThenFoldSet
<1>2. IsFiniteSet(s) /\ w \in [s -> Nat]
  BY GroupsAssumption, FS_Subset, RateIsNat
<1>3. Folds(sums)
  <2>1. ASSUME NEW t \in SUBSET s, t # {}
        PROVE  sums[t] = w[CHOOSE x \in t : TRUE] + sums[t \ {CHOOSE x \in t : TRUE}]
    <3> DEFINE x == CHOOSE x \in t : TRUE
    <3>1. x \in t /\ t \ {x} \in SUBSET s
      BY <2>1
    <3> HIDE DEF x, w
    <3>2. Sum(w, t) = w[x] + Sum(w, t \ {x})
      BY <1>2, <3>1, SumFacts
    <3> QED  BY <3>1, <3>2 DEF x
  <2>2. sums[{}] = 0
    <3> HIDE DEF w
    <3> QED  BY <1>2, SumFacts
  <2>3. \A t \in SUBSET s :
            sums[t] = IF t = {} THEN 0
                      ELSE Rate(e, i, CHOOSE x \in t : TRUE) + sums[t \ {CHOOSE x \in t : TRUE}]
    <3> HIDE DEF sums
    <3> QED  BY <2>1, <2>2
  <2> QED  BY <2>3
<1>4. Folds(f0)
  <2> HIDE DEF Folds
  <2> QED  BY <1>3
<1>5. f0[{}] = 0 /\ \A t \in SUBSET s : t # {} => \E x \in t : f0[t] = w[x] + f0[t \ {x}]
  <2> HIDE DEF f0
  <2> QED  BY <1>4
<1>6. f0[s] = Sum(w, s)
  <2> HIDE DEF f0, w
  <2> QED  BY <1>2, <1>5, SumByElements
<1>7. Sum(w, s) = Sum(GroupRates(e, i), s)
  BY DEF Sum, Area, GroupRates
<1> QED  BY <1>1, <1>6, <1>7

(* More groups demand no less, and without a group what is left demands less  *)
(* by its rate.                                                               *)
LEMMA DemandGrows ==
    ASSUME NEW e, NEW i \in Intervals, NEW s \in SUBSET Groups
    PROVE  /\ Demand(e, i, s) \in Nat
           /\ \A r \in SUBSET s : Demand(e, i, r) <= Demand(e, i, s)
<1>1. GroupRates(e, i) \in [Groups -> Nat]
  BY RateIsNat DEF GroupRates
<1>2. /\ Sum(GroupRates(e, i), s) \in Nat
      /\ \A r \in SUBSET s : Sum(GroupRates(e, i), r) <= Sum(GroupRates(e, i), s)
  BY <1>1, SumFacts, GroupsAssumption
<1> QED  BY <1>2, DemandIsSum

LEMMA DemandOfOne ==
    ASSUME NEW e, NEW i \in Intervals, NEW s \in SUBSET Groups, NEW g \in s
    PROVE  Demand(e, i, s) = Rate(e, i, g) + Demand(e, i, s \ {g})
<1>1. GroupRates(e, i) \in [Groups -> Nat] /\ GroupRates(e, i)[g] = Rate(e, i, g)
  BY RateIsNat DEF GroupRates
<1>2. Sum(GroupRates(e, i), s) = GroupRates(e, i)[g] + Sum(GroupRates(e, i), s \ {g})
  BY <1>1, SumFacts, GroupsAssumption
<1>3. Demand(e, i, s \ {g}) = Sum(GroupRates(e, i), s \ {g})
  BY DemandIsSum
<1> QED  BY <1>1, <1>2, <1>3, DemandIsSum

(* What a plan owes to the two loops: e is what was enabled, i the intervals, *)
(* s what was shed, t the target.                                             *)
AllCapped(e, i) == \A g \in Stretchable \cap e : i[g] >= Cap(g)

Exhausted(e, i, t) == Mode = "adaptive" /\ Demand(e, i, Groups) > t => AllCapped(e, i)

ShedInOrder(s) == \A g \in s, h \in Sheddable : ShedBefore(h, g) => h \in s

LastNeeded(e, i, s, t) ==
    s # {} =>
        \E g \in s :
            /\ \A h \in s : ShedBefore(h, g)
            /\ Demand(e, i, Groups \ s) + Rate(e, i, g) > t

Justified(e, i, s, t) ==
    /\ Exhausted(e, i, t)
    /\ Mode = "adaptive" /\ s # {} => AllCapped(e, i)
    /\ ShedInOrder(s)
    /\ LastNeeded(e, i, s, t)

FitInv ==
    /\ phase = "stretching" => shed = {}
    /\ phase = "shedding" => Justified(enabled, interval, shed, target)
    /\ plan.solved =>
          /\ Justified(plan.enabled, plan.interval, plan.shed, plan.target)
          /\ KeptByPlan > plan.target => Sheddable \subseteq plan.shed

LEMMA ShedOrder ==
    \A g, h \in Groups :
        /\ ShedBefore(g, h) \/ ShedBefore(h, g)
        /\ ShedBefore(g, h) /\ ShedBefore(h, g) => g = h
  BY PriorityAssumption, RankAssumption DEF ShedBefore

LEMMA FitBegins == Init => FitInv
  BY DEF Init, FitInv, NoPlan

LEMMA FitShed ==
    ASSUME IInv, FitInv, NEW g \in Groups, Shed(g)
    PROVE  Justified(enabled, interval, shed, target)'
<1> DEFINE s == shed \cup {g}
<1>1. /\ g \in Sheddable /\ g \notin shed /\ shed \subseteq Sheddable
      /\ \A h \in Sheddable \ shed : ShedBefore(g, h)
      /\ enabled' = enabled /\ interval' = interval /\ target' = target /\ shed' = s
      /\ Justified(enabled, interval, shed, target)
      /\ Demand(enabled, interval, Groups \ shed) > target
  BY DEF Shed, Unaffordable, Kept, FitInv, IInv
<1>2. /\ interval \in Intervals /\ target \in Nat
      /\ shed \subseteq Groups /\ Sheddable \subseteq Groups
  BY FloorFacts DEF IInv, TypeOK
<1>3. ShedInOrder(s)
  <2> SUFFICES ASSUME NEW x \in s, NEW h \in Sheddable, ShedBefore(h, x), h \notin shed
               PROVE  h = g
    BY DEF ShedInOrder
  <2>1. x = g
    BY <1>1 DEF Justified, ShedInOrder
  <2> QED  BY <1>1, <1>2, <2>1, ShedOrder
<1>4. LastNeeded(enabled, interval, s, target)
  <2>1. \A h \in s : ShedBefore(h, g)
    BY <1>1, <1>2, ShedOrder DEF Justified, ShedInOrder
  <2>2. Demand(enabled, interval, Groups \ shed)
        = Rate(enabled, interval, g) + Demand(enabled, interval, (Groups \ shed) \ {g})
    BY <1>1, <1>2, DemandOfOne
  <2>3. (Groups \ shed) \ {g} = Groups \ s
    OBVIOUS
  <2>4. Demand(enabled, interval, Groups \ s) \in Nat /\ Rate(enabled, interval, g) \in Nat
    BY <1>2, DemandGrows, RateIsNat
  <2>5. Demand(enabled, interval, Groups \ s) + Rate(enabled, interval, g) > target
    <3>1. \A d, r \in Nat : r + d > target => d + r > target
      BY <1>2
    <3> QED  BY <1>1, <2>2, <2>3, <2>4, <3>1
  <2> QED  BY <2>1, <2>5 DEF LastNeeded
<1>5. Mode = "adaptive" => AllCapped(enabled, interval)
  <2>1. CASE shed # {}
    BY <1>1, <2>1 DEF Justified
  <2>2. CASE shed = {}
    <3>1. Demand(enabled, interval, Groups) > target
      BY <1>1, <2>2
    <3> QED  BY <1>1, <3>1 DEF Justified, Exhausted
  <2> QED  BY <2>1, <2>2
<1>6. Justified(enabled, interval, s, target)
  <2> HIDE DEF s
  <2> QED  BY <1>1, <1>3, <1>4, <1>5 DEF Justified
<1> QED  BY <1>1, <1>6

LEMMA FitStep ==
    ASSUME IInv, FitInv, [Next]_vars
    PROVE  FitInv'
<1> USE DEF FitInv
<1>1. ASSUME NEW off \in SUBSET Toggled, NEW b \in Budgets, Begin(off, b) PROVE FitInv'
  BY <1>1 DEF Begin, KeptByPlan
<1>2. ASSUME NEW g \in Groups, Stretch(g) PROVE FitInv'
  BY <1>2 DEF Stretch, KeptByPlan
<1>3. ASSUME NEW g \in Groups, Shed(g) PROVE FitInv'
  <2>1. plan' = plan /\ phase' = "shedding"
    BY <1>3 DEF Shed
  <2>2. KeptByPlan' = KeptByPlan
    BY <2>1 DEF KeptByPlan
  <2>3. Justified(plan.enabled, plan.interval, plan.shed, plan.target)'
        <=> Justified(plan.enabled, plan.interval, plan.shed, plan.target)
    BY <2>1
  <2> QED  BY <1>3, <2>1, <2>2, <2>3, FitShed
<1>4. CASE StretchEnd
  <2>1. /\ phase' = "shedding" /\ shed' = {} /\ shed = {} /\ plan' = plan
        /\ enabled' = enabled /\ interval' = interval /\ target' = target
        /\ ~MayStretch \/ Candidates = {}
    BY <1>4 DEF StretchEnd
  <2>2. Exhausted(enabled, interval, target)
    <3> SUFFICES ASSUME Mode = "adaptive", Demand(enabled, interval, Groups) > target,
                        NEW g \in Stretchable \cap enabled
                 PROVE  interval[g] >= Cap(g)
      BY DEF Exhausted, AllCapped
    <3>1. ~(interval[g] < Cap(g))
      BY <2>1 DEF MayStretch, Candidates
    <3>2. interval[g] \in Int /\ Cap(g) \in Int
      BY FloorFacts, CapAssumption DEF IInv, TypeOK, Intervals, Cap, Lesser
    <3> QED  BY <3>1, <3>2
  <2>3. Justified(enabled, interval, {}, target)
    BY <2>2 DEF Justified, ShedInOrder, LastNeeded
  <2> QED  BY <2>1, <2>3 DEF KeptByPlan
<1>5. CASE Publish
  <2>1. /\ phase' = "idle" /\ Justified(enabled, interval, shed, target)
        /\ plan'.enabled = enabled /\ plan'.interval = interval
        /\ plan'.shed = shed /\ plan'.target = target
        /\ ~(Demand(enabled, interval, Groups \ shed) > target) \/ Sheddable \subseteq shed
    BY <1>5 DEF Publish, Unaffordable, Kept
  <2> QED  BY <2>1 DEF KeptByPlan
<1>6. CASE UNCHANGED vars
  BY <1>6 DEF vars, KeptByPlan
<1> QED  BY <1>1, <1>2, <1>3, <1>4, <1>5, <1>6 DEF Next, Work

LEMMA FitPromised ==
    ASSUME IInv, FitInv
    PROVE  FitsOrExhausted
<1> SUFFICES ASSUME plan.solved
             PROVE  /\ KeptByPlan > plan.target => Sheddable \subseteq plan.shed
                    /\ Mode = "adaptive" /\ plan.shed # {} => AllCapped(plan.enabled, plan.interval)
                    /\ \A g \in plan.shed, h \in Sheddable :
                          Priority[h] > Priority[g] => h \in plan.shed
                    /\ plan.shed # {} =>
                          \E g \in plan.shed :
                              /\ \A h \in plan.shed : Priority[g] <= Priority[h]
                              /\ KeptByPlan + Rate(plan.enabled, plan.interval, g) > plan.target
  BY DEF FitsOrExhausted, AllCapped
<1>1. Justified(plan.enabled, plan.interval, plan.shed, plan.target)
  BY DEF FitInv
<1>2. \A g, h \in Groups : /\ Priority[g] \in Int /\ Priority[h] \in Int
                           /\ Priority[h] > Priority[g] => ShedBefore(h, g)
                           /\ ShedBefore(h, g) => Priority[g] <= Priority[h]
  BY PriorityAssumption DEF ShedBefore
<1>3. plan.shed \subseteq Groups /\ Sheddable \subseteq Groups
  BY FloorFacts DEF IInv, TypeOK
<1>4. \A g \in plan.shed, h \in Sheddable : Priority[h] > Priority[g] => h \in plan.shed
  BY <1>1, <1>2, <1>3 DEF Justified, ShedInOrder
<1>5. ASSUME plan.shed # {}
      PROVE  \E g \in plan.shed :
                 /\ \A h \in plan.shed : Priority[g] <= Priority[h]
                 /\ KeptByPlan + Rate(plan.enabled, plan.interval, g) > plan.target
  <2>1. PICK g \in plan.shed :
            /\ \A h \in plan.shed : ShedBefore(h, g)
            /\ Demand(plan.enabled, plan.interval, Groups \ plan.shed)
               + Rate(plan.enabled, plan.interval, g) > plan.target
    BY <1>1, <1>5 DEF Justified, LastNeeded
  <2> QED  BY <1>2, <1>3, <2>1 DEF KeptByPlan
<1> QED  BY <1>1, <1>4, <1>5 DEF FitInv, Justified

LEMMA FitInductive == Spec => []FitInv
<1>1. IInv /\ FitInv /\ [Next]_vars => FitInv'
  BY FitStep
<1> QED  BY <1>1, FitBegins, Inductive, PTL DEF Spec

(* A plan fits the target once all that may give has given, and sheds no more *)
(* than it must, the less important first (resolve).                          *)
THEOREM FitsHold == Spec => []FitsOrExhausted
  BY FitInductive, Inductive, FitPromised, PTL

-----------------------------------------------------------------------------
(* Back-pressure.  From the initial intervals the stretch loop goes one way,  *)
(* whatever the target is; the target only says how far.  Onward is a pass of *)
(* that loop, Path what it may reach from i: the smallest set that has i and  *)
(* all that a pass leads to.                                                  *)
Below(e, i) == {g \in Stretchable : g \in e /\ i[g] < Cap(g)}

First(i, g, h) ==
    \/ Priority[g] > Priority[h]
    \/ /\ Priority[g] = Priority[h]
       /\ \/ i[g] * Floor[h] < i[h] * Floor[g]
          \/ i[g] * Floor[h] = i[h] * Floor[g] /\ Rank[g] <= Rank[h]

Onward(e, t, i, j) ==
    /\ Mode = "adaptive" /\ Demand(e, i, Groups) > t
    /\ \E g \in Below(e, i) :
          /\ \A h \in Below(e, i) : First(i, g, h)
          /\ j = [i EXCEPT ![g] = Lesser((i[g] * 3) \div 2, Cap(g))]

Closed(C, e, t) == \A i \in C, j \in Intervals : Onward(e, t, i, j) => j \in C

Path(e, t, i) ==
    {j \in Intervals : \A C \in SUBSET Intervals : i \in C /\ Closed(C, e, t) => j \in C}

AtFirst == [g \in Groups |-> InitialInterval(g)]

PathInv ==
    /\ phase # "idle" => interval \in Path(enabled, target, AtFirst)
    /\ plan.solved => plan.interval \in Path(plan.enabled, plan.target, AtFirst)

LEMMA FirstIsOne ==
    ASSUME NEW i \in Intervals, NEW g \in Groups, NEW h \in Groups,
           First(i, g, h), First(i, h, g)
    PROVE  g = h
<1> DEFINE a == i[g] * Floor[h]
           b == i[h] * Floor[g]
<1>1. a \in Nat /\ b \in Nat
  BY FloorFacts DEF Intervals
<1>2. First(i, g, h) <=> \/ Priority[g] > Priority[h]
                         \/ Priority[g] = Priority[h] /\ (a < b \/ (a = b /\ Rank[g] <= Rank[h]))
  BY DEF First
<1>3. First(i, h, g) <=> \/ Priority[h] > Priority[g]
                         \/ Priority[h] = Priority[g] /\ (b < a \/ (b = a /\ Rank[h] <= Rank[g]))
  BY DEF First
<1> HIDE DEF a, b
<1> QED  BY <1>1, <1>2, <1>3, PriorityAssumption, RankAssumption

(* A pass leads to one place, and up. *)
LEMMA OnwardFacts ==
    ASSUME NEW e, NEW t, NEW i \in Intervals, NEW j, Onward(e, t, i, j)
    PROVE  /\ j \in Intervals
           /\ \A g \in Groups : i[g] <= j[g]
           /\ \A k : Onward(e, t, i, k) => k = j
<1>1. PICK g \in Below(e, i) :
          /\ \A h \in Below(e, i) : First(i, g, h)
          /\ j = [i EXCEPT ![g] = Lesser((i[g] * 3) \div 2, Cap(g))]
  BY DEF Onward
<1>2. g \in Groups /\ Below(e, i) \subseteq Groups /\ i[g] < Cap(g)
  BY FloorFacts DEF Below
<1>3. i[g] \in Nat /\ i[g] > 0 /\ Cap(g) \in Nat
  BY <1>2, FloorFacts, CapAssumption DEF Intervals, Cap, Lesser
<1>4. Lesser((i[g] * 3) \div 2, Cap(g)) \in Nat \ {0} /\ Lesser((i[g] * 3) \div 2, Cap(g)) >= i[g]
  <2> DEFINE x == i[g]
             c == Cap(g)
             s == (x * 3) \div 2
  <2>1. x \in Nat /\ x > 0 /\ c \in Nat /\ x < c
    BY <1>2, <1>3
  <2> HIDE DEF x, c
  <2>2. s \in Nat /\ s >= x
    BY <2>1
  <2> HIDE DEF s
  <2>3. Lesser(s, c) \in Nat \ {0} /\ Lesser(s, c) >= x
    BY <2>1, <2>2 DEF Lesser
  <2> QED  BY <2>3 DEF x, c, s
<1>5. ASSUME NEW k, Onward(e, t, i, k)
      PROVE  k = j
  <2>1. PICK h \in Below(e, i) :
            /\ \A f \in Below(e, i) : First(i, h, f)
            /\ k = [i EXCEPT ![h] = Lesser((i[h] * 3) \div 2, Cap(h))]
    BY <1>5 DEF Onward
  <2>2. h = g
    BY <1>1, <1>2, <2>1, FirstIsOne
  <2> QED  BY <1>1, <2>1, <2>2
<1>6. j \in Intervals
  BY <1>1, <1>2, <1>4 DEF Intervals
<1>7. \A h \in Groups : i[h] <= j[h]
  BY <1>1, <1>2, <1>3, <1>4 DEF Intervals
<1> QED  BY <1>5, <1>6, <1>7

LEMMA AtFirstIn == AtFirst \in Intervals
  BY FloorFacts, PinsAssumption DEF AtFirst, InitialInterval, Intervals, Pinned

LEMMA PathBegins == ASSUME NEW e, NEW t PROVE AtFirst \in Path(e, t, AtFirst)
  BY AtFirstIn DEF Path

LEMMA PathGoesOn ==
    ASSUME NEW e, NEW t, NEW i \in Intervals, NEW j \in Path(e, t, i), NEW k, Onward(e, t, j, k)
    PROVE  k \in Path(e, t, i)
<1>1. j \in Intervals
  BY DEF Path
<1>2. k \in Intervals
  BY <1>1, OnwardFacts
<1>3. ASSUME NEW C \in SUBSET Intervals, i \in C, Closed(C, e, t)
      PROVE  k \in C
  <2>1. j \in C
    BY <1>3 DEF Path
  <2> QED  BY <1>2, <1>3, <2>1 DEF Closed
<1> QED  BY <1>2, <1>3 DEF Path

(* Where nothing is left to stretch, no pass leads on. *)
LEMMA NoneOnward ==
    ASSUME NEW e, NEW t, NEW i \in Intervals, Exhausted(e, i, t)
    PROVE  \A j : ~Onward(e, t, i, j)
<1>1. \A g \in Groups : i[g] \in Int /\ Cap(g) \in Int
  BY FloorFacts, CapAssumption DEF Intervals, Cap, Lesser
<1> QED  BY <1>1, FloorFacts DEF Exhausted, AllCapped, Onward, Below

(* Who stops for the smaller target has passed where the larger one stopped.  *)
LEMMA Passed ==
    ASSUME NEW e, NEW t \in Nat, NEW u \in Nat, u <= t,
           NEW y \in Path(e, t, AtFirst), NEW x \in Path(e, u, AtFirst),
           Exhausted(e, x, u)
    PROVE  \A g \in Groups : y[g] <= x[g]
<1>1. x \in Intervals /\ y \in Intervals
  BY DEF Path
<1>2. \A j : ~Onward(e, u, x, j)
  BY <1>1, NoneOnward
<1>3. ASSUME NEW i \in Intervals, NEW j, Onward(e, t, i, j)
      PROVE  Onward(e, u, i, j)
  <2>1. Demand(e, i, Groups) \in Nat
    BY DemandGrows
  <2>2. Demand(e, i, Groups) > t
    BY <1>3 DEF Onward
  <2>3. Demand(e, i, Groups) > u
    BY <2>1, <2>2
  <2> QED  BY <1>3, <2>3 DEF Onward
<1> DEFINE Prior == {z \in Intervals : x \in Path(e, u, z)}
<1>4. Closed(Prior, e, t)
  <2> SUFFICES ASSUME NEW z \in Intervals, x \in Path(e, u, z),
                      NEW w \in Intervals, Onward(e, t, z, w)
               PROVE  x \in Path(e, u, w)
    BY DEF Closed
  <2>1. Onward(e, u, z, w) /\ \A k : Onward(e, u, z, k) => k = w
    BY <1>3, OnwardFacts
  <2>2. x # z
    BY <1>2, <2>1
  <2>3. ASSUME NEW C \in SUBSET Intervals, w \in C, Closed(C, e, u)
        PROVE  x \in C
    <3>1. Closed(C \cup {z}, e, u)
      BY <2>1, <2>3 DEF Closed
    <3>2. x \in C \cup {z}
      BY <3>1 DEF Path
    <3> QED  BY <2>2, <3>2
  <2> QED  BY <1>1, <2>3 DEF Path
<1>5. AtFirst \in Prior
  BY AtFirstIn
<1>6. y \in Prior
  <2>1. Prior \in SUBSET Intervals
    OBVIOUS
  <2> HIDE DEF Prior
  <2> QED  BY <1>4, <1>5, <2>1 DEF Path
<1> DEFINE Above == {z \in Intervals : \A g \in Groups : y[g] <= z[g]}
<1>7. Closed(Above, e, u)
  <2> SUFFICES ASSUME NEW z \in Above, NEW w \in Intervals, Onward(e, u, z, w),
                      NEW g \in Groups
               PROVE  y[g] <= w[g]
    BY DEF Closed
  <2>1. y[g] <= z[g] /\ z[g] <= w[g]
    BY OnwardFacts
  <2>2. y[g] \in Nat /\ z[g] \in Nat /\ w[g] \in Nat
    BY <1>1 DEF Intervals
  <2> QED  BY <2>1, <2>2
<1>8. y \in Above
  BY <1>1 DEF Intervals
<1>9. x \in Above
  <2>1. x \in Path(e, u, y)
    BY <1>6
  <2>2. Above \in SUBSET Intervals
    OBVIOUS
  <2> HIDE DEF Above
  <2> QED  BY <1>7, <1>8, <2>1, <2>2 DEF Path
<1> QED  BY <1>9

LEMMA PathStep ==
    ASSUME IInv, PathInv, [Next]_vars
    PROVE  PathInv'
<1>0. interval \in Intervals
  BY DEF IInv, TypeOK
<1>1. ASSUME NEW off \in SUBSET Toggled, NEW b \in Budgets, Begin(off, b) PROVE PathInv'
  <2>1. interval' = AtFirst /\ plan' = plan
    BY <1>1 DEF Begin, AtFirst
  <2>2. AtFirst \in Path(enabled', target', AtFirst)
    BY PathBegins
  <2> QED  BY <2>1, <2>2 DEF PathInv
<1>2. ASSUME NEW g \in Groups, Stretch(g) PROVE PathInv'
  <2>1. /\ interval \in Path(enabled, target, AtFirst)
        /\ enabled' = enabled /\ target' = target /\ plan' = plan
        /\ interval' = [interval EXCEPT ![g] = StretchStep(g)]
    BY <1>2 DEF Stretch, PathInv
  <2>2. Onward(enabled, target, interval, interval')
    <3>1. g \in Candidates /\ \A h \in Candidates : Before(g, h)
      BY <1>2 DEF Stretch
    <3>2. Mode = "adaptive" /\ Demand(enabled, interval, Groups) > target
      BY <1>2 DEF Stretch, MayStretch
    <3>3. Candidates = Below(enabled, interval)
      BY DEF Candidates, Below
    <3>4. \A h \in Groups : Before(g, h) <=> First(interval, g, h)
      BY DEF Before, First, LessStretched, EquallyStretched
    <3>5. Below(enabled, interval) \subseteq Groups
      BY FloorFacts DEF Below
    <3>6. StretchStep(g) = Lesser((interval[g] * 3) \div 2, Cap(g))
      BY DEF StretchStep
    <3>7. \A h \in Below(enabled, interval) : First(interval, g, h)
      BY <3>1, <3>3, <3>4, <3>5
    <3> QED  BY <2>1, <3>1, <3>2, <3>3, <3>6, <3>7 DEF Onward
  <2>3. interval' \in Path(enabled, target, AtFirst)
    BY <2>1, <2>2, AtFirstIn, PathGoesOn
  <2> QED  BY <2>1, <2>3 DEF PathInv
<1>3. ASSUME NEW g \in Groups, Shed(g) PROVE PathInv'
  BY <1>3 DEF Shed, PathInv
<1>4. CASE StretchEnd
  BY <1>4 DEF StretchEnd, PathInv
<1>5. CASE Publish
  <2>1. /\ phase' = "idle" /\ interval \in Path(enabled, target, AtFirst)
        /\ plan'.enabled = enabled /\ plan'.interval = interval /\ plan'.target = target
    BY <1>5 DEF Publish, PathInv
  <2> QED  BY <2>1 DEF PathInv
<1>6. CASE UNCHANGED vars
  BY <1>6 DEF vars, PathInv
<1> QED  BY <1>1, <1>2, <1>3, <1>4, <1>5, <1>6 DEF Next, Work

(* Where the same intervals suit both targets, the smaller one sheds no less. *)
LEMMA ShedsNoFewer ==
    ASSUME NEW e, NEW i \in Intervals, NEW t \in Nat, NEW u \in Nat, u <= t,
           NEW s \in SUBSET Sheddable, NEW r \in SUBSET Sheddable,
           ShedInOrder(s), ShedInOrder(r), LastNeeded(e, i, s, t),
           Demand(e, i, Groups \ r) > u => Sheddable \subseteq r
    PROVE  s \subseteq r
<1> SUFFICES ASSUME NEW f \in s, f \notin r PROVE FALSE
  OBVIOUS
<1>1. PICK g \in s : /\ \A h \in s : ShedBefore(h, g)
                     /\ Demand(e, i, Groups \ s) + Rate(e, i, g) > t
  BY DEF LastNeeded
<1>2. Sheddable \subseteq Groups
  BY FloorFacts
<1>3. r \subseteq s \ {g}
  BY <1>1, <1>2, ShedOrder DEF ShedInOrder
<1>4. Demand(e, i, (Groups \ s) \cup {g}) <= Demand(e, i, Groups \ r)
  <2>1. (Groups \ s) \cup {g} \in SUBSET (Groups \ r)
    BY <1>2, <1>3
  <2> QED  BY <2>1, DemandGrows
<1>5. Demand(e, i, (Groups \ s) \cup {g}) = Rate(e, i, g) + Demand(e, i, Groups \ s)
  <2>1. ((Groups \ s) \cup {g}) \ {g} = Groups \ s /\ (Groups \ s) \cup {g} \in SUBSET Groups
    BY <1>1, <1>2
  <2>2. g \in (Groups \ s) \cup {g}
    OBVIOUS
  <2>3. Demand(e, i, (Groups \ s) \cup {g})
        = Rate(e, i, g) + Demand(e, i, ((Groups \ s) \cup {g}) \ {g})
    BY <2>1, <2>2, DemandOfOne
  <2> QED  BY <2>1, <2>3
<1>6. Demand(e, i, Groups \ r) > u
  <2> DEFINE a == Demand(e, i, Groups \ s)
             b == Rate(e, i, g)
             c == Demand(e, i, Groups \ r)
  <2>1. a \in Nat /\ c \in Nat /\ b \in Nat
    BY <1>2, DemandGrows, RateIsNat
  <2>2. b + a <= c /\ a + b > t
    BY <1>1, <1>4, <1>5
  <2> HIDE DEF a, b, c
  <2>3. c > u
    BY <2>1, <2>2
  <2> QED  BY <2>3 DEF c
<1> QED  BY <1>6

LEMMA BackPressureStep ==
    ASSUME IInv, FitInv, PathInv, [Next]_vars,
           plan' # plan, plan.solved, plan'.enabled = plan.enabled, plan'.target <= plan.target
    PROVE  /\ \A g \in Groups : plan'.interval[g] >= plan.interval[g]
           /\ plan.shed \subseteq plan'.shed
<1>1. Publish
  BY DEF Next, Work, Begin, Stretch, Shed, StretchEnd, vars
<1> DEFINE e == plan.enabled
           t == plan.target
           y == plan.interval
<1>2. /\ plan'.interval = interval /\ plan'.shed = shed /\ enabled = e /\ target <= t
      /\ Justified(e, interval, shed, target)
      /\ Demand(e, interval, Groups \ shed) > target => Sheddable \subseteq shed
      /\ interval \in Path(e, target, AtFirst)
  BY <1>1 DEF Publish, FitInv, PathInv, Unaffordable, Kept
<1>3. Justified(e, y, plan.shed, t) /\ y \in Path(e, t, AtFirst)
  BY DEF FitInv, PathInv
<1>4. /\ t \in Nat /\ target \in Nat /\ y \in Intervals /\ interval \in Intervals
      /\ shed \subseteq Sheddable /\ plan.shed \subseteq Groups
  BY DEF IInv, TypeOK
<1>5. \A g \in Groups : y[g] <= interval[g]
  <2> HIDE DEF e, t, y
  <2> QED  BY <1>2, <1>3, <1>4, Passed DEF Justified
<1>6. plan.shed \subseteq shed
  <2> SUFFICES ASSUME plan.shed # {} PROVE plan.shed \subseteq shed
    OBVIOUS
  <2>1. Exhausted(e, y, t) /\ Exhausted(e, y, target)
    BY <1>3 DEF Justified, Exhausted
  <2>2. y \in Path(e, target, AtFirst)
    <3>1. ASSUME NEW C \in SUBSET Intervals, Closed(C, e, target) PROVE Closed(C, e, t)
      <4>1. ASSUME NEW i \in Intervals, NEW j, Onward(e, t, i, j) PROVE Onward(e, target, i, j)
        <5>1. Demand(e, i, Groups) \in Nat
          BY DemandGrows
        <5>2. Demand(e, i, Groups) > t
          BY <4>1 DEF Onward
        <5>3. Demand(e, i, Groups) > target
          BY <1>2, <1>4, <5>1, <5>2
        <5> QED  BY <4>1, <5>3 DEF Onward
      <4> QED  BY <3>1, <4>1 DEF Closed
    <3> HIDE DEF e, t, y
    <3> QED  BY <1>3, <3>1 DEF Path
  <2>3. \A g \in Groups : interval[g] <= y[g]
    <3>1. target <= target
      BY <1>4
    <3> HIDE DEF e, t, y
    <3> QED  BY <1>2, <1>4, <2>1, <2>2, <3>1, Passed
  <2>4. interval = y
    <3>1. \A g \in Groups : interval[g] = y[g]
      BY <1>4, <1>5, <2>3 DEF Intervals
    <3> QED  BY <1>4, <3>1 DEF Intervals
  <2>5. plan.shed \subseteq Sheddable
    BY <1>4, PriorityAssumption DEF IInv, PlanSound, AvailabilityContract, Sheddable
  <2> HIDE DEF e, t, y
  <2>6. Justified(e, interval, plan.shed, t)
    BY <1>3, <2>4
  <2> QED  BY <1>2, <1>4, <2>5, <2>6, ShedsNoFewer DEF Justified
<1>7. \A g \in Groups : interval[g] >= y[g]
  BY <1>4, <1>5 DEF Intervals
<1> QED  BY <1>2, <1>6, <1>7

(* For the same shape a smaller budget slows groups down or leaves them, and  *)
(* sheds no fewer (resolve).                                                  *)
THEOREM BackPressureHolds == Spec => BackPressureMonotone
<1>1. Init => PathInv
  BY DEF Init, PathInv, NoPlan
<1>2. IInv /\ PathInv /\ [Next]_vars => PathInv'
  BY PathStep
<1>3. IInv /\ FitInv /\ PathInv /\ [Next]_vars
      => [plan.solved /\ plan'.enabled = plan.enabled /\ plan'.target <= plan.target =>
            /\ \A g \in Groups : plan'.interval[g] >= plan.interval[g]
            /\ plan.shed \subseteq plan'.shed]_plan
  BY BackPressureStep
<1> QED  BY <1>1, <1>2, <1>3, Inductive, FitInductive, PTL DEF Spec, BackPressureMonotone

-----------------------------------------------------------------------------
(* The rate limiter.  The lazily kept rate and buckets are compared with    *)
(* eager ones: the rate as it stands equals pace, and what a bucket would   *)
(* be refilled to at the configured rate is at most what the eager bucket   *)
(* spare[k] holds.                                                          *)

LEMMA LimiterMinOfTwo ==
    ASSUME NEW a \in Int, NEW b \in Int
    PROVE  /\ Limiter!Min({a, b}) \in {a, b}
           /\ Limiter!Min({a, b}) <= a /\ Limiter!Min({a, b}) <= b
<1>1. Limiter!Min({a, b}) = Min({a, b})
  BY DEF Limiter!Min, Min
<1> QED  BY <1>1, MinOfTwo

LEMMA LimiterMaxOfTwo ==
    ASSUME NEW a \in Int, NEW b \in Int
    PROVE  /\ Limiter!Max({a, b}) \in {a, b}
           /\ Limiter!Max({a, b}) >= a /\ Limiter!Max({a, b}) >= b
<1>1. Limiter!Max({a, b}) = Max({a, b})
  BY DEF Limiter!Max, Max
<1> QED  BY <1>1, MaxOfTwo

-----------------------------------------------------------------------------
Lower(a, b) == IF a <= b THEN a ELSE b
Higher(a, b) == IF a >= b THEN a ELSE b

LEMMA LowerIs == ASSUME NEW a \in Int, NEW b \in Int PROVE Limiter!Min({a, b}) = Lower(a, b)
  BY LimiterMinOfTwo DEF Lower

LEMMA HigherIs == ASSUME NEW a \in Int, NEW b \in Int
                  PROVE  Limiter!Max({a, b}) = Higher(a, b)
<1>1. Limiter!Max({a, b}) \in {a, b} /\ Limiter!Max({a, b}) >= a /\ Limiter!Max({a, b}) >= b
  BY LimiterMaxOfTwo
<1> QED  BY <1>1 DEF Higher

(* The constants, without the assumption's packing. *)
Numbers ==
    /\ One \in Nat /\ Burst \in Nat /\ One > 0 /\ Burst >= One
    /\ Conf \in Nat /\ Conf > 0 /\ FloorRate \in Nat /\ FloorRate > 0
    /\ Recovery \in Nat /\ Recovery > 0
    /\ Cooldown \in Nat /\ Cooldown > 0
    /\ AgeCap \in Nat /\ AgeCap >= Burst /\ AgeCap >= Conf

LEMMA SettingsHold == Numbers
  BY RatesAssumption DEF Numbers

LEMMA Grown ==
    ASSUME NEW x \in Nat, NEW k \in Nat, k > 0
    PROVE  x * k \in Nat /\ x * k >= x
<1>1. x * 1 <= x * k
  OBVIOUS
<1> QED  BY <1>1

(* The rate, the time it was last brought up to date, and the eager rate.    *)
Rates ==
    /\ effective \in Nat /\ effective > 0
    /\ updated \in Nat /\ updated <= AgeCap
    /\ throttled \in Nat /\ throttled <= Cooldown
    /\ pace \in Nat
    /\ Limiter!Effective = pace

(* effective_rate_per_second, with arithmetic in place of Min. *)
LEMMA EffectiveFacts ==
    ASSUME Numbers, effective \in Nat, effective > 0, updated \in Nat
    PROVE  /\ updated * Recovery \in Nat
           /\ updated > 0 => updated * Recovery >= updated
           /\ Limiter!Effective = IF updated > 0 /\ effective < Conf
                          THEN Lower(Conf, effective + updated * Recovery)
                          ELSE effective
           /\ Limiter!Effective \in Nat /\ Limiter!Effective > 0
           /\ Limiter!Effective >= effective
           /\ effective <= Conf => Limiter!Effective <= Conf
<1>1. Recovery \in Nat /\ Recovery >= 1 /\ Conf \in Nat /\ Conf > 0
  BY DEF Numbers
<1>2. updated * Recovery \in Nat /\ updated * Recovery >= updated
  BY <1>1
<1> DEFINE gained == updated * Recovery
<1>3. gained \in Nat /\ gained >= updated
  BY <1>2
<1>4. Limiter!Effective = IF updated > 0 /\ effective < Conf
                  THEN Limiter!Min({Conf, effective + gained}) ELSE effective
  BY DEF Limiter!Effective, Limiter!Recovering
<1> HIDE DEF gained
<1>5. Limiter!Min({Conf, effective + gained}) = Lower(Conf, effective + gained)
  BY <1>1, <1>3, LowerIs
<1>6. Limiter!Effective = IF updated > 0 /\ effective < Conf
                  THEN Lower(Conf, effective + gained) ELSE effective
  BY <1>4, <1>5
<1>7. Limiter!Effective \in Nat /\ Limiter!Effective > 0 /\ Limiter!Effective >= effective
      /\ (effective <= Conf => Limiter!Effective <= Conf)
  BY <1>1, <1>3, <1>6 DEF Lower
<1> QED  BY <1>2, <1>6, <1>7 DEF gained

(* Bringing the rate up to date does not change what it is.                  *)
LEMMA SettleKeeps ==
    ASSUME Rates, Limiter!Settle, pace' = pace
    PROVE  Rates'
<1>1. /\ Limiter!Effective \in Nat /\ Limiter!Effective > 0
      /\ Limiter!Effective = IF updated > 0 /\ effective < Conf
                     THEN Lower(Conf, effective + updated * Recovery)
                     ELSE effective
  BY SettingsHold, EffectiveFacts DEF Rates
<1>2. effective' \in Nat /\ effective' > 0 /\ effective' = pace
  BY <1>1 DEF Limiter!Settle, Rates
<1>3. updated' \in Nat /\ updated' <= AgeCap
  BY SettingsHold DEF Limiter!Settle, Rates, Numbers
<1>4. Limiter!Effective' = effective'
  <2>1. CASE Limiter!Recovering
    BY <2>1 DEF Limiter!Settle, Limiter!Effective, Limiter!Recovering
  <2>2. CASE ~Limiter!Recovering
    <3>1. effective' = effective /\ updated' = updated
      BY <2>2 DEF Limiter!Settle, Limiter!Effective
    <3> QED  BY <2>2, <3>1 DEF Limiter!Effective, Limiter!Recovering
  <2> QED  BY <2>1, <2>2
<1> QED  BY <1>2, <1>3, <1>4 DEF Limiter!Settle, Rates

(* A throttle event halves the lazy and the eager rate alike.                *)
LEMMA ThrottleKeeps ==
    ASSUME Rates, Limiter!Throttle
    PROVE  Rates'
<1>1. Limiter!Halved(pace) = Higher(FloorRate, pace \div 2)
  BY SettingsHold, HigherIs DEF Limiter!Halved, Rates, Numbers
<1>2. Limiter!Halved(pace) \in Nat /\ Limiter!Halved(pace) > 0
  <2>1. pace \div 2 \in Nat
    BY DEF Rates
  <2> QED  BY <1>1, <2>1, SettingsHold DEF Higher, Numbers
<1>3. /\ effective' = Limiter!Halved(pace) /\ pace' = Limiter!Halved(pace)
      /\ updated' = 0 /\ throttled' = 0
  BY DEF Limiter!Throttle, Rates
<1>4. Limiter!Effective' = effective'
  BY <1>3 DEF Limiter!Effective, Limiter!Recovering
<1> QED  BY <1>2, <1>3, <1>4, SettingsHold DEF Rates, Numbers

(* A tick adds to both rates what a tick of recovery is worth.               *)
LEMMA TickKeepsRates ==
    ASSUME Rates, Limiter!Tick
    PROVE  Rates'
<1>1. updated' = Lower(updated + 1, AgeCap) /\ throttled' = Lower(throttled + 1, Cooldown)
  BY SettingsHold, LowerIs DEF Limiter!Tick, Limiter!Older, Rates, Numbers
<1>2. updated' \in Nat /\ updated' <= AgeCap /\ updated' > 0
      /\ throttled' \in Nat /\ throttled' <= Cooldown
  BY <1>1, SettingsHold DEF Lower, Rates, Numbers
<1>3. pace' = IF pace < Conf THEN Lower(pace + Recovery, Conf) ELSE pace
  BY SettingsHold, LowerIs DEF Limiter!Tick, Rates, Numbers
<1>4. effective' = effective /\ effective \in Nat /\ effective > 0
  BY DEF Limiter!Tick, Rates
<1>5. /\ updated * Recovery \in Nat
      /\ Limiter!Effective = IF updated > 0 /\ effective < Conf
                     THEN Lower(Conf, effective + updated * Recovery)
                     ELSE effective
      /\ updated > 0 => updated * Recovery >= updated
  BY SettingsHold, EffectiveFacts DEF Rates
<1>6. /\ updated' * Recovery \in Nat
      /\ updated' * Recovery >= updated'
  BY <1>2, SettingsHold, Grown DEF Numbers
<1>7. Limiter!Effective' = IF effective < Conf
                   THEN Lower(Conf, effective + updated' * Recovery)
                   ELSE effective
  <2>1. Limiter!Effective' = IF updated' > 0 /\ effective' < Conf
                     THEN Limiter!Min({Conf, effective' + updated' * Recovery})
                     ELSE effective'
    BY DEF Limiter!Effective, Limiter!Recovering
  <2> DEFINE sum == effective + updated' * Recovery
  <2>2. sum \in Int /\ Conf \in Int
    BY <1>4, <1>6, SettingsHold DEF Numbers
  <2> HIDE DEF sum
  <2>3. Limiter!Min({Conf, sum}) = Lower(Conf, sum)
    BY <2>2, LowerIs
  <2> QED  BY <1>2, <1>4, <2>1, <2>3 DEF sum
<1>8. Limiter!Effective' = pace'
  <2>1. CASE effective >= Conf
    BY <1>3, <1>4, <1>5, <1>7, <2>1, SettingsHold DEF Rates, Numbers
  <2>2. CASE effective < Conf /\ updated + 1 <= AgeCap
    <3>1. updated' * Recovery = updated * Recovery + Recovery
      BY <1>1, <2>2, SettingsHold DEF Lower, Rates, Numbers
    <3>2. Limiter!Effective = Lower(Conf, effective + updated * Recovery)
      <4>1. CASE updated = 0
        <5>1. updated * Recovery = 0
          BY <4>1, SettingsHold DEF Numbers
        <5> QED  BY <1>4, <1>5, <2>2, <4>1, <5>1, SettingsHold DEF Lower, Numbers
      <4>2. CASE updated > 0  BY <1>5, <2>2, <4>2
      <4> QED  BY <4>1, <4>2 DEF Rates
    <3> DEFINE gained == updated * Recovery
    <3>3. gained \in Nat /\ pace = Lower(Conf, effective + gained)
      BY <1>5, <3>2 DEF Rates
    <3>4. Limiter!Effective' = Lower(Conf, effective + (gained + Recovery))
      BY <1>7, <2>2, <3>1
    <3> HIDE DEF gained
    <3> QED  BY <1>3, <1>4, <3>3, <3>4, SettingsHold DEF Lower, Numbers
  <2>3. CASE effective < Conf /\ updated + 1 > AgeCap
    <3>1. updated = AgeCap /\ updated' = AgeCap /\ updated > 0
      BY <1>1, <2>3, SettingsHold DEF Lower, Rates, Numbers
    <3> DEFINE gained == updated * Recovery
    <3>2. gained \in Nat /\ gained >= Conf
      BY <1>5, <3>1, SettingsHold DEF Numbers
    <3>3. /\ Limiter!Effective = Lower(Conf, effective + gained)
          /\ Limiter!Effective' = Lower(Conf, effective + gained)
      BY <1>5, <1>7, <2>3, <3>1
    <3> HIDE DEF gained
    <3>4. Limiter!Effective = Conf /\ Limiter!Effective' = Conf
      BY <1>4, <3>2, <3>3, SettingsHold DEF Lower, Numbers
    <3> QED  BY <1>3, <3>4, SettingsHold DEF Rates, Numbers
  <2> QED  BY <1>4, <2>1, <2>2, <2>3, SettingsHold DEF Rates, Numbers
<1>9. pace' \in Nat
  BY <1>3, SettingsHold DEF Lower, Rates, Numbers
<1> QED  BY <1>2, <1>4, <1>8, <1>9 DEF Rates

-----------------------------------------------------------------------------
(* Who waits for what, and what the buckets hold.                            *)
Waiters ==
    /\ want \in [Callers -> Keys \cup {Limiter!Nobody}]
    /\ sleep \in [Callers -> Nat]

Buckets ==
    /\ tokens \in [Keys -> 0..Burst]
    /\ refilled \in [Keys -> 0..AgeCap]
    /\ spare \in [Keys -> Int] /\ spareAll \in Int

TypeInv == Rates /\ Waiters /\ Buckets

LEMMA RefillFacts ==
    ASSUME TypeInv, NEW k \in Keys
    PROVE  /\ refilled[k] * Limiter!Effective \in Nat
           /\ Limiter!Refill(k) = Lower(Burst, tokens[k] + refilled[k] * Limiter!Effective)
           /\ Limiter!Refill(k) \in 0..Burst
<1>1. /\ tokens[k] \in Nat /\ tokens[k] <= Burst /\ refilled[k] \in Nat
      /\ Limiter!Effective \in Nat /\ Burst \in Nat
  BY SettingsHold DEF TypeInv, Buckets, Rates, Numbers
<1> DEFINE gained == refilled[k] * Limiter!Effective
<1>2. gained \in Nat
  BY <1>1
<1>3. Limiter!Refill(k) = Limiter!Min({Burst, tokens[k] + gained})
  BY DEF Limiter!Refill
<1> HIDE DEF gained
<1>4. Limiter!Min({Burst, tokens[k] + gained}) = Lower(Burst, tokens[k] + gained)
  BY <1>1, <1>2, LowerIs
<1>5. Limiter!Refill(k) \in 0..Burst
  BY <1>1, <1>2, <1>3, <1>4 DEF Lower
<1> QED  BY <1>2, <1>3, <1>4, <1>5 DEF gained

LEMMA LimiterTypeInit == Limiter!Init => TypeInv
<1> SUFFICES ASSUME Limiter!Init PROVE TypeInv
  OBVIOUS
<1>1. Rates
  BY SettingsHold DEF Limiter!Init, Rates, Limiter!Effective, Limiter!Recovering, Numbers
<1>2. Waiters
  BY DEF Limiter!Init, Waiters
<1>3. Buckets
  BY SettingsHold DEF Limiter!Init, Buckets, Numbers
<1> QED  BY <1>1, <1>2, <1>3 DEF TypeInv

LEMMA TakeType ==
    ASSUME TypeInv, NEW c \in Callers, NEW k \in Keys, Limiter!Take(c, k)
    PROVE  TypeInv'
<1>1. Rates'
  BY SettleKeeps DEF Limiter!Take, TypeInv
<1>2. Waiters'
  BY DEF Limiter!Take, TypeInv, Waiters
<1>3. Buckets'
  <2>1. Limiter!Refill(k) - One \in 0..Burst
    BY RefillFacts, SettingsHold DEF Limiter!Take, Numbers
  <2>2. tokens' = [tokens EXCEPT ![k] = Limiter!Refill(k) - One]
    BY DEF Limiter!Take
  <2>3. tokens' \in [Keys -> 0..Burst]
    BY <2>1, <2>2 DEF TypeInv, Buckets
  <2>4. refilled' \in [Keys -> 0..AgeCap]
    BY SettingsHold DEF Limiter!Take, TypeInv, Buckets, Numbers
  <2>5. /\ Limiter!Max({spare[k] - One, -One}) \in Int
        /\ Limiter!Max({spareAll - One, -One}) \in Int
    <3>1. /\ spare[k] - One \in Int /\ -One \in Int /\ spareAll - One \in Int
      BY SettingsHold DEF TypeInv, Buckets, Numbers
    <3>2. Limiter!Max({spare[k] - One, -One}) \in {spare[k] - One, -One}
      BY <3>1, LimiterMaxOfTwo
    <3>3. Limiter!Max({spareAll - One, -One}) \in {spareAll - One, -One}
      BY <3>1, LimiterMaxOfTwo
    <3> QED  BY <3>1, <3>2, <3>3
  <2>6. spare' = [spare EXCEPT ![k] = Limiter!Max({spare[k] - One, -One})]
    BY DEF Limiter!Take
  <2>7. spare' \in [Keys -> Int]
    BY <2>5, <2>6 DEF TypeInv, Buckets
  <2> QED  BY <2>3, <2>4, <2>5, <2>7 DEF Limiter!Take, Buckets
<1> QED  BY <1>1, <1>2, <1>3 DEF TypeInv

LEMMA WaitType ==
    ASSUME TypeInv, NEW c \in Callers, NEW k \in Keys, Limiter!Wait(c, k)
    PROVE  TypeInv'
<1>1. Rates'
  BY SettleKeeps DEF Limiter!Wait, TypeInv, Limiter!ghosts
<1>2. Waiters'
  <2>1. PICK w \in Limiter!Waits(One - Limiter!Refill(k)) : sleep' = [sleep EXCEPT ![c] = w]
    BY DEF Limiter!Wait
  <2>2. One - Limiter!Refill(k) \in Int /\ Limiter!Effective \in Nat
            /\ Limiter!Effective > 0 /\ Jitter \in Nat
    <3>1. Limiter!Refill(k) \in Int
      BY RefillFacts
    <3>2. Limiter!Effective \in Nat /\ Limiter!Effective > 0
      BY SettingsHold, EffectiveFacts DEF TypeInv, Rates
    <3> QED  BY <3>1, <3>2, SettingsHold, RatesAssumption DEF Numbers
  <2>3. Limiter!CeilDiv(One - Limiter!Refill(k), Limiter!Effective) \in Int
    BY <2>2 DEF Limiter!CeilDiv
  <2>4. w \in Nat
    BY <2>2, <2>3 DEF Limiter!Waits
  <2> QED  BY <2>1, <2>4 DEF Limiter!Wait, TypeInv, Waiters
<1>3. Buckets'
  <2>1. tokens' = [tokens EXCEPT ![k] = Limiter!Refill(k)]
    BY DEF Limiter!Wait
  <2>2. tokens' \in [Keys -> 0..Burst]
    BY <2>1, RefillFacts DEF TypeInv, Buckets
  <2>3. refilled' \in [Keys -> 0..AgeCap]
    BY SettingsHold DEF Limiter!Wait, TypeInv, Buckets, Numbers
  <2> QED  BY <2>2, <2>3 DEF Limiter!Wait, Limiter!ghosts, TypeInv, Buckets
<1> QED  BY <1>1, <1>2, <1>3 DEF TypeInv

LEMMA TickType ==
    ASSUME TypeInv, Limiter!Tick
    PROVE  TypeInv'
<1>1. Rates'
  BY TickKeepsRates DEF TypeInv
<1>2. Waiters'
  <2>1. ASSUME NEW c \in Callers PROVE Limiter!Max({sleep[c] - 1, 0}) \in Nat
    <3>1. sleep[c] - 1 \in Int /\ 0 \in Int
      BY DEF TypeInv, Waiters
    <3>2. Limiter!Max({sleep[c] - 1, 0}) \in {sleep[c] - 1, 0}
          /\ Limiter!Max({sleep[c] - 1, 0}) >= 0
      BY <3>1, LimiterMaxOfTwo
    <3> QED  BY <3>1, <3>2
  <2> QED  BY <2>1 DEF Limiter!Tick, TypeInv, Waiters
<1>3. Buckets'
  <2>1. ASSUME NEW k \in Keys PROVE Limiter!Older(refilled[k]) \in 0..AgeCap
    <3>1. refilled[k] \in Nat /\ AgeCap \in Nat
      BY SettingsHold DEF TypeInv, Buckets, Numbers
    <3>2. Limiter!Older(refilled[k]) = Lower(refilled[k] + 1, AgeCap)
      BY <3>1, LowerIs DEF Limiter!Older
    <3>3. Lower(refilled[k] + 1, AgeCap) \in 0..AgeCap
      BY <3>1 DEF Lower
    <3> QED  BY <3>2, <3>3
  <2>2. ASSUME NEW k \in Keys PROVE Limiter!Min({spare[k] + Conf, Burst}) \in Int
    <3>1. spare[k] + Conf \in Int /\ Burst \in Int
      BY SettingsHold DEF TypeInv, Buckets, Numbers
    <3>2. Limiter!Min({spare[k] + Conf, Burst}) \in {spare[k] + Conf, Burst}
      BY <3>1, LimiterMinOfTwo
    <3> QED  BY <3>1, <3>2
  <2>3. Limiter!Min({spareAll + Conf, Burst}) \in Int
    <3>1. spareAll + Conf \in Int /\ Burst \in Int
      BY SettingsHold DEF TypeInv, Buckets, Numbers
    <3>2. Limiter!Min({spareAll + Conf, Burst}) \in {spareAll + Conf, Burst}
      BY <3>1, LimiterMinOfTwo
    <3> QED  BY <3>1, <3>2
  <2>4. refilled' \in [Keys -> 0..AgeCap]
    BY <2>1 DEF Limiter!Tick
  <2>5. spare' \in [Keys -> Int]
    BY <2>2 DEF Limiter!Tick
  <2> QED  BY <2>3, <2>4, <2>5 DEF Limiter!Tick, TypeInv, Buckets
<1> QED  BY <1>1, <1>2, <1>3 DEF TypeInv

LEMMA LimiterTypeStep == TypeInv /\ [Limiter!Next]_(Limiter!vars) => TypeInv'
<1> SUFFICES ASSUME TypeInv, [Limiter!Next]_(Limiter!vars) PROVE TypeInv'
  OBVIOUS
<1>1. CASE Limiter!Tick
  BY <1>1, TickType
<1>2. CASE Limiter!Throttle
  <2>1. Rates'
    BY <1>2, ThrottleKeeps DEF TypeInv
  <2> QED  BY <1>2, <2>1 DEF Limiter!Throttle, Limiter!buckets, TypeInv, Waiters, Buckets
<1>3. CASE Limiter!Read
  <2>1. Rates'
    BY <1>3, SettleKeeps DEF Limiter!Read, Limiter!ghosts, TypeInv
  <2> QED  BY <1>3, <2>1
              DEF Limiter!Read, Limiter!buckets, Limiter!ghosts, TypeInv, Waiters, Buckets
<1>4. CASE \E c \in Callers, k \in Keys : Limiter!Take(c, k)
  BY <1>4, TakeType
<1>5. CASE \E c \in Callers, k \in Keys : Limiter!Wait(c, k)
  BY <1>5, WaitType
<1>6. CASE \E c \in Callers : Limiter!GiveUp(c)
  <2>1. Rates'
    BY <1>6
       DEF Limiter!GiveUp, Limiter!rate, Limiter!ghosts, TypeInv, Rates,
           Limiter!Effective, Limiter!Recovering
  <2> QED  BY <1>6, <2>1
              DEF Limiter!GiveUp, Limiter!buckets, Limiter!ghosts, TypeInv, Waiters, Buckets
<1>7. CASE \E c \in Callers, k \in Keys : Limiter!Ask(c, k)
  <2>1. Rates'
    BY <1>7
       DEF Limiter!Ask, Limiter!rate, Limiter!ghosts, TypeInv, Rates, Limiter!Effective,
           Limiter!Recovering
  <2> QED  BY <1>7, <2>1
              DEF Limiter!Ask, Limiter!buckets, Limiter!ghosts, TypeInv, Waiters, Buckets
<1>8. CASE UNCHANGED Limiter!vars
  <2>1. Rates'
    BY <1>8
       DEF Limiter!vars, Limiter!rate, Limiter!ghosts, TypeInv, Rates, Limiter!Effective,
           Limiter!Recovering
  <2> QED  BY <1>8, <2>1
              DEF Limiter!vars, Limiter!buckets, Limiter!ghosts, TypeInv, Waiters, Buckets
<1> QED  BY <1>1, <1>2, <1>3, <1>4, <1>5, <1>6, <1>7, <1>8 DEF Limiter!Next, Limiter!Round

LEMMA TypeInductive == Limiter!Spec => []TypeInv
  BY LimiterTypeInit, LimiterTypeStep, PTL DEF Limiter!Spec

(* The limiter's state keeps its types; the rate stays positive, so that the *)
(* waiting time of acquire is defined.                                       *)
THEOREM LimiterTypes == Limiter!Spec => []Limiter!TypeOK
<1>1. TypeInv => Limiter!TypeOK
  BY DEF TypeInv, Limiter!TypeOK, Waiters, Buckets, Rates
<1> QED  BY <1>1, TypeInductive, PTL

(* However the reads of effective_rate_per_second and the throttle events    *)
(* fall, the rate is the one that recovers with time alone.                  *)
THEOREM RecoveryIsLazy == Limiter!Spec => []Limiter!LazyIsEager
<1>1. TypeInv => Limiter!LazyIsEager
  BY DEF TypeInv, Rates, Limiter!LazyIsEager
<1> QED  BY <1>1, TypeInductive, PTL

-----------------------------------------------------------------------------
(* A bucket brought up to date at the configured rate holds no more than the *)
(* eager one.                                                                *)
Covered ==
    /\ effective <= Conf
    /\ \A k \in Keys : spare[k] >= Lower(Burst, tokens[k] + refilled[k] * Conf)

LEMMA LessRefilled ==
    ASSUME TypeInv, Covered, NEW k \in Keys
    PROVE  Limiter!Refill(k) <= spare[k]
<1>1. /\ Limiter!Effective \in Nat /\ Limiter!Effective <= Conf /\ Conf \in Nat
         /\ refilled[k] \in Nat
      /\ tokens[k] \in Nat /\ Burst \in Nat /\ spare[k] \in Int
  BY SettingsHold, EffectiveFacts DEF TypeInv, Rates, Buckets, Covered, Numbers
<1>2. /\ Limiter!Effective * refilled[k] <= Conf * refilled[k]
      /\ Limiter!Effective * refilled[k] = refilled[k] * Limiter!Effective
      /\ Conf * refilled[k] = refilled[k] * Conf
      /\ refilled[k] * Limiter!Effective \in Nat /\ refilled[k] * Conf \in Nat
  BY <1>1, MulMonotone
<1> DEFINE now == refilled[k] * Limiter!Effective
           most == refilled[k] * Conf
<1>3. now \in Nat /\ most \in Nat /\ now <= most
  BY <1>2
<1>4. Limiter!Refill(k) = Lower(Burst, tokens[k] + now) /\ spare[k] >= Lower(Burst,
      tokens[k] + most)
  BY RefillFacts DEF Covered
<1> HIDE DEF now, most
<1> QED  BY <1>1, <1>3, <1>4 DEF Lower

LEMMA CoveredSettle ==
    ASSUME TypeInv, Covered, Limiter!Settle
    PROVE  effective' <= Conf
  BY SettingsHold, EffectiveFacts DEF Limiter!Settle, TypeInv, Rates, Covered

LEMMA CoveredTake ==
    ASSUME TypeInv, Covered, NEW c \in Callers, NEW k \in Keys, Limiter!Take(c, k)
    PROVE  Covered'
<1>1. effective' <= Conf
  BY CoveredSettle DEF Limiter!Take
<1> SUFFICES ASSUME NEW j \in Keys
             PROVE  spare'[j] >= Lower(Burst, tokens'[j] + refilled'[j] * Conf)
  BY <1>1 DEF Covered
<1>2. CASE j # k
  BY <1>2 DEF Limiter!Take, Covered, TypeInv, Buckets
<1>3. CASE j = k
  <2>1. /\ Limiter!Refill(k) <= spare[k] /\ Limiter!Refill(k) >= One
        /\ Limiter!Refill(k) \in Int /\ spare[k] \in Int /\ One \in Nat /\ Burst \in Nat
        /\ Limiter!Refill(k) <= Burst /\ Conf \in Nat
    BY LessRefilled, RefillFacts, SettingsHold DEF Limiter!Take, TypeInv, Buckets, Numbers
  <2>2. Limiter!Max({spare[k] - One, -One}) = Higher(spare[k] - One, -One)
    BY <2>1, HigherIs
  <2>3. /\ spare'[j] = Higher(spare[k] - One, -One)
        /\ tokens'[j] = Limiter!Refill(k) - One /\ refilled'[j] = 0
    BY <1>3, <2>2 DEF Limiter!Take, TypeInv, Buckets
  <2>4. refilled'[j] * Conf = 0
    BY <2>1, <2>3
  <2> QED  BY <2>1, <2>3, <2>4 DEF Lower, Higher
<1> QED  BY <1>2, <1>3

LEMMA CoveredWait ==
    ASSUME TypeInv, Covered, NEW c \in Callers, NEW k \in Keys, Limiter!Wait(c, k)
    PROVE  Covered'
<1>1. effective' <= Conf
  BY CoveredSettle DEF Limiter!Wait
<1> SUFFICES ASSUME NEW j \in Keys
             PROVE  spare'[j] >= Lower(Burst, tokens'[j] + refilled'[j] * Conf)
  BY <1>1 DEF Covered
<1>2. CASE j # k
  BY <1>2 DEF Limiter!Wait, Limiter!ghosts, Covered, TypeInv, Buckets
<1>3. CASE j = k
  <2>1. /\ Limiter!Refill(k) <= spare[k] /\ Limiter!Refill(k) \in Int /\ spare[k] \in Int
        /\ Limiter!Refill(k) <= Burst /\ Conf \in Nat /\ Burst \in Nat
    BY LessRefilled, RefillFacts, SettingsHold DEF TypeInv, Buckets, Numbers
  <2>2. spare'[j] = spare[k] /\ tokens'[j] = Limiter!Refill(k) /\ refilled'[j] = 0
    BY <1>3 DEF Limiter!Wait, Limiter!ghosts, TypeInv, Buckets
  <2>3. refilled'[j] * Conf = 0
    BY <2>1, <2>2
  <2> QED  BY <2>1, <2>2, <2>3 DEF Lower
<1> QED  BY <1>2, <1>3

LEMMA CoveredTick ==
    ASSUME TypeInv, Covered, Limiter!Tick
    PROVE  Covered'
<1> SUFFICES ASSUME NEW k \in Keys
             PROVE  spare'[k] >= Lower(Burst, tokens'[k] + refilled'[k] * Conf)
  BY DEF Covered, Limiter!Tick
<1>1. /\ tokens[k] \in Nat /\ spare[k] \in Int /\ refilled[k] \in Nat
         /\ refilled[k] <= AgeCap
      /\ Conf \in Nat /\ Conf > 0 /\ Burst \in Nat /\ AgeCap \in Nat /\ AgeCap >= Burst
  BY SettingsHold DEF TypeInv, Buckets, Numbers
<1>2. Limiter!Min({spare[k] + Conf, Burst}) = Lower(spare[k] + Conf, Burst)
      /\ Limiter!Min({refilled[k] + 1, AgeCap}) = Lower(refilled[k] + 1, AgeCap)
  BY <1>1, LowerIs
<1>3. /\ spare'[k] = Lower(spare[k] + Conf, Burst)
      /\ refilled'[k] = Lower(refilled[k] + 1, AgeCap)
      /\ tokens'[k] = tokens[k]
  BY <1>2 DEF Limiter!Tick, Limiter!Older
<1>4. /\ spare[k] >= Lower(Burst, tokens[k] + refilled[k] * Conf)
      /\ refilled[k] * Conf \in Nat /\ refilled[k] * Conf >= refilled[k]
  BY <1>1, Grown DEF Covered
<1>5. CASE refilled[k] + 1 <= AgeCap
  <2>1. refilled'[k] * Conf = refilled[k] * Conf + Conf
    BY <1>1, <1>3, <1>5 DEF Lower
  <2> DEFINE gained == refilled[k] * Conf
  <2>2. gained \in Nat /\ spare[k] >= Lower(Burst, tokens[k] + gained)
        /\ refilled'[k] * Conf = gained + Conf
    BY <1>4, <2>1
  <2> HIDE DEF gained
  <2>3. Lower(spare[k] + Conf, Burst) >= Lower(Burst, tokens[k] + (gained + Conf))
    BY <1>1, <2>2 DEF Lower
  <2> QED  BY <1>3, <2>2, <2>3
<1>6. CASE ~(refilled[k] + 1 <= AgeCap)
  <2>1. refilled[k] = AgeCap /\ refilled'[k] = AgeCap
    BY <1>1, <1>3, <1>6 DEF Lower
  <2> DEFINE gained == refilled[k] * Conf
  <2>2. gained \in Nat /\ gained >= Burst /\ spare[k] >= Lower(Burst, tokens[k] + gained)
        /\ refilled'[k] * Conf = gained
    BY <1>1, <1>4, <2>1
  <2> HIDE DEF gained
  <2>3. Lower(spare[k] + Conf, Burst) >= Lower(Burst, tokens[k] + gained)
    BY <1>1, <2>2 DEF Lower
  <2> QED  BY <1>3, <2>2, <2>3
<1> QED  BY <1>5, <1>6

LEMMA CoveredInit == Limiter!Init => Covered
<1> SUFFICES ASSUME Limiter!Init, NEW k \in Keys
             PROVE  /\ effective <= Conf
                    /\ spare[k] >= Lower(Burst, tokens[k] + refilled[k] * Conf)
  BY SettingsHold DEF Covered, Limiter!Init, Numbers
<1>1. tokens[k] = Burst /\ spare[k] = Burst /\ refilled[k] = 0 /\ effective = Conf
  BY DEF Limiter!Init
<1>2. refilled[k] * Conf = 0
  BY <1>1, SettingsHold DEF Numbers
<1> QED  BY <1>1, <1>2, SettingsHold DEF Lower, Numbers

LEMMA CoveredStep ==
    ASSUME FloorRate <= Conf
    PROVE  TypeInv /\ Covered /\ [Limiter!Next]_(Limiter!vars) => Covered'
<1> SUFFICES ASSUME TypeInv, Covered, [Limiter!Next]_(Limiter!vars) PROVE Covered'
  OBVIOUS
<1>1. CASE Limiter!Tick
  BY <1>1, CoveredTick
<1>2. CASE Limiter!Throttle
  <2>1. pace <= Conf /\ pace \in Nat
    BY SettingsHold, EffectiveFacts DEF TypeInv, Rates, Covered
  <2>2. effective' = Higher(FloorRate, pace \div 2)
    <3>1. FloorRate \in Int /\ pace \div 2 \in Int
      BY <2>1, SettingsHold DEF Numbers
    <3>2. effective' = Limiter!Max({FloorRate, pace \div 2})
      BY <1>2 DEF Limiter!Throttle, Limiter!Halved, TypeInv, Rates
    <3> QED  BY <3>1, <3>2, HigherIs
  <2>3. pace \div 2 <= pace
    BY <2>1
  <2>4. effective' <= Conf
    BY <2>1, <2>2, <2>3, SettingsHold DEF Higher, Numbers
  <2> QED  BY <1>2, <2>4 DEF Limiter!Throttle, Limiter!buckets, Covered
<1>3. CASE Limiter!Read
  <2>1. effective' <= Conf
    BY <1>3, CoveredSettle DEF Limiter!Read
  <2> QED  BY <1>3, <2>1 DEF Limiter!Read, Limiter!buckets, Limiter!ghosts, Covered
<1>4. CASE \E c \in Callers, k \in Keys : Limiter!Take(c, k)
  BY <1>4, CoveredTake
<1>5. CASE \E c \in Callers, k \in Keys : Limiter!Wait(c, k)
  BY <1>5, CoveredWait
<1>6. CASE \E c \in Callers : Limiter!GiveUp(c)
  BY <1>6 DEF Limiter!GiveUp, Limiter!buckets, Limiter!rate, Limiter!ghosts, Covered
<1>7. CASE \E c \in Callers, k \in Keys : Limiter!Ask(c, k)
  BY <1>7 DEF Limiter!Ask, Limiter!buckets, Limiter!rate, Limiter!ghosts, Covered
<1>8. CASE UNCHANGED Limiter!vars
  BY <1>8 DEF Limiter!vars, Limiter!buckets, Limiter!rate, Limiter!ghosts, Covered
<1> QED  BY <1>1, <1>2, <1>3, <1>4, <1>5, <1>6, <1>7, <1>8 DEF Limiter!Next, Limiter!Round

(* With a configured rate at or above the floor, the calls admitted from a   *)
(* bucket keep to the burst plus the configured rate over any time (acquire).*)
THEOREM BudgetKept ==
    ASSUME FloorRate <= Conf
    PROVE  Limiter!Spec => []Limiter!WithinBudget
<1>1. TypeInv /\ Covered => Limiter!WithinBudget
  <2> SUFFICES ASSUME TypeInv, Covered, NEW k \in Keys PROVE spare[k] >= 0
    BY DEF Limiter!WithinBudget
  <2>1. Limiter!Refill(k) <= spare[k] /\ Limiter!Refill(k) \in 0..Burst
        /\ spare[k] \in Int /\ Burst \in Nat
    BY LessRefilled, RefillFacts, SettingsHold DEF TypeInv, Buckets, Numbers
  <2> QED  BY <2>1
<1>2. TypeInv /\ Covered /\ [Limiter!Next]_(Limiter!vars) => Covered'
  BY CoveredStep
<1> QED  BY <1>1, <1>2, CoveredInit, TypeInductive, PTL DEF Limiter!Spec

(* Budget and recovery together, with the types (acquire,                     *)
(* effective_rate_per_second).                                                *)
THEOREM LimiterSafe ==
    ASSUME FloorRate <= Conf
    PROVE  Limiter!Spec => []Limiter!LimiterInv
  BY LimiterTypes, BudgetKept, RecoveryIsLazy, PTL DEF Limiter!LimiterInv
-----------------------------------------------------------------------------
(* The webhook receiver.                                                    *)

LEMMA ReceiverCard == \A S : Receiver!Cardinality(S) = Cardinality(S)
  BY DEF Receiver!Cardinality, Cardinality

LEMMA WindowFacts ==
    /\ Window \in Nat /\ Skew \in Nat /\ TTL \in Nat /\ MaxEntries \in Nat
    /\ TTL > 0 /\ MaxEntries > 0
    /\ Receiver!Lowest \in Int /\ Receiver!Unsent \in Int /\ Receiver!OldAge \in Int
    /\ Receiver!Unsent < Receiver!Lowest /\ Receiver!Lowest <= 0 /\ Receiver!OldAge > 0
BY ReceiverAssumption DEF Receiver!Lowest, Receiver!Unsent, Receiver!OldAge

-----------------------------------------------------------------------------
LEMMA ReceiverTypeInit == Receiver!Init => Receiver!TypeOK
BY WindowFacts DEF Receiver!Init, Receiver!TypeOK

LEMMA ReceiverTypeStep ==
    Receiver!TypeOK /\ [Receiver!Next]_(Receiver!vars) => Receiver!TypeOK'
<1> SUFFICES ASSUME Receiver!TypeOK, [Receiver!Next]_(Receiver!vars) PROVE Receiver!TypeOK'
  OBVIOUS
<1> USE WindowFacts
<1>1. CASE Receiver!Tick
  <2>1. age' \in [Alerts -> Receiver!Unsent..Receiver!OldAge]
    BY <1>1 DEF Receiver!Tick, Receiver!TypeOK
  <2>2. left' \in [Alerts -> 0..TTL]
    BY <1>1 DEF Receiver!Tick, Receiver!Spent, Receiver!TypeOK
  <2> QED  BY <1>1, <2>1, <2>2 DEF Receiver!Tick, Receiver!TypeOK
<1>2. ASSUME NEW a \in Alerts, Receiver!Send(a) PROVE Receiver!TypeOK'
  <2>1. age' \in [Alerts -> Receiver!Unsent..Receiver!OldAge]
    <3>1. PICK early \in 0..Skew : age' = [age EXCEPT ![a] = -early]
      BY <1>2 DEF Receiver!Send
    <3>2. -early \in Receiver!Unsent..Receiver!OldAge
      BY DEF Receiver!Unsent, Receiver!Lowest
    <3> QED  BY <3>1, <3>2 DEF Receiver!TypeOK
  <2> QED  BY <1>2, <2>1 DEF Receiver!Send, Receiver!TypeOK
<1>3. ASSUME NEW a \in Alerts, Receiver!Accept(a) PROVE Receiver!TypeOK'
  <2>1. left' \in [Alerts -> 0..TTL]
    <3>1. CASE left' = [left EXCEPT ![a] = TTL]
      BY <3>1 DEF Receiver!TypeOK
    <3>2. ASSUME NEW b \in Receiver!OldestBut(a), left' = [left EXCEPT ![a] = TTL, ![b] = 0]
          PROVE  left' \in [Alerts -> 0..TTL]
      <4>1. TTL \in 0..TTL /\ 0 \in 0..TTL
        OBVIOUS
      <4> QED  BY <3>2, <4>1 DEF Receiver!TypeOK
    <3> QED  BY <1>3, <3>1, <3>2 DEF Receiver!Accept
  <2>2. applied' \in [Alerts -> 0..2]
    <3>1. applied' = [applied EXCEPT ![a] = IF applied[a] < 2 THEN applied[a] + 1
          ELSE applied[a]]
      BY <1>3 DEF Receiver!Accept
    <3> QED  BY <3>1 DEF Receiver!TypeOK
  <2>3. since' \in [Alerts -> 0..MaxEntries]
    BY <1>3 DEF Receiver!Accept, Receiver!Later, Receiver!TypeOK
  <2> QED  BY <1>3, <2>1, <2>2, <2>3 DEF Receiver!Accept, Receiver!TypeOK
<1>4. CASE UNCHANGED Receiver!vars
  BY <1>4 DEF Receiver!vars, Receiver!TypeOK
<1> QED  BY <1>1, <1>2, <1>3, <1>4 DEF Receiver!Next

(* The types of the receiver's state hold in every behaviour. *)
THEOREM ReceiverTypes == Receiver!Spec => []Receiver!TypeOK
<1> QED  BY ReceiverTypeInit, ReceiverTypeStep, PTL DEF Receiver!Spec

-----------------------------------------------------------------------------
LEMMA CachedFinite ==
    /\ IsFiniteSet(Receiver!Cached) /\ Cardinality(Receiver!Cached) \in Nat
    /\ IsFiniteSet(Receiver!Cached') /\ Cardinality(Receiver!Cached') \in Nat
<1>1. Receiver!Cached \subseteq Alerts /\ Receiver!Cached' \subseteq Alerts
  BY DEF Receiver!Cached
<1> QED  BY <1>1, FS_Subset, FS_CardinalityType, AlertsAssumption

LEMMA BoundedStep ==
    Receiver!TypeOK /\ Receiver!CacheBounded /\ [Receiver!Next]_(Receiver!vars)
      => Receiver!CacheBounded'
<1> SUFFICES ASSUME Receiver!TypeOK, Receiver!CacheBounded, [Receiver!Next]_(Receiver!vars)
             PROVE  Receiver!CacheBounded'
  OBVIOUS
<1> USE WindowFacts
<1>1. ASSUME Receiver!Cached' \subseteq Receiver!Cached PROVE Receiver!CacheBounded'
  BY <1>1, CachedFinite, FS_Subset, ReceiverCard DEF Receiver!CacheBounded
<1>2. CASE Receiver!Tick
  <2>1. Receiver!Cached' \subseteq Receiver!Cached
    BY <1>2 DEF Receiver!Tick, Receiver!Cached, Receiver!Spent, Receiver!TypeOK
  <2> QED  BY <1>1, <2>1
<1>3. ASSUME NEW a \in Alerts, Receiver!Send(a) PROVE Receiver!CacheBounded'
  <2>1. Receiver!Cached' = Receiver!Cached
    BY <1>3 DEF Receiver!Send, Receiver!Cached
  <2> QED  BY <1>1, <2>1
<1>4. ASSUME NEW a \in Alerts, Receiver!Accept(a) PROVE Receiver!CacheBounded'
  <2>1. a \notin Receiver!Cached
    BY <1>4 DEF Receiver!Accept, Receiver!Unseen, Receiver!Cached
  <2>2. CASE ~Receiver!Overflows(a)
    <3>1. left' = [left EXCEPT ![a] = TTL]
      BY <1>4, <2>2 DEF Receiver!Accept
    <3>2. Receiver!Cached' = Receiver!Cached \cup {a}
      BY <3>1 DEF Receiver!Cached, Receiver!TypeOK
    <3>3. Cardinality(Receiver!Cached') <= MaxEntries
      BY <2>2, <3>2, CachedFinite, ReceiverCard DEF Receiver!Overflows
    <3> QED  BY <3>3, ReceiverCard DEF Receiver!CacheBounded
  <2>3. CASE Receiver!Overflows(a)
    <3>1. PICK b \in Receiver!OldestBut(a) : left' = [left EXCEPT ![a] = TTL, ![b] = 0]
      BY <1>4, <2>3 DEF Receiver!Accept
    <3>2. b \in Receiver!Cached /\ b # a
      BY DEF Receiver!OldestBut
    <3>3. Receiver!Cached' = (Receiver!Cached \ {b}) \cup {a}
      BY <3>1, <3>2 DEF Receiver!Cached, Receiver!TypeOK
    <3>4. IsFiniteSet(Receiver!Cached \ {b}) /\ Cardinality(Receiver!Cached \ {b})
          = Cardinality(Receiver!Cached) - 1
      BY <3>2, CachedFinite, FS_RemoveElement
    <3>5. a \notin Receiver!Cached \ {b}
      BY <2>1
    <3>6. Cardinality(Receiver!Cached') = Cardinality(Receiver!Cached \ {b}) + 1
      BY <3>3, <3>4, <3>5, FS_AddElement
    <3> QED  BY <3>4, <3>6, CachedFinite, ReceiverCard DEF Receiver!CacheBounded
  <2> QED  BY <2>2, <2>3
<1>5. CASE UNCHANGED Receiver!vars
  <2>1. Receiver!Cached' = Receiver!Cached
    BY <1>5 DEF Receiver!vars, Receiver!Cached
  <2> QED  BY <1>1, <2>1
<1> QED  BY <1>2, <1>3, <1>4, <1>5 DEF Receiver!Next

(* The replay cache never holds more entries than configured, whatever is    *)
(* delivered: the memory _is_replay uses is bounded.                         *)
THEOREM CacheStaysBounded == Receiver!Spec => []Receiver!CacheBounded
<1>1. Receiver!Init => Receiver!CacheBounded
  <2> SUFFICES ASSUME Receiver!Init PROVE Receiver!CacheBounded
    OBVIOUS
  <2>1. Receiver!Cached = {}
    BY DEF Receiver!Init, Receiver!Cached
  <2> QED  BY <2>1, FS_EmptySet, WindowFacts, ReceiverCard DEF Receiver!CacheBounded
<1> QED  BY <1>1, BoundedStep, ReceiverTypes, PTL DEF Receiver!Spec

-----------------------------------------------------------------------------
(* What AppliedOnce rests on: an alert that was let through is too old, or   *)
(* will be when its entry is gone.                                           *)
Outlived(a) ==
    applied[a] = 1 =>
        /\ age[a] # Receiver!Unsent
        /\ age[a] > Window \/ (left[a] > 0 /\ age[a] + left[a] > Window)

OnceInv == Receiver!TypeOK /\ Receiver!AppliedOnce /\ \A a \in Alerts : Outlived(a)

LEMMA NoOverflow ==
    ASSUME Cardinality(Alerts) <= MaxEntries, NEW a \in Alerts
    PROVE  ~Receiver!Overflows(a)
<1>1. Receiver!Cached \cup {a} \subseteq Alerts
  BY DEF Receiver!Cached
<1>2. /\ Cardinality(Receiver!Cached \cup {a}) <= Cardinality(Alerts)
      /\ Cardinality(Receiver!Cached \cup {a}) \in Nat /\ Cardinality(Alerts) \in Nat
  BY <1>1, FS_Subset, FS_CardinalityType, AlertsAssumption
<1> QED  BY <1>2, WindowFacts, ReceiverCard DEF Receiver!Overflows

LEMMA OnceStep ==
    ASSUME TTL > Window + Skew, Cardinality(Alerts) <= MaxEntries
    PROVE  OnceInv /\ [Receiver!Next]_(Receiver!vars) => OnceInv'
<1> SUFFICES ASSUME OnceInv, [Receiver!Next]_(Receiver!vars) PROVE OnceInv'
  OBVIOUS
<1>0. Receiver!TypeOK /\ Receiver!TypeOK'
  BY ReceiverTypeStep DEF OnceInv
<1>t. \A b \in Alerts : age[b] \in Int /\ left[b] \in Nat /\ applied[b] \in 0..2
      /\ age[b] >= Receiver!Unsent
  BY <1>0, WindowFacts DEF Receiver!TypeOK
<1> SUFFICES ASSUME NEW b \in Alerts
             PROVE  applied'[b] <= 1 /\ Outlived(b)'
  BY <1>0 DEF OnceInv, Receiver!AppliedOnce
<1>b. applied[b] <= 1 /\ Outlived(b)
  BY DEF OnceInv, Receiver!AppliedOnce
<1> USE WindowFacts, <1>t
<1>1. CASE Receiver!Tick
  <2>1. /\ age'[b] = IF age[b] = Receiver!Unsent \/ age[b] = Receiver!OldAge
           THEN age[b] ELSE age[b] + 1
        /\ left'[b] = (IF left[b] > 0 THEN left[b] - 1 ELSE 0)
        /\ applied'[b] = applied[b]
    BY <1>1 DEF Receiver!Tick, Receiver!Spent
  <2>2. ASSUME applied[b] = 1, age[b] = Receiver!OldAge PROVE age'[b] > Window
    BY <2>1, <2>2 DEF Receiver!OldAge
  <2>3. ASSUME applied[b] = 1, age[b] # Receiver!OldAge
        PROVE  age'[b] > Window \/ (left'[b] > 0 /\ age'[b] + left'[b] > Window)
    BY <1>b, <2>1, <2>3 DEF Outlived
  <2>4. ASSUME applied[b] = 1 PROVE age'[b] # Receiver!Unsent
    BY <1>b, <2>1, <2>4 DEF Outlived
  <2> QED  BY <1>b, <2>1, <2>2, <2>3, <2>4 DEF Outlived
<1>2. ASSUME NEW a \in Alerts, Receiver!Send(a) PROVE applied'[b] <= 1 /\ Outlived(b)'
  <2>1. CASE b = a
    <3>1. applied'[b] = 0
      BY <1>0, <1>2, <2>1 DEF Receiver!Send, Receiver!TypeOK
    <3> QED  BY <3>1 DEF Outlived
  <2>2. CASE b # a
    <3>1. applied'[b] = applied[b] /\ age'[b] = age[b] /\ left'[b] = left[b]
      BY <1>0, <1>2, <2>2 DEF Receiver!Send, Receiver!TypeOK
    <3> QED  BY <1>b, <3>1 DEF Outlived
  <2> QED  BY <2>1, <2>2
<1>3. ASSUME NEW a \in Alerts, Receiver!Accept(a) PROVE applied'[b] <= 1 /\ Outlived(b)'
  <2>1. left' = [left EXCEPT ![a] = TTL]
    BY <1>3, NoOverflow DEF Receiver!Accept
  <2>2. /\ applied' = [applied EXCEPT ![a] = IF applied[a] < 2 THEN applied[a] + 1
           ELSE applied[a]]
        /\ age' = age
    BY <1>3 DEF Receiver!Accept
  <2>3. CASE b = a
    <3>1. age[b] # Receiver!Unsent /\ age[b] <= Window /\ left[b] = 0
      BY <1>3, <2>3 DEF Receiver!Accept, Receiver!Unseen, Receiver!Fresh
    <3>2. applied[b] = 0
      BY <1>b, <3>1 DEF Outlived
    <3>3. applied'[b] = 1 /\ left'[b] = TTL
      BY <1>0, <2>1, <2>2, <2>3, <3>2 DEF Receiver!TypeOK
    <3>4. age[b] >= -Skew
      BY <3>1 DEF Receiver!Unsent, Receiver!Lowest
    <3>5. age[b] + TTL > Window
      BY <3>4
    <3> QED  BY <2>2, <3>1, <3>3, <3>5 DEF Outlived
  <2>4. CASE b # a
    <3>1. applied'[b] = applied[b] /\ age'[b] = age[b] /\ left'[b] = left[b]
      BY <1>0, <2>1, <2>2, <2>4 DEF Receiver!TypeOK
    <3> QED  BY <1>b, <3>1 DEF Outlived
  <2> QED  BY <2>3, <2>4
<1>4. CASE UNCHANGED Receiver!vars
  BY <1>b, <1>4 DEF Receiver!vars, Outlived
<1> QED  BY <1>1, <1>2, <1>3, <1>4 DEF Receiver!Next

(* An alert is let through at most once, however often it is delivered, if   *)
(* a cache entry outlives the freshness of its alert (the default TTL is six *)
(* times what it takes) and the cache holds all alerts on their way.         *)
THEOREM AlertsAppliedOnce ==
    ASSUME TTL > Window + Skew, Cardinality(Alerts) <= MaxEntries
    PROVE  Receiver!Spec => []Receiver!AppliedOnce
<1>1. Receiver!Init => OnceInv
  <2> SUFFICES ASSUME Receiver!Init PROVE OnceInv
    OBVIOUS
  <2>1. \A a \in Alerts : applied[a] = 0
    BY DEF Receiver!Init
  <2> QED  BY <2>1, ReceiverTypeInit DEF OnceInv, Receiver!AppliedOnce, Outlived
<1>2. OnceInv /\ [Receiver!Next]_(Receiver!vars) => OnceInv'
  BY OnceStep
<1>3. OnceInv => Receiver!AppliedOnce
  BY DEF OnceInv
<1> QED  BY <1>1, <1>2, <1>3, PTL DEF Receiver!Spec

-----------------------------------------------------------------------------
(* How the cache forgets: what it sheds was made before as many other        *)
(* entries as it holds, since no two entries have the same place.            *)
Placed ==
    \A x, y \in Receiver!Cached : since[x] = since[y] /\ since[x] < MaxEntries => x = y

Remembered(a) ==
    applied[a] > 0 /\ since[a] < MaxEntries =>
        /\ age[a] # Receiver!Unsent
        /\ age[a] > Window \/ (left[a] > 0 /\ age[a] + left[a] > Window)

AgainInv == Receiver!TypeOK /\ Placed /\ \A a \in Alerts : Remembered(a)

(* The oldest of more entries than fit was followed by as many as fit.       *)
LEMMA OldestIsOld ==
    ASSUME Receiver!TypeOK, Placed, NEW a \in Alerts, a \notin Receiver!Cached,
           Receiver!Overflows(a), NEW b \in Receiver!OldestBut(a)
    PROVE  Receiver!Later(since[b]) = MaxEntries
<1> DEFINE C == Receiver!Cached
<1>1. /\ b \in C /\ \A c \in C : since[b] >= since[c]
      /\ \A c \in C : since[c] \in 0..MaxEntries
      /\ C \subseteq Alerts
  BY DEF Receiver!OldestBut, Receiver!TypeOK, Receiver!Cached
<1>2. IsFiniteSet(C) /\ Cardinality(C) \in Nat /\ Cardinality(C) >= MaxEntries
  <2>1. IsFiniteSet(C) /\ Cardinality(C) \in Nat
    BY CachedFinite
  <2>2. Cardinality(C \cup {a}) = Cardinality(C) + 1
    BY <2>1, FS_AddElement
  <2>3. Cardinality(C \cup {a}) > MaxEntries
    BY ReceiverCard DEF Receiver!Overflows
  <2> QED  BY <2>1, <2>2, <2>3, WindowFacts
<1> HIDE DEF C
<1>3. SUFFICES ASSUME since[b] + 1 < MaxEntries PROVE FALSE
  BY <1>1, WindowFacts DEF Receiver!Later
<1> DEFINE T == 0..since[b]
           place == [c \in C |-> since[c]]
<1>4. since[b] \in Nat /\ IsFiniteSet(T) /\ Cardinality(T) = since[b] + 1
  BY <1>1, WindowFacts, FS_Interval
<1>5. place \in [C -> T]
  BY <1>1, WindowFacts
<1>6. \A x, y \in C : place[x] = place[y] => x = y
  BY <1>1, <1>3, <1>4, WindowFacts DEF Placed, C
<1> HIDE DEF T, place
<1>7. Cardinality(T) < Cardinality(C)
  BY <1>2, <1>3, <1>4, WindowFacts
<1> QED  BY <1>2, <1>4, <1>5, <1>6, <1>7, FS_PigeonHole

LEMMA PlacedStep ==
    ASSUME Receiver!TypeOK, Placed, [Receiver!Next]_(Receiver!vars)
    PROVE  Placed'
<1> USE WindowFacts
<1>t. \A c \in Alerts : since[c] \in 0..MaxEntries /\ left[c] \in Nat
  BY DEF Receiver!TypeOK
<1>1. CASE since' = since /\ \A c \in Alerts : left'[c] > 0 => left[c] > 0
  BY <1>1 DEF Placed, Receiver!Cached
<1>2. ASSUME NEW a \in Alerts, Receiver!Accept(a) PROVE Placed'
  <2>1. /\ \A c \in Alerts : since'[c] = IF c = a THEN 0 ELSE Receiver!Later(since[c])
        /\ left[a] = 0
    BY <1>2 DEF Receiver!Accept, Receiver!Unseen
  <2>2. \A c \in Alerts : c # a /\ left'[c] > 0 => left[c] > 0
    BY <1>2 DEF Receiver!Accept, Receiver!TypeOK, Receiver!OldestBut, Receiver!Cached
  <2>3. \A c \in Alerts : c # a => since'[c] > 0
    BY <1>t, <2>1 DEF Receiver!Later
  <2>4. ASSUME NEW x \in Alerts, NEW y \in Alerts, left'[x] > 0, left'[y] > 0,
               since'[x] = since'[y], since'[x] < MaxEntries
        PROVE  x = y
    <3>1. CASE x = a \/ y = a
      BY <2>1, <2>3, <2>4, <3>1
    <3>2. CASE x # a /\ y # a
      <4>1. left[x] > 0 /\ left[y] > 0
        BY <2>2, <2>4, <3>2
      <4>2. since[x] = since[y] /\ since[x] < MaxEntries
        BY <1>t, <2>1, <2>4, <3>2 DEF Receiver!Later
      <4> QED  BY <4>1, <4>2 DEF Placed, Receiver!Cached
    <3> QED  BY <3>1, <3>2
  <2> QED  BY <2>4 DEF Placed, Receiver!Cached
<1>3. CASE Receiver!Tick
  <2>1. since' = since /\ \A c \in Alerts : left'[c] > 0 => left[c] > 0
    BY <1>t, <1>3 DEF Receiver!Tick, Receiver!Spent
  <2> QED  BY <1>1, <2>1
<1>4. ASSUME NEW a \in Alerts, Receiver!Send(a) PROVE Placed'
  BY <1>1, <1>4 DEF Receiver!Send
<1>5. CASE UNCHANGED Receiver!vars
  BY <1>1, <1>5 DEF Receiver!vars
<1> QED  BY <1>2, <1>3, <1>4, <1>5 DEF Receiver!Next

LEMMA RememberedStep ==
    ASSUME TTL > Window + Skew, AgainInv, [Receiver!Next]_(Receiver!vars), NEW b \in Alerts
    PROVE  Remembered(b)'
<1> USE WindowFacts
<1>t. /\ age[b] \in Int /\ left[b] \in Nat /\ applied[b] \in 0..2
         /\ since[b] \in 0..MaxEntries
      /\ age[b] >= Receiver!Unsent /\ Remembered(b)
  BY DEF AgainInv, Receiver!TypeOK
<1>1. CASE Receiver!Tick
  <2>1. /\ age'[b] = IF age[b] = Receiver!Unsent \/ age[b] = Receiver!OldAge
                     THEN age[b] ELSE age[b] + 1
        /\ left'[b] = (IF left[b] > 0 THEN left[b] - 1 ELSE 0)
        /\ applied'[b] = applied[b] /\ since'[b] = since[b]
    BY <1>1 DEF Receiver!Tick, Receiver!Spent
  <2>2. CASE age[b] = Receiver!OldAge
    BY <1>t, <2>1, <2>2 DEF Remembered, Receiver!OldAge
  <2>3. CASE age[b] # Receiver!OldAge
    BY <1>t, <2>1, <2>3 DEF Remembered
  <2> QED  BY <2>2, <2>3
<1>2. ASSUME NEW a \in Alerts, Receiver!Send(a) PROVE Remembered(b)'
  <2>1. CASE b = a
    <3>1. applied'[b] = 0
      BY <1>2, <2>1 DEF Receiver!Send, AgainInv, Receiver!TypeOK
    <3> QED  BY <3>1 DEF Remembered
  <2>2. CASE b # a
    <3>1. applied'[b] = applied[b] /\ age'[b] = age[b] /\ left'[b] = left[b] /\ since'
          = since
      BY <1>2, <2>2 DEF Receiver!Send, AgainInv, Receiver!TypeOK
    <3> QED  BY <1>t, <3>1 DEF Remembered
  <2> QED  BY <2>1, <2>2
<1>3. ASSUME NEW a \in Alerts, Receiver!Accept(a) PROVE Remembered(b)'
  <2>1. age' = age /\ since' = [c \in Alerts |-> IF c = a THEN 0
        ELSE Receiver!Later(since[c])]
    BY <1>3 DEF Receiver!Accept
  <2>2. CASE b = a
    <3>1. age[b] # Receiver!Unsent /\ age[b] <= Window
      BY <1>3, <2>2 DEF Receiver!Accept, Receiver!Unseen, Receiver!Fresh
    <3>2. age[b] >= -Skew
      BY <1>t, <3>1 DEF Receiver!Unsent, Receiver!Lowest
    <3>3. left'[b] = TTL
      <4>1. CASE left' = [left EXCEPT ![a] = TTL]
        BY <2>2, <4>1 DEF AgainInv, Receiver!TypeOK
      <4>2. ASSUME NEW o \in Receiver!OldestBut(a), left' = [left EXCEPT ![a] = TTL, ![o]
                   = 0]
            PROVE  left'[b] = TTL
        <5>1. o # a
          BY DEF Receiver!OldestBut
        <5> QED  BY <2>2, <4>2, <5>1 DEF AgainInv, Receiver!TypeOK
      <4> QED  BY <1>3, <4>1, <4>2 DEF Receiver!Accept
    <3>4. age[b] + TTL > Window
      BY <1>t, <3>2
    <3>5. age'[b] = age[b] /\ left'[b] > 0 /\ age'[b] + left'[b] > Window
      BY <2>1, <3>3, <3>4
    <3> QED  BY <3>1, <3>5 DEF Remembered
  <2>3. CASE b # a
    <3>1. /\ applied'[b] = applied[b] /\ age'[b] = age[b]
          /\ since'[b] = Receiver!Later(since[b])
      BY <1>3, <2>1, <2>3 DEF Receiver!Accept, AgainInv, Receiver!TypeOK
    <3>2. since'[b] < MaxEntries => since[b] < MaxEntries
      BY <1>t, <3>1 DEF Receiver!Later
    <3>3. CASE left'[b] = left[b]
      BY <1>t, <3>1, <3>2, <3>3 DEF Remembered
    <3>4. CASE left'[b] # left[b]
      <4>1. Receiver!Overflows(a) /\ b \in Receiver!OldestBut(a)
        BY <1>3, <2>3, <3>4 DEF Receiver!Accept, AgainInv, Receiver!TypeOK
      <4>2. a \notin Receiver!Cached
        BY <1>3 DEF Receiver!Accept, Receiver!Unseen, Receiver!Cached
      <4>3. since'[b] = MaxEntries
        BY <3>1, <4>1, <4>2, OldestIsOld DEF AgainInv
      <4> QED  BY <4>3 DEF Remembered
    <3> QED  BY <3>3, <3>4
  <2> QED  BY <2>2, <2>3
<1>4. CASE UNCHANGED Receiver!vars
  BY <1>t, <1>4 DEF Receiver!vars, Remembered
<1> QED  BY <1>1, <1>2, <1>3, <1>4 DEF Receiver!Next

(* If an entry outlives the freshness of its alert, an alert is let through  *)
(* again only when as many others were let through since as the cache of     *)
(* _is_replay holds: full or not, shedding costs nothing else.               *)
THEOREM AgainAfterOthers ==
    ASSUME TTL > Window + Skew
    PROVE  Receiver!Spec => Receiver!AgainOnlyAfterOthers
<1>1. Receiver!Init => AgainInv
  <2> SUFFICES ASSUME Receiver!Init PROVE AgainInv
    OBVIOUS
  <2>1. Placed /\ \A a \in Alerts : Remembered(a)
    BY DEF Receiver!Init, Placed, Remembered, Receiver!Cached
  <2> QED  BY <2>1, ReceiverTypeInit DEF AgainInv
<1>2. AgainInv /\ [Receiver!Next]_(Receiver!vars) => AgainInv'
  BY ReceiverTypeStep, PlacedStep, RememberedStep DEF AgainInv
<1>3. ASSUME AgainInv, [Receiver!Next]_(Receiver!vars), NEW a \in Alerts,
             applied'[a] > applied[a], applied[a] > 0
      PROVE  since[a] >= MaxEntries
  <2>1. applied[a] \in 0..2 /\ since[a] \in 0..MaxEntries /\ MaxEntries \in Nat
    BY <1>3, WindowFacts DEF AgainInv, Receiver!TypeOK
  <2>2. PICK b \in Alerts : Receiver!Accept(b) \/ Receiver!Send(b)
    BY <1>3, <2>1 DEF Receiver!Next, Receiver!vars, Receiver!Tick
  <2>3. Receiver!Accept(a)
    BY <1>3, <2>1, <2>2 DEF Receiver!Accept, Receiver!Send, AgainInv, Receiver!TypeOK
  <2>4. age[a] # Receiver!Unsent /\ ~(age[a] > Window) /\ left[a] = 0
    <3>1. age[a] \in Int /\ Window \in Int
      BY <1>3, WindowFacts DEF AgainInv, Receiver!TypeOK
    <3> QED  BY <2>3, <3>1 DEF Receiver!Accept, Receiver!Unseen, Receiver!Fresh
  <2>5. Remembered(a)
    BY <1>3 DEF AgainInv
  <2> QED  BY <1>3, <2>1, <2>4, <2>5 DEF Remembered
<1>4. AgainInv /\ [Receiver!Next]_(Receiver!vars) =>
        [\A a \in Alerts :
            applied'[a] > applied[a] /\ applied[a] > 0
              => since[a] >= MaxEntries]_(Receiver!vars)
  BY <1>3
<1> QED  BY <1>1, <1>2, <1>4, PTL DEF Receiver!Spec, Receiver!AgainOnlyAfterOthers
-----------------------------------------------------------------------------
(* The task group.                                                          *)

LEMMA GroupCard == \A S : Group!Cardinality(S) = Cardinality(S)
  BY DEF Group!Cardinality, Cardinality

(* The tasks there have been, those not accounted for, and those accounted   *)
(* for that ended as e.                                                      *)
Started == {j \in Jobs : work[j] # "none"}
Busy == Started \ settled
Recorded(e) == {j \in settled : work[j] = e}

GroupShape ==
    /\ body \in {"offer", "acquire", "granted", "exit", "left"} /\ broken \in BOOLEAN
    /\ offered \subseteq Jobs /\ wanted \in Jobs \cup {Group!NoJob}
    /\ work \in [Jobs -> {"none", "running"} \cup Group!Ends]
    /\ settled \subseteq Jobs /\ asked \subseteq Jobs /\ slots \in Nat
    /\ verdict \in {"none", "cancelled", "nothing collected", "collected"}

(* What the body knows of its tasks: who was offered, who may be cancelled,  *)
(* and that nobody is at work once it has left.                              *)
GroupLinks ==
    /\ Started \subseteq offered
    /\ \A j \in settled : work[j] \in Group!Ends
    /\ body \in {"acquire", "granted"} => wanted \in Jobs \ offered
    /\ body \in {"exit", "left"} /\ ~broken => offered = Jobs
    /\ ~broken => asked = {} /\ \A j \in Jobs : work[j] # "cancelled"
    /\ body = "left" => Busy = {}
    /\ body # "left" => verdict = "none"

(* The semaphore and the counters count these sets.                          *)
GroupBooks ==
    /\ slots + Cardinality(Busy) + (IF body = "granted" THEN 1 ELSE 0) = MaxConcurrency
    /\ created = Cardinality(Started) /\ completed = Cardinality(settled)
    /\ failed = Cardinality(Recorded("error"))
    /\ cancelled = Cardinality(Recorded("cancelled"))
    /\ backoffs = Cardinality(offered \ Started)

GroupIInv == GroupShape /\ GroupLinks /\ GroupBooks /\ Group!JudgedByAll

-----------------------------------------------------------------------------
LEMMA JobSets ==
    ASSUME NEW S \in SUBSET Jobs
    PROVE  /\ IsFiniteSet(S) /\ Cardinality(S) \in Nat
              /\ Cardinality(S) <= Cardinality(Jobs)
           /\ \A j \in S : Cardinality(S \ {j}) = Cardinality(S) - 1
           /\ \A j : j \notin S => Cardinality(S \cup {j}) = Cardinality(S) + 1
<1>1. IsFiniteSet(S) /\ Cardinality(S) \in Nat /\ Cardinality(S) <= Cardinality(Jobs)
  BY GroupAssumption, FS_Subset, FS_CardinalityType
<1>2. \A j \in S : Cardinality(S \ {j}) = Cardinality(S) - 1
  BY <1>1, FS_RemoveElement
<1>3. \A j : j \notin S => Cardinality(S \cup {j}) = Cardinality(S) + 1
  BY <1>1, FS_AddElement
<1> QED  BY <1>1, <1>2, <1>3

(* The sets, as the definitions of the group name them.                      *)
LEMMA GroupSets ==
    ASSUME GroupShape, GroupLinks
    PROVE  /\ Started \subseteq Jobs /\ Busy \subseteq Jobs
              /\ offered \ Started \subseteq Jobs
           /\ settled \subseteq Started
           /\ \A e : Recorded(e) \subseteq Jobs
           /\ Group!Running \cup Group!Unsettled = Busy
<1>1. \A j \in settled : work[j] # "none" /\ work[j] # "running"
  BY DEF GroupLinks, Group!Ends
<1>2. \A j \in Jobs : work[j] \in {"none", "running"} \cup Group!Ends
  BY DEF GroupShape
<1>3. "none" \notin Group!Ends
  BY DEF Group!Ends
<1> QED  BY <1>1, <1>2, <1>3
         DEF GroupShape, Started, Busy, Recorded, Group!Running, Group!Unsettled

(* Only a step of the exit says how the cycle went; a group that was left    *)
(* does not move any more.                                                   *)
LEMMA JudgedKept ==
    ASSUME GroupIInv, GroupLinks', body' # "left" \/ UNCHANGED Group!vars
    PROVE  Group!JudgedByAll'
  BY DEF GroupIInv, GroupLinks, Group!JudgedByAll, Group!Did, Group!vars, Group!counters

(* A task is created for a job that had not been offered.                    *)
LEMMA SpawnKeeps ==
    ASSUME GroupIInv, NEW j \in Jobs, j \notin offered, Group!Spawn(j), settled' = settled
    PROVE  /\ work' \in [Jobs -> {"none", "running"} \cup Group!Ends]
           /\ Started' = Started \cup {j} /\ Started' \subseteq offered'
           /\ \A i \in settled : work'[i] \in Group!Ends
           /\ \A i \in Jobs : work'[i] = "cancelled" => work[i] = "cancelled"
           /\ Cardinality(Busy') = Cardinality(Busy) + 1
           /\ created' = Cardinality(Started') /\ offered' \subseteq Jobs
           /\ \A e : Recorded(e)' = Recorded(e)
           /\ offered' \ Started' = offered \ Started
<1> USE DEF GroupIInv
<1>1. work \in [Jobs -> {"none", "running"} \cup Group!Ends] /\ work' = [work EXCEPT ![j]
           = "running"]
  BY DEF GroupShape, Group!Spawn
<1>2. work' \in [Jobs -> {"none", "running"} \cup Group!Ends]
  BY <1>1
<1>3. j \notin Started /\ j \notin settled
  BY GroupSets DEF GroupLinks
<1>4. Started' = Started \cup {j}
  BY <1>1 DEF Started
<1>5. Busy' = Busy \cup {j} /\ j \notin Busy
  BY <1>3, <1>4 DEF Busy
<1>6. Cardinality(Busy') = Cardinality(Busy) + 1
  BY <1>5, GroupSets, JobSets
<1>7. created' = Cardinality(Started')
  <2>1. Cardinality(Started \cup {j}) = Cardinality(Started) + 1
    BY <1>3, GroupSets, JobSets
  <2> QED  BY <1>4, <2>1 DEF GroupBooks, Group!Spawn
<1>8. \A i \in settled : i \in Jobs /\ i # j /\ work'[i] = work[i]
  BY <1>1, <1>3 DEF GroupShape
<1>9. \A e : Recorded(e)' = Recorded(e)
  BY <1>8 DEF Recorded
<1>10. offered' = offered \cup {j}
  BY DEF Group!Spawn
<1>11. \A i \in Jobs : work'[i] = "cancelled" => work[i] = "cancelled"
  BY <1>1
<1> QED  BY <1>2, <1>4, <1>6, <1>7, <1>8, <1>9, <1>10, <1>11 DEF GroupLinks, GroupShape

(* At the exit every task is accounted for, so that the counters tell what   *)
(* the workers did: a task that was cancelled was so by a cancelled body.    *)
LEMMA ExitJudges ==
    ASSUME GroupIInv, Group!Exit
    PROVE  Group!JudgedByAll'
<1> USE DEF GroupIInv
<1>1. settled = Started /\ work' = work /\ UNCHANGED <<created, completed>>
  BY GroupSets DEF Group!Exit, Group!Waited, Busy, Group!counters
<1>2. /\ Cardinality(settled) \in Nat /\ Cardinality(Recorded("error")) \in Nat
      /\ Cardinality(Recorded("cancelled")) \in Nat
  BY GroupSets, JobSets DEF GroupShape
<1>3. /\ verdict' = Group!Judgement /\ created' = completed'
      /\ Group!Succeeded = Cardinality(settled) - Cardinality(Recorded("cancelled"))
                             - Cardinality(Recorded("error"))
  BY <1>1 DEF Group!Exit, Group!Succeeded, GroupBooks
<1>4. ASSUME ~broken
      PROVE  /\ Recorded("cancelled") = {} /\ Cardinality(Recorded("cancelled")) = 0
             /\ offered = Jobs
  <2>1. Recorded("cancelled") = {} /\ offered = Jobs
    BY <1>4 DEF Recorded, GroupLinks, GroupShape, Group!Exit
  <2> QED  BY <2>1, FS_EmptySet
<1>5. ASSUME ~broken, Group!Succeeded = 0
      PROVE  Group!Did("ok") = {}
  <2>1. Recorded("error") \subseteq settled /\ settled \subseteq Jobs
        /\ IsFiniteSet(settled)
    BY GroupSets, JobSets DEF Recorded, GroupShape
  <2>2. Cardinality(Recorded("error")) = Cardinality(settled)
    BY <1>2, <1>3, <1>4, <1>5
  <2>3. Recorded("error") = settled
    BY <2>1, <2>2, FS_Subset
  <2> QED  BY <1>1, <2>3 DEF Recorded, Started, Group!Did
<1>6. ASSUME ~broken, Group!Did("ok") = {}, Jobs # {}
      PROVE  verdict' = "nothing collected"
  <2>1. \A j \in settled : work[j] \in {"ok", "error", "cancelled"}
    BY DEF GroupLinks, Group!Ends
  <2>2. settled = Recorded("error")
    BY <1>4, <1>6, <2>1 DEF Recorded, GroupShape, Group!Did
  <2>3. Group!Succeeded = 0
    BY <1>2, <1>3, <1>4, <1>6, <2>2
  <2>4. failed > 0 \/ backoffs = Cardinality(Jobs)
    <3>1. CASE settled = {}
      BY <1>1, <1>4, <1>6, <3>1 DEF GroupBooks
    <3>2. CASE settled # {}
      <4>1. Cardinality(settled) # 0
        BY <3>2, FS_EmptySet, JobSets DEF GroupShape
      <4> QED  BY <1>2, <2>2, <4>1 DEF GroupBooks
    <3> QED  BY <3>1, <3>2
  <2> QED  BY <1>3, <1>6, <2>3, <2>4, GroupCard DEF Group!Judgement
<1>7. verdict' = "nothing collected" => ~broken /\ Group!Succeeded = 0
  BY <1>3 DEF Group!Judgement
<1>8. verdict' = "collected" => ~broken
  BY <1>3 DEF Group!Judgement
<1>9. \A e : Group!Did(e)' = Group!Did(e)
  BY <1>1 DEF Group!Did
<1> QED  BY <1>3, <1>5, <1>6, <1>7, <1>8, <1>9 DEF Group!JudgedByAll

LEMMA GroupStep ==
    ASSUME GroupIInv, [Group!Next]_(Group!vars)
    PROVE  GroupIInv'
<1> USE DEF GroupIInv
<1>s. /\ Started \subseteq Jobs /\ Busy \subseteq Jobs /\ offered \ Started \subseteq Jobs
      /\ settled \subseteq Started /\ Group!Running \cup Group!Unsettled = Busy
  BY GroupSets
<1>n. /\ slots \in Nat /\ MaxConcurrency \in Nat /\ Cardinality(Busy) \in Nat
      /\ slots + Cardinality(Busy) + (IF body = "granted" THEN 1 ELSE 0) = MaxConcurrency
  BY <1>s, JobSets, GroupAssumption DEF GroupShape, GroupBooks
<1>1. ASSUME NEW j \in Jobs, Group!Skip(j) PROVE GroupIInv'
  <2>1. Started' = Started /\ Busy' = Busy /\ \A e : Recorded(e)' = Recorded(e)
    BY <1>1 DEF Group!Skip, Started, Busy, Recorded
  <2>2. GroupShape' /\ GroupLinks'
    BY <1>1, <2>1 DEF Group!Skip, GroupShape, GroupLinks
  <2>3. j \notin offered \ Started /\ offered' \ Started' = (offered \ Started) \cup {j}
    BY <1>1, <2>1 DEF Group!Skip, GroupLinks
  <2>4. Cardinality(offered' \ Started') = Cardinality(offered \ Started) + 1
    BY <1>s, <2>3, JobSets
  <2>5. GroupBooks'
    BY <1>1, <2>1, <2>4 DEF Group!Skip, Group!counters, GroupBooks
  <2> QED  BY <1>1, <2>2, <2>5, JudgedKept DEF Group!Skip
<1>2. ASSUME NEW j \in Jobs, Group!Offer(j) PROVE GroupIInv'
  <2>1. CASE slots = 0
    <3>1. UNCHANGED <<offered, work, created, slots, settled>> /\ body' = "acquire"
                    /\ wanted' = j
      BY <1>2, <2>1 DEF Group!Offer
    <3>2. Started' = Started /\ Busy' = Busy /\ \A e : Recorded(e)' = Recorded(e)
      BY <3>1 DEF Started, Busy, Recorded
    <3>3. GroupShape' /\ GroupLinks'
      BY <1>2, <3>1, <3>2 DEF Group!Offer, GroupShape, GroupLinks
    <3>4. GroupBooks'
      BY <1>2, <3>1, <3>2 DEF Group!Offer, GroupBooks
    <3> QED  BY <1>2, <3>1, <3>3, <3>4, JudgedKept
  <2>2. CASE slots > 0 /\ slots' = slots - 1 /\ Group!Spawn(j) /\ UNCHANGED <<body, wanted>>
    <3>1. j \notin offered /\ body = "offer" /\ settled' = settled
      BY <1>2 DEF Group!Offer
    <3>2. /\ work' \in [Jobs -> {"none", "running"} \cup Group!Ends]
          /\ Started' \subseteq offered'
          /\ \A i \in settled : work'[i] \in Group!Ends
          /\ \A i \in Jobs : work'[i] = "cancelled" => work[i] = "cancelled"
          /\ Cardinality(Busy') = Cardinality(Busy) + 1
          /\ created' = Cardinality(Started') /\ offered' \subseteq Jobs
          /\ \A e : Recorded(e)' = Recorded(e)
          /\ offered' \ Started' = offered \ Started
      BY <2>2, <3>1, SpawnKeeps
    <3>3. GroupShape'
      <4>1. slots' \in Nat
        BY <1>n, <2>2
      <4> QED  BY <1>2, <2>2, <3>2, <4>1 DEF Group!Offer, GroupShape
    <3>4. GroupLinks'
      BY <1>2, <2>2, <3>1, <3>2 DEF Group!Offer, GroupLinks
    <3>5. GroupBooks'
      <4>1. slots' + Cardinality(Busy') + (IF body' = "granted" THEN 1 ELSE 0)
            = MaxConcurrency
        BY <1>n, <2>2, <3>1, <3>2
      <4> QED  BY <1>2, <3>2, <4>1 DEF Group!Offer, GroupBooks
    <3> QED  BY <2>2, <3>1, <3>3, <3>4, <3>5, JudgedKept
  <2> QED  BY <1>2, <2>1, <2>2 DEF Group!Offer
<1>3. CASE Group!Admit
  <2>1. wanted \in Jobs /\ wanted \notin offered /\ body = "granted" /\ settled' = settled
        /\ Group!Spawn(wanted)
    BY <1>3 DEF Group!Admit, GroupLinks
  <2>2. /\ work' \in [Jobs -> {"none", "running"} \cup Group!Ends]
        /\ Started' \subseteq offered'
        /\ \A i \in settled : work'[i] \in Group!Ends
        /\ \A i \in Jobs : work'[i] = "cancelled" => work[i] = "cancelled"
        /\ Cardinality(Busy') = Cardinality(Busy) + 1
        /\ created' = Cardinality(Started') /\ offered' \subseteq Jobs
        /\ \A e : Recorded(e)' = Recorded(e)
        /\ offered' \ Started' = offered \ Started
    BY <2>1, SpawnKeeps
  <2>3. GroupShape'
    BY <1>3, <2>2 DEF Group!Admit, GroupShape
  <2>4. GroupLinks'
    BY <1>3, <2>1, <2>2 DEF Group!Admit, GroupLinks
  <2>5. GroupBooks'
    <3>1. slots' + Cardinality(Busy') + (IF body' = "granted" THEN 1 ELSE 0)
          = MaxConcurrency
      BY <1>n, <1>3, <2>1, <2>2 DEF Group!Admit
    <3> QED  BY <1>3, <2>2, <3>1 DEF Group!Admit, GroupBooks
  <2> QED  BY <1>3, <2>3, <2>4, <2>5, JudgedKept DEF Group!Admit
<1>4. ASSUME NEW j \in Jobs, NEW e \in Group!Ends, Group!Finish(j, e) PROVE GroupIInv'
  <2>1. work[j] = "running" /\ work' = [work EXCEPT ![j] = e] /\ e # "none" /\ j \in Busy
    BY <1>4, <1>s DEF Group!Finish, Group!Running, Group!Ends
  <2>2. work' \in [Jobs -> {"none", "running"} \cup Group!Ends]
    BY <2>1 DEF GroupShape
  <2>3. j \notin settled /\ \A i \in settled : i \in Jobs /\ i # j /\ work'[i] = work[i]
    BY <2>1 DEF GroupShape, Busy
  <2>4. Started' = Started
    BY <2>1 DEF Started, GroupShape
  <2>5. Busy' = Busy /\ \A x : Recorded(x)' = Recorded(x)
    BY <1>4, <2>3, <2>4 DEF Group!Finish, Busy, Recorded
  <2>6. body # "left" /\ body' = body
    BY <1>4, <2>1 DEF Group!Finish, GroupLinks
  <2>7. GroupShape'
    BY <1>4, <2>2 DEF Group!Finish, GroupShape
  <2>8. e = "cancelled" => broken
    BY <1>4 DEF Group!Finish, GroupLinks
  <2>9. \A i \in Jobs : work'[i] = "cancelled" => work[i] = "cancelled" \/ e = "cancelled"
    BY <2>1 DEF GroupShape
  <2>10. GroupLinks'
    BY <1>4, <2>3, <2>4, <2>5, <2>6, <2>8, <2>9 DEF Group!Finish, GroupLinks
  <2>11. GroupBooks'
    BY <1>4, <2>4, <2>5 DEF Group!Finish, Group!counters, GroupBooks
  <2> QED  BY <2>6, <2>7, <2>10, <2>11, JudgedKept
<1>5. ASSUME NEW j \in Jobs, Group!OnComplete(j) PROVE GroupIInv'
  <2>1. /\ j \in Busy /\ j \notin settled /\ work[j] \in Group!Ends
        /\ settled' = settled \cup {j} /\ work' = work
    BY <1>5, <1>s DEF Group!OnComplete, Group!Unsettled
  <2>2. Started' = Started /\ Busy' = Busy \ {j}
    BY <2>1 DEF Started, Busy
  <2>3. /\ Cardinality(Busy') = Cardinality(Busy) - 1
        /\ Cardinality(Busy) \in Nat /\ Cardinality(settled) \in Nat
        /\ Cardinality(settled') = Cardinality(settled) + 1
    BY <1>s, <2>1, <2>2, JobSets DEF GroupShape
  <2>4. ASSUME NEW e
        PROVE  Cardinality(Recorded(e)') = Cardinality(Recorded(e)) + (IF work[j] = e
               THEN 1 ELSE 0)
    <3>1. Recorded(e) \subseteq Jobs /\ j \notin Recorded(e)
      BY <2>1, GroupSets DEF Recorded
    <3>2. CASE work[j] = e
      <4>1. Recorded(e)' = Recorded(e) \cup {j}
        BY <2>1, <3>2 DEF Recorded
      <4> QED  BY <3>1, <3>2, <4>1, JobSets
    <3>3. CASE work[j] # e
      <4>1. Recorded(e)' = Recorded(e) /\ Cardinality(Recorded(e)) \in Nat
        BY <2>1, <3>1, <3>3, JobSets DEF Recorded
      <4> QED  BY <3>3, <4>1
    <3> QED  BY <3>2, <3>3
  <2>5. body # "left"
    BY <2>1 DEF GroupLinks
  <2>6. \/ body = "acquire" /\ body' = "granted" /\ slots' = slots
        \/ body # "acquire" /\ body' = body /\ slots' = slots + 1
    BY <1>5 DEF Group!OnComplete, Group!Freed
  <2>7. GroupShape'
    <3>1. slots' \in Nat
      BY <1>n, <2>6
    <3> QED  BY <1>5, <2>1, <2>6, <3>1 DEF Group!OnComplete, GroupShape
  <2>8. GroupLinks'
    BY <1>5, <2>1, <2>2, <2>5, <2>6 DEF Group!OnComplete, GroupLinks
  <2>9. GroupBooks'
    <3>1. slots' + Cardinality(Busy') + (IF body' = "granted" THEN 1 ELSE 0)
          = MaxConcurrency
      BY <1>n, <2>3, <2>6
    <3>2. /\ completed' = completed + 1
          /\ failed' = failed + (IF work[j] = "error" THEN 1 ELSE 0)
          /\ cancelled' = cancelled + (IF work[j] = "cancelled" THEN 1 ELSE 0)
          /\ UNCHANGED <<created, backoffs, offered>>
      BY <1>5 DEF Group!OnComplete, Group!Counted
    <3>3. /\ failed' = Cardinality(Recorded("error")')
          /\ cancelled' = Cardinality(Recorded("cancelled")')
      BY <2>4, <3>2 DEF GroupBooks
    <3> QED  BY <2>2, <2>3, <3>1, <3>2, <3>3 DEF GroupBooks
  <2>10. body' # "left"
    BY <2>5, <2>6
  <2> QED  BY <2>7, <2>8, <2>9, <2>10, JudgedKept
<1>6. CASE Group!Leave
  <2>1. Started' = Started /\ Busy' = Busy /\ \A e : Recorded(e)' = Recorded(e)
    BY <1>6 DEF Group!Leave, Started, Busy, Recorded
  <2>2. GroupShape' /\ GroupLinks'
    BY <1>6, <2>1 DEF Group!Leave, GroupShape, GroupLinks
  <2>3. GroupBooks'
    BY <1>6, <2>1 DEF Group!Leave, Group!counters, GroupBooks
  <2> QED  BY <1>6, <2>2, <2>3, JudgedKept DEF Group!Leave
<1>7. CASE Group!Cancel
  <2>1. Started' = Started /\ Busy' = Busy /\ \A e : Recorded(e)' = Recorded(e)
    BY <1>7 DEF Group!Cancel, Started, Busy, Recorded
  <2>2. Group!Running \subseteq Jobs
    BY DEF Group!Running
  <2>3. GroupShape'
    <3>1. slots' \in Nat
      BY <1>n, <1>7 DEF Group!Cancel
    <3> QED  BY <1>7, <2>2, <3>1 DEF Group!Cancel, GroupShape
  <2>4. GroupLinks'
    BY <1>7, <2>1 DEF Group!Cancel, GroupLinks
  <2>5. GroupBooks'
    <3>1. slots' + Cardinality(Busy') + (IF body' = "granted" THEN 1 ELSE 0)
          = MaxConcurrency
      BY <1>n, <1>7, <2>1 DEF Group!Cancel
    <3> QED  BY <1>7, <2>1, <3>1 DEF Group!Cancel, Group!counters, GroupBooks
  <2> QED  BY <1>7, <2>3, <2>4, <2>5, JudgedKept DEF Group!Cancel
<1>8. CASE Group!Exit
  <2>1. Started' = Started /\ Busy' = Busy /\ \A e : Recorded(e)' = Recorded(e)
    BY <1>8 DEF Group!Exit, Started, Busy, Recorded
  <2>2. Busy = {} /\ settled = Started
    BY <1>8, <1>s DEF Group!Exit, Group!Waited, Busy
  <2>3. /\ verdict' = Group!Judgement
        /\ verdict' \in {"cancelled", "nothing collected", "collected"}
    BY <1>8 DEF Group!Exit, Group!Judgement
  <2>4. GroupShape' /\ GroupLinks'
    BY <1>8, <2>1, <2>2, <2>3 DEF Group!Exit, GroupShape, GroupLinks
  <2>5. GroupBooks'
    BY <1>8, <2>1 DEF Group!Exit, Group!counters, GroupBooks
  <2>6. Group!JudgedByAll'
    BY <1>8, ExitJudges
  <2> QED  BY <2>4, <2>5, <2>6
<1>9. CASE UNCHANGED Group!vars
  <2>1. Started' = Started /\ Busy' = Busy /\ \A e : Recorded(e)' = Recorded(e)
    BY <1>9 DEF Group!vars, Started, Busy, Recorded
  <2>2. GroupShape' /\ GroupLinks'
    BY <1>9, <2>1 DEF Group!vars, GroupShape, GroupLinks
  <2>3. GroupBooks'
    BY <1>9, <2>1 DEF Group!vars, Group!counters, GroupBooks
  <2> QED  BY <1>9, <2>2, <2>3, JudgedKept
<1> QED  BY <1>1, <1>2, <1>3, <1>4, <1>5, <1>6, <1>7, <1>8, <1>9 DEF Group!Next

LEMMA GroupBegins == Group!Init => GroupIInv
<1> SUFFICES ASSUME Group!Init PROVE GroupIInv
  OBVIOUS
<1>1. Started = {} /\ Busy = {} /\ settled = {} /\ offered = {} /\ \A e : Recorded(e) = {}
  BY DEF Group!Init, Started, Busy, Recorded
<1>2. GroupShape
  BY GroupAssumption DEF Group!Init, GroupShape, Group!Ends
<1>3. GroupLinks
  BY <1>1 DEF Group!Init, GroupLinks
<1>4. GroupBooks
  <2>1. Cardinality({}) = 0 /\ offered \ Started = {}
    BY <1>1, FS_EmptySet
  <2>2. slots + 0 + 0 = MaxConcurrency /\ body # "granted"
    BY GroupAssumption DEF Group!Init
  <2>3. created = 0 /\ completed = 0 /\ failed = 0 /\ cancelled = 0 /\ backoffs = 0
    BY DEF Group!Init
  <2> QED  BY <1>1, <2>1, <2>2, <2>3 DEF GroupBooks
<1>5. Group!JudgedByAll
  BY DEF Group!Init, Group!JudgedByAll
<1> QED  BY <1>2, <1>3, <1>4, <1>5 DEF GroupIInv

LEMMA GroupPromises == GroupIInv => Group!GroupInv
<1> SUFFICES ASSUME GroupIInv PROVE Group!GroupInv
  OBVIOUS
<1> USE DEF GroupIInv
<1>1. Group!SlotsConserved
  BY GroupSets, GroupCard DEF GroupBooks, Group!SlotsConserved
<1>2. Group!NoOrphans
  BY GroupSets DEF GroupLinks, Group!NoOrphans
<1>3. Group!TypeOK
  <2>1. slots \in 0..MaxConcurrency
    <3>1. Cardinality(Busy) \in Nat
      BY GroupSets, JobSets
    <3>2. slots \in Nat /\ MaxConcurrency \in Nat
          /\ slots + Cardinality(Busy) + (IF body = "granted" THEN 1 ELSE 0)
             = MaxConcurrency
      BY GroupAssumption DEF GroupBooks, GroupShape
    <3> QED  BY <3>1, <3>2
  <2>2. backoffs \in 0..Cardinality(Jobs)
    <3>1. offered \ Started \in SUBSET Jobs
      BY DEF GroupShape
    <3> QED  BY <3>1, JobSets, GroupAssumption, FS_CardinalityType DEF GroupBooks
  <2>3. /\ created \in 0..Cardinality(Jobs) /\ completed \in 0..Cardinality(Jobs)
        /\ failed \in 0..Cardinality(Jobs) /\ cancelled \in 0..Cardinality(Jobs)
    <3>1. /\ Started \in SUBSET Jobs /\ settled \in SUBSET Jobs
          /\ Recorded("error") \in SUBSET Jobs /\ Recorded("cancelled") \in SUBSET Jobs
      BY GroupSets DEF GroupShape
    <3>2. \A S \in SUBSET Jobs : Cardinality(S) \in 0..Cardinality(Jobs)
      BY JobSets, GroupAssumption, FS_CardinalityType
    <3> QED  BY <3>1, <3>2 DEF GroupBooks
  <2> QED  BY <2>1, <2>2, <2>3, GroupCard DEF GroupShape, Group!TypeOK
<1> QED  BY <1>1, <1>2, <1>3 DEF Group!GroupInv

(* However many jobs and slots, however the workers end and wherever the     *)
(* body is cancelled: ManagedTaskGroup loses and invents no slot, leaves no  *)
(* worker behind, and the coordinator judges the cycle by what all of them   *)
(* did.                                                                      *)
THEOREM GroupSafe == Group!Spec => []Group!GroupInv
  BY GroupBegins, GroupStep, GroupPromises, PTL DEF Group!Spec
-----------------------------------------------------------------------------
(* The store of the clients.  Its size is a sum over the networks, and the    *)
(* merges of several networks interleave.                                     *)

LEMMA StoreCard == \A S : Store!Cardinality(S) = Cardinality(S)
  BY DEF Store!Cardinality, Cardinality

(* The clients kept, as a sum over the networks.                              *)
Sizes(k) == [n \in Networks |-> Cardinality(k[n])]
Held(k) == MapThenSumSet(LAMBDA n : Cardinality(k[n]), Networks)

LEMMA TotalIsHeld == Store!Total = Held(kept) /\ Store!Total' = Held(kept')
  BY StoreCard DEF Store!Total, Store!MapThenSumSet, Store!MapThenFoldSet, Held,
      MapThenSumSet, MapThenFoldSet, Store!Cardinality, Cardinality

LEMMA SizesNatural ==
    ASSUME NEW k \in [Networks -> SUBSET ClientIds]
    PROVE  /\ Sizes(k) \in [Networks -> Nat]
           /\ \A n \in Networks : IsFiniteSet(k[n])
<1>1. ASSUME NEW n \in Networks PROVE IsFiniteSet(k[n]) /\ Cardinality(k[n]) \in Nat
  BY ClientsAssumption, FS_Subset, FS_CardinalityType
<1> QED  BY <1>1 DEF Sizes

LEMMA HeldIsSum ==
    ASSUME NEW k \in [Networks -> SUBSET ClientIds]
    PROVE  Held(k) = Sum(Sizes(k), Networks)
<1> DEFINE w == Sizes(k)
           Folds(f) == f = [t \in SUBSET Networks |->
                               IF t = {} THEN 0
                               ELSE Cardinality(k[CHOOSE x \in t : TRUE])
                                    + f[t \ {CHOOSE x \in t : TRUE}]]
           f0 == CHOOSE f : Folds(f)
           sums == [t \in SUBSET Networks |-> Sum(w, t)]
<1>1. Held(k) = f0[Networks]
  BY DEF Held, MapThenSumSet, MapThenFoldSet
<1>2. IsFiniteSet(Networks) /\ w \in [Networks -> Nat]
  BY ClientsAssumption, SizesNatural
<1>3. Folds(sums)
  <2>1. ASSUME NEW t \in SUBSET Networks, t # {}
        PROVE  sums[t] = w[CHOOSE x \in t : TRUE] + sums[t \ {CHOOSE x \in t : TRUE}]
    <3> DEFINE x == CHOOSE x \in t : TRUE
    <3>1. x \in t /\ t \ {x} \in SUBSET Networks
      BY <2>1
    <3> HIDE DEF x, w
    <3>2. Sum(w, t) = w[x] + Sum(w, t \ {x})
      BY <1>2, <3>1, SumFacts
    <3> QED  BY <3>1, <3>2 DEF x
  <2>2. sums[{}] = 0
    <3> HIDE DEF w
    <3> QED  BY <1>2, SumFacts
  <2>3. \A t \in SUBSET Networks :
            sums[t] = IF t = {} THEN 0
                      ELSE Cardinality(k[CHOOSE x \in t : TRUE]) + sums[t \ {CHOOSE x \in t : TRUE}]
    <3> HIDE DEF sums
    <3> QED  BY <2>1, <2>2 DEF Sizes
  <2> QED  BY <2>3
<1>4. Folds(f0)
  <2> HIDE DEF Folds
  <2> QED  BY <1>3
<1>5. f0[{}] = 0 /\ \A t \in SUBSET Networks : t # {} => \E x \in t : f0[t] = w[x] + f0[t \ {x}]
  <2> HIDE DEF f0
  <2> QED  BY <1>4 DEF Sizes
<1>6. f0[Networks] = Sum(w, Networks)
  <2> HIDE DEF f0, w
  <2> QED  BY <1>2, <1>5, SumByElements
<1> QED  BY <1>1, <1>6

-----------------------------------------------------------------------------
(* What a cut leaves is part of the list: all of it, or as much as there may be. *)
LEMMA CutFacts ==
    ASSUME NEW c \in SUBSET ClientIds, NEW k \in Nat, NEW r \in Store!Cut(c, k)
    PROVE  /\ r \subseteq c /\ IsFiniteSet(r) /\ Cardinality(r) \in Nat
           /\ Cardinality(r) <= k
           /\ r = c \/ Cardinality(r) = k
<1>1. IsFiniteSet(c) /\ Cardinality(c) \in Nat
  BY ClientsAssumption, FS_Subset, FS_CardinalityType
<1>2. r \subseteq c /\ Cardinality(r) = Store!Least(Cardinality(c), k)
  BY StoreCard DEF Store!Cut, Store!kSubset
<1>3. IsFiniteSet(r) /\ (Cardinality(r) = Cardinality(c) => r = c)
  BY <1>1, <1>2, FS_Subset
<1>4. (Cardinality(r) = Cardinality(c) /\ Cardinality(c) <= k) \/ Cardinality(r) = k
  BY <1>1, <1>2 DEF Store!Least
<1> QED  BY <1>1, <1>2, <1>3, <1>4

CutsSmall == \A n \in Networks : Cardinality(allowed[n]) <= PerNetwork

StoreIInv == Store!StoreBounded /\ CutsSmall

(* A merge adds what enters, and no more enters than there is room for; it    *)
(* leaves out a client of its list only if it fills the store.                *)
LEMMA MergeFacts ==
    ASSUME Store!TypeOK, Store!Total <= InAll, NEW n \in Networks,
           NEW some \in SUBSET ClientIds,
           NEW merged \in Store!Merged(n, some), kept' = [kept EXCEPT ![n] = merged]
    PROVE  /\ merged \subseteq ClientIds
           /\ Store!Total' <= InAll
           /\ some \subseteq merged \/ Store!Total' = InAll
<1>1. kept \in [Networks -> SUBSET ClientIds] /\ InAll \in Nat
  BY ClientsAssumption DEF Store!TypeOK
<1> DEFINE T == Store!Total
           room == Store!Remaining(T)
<1>2. T = Sum(Sizes(kept), Networks) /\ T \in Nat
  BY <1>1, TotalIsHeld, HeldIsSum, SizesNatural, SumFacts, ClientsAssumption
<1>3. room = InAll - T /\ room \in Nat
  <2> HIDE DEF T
  <2> QED  BY <1>1, <1>2 DEF Store!Remaining, T
<1>4. PICK entered \in Store!Cut(some \ kept[n], room) : merged = kept[n] \cup entered
  BY DEF Store!Merged
<1>5. /\ entered \subseteq some \ kept[n] /\ IsFiniteSet(entered) /\ Cardinality(entered) \in Nat
      /\ Cardinality(entered) <= room
      /\ entered = some \ kept[n] \/ Cardinality(entered) = room
  <2> DEFINE new == some \ kept[n]
  <2>1. new \in SUBSET ClientIds /\ entered \in Store!Cut(new, room)
    BY <1>4
  <2> HIDE DEF T, room, new
  <2>2. /\ entered \subseteq new /\ IsFiniteSet(entered) /\ Cardinality(entered) \in Nat
        /\ Cardinality(entered) <= room
        /\ entered = new \/ Cardinality(entered) = room
    BY <1>3, <2>1, CutFacts
  <2> QED  BY <2>2 DEF new
<1>6. merged \subseteq ClientIds /\ kept' \in [Networks -> SUBSET ClientIds]
  BY <1>1, <1>4, <1>5
<1>7. Cardinality(merged) = Cardinality(kept[n]) + Cardinality(entered)
  <2>1. IsFiniteSet(kept[n]) /\ Cardinality(kept[n]) \in Nat
    BY <1>1, SizesNatural, FS_CardinalityType
  <2>2. kept[n] \cap entered = {}
    BY <1>5
  <2>3. Cardinality(kept[n] \cap entered) = 0
    BY <2>2, FS_EmptySet
  <2>4. Cardinality(kept[n] \cup entered)
        = Cardinality(kept[n]) + Cardinality(entered) - Cardinality(kept[n] \cap entered)
    BY <1>5, <2>1, FS_Union
  <2> QED  BY <1>4, <1>5, <2>1, <2>3, <2>4
<1>8. Store!Total' = T + Cardinality(entered)
  <2>1. Sum(Sizes(kept'), Networks) = Sum(Sizes(kept), Networks) - Sizes(kept)[n] + Sizes(kept')[n]
    <3>1. Sizes(kept) \in [Networks -> Nat] /\ Sizes(kept') \in [Networks -> Nat]
      BY <1>1, <1>6, SizesNatural
    <3>2. \A m \in Networks \ {n} : Sizes(kept')[m] = Sizes(kept)[m]
      BY <1>1 DEF Sizes
    <3>3. IsFiniteSet(Networks)
      BY ClientsAssumption
    <3> DEFINE w == Sizes(kept)
               v == Sizes(kept')
    <3>4. /\ w \in [Networks -> Nat] /\ v \in [Networks -> Nat]
          /\ \A m \in Networks \ {n} : v[m] = w[m]
      BY <3>1, <3>2
    <3> HIDE DEF w, v
    <3>5. Sum(v, Networks) = Sum(w, Networks) - w[n] + v[n]
      BY <3>3, <3>4, SumChange
    <3> QED  BY <3>5 DEF w, v
  <2>2. Sizes(kept)[n] = Cardinality(kept[n]) /\ Sizes(kept')[n] = Cardinality(merged)
    BY <1>1 DEF Sizes
  <2>3. Store!Total' = Sum(Sizes(kept'), Networks)
    BY <1>6, TotalIsHeld, HeldIsSum
  <2>4. Cardinality(kept[n]) \in Nat
    BY <1>1, SizesNatural, FS_CardinalityType
  <2> HIDE DEF T
  <2> QED  BY <1>2, <1>5, <1>7, <2>1, <2>2, <2>3, <2>4
<1>9. Store!Total' <= InAll /\ (Cardinality(entered) = room => Store!Total' = InAll)
  <2> HIDE DEF T, room
  <2> QED  BY <1>1, <1>2, <1>3, <1>5, <1>8
<1> QED  BY <1>4, <1>5, <1>6, <1>9

LEMMA StoreBegins == Store!Init => StoreIInv
<1> SUFFICES ASSUME Store!Init PROVE StoreIInv
  OBVIOUS
<1>1. kept \in [Networks -> SUBSET ClientIds] /\ Sizes(kept) = [n \in Networks |-> 0]
  BY FS_EmptySet DEF Store!Init, Sizes
<1>2. Area(Sizes(kept), Networks) = {}
  BY <1>1 DEF Area
<1>3. Store!Total = 0
  BY <1>1, <1>2, TotalIsHeld, HeldIsSum, FS_EmptySet DEF Sum
<1>4. Store!TypeOK
  <2>1. StoreTTL + 1 \in 0..(StoreTTL + 1) /\ 0 \in 0..InAll
    BY ClientsAssumption
  <2> QED  BY <2>1 DEF Store!Init, Store!TypeOK
<1>5. CutsSmall
  BY FS_EmptySet, ClientsAssumption DEF Store!Init, CutsSmall
<1> QED  BY <1>3, <1>4, <1>5, ClientsAssumption DEF StoreIInv, Store!StoreBounded

LEMMA UpdateOK ==
    ASSUME StoreIInv, NEW n \in Networks, Store!Update(n)
    PROVE  /\ StoreIInv'
           /\ allowed[n] \subseteq kept'[n] \/ Store!Total' = InAll
<1>1. /\ Store!TypeOK /\ Store!Total <= InAll /\ CutsSmall
      /\ allowed[n] \in SUBSET ClientIds /\ kept \in [Networks -> SUBSET ClientIds]
      /\ allowed \in [Networks -> SUBSET ClientIds]
      /\ quiet \in [Networks -> 0..(StoreTTL + 1)]
  BY DEF StoreIInv, Store!StoreBounded, Store!TypeOK
<1>2. PICK some \in Store!Cut(allowed[n], PerNetwork) : \E merged \in Store!Merged(n, some) :
          kept' = [kept EXCEPT ![n] = merged]
  BY DEF Store!Update
<1>3. PICK merged \in Store!Merged(n, some) : kept' = [kept EXCEPT ![n] = merged]
  BY <1>2
<1>4. some = allowed[n]
  <2>1. PerNetwork \in Nat /\ Cardinality(allowed[n]) <= PerNetwork
    BY <1>1, ClientsAssumption DEF CutsSmall
  <2>2. some \subseteq allowed[n] /\ (some = allowed[n] \/ Cardinality(some) = PerNetwork)
    BY <1>1, <1>2, <2>1, CutFacts
  <2>3. IsFiniteSet(allowed[n]) /\ Cardinality(allowed[n]) \in Nat
    BY <1>1, ClientsAssumption, FS_Subset, FS_CardinalityType
  <2>4. Cardinality(some) <= Cardinality(allowed[n])
        /\ (Cardinality(allowed[n]) = Cardinality(some) => some = allowed[n])
    BY <2>2, <2>3, FS_Subset
  <2> QED  BY <2>1, <2>2, <2>3, <2>4
<1>5. /\ merged \subseteq ClientIds /\ Store!Total' <= InAll
      /\ some \subseteq merged \/ Store!Total' = InAll
  BY <1>1, <1>3, <1>4, MergeFacts
<1>6. Store!TypeOK'
  BY <1>1, <1>3, <1>5, ClientsAssumption DEF Store!Update, Store!TypeOK
<1>7. CutsSmall'
  <2>1. allowed' = [allowed EXCEPT ![n] = {}]
    BY DEF Store!Update
  <2> QED  BY <1>1, <2>1, FS_EmptySet, ClientsAssumption DEF CutsSmall
<1> QED  BY <1>1, <1>3, <1>4, <1>5, <1>6, <1>7 DEF StoreIInv, Store!StoreBounded

LEMMA ListedOK ==
    ASSUME StoreIInv, NEW n \in Networks, Store!Listed(n)
    PROVE  StoreIInv'
<1>1. PICK clients \in SUBSET ClientIds : \E some \in Store!Allow(clients) :
          /\ allowed' = [allowed EXCEPT ![n] = some]
          /\ emitted' = emitted + Cardinality(some)
  BY StoreCard DEF Store!Listed
<1>2. PICK some \in Store!Allow(clients) :
          /\ allowed' = [allowed EXCEPT ![n] = some]
          /\ emitted' = emitted + Cardinality(some)
  BY <1>1
<1>3. /\ emitted \in 0..InAll /\ InAll \in Nat /\ PerNetwork \in Nat
      /\ allowed \in [Networks -> SUBSET ClientIds]
      /\ Store!TypeOK /\ Store!Total <= InAll /\ CutsSmall
  BY ClientsAssumption DEF StoreIInv, Store!StoreBounded, Store!TypeOK
<1> DEFINE most == Store!Least(PerNetwork, InAll - emitted)
<1>4. most \in Nat /\ most <= PerNetwork /\ most <= InAll - emitted
  BY <1>3 DEF Store!Least
<1>5. some \subseteq clients /\ Cardinality(some) \in Nat /\ Cardinality(some) <= most
  <2>1. some \in Store!Cut(clients, most)
    BY DEF Store!Allow
  <2> HIDE DEF most
  <2> QED  BY <1>4, <2>1, CutFacts
<1>6. emitted' \in 0..InAll /\ Cardinality(some) <= PerNetwork
  <2> HIDE DEF most
  <2> QED  BY <1>2, <1>3, <1>4, <1>5
<1>7. Store!TypeOK' /\ kept' = kept
  BY <1>2, <1>3, <1>5, <1>6 DEF Store!Listed, Store!TypeOK
<1>8. CutsSmall'
  BY <1>2, <1>3, <1>6 DEF CutsSmall
<1>9. Store!Total' = Store!Total
  BY <1>7, TotalIsHeld
<1> QED  BY <1>3, <1>7, <1>8, <1>9 DEF StoreIInv, Store!StoreBounded

(* Eviction takes networks whole. *)
LEMMA FinishOK ==
    ASSUME StoreIInv, Store!Finish
    PROVE  StoreIInv'
<1>1. /\ kept \in [Networks -> SUBSET ClientIds] /\ Store!TypeOK /\ CutsSmall
      /\ Store!Total <= InAll /\ InAll \in Nat
  BY ClientsAssumption DEF StoreIInv, Store!StoreBounded, Store!TypeOK
<1>2. kept' \in [Networks -> SUBSET ClientIds] /\ \A n \in Networks : kept'[n] \in {{}, kept[n]}
  BY <1>1 DEF Store!Finish, Store!Evicted
<1>3. Store!TypeOK' /\ CutsSmall'
  BY <1>1, <1>2 DEF Store!Finish, Store!TypeOK, CutsSmall
<1>4. Sum(Sizes(kept'), Networks) <= Sum(Sizes(kept), Networks)
  <2>1. Sizes(kept) \in [Networks -> Nat] /\ Sizes(kept') \in [Networks -> Nat]
    BY <1>1, <1>2, SizesNatural
  <2>2. ASSUME NEW n \in Networks PROVE Sizes(kept')[n] <= Sizes(kept)[n]
    <3>1. Sizes(kept)[n] = Cardinality(kept[n]) /\ Sizes(kept')[n] = Cardinality(kept'[n])
      BY DEF Sizes
    <3>2. Cardinality(kept[n]) \in Nat
      BY <2>1, <3>1
    <3> QED  BY <1>2, <3>1, <3>2, FS_EmptySet
  <2> QED  BY <2>1, <2>2, SumGrows, ClientsAssumption
<1>5. Store!Total' <= InAll
  <2>1. Store!Total' = Sum(Sizes(kept'), Networks) /\ Store!Total = Sum(Sizes(kept), Networks)
    BY <1>1, <1>2, TotalIsHeld, HeldIsSum
  <2>2. Sum(Sizes(kept'), Networks) \in Nat /\ Sum(Sizes(kept), Networks) \in Nat
    BY <1>1, <1>2, SizesNatural, SumFacts, ClientsAssumption
  <2> QED  BY <1>1, <1>4, <2>1, <2>2
<1> QED  BY <1>3, <1>5 DEF StoreIInv, Store!StoreBounded

LEMMA StoreStep ==
    ASSUME StoreIInv, [Store!Next]_(Store!vars)
    PROVE  StoreIInv'
<1>1. /\ Store!TypeOK /\ Store!Total <= InAll /\ CutsSmall
  BY DEF StoreIInv, Store!StoreBounded
<1>2. kept' = kept => Store!Total' = Store!Total
  BY TotalIsHeld
<1>3. ASSUME kept' = kept, Store!TypeOK', CutsSmall' PROVE StoreIInv'
  BY <1>1, <1>2, <1>3 DEF StoreIInv, Store!StoreBounded
<1>4. allowed' = allowed => CutsSmall'
  BY <1>1 DEF CutsSmall
<1>5. CASE Store!Begin
  BY <1>1, <1>3, <1>4, <1>5, ClientsAssumption DEF Store!Begin, Store!TypeOK
<1>6. CASE Store!NoOrganizations
  BY <1>1, <1>3, <1>4, <1>6, ClientsAssumption DEF Store!NoOrganizations, Store!TypeOK
<1>7. CASE Store!Finish
  BY <1>7, FinishOK
<1>8. CASE Store!CutShort
  <2>1. CutsSmall'
    BY <1>8, FS_EmptySet, ClientsAssumption DEF Store!CutShort, CutsSmall
  <2> QED  BY <1>1, <1>3, <1>8, <2>1 DEF Store!CutShort, Store!TypeOK
<1>9. CASE Store!Tick
  <2>1. \A n \in Networks : Store!Least(quiet[n] + 1, StoreTTL + 1) \in 0..(StoreTTL + 1)
    BY <1>1, ClientsAssumption DEF Store!TypeOK, Store!Least
  <2> QED  BY <1>1, <1>3, <1>4, <1>9, <2>1 DEF Store!Tick, Store!TypeOK
<1>10. ASSUME NEW n \in Networks, Store!Listed(n) PROVE StoreIInv'
  BY <1>10, ListedOK
<1>11. ASSUME NEW n \in Networks, Store!Failed(n) PROVE StoreIInv'
  BY <1>1, <1>3, <1>4, <1>11 DEF Store!Failed, Store!TypeOK
<1>12. ASSUME NEW n \in Networks, Store!Update(n) PROVE StoreIInv'
  BY <1>12, UpdateOK
<1>13. CASE UNCHANGED Store!vars
  BY <1>1, <1>3, <1>4, <1>13 DEF Store!vars, Store!TypeOK
<1> QED  BY <1>5, <1>6, <1>7, <1>8, <1>9, <1>10, <1>11, <1>12, <1>13 DEF Store!Next

LEMMA StoreInductive == Store!Spec => []StoreIInv
<1>1. StoreIInv /\ [Store!Next]_(Store!vars) => StoreIInv'
  BY StoreStep
<1> QED  BY <1>1, StoreBegins, PTL DEF Store!Spec

(* The store keeps to its bound while networks are merged side by side.       *)
THEOREM StoreStaysBounded == Store!Spec => []Store!StoreBounded
  BY StoreInductive, PTL DEF StoreIInv

(* A client of a list is left out only when the store is full.                *)
THEOREM NoneLeftOut == Store!Spec => Store!LeftOutOnlyWhenFull
<1>1. StoreIInv /\ [Store!Next]_(Store!vars)
      => [\A n \in naming \ naming' :
            busy' => allowed[n] \subseteq kept'[n] \/ Store!Total' = InAll]_(Store!vars)
  <2> SUFFICES ASSUME StoreIInv, Store!Next, NEW n \in naming \ naming', busy'
               PROVE  allowed[n] \subseteq kept'[n] \/ Store!Total' = InAll
    OBVIOUS
  <2>1. n \in Networks
    BY DEF StoreIInv, Store!StoreBounded, Store!TypeOK
  <2>2. Store!Update(n)
    BY DEF Store!Next, Store!Begin, Store!NoOrganizations, Store!Finish, Store!CutShort,
        Store!Tick, Store!Listed, Store!Failed, Store!Update
  <2> QED  BY <2>1, <2>2, UpdateOK
<1> QED  BY <1>1, StoreInductive, PTL DEF Store!Spec, Store!LeftOutOnlyWhenFull

-----------------------------------------------------------------------------
(* The resolver of the clients' names.                                        *)

Entries == [client : Movers, addr : Addresses]

(* A record of the addresses that keeps to its bound, and addresses left.     *)
Records == {q \in Seq(Entries) : Len(q) <= NameEntries}
Tracks == [known : Records, left : SUBSET Addresses]

TrackStep(x, e) ==
    [known |-> Resolver!Recorded(x.known, e), left |-> x.left \cup Resolver!Left(x.known, e)]

LEMMA TrackStepFacts ==
    ASSUME NEW x \in Tracks, NEW e \in Entries
    PROVE  TrackStep(x, e) \in Tracks
<1> DEFINE q == x.known
<1>1. q \in Seq(Entries) /\ Len(q) <= NameEntries /\ NameEntries \in Nat \ {0}
  BY ClientsAssumption DEF Tracks, Records
<1> HIDE DEF q
<1>2. Resolver!Recorded(q, e) \in Records
  <2>1. CASE \E i \in DOMAIN q : q[i].client = e.client
    <3> DEFINE r == [i \in DOMAIN q |-> IF q[i].client = e.client THEN e ELSE q[i]]
    <3>1. r \in Seq(Entries) /\ Len(r) = Len(q)
      BY <1>1
    <3>2. Resolver!Recorded(q, e) = r
      BY <2>1 DEF Resolver!Recorded
    <3> HIDE DEF r
    <3> QED  BY <1>1, <3>1, <3>2 DEF Records
  <2>2. CASE ~(\E i \in DOMAIN q : q[i].client = e.client) /\ Len(q) = NameEntries
    <3>1. q # <<>>
      BY <1>1, <2>2
    <3>2. Tail(q) \in Seq(Entries) /\ Len(Tail(q)) = Len(q) - 1
      BY <1>1, <3>1
    <3>3. Append(Tail(q), e) \in Seq(Entries) /\ Len(Append(Tail(q), e)) = Len(q)
      BY <1>1, <3>2
    <3>4. Resolver!Recorded(q, e) = Append(Tail(q), e)
      BY <2>2 DEF Resolver!Recorded
    <3> QED  BY <1>1, <3>3, <3>4 DEF Records
  <2>3. CASE ~(\E i \in DOMAIN q : q[i].client = e.client) /\ Len(q) # NameEntries
    <3>1. Append(q, e) \in Seq(Entries) /\ Len(Append(q, e)) = Len(q) + 1
      BY <1>1
    <3>2. Resolver!Recorded(q, e) = Append(q, e)
      BY <2>3 DEF Resolver!Recorded
    <3> QED  BY <1>1, <2>3, <3>1, <3>2 DEF Records
  <2> QED  BY <2>1, <2>2, <2>3
<1>3. Resolver!Left(q, e) \subseteq Addresses
  <2>1. \A i \in DOMAIN q : q[i] \in Entries
    BY <1>1
  <2>2. \A i \in DOMAIN q : q[i].addr \in Addresses
    BY <2>1 DEF Entries
  <2> QED  BY <2>2 DEF Resolver!Left
<1> QED  BY <1>2, <1>3 DEF TrackStep, Tracks, q

(* What a fold over a list computes for the first positions of it: on each    *)
(* set, the step at the last position after what the others come to.          *)
Follows(f, T, base, l) ==
    f = [s \in SUBSET T |->
            IF s = {} THEN base ELSE TrackStep(f[s \ {Max(s)}], l[Max(s)])]

LEMMA FollowsExists ==
    ASSUME NEW base, NEW l \in Seq(Entries)
    PROVE  \E f : Follows(f, DOMAIN l, base, l)
<1> DEFINE D == DOMAIN l
           Bad == {T \in SUBSET D : ~(\E f : Follows(f, T, base, l))}
<1>1. IsFiniteSet(D) /\ D \subseteq Int
  BY FS_Interval
<1>2. SUFFICES ASSUME Bad # {} PROVE FALSE
  OBVIOUS
<1>3. PICK T \in Bad : \A x \in T : T \ {x} \notin Bad
  <2>1. Bad \in SUBSET (SUBSET D)
    OBVIOUS
  <2> HIDE DEF Bad, D
  <2> QED  BY <1>1, <1>2, <2>1, MinimalSet
<1>4. T \subseteq D /\ ~(\E f : Follows(f, T, base, l))
  OBVIOUS
<1> HIDE DEF D
<1>5. T # {}
  <2>1. ASSUME T = {} PROVE FALSE
    <3> DEFINE f == [s \in SUBSET T |-> base]
    <3>1. Follows(f, T, base, l)
      BY <2>1 DEF Follows
    <3> QED  BY <1>4, <3>1
  <2> QED  BY <2>1
<1> DEFINE x == Max(T)
<1>6. x \in T /\ \A y \in T : x >= y
  <2>1. T \in SUBSET Int /\ IsFiniteSet(T)
    BY <1>1, <1>4, FS_Subset
  <2> QED  BY <1>5, <2>1, FiniteMax
<1>7. PICK g : Follows(g, T \ {x}, base, l)
  BY <1>3, <1>4, <1>6
<1> DEFINE f == [s \in SUBSET T |-> IF x \notin s THEN g[s] ELSE TrackStep(g[s \ {x}], l[x])]
<1> HIDE DEF x
<1>8. ASSUME NEW s \in SUBSET T
      PROVE  f[s] = IF s = {} THEN base ELSE TrackStep(f[s \ {Max(s)}], l[Max(s)])
  <2>1. CASE x \in s
    <3>1. Max(s) = x
      <4>1. s \in SUBSET Int /\ IsFiniteSet(s) /\ s # {} /\ x \in Int
        BY <1>1, <1>4, <1>6, <2>1, FS_Subset
      <4>2. Max(s) \in s /\ Max(s) >= x
        BY <2>1, <4>1, FiniteMax
      <4>3. x >= Max(s) /\ Max(s) \in Int
        BY <1>6, <4>1, <4>2
      <4> QED  BY <4>1, <4>2, <4>3
    <3>2. f[s] = TrackStep(g[s \ {x}], l[x]) /\ f[s \ {x}] = g[s \ {x}]
      BY <2>1
    <3> HIDE DEF f
    <3> QED  BY <2>1, <3>1, <3>2
  <2>2. CASE x \notin s
    <3>1. s \in SUBSET (T \ {x})
      BY <2>2
    <3>2. g[s] = IF s = {} THEN base ELSE TrackStep(g[s \ {Max(s)}], l[Max(s)])
      BY <1>7, <3>1 DEF Follows
    <3>3. f[s] = g[s] /\ f[s \ {Max(s)}] = g[s \ {Max(s)}]
      BY <2>2
    <3> HIDE DEF f
    <3> QED  BY <3>2, <3>3
  <2> QED  BY <2>1, <2>2
<1>9. Follows(f, T, base, l)
  <2>1. f = [s \in SUBSET T |-> f[s]]
    OBVIOUS
  <2> HIDE DEF f
  <2> QED  BY <1>8, <2>1 DEF Follows
<1> QED  BY <1>4, <1>9

LEMMA TrackFacts ==
    ASSUME NEW known \in Records, NEW l \in Seq(Entries)
    PROVE  Resolver!Track(known, l) \in Tracks
<1> DEFINE base == [known |-> known, left |-> {}]
           f == CHOOSE f : Follows(f, DOMAIN l, base, l)
           Bad == {s \in SUBSET DOMAIN l : f[s] \notin Tracks}
<1>1. Resolver!Track(known, l) = f[DOMAIN l]
  BY DEF Resolver!Track, Resolver!FoldLeft, Resolver!MapThenFoldSet, Resolver!Max, Max,
      Follows, TrackStep
<1>2. Follows(f, DOMAIN l, base, l)
  BY FollowsExists
<1>3. base \in Tracks
  BY DEF Tracks
<1>4. IsFiniteSet(DOMAIN l) /\ DOMAIN l \subseteq Int
  BY FS_Interval
<1>5. ASSUME Bad # {} PROVE FALSE
  <2>1. PICK s \in Bad : \A x \in s : s \ {x} \notin Bad
    <3>1. Bad \in SUBSET (SUBSET DOMAIN l)
      OBVIOUS
    <3> HIDE DEF Bad
    <3> QED  BY <1>4, <1>5, <3>1, MinimalSet
  <2>2. s \subseteq DOMAIN l /\ f[s] \notin Tracks
    OBVIOUS
  <2>3. f[s] = IF s = {} THEN base ELSE TrackStep(f[s \ {Max(s)}], l[Max(s)])
    <3> HIDE DEF f, base
    <3> QED  BY <1>2, <2>2 DEF Follows
  <2>4. s # {}
    BY <1>3, <2>2, <2>3
  <2>5. Max(s) \in s
    <3>1. IsFiniteSet(s)
      BY <1>4, <2>2, FS_Subset
    <3> QED  BY <1>4, <2>2, <2>4, <3>1, FiniteMax
  <2>6. f[s \ {Max(s)}] \in Tracks
    BY <2>1, <2>2, <2>5
  <2>7. l[Max(s)] \in Entries
    BY <2>2, <2>5
  <2> HIDE DEF f, base
  <2> QED  BY <2>2, <2>3, <2>4, <2>6, <2>7, TrackStepFacts
<1> QED  BY <1>1, <1>5

-----------------------------------------------------------------------------
LEMMA ResolverCard == \A S : Resolver!Cardinality(S) = Cardinality(S)
  BY DEF Resolver!Cardinality, Cardinality

(* What the invariant rests on: a network without a batch has no lookups, and *)
(* no address that is being looked up counts as vacated.                      *)
Batches ==
    /\ list \in [Networks -> Seq(Entries)]
    /\ put \in [Networks -> Nat] /\ taken \in [Networks -> Nat]
    /\ \A n \in Networks : Len(list[n]) <= MaxList[n] /\ (list[n] = <<>> => looking[n] = {})

NamesIInv ==
    /\ Resolver!NamesInv
    /\ Batches
    /\ Resolver!InFlight \cap vacated = {}

LEMMA ItemsFinite ==
    /\ IsFiniteSet(Resolver!Items) /\ IsFiniteSet(Networks \X Resolver!Items)
    /\ \A n \in Networks : 1..MaxList[n] \subseteq Resolver!Items
<1> DEFINE Places == [n \in Networks |-> 1..MaxList[n]]
<1>1. \A n \in Networks : IsFiniteSet(Places[n])
  <2>1. \A n \in Networks : MaxList[n] \in Int
    BY ClientsAssumption
  <2>2. \A n \in Networks : IsFiniteSet(1..MaxList[n])
    BY <2>1, FS_Interval
  <2> QED  BY <2>2
<1>2. IsFiniteSet({Places[n] : n \in Networks})
  <2> HIDE DEF Places
  <2> QED  BY ClientsAssumption, ValuesFinite
<1>3. Resolver!Items = UNION {Places[n] : n \in Networks}
  BY DEF Resolver!Items
<1>4. IsFiniteSet(UNION {Places[n] : n \in Networks})
  <2>1. \A T \in {Places[n] : n \in Networks} : IsFiniteSet(T)
    BY <1>1
  <2> HIDE DEF Places
  <2> QED  BY <1>2, <2>1, FS_UNION
<1>5. IsFiniteSet(Resolver!Items)
  <2> HIDE DEF Places
  <2> QED  BY <1>3, <1>4
<1>6. \A n \in Networks : 1..MaxList[n] \subseteq Resolver!Items
  BY <1>3
<1> QED  BY <1>5, <1>6, FS_Product, ClientsAssumption

LEMMA ListFacts ==
    ASSUME NEW n \in Networks, NEW l \in Resolver!Lists[n]
    PROVE  l \in Seq(Entries) /\ Len(l) <= MaxList[n] /\ l # <<>>
<1>1. l # <<>> /\ l \in Resolver!BoundedSeq(Entries, MaxList[n])
  BY DEF Resolver!Lists, Entries
<1>2. PICK m \in 0..MaxList[n] : l \in [1..m -> Entries]
  BY <1>1 DEF Resolver!BoundedSeq, Resolver!SeqOf
<1>3. m \in Nat /\ m <= MaxList[n]
  BY <1>2, ClientsAssumption
<1>4. l \in Seq(Entries) /\ Len(l) = m
  BY <1>2, <1>3
<1> QED  BY <1>1, <1>3, <1>4

(* The number of cached names and the threads, in terms of what they range over. *)
CachedNames(ages) == {a \in Addresses : ages[a] # Resolver!Absent}

LEMMA NamesFinite ==
    ASSUME NEW ages
    PROVE  IsFiniteSet(CachedNames(ages)) /\ Cardinality(CachedNames(ages)) \in Nat
<1>1. IsFiniteSet(CachedNames(ages))
  BY ClientsAssumption, FS_Subset DEF CachedNames
<1> QED  BY <1>1, FS_CardinalityType

LEMMA FewerCached ==
    ASSUME NEW new, NEW old, CachedNames(new) \subseteq CachedNames(old),
           Cardinality(CachedNames(old)) <= NameEntries
    PROVE  Cardinality(CachedNames(new)) <= NameEntries
<1>1. Cardinality(CachedNames(new)) <= Cardinality(CachedNames(old))
  BY NamesFinite, FS_Subset
<1>2. /\ Cardinality(CachedNames(new)) \in Nat /\ Cardinality(CachedNames(old)) \in Nat
      /\ NameEntries \in Nat
  BY NamesFinite, ClientsAssumption
<1> QED  BY <1>1, <1>2

(* A name put in the cache leaves it within its bound.                        *)
LEMMA PrunedFacts ==
    ASSUME nameAge \in [Addresses -> 0..Resolver!Absent],
           Cardinality(CachedNames(nameAge)) <= NameEntries, NEW a,
           NEW ages \in Resolver!Pruned([nameAge EXCEPT ![a] = 0])
    PROVE  /\ ages \in [Addresses -> 0..Resolver!Absent]
           /\ CachedNames(ages) \subseteq CachedNames(nameAge) \cup {a}
           /\ Cardinality(CachedNames(ages)) <= NameEntries
<1> DEFINE new == [nameAge EXCEPT ![a] = 0]
           expired == {b \in Addresses : new[b] = NameTTL}
           oldest == {b \in CachedNames(new) : \A c \in CachedNames(new) : new[c] <= new[b]}
<1>1. Resolver!Absent = NameTTL + 1 /\ NameTTL \in Nat \ {0} /\ NameEntries \in Nat
  BY ClientsAssumption DEF Resolver!Absent
<1>0. Resolver!Absent \in 0..Resolver!Absent /\ 0 \in 0..Resolver!Absent
  BY <1>1
<1>2. /\ new \in [Addresses -> 0..Resolver!Absent]
      /\ CachedNames(new) \subseteq CachedNames(nameAge) \cup {a}
  <2>1. new \in [Addresses -> 0..Resolver!Absent]
    BY <1>0
  <2>2. \A b \in Addresses : b # a => new[b] = nameAge[b]
    OBVIOUS
  <2> HIDE DEF new
  <2> QED  BY <2>1, <2>2 DEF CachedNames
<1>3. Cardinality(CachedNames(new)) <= NameEntries + 1
  <2>1. Cardinality(CachedNames(nameAge) \cup {a}) <= Cardinality(CachedNames(nameAge)) + 1
        /\ IsFiniteSet(CachedNames(nameAge) \cup {a}) /\ Cardinality(CachedNames(nameAge)) \in Nat
    <3>1. IsFiniteSet(CachedNames(nameAge)) /\ Cardinality(CachedNames(nameAge)) \in Nat
      BY NamesFinite
    <3>2. /\ IsFiniteSet(CachedNames(nameAge) \cup {a})
          /\ Cardinality(CachedNames(nameAge) \cup {a})
             = IF a \in CachedNames(nameAge) THEN Cardinality(CachedNames(nameAge))
               ELSE Cardinality(CachedNames(nameAge)) + 1
      BY <3>1, FS_AddElement
    <3> QED  BY <3>1, <3>2
  <2>2. Cardinality(CachedNames(new)) <= Cardinality(CachedNames(nameAge) \cup {a})
    BY <1>2, <2>1, FS_Subset
  <2>3. Cardinality(CachedNames(new)) \in Nat /\ Cardinality(CachedNames(nameAge) \cup {a}) \in Nat
    BY <2>1, NamesFinite, FS_CardinalityType
  <2> HIDE DEF new
  <2> QED  BY <1>1, <2>1, <2>2, <2>3
<1>4. ages \in (IF Cardinality(CachedNames(new)) <= NameEntries THEN {new}
                ELSE IF expired # {}
                THEN {[b \in Addresses |-> IF b \in expired THEN Resolver!Absent ELSE new[b]]}
                ELSE {[new EXCEPT ![b] = Resolver!Absent] : b \in oldest})
  BY ResolverCard DEF Resolver!Pruned, CachedNames
<1>5. ASSUME NEW b \in CachedNames(new), ages \in [Addresses -> 0..Resolver!Absent],
             CachedNames(ages) \subseteq CachedNames(new) \ {b}
      PROVE  Cardinality(CachedNames(ages)) <= NameEntries
  <2> HIDE DEF new
  <2>1. /\ IsFiniteSet(CachedNames(new) \ {b})
        /\ Cardinality(CachedNames(new) \ {b}) = Cardinality(CachedNames(new)) - 1
    BY NamesFinite, FS_RemoveElement
  <2>2. Cardinality(CachedNames(ages)) <= Cardinality(CachedNames(new) \ {b})
    BY <1>5, <2>1, FS_Subset
  <2>3. Cardinality(CachedNames(ages)) \in Nat /\ Cardinality(CachedNames(new)) \in Nat
    BY NamesFinite
  <2> QED  BY <1>1, <1>3, <2>1, <2>2, <2>3
<1>6. CASE Cardinality(CachedNames(new)) <= NameEntries
  <2>1. ages = new
    BY <1>4, <1>6
  <2> HIDE DEF new
  <2> QED  BY <1>2, <1>6, <2>1
<1>7. CASE ~(Cardinality(CachedNames(new)) <= NameEntries) /\ expired # {}
  <2>1. ages = [b \in Addresses |-> IF b \in expired THEN Resolver!Absent ELSE new[b]]
    BY <1>4, <1>7
  <2>2. PICK b \in Addresses : new[b] = NameTTL
    BY <1>7
  <2> HIDE DEF new
  <2>3. ages \in [Addresses -> 0..Resolver!Absent] /\ b \in CachedNames(new)
    BY <1>1, <1>2, <2>1, <2>2 DEF CachedNames
  <2>4. CachedNames(ages) \subseteq CachedNames(new) \ {b}
    BY <2>1, <2>2 DEF CachedNames
  <2> QED  BY <1>2, <1>5, <2>3, <2>4
<1>8. CASE ~(Cardinality(CachedNames(new)) <= NameEntries) /\ ~(expired # {})
  <2>1. PICK b \in CachedNames(new) : ages = [new EXCEPT ![b] = Resolver!Absent]
    BY <1>4, <1>8
  <2> HIDE DEF new
  <2>2. ages \in [Addresses -> 0..Resolver!Absent]
    BY <1>0, <1>2, <2>1
  <2>3. CachedNames(ages) \subseteq CachedNames(new) \ {b}
    BY <1>2, <2>1 DEF CachedNames
  <2> QED  BY <1>2, <1>5, <2>2, <2>3
<1> QED  BY <1>6, <1>7, <1>8

(* The batches. *)
LEMMA BatchesKept ==
    ASSUME NamesIInv, [Resolver!Next]_(Resolver!vars)
    PROVE  Batches' /\ Resolver!TypeOK'
<1>1. /\ Batches /\ Resolver!TypeOK /\ Lookups \in Nat /\ NameTTL \in Nat
      /\ Resolver!Absent \in 0..Resolver!Absent /\ Len(tracked) <= NameEntries
      /\ Resolver!Sentinels = Lookups /\ Resolver!Absent = NameTTL + 1
  <2>1. NameTTL \in Nat /\ Resolver!Absent = NameTTL + 1
    BY ClientsAssumption DEF Resolver!Absent
  <2>2. Resolver!Absent \in 0..Resolver!Absent
    BY <2>1
  <2> QED  BY <2>1, <2>2, ClientsAssumption
       DEF NamesIInv, Resolver!NamesInv, Resolver!Bounded, Resolver!Sentinels
<1>2. /\ \A n \in Networks : /\ list[n] \in Resolver!Lists[n] \cup {<<>>}
                             /\ taken[n] <= put[n] /\ put[n] <= Len(list[n]) + Lookups
      /\ looking \in [Networks -> SUBSET Resolver!Items] /\ done \in [Networks -> 0..Lookups]
      /\ threads \subseteq Networks \X Resolver!Items /\ hung \in Nat
      /\ nameAge \in [Addresses -> 0..Resolver!Absent]
      /\ tracked \in Seq(Entries) /\ vacated \subseteq Addresses
  BY <1>1 DEF Resolver!TypeOK, Entries
<1>3. /\ list \in [Networks -> Seq(Entries)]
      /\ put \in [Networks -> Nat] /\ taken \in [Networks -> Nat]
      /\ \A n \in Networks : Len(list[n]) <= MaxList[n] /\ (list[n] = <<>> => looking[n] = {})
  BY <1>1 DEF Batches
<1>4. ASSUME UNCHANGED Resolver!batches,
             threads' \subseteq Networks \X Resolver!Items, hung' \in Nat,
             nameAge' \in [Addresses -> 0..Resolver!Absent],
             tracked' \in Seq(Entries), vacated' \subseteq Addresses
      PROVE  Batches' /\ Resolver!TypeOK'
  BY <1>1, <1>4 DEF Batches, Resolver!TypeOK, Resolver!batches, Entries
<1>5. ASSUME NEW n \in Networks, Resolver!Over(n), threads' \subseteq threads, hung' \in Nat
      PROVE  Batches' /\ Resolver!TypeOK'
  <2>1. /\ list' = [list EXCEPT ![n] = <<>>] /\ put' = [put EXCEPT ![n] = 0]
        /\ taken' = [taken EXCEPT ![n] = 0] /\ looking' = [looking EXCEPT ![n] = {}]
        /\ done' = [done EXCEPT ![n] = 0] /\ nameAge' = nameAge /\ tracked' = tracked
        /\ vacated' = vacated
    BY <1>5 DEF Resolver!Over, Resolver!names
  <2>2. MaxList[n] \in Nat
    BY ClientsAssumption
  <2>3. Batches'
    <3>1. /\ list' \in [Networks -> Seq(Entries)]
          /\ put' \in [Networks -> Nat] /\ taken' \in [Networks -> Nat]
      BY <1>3, <2>1
    <3>2. \A m \in Networks : Len(list'[m]) <= MaxList[m] /\ (list'[m] = <<>> => looking'[m] = {})
      BY <1>2, <1>3, <2>1, <2>2
    <3> QED  BY <3>1, <3>2 DEF Batches
  <2>4. \A m \in Networks : /\ list'[m] \in Resolver!Lists[m] \cup {<<>>}
                            /\ taken'[m] <= put'[m] /\ put'[m] <= Len(list'[m]) + Lookups
    BY <1>1, <1>2, <1>3, <2>1
  <2>5. looking' \in [Networks -> SUBSET Resolver!Items] /\ done' \in [Networks -> 0..Lookups]
    BY <1>1, <1>2, <2>1
  <2> QED  BY <1>1, <1>2, <1>5, <2>1, <2>3, <2>4, <2>5 DEF Resolver!TypeOK, Entries
<1>6. ASSUME NEW n \in Networks, NEW i, Resolver!Conclude(n, i), hung' \in Nat
      PROVE  Batches' /\ Resolver!TypeOK'
  <2>1. /\ UNCHANGED <<list, put, taken, done, tracked, vacated>>
        /\ looking' = [looking EXCEPT ![n] = @ \ {i}] /\ threads' \subseteq threads
        /\ nameAge' \in Resolver!Pruned([nameAge EXCEPT ![list[n][i].addr] = 0])
    BY <1>6 DEF Resolver!Conclude
  <2>2. nameAge' \in [Addresses -> 0..Resolver!Absent]
    <3>1. Cardinality(CachedNames(nameAge)) <= NameEntries
      BY ResolverCard
         DEF NamesIInv, Resolver!NamesInv, Resolver!Bounded, Resolver!Cached, CachedNames
    <3> QED  BY <1>2, <2>1, <3>1, PrunedFacts
  <2>3. looking' \in [Networks -> SUBSET Resolver!Items]
        /\ \A m \in Networks : looking'[m] \subseteq looking[m]
    BY <1>2, <2>1
  <2>4. Batches'
    BY <1>1, <2>1, <2>3 DEF Batches
  <2>5. threads' \subseteq Networks \X Resolver!Items
    BY <1>2, <2>1
  <2> QED  BY <1>1, <1>6, <2>1, <2>2, <2>3, <2>4, <2>5 DEF Resolver!TypeOK
<1>7. CASE Resolver!ClearCache
  <2>1. /\ UNCHANGED <<Resolver!batches, threads, hung, vacated>>
        /\ nameAge' = [a \in Addresses |-> Resolver!Absent] /\ tracked' = <<>>
    BY <1>7 DEF Resolver!ClearCache
  <2>2. nameAge' \in [Addresses -> 0..Resolver!Absent] /\ tracked' \in Seq(Entries)
    BY <1>1, <2>1
  <2> QED  BY <1>2, <1>4, <2>1, <2>2
<1>8. CASE Resolver!Tick
  <2>1. /\ UNCHANGED <<Resolver!batches, threads, hung, vacated, tracked>>
        /\ nameAge' = [a \in Addresses |->
                          IF nameAge[a] < NameTTL THEN nameAge[a] + 1 ELSE nameAge[a]]
    BY <1>8 DEF Resolver!Tick
  <2>2. nameAge' \in [Addresses -> 0..Resolver!Absent]
    BY <1>1, <1>2, <2>1
  <2> QED  BY <1>2, <1>4, <2>1, <2>2
<1>9. CASE Resolver!Return
  <2>1. UNCHANGED <<Resolver!batches, threads, Resolver!names>> /\ hung' = hung - 1 /\ hung > 0
    BY <1>9 DEF Resolver!Return
  <2> QED  BY <1>2, <1>4, <2>1 DEF Resolver!names
<1>10. ASSUME NEW n \in Networks, Resolver!Put(n) PROVE Batches' /\ Resolver!TypeOK'
  <2>1. /\ UNCHANGED <<list, taken, looking, done, threads, hung, nameAge, tracked, vacated>>
        /\ put' = [put EXCEPT ![n] = @ + 1] /\ put[n] < Len(list[n]) + Lookups
    BY <1>1, <1>10 DEF Resolver!Put, Resolver!names
  <2>2. put' \in [Networks -> Nat]
        /\ \A m \in Networks : taken[m] <= put'[m] /\ put'[m] <= Len(list[m]) + Lookups
    BY <1>1, <1>2, <1>3, <2>1
  <2> QED  BY <1>1, <2>1, <2>2 DEF Batches, Resolver!TypeOK
<1>11. ASSUME NEW n \in Networks, Resolver!Get(n) PROVE Batches' /\ Resolver!TypeOK'
  <2>1. /\ UNCHANGED <<list, put, threads, hung, tracked>> /\ list[n] # <<>>
        /\ taken' = [taken EXCEPT ![n] = @ + 1] /\ taken[n] < put[n]
        /\ done[n] + Cardinality(looking[n]) < Lookups
    BY <1>11, ResolverCard DEF Resolver!Get, Resolver!Idle, Resolver!Running
  <2>2. taken' \in [Networks -> Nat]
        /\ \A m \in Networks : taken'[m] <= put[m] /\ put[m] <= Len(list[m]) + Lookups
    BY <1>1, <1>2, <1>3, <2>1
  <2>3. ASSUME looking' \in [Networks -> SUBSET Resolver!Items], done' \in [Networks -> 0..Lookups],
               \A m \in Networks : list[m] = <<>> => looking'[m] = {},
               nameAge' \in [Addresses -> 0..Resolver!Absent], vacated' \subseteq Addresses
        PROVE  Batches' /\ Resolver!TypeOK'
    BY <1>1, <2>1, <2>2, <2>3 DEF Batches, Resolver!TypeOK
  <2>4. CASE taken[n] < Len(list[n]) /\ Resolver!GetClient(n, taken[n] + 1)
    <3> DEFINE i == taken[n] + 1
               a == list[n][i].addr
    <3>1. \/ UNCHANGED <<looking, done, nameAge, vacated>>
          \/ /\ looking' = [looking EXCEPT ![n] = @ \cup {i}] /\ done' = done
             /\ nameAge' = [nameAge EXCEPT ![a] = Resolver!Absent]
             /\ vacated' = vacated \ {a}
      BY <2>4 DEF Resolver!GetClient
    <3>2. i \in Resolver!Items
      <4>1. i \in 1..MaxList[n]
        <5>1. /\ taken[n] \in Nat /\ Len(list[n]) \in Nat
              /\ Len(list[n]) <= MaxList[n] /\ MaxList[n] \in Nat
          BY <1>3, ClientsAssumption
        <5> QED  BY <2>4, <5>1
      <4> QED  BY <4>1, ItemsFinite
    <3> HIDE DEF i, a
    <3>3. nameAge' \in [Addresses -> 0..Resolver!Absent]
      BY <1>1, <1>2, <3>1
    <3>4. looking' \in [Networks -> SUBSET Resolver!Items]
          /\ \A m \in Networks : list[m] = <<>> => looking'[m] = {}
      <4>1. CASE looking' = looking
        BY <1>2, <1>3, <4>1
      <4>2. CASE looking' = [looking EXCEPT ![n] = @ \cup {i}]
        BY <1>2, <1>3, <2>1, <3>2, <4>2
      <4> QED  BY <3>1, <4>1, <4>2
    <3>5. done' \in [Networks -> 0..Lookups] /\ vacated' \subseteq Addresses
      BY <1>2, <3>1
    <3> QED  BY <2>3, <3>3, <3>4, <3>5
  <2>5. CASE Resolver!GetSentinel(n)
    <3>1. done' = [done EXCEPT ![n] = @ + 1] /\ UNCHANGED <<looking, nameAge, vacated>>
      BY <2>5 DEF Resolver!GetSentinel
    <3>2. Cardinality(looking[n]) \in Nat
      BY <1>2, ItemsFinite, FS_Subset, FS_CardinalityType
    <3>3. done' \in [Networks -> 0..Lookups]
      BY <1>1, <1>2, <2>1, <3>1, <3>2
    <3> QED  BY <1>2, <1>3, <2>3, <3>1, <3>3
  <2> QED  BY <1>11, <2>4, <2>5 DEF Resolver!Get
<1>12. ASSUME NEW n \in Networks, Resolver!End(n) PROVE Batches' /\ Resolver!TypeOK'
  BY <1>2, <1>5, <1>12 DEF Resolver!End
<1>13. ASSUME NEW n \in Networks, Resolver!Cancel(n) PROVE Batches' /\ Resolver!TypeOK'
  <2>1. Cardinality(threads \cap ({n} \X Resolver!Items)) \in Nat
    <3>1. IsFiniteSet(threads)
      BY <1>2, ItemsFinite, FS_Subset
    <3> QED  BY <3>1, FS_Subset, FS_CardinalityType
  <2>2. threads' \subseteq threads /\ hung' \in Nat
    BY <1>2, <1>13, <2>1, ResolverCard DEF Resolver!Cancel
  <2> QED  BY <1>5, <1>13, <2>2 DEF Resolver!Cancel
<1>14. ASSUME NEW n \in Networks, NEW l \in Resolver!Lists[n], Resolver!Begin(n, l)
       PROVE  Batches' /\ Resolver!TypeOK'
  <2>1. /\ UNCHANGED <<put, taken, looking, done, threads, hung>>
        /\ list[n] = <<>> /\ list' = [list EXCEPT ![n] = l]
        /\ tracked' = Resolver!Track(tracked, l).known
        /\ nameAge' = Resolver!Forgotten(Resolver!Track(tracked, l).left)
        /\ vacated' \subseteq vacated \cup Resolver!Track(tracked, l).left
    BY <1>14 DEF Resolver!Begin
  <2>2. l \in Seq(Entries) /\ Len(l) <= MaxList[n] /\ l # <<>>
    BY ListFacts
  <2>3. Resolver!Track(tracked, l) \in Tracks
    BY <1>1, <1>2, <2>2, TrackFacts DEF Records
  <2>4. tracked' \in Seq(Entries) /\ vacated' \subseteq Addresses
    BY <1>2, <2>1, <2>3 DEF Tracks, Records
  <2>5. nameAge' \in [Addresses -> 0..Resolver!Absent]
    BY <1>1, <1>2, <2>1 DEF Resolver!Forgotten
  <2>6. list' \in [Networks -> Seq(Entries)]
    BY <1>3, <2>1, <2>2
  <2>7. \A m \in Networks : /\ list'[m] \in Resolver!Lists[m] \cup {<<>>}
                            /\ taken[m] <= put[m] /\ put[m] <= Len(list'[m]) + Lookups
    <3>1. Len(l) \in Nat /\ Len(list[n]) = 0 /\ put[n] \in Nat
      BY <1>3, <2>1, <2>2
    <3>2. put[n] <= Len(l) + Lookups
      BY <1>1, <1>2, <3>1
    <3> QED  BY <1>2, <1>3, <2>1, <3>2
  <2>8. \A m \in Networks : Len(list'[m]) <= MaxList[m] /\ (list'[m] = <<>> => looking[m] = {})
    BY <1>3, <2>1, <2>2
  <2> QED  BY <1>1, <1>2, <1>3, <2>1, <2>4, <2>5, <2>6, <2>7, <2>8
       DEF Batches, Resolver!TypeOK, Entries
<1>15. ASSUME NEW n \in Networks, NEW i \in Resolver!Items, Resolver!Start(n, i)
       PROVE  Batches' /\ Resolver!TypeOK'
  <2>1. UNCHANGED <<Resolver!batches, hung, Resolver!names>> /\ threads' = threads \cup {<<n, i>>}
    BY <1>15 DEF Resolver!Start
  <2>2. threads' \subseteq Networks \X Resolver!Items
    BY <1>2, <2>1
  <2> QED  BY <1>2, <1>4, <2>1, <2>2 DEF Resolver!names
<1>16. ASSUME NEW n \in Networks, NEW i \in Resolver!Items, Resolver!Answer(n, i)
       PROVE  Batches' /\ Resolver!TypeOK'
  BY <1>2, <1>6, <1>16 DEF Resolver!Answer
<1>17. ASSUME NEW n \in Networks, NEW i \in Resolver!Items, Resolver!TimedOut(n, i)
       PROVE  Batches' /\ Resolver!TypeOK'
  <2>1. Cardinality(threads \cap {<<n, i>>}) \in Nat
    <3>1. IsFiniteSet({<<n, i>>})
      BY FS_Singleton
    <3> QED  BY <3>1, FS_Subset, FS_CardinalityType
  <2> QED  BY <1>2, <1>6, <1>17, <2>1, ResolverCard DEF Resolver!TimedOut
<1>18. CASE UNCHANGED Resolver!vars
  <2>1. UNCHANGED <<Resolver!batches, threads, hung, nameAge, tracked, vacated>>
    BY <1>18 DEF Resolver!vars, Resolver!names
  <2> QED  BY <1>2, <1>4, <2>1
<1> QED  BY <1>7, <1>8, <1>9, <1>10, <1>11, <1>12, <1>13, <1>14, <1>15, <1>16, <1>17, <1>18
     DEF Resolver!Next

(* The threads of the executor: a cancelled batch leaves its own behind.      *)
LEMMA ThreadsKept ==
    ASSUME NamesIInv, [Resolver!Next]_(Resolver!vars)
    PROVE  Cardinality(threads') + hung' <= Lookups
<1>1. /\ threads \subseteq Networks \X Resolver!Items /\ hung \in Nat /\ Lookups \in Nat
      /\ Cardinality(threads) + hung <= Lookups
  BY ClientsAssumption, ResolverCard
     DEF NamesIInv, Resolver!NamesInv, Resolver!TypeOK, Resolver!Bounded
<1>2. IsFiniteSet(threads) /\ Cardinality(threads) \in Nat
  BY <1>1, ItemsFinite, FS_Subset, FS_CardinalityType
<1>3. ASSUME NEW gone, threads' = threads \ gone, hung' <= hung + Cardinality(threads \cap gone),
             hung' \in Nat
      PROVE  Cardinality(threads') + hung' <= Lookups
  <2>1. /\ Cardinality(threads \ gone) = Cardinality(threads) - Cardinality(threads \cap gone)
        /\ Cardinality(threads \cap gone) \in Nat /\ Cardinality(threads \ gone) \in Nat
    BY <1>2, FS_Difference, FS_Intersection, FS_CardinalityType
  <2> QED  BY <1>1, <1>2, <1>3, <2>1
<1>4. ASSUME threads' = threads, hung' <= hung, hung' \in Nat
      PROVE  Cardinality(threads') + hung' <= Lookups
  BY <1>1, <1>2, <1>4
<1>5. ASSUME NEW n \in Networks, NEW i \in Resolver!Items, Resolver!Start(n, i)
      PROVE  Cardinality(threads') + hung' <= Lookups
  <2>1. /\ threads' = threads \cup {<<n, i>>} /\ hung' = hung
        /\ <<n, i>> \notin threads /\ Cardinality(threads) + hung < Lookups
    BY <1>5, ResolverCard DEF Resolver!Start
  <2>2. Cardinality(threads') = Cardinality(threads) + 1
    BY <1>2, <2>1, FS_AddElement
  <2> QED  BY <1>1, <1>2, <2>1, <2>2
<1>6. ASSUME NEW n \in Networks, NEW i \in Resolver!Items, Resolver!Answer(n, i)
      PROVE  Cardinality(threads') + hung' <= Lookups
  <2>1. threads' = threads \ {<<n, i>>} /\ hung' = hung
    BY <1>6 DEF Resolver!Answer, Resolver!Conclude
  <2>2. Cardinality(threads \cap {<<n, i>>}) \in Nat
    BY <1>2, FS_Intersection, FS_CardinalityType
  <2>3. hung' <= hung + Cardinality(threads \cap {<<n, i>>})
    BY <1>1, <2>1, <2>2
  <2> QED  BY <1>1, <1>3, <2>1, <2>3
<1>7. ASSUME NEW n \in Networks, NEW i \in Resolver!Items, Resolver!TimedOut(n, i)
      PROVE  Cardinality(threads') + hung' <= Lookups
  <2>1. threads' = threads \ {<<n, i>>} /\ hung' = hung + Cardinality(threads \cap {<<n, i>>})
    BY <1>7, ResolverCard DEF Resolver!TimedOut, Resolver!Conclude
  <2>2. Cardinality(threads \cap {<<n, i>>}) \in Nat
    BY <1>2, FS_Intersection, FS_CardinalityType
  <2>3. hung' \in Nat /\ hung' <= hung + Cardinality(threads \cap {<<n, i>>})
    BY <1>1, <2>1, <2>2
  <2> QED  BY <1>3, <2>1, <2>3
<1>8. ASSUME NEW n \in Networks, Resolver!Cancel(n)
      PROVE  Cardinality(threads') + hung' <= Lookups
  <2> DEFINE gone == {n} \X Resolver!Items
  <2>1. threads' = threads \ gone /\ hung' = hung + Cardinality(threads \cap gone)
    BY <1>8, ResolverCard DEF Resolver!Cancel
  <2> HIDE DEF gone
  <2>2. Cardinality(threads \cap gone) \in Nat
    BY <1>2, FS_Intersection, FS_CardinalityType
  <2>3. hung' \in Nat /\ hung' <= hung + Cardinality(threads \cap gone)
    BY <1>1, <2>1, <2>2
  <2> QED  BY <1>3, <2>1, <2>3
<1>9. CASE Resolver!ClearCache \/ Resolver!Tick \/ UNCHANGED Resolver!vars
  BY <1>1, <1>4, <1>9 DEF Resolver!ClearCache, Resolver!Tick, Resolver!vars
<1>10. CASE Resolver!Return
  BY <1>1, <1>4, <1>10 DEF Resolver!Return
<1>11. ASSUME NEW n \in Networks,
              Resolver!Put(n) \/ Resolver!Get(n) \/ Resolver!End(n)
              \/ \E l \in Resolver!Lists[n] : Resolver!Begin(n, l)
       PROVE  Cardinality(threads') + hung' <= Lookups
  BY <1>1, <1>4, <1>11 DEF Resolver!Put, Resolver!Get, Resolver!End, Resolver!Begin
<1> QED  BY <1>5, <1>6, <1>7, <1>8, <1>9, <1>10, <1>11 DEF Resolver!Next

(* The cache, the record of the addresses, and who has left his.              *)
LEMMA CacheKept ==
    ASSUME NamesIInv, [Resolver!Next]_(Resolver!vars)
    PROVE  /\ Cardinality(CachedNames(nameAge')) <= NameEntries /\ Len(tracked') <= NameEntries
           /\ vacated' \cap CachedNames(nameAge') = {}
           /\ Resolver!InFlight' \cap vacated' = {}
<1> DEFINE Good == /\ Cardinality(CachedNames(nameAge')) <= NameEntries
                   /\ Len(tracked') <= NameEntries
                   /\ vacated' \cap CachedNames(nameAge') = {}
                   /\ Resolver!InFlight' \cap vacated' = {}
<1> SUFFICES Good
  OBVIOUS
<1>1. /\ Cardinality(CachedNames(nameAge)) <= NameEntries /\ Len(tracked) <= NameEntries
      /\ vacated \cap CachedNames(nameAge) = {} /\ Resolver!InFlight \cap vacated = {}
  BY ResolverCard DEF NamesIInv, Resolver!NamesInv, Resolver!Bounded, Resolver!MovedForgotten,
     Resolver!Cached, CachedNames
<1>2. /\ list \in [Networks -> Seq(Entries)] /\ looking \in [Networks -> SUBSET Resolver!Items]
      /\ \A n \in Networks : list[n] = <<>> => looking[n] = {}
      /\ nameAge \in [Addresses -> 0..Resolver!Absent] /\ tracked \in Seq(Entries)
  BY DEF NamesIInv, Resolver!NamesInv, Resolver!TypeOK, Batches, Entries
<1>3. /\ NameTTL \in Nat /\ Resolver!Absent = NameTTL + 1 /\ NameEntries \in Nat
  BY ClientsAssumption DEF Resolver!Absent
<1>4. ASSUME tracked' = tracked, vacated' = vacated, Resolver!InFlight' \subseteq Resolver!InFlight,
             CachedNames(nameAge') \subseteq CachedNames(nameAge)
      PROVE  Good
  BY <1>1, <1>4, FewerCached
<1>5. (list' = list /\ looking' = looking) => Resolver!InFlight' = Resolver!InFlight
  BY DEF Resolver!InFlight
<1>6. ASSUME NEW n \in Networks, Resolver!Over(n) PROVE Good
  <2>1. /\ list' = [list EXCEPT ![n] = <<>>] /\ looking' = [looking EXCEPT ![n] = {}]
        /\ nameAge' = nameAge /\ tracked' = tracked /\ vacated' = vacated
    BY <1>6 DEF Resolver!Over, Resolver!names
  <2>2. \A m \in Networks : /\ looking'[m] \subseteq looking[m]
                            /\ looking'[m] # {} => list'[m] = list[m]
    BY <1>2, <2>1
  <2>3. Resolver!InFlight' \subseteq Resolver!InFlight
    BY <2>2 DEF Resolver!InFlight
  <2> HIDE DEF Good
  <2> QED  BY <1>4, <2>1, <2>3
<1>7. ASSUME NEW n \in Networks, NEW i, Resolver!Conclude(n, i) PROVE Good
  <2> DEFINE a == list[n][i].addr
  <2>1. /\ list' = list /\ tracked' = tracked /\ vacated' = vacated /\ i \in looking[n]
        /\ looking' = [looking EXCEPT ![n] = @ \ {i}]
        /\ nameAge' \in Resolver!Pruned([nameAge EXCEPT ![a] = 0])
    BY <1>7 DEF Resolver!Conclude
  <2>2. a \in Resolver!InFlight
    BY <2>1 DEF Resolver!InFlight
  <2> HIDE DEF a
  <2>3. /\ CachedNames(nameAge') \subseteq CachedNames(nameAge) \cup {a}
        /\ Cardinality(CachedNames(nameAge')) <= NameEntries
    BY <1>1, <1>2, <2>1, PrunedFacts
  <2>4. \A m \in Networks : looking'[m] \subseteq looking[m]
    BY <1>2, <2>1
  <2>5. Resolver!InFlight' \subseteq Resolver!InFlight
    BY <2>1, <2>4 DEF Resolver!InFlight
  <2> QED  BY <1>1, <2>1, <2>2, <2>3, <2>5
<1>8. CASE Resolver!ClearCache
  <2>1. /\ UNCHANGED <<list, looking, vacated>>
        /\ nameAge' = [a \in Addresses |-> Resolver!Absent] /\ tracked' = <<>>
    BY <1>8 DEF Resolver!ClearCache, Resolver!batches
  <2>2. CachedNames(nameAge') = {} /\ Cardinality({}) = 0
    BY <2>1, FS_EmptySet DEF CachedNames
  <2>3. Resolver!InFlight' = Resolver!InFlight /\ vacated' = vacated
    BY <1>5, <2>1
  <2>4. Len(tracked') = 0
    BY <2>1
  <2>5. Cardinality(CachedNames(nameAge')) <= NameEntries
    BY <1>3, <2>2
  <2> QED  BY <1>1, <1>3, <2>2, <2>3, <2>4, <2>5
<1>9. CASE Resolver!Tick
  <2>1. /\ list' = list /\ looking' = looking /\ vacated' = vacated /\ tracked' = tracked
        /\ nameAge' = [a \in Addresses |->
                          IF nameAge[a] < NameTTL THEN nameAge[a] + 1 ELSE nameAge[a]]
    BY <1>9 DEF Resolver!Tick, Resolver!batches
  <2>2. CachedNames(nameAge') \subseteq CachedNames(nameAge)
    BY <1>2, <1>3, <2>1 DEF CachedNames
  <2>3. Resolver!InFlight' = Resolver!InFlight
    BY <1>5, <2>1
  <2> HIDE DEF Good
  <2> QED  BY <1>4, <2>1, <2>2, <2>3
<1>10. ASSUME list' = list, looking' = looking, UNCHANGED Resolver!names PROVE Good
  <2> HIDE DEF Good
  <2> QED  BY <1>4, <1>5, <1>10 DEF Resolver!names
<1>11. ASSUME NEW n \in Networks, Resolver!Get(n) PROVE Good
  <2>1. list' = list /\ tracked' = tracked
    BY <1>11 DEF Resolver!Get
  <2>2. CASE Resolver!GetClient(n, taken[n] + 1)
    <3> DEFINE i == taken[n] + 1
               a == list[n][i].addr
    <3>1. \/ UNCHANGED <<looking, nameAge, vacated>>
          \/ /\ looking' = [looking EXCEPT ![n] = @ \cup {i}]
             /\ nameAge' = [nameAge EXCEPT ![a] = Resolver!Absent]
             /\ vacated' = vacated \ {a}
      BY <2>2 DEF Resolver!GetClient
    <3>2. CASE UNCHANGED <<looking, nameAge, vacated>>
      BY <1>4, <1>5, <2>1, <3>2
    <3>3. CASE /\ looking' = [looking EXCEPT ![n] = @ \cup {i}]
               /\ nameAge' = [nameAge EXCEPT ![a] = Resolver!Absent]
               /\ vacated' = vacated \ {a}
      <4>1. Resolver!InFlight' \subseteq Resolver!InFlight \cup {a}
        <5>1. \A m \in Networks : \A j \in looking'[m] : j \in looking[m] \/ (m = n /\ j = i)
          BY <1>2, <3>3
        <5>2. \A m \in Networks : \A j \in looking'[m] :
                 list[m][j].addr \in Resolver!InFlight \cup {a}
          BY <5>1 DEF Resolver!InFlight
        <5> HIDE DEF a, i
        <5> QED  BY <2>1, <5>2 DEF Resolver!InFlight
      <4> HIDE DEF a, i
      <4>2. CachedNames(nameAge') \subseteq CachedNames(nameAge)
        BY <1>2, <3>3 DEF CachedNames
      <4>3. Cardinality(CachedNames(nameAge')) <= NameEntries
        BY <1>1, <4>2, FewerCached
      <4> QED  BY <1>1, <2>1, <3>3, <4>1, <4>2, <4>3
    <3> HIDE DEF Good
    <3> QED  BY <3>1, <3>2, <3>3
  <2>3. CASE Resolver!GetSentinel(n)
    BY <1>4, <1>5, <2>1, <2>3 DEF Resolver!GetSentinel
  <2> HIDE DEF Good
  <2> QED  BY <1>11, <2>2, <2>3 DEF Resolver!Get
<1>12. ASSUME NEW n \in Networks, NEW l \in Resolver!Lists[n], Resolver!Begin(n, l) PROVE Good
  <2> DEFINE t == Resolver!Track(tracked, l)
  <2>1. /\ looking' = looking /\ list[n] = <<>> /\ list' = [list EXCEPT ![n] = l]
        /\ tracked' = t.known /\ nameAge' = Resolver!Forgotten(t.left)
        /\ vacated' = vacated \cup (t.left \ Resolver!InFlight)
    BY <1>12 DEF Resolver!Begin
  <2>2. t \in Tracks
    BY <1>1, <1>2, ListFacts, TrackFacts DEF Records
  <2> HIDE DEF t
  <2>3. Len(tracked') <= NameEntries
    BY <2>1, <2>2 DEF Tracks, Records
  <2>4. CachedNames(nameAge') = CachedNames(nameAge) \ t.left
    BY <2>1 DEF Resolver!Forgotten, CachedNames
  <2>5. Cardinality(CachedNames(nameAge')) <= NameEntries
    BY <1>1, <2>4, FewerCached
  <2>6. Resolver!InFlight' = Resolver!InFlight
    <3>1. \A m \in Networks : looking[m] # {} => list'[m] = list[m]
      BY <1>2, <2>1
    <3>2. \A m \in Networks : \A i \in looking[m] : list'[m][i].addr = list[m][i].addr
      BY <3>1
    <3>3. looking' = looking
      BY <2>1
    <3>4. ASSUME NEW a \in Resolver!InFlight' PROVE a \in Resolver!InFlight
      <4>1. PICK m \in Networks : \E i \in looking'[m] : a = list'[m][i].addr
        BY <3>4 DEF Resolver!InFlight
      <4>2. PICK i \in looking[m] : a = list'[m][i].addr
        BY <3>3, <4>1
      <4> QED  BY <3>2, <4>2 DEF Resolver!InFlight
    <3>5. ASSUME NEW a \in Resolver!InFlight PROVE a \in Resolver!InFlight'
      <4>1. PICK m \in Networks : \E i \in looking[m] : a = list[m][i].addr
        BY <3>5 DEF Resolver!InFlight
      <4>2. PICK i \in looking[m] : a = list[m][i].addr
        BY <4>1
      <4>3. i \in looking'[m] /\ a = list'[m][i].addr
        BY <3>2, <3>3, <4>2
      <4> QED  BY <4>3 DEF Resolver!InFlight
    <3> QED  BY <3>4, <3>5
  <2> QED  BY <1>1, <2>1, <2>3, <2>4, <2>5, <2>6
<1> HIDE DEF Good
<1>13. ASSUME NEW n \in Networks, NEW i \in Resolver!Items,
              Resolver!Start(n, i) \/ Resolver!Answer(n, i) \/ Resolver!TimedOut(n, i)
       PROVE  Good
  BY <1>7, <1>10, <1>13 DEF Resolver!Start, Resolver!Answer, Resolver!TimedOut, Resolver!batches
<1>14. ASSUME NEW n \in Networks, Resolver!Put(n) \/ Resolver!End(n) \/ Resolver!Cancel(n)
       PROVE  Good
  BY <1>6, <1>10, <1>14 DEF Resolver!Put, Resolver!End, Resolver!Cancel
<1>15. CASE Resolver!Return \/ UNCHANGED Resolver!vars
  <2>1. list' = list /\ looking' = looking /\ UNCHANGED Resolver!names
    BY <1>15 DEF Resolver!Return, Resolver!vars, Resolver!batches
  <2> QED  BY <1>10, <2>1
<1> QED  BY <1>8, <1>9, <1>11, <1>12, <1>13, <1>14, <1>15 DEF Resolver!Next

LEMMA NamesBegin == Resolver!Init => NamesIInv
<1> SUFFICES ASSUME Resolver!Init PROVE NamesIInv
  OBVIOUS
<1>1. /\ \A n \in Networks : MaxList[n] \in Nat
      /\ NameEntries \in Nat /\ Lookups \in Nat /\ Resolver!Absent = NameTTL + 1 /\ NameTTL \in Nat
  BY ClientsAssumption DEF Resolver!Absent
<1>2. /\ list = [n \in Networks |-> <<>>] /\ looking = [n \in Networks |-> {}]
      /\ put = [n \in Networks |-> 0] /\ taken = put /\ done = put
      /\ threads = {} /\ hung = 0 /\ tracked = <<>> /\ vacated = {}
      /\ nameAge = [a \in Addresses |-> Resolver!Absent]
  BY DEF Resolver!Init, Resolver!NoBatch
<1>3. Batches
  BY <1>1, <1>2 DEF Batches
<1>4. Resolver!TypeOK
  BY <1>1, <1>2 DEF Resolver!TypeOK, Resolver!Sentinels
<1>5. Resolver!Cached = {} /\ Resolver!Cardinality({}) = 0 /\ Len(<<>>) = 0
  BY <1>2, ResolverCard, FS_EmptySet DEF Resolver!Cached
<1>6. Resolver!Bounded /\ Resolver!MovedForgotten /\ Resolver!InFlight \cap vacated = {}
  BY <1>1, <1>2, <1>5 DEF Resolver!Bounded, Resolver!MovedForgotten
<1> QED  BY <1>3, <1>4, <1>6 DEF NamesIInv, Resolver!NamesInv

(* Batches of several networks put names into one cache, clients move while   *)
(* their names are looked up, and lookups hang and are given up: the cache    *)
(* and the record of the addresses keep to dns_cache_max_entries, no more     *)
(* threads hang than the executor has, and no name is kept of an address its  *)
(* client left.                                                               *)
THEOREM NamesKept == Resolver!Spec => []Resolver!NamesInv
<1>1. ASSUME NamesIInv, [Resolver!Next]_(Resolver!vars) PROVE NamesIInv'
  <2>1. Batches' /\ Resolver!TypeOK'
    BY <1>1, BatchesKept
  <2>2. Resolver!Bounded'
    BY <1>1, ThreadsKept, CacheKept, ResolverCard DEF Resolver!Bounded, Resolver!Cached, CachedNames
  <2>3. Resolver!MovedForgotten' /\ (Resolver!InFlight \cap vacated = {})'
    BY <1>1, CacheKept DEF Resolver!MovedForgotten, Resolver!Cached, CachedNames
  <2> QED  BY <2>1, <2>2, <2>3 DEF NamesIInv, Resolver!NamesInv
<1>2. NamesIInv => Resolver!NamesInv
  BY DEF NamesIInv
<1> QED  BY <1>1, <1>2, NamesBegin, PTL DEF Resolver!Spec

-----------------------------------------------------------------------------
(* The start and the end of the exporter: what _shutdown promises when it   *)
(* goes on after its single look at the background tasks.                   *)

LEMMA LifeCard == \A S : Life!Cardinality(S) = Cardinality(S)
  BY DEF Life!Cardinality, Cardinality


-----------------------------------------------------------------------------
(* The types, without the sizes of the pools.                                 *)
Shape ==
    /\ stage \in Life!Stages /\ begun \in {"discovery", "initial", "over"}
    /\ alive \subseteq Life!Tasks \ {"bridge", "expiry"} /\ apart \subseteq {"bridge", "expiry"}
    /\ told \subseteq alive \cup apart
    /\ resolving \subseteq calls \cap Life!Resolvers
    /\ running \subseteq calls /\ calls \subseteq Life!PoolUsers \cup {"shutdown"}
    /\ lost \in [Life!Pools -> Nat]
    /\ error \in BOOLEAN /\ bridged \in BOOLEAN

(* No pool has more threads than its size.                                    *)
PoolsFit == \A p \in Life!Pools : Life!Threads(p) <= Life!Size(p)

(* What each stage of lifespan and _shutdown knows of the tasks.              *)
LaterStages == {"expiry", "bridge", "export", "names", "closing", "over"}
Phases ==
    /\ stage = "preparing" => alive = {} /\ apart = {} /\ calls = {} /\ lost
       = [p \in Life!Pools |-> 0]
    /\ stage \in {"preparing", "serving"} => told = {}
    /\ stage = "draining" => told = alive
    /\ stage \in LaterStages => alive = {}
    /\ stage \in LaterStages \ {"expiry"} => "expiry" \notin apart
    /\ stage \in {"export", "names", "closing", "over"} => "bridge" \notin apart
    /\ "shutdown" \in calls => stage = "export"
    /\ calls \subseteq alive \cup apart \cup {"shutdown"}
    /\ stage \in {"closing", "over"} => lost["dns"] = 0
    /\ stage = "over" => \A p \in Life!Pools : lost[p] = 0

LifeIInv == Shape /\ PoolsFit /\ Phases /\ Life!LoopsOrUnhealthy

-----------------------------------------------------------------------------
LEMMA PoolUsersFinite == IsFiniteSet(Life!PoolUsers \cup {"shutdown"})
<1>1. IsFiniteSet({"startup", "cardinality", "resolve", "manual", "bridge", "shutdown"})
  <2>1. IsFiniteSet({"startup"})  BY FS_Singleton
  <2>2. IsFiniteSet({"startup"} \cup {"cardinality"})  BY <2>1, FS_AddElement
  <2>3. IsFiniteSet({"startup", "cardinality"} \cup {"resolve"})  BY <2>2, FS_AddElement
  <2>4. IsFiniteSet({"startup", "cardinality", "resolve"} \cup {"manual"})
    BY <2>3, FS_AddElement
  <2>5. IsFiniteSet({"startup", "cardinality", "resolve", "manual"} \cup {"bridge"})
    BY <2>4, FS_AddElement
  <2>6. IsFiniteSet({"startup", "cardinality", "resolve", "manual", "bridge"} \cup {"shutdown"})
    BY <2>5, FS_AddElement
  <2> QED  BY <2>6
<1>2. IsFiniteSet(Collectors
                    \cup {"startup", "cardinality", "resolve", "manual", "bridge", "shutdown"})
  BY <1>1, LifeAssumption, FS_Union
<1>3. Life!PoolUsers \cup {"shutdown"}
        = Collectors
            \cup {"startup", "cardinality", "resolve", "manual", "bridge", "shutdown"}
  BY DEF Life!PoolUsers
<1> QED  BY <1>2, <1>3

LEMMA HeldFinite ==
    ASSUME Shape, NEW p
    PROVE  IsFiniteSet(Life!Held(p)) /\ Cardinality(Life!Held(p)) \in Nat
<1>1. Life!Held(p) \subseteq Life!PoolUsers \cup {"shutdown"}
  BY DEF Life!Held, Shape
<1> QED  BY <1>1, PoolUsersFinite, FS_Subset, FS_CardinalityType

LEMMA SizesNat == \A p \in Life!Pools : Life!Size(p) \in Nat /\ Life!Size(p) > 0
  BY LifeAssumption, ClientsAssumption DEF Life!Pools, Life!Size

LEMMA PoolIn == \A t : Life!Pool(t) \in Life!Pools
  BY DEF Life!Pool, Life!Pools

(* The pool of a call stays the same as long as the call is awaited.          *)
LEMMA HeldStays ==
    ASSUME Shape, NEW p, NEW S, running' \ S = running \ S,
           \A u \in running \ S : u \in resolving' <=> u \in resolving
    PROVE  Life!Held(p)' \ S = Life!Held(p) \ S
  BY DEF Life!Held, Life!Pool

(* Abandoning a call turns its thread into one that nobody waits for.         *)
LEMMA AbandonFits ==
    ASSUME Shape, PoolsFit, NEW t, Life!Abandon(t)
    PROVE  PoolsFit' /\ lost' \in [Life!Pools -> Nat] /\ running' \subseteq calls'
<1>1. running' \subseteq calls'
  BY LifeCard DEF Life!Abandon, Shape
<1>2. \A p : Life!Held(p)' \ {t} = Life!Held(p) \ {t}
  BY HeldStays DEF Life!Abandon
<1>3. CASE t \in running
  <2>1. {t} \cap running = {t} /\ Cardinality({t}) = 1
    BY <1>3, FS_Singleton
  <2>2. lost' = [lost EXCEPT ![Life!Pool(t)] = lost[Life!Pool(t)] + 1]
    BY <2>1, LifeCard DEF Life!Abandon
  <2>3. lost' \in [Life!Pools -> Nat]
    BY <2>2, PoolIn DEF Shape
  <2>4. ASSUME NEW p \in Life!Pools PROVE Life!Threads(p)' <= Life!Size(p)
    <3>1. IsFiniteSet(Life!Held(p)) /\ Cardinality(Life!Held(p)) \in Nat
      BY HeldFinite
    <3>2. CASE p = Life!Pool(t)
      <4>1. t \in Life!Held(p) /\ Life!Held(p)' = Life!Held(p) \ {t}
        BY <1>3, <1>2, <3>2 DEF Life!Held, Life!Abandon
      <4>2. Cardinality(Life!Held(p)') = Cardinality(Life!Held(p)) - 1
        BY <3>1, <4>1, FS_RemoveElement
      <4>3. lost'[p] = lost[p] + 1
        BY <2>2, <3>2 DEF Shape
      <4>4. Life!Threads(p)' = Life!Threads(p)
        BY <3>1, <4>2, <4>3, LifeCard DEF Life!Threads, Shape
      <4> QED  BY <4>4 DEF PoolsFit
    <3>3. CASE p # Life!Pool(t)
      <4>1. Life!Held(p)' = Life!Held(p)
        BY <1>2, <3>3 DEF Life!Held, Life!Abandon
      <4>2. lost'[p] = lost[p]
        BY <2>2, <3>3 DEF Shape
      <4> QED  BY <4>1, <4>2, LifeCard DEF Life!Threads, PoolsFit
    <3> QED  BY <3>2, <3>3
  <2> QED  BY <1>1, <2>3, <2>4 DEF PoolsFit, Life!Size
<1>4. CASE t \notin running
  <2>1. {t} \cap running = {} /\ Cardinality({}) = 0
    BY <1>4, FS_EmptySet
  <2>2. lost' = [lost EXCEPT ![Life!Pool(t)] = lost[Life!Pool(t)] + 0]
    BY <2>1, LifeCard DEF Life!Abandon
  <2>3. lost' = lost
    BY <2>2, PoolIn DEF Shape
  <2>4. running' = running
    BY <1>4, LifeCard DEF Life!Abandon
  <2>5. \A p : Life!Held(p)' = Life!Held(p)
    BY <1>2, <1>4, <2>4 DEF Life!Held
  <2> QED  BY <1>1, <2>3, <2>5, LifeCard DEF PoolsFit, Life!Threads, Life!Size, Shape
<1> QED  BY <1>3, <1>4

LEMMA StartFits ==
    ASSUME Shape, PoolsFit, NEW t, Life!Start(t)
    PROVE  PoolsFit'
<1>1. ASSUME NEW p \in Life!Pools PROVE Life!Threads(p)' <= Life!Size(p)
  <2>1. IsFiniteSet(Life!Held(p)) /\ Cardinality(Life!Held(p)) \in Nat
    BY HeldFinite
  <2>2. CASE p = Life!Pool(t)
    <3>1. Life!Held(p)' = Life!Held(p) \cup {t} /\ t \notin Life!Held(p)
      BY <2>2 DEF Life!Held, Life!Start, Life!Pool
    <3>2. Cardinality(Life!Held(p)') = Cardinality(Life!Held(p)) + 1
      BY <2>1, <3>1, FS_AddElement
    <3>3. Life!Threads(p)' = Life!Threads(p) + 1
      BY <2>1, <3>2, LifeCard DEF Life!Threads, Life!Start, Shape
    <3>4. Life!Threads(p) < Life!Size(p) /\ Life!Threads(p) \in Nat /\ Life!Size(p) \in Nat
      BY <2>1, <2>2, SizesNat, LifeCard DEF Life!Start, Life!Threads, Shape
    <3> QED  BY <3>3, <3>4
  <2>3. CASE p # Life!Pool(t)
    <3>1. Life!Held(p)' = Life!Held(p) /\ lost' = lost
      BY <2>3 DEF Life!Held, Life!Start, Life!Pool
    <3> QED  BY <3>1, LifeCard DEF Life!Threads, PoolsFit
  <2> QED  BY <2>2, <2>3
<1> QED  BY <1>1 DEF PoolsFit, Life!Size

LEMMA FewerFit ==
    ASSUME Shape, PoolsFit, running' \subseteq running, lost' \in [Life!Pools -> Nat],
           \A p \in Life!Pools : lost'[p] <= lost[p],
           \A u \in running' : u \in resolving' <=> u \in resolving
    PROVE  PoolsFit'
<1>1. ASSUME NEW p \in Life!Pools PROVE Life!Threads(p)' <= Life!Size(p)
  <2>1. IsFiniteSet(Life!Held(p)) /\ Cardinality(Life!Held(p)) \in Nat
    BY HeldFinite
  <2>2. Life!Held(p)' \subseteq Life!Held(p)
    BY DEF Life!Held, Life!Pool
  <2>3. Cardinality(Life!Held(p)') <= Cardinality(Life!Held(p))
        /\ Cardinality(Life!Held(p)') \in Nat
    BY <2>1, <2>2, FS_Subset, FS_CardinalityType
  <2>4. Life!Threads(p) <= Life!Size(p) /\ lost'[p] <= lost[p] /\ lost[p] \in Nat
        /\ lost'[p] \in Nat
    BY DEF PoolsFit, Shape
  <2> QED  BY <2>1, <2>3, <2>4, SizesNat, LifeCard DEF Life!Threads
<1> QED  BY <1>1 DEF PoolsFit, Life!Size

-----------------------------------------------------------------------------
(* The names of the tasks apart are of no collector and of no other task.     *)
LEMMA TaskNames ==
    /\ "shutdown" \notin Life!Tasks /\ Life!PoolUsers \subseteq Life!Tasks
    /\ "startup" \in Life!Tasks
    /\ \A t \in {"startup", "first", "manual", "bridge", "expiry"} : t \notin Collectors
  BY LifeAssumption DEF ExporterTasks, Life!Tasks, Life!PoolUsers

(* Before the loops begin no call is under way: what was given up fits.       *)
LEMMA GivenUpFits ==
    ASSUME Shape, Phases, stage = "preparing", Life!GivenUp,
           calls' = calls, running' = running
    PROVE  PoolsFit' /\ lost' \in [Life!Pools -> Nat]
<1>1. PICK n \in {0, 1} : lost' = [lost EXCEPT !["sdk"] = n]
  BY DEF Life!GivenUp
<1>2. lost' \in [Life!Pools -> Nat] /\ \A p \in Life!Pools : lost'[p] \in {0, 1}
      /\ (p # "sdk" => lost'[p] = 0)
  BY <1>1 DEF Shape, Phases, Life!Pools
<1>3. ASSUME NEW p \in Life!Pools PROVE Life!Threads(p)' <= Life!Size(p)
  <2>1. Life!Held(p)' = {}
    BY DEF Life!Held, Shape, Phases
  <2>2. Cardinality(Life!Held(p)') = 0
    BY <2>1, FS_EmptySet
  <2>3. Life!Threads(p)' <= 1
    BY <1>2, <2>2, LifeCard DEF Life!Threads
  <2> QED  BY <2>2, <1>2, <2>3, SizesNat, LifeCard DEF Life!Threads
<1> QED  BY <1>2, <1>3 DEF PoolsFit, Life!Size

(* A pool without threads has none that nobody waits for.                     *)
LEMMA IdlePool == ASSUME Shape, NEW p \in Life!Pools, Life!Threads(p) = 0 PROVE lost[p] = 0
  BY HeldFinite, LifeCard DEF Life!Threads, Shape

(* A step keeps the types.                                                   *)
LEMMA ShapeKept ==
    ASSUME LifeIInv, [Life!Next]_(Life!vars)
    PROVE  Shape'
<1> USE DEF LifeIInv
<1>1. CASE Life!Prepared
  <2>1. lost' \in [Life!Pools -> Nat]
    BY <1>1, GivenUpFits DEF Life!Prepared
  <2>2. /\ alive' \subseteq Life!Tasks \ {"bridge", "expiry"}
        /\ apart' \subseteq {"bridge", "expiry"}
    BY <1>1, TaskNames DEF Life!Prepared, Life!Tasks, Life!PoolUsers
  <2>3. stage' \in Life!Stages /\ told' \subseteq alive' \cup apart'
    BY <1>1 DEF Life!Prepared, Life!Stages, Shape, Phases
  <2> QED  BY <1>1, <2>1, <2>2, <2>3 DEF Life!Prepared, Shape
<1>2. CASE Life!Refused
  BY <1>2, TaskNames, GivenUpFits DEF Shape, Life!Stages, Life!Refused
<1>3. CASE Life!BridgeStopped
  BY <1>3, TaskNames DEF Shape, Life!Stages, Life!BridgeStopped
<1>4. CASE Life!Discovered
  BY <1>4, TaskNames DEF Shape, Life!Discovered, Life!Goes
<1>5. CASE Life!Begun
  BY <1>5, TaskNames DEF Shape, Life!Tasks, Life!PoolUsers, Life!Begun, Life!Goes
<1>6. CASE Life!Misconfigured
  BY <1>6, TaskNames DEF Shape, Life!Misconfigured, Life!Goes
<1>7. CASE Life!Trigger
  BY <1>7, TaskNames DEF Shape, Life!Tasks, Life!PoolUsers, Life!Trigger
<1>8. CASE Life!Stop
  BY <1>8, TaskNames DEF Shape, Life!Stages, Life!Stop, Life!Tracked
<1>9. CASE Life!Drained
  BY <1>9, TaskNames DEF Shape, Life!Stages, Life!Drained
<1>10. CASE Life!ExpiryStopped
  BY <1>10, TaskNames DEF Shape, Life!Stages, Life!ExpiryStopped, Life!CancelBridge
<1>11. CASE Life!Exported
  BY <1>11, TaskNames DEF Shape, Life!Stages, Life!Exported
<1>12. CASE Life!Closed
  BY <1>12, TaskNames DEF Shape, Life!Stages, Life!Closed
<1>21. CASE Life!NamesClosed
  BY <1>21, TaskNames DEF Shape, Life!Stages, Life!NamesClosed
<1>13. ASSUME NEW t \in Life!Tasks \cup {"shutdown"}, Life!Ends(t) PROVE Shape'
  BY <1>13, TaskNames DEF Shape, Life!Ends, Life!Goes
<1>14. ASSUME NEW t \in Life!Tasks \cup {"shutdown"}, Life!Call(t) PROVE Shape'
  BY <1>14, TaskNames DEF Shape, Life!Call
<1>15. ASSUME NEW t \in Life!Tasks \cup {"shutdown"}, Life!Start(t) PROVE Shape'
  BY <1>15, TaskNames DEF Shape, Life!Start
<1>16. ASSUME NEW t \in Life!Tasks \cup {"shutdown"}, Life!Answer(t) PROVE Shape'
  BY <1>16, TaskNames DEF Shape, Life!Answer
<1>17. ASSUME NEW t \in Life!Tasks \cup {"shutdown"}, Life!Deadline(t) PROVE Shape'
  BY <1>17, TaskNames, AbandonFits, LifeCard DEF Shape, Life!Deadline, Life!Abandon
<1>18. ASSUME NEW t \in Life!Tasks \cup {"shutdown"}, Life!Unwind(t) PROVE Shape'
  BY <1>18, TaskNames, AbandonFits, LifeCard DEF Shape, Life!Unwind, Life!Abandon
<1>19. ASSUME NEW p \in Life!Pools, Life!Return(p) PROVE Shape'
  BY <1>19, TaskNames DEF Shape, Life!Return
<1>20. CASE UNCHANGED Life!vars
  BY <1>20, TaskNames DEF Shape, Life!vars
<1> QED
  BY <1>1, <1>2, <1>3, <1>4, <1>5, <1>6, <1>7, <1>8, <1>9, <1>10, <1>11, <1>12, <1>13,
     <1>14, <1>15, <1>16, <1>17, <1>18, <1>19, <1>20, <1>21
     DEF Life!Next

(* A step keeps the pools within their sizes.                                *)
LEMMA FitKept ==
    ASSUME LifeIInv, [Life!Next]_(Life!vars)
    PROVE  PoolsFit'
<1> USE DEF LifeIInv
<1>1. CASE Life!Prepared
  BY <1>1, GivenUpFits DEF Life!Prepared
<1>2. CASE Life!Refused
  BY <1>2, GivenUpFits DEF Life!Refused
<1>3. CASE Life!BridgeStopped
  BY <1>3, FewerFit DEF Shape, Life!BridgeStopped
<1>4. CASE Life!Discovered
  BY <1>4, FewerFit DEF Shape, Life!Discovered, Life!Goes
<1>5. CASE Life!Begun
  BY <1>5, FewerFit DEF Shape, Life!Begun, Life!Goes
<1>6. CASE Life!Misconfigured
  BY <1>6, FewerFit DEF Shape, Life!Misconfigured, Life!Goes
<1>7. CASE Life!Trigger
  BY <1>7, FewerFit DEF Shape, Life!Trigger
<1>8. CASE Life!Stop
  BY <1>8, FewerFit DEF Shape, Life!Stop, Life!Tracked
<1>9. CASE Life!Drained
  BY <1>9, FewerFit DEF Shape, Life!Drained
<1>10. CASE Life!ExpiryStopped
  BY <1>10, FewerFit DEF Shape, Life!ExpiryStopped, Life!CancelBridge
<1>11. CASE Life!Exported
  BY <1>11, FewerFit DEF Shape, Life!Exported
<1>12. CASE Life!Closed
  BY <1>12, FewerFit DEF Shape, Life!Closed
<1>21. CASE Life!NamesClosed
  BY <1>21, FewerFit DEF Shape, Life!NamesClosed
<1>13. ASSUME NEW t \in Life!Tasks \cup {"shutdown"}, Life!Ends(t) PROVE PoolsFit'
  BY <1>13, FewerFit DEF Shape, Life!Ends, Life!Goes
<1>14. ASSUME NEW t \in Life!Tasks \cup {"shutdown"}, Life!Call(t) PROVE PoolsFit'
  BY <1>14, FewerFit DEF Shape, Life!Call
<1>15. ASSUME NEW t \in Life!Tasks \cup {"shutdown"}, Life!Start(t) PROVE PoolsFit'
  BY <1>15, StartFits
<1>16. ASSUME NEW t \in Life!Tasks \cup {"shutdown"}, Life!Answer(t) PROVE PoolsFit'
  BY <1>16, FewerFit DEF Shape, Life!Answer
<1>17. ASSUME NEW t \in Life!Tasks \cup {"shutdown"}, Life!Deadline(t) PROVE PoolsFit'
  BY <1>17, AbandonFits DEF Life!Deadline
<1>18. ASSUME NEW t \in Life!Tasks \cup {"shutdown"}, Life!Unwind(t) PROVE PoolsFit'
  BY <1>18, AbandonFits DEF Life!Unwind
<1>19. ASSUME NEW p \in Life!Pools, Life!Return(p) PROVE PoolsFit'
  BY <1>19, FewerFit DEF Shape, Life!Return
<1>20. CASE UNCHANGED Life!vars
  BY <1>20, FewerFit DEF Shape, Life!vars
<1> QED
  BY <1>1, <1>2, <1>3, <1>4, <1>5, <1>6, <1>7, <1>8, <1>9, <1>10, <1>11, <1>12, <1>13,
     <1>14, <1>15, <1>16, <1>17, <1>18, <1>19, <1>20, <1>21
     DEF Life!Next

(* A step keeps what the stages know.                                        *)
LEMMA PhasesKept ==
    ASSUME LifeIInv, [Life!Next]_(Life!vars)
    PROVE  Phases'
<1> USE DEF LifeIInv
<1>1. CASE Life!Prepared
  BY <1>1, TaskNames DEF Shape, Phases, LaterStages, Life!Prepared, Life!GivenUp
<1>2. CASE Life!Refused
  BY <1>2, TaskNames DEF Shape, Phases, LaterStages, Life!Refused, Life!GivenUp
<1>3. CASE Life!BridgeStopped
  BY <1>3, TaskNames DEF Shape, Phases, LaterStages, Life!BridgeStopped
<1>4. CASE Life!Discovered
  BY <1>4, TaskNames DEF Shape, Phases, LaterStages, Life!Discovered, Life!Goes
<1>5. CASE Life!Begun
  BY <1>5, TaskNames DEF Shape, Phases, LaterStages, Life!Begun, Life!Goes
<1>6. CASE Life!Misconfigured
  BY <1>6, TaskNames DEF Shape, Phases, LaterStages, Life!Misconfigured, Life!Goes
<1>7. CASE Life!Trigger
  BY <1>7, TaskNames DEF Shape, Phases, LaterStages, Life!Trigger
<1>8. CASE Life!Stop
  BY <1>8, TaskNames DEF Shape, Phases, LaterStages, Life!Stop, Life!Tracked
<1>9. CASE Life!Drained
  BY <1>9, TaskNames DEF Shape, Phases, LaterStages, Life!Drained
<1>10. CASE Life!ExpiryStopped
  BY <1>10, TaskNames DEF Shape, Phases, LaterStages, Life!ExpiryStopped, Life!CancelBridge
<1>11. CASE Life!Exported
  BY <1>11, TaskNames DEF Shape, Phases, LaterStages, Life!Exported
<1>12. CASE Life!Closed
  BY <1>12, TaskNames, IdlePool DEF Shape, Phases, LaterStages, Life!Closed, Life!Pools
<1>21. CASE Life!NamesClosed
  BY <1>21, TaskNames, IdlePool DEF Shape, Phases, LaterStages, Life!NamesClosed, Life!Pools
<1>13. ASSUME NEW t \in Life!Tasks \cup {"shutdown"}, Life!Ends(t) PROVE Phases'
  BY <1>13, TaskNames DEF Shape, Phases, LaterStages, Life!Ends, Life!Goes
<1>14. ASSUME NEW t \in Life!Tasks \cup {"shutdown"}, Life!Call(t) PROVE Phases'
  BY <1>14, TaskNames DEF Shape, Phases, LaterStages, Life!Call
<1>15. ASSUME NEW t \in Life!Tasks \cup {"shutdown"}, Life!Start(t) PROVE Phases'
  BY <1>15, TaskNames DEF Shape, Phases, LaterStages, Life!Start
<1>16. ASSUME NEW t \in Life!Tasks \cup {"shutdown"}, Life!Answer(t) PROVE Phases'
  BY <1>16, TaskNames DEF Shape, Phases, LaterStages, Life!Answer
<1>17. ASSUME NEW t \in Life!Tasks \cup {"shutdown"}, Life!Deadline(t) PROVE Phases'
  BY <1>17, TaskNames, LifeCard DEF Shape, Phases, LaterStages, Life!Deadline, Life!Abandon
<1>18. ASSUME NEW t \in Life!Tasks \cup {"shutdown"}, Life!Unwind(t) PROVE Phases'
  BY <1>18, TaskNames, LifeCard DEF Shape, Phases, LaterStages, Life!Unwind, Life!Abandon
<1>19. ASSUME NEW p \in Life!Pools, Life!Return(p) PROVE Phases'
  BY <1>19, TaskNames DEF Shape, Phases, LaterStages, Life!Return
<1>20. CASE UNCHANGED Life!vars
  BY <1>20, TaskNames DEF Shape, Phases, LaterStages, Life!vars
<1> QED
  BY <1>1, <1>2, <1>3, <1>4, <1>5, <1>6, <1>7, <1>8, <1>9, <1>10, <1>11, <1>12, <1>13,
     <1>14, <1>15, <1>16, <1>17, <1>18, <1>19, <1>20, <1>21
     DEF Life!Next

(* A step keeps the loops, or says why.                                      *)
LEMMA LoopsKept ==
    ASSUME LifeIInv, [Life!Next]_(Life!vars)
    PROVE  Life!LoopsOrUnhealthy'
<1> USE DEF LifeIInv
<1>1. CASE Life!Prepared
  BY <1>1, TaskNames DEF Shape, Phases, Life!LoopsOrUnhealthy, Life!Prepared, Life!GivenUp
<1>2. CASE Life!Refused
  BY <1>2, TaskNames DEF Shape, Phases, Life!LoopsOrUnhealthy, Life!Refused, Life!GivenUp
<1>3. CASE Life!BridgeStopped
  BY <1>3, TaskNames DEF Shape, Phases, Life!LoopsOrUnhealthy, Life!BridgeStopped
<1>4. CASE Life!Discovered
  BY <1>4, TaskNames DEF Shape, Phases, Life!LoopsOrUnhealthy, Life!Discovered, Life!Goes
<1>5. CASE Life!Begun
  BY <1>5, TaskNames DEF Shape, Phases, Life!LoopsOrUnhealthy, Life!Begun, Life!Goes
<1>6. CASE Life!Misconfigured
  BY <1>6, TaskNames DEF Shape, Phases, Life!LoopsOrUnhealthy, Life!Misconfigured, Life!Goes
<1>7. CASE Life!Trigger
  BY <1>7, TaskNames DEF Shape, Phases, Life!LoopsOrUnhealthy, Life!Trigger
<1>8. CASE Life!Stop
  BY <1>8, TaskNames DEF Shape, Phases, Life!LoopsOrUnhealthy, Life!Stop, Life!Tracked
<1>9. CASE Life!Drained
  BY <1>9, TaskNames DEF Shape, Phases, Life!LoopsOrUnhealthy, Life!Drained
<1>10. CASE Life!ExpiryStopped
  BY <1>10, TaskNames
     DEF Shape, Phases, Life!LoopsOrUnhealthy, Life!ExpiryStopped, Life!CancelBridge
<1>11. CASE Life!Exported
  BY <1>11, TaskNames DEF Shape, Phases, Life!LoopsOrUnhealthy, Life!Exported
<1>12. CASE Life!Closed
  BY <1>12, TaskNames DEF Shape, Phases, Life!LoopsOrUnhealthy, Life!Closed
<1>21. CASE Life!NamesClosed
  BY <1>21, TaskNames DEF Shape, Phases, Life!LoopsOrUnhealthy, Life!NamesClosed
<1>13. ASSUME NEW t \in Life!Tasks \cup {"shutdown"}, Life!Ends(t)
       PROVE  Life!LoopsOrUnhealthy'
  BY <1>13, TaskNames DEF Shape, Phases, Life!LoopsOrUnhealthy, Life!Ends, Life!Goes
<1>14. ASSUME NEW t \in Life!Tasks \cup {"shutdown"}, Life!Call(t)
       PROVE  Life!LoopsOrUnhealthy'
  BY <1>14, TaskNames DEF Shape, Phases, Life!LoopsOrUnhealthy, Life!Call
<1>15. ASSUME NEW t \in Life!Tasks \cup {"shutdown"}, Life!Start(t)
       PROVE  Life!LoopsOrUnhealthy'
  BY <1>15, TaskNames DEF Shape, Phases, Life!LoopsOrUnhealthy, Life!Start
<1>16. ASSUME NEW t \in Life!Tasks \cup {"shutdown"}, Life!Answer(t)
       PROVE  Life!LoopsOrUnhealthy'
  BY <1>16, TaskNames DEF Shape, Phases, Life!LoopsOrUnhealthy, Life!Answer
<1>17. ASSUME NEW t \in Life!Tasks \cup {"shutdown"}, Life!Deadline(t)
       PROVE  Life!LoopsOrUnhealthy'
  BY <1>17, TaskNames, LifeCard
     DEF Shape, Phases, Life!LoopsOrUnhealthy, Life!Deadline, Life!Abandon
<1>18. ASSUME NEW t \in Life!Tasks \cup {"shutdown"}, Life!Unwind(t)
       PROVE  Life!LoopsOrUnhealthy'
  BY <1>18, TaskNames, LifeCard
     DEF Shape, Phases, Life!LoopsOrUnhealthy, Life!Unwind, Life!Abandon
<1>19. ASSUME NEW p \in Life!Pools, Life!Return(p) PROVE Life!LoopsOrUnhealthy'
  BY <1>19, TaskNames DEF Shape, Phases, Life!LoopsOrUnhealthy, Life!Return
<1>20. CASE UNCHANGED Life!vars
  BY <1>20, TaskNames DEF Shape, Phases, Life!LoopsOrUnhealthy, Life!vars
<1> QED
  BY <1>1, <1>2, <1>3, <1>4, <1>5, <1>6, <1>7, <1>8, <1>9, <1>10, <1>11, <1>12, <1>13,
     <1>14, <1>15, <1>16, <1>17, <1>18, <1>19, <1>20, <1>21
     DEF Life!Next

-----------------------------------------------------------------------------
(* What the stages know, with the sizes of the pools, is what _shutdown       *)
(* promises.                                                                  *)
LEMMA LifePromised == ASSUME LifeIInv PROVE Life!LifecycleInv
<1>1. Life!TypeOK
  BY DEF LifeIInv, Shape, PoolsFit, Life!TypeOK
<1>2. Life!NoneLeft
  BY DEF LifeIInv, Shape, Phases, Life!NoneLeft, LaterStages, Life!Stages
<1> QED  BY <1>1, <1>2 DEF LifeIInv, Life!LifecycleInv

LEMMA LifeBegins == ASSUME Life!Init PROVE LifeIInv
<1>1. Shape
  BY DEF Life!Init, Shape, Life!Stages, Life!Pools
<1>2. PoolsFit
  <2>1. ASSUME NEW p \in Life!Pools PROVE Life!Threads(p) <= Life!Size(p)
    <3>1. Life!Held(p) = {} /\ lost[p] = 0
      BY DEF Life!Init, Life!Held
    <3>2. Life!Threads(p) = 0
      BY <3>1, FS_EmptySet, LifeCard DEF Life!Threads
    <3> QED  BY <3>2, SizesNat
  <2> QED  BY <2>1 DEF PoolsFit
<1>3. Phases /\ Life!LoopsOrUnhealthy
  BY DEF Life!Init, Phases, Life!LoopsOrUnhealthy, LaterStages
<1> QED  BY <1>1, <1>2, <1>3 DEF LifeIInv

(* However many collectors there are and whatever the size of the SDK's pool, *)
(* the one snapshot that _shutdown takes of the background tasks is enough:   *)
(* no task outlives it, nothing is closed while a thread is still at work,    *)
(* and no start ends in a server without loops that says it is healthy.       *)
THEOREM LifecycleSafe == Life!Spec => []Life!LifecycleInv
<1>1. Life!Init => LifeIInv
  BY LifeBegins
<1>2. LifeIInv /\ [Life!Next]_(Life!vars) => LifeIInv'
  BY ShapeKept, FitKept, PhasesKept, LoopsKept DEF LifeIInv
<1>3. LifeIInv => Life!LifecycleInv
  BY LifePromised
<1> QED  BY <1>1, <1>2, <1>3, PTL DEF Life!Spec
-----------------------------------------------------------------------------
(* The components, as FairServices runs them.                                *)

LEMMA EachPart ==
    FairServices =>
        /\ Spec /\ Limiter!Spec /\ Receiver!Spec /\ Group!Spec
        /\ Store!Spec /\ Resolver!Spec /\ Life!Spec
<1> USE DEF NextServices, servicesVars, limiterVars, receiverVars, groupVars, storeVars,
        resolverVars, lifeVars
<1>1. [NextServices]_servicesVars => [Limiter!Next]_(Limiter!vars)
  BY DEF Limiter!vars, Limiter!buckets, Limiter!rate, Limiter!ghosts
<1>2. [NextServices]_servicesVars => [Receiver!Next]_(Receiver!vars)
  BY DEF Receiver!vars
<1>3. [NextServices]_servicesVars => [Group!Next]_(Group!vars)
  BY DEF Group!vars, Group!counters
<1>4. [NextServices]_servicesVars => [Life!Next]_(Life!vars)
  BY DEF Life!vars
<1>5. [NextServices]_servicesVars => [Store!Next]_(Store!vars)
  BY DEF Store!vars
<1>6. [NextServices]_servicesVars => [Resolver!Next]_(Resolver!vars)
  BY DEF Resolver!vars, Resolver!batches, Resolver!names
<1>7. [NextServices]_servicesVars => [Next]_vars
  BY DEF vars
<1>8. InitServices => /\ Init /\ Limiter!Init /\ Receiver!Init /\ Group!Init
                      /\ Store!Init /\ Resolver!Init /\ Life!Init
  BY DEF InitServices
<1> QED  BY <1>1, <1>2, <1>3, <1>4, <1>5, <1>6, <1>7, <1>8, PTL
         DEF FairServices, Spec, Limiter!Spec, Receiver!Spec, Group!Spec, Store!Spec,
             Resolver!Spec, Life!Spec

(* What the solver publishes, run among the others (solve_intervals).        *)
THEOREM SolverHolds ==
    FairServices => /\ []PrioritiesKept /\ []FitsOrExhausted
                    /\ BackPressureMonotone
  BY EachPart, PrioritiesHold, FitsHold, BackPressureHolds, PTL

(* Budget and recovery of the rate limiter (acquire,                         *)
(* effective_rate_per_second), with a configured rate at or above the floor. *)
THEOREM LimiterHolds ==
    ASSUME FloorRate <= Conf
    PROVE  FairServices => []LimiterInv
  BY EachPart, LimiterSafe, PTL DEF LimiterInv

(* An alert passes again only after many others (_is_replay), with a cache   *)
(* whose entries outlive the freshness of their alerts.                      *)
THEOREM ReceiverHolds ==
    ASSUME TTL > Window + Skew
    PROVE  FairServices => AgainOnlyAfterOthers
  BY EachPart, AgainAfterOthers DEF AgainOnlyAfterOthers

(* Slots, orphans, and how the cycle is judged (ManagedTaskGroup).           *)
THEOREM GroupHolds == FairServices => []GroupInv
  BY EachPart, GroupSafe, PTL DEF GroupInv

(* The bounds of the store and of the names, and no name of an address left  *)
(* (ClientStore, DNSResolver).                                               *)
THEOREM ClientsHold == FairServices => []ClientsInv
  BY EachPart, StoreStaysBounded, NamesKept, PTL DEF ClientsInv

(* A client is left out only when the store is full (update_clients).        *)
THEOREM LeftOutHolds == FairServices => LeftOutOnlyWhenFull
  BY EachPart, NoneLeftOut DEF LeftOutOnlyWhenFull

(* What the start and the shutdown of the exporter leave (app.py).           *)
THEOREM LifecycleHolds == FairServices => []LifecycleInv
  BY EachPart, LifecycleSafe, PTL DEF LifecycleInv
=============================================================================
