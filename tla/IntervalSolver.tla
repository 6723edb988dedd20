--------------------------- MODULE IntervalSolver ---------------------------
(***************************************************************************)
(* EndpointScheduler.resolve and solve_intervals (core/scheduler.py): how  *)
(* the polling interval of every endpoint group is stretched to fit the    *)
(* API budget, and which groups are shed when stretching is not enough.    *)
(*                                                                         *)
(* resolve() runs without a suspension point; each pass of its two loops   *)
(* is a step here, and only what it publishes at the end, plan, is seen by *)
(* the rest of the program.  Durations are integers in a unit in which     *)
(* every multiplication by 1.5 is exact; rates are in requests per Scale   *)
(* units.                                                                  *)
(***************************************************************************)
EXTENDS Integers, FiniteSets, FiniteSetsExt

CONSTANTS Groups,      \* endpoint groups of the active profile
          Rank,        \* Rank[g]: the place of g's name in the sort order
          Priority,    \* 1 (up-ness) .. 4 (configuration)
          Gated,       \* groups that go through the run gate
          Toggled,     \* groups with an enabled_fn
          Floor,       \* volatility floor
          Cost,        \* API calls per cycle while the group is enabled
          Pins,        \* the operator's pinned intervals: a function
          MaxStretch,  \* max_stretch_factor
          MaxInterval, \* max_interval_seconds
          Budgets,     \* effective budgets times target_utilization
          Mode,        \* "adaptive" or "fixed"
          Scale        \* the denominator of rates

ASSUME GroupsAssumption == IsFiniteSet(Groups) /\ Gated \subseteq Groups /\ Toggled \subseteq Groups
ASSUME RankAssumption ==
    /\ Rank \in [Groups -> Nat]
    /\ \A g, h \in Groups : Rank[g] = Rank[h] => g = h
ASSUME PriorityAssumption == Priority \in [Groups -> 1..4]
ASSUME FloorAssumption == Floor \in [Groups -> Nat \ {0, 1}]
ASSUME CostAssumption == Cost \in [Groups -> Nat] /\ Scale \in Nat \ {0}
ASSUME PinsAssumption == DOMAIN Pins \subseteq Groups /\ \A g \in DOMAIN Pins : Pins[g] \in Nat \ {0}
ASSUME CapAssumption == MaxStretch \in Nat \ {0} /\ MaxInterval \in Nat \ {0}
ASSUME BudgetsAssumption == Budgets \subseteq Nat
ASSUME ModeAssumption == Mode \in {"adaptive", "fixed"}

VARIABLES phase,     \* where resolve() is: idle, stretching or shedding
          enabled,   \* groups whose enabled_fn holds for the shape given to resolve()
          target,    \* the demand the plan may reach
          interval,  \* intervals in solve_intervals
          shed,      \* _shed_groups
          plan       \* what resolve() published last

vars == <<phase, enabled, target, interval, shed, plan>>

-----------------------------------------------------------------------------
Pinned == DOMAIN Pins
Lesser(a, b) == IF a <= b THEN a ELSE b

(* The cap of a group's interval, which may lie below its floor. *)
Cap(g) == Lesser(Floor[g] * MaxStretch, MaxInterval)

(* Requests per Scale units of time; a disabled group costs nothing. *)
Rate(e, i, g) == IF g \in e THEN (Cost[g] * Scale) \div i[g] ELSE 0
Demand(e, i, s) == MapThenSumSet(LAMBDA g : Rate(e, i, g), s)

(* Priority classes 1 and 2 are never stretched. *)
StretchableAll == Gated \ Pinned
Stretchable == {g \in Gated \ Pinned : Priority[g] > 2}

CandidatesAtCap ==
    {g \in Stretchable : g \in enabled /\ interval[g] <= Cap(g)}

Candidates ==
    {g \in Stretchable : g \in enabled /\ interval[g] < Cap(g)}

LessStretched(g, h) == interval[g] * Floor[h] < interval[h] * Floor[g]
EquallyStretched(g, h) == interval[g] * Floor[h] = interval[h] * Floor[g]

(* The sort key (-priority, stretch factor, name). *)
BeforeByStretch(g, h) ==
    LessStretched(g, h) \/ (EquallyStretched(g, h) /\ Rank[g] <= Rank[h])

Before(g, h) ==
    \/ Priority[g] > Priority[h]
    \/ /\ Priority[g] = Priority[h]
       /\ \/ LessStretched(g, h)
          \/ EquallyStretched(g, h) /\ Rank[g] <= Rank[h]

(* One multiplication by _STRETCH_STEP = 1.5. *)
StretchStep(g) == Lesser((interval[g] * 3) \div 2, Cap(g))

Sheddable == {g \in Gated : Priority[g] >= 3}

(* The order in which groups are shed: (-priority, name). *)
ShedByName(g, h) == Rank[g] <= Rank[h]
ShedBefore(g, h) ==
    Priority[g] > Priority[h] \/ (Priority[g] = Priority[h] /\ Rank[g] <= Rank[h])

Kept == Demand(enabled, interval, Groups \ shed)

-----------------------------------------------------------------------------
NoPlan == [interval |-> Floor, shed |-> {}, enabled |-> Groups, target |-> 0,
           overBudget |-> FALSE, solved |-> FALSE]

Init ==
    /\ phase = "idle"
    /\ enabled = Groups
    /\ target = 0
    /\ interval = Floor
    /\ shed = {}
    /\ plan = NoPlan

(* Every group starts at its floor, or at its pin. *)
InitialInterval(g) == IF g \in Pinned THEN Pins[g] ELSE Floor[g]

(* resolve() is called with a shape and the current effective budget. *)
Begin(off, b) ==
    /\ phase = "idle"
    /\ phase' = "stretching"
    /\ enabled' = Groups \ off
    /\ target' = b
    /\ interval' = [g \in Groups |-> InitialInterval(g)]
    /\ shed' = {}
    /\ UNCHANGED plan

(* Fixed mode passes an infinite budget to the solver. *)
MayStretchStale == Mode = "adaptive" /\ Demand(enabled, interval, Groups) > plan.target
MayStretch == Mode = "adaptive" /\ Demand(enabled, interval, Groups) > target

Stretch(g) ==
    /\ phase = "stretching"
    /\ MayStretch
    /\ g \in Candidates
    /\ \A h \in Candidates : Before(g, h)
    /\ interval' = [interval EXCEPT ![g] = StretchStep(g)]
    /\ UNCHANGED <<phase, enabled, target, shed, plan>>

StretchEnd ==
    /\ phase = "stretching"
    /\ ~MayStretch \/ Candidates = {}
    /\ phase' = "shedding"
    /\ UNCHANGED <<enabled, target, interval, shed, plan>>

Unaffordable == Kept > target

Shed(g) ==
    /\ phase = "shedding"
    /\ Unaffordable
    /\ g \in Sheddable \ shed
    /\ \A h \in Sheddable \ shed : ShedBefore(g, h)
    /\ shed' = shed \cup {g}
    /\ UNCHANGED <<phase, enabled, target, interval, plan>>

(* The plan is published at once. *)
Publish ==
    /\ phase = "shedding"
    /\ ~Unaffordable \/ Sheddable \subseteq shed
    /\ phase' = "idle"
    /\ plan' = [interval |-> interval, shed |-> shed, enabled |-> enabled, target |-> target,
                overBudget |-> Demand(enabled, interval, Groups) > target, solved |-> TRUE]
    /\ UNCHANGED <<enabled, target, interval, shed>>

Work == (\E g \in Groups : Stretch(g) \/ Shed(g)) \/ StretchEnd \/ Publish

Next == (\E off \in SUBSET Toggled, b \in Budgets : Begin(off, b)) \/ Work

Spec == Init /\ [][Next]_vars

(* resolve() is synchronous: once called it runs to its end. *)
FairSpec == Spec /\ WF_vars(Work)

-----------------------------------------------------------------------------
Intervals == [Groups -> Nat \ {0}]

TypeOK ==
    /\ phase \in {"idle", "stretching", "shedding"}
    /\ enabled \subseteq Groups
    /\ target \in Nat
    /\ interval \in Intervals
    /\ shed \subseteq Groups
    /\ plan \in [interval : Intervals, shed : SUBSET Groups, enabled : SUBSET Groups,
                 target : Nat, overBudget : BOOLEAN, solved : BOOLEAN]

(* A pin is honoured exactly; without one an interval never falls below the   *)
(* floor and never passes the larger of floor and cap (steps 1, 2 and 4).     *)
IntervalBounds ==
    \A g \in Groups :
        IF g \in Pinned THEN plan.solved => plan.interval[g] = Pins[g]
        ELSE /\ plan.interval[g] >= Floor[g]
             /\ plan.interval[g] = Floor[g] \/ plan.interval[g] <= Cap(g)

(* However small the budget, a group of priority 1 or 2, and one that is not  *)
(* gated, keeps its floor and is not shed: a plan that cannot afford          *)
(* availability is reported, availability is never made stale.                *)
AvailabilityContract ==
    \A g \in Groups :
        Priority[g] <= 2 \/ g \notin Gated =>
            /\ g \notin plan.shed
            /\ g \notin Pinned => plan.interval[g] = Floor[g]

(* A group is stretched only when every stretchable group of a less important *)
(* class has reached its cap (the sort key of step 4).                        *)
LessImportantFirst ==
    \A g, h \in Stretchable :
        /\ g \in plan.enabled /\ h \in plan.enabled
        /\ Priority[h] > Priority[g]
        /\ plan.interval[g] > Floor[g]
        => plan.interval[h] >= Cap(h)

(* A plan favours what is important: no group of the first two classes is     *)
(* touched, and of the others a less important one gives way first.           *)
PrioritiesKept == AvailabilityContract /\ LessImportantFirst

(* Two groups of one class are stretched within one step of each other, until *)
(* the less stretched one is at its cap (least-stretched first).              *)
EvenStretch ==
    \A g, h \in Stretchable :
        /\ g \in plan.enabled /\ h \in plan.enabled
        /\ Priority[g] = Priority[h]
        /\ plan.interval[h] < Cap(h)
        => 2 * plan.interval[g] * Floor[h] <= 3 * plan.interval[h] * Floor[g]

(* What the architecture page says of an adaptive plan that is over budget:   *)
(* the solver stops once every group has hit its cap.                         *)
OverBudgetMeansAllCapped ==
    plan.overBudget =>
        \A g \in (Gated \cap plan.enabled) \ Pinned : plan.interval[g] >= Cap(g)

(* A group the shape disables is not stretched, so that its interval does not *)
(* move while it is off.                                                      *)
DisabledKeepsFloor ==
    \A g \in Groups \ (plan.enabled \cup Pinned) : plan.interval[g] = Floor[g]

KeptByPlan == Demand(plan.enabled, plan.interval, Groups \ plan.shed)

(* The plan fits the target once everything that may be stretched and shed    *)
(* has been; it sheds nothing that was affordable and sheds less important    *)
(* groups first (the two loops of resolve together).                          *)
FitsOrExhausted ==
    plan.solved =>
        /\ KeptByPlan > plan.target => Sheddable \subseteq plan.shed
        /\ Mode = "adaptive" /\ plan.shed # {} =>
              \A g \in Stretchable \cap plan.enabled : plan.interval[g] >= Cap(g)
        /\ \A g \in plan.shed, h \in Sheddable : Priority[h] > Priority[g] => h \in plan.shed
        /\ plan.shed # {} =>
              \E g \in plan.shed :
                  /\ \A h \in plan.shed : Priority[g] <= Priority[h]
                  /\ KeptByPlan + Rate(plan.enabled, plan.interval, g) > plan.target

(* A new plan for the same shape and a smaller budget slows groups down or    *)
(* leaves them, never speeds one up, and sheds no fewer: AIMD back-pressure   *)
(* moves every interval in one direction.                                     *)
BackPressureMonotone ==
    [][plan.solved /\ plan'.enabled = plan.enabled /\ plan'.target <= plan.target =>
          /\ \A g \in Groups : plan'.interval[g] >= plan.interval[g]
          /\ plan.shed \subseteq plan'.shed]_plan

(* resolve() returns: the stretch loop cannot run for ever. *)
ResolveReturns == []<>(phase = "idle")

=============================================================================
