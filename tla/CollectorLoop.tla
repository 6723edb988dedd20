--------------------------- MODULE CollectorLoop ---------------------------
(***************************************************************************)
(* The clock of one collector: its loop (app._collector_loop), the gates   *)
(* of its endpoint groups (EndpointScheduler.should_run, next_due,         *)
(* seconds_until_due, mark_ran, mark_failed) and the cycle that consults   *)
(* them (MetricCollector.collect and the coordinators' _collect_impl),     *)
(* while the scheduler re-solves and forced runs come in.                  *)
(*                                                                         *)
(* Timestamps are kept as ages that Tick advances, so runs are infinite    *)
(* and the state space is finite.  A cycle is a prefetch (stage 0: the     *)
(* inventory reads before any gate) and then one or more stages; the       *)
(* groups of a stage are consulted together, fetched, and marked.          *)
(***************************************************************************)
EXTENDS Integers, Sequences, FiniteSets, FiniteSetsExt

CONSTANTS Groups,        \* the collector's endpoint groups, all gated
          Stages,        \* the sets of groups, in the order they are consulted
          Strict,        \* groups of a stage that raises NothingCollectedError
          Unconditional, \* groups marked as ran whatever their fetch returned
          PrefetchFails, \* TRUE when the prefetch may raise, hang or find nothing
          Floor,         \* volatility floor
          Plans,         \* plans resolve() may publish
          Retry,         \* failure_retry_seconds
          ResolveCap,    \* resolve_interval_seconds
          Timeout,       \* collector_timeout
          AgeCap         \* bound: ages are not counted beyond it

ASSUME GroupsAssumption ==
    /\ IsFiniteSet(Groups) /\ Stages \in Seq(SUBSET Groups)
    /\ Strict \subseteq Groups /\ Unconditional \subseteq Groups
ASSUME FloorAssumption == Floor \in [Groups -> Nat \ {0}]
ASSUME PlansAssumption ==
    Plans \subseteq [interval : [Groups -> Nat \ {0}], shed : SUBSET Groups, off : SUBSET Groups]
ASSUME TimesAssumption ==
    /\ Retry \in Nat \ {0, 1} /\ ResolveCap \in Nat \ {0} /\ Timeout \in Nat
    /\ AgeCap \in Nat /\ AgeCap > Retry /\ AgeCap > Timeout
    /\ PrefetchFails \in BOOLEAN

VARIABLES plan,       \* the solved intervals, the shed set, the disabled groups
          ran,        \* age of _last_ran
          tried,      \* age of _last_attempt
          counted,    \* _failed_attempt = _last_attempt
          runner,     \* who holds the collector's lock: "none", "loop", "forced"
          stage,      \* 0 in the prefetch, then the stage of the cycle
          fetching,   \* the groups being fetched
          elapsed,    \* age of the cycle
          sleepLeft,  \* what is left of the loop's sleep, or Unstarted
          succeeded,  \* the collector is in _collector_succeeded
          data,       \* ghost: groups that were ever fetched with success
          outcome,    \* ghost: what became of a group's last attempt
          news,       \* ghost: groups brought forward into its sleep
          overdue     \* ghost: for how long such a group has been due

gates == <<ran, tried, counted>>
cycle == <<runner, stage, fetching, elapsed>>
nap == <<sleepLeft, overdue, news>>
vars == <<plan, gates, cycle, nap, succeeded, data, outcome>>

-----------------------------------------------------------------------------
Never == -1
Unstarted == -1
Lesser(a, b) == IF a <= b THEN a ELSE b
Greater(a, b) == IF a >= b THEN a ELSE b

Schedulable(g) == g \notin plan.shed /\ g \notin plan.off

(* The gate opens once nine tenths of the interval have passed. *)
GateTime(i) == (9 * i + 9) \div 10

(* _last_attempt_failed: the last attempt is younger than the last success. *)
LastAttemptFailed(g) == tried[g] # Never /\ (ran[g] = Never \/ tried[g] < ran[g])

DueEagerly(g) == ran[g] = Never \/ ran[g] >= GateTime(plan.interval[g])
Due(g) ==
    /\ ran[g] = Never \/ ran[g] >= GateTime(plan.interval[g])
    /\ LastAttemptFailed(g) => tried[g] >= Retry

(* _should_run_group: a forced run opens every gate but that of a shed group. *)
ShouldRun(g) ==
    IF runner = "forced" THEN g \notin plan.shed ELSE Schedulable(g) /\ Due(g)

(* next_due, relative to now. *)
NextDue(r, t, g) ==
    LET base == IF r[g] = Never THEN 0 ELSE GateTime(plan.interval[g]) - r[g]
        failed == t[g] # Never /\ (r[g] = Never \/ t[g] < r[g])
    IN  IF failed THEN Greater(base, Retry - t[g]) ELSE base

(* The loop's sleep: until the first group is due, at most ResolveCap, at     *)
(* least one unit.                                                            *)
DueTimes(r, t) == {NextDue(r, t, g) : g \in {h \in Groups : Schedulable(h)}}

SleepUncapped(r, t) == Greater(1, Min(DueTimes(r, t) \cup {AgeCap}))
SleepFor(r, t) == Greater(1, Min(DueTimes(r, t) \cup {ResolveCap}))

FallAsleep(r, t) ==
    /\ sleepLeft' = SleepFor(r, t)
    /\ overdue' = 0
    /\ news' = {}

(* The loop goes back to sleep; the end of the initial run creates the loop,  *)
(* which starts at once or after its phase offset.                            *)
BackToSleep(r, t) ==
    IF runner = "loop" THEN FallAsleep(r, t)
    ELSE IF sleepLeft = Unstarted THEN sleepLeft' \in {0, 1} /\ UNCHANGED <<overdue, news>>
    ELSE UNCHANGED nap

(* Ghost: a plan, or a success after failures, may bring a group forward to a *)
(* time at which the loop, which does not know, still sleeps.                 *)
Overslept(g) == sleepLeft > 1 /\ Schedulable(g) /\ sleepLeft > NextDue(ran, tried, g)
BroughtForward(g) ==
    Schedulable(g)' /\ (Schedulable(g) => NextDue(ran, tried, g)' < NextDue(ran, tried, g))
Unnoticed == news' = {g \in Groups : Overslept(g)' /\ (g \in news \/ BroughtForward(g))}

-----------------------------------------------------------------------------
Init ==
    /\ plan = [interval |-> Floor, shed |-> {}, off |-> {}]
    /\ ran = [g \in Groups |-> Never]
    /\ tried = [g \in Groups |-> Never]
    /\ counted = [g \in Groups |-> FALSE]
    /\ runner = "forced"
    /\ stage = 0
    /\ fetching = {}
    /\ elapsed = 0
    /\ sleepLeft = Unstarted
    /\ succeeded = FALSE
    /\ data = {}
    /\ outcome = [g \in Groups |-> "none"]
    /\ overdue = 0
    /\ news = {}

Start(who) ==
    /\ runner' = who
    /\ UNCHANGED <<plan, gates, stage, fetching, elapsed, succeeded, data, outcome>>

(* The loop's sleep ends.  If a forced run holds the lock, the run is skipped *)
(* and the loop sleeps again.                                                 *)
Wake ==
    /\ sleepLeft = 0
    /\ \/ runner = "none" /\ Start("loop") /\ UNCHANGED sleepLeft
          /\ overdue' = 0 /\ news' = {}
       \/ runner = "forced" /\ FallAsleep(ran, tried)
          /\ UNCHANGED <<plan, gates, cycle, succeeded, data, outcome>>

(* The trigger endpoint. *)
Trigger ==
    /\ runner = "none" /\ sleepLeft # Unstarted
    /\ Start("forced")
    /\ UNCHANGED nap

-----------------------------------------------------------------------------
CountAttempts(r) ==
    counted' = [g \in Groups |-> counted[g] \/ tried[g] # Never]

(* mark_failed, which collect() calls for every group of the collector. *)
CountFailures(r) ==
    counted' = [g \in Groups |->
        counted[g] \/ (tried[g] # Never /\ (r[g] = Never \/ r[g] > tried[g]))]
Release ==
    /\ runner' = "none"
    /\ stage' = 0
    /\ fetching' = {}
    /\ elapsed' = 0

EndCycle(r) ==
    /\ Release
    /\ CountFailures(r)
    /\ BackToSleep(r, tried)

(* The inventory reads before the first gate: they go well, or raise. *)
Prefetch ==
    /\ runner # "none" /\ stage = 0
    /\ stage' = 1
    /\ UNCHANGED <<plan, gates, runner, fetching, elapsed, nap, succeeded, data, outcome>>

PrefetchError ==
    /\ runner # "none" /\ stage = 0 /\ PrefetchFails
    /\ EndCycle(ran)
    /\ UNCHANGED <<plan, ran, tried, succeeded, data, outcome>>

(* Nothing to collect from: the cycle ends well without consulting a gate. *)
PrefetchEmpty ==
    /\ runner # "none" /\ stage = 0 /\ PrefetchFails
    /\ stage' = Len(Stages) + 1
    /\ UNCHANGED <<plan, gates, runner, fetching, elapsed, nap, succeeded, data, outcome>>

(* The gates of a stage are consulted; an open gate of an unforced run        *)
(* records the attempt.                                                       *)
RecordFirstAttempt(due) ==
    /\ tried' = [g \in Groups |-> IF g \in due /\ tried[g] = Never THEN 0 ELSE tried[g]]
    /\ counted' = [g \in Groups |-> IF g \in due THEN FALSE ELSE counted[g]]
    /\ outcome' = [g \in Groups |-> IF g \in due THEN "open" ELSE outcome[g]]
RecordAttempt(due) ==
    /\ tried' = [g \in Groups |-> IF g \in due THEN 0 ELSE tried[g]]
    /\ counted' = [g \in Groups |-> IF g \in due THEN FALSE ELSE counted[g]]
    /\ outcome' = [g \in Groups |-> IF g \in due THEN "open" ELSE outcome[g]]

Consult ==
    /\ runner # "none" /\ stage \in 1..Len(Stages) /\ fetching = {}
    /\ LET due == {g \in Stages[stage] : ShouldRun(g)}
       IN  /\ fetching' = due
           /\ stage' = IF due = {} THEN stage + 1 ELSE stage
           /\ IF runner = "loop" THEN RecordAttempt(due)
              ELSE UNCHANGED <<tried, counted, outcome>>
    /\ UNCHANGED <<plan, ran, runner, elapsed, nap, succeeded, data>>

(* The fetches of a stage are over; ok are the groups that got data from at   *)
(* least one of their calls.  When there is none, a stage with a strict group *)
(* raises before anything is marked.                                          *)
Marked(ok) == [g \in Groups |-> IF g \in ok \cup (fetching \cap Unconditional) THEN 0 ELSE ran[g]]

Conclude(ok) ==
    /\ data' = data \cup ok
    /\ outcome' = [g \in Groups |->
          IF g \in fetching /\ outcome[g] = "open"
          THEN (IF g \in ok THEN "ok" ELSE "failed") ELSE outcome[g]]

Fetched(ok) ==
    /\ fetching # {} /\ ok \subseteq fetching
    /\ ok # {} \/ fetching \cap Strict = {}
    /\ Conclude(ok)
    /\ ran' = Marked(ok)
    /\ fetching' = {}
    /\ stage' = stage + 1
    /\ UNCHANGED <<plan, tried, counted, runner, elapsed, sleepLeft, overdue, succeeded>>
    /\ Unnoticed

FetchError ==
    /\ fetching \cap Strict # {}
    /\ Conclude({})
    /\ EndCycle(ran)
    /\ UNCHANGED <<plan, ran, tried, succeeded>>

CycleSuccess ==
    /\ runner # "none" /\ stage > Len(Stages)
    /\ succeeded' = TRUE
    /\ EndCycle(ran)
    /\ UNCHANGED <<plan, ran, tried, data, outcome>>

(* The cycle is suspended: in its prefetch or its fetches.  Gates are         *)
(* consulted, marked and left without a suspension point.                     *)
Awaiting == (stage = 0 /\ PrefetchFails) \/ fetching # {}

(* asyncio.timeout cancels the suspended cycle: collect() attributes no       *)
(* failure, and what was fetched in vain or is being fetched is lost.         *)
CycleTimeout ==
    /\ runner # "none" /\ elapsed = Timeout /\ Awaiting
    /\ Release
    /\ outcome' = [g \in Groups |->
          IF outcome[g] \in {"open", "failed"} /\ ~counted[g] THEN "lost" ELSE outcome[g]]
    /\ BackToSleep(ran, tried)
    /\ UNCHANGED <<plan, gates, succeeded, data>>

-----------------------------------------------------------------------------
(* _scheduler_resolve_loop publishes a new plan, at any time. *)
Resolve(p) ==
    /\ plan # p
    /\ plan' = p
    /\ UNCHANGED <<gates, cycle, sleepLeft, overdue, succeeded, data, outcome>>
    /\ Unnoticed

(* Time passes while the loop sleeps and while the cycle awaits an answer.    *)
Older(a) == IF a = Never THEN Never ELSE Lesser(a + 1, AgeCap)

Tick ==
    /\ sleepLeft # 0 \/ runner = "loop"
    /\ runner # "none" => elapsed < Timeout /\ Awaiting
    /\ ran' = [g \in Groups |-> Older(ran[g])]
    /\ tried' = [g \in Groups |-> Older(tried[g])]
    /\ elapsed' = IF runner # "none" THEN elapsed + 1 ELSE elapsed
    /\ sleepLeft' = IF sleepLeft > 0 THEN sleepLeft - 1 ELSE sleepLeft
    /\ overdue' = IF \E g \in news : NextDue(ran, tried, g) <= 0 THEN overdue + 1 ELSE 0
    /\ UNCHANGED <<plan, counted, runner, stage, fetching, succeeded, data, outcome>>
    /\ news' = {g \in news : Overslept(g)'}

CycleStep ==
    \/ Prefetch
    \/ PrefetchError
    \/ PrefetchEmpty
    \/ Consult
    \/ \E ok \in SUBSET Groups : Fetched(ok)
    \/ FetchError
    \/ CycleSuccess
    \/ CycleTimeout

Next == Wake \/ Trigger \/ CycleStep \/ (\E p \in Plans : Resolve(p)) \/ Tick

Spec == Init /\ [][Next]_vars

(* Time passes, a due sleep ends and a cycle goes on. *)
FairSpec == Spec /\ WF_vars(Wake) /\ WF_vars(Tick) /\ WF_vars(CycleStep)

-----------------------------------------------------------------------------
Age == -1..AgeCap

TypeOK ==
    /\ plan \in [interval : [Groups -> Nat \ {0}], shed : SUBSET Groups, off : SUBSET Groups]
    /\ ran \in [Groups -> Age]
    /\ tried \in [Groups -> Age]
    /\ counted \in [Groups -> BOOLEAN]
    /\ runner \in {"none", "loop", "forced"}
    /\ stage \in 0..(Len(Stages) + 1)
    /\ fetching \subseteq Groups
    /\ elapsed \in 0..Timeout
    /\ sleepLeft \in -1..Greater(1, ResolveCap)
    /\ succeeded \in BOOLEAN
    /\ data \subseteq Groups
    /\ outcome \in [Groups -> {"none", "open", "ok", "failed", "lost"}]
    /\ overdue \in 0..ResolveCap
    /\ news \subseteq Groups

MinInterval(g) == Min({p.interval[g] : p \in Plans} \cup {Floor[g]})

(* However forced runs, re-solves, failures and timeouts interleave, the loop *)
(* never starts two fetches of a group closer together than the gate time of  *)
(* its shortest interval, or the retry time when the first one failed: a      *)
(* failing group cannot hot-loop, a healthy one is not polled below its floor *)
(* (should_run).                                                              *)
PollRateBounded ==
    [][\A g \in Groups :
          runner = "loop" /\ g \in fetching' \ fetching /\ tried[g] # Never =>
              /\ tried[g] >= Lesser(Retry, GateTime(MinInterval(g)))
              /\ \/ outcome[g] = "ok"
                 \/ tried[g] >= Retry
                 \/ ran[g] # Never /\ ran[g] <= tried[g]]_vars

(* A failure is never attributed to an attempt that succeeded, whatever       *)
(* forced runs and swallowed failures surround it, and every failed attempt   *)
(* is attributed by the end of its cycle, unless the cycle was cancelled or   *)
(* its group is marked whatever was fetched (mark_failed, collect).           *)
FailuresAttributed ==
    \A g \in Groups :
        /\ counted[g] => outcome[g] \in {"failed", "lost"}
        /\ runner = "none" =>
              /\ outcome[g] # "open"
              /\ outcome[g] = "failed" => counted[g] \/ g \in Unconditional

(* Attempts are attributed to whoever made them, and the types.               *)
LoopInv == TypeOK /\ FailuresAttributed

(* The loop sleeps past the moment a group is due, for longer than the        *)
(* shortest sleep, only if a plan published, or a forced run that ended,      *)
(* during that very sleep brought the group forward, whoever failed, was      *)
(* marked or was skipped before; and what such a group then waits, the rest   *)
(* of the sleep included, stays within one resolve period, however many plans *)
(* follow (_collector_loop, seconds_until_due).                               *)
NeverOversleeps ==
    /\ \A g \in Groups : Overslept(g) => g \in news
    /\ overdue > 0 => overdue + sleepLeft <= ResolveCap

PrefetchLost == stage = 0 /\ (PrefetchError \/ PrefetchEmpty \/ CycleTimeout)

(* However the other groups of the collector fail or time out, a group that   *)
(* is neither shed nor disabled is fetched again and again once no more runs  *)
(* are forced and the reads before the gates go well and find something, also *)
(* when it is consulted after a group whose failure ends the cycle            *)
(* (_collector_loop, collect).                                                *)
GroupsServed ==
    \A g \in Groups :
        /\ <>[](Schedulable(g) /\ runner # "forced")
        /\ <>[][~PrefetchLost]_vars
        => []<>(g \in fetching)

(* What the docs and comments say, which the code does not keep.              *)

(* A collector cycle that produced no success withholds readiness.            *)
ReadinessNeedsData == succeeded => data # {}

(* A group is marked as ran only after at least one success within a fetch.   *)
MarkedAfterSuccess == \A g \in Groups : ran[g] # Never => g \in data

=============================================================================
