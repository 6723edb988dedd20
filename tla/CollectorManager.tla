-------------------------- MODULE CollectorManager --------------------------
(***************************************************************************)
(* Admission and accounting of collector runs (collectors/manager.py).     *)
(*                                                                         *)
(* A task is a coroutine that may call run_collector_once for one          *)
(* collector: its loop (not forced), the startup task on behalf of that    *)
(* collector, or a task created by the trigger endpoint (both forced).     *)
(* One action is what the event loop executes between two suspension       *)
(* points.  A task's pc is                                                 *)
(*   idle     outside run_collector_once;                                  *)
(*   created  a trigger task that has not had its first step;              *)
(*   queued   holds the collector's lock, waits for the semaphore;         *)
(*   granted  the semaphore has given it a permit, it has not resumed;     *)
(*   running  inside collector.collect().                                  *)
(***************************************************************************)
EXTENDS Integers, Sequences, FiniteSets, SequencesExt

CONSTANTS Tasks,       \* coroutines that may run a collector
          Collectors,  \* instantiated collectors
          TargetOf,    \* TargetOf[t]: the collector task t runs
          Forces,      \* Forces[t]: the force argument t passes
          Limit,       \* admission limit: the semaphore's initial value
          MaxRuns,     \* bound: no new request once a collector ran this often
          NoTask       \* the holder of a free lock

ASSUME TasksAssumption == IsFiniteSet(Tasks) /\ NoTask \notin Tasks
ASSUME TargetAssumption == TargetOf \in [Tasks -> Collectors] /\ Forces \in [Tasks -> BOOLEAN]
ASSUME LimitAssumption == Limit \in Nat \ {0}
ASSUME MaxRunsAssumption == MaxRuns \in Nat

VARIABLES pc,             \* where each task is
          lock,           \* _collector_locks: the holder
          value,          \* _collector_semaphore._value
          waiters,        \* tasks whose semaphore future is still pending, FIFO
          forceRun,       \* collector._force_run
          health,         \* collector_health
          succeeded,      \* _collector_succeeded
          pendingGauge,   \* admission gauge "pending"
          activeGauge,    \* admission gauge "active"
          parallelActive, \* _parallel_collections_active
          shutdown        \* _shutdown has cancelled the background tasks

admission == <<lock, value, waiters>>
accounts  == <<health, succeeded, pendingGauge, activeGauge, parallelActive>>
vars == <<pc, admission, forceRun, accounts, shutdown>>

-----------------------------------------------------------------------------
Waiting == {t \in Tasks : pc[t] \in {"queued", "granted"}}
Running == {t \in Tasks : pc[t] = "running"}
Holding == {t \in Tasks : pc[t] \in {"granted", "running"}}

NoRuns == [runs |-> 0, successes |-> 0, failures |-> 0, streak |-> 0]

Init ==
    /\ pc = [t \in Tasks |-> "idle"]
    /\ lock = [c \in Collectors |-> NoTask]
    /\ value = Limit
    /\ waiters = <<>>
    /\ forceRun = [c \in Collectors |-> FALSE]
    /\ health = [c \in Collectors |-> NoRuns]
    /\ succeeded = {}
    /\ pendingGauge = 0
    /\ activeGauge = 0
    /\ parallelActive = [c \in Collectors |-> 0]
    /\ shutdown = FALSE

-----------------------------------------------------------------------------
(* The semaphore.  locked(): no permit, or somebody is still in line, even a *)
(* waiter that was granted a permit and has not resumed.                     *)
SemaphoreLocked == value = 0 \/ Waiting # {}

(* How many of l pending waiters wake when v permits are free and at most n  *)
(* may be woken.                                                             *)
WakeCount(n, v, l) == IF n <= v /\ n <= l THEN n ELSE IF v <= l THEN v ELSE l

(* Task t leaves the semaphore for pc p, with q the futures still pending and *)
(* v the free permits; at most n of them are handed to the head of the line.  *)
HandOver(t, p, q, v, n) ==
    LET k == WakeCount(n, v, Len(q))
        woken == {q[i] : i \in 1..k}
    IN  /\ value' = v - k
        /\ waiters' = SubSeq(q, k + 1, Len(q))
        /\ pc' = [s \in Tasks |-> IF s = t THEN p
                                  ELSE IF s \in woken THEN "granted" ELSE pc[s]]

-----------------------------------------------------------------------------
(* Updates of one collector's health record. *)
RunStarted(h)   == [h EXCEPT !.runs = @ + 1]
RunSucceeded(h) == [h EXCEPT !.successes = @ + 1, !.streak = 0]
RunFailed(h)    == [h EXCEPT !.failures = @ + 1, !.streak = @ + 1]

(* The first steps of _execute_admitted_collector, up to collect(). *)
StartRun(t, c) ==
    /\ activeGauge' = activeGauge + 1
    /\ parallelActive' = [parallelActive EXCEPT ![c] = @ + 1]
    /\ health' = [health EXCEPT ![c] = RunStarted(@)]
    /\ forceRun' = [forceRun EXCEPT ![c] = Forces[t] \/ @]
    /\ UNCHANGED succeeded

(* _record_pre_start_failure: the run expired before it started. *)
PreStartStreakOnly(c) ==
    health' = [health EXCEPT ![c] = [RunStarted(@) EXCEPT !.streak = @ + 1]]

PreStartFailure(c) ==
    health' = [health EXCEPT ![c] = RunFailed(RunStarted(@))]

(* _run_collector_with_timeout entered for collector c. *)
SkipLocked(t, c) ==
    /\ lock[c] # NoTask
    /\ pc' = [pc EXCEPT ![t] = "idle"]
    /\ UNCHANGED <<admission, forceRun, accounts>>

AdmitUnchecked(t, c) ==
    /\ ~SemaphoreLocked
    /\ lock' = [lock EXCEPT ![c] = t]
    /\ value' = value - 1
    /\ pc' = [pc EXCEPT ![t] = "running"]
    /\ StartRun(t, c)
    /\ UNCHANGED <<waiters, pendingGauge>>

AdmitAtOnce(t, c) ==
    /\ lock[c] = NoTask
    /\ ~SemaphoreLocked
    /\ lock' = [lock EXCEPT ![c] = t]
    /\ value' = value - 1
    /\ pc' = [pc EXCEPT ![t] = "running"]
    /\ StartRun(t, c)
    /\ UNCHANGED <<waiters, pendingGauge>>

Enqueue(t, c) ==
    /\ lock[c] = NoTask
    /\ SemaphoreLocked
    /\ lock' = [lock EXCEPT ![c] = t]
    /\ waiters' = Append(waiters, t)
    /\ pc' = [pc EXCEPT ![t] = "queued"]
    /\ pendingGauge' = pendingGauge + 1
    /\ UNCHANGED <<value, forceRun, health, succeeded, activeGauge, parallelActive>>

Enter(t, c) == SkipLocked(t, c) \/ AdmitAtOnce(t, c) \/ Enqueue(t, c)

(* A collector loop (force false) or the startup task (force true) calls      *)
(* run_collector_once; the call runs on in the same step.                     *)
Call(t) ==
    /\ pc[t] = "idle" /\ ~shutdown
    /\ health[TargetOf[t]].runs < MaxRuns
    /\ Enter(t, TargetOf[t])
    /\ UNCHANGED shutdown

(* The trigger endpoint: when the collector is not running it creates a task, *)
(* which enters the manager only later.                                       *)
Trigger(t) ==
    /\ pc[t] = "idle" /\ ~shutdown
    /\ Forces[t]
    /\ health[TargetOf[t]].runs < MaxRuns
    /\ lock[TargetOf[t]] = NoTask
    /\ pc' = [pc EXCEPT ![t] = "created"]
    /\ UNCHANGED <<admission, forceRun, accounts, shutdown>>

TriggerStart(t) ==
    /\ pc[t] = "created" /\ ~shutdown
    /\ Enter(t, TargetOf[t])
    /\ UNCHANGED shutdown

(* A granted task resumes from acquire(): it passes on the permits that came  *)
(* free meanwhile and starts its run.                                         *)
PassNothing(t) == HandOver(t, "running", waiters, value, 0)
PassPermits(t) == HandOver(t, "running", waiters, value, value)

Resume(t) ==
    /\ pc[t] = "granted" /\ ~shutdown
    /\ PassPermits(t)
    /\ pendingGauge' = pendingGauge - 1
    /\ StartRun(t, TargetOf[t])
    /\ UNCHANGED <<lock, shutdown>>

(* acquire() takes its own future out of the line when it is cancelled. *)
RemoveFuture(i) == RemoveAt(waiters, i)

(* A permit granted to a task that will not run is counted again. *)
ReturnPermit(v) == v + 1

(* The finally block of _admit_collector: only an admitted run releases. *)
ReleaseAnyway(v) == v + 1
ReleaseIfAdmitted(v) == v

(* The task leaves the line without a run: it returns the permit it may have  *)
(* been granted, wakes whoever can go on and frees the collector's lock.      *)
LeaveLine(t) ==
    /\ \/ /\ pc[t] = "granted"
          /\ LET v == ReleaseIfAdmitted(ReturnPermit(value))
             IN  HandOver(t, "idle", waiters, v, v)
       \/ /\ pc[t] = "queued"
          /\ \E i \in 1..Len(waiters) :
                /\ waiters[i] = t
                /\ LET v == ReleaseIfAdmitted(value)
                   IN  HandOver(t, "idle", RemoveFuture(i), v, v)
    /\ lock' = [lock EXCEPT ![TargetOf[t]] = NoTask]
    /\ pendingGauge' = pendingGauge - 1
    /\ UNCHANGED <<forceRun, succeeded, activeGauge, parallelActive, shutdown>>

(* The admission deadline fires, before or after the permit was granted. *)
Expire(t) ==
    /\ ~shutdown
    /\ LeaveLine(t)
    /\ PreStartFailure(TargetOf[t])

(* Only a forced run clears the collector's force flag. *)
KeepForce(t, c) == UNCHANGED forceRun
ClearForce(t, c) ==
    forceRun' = [forceRun EXCEPT ![c] = IF Forces[t] THEN FALSE ELSE @]

KeepPermit(v) == v
Release(v) == v + 1

(* collect() ends with success, or with a timeout, an error or a cancellation, *)
(* which are accounted alike; all the finally blocks run in the same step.     *)
Finish(t, ok) ==
    LET c == TargetOf[t] IN
    /\ pc[t] = "running"
    /\ HandOver(t, "idle", waiters, Release(value), 1)
    /\ lock' = [lock EXCEPT ![c] = NoTask]
    /\ ClearForce(t, c)
    /\ activeGauge' = activeGauge - 1
    /\ parallelActive' = [parallelActive EXCEPT ![c] = @ - 1]
    /\ \/ /\ ok
          /\ health' = [health EXCEPT ![c] = RunSucceeded(@)]
          /\ succeeded' = succeeded \cup {c}
       \/ /\ ~ok
          /\ health' = [health EXCEPT ![c] = RunFailed(@)]
          /\ UNCHANGED succeeded
    /\ UNCHANGED <<pendingGauge, shutdown>>

-----------------------------------------------------------------------------
(* app._shutdown cancels every background task at once; each one meets the   *)
(* cancellation at its next step.                                            *)
Shutdown ==
    /\ ~shutdown
    /\ shutdown' = TRUE
    /\ UNCHANGED <<pc, admission, forceRun, accounts>>

CancelCreated(t) ==
    /\ shutdown /\ pc[t] = "created"
    /\ pc' = [pc EXCEPT ![t] = "idle"]
    /\ UNCHANGED <<admission, forceRun, accounts, shutdown>>

CancelWaiting(t) ==
    /\ shutdown
    /\ LeaveLine(t)
    /\ UNCHANGED health

-----------------------------------------------------------------------------
Step(t) ==
    \/ TriggerStart(t)
    \/ Resume(t)
    \/ \E ok \in BOOLEAN : Finish(t, ok)
    \/ CancelCreated(t)
    \/ CancelWaiting(t)

Next ==
    \/ \E t \in Tasks : Call(t) \/ Trigger(t) \/ Step(t) \/ Expire(t)
    \/ Shutdown

Spec == Init /\ [][Next]_vars

(* The event loop gives every runnable task its next step, and the collector  *)
(* timeout ends every run.  The admission deadline is not relied upon.        *)
FairSpec == Spec /\ \A t \in Tasks : WF_vars(Step(t))

-----------------------------------------------------------------------------
TaskPC == {"idle", "created", "queued", "granted", "running"}
HealthRecord == [runs : Nat, successes : Nat, failures : Nat, streak : Nat]

TypeOK ==
    /\ pc \in [Tasks -> TaskPC]
    /\ lock \in [Collectors -> Tasks \cup {NoTask}]
    /\ value \in Nat
    /\ waiters \in Seq(Tasks)
    /\ forceRun \in [Collectors -> BOOLEAN]
    /\ health \in [Collectors -> HealthRecord]
    /\ succeeded \in SUBSET Collectors
    /\ pendingGauge \in Int
    /\ activeGauge \in Int
    /\ parallelActive \in [Collectors -> Int]
    /\ shutdown \in BOOLEAN

(* A collector's lock is held exactly by the task that waits or runs for it:  *)
(* no exit path leaks it and no path runs without it, so a collector never    *)
(* runs twice at once (_run_collector_with_timeout).                          *)
LockDiscipline ==
    \A c \in Collectors, t \in Tasks :
        lock[c] = t <=> /\ pc[t] \in {"queued", "granted", "running"}
                        /\ TargetOf[t] = c

(* Each task queued on the semaphore is in its line exactly once. *)
LineMatchesTasks ==
    /\ \A t \in Tasks : pc[t] = "queued" <=> \E i \in 1..Len(waiters) : waiters[i] = t
    /\ \A i, j \in 1..Len(waiters) : waiters[i] = waiters[j] => i = j

(* A permit is free or belongs to one granted or running task: a deadline     *)
(* that races the grant neither loses nor duplicates it (_admit_collector).   *)
PermitsConserved == value + Cardinality(Holding) = Limit

(* No lost wake-up: while a permit is free and a task is queued, some granted *)
(* task is about to resume and pass the permit on (acquire and release).      *)
NoLostWakeup ==
    value > 0 /\ (\E t \in Tasks : pc[t] = "queued")
        => \E t \in Tasks : pc[t] = "granted"

(* collector._force_run is up exactly while a forced run of that collector    *)
(* executes, so a forced run never opens the gates of a later or queued run   *)
(* (_execute_admitted_collector).                                             *)
ForceIsolation ==
    \A c \in Collectors :
        forceRun[c] <=> \E t \in Running : TargetOf[t] = c /\ Forces[t]

Executing(c) == IF \E t \in Running : TargetOf[t] = c THEN 1 ELSE 0

(* Every run that was counted is in progress, or counted once as a success or *)
(* a failure, on every exit path (collector_health).                          *)
HealthBalance ==
    \A c \in Collectors :
        /\ health[c].runs = health[c].successes + health[c].failures + Executing(c)
        /\ health[c].streak <= health[c].failures
        /\ c \in succeeded <=> health[c].successes > 0

(* The admission gauges and the per-collector gauge show what is going on,    *)
(* after every exit path (_admit_collector, _execute_admitted_collector).     *)
GaugesAccurate ==
    /\ pendingGauge = Cardinality(Waiting)
    /\ activeGauge = Cardinality(Running)
    /\ \A c \in Collectors : parallelActive[c] = Executing(c)

(* What is reported of the runs, counters and gauges, is what happened.       *)
AccountsBalance == HealthBalance /\ GaugesAccurate

(* What the manager keeps of its runs agrees with them, whoever waits and     *)
(* however they end.                                                          *)
RunsInv == TypeOK /\ NoLostWakeup /\ ForceIsolation /\ AccountsBalance

(* A queued task leaves the line without the help of its own deadline: the    *)
(* line is served in order as running collectors end (_admit_collector).      *)
NoStarvation == \A t \in Tasks : pc[t] = "queued" ~> pc[t] # "queued"

(* The manager implements the abstract admission: a collector is served by    *)
(* the holder of its lock once that task runs.                                *)
Serving == [c \in Collectors |->
               IF \E t \in Running : TargetOf[t] = c THEN lock[c] ELSE NoTask]
Admission == INSTANCE CollectorAdmission WITH serving <- Serving
ImplementsAdmission == Admission!Spec

=============================================================================
