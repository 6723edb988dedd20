----------------------------- MODULE TaskGroup -----------------------------
(***************************************************************************)
(* ManagedTaskGroup (core/async_utils.py) as the coordinators use it: a    *)
(* body that offers one worker per organization or network, waiting for a  *)
(* slot each time, the workers, and the exit that waits for all of them;   *)
(* the collector's timeout or the shutdown may cancel the body wherever it *)
(* awaits.  After the group the coordinator judges the cycle by the        *)
(* group's counters (the rule of #509).                                    *)
(*                                                                         *)
(* What a worker leaves behind is accounted for by a callback, which the   *)
(* event loop runs some time after the worker has ended.                   *)
(***************************************************************************)
EXTENDS Naturals, FiniteSets

CONSTANTS Jobs,           \* what the body offers, a finite set
          MaxConcurrency  \* max_concurrency, at least one

VARIABLES body,     \* "offer", "acquire", "granted", "exit", or "left"
          broken,   \* the body left its block with an exception
          offered,  \* jobs the body is through with
          wanted,   \* the job in create_task, or NoJob
          work,     \* where a job's task is, or how it ended
          settled,  \* tasks whose callback has run
          asked,    \* tasks that were asked to cancel
          slots,    \* _semaphore._value
          backoffs, \* skipped_backoff
          created, completed, cancelled, failed, \* the group's counters
          verdict   \* how the coordinator's cycle ended

counters == <<created, completed, cancelled, failed>>
vars == <<body, broken, offered, wanted, work, settled, asked, slots, backoffs, counters, verdict>>

-----------------------------------------------------------------------------
NoJob == "nojob"
Ends == {"ok", "error", "cancelled"}

(* A task runs, then it has ended, and then its callback has run. *)
Running == {j \in Jobs : work[j] = "running"}
Unsettled == {j \in Jobs : work[j] \in Ends} \ settled

Init ==
    /\ body = "offer" /\ broken = FALSE
    /\ offered = {} /\ wanted = NoJob
    /\ work = [j \in Jobs |-> "none"] /\ settled = {} /\ asked = {}
    /\ slots = MaxConcurrency /\ backoffs = 0
    /\ created = 0 /\ completed = 0 /\ cancelled = 0 /\ failed = 0
    /\ verdict = "none"

-----------------------------------------------------------------------------
(* The coordinator passes over an organization in backoff. *)
Skip(j) ==
    /\ body = "offer" /\ j \notin offered
    /\ offered' = offered \cup {j}
    /\ backoffs' = backoffs + 1
    /\ UNCHANGED <<body, broken, wanted, work, settled, asked, slots, counters, verdict>>

Spawn(j) ==
    /\ work' = [work EXCEPT ![j] = "running"]
    /\ created' = created + 1
    /\ offered' = offered \cup {j}

(* create_task: a free slot is taken without suspending, or the body waits. *)
Offer(j) ==
    /\ body = "offer" /\ j \notin offered
    /\ \/ slots > 0 /\ slots' = slots - 1 /\ Spawn(j)
          /\ UNCHANGED <<body, wanted>>
       \/ slots = 0 /\ body' = "acquire" /\ wanted' = j
          /\ UNCHANGED <<offered, work, created, slots>>
    /\ UNCHANGED <<broken, settled, asked, backoffs, completed, cancelled, failed, verdict>>

Admit ==
    /\ body = "granted"
    /\ Spawn(wanted)
    /\ body' = "offer" /\ wanted' = NoJob
    /\ UNCHANGED <<broken, settled, asked, slots, backoffs, completed, cancelled, failed, verdict>>

-----------------------------------------------------------------------------
(* A worker returns, raises, or is cancelled.  One that was asked to cancel  *)
(* does not return.                                                          *)
Finish(j, e) ==
    /\ j \in Running
    /\ e = "cancelled" => j \in asked
    /\ e = "ok" => j \notin asked
    /\ work' = [work EXCEPT ![j] = e]
    /\ UNCHANGED <<body, broken, offered, wanted, settled, asked, slots, backoffs, counters, verdict>>

(* Mutants: the slot of a failed task is kept; a slot handed over is also    *)
(* put back.                                                                 *)
FreedUnlessFailed(e) ==
    IF e = "error" THEN UNCHANGED <<slots, body>>
    ELSE IF body = "acquire" THEN body' = "granted" /\ UNCHANGED slots
    ELSE slots' = slots + 1 /\ UNCHANGED body

(* Semaphore.release: a waiting body is handed the slot. *)
Freed(e) ==
    IF body = "acquire" THEN body' = "granted" /\ UNCHANGED slots
    ELSE slots' = slots + 1 /\ UNCHANGED body

Counted(e) ==
    /\ completed' = completed + 1
    /\ failed' = failed + (IF e = "error" THEN 1 ELSE 0)
    /\ cancelled' = cancelled + (IF e = "cancelled" THEN 1 ELSE 0)

(* _on_complete. *)
OnComplete(j) ==
    /\ j \in Unsettled
    /\ settled' = settled \cup {j}
    /\ Freed(work[j]) /\ Counted(work[j])
    /\ UNCHANGED <<broken, offered, wanted, work, asked, backoffs, created, verdict>>

-----------------------------------------------------------------------------
(* The end of the block, after every job has been offered. *)
Leave ==
    /\ body = "offer" /\ offered = Jobs
    /\ body' = "exit"
    /\ UNCHANGED <<broken, offered, wanted, work, settled, asked, slots, backoffs, counters, verdict>>

(* The body is cancelled.  In create_task this ends the block: the slot it   *)
(* may have been granted goes back, and __aexit__ cancels the tasks.  In     *)
(* __aexit__, gather cancels them, and still waits for them.                 *)
Cancel ==
    /\ body \in {"acquire", "granted", "exit"}
    /\ body' = "exit" /\ broken' = TRUE
    /\ wanted' = NoJob
    /\ slots' = slots + (IF body = "granted" THEN 1 ELSE 0)
    /\ asked' = asked \cup Running
    /\ UNCHANGED <<offered, work, settled, backoffs, counters, verdict>>

(* Mutants: the exit waits for what runs only unless it was cancelled; the   *)
(* exit does not wait for callbacks.                                         *)
WaitedUnlessBroken == broken \/ (Running = {} /\ Unsettled = {})
WaitedForTasks == Running = {}

Waited == Running = {} /\ Unsettled = {}

Succeeded == completed - cancelled - failed

(* After the group: NothingCollectedError, or a cycle that counts as success. *)
Judgement ==
    IF broken THEN "cancelled"
    ELSE IF Jobs # {} /\ Succeeded = 0 /\ (failed > 0 \/ backoffs = Cardinality(Jobs))
    THEN "nothing collected"
    ELSE "collected"

Exit ==
    /\ body = "exit" /\ Waited
    /\ body' = "left" /\ verdict' = Judgement
    /\ UNCHANGED <<broken, offered, wanted, work, settled, asked, slots, backoffs, counters>>

Next ==
    \/ \E j \in Jobs :
          Skip(j) \/ Offer(j) \/ OnComplete(j) \/ \E e \in Ends : Finish(j, e)
    \/ Admit \/ Leave \/ Cancel \/ Exit

Spec == Init /\ [][Next]_vars

(* The event loop runs what is ready, and every worker ends: its calls have  *)
(* deadlines (ApiCalls).                                                     *)
Proceed ==
    \/ Admit \/ Leave \/ Exit
    \/ \E j \in Jobs : Skip(j) \/ Offer(j) \/ OnComplete(j) \/ \E e \in Ends : Finish(j, e)

FairSpec == Spec /\ WF_vars(Proceed)

-----------------------------------------------------------------------------
TypeOK ==
    /\ body \in {"offer", "acquire", "granted", "exit", "left"} /\ broken \in BOOLEAN
    /\ offered \subseteq Jobs /\ wanted \in Jobs \cup {NoJob}
    /\ work \in [Jobs -> {"none", "running"} \cup Ends]
    /\ settled \subseteq Jobs /\ asked \subseteq Jobs /\ slots \in 0..MaxConcurrency
    /\ backoffs \in 0..Cardinality(Jobs)
    /\ \A n \in {created, completed, cancelled, failed} : n \in 0..Cardinality(Jobs)
    /\ verdict \in {"none", "cancelled", "nothing collected", "collected"}

(* Slots are neither lost nor made up: those taken are the tasks not yet     *)
(* accounted for, and the one a waiting body was handed.  So at most that    *)
(* workers run together, and a cancelled wait costs the group nothing.       *)
SlotsConserved ==
    slots + Cardinality(Running \cup Unsettled) + (IF body = "granted" THEN 1 ELSE 0)
    = MaxConcurrency

(* When the coordinator goes on, by whatever way, no worker of it runs: a    *)
(* collector that was timed out does not go on beside its next cycle.        *)
NoOrphans == body = "left" => Running = {}

(* A cycle is judged by what its workers did, all of them: it is a failure   *)
(* exactly when none returned and some raised, or all were in backoff.       *)
Did(e) == {j \in Jobs : work[j] = e}

JudgedByAll ==
    /\ verdict = "collected" /\ Jobs # {} => Did("ok") # {}
    /\ verdict = "nothing collected" => Did("ok") = {}
    /\ verdict # "none" => created = completed

(* The group's books, as a whole.                                           *)
GroupInv == TypeOK /\ SlotsConserved /\ NoOrphans /\ JudgedByAll

(* Every group ends, and unless it is cancelled every job has been offered.  *)
GroupEnds == <>[](body = "left" /\ (broken \/ offered = Jobs))
=============================================================================
