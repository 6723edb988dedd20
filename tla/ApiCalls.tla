------------------------------ MODULE ApiCalls ------------------------------
(***************************************************************************)
(* How a fetch of a collector reaches the Dashboard API: the decorator     *)
(* with_error_handling (core/error_handling.py) around the fetch, the      *)
(* facade call (core/api_facade.py) that paces, retries and bounds each    *)
(* SDK call, and the executor (api/client.py) whose threads make them.     *)
(*                                                                         *)
(* A fetch makes Calls facade calls, one after the other.  A thread cannot *)
(* be interrupted: when the deadline ends a fetch, its thread goes on for  *)
(* nobody.  The event loop fires a timer before more time goes by.         *)
(***************************************************************************)
EXTENDS Integers, FiniteSets, SequencesExt

CONSTANTS Fetches,           \* decorated fetches of the collectors
          Workers,           \* executor_workers threads
          Calls,             \* facade calls a fetch makes
          MaxRetries,        \* settings.api.max_retries
          DecoratorRetries,  \* max_retries of with_error_handling
          Deadline,          \* per_fetch_deadline_seconds, of either layer
          MaxPause           \* retry_after_max_seconds or the backoff cap

Free == "free"
Orphan == "orphan"
NoAnswer == "none"
Answers == {"ok", "throttled", "failed"}

ASSUME FetchesAssumption == Fetches \cap {Free, Orphan} = {}
ASSUME NumbersAssumption ==
    /\ Calls \in Nat \ {0} /\ MaxRetries \in Nat /\ DecoratorRetries \in Nat
    /\ Deadline \in Nat \ {0} /\ MaxPause \in Nat \ {0}

VARIABLES pc,        \* idle, pacing (in acquire), waiting (for a thread), backoff
          call,      \* which facade call of the fetch
          attempt,   \* attempt of call()
          retry,     \* retry_count of the decorator
          age,       \* time since the fetch began
          callAge,   \* time since the facade call began
          pause,     \* what is left of a backoff
          answer,    \* result of the future, its awaiter not resumed yet
          line,      \* work queue of the executor
          thread,    \* whose SDK call a worker makes
          outcome,   \* how the last fetch ended
          sent,      \* ghost: SDK calls made by the fetch
          metered,   \* ghost: of these, recorded by _record_attempt
          unheard    \* ghost: fetches with a 429 the limiter was not told of

progress == <<call, attempt, retry, callAge, pause>>
pool == <<line, thread>>
counts == <<sent, metered, unheard>>
vars == <<pc, progress, age, answer, pool, outcome, counts>>

-----------------------------------------------------------------------------
Init ==
    /\ pc = [f \in Fetches |-> "idle"]
    /\ call = [f \in Fetches |-> 1] /\ attempt = [f \in Fetches |-> 0]
    /\ retry = [f \in Fetches |-> 0] /\ pause = [f \in Fetches |-> 0]
    /\ age = [f \in Fetches |-> 0] /\ callAge = [f \in Fetches |-> 0]
    /\ answer = [f \in Fetches |-> NoAnswer]
    /\ line = <<>> /\ thread = [w \in Workers |-> Free]
    /\ outcome = [f \in Fetches |-> "none"]
    /\ sent = [f \in Fetches |-> 0] /\ metered = [f \in Fetches |-> 0]
    /\ unheard = {}

Active(f) == pc[f] # "idle"

(* Mutant: the deadline does not cover the wait for a token. *)
ExpiredUnpaced(f) == pc[f] \in {"waiting", "backoff"} /\ age[f] >= Deadline
(* Mutant: only the facade call has a deadline. *)
ExpiredInCall(f) == Active(f) /\ callAge[f] >= Deadline

(* Either asyncio.timeout has run out.                                       *)
Expired(f) == Active(f) /\ (age[f] >= Deadline \/ callAge[f] >= Deadline)

(* A collector calls the decorated fetch.                                    *)
Start(f) ==
    /\ ~Active(f)
    /\ pc' = [pc EXCEPT ![f] = "pacing"]
    /\ call' = [call EXCEPT ![f] = 1] /\ attempt' = [attempt EXCEPT ![f] = 0]
    /\ retry' = [retry EXCEPT ![f] = 0] /\ pause' = [pause EXCEPT ![f] = 0]
    /\ age' = [age EXCEPT ![f] = 0] /\ callAge' = [callAge EXCEPT ![f] = 0]
    /\ outcome' = [outcome EXCEPT ![f] = "none"]
    /\ sent' = [sent EXCEPT ![f] = 0] /\ metered' = [metered EXCEPT ![f] = 0]
    /\ unheard' = unheard \ {f}
    /\ UNCHANGED <<answer, pool>>

(* acquire() returns; run_in_executor queues the SDK call.                   *)
Submit(f) ==
    /\ pc[f] = "pacing"
    /\ pc' = [pc EXCEPT ![f] = "waiting"]
    /\ line' = Append(line, f)
    /\ UNCHANGED <<progress, age, answer, thread, outcome, counts>>

(* A worker takes the next SDK call and makes it.                            *)
PickUp(w) ==
    /\ thread[w] = Free /\ line # <<>>
    /\ thread' = [thread EXCEPT ![w] = Head(line)]
    /\ line' = Tail(line)
    /\ sent' = [sent EXCEPT ![Head(line)] = @ + 1]
    /\ UNCHANGED <<pc, progress, age, answer, outcome, metered, unheard>>

(* The SDK call returns or raises; the event loop will hear of it.           *)
Return(w) ==
    /\ thread[w] \in Fetches
    /\ \E a \in Answers : answer' = [answer EXCEPT ![thread[w]] = a]
    /\ thread' = [thread EXCEPT ![w] = Free]
    /\ UNCHANGED <<pc, progress, age, line, outcome, counts>>

(* The same, with nobody to hear of it.                                      *)
ReturnUnheard(w) ==
    /\ thread[w] = Orphan
    /\ thread' = [thread EXCEPT ![w] = Free]
    /\ UNCHANGED <<pc, progress, age, answer, line, outcome, counts>>

-----------------------------------------------------------------------------
End(f, how) ==
    /\ pc' = [pc EXCEPT ![f] = "idle"]
    /\ outcome' = [outcome EXCEPT ![f] = how]

(* _record_attempt, on the way out of every awaited attempt.                 *)
Record(f) ==
    /\ answer' = [answer EXCEPT ![f] = NoAnswer]
    /\ metered' = [metered EXCEPT ![f] = @ + 1]

Succeeds(f) ==
    /\ answer[f] = "ok"
    /\ Record(f)
    /\ IF call[f] < Calls
       THEN /\ pc' = [pc EXCEPT ![f] = "pacing"]
            /\ call' = [call EXCEPT ![f] = @ + 1]
            /\ attempt' = [attempt EXCEPT ![f] = 0]
            /\ callAge' = [callAge EXCEPT ![f] = 0]
            /\ UNCHANGED outcome
       ELSE End(f, "value") /\ UNCHANGED <<call, attempt, callAge>>
    /\ UNCHANGED <<retry, pause, age, pool, sent, unheard>>

(* An error that is no rate limit leaves the facade and ends the fetch.      *)
Fails(f) ==
    /\ answer[f] = "failed"
    /\ Record(f)
    /\ End(f, "failed")
    /\ UNCHANGED <<progress, age, pool, sent, unheard>>

(* A 429 with attempts left: the limiter is told, and call() sleeps.         *)
BacksOff(f) ==
    /\ answer[f] = "throttled" /\ attempt[f] < MaxRetries
    /\ Record(f)
    /\ pc' = [pc EXCEPT ![f] = "backoff"]
    /\ attempt' = [attempt EXCEPT ![f] = @ + 1]
    /\ \E p \in 0..MaxPause : pause' = [pause EXCEPT ![f] = p]
    /\ UNCHANGED <<call, retry, age, callAge, pool, outcome, sent, unheard>>

(* facade_retry_exhausted of FacadeRateLimitExhaustedError.                  *)
Marked == TRUE

(* A 429 without: what the facade raises reaches the decorator, which would  *)
(* run the fetch again had the facade not marked the error.                  *)
Exhausts(f) ==
    /\ answer[f] = "throttled" /\ attempt[f] >= MaxRetries
    /\ Record(f)
    /\ unheard' = unheard \cup {f}
    /\ IF Marked \/ retry[f] >= DecoratorRetries
       THEN End(f, "rate_limited") /\ UNCHANGED progress
       ELSE /\ pc' = [pc EXCEPT ![f] = "backoff"]
            /\ retry' = [retry EXCEPT ![f] = @ + 1]
            /\ call' = [call EXCEPT ![f] = 1] /\ attempt' = [attempt EXCEPT ![f] = 0]
            /\ callAge' = [callAge EXCEPT ![f] = 0]
            /\ \E p \in 0..MaxPause : pause' = [pause EXCEPT ![f] = p]
            /\ UNCHANGED outcome
    /\ UNCHANGED <<age, pool, sent>>

WakeUp(f) ==
    /\ pc[f] = "backoff" /\ pause[f] = 0
    /\ pc' = [pc EXCEPT ![f] = "pacing"]
    /\ UNCHANGED <<progress, age, answer, pool, outcome, counts>>

(* Mutant: the SDK call stays queued. *)
CutQueued(f) ==
    /\ thread' = [w \in Workers |-> IF thread[w] = f THEN Orphan ELSE thread[w]]
    /\ UNCHANGED line
(* Mutant: the thread's answer still counts for the fetch. *)
CutLate(f) ==
    /\ line' = RemoveFirst(line, f)
    /\ UNCHANGED thread

(* Cancelling the awaited future: a queued SDK call never starts, a running  *)
(* one goes on.                                                              *)
Cut(f) ==
    /\ line' = RemoveFirst(line, f)
    /\ thread' = [w \in Workers |-> IF thread[w] = f THEN Orphan ELSE thread[w]]

TimesOut(f) ==
    /\ Expired(f)
    /\ Cut(f)
    /\ End(f, "timeout")
    /\ answer' = [answer EXCEPT ![f] = NoAnswer]
    /\ UNCHANGED <<progress, age, counts>>

(* The timeout of the collector's run, or the shutdown, cancels it.          *)
Cancelled(f) ==
    /\ Active(f)
    /\ Cut(f)
    /\ End(f, "cancelled")
    /\ answer' = [answer EXCEPT ![f] = NoAnswer]
    /\ UNCHANGED <<progress, age, counts>>

Resume(f) == Succeeds(f) \/ Fails(f) \/ BacksOff(f) \/ Exhausts(f)

(* AgeCap bounds what is seen of a fetch past its deadline. *)
AgeCap == Deadline + 1
Passed(a) == IF a < AgeCap THEN a + 1 ELSE a

Tick ==
    /\ \A f \in Fetches : ~Expired(f)
    /\ age' = [f \in Fetches |-> IF Active(f) THEN Passed(age[f]) ELSE age[f]]
    /\ callAge' = [f \in Fetches |-> IF Active(f) THEN Passed(callAge[f]) ELSE callAge[f]]
    /\ pause' = [f \in Fetches |-> IF pause[f] > 0 THEN pause[f] - 1 ELSE 0]
    /\ UNCHANGED <<pc, call, attempt, retry, answer, pool, outcome, counts>>

Next ==
    \/ Tick
    \/ \E f \in Fetches : Start(f) \/ Submit(f) \/ Resume(f) \/ WakeUp(f)
    \/ \E f \in Fetches : TimesOut(f) \/ Cancelled(f)
    \/ \E w \in Workers : PickUp(w) \/ Return(w) \/ ReturnUnheard(w)

Spec == Init /\ [][Next]_vars

(* Time passes and the event loop runs what is ready.  Nothing is promised   *)
(* of the threads or of the limiter: they may hang.                          *)
FairSpec ==
    /\ Spec /\ WF_vars(Tick)
    /\ \A f \in Fetches : WF_vars(TimesOut(f)) /\ WF_vars(Resume(f))

-----------------------------------------------------------------------------
(* The types of the fetches' and the executor's state.                       *)
TypeOK ==
    /\ pc \in [Fetches -> {"idle", "pacing", "waiting", "backoff"}]
    /\ call \in [Fetches -> 1..Calls] /\ attempt \in [Fetches -> 0..MaxRetries]
    /\ retry \in [Fetches -> 0..DecoratorRetries]
    /\ age \in [Fetches -> 0..AgeCap] /\ callAge \in [Fetches -> 0..AgeCap]
    /\ pause \in [Fetches -> 0..MaxPause]
    /\ answer \in [Fetches -> Answers \cup {NoAnswer}]
    /\ line \in Seq(Fetches) /\ thread \in [Workers -> Fetches \cup {Free, Orphan}]
    /\ outcome \in [Fetches -> {"none", "value", "failed", "rate_limited", "timeout", "cancelled"}]
    /\ sent \in [Fetches -> Nat] /\ metered \in [Fetches -> Nat]
    /\ unheard \subseteq Fetches

Queued(f) == {i \in 1..Len(line) : line[i] = f}
Making(f) == {w \in Workers : thread[w] = f}

(* call, with_error_handling: a fetch that waits has its SDK call in exactly *)
(* one place, queued, on a thread or answered, and one that does not wait    *)
(* has none, so that no answer reaches a fetch that did not ask for it, and  *)
(* no call starts for a fetch that has ended.                                *)
OneSdkCall ==
    \A f \in Fetches :
        Cardinality(Queued(f)) + Cardinality(Making(f))
            + (IF answer[f] = NoAnswer THEN 0 ELSE 1)
        = IF pc[f] = "waiting" THEN 1 ELSE 0

(* with_error_handling: "Total HTTP attempts per logical fetch are therefore *)
(* bounded by 1 + max_retries", for each SDK call a fetch makes, although    *)
(* two layers know how to retry.                                             *)
AttemptsBounded ==
    \A f \in Fetches : sent[f] <= call[f] * (1 + MaxRetries)

(* with_error_handling: "the entire logical fetch (all attempts plus all     *)
(* backoff waits)" ends by the deadline, whatever its calls take.            *)
DeadlineKept == \A f \in Fetches : age[f] <= Deadline

(* _record_attempt: while a fetch is under way, what it has sent is metered  *)
(* once, but for the attempt it waits for.                                   *)
MeteredOnce ==
    \A f \in Fetches :
        Active(f) =>
            sent[f] = metered[f]
                + Cardinality(Making(f)) + (IF answer[f] = NoAnswer THEN 0 ELSE 1)

(* What is in flight, counted and metered agrees, within the deadline.       *)
CallsInv == TypeOK /\ OneSdkCall /\ AttemptsBounded /\ MeteredOnce /\ DeadlineKept

(* per_fetch_deadline_seconds: every fetch ends, even if no SDK call ever    *)
(* returns and no token is ever granted.                                     *)
EveryFetchEnds == \A f \in Fetches : []<>~Active(f)

(* MerakiApiFacade: "every attempt is paced and metered".                    *)
EveryAttemptMetered == \A f \in Fetches : ~Active(f) => sent[f] = metered[f]

(* docs/troubleshooting.md: "the AIMD controller already self-adjusts the    *)
(* effective rate down on real 429s".                                        *)
EveryThrottleHeard == unheard = {}
=============================================================================
