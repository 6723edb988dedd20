------------------------------ MODULE Lifecycle ------------------------------
(***************************************************************************)
(* The start and the end of the exporter (app.py): lifespan, the startup   *)
(* task that begins the loops of the collectors, the tasks of              *)
(* _background_tasks, the two that are kept apart from them (the cleanup   *)
(* of the expiration manager, the export loop of the metrics bridge), and  *)
(* the threads of the pools they hand work to, which a cancellation        *)
(* abandons and cannot stop: those of the SDK, of the scrapes, and of the  *)
(* resolver of the clients' names.  _shutdown cancels and awaits them all  *)
(* before it closes what they use.                                         *)
(***************************************************************************)
EXTENDS Naturals, FiniteSets

CONSTANTS
    Collectors,   \* the collectors, each with a loop
    Workers,      \* threads of the SDK's pool
    Lookups       \* threads of the resolver's pool

VARIABLES
    stage,     \* how far lifespan and _shutdown are
    begun,     \* how far _startup_collections is
    alive,     \* _background_tasks
    apart,     \* the bridge's and the expiration manager's task
    told,      \* tasks that have been cancelled, and do not know yet
    calls,     \* who awaits work in a pool
    resolving, \* those of them who await a reverse lookup
    running,   \* those of them whose work has a thread
    lost,      \* threads of a pool that nobody waits for
    error,     \* _startup_configuration_error is set
    bridged    \* settings.otel.metrics.enabled: there is a bridge

vars == <<stage, begun, alive, apart, told, calls, resolving, running, lost, error, bridged>>

-----------------------------------------------------------------------------
Stages == {"preparing", "serving", "draining", "expiry", "bridge", "export", "names", "closing", "over"}
Pools == {"sdk", "serving", "dns"}

(* The analysis of the cardinality has the pool of the scrapes.               *)
Pool(t) ==
    CASE t = "cardinality" -> "serving"
      [] t \in resolving -> "dns"
      [] OTHER -> "sdk"

(* The tasks that hand work to a pool; shutdown does, for the final export.   *)
PoolUsers == {"startup", "cardinality", "resolve", "manual", "bridge"} \cup Collectors

(* Those who may be collecting clients, whose names a resolver looks up.      *)
Resolvers == {"startup", "manual"} \cup (Collectors \cap {"clients"})

Held(p) == {t \in running : Pool(t) = p}
Threads(p) == Cardinality(Held(p)) + lost[p]
Size(p) == CASE p = "sdk" -> Workers [] p = "dns" -> Lookups [] p = "serving" -> 2

(* What becomes of the work of a task that stops waiting for it: a thread     *)
(* goes on, and a call in the queue is dropped.                               *)
Abandon(t) ==
    /\ calls' = calls \ {t} /\ resolving' = resolving \ {t} /\ running' = running \ {t}
    /\ lost' = [lost EXCEPT ![Pool(t)] = @ + Cardinality({t} \cap running)]

Init ==
    /\ stage = "preparing" /\ begun = "discovery"
    /\ alive = {} /\ apart = {} /\ told = {}
    /\ calls = {} /\ resolving = {} /\ running = {} /\ lost = [p \in Pools |-> 0]
    /\ error = FALSE /\ bridged \in BOOLEAN

(* resolve_org_id and validate_startup_configuration may give up a call.      *)
GivenUp == \E n \in {0, 1} : lost' = [lost EXCEPT !["sdk"] = n]

Prepared ==
    /\ stage = "preparing"
    /\ stage' = "serving"
    /\ alive' = {"startup", "cardinality", "resources"}
    /\ apart' = {"expiry"} \cup {t \in {"bridge"} : bridged}
    /\ GivenUp
    /\ UNCHANGED <<begun, told, calls, resolving, running, error, bridged>>

(* No organization, or a configuration that cannot work.                      *)
Refused ==
    /\ stage = "preparing"
    /\ stage' = "draining"
    /\ GivenUp
    /\ UNCHANGED <<begun, alive, apart, told, calls, resolving, running, error, bridged>>

-----------------------------------------------------------------------------
(* A task goes on, unless it awaits a call or finds that it is cancelled.     *)
Goes(t) == t \in alive \ (calls \cup told)

Discovered ==
    /\ Goes("startup") /\ begun = "discovery"
    /\ begun' = "initial"
    /\ UNCHANGED <<stage, alive, apart, told, calls, resolving, running, lost, error, bridged>>

(* The initial collection is over, or has failed: the loops begin.  Only a    *)
(* constructor, create_task and lines of the log lie outside the handlers;    *)
(* what they might raise would be logged and end the task (not modelled).     *)
Begun ==
    /\ Goes("startup") /\ begun = "initial"
    /\ begun' = "over"
    /\ alive' = (alive \ {"startup"}) \cup Collectors \cup {"resolve", "first"}
    /\ UNCHANGED <<stage, apart, told, calls, resolving, running, lost, error, bridged>>

(* The network filter matches nothing: /health says so from now on.           *)
Misconfigured ==
    /\ Goes("startup") /\ begun = "initial"
    /\ begun' = "over"
    /\ alive' = alive \ {"startup"} /\ error' = TRUE
    /\ UNCHANGED <<stage, apart, told, calls, resolving, running, lost, bridged>>

(* POST /api/collectors/trigger, as long as the server takes requests.        *)
Trigger ==
    /\ stage = "serving" /\ "manual" \notin alive
    /\ alive' = alive \cup {"manual"}
    /\ UNCHANGED <<stage, begun, apart, told, calls, resolving, running, lost, error, bridged>>

(* The tasks that end by themselves.                                          *)
Ends(t) ==
    /\ t \in {"manual", "first"} /\ Goes(t)
    /\ alive' = alive \ {t}
    /\ UNCHANGED <<stage, begun, apart, told, calls, resolving, running, lost, error, bridged>>

Call(t) ==
    /\ t \in PoolUsers /\ t \in (alive \cup apart) \ (calls \cup told)
    /\ calls' = calls \cup {t}
    /\ resolving' \in {resolving, resolving \cup ({t} \cap Resolvers)}
    /\ UNCHANGED <<stage, begun, alive, apart, told, running, lost, error, bridged>>

Start(t) ==
    /\ t \in calls \ running /\ Threads(Pool(t)) < Size(Pool(t))
    /\ running' = running \cup {t}
    /\ UNCHANGED <<stage, begun, alive, apart, told, calls, resolving, lost, error, bridged>>

Answer(t) ==
    /\ t \in running
    /\ calls' = calls \ {t} /\ resolving' = resolving \ {t} /\ running' = running \ {t}
    /\ UNCHANGED <<stage, begun, alive, apart, told, lost, error, bridged>>

(* The deadline of a fetch or of a collector; nothing else has one.           *)
Deadline(t) ==
    /\ t \in calls \ {"cardinality", "bridge", "shutdown"}
    /\ Abandon(t)
    /\ UNCHANGED <<stage, begun, alive, apart, told, error, bridged>>

(* A thread that nobody waits for is over.                                    *)
Return(p) ==
    /\ lost[p] > 0
    /\ lost' = [lost EXCEPT ![p] = @ - 1]
    /\ UNCHANGED <<stage, begun, alive, apart, told, calls, resolving, running, error, bridged>>

-----------------------------------------------------------------------------
(* Mutant: a run that was triggered is not among the background tasks. *)
TrackedButManual == alive \ {"manual"}

(* tuple(self._background_tasks)                                              *)
Tracked == alive

(* The server has stopped: _shutdown cancels all tasks there are.             *)
Stop ==
    /\ stage = "serving"
    /\ stage' = "draining" /\ told' = Tracked
    /\ UNCHANGED <<begun, alive, apart, calls, resolving, running, lost, error, bridged>>

(* A task finds that it is cancelled, and unwinds.                            *)
Unwind(t) ==
    /\ t \in told
    /\ told' = told \ {t} /\ alive' = alive \ {t} /\ apart' = apart \ {t}
    /\ Abandon(t)
    /\ UNCHANGED <<stage, begun, error, bridged>>

(* gather returns when all have ended: its timeout cancels them again, and    *)
(* waits for them no less.                                                    *)
Drained ==
    /\ stage = "draining" /\ told = {}
    /\ stage' = "expiry" /\ told' = apart \cap {"expiry"}
    /\ UNCHANGED <<begun, alive, apart, calls, resolving, running, lost, error, bridged>>

(* Mutant: the export loop is awaited and not cancelled. *)
AwaitBridge == {}

(* stop of the bridge cancels its loop.                                       *)
CancelBridge == apart \cap {"bridge"}

ExpiryStopped ==
    /\ stage = "expiry" /\ "expiry" \notin apart
    /\ stage' = "bridge" /\ told' = CancelBridge
    /\ UNCHANGED <<begun, alive, apart, calls, resolving, running, lost, error, bridged>>

(* The final export, which queues for a thread of the SDK's pool.             *)
BridgeStopped ==
    /\ stage = "bridge" /\ "bridge" \notin apart
    /\ stage' = "export" /\ calls' = calls \cup {t \in {"shutdown"} : bridged}
    /\ UNCHANGED <<begun, alive, apart, told, resolving, running, lost, error, bridged>>

(* From here on the event loop waits for the threads, and runs nothing.       *)
Exported ==
    /\ stage = "export" /\ "shutdown" \notin calls
    /\ stage' = "names"
    /\ UNCHANGED <<begun, alive, apart, told, calls, resolving, running, lost, error, bridged>>

(* close of the resolver joins its threads, before the client's are joined.   *)
NamesClosed ==
    /\ stage = "names" /\ Threads("dns") = 0
    /\ stage' = "closing"
    /\ UNCHANGED <<begun, alive, apart, told, calls, resolving, running, lost, error, bridged>>

Closed ==
    /\ stage = "closing" /\ \A p \in {"sdk", "serving"} : Threads(p) = 0
    /\ stage' = "over"
    /\ UNCHANGED <<begun, alive, apart, told, calls, resolving, running, lost, error, bridged>>

Tasks == PoolUsers \cup {"resources", "first", "expiry"}

Next ==
    \/ Prepared \/ Refused \/ Discovered \/ Begun \/ Misconfigured \/ Trigger
    \/ Stop \/ Drained \/ ExpiryStopped \/ BridgeStopped \/ Exported
    \/ NamesClosed \/ Closed
    \/ \E t \in Tasks \cup {"shutdown"} :
          Ends(t) \/ Call(t) \/ Start(t) \/ Answer(t) \/ Deadline(t) \/ Unwind(t)
    \/ \E p \in Pools : Return(p)

Spec == Init /\ [][Next]_vars

(* The event loop goes on with the shutdown, and threads begin and end:       *)
(* single_request_timeout bounds the SDK's.  Nothing bounds a reverse lookup. *)
Shutting ==
    \/ Drained \/ ExpiryStopped \/ BridgeStopped \/ Exported \/ NamesClosed \/ Closed
    \/ \E t \in Tasks : Unwind(t)
Working == \E t \in (Tasks \cup {"shutdown"}) \ resolving : Start(t) \/ Answer(t)
Returning == \E p \in Pools \ {"dns"} : Return(p)

FairSpec == Spec /\ WF_vars(Shutting) /\ WF_vars(Working) /\ WF_vars(Returning)

-----------------------------------------------------------------------------
TypeOK ==
    /\ stage \in Stages /\ begun \in {"discovery", "initial", "over"}
    /\ alive \subseteq Tasks \ {"bridge", "expiry"} /\ apart \subseteq {"bridge", "expiry"}
    /\ told \subseteq alive \cup apart
    /\ resolving \subseteq calls \cap Resolvers
    /\ running \subseteq calls /\ calls \subseteq PoolUsers \cup {"shutdown"}
    /\ lost \in [Pools -> Nat] /\ \A p \in Pools : Threads(p) <= Size(p)
    /\ error \in BOOLEAN /\ bridged \in BOOLEAN

(* _shutdown takes one snapshot of the tasks, while the startup task may be   *)
(* about to add the loops and a triggered run is under way: once it goes on   *)
(* none is left, none comes back, and when it is over no thread is left.      *)
NoneLeft ==
    /\ stage \in Stages \ {"preparing", "serving", "draining"} => alive = {}
    /\ stage = "over" => apart = {} /\ calls = {} /\ \A p \in Pools : lost[p] = 0

(* While the exporter serves, the startup task is at work, or every collector *)
(* has its loop, or /health is told: no failure of the start goes unnoticed.  *)
LoopsOrUnhealthy ==
    stage = "serving" => "startup" \in alive \/ Collectors \subseteq alive \/ error

LifecycleInv == TypeOK /\ NoneLeft /\ LoopsOrUnhealthy

(* A shutdown ends, whatever was under way: the final export gets a thread    *)
(* although calls that nobody waits for may hold them all for a time.  One    *)
(* thing it waits for may never come: the event loop joins the resolver's     *)
(* threads, and a reverse lookup may hang in one for ever.                    *)
LookupsReturn == []<>(lost["dns"] = 0)
ShutdownEnds == LookupsReturn => []<>(stage \in {"preparing", "serving", "over"})
=============================================================================
