----------------------------- MODULE MCServices -----------------------------
(***************************************************************************)
(* One run for the components that keep to themselves: the interval        *)
(* solver, the rate limiter, the webhook receiver, the task group, the     *)
(* store of the clients and the resolver of their names, and the start and *)
(* end of the exporter.  Init picks the one whose actions are taken; the   *)
(* others stay as they began.  The properties are the components' own;     *)
(* those that say what must happen say it of the component that was        *)
(* picked.                                                                 *)
(*                                                                         *)
(* The solver is given an up-ness group, two groups of the performance     *)
(* class, three of the configuration class (one switched by the shape, one *)
(* pinned below its floor) and an ungated overhead group; its unit is a    *)
(* sixteenth of the smallest floor, Scale a multiple of every interval     *)
(* that can be reached.                                                    *)
(***************************************************************************)
EXTENDS IntervalSolver, RateLimiterParameters, WebhookReceiverParameters,
        ClientParameters, TLC

MCGroups == {"availability", "config", "data_rates", "latency", "overhead", "rf", "security"}
MCRank == "availability" :> 1 @@ "config" :> 2 @@ "data_rates" :> 3
          @@ "latency" :> 4 @@ "overhead" :> 5 @@ "rf" :> 6 @@ "security" :> 7
MCPriority == "availability" :> 1 @@ "config" :> 4 @@ "data_rates" :> 3
              @@ "latency" :> 3 @@ "overhead" :> 3 @@ "rf" :> 4 @@ "security" :> 4
MCGated == MCGroups \ {"overhead"}
MCToggled == {"latency", "rf"}
MCFloor == "availability" :> 16 @@ "config" :> 32 @@ "data_rates" :> 16
           @@ "latency" :> 32 @@ "overhead" :> 32 @@ "rf" :> 48 @@ "security" :> 32
MCCost == "availability" :> 2 @@ "config" :> 3 @@ "data_rates" :> 4
          @@ "latency" :> 5 @@ "overhead" :> 1 @@ "rf" :> 6 @@ "security" :> 3
MCPins == "security" :> 24

CONSTANTS Movers, Jobs, MaxConcurrency, Collectors, Workers, n1, n2

(* The tasks of the exporter itself are none of a collector.                  *)
ExporterTasks == {"startup", "cardinality", "resources", "resolve", "first", "manual",
                  "bridge", "expiry", "shutdown"}

ASSUME GroupAssumption == IsFiniteSet(Jobs) /\ MaxConcurrency \in Nat \ {0}
ASSUME LifeAssumption ==
    /\ IsFiniteSet(Collectors) /\ Collectors \cap ExporterTasks = {}
    /\ Workers \in Nat \ {0}

MCMaxList == n1 :> 1 @@ n2 :> 1

VARIABLES
    part,
    want, sleep, tokens, refilled, effective, updated, throttled, spare, spareAll, pace,
    age, left, applied, since,
    body, broken, offered, wanted, work, settled, asked, slots, backoffs,
    created, completed, cancelled, failed, verdict,
    kept, quiet, busy, ended, todo, naming, allowed, emitted,
    list, put, taken, looking, done, threads, hung, nameAge, tracked, vacated,
    stage, begun, alive, apart, told, calls, resolving, running, lost, error, bridged

Limiter == INSTANCE RateLimiter
Receiver == INSTANCE WebhookReceiver
Group == INSTANCE TaskGroup
Store == INSTANCE ClientStore
Resolver == INSTANCE NameResolver WITH ClientIds <- Movers
Life == INSTANCE Lifecycle

limiterVars == <<want, sleep, tokens, refilled, effective, updated, throttled, spare, spareAll, pace>>
receiverVars == <<age, left, applied, since>>
groupVars == <<body, broken, offered, wanted, work, settled, asked, slots, backoffs,
               created, completed, cancelled, failed, verdict>>
storeVars == <<kept, quiet, busy, ended, todo, naming, allowed, emitted>>
resolverVars == <<list, put, taken, looking, done, threads, hung, nameAge, tracked, vacated>>
lifeVars == <<stage, begun, alive, apart, told, calls, resolving, running, lost, error, bridged>>
servicesVars ==
    <<part, vars, limiterVars, receiverVars, groupVars, storeVars, resolverVars,
      lifeVars>>

Parts == {"solver", "limiter", "receiver", "group", "store", "resolver", "life"}

InitServices ==
    /\ part \in Parts
    /\ Init /\ Limiter!Init /\ Receiver!Init /\ Group!Init /\ Store!Init /\ Resolver!Init
    /\ Life!Init /\ (part = "life" \/ ~bridged)

NextServices ==
    \/ /\ part = "solver" /\ Next
       /\ UNCHANGED <<part, limiterVars, receiverVars, groupVars, storeVars, resolverVars, lifeVars>>
    \/ /\ part = "limiter" /\ Limiter!Next
       /\ UNCHANGED <<part, vars, receiverVars, groupVars, storeVars, resolverVars, lifeVars>>
    \/ /\ part = "receiver" /\ Receiver!Next
       /\ UNCHANGED <<part, vars, limiterVars, groupVars, storeVars, resolverVars, lifeVars>>
    \/ /\ part = "group" /\ Group!Next
       /\ UNCHANGED <<part, vars, limiterVars, receiverVars, storeVars, resolverVars, lifeVars>>
    \/ /\ part = "store" /\ Store!Next
       /\ UNCHANGED <<part, vars, limiterVars, receiverVars, groupVars, resolverVars, lifeVars>>
    \/ /\ part = "resolver" /\ Resolver!Next
       /\ UNCHANGED <<part, vars, limiterVars, receiverVars, groupVars, storeVars, lifeVars>>
    \/ /\ part = "life" /\ Life!Next
       /\ UNCHANGED <<part, vars, limiterVars, receiverVars, groupVars, storeVars, resolverVars>>

(* The fairness of each component, which binds while it is the one picked.    *)
FairServices ==
    /\ InitServices /\ [][NextServices]_servicesVars
    /\ WF_vars(part = "solver" /\ Work)
    /\ WF_limiterVars(part = "limiter" /\ Limiter!Tick)
    /\ WF_limiterVars(part = "limiter" /\ \E c \in Callers : Limiter!Round(c))
    /\ WF_groupVars(part = "group" /\ Group!Proceed)
    /\ WF_storeVars(part = "store" /\ Store!Work)
    /\ WF_lifeVars(part = "life" /\ Life!Shutting)
    /\ WF_lifeVars(part = "life" /\ Life!Working)
    /\ WF_lifeVars(part = "life" /\ Life!Returning)
    /\ \A n \in Networks : WF_resolverVars(part = "resolver" /\ Resolver!Work(n))

-----------------------------------------------------------------------------
(* The solver's PrioritiesKept, FitsOrExhausted, BackPressureMonotone and     *)
(* ResolveReturns are those of IntervalSolver.                                *)

(* The limiter's: burst and rate bound the calls, and the rate recovers.      *)
LimiterInv == Limiter!LimiterInv

(* Tokens are handed out while callers wait for them.                         *)
TokensFlow == Limiter!TokensFlow

(* The receiver's: an alert is let through again only after many others.      *)
AgainOnlyAfterOthers == Receiver!AgainOnlyAfterOthers

(* The task group's: slots, orphans, and how the cycle is judged.             *)
GroupInv == Group!GroupInv

(* Who waits for others is not kept waiting: every group and every batch of   *)
(* lookups ends.                                                              *)
GathersEnd == (part = "group" => Group!GroupEnds) /\ Resolver!BatchEnds

(* The store's bound, and what is cached of the names.                        *)
ClientsInv == Store!StoreBounded /\ Resolver!NamesInv

(* The store's: who is left out, and what is dropped.                         *)
LeftOutOnlyWhenFull == Store!LeftOutOnlyWhenFull
StaleNetworksGo == Store!StaleNetworksGo

(* The exporter's: nothing is left behind, no failed start goes unnoticed,    *)
(* and the shutdown ends.                                                     *)
LifecycleInv == Life!LifecycleInv
ShutdownEnds == Life!ShutdownEnds
=============================================================================
