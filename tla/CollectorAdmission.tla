------------------------- MODULE CollectorAdmission -------------------------
(***************************************************************************)
(* What CollectorManager promises about collector runs, with none of the   *)
(* machinery that keeps the promise: a collector is served by at most one  *)
(* run at a time, and at most Limit collectors are served together         *)
(* (collectors/manager.py, _run_collector_with_timeout and                 *)
(* calculate_collector_admission_limit).                                   *)
(***************************************************************************)
EXTENDS Naturals, FiniteSets

CONSTANTS Tasks,       \* coroutines that may run a collector
          Collectors,  \* instantiated collectors
          Limit,       \* runs that may execute at once
          NoTask       \* stands for "nobody"

VARIABLE serving       \* serving[c]: the task running collector c, or NoTask

Busy == {c \in Collectors : serving[c] # NoTask}

Init == serving = [c \in Collectors |-> NoTask]

(* A run starts: its collector is not being served, the task serves no other *)
(* collector, and the admission limit is not reached.                       *)
Start(t, c) ==
    /\ serving[c] = NoTask
    /\ \A d \in Collectors : serving[d] # t
    /\ Cardinality(Busy) < Limit
    /\ serving' = [serving EXCEPT ![c] = t]

(* A run ends, whatever its outcome. *)
End(c) ==
    /\ serving[c] # NoTask
    /\ serving' = [serving EXCEPT ![c] = NoTask]

Next == \/ \E t \in Tasks, c \in Collectors : Start(t, c)
        \/ \E c \in Collectors : End(c)

Spec == Init /\ [][Next]_serving

=============================================================================
