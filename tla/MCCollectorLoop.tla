-------------------------- MODULE MCCollectorLoop --------------------------
(***************************************************************************)
(* The TLC instance of CollectorLoop: the shape of AlertsCollector (a read *)
(* before the gates, a group whose failure ends the cycle, then one whose  *)
(* failures are isolated) and three plans a re-solve may publish.          *)
(***************************************************************************)
EXTENDS CollectorLoop, TLC

First == "first"
Second == "second"
MCGroups == {First, Second}
MCFloor == First :> 2 @@ Second :> 3
MCStages == <<{First}, {Second}>>

AtFloor == [interval |-> MCFloor, shed |-> {}, off |-> {}]
Stretched == [interval |-> First :> 2 @@ Second :> 4, shed |-> {}, off |-> {}]
Reduced == [interval |-> MCFloor, shed |-> {Second}, off |-> {First}]
MCPlans == {AtFloor, Stretched, Reduced}
=============================================================================
