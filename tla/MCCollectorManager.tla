------------------------- MODULE MCCollectorManager -------------------------
(***************************************************************************)
(* The TLC instance of CollectorManager.  l1..l3 are the loops of the      *)
(* collectors c1..c3; g1 and h1 are forced calls (startup or trigger) for  *)
(* c1.  There are fewer permits than collectors, so runs queue behind runs *)
(* of other collectors.                                                    *)
(***************************************************************************)
EXTENDS CollectorManager, TLC

CONSTANTS l1, l2, l3, g1, h1, c1, c2, c3

MCTasks == {l1, l2, l3, g1, h1}
MCTargetOf == l1 :> c1 @@ l2 :> c2 @@ l3 :> c3 @@ g1 :> c1 @@ h1 :> c1
MCForces == [t \in MCTasks |-> t \in {g1, h1}]

=============================================================================
