---------------------------- MODULE MCInventory ----------------------------
(***************************************************************************)
(* TLC instances of Inventory: the networks, the devices (filtered after   *)
(* the lock) and the availabilities (filtered under it, shorter TTL).      *)
(***************************************************************************)
EXTENDS Inventory

MCEarly == [k \in Kinds |-> IF k = "devices" THEN 2 ELSE 1]
MCLate == [k \in Kinds |-> IF k = "availabilities" THEN 1 ELSE 2]
=============================================================================
