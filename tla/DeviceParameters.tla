-------------------------- MODULE DeviceParameters --------------------------
(***************************************************************************)
(* The constants of DeviceState, and what is known of them.                *)
(***************************************************************************)
EXTENDS Naturals, FiniteSets

CONSTANTS Devices, Networks, Names,
          Changes \* bound: how often devices change, join, leave, move or are renamed

ASSUME DevicesAssumption ==
    /\ IsFiniteSet(Devices)
    /\ IsFiniteSet(Networks) /\ Networks # {} /\ IsFiniteSet(Names) /\ Names # {}
ASSUME ChangesAssumption == Changes \in Nat
=============================================================================
