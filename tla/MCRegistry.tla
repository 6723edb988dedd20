----------------------------- MODULE MCRegistry -----------------------------
(***************************************************************************)
(* The TLC instances of SeriesExpiry and of DeviceState, which say how     *)
(* long the series of the registry live and what is written into those of  *)
(* the devices.  A run takes the steps of one of them; the other stays as  *)
(* it began.                                                               *)
(*                                                                         *)
(* SeriesExpiry is given a group that writes the two values of a status, a *)
(* series without a TTL of its own, and a second group that has a say in   *)
(* the cadence that one is judged by; DeviceState a device that may move   *)
(* between two networks, be renamed, come and go, in an organization that  *)
(* has other devices or has none: a step of a poll or an alert treats      *)
(* every device by itself, so that one shows all of them.                  *)
(***************************************************************************)
EXTENDS SeriesExpiry, DeviceParameters

MCGroups == {"availability", "memory"}
MCSeries == {"online", "offline", "info"}

MCGroupOf == [s \in Series |-> IF s = "info" THEN "straggler" ELSE "availability"]
MCRivals == [s \in Series |->
    CASE s = "online" -> {"offline"}
      [] s = "offline" -> {"online"}
      [] OTHER -> {}]

CONSTANTS d1, n1, n2

VARIABLES status, home, name, others, changes, alerts, listed, avail, open, overdue, pc,
          devices, due, seen, labels, up, info, written, moved

Device == INSTANCE DeviceState

deviceVars == <<status, home, name, others, changes, alerts, listed, avail, open, overdue,
                pc, devices, due, seen, labels, up, info, written, moved>>
registryVars == <<vars, deviceVars>>

(* The registry while only its series are looked at, and with the devices.    *)
ExpiryInit == Init /\ Device!Init /\ ~others
ExpirySpec == ExpiryInit /\ [][Next /\ UNCHANGED deviceVars]_registryVars

(* Networks are alike, and so are names: where a device begins is no matter.  *)
DeviceInit ==
    /\ Init /\ Device!Init
    /\ home = [d \in Devices |-> n1] /\ name = [d \in Devices |-> "core"]
DeviceSpec ==
    /\ DeviceInit /\ [][Device!Next /\ UNCHANGED vars]_registryVars
    /\ Device!Fairness

-----------------------------------------------------------------------------
(* RegistrySound, ReportedStays and ShedSound are those of SeriesExpiry.      *)

(* One status under any labels, and none that contradicts device_up under     *)
(* those that polls write.                                                    *)
DeviceInv == Device!DeviceInv

(* A webhook follows the polls that write, and does not win for good.         *)
WebhookFollowsPoll == Device!WebhookFollowsPoll
Reconverges == Device!Reconverges
=============================================================================
