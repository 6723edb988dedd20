--------------------- MODULE GatewayAndCameraCollectors ---------------------
(* What the cellular gateway and the camera collectors, mg.py and mv.py in    *)
(* collectors/devices, leave behind.                                          *)
EXTENDS Outcomes

(* mg.py: three calls marked as soon as they are answered, before their rows  *)
(* are looked at.                                                             *)
GatewayUplinks(due) ==
    Gate("mg_uplink_status", Org, due, Caught(
        Fetched("mg_uplink_status") \bullet IfAny("mg_uplink_status",
            Read("mg_uplink_status") \bullet Rows("gateway_uplink", "mg_uplink_status"))))

(* Two endpoints share a gate, and it is marked whatever came of them.        *)
CellularBands ==
    Caught(Call("mg_cellular_config", Org) \bullet IfAny("mg_cellular_config",
        Read("mg_cellular_config") \bullet Rows("bands", "mg_cellular_config")))

ServingCells ==
    Caught(Call("mg_cellular_config", Org) \bullet IfAny("mg_cellular_config",
        Read("mg_cellular_config") \bullet Rows("serving_cell", "mg_cellular_config")))

CellularConfig(due) ==
    Gate("mg_cellular_config", Org, due,
        CellularBands \bullet ServingCells \bullet Mark("mg_cellular_config", Org))

EsimInventory(due) ==
    Gate("mg_esims", Org, due, Caught(
        Fetched("mg_esims") \bullet Write("esims", "mg_esims", Org) \bullet IfAny("mg_esims",
            Read("mg_esims") \bullet Rows("esim_info", "mg_esims"))))

GatewayHA(due) ==
    Gate("mg_ha", Org, due, Caught(
        Fetched("mg_ha") \bullet IfAny("mg_ha",
            Read("mg_ha") \bullet Rows("gateway_ha", "mg_ha"))))

Gateways(due) ==
    GatewayUplinks(due) \bullet CellularConfig(due) \bullet EsimInventory(due) \bullet GatewayHA(due)

-----------------------------------------------------------------------------
(* mv.py: a timestamp per camera, set whatever came of the calls; the group   *)
(* is marked when one of them was answered.                                   *)
SenseConfig(d) ==
    Caught(Call("mv_sense_config", d) \bullet Totals("sense", "mv_sense_config", d))

AnalyticsZones(d) ==
    Caught(Call("mv_analytics", d) \bullet Totals("zones", "mv_analytics", d))

AnalyticsRecent(d) ==
    Caught(Call("mv_analytics", d) \bullet Totals("people_count", "mv_analytics", d))

QualityAndRetention(d) ==
    Caught(Call("mv_analytics", d) \bullet Totals("quality", "mv_analytics", d))

(* The functions return a value only when they did not fail.                  *)
MarkIfWrote(g, A) == MarkIf(g, A, LAMBDA o : o.wrote # {})

Sense(d, due) ==
    Gate("mv_sense_config", d, due,
        MarkIfWrote("mv_sense_config", SenseConfig(d)) \bullet Mark("mv_sense_config", d))

Analytics(d, due) ==
    Gate("mv_analytics", d, due,
        MarkIfWrote("mv_analytics",
            AnalyticsZones(d) \bullet AnalyticsRecent(d) \bullet QualityAndRetention(d))
        \bullet Mark("mv_analytics", d))

Camera(d, due) == Sense(d, due) \bullet Analytics(d, due)

(* A malformed entry is skipped.                                              *)
OnboardingStatuses(due) ==
    Gate("mv_onboarding", Org, due, Caught(
        Call("mv_onboarding", Org)
            \bullet (Empty("mv_onboarding") \cup
                     Read("mv_onboarding") \bullet Caught(Rows("onboarding", "mv_onboarding")))
            \bullet Mark("mv_onboarding", Org)))
-----------------------------------------------------------------------------
(* The four parts of the gateways do not meet, so each is a site.             *)
GatewayAndCameraSites == {"mg_uplinks", "mg_cellular", "mg_esims", "mg_ha", "camera", "mv_onboarding"}

GatewayOrCamera(site, due) ==
    CASE site = "mg_uplinks"    -> GatewayUplinks(due)
      [] site = "mg_cellular"   -> CellularConfig(due)
      [] site = "mg_esims"      -> EsimInventory(due)
      [] site = "mg_ha"         -> GatewayHA(due)
      [] site = "camera"        -> Camera(AnItem, due)
      [] site = "mv_onboarding" -> OnboardingStatuses(due)
=============================================================================
