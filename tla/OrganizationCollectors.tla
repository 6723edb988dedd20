----------------------- MODULE OrganizationCollectors -----------------------
(* What the parts of the organization collector leave behind: the methods of  *)
(* collectors/organization.py and the sub-collectors in                       *)
(* organization_collectors/.  Series without a TTL of a group live as long as *)
(* the cadence of the collector says; those set directly never expire.        *)
EXTENDS Outcomes

Cadence == "cadence"
Untracked == "untracked"

(* A 404, for some a 400, means that the organization has no such feature:    *)
(* the part returns as if done, before the mark.                              *)
Unless(g, A) == Empty(g) \cup A
ReadAndMark(g) == Call(g, Org) \bullet Read(g) \bullet Mark(g, Org)

(* organization.py *)
NetworkMetrics ==
    Read(Cadence) \bullet IfAny(Cadence, Write("networks", Untracked, Org) \bullet Rows("network_info", Cadence))

DeviceMetrics ==
    Read(Cadence) \bullet IfAny(Cadence, AllRows("devices", Cadence))

DeviceCountsByModel(due) ==
    Gate("org_device_model_overview", Org, due,
        Read("org_device_model_overview") \bullet Fetched("org_device_model_overview")
            \bullet IfAny("org_device_model_overview",
                          Rows("devices_by_model", "org_device_model_overview")))

(* The availabilities come from the inventory, so a read that fails is a call *)
(* that fails.                                                                *)
DeviceAvailabilities(due) ==
    Gate("org_availabilities", Org, due,
        Fetched("org_availabilities") \bullet Totals("devices_availability", "org_availabilities", Org))

PacketCaptures(due) ==
    Gate("org_packet_captures", Org, due,
        Read("org_packet_captures") \bullet Fetched("org_packet_captures")
            \bullet Write("packet_captures", Untracked, Org))

ApplicationUsage(due) ==
    Gate("org_app_usage", Org, due,
        Fetched("org_app_usage") \bullet Write("application_usage", Untracked, Org))

ConfigTemplates(due) ==
    Gate("org_config_templates", Org, due,
        ReadAndMark("org_config_templates")
            \bullet Write("config_templates", "org_config_templates", Org))

AdaptivePolicy(due) ==
    Gate("org_adaptive_policy", Org, due,
        Unless("org_adaptive_policy",
            Fetched("org_adaptive_policy")
                \bullet Write("adaptive_policy", "org_adaptive_policy", Org)))

-----------------------------------------------------------------------------
(* license.py: by counts, by states, or, with a second call after the mark,   *)
(* by device.                                                                 *)
PerDeviceLicenses ==
    Call("org_licenses", Org)
        \bullet IfAny("org_licenses", Totals("licenses", "org_licenses", Org))

Licenses(due) ==
    Gate("org_licenses", Org, due,
        Unless("org_licenses",
            Fetched("org_licenses")
                \bullet (Totals("licenses", "org_licenses", Org)
                         \cup Unless("org_licenses", PerDeviceLicenses))))

(* firmware.py: products that are seen no more are set to zero.  The firmware *)
(* of each device comes from the inventory and has no gate.                   *)
FirmwareUpgrades(due) ==
    Gate("org_firmware", Org, due,
        Unless("org_firmware",
            ReadAndMark("org_firmware")
                \bullet IfAny("org_firmware", Totals("upgrades", "org_firmware", Org))))

FirmwareCompliance(due) ==
    Read(Cadence) \bullet Rows("firmware_info", Cadence) \bullet
    Gate("org_firmware_compliance", Org, due,
        Unless("org_firmware_compliance",
            ReadAndMark("org_firmware_compliance")
                \bullet AllRows("up_to_date", "org_firmware_compliance")))

(* api_usage.py: marked when both calls were answered.                        *)
RequestsByOperation ==
    Call("org_api_usage", Org) \bullet Totals("requests_by_operation", "org_api_usage", Org)

ApiUsage(due) ==
    Gate("org_api_usage", Org, due,
        Unless("org_api_usage",
            Call("org_api_usage", Org) \bullet
                (Write("requests", "org_api_usage", Org) \bullet
                    (Caught({o \in RequestsByOperation : o.raised})
                     \cup {o \in RequestsByOperation : ~o.raised} \bullet Mark("org_api_usage", Org))
                 \cup Empty("org_api_usage") \bullet Mark("org_api_usage", Org))))

(* client_overview.py: zeros are replaced by the last counts for a while.     *)
ClientOverview(due) ==
    Gate("org_client_overview", Org, due,
        Unless("org_client_overview",
            Fetched("org_client_overview")
                \bullet IfAny("org_client_overview",
                              Totals("clients", "org_client_overview", Org))))

(* device_availability_history.py, webhooks.py: what was seen before and is   *)
(* not in the answer is set to zero; the first leaves an empty answer alone.  *)
AvailabilityHistory(due) ==
    Gate("org_availability_history", Org, due,
        Unless("org_availability_history",
            ReadAndMark("org_availability_history")
                \bullet IfAny("org_availability_history",
                              Totals("availability_changes", "org_availability_history", Org))))

WebhookLogs(due) ==
    Gate("org_webhook_logs", Org, due,
        Unless("org_webhook_logs",
            Fetched("org_webhook_logs")
                \bullet Totals("webhook_deliveries", "org_webhook_logs", Org)))

(* top_usage.py: three rankings, marked when all were answered.               *)
TopUsage(due) ==
    Gate("org_top_usage", Org, due,
        Unless("org_top_usage",
            Call("org_top_usage", Org) \bullet Call("org_top_usage", Org)
                \bullet Fetched("org_top_usage") \bullet Write("top_usage", "org_top_usage", Org)))

(* early_access.py: every cycle.                                              *)
EarlyAccess == Unless(Cadence, Call(Cadence, Org) \bullet Totals("opt_ins", Cadence, Org))

-----------------------------------------------------------------------------
(* _run_org_sub_collections: one after the other, each guarded; a part whose  *)
(* gate is closed counts as a success.                                        *)
OrgParts ==
    {"api_metrics", "network_metrics", "device_metrics", "device_counts_by_model",
     "availability", "availability_changes", "firmware", "licenses", "client_overview",
     "packet_captures", "application_usage", "config_templates", "adaptive_policy",
     "top_usage", "webhook_logs", "firmware_compliance", "early_access"}

OrgPart(part, due) ==
    CASE part = "api_metrics"            -> ApiUsage(due)
      [] part = "network_metrics"        -> NetworkMetrics
      [] part = "device_metrics"         -> DeviceMetrics
      [] part = "device_counts_by_model" -> DeviceCountsByModel(due)
      [] part = "availability"           -> DeviceAvailabilities(due)
      [] part = "availability_changes"   -> AvailabilityHistory(due)
      [] part = "firmware"               -> FirmwareUpgrades(due)
      [] part = "licenses"               -> Licenses(due)
      [] part = "client_overview"        -> ClientOverview(due)
      [] part = "packet_captures"        -> PacketCaptures(due)
      [] part = "application_usage"      -> ApplicationUsage(due)
      [] part = "config_templates"       -> ConfigTemplates(due)
      [] part = "adaptive_policy"        -> AdaptivePolicy(due)
      [] part = "top_usage"              -> TopUsage(due)
      [] part = "webhook_logs"           -> WebhookLogs(due)
      [] part = "firmware_compliance"    -> FirmwareCompliance(due)
      [] part = "early_access"           -> EarlyAccess
=============================================================================
