------------------------- MODULE WirelessCollectors -------------------------
(* What the access point collectors of collectors/devices/mr leave behind. *)
EXTENDS Outcomes

(* A call for the whole organization, marked as soon as it is answered; the   *)
(* rows of networks that are filtered out are dropped.                        *)
MarkThenRows(g, family) ==
    Fetched(g) \bullet Read(g) \bullet Rows(family, g)

(* clients.py *)
WirelessClients(due) ==
    Gate("mr_wireless_clients", Org, due, Caught(MarkThenRows("mr_wireless_clients", "ap_clients")))

(* Mutant: one network that fails ends the sweep. *)
ConnectionStatsInTurn(due) ==
    Gate("mr_connection_stats", Org, due, Caught(MarkIfAny("mr_connection_stats",
        InTurn([n \in Items |-> Call("mr_connection_stats", n)
                            \bullet Write("ap_connection_stats", "mr_connection_stats", n)]))))

ConnectionStats(due) ==
    Gate("mr_connection_stats", Org, due, MarkIfAny("mr_connection_stats",
        Each([n \in Items |-> Call("mr_connection_stats", n)
                            \bullet Write("ap_connection_stats", "mr_connection_stats", n)])))

-----------------------------------------------------------------------------
(* performance.py *)
EthernetStatus(due) ==
    Gate("mr_ethernet_status", Org, due, Caught(MarkThenRows("mr_ethernet_status", "ethernet_status")))

PowerMode(due) ==
    Gate("mr_power_mode", Org, due, Caught(MarkThenRows("mr_power_mode", "power_mode")))

(* Two calls share the gate; each may fail alone, and one answer is enough.   *)
DevicePacketLoss ==
    Lost("mr_packet_loss", Org)
        \cup Answer("mr_packet_loss", Org) \bullet Rows("device_packet_loss", "mr_packet_loss")

NetworkPacketLoss ==
    Lost("mr_packet_loss", Org) \bullet Read("mr_packet_loss")
        \cup Answer("mr_packet_loss", Org) \bullet Read("mr_packet_loss")
                 \bullet Rows("network_packet_loss", "mr_packet_loss")

PacketLoss(due) ==
    Gate("mr_packet_loss", Org, due,
        Caught(MarkIfAny("mr_packet_loss", NetworkPacketLoss \bullet DevicePacketLoss)))

(* One call for each batch of access points. *)
CpuLoad(due) ==
    Gate("mr_cpu_load", Org, due, IfAny("mr_cpu_load", MarkIfAny("mr_cpu_load",
        Each([batch \in Items |-> Call("mr_cpu_load", batch)
                                \bullet Write("cpu_load", "mr_cpu_load", batch)]))))

-----------------------------------------------------------------------------
(* wireless.py, rf_profiles.py, catalyst.py *)
SsidStatus(due) ==
    Gate("mr_ssid_status", Org, due, Caught(MarkThenRows("mr_ssid_status", "radio")))

SsidUsage(due) ==
    Gate("mr_ssid_usage", Org, due, Caught(
        Fetched("mr_ssid_usage") \bullet Rows("ssid_usage", "mr_ssid_usage")))

RfProfiles(due) ==
    Gate("mr_rf_profiles", Org, due, Caught(MarkThenRows("mr_rf_profiles", "rf_profile")))

WirelessControllers(due) ==
    Gate("mr_wireless_controller", Org, due,
        Caught(MarkThenRows("mr_wireless_controller", "controller")))

-----------------------------------------------------------------------------
(* signal_quality.py: marked without regard to how the access points fared.   *)
ApSignalQuality(ap) ==
    Call("mr_signal_quality", ap) \bullet
        IfAny("mr_signal_quality", Write("signal", "mr_signal_quality", ap))

SignalQuality(due) ==
    Gate("mr_signal_quality", Org, due,
        IfAny("mr_signal_quality", Each([d \in Items |-> ApSignalQuality(d)]))
            \bullet Mark("mr_signal_quality", Org))

(* firewall.py: two calls for each SSID of a network. *)
SsidRules(n) ==
    Caught(Call("mr_ssid_firewall", n) \bullet Write("l3_rules", "mr_ssid_firewall", n)
               \bullet Call("mr_ssid_firewall", n) \bullet Write("l7_rules", "mr_ssid_firewall", n))

NetworkSsidFirewall(n) == Call("mr_ssid_firewall", n) \bullet SsidRules(n)

SsidFirewall(due) ==
    Gate("mr_ssid_firewall", Org, due,
        Each([n \in Items |-> NetworkSsidFirewall(n)]) \bullet Mark("mr_ssid_firewall", Org))

-----------------------------------------------------------------------------
(* client_logs.py has no gate: it runs with the SSID usage, and its records   *)
(* stand for series without a TTL of their own.                               *)
ClientPacketLossLog ==
    Call("client_logs", Org) \bullet Read("client_logs") \bullet Rows("loss_log", "client_logs")

ActiveWirelessClients == Read("client_logs") \bullet Call("client_logs", Org)

ClientSignalLog ==
    ActiveWirelessClients \bullet
        Each([c \in Items |-> Call("client_logs", c) \bullet Write("signal_log", "client_logs", c)])

ClientLogs == Caught(ClientPacketLossLog \bullet ClientSignalLog)

-----------------------------------------------------------------------------
(* collector.py: the calls the device coordinator makes, each guarded there.  *)
WirelessSites ==
    {"ap_clients", "ap_ethernet", "ap_packet_loss", "ap_cpu", "ap_ssid_status", "ap_ssid_usage",
     "ap_connections"}

Wireless(site, due) ==
    CASE site = "ap_clients"     -> WirelessClients(due)
      [] site = "ap_ethernet"    -> EthernetStatus(due) \bullet PowerMode(due)
      [] site = "ap_packet_loss" -> PacketLoss(due)
      [] site = "ap_cpu"         -> CpuLoad(due) \bullet SignalQuality(due)
      [] site = "ap_ssid_status" -> SsidStatus(due) \bullet RfProfiles(due) \bullet WirelessControllers(due)
      [] site = "ap_ssid_usage"  -> SsidUsage(due) \bullet ClientLogs
      [] site = "ap_connections" -> ConnectionStats(due) \bullet SsidFirewall(due)
=============================================================================
