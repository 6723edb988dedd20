------------------------ MODULE ApplianceCollectors ------------------------
(* What the security appliance collectors, collectors/devices/mx*.py, leave   *)
(* behind.                                                                    *)
EXTENDS Outcomes

(* A call for the whole organization that is marked once its rows are written. *)
RowsThenMark(g, s) == Read(g) \bullet Rows(s, g) \bullet Mark(g, Org)

(* mx.py: two endpoints of each physical appliance, with a timestamp per      *)
(* serial; an appliance may have no performance score.                        *)
(* Mutants: the timestamp is not set; it is set when the gate is asked, also when it is closed. *)
PerformanceScoreUnmarked(d, due) ==
    Gate("mx_performance", d, due, Caught(
        Call("mx_performance", d)
            \bullet IfAny("mx_performance", Write("performance_score", "mx_performance", d))))

PerformanceScoreTouched(d, due) ==
    Gate("mx_performance", d, due, Caught(
        Call("mx_performance", d)
            \bullet IfAny("mx_performance", Write("performance_score", "mx_performance", d))))
    \bullet Mark("mx_performance", d)

PerformanceScore(d, due) ==
    Gate("mx_performance", d, due, Caught(
        Call("mx_performance", d) \bullet Mark("mx_performance", d)
            \bullet IfAny("mx_performance", Write("performance_score", "mx_performance", d))))

DhcpSubnets(d, due) ==
    Gate("mx_dhcp_subnets", d, due, Caught(
        Call("mx_dhcp_subnets", d) \bullet Mark("mx_dhcp_subnets", d)
            \bullet Totals("dhcp_subnets", "mx_dhcp_subnets", d)))

PhysicalAppliance(d, due) == PerformanceScore(d, due) \bullet DhcpSubnets(d, due)

(* The overview comes first and has a gate of its own.                        *)
UplinkOverview(due) ==
    Gate("mx_uplinks_overview", Org, due, Caught(
        Call("mx_uplinks_overview", Org)
            \bullet Write("uplinks_by_status", "mx_uplinks_overview", Org)
            \bullet Mark("mx_uplinks_overview", Org)))

UplinkStatuses(due) ==
    UplinkOverview(due) \bullet
    Gate("mx_uplink_status", Org, due, Caught(
        Call("mx_uplink_status", Org) \bullet
            (Empty("mx_uplink_status") \bullet Mark("mx_uplink_status", Org)
                \cup RowsThenMark("mx_uplink_status", "uplink_info"))))

(* mx_ha.py, mx_uplink_usage.py, mx_uplink_health.py: an empty answer leaves  *)
(* before the mark.                                                           *)
Redundancy(due) ==
    Gate("mx_ha", Org, due, Caught(
        Call("mx_ha", Org) \bullet IfAny("mx_ha", RowsThenMark("mx_ha", "ha_role"))))

UplinkUsage(due) ==
    Gate("mx_uplink_usage", Org, due, Caught(
        Call("mx_uplink_usage", Org)
            \bullet IfAny("mx_uplink_usage", RowsThenMark("mx_uplink_usage", "uplink_bytes"))))

UplinkLossLatency(due) ==
    Gate("mx_uplink_health", Org, due, Caught(
        Call("mx_uplink_health", Org) \bullet IfAny("mx_uplink_health",
            Read("mx_uplink_health") \bullet AllRows("uplink_loss", "mx_uplink_health")
                \bullet Mark("mx_uplink_health", Org))))

-----------------------------------------------------------------------------
(* mx_vpn.py: the peers and the usage share one gate, which the coordinator   *)
(* asks once for both; only the usage marks it.  The topology has its own and *)
(* is reached through the peers.                                              *)
SiteToSiteNetwork(n) ==
    Call("mx_vpn_config", n) \bullet Totals("vpn_hubs", "mx_vpn_config", n)

SiteToSiteTopology(due) ==
    Gate("mx_vpn_config", Org, due, Caught(
        Read("mx_vpn_config") \bullet Each([n \in Items |-> SiteToSiteNetwork(n)])
            \bullet Mark("mx_vpn_config", Org)))

VpnStatuses(due) ==
    Caught(Gate("mx_vpn", Org, due,
               Call("mx_vpn", Org) \bullet Read("mx_vpn") \bullet Rows("vpn_peer", "mx_vpn"))
           \bullet SiteToSiteTopology(due))

VpnStats(due) ==
    Gate("mx_vpn", Org, due, Caught(
        Call("mx_vpn", Org) \bullet RowsThenMark("mx_vpn", "vpn_usage")))

-----------------------------------------------------------------------------
(* mx_firewall.py: four configurations of each network, one after the other,  *)
(* with a timestamp per network; a 400 or a 404 of three endpoints says that  *)
(* the network does not have the feature.                                     *)
Optional(A) == A \cup Empty("unsupported")

Set(s, g, n) == Call(g, n) \bullet Totals(s, g, n)

FirewallRules(n, due) ==
    Gate("mx_firewall_config", n, due,
        Set("l3_rules", "mx_firewall_config", n) \bullet Set("l7_rules", "mx_firewall_config", n)
            \bullet Mark("mx_firewall_config", n))

SecurityConfig(n, due) ==
    Gate("mx_security_config", n, due, Caught(
        Set("content_filtering", "mx_security_config", n)
            \bullet Optional(Set("malware", "mx_security_config", n))
            \bullet Optional(Set("intrusion", "mx_security_config", n))
            \bullet Mark("mx_security_config", n)))

NatConfig(n, due) ==
    Gate("mx_nat_config", n, due, Caught(
        Set("port_forwarding", "mx_nat_config", n) \bullet Set("one_to_one", "mx_nat_config", n)
            \bullet Set("one_to_many", "mx_nat_config", n) \bullet Mark("mx_nat_config", n)))

VlanConfig(n, due) ==
    Gate("mx_vlan_config", n, due, Caught(
        Optional(Set("vlans", "mx_vlan_config", n))
            \bullet Set("static_routes", "mx_vlan_config", n) \bullet Mark("mx_vlan_config", n)))

NetworkFirewall(n, due) ==
    Caught(FirewallRules(n, due) \bullet SecurityConfig(n, due)
               \bullet NatConfig(n, due) \bullet VlanConfig(n, due))

(* The window of the query is the interval of the group; events are counted   *)
(* before the first count is written.                                         *)
SecurityEvents(due) ==
    Gate("mx_security_events", Org, due, Caught(
        Call("mx_security_events", Org) \bullet Read("mx_security_events")
            \bullet AllRows("security_events", "mx_security_events")
            \bullet Mark("mx_security_events", Org)))
-----------------------------------------------------------------------------
(* The calls of the device coordinator, each guarded there; the first two are *)
(* made for each appliance and for each network.                              *)
ApplianceSites ==
    {"appliance", "appliance_network", "mx_uplinks", "mx_ha", "mx_usage", "mx_loss", "mx_vpn",
     "mx_events"}

Appliance(site, due) ==
    CASE site = "appliance"         -> PhysicalAppliance(AnItem, due)
      [] site = "appliance_network" -> NetworkFirewall(AnItem, due)
      [] site = "mx_uplinks"        -> UplinkStatuses(due)
      [] site = "mx_ha"             -> Redundancy(due)
      [] site = "mx_usage"          -> UplinkUsage(due)
      [] site = "mx_loss"           -> UplinkLossLatency(due)
      [] site = "mx_vpn"            -> VpnStatuses(due) \bullet VpnStats(due)
      [] site = "mx_events"         -> SecurityEvents(due)
=============================================================================
