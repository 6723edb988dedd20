-------------------------- MODULE SwitchCollectors --------------------------
(* What the switch collectors leave behind: collectors/devices/ms.py,         *)
(* ms_power.py, ms_stack.py, base.py, and the part of the device coordinator, *)
(* collectors/device.py, that chooses between the endpoints of a switch and   *)
(* those of the organization.                                                 *)
EXTENDS Outcomes

(* The states of the ports of every switch, in one call.  An SDK without the  *)
(* endpoint is like a call that fails: False is returned, and nothing marked. *)
PortStatuses(due) ==
    Gate("ms_port_status", Org, due,
        Read("ms_port_status") \bullet Call("ms_port_status", Org)
            \bullet Rows("port_status", "ms_port_status") \bullet Mark("ms_port_status", Org))

(* The counters of the ports of the switches whose timestamp is old enough:   *)
(* two calls for the organization, and a timestamp for each switch reported.  *)
UsageRow(d) ==
    Totals("port_usage", "ms_port_usage", d) \bullet Mark("ms_port_usage", d)

PortUsage(switches, due) ==
    Gate("ms_port_usage", Org, due,
        Read("ms_port_usage") \bullet Call("ms_port_usage", Org) \bullet Call("ms_port_usage", Org)
            \bullet InTurn([d \in switches |-> UsageRow(d)]) \bullet Mark("ms_port_usage", Org))

(* The endpoint of one switch, when that of the organization fails.           *)
DevicePortUsage(d, due) ==
    Gate("ms_port_usage", d, due, Caught(
        Call("ms_port_usage", d) \bullet Totals("port_usage", "ms_port_usage", d)
            \bullet Mark("ms_port_usage", d)))

PacketStatistics(d, due) ==
    Gate("ms_packet_stats", d, due, Caught(
        Call("ms_packet_stats", d) \bullet Totals("port_packets", "ms_packet_stats", d)
            \bullet Mark("ms_packet_stats", d)))

(* Everything a switch reports about its ports, in one answer that has the    *)
(* data of two groups, port by port: no gate is asked for it, and at the end  *)
(* the timestamp of the usage is set.                                         *)
PortsOf(d) ==
    Call("ms_port_status", d) \bullet Answer("ms_port_usage", d)
        \bullet Totals("port_status", "ms_port_status", d)
        \bullet (Write("port_usage", "ms_port_usage", d) \cup {Raise("row", "ms_port_status", d)})

SwitchPorts(d, due) ==
    Caught(PortsOf(d) \bullet PacketStatistics(d, due) \bullet Mark("ms_port_usage", d))

PortsBySwitch(due) == Each([d \in Items |-> SwitchPorts(d, due)])

(* collectors/device.py: with the endpoint of the organization, a failure of  *)
(* the states falls back to every switch and skips the other two steps.       *)
UsageOfStaleSwitches(due) ==
    LET stale == {d \in Items : <<"ms_port_usage", d>> \in due}
    IN  IF stale = {} THEN Done
        ELSE OrElse(PortUsage(stale, due), Each([d \in stale |-> DevicePortUsage(d, due)]))

Ports(due) ==
    LET statuses == PortStatuses(due)
    IN  {o \in statuses : ~o.raised} \bullet UsageOfStaleSwitches(due)
            \bullet Each([d \in Items |-> PacketStatistics(d, due)])
        \cup Caught({o \in statuses : o.raised}) \bullet PortsBySwitch(due)

-----------------------------------------------------------------------------
(* The overview of the ports comes after the power history.                   *)
PowerHistory(due) ==
    Gate("ms_power_summary", Org, due, Caught(
        Call("ms_power_summary", Org)
            \bullet IfAny("ms_power_summary", Write("poe_draw", "ms_power_summary", Org))
            \bullet Mark("ms_power_summary", Org)))

PortOverview(due) ==
    PowerHistory(due) \bullet
    Gate("ms_port_overview", Org, due, Caught(
        Call("ms_port_overview", Org) \bullet Totals("ports_active", "ms_port_overview", Org)
            \bullet Mark("ms_port_overview", Org)))

Memory(due) ==
    Gate("device_memory", Org, due, Caught(
        Fetched("device_memory") \bullet Read("device_memory")
            \bullet Rows("memory", "device_memory")))

-----------------------------------------------------------------------------
(* Two sweeps over the networks, marked whatever came of them, before the     *)
(* spanning tree priorities, which keep one timestamp for every organization. *)
NetworkDhcpSecurity(n) ==
    Caught(Call("ms_dhcp_security", n) \bullet Totals("dhcp_servers", "ms_dhcp_security", n))
    \bullet Caught(Call("ms_dhcp_security", n) \bullet Totals("arp_inspection", "ms_dhcp_security", n))

DhcpSecurity(due) ==
    Gate("ms_dhcp_security", Org, due, Caught(
        Read("ms_dhcp_security") \bullet Each([n \in Items |-> NetworkDhcpSecurity(n)])
            \bullet Mark("ms_dhcp_security", Org)))

NetworkLinkAggregations(n) ==
    Call("ms_link_aggregations", n) \bullet Totals("lags", "ms_link_aggregations", n)

LinkAggregations(due) ==
    Gate("ms_link_aggregations", Org, due, Caught(
        Read("ms_link_aggregations") \bullet Each([n \in Items |-> NetworkLinkAggregations(n)])
            \bullet Mark("ms_link_aggregations", Org)))

NetworkStp(n) == Call("ms_stp", n) \bullet Totals("stp_priority", "ms_stp", n)

AllOrganizations == "all organizations"

StpPriorities(due) ==
    DhcpSecurity(due) \bullet LinkAggregations(due) \bullet
    Gate("ms_stp", AllOrganizations, due, Caught(
        Read("ms_stp") \bullet Each([n \in Items |-> NetworkStp(n)])
            \bullet Mark("ms_stp", AllOrganizations)))

-----------------------------------------------------------------------------
(* ms_stack.py: marked when one network was answered, or none was asked.      *)
NetworkStacks(n) == Call("ms_stacks", n) \bullet Totals("stack_members", "ms_stacks", n)

(* Mutant: marked however the networks fared. *)
StacksMarkedAnyway(due) ==
    Gate("ms_stacks", Org, due,
        Each([n \in Items |-> NetworkStacks(n)]) \bullet Mark("ms_stacks", Org))

Stacks(due) ==
    Gate("ms_stacks", Org, due,
        Empty("ms_stacks") \bullet Mark("ms_stacks", Org)
            \cup MarkIf("ms_stacks", Each([n \in Items |-> NetworkStacks(n)]), LAMBDA o : o.wrote # {}))

(* ms_power.py *)
PowerModules(due) ==
    Gate("ms_power", Org, due, Caught(
        Fetched("ms_power") \bullet IfAny("ms_power",
            Read("ms_power") \bullet Rows("power_supply", "ms_power"))))
-----------------------------------------------------------------------------
(* At the end of a cycle the timestamps are dropped of every switch that did  *)
(* not come through SwitchPorts: every switch, unless the states of the ports *)
(* could not be had from the organization or are not asked of it.             *)
SwitchStamps == {"ms_port_usage", "ms_packet_stats"} \X Items

Forgotten(o) ==
    IF \E kind \in {"call", "read", "row"} : <<kind, "ms_port_status", Org>> \in o.amiss
    THEN {} ELSE SwitchStamps

(* The ports are collected by switch where ms_port_status_use_org_endpoint is *)
(* off.                                                                       *)
SwitchSites ==
    {"ms_ports", "ms_ports_by_switch", "ms_port_overview", "device_memory", "ms_stp", "ms_stacks",
     "ms_power"}

(* Groups whose data a site has without asking their gates. *)
Ungated(site) == IF site = "ms_ports_by_switch" THEN {"ms_port_status", "ms_port_usage"} ELSE {}

Switch(site, due) ==
    CASE site = "ms_ports"           -> Ports(due)
      [] site = "ms_ports_by_switch" -> PortsBySwitch(due)
      [] site = "ms_port_overview"   -> PortOverview(due)
      [] site = "device_memory"      -> Memory(due)
      [] site = "ms_stp"             -> StpPriorities(due)
      [] site = "ms_stacks"          -> Stacks(due)
      [] site = "ms_power"           -> PowerModules(due)
=============================================================================
