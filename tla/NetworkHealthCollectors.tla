----------------------- MODULE NetworkHealthCollectors -----------------------
(* What collectors/network_health.py and network_health_collectors/ leave     *)
(* behind for the wireless networks of one organization.                      *)
EXTENDS Outcomes

(* rf_health.py: two calls for the organization; any failure is logged and    *)
(* reported to the coordinator, which then leaves the group unmarked.         *)
ChannelUtilization(due) ==
    Gate("nh_channel_utilization", Org, due, Caught(
        Read("nh_channel_utilization") \bullet Call("nh_channel_utilization", Org)
            \bullet Call("nh_channel_utilization", Org)
            \bullet Rows("ap_utilization", "nh_channel_utilization")
            \bullet Rows("network_utilization", "nh_channel_utilization")
            \bullet Mark("nh_channel_utilization", Org)))

(* One network: each of these logs its failure and returns as if it had gone  *)
(* well.  Without clients the count and the statistics are zero; without      *)
(* rates, failed connections or repeaters nothing is written.                 *)
ConnectionHealth(n) ==
    Caught(Call("nh_connection_stats", n) \bullet Totals("connection_stats", "nh_connection_stats", n))

DataRates(n) ==
    Caught(Call("nh_data_rates", n)
               \bullet IfAny("nh_data_rates", Totals("data_rates", "nh_data_rates", n)))

BluetoothClients(n) ==
    Caught(Call("nh_bluetooth", n) \bullet Write("bluetooth_clients", "nh_bluetooth", n))

SsidPerformance(n) ==
    Caught(Call("nh_failed_connections", n) \bullet IfAny("nh_failed_connections",
               Totals("failed_connections", "nh_failed_connections", n)))

(* Two calls, each guarded; the rows of an answer are not.                    *)
LatencyCall(s, n) ==
    Lost("nh_latency_stats", n)
        \cup Answer("nh_latency_stats", n)
                 \bullet IfAny("nh_latency_stats", Totals(s, "nh_latency_stats", n))

LatencyStats(n) == LatencyCall("device_latency", n) \bullet LatencyCall("client_latency", n)

AirMarshal(n) ==
    Lost("nh_air_marshal", n)
        \cup Answer("nh_air_marshal", n) \bullet Totals("air_marshal", "nh_air_marshal", n)

Mesh(n) ==
    Lost("nh_mesh", n)
        \cup Answer("nh_mesh", n) \bullet IfAny("nh_mesh", Totals("mesh", "nh_mesh", n))

BundleGroups ==
    {"nh_connection_stats", "nh_data_rates", "nh_bluetooth", "nh_failed_connections",
     "nh_latency_stats", "nh_air_marshal", "nh_mesh"}

OfNetwork(g, n) ==
    CASE g = "nh_connection_stats"   -> ConnectionHealth(n)
      [] g = "nh_data_rates"         -> DataRates(n)
      [] g = "nh_bluetooth"          -> BluetoothClients(n)
      [] g = "nh_failed_connections" -> SsidPerformance(n)
      [] g = "nh_latency_stats"      -> LatencyStats(n)
      [] g = "nh_air_marshal"        -> AirMarshal(n)
      [] g = "nh_mesh"               -> Mesh(n)

(* The groups of a network that came back without an exception, each in a try *)
(* of its own.                                                                *)
Bundle(n, due) ==
    LET asked == {g \in BundleGroups : <<g, Org>> \in due}
    IN  Each([g \in asked |-> Gate(g, Org, due, OfNetwork(g, n)) \bullet Mark(g, n)])

(* A group is marked once it came back for some network.                      *)
NetworkBundles(due) ==
    {[o EXCEPT !.marked = {<<m[1], Org>> : m \in @}] : o \in Each([n \in Items |-> Bundle(n, due)])}

(* The networks are listed before any gate; an organization may have none     *)
(* with access points.  The groups of the bundle do not meet, so each is a    *)
(* site of its own.                                                           *)
NetworkHealth(due) ==
    Read("networks") \bullet IfAny("networks", ChannelUtilization(due) \bullet NetworkBundles(due))

NetworkHealthSites == BundleGroups \cup {"nh_channel_utilization"}

NetworkHealthOf(site, due) == NetworkHealth({<<site, Org>>} \cap due)
=============================================================================
