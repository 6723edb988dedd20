----------------------------- MODULE Collection -----------------------------
(***************************************************************************)
(* One series of the exporter between the three parts that decide how long *)
(* it lives: the gates of the endpoint scheduler (core/scheduler.py) and   *)
(* the timestamps that some collectors keep beside it, the function that   *)
(* fetches its data and marks the gate, and the expiration manager.        *)
(*                                                                         *)
(* A site is a call that a coordinator makes and guards; what it may leave *)
(* behind is its set of outcomes (Outcomes and the modules of the families *)
(* of collectors).  A behaviour fixes one site and watches one of the      *)
(* series it writes.                                                       *)
(***************************************************************************)
EXTENDS WirelessCollectors, ApplianceCollectors, GatewayAndCameraCollectors, SwitchCollectors,
        SensorCollectors, OrganizationCollectors, NetworkHealthCollectors, PolicyCollectors,
        ClientCollector, Integers, TLC

CONSTANTS
    Interval,    \* the interval of every group, in ticks
    Retry,       \* failure_retry_seconds
    CycleGap,    \* the longest time between two cycles of a collector
    Sites        \* the sites to look at

AllSites ==
    WirelessSites \cup ApplianceSites \cup GatewayAndCameraSites \cup SwitchSites
        \cup SensorSites \cup OrgParts \cup NetworkHealthSites \cup PolicySites \cup {"clients"}

ASSUME CollectionAssumption ==
    /\ Interval \in Nat \ {0} /\ Retry \in 1 .. Interval /\ CycleGap \in 1 .. Interval
    /\ Sites \subseteq AllSites

OutcomesOf(site, due) ==
    CASE site \in WirelessSites          -> Wireless(site, due)
      [] site \in ApplianceSites         -> Appliance(site, due)
      [] site \in GatewayAndCameraSites  -> GatewayOrCamera(site, due)
      [] site \in SwitchSites            -> Switch(site, due)
      [] site \in SensorSites            -> Sensor(site, due)
      [] site \in OrgParts               -> OrgPart(site, due)
      [] site \in NetworkHealthSites     -> NetworkHealthOf(site, due)
      [] site \in PolicySites            -> Policy(site, due)
      [] site = "clients"                -> Clients(due)

(* A function that TLC evaluates once, point by point.                        *)
Tabled(f) == f @@ <<>>

(* What the gates of a site are, and the series it writes, comes out of its   *)
(* outcomes when every gate is open.                                          *)
Everything == STRING \X STRING
GatesOf ==
    Tabled([site \in Sites |-> UNION {o.asked : o \in OutcomesOf(site, Everything)}])

SeriesOf ==
    Tabled([site \in Sites |->
        {s \in UNION {o.wrote : o \in OutcomesOf(site, Everything)} :
            /\ s[2] \in {Cadence} \cup Ungated(site) \cup {k[1] : k \in GatesOf[site]}
            /\ s[3] \in {Org, AnItem}}])

(* The groups whose gate or whose failure stands before the data of another.  *)
LeansOn ==
    {<<"ms_port_usage", "ms_port_status">>, <<"ms_packet_stats", "ms_port_status">>,
     <<"mx_security_config", "mx_firewall_config">>, <<"mx_nat_config", "mx_firewall_config">>,
     <<"mx_vlan_config", "mx_firewall_config">>, <<"mx_vpn_config", "mx_vpn">>,
     <<"mt_alert_profiles", "mt_sensor_alerts">>, <<"mt_relationships", "mt_sensor_alerts">>,
     <<"insight_app_health", "insight_applications">>,
     <<"alerts_sensor_overview", "alerts_assurance">>,
     <<"org_firmware_compliance", "cadence">>,
     <<"clients_app_usage", "clients_list">>, <<"clients_signal_quality", "clients_list">>}

(* The gates of a series; the gates whose time matters to it: all of a small  *)
(* site, or else its own and those before it, and the others may be open or   *)
(* closed.                                                                    *)
GatesIn(site, s, groups) == {k \in GatesOf[site] : k[1] \in groups /\ k[2] \notin Items \ {s[3]}}

OwnGates(site, s) == GatesIn(site, s, {s[2]})

Clocked(site, s) ==
    IF Cardinality(GatesOf[site]) <= 3 THEN GatesOf[site]
    ELSE GatesIn(site, s, {s[2]} \cup {g \in {l[2] : l \in LeansOn} : <<s[2], g>> \in LeansOn})

-----------------------------------------------------------------------------
(* What matters of an outcome to a series.  A mishap is its own when it       *)
(* belongs to the same group, to one the code asks first and gives up at, or  *)
(* to the listing everything depends on, and not to another item.             *)
IsOwn(m, s) ==
    /\ m[2] \in {s[2], "networks", "organizations"} \/ <<s[2], m[2]>> \in LeansOn
    /\ m[3] \notin Items \ {s[3]}

(* The answer has nothing to show, or says that there is no such feature.     *)
Absent(o, s) ==
    \E m \in o.amiss : m[1] = "none" /\ (IsOwn(m, s) \/ m[2] = "unsupported")

(* A gate marked when nothing came back, and one left open by a fetch that    *)
(* met with nothing amiss.                                                    *)
Hollow(o, s, own) ==
    /\ o.marked \cap own # {}
    /\ ~\E a \in o.got : a[1] = s[2]
    /\ ~Absent(o, s)

Open(o, own) == ~(o.asked \cap own \subseteq o.marked)

Unsung(o, s, own) ==
    /\ Open(o, own)
    /\ ~\E m \in o.amiss : m[2] \in {s[2], "networks", "organizations", "unsupported"}

View(site, s, o) ==
    [asked  |-> o.asked \cap Clocked(site, s),
     marked |-> o.marked \cap Clocked(site, s),
     kept   |-> Clocked(site, s) \ (IF site = "ms_ports" THEN Forgotten(o) ELSE {}),
     result |-> CASE s \in o.wrote                   -> "wrote"
                  [] Absent(o, s)                     -> "absent"
                  [] \E m \in o.amiss : IsOwn(m, s)  -> "missed"
                  [] OTHER                            -> "passed",
     mark   |-> CASE Hollow(o, s, OwnGates(site, s))  -> "hollow"
                  [] Unsung(o, s, OwnGates(site, s))  -> "unsung"
                  [] Open(o, OwnGates(site, s))       -> "open"
                  [] o.asked \cap OwnGates(site, s) = {} -> "closed"
                  [] OTHER                            -> "earned"]

Views ==
    Tabled([site \in Sites |->
        Tabled([s \in SeriesOf[site] |->
            Tabled([due \in SUBSET Clocked(site, s) |->
                {View(site, s, o) :
                    o \in UNION {OutcomesOf(site, due \cup others) :
                                    others \in SUBSET (GatesOf[site] \ Clocked(site, s))}}])])])

-----------------------------------------------------------------------------
VARIABLES
    at,      \* the site, and the series of it that is watched
    ran,     \* for each clocked gate, the time since it was last marked
    tried,   \* the time since it was last asked for nothing
    age,     \* the age of the series
    misses,  \* mishaps of its own since it was written; an absence counts for two
    idle,    \* the time since the last cycle
    last     \* what the last cycle did to the series, and the last that asked to its gates

vars == <<at, ran, tried, age, misses, idle, last>>

Gates == Clocked(at.site, at.series)
TTL == 2 * (IF at.series[2] = Cadence THEN CycleGap ELSE Interval)

Unwritten == -1
Gone == age > TTL

(* should_run, with its tolerance and the pacing of retries; a timestamp      *)
(* beside the scheduler has neither.                                          *)
IsDue(k) ==
    IF k[2] = Org THEN 10 * ran[k] >= 9 * Interval /\ tried[k] = Retry
                  ELSE ran[k] = Interval

Due == {k \in Gates : IsDue(k)}
Awaited == \E k \in Due : k[2] = Org

TypeOK ==
    /\ at.site \in Sites /\ at.series \in SeriesOf[at.site]
    /\ ran \in [Gates -> 0 .. Interval]
    /\ tried \in [Gates -> 0 .. Retry]
    /\ age \in Unwritten .. TTL + 1
    /\ misses \in 0 .. 2
    /\ idle \in 0 .. CycleGap
    /\ last \in [result : {"wrote", "absent", "missed", "passed"}, mark : {"earned", "hollow", "unsung", "open"}]

Init ==
    /\ \E site \in Sites : \E s \in SeriesOf[site] : at = [site |-> site, series |-> s]
    /\ ran = [k \in Gates |-> Interval]
    /\ tried = [k \in Gates |-> Retry]
    /\ age = Unwritten /\ misses = 0 /\ idle = 0
    /\ last = [result |-> "passed", mark |-> "earned"]

(* Mutant: nothing is capped. *)
Uncapped(n, limit) == n

AtMost(n, limit) == IF n < limit THEN n ELSE limit

(* A cycle of the collector: the loop wakes when a group is due, and the      *)
(* groups of its other sites wake it too.                                     *)
Cycle ==
    /\ Awaited \/ idle > 0
    /\ \E v \in Views[at.site][at.series][Due] :
        /\ ran' = [k \in Gates |-> IF k \notin v.kept THEN Interval
                                   ELSE IF k \in v.marked THEN 0 ELSE ran[k]]
        /\ tried' = [k \in Gates |-> IF k \in v.marked THEN Retry
                                     ELSE IF k \in v.asked THEN 0 ELSE tried[k]]
        /\ age' = IF v.result = "wrote" THEN 0 ELSE age
        /\ misses' = CASE v.result = "wrote"  -> 0
                       [] v.result = "absent" -> 2
                       [] v.result = "missed" -> AtMost(misses + 1, 2)
                       [] v.result = "passed" -> misses
        /\ last' = [result |-> v.result,
                    mark   |-> IF v.mark = "closed" THEN last.mark ELSE v.mark]
    /\ idle' = 0
    /\ UNCHANGED at

(* Time does not pass over a group that is due, but for the pause of the loop *)
(* after a cycle.                                                             *)
Tick ==
    /\ idle = 0 \/ ~Awaited
    /\ idle < CycleGap
    /\ ran' = [k \in Gates |-> AtMost(ran[k] + 1, Interval)]
    /\ tried' = [k \in Gates |-> AtMost(tried[k] + 1, Retry)]
    /\ age' = IF age = Unwritten THEN age ELSE AtMost(age + 1, TTL + 1)
    /\ idle' = idle + 1
    /\ UNCHANGED <<at, misses, last>>

Next == Cycle \/ Tick

Fairness == WF_vars(Cycle) /\ WF_vars(Tick)

Spec == Init /\ [][Next]_vars /\ Fairness
-----------------------------------------------------------------------------
(* The collecting functions that mark their groups, or the timestamps of      *)
(* their items, without looking at what came of the calls; of these, the      *)
(* timestamps, which have no tolerance and no retry, and one more that is set *)
(* before the rows are looked at.                                             *)
MarkedRegardless ==
    {"mr_ssid_firewall", "mr_signal_quality", "ms_dhcp_security", "ms_link_aggregations",
     "mg_cellular_config", "mx_vpn_config", "mt_sensor_alerts", "mt_alert_profiles",
     "mt_relationships", "alerts_sensor_overview", "insight_applications",
     "insight_app_health", "ms_stp", "mv_analytics", "mv_sense_config",
     "clients_app_usage", "clients_signal_quality"} \cup BundleGroups

StampedRegardless ==
    {"ms_stp", "mv_analytics", "mv_sense_config", "clients_app_usage", "clients_signal_quality",
     "mx_dhcp_subnets"}

(* The usage of the ports is also written by the fallback for their states,   *)
(* which asks no gate for it, and by switch neither is asked for; with the    *)
(* endpoint of the organization the timestamps of the packet statistics do    *)
(* not last from one cycle to the next.                                       *)
WrittenUnasked ==
    {<<"ms_ports", "ms_port_usage">>, <<"ms_ports_by_switch", "ms_port_status">>,
     <<"ms_ports_by_switch", "ms_port_usage">>}
StampsForgotten == {<<"ms_ports", "ms_packet_stats">>}

(* A series outlives one failed collection: between two cycles that wrote it  *)
(* it may fail once, and it expires only when the API had nothing to show or  *)
(* failed twice, for this very item or for what is asked before it.  Where a  *)
(* timestamp is set whatever came of the call, the first failure is enough.   *)
FaultTolerated ==
    Gone => misses >= IF at.series[2] \in StampedRegardless THEN 1 ELSE 2

(* No group but those named above is marked by a cycle that got none of its   *)
(* data, and every group whose calls and rows were all in order is marked.    *)
MarksHonest ==
    /\ last.mark = "hollow" => at.series[2] \in MarkedRegardless
    /\ last.mark # "unsung"

(* The state, and what is remembered of the last cycle of a site.             *)
CollectionInv == TypeOK /\ MarksHonest

(* What the documentation says of every group: mark_ran is only called after  *)
(* at least one success within a fetch.                                       *)
MarkedAfterSuccess == last.mark # "hollow"

(* A series whose gates were all marked is not written again before the       *)
(* interval is over, within the tolerance, but for the exceptions above.      *)
WrittenInTime(exceptions) ==
    /\ last'.result = "wrote" /\ age' = 0 /\ idle' = 0
    /\ age # Unwritten /\ last.mark # "open"
    /\ at.series[2] # Cadence /\ <<at.site, at.series[2]>> \notin exceptions
    => 10 * age >= 9 * Interval

Paced == [][WrittenInTime(WrittenUnasked \cup StampsForgotten)]_vars

(* What the documentation says of the packet statistics: a minimum of time    *)
(* between the refreshes of a switch.                                         *)
StampsHonoured == [][WrittenInTime(WrittenUnasked)]_vars

(* Once the calls of a series and those before it are answered with data, it  *)
(* is written again and again: no gate, no mark and no retry starves it.      *)
ItemsServed ==
    <>[](last.result \notin {"missed", "absent"}) => []<>(last.result = "wrote")
=============================================================================
