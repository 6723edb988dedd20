---------------------------- MODULE DeviceState ----------------------------
(***************************************************************************)
(* meraki_device_up and meraki_device_status_info of one organization:     *)
(* the poll of DeviceCollector._collect_org_devices, with the points where *)
(* it awaits, against the webhook that flips meraki_device_up between them *)
(* (WebhookHandler.process_webhook, apply_webhook_device_state), while     *)
(* devices change, join, leave, move and are renamed and the inventory's   *)
(* caches of devices and of availabilities are refreshed by anybody.       *)
(*                                                                         *)
(* A device_up series is labelled by the device and its network, a status  *)
(* series by its name as well.                                             *)
(*                                                                         *)
(* An alert here is one the receiver lets through: WebhookReceiver says    *)
(* that it does so at most once.  How long a series lives is not counted   *)
(* (SeriesExpiry does that): a series may expire at any time.              *)
(***************************************************************************)
EXTENDS DeviceParameters

VARIABLES status,  \* the status of a device in the Dashboard, or Gone
          home,    \* the network of a device
          name,    \* its name
          others,  \* the organization has devices beside Devices
          changes, \* changes so far
          alerts,  \* devices whose device_down alert has not arrived yet
          listed,  \* inventory cache: the devices with their networks and names
          avail,   \* inventory cache: the status of a device, or Gone
          open,    \* the gate of device_availability is due
          overdue, \* the interval is over since the poll last wrote device_up
          pc,      \* where the poll is: "idle", or what it awaits
          devices, \* the devices the poll works on, as they were listed
          due,     \* availability_due of the poll
          seen,    \* the availabilities the poll works on
          labels,  \* _webhook_device_labels: devices with their networks
          up,      \* value of a device_up series, or Absent
          info,    \* status values of the device_status_info series
          written, \* ghost: what the last poll wrote that was due to write
          moved    \* ghost: devices with a network that this poll did not write

dashboard == <<status, home, name, others, changes>>
cached == <<listed, avail>>
poll == <<open, overdue, pc, devices, due, seen>>
series == <<up, info>>
ghosts == <<written, moved>>
vars == <<dashboard, alerts, cached, poll, labels, series, ghosts>>

-----------------------------------------------------------------------------
Statuses == {"online", "alerting", "offline"}
Gone == "gone"
Absent == 2
Nothing == [d \in Devices |-> Gone]

Labels == Devices \X Networks
Places == Devices \X Networks \X Names

UpLabels(i) == <<i[1], i[2]>>
UpOf(places) == {UpLabels(i) : i \in places}

Verdict(st) == IF st = "online" THEN 1 ELSE 0

(* DEFAULT_DEVICE_STATUS, for a device the availabilities do not mention. *)
Reported(st) == IF st = Gone THEN "offline" ELSE st

Present == {d \in Devices : status[d] # Gone}
Inventoried == {<<d, home[d], name[d]>> : d \in Present}

Init ==
    /\ status \in [Devices -> Statuses \cup {Gone}]
    /\ home \in [Devices -> Networks] /\ name \in [Devices -> Names]
    /\ others \in BOOLEAN /\ changes = 0 /\ alerts = {}
    /\ listed = Inventoried /\ avail = status
    /\ open = TRUE /\ overdue = FALSE
    /\ pc = "idle" /\ devices = {} /\ due = FALSE /\ seen = Nothing
    /\ labels = {} /\ written = {} /\ moved = Devices
    /\ up = [s \in Labels |-> Absent] /\ info = [i \in Places |-> {}]

-----------------------------------------------------------------------------
(* The Dashboard. *)
Change(d, st) ==
    /\ changes < Changes /\ st # status[d]
    /\ status' = [status EXCEPT ![d] = st]
    /\ changes' = changes + 1
    /\ alerts' = IF st = "offline" /\ status[d] # Gone THEN alerts \cup {d} ELSE alerts
    /\ moved' = IF status[d] = Gone THEN moved \cup {d} ELSE moved
    /\ UNCHANGED <<home, name, others, cached, poll, labels, series, written>>

Move(d, n) ==
    /\ changes < Changes /\ n # home[d]
    /\ home' = [home EXCEPT ![d] = n]
    /\ changes' = changes + 1
    /\ moved' = moved \cup {d}
    /\ UNCHANGED <<status, name, others, alerts, cached, poll, labels, series, written>>

Rename(d, m) ==
    /\ changes < Changes /\ m # name[d]
    /\ name' = [name EXCEPT ![d] = m]
    /\ changes' = changes + 1
    /\ UNCHANGED <<status, home, others, alerts, cached, poll, labels, series, ghosts>>

(* An alert that is lost, or that the receiver rejects. *)
Lose(d) ==
    /\ d \in alerts
    /\ alerts' = alerts \ {d}
    /\ UNCHANGED <<dashboard, cached, poll, labels, series, ghosts>>

-----------------------------------------------------------------------------
(* The caches: refreshed for another collector, by the warm-up or for this   *)
(* one.                                                                      *)
RefreshDevices ==
    /\ listed' = Inventoried
    /\ UNCHANGED <<dashboard, alerts, avail, poll, labels, series, ghosts>>

RefreshAvailabilities ==
    /\ avail' = status
    /\ UNCHANGED <<dashboard, alerts, listed, poll, labels, series, ghosts>>

-----------------------------------------------------------------------------
(* The poll: _fetch_devices, the gate, _fetch_device_availabilities,         *)
(* _fetch_networks_for_poe, and then the writes, which do not await.         *)
Idle == pc' = "idle" /\ devices' = {} /\ due' = FALSE /\ seen' = Nothing

(* The interval of the group, or the retry spacing after a failure, is over. *)
Reopen ==
    /\ ~open
    /\ open' = TRUE /\ overdue' = TRUE
    /\ UNCHANGED <<dashboard, alerts, cached, pc, devices, due, seen, labels, series, ghosts>>

(* An organization without devices is not polled further.  The gate closes   *)
(* when it lets an attempt through; a forced run does not ask it.            *)
FetchDevices(forced) ==
    /\ pc = "idle" /\ (others \/ listed # {})
    /\ devices' = listed
    /\ due' = (open \/ forced)
    /\ pc' = (IF due' THEN "availabilities" ELSE "networks")
    /\ open' = (open /\ forced)
    /\ UNCHANGED <<dashboard, alerts, cached, overdue, seen, labels, series, ghosts>>

FetchAvailabilities ==
    /\ pc = "availabilities"
    /\ seen' = avail
    /\ pc' = "networks" /\ open' = FALSE
    /\ UNCHANGED <<dashboard, alerts, cached, overdue, devices, due, labels, series, ghosts>>

(* A fetch that fails raises, and the collector timeout cancels the poll. *)
PollFails ==
    /\ pc # "idle"
    /\ Idle
    /\ UNCHANGED <<dashboard, alerts, cached, open, overdue, labels, series, ghosts>>

Polled == UpOf(devices)

(* Mutants: the old statuses are not removed; a webhook's value is kept; the *)
(* map keeps the devices that left.                                          *)
AddedInfo ==
    [i \in Places |-> IF i \in devices THEN info[i] \cup {Reported(seen[i[1]])} ELSE info[i]]
LatchedUp ==
    [s \in Labels |-> IF s \in Polled /\ up[s] # 0 THEN Verdict(Reported(seen[s[1]])) ELSE up[s]]
UnprunedMap == Polled \cup {s \in labels : \A t \in Polled : t[1] # s[1]}

WrittenUp ==
    [s \in Labels |-> IF s \in Polled THEN Verdict(Reported(seen[s[1]])) ELSE up[s]]

(* The other statuses are removed under the labels of now, name and network  *)
(* included: what was written under a former name or network stays.          *)
WrittenInfo ==
    [i \in Places |-> IF i \in devices THEN {Reported(seen[i[1]])} ELSE info[i]]
RebuiltMap == Polled

(* Ghost: those that the cache or the Dashboard has under a network that     *)
(* this poll does not write.                                                 *)
Elsewhere == {i[1] : i \in {j \in listed \cup Inventoried : UpLabels(j) \notin Polled}}

Write ==
    /\ pc = "networks"
    /\ IF due
       THEN up' = WrittenUp /\ info' = WrittenInfo /\ written' = devices /\ moved' = Elsewhere
       ELSE UNCHANGED <<series, ghosts>>
    /\ labels' = RebuiltMap
    /\ overdue' = (overdue /\ ~due)
    /\ Idle
    /\ UNCHANGED <<dashboard, alerts, cached, open>>

-----------------------------------------------------------------------------
(* process_webhook for a device_down alert that is fresh and no replay. *)
Deliver(d) ==
    /\ d \in alerts
    /\ alerts' = alerts \ {d}
    /\ up' = [s \in Labels |-> IF s[1] = d /\ s \in labels THEN 0 ELSE up[s]]
    /\ UNCHANGED <<dashboard, cached, poll, labels, info, ghosts>>

(* What polls no longer write. *)
UnfedUp(s) == s \notin UpOf(written) \/ s \notin UpOf(listed)
UnfedInfo(i) == i \notin written \/ i \notin listed

(* _cleanup_expired_metrics: a TTL is longer than the interval. *)
ExpireUp(s) ==
    /\ up[s] # Absent /\ (overdue \/ UnfedUp(s))
    /\ up' = [up EXCEPT ![s] = Absent]
    /\ UNCHANGED <<dashboard, alerts, cached, poll, labels, info, ghosts>>

ExpireInfo(i) ==
    /\ info[i] # {} /\ (overdue \/ UnfedInfo(i))
    /\ info' = [info EXCEPT ![i] = {}]
    /\ UNCHANGED <<dashboard, alerts, cached, poll, labels, up, ghosts>>

-----------------------------------------------------------------------------
Next ==
    \/ \E d \in Devices :
          \/ \E st \in Statuses \cup {Gone} : Change(d, st)
          \/ \E n \in Networks : Move(d, n)
          \/ \E m \in Names : Rename(d, m)
          \/ Lose(d) \/ Deliver(d)
    \/ RefreshDevices \/ RefreshAvailabilities
    \/ Reopen \/ \E forced \in BOOLEAN : FetchDevices(forced)
    \/ FetchAvailabilities \/ Write \/ PollFails
    \/ \E s \in Labels : ExpireUp(s)
    \/ \E i \in Places : ExpireInfo(i)

Spec == Init /\ [][Next]_vars

(* Caches have a TTL, polls end and succeed again and again with the gate    *)
(* open, and series that polls no longer refresh expire.                     *)
Fairness ==
    /\ WF_vars(RefreshDevices) /\ WF_vars(RefreshAvailabilities)
    /\ WF_vars(FetchDevices(FALSE)) /\ SF_vars(FetchAvailabilities) /\ WF_vars(Reopen)
    /\ WF_vars(Write \/ PollFails)
    /\ SF_vars(Write /\ due)
    /\ \A s \in Labels : WF_vars(UnfedUp(s) /\ ExpireUp(s))
    /\ \A i \in Places : WF_vars(UnfedInfo(i) /\ ExpireInfo(i))

FairSpec == Spec /\ Fairness

-----------------------------------------------------------------------------
TypeOK ==
    /\ status \in [Devices -> Statuses \cup {Gone}]
    /\ home \in [Devices -> Networks] /\ name \in [Devices -> Names]
    /\ others \in BOOLEAN /\ changes \in 0..Changes /\ alerts \subseteq Devices
    /\ listed \subseteq Places
    /\ avail \in [Devices -> Statuses \cup {Gone}]
    /\ open \in BOOLEAN /\ overdue \in BOOLEAN
    /\ pc \in {"idle", "availabilities", "networks"}
    /\ devices \subseteq Places /\ due \in BOOLEAN
    /\ seen \in [Devices -> Statuses \cup {Gone}]
    /\ labels \subseteq Labels /\ written \subseteq Places /\ moved \subseteq Devices
    /\ up \in [Labels -> {0, 1, Absent}] /\ info \in [Places -> SUBSET Statuses]

(* No labels of a device (its network and name) have two statuses: a poll    *)
(* that reports a transition takes the old one away, wherever alerts land.   *)
(* Under those that the last poll wrote, none contradicts a device_up of 1:  *)
(* a webhook can only leave device_up behind the status.  A device that was  *)
(* moved or renamed has besides what is left under its old labels.           *)
StatusConsistent ==
    /\ \A i \in Places : Cardinality(info[i]) <= 1
    /\ \A i \in written : up[UpLabels(i)] = 1 => info[i] \subseteq {"online"}

(* And all of it is well typed.                                             *)
DeviceInv == TypeOK /\ StatusConsistent

(* A webhook touches no series but one that the last poll to write any has   *)
(* written, unless the device has joined or moved since that poll's list: a  *)
(* poll that is not due writes no series, but renews the map that the        *)
(* webhook goes by.  So an alert, however late, writes nothing for a device  *)
(* that polls found gone, nor under a network that it left before.           *)
ByWebhook(s) == alerts' # alerts /\ up'[s] # up[s]

WebhookFollowsPoll ==
    [][\A s \in Labels : ByWebhook(s) => s \in UpOf(written) \/ s[1] \in moved]_vars

(* Once the devices stop changing, the series of those that are there tell   *)
(* their status for good, late alerts, stale caches and polls that were      *)
(* under way notwithstanding, and those of devices that left, or of networks *)
(* and names they had, vanish: a webhook never wins a permanent              *)
(* disagreement.                                                             *)
Truthful(i) ==
    i \in Inventoried =>
        /\ up[UpLabels(i)] \in {Absent, Verdict(status[i[1]])}
        /\ info[i] \subseteq {status[i[1]]}

Vanished(i) ==
    /\ i \notin Inventoried => info[i] = {}
    /\ UpLabels(i) \notin UpOf(Inventoried) => up[UpLabels(i)] = Absent

Reconverges == \A i \in Places : <>[](Truthful(i) /\ Vanished(i))

(* "Never create a novel/relabelled series": what the docstring of           *)
(* apply_webhook_device_state says of a webhook.                             *)
NeverNovel == [][\A s \in Labels : ByWebhook(s) => up[s] # Absent]_vars

(* The poll wait is gone for a down transition (docs/data-freshness.md): a   *)
(* device reported down by a webhook is not reported up before it is.        *)
DownStands ==
    [][\A s \in Labels : up[s] = 0 /\ status[s[1]] = "offline" => up'[s] # 1]_vars
=============================================================================
