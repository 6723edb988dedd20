--------------------------- MODULE MCCoordinators ---------------------------
(***************************************************************************)
(* What the coordinators of the collectors do to the series of an          *)
(* organization: the contract of their calls, which the proofs about       *)
(* Collection rest on, and the TLC instance of OrgHealth, which says when  *)
(* they make none.                                                         *)
(*                                                                         *)
(* The contract is a statement about the constants: for every call and     *)
(* every series it writes, what the table of its outcomes says of them.    *)
(* TLC evaluates it, row by row, before a run of this module.              *)
(***************************************************************************)
EXTENDS MCCollection, HealthParameters

ViewsOf(site, s) == UNION {Views[site][s][due] : due \in SUBSET Clocked(site, s)}

(* The timestamps that do not outlast the cycle that sets them.               *)
Fleeting(site, s) ==
    {k \in Clocked(site, s) :
        k[2] # Org /\ \A v \in ViewsOf(site, s) : k \notin v.marked \cap v.kept}

(* What feeds a series: a gate of the scheduler, a timestamp, or one behind   *)
(* the other; a cycle that finds them due writes the series, finds nothing to *)
(* show, or has a mishap, and then leaves the timestamp as it was.            *)
FedBy(site, s, door, stamp) ==
    /\ \A k, l \in door : k = l
    /\ \A k, l \in stamp : k = l
    /\ \A k \in door : k[2] = Org
    /\ \A k \in stamp : k[2] # Org
    /\ s[2] = Cadence => door \cup stamp = {}
    /\ door \cup stamp = {} => s[2] \in {Cadence} \cup Ungated(site)
    /\ door = {} \/ stamp = {} \/ s[2] \in StampedRegardless
    /\ \A due \in SUBSET Clocked(site, s) : \A v \in Views[site][s][due] :
        /\ v.asked \cup v.marked \subseteq due
        /\ door \subseteq v.kept
        /\ door \subseteq due \/ v.marked \cap stamp = {}
        /\ door \cup stamp \cup Fleeting(site, s) \subseteq due => v.result # "passed"
        /\ v.result = "missed" /\ s[2] \notin StampedRegardless =>
              v.marked \cap v.kept \cap stamp = {}

(* The usage of the ports, whose timestamp is also set by cycles that ask     *)
(* neither (PortsOf): then it has been written, and the next cycle that       *)
(* passes it over drops the timestamp; a mishap leaves the gate unmarked.     *)
SparedBy(site, s, door, stamp) ==
    /\ \A k, l \in door : k = l
    /\ \A k, l \in stamp : k = l
    /\ \A k \in door : k[2] = Org
    /\ \A k \in stamp : k[2] # Org
    /\ door # {} /\ stamp # {} /\ s[2] = "ms_port_usage"
    /\ \A due \in SUBSET Clocked(site, s) : \A v \in Views[site][s][due] :
        /\ v.asked \cup (v.marked \cap door) \subseteq due
        /\ door \subseteq v.kept
        /\ door \cup stamp \subseteq due => v.result # "passed"
        /\ v.marked \cap v.kept \cap stamp # {} => v.result = "wrote"
        /\ v.result = "passed" => v.kept \cap stamp = {}
        /\ v.result = "missed" => v.marked \cap door = {}

(* The gates a series is written through: all are asked, and marked, or none; *)
(* a cycle that finds them closed leaves the series and its gates alone.      *)
PacedBy(site, s, gates) ==
    /\ gates # {}
    /\ \A k, l \in gates : k = l \/ (k[2] = Org /\ l[2] = Org)
    /\ \A due \in SUBSET Clocked(site, s) : \A v \in Views[site][s][due] :
        /\ gates \subseteq v.kept
        /\ gates \cap due = {} =>
              /\ v.result # "wrote" /\ v.mark = "closed"
              /\ (v.asked \cup v.marked) \cap gates = {}
        /\ gates \subseteq due =>
              /\ v.asked \cap gates \in {{}, gates}
              /\ v.marked \cap gates \in {{}, gates}
              /\ v.result = "wrote" => v.mark # "closed"
              /\ v.mark \in {"open", "closed"} \/ gates \subseteq v.marked

(* No gate, or one.                                                           *)
Single(gates) == {{}} \cup {{k} : k \in gates}

Results == {"wrote", "absent", "missed", "passed"}
Marks == {"earned", "hollow", "unsung", "open", "closed"}

ASSUME OutcomesAssumption ==
    \A site \in Sites : \A s \in SeriesOf[site] :
        /\ \A v \in ViewsOf(site, s) : v.result \in Results /\ v.mark \in Marks
        /\ \E door, stamp \in Single(Clocked(site, s)) :
              FedBy(site, s, door, stamp) \/ SparedBy(site, s, door, stamp)
        /\ \/ s[2] = Cadence \/ <<site, s[2]>> \in WrittenUnasked \cup StampsForgotten
           \/ \E gates \in SUBSET Clocked(site, s) : PacedBy(site, s, gates)
        /\ \A v \in ViewsOf(site, s) :
              (v.mark = "hollow" => s[2] \in MarkedRegardless) /\ v.mark # "unsung"

-----------------------------------------------------------------------------
(* Three domains, a threshold of one, and backoffs of one and two units; no   *)
(* series is looked at meanwhile.                                             *)
MCDomains == {"organization", "device", "network_health"}
MCFinally == {"device", "network_health"}

VARIABLES streak, wait, category, backoff, running, mishap, authSince, since

Health == INSTANCE OrgHealth

HealthInit ==
    /\ Init /\ at = [site |-> "early_access", series |-> <<"opt_ins", Cadence, Org>>]
    /\ Health!Init

HealthSpec ==
    /\ HealthInit /\ [][Health!Next /\ UNCHANGED vars]_<<vars, Health!vars>>
    /\ Health!Fairness

(* What is recorded is well typed, agrees, and suppresses none without cause. *)
HealthInv == Health!HealthInv

(* A domain is not tried again before its backoff has passed, and once every  *)
(* worker returns the whole record clears.                                    *)
RetriesSpaced == Health!RetriesSpaced
Recovers == Health!Recovers
=============================================================================
