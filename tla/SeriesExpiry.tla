---------------------------- MODULE SeriesExpiry ----------------------------
(***************************************************************************)
(* MetricExpirationManager (core/metric_expiration.py) and the writers of  *)
(* one collector's gauges: the fetches of its endpoint groups, which give  *)
(* their series a TTL solved when they write, the series written on every  *)
(* wake without one, whose TTL is resolved when they are judged, and the   *)
(* re-solves of the scheduler, which change the intervals in between.      *)
(***************************************************************************)
EXTENDS Integers, FiniteSets, FiniteSetsExt

CONSTANTS Groups,     \* the collector's gated endpoint groups
          Series,     \* label sets of one metric family
          groupOf,    \* the group that writes a series; none for a straggler
          rivals,     \* the series a write removes (the other values of a status)
          Intervals,  \* intervals a re-solve may give a group
          Multiplier, \* metric_ttl_multiplier
          Period,     \* cleanup_interval
          Slack,      \* how late past its interval a fetch still is on time
          Drops,      \* cardinality.action = "drop"
          Budget,     \* cardinality.max_series_per_family
          AgeCap,     \* bound: ages of series are not counted beyond it
          RanCap      \* bound: ages of fetches are not counted beyond it

Straggler == "straggler"

ASSUME SeriesAssumption ==
    /\ IsFiniteSet(Series)
    /\ groupOf \in [Series -> Groups \cup {Straggler}] /\ Straggler \notin Groups
    /\ rivals \in [Series -> SUBSET Series]
    /\ \A s \in Series : \A t \in rivals[s] : t # s /\ groupOf[t] = groupOf[s]
ASSUME NumbersAssumption ==
    /\ Intervals \subseteq Nat \ {0} /\ Multiplier \in Nat \ {0}
    /\ Period \in Nat \ {0} /\ Slack \in Nat
    /\ Drops \in BOOLEAN /\ Budget \in Nat \ {0}
    /\ AgeCap \in Nat /\ \A i \in Intervals : i * Multiplier + Period < AgeCap
    /\ RanCap \in Nat /\ \A i \in Intervals : i + Slack < RanCap

VARIABLES age,      \* time since a series was last tracked, or Absent
          ttl,      \* its ttl_seconds, or Lazy
          exposed,  \* series in the Prometheus registry
          count,    \* _metric_counts of the collector
          gauge,    \* _tracked_metrics of the collector
          interval, \* solved interval of a group
          ranAge,   \* time since a group was marked ran
          lapse,    \* time since the last cleanup
          reported  \* ghost: series reported by a fetch that is not overdue

tracking == <<age, ttl, exposed, count, gauge>>
vars == <<tracking, interval, ranAge, lapse, reported>>

-----------------------------------------------------------------------------
Absent == -1
Lazy == 0

Tracked == {s \in Series : age[s] # Absent}

(* The resolver that the manager installs: Multiplier times the collector's  *)
(* cadence, the smallest interval of its groups.                             *)
PastFallback(a) == \E g \in Groups : a > interval[g] * Multiplier

(* Mutant: a TTL of one interval. *)
TtlOnce(s) == IF groupOf[s] = Straggler THEN Lazy ELSE interval[groupOf[s]]

(* _group_ttl_seconds, evaluated by the fetch that writes the series.        *)
SolvedTtl(s) ==
    IF groupOf[s] = Straggler THEN Lazy ELSE interval[groupOf[s]] * Multiplier

Init ==
    /\ age = [s \in Series |-> Absent]
    /\ ttl = [s \in Series |-> Lazy]
    /\ exposed = {}
    /\ count = 0 /\ gauge = 0
    /\ interval \in [Groups -> Intervals]
    /\ ranAge = [g \in Groups |-> RanCap]
    /\ lapse = 0
    /\ reported = {}

(* Mutant: a write that is not tracked. *)
WriteUntracked(written) ==
    /\ exposed' = (exposed \ UNION {rivals[s] : s \in written}) \cup written
    /\ UNCHANGED <<age, ttl, count, gauge>>

(* _set_metric and track_metric_update for each series written; removing the *)
(* rivals touches the registry alone.                                        *)
Write(written) ==
    /\ age' = [s \in Series |-> IF s \in written THEN 0 ELSE age[s]]
    /\ ttl' = [s \in Series |-> IF s \in written THEN SolvedTtl(s) ELSE ttl[s]]
    /\ exposed' = (exposed \ UNION {rivals[s] : s \in written}) \cup written
    /\ count' = count + Cardinality(written \ Tracked)
    /\ UNCHANGED gauge

(* What a fetch of g may write: its own series, as the API reports them, at  *)
(* most one of rivals, and the stragglers, which every wake writes.          *)
Writable(g) ==
    {written \in SUBSET {s \in Series : groupOf[s] \in {g, Straggler}} :
        \A s \in written : written \cap rivals[s] = {}}

-----------------------------------------------------------------------------
(* A fetch that completes: when it is due, or in a forced run.               *)
Fetch(g, written) ==
    /\ Write(written)
    /\ ranAge' = [ranAge EXCEPT ![g] = 0]
    /\ reported' = {s \in reported : groupOf[s] \notin {g, Straggler}} \cup written
    /\ UNCHANGED <<interval, lapse>>

(* A fetch that fails on the way: what it wrote stays, the clock does not    *)
(* move.                                                                     *)
FetchFails(g, written) ==
    /\ Write(written)
    /\ reported' = reported \ UNION {rivals[s] : s \in written}
    /\ UNCHANGED <<interval, ranAge, lapse>>

(* A re-solve of the scheduler installs the new intervals.                   *)
Resolve ==
    /\ interval' \in [Groups -> Intervals]
    /\ UNCHANGED <<tracking, ranAge, lapse, reported>>

PastTtl(s) == IF ttl[s] = Lazy THEN PastFallback(age[s]) ELSE age[s] > ttl[s]

(* Mutant: the cadence decides for every series. *)
ExpiredByCadence == {s \in Tracked : PastFallback(age[s])}

Expired == {s \in Tracked : PastTtl(s)}

(* Mutant: the youngest are shed. *)
ShedYoungest(kept) ==
    {shed \in SUBSET kept :
        /\ Cardinality(shed) = Max({Cardinality(kept) - Budget, 0})
        /\ \A s \in shed, t \in kept \ shed : age[s] <= age[t]}

(* _alarm_and_maybe_shed: the oldest beyond the budget, ties in either order.*)
Oldest(kept) ==
    {shed \in SUBSET kept :
        /\ Cardinality(shed) = Max({Cardinality(kept) - Budget, 0})
        /\ \A s \in shed, t \in kept \ shed : age[s] >= age[t]}

Sheds(kept) == IF Drops THEN Oldest(kept) ELSE {{}}

(* _cleanup_expired_metrics, and the budgets at its end.                     *)
Forget(gone) ==
    /\ age' = [s \in Series |-> IF s \in gone THEN Absent ELSE age[s]]
    /\ ttl' = [s \in Series |-> IF s \in gone THEN Lazy ELSE ttl[s]]
    /\ exposed' = exposed \ gone
    /\ count' = count - Cardinality(gone)

(* Mutant: the gauge is set before the expired series are removed. *)
GaugedEarly == count

(* The gauge is set after the expired series are removed and before the      *)
(* budget sheds others, and at no other time.                                *)
Gauged == count - Cardinality(Expired)

Cleanup ==
    /\ lapse > 0
    /\ lapse' = 0
    /\ gauge' = Gauged
    /\ \E shed \in Sheds(Tracked \ Expired) :
          Forget(Expired \cup shed) /\ reported' = reported \ shed
    /\ UNCHANGED <<interval, ranAge>>

Older(a) == IF a = Absent THEN Absent ELSE Min({a + 1, AgeCap})

(* A group is fetched on time up to Slack after its interval; a straggler is *)
(* written by the fetches of every group.                                    *)
Overdue(s) ==
    IF groupOf[s] = Straggler
    THEN \A g \in Groups : \E h \in Groups : ranAge'[g] > interval[h] + Slack
    ELSE ranAge'[groupOf[s]] > interval[groupOf[s]] + Slack

(* The cleanup loop sleeps for cleanup_interval, and runs when it wakes.     *)
Tick ==
    /\ lapse < Period
    /\ lapse' = lapse + 1
    /\ age' = [s \in Series |-> Older(age[s])]
    /\ ranAge' = [g \in Groups |-> Min({ranAge[g] + 1, RanCap})]
    /\ reported' = {s \in reported : ~Overdue(s)}
    /\ UNCHANGED <<ttl, exposed, count, gauge, interval>>

Next ==
    \/ Tick \/ Cleanup \/ Resolve
    \/ \E g \in Groups : \E written \in Writable(g) :
        Fetch(g, written) \/ FetchFails(g, written)

Spec == Init /\ [][Next]_vars

-----------------------------------------------------------------------------
(* The types of the tracking tables and of the clocks.                       *)
TypeOK ==
    /\ age \in [Series -> -1..AgeCap]
    /\ ttl \in [Series -> {Lazy} \cup {i * Multiplier : i \in Intervals}]
    /\ exposed \subseteq Series
    /\ count \in 0..Cardinality(Series) /\ gauge \in 0..Cardinality(Series)
    /\ interval \in [Groups -> Intervals]
    /\ ranAge \in [Groups -> 0..RanCap]
    /\ lapse \in 0..Period
    /\ reported \subseteq Series

(* track_metric_update and _cleanup_expired_metrics: no series stays in the  *)
(* registry that the manager no longer knows, and _metric_counts counts      *)
(* exactly the series it knows, in whatever order writes, removals of rivals *)
(* and cleanups come.                                                        *)
NoLeak ==
    /\ exposed \subseteq Tracked
    /\ count = Cardinality(Tracked)

(* The tracked-metrics gauge lags behind both: it tells fewer series than    *)
(* there are when some were written since the last cleanup, and more only    *)
(* when that cleanup shed some for the budget, which is then still used up.  *)
GaugeLags == gauge <= count \/ (Drops /\ count >= Budget)

(* _cleanup_expired_metrics: a vanished entity's series outlives its TTL by  *)
(* one cleanup period at most, though the intervals are solved again.        *)
StaleGoes == \A s \in Tracked : ttl[s] # Lazy => age[s] <= ttl[s] + Period

(* The registry holds what is tracked and counted, and nothing of it for too  *)
(* long.                                                                      *)
RegistrySound == TypeOK /\ NoLeak /\ GaugeLags /\ StaleGoes

(* collector.py, _set_metric: with its group's TTL "a slow-polled series does*)
(* not flap".  A series that a fetch reported stays in the registry, unless   *)
(* the budget sheds it, as long as the next fetch is never overdue, through   *)
(* the re-solves in between.                                                  *)
ReportedStays == reported \subseteq exposed

(* _alarm_and_maybe_shed: where it may drop series, a cleanup leaves the      *)
(* family within its budget, and takes an unexpired one only when the family *)
(* exceeds the budget and all it keeps are as young; where it may only alarm,*)
(* it takes the expired ones alone.                                          *)
ShedSound ==
    [][lapse' = 0 /\ lapse > 0 =>
        LET kept == {s \in Series : age'[s] # Absent}
            shed == Tracked \ (kept \cup Expired)
        IN  /\ Drops => Cardinality(kept) <= Budget
            /\ shed # {} => Drops /\ Cardinality(kept) = Budget
            /\ \A s \in shed, t \in kept : age[s] >= age[t]]_vars
=============================================================================
