----------------------------- MODULE OrgHealth -----------------------------
(***************************************************************************)
(* OrgHealthTracker (core/org_health.py) for one organisation, with the    *)
(* workers that consult it and report to it: organization.py, device.py    *)
(* and network_health.py.  A domain's worker starts when its domain and    *)
(* the global source are not backed off, and ends with a verdict.          *)
(*                                                                         *)
(* A deadline is kept as the time left until it, so that time needs no     *)
(* bound: `time.time() >= backoff_until' is `wait = 0'.                    *)
(***************************************************************************)
EXTENDS HealthParameters, FiniteSetsExt

VARIABLES streak,    \* source_failures
          wait,      \* source_backoff_until
          category,  \* source_categories
          backoff,   \* backoff_until
          running,   \* domains whose worker is at work
          mishap,    \* ghost: the last step ended a worker that did not return
          authSince, \* ghost: authentication failures since the last success
          since      \* ghost: time since a domain's last failure, if any counts

tracker == <<streak, wait, category, backoff>>
vars == <<tracker, running, mishap, authSince, since>>

-----------------------------------------------------------------------------
Sources == Domains \cup {Global}

(* "net" stands for CONNECTIVITY and TIMEOUT, "gone" for API_NOT_AVAILABLE,   *)
(* Unnamed for a failure that is recorded without a category.                *)
Unnamed == "none"
Categories == {"auth", "net", "gone", "other", Unnamed}

Init ==
    /\ streak = [s \in Sources |-> 0]
    /\ wait = [s \in Sources |-> 0]
    /\ category = [s \in Sources |-> Unnamed]
    /\ backoff = 0
    /\ running = {}
    /\ mishap = FALSE
    /\ authSince = 0
    /\ since = [d \in Domains |-> MaxWait]

(* Mutant: only the global source is consulted. *)
ShouldCollectNow(d) == wait[Global] = 0

ShouldCollect(d) == wait[d] = 0 /\ wait[Global] = 0

(* Domains with a full streak whose last category is connectivity.           *)
Disconnected(failures, categories) ==
    {d \in Domains : categories[d] = "net" /\ failures[d] >= Threshold}

Longest(waits) == Max({waits[s] : s \in Sources})

WaitAfter(failures) == Min({Base * 2 ^ (failures - Threshold), MaxWait})

-----------------------------------------------------------------------------
(* Mutant: a promoted global backoff is not taken back. *)
ClearedByAuthOnly(categories, failures) == categories[Global] = "auth"

(* record_success: clears the domain, and the global source when its cause   *)
(* is an authentication error or no longer spans two domains.                *)
GlobalCleared(categories, failures) ==
    \/ categories[Global] = "auth"
    \/ /\ categories[Global] = "net"
       /\ Cardinality(Disconnected(failures, categories)) < 2

RecordSuccess(d) ==
    LET failures == [streak EXCEPT ![d] = 0]
        waits == [wait EXCEPT ![d] = 0]
        categories == [category EXCEPT ![d] = Unnamed]
        cleared == GlobalCleared(categories, failures)
    IN  /\ streak' = IF cleared THEN [failures EXCEPT ![Global] = 0] ELSE failures
        /\ wait' = IF cleared THEN [waits EXCEPT ![Global] = 0] ELSE waits
        /\ category' = IF cleared THEN [categories EXCEPT ![Global] = Unnamed]
                       ELSE categories
        /\ backoff' = Longest(wait')
        /\ authSince' = 0
        /\ since' = [since EXCEPT ![d] = MaxWait]

(* record_failure counts against the domain, or against the global source    *)
(* for an authentication error.                                              *)
Charged(d, c) == IF c = "auth" THEN Global ELSE d

Overflows(failures) ==
    failures >= Threshold /\ failures - Threshold >= FloatLimit

(* Mutant: one disconnected domain is enough. *)
PromotesAny(c, failures, categories) ==
    c = "net" /\ Cardinality(Disconnected(failures, categories)) >= 1

(* Two disconnected domains back off the whole organisation.                 *)
Promotes(c, failures, categories) ==
    c = "net" /\ Cardinality(Disconnected(failures, categories)) >= 2

RecordFailure(d, c) ==
    LET s == Charged(d, c)
        failures == [streak EXCEPT ![s] = Min({@ + 1, StreakCap})]
        categories == IF c = Unnamed THEN category ELSE [category EXCEPT ![s] = c]
        waits == IF failures[s] >= Threshold
                 THEN [wait EXCEPT ![s] = WaitAfter(failures[s])] ELSE wait
        broken == Disconnected(failures, categories)
    IN  /\ since' = IF s = d THEN [since EXCEPT ![d] = 0] ELSE since
        /\ authSince' = IF c = "auth" THEN Min({authSince + 1, Threshold})
                        ELSE authSince
        /\ \/ /\ Overflows(failures[s])        \* OverflowError, out of the call
              /\ streak' = failures /\ category' = categories
              /\ UNCHANGED <<wait, backoff>>
           \/ /\ ~Overflows(failures[s])
              /\ Promotes(c, failures, categories)
              /\ streak' = [failures EXCEPT ![Global] = Max({failures[e] : e \in broken})]
              /\ wait' = [waits EXCEPT ![Global] = Max({waits[e] : e \in broken})]
              /\ category' = [categories EXCEPT ![Global] = c]
              /\ backoff' = Longest(wait')
           \/ /\ ~Overflows(failures[s])
              /\ ~Promotes(c, failures, categories)
              /\ streak' = failures /\ wait' = waits /\ category' = categories
              /\ backoff' = Longest(waits)

-----------------------------------------------------------------------------
(* The coordinator asks should_collect before it creates the worker.         *)
Begin(d) ==
    /\ d \notin running
    /\ ShouldCollect(d)
    /\ running' = running \cup {d}
    /\ mishap' = FALSE
    /\ UNCHANGED <<tracker, authSince, since>>

End(d, how) ==
    /\ d \in running
    /\ running' = running \ {d}
    /\ mishap' = (how # "returned")

(* A worker returns when it collected, and device.py's also after it logged  *)
(* and swallowed an unexpected exception.                                    *)
Return(d) == End(d, "returned") /\ RecordSuccess(d)

(* An error the worker reports; an unavailable endpoint is not counted.      *)
Raise(d, c) ==
    /\ End(d, "raised")
    /\ IF c = "gone" THEN UNCHANGED <<tracker, authSince, since>> ELSE RecordFailure(d, c)

(* The collector's timeout cancels the worker.  A verdict in a `finally' is  *)
(* reported still, and as no exception was caught it is a success.           *)
Cancel(d) ==
    /\ End(d, "cancelled")
    /\ IF d \in Finally THEN RecordSuccess(d) ELSE UNCHANGED <<tracker, authSince, since>>

Elapsed(left) == Max({left - 1, 0})

Tick ==
    /\ wait' = [s \in Sources |-> Elapsed(wait[s])]
    /\ backoff' = Elapsed(backoff)
    /\ since' = [d \in Domains |-> Min({since[d] + 1, MaxWait})]
    /\ mishap' = FALSE
    /\ UNCHANGED <<streak, category, running, authSince>>

Next ==
    \/ Tick
    \/ \E d \in Domains :
        \/ Begin(d) \/ Return(d) \/ Cancel(d)
        \/ \E c \in Categories : Raise(d, c)

Spec == Init /\ [][Next]_vars

(* The loops run every collector again (CollectorLoop), and the timeout of a *)
(* collector ends every worker; time passes.                                 *)
Done(d) == Return(d) \/ Cancel(d) \/ \E c \in Categories : Raise(d, c)
Fairness ==
    /\ WF_vars(Tick)
    /\ \A d \in Domains : WF_vars(Begin(d)) /\ WF_vars(Done(d))

FairSpec == Spec /\ Fairness

-----------------------------------------------------------------------------
(* The types: streaks and waits within their bounds, record_failure's and    *)
(* record_success's values and no other.                                     *)
TypeOK ==
    /\ streak \in [Sources -> 0..StreakCap]
    /\ wait \in [Sources -> 0..MaxWait]
    /\ category \in [Sources -> Categories \ {"gone"}]
    /\ backoff \in 0..MaxWait
    /\ running \subseteq Domains
    /\ mishap \in BOOLEAN
    /\ authSince \in 0..Threshold
    /\ since \in [Domains -> 0..MaxWait]

(* should_collect: a domain that is not itself backed off is held back only  *)
(* on evidence about the whole organisation: two domains that failed the     *)
(* threshold in a row, or as many authentication errors and no success since.*)
SuppressionJustified ==
    \A d \in Domains : ~ShouldCollect(d) /\ wait[d] = 0 =>
        \/ authSince >= Threshold
        \/ Cardinality({e \in Domains : streak[e] >= Threshold}) >= 2

(* The readers without a domain (clients, sensor alerts) consult the         *)
(* aggregate; it is the longest of the waits after every record.             *)
AggregateAgrees == backoff = Longest(wait)

(* What is recorded is well typed, agrees, and suppresses none without cause.*)
HealthInv == TypeOK /\ AggregateAgrees /\ SuppressionJustified

(* record_failure and should_collect: a domain whose last Threshold or more  *)
(* collections failed is not tried again before its backoff has passed,      *)
(* whatever the other domains record in between.                             *)
RetriesSpaced ==
    [][\A d \in Domains :
        Begin(d) /\ streak[d] >= Threshold => since[d] >= WaitAfter(streak[d])]_vars

(* record_success: once every worker returns normally the whole record       *)
(* clears, the global source included, though no domain reports under it.    *)
Recovers ==
    <>[]~mishap => <>[](\A s \in Sources : streak[s] = 0)

(* device.py and network_health.py, the comments on the verdict: it mirrors  *)
(* the coordinator's raise/return accounting, so a streak is cleared only by *)
(* a worker that returned.                                                   *)
VerdictMirrors ==
    [][\A d \in Finally :
        d \in running /\ d \notin running' /\ streak[d] > 0 /\ streak'[d] = 0
        => ~mishap']_vars

(* docs/troubleshooting.md: a persistent failure in any one domain is enough *)
(* to back the organisation off, even if the others are healthy.             *)
AnyDomainBacksOff ==
    \A d, e \in Domains : streak[d] >= Threshold /\ wait[d] > 0 => ~ShouldCollect(e)

=============================================================================
