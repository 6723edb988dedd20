-------------------------- MODULE WebhookReceiver --------------------------
(***************************************************************************)
(* The receiver of Meraki's webhooks (core/webhook_handler.py): which      *)
(* deliveries of an alert it lets through, given that Meraki delivers an   *)
(* alert late, again, and with a clock that is not this process's.  What   *)
(* an alert then does is DeviceState's.                                    *)
(*                                                                         *)
(* Times are ages that Tick advances.  All entries of the replay cache     *)
(* have the same TTL, so that the expired ones are those at its front;     *)
(* an entry's place is told by how many were made since.                   *)
(***************************************************************************)
EXTENDS WebhookReceiverParameters

VARIABLES age,     \* age of sent_at by the receiver's clock, or Unsent
          left,    \* what a replay cache entry has left, 0 without one
          applied, \* ghost: how often an alert was let through
          since    \* entries made since that of an alert, up to MaxEntries

vars == <<age, left, applied, since>>

-----------------------------------------------------------------------------
Lowest == -Skew
Unsent == Lowest - 1

(* bound: nothing happens to an alert past this age *)
OldAge == Window + 1
Cached == {a \in Alerts : left[a] > 0}

Fresh(a) == age[a] # Unsent /\ age[a] <= Window

Init ==
    /\ age = [a \in Alerts |-> Unsent]
    /\ left = [a \in Alerts |-> 0]
    /\ applied = [a \in Alerts |-> 0]
    /\ since = [a \in Alerts |-> 0]

-----------------------------------------------------------------------------
(* Meraki sends an alert: a new one, once nothing of the last is left. *)
Send(a) ==
    /\ age[a] = Unsent \/ (age[a] = OldAge /\ a \notin Cached)
    /\ \E early \in 0..Skew : age' = [age EXCEPT ![a] = -early]
    /\ applied' = [applied EXCEPT ![a] = 0]
    /\ UNCHANGED <<left, since>>

(* Mutant: the cache sheds its newest entry. *)
NewestBut(a) ==
    {b \in Cached \ {a} : \A c \in Cached \ {a} : since[b] <= since[c]}

Overflows(a) == Cardinality(Cached \cup {a}) > MaxEntries
OldestBut(a) ==
    {b \in Cached \ {a} : \A c \in Cached \ {a} : since[b] >= since[c]}
Unseen(a) == Fresh(a) /\ left[a] = 0

Later(n) == IF n < MaxEntries THEN n + 1 ELSE n

(* A delivery that is fresh and no replay; a rejected one changes nothing    *)
(* but counters, so that it is a stuttering step.                            *)
Accept(a) ==
    /\ Unseen(a)
    /\ \/ Overflows(a) /\ \E b \in OldestBut(a) :
              left' = [left EXCEPT ![a] = TTL, ![b] = 0]
       \/ ~Overflows(a) /\ left' = [left EXCEPT ![a] = TTL]
    /\ applied' = [applied EXCEPT ![a] = IF @ < 2 THEN @ + 1 ELSE @]
    /\ since' = [b \in Alerts |-> IF b = a THEN 0 ELSE Later(since[b])]
    /\ UNCHANGED age

Spent(n) == IF n > 0 THEN n - 1 ELSE 0

Tick ==
    /\ age' = [a \in Alerts |->
                  IF age[a] = Unsent \/ age[a] = OldAge THEN age[a] ELSE age[a] + 1]
    /\ left' = [a \in Alerts |-> Spent(left[a])]
    /\ UNCHANGED <<applied, since>>

Next == Tick \/ \E a \in Alerts : Send(a) \/ Accept(a)

Spec == Init /\ [][Next]_vars

-----------------------------------------------------------------------------
TypeOK ==
    /\ age \in [Alerts -> Unsent..OldAge]
    /\ left \in [Alerts -> 0..TTL]
    /\ applied \in [Alerts -> 0..2]
    /\ since \in [Alerts -> 0..MaxEntries]

(* An alert is let through at most once, however often and however late it   *)
(* is delivered ("apply each alert at most once per replica"): as long as an *)
(* entry outlives the freshness of its alert, and the cache does not shed.   *)
AppliedOnce == \A a \in Alerts : applied[a] <= 1

(* A cache that is full sheds, and is no larger than configured.  What it    *)
(* sheds is what costs least: an alert is let through again only when as     *)
(* many others as the cache holds were let through since.                    *)
CacheBounded == Cardinality(Cached) <= MaxEntries

AgainOnlyAfterOthers ==
    [][\A a \in Alerts :
          applied'[a] > applied[a] /\ applied[a] > 0 => since[a] >= MaxEntries]_vars
=============================================================================
