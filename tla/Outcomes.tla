------------------------------ MODULE Outcomes ------------------------------
(***************************************************************************)
(* What one call of a collecting function may leave behind, and how the    *)
(* functions are put together from gates, API calls, writes and marks.     *)
(*                                                                         *)
(* A function is the set of its outcomes.  An outcome says whether the     *)
(* function raised, which gates let it through, which it marked as ran,    *)
(* which data it got, which series it wrote, and what went amiss.  The     *)
(* data behind a series is reported as long as the calls are answered:     *)
(* optional fields and rows that fail a filter are left out.               *)
(*                                                                         *)
(* A gate is <<group, Org>>, or <<group, item>> where the code keeps a     *)
(* timestamp per serial or per network beside the scheduler.               *)
(* The inventory service is always there, as ExporterApp sets it up.       *)
(***************************************************************************)
EXTENDS FiniteSets

CONSTANT Items \* the networks, devices or batches a fan-out goes over

Org == "org"
AnItem == CHOOSE i \in Items : TRUE

Nothing == [raised |-> FALSE, asked |-> {}, marked |-> {}, got |-> {}, wrote |-> {}, amiss |-> {}]
Done == {Nothing}

Joined(o, p) ==
    [raised |-> p.raised,
     asked  |-> o.asked \cup p.asked,
     marked |-> o.marked \cup p.marked,
     got    |-> o.got \cup p.got,
     wrote  |-> o.wrote \cup p.wrote,
     amiss  |-> o.amiss \cup p.amiss]

(* One after the other: an exception of the first skips the second. *)
A \bullet B ==
    {o \in A : o.raised}
        \cup {Joined(o, p) : o \in {x \in A : ~x.raised}, p \in B}

(* with_error_handling with continue_on_error, or an except that only logs. *)
Caught(A) == {[o EXCEPT !.raised = FALSE] : o \in A}

Raise(kind, g, i) == [Nothing EXCEPT !.raised = TRUE, !.amiss = {<<kind, g, i>>}]

(* An API call and the check of its response, for the organization or for an  *)
(* item: answered, failed, or failed with the failure swallowed; a read of    *)
(* the inventory.                                                             *)
Answer(g, i) == {[Nothing EXCEPT !.got = {<<g, i>>}]}
Call(g, i) == Answer(g, i) \cup {Raise("call", g, i)}
Lost(g, i) == Caught({Raise("call", g, i)})
Read(g) == Done \cup {Raise("read", g, Org)}

(* A series with the TTL of a group, for one item; one series of each row of  *)
(* an answer, where a malformed row ends the loop.                            *)
Write(s, g, i) == {[Nothing EXCEPT !.wrote = {<<s, g, i>>}]}
RowsOf(s, g) == [Nothing EXCEPT !.wrote = {<<s, g, i>> : i \in Items}]
Rows(s, g) ==
    {RowsOf(s, g)} \cup
    {[Raise("row", g, Org) EXCEPT !.wrote = {<<s, g, i>> : i \in I}] : I \in SUBSET Items \ {Items}}

(* Rows that are parsed, or added up, before the first of them is written. *)
Totals(s, g, i) == Write(s, g, i) \cup {Raise("row", g, i)}
AllRows(s, g) == {RowsOf(s, g), Raise("row", g, Org)}

(* The answer may be empty, or there may be nothing to ask for. *)
Empty(g) == {[Nothing EXCEPT !.amiss = {<<"none", g, Org>>}]}
IfAny(g, A) == Empty(g) \cup A

(* A gate, and its marks: on the way, as soon as a call is answered, or when  *)
(* some call was.                                                             *)
Gate(g, i, due, A) ==
    IF <<g, i>> \in due THEN {[o EXCEPT !.asked = @ \cup {<<g, i>>}] : o \in A} ELSE Done
Mark(g, i) == {[Nothing EXCEPT !.marked = {<<g, i>>}]}
Fetched(g) == Call(g, Org) \bullet Mark(g, Org)
MarkIf(g, A, Good(_)) ==
    {IF ~o.raised /\ Good(o) THEN [o EXCEPT !.marked = @ \cup {<<g, Org>>}] ELSE o : o \in A}
Answered(g) == {<<g, i>> : i \in Items \cup {Org}}
MarkIfAny(g, A) == MarkIf(g, A, LAMBDA o : o.got \cap Answered(g) # {})

(* B stands in for A when A fails. *)
OrElse(A, B) == {o \in A : ~o.raised} \cup Caught({o \in A : o.raised}) \bullet B

(* A fan-out whose workers fail apart (ManagedTaskGroup, process_in_batches,  *)
(* or a try inside the loop), and a loop that the first exception ends.       *)
Each(outcomes) ==
    LET Fan[J \in SUBSET DOMAIN outcomes] ==
            IF J = {} THEN Done
            ELSE LET j == CHOOSE k \in J : TRUE IN Caught(outcomes[j]) \bullet Fan[J \ {j}]
    IN  Fan[DOMAIN outcomes]

InTurn(outcomes) ==
    LET Walk[J \in SUBSET DOMAIN outcomes] ==
            IF J = {} THEN Done ELSE UNION {outcomes[j] \bullet Walk[J \ {j}] : j \in J}
    IN  Walk[DOMAIN outcomes]
=============================================================================
