----------------------------- MODULE ClientStore -----------------------------
(***************************************************************************)
(* The store of the clients (services/client_store.py) as a collection of  *)
(* the clients collector fills it.  Each network's list is cut to what the *)
(* caps leave, waits for the names of its clients (NameResolver), during   *)
(* which other networks go on, and is then merged into the store, where    *)
(* clients stay that are not listed any more.  A collection that is not    *)
(* cut short ends with dropping the networks not updated for a while.      *)
(***************************************************************************)
EXTENDS ClientParameters, FiniteSetsExt

VARIABLES
    kept,      \* _clients: the clients kept for a network
    quiet,     \* time since _last_update of a network, past StoreTTL without one
    busy,      \* a collection is under way
    ended,     \* ghost: the last collection came to its end
    todo,      \* networks it has not fetched yet
    naming,    \* networks whose clients' names are being looked up
    allowed,   \* what the caps have left of their lists
    emitted    \* _cycle_clients_emitted

vars == <<kept, quiet, busy, ended, todo, naming, allowed, emitted>>

-----------------------------------------------------------------------------
Stale(n) == quiet[n] > StoreTTL
Total == MapThenSumSet(LAMBDA n : Cardinality(kept[n]), Networks)

Least(a, b) == IF a <= b THEN a ELSE b

(* What a cut of a list to k leaves, in whatever order its clients came.      *)
Cut(clients, k) == kSubset(Least(Cardinality(clients), k), clients)

Init ==
    /\ kept = [n \in Networks |-> {}]
    /\ quiet = [n \in Networks |-> StoreTTL + 1]
    /\ busy = FALSE /\ ended = TRUE
    /\ todo = {} /\ naming = {}
    /\ allowed = [n \in Networks |-> {}]
    /\ emitted = 0

(* _collect_impl passes over organizations in backoff, and networks that are *)
(* not in the inventory.                                                     *)
Begin ==
    /\ ~busy
    /\ busy' = TRUE
    /\ todo' \in SUBSET Networks
    /\ emitted' = 0
    /\ UNCHANGED <<kept, quiet, ended, naming, allowed>>

(* Without an organization it returns at once, and cleans nothing up.         *)
NoOrganizations ==
    /\ ~busy
    /\ emitted' = 0
    /\ UNCHANGED <<kept, quiet, busy, ended, todo, naming, allowed>>

(* _apply_emission_cap on the list of a network.                              *)
Allow(clients) == Cut(clients, Least(PerNetwork, InAll - emitted))

Listed(n) ==
    /\ n \in todo
    /\ todo' = todo \ {n} /\ naming' = naming \cup {n}
    /\ \E clients \in SUBSET ClientIds : \E some \in Allow(clients) :
          /\ allowed' = [allowed EXCEPT ![n] = some]
          /\ emitted' = emitted + Cardinality(some)
    /\ UNCHANGED <<kept, quiet, busy, ended>>

(* The fetch failed, or a client did not parse.                               *)
Failed(n) ==
    /\ n \in todo
    /\ todo' = todo \ {n}
    /\ UNCHANGED <<kept, quiet, busy, ended, naming, allowed, emitted>>

(* Mutants: the room is what the network alone leaves of the cap; a client    *)
(* that is refreshed takes up room.                                           *)
Remaining(k) == IF k >= InAll THEN 0 ELSE InAll - k
MergedByNetwork(n, some) ==
    {kept[n] \cup entered : entered \in Cut(some \ kept[n], Remaining(Cardinality(kept[n])))}
MergedAll(n, some) ==
    {kept[n] \cup entered : entered \in Cut(some, Remaining(Total))}

(* Clients kept already are refreshed; of the newcomers as many enter as      *)
(* there is room for at the start of the call.                                *)
Merged(n, some) ==
    {kept[n] \cup entered : entered \in Cut(some \ kept[n], Remaining(Total))}

(* update_clients, which cuts the list once more.                             *)
Update(n) ==
    /\ n \in naming
    /\ \E some \in Cut(allowed[n], PerNetwork) : \E merged \in Merged(n, some) :
          kept' = [kept EXCEPT ![n] = merged]
    /\ quiet' = [quiet EXCEPT ![n] = 0]
    /\ naming' = naming \ {n}
    /\ allowed' = [allowed EXCEPT ![n] = {}]
    /\ UNCHANGED <<busy, ended, todo, emitted>>

(* Mutant: an evicted network loses its timestamp, and keeps its clients. *)
EvictedHalf == kept

(* _evict_network for every stale network.                                    *)
Evicted == [n \in Networks |-> IF Stale(n) THEN {} ELSE kept[n]]

(* cleanup_stale_networks, at the end of a collection.                        *)
Finish ==
    /\ busy /\ todo = {} /\ naming = {}
    /\ busy' = FALSE /\ ended' = TRUE
    /\ kept' = Evicted
    /\ UNCHANGED <<quiet, todo, naming, allowed, emitted>>

(* The manager's timeout, or the shutdown.                                    *)
CutShort ==
    /\ busy
    /\ busy' = FALSE /\ ended' = FALSE
    /\ todo' = {} /\ naming' = {}
    /\ allowed' = [n \in Networks |-> {}]
    /\ UNCHANGED <<kept, quiet, emitted>>

Tick ==
    /\ quiet' = [n \in Networks |-> Least(quiet[n] + 1, StoreTTL + 1)]
    /\ UNCHANGED <<kept, busy, ended, todo, naming, allowed, emitted>>

Next ==
    \/ Begin \/ NoOrganizations \/ Finish \/ CutShort \/ Tick
    \/ \E n \in Networks : Listed(n) \/ Failed(n) \/ Update(n)

Spec == Init /\ [][Next]_vars

(* The loop collects again and again from some organization, fetches end      *)
(* (ApiCalls), and so do batches of names (NameResolver).                     *)
Work == Begin \/ Finish \/ \E n \in Networks : Listed(n) \/ Failed(n) \/ Update(n)

FairSpec == Spec /\ WF_vars(Work)

-----------------------------------------------------------------------------
TypeOK ==
    /\ kept \in [Networks -> SUBSET ClientIds]
    /\ quiet \in [Networks -> 0..(StoreTTL + 1)]
    /\ busy \in BOOLEAN /\ ended \in BOOLEAN
    /\ todo \subseteq Networks /\ naming \subseteq Networks
    /\ allowed \in [Networks -> SUBSET ClientIds]
    /\ emitted \in 0..InAll

(* The store never holds more than max_clients_total, although the networks   *)
(* of a collection read what room there is one by one, and all their lists    *)
(* were cut before the first was merged.                                      *)
StoreBounded == TypeOK /\ Total <= InAll

(* update_clients: a listed client within the caps is left out only when the  *)
(* store is full, be it with clients that have long departed.                 *)
LeftOutOnlyWhenFull ==
    [][\A n \in naming \ naming' :
          busy' => allowed[n] \subseteq kept'[n] \/ Total' = InAll]_vars

(* cleanup_stale_networks: what is kept for a network that is not updated any *)
(* more goes, unless every collection is cut short before its end.            *)
StaleNetworksGo ==
    \/ \A n \in Networks : []<>(kept[n] = {} \/ ~Stale(n))
    \/ []<>~ended
=============================================================================
