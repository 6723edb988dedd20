-------------------------- MODULE ClientParameters --------------------------
(* The settings of the client tracking, settings.clients, and what it tracks. *)
EXTENDS Naturals, FiniteSets

CONSTANTS
    Networks,      \* the networks whose clients are collected
    ClientIds,     \* clients that come and go
    PerNetwork,    \* max_clients_per_network
    InAll,         \* max_clients_total
    StoreTTL,      \* cache_ttl, after which a network that is not updated is stale
    Addresses,     \* the clients' addresses
    NameEntries,   \* dns_cache_max_entries
    NameTTL,       \* dns_cache_ttl
    Lookups,       \* dns_max_concurrent_lookups
    MaxList        \* bound: how many clients of a network have their names looked up

ASSUME ClientsAssumption ==
    /\ IsFiniteSet(Networks) /\ IsFiniteSet(ClientIds) /\ IsFiniteSet(Addresses)
    /\ PerNetwork \in Nat \ {0} /\ InAll \in Nat \ {0} /\ StoreTTL \in Nat
    /\ MaxList \in [Networks -> Nat]
    /\ NameEntries \in Nat \ {0} /\ NameTTL \in Nat \ {0} /\ Lookups \in Nat \ {0}
=============================================================================
