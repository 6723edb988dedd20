-------------------------- MODULE HealthParameters --------------------------
(***************************************************************************)
(* The constants of OrgHealth, and what is known of them.                  *)
(***************************************************************************)
EXTENDS Integers, FiniteSets

CONSTANTS Domains,    \* SOURCE_ORGANIZATION, SOURCE_DEVICE, SOURCE_NETWORK_HEALTH
          Global,     \* SOURCE_GLOBAL
          Finally,    \* domains that report from a `finally'
          Threshold,  \* max_consecutive_failures
          Base,       \* base_backoff
          MaxWait,    \* max_backoff
          FloatLimit, \* first exponent whose power of two no float can hold
          StreakCap   \* bound: streaks are not counted beyond it

ASSUME DomainsAssumption ==
    /\ IsFiniteSet(Domains) /\ Global \notin Domains
    /\ Finally \subseteq Domains
ASSUME NumbersAssumption ==
    /\ Threshold \in Nat \ {0} /\ Base \in Nat \ {0} /\ MaxWait \in Nat \ {0}
    /\ FloatLimit \in Nat /\ StreakCap \in Nat /\ Threshold < StreakCap
(* A fact of arithmetic, which the provers do not know of `^'.                *)
ASSUME PowerAssumption == \A n \in 0..(StreakCap - Threshold) : 2 ^ n > 0
=============================================================================
