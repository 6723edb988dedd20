------------------------ MODULE RateLimiterParameters ------------------------
(* The settings of OrgRateLimiter (core/rate_limiter.py), in parts of a token *)
(* and in ticks, and who uses it.                                             *)
EXTENDS Integers, FiniteSets

CONSTANTS Callers,   \* coroutines that call acquire()
          Keys,      \* org_id, and "global" for calls without one
          One,       \* parts of a token
          Burst,     \* rate_limit_burst, in parts
          Conf,      \* the configured rate
          FloorRate, \* _AIMD_FLOOR_RPS
          Recovery,  \* aimd_recovery_rps_per_minute
          Cooldown,  \* _AIMD_COOLDOWN_SECONDS
          Jitter,    \* how far a wait is moved by its jitter
          AgeCap     \* bound: ages are not counted beyond it

Nobody == "nobody"

ASSUME KeysAssumption == IsFiniteSet(Keys) /\ Nobody \notin Keys
ASSUME RatesAssumption ==
    /\ One \in Nat \ {0} /\ Burst \in Nat /\ Burst >= One
    /\ Conf \in Nat \ {0} /\ FloorRate \in Nat \ {0} /\ Recovery \in Nat \ {0}
    /\ Cooldown \in Nat \ {0} /\ Jitter \in Nat
    /\ AgeCap \in Nat /\ AgeCap >= Burst /\ AgeCap >= Conf
=============================================================================
