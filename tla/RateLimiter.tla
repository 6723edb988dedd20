---------------------------- MODULE RateLimiter ----------------------------
(***************************************************************************)
(* OrgRateLimiter (core/rate_limiter.py): the token buckets that pace the  *)
(* calls of the exporter, and the effective rate they refill at, which a   *)
(* 429 halves and which recovers as time passes.                           *)
(*                                                                         *)
(* Nothing runs in the background: buckets and rate are brought up to date *)
(* by whoever looks at them.  A token is One parts, a rate is parts per    *)
(* tick; acquire() holds its lock without suspending, so one round of its  *)
(* loop is one action.                                                     *)
(***************************************************************************)
EXTENDS RateLimiterParameters, FiniteSetsExt

VARIABLES want,        \* the bucket a caller of acquire() waits for, or Nobody
          sleep,       \* what is left of its asyncio.sleep
          tokens,      \* _tokens
          refilled,    \* age of _last_refill
          effective,   \* _effective_rate
          updated,     \* age of _effective_updated_ts
          throttled,   \* age of _last_throttle_ts, up to the cooldown
          spare,       \* ghost: a bucket per key, refilled at Conf on every tick
          spareAll,    \* ghost: one such bucket for all calls
          pace         \* ghost: the effective rate, recovering on every tick

buckets == <<tokens, refilled>>
rate == <<effective, updated, throttled>>
ghosts == <<spare, spareAll, pace>>
vars == <<want, sleep, buckets, rate, ghosts>>

-----------------------------------------------------------------------------
Init ==
    /\ want = [c \in Callers |-> Nobody]
    /\ sleep = [c \in Callers |-> 0]
    /\ tokens = [k \in Keys |-> Burst]
    /\ refilled = [k \in Keys |-> 0]
    /\ effective = Conf /\ updated = 0 /\ throttled = Cooldown
    /\ spare = [k \in Keys |-> Burst]
    /\ spareAll = Burst
    /\ pace = Conf

(* effective_rate_per_second, as it stands now.                              *)
Recovering == updated > 0 /\ effective < Conf
Effective ==
    IF Recovering THEN Min({Conf, effective + updated * Recovery}) ELSE effective

(* Mutant: the timestamp is not moved when the rate is read. *)
SettleOnce ==
    /\ effective' = Effective
    /\ UNCHANGED <<updated, throttled>>

(* What reading it leaves behind.                                            *)
Settle ==
    /\ effective' = Effective
    /\ updated' = IF Recovering THEN 0 ELSE updated
    /\ UNCHANGED throttled

(* Mutant: the refill is not capped. *)
OverRefill(k) == tokens[k] + refilled[k] * Effective

Refill(k) == Min({Burst, tokens[k] + refilled[k] * Effective})

CeilDiv(a, b) == (a + b - 1) \div b

(* _apply_jitter on the time the missing parts take.                         *)
Waits(deficit) ==
    {w \in 1..(CeilDiv(deficit, Effective) + Jitter) :
        w >= CeilDiv(deficit, Effective) - Jitter}

Ask(c, k) ==
    /\ want[c] = Nobody
    /\ want' = [want EXCEPT ![c] = k]
    /\ sleep' = [sleep EXCEPT ![c] = 0]
    /\ UNCHANGED <<buckets, rate, ghosts>>

Take(c, k) ==
    /\ want[c] = k /\ sleep[c] = 0
    /\ Refill(k) >= One
    /\ tokens' = [tokens EXCEPT ![k] = Refill(k) - One]
    /\ refilled' = [refilled EXCEPT ![k] = 0]
    /\ Settle
    /\ want' = [want EXCEPT ![c] = Nobody]
    /\ spare' = [spare EXCEPT ![k] = Max({@ - One, -One})]
    /\ spareAll' = Max({spareAll - One, -One})
    /\ UNCHANGED <<sleep, pace>>

(* Mutant: the parts refilled so far are not stored. *)
WaitForgetting(c, k) ==
    /\ want[c] = k /\ sleep[c] = 0
    /\ Refill(k) < One
    /\ refilled' = [refilled EXCEPT ![k] = 0]
    /\ Settle
    /\ \E w \in Waits(One - Refill(k)) : sleep' = [sleep EXCEPT ![c] = w]
    /\ UNCHANGED <<want, tokens, ghosts>>

Wait(c, k) ==
    /\ want[c] = k /\ sleep[c] = 0
    /\ Refill(k) < One
    /\ tokens' = [tokens EXCEPT ![k] = Refill(k)]
    /\ refilled' = [refilled EXCEPT ![k] = 0]
    /\ Settle
    /\ \E w \in Waits(One - Refill(k)) : sleep' = [sleep EXCEPT ![c] = w]
    /\ UNCHANGED <<want, ghosts>>

(* The deadline of the facade call around acquire() cancels it.              *)
GiveUp(c) ==
    /\ want[c] # Nobody
    /\ want' = [want EXCEPT ![c] = Nobody]
    /\ UNCHANGED <<sleep, buckets, rate, ghosts>>

(* EndpointScheduler reads the rate for its budget.                          *)
Read ==
    /\ Settle
    /\ UNCHANGED <<want, sleep, buckets, ghosts>>

Halved(r) == Max({FloorRate, r \div 2})

(* record_throttle_event outside of the cooldown; inside it nothing happens. *)
Throttle ==
    /\ throttled >= Cooldown
    /\ effective' = Halved(Effective)
    /\ updated' = 0 /\ throttled' = 0
    /\ pace' = Halved(pace)
    /\ UNCHANGED <<want, sleep, buckets, spare, spareAll>>

Older(a) == Min({a + 1, AgeCap})

Tick ==
    /\ sleep' = [c \in Callers |-> Max({sleep[c] - 1, 0})]
    /\ refilled' = [k \in Keys |-> Older(refilled[k])]
    /\ updated' = Older(updated)
    /\ throttled' = Min({throttled + 1, Cooldown})
    /\ spare' = [k \in Keys |-> Min({spare[k] + Conf, Burst})]
    /\ spareAll' = Min({spareAll + Conf, Burst})
    /\ pace' = IF pace < Conf THEN Min({pace + Recovery, Conf}) ELSE pace
    /\ UNCHANGED <<want, tokens, effective>>

Round(c) == \E k \in Keys : Take(c, k) \/ Wait(c, k)

Next ==
    \/ Tick \/ Throttle \/ Read
    \/ \E c \in Callers : Round(c) \/ GiveUp(c) \/ \E k \in Keys : Ask(c, k)

Spec == Init /\ [][Next]_vars

(* Time passes, and the event loop runs coroutines whose sleep is over.      *)
FairSpec == Spec /\ WF_vars(Tick) /\ WF_vars(\E c \in Callers : Round(c))

-----------------------------------------------------------------------------
(* The types of buckets, rates and ghosts.                                   *)
TypeOK ==
    /\ want \in [Callers -> Keys \cup {Nobody}]
    /\ sleep \in [Callers -> Nat]
    /\ tokens \in [Keys -> 0..Burst]
    /\ refilled \in [Keys -> 0..AgeCap]
    /\ effective \in Nat \ {0}
    /\ updated \in 0..AgeCap /\ throttled \in 0..Cooldown
    /\ spare \in [Keys -> Int] /\ spareAll \in Int /\ pace \in Nat

(* acquire: over any stretch of time, the calls admitted from one bucket do  *)
(* not exceed the burst plus what the configured rate allows, although the   *)
(* bucket is credited for past time at whatever the rate has become since.   *)
WithinBudget == \A k \in Keys : spare[k] >= 0

(* effective_rate_per_second, record_throttle_event: the rate recovers with  *)
(* time alone, however often it is read in between and by whom.              *)
LazyIsEager == Effective = pace

(* A caller is through, with a token or because it has given up.             *)
Through(c) == want[c] # Nobody /\ want'[c] = Nobody

(* acquire: while callers wait, and their deadlines leave them the time,     *)
(* tokens are handed out; no rate is so low and no wait so short that all of *)
(* them sleep and wake for ever.                                             *)
TokensFlow ==
    \/ []<>(\A c \in Callers : want[c] = Nobody)
    \/ []<><<\E c \in Callers : Through(c)>>_vars

(* What bounds the exporter's calls, and what they may go up to again.        *)
LimiterInv == TypeOK /\ WithinBudget /\ LazyIsEager

(* docs/scaling-guide.md: "Every collector's API calls for an org are        *)
(* metered through a single shared client-side token bucket", so the         *)
(* exporter as a whole keeps to burst and rate.                              *)
ExporterWithinBudget == spareAll >= 0

(* effective_rate_per_second: the rate is "capped at the configured rate".   *)
NeverAboveConfigured == Effective <= Conf
=============================================================================
