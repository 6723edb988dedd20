---------------------- MODULE WebhookReceiverParameters ----------------------
(* The settings of the webhook receiver (core/webhook_handler.py), and the    *)
(* alerts that reach it.                                                      *)
EXTENDS Integers, FiniteSets

CONSTANTS Alerts,    \* alerts that may be on their way at the same time
          Window,    \* freshness_window_seconds
          Skew,      \* how far sent_at may be ahead of the receiver's clock
          TTL,       \* replay_cache_ttl_seconds
          MaxEntries \* replay_cache_max_entries

ASSUME AlertsAssumption == IsFiniteSet(Alerts)
ASSUME ReceiverAssumption ==
    /\ Window \in Nat /\ Skew \in 0..Window
    /\ TTL \in Nat \ {0} /\ MaxEntries \in Nat \ {0}
=============================================================================
