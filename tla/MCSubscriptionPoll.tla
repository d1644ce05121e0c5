------------------------- MODULE MCSubscriptionPoll -------------------------
(* Small instances of SubscriptionPoll: an issue with two categories.      *)
EXTENDS SubscriptionPoll
=============================================================================
