-------------------------- MODULE MCSubscriptions --------------------------
(* Instance of Subscriptions for TLC: two target infos a request may carry. *)
EXTENDS Subscriptions

MCInfos == {"before", "after"}
=============================================================================
