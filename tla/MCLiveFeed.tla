---------------------------- MODULE MCLiveFeed ----------------------------
(* Instances of LiveFeed for TLC. *)
EXTENDS LiveFeed
=============================================================================
