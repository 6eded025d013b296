-------------------------- MODULE MCFeedArbitration --------------------------
(* The feeds of FeedArbitration with their default priorities. *)
EXTENDS FeedArbitration, TLC

ByDefault == Fyers :> 0 @@ Upstox :> 1
=============================================================================
