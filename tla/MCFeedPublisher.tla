--------------------------- MODULE MCFeedPublisher ---------------------------
(***************************************************************************)
(* Instance of FeedPublisher for TLC: two chains in a configured order.    *)
(***************************************************************************)
EXTENDS FeedPublisher

CONSTANTS c1, c2

TwoChains == <<c1, c2>>

=============================================================================
