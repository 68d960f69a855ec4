--------------------------- MODULE MCTokenManager ---------------------------
(***************************************************************************)
(* Instances of TokenManager for TLC: the configured order of the chains.  *)
(***************************************************************************)
EXTENDS TokenManager

CONSTANTS c1, c2, c3

TwoChains == <<c1, c2>>
ThreeChains == <<c1, c2, c3>>

=============================================================================
