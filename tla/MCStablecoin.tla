---------------------------- MODULE MCStablecoin ----------------------------
(***************************************************************************)
(* Instances of StablecoinIssuance for TLC.  Amount 1 is below the volume  *)
(* policy's minimum and amount 2 within it; a reserve of 1 covers only the *)
(* former.                                                                 *)
(***************************************************************************)
EXTENDS StablecoinIssuance

=============================================================================
