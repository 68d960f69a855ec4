-------------------------- MODULE MCDataFeedsCache --------------------------
(***************************************************************************)
(* Instance of DataFeedsCache for TLC.  One admin and one proxy are enough *)
(* because admins are interchangeable and proxies are independent keys;    *)
(* two feeds and two workflows let one feed, or one workflow, be treated   *)
(* differently from the other.                                             *)
(***************************************************************************)
EXTENDS DataFeedsCache, TLC

WorkflowSymmetry == Permutations(Workflows)

=============================================================================
