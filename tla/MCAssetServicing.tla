--------------------------- MODULE MCAssetServicing ---------------------------
(***************************************************************************)
(* Instance of AssetServicing for TLC.  Nodes are interchangeable: a uid   *)
(* stands for the node that made it.                                       *)
(***************************************************************************)
EXTENDS AssetServicing, TLC

NodeSymmetry == Permutations(Nodes)

=============================================================================
