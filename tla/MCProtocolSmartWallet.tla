----------------------- MODULE MCProtocolSmartWallet -----------------------
(***************************************************************************)
(* The wallets of two chains under an arbitrary owner and arbitrary        *)
(* reports.  Two tokens allow two messages in flight at once, two pools    *)
(* allow setPool to abandon a position, and one LINK per wallet lets a     *)
(* wallet run out of fees after its first message.                         *)
(***************************************************************************)
EXTENDS ProtocolSmartWallet, TLC

=============================================================================
