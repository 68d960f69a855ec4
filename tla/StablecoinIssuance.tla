-------------------------- MODULE StablecoinIssuance --------------------------
(***************************************************************************)
(* The bank's issuance workflow over the contracts of Stablecoin: an HTTP  *)
(* trigger carries a bank message, the workflow compares the reserves with *)
(* the amount, writes a mint report, and, for a message that asks for it,  *)
(* writes a transfer report for the tokens minted to the CCIP consumer.    *)
(*                                                                         *)
(* A bank message is not remembered: the same one may trigger any number   *)
(* of executions, and executions overlap.  A write may be refused by its   *)
(* receiver, fail, or be given up and land later.                          *)
(***************************************************************************)
EXTENDS Stablecoin

CONSTANTS
  Executions,  \* executions that may overlap
  Reserves,    \* totalReserve as the PoR API may report it
  MaxTriggers, \* bound on bank messages
  MaxEnvOps    \* bound on what owners, holders and the reserve do

ASSUME IssuanceAssumption ==
  /\ Reserves \subseteq Nat
  /\ MaxTriggers \in Nat /\ MaxEnvOps \in Nat

VARIABLES
  reserve,  \* totalReserve
  triggers, \* bank messages so far
  envOps,   \* environment operations so far
  pc,       \* per execution: where it is
  message,  \* the bank message
  write,    \* the last write
  outcome,  \* what it answered to the trigger
  minted,   \* its mint report has been executed
  sent      \* its transfer report has been executed

execVars == <<pc, message, write, outcome, minted, sent>>
issuanceVars == <<tokenVars, reserve, triggers, envOps, execVars>>

\* The beneficiary of a message with crossChain is one on the destination.
Messages == [beneficiary : Accounts, crossChain : BOOLEAN, amount : Amounts]
NoMessage == [crossChain |-> FALSE, amount |-> 0]

\* "refused": the policy engine rejects, "reverted": the receiver reverts
\* otherwise; the forwarder's transaction succeeds in both cases.  "rejected":
\* it fails, because the policy engine rejects; "failed": for another reason.
Statuses == {"none", "pending", "executed", "refused", "reverted", "rejected", "failed"}
Outcomes == {"none", "POR_INSUFFICIENT_RESERVES", "ACE_POLICY_REJECTED",
             "ACE_POLICY_REJECTED_CCIP", "MINT_FAILED", "CCIP_FAILED", "DELIVERED"}

IssuanceTypeOK ==
  /\ StablecoinTypeOK
  /\ reserve \in Reserves
  /\ triggers \in 0 .. MaxTriggers
  /\ envOps \in 0 .. MaxEnvOps
  /\ pc \in [Executions -> {"idle", "validate", "mint", "transfer"}]
  /\ message \in [Executions -> Messages \union {NoMessage}]
  /\ write \in [Executions -> Statuses]
  /\ outcome \in [Executions -> Outcomes]
  /\ minted \in [Executions -> BOOLEAN]
  /\ sent \in [Executions -> BOOLEAN]

IssuanceInit ==
  /\ StablecoinInit
  /\ reserve \in Reserves
  /\ triggers = 0 /\ envOps = 0
  /\ pc = [e \in Executions |-> "idle"]
  /\ message = [e \in Executions |-> NoMessage]
  /\ write = [e \in Executions |-> "none"]
  /\ outcome = [e \in Executions |-> "none"]
  /\ minted = [e \in Executions |-> FALSE]
  /\ sent = [e \in Executions |-> FALSE]

-----------------------------------------------------------------------------
(* The environment.                                                        *)

EnvOp == envOps < MaxEnvOps /\ envOps' = envOps + 1

SetReserve(newReserve) ==
  /\ EnvOp
  /\ reserve' = newReserve
  /\ UNCHANGED <<tokenVars, triggers, execVars>>

Outside ==
  /\ EnvOp
  /\ Govern \/ Hold \/ CallConsumers
  /\ UNCHANGED <<reserve, triggers, execVars>>

DeliverTransfer ==
  /\ Bridge
  /\ UNCHANGED <<reserve, triggers, envOps, execVars>>

-----------------------------------------------------------------------------
(* One execution of onHTTPTrigger.                                         *)

\* An execution that ended may still have a write pending: its place is
\* taken again only when that has been settled.
Trigger(e, m) ==
  /\ triggers < MaxTriggers
  /\ pc[e] = "idle" /\ write[e] # "pending"
  /\ triggers' = triggers + 1
  /\ pc' = [pc EXCEPT ![e] = "validate"]
  /\ message' = [message EXCEPT ![e] = m]
  /\ write' = [write EXCEPT ![e] = "none"]
  /\ outcome' = [outcome EXCEPT ![e] = "none"]
  /\ minted' = [minted EXCEPT ![e] = FALSE]
  /\ sent' = [sent EXCEPT ![e] = FALSE]
  /\ UNCHANGED <<tokenVars, reserve, envOps>>

Answer(e, result) ==
  /\ outcome' = [outcome EXCEPT ![e] = result]
  /\ pc' = [pc EXCEPT ![e] = "idle"]

\* The reserves are compared with the amount of this mint alone.
ReservesCover(amount) == reserve >= amount

ValidateProofOfReserve(e) ==
  /\ pc[e] = "validate"
  /\ IF ReservesCover(message[e].amount)
       THEN /\ pc' = [pc EXCEPT ![e] = "mint"]
            /\ write' = [write EXCEPT ![e] = "pending"]
            /\ UNCHANGED outcome
       ELSE /\ Answer(e, "POR_INSUFFICIENT_RESERVES")
            /\ UNCHANGED write
  /\ UNCHANGED <<tokenVars, reserve, triggers, envOps, message, minted, sent>>

\* The PoR API cannot be read: the answer is the same.
ReserveUnavailable(e) ==
  /\ EnvOp
  /\ pc[e] = "validate"
  /\ Answer(e, "POR_INSUFFICIENT_RESERVES")
  /\ UNCHANGED <<tokenVars, reserve, triggers, message, write, minted, sent>>

MintRecipient(e) == IF message[e].crossChain THEN Staging ELSE message[e].beneficiary

\* The pending write of an execution is its mint report until that has been
\* answered, its transfer report afterwards.
Writing(e, step) ==
  /\ write[e] = "pending"
  /\ IF pc[e] = "idle" THEN outcome[e] = IF step = "mint" THEN "MINT_FAILED" ELSE "CCIP_FAILED"
                       ELSE pc[e] = step

\* How a write ends that its receiver does not take.
Refused(allowed) == IF allowed THEN {"reverted"} ELSE {"refused", "rejected"}

ExecuteMint(e) ==
  /\ Writing(e, "mint")
  /\ IF MintAccepted(MintRecipient(e))
       THEN /\ Mint(MintRecipient(e), message[e].amount)
            /\ write' = [write EXCEPT ![e] = "executed"]
            /\ minted' = [minted EXCEPT ![e] = TRUE]
       ELSE /\ \E status \in Refused(AccountAllowed(MintRecipient(e))) :
                 write' = [write EXCEPT ![e] = status]
            /\ UNCHANGED <<tokenVars, minted>>
  /\ UNCHANGED <<reserve, triggers, envOps, pc, message, outcome, sent>>

ExecuteTransfer(e) ==
  /\ Writing(e, "transfer")
  /\ IF TransferAccepted(message[e].amount)
       THEN /\ TransferCrossChain(message[e].beneficiary, message[e].amount)
            /\ write' = [write EXCEPT ![e] = "executed"]
            /\ sent' = [sent EXCEPT ![e] = TRUE]
       ELSE /\ \E status \in Refused(VolumeAllowed(message[e].amount)) :
                 write' = [write EXCEPT ![e] = status]
            /\ UNCHANGED <<tokenVars, sent>>
  /\ UNCHANGED <<reserve, triggers, envOps, pc, message, outcome, minted>>

\* The transaction is dropped or fails in the forwarder.
LoseWrite(e) ==
  /\ EnvOp
  /\ write[e] = "pending"
  /\ write' = [write EXCEPT ![e] = "failed"]
  /\ UNCHANGED <<tokenVars, reserve, triggers, pc, message, outcome, minted, sent>>

\* txStatus is SUCCESS although the receiver reverted.
Delivered(e) == write[e] \in {"executed", "refused", "reverted"}

\* After the mint report: an error message may tell that the policy engine
\* rejected, whether or not the transaction succeeded, or be missing; then
\* only a transaction that failed ends the execution.
MintAnswered(e) ==
  /\ pc[e] = "mint"
  /\ \/ /\ write[e] \in {"failed", "rejected"}
        /\ Answer(e, "MINT_FAILED")
        /\ UNCHANGED write
     \/ /\ write[e] \in {"refused", "rejected"}
        /\ Answer(e, "ACE_POLICY_REJECTED")
        /\ UNCHANGED write
     \/ /\ Delivered(e)
        /\ IF message[e].crossChain
             THEN /\ pc' = [pc EXCEPT ![e] = "transfer"]
                  /\ write' = [write EXCEPT ![e] = "pending"]
                  /\ UNCHANGED outcome
             ELSE /\ Answer(e, "DELIVERED")
                  /\ UNCHANGED write
  /\ UNCHANGED <<tokenVars, reserve, triggers, envOps, message, minted, sent>>

\* A workflow that waits until the write has succeeded.
TransferAnswered_Success(e) ==
  /\ pc[e] = "transfer"
  /\ Delivered(e)
  /\ Answer(e, "DELIVERED")
  /\ UNCHANGED <<tokenVars, reserve, triggers, envOps, message, write, minted, sent>>

\* After the transfer report the error message is looked at only when the
\* transaction failed.
TransferAnswered(e) ==
  /\ pc[e] = "transfer"
  /\ \/ Delivered(e) /\ Answer(e, "DELIVERED")
     \/ write[e] \in {"failed", "rejected"} /\ Answer(e, "CCIP_FAILED")
     \/ write[e] = "rejected" /\ Answer(e, "ACE_POLICY_REJECTED_CCIP")
  /\ UNCHANGED <<tokenVars, reserve, triggers, envOps, message, write, minted, sent>>

\* Every exception of the mint step is taken for a policy rejection.
WriteGivenUp_AsRejection(e) ==
  /\ EnvOp
  /\ pc[e] \in {"mint", "transfer"} /\ write[e] = "pending"
  /\ Answer(e, IF pc[e] = "mint" THEN "ACE_POLICY_REJECTED" ELSE "CCIP_FAILED")
  /\ UNCHANGED <<tokenVars, reserve, triggers, message, write, minted, sent>>

\* writeReport throws without an answer; the transaction may land later.
WriteGivenUp(e) ==
  /\ EnvOp
  /\ pc[e] \in {"mint", "transfer"} /\ write[e] = "pending"
  /\ Answer(e, IF pc[e] = "mint" THEN "MINT_FAILED" ELSE "CCIP_FAILED")
  /\ UNCHANGED <<tokenVars, reserve, triggers, message, write, minted, sent>>

-----------------------------------------------------------------------------

Execution(e) ==
  \/ ValidateProofOfReserve(e)
  \/ ExecuteMint(e)
  \/ ExecuteTransfer(e)
  \/ MintAnswered(e)
  \/ TransferAnswered(e)

IssuanceNext ==
  \/ \E newReserve \in Reserves : SetReserve(newReserve)
  \/ Outside
  \/ DeliverTransfer
  \/ \E e \in Executions :
       \/ \E m \in Messages : Trigger(e, m)
       \/ Execution(e)
       \/ ReserveUnavailable(e)
       \/ LoseWrite(e)
       \/ WriteGivenUp(e)

\* An execution keeps going, and submitted transactions are executed unless
\* they are lost.
IssuanceFairness == \A e \in Executions : WF_issuanceVars(Execution(e))

IssuanceSpec == IssuanceInit /\ [][IssuanceNext]_issuanceVars /\ IssuanceFairness

-----------------------------------------------------------------------------
(* Properties.                                                             *)

\* The answers that claim a refusal are final: nothing was minted for the
\* message, or nothing sent when it is the transfer that was refused, and
\* nothing is on its way that could still do it.
RejectionIsFinal ==
  \A e \in Executions :
    /\ outcome[e] \in {"POR_INSUFFICIENT_RESERVES", "ACE_POLICY_REJECTED"} =>
         ~minted[e] /\ ~sent[e] /\ write[e] # "pending"
    /\ outcome[e] = "ACE_POLICY_REJECTED_CCIP" => ~sent[e] /\ write[e] # "pending"

\* A mint report of the workflow reaches no account that is blacklisted when
\* it executes, however long ago it was written; and it credits the amount
\* of the bank message to the one account it names.  (Mints that others ask
\* processMintReport for pass no policy.)
MintsObeyBlacklist ==
  [][\A e \in Executions : minted'[e] /\ ~minted[e] =>
       /\ MintRecipient(e) \notin blacklist
       /\ \A h \in Holders : balance'[h] = balance[h] +
            (IF h = MintRecipient(e) THEN message[e].amount ELSE 0)]_issuanceVars

\* Every trigger is answered, whatever happens to the writes.
TriggersAreAnswered == \A e \in Executions : pc[e] # "idle" ~> pc[e] = "idle"

\* The documentation says of the proof of reserve that it prevents
\* over-minting and ensures 1:1 backing.
FullyBacked == issued <= reserve

=============================================================================
