------------------------------ MODULE Stablecoin ------------------------------
(***************************************************************************)
(* The contracts of the stablecoin template on the source chain, as the    *)
(* ACE configuration script leaves them: StablecoinERC20, the two          *)
(* consumers whose onReport the policy engine guards, and the blacklist.   *)
(* The destination chain is a token whose pool mints what CCIP delivers.   *)
(*                                                                         *)
(* Each action is one transaction; one that reverts is not enabled.        *)
(* Neither consumer compares its caller, and behind each onReport is a     *)
(* public function that no policy guards: anybody may have tokens minted,  *)
(* redeemed or sent that way, and any holder may burn its own.             *)
(***************************************************************************)
EXTENDS Integers, FiniteSets, Functions

CONSTANTS
  Accounts,    \* holders other than the consumer
  Staging,     \* the address of CCIPTransferConsumerWithACE
  Amounts,     \* amounts named in instructions, in units of the policy
  MinVolume,   \* VolumePolicy's bounds on a transfer
  MaxVolume,
  Fee,         \* router.getFee
  LinkFunding  \* LINK the consumer is funded with

ASSUME StablecoinAssumption ==
  /\ IsFiniteSet(Accounts) /\ Staging \notin Accounts
  /\ IsFiniteSet(Amounts) /\ Amounts \subseteq Nat \ {0}
  /\ MinVolume \in Nat /\ MaxVolume \in Nat
  /\ Fee \in Nat /\ LinkFunding \in Nat

Holders == Accounts \union {Staging}

\* Who may hold a role: the two contracts that the scripts grant them to, or
\* any other address.
Parties == {"MintingConsumer", "TokenPool", "other"}

Transfers == [beneficiary : Accounts, amount : Amounts]

VARIABLES
  balance,       \* ERC20 balances on the source chain
  totalSupply,   \* ERC20 totalSupply on the source chain
  remoteBalance, \* balances on the destination chain
  bridging,      \* CCIP messages in flight: how many of each transfer
  issued,        \* minted minus redeemed by the MintingConsumer
  others,        \* minted by others with the role minus burned without redemption
  minters,       \* s_minters
  burners,       \* s_burners
  blacklist,     \* AddressBlacklistPolicy
  link           \* LINK in the CCIP consumer

ledger == <<balance, totalSupply, remoteBalance, bridging, issued, others, link>>
rules == <<minters, burners, blacklist>>
tokenVars == <<ledger, rules>>

StablecoinTypeOK ==
  /\ balance \in [Holders -> Nat]
  /\ totalSupply \in Nat
  /\ remoteBalance \in [Accounts -> Nat]
  /\ bridging \in [Transfers -> Nat]
  /\ issued \in Int /\ others \in Int
  /\ minters \subseteq Parties /\ burners \subseteq Parties
  /\ blacklist \subseteq Holders
  /\ link \in Nat

StablecoinInit ==
  /\ balance = [h \in Holders |-> 0]
  /\ totalSupply = 0
  /\ remoteBalance = [a \in Accounts |-> 0]
  /\ bridging = [t \in Transfers |-> 0]
  /\ issued = 0 /\ others = 0
  /\ minters = {"MintingConsumer", "TokenPool"} /\ burners = {"MintingConsumer", "TokenPool"}
  /\ blacklist = {}
  /\ link = LinkFunding

-----------------------------------------------------------------------------
(* Owners and holders.                                                     *)

GrantMintRole(minter) ==
  /\ minters' = minters \union {minter}
  /\ UNCHANGED <<ledger, burners, blacklist>>

RevokeMintRole(minter) ==
  /\ minters' = minters \ {minter}
  /\ UNCHANGED <<ledger, burners, blacklist>>

GrantBurnRole(burner) ==
  /\ burners' = burners \union {burner}
  /\ UNCHANGED <<ledger, minters, blacklist>>

RevokeBurnRole(burner) ==
  /\ burners' = burners \ {burner}
  /\ UNCHANGED <<ledger, minters, blacklist>>

GrantMintAndBurnRoles(party) ==
  /\ minters' = minters \union {party}
  /\ burners' = burners \union {party}
  /\ UNCHANGED <<ledger, blacklist>>

AddToBlacklist(account) ==
  /\ account \notin blacklist
  /\ blacklist' = blacklist \union {account}
  /\ UNCHANGED <<ledger, minters, burners>>

RemoveFromBlacklist(account) ==
  /\ account \in blacklist
  /\ blacklist' = blacklist \ {account}
  /\ UNCHANGED <<ledger, minters, burners>>

\* ERC20.transfer, which no policy guards.
Transfer(from, to, amount) ==
  /\ from # to
  /\ amount <= balance[from]
  /\ balance' = [balance EXCEPT ![from] = @ - amount, ![to] = @ + amount]
  /\ UNCHANGED <<totalSupply, remoteBalance, bridging, issued, others, link, rules>>

\* mint, called by somebody else who has been granted the role.
MintByOther(account, amount) ==
  /\ "other" \in minters
  /\ balance' = [balance EXCEPT ![account] = @ + amount]
  /\ totalSupply' = totalSupply + amount
  /\ others' = others + amount
  /\ UNCHANGED <<remoteBalance, bridging, issued, link, rules>>

\* ERC20Burnable.burn, which every holder may call for itself, and burnFrom,
\* called by somebody else who has been granted the role: no redemption.
Burn(account, amount) ==
  /\ account \in Accounts \/ "other" \in burners
  /\ amount <= balance[account]
  /\ balance' = [balance EXCEPT ![account] = @ - amount]
  /\ totalSupply' = totalSupply - amount
  /\ others' = others - amount
  /\ UNCHANGED <<remoteBalance, bridging, issued, link, rules>>

\* The same on the destination chain, whose roles are not followed.
MintRemote(account, amount) ==
  /\ remoteBalance' = [remoteBalance EXCEPT ![account] = @ + amount]
  /\ others' = others + amount
  /\ UNCHANGED <<balance, totalSupply, bridging, issued, link, rules>>

BurnRemote(account, amount) ==
  /\ amount <= remoteBalance[account]
  /\ remoteBalance' = [remoteBalance EXCEPT ![account] = @ - amount]
  /\ others' = others - amount
  /\ UNCHANGED <<balance, totalSupply, bridging, issued, link, rules>>

-----------------------------------------------------------------------------
(* MintingConsumerWithACE.                                                 *)

\* processMintReport, the mint.
ProcessMint(account, amount) ==
  /\ "MintingConsumer" \in minters
  /\ balance' = [balance EXCEPT ![account] = @ + amount]
  /\ totalSupply' = totalSupply + amount
  /\ issued' = issued + amount
  /\ UNCHANGED <<remoteBalance, bridging, others, link, rules>>

\* processMintReport, the redemption: burnFrom needs a role but no allowance.
ProcessRedeem(account, amount) ==
  /\ "MintingConsumer" \in burners
  /\ amount <= balance[account]
  /\ balance' = [balance EXCEPT ![account] = @ - amount]
  /\ totalSupply' = totalSupply - amount
  /\ issued' = issued - amount
  /\ UNCHANGED <<remoteBalance, bridging, others, link, rules>>

\* A policy engine that lets everything pass.
AccountAllowed_NoPolicy(account) == TRUE

\* The blacklist policy is attached to the account that a report names.
AccountAllowed(account) == account \notin blacklist

MintAccepted(account) ==
  /\ AccountAllowed(account)
  /\ "MintingConsumer" \in minters

\* onReport of a mint.
Mint(account, amount) ==
  /\ AccountAllowed(account)
  /\ ProcessMint(account, amount)

-----------------------------------------------------------------------------
(* CCIPTransferConsumerWithACE.                                            *)

\* What the consumer does not hold itself, it pulls from the sender.
Missing(amount) == IF balance[Staging] < amount THEN amount - balance[Staging] ELSE 0

\* The sender has given the consumer an allowance, unless it is the consumer
\* itself, which has given itself none; the pool burns.
CanSend(sender, amount) ==
  /\ link >= Fee
  /\ IF sender = Staging THEN Missing(amount) = 0 ELSE Missing(amount) <= balance[sender]
  /\ "TokenPool" \in burners

\* A pool that locks where the destination pool mints.
ProcessCCIPReport_Locks(sender, beneficiary, amount) ==
  /\ CanSend(sender, amount)
  /\ balance' = [balance EXCEPT ![sender] = @ - Missing(amount),
                               ![Staging] = @ + Missing(amount) - amount]
  /\ link' = link - Fee
  /\ bridging' = [bridging EXCEPT ![[beneficiary |-> beneficiary, amount |-> amount]] = @ + 1]
  /\ UNCHANGED <<totalSupply, remoteBalance, issued, others, rules>>

ProcessCCIPReport(sender, beneficiary, amount) ==
  /\ CanSend(sender, amount)
  /\ balance' = [balance EXCEPT ![sender] = @ - Missing(amount),
                               ![Staging] = @ + Missing(amount) - amount]
  /\ totalSupply' = totalSupply - amount
  /\ link' = link - Fee
  /\ bridging' = [bridging EXCEPT ![[beneficiary |-> beneficiary, amount |-> amount]] = @ + 1]
  /\ UNCHANGED <<remoteBalance, issued, others, rules>>

\* Only the volume policy is attached to the consumer's onReport.
VolumeAllowed(amount) == MinVolume <= amount /\ amount <= MaxVolume

\* The sender that the workflow's report names is the consumer itself.
TransferAccepted(amount) == VolumeAllowed(amount) /\ CanSend(Staging, amount)

TransferCrossChain(beneficiary, amount) ==
  /\ VolumeAllowed(amount)
  /\ ProcessCCIPReport(Staging, beneficiary, amount)

\* CCIP executes a message: the destination pool mints.
ReleaseOrMint(transfer) ==
  /\ bridging[transfer] > 0
  /\ bridging' = [bridging EXCEPT ![transfer] = @ - 1]
  /\ remoteBalance' = [remoteBalance EXCEPT ![transfer.beneficiary] = @ + transfer.amount]
  /\ UNCHANGED <<balance, totalSupply, issued, others, link, rules>>

-----------------------------------------------------------------------------

Govern ==
  \/ \E p \in Parties :
       \/ GrantMintRole(p) \/ RevokeMintRole(p) \/ GrantBurnRole(p) \/ RevokeBurnRole(p)
       \/ GrantMintAndBurnRoles(p)
  \/ \E a \in Holders : AddToBlacklist(a) \/ RemoveFromBlacklist(a)

Hold ==
  \E amount \in Amounts :
    \/ \E from, to \in Holders : Transfer(from, to, amount)
    \/ \E account \in Holders : MintByOther(account, amount) \/ Burn(account, amount)
    \/ \E account \in Accounts : MintRemote(account, amount) \/ BurnRemote(account, amount)

\* Anybody calls the public functions; onReport, called by anybody, does no
\* more than they do.
CallConsumers ==
  \E amount \in Amounts :
    \/ \E account \in Holders : ProcessMint(account, amount) \/ ProcessRedeem(account, amount)
    \/ \E sender \in Holders, beneficiary \in Accounts :
         ProcessCCIPReport(sender, beneficiary, amount)

Bridge == \E transfer \in Transfers : ReleaseOrMint(transfer)

-----------------------------------------------------------------------------
(* Properties.                                                             *)

InBridge == SumFunction([t \in Transfers |-> t.amount * bridging[t]])

\* Whatever fails, lands late or is repeated: what circulates on the two
\* chains and between them is what the minting consumer issued, with what
\* others were allowed to mint and without what was burned unredeemed.
SupplyIsIssued ==
  /\ totalSupply = SumFunction(balance)
  /\ totalSupply + InBridge + SumFunction(remoteBalance) = issued + others

\* The documentation says of the blacklist that it blocks transfers too.
TransfersObeyBlacklist ==
  [][\A t \in Transfers : bridging'[t] > bridging[t] => t.beneficiary \notin blacklist]_tokenVars

=============================================================================
