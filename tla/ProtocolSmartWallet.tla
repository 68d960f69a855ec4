------------------------ MODULE ProtocolSmartWallet ------------------------
(***************************************************************************)
(* The contracts of the multi-chain token manager.  On every chain stand a *)
(* ProtocolSmartWallet, which owns a position in a MockPool and keeps some *)
(* LINK for fees, and the pools it may be pointed at.  A report makes a    *)
(* wallet withdraw from its pool and send the tokens over CCIP to a        *)
(* receiver on another chain: as a rule the wallet there, which deposits   *)
(* them into its own pool.  The function behind the report is public, so   *)
(* anybody makes a wallet do the same, and names any receiver.             *)
(*                                                                         *)
(* Each action is one transaction on one chain; a transaction that reverts *)
(* is an action that is not enabled.  CCIP itself is external: a message   *)
(* carries its tokens, may be executed in any order and is executed at     *)
(* most once; an execution whose receiver reverts moves nothing, and the   *)
(* message then waits until somebody executes it by hand.                  *)
(***************************************************************************)
EXTENDS Naturals, FiniteSets, Functions

CONSTANTS
  Chains,      \* chain selectors
  Pools,       \* MockPool contracts, the same names on every chain
  FirstPool,   \* the pool given to the constructors
  Supply,      \* tokens in existence
  LinkFunding, \* LINK each wallet is funded with
  Fee,         \* router.getFee, the same for every lane
  MaxUint      \* type(uint256).max, which a pool reads as "everything"

ASSUME WalletAssumption ==
  /\ IsFiniteSet(Chains) /\ Chains # {} /\ IsFiniteSet(Pools)
  /\ FirstPool \in Pools
  /\ Supply \in Nat /\ LinkFunding \in Nat /\ Fee \in Nat
  /\ MaxUint \in Nat /\ MaxUint > Supply

VARIABLES
  outside,            \* tokens held by anybody else
  idle,               \* tokens in the wallet itself
  poolBalance,        \* MockPool.balanceOf[wallet][asset], per pool
  link,               \* LINK in the wallet
  pool,               \* ProtocolSmartWallet.pool
  allowedForwarders,  \* the Keystone forwarder is in allowedKeystoneForwarders
  allowedOwners,      \* the workflow's owner is in allowedWorkflowOwners
  allowedCcipSenders, \* which address is stored per source chain
  messages            \* CCIP messages in flight, by slot

funds == <<outside, idle, poolBalance, link, messages>>
settings == <<pool, allowedForwarders, allowedOwners, allowedCcipSenders>>
walletVars == <<funds, settings>>

\* Amounts a transaction may name.
Amounts == 0 .. Supply

\* An address on another chain, as a wallet stores a sender or is given a
\* receiver: address(0), the wallet deployed there, or any other.
Addresses == {"none", "wallet", "other"}

\* "amount" is the payload abi.encode(Message), "tokens" what CCIP carries and
\* "to" the receiver on dst.  A failed message is one whose first execution
\* reverted.
Message ==
  [src : Chains, dst : Chains, to : {"wallet", "other"},
   amount : Nat, tokens : Nat, failed : BOOLEAN]
NoMessage == [src |-> "free"]

\* Messages carry at least one token each, so Supply slots are always enough.
Slots == 1 .. Supply

WalletTypeOK ==
  /\ outside \in Nat
  /\ idle \in [Chains -> Nat]
  /\ poolBalance \in [Chains -> [Pools -> Nat]]
  /\ link \in [Chains -> Nat]
  /\ pool \in [Chains -> Pools]
  /\ allowedForwarders \in [Chains -> BOOLEAN]
  /\ allowedOwners \in [Chains -> BOOLEAN]
  /\ allowedCcipSenders \in [Chains -> [Chains -> Addresses]]
  /\ messages \in [Slots -> Message \union {NoMessage}]

\* The state after deployment: the wallets know each other, the forwarder and
\* the workflow's owner and hold LINK; held[c] tokens are in the pool of c and
\* the rest is elsewhere.
Deployed(rest, held) ==
  /\ outside = rest
  /\ idle = [c \in Chains |-> 0]
  /\ poolBalance = [c \in Chains |-> [p \in Pools |-> IF p = FirstPool THEN held[c] ELSE 0]]
  /\ link = [c \in Chains |-> LinkFunding]
  /\ pool = [c \in Chains |-> FirstPool]
  /\ allowedForwarders = [c \in Chains |-> TRUE]
  /\ allowedOwners = [c \in Chains |-> TRUE]
  /\ allowedCcipSenders =
       [c \in Chains |-> [s \in Chains |-> IF s = c THEN "none" ELSE "wallet"]]
  /\ messages = [s \in Slots |-> NoMessage]

WalletInit == Deployed(Supply, [c \in Chains |-> 0])

InFlight == {s \in Slots : messages[s] # NoMessage}

-----------------------------------------------------------------------------
(* MockPool, called by the wallet of chain c.                              *)

\* supply: reverts on zero, pulls the tokens from the caller's balance.
PoolSupply(c, amount) ==
  /\ amount > 0
  /\ poolBalance' = [poolBalance EXCEPT ![c][pool[c]] = @ + amount]

\* withdraw: what the pool would pay for a request, and when it does.
PoolPays(c, request) ==
  IF request = MaxUint THEN poolBalance[c][pool[c]] ELSE request

PoolCanPay(c, request) ==
  /\ poolBalance[c][pool[c]] # 0
  /\ PoolPays(c, request) <= poolBalance[c][pool[c]]

\* A pool that pays and does not reduce the balance.
PoolWithdraw_BalanceKept(c, request) ==
  /\ PoolCanPay(c, request)
  /\ poolBalance' = poolBalance

PoolWithdraw(c, request) ==
  /\ PoolCanPay(c, request)
  /\ poolBalance' = [poolBalance EXCEPT ![c][pool[c]] = @ - PoolPays(c, request)]

-----------------------------------------------------------------------------
(* The owner.                                                              *)

SetSenderForSourceChain(c, source, sender) ==
  /\ sender # "none"
  /\ allowedCcipSenders' = [allowedCcipSenders EXCEPT ![c][source] = sender]
  /\ UNCHANGED <<funds, pool, allowedForwarders, allowedOwners>>

RemoveSenderForSourceChain(c, source) ==
  /\ allowedCcipSenders[c][source] # "none"
  /\ allowedCcipSenders' = [allowedCcipSenders EXCEPT ![c][source] = "none"]
  /\ UNCHANGED <<funds, pool, allowedForwarders, allowedOwners>>

SetKeystoneForwarder(c) ==
  /\ allowedForwarders' = [allowedForwarders EXCEPT ![c] = TRUE]
  /\ UNCHANGED <<funds, pool, allowedOwners, allowedCcipSenders>>

RemoveKeystoneForwarder(c) ==
  /\ allowedForwarders[c]
  /\ allowedForwarders' = [allowedForwarders EXCEPT ![c] = FALSE]
  /\ UNCHANGED <<funds, pool, allowedOwners, allowedCcipSenders>>

SetWorkflowOwner(c) ==
  /\ allowedOwners' = [allowedOwners EXCEPT ![c] = TRUE]
  /\ UNCHANGED <<funds, pool, allowedForwarders, allowedCcipSenders>>

RemoveWorkflowOwner(c) ==
  /\ allowedOwners[c]
  /\ allowedOwners' = [allowedOwners EXCEPT ![c] = FALSE]
  /\ UNCHANGED <<funds, pool, allowedForwarders, allowedCcipSenders>>

\* The position in the previous pool stays there.
SetPool(c, newPool) ==
  /\ pool' = [pool EXCEPT ![c] = newPool]
  /\ UNCHANGED <<funds, allowedForwarders, allowedOwners, allowedCcipSenders>>

DepositToPool(c, amount) ==
  /\ amount <= idle[c]
  /\ idle' = [idle EXCEPT ![c] = @ - amount]
  /\ PoolSupply(c, amount)
  /\ UNCHANGED <<outside, link, messages, settings>>

\* The receiver of a withdrawal from the pool is the wallet or anybody else.
WithdrawFromPool(c, request, toWallet) ==
  /\ PoolWithdraw(c, request)
  /\ IF toWallet
       THEN /\ idle' = [idle EXCEPT ![c] = @ + PoolPays(c, request)]
            /\ UNCHANGED outside
       ELSE /\ outside' = outside + PoolPays(c, request)
            /\ UNCHANGED idle
  /\ UNCHANGED <<link, messages, settings>>

Withdraw(c, amount) ==
  /\ idle[c] # 0 /\ amount <= idle[c]
  /\ idle' = [idle EXCEPT ![c] = @ - amount]
  /\ outside' = outside + amount
  /\ UNCHANGED <<poolBalance, link, messages, settings>>

\* Anybody may transfer tokens to a wallet.
Fund(c, amount) ==
  /\ amount \in 1 .. outside
  /\ outside' = outside - amount
  /\ idle' = [idle EXCEPT ![c] = @ + amount]
  /\ UNCHANGED <<poolBalance, link, messages, settings>>

-----------------------------------------------------------------------------
(* Rebalancing.                                                            *)

Send(c, dst, to, amount, tokens) ==
  /\ link[c] >= Fee
  /\ link' = [link EXCEPT ![c] = @ - Fee]
  /\ \E s \in Slots \ InFlight :
       /\ \A t \in Slots \ InFlight : s <= t
       /\ messages' = [messages EXCEPT ![s] =
            [src |-> c, dst |-> dst, to |-> to,
             amount |-> amount, tokens |-> tokens, failed |-> FALSE]]

\* What withdrawFromPoolAndDepositCrossChain needs: the pool pays, there is a
\* receiver, the fee is covered, and CCIP takes the transfer (no lane from a
\* chain to itself, no transfer of nothing).
CanRebalance(c, request, dst, to) ==
  /\ PoolCanPay(c, request) /\ PoolPays(c, request) > 0
  /\ to # "none"
  /\ dst # c
  /\ link[c] >= Fee

\* The message announces the requested instead of the withdrawn amount.
WithdrawFromPoolAndDepositCrossChain_Request(c, request, dst, to) ==
  /\ CanRebalance(c, request, dst, to)
  /\ PoolWithdraw(c, request)
  /\ Send(c, dst, to, request, PoolPays(c, request))
  /\ UNCHANGED <<outside, idle, settings>>

\* withdrawFromPoolAndDepositCrossChain -> _sendMessage, all or nothing.
WithdrawFromPoolAndDepositCrossChain(c, request, dst, to) ==
  /\ CanRebalance(c, request, dst, to)
  /\ PoolWithdraw(c, request)
  /\ Send(c, dst, to, PoolPays(c, request), PoolPays(c, request))
  /\ UNCHANGED <<outside, idle, settings>>

ReportAccepted(c, request, dst, to) ==
  /\ allowedForwarders[c]
  /\ allowedOwners[c]
  /\ CanRebalance(c, request, dst, to)

OnReport(c, request, dst, to) ==
  /\ ReportAccepted(c, request, dst, to)
  /\ WithdrawFromPoolAndDepositCrossChain(c, request, dst, to)

\* What _ccipReceive and the deposit that follows require of a message that
\* is delivered to a wallet.
Receivable(m) ==
  /\ allowedCcipSenders[m.dst][m.src] = "wallet"
  /\ m.amount = m.tokens
  /\ m.tokens > 0

\* A receiver that keeps the tokens instead of depositing them.
CcipReceive_NoDeposit(slot) ==
  LET m == messages[slot] IN
  /\ slot \in InFlight
  /\ m.to = "wallet" /\ Receivable(m)
  /\ idle' = [idle EXCEPT ![m.dst] = @ + m.tokens]
  /\ messages' = [messages EXCEPT ![slot] = NoMessage]
  /\ UNCHANGED <<outside, poolBalance, link, settings>>

CcipReceive(slot) ==
  LET m == messages[slot] IN
  /\ slot \in InFlight
  /\ m.to = "wallet" /\ Receivable(m)
  /\ PoolSupply(m.dst, m.tokens)
  /\ messages' = [messages EXCEPT ![slot] = NoMessage]
  /\ UNCHANGED <<outside, idle, link, settings>>

\* Any other receiver has what it is sent.
DeliverElsewhere(slot) ==
  /\ slot \in InFlight
  /\ messages[slot].to = "other"
  /\ outside' = outside + messages[slot].tokens
  /\ messages' = [messages EXCEPT ![slot] = NoMessage]
  /\ UNCHANGED <<idle, poolBalance, link, settings>>

\* The receiver reverts, a contract that is no wallet for reasons of its own:
\* the tokens stay with the message.
CcipReceiveFails(slot) ==
  /\ slot \in InFlight
  /\ messages[slot].to = "wallet" => ~Receivable(messages[slot])
  /\ ~messages[slot].failed
  /\ messages' = [messages EXCEPT ![slot].failed = TRUE]
  /\ UNCHANGED <<outside, idle, poolBalance, link, settings>>

Receive(slot) == CcipReceive(slot) \/ DeliverElsewhere(slot) \/ CcipReceiveFails(slot)

-----------------------------------------------------------------------------

Configure(c) ==
  \* A sender for the wallet's own chain would be stored and never asked for.
  \/ \E source \in Chains \ {c}, sender \in Addresses : SetSenderForSourceChain(c, source, sender)
  \/ \E source \in Chains \ {c} : RemoveSenderForSourceChain(c, source)
  \/ SetKeystoneForwarder(c)
  \/ RemoveKeystoneForwarder(c)
  \/ SetWorkflowOwner(c)
  \/ RemoveWorkflowOwner(c)
  \/ \E p \in Pools : SetPool(c, p)

Treasury(c) ==
  \/ \E amount \in Amounts : DepositToPool(c, amount)
  \/ \E request \in Amounts \union {MaxUint}, toWallet \in BOOLEAN :
       WithdrawFromPool(c, request, toWallet)
  \/ \E amount \in Amounts : Withdraw(c, amount)
  \/ \E amount \in Amounts : Fund(c, amount)

Ccip == \E s \in Slots : Receive(s)

\* Anybody calls the public function.
CallRebalance(c) ==
  \E request \in Amounts \union {MaxUint}, dst \in Chains, to \in Addresses :
    WithdrawFromPoolAndDepositCrossChain(c, request, dst, to)

Rebalance(c) ==
  \/ \E request \in Amounts \union {MaxUint}, dst \in Chains, to \in Addresses :
       OnReport(c, request, dst, to)
  \/ CallRebalance(c)

WalletNext ==
  \/ \E c \in Chains : Configure(c) \/ Treasury(c) \/ Rebalance(c)
  \/ Ccip

WalletSpec == WalletInit /\ [][WalletNext]_walletVars

-----------------------------------------------------------------------------
(* Properties.                                                             *)

InFlightTokens == SumFunctionOnSet([s \in Slots |->
  IF messages[s] = NoMessage THEN 0 ELSE messages[s].tokens], Slots)

Holdings(c) == idle[c] + SumFunction(poolBalance[c])

\* No sequence of deposits, withdrawals, pool changes, rebalances, failed and
\* repeated deliveries creates or loses a token.
TokensConserved ==
  outside + SumFunction([c \in Chains |-> Holdings(c)]) + InFlightTokens = Supply

\* A message of a wallet announces what it carries, carries something and
\* goes to another chain; so MismatchedTokenAmount and AmountZero are never
\* the reason a delivery to a wallet fails, and only the stored sender can be.
MessagesAreDeliverable ==
  \A s \in InFlight :
    LET m == messages[s] IN
    /\ m.amount = m.tokens /\ m.tokens > 0 /\ m.src # m.dst
    /\ m.to = "wallet" =>
         (allowedCcipSenders[m.dst][m.src] = "wallet" <=> Receivable(m))

\* Rebalancing never leaves tokens idle in a wallet, on either end: what
\* leaves a pool is in flight, what arrives at a wallet is in a pool again,
\* and nobody else has a token of it but the receiver that a message names,
\* who has exactly what the message carried.
RebalancingLeavesNoIdleTokens ==
  [][messages' # messages =>
       /\ idle' = idle
       /\ \/ outside' = outside
          \/ \E s \in InFlight :
               /\ messages[s].to = "other" /\ messages'[s] = NoMessage
               /\ outside' = outside + messages[s].tokens
       /\ outside' + InFlightTokens' + SumFunction([c \in Chains |-> Holdings(c)])'
            = outside + InFlightTokens + SumFunction([c \in Chains |-> Holdings(c)])]_walletVars

=============================================================================
