------------------------- MODULE TokenManagerProofs --------------------------
(***************************************************************************)
(* For every number of chains, pools, tokens and overlapping executions    *)
(* of the multi-chain token manager.                                       *)
(*                                                                         *)
(* The wallets (ProtocolSmartWallet): they keep their types, so no         *)
(* balance, fee or allowance is ever overdrawn; every message in flight    *)
(* announces what it carries; and the tokens of everybody, of the wallets, *)
(* in the pools and in flight are always as many as at first.  A message   *)
(* is made in one place and executed in another, perhaps much later.  What *)
(* it says is settled when it is made, so the invariant is one about the   *)
(* messages alone; that it is made correctly needs the types, because a    *)
(* pool is asked for "everything" with the largest number.  Conservation   *)
(* is shown for two forms of a transaction, one that moves tokens of one   *)
(* wallet and one that moves tokens of a pool and a message, with what     *)
(* Sums says of a sum that changes at one place.                           *)
(*                                                                         *)
(* The workflow (TokenManager): a write that is pending respects the       *)
(* threshold, and workflow-go reports only what was moved.  Executions     *)
(* share nothing but the wallets, and what an execution claims is about    *)
(* what it has read, so the invariant speaks of one execution at a time:   *)
(* how far its scan has come, which chain is the best of those it has      *)
(* read, what its pending write asks for, and what it has counted.         *)
(***************************************************************************)
EXTENDS TokenManager, Sums

LEMMA WalletConstants ==
  /\ FirstPool \in Pools
  /\ Supply \in Nat /\ LinkFunding \in Nat /\ Fee \in Nat /\ MaxUint \in Nat
BY WalletAssumption DEF WalletAssumption

LEMMA WalletFinite == IsFiniteSet(Chains) /\ IsFiniteSet(Pools)
BY WalletAssumption DEF WalletAssumption

-----------------------------------------------------------------------------
(* The invariant of the wallets.                                           *)

HoldingsType ==
  /\ outside \in Nat
  /\ idle \in [Chains -> Nat]
  /\ poolBalance \in [Chains -> [Pools -> Nat]]
  /\ link \in [Chains -> Nat]

SettingsType ==
  /\ pool \in [Chains -> Pools]
  /\ allowedForwarders \in [Chains -> BOOLEAN]
  /\ allowedOwners \in [Chains -> BOOLEAN]
  /\ allowedCcipSenders \in [Chains -> [Chains -> Addresses]]

MessagesType == messages \in [Slots -> Message \union {NoMessage}]

Announced(m) == m.amount = m.tokens /\ m.tokens > 0 /\ m.src # m.dst

MessagesAnnounced == \A s \in InFlight : Announced(messages[s])

WalletInv == HoldingsType /\ SettingsType /\ MessagesType /\ MessagesAnnounced

LEMMA WalletTypeParts == WalletTypeOK <=> HoldingsType /\ SettingsType /\ MessagesType
BY DEF WalletTypeOK, HoldingsType, SettingsType, MessagesType

\* However the tokens are spread at first.
LEMMA DeployedInv ==
  ASSUME NEW rest \in Nat, NEW held \in [Chains -> Nat], Deployed(rest, held)
  PROVE  WalletInv
<1>1. HoldingsType
  BY WalletConstants DEF Deployed, HoldingsType
<1>2. pool \in [Chains -> Pools] /\ allowedCcipSenders \in [Chains -> [Chains -> Addresses]]
  BY WalletConstants DEF Deployed, Addresses
<1>3. allowedForwarders \in [Chains -> BOOLEAN] /\ allowedOwners \in [Chains -> BOOLEAN]
  BY DEF Deployed
<1>4. MessagesType /\ InFlight = {}
  BY DEF Deployed, MessagesType, InFlight
<1> QED
  BY <1>1, <1>2, <1>3, <1>4 DEF WalletInv, SettingsType, MessagesAnnounced

LEMMA WalletInitInv == WalletInit => WalletInv
BY DeployedInv, WalletConstants DEF WalletInit

\* What is not touched keeps its part.
LEMMA SettingsStay == SettingsType /\ UNCHANGED settings => SettingsType'
BY DEF SettingsType, settings

LEMMA MessagesStay ==
  MessagesType /\ MessagesAnnounced /\ UNCHANGED messages => MessagesType' /\ MessagesAnnounced'
BY DEF MessagesType, MessagesAnnounced, InFlight

LEMMA HoldingsStay ==
  HoldingsType /\ UNCHANGED <<outside, idle, poolBalance, link>> => HoldingsType'
BY DEF HoldingsType

LEMMA WalletStays == WalletInv /\ UNCHANGED walletVars => WalletInv'
BY SettingsStay, MessagesStay, HoldingsStay DEF WalletInv, walletVars, funds

-----------------------------------------------------------------------------
(* The owner.                                                              *)

LEMMA ConfigureKeeps ==
  ASSUME WalletInv, NEW c \in Chains, Configure(c)
  PROVE  WalletInv'
<1>1. UNCHANGED funds
  BY DEF Configure, SetSenderForSourceChain, RemoveSenderForSourceChain, SetKeystoneForwarder,
         RemoveKeystoneForwarder, SetWorkflowOwner, RemoveWorkflowOwner, SetPool
<1>2. pool' \in [Chains -> Pools]
  BY DEF Configure, SetSenderForSourceChain, RemoveSenderForSourceChain, SetKeystoneForwarder,
         RemoveKeystoneForwarder, SetWorkflowOwner, RemoveWorkflowOwner, SetPool,
         WalletInv, SettingsType
<1>3. allowedForwarders' \in [Chains -> BOOLEAN]
  BY DEF Configure, SetSenderForSourceChain, RemoveSenderForSourceChain, SetKeystoneForwarder,
         RemoveKeystoneForwarder, SetWorkflowOwner, RemoveWorkflowOwner, SetPool,
         WalletInv, SettingsType
<1>4. allowedOwners' \in [Chains -> BOOLEAN]
  BY DEF Configure, SetSenderForSourceChain, RemoveSenderForSourceChain, SetKeystoneForwarder,
         RemoveKeystoneForwarder, SetWorkflowOwner, RemoveWorkflowOwner, SetPool,
         WalletInv, SettingsType
<1>5. \/ allowedCcipSenders' = allowedCcipSenders
      \/ \E source \in Chains, sender \in Addresses :
           allowedCcipSenders' = [allowedCcipSenders EXCEPT ![c][source] = sender]
  BY DEF Configure, SetSenderForSourceChain, RemoveSenderForSourceChain, SetKeystoneForwarder,
         RemoveKeystoneForwarder, SetWorkflowOwner, RemoveWorkflowOwner, SetPool, Addresses
<1>6. allowedCcipSenders' \in [Chains -> [Chains -> Addresses]]
  BY <1>5 DEF WalletInv, SettingsType
<1> QED
  BY <1>1, <1>2, <1>3, <1>4, <1>6, MessagesStay, HoldingsStay DEF WalletInv, SettingsType, funds

\* What a pool pays is there.
LEMMA PoolPaysWhatItHas ==
  ASSUME HoldingsType, SettingsType, NEW c \in Chains, NEW request \in Nat,
         PoolCanPay(c, request)
  PROVE  /\ PoolPays(c, request) \in Nat
         /\ pool[c] \in Pools /\ poolBalance[c][pool[c]] \in Nat
         /\ PoolPays(c, request) <= poolBalance[c][pool[c]]
BY DEF HoldingsType, SettingsType, PoolCanPay, PoolPays

LEMMA TreasuryKeeps ==
  ASSUME WalletInv, NEW c \in Chains, Treasury(c)
  PROVE  WalletInv'
<1>1. UNCHANGED <<link, messages, settings>>
  BY DEF Treasury, DepositToPool, WithdrawFromPool, Withdraw, Fund
<1>2. CASE \E amount \in Amounts : DepositToPool(c, amount)
  <2>1. HoldingsType'
    BY <1>2, WalletConstants
    DEF WalletInv, HoldingsType, SettingsType, DepositToPool, PoolSupply, Amounts
  <2> QED
    BY <1>1, <2>1, SettingsStay, MessagesStay DEF WalletInv
<1>3. CASE \E request \in Amounts \union {MaxUint}, toWallet \in BOOLEAN :
             WithdrawFromPool(c, request, toWallet)
  <2>1. PICK request \in Amounts \union {MaxUint}, toWallet \in BOOLEAN :
          WithdrawFromPool(c, request, toWallet)
    BY <1>3
  <2>2. request \in Nat /\ PoolCanPay(c, request)
    BY <2>1, WalletConstants DEF Amounts, WithdrawFromPool, PoolWithdraw
  <2> DEFINE paid == PoolPays(c, request)
  <2>3. /\ paid \in Nat /\ pool[c] \in Pools /\ poolBalance[c][pool[c]] \in Nat
        /\ paid <= poolBalance[c][pool[c]]
    BY <2>2, PoolPaysWhatItHas DEF WalletInv
  <2>4. /\ poolBalance' = [poolBalance EXCEPT ![c][pool[c]] = @ - paid]
        /\ \/ idle' = [idle EXCEPT ![c] = @ + paid] /\ UNCHANGED outside
           \/ outside' = outside + paid /\ UNCHANGED idle
    BY <2>1 DEF WithdrawFromPool, PoolWithdraw
  <2> HIDE DEF paid
  <2>5. poolBalance' \in [Chains -> [Pools -> Nat]]
    BY <2>3, <2>4 DEF WalletInv, HoldingsType
  <2>6. idle' \in [Chains -> Nat] /\ outside' \in Nat
    BY <2>3, <2>4 DEF WalletInv, HoldingsType
  <2> QED
    BY <1>1, <2>5, <2>6, SettingsStay, MessagesStay DEF WalletInv, HoldingsType
<1>4. CASE \E amount \in Amounts : Withdraw(c, amount) \/ Fund(c, amount)
  <2>1. HoldingsType'
    BY <1>4, WalletConstants DEF WalletInv, HoldingsType, Withdraw, Fund, Amounts
  <2> QED
    BY <1>1, <2>1, SettingsStay, MessagesStay DEF WalletInv
<1> QED
  BY <1>2, <1>3, <1>4 DEF Treasury

-----------------------------------------------------------------------------
(* Rebalancing.                                                            *)

\* A message is made with the amount the pool paid.
LEMMA DepositCrossChainKeeps ==
  ASSUME WalletInv, NEW c \in Chains, NEW dst \in Chains, NEW request \in Nat,
         NEW to \in Addresses, WithdrawFromPoolAndDepositCrossChain(c, request, dst, to)
  PROVE  WalletInv'
<1> DEFINE paid == PoolPays(c, request)
<1>1. /\ paid \in Nat /\ pool[c] \in Pools /\ poolBalance[c][pool[c]] \in Nat
      /\ paid <= poolBalance[c][pool[c]]
  BY PoolPaysWhatItHas DEF WalletInv, WithdrawFromPoolAndDepositCrossChain, CanRebalance
<1>2. /\ paid > 0 /\ dst # c /\ link[c] >= Fee /\ to \in {"wallet", "other"}
      /\ UNCHANGED <<outside, idle, settings>>
  BY DEF WithdrawFromPoolAndDepositCrossChain, CanRebalance, Addresses
<1>3. poolBalance' = [poolBalance EXCEPT ![c][pool[c]] = @ - paid]
  BY DEF WithdrawFromPoolAndDepositCrossChain, PoolWithdraw
<1> DEFINE m == [src |-> c, dst |-> dst, to |-> to, amount |-> paid, tokens |-> paid,
                 failed |-> FALSE]
<1>4. /\ link' = [link EXCEPT ![c] = @ - Fee]
      /\ \E s \in Slots \ InFlight : messages' = [messages EXCEPT ![s] = m]
  BY DEF WithdrawFromPoolAndDepositCrossChain, Send
<1>5. m \in Message /\ Announced(m)
  BY <1>1, <1>2 DEF Message, Announced
<1> HIDE DEF paid, m
<1>6. poolBalance' \in [Chains -> [Pools -> Nat]]
  BY <1>1, <1>3 DEF WalletInv, HoldingsType
<1>7. HoldingsType'
  <2>1. link \in [Chains -> Nat] /\ link[c] - Fee \in Nat
    BY <1>2, WalletConstants DEF WalletInv, HoldingsType
  <2>2. link' \in [Chains -> Nat]
    BY <1>4, <2>1
  <2> QED
    BY <1>2, <1>6, <2>2 DEF WalletInv, HoldingsType
<1>8. MessagesType' /\ MessagesAnnounced'
  <2>1. PICK s \in Slots : messages' = [messages EXCEPT ![s] = m]
    BY <1>4
  <2>2. MessagesType'
    BY <1>5, <2>1 DEF WalletInv, MessagesType
  <2>3. \A t \in InFlight' : messages'[t] = m \/ (t \in InFlight /\ messages'[t] = messages[t])
    BY <2>1 DEF InFlight, WalletInv, MessagesType
  <2> QED
    BY <1>5, <2>2, <2>3, Zenon DEF WalletInv, MessagesAnnounced
<1> QED
  BY <1>2, <1>7, <1>8, SettingsStay DEF WalletInv

LEMMA RebalanceKeeps ==
  ASSUME WalletInv, NEW c \in Chains, Rebalance(c)
  PROVE  WalletInv'
<1>1. PICK request \in Amounts \union {MaxUint}, dst \in Chains, to \in Addresses :
        WithdrawFromPoolAndDepositCrossChain(c, request, dst, to)
  BY DEF Rebalance, CallRebalance, OnReport
<1>2. request \in Nat
  BY WalletConstants DEF Amounts
<1> QED
  BY <1>1, <1>2, DepositCrossChainKeeps

\* A delivery, also one that fails, leaves the other messages as they are, and
\* of its own message only says that it has failed.
LEMMA CcipKeeps == WalletInv /\ Ccip => WalletInv'
<1> SUFFICES ASSUME WalletInv, NEW s \in Slots, Receive(s)
             PROVE  WalletInv'
  BY DEF Ccip
<1> DEFINE m == messages[s]
<1>1. m \in Message /\ UNCHANGED <<idle, link, settings>>
  BY DEF WalletInv, MessagesType, InFlight, Receive, CcipReceive, DeliverElsewhere,
         CcipReceiveFails
<1>2. CASE CcipReceive(s)
  <2>1. /\ poolBalance' = [poolBalance EXCEPT ![m.dst][pool[m.dst]] = @ + m.tokens]
        /\ messages' = [messages EXCEPT ![s] = NoMessage] /\ UNCHANGED outside
    BY <1>2 DEF CcipReceive, PoolSupply
  <2>2. m.dst \in Chains /\ m.tokens \in Nat
    BY <1>1 DEF Message
  <2>3. HoldingsType'
    BY <1>1, <2>1, <2>2 DEF WalletInv, HoldingsType, SettingsType
  <2>4. MessagesType' /\ \A t \in InFlight' : t \in InFlight /\ messages'[t] = messages[t]
    BY <2>1 DEF InFlight, WalletInv, MessagesType
  <2> QED
    BY <1>1, <2>3, <2>4, SettingsStay, Zenon DEF WalletInv, MessagesAnnounced
<1>3. CASE CcipReceiveFails(s)
  <2> DEFINE failed == [m EXCEPT !.failed = TRUE]
  <2>1. /\ messages' = [messages EXCEPT ![s] = failed] /\ s \in InFlight
        /\ UNCHANGED <<outside, poolBalance>>
    BY <1>3 DEF CcipReceiveFails
  <2>2. failed \in Message /\ (Announced(m) => Announced(failed))
    BY <1>1 DEF Message, Announced
  <2> HIDE DEF failed
  <2>3. /\ MessagesType'
        /\ \A t \in InFlight' :
             \/ t = s /\ messages'[t] = failed
             \/ t \in InFlight /\ messages'[t] = messages[t]
    BY <2>1, <2>2 DEF InFlight, WalletInv, MessagesType
  <2>4. MessagesAnnounced'
    BY <2>1, <2>2, <2>3, Zenon DEF WalletInv, MessagesAnnounced
  <2> QED
    BY <1>1, <2>1, <2>3, <2>4, SettingsStay, HoldingsStay DEF WalletInv
<1>4. CASE DeliverElsewhere(s)
  <2>1. /\ outside' = outside + m.tokens /\ UNCHANGED poolBalance
        /\ messages' = [messages EXCEPT ![s] = NoMessage]
    BY <1>4 DEF DeliverElsewhere
  <2>2. HoldingsType'
    BY <1>1, <2>1 DEF WalletInv, HoldingsType, Message
  <2>3. MessagesType' /\ \A t \in InFlight' : t \in InFlight /\ messages'[t] = messages[t]
    BY <2>1 DEF InFlight, WalletInv, MessagesType
  <2> QED
    BY <1>1, <2>2, <2>3, SettingsStay, Zenon DEF WalletInv, MessagesAnnounced
<1> QED
  BY <1>2, <1>3, <1>4 DEF Receive

-----------------------------------------------------------------------------
(* The wallets' first theorems.                                            *)

LEMMA WalletNextInv == WalletInv /\ [WalletNext]_walletVars => WalletInv'
BY ConfigureKeeps, TreasuryKeeps, RebalanceKeeps, CcipKeeps, WalletStays, Zenon DEF WalletNext

LEMMA WalletInvariant == WalletSpec => []WalletInv
<1> QED
  BY WalletInitInv, WalletNextInv, PTL DEF WalletSpec

LEMMA AnnouncedIsDeliverable == WalletInv => MessagesAreDeliverable
BY DEF WalletInv, MessagesAnnounced, Announced, MessagesAreDeliverable, Receivable

\* No balance, fee or pool position of a wallet is overdrawn, and no setting or
\* message is malformed.
THEOREM WalletTypesHold == WalletSpec => []WalletTypeOK
<1>1. WalletInv => WalletTypeOK
  BY WalletTypeParts DEF WalletInv
<1> QED
  BY <1>1, WalletInvariant, PTL

\* A message announces the tokens it carries, and the stored sender is the only
\* thing its delivery to a wallet can fail for, whoever had it sent.
THEOREM DeliverableMessages == WalletSpec => []MessagesAreDeliverable
<1> QED
  BY AnnouncedIsDeliverable, WalletInvariant, PTL

-----------------------------------------------------------------------------
(* The tokens.  What the wallets hold, and what flies, as operators of the *)
(* values that change.                                                     *)

HeldBy(idl, bal) == [c \in Chains |-> idl[c] + SumFunction(bal[c])]

Held(idl, bal) == SumFunction(HeldBy(idl, bal))

Carried(m) == IF m = NoMessage THEN 0 ELSE m.tokens

Flying(msgs) == SumFunctionOnSet([s \in Slots |-> Carried(msgs[s])], Slots)

LEMMA PoolsSum ==
  ASSUME NEW bal \in [Pools -> Nat], NEW p \in Pools, NEW v \in Nat
  PROVE  /\ SumFunction(bal) \in Nat /\ bal[p] <= SumFunction(bal)
         /\ SumFunction([bal EXCEPT ![p] = v]) = SumFunction(bal) + (v - bal[p])
BY WalletFinite, SumOfUpdate

LEMMA HeldByType ==
  ASSUME NEW idl \in [Chains -> Nat], NEW bal \in [Chains -> [Pools -> Nat]]
  PROVE  /\ HeldBy(idl, bal) \in [Chains -> Nat]
         /\ Held(idl, bal) \in Nat
         /\ \A c \in Chains : HeldBy(idl, bal)[c] = idl[c] + SumFunction(bal[c])
         /\ Held(idl, bal) = SumFunctionOnSet(HeldBy(idl, bal), Chains)
<1>1. ASSUME NEW c \in Chains
      PROVE  idl[c] + SumFunction(bal[c]) \in Nat
  <2>1. bal[c] \in [Pools -> Nat] /\ idl[c] \in Nat
    OBVIOUS
  <2>2. SumFunction(bal[c]) \in Nat
    BY <2>1, PoolsSum, WalletConstants
  <2> QED
    BY <2>1, <2>2
<1>2. HeldBy(idl, bal) \in [Chains -> Nat]
  BY <1>1 DEF HeldBy
<1>3. Held(idl, bal) = SumFunctionOnSet(HeldBy(idl, bal), Chains)
  BY <1>2, SumOverDomain DEF Held
<1>4. \A c \in Chains : HeldBy(idl, bal)[c] \in Nat
  BY <1>2
<1>5. Held(idl, bal) \in Nat
  BY <1>3, <1>4, WalletFinite, SumOfNats
<1> QED
  BY <1>2, <1>3, <1>5 DEF HeldBy

\* A chain where the wallet's tokens or a pool's change.
LEMMA HeldChanges ==
  ASSUME NEW idl \in [Chains -> Nat], NEW bal \in [Chains -> [Pools -> Nat]],
         NEW c \in Chains, NEW p \in Pools, NEW i \in Nat, NEW v \in Nat
  PROVE  Held([idl EXCEPT ![c] = i], [bal EXCEPT ![c][p] = v])
           = Held(idl, bal) + ((i - idl[c]) + (v - bal[c][p]))
<1> DEFINE idl1 == [idl EXCEPT ![c] = i]
           bal1 == [bal EXCEPT ![c][p] = v]
           h == HeldBy(idl, bal)
           h1 == HeldBy(idl1, bal1)
<1>1. /\ bal[c] \in [Pools -> Nat] /\ idl[c] \in Nat /\ bal[c][p] \in Nat
      /\ idl1 \in [Chains -> Nat] /\ bal1 \in [Chains -> [Pools -> Nat]]
      /\ idl1[c] = i /\ bal1[c] = [bal[c] EXCEPT ![p] = v]
      /\ \A d \in Chains \ {c} : idl1[d] = idl[d] /\ bal1[d] = bal[d]
  OBVIOUS
<1> HIDE DEF idl1, bal1
<1>2. /\ h \in [Chains -> Nat] /\ h1 \in [Chains -> Nat]
      /\ \A d \in Chains : h[d] = idl[d] + SumFunction(bal[d])
      /\ \A d \in Chains : h1[d] = idl1[d] + SumFunction(bal1[d])
      /\ Held(idl, bal) = SumFunctionOnSet(h, Chains) /\ Held(idl, bal) \in Nat
      /\ Held(idl1, bal1) = SumFunctionOnSet(h1, Chains)
  BY <1>1, HeldByType
<1>3. \A d \in Chains \ {c} : h[d] = h1[d]
  BY <1>1, <1>2
<1> HIDE DEF h, h1
<1>4. Summable(h, Chains) /\ Summable(h1, Chains)
  BY <1>2, WalletFinite DEF Summable
<1>5. SumFunctionOnSet(h1, Chains) = SumFunctionOnSet(h, Chains) + (h1[c] - h[c])
  BY <1>3, <1>4, SumChanges
<1>6. /\ SumFunction(bal[c]) \in Nat
      /\ SumFunction([bal[c] EXCEPT ![p] = v]) = SumFunction(bal[c]) + (v - bal[c][p])
  BY <1>1, PoolsSum, ZenonT(30)
<1>7. h[c] = idl[c] + SumFunction(bal[c]) /\ h1[c] = i + SumFunction(bal1[c])
  BY <1>1, <1>2
<1>8. h1[c] - h[c] = (i - idl[c]) + (v - bal[c][p])
  BY <1>1, <1>6, <1>7
<1> QED
  BY <1>2, <1>5, <1>8 DEF idl1, bal1

LEMMA HeldInPoolChanges ==
  ASSUME NEW idl \in [Chains -> Nat], NEW bal \in [Chains -> [Pools -> Nat]],
         NEW c \in Chains, NEW p \in Pools, NEW v \in Nat
  PROVE  Held(idl, [bal EXCEPT ![c][p] = v]) = Held(idl, bal) + (v - bal[c][p])
<1> DEFINE bal1 == [bal EXCEPT ![c][p] = v]
           x == idl[c]
           y == bal[c][p]
           h == Held(idl, bal)
<1>1. x \in Nat
  OBVIOUS
<1>2. Held([idl EXCEPT ![c] = x], bal1) = h + ((x - x) + (v - y))
  BY <1>1, HeldChanges, ZenonT(30)
<1>3. y \in Nat /\ [idl EXCEPT ![c] = x] = idl
  OBVIOUS
<1> HIDE DEF x, y, bal1, h
<1>4. Held(idl, bal1) = h + ((x - x) + (v - y))
  BY <1>2, <1>3
<1>5. (x - x) + (v - y) = v - y
  BY <1>1, <1>3
<1>6. Held(idl, bal1) = h + (v - y)
  BY <1>4, <1>5
<1> QED
  BY <1>6 DEF h, y, bal1

\* A slot whose message changes.
LEMMA CarriedType == \A m \in Message \union {NoMessage} : Carried(m) \in Nat
BY DEF Carried, Message

LEMMA FlyingType ==
  ASSUME NEW msgs \in [Slots -> Message \union {NoMessage}]
  PROVE  Flying(msgs) \in Nat
<1> DEFINE f == [t \in Slots |-> Carried(msgs[t])]
<1>1. \A t \in Slots : f[t] \in Nat
  BY CarriedType
<1>2. IsFiniteSet(Slots)
  BY FS_Interval, WalletConstants DEF Slots
<1>3. Flying(msgs) = SumFunctionOnSet(f, Slots)
  BY DEF Flying
<1> HIDE DEF f
<1> QED
  BY <1>1, <1>2, <1>3, SumOfNats

LEMMA FlyingChanges ==
  ASSUME NEW msgs \in [Slots -> Message \union {NoMessage}], NEW s \in Slots,
         NEW m \in Message \union {NoMessage}
  PROVE  /\ Flying(msgs) \in Nat /\ Carried(msgs[s]) <= Flying(msgs)
         /\ Flying([msgs EXCEPT ![s] = m]) = Flying(msgs) + (Carried(m) - Carried(msgs[s]))
<1> DEFINE f == [t \in Slots |-> Carried(msgs[t])]
           f1 == [t \in Slots |-> Carried([msgs EXCEPT ![s] = m][t])]
<1>1. /\ \A t \in Slots : f[t] \in Nat /\ f1[t] \in Nat
      /\ \A t \in Slots \ {s} : f[t] = f1[t]
      /\ f[s] = Carried(msgs[s]) /\ f1[s] = Carried(m)
  BY CarriedType
<1>2. IsFiniteSet(Slots)
  BY FS_Interval, WalletConstants DEF Slots
<1>3. Flying(msgs) = SumFunctionOnSet(f, Slots)
  BY DEF Flying
<1>4. Flying([msgs EXCEPT ![s] = m]) = SumFunctionOnSet(f1, Slots)
  BY DEF Flying
<1> HIDE DEF f, f1
<1>5. Summable(f, Slots) /\ Summable(f1, Slots)
  BY <1>1, <1>2 DEF Summable
<1>6. SumFunctionOnSet(f, Slots) \in Nat /\ f[s] <= SumFunctionOnSet(f, Slots)
  BY <1>1, <1>2, SumOfNats
<1>7. SumFunctionOnSet(f1, Slots) = SumFunctionOnSet(f, Slots) + (f1[s] - f[s])
  BY <1>1, <1>5, SumChanges
<1> QED
  BY <1>1, <1>3, <1>4, <1>6, <1>7

-----------------------------------------------------------------------------
(* Conservation.                                                           *)

LEMMA TokensAreSums ==
  TokensConserved <=> outside + Held(idle, poolBalance) + Flying(messages) = Supply
BY DEF TokensConserved, Holdings, InFlightTokens, Held, HeldBy, Flying, Carried

LEMMA TokensAreSumsNext ==
  TokensConserved' <=> outside' + Held(idle', poolBalance') + Flying(messages') = Supply
BY DEF TokensConserved, Holdings, InFlightTokens, Held, HeldBy, Flying, Carried

LEMMA DeployedTokens ==
  ASSUME NEW rest \in Nat, NEW held \in [Chains -> Nat], Deployed(rest, held),
         rest + SumFunction(held) = Supply
  PROVE  TokensConserved
<1>1. outside = rest /\ idle \in [Chains -> Nat] /\ poolBalance \in [Chains -> [Pools -> Nat]]
  BY DeployedInv DEF WalletInv, HoldingsType, Deployed
<1>2. ASSUME NEW c \in Chains
      PROVE  HeldBy(idle, poolBalance)[c] = held[c]
  <2> DEFINE bal == [p \in Pools |-> IF p = FirstPool THEN held[c] ELSE 0]
  <2>1. poolBalance[c] = bal /\ idle[c] = 0 /\ held[c] \in Nat /\ FirstPool \in Pools
    BY WalletConstants DEF Deployed
  <2>2. /\ bal \in [Pools -> Nat] /\ bal[FirstPool] = held[c]
        /\ \A p \in Pools \ {FirstPool} : bal[p] = 0
    BY <2>1
  <2> HIDE DEF bal
  <2>3. SumFunction(bal) = SumFunctionOnSet(bal, Pools)
    BY <2>2, SumOverDomain
  <2>4. SumFunctionOnSet(bal, Pools) = held[c]
    BY <2>1, <2>2, WalletFinite, SumOfOne
  <2>5. HeldBy(idle, poolBalance)[c] = idle[c] + SumFunction(poolBalance[c])
    BY DEF HeldBy
  <2> QED
    BY <2>1, <2>3, <2>4, <2>5
<1>3. HeldBy(idle, poolBalance) = held
  BY <1>1, <1>2, HeldByType
<1>4. Held(idle, poolBalance) = SumFunction(held)
  BY <1>3 DEF Held
<1>5. Flying(messages) = 0
  <2> DEFINE f == [s \in Slots |-> Carried(messages[s])]
  <2>1. \A s \in Slots : f[s] = 0
    BY DEF Deployed, Carried
  <2>2. IsFiniteSet(Slots)
    BY FS_Interval, WalletConstants DEF Slots
  <2>3. Flying(messages) = SumFunctionOnSet(f, Slots)
    BY DEF Flying
  <2> HIDE DEF f
  <2> QED
    BY <2>1, <2>2, <2>3, SumOfZeros
<1>6. rest \in Nat /\ SumFunction(held) \in Nat
  BY <1>1, <1>4, HeldByType
<1> QED
  BY <1>1, <1>4, <1>5, <1>6, TokensAreSums

\* A transaction of the wallet of c that makes its own tokens i, those in a pool
\* v and those of anybody else o.
MovesTokens(c, p, i, v, o) ==
  /\ idle' = [idle EXCEPT ![c] = i]
  /\ poolBalance' = [poolBalance EXCEPT ![c][p] = v]
  /\ outside' = o /\ UNCHANGED messages
  /\ o + i + v = outside + idle[c] + poolBalance[c][p]

LEMMA MovesTokensConserves ==
  ASSUME NEW c \in Chains, NEW p \in Pools, NEW i \in Nat, NEW v \in Nat, NEW o \in Nat
  PROVE  WalletInv /\ TokensConserved /\ MovesTokens(c, p, i, v, o) => TokensConserved'
<1>1. SUFFICES ASSUME WalletInv, TokensConserved, MovesTokens(c, p, i, v, o)
               PROVE  TokensConserved'
  OBVIOUS
<1> DEFINE idl1 == [idle EXCEPT ![c] = i]
           bal1 == [poolBalance EXCEPT ![c][p] = v]
           h == Held(idle, poolBalance)
           h1 == Held(idl1, bal1)
           f == Flying(messages)
           x == idle[c]
           y == poolBalance[c][p]
<1>2. messages \in [Slots -> Message \union {NoMessage}]
  BY <1>1 DEF WalletInv, MessagesType
<1>3. idle \in [Chains -> Nat]
  BY <1>1 DEF WalletInv, HoldingsType
<1>4. poolBalance \in [Chains -> [Pools -> Nat]]
  BY <1>1 DEF WalletInv, HoldingsType
<1>5. h1 = h + ((i - x) + (v - y))
  BY <1>3, <1>4, HeldChanges, ZenonT(30)
<1>6. h \in Nat /\ f \in Nat /\ x \in Nat /\ y \in Nat
  BY <1>2, <1>3, <1>4, HeldByType, FlyingType
<1>7. outside \in Nat /\ Supply \in Nat /\ outside + h + f = Supply
  BY <1>1, TokensAreSums, WalletConstants DEF WalletInv, HoldingsType
<1>8. o + i + v = outside + x + y
  BY <1>1 DEF MovesTokens
<1>9. outside' = o /\ idle' = idl1 /\ poolBalance' = bal1 /\ Flying(messages') = f
  BY <1>1 DEF MovesTokens
<1> HIDE DEF x, y, h, h1, f
<1>10. o + h1 + f = Supply
  BY <1>5, <1>6, <1>7, <1>8
<1> HIDE DEF idl1, bal1
<1>11. outside' + Held(idle', poolBalance') + Flying(messages') = Supply
  BY <1>9, <1>10 DEF h1
<1> QED
  BY <1>11, TokensAreSumsNext

\* A transaction of the wallet of c that makes the tokens in a pool v, those of
\* anybody else o and the message of a slot m.
MovesMessage(c, p, v, s, m, o) ==
  /\ idle' = idle
  /\ poolBalance' = [poolBalance EXCEPT ![c][p] = v]
  /\ messages' = [messages EXCEPT ![s] = m]
  /\ outside' = o
  /\ o + v + Carried(m) = outside + poolBalance[c][p] + Carried(messages[s])

LEMMA MovesMessageConserves ==
  ASSUME NEW c \in Chains, NEW p \in Pools, NEW v \in Nat, NEW s \in Slots,
         NEW m \in Message \union {NoMessage}, NEW o \in Nat
  PROVE  WalletInv /\ TokensConserved /\ MovesMessage(c, p, v, s, m, o) => TokensConserved'
<1>1. SUFFICES ASSUME WalletInv, TokensConserved, MovesMessage(c, p, v, s, m, o)
               PROVE  TokensConserved'
  OBVIOUS
<1> DEFINE y == poolBalance[c][p]
           k == Carried(messages[s])
           k1 == Carried(m)
           bal1 == [poolBalance EXCEPT ![c][p] = v]
           msgs1 == [messages EXCEPT ![s] = m]
           h == Held(idle, poolBalance)
           h1 == Held(idle, bal1)
           f == Flying(messages)
           f1 == Flying(msgs1)
<1>2. messages \in [Slots -> Message \union {NoMessage}]
  BY <1>1 DEF WalletInv, MessagesType
<1>3. idle \in [Chains -> Nat]
  BY <1>1 DEF WalletInv, HoldingsType
<1>4. poolBalance \in [Chains -> [Pools -> Nat]]
  BY <1>1 DEF WalletInv, HoldingsType
<1>5. y \in Nat
  BY <1>4
<1>6. h1 = h + (v - y)
  BY <1>3, <1>4, HeldInPoolChanges, Zenon
<1>7. f1 = f + (k1 - k)
  BY <1>2, FlyingChanges, Zenon
<1>8. h \in Nat /\ f \in Nat /\ k \in Nat /\ k1 \in Nat
  BY <1>2, <1>3, <1>4, HeldByType, FlyingType, CarriedType
<1>9. outside \in Nat /\ Supply \in Nat /\ outside + h + f = Supply
  BY <1>1, TokensAreSums, WalletConstants DEF WalletInv, HoldingsType
<1>10. o + v + k1 = outside + y + k
  BY <1>1 DEF MovesMessage
<1>11. outside' = o /\ idle' = idle /\ poolBalance' = bal1 /\ messages' = msgs1
  BY <1>1 DEF MovesMessage
<1> HIDE DEF y, k, k1, bal1, msgs1, h, h1, f, f1
<1>12. o + h1 + f1 = Supply
  BY <1>5, <1>6, <1>7, <1>8, <1>9, <1>10
<1>13. outside' + Held(idle', poolBalance') + Flying(messages') = Supply
  BY <1>11, <1>12 DEF h1, f1
<1> QED
  BY <1>13, TokensAreSumsNext

LEMMA FundsStay == TokensConserved /\ UNCHANGED funds => TokensConserved'
BY DEF TokensConserved, Holdings, InFlightTokens, funds

LEMMA TreasuryConserves ==
  ASSUME WalletInv, TokensConserved, NEW c \in Chains, Treasury(c)
  PROVE  TokensConserved'
<1> DEFINE p == pool[c]
<1>1. /\ p \in Pools /\ outside \in Nat /\ idle[c] \in Nat /\ poolBalance[c][p] \in Nat
      /\ [idle EXCEPT ![c] = idle[c]] = idle
      /\ [poolBalance EXCEPT ![c][p] = poolBalance[c][p]] = poolBalance
  BY DEF WalletInv, HoldingsType, SettingsType
<1>2. CASE \E amount \in Amounts : DepositToPool(c, amount)
  <2>1. PICK amount \in Amounts : DepositToPool(c, amount)
    BY <1>2
  <2>2. amount \in Nat /\ amount <= idle[c]
    BY <2>1, WalletConstants DEF Amounts, DepositToPool
  <2>3. MovesTokens(c, p, idle[c] - amount, poolBalance[c][p] + amount, outside)
    BY <1>1, <2>1, <2>2 DEF MovesTokens, DepositToPool, PoolSupply
  <2>4. idle[c] - amount \in Nat /\ poolBalance[c][p] + amount \in Nat
    BY <1>1, <2>2
  <2> QED
    BY <1>1, <2>3, <2>4, MovesTokensConserves
<1>3. CASE \E request \in Amounts \union {MaxUint}, toWallet \in BOOLEAN :
             WithdrawFromPool(c, request, toWallet)
  <2>1. PICK request \in Amounts \union {MaxUint}, toWallet \in BOOLEAN :
          WithdrawFromPool(c, request, toWallet)
    BY <1>3
  <2>2. request \in Nat /\ PoolCanPay(c, request)
    BY <2>1, WalletConstants DEF Amounts, WithdrawFromPool, PoolWithdraw
  <2> DEFINE paid == PoolPays(c, request)
  <2>3. paid \in Nat /\ paid <= poolBalance[c][p]
    BY <2>2, PoolPaysWhatItHas DEF WalletInv
  <2>4. /\ poolBalance' = [poolBalance EXCEPT ![c][p] = @ - paid]
        /\ UNCHANGED messages
        /\ \/ idle' = [idle EXCEPT ![c] = @ + paid] /\ outside' = outside
           \/ outside' = outside + paid /\ idle' = idle
    BY <2>1 DEF WithdrawFromPool, PoolWithdraw
  <2> HIDE DEF paid, p
  <2>5. \/ MovesTokens(c, p, idle[c] + paid, poolBalance[c][p] - paid, outside)
        \/ MovesTokens(c, p, idle[c], poolBalance[c][p] - paid, outside + paid)
    BY <1>1, <2>3, <2>4 DEF MovesTokens
  <2>6. /\ idle[c] + paid \in Nat /\ poolBalance[c][p] - paid \in Nat
        /\ outside + paid \in Nat
    BY <1>1, <2>3
  <2> QED
    BY <1>1, <2>5, <2>6, MovesTokensConserves
<1>4. CASE \E amount \in Amounts : Withdraw(c, amount)
  <2>1. PICK amount \in Amounts : Withdraw(c, amount)
    BY <1>4
  <2>2. amount \in Nat /\ amount <= idle[c]
    BY <2>1, WalletConstants DEF Amounts, Withdraw
  <2>3. MovesTokens(c, p, idle[c] - amount, poolBalance[c][p], outside + amount)
    BY <1>1, <2>1, <2>2 DEF MovesTokens, Withdraw
  <2>4. idle[c] - amount \in Nat /\ outside + amount \in Nat
    BY <1>1, <2>2
  <2> QED
    BY <1>1, <2>3, <2>4, MovesTokensConserves
<1>5. CASE \E amount \in Amounts : Fund(c, amount)
  <2>1. PICK amount \in Amounts : Fund(c, amount)
    BY <1>5
  <2>2. amount \in Nat /\ amount <= outside
    BY <2>1, WalletConstants DEF Amounts, Fund
  <2>3. MovesTokens(c, p, idle[c] + amount, poolBalance[c][p], outside - amount)
    BY <1>1, <2>1, <2>2 DEF MovesTokens, Fund
  <2>4. idle[c] + amount \in Nat /\ outside - amount \in Nat
    BY <1>1, <2>2
  <2> QED
    BY <1>1, <2>3, <2>4, MovesTokensConserves
<1> QED
  BY <1>2, <1>3, <1>4, <1>5 DEF Treasury

\* The message carries what the pool paid.
LEMMA DepositCrossChainConserves ==
  ASSUME WalletInv, TokensConserved, NEW c \in Chains, NEW dst \in Chains, NEW request \in Nat,
         NEW to \in Addresses, WithdrawFromPoolAndDepositCrossChain(c, request, dst, to)
  PROVE  TokensConserved'
<1> DEFINE paid == PoolPays(c, request)
           p == pool[c]
           m == [src |-> c, dst |-> dst, to |-> to, amount |-> paid, tokens |-> paid,
                 failed |-> FALSE]
<1>1. /\ paid \in Nat /\ p \in Pools /\ poolBalance[c][p] \in Nat /\ paid <= poolBalance[c][p]
      /\ to \in {"wallet", "other"} /\ outside \in Nat
  BY PoolPaysWhatItHas
  DEF WalletInv, HoldingsType, WithdrawFromPoolAndDepositCrossChain, CanRebalance, Addresses
<1>2. /\ UNCHANGED <<outside, idle>>
      /\ poolBalance' = [poolBalance EXCEPT ![c][p] = @ - paid]
  BY DEF WithdrawFromPoolAndDepositCrossChain, PoolWithdraw
<1>3. PICK s \in Slots \ InFlight : messages' = [messages EXCEPT ![s] = m]
  BY DEF WithdrawFromPoolAndDepositCrossChain, Send
<1>4. m \in Message /\ Carried(m) = paid
  BY <1>1 DEF Message, Carried, NoMessage
<1>5. Carried(messages[s]) = 0
  BY <1>3 DEF InFlight, Carried
<1> HIDE DEF paid, p, m
<1>6. /\ MovesMessage(c, p, poolBalance[c][p] - paid, s, m, outside)
      /\ poolBalance[c][p] - paid \in Nat
  BY <1>1, <1>2, <1>3, <1>4, <1>5 DEF MovesMessage
<1> QED
  BY <1>1, <1>3, <1>4, <1>6, MovesMessageConserves

LEMMA RebalanceConserves ==
  ASSUME WalletInv, TokensConserved, NEW c \in Chains, Rebalance(c)
  PROVE  TokensConserved'
<1>1. PICK request \in Amounts \union {MaxUint}, dst \in Chains, to \in Addresses :
        WithdrawFromPoolAndDepositCrossChain(c, request, dst, to)
  BY DEF Rebalance, CallRebalance, OnReport
<1>2. request \in Nat
  BY WalletConstants DEF Amounts
<1> QED
  BY <1>1, <1>2, DepositCrossChainConserves

\* What a message carried is deposited, somebody else's, or still carried.
LEMMA CcipConserves == WalletInv /\ TokensConserved /\ Ccip => TokensConserved'
<1> SUFFICES ASSUME WalletInv, TokensConserved,
                    NEW s \in Slots, Receive(s)
             PROVE  TokensConserved'
  BY DEF Ccip
<1> DEFINE m == messages[s]
           p == pool[m.dst]
<1>1. /\ m \in Message /\ m.dst \in Chains /\ m.tokens \in Nat /\ UNCHANGED idle
      /\ m # NoMessage /\ outside \in Nat
  BY DEF WalletInv, HoldingsType, MessagesType, InFlight, Receive, CcipReceive, DeliverElsewhere,
         CcipReceiveFails, Message
<1>2. p \in Pools /\ poolBalance[m.dst][p] \in Nat /\ Carried(m) = m.tokens
      /\ [poolBalance EXCEPT ![m.dst][p] = poolBalance[m.dst][p]] = poolBalance
  BY <1>1 DEF WalletInv, HoldingsType, SettingsType, Carried
<1>3. CASE CcipReceive(s)
  <2>1. /\ poolBalance' = [poolBalance EXCEPT ![m.dst][p] = @ + m.tokens]
        /\ messages' = [messages EXCEPT ![s] = NoMessage] /\ outside' = outside
    BY <1>3 DEF CcipReceive, PoolSupply
  <2>2. Carried(NoMessage) = 0
    BY DEF Carried
  <2> HIDE DEF p
  <2>3. /\ MovesMessage(m.dst, p, poolBalance[m.dst][p] + m.tokens, s, NoMessage, outside)
        /\ poolBalance[m.dst][p] + m.tokens \in Nat
    BY <1>1, <1>2, <2>1, <2>2 DEF MovesMessage
  <2> QED
    BY <1>1, <1>2, <2>3, MovesMessageConserves
<1>4. CASE CcipReceiveFails(s)
  <2> DEFINE failed == [m EXCEPT !.failed = TRUE]
  <2>1. messages' = [messages EXCEPT ![s] = failed] /\ UNCHANGED <<outside, poolBalance>>
    BY <1>4 DEF CcipReceiveFails
  <2>2. failed \in Message /\ Carried(failed) = m.tokens
    BY <1>1 DEF Message, Carried, NoMessage
  <2> HIDE DEF p, failed
  <2>3. MovesMessage(m.dst, p, poolBalance[m.dst][p], s, failed, outside)
    BY <1>1, <1>2, <2>1, <2>2 DEF MovesMessage
  <2> QED
    BY <1>1, <1>2, <2>2, <2>3, MovesMessageConserves
<1>5. CASE DeliverElsewhere(s)
  <2>1. /\ outside' = outside + m.tokens /\ UNCHANGED poolBalance
        /\ messages' = [messages EXCEPT ![s] = NoMessage]
    BY <1>5 DEF DeliverElsewhere
  <2>2. Carried(NoMessage) = 0
    BY DEF Carried
  <2> HIDE DEF p
  <2>3. /\ MovesMessage(m.dst, p, poolBalance[m.dst][p], s, NoMessage, outside + m.tokens)
        /\ outside + m.tokens \in Nat
    BY <1>1, <1>2, <2>1, <2>2 DEF MovesMessage
  <2> QED
    BY <1>1, <1>2, <2>3, MovesMessageConserves
<1> QED
  BY <1>3, <1>4, <1>5 DEF Receive

LEMMA ConfigureConserves ==
  ASSUME TokensConserved, NEW c \in Chains, Configure(c)
  PROVE  TokensConserved'
<1>1. UNCHANGED funds
  BY DEF Configure, SetSenderForSourceChain, RemoveSenderForSourceChain, SetKeystoneForwarder,
         RemoveKeystoneForwarder, SetWorkflowOwner, RemoveWorkflowOwner, SetPool
<1> QED
  BY <1>1, FundsStay

LEMMA WalletNextConserves ==
  WalletInv /\ TokensConserved /\ [WalletNext]_walletVars => TokensConserved'
<1> SUFFICES ASSUME WalletInv, TokensConserved, [WalletNext]_walletVars
             PROVE  TokensConserved'
  OBVIOUS
<1>1. CASE UNCHANGED walletVars
  BY <1>1, FundsStay DEF walletVars
<1> QED
  BY <1>1, ConfigureConserves, TreasuryConserves, RebalanceConserves, CcipConserves DEF WalletNext

LEMMA WalletInitTokens == WalletInit => TokensConserved
<1>1. [c \in Chains |-> 0] \in [Chains -> Nat] /\ Supply \in Nat
  BY WalletConstants
<1>2. SumFunction([c \in Chains |-> 0]) = 0
  <2> DEFINE z == [c \in Chains |-> 0]
  <2>1. z \in [Chains -> Nat] /\ \A c \in Chains : z[c] = 0
    OBVIOUS
  <2> HIDE DEF z
  <2>2. SumFunction(z) = 0
    BY <2>1, SumOverDomain, SumOfZeros, WalletFinite
  <2> QED
    BY <2>2 DEF z
<1>3. Supply + SumFunction([c \in Chains |-> 0]) = Supply
  BY <1>1, <1>2
<1> QED
  BY <1>1, <1>3, DeployedTokens DEF WalletInit

\* Whatever the owners do, whatever is reported and however often deliveries
\* fail, the tokens of everybody, of the wallets, in the pools and in flight are
\* always as many as at first.
THEOREM TokensAreConserved == WalletSpec => []TokensConserved
<1> QED
  BY WalletInitInv, WalletInitTokens, WalletNextInv, WalletNextConserves, PTL DEF WalletSpec

\* The tokens of anybody else are as before, or more by what a message carried
\* that named somebody else.
Paid ==
  \/ outside' = outside
  \/ \E s \in InFlight :
       /\ messages[s].to = "other" /\ messages'[s] = NoMessage
       /\ outside' = outside + messages[s].tokens

\* Only rebalances and deliveries touch a message, and neither touches what a
\* wallet holds.
LEMMA MessageSteps ==
  ASSUME WalletInv, [WalletNext]_walletVars, messages' # messages
  PROVE  idle' = idle /\ Paid
<1>1. \A c \in Chains : Configure(c) => UNCHANGED messages
  BY DEF Configure, SetSenderForSourceChain, RemoveSenderForSourceChain, SetKeystoneForwarder,
         RemoveKeystoneForwarder, SetWorkflowOwner, RemoveWorkflowOwner, SetPool, funds
<1>2. \A c \in Chains : Treasury(c) => UNCHANGED messages
  BY DEF Treasury, DepositToPool, WithdrawFromPool, Withdraw, Fund
<1>3. \A c \in Chains : Rebalance(c) => UNCHANGED <<idle, outside>>
  BY DEF Rebalance, CallRebalance, OnReport, WithdrawFromPoolAndDepositCrossChain
<1>4. ASSUME NEW s \in Slots, Receive(s)
      PROVE  idle' = idle /\ Paid
  <2>1. CASE CcipReceive(s) \/ CcipReceiveFails(s)
    BY <2>1 DEF CcipReceive, CcipReceiveFails, Paid
  <2>2. CASE DeliverElsewhere(s)
    <3>1. /\ s \in InFlight /\ messages[s].to = "other" /\ idle' = idle
          /\ messages' = [messages EXCEPT ![s] = NoMessage]
          /\ outside' = outside + messages[s].tokens
      BY <2>2 DEF DeliverElsewhere
    <3>2. messages'[s] = NoMessage
      BY <3>1 DEF WalletInv, MessagesType
    <3> QED
      BY <3>1, <3>2 DEF Paid
  <2> QED
    BY <1>4, <2>1, <2>2 DEF Receive
<1> QED
  BY <1>1, <1>2, <1>3, <1>4 DEF WalletNext, Ccip, walletVars, funds, Paid

LEMMA SumsAreNat ==
  WalletInv => /\ outside \in Nat /\ InFlightTokens \in Nat
               /\ SumFunction([c \in Chains |-> Holdings(c)]) \in Nat
BY HeldByType, FlyingType
DEF WalletInv, HoldingsType, MessagesType, Holdings, Held, HeldBy, InFlightTokens, Flying, Carried

LEMMA SameTotal ==
  ASSUME NEW o \in Nat, NEW h \in Nat, NEW f \in Nat, NEW o1 \in Nat, NEW h1 \in Nat,
         NEW f1 \in Nat, NEW s \in Nat, o + h + f = s, o1 + h1 + f1 = s
  PROVE  o1 + f1 + h1 = o + f + h
OBVIOUS

\* A rebalance puts into flight what it takes out of a pool, and a delivery puts
\* into a pool, or gives to the receiver named, what was in flight: neither
\* leaves a token in a wallet.
THEOREM RebalancingIsExact == WalletSpec => RebalancingLeavesNoIdleTokens
<1>1. WalletInv' => /\ outside' \in Nat /\ InFlightTokens' \in Nat
                    /\ SumFunction([c \in Chains |-> Holdings(c)])' \in Nat
  BY HeldByType, FlyingType
  DEF WalletInv, HoldingsType, MessagesType, Holdings, Held, HeldBy, InFlightTokens, Flying,
      Carried
<1>2. ASSUME WalletInv, WalletInv', TokensConserved, TokensConserved',
             [WalletNext]_walletVars, messages' # messages
      PROVE  /\ idle' = idle
             /\ Paid
             /\ outside' + InFlightTokens' + SumFunction([c \in Chains |-> Holdings(c)])'
                  = outside + InFlightTokens + SumFunction([c \in Chains |-> Holdings(c)])
  <2>1. idle' = idle /\ Paid
    BY <1>2, MessageSteps
  <2>2. outside + SumFunction([c \in Chains |-> Holdings(c)]) + InFlightTokens = Supply
    BY <1>2 DEF TokensConserved
  <2>3. outside' + SumFunction([c \in Chains |-> Holdings(c)])' + InFlightTokens' = Supply
    BY <1>2 DEF TokensConserved
  <2>4. /\ outside \in Nat /\ SumFunction([c \in Chains |-> Holdings(c)]) \in Nat
        /\ InFlightTokens \in Nat /\ Supply \in Nat
    BY <1>2, SumsAreNat, WalletConstants
  <2>5. /\ outside' \in Nat /\ InFlightTokens' \in Nat
        /\ SumFunction([c \in Chains |-> Holdings(c)])' \in Nat
    BY <1>1, <1>2
  <2>6. outside' + InFlightTokens' + SumFunction([c \in Chains |-> Holdings(c)])'
          = outside + InFlightTokens + SumFunction([c \in Chains |-> Holdings(c)])
    BY <2>2, <2>3, <2>4, <2>5, SameTotal
  <2> QED
    BY <2>1, <2>6
<1>3. /\ WalletInv /\ WalletInv' /\ TokensConserved /\ TokensConserved'
      /\ [WalletNext]_walletVars
      => [messages' # messages =>
            /\ idle' = idle
            /\ Paid
            /\ outside' + InFlightTokens' + SumFunction([c \in Chains |-> Holdings(c)])'
                 = outside + InFlightTokens + SumFunction([c \in Chains |-> Holdings(c)])]_walletVars
  BY <1>2
<1> QED
  BY <1>3, WalletInvariant, TokensAreConserved, PTL
  DEF WalletSpec, RebalancingLeavesNoIdleTokens, Paid

\* The model numbers the messages in flight by Slots.  Their number never keeps
\* a wallet from sending: what a pool can pay is not in flight.
SlotsSuffice ==
  \A c \in Chains, request \in Amounts \union {MaxUint}, dst \in Chains, to \in Addresses :
    CanRebalance(c, request, dst, to) => Slots \ InFlight # {}

LEMMA FlyingFills ==
  ASSUME WalletInv, Slots \subseteq InFlight
  PROVE  Supply <= Flying(messages)
<1> DEFINE f == [s \in Slots |-> Carried(messages[s])]
<1>1. \A s \in Slots : f[s] \in Nat /\ f[s] > 0
  <2> SUFFICES ASSUME NEW s \in Slots
               PROVE  f[s] \in Nat /\ f[s] > 0
    OBVIOUS
  <2>1. messages[s] # NoMessage /\ messages[s] \in Message \union {NoMessage}
    BY DEF WalletInv, MessagesType, InFlight
  <2>2. messages[s] \in Message /\ Announced(messages[s])
    BY <2>1 DEF WalletInv, MessagesAnnounced
  <2>3. f[s] = messages[s].tokens
    BY <2>1 DEF Carried
  <2> QED
    BY <2>2, <2>3 DEF Message, Announced
<1>2. IsFiniteSet(Slots) /\ Cardinality(Slots) = Supply
  BY FS_Interval, WalletConstants DEF Slots
<1>3. Flying(messages) = SumFunctionOnSet(f, Slots)
  BY DEF Flying
<1> HIDE DEF f
<1> QED
  BY <1>1, <1>2, <1>3, SumOfPositives

\* The bound on messages in flight never keeps a wallet from sending: when all
\* slots are taken, all tokens are in them and no wallet has any in its pool.
THEOREM SlotsAreEnough == WalletSpec => []SlotsSuffice
<1>1. ASSUME WalletInv, TokensConserved, NEW c \in Chains, Slots \subseteq InFlight
      PROVE  poolBalance[c][pool[c]] = 0
  <2> DEFINE p == pool[c]
             h == Held(idle, poolBalance)
             f == Flying(messages)
  <2>1. idle \in [Chains -> Nat] /\ poolBalance \in [Chains -> [Pools -> Nat]]
    BY <1>1 DEF WalletInv, HoldingsType
  <2>2. p \in Pools /\ poolBalance[c] \in [Pools -> Nat] /\ outside \in Nat /\ idle[c] \in Nat
    BY <1>1 DEF WalletInv, HoldingsType, SettingsType
  <2>3. /\ poolBalance[c][p] \in Nat /\ SumFunction(poolBalance[c]) \in Nat
        /\ poolBalance[c][p] <= SumFunction(poolBalance[c])
    BY <2>2, PoolsSum
  <2>4. /\ HeldBy(idle, poolBalance)[c] = idle[c] + SumFunction(poolBalance[c])
        /\ \A d \in Chains : HeldBy(idle, poolBalance)[d] \in Nat
        /\ h = SumFunctionOnSet(HeldBy(idle, poolBalance), Chains)
    BY <2>1, HeldByType
  <2>5. h \in Nat /\ HeldBy(idle, poolBalance)[c] <= h
    <3> HIDE DEF h
    <3> QED
      BY <2>4, SumOfNats, WalletFinite
  <2>6. f \in Nat /\ Supply <= f /\ Supply \in Nat
    BY <1>1, FlyingType, FlyingFills, WalletConstants DEF WalletInv, MessagesType
  <2>7. outside + h + f = Supply
    BY <1>1, TokensAreSums
  <2> HIDE DEF h, f, p
  <2>8. h = 0
    BY <2>2, <2>5, <2>6, <2>7
  <2>9. poolBalance[c][p] = 0
    BY <2>2, <2>3, <2>4, <2>5, <2>8
  <2> QED
    BY <2>9 DEF p
<1>2. WalletInv /\ TokensConserved => SlotsSuffice
  BY <1>1 DEF SlotsSuffice, CanRebalance, PoolCanPay
<1> QED
  BY <1>2, WalletInvariant, TokensAreConserved, PTL

-----------------------------------------------------------------------------
(* The workflow.                                                           *)

LEMMA OrderLength == Len(Order) \in Nat /\ Len(Order) >= 2
BY ManagerAssumption DEF ManagerAssumption

LEMMA OrderRange == \A i \in 1 .. Len(Order) : Order[i] \in Chains
BY ManagerAssumption DEF ManagerAssumption

LEMMA OrderCovers == \A c \in Chains : \E i \in 1 .. Len(Order) : Order[i] = c
BY ManagerAssumption DEF ManagerAssumption

LEMMA OrderOnce == \A i, j \in 1 .. Len(Order) : Order[i] = Order[j] => i = j
BY ManagerAssumption DEF ManagerAssumption

LEMMA ManagerConstants ==
  /\ UnitsPerBps \in Nat /\ UnitsPerBps > 0
  /\ MaxRate \in Nat /\ MinBps \in Nat /\ MaxEnvOps \in Nat
  /\ ChecksReceiver \in BOOLEAN
BY ManagerAssumption DEF ManagerAssumption

-----------------------------------------------------------------------------
(* The invariant of the executions.                                        *)

WorldType == rate \in [Chains -> Rates] /\ envOps \in 0 .. MaxEnvOps

RunsType ==
  /\ pc \in [Runs -> {"idle", "scan", "move", "await", "abandoned"}]
  /\ position \in [Runs -> 1 .. Len(Order) + 1]
  /\ snapshot \in [Runs -> [Chains -> Rates]]
  /\ best \in [Runs -> 0 .. Len(Order)]
  /\ tx \in [Runs -> Txs \union {NoTx}]
  /\ reported \in [Runs -> Nat]
  /\ moved \in [Runs -> Nat]

\* The write an execution waits for, or has given up.
WaitsForWrite(r) ==
  /\ tx[r].status = "pending" => pc[r] \in {"await", "abandoned"}
  /\ pc[r] = "await" => tx[r] \in Txs /\ position[r] <= Len(Order)
  /\ pc[r] = "abandoned" => tx[r].status = "pending"

\* Nothing that has been read so far is better than the best.
ScanSoFar(r) ==
  pc[r] = "scan" =>
    /\ position[r] <= Len(Order)
    /\ best[r] < position[r]
    /\ best[r] = 0 => position[r] = 1
    /\ \A j \in 1 .. Len(Order) :
         j < position[r] => snapshot[r][Order[j]] <= snapshot[r][BestChain(r)]

\* After the scan nothing at all is.
BestOfAll(r) ==
  pc[r] \in {"move", "await", "abandoned"} =>
    /\ best[r] \in 1 .. Len(Order)
    /\ \A c \in Chains : snapshot[r][c] <= snapshot[r][BestChain(r)]

\* What a pending write asks for.
WriteInOrder(r) ==
  tx[r].status = "pending" =>
    /\ tx[r].request > 0 /\ tx[r].src # tx[r].dst
    /\ snapshot[r][tx[r].dst] >= snapshot[r][tx[r].src] + MinBps * UnitsPerBps
    /\ tx[r].dst = BestChain(r)

\* What workflow-go has counted, with the write it waits for counted or not.
CountedSoFar(r) ==
  ChecksReceiver =>
    /\ pc[r] \in {"scan", "move", "abandoned"} => reported[r] = moved[r]
    /\ pc[r] = "await" =>
         moved[r] = reported[r] + (IF tx[r].status = "succeeded" THEN tx[r].request ELSE 0)
    /\ reported[r] <= moved[r]

RunInv(r) ==
  /\ WaitsForWrite(r)
  /\ ScanSoFar(r)
  /\ BestOfAll(r)
  /\ WriteInOrder(r)
  /\ CountedSoFar(r)

ManagerInv ==
  /\ WalletInv
  /\ WorldType
  /\ RunsType
  /\ \A r \in Runs : RunInv(r)

LEMMA EnvOpCounts ==
  envOps \in 0 .. MaxEnvOps /\ (EnvOp \/ UNCHANGED envOps) => envOps' \in 0 .. MaxEnvOps
BY ManagerConstants DEF EnvOp

LEMMA ManagerTypeParts == ManagerTypeOK <=> WalletTypeOK /\ WorldType /\ RunsType
BY DEF ManagerTypeOK, WorldType, RunsType

LEMMA ManagerInitInv == ManagerInit => ManagerInv
<1> SUFFICES ASSUME ManagerInit
             PROVE  ManagerInv
  OBVIOUS
<1>1. WalletInv
  <2>1. PICK rest \in Amounts : \E held \in [Chains -> Amounts] : Deployed(rest, held)
    BY DEF ManagerInit
  <2>2. PICK held \in [Chains -> Amounts] : Deployed(rest, held)
    BY <2>1
  <2>3. rest \in Nat /\ held \in [Chains -> Nat]
    BY WalletConstants DEF Amounts
  <2> QED
    BY <2>2, <2>3, DeployedInv
<1>2. WorldType
  BY ManagerConstants DEF ManagerInit, WorldType
<1>3. RunsType
  BY ManagerConstants, OrderLength DEF ManagerInit, RunsType, Rates
<1>4. ASSUME NEW r \in Runs
      PROVE  RunInv(r)
  BY DEF ManagerInit, RunInv, WaitsForWrite, ScanSoFar, BestOfAll, WriteInOrder, CountedSoFar,
         NoTx
<1> QED
  BY <1>1, <1>2, <1>3, <1>4 DEF ManagerInv

-----------------------------------------------------------------------------
(* Frames.                                                                 *)

\* The variables of execution r are as before.
SameRun(r) ==
  /\ pc'[r] = pc[r] /\ position'[r] = position[r] /\ snapshot'[r] = snapshot[r]
  /\ best'[r] = best[r] /\ tx'[r] = tx[r]
  /\ reported'[r] = reported[r] /\ moved'[r] = moved[r]

LEMMA SameRunKeeps ==
  ASSUME NEW r \in Runs, RunInv(r), SameRun(r)
  PROVE  RunInv(r)'
BY DEF RunInv, SameRun, WaitsForWrite, ScanSoFar, BestOfAll, BestChain, WriteInOrder, CountedSoFar

LEMMA RunsStay ==
  ASSUME RunsType, \A r \in Runs : RunInv(r), UNCHANGED runVars
  PROVE  RunsType' /\ \A r \in Runs : RunInv(r)'
BY SameRunKeeps DEF RunsType, runVars, SameRun

\* What remains to be shown of a step of execution r.
LEMMA StepOfOneRun ==
  ASSUME ManagerInv, NEW r \in Runs, WalletInv', WorldType', RunsType', RunInv(r)',
         \A s \in Runs \ {r} : SameRun(s)
  PROVE  ManagerInv'
<1>1. ASSUME NEW s \in Runs
      PROVE  RunInv(s)'
  BY SameRunKeeps DEF ManagerInv
<1> QED
  BY <1>1 DEF ManagerInv

-----------------------------------------------------------------------------
(* The scan.                                                               *)

LEMMA StartKeeps ==
  ASSUME ManagerInv, NEW r \in Runs, Start(r)
  PROVE  ManagerInv'
<1>1. WalletInv' /\ WorldType'
  BY WalletStays DEF ManagerInv, WorldType, Start
<1>2. RunsType'
  <2>1. pc' \in [Runs -> {"idle", "scan", "move", "await", "abandoned"}]
    BY DEF ManagerInv, RunsType, Start
  <2>2. position' \in [Runs -> 1 .. Len(Order) + 1] /\ best' \in [Runs -> 0 .. Len(Order)]
    BY OrderLength DEF ManagerInv, RunsType, Start
  <2> QED
    BY <2>1, <2>2 DEF ManagerInv, RunsType, Start
<1>3. RunInv(r)'
  BY OrderLength DEF ManagerInv, RunsType, Start, RunInv, WaitsForWrite, ScanSoFar,
         BestOfAll, WriteInOrder, CountedSoFar, NoTx
<1>4. \A s \in Runs \ {r} : SameRun(s)
  BY DEF ManagerInv, RunsType, Start, SameRun
<1> QED
  BY <1>1, <1>2, <1>3, <1>4, StepOfOneRun

\* Chain b is the best before the k-th, or there is none.
BestBefore(rates, k, b) ==
  /\ b < k
  /\ b = 0 => k = 1
  /\ \A j \in 1 .. Len(Order) : j < k => rates[Order[j]] <= rates[Order[b]]

\* Chain b is the best of the first k.
BestOfFirst(rates, k, b) ==
  /\ b \in 1 .. Len(Order) /\ b <= k
  /\ \A j \in 1 .. Len(Order) : j <= k => rates[Order[j]] <= rates[Order[b]]

\* One more rate is read: the chain of that rate, or the best before, is the
\* best of those read.
LEMMA BestOfOneMore ==
  ASSUME NEW k \in 1 .. Len(Order), NEW b \in 0 .. Len(Order),
         NEW before \in [Chains -> Nat], BestBefore(before, k, b), NEW newRate \in Nat,
         NEW b1, \/ b1 = k /\ (b = 0 \/ newRate > before[Order[b]])
                 \/ b1 = b /\ b # 0 /\ ~(newRate > before[Order[b]])
  PROVE  BestOfFirst([before EXCEPT ![Order[k]] = newRate], k, b1)
<1> DEFINE after == [before EXCEPT ![Order[k]] = newRate]
<1>0. /\ b < k
      /\ b = 0 => k = 1
      /\ \A j \in 1 .. Len(Order) : j < k => before[Order[j]] <= before[Order[b]]
  BY DEF BestBefore
<1>1. Order[k] \in Chains /\ after[Order[k]] = newRate
  BY OrderRange
<1>2. ASSUME NEW j \in 1 .. Len(Order), j # k
      PROVE  Order[j] \in Chains /\ after[Order[j]] = before[Order[j]] /\ before[Order[j]] \in Nat
  <2>1. Order[j] \in Chains /\ Order[j] # Order[k]
    BY <1>2, OrderRange, OrderOnce
  <2> QED
    BY <2>1
<1>3. b1 \in 1 .. Len(Order) /\ b1 <= k
  BY <1>0, OrderLength
<1>4. ASSUME NEW j \in 1 .. Len(Order), j <= k
      PROVE  after[Order[j]] <= after[Order[b1]]
  <2>1. CASE b = 0
    <3>1. j = k /\ b1 = k
      BY <1>0, <1>4, <2>1, OrderLength
    <3> QED
      BY <1>1, <3>1
  <2>2. CASE b # 0
    <3>1. after[Order[b]] = before[Order[b]] /\ before[Order[b]] \in Nat
      BY <1>0, <1>2, <2>2, OrderLength
    <3>2. CASE j = k
      BY <1>1, <2>2, <3>1, <3>2
    <3>3. CASE j # k
      <4>1. after[Order[j]] = before[Order[j]] /\ before[Order[j]] \in Nat
        BY <1>2, <3>3
      <4>2. before[Order[j]] <= before[Order[b]]
        BY <1>0, <1>4, <3>3, OrderLength
      <4>3. CASE b1 = k
        BY <1>1, <2>2, <3>1, <4>1, <4>2, <4>3
      <4>4. CASE b1 = b
        BY <3>1, <4>1, <4>2, <4>4
      <4> QED
        BY <4>3, <4>4
    <3> QED
      BY <3>2, <3>3
  <2> QED
    BY <2>1, <2>2
<1> QED
  BY <1>3, <1>4 DEF BestOfFirst

LEMMA ReadRateKeeps ==
  ASSUME ManagerInv, NEW r \in Runs, ReadRate(r)
  PROVE  ManagerInv'
<1> DEFINE k == position[r]
           newRate == rate[Here(r)]
           best1 == IF Better(r, newRate) THEN k ELSE best[r]
           snapshot1 == [snapshot[r] EXCEPT ![Here(r)] = newRate]
           last == k = Len(Order)
           next == IF ~last THEN "scan" ELSE IF snapshot1[Order[best1]] > 0 THEN "move" ELSE "idle"
<1>1. /\ pc[r] = "scan"
      /\ snapshot' = [snapshot EXCEPT ![r] = snapshot1]
      /\ best' = [best EXCEPT ![r] = best1]
      /\ position' = [position EXCEPT ![r] = IF last THEN 1 ELSE @ + 1]
      /\ pc' = [pc EXCEPT ![r] = next]
      /\ UNCHANGED <<walletVars, rate, envOps, tx, reported, moved>>
  BY DEF ReadRate
<1>2. /\ k \in 1 .. Len(Order) + 1 /\ best[r] \in 0 .. Len(Order)
      /\ snapshot[r] \in [Chains -> Rates]
  BY DEF ManagerInv, RunsType
<1>3. k <= Len(Order) /\ BestBefore(snapshot[r], k, best[r])
  BY <1>1 DEF ManagerInv, RunInv, ScanSoFar, BestChain, BestBefore
<1>4. k \in 1 .. Len(Order)
  BY <1>2, <1>3, OrderLength
<1>5. Here(r) = Order[k] /\ Order[k] \in Chains /\ newRate \in Rates
  <2>1. Here(r) = Order[k] /\ Order[k] \in Chains
    BY <1>4, OrderRange DEF Here
  <2> QED
    BY <2>1 DEF ManagerInv, WorldType
<1>6. newRate \in Nat /\ snapshot[r] \in [Chains -> Nat]
  BY <1>2, <1>5, ManagerConstants DEF Rates
<1>7. \/ best1 = k /\ (best[r] = 0 \/ newRate > snapshot[r][Order[best[r]]])
      \/ best1 = best[r] /\ best[r] # 0 /\ ~(newRate > snapshot[r][Order[best[r]]])
  BY DEF Better, BestChain
<1>8. snapshot1 \in [Chains -> Rates] /\ snapshot1 = [snapshot[r] EXCEPT ![Order[k]] = newRate]
  BY <1>2, <1>5
<1> HIDE DEF newRate, best1, snapshot1
<1>9. \/ next = "scan" /\ ~last
      \/ next \in {"move", "idle"} /\ last
  OBVIOUS
<1> HIDE DEF next
<1>10. BestOfFirst(snapshot1, k, best1)
  BY <1>2, <1>3, <1>4, <1>6, <1>7, <1>8, BestOfOneMore
<1>11. /\ pc'[r] = next /\ best'[r] = best1 /\ snapshot'[r] = snapshot1
       /\ position'[r] = IF last THEN 1 ELSE k + 1
       /\ tx'[r] = tx[r] /\ reported'[r] = reported[r] /\ moved'[r] = moved[r]
  BY <1>1 DEF ManagerInv, RunsType
<1>12. RunsType'
  <2>1. pc' \in [Runs -> {"idle", "scan", "move", "await", "abandoned"}]
    BY <1>1, <1>9 DEF ManagerInv, RunsType
  <2>2. position' \in [Runs -> 1 .. Len(Order) + 1]
    BY <1>1, <1>4, OrderLength DEF ManagerInv, RunsType
  <2> QED
    BY <1>1, <1>8, <1>10, <2>1, <2>2 DEF ManagerInv, RunsType, BestOfFirst
<1>13. tx[r].status # "pending"
  BY <1>1 DEF ManagerInv, RunInv, WaitsForWrite
<1>14. WaitsForWrite(r)' /\ WriteInOrder(r)' /\ CountedSoFar(r)'
  BY <1>1, <1>9, <1>11, <1>13
  DEF ManagerInv, RunInv, WaitsForWrite, WriteInOrder, CountedSoFar
<1>15. ScanSoFar(r)'
  <2>1. SUFFICES ASSUME ~last
                 PROVE  ScanSoFar(r)'
    BY <1>9, <1>11 DEF ScanSoFar
  <2>2. position'[r] = k + 1 /\ k + 1 <= Len(Order) /\ best'[r] < k + 1 /\ best'[r] # 0
    BY <1>4, <1>10, <1>11, <2>1, OrderLength DEF BestOfFirst
  <2>3. \A j \in 1 .. Len(Order) : j < k + 1 => snapshot1[Order[j]] <= snapshot1[Order[best1]]
    BY <1>4, <1>10, OrderLength DEF BestOfFirst
  <2> QED
    BY <1>11, <2>2, <2>3 DEF ScanSoFar, BestChain
<1>16. BestOfAll(r)'
  <2>1. SUFFICES ASSUME last
                 PROVE  BestOfAll(r)'
    BY <1>9, <1>11 DEF BestOfAll
  <2>2. \A c \in Chains : snapshot1[c] <= snapshot1[Order[best1]]
    BY <1>10, <2>1, OrderLength, OrderCovers DEF BestOfFirst
  <2> QED
    BY <1>10, <1>11, <2>2 DEF BestOfAll, BestChain, BestOfFirst
<1>17. \A s \in Runs \ {r} : SameRun(s)
  BY <1>1 DEF ManagerInv, RunsType, SameRun
<1>18. WalletInv' /\ WorldType'
  BY <1>1, WalletStays DEF ManagerInv, WorldType
<1> QED
  BY <1>12, <1>14, <1>15, <1>16, <1>17, <1>18, StepOfOneRun DEF RunInv

-----------------------------------------------------------------------------
(* The moves.                                                              *)

\* A difference of so many basis points, rounded down, is at least as large in
\* units.
LEMMA WholeBasisPoints ==
  ASSUME NEW high \in Nat, NEW low \in Nat, low <= high,
         ~((high - low) \div UnitsPerBps < MinBps)
  PROVE  high >= low + MinBps * UnitsPerBps
<1> DEFINE d == high - low
           q == d \div UnitsPerBps
<1>1. d \in Nat /\ UnitsPerBps \in Nat /\ UnitsPerBps > 0 /\ MinBps \in Nat
  BY ManagerConstants
<1> HIDE DEF d
<1>2. q \in Nat /\ q * UnitsPerBps <= d
  BY <1>1
<1>3. q >= MinBps
  BY <1>1, <1>2 DEF d
<1> HIDE DEF q
<1>4. MinBps * UnitsPerBps <= q * UnitsPerBps
  BY <1>1, <1>2, <1>3
<1>5. MinBps * UnitsPerBps \in Nat /\ q * UnitsPerBps \in Nat
  BY <1>1, <1>2
<1>6. MinBps * UnitsPerBps <= d
  BY <1>1, <1>2, <1>4, <1>5
<1> DEFINE threshold == MinBps * UnitsPerBps
<1> HIDE DEF threshold
<1>7. threshold \in Nat /\ threshold <= high - low
  BY <1>5, <1>6 DEF threshold, d
<1>8. high >= low + threshold
  BY <1>7
<1> QED
  BY <1>8 DEF threshold

\* A write is only made for a difference that large, to the best chain.
LEMMA VisitKeeps ==
  ASSUME ManagerInv, NEW r \in Runs, Visit(r)
  PROVE  ManagerInv'
<1> DEFINE c == Here(r)
           balance == poolBalance[c][FirstPool]
           report == [src |-> c, dst |-> BestChain(r), request |-> balance, status |-> "pending"]
<1>1. pc[r] = "move" /\ position[r] \in 1 .. Len(Order)
  BY OrderLength DEF Visit, ManagerInv, RunsType
<1>2. UNCHANGED <<walletVars, rate, envOps, snapshot, best, reported, moved>>
  BY DEF Visit
<1>3. WalletInv' /\ WorldType'
  BY <1>2, WalletStays DEF ManagerInv, WorldType
<1>4. BestOfAll(r) /\ CountedSoFar(r) /\ WaitsForWrite(r)
  BY DEF ManagerInv, RunInv
<1>5. CASE position' = [position EXCEPT ![r] = @ + 1] /\ UNCHANGED <<pc, tx>>
  <2>1. position' \in [Runs -> 1 .. Len(Order) + 1]
    BY <1>1, <1>5, OrderLength DEF ManagerInv, RunsType
  <2>2. RunsType'
    BY <1>2, <1>5, <2>1 DEF ManagerInv, RunsType
  <2>3. RunInv(r)'
    BY <1>1, <1>2, <1>4, <1>5
    DEF RunInv, WaitsForWrite, ScanSoFar, BestOfAll, BestChain, WriteInOrder, CountedSoFar
  <2>4. \A s \in Runs \ {r} : SameRun(s)
    BY <1>2, <1>5, <2>1 DEF ManagerInv, RunsType, SameRun
  <2> QED
    BY <1>3, <2>2, <2>3, <2>4, StepOfOneRun
<1>6. CASE /\ ~(c = BestChain(r) \/ balance = 0 \/ DiffBps(r, c) < MinBps)
           /\ pc' = [pc EXCEPT ![r] = "await"]
           /\ tx' = [tx EXCEPT ![r] = report]
           /\ UNCHANGED position
  <2>1. c \in Chains /\ BestChain(r) \in Chains
    BY <1>1, <1>4, OrderRange DEF Here, BestChain, BestOfAll
  <2>2. balance \in Nat /\ balance > 0 /\ c # BestChain(r)
    BY <1>6, <2>1, WalletConstants DEF ManagerInv, WalletInv, HoldingsType
  <2>3. /\ snapshot[r][c] \in Nat /\ snapshot[r][BestChain(r)] \in Nat
        /\ snapshot[r][c] <= snapshot[r][BestChain(r)]
    BY <1>1, <1>4, <2>1, ManagerConstants DEF ManagerInv, RunsType, Rates, BestOfAll
  <2>4. snapshot[r][BestChain(r)] >= snapshot[r][c] + MinBps * UnitsPerBps
    BY <1>6, <2>3, WholeBasisPoints DEF DiffBps
  <2>5. /\ report \in Txs /\ report.status = "pending" /\ report.request = balance
        /\ report.src = c /\ report.dst = BestChain(r)
    BY <2>1, <2>2 DEF Txs
  <2> HIDE DEF report
  <2>6. pc' \in [Runs -> {"idle", "scan", "move", "await", "abandoned"}]
    BY <1>6 DEF ManagerInv, RunsType
  <2>7. tx' \in [Runs -> Txs \union {NoTx}]
    BY <1>6, <2>5 DEF ManagerInv, RunsType
  <2>8. RunsType'
    BY <1>2, <1>6, <2>6, <2>7 DEF ManagerInv, RunsType
  <2>9. /\ pc'[r] = "await" /\ tx'[r] = report /\ position'[r] = position[r]
        /\ snapshot'[r] = snapshot[r] /\ best'[r] = best[r]
        /\ reported'[r] = reported[r] /\ moved'[r] = moved[r]
    BY <1>2, <1>6 DEF ManagerInv, RunsType
  <2>10. WaitsForWrite(r)' /\ ScanSoFar(r)' /\ BestOfAll(r)'
    BY <1>1, <1>4, <2>5, <2>9 DEF WaitsForWrite, ScanSoFar, BestOfAll, BestChain
  <2>11. WriteInOrder(r)'
    BY <2>2, <2>4, <2>5, <2>9 DEF WriteInOrder, BestChain
  <2>12. CountedSoFar(r)'
    BY <1>1, <1>4, <2>5, <2>9 DEF CountedSoFar, ManagerInv, RunsType
  <2>13. \A s \in Runs \ {r} : SameRun(s)
    BY <1>2, <1>6 DEF ManagerInv, RunsType, SameRun
  <2> QED
    BY <1>3, <2>8, <2>10, <2>11, <2>12, <2>13, StepOfOneRun DEF RunInv
<1> QED
  BY <1>5, <1>6 DEF Visit

-----------------------------------------------------------------------------
(* The writes.                                                             *)

\* A step that settles the pending write of r as its transaction does, and ends
\* an execution that has given the write up.
SettlesWrite(r, status) ==
  /\ tx' = [tx EXCEPT ![r].status = status]
  /\ pc' = [pc EXCEPT ![r] = IF @ = "abandoned" THEN "idle" ELSE @]
  /\ UNCHANGED <<rate, position, snapshot, best, reported>>

\* What holds of a pending write and its execution.
LEMMA PendingWrite ==
  ASSUME ManagerInv, NEW r \in Runs, tx[r].status = "pending"
  PROVE  /\ tx[r] \in Txs /\ pc[r] \in {"await", "abandoned"}
         /\ tx[r].src \in Chains /\ tx[r].dst \in Chains /\ tx[r].request \in Nat
BY DEF ManagerInv, RunsType, RunInv, WaitsForWrite, Txs, NoTx

\* Settling a write keeps what is known of the execution, if the amount is
\* counted as moved just when the write succeeds.
LEMMA SettlingKeeps ==
  ASSUME ManagerInv, NEW r \in Runs, NEW status \in {"succeeded", "reverted", "failed"},
         tx[r].status = "pending", SettlesWrite(r, status),
         moved' = [moved EXCEPT ![r] = IF status = "succeeded" THEN @ + tx[r].request ELSE @],
         WalletInv', WorldType'
  PROVE  ManagerInv'
<1> DEFINE settled == [tx[r] EXCEPT !.status = status]
<1>1. /\ tx[r] \in Txs /\ pc[r] \in {"await", "abandoned"} /\ tx[r].request \in Nat
      /\ reported[r] \in Nat /\ moved[r] \in Nat
  BY PendingWrite DEF ManagerInv, RunsType
<1>2. settled \in Txs /\ settled.status = status /\ settled.request = tx[r].request
  BY <1>1 DEF Txs
<1>3. tx' = [tx EXCEPT ![r] = settled]
  BY DEF SettlesWrite
<1> HIDE DEF settled
<1>4. pc' \in [Runs -> {"idle", "scan", "move", "await", "abandoned"}]
  BY DEF SettlesWrite, ManagerInv, RunsType
<1>5. tx' \in [Runs -> Txs \union {NoTx}] /\ moved' \in [Runs -> Nat]
  BY <1>1, <1>2, <1>3 DEF ManagerInv, RunsType
<1>6. RunsType'
  BY <1>4, <1>5 DEF SettlesWrite, ManagerInv, RunsType
<1>7. /\ pc'[r] = (IF pc[r] = "abandoned" THEN "idle" ELSE "await")
      /\ tx'[r] = settled /\ position'[r] = position[r]
      /\ snapshot'[r] = snapshot[r] /\ best'[r] = best[r] /\ reported'[r] = reported[r]
      /\ moved'[r] = IF status = "succeeded" THEN moved[r] + tx[r].request ELSE moved[r]
  BY <1>1, <1>3 DEF SettlesWrite, ManagerInv, RunsType
<1>8. RunInv(r)
  BY DEF ManagerInv
<1>9. WaitsForWrite(r)' /\ ScanSoFar(r)' /\ BestOfAll(r)' /\ WriteInOrder(r)'
  BY <1>1, <1>2, <1>7, <1>8
  DEF RunInv, WaitsForWrite, ScanSoFar, BestOfAll, BestChain, WriteInOrder
<1>10. CountedSoFar(r)'
  BY <1>1, <1>2, <1>7, <1>8 DEF RunInv, CountedSoFar
<1>11. \A s \in Runs \ {r} : SameRun(s)
  BY DEF SettlesWrite, ManagerInv, RunsType, SameRun
<1> QED
  BY <1>6, <1>9, <1>10, <1>11, StepOfOneRun DEF RunInv

LEMMA ExecuteReportKeeps ==
  ASSUME ManagerInv, NEW r \in Runs, ExecuteReport(r)
  PROVE  ManagerInv'
<1> DEFINE t == tx[r]
<1>1. t.status = "pending" /\ t.src \in Chains /\ t.dst \in Chains /\ t.request \in Nat
  BY PendingWrite DEF ExecuteReport
<1>2. WorldType'
  BY DEF ExecuteReport, ManagerInv, WorldType
<1>3. CASE ReportAccepted(t.src, t.request, t.dst, "wallet")
  <2>1. WalletInv'
    BY <1>1, <1>3, DepositCrossChainKeeps DEF ManagerInv, ExecuteReport, OnReport, Addresses
  <2>2. SettlesWrite(r, "succeeded") /\ moved' = [moved EXCEPT ![r] = @ + t.request]
    BY <1>3 DEF ExecuteReport, SettlesWrite
  <2> QED
    BY <1>1, <1>2, <2>1, <2>2, SettlingKeeps
<1>4. CASE ~ReportAccepted(t.src, t.request, t.dst, "wallet")
  <2>1. WalletInv'
    BY <1>4, WalletStays DEF ManagerInv, ExecuteReport
  <2>2. SettlesWrite(r, "reverted") /\ moved' = [moved EXCEPT ![r] = @]
    BY <1>4 DEF ExecuteReport, SettlesWrite, ManagerInv, RunsType
  <2> QED
    BY <1>1, <1>2, <2>1, <2>2, SettlingKeeps
<1> QED
  BY <1>3, <1>4

LEMMA LoseReportKeeps ==
  ASSUME ManagerInv, NEW r \in Runs, LoseReport(r)
  PROVE  ManagerInv'
<1>1. WalletInv' /\ WorldType'
  BY WalletStays, EnvOpCounts DEF ManagerInv, WorldType, LoseReport
<1>2. SettlesWrite(r, "failed") /\ moved' = [moved EXCEPT ![r] = @] /\ tx[r].status = "pending"
  BY DEF LoseReport, SettlesWrite, ManagerInv, RunsType
<1> QED
  BY <1>1, <1>2, SettlingKeeps

\* The answer: workflow-go counts the write just when it was executed.
LEMMA ResponseKeeps ==
  ASSUME ManagerInv, NEW r \in Runs, Response(r)
  PROVE  ManagerInv'
<1>1. /\ pc[r] = "await" /\ tx[r].status # "pending"
      /\ UNCHANGED <<walletVars, rate, envOps, snapshot, best, tx, moved>>
  BY DEF Response
<1>2. /\ tx[r] \in Txs /\ tx[r].request \in Nat
      /\ position[r] \in 1 .. Len(Order)
      /\ reported[r] \in Nat /\ moved[r] \in Nat
  BY <1>1, OrderLength DEF ManagerInv, RunsType, RunInv, WaitsForWrite, Txs
<1>3. RunInv(r) /\ WalletInv' /\ WorldType'
  BY <1>1, WalletStays DEF ManagerInv, WorldType
<1>4. CASE Counted(tx[r])
  <2>1. /\ pc' = [pc EXCEPT ![r] = "move"]
        /\ position' = [position EXCEPT ![r] = @ + 1]
        /\ reported' = [reported EXCEPT ![r] = @ + tx[r].request]
    BY <1>4 DEF Response
  <2>2. pc' \in [Runs -> {"idle", "scan", "move", "await", "abandoned"}]
    BY <2>1 DEF ManagerInv, RunsType
  <2>3. position' \in [Runs -> 1 .. Len(Order) + 1]
    BY <1>2, <2>1, OrderLength DEF ManagerInv, RunsType
  <2>4. reported' \in [Runs -> Nat]
    BY <1>2, <2>1 DEF ManagerInv, RunsType
  <2>5. RunsType'
    BY <1>1, <2>2, <2>3, <2>4 DEF ManagerInv, RunsType
  <2>6. /\ pc'[r] = "move" /\ tx'[r] = tx[r] /\ snapshot'[r] = snapshot[r]
        /\ best'[r] = best[r] /\ moved'[r] = moved[r]
        /\ reported'[r] = reported[r] + tx[r].request
    BY <1>1, <2>1 DEF ManagerInv, RunsType
  <2>7. WaitsForWrite(r)' /\ ScanSoFar(r)' /\ BestOfAll(r)' /\ WriteInOrder(r)'
    BY <1>1, <1>3, <2>6
    DEF RunInv, WaitsForWrite, ScanSoFar, BestOfAll, BestChain, WriteInOrder
  <2>8. CountedSoFar(r)'
    BY <1>1, <1>2, <1>3, <1>4, <2>6 DEF RunInv, CountedSoFar, Counted
  <2>9. \A s \in Runs \ {r} : SameRun(s)
    BY <1>1, <2>1 DEF ManagerInv, RunsType, SameRun
  <2> QED
    BY <1>3, <2>5, <2>7, <2>8, <2>9, StepOfOneRun DEF RunInv
<1>5. CASE ~Counted(tx[r])
  <2>1. pc' = [pc EXCEPT ![r] = "idle"] /\ UNCHANGED <<position, reported>>
    BY <1>5 DEF Response
  <2>2. RunsType'
    BY <1>1, <2>1 DEF ManagerInv, RunsType
  <2>3. RunInv(r)'
    BY <1>1, <1>2, <1>3, <2>1
    DEF ManagerInv, RunsType, RunInv, WaitsForWrite, ScanSoFar, BestOfAll, WriteInOrder,
        CountedSoFar
  <2>4. \A s \in Runs \ {r} : SameRun(s)
    BY <1>1, <2>1 DEF ManagerInv, RunsType, SameRun
  <2> QED
    BY <1>3, <2>2, <2>3, <2>4, StepOfOneRun
<1> QED
  BY <1>4, <1>5

\* An execution that ends, or gives up waiting.
LEMMA EndingKeeps ==
  ASSUME ManagerInv, NEW r \in Runs, CallFails(r) \/ Complete(r)
  PROVE  ManagerInv'
<1>1. UNCHANGED <<walletVars, rate, position, snapshot, best, tx, reported, moved>>
  BY DEF CallFails, Complete
<1>2. \/ pc' = [pc EXCEPT ![r] = "idle"] /\ tx[r].status # "pending"
      \/ pc' = [pc EXCEPT ![r] = "abandoned"] /\ pc[r] = "await" /\ tx[r].status = "pending"
  BY DEF CallFails, Complete, ManagerInv, RunInv, WaitsForWrite
<1>3. WalletInv' /\ WorldType'
  BY <1>1, WalletStays, EnvOpCounts DEF ManagerInv, WorldType, CallFails, Complete
<1>4. RunsType'
  BY <1>1, <1>2 DEF ManagerInv, RunsType
<1>5. RunInv(r)'
  BY <1>1, <1>2 DEF ManagerInv, RunsType, RunInv, WaitsForWrite, ScanSoFar, BestOfAll, BestChain,
                    WriteInOrder, CountedSoFar
<1>6. \A s \in Runs \ {r} : SameRun(s)
  BY <1>1, <1>2 DEF ManagerInv, RunsType, SameRun
<1> QED
  BY <1>3, <1>4, <1>5, <1>6, StepOfOneRun

-----------------------------------------------------------------------------
(* The environment.                                                        *)

LEMMA EnvironmentKeeps ==
  ASSUME ManagerInv,
         \/ \E c \in Chains, newRate \in Rates : SetCurrentLiquidityRate(c, newRate)
         \/ \E c \in Chains : Owner(c) \/ Outsider(c)
         \/ Deliver
         \/ UNCHANGED managerVars
  PROVE  ManagerInv'
<1>1. UNCHANGED runVars
  BY DEF SetCurrentLiquidityRate, Owner, Outsider, Deliver, managerVars
<1>2. WorldType'
  BY EnvOpCounts
  DEF ManagerInv, WorldType, SetCurrentLiquidityRate, Owner, Outsider, Deliver, managerVars
<1>3. WalletInv'
  BY ConfigureKeeps, TreasuryKeeps, RebalanceKeeps, CcipKeeps, WalletStays
  DEF ManagerInv, Rebalance, SetCurrentLiquidityRate, Owner, Outsider, Deliver, managerVars
<1> QED
  BY <1>1, <1>2, <1>3, RunsStay DEF ManagerInv

-----------------------------------------------------------------------------
(* The theorems of the workflow.                                           *)

LEMMA ManagerNextInv == ManagerInv /\ [ManagerNext]_managerVars => ManagerInv'
BY StartKeeps, ReadRateKeeps, VisitKeeps, ExecuteReportKeeps, LoseReportKeeps, ResponseKeeps,
   EndingKeeps, EnvironmentKeeps, Zenon DEF ManagerNext, Execution

LEMMA ManagerInvariant == ManagerSpec => []ManagerInv
<1> QED
  BY ManagerInitInv, ManagerNextInv, PTL DEF ManagerSpec

\* The wallets, the executions and their writes keep their types.
THEOREM ManagerTypesHold == ManagerSpec => []ManagerTypeOK
<1>1. ManagerInv => ManagerTypeOK
  BY ManagerTypeParts, WalletTypeParts DEF ManagerInv, WalletInv
<1> QED
  BY <1>1, ManagerInvariant, PTL

\* A pending write moves a positive amount to another chain, the best of those
\* its execution has read, better by at least the configured basis points.
THEOREM PendingWritesRespectThreshold == ManagerSpec => []WritesRespectThreshold
<1>1. ASSUME ManagerInv, NEW r \in Runs, tx[r].status = "pending"
      PROVE  /\ tx[r].request > 0 /\ tx[r].src # tx[r].dst
             /\ snapshot[r][tx[r].dst] >= snapshot[r][tx[r].src] + MinBps * UnitsPerBps
             /\ \A c \in Chains : snapshot[r][c] <= snapshot[r][tx[r].dst]
  <2>1. WriteInOrder(r) /\ BestOfAll(r) /\ pc[r] \in {"await", "abandoned"}
    BY <1>1, PendingWrite DEF ManagerInv, RunInv
  <2> QED
    BY <1>1, <2>1 DEF WriteInOrder, BestOfAll
<1>2. ManagerInv => WritesRespectThreshold
  BY <1>1 DEF WritesRespectThreshold
<1> QED
  BY <1>2, ManagerInvariant, PTL

\* workflow-go, which looks at the receiver's status, reports no more than what
\* its writes have moved.
THEOREM GoReportsWhatMoved ==
  ASSUME ChecksReceiver
  PROVE  ManagerSpec => []ReportedWasMoved
<1>1. ManagerInv => ReportedWasMoved
  BY DEF ManagerInv, RunInv, CountedSoFar, ReportedWasMoved
<1> QED
  BY <1>1, ManagerInvariant, PTL

\* ... and all of it, when it has gone through the chains.
THEOREM GoReportsAllThatMoved ==
  ASSUME ChecksReceiver
  PROVE  ManagerSpec => []CompletedReportIsExact
<1>1. ManagerInv => CompletedReportIsExact
  BY DEF ManagerInv, RunInv, CountedSoFar, CompletedReportIsExact
<1> QED
  BY <1>1, ManagerInvariant, PTL

\* Also with the workflow on top of the wallets, whatever it asks for and when
\* its writes land, a message announces what it carries.
THEOREM ManagedMessagesDeliverable == ManagerSpec => []MessagesAreDeliverable
<1>1. ManagerInv => MessagesAreDeliverable
  BY AnnouncedIsDeliverable DEF ManagerInv
<1> QED
  BY <1>1, ManagerInvariant, PTL

\* Of what an execution does, only its report touches the wallets; the owners
\* and anybody else do as they like.
LEMMA ManagerNextConserves ==
  ManagerInv /\ TokensConserved /\ [ManagerNext]_managerVars => TokensConserved'
<1> SUFFICES ASSUME ManagerInv, TokensConserved, [ManagerNext]_managerVars
             PROVE  TokensConserved'
  OBVIOUS
<1>1. ASSUME NEW r \in Runs, Execution(r)
      PROVE  TokensConserved'
  <2>1. CASE ExecuteReport(r)
    <3>1. tx[r].src \in Chains /\ tx[r].dst \in Chains /\ tx[r].request \in Nat
      BY <2>1, PendingWrite DEF ExecuteReport
    <3>2. \/ WithdrawFromPoolAndDepositCrossChain(tx[r].src, tx[r].request, tx[r].dst, "wallet")
          \/ UNCHANGED walletVars
      BY <2>1 DEF ExecuteReport, OnReport
    <3> QED
      BY <3>1, <3>2, DepositCrossChainConserves, FundsStay DEF ManagerInv, walletVars, Addresses
  <2>2. CASE ~ExecuteReport(r)
    <3>1. UNCHANGED walletVars
      BY <1>1, <2>2 DEF Execution, Start, ReadRate, Visit, LoseReport, Response, CallFails,
                        Complete
    <3> QED
      BY <3>1, FundsStay DEF walletVars
  <2> QED
    BY <2>1, <2>2
<1>2. ASSUME NEW c \in Chains, Owner(c) \/ Outsider(c)
      PROVE  TokensConserved'
  BY <1>2, TreasuryConserves, ConfigureConserves, RebalanceConserves
  DEF Owner, Outsider, Rebalance, ManagerInv
<1>3. CASE Deliver
  BY <1>3, CcipConserves DEF Deliver, ManagerInv
<1>4. CASE \/ \E c \in Chains, newRate \in Rates : SetCurrentLiquidityRate(c, newRate)
           \/ UNCHANGED managerVars
  BY <1>4, FundsStay DEF SetCurrentLiquidityRate, managerVars, walletVars
<1> QED
  BY <1>1, <1>2, <1>3, <1>4 DEF ManagerNext

LEMMA ManagerInitTokens == ManagerInit => TokensConserved
<1> SUFFICES ASSUME ManagerInit
             PROVE  TokensConserved
  OBVIOUS
<1>1. PICK rest \in Amounts : \E held \in [Chains -> Amounts] :
        rest + SumFunction(held) = Supply /\ Deployed(rest, held)
  BY DEF ManagerInit
<1>2. PICK held \in [Chains -> Amounts] :
        rest + SumFunction(held) = Supply /\ Deployed(rest, held)
  BY <1>1
<1>3. rest \in Nat /\ held \in [Chains -> Nat]
  BY WalletConstants DEF Amounts
<1> QED
  BY <1>2, <1>3, DeployedTokens

\* The workflow, however its executions overlap, fail or are given up, neither
\* creates nor loses a token, wherever the tokens were at first.
THEOREM ManagedTokensConserved == ManagerSpec => []TokensConserved
<1> QED
  BY ManagerInitInv, ManagerInitTokens, ManagerNextInv, ManagerNextConserves, PTL DEF ManagerSpec

=============================================================================
