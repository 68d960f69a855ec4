--------------------------- MODULE StablecoinProofs ---------------------------
(***************************************************************************)
(* For every number of executions, holders and amounts: the tokens on both *)
(* chains and between them are those that were issued, no balance is       *)
(* overdrawn, a rejection the issuance workflow answers is final, and no   *)
(* mint of the workflow reaches an account that is blacklisted when its    *)
(* report executes.                                                        *)
(***************************************************************************)
EXTENDS StablecoinIssuance, Sums

-----------------------------------------------------------------------------
(* The constants.                                                          *)

LEMMA StablecoinConstants ==
  /\ Staging \in Holders /\ Accounts \subseteq Holders
  /\ Amounts \subseteq Nat \ {0}
  /\ Fee \in Nat /\ LinkFunding \in Nat
BY StablecoinAssumption DEF StablecoinAssumption, Holders

LEMMA HoldersFinite == IsFiniteSet(Accounts) /\ IsFiniteSet(Holders)
<1>1. IsFiniteSet(Accounts)
  BY StablecoinAssumption DEF StablecoinAssumption
<1> QED
  BY <1>1, FS_AddElement DEF Holders

LEMMA TransfersFinite == IsFiniteSet(Transfers)
<1> DEFINE f == [t \in Transfers |-> <<t.beneficiary, t.amount>>]
<1>1. IsFiniteSet(Accounts) /\ IsFiniteSet(Amounts)
  BY StablecoinAssumption DEF StablecoinAssumption
<1>2. IsFiniteSet(Accounts \X Amounts)
  BY <1>1, FS_Product
<1>3. f \in Injection(Transfers, Accounts \X Amounts)
  <2>1. f \in [Transfers -> Accounts \X Amounts]
    BY DEF Transfers
  <2>2. ASSUME NEW t \in Transfers, NEW u \in Transfers, f[t] = f[u]
        PROVE  t = u
    BY <2>2 DEF Transfers
  <2> HIDE DEF f
  <2> QED
    BY <2>1, <2>2 DEF Injection, IsInjective
<1> QED
  BY <1>2, <1>3, FS_Injection

-----------------------------------------------------------------------------
(* The inductive invariant.                                                *)

LedgerType ==
  /\ balance \in [Holders -> Nat]
  /\ remoteBalance \in [Accounts -> Nat]
  /\ bridging \in [Transfers -> Nat]
  /\ link \in Nat
  /\ issued \in Int /\ others \in Int

RulesType ==
  /\ minters \subseteq Parties /\ burners \subseteq Parties
  /\ blacklist \subseteq Holders

LedgerInv == LedgerType /\ RulesType /\ SupplyIsIssued

ExecutionType ==
  /\ pc \in [Executions -> {"idle", "validate", "mint", "transfer"}]
  /\ message \in [Executions -> Messages \union {NoMessage}]
  /\ \A e \in Executions : pc[e] # "idle" => message[e] \in Messages
  /\ write \in [Executions -> Statuses]
  /\ outcome \in [Executions -> Outcomes]
  /\ minted \in [Executions -> BOOLEAN]
  /\ sent \in [Executions -> BOOLEAN]

\* What a pending mint needs to know of its message.
PendingHasMessage ==
  \A e \in Executions : write[e] = "pending" => message[e] \in Messages

\* What the place of an execution says about its writes.
Progress(e) ==
  /\ pc[e] # "idle" => outcome[e] = "none"
  /\ pc[e] = "validate" => ~minted[e] /\ ~sent[e] /\ write[e] = "none"
  /\ pc[e] = "mint" => ~sent[e] /\ (minted[e] => write[e] = "executed")
  /\ pc[e] = "transfer" => (sent[e] => write[e] = "executed")
  /\ outcome[e] \in {"POR_INSUFFICIENT_RESERVES", "ACE_POLICY_REJECTED"} =>
       ~minted[e] /\ ~sent[e] /\ write[e] # "pending"
  /\ outcome[e] = "ACE_POLICY_REJECTED_CCIP" => ~sent[e] /\ write[e] # "pending"

InProgress == \A e \in Executions : Progress(e)

BoundsType ==
  /\ reserve \in Reserves
  /\ triggers \in 0 .. MaxTriggers
  /\ envOps \in 0 .. MaxEnvOps

IssuanceInv ==
  LedgerInv /\ ExecutionType /\ PendingHasMessage /\ InProgress /\ BoundsType

-----------------------------------------------------------------------------
(* Sums of the ledger, as operators of the values that change.             *)

Load(n) == [t \in Transfers |-> t.amount * n[t]]

LEMMA TimesNat == \A a, b \in Nat : a * b \in Nat
OBVIOUS

LEMMA TimesNext == \A a, b \in Int : a * (b + 1) = a * b + a /\ a * (b - 1) = a * b - a
OBVIOUS

LEMMA LoadType ==
  ASSUME NEW n \in [Transfers -> Nat]
  PROVE  Load(n) \in [Transfers -> Nat]
<1>1. ASSUME NEW t \in Transfers
      PROVE  t.amount * n[t] \in Nat
  <2>1. t.amount \in Nat /\ n[t] \in Nat
    BY StablecoinConstants DEF Transfers
  <2> QED
    BY <2>1, TimesNat
<1> QED
  BY <1>1 DEF Load

\* Messages of one transfer join or leave the bridge one at a time.
LEMMA LoadChanges ==
  ASSUME NEW n \in [Transfers -> Nat], NEW t \in Transfers
  PROVE  /\ SumFunction(Load(n)) \in Nat
         /\ SumFunction(Load([n EXCEPT ![t] = @ + 1])) = SumFunction(Load(n)) + t.amount
         /\ n[t] > 0 =>
              SumFunction(Load([n EXCEPT ![t] = @ - 1])) = SumFunction(Load(n)) - t.amount
<1>1. t.amount \in Nat /\ n[t] \in Nat
  BY StablecoinConstants DEF Transfers
<1>2. Load(n) \in [Transfers -> Nat] /\ Load(n)[t] = t.amount * n[t]
  BY LoadType DEF Load
<1>3. SumFunction(Load(n)) \in Nat
  BY <1>2, TransfersFinite, SumOfUpdate
<1>4. ASSUME NEW k \in Nat
      PROVE  SumFunction(Load([n EXCEPT ![t] = k]))
               = SumFunction(Load(n)) + (t.amount * k - t.amount * n[t])
  <2>1. t.amount * k \in Nat
    BY <1>1, TimesNat
  <2>2. Load([n EXCEPT ![t] = k]) = [Load(n) EXCEPT ![t] = t.amount * k]
    BY DEF Load
  <2>3. SumFunction([Load(n) EXCEPT ![t] = t.amount * k])
          = SumFunction(Load(n)) + (t.amount * k - Load(n)[t])
    BY <1>2, <2>1, TransfersFinite, SumOfUpdate
  <2> QED
    BY <1>2, <2>2, <2>3
<1> DEFINE x == t.amount * n[t]
           sum == SumFunction(Load(n))
<1>5. x \in Nat
  BY <1>1, TimesNat
<1>6. t.amount * (n[t] + 1) = x + t.amount /\ t.amount * (n[t] - 1) = x - t.amount
  BY <1>1, TimesNext
<1>7. SumFunction(Load([n EXCEPT ![t] = @ + 1])) = sum + t.amount
  <2>1. n[t] + 1 \in Nat
    BY <1>1
  <2>2. SumFunction(Load([n EXCEPT ![t] = n[t] + 1])) = sum + (t.amount * (n[t] + 1) - x)
    BY <2>1, <1>4
  <2> HIDE DEF x, sum
  <2> QED
    BY <1>1, <1>3, <1>5, <1>6, <2>2 DEF sum
<1>8. ASSUME n[t] > 0
      PROVE  SumFunction(Load([n EXCEPT ![t] = @ - 1])) = sum - t.amount
  <2>1. n[t] - 1 \in Nat
    BY <1>1, <1>8
  <2>2. SumFunction(Load([n EXCEPT ![t] = n[t] - 1])) = sum + (t.amount * (n[t] - 1) - x)
    BY <2>1, <1>4
  <2> HIDE DEF x, sum
  <2> QED
    BY <1>1, <1>3, <1>5, <1>6, <2>2 DEF sum
<1> QED
  BY <1>3, <1>7, <1>8

-----------------------------------------------------------------------------
(* The initial state.                                                      *)

LEMMA InitLedgerInv == StablecoinInit => LedgerInv
<1> SUFFICES ASSUME StablecoinInit PROVE LedgerInv
  OBVIOUS
<1>1. LedgerType /\ RulesType
  BY StablecoinConstants DEF StablecoinInit, LedgerType, RulesType, Parties
<1>2. SumFunction(balance) = 0
  <2>1. balance \in [Holders -> Nat] /\ \A h \in Holders : balance[h] = 0
    BY <1>1 DEF StablecoinInit, LedgerType
  <2> QED
    BY <2>1, HoldersFinite, SumOfZeroFunction
<1>3. SumFunction(remoteBalance) = 0
  <2>1. remoteBalance \in [Accounts -> Nat] /\ \A a \in Accounts : remoteBalance[a] = 0
    BY <1>1 DEF StablecoinInit, LedgerType
  <2> QED
    BY <2>1, HoldersFinite, SumOfZeroFunction
<1>4. SumFunction(Load(bridging)) = 0
  <2>1. Load(bridging) \in [Transfers -> Nat]
    BY <1>1, LoadType DEF LedgerType
  <2>2. ASSUME NEW t \in Transfers
        PROVE  Load(bridging)[t] = 0
    <3>1. t.amount \in Nat /\ bridging[t] = 0 /\ Load(bridging)[t] = t.amount * bridging[t]
      BY StablecoinConstants DEF StablecoinInit, Load, Transfers
    <3> QED
      BY <3>1
  <2> QED
    BY <2>1, <2>2, TransfersFinite, SumOfZeroFunction
<1>5. totalSupply = 0 /\ issued = 0 /\ others = 0
  BY DEF StablecoinInit
<1> QED
  BY <1>1, <1>2, <1>3, <1>4, <1>5 DEF LedgerInv, SupplyIsIssued, InBridge, Load

LEMMA InitIssuanceInv == IssuanceInit => IssuanceInv
<1> SUFFICES ASSUME IssuanceInit PROVE IssuanceInv
  OBVIOUS
<1>1. ExecutionType /\ PendingHasMessage /\ InProgress
  BY DEF IssuanceInit, ExecutionType, PendingHasMessage, InProgress, Progress, Statuses, Outcomes
<1>2. BoundsType
  BY IssuanceAssumption DEF IssuanceAssumption, IssuanceInit, BoundsType
<1> QED
  BY <1>1, <1>2, InitLedgerInv DEF IssuanceInit, IssuanceInv

-----------------------------------------------------------------------------
(* The ledger.                                                             *)

\* What the sums are, in numbers.
LEMMA LedgerSums ==
  LedgerInv =>
    /\ totalSupply \in Nat /\ issued \in Int /\ others \in Int
    /\ SumFunction(balance) \in Nat /\ SumFunction(remoteBalance) \in Nat
    /\ SumFunction(Load(bridging)) \in Nat
    /\ totalSupply = SumFunction(balance)
    /\ issued + others
         = SumFunction(balance) + SumFunction(Load(bridging)) + SumFunction(remoteBalance)
    /\ \A h \in Holders : balance[h] \in Nat /\ balance[h] <= SumFunction(balance)
<1> SUFFICES ASSUME LedgerInv
             PROVE  /\ totalSupply \in Nat /\ issued \in Int /\ others \in Int
                    /\ SumFunction(balance) \in Nat /\ SumFunction(remoteBalance) \in Nat
                    /\ SumFunction(Load(bridging)) \in Nat
                    /\ totalSupply = SumFunction(balance)
                    /\ issued + others = SumFunction(balance) + SumFunction(Load(bridging))
                                         + SumFunction(remoteBalance)
                    /\ \A h \in Holders : balance[h] \in Nat
                                          /\ balance[h] <= SumFunction(balance)
  OBVIOUS
<1>1. /\ balance \in [Holders -> Nat] /\ remoteBalance \in [Accounts -> Nat]
      /\ issued \in Int /\ others \in Int
  BY DEF LedgerInv, LedgerType
<1>2. Load(bridging) \in [Transfers -> Nat]
  BY LoadType DEF LedgerInv, LedgerType
<1>3. SumFunction(balance) \in Nat /\ \A h \in Holders : balance[h] <= SumFunction(balance)
  BY <1>1, HoldersFinite, SumOverDomain, SumOfNats
<1>4. SumFunction(remoteBalance) \in Nat
  BY <1>1, HoldersFinite, SumOverDomain, SumOfNats
<1>5. SumFunction(Load(bridging)) \in Nat
  BY <1>2, TransfersFinite, SumOverDomain, SumOfNats
<1>6. /\ totalSupply = SumFunction(balance)
      /\ totalSupply + SumFunction(Load(bridging)) + SumFunction(remoteBalance) = issued + others
  BY DEF LedgerInv, SupplyIsIssued, InBridge, Load
<1> QED
  BY <1>1, <1>3, <1>4, <1>5, <1>6

\* Where the rules stay, the ledger's part is what is to be shown.
LEMMA RulesStay == RulesType /\ UNCHANGED rules => RulesType'
BY DEF RulesType, rules

\* Tokens made or burned on the source chain, by d of them, on whosever account.
Adds(account, d) ==
  /\ balance' = [balance EXCEPT ![account] = @ + d]
  /\ totalSupply' = totalSupply + d
  /\ issued' \in Int /\ others' \in Int
  /\ issued' + others' = issued + others + d
  /\ UNCHANGED <<remoteBalance, bridging, link, rules>>

LEMMA AddsStep ==
  ASSUME NEW account \in Holders, NEW d \in Int
  PROVE  LedgerInv /\ Adds(account, d) /\ balance[account] + d >= 0 => LedgerInv'
<1>1. SUFFICES ASSUME LedgerInv, Adds(account, d), balance[account] + d >= 0
               PROVE  LedgerInv'
  OBVIOUS
<1>2. balance \in [Holders -> Nat]
  BY <1>1 DEF LedgerInv, LedgerType
<1>3. balance[account] + d \in Nat /\ balance[account] \in Nat
  BY <1>1, <1>2
<1>4. SumFunction([balance EXCEPT ![account] = balance[account] + d])
        = SumFunction(balance) + ((balance[account] + d) - balance[account])
  BY <1>2, <1>3, HoldersFinite, SumOfUpdate
<1>5. /\ balance' = [balance EXCEPT ![account] = balance[account] + d]
      /\ totalSupply' = totalSupply + d
      /\ issued' \in Int /\ others' \in Int /\ issued' + others' = issued + others + d
      /\ UNCHANGED <<remoteBalance, bridging, link, rules>>
  BY <1>1 DEF Adds
<1>6. balance' \in [Holders -> Nat]
  BY <1>2, <1>3, <1>5
<1>7. LedgerType' /\ RulesType'
  BY <1>1, <1>5, <1>6, RulesStay DEF LedgerInv, LedgerType
<1>8. SumFunction(balance') = SumFunction(balance) + ((balance[account] + d) - balance[account])
  BY <1>4, <1>5
<1>9. /\ totalSupply' = SumFunction(balance')
      /\ totalSupply' + SumFunction(Load(bridging)) + SumFunction(remoteBalance)
           = issued' + others'
  BY <1>1, <1>3, <1>5, <1>8, LedgerSums
<1> QED
  BY <1>5, <1>7, <1>9 DEF LedgerInv, SupplyIsIssued, InBridge, Load

\* The mints and burns of the contracts, of others with a role, and of holders.
LEMMA ProcessMintStep ==
  ASSUME LedgerInv, NEW account \in Holders, NEW amount \in Amounts,
         ProcessMint(account, amount) \/ MintByOther(account, amount)
  PROVE  LedgerInv'
<1>1. amount \in Int /\ amount >= 0
  BY StablecoinConstants
<1>2. issued \in Int /\ others \in Int /\ balance[account] \in Nat
  BY LedgerSums
<1>3. Adds(account, amount)
  BY <1>1, <1>2 DEF Adds, ProcessMint, MintByOther
<1>4. balance[account] + amount >= 0
  BY <1>1, <1>2
<1> QED
  BY <1>1, <1>3, <1>4, AddsStep

LEMMA BurnStep ==
  ASSUME LedgerInv, NEW account \in Holders, NEW amount \in Amounts,
         ProcessRedeem(account, amount) \/ Burn(account, amount)
  PROVE  LedgerInv'
<1>1. amount \in Int /\ -amount \in Int /\ amount <= balance[account]
  BY StablecoinConstants DEF ProcessRedeem, Burn
<1>2. issued \in Int /\ others \in Int /\ balance[account] \in Nat /\ totalSupply \in Nat
  BY LedgerSums
<1>3. /\ balance' = [balance EXCEPT ![account] = @ - amount]
      /\ totalSupply' = totalSupply - amount
      /\ UNCHANGED <<remoteBalance, bridging, link, rules>>
      /\ \/ issued' = issued - amount /\ others' = others
         \/ others' = others - amount /\ issued' = issued
  BY DEF ProcessRedeem, Burn
<1>4. balance' = [balance EXCEPT ![account] = @ + (-amount)]
  <2>1. balance[account] - amount = balance[account] + (-amount)
    BY <1>1, <1>2
  <2> QED
    BY <1>3, <2>1
<1>5. /\ totalSupply' = totalSupply + (-amount)
      /\ issued' \in Int /\ others' \in Int /\ issued' + others' = issued + others + (-amount)
  BY <1>1, <1>2, <1>3
<1>6. Adds(account, -amount)
  BY <1>3, <1>4, <1>5 DEF Adds
<1>7. balance[account] + (-amount) >= 0
  BY <1>1, <1>2
<1> QED
  BY <1>1, <1>6, <1>7, AddsStep

\* The balances of two holders are set.
Moved(b, from, to, v, w) == [b EXCEPT ![from] = v, ![to] = w]

LEMMA MoveSum ==
  ASSUME NEW b \in [Holders -> Nat], NEW from \in Holders, NEW to \in Holders, from # to,
         NEW v \in Nat, NEW w \in Nat
  PROVE  /\ Moved(b, from, to, v, w) \in [Holders -> Nat]
         /\ SumFunction(Moved(b, from, to, v, w))
              = SumFunction(b) + (v - b[from]) + (w - b[to])
<1> DEFINE between == [b EXCEPT ![from] = v]
           after == [b EXCEPT ![from] = v, ![to] = w]
<1>1. between \in [Holders -> Nat] /\ between[to] = b[to]
  OBVIOUS
<1>2. after = [between EXCEPT ![to] = w]
  OBVIOUS
<1>3. SumFunction(between) = SumFunction(b) + (v - b[from])
  BY HoldersFinite, SumOfUpdate
<1> HIDE DEF between, after
<1>4. SumFunction([between EXCEPT ![to] = w]) = SumFunction(between) + (w - between[to])
  BY <1>1, HoldersFinite, SumOfUpdate
<1>5. after \in [Holders -> Nat]
  BY <1>1, <1>2
<1>6. SumFunction(after) = SumFunction(b) + (v - b[from]) + (w - b[to])
  BY <1>1, <1>2, <1>3, <1>4
<1> QED
  BY <1>5, <1>6 DEF after, Moved

LEMMA TransferStep ==
  ASSUME NEW from \in Holders, NEW to \in Holders, NEW amount \in Amounts
  PROVE  LedgerInv /\ Transfer(from, to, amount) => LedgerInv'
<1>1. SUFFICES ASSUME LedgerInv, Transfer(from, to, amount) PROVE LedgerInv'
  OBVIOUS
<1>2. amount \in Nat
  BY StablecoinConstants
<1>3. /\ balance' = [balance EXCEPT ![from] = @ - amount, ![to] = @ + amount]
      /\ from # to /\ amount <= balance[from]
      /\ UNCHANGED <<totalSupply, remoteBalance, bridging, issued, others, link, rules>>
  BY <1>1 DEF Transfer
<1>4. balance \in [Holders -> Nat]
  BY <1>1 DEF LedgerInv, LedgerType
<1> DEFINE v == balance[from] - amount
           w == balance[to] + amount
<1>5. v \in Nat /\ w \in Nat /\ balance[from] \in Nat /\ balance[to] \in Nat
  BY <1>2, <1>3, <1>4
<1>6. balance' = Moved(balance, from, to, v, w)
  BY <1>3, <1>4 DEF Moved
<1>7. (v - balance[from]) + (w - balance[to]) = 0
  BY <1>2, <1>5
<1> HIDE DEF v, w
<1>8. /\ balance' \in [Holders -> Nat]
      /\ SumFunction(balance') = SumFunction(balance) + (v - balance[from]) + (w - balance[to])
  <2>1. from # to
    BY <1>3
  <2> QED
    BY <1>4, <1>5, <1>6, <2>1, MoveSum
<1>9. SumFunction(balance') = SumFunction(balance)
  BY <1>1, <1>5, <1>7, <1>8, LedgerSums
<1>10. LedgerType' /\ RulesType'
  BY <1>1, <1>3, <1>8, RulesStay DEF LedgerInv, LedgerType
<1>11. SupplyIsIssued'
  BY <1>1, <1>3, <1>9 DEF LedgerInv, SupplyIsIssued, InBridge
<1> QED
  BY <1>10, <1>11 DEF LedgerInv

\* What the consumer does not hold comes from the sender; what is burned here is
\* on its way.
LEMMA SendingSum ==
  ASSUME LedgerInv, NEW sender \in Holders, NEW beneficiary \in Accounts, NEW amount \in Amounts,
         ProcessCCIPReport(sender, beneficiary, amount)
  PROVE  /\ balance' \in [Holders -> Nat]
         /\ SumFunction(balance') = SumFunction(balance) - amount
<1>1. amount \in Nat /\ Staging \in Holders /\ balance \in [Holders -> Nat]
  BY StablecoinConstants DEF LedgerInv, LedgerType
<1> DEFINE k == Missing(amount)
<1>2. balance[sender] \in Nat /\ balance[Staging] \in Nat /\ SumFunction(balance) \in Nat
  BY <1>1, LedgerSums
<1>3. k \in Nat /\ balance[Staging] + k - amount \in Nat
      /\ (k = 0 => balance[Staging] >= amount)
  BY <1>1, <1>2 DEF Missing
<1>4. /\ IF sender = Staging THEN k = 0 ELSE k <= balance[sender]
      /\ balance' = [balance EXCEPT ![sender] = @ - k, ![Staging] = @ + k - amount]
  BY DEF ProcessCCIPReport, CanSend
<1> HIDE DEF k
<1>5. CASE sender = Staging
  <2>1. balance' = [balance EXCEPT ![Staging] = balance[Staging] - amount]
    <3>1. k = 0
      BY <1>4, <1>5
    <3>2. \A h \in Holders :
            balance'[h] = IF h = Staging THEN (balance[h] - k) + k - amount ELSE balance[h]
      BY <1>1, <1>4, <1>5
    <3>3. balance' = [h \in Holders |-> balance'[h]]
      BY <1>1, <1>4
    <3>4. (balance[Staging] - k) + k - amount = balance[Staging] - amount
      BY <1>1, <1>2, <3>1
    <3> QED
      BY <1>1, <3>2, <3>3, <3>4
  <2>2. balance[Staging] - amount \in Nat
    BY <1>1, <1>2, <1>3, <1>4, <1>5
  <2>3. SumFunction(balance')
          = SumFunction(balance) + ((balance[Staging] - amount) - balance[Staging])
    BY <1>1, <2>1, <2>2, HoldersFinite, SumOfUpdate
  <2>4. balance' \in [Holders -> Nat]
    BY <1>1, <2>1, <2>2
  <2> QED
    BY <1>1, <1>2, <2>3, <2>4
<1>6. CASE sender # Staging
  <2> DEFINE v == balance[sender] - k
             w == balance[Staging] + k - amount
  <2>1. v \in Nat /\ w \in Nat
    BY <1>2, <1>3, <1>4, <1>6
  <2>2. balance' = Moved(balance, sender, Staging, v, w)
    BY <1>1, <1>4, <1>6 DEF Moved
  <2>3. (v - balance[sender]) + (w - balance[Staging]) = -amount
    BY <1>1, <1>2, <1>3
  <2> HIDE DEF v, w
  <2>4. /\ balance' \in [Holders -> Nat]
        /\ SumFunction(balance')
             = SumFunction(balance) + (v - balance[sender]) + (w - balance[Staging])
    BY <1>1, <1>6, <2>1, <2>2, MoveSum
  <2>5. SumFunction(balance') = SumFunction(balance) - amount
    BY <1>1, <1>2, <2>1, <2>3, <2>4
  <2> QED
    BY <2>4, <2>5
<1> QED
  BY <1>5, <1>6

LEMMA ProcessCCIPReportStep ==
  ASSUME LedgerInv, NEW sender \in Holders, NEW beneficiary \in Accounts, NEW amount \in Amounts,
         ProcessCCIPReport(sender, beneficiary, amount)
  PROVE  LedgerInv'
<1> DEFINE t == [beneficiary |-> beneficiary, amount |-> amount]
<1>1. amount \in Nat /\ t \in Transfers /\ t.amount = amount
  BY StablecoinConstants DEF Transfers
<1>2. /\ totalSupply' = totalSupply - amount
      /\ link' = link - Fee /\ link >= Fee
      /\ bridging' = [bridging EXCEPT ![t] = @ + 1]
      /\ UNCHANGED <<remoteBalance, issued, others, rules>>
  BY DEF ProcessCCIPReport, CanSend
<1>3. bridging \in [Transfers -> Nat] /\ link \in Nat
  BY DEF LedgerInv, LedgerType
<1> HIDE DEF t
<1>4. balance' \in [Holders -> Nat] /\ SumFunction(balance') = SumFunction(balance) - amount
  BY SendingSum
<1>5. SumFunction(Load(bridging')) = SumFunction(Load(bridging)) + amount
  BY <1>1, <1>2, <1>3, LoadChanges
<1>6. LedgerType'
  <2>1. bridging' \in [Transfers -> Nat]
    BY <1>1, <1>2, <1>3
  <2>2. link' \in Nat
    BY <1>2, <1>3, StablecoinConstants
  <2> QED
    BY <1>2, <1>4, <2>1, <2>2 DEF LedgerInv, LedgerType
<1>7. /\ totalSupply' = SumFunction(balance')
      /\ totalSupply' + SumFunction(Load(bridging')) + SumFunction(remoteBalance)
           = issued + others
  BY <1>1, <1>2, <1>4, <1>5, LedgerSums
<1>8. SupplyIsIssued'
  BY <1>2, <1>7 DEF SupplyIsIssued, InBridge, Load
<1> QED
  BY <1>2, <1>6, <1>8, RulesStay DEF LedgerInv

\* What was on its way is minted there.
LEMMA ReleaseOrMintStep ==
  ASSUME NEW t \in Transfers
  PROVE  LedgerInv /\ ReleaseOrMint(t) => LedgerInv'
<1>1. SUFFICES ASSUME LedgerInv, ReleaseOrMint(t) PROVE LedgerInv'
  OBVIOUS
<1>2. t.amount \in Nat /\ t.beneficiary \in Accounts
  BY StablecoinConstants DEF Transfers
<1>3. /\ bridging[t] > 0 /\ bridging' = [bridging EXCEPT ![t] = @ - 1]
      /\ remoteBalance' = [remoteBalance EXCEPT ![t.beneficiary] = @ + t.amount]
      /\ UNCHANGED <<balance, totalSupply, issued, others, link, rules>>
  BY <1>1 DEF ReleaseOrMint
<1>4. remoteBalance \in [Accounts -> Nat] /\ bridging \in [Transfers -> Nat]
  BY <1>1 DEF LedgerInv, LedgerType
<1> DEFINE b == t.beneficiary
           amount == t.amount
<1> HIDE DEF b, amount
<1>5. remoteBalance[b] + amount \in Nat /\ b \in Accounts /\ amount \in Nat
  BY <1>2, <1>4 DEF b, amount
<1>6. remoteBalance' = [remoteBalance EXCEPT ![b] = remoteBalance[b] + amount]
  BY <1>3 DEF b, amount
<1>7. SumFunction(remoteBalance')
        = SumFunction(remoteBalance) + ((remoteBalance[b] + amount) - remoteBalance[b])
  BY <1>4, <1>5, <1>6, HoldersFinite, SumOfUpdate
<1>8. SumFunction(Load(bridging')) = SumFunction(Load(bridging)) - amount
  BY <1>3, <1>4, LoadChanges DEF amount
<1>9. LedgerType'
  <2>1. remoteBalance' \in [Accounts -> Nat]
    BY <1>4, <1>5, <1>6
  <2>2. bridging' \in [Transfers -> Nat]
    BY <1>3, <1>4
  <2> QED
    BY <1>1, <1>3, <2>1, <2>2 DEF LedgerInv, LedgerType
<1>10. SupplyIsIssued'
  <2>1. /\ totalSupply = SumFunction(balance)
        /\ totalSupply + SumFunction(Load(bridging')) + SumFunction(remoteBalance')
             = issued + others
    BY <1>1, <1>4, <1>5, <1>7, <1>8, LedgerSums
  <2> QED
    BY <1>3, <2>1 DEF SupplyIsIssued, InBridge, Load
<1> QED
  BY <1>1, <1>3, <1>9, <1>10, RulesStay DEF LedgerInv

\* Tokens that others make or burn on the destination chain.
LEMMA RemoteStep ==
  ASSUME LedgerInv, NEW account \in Accounts, NEW amount \in Amounts,
         MintRemote(account, amount) \/ BurnRemote(account, amount)
  PROVE  LedgerInv'
<1>1. amount \in Nat /\ remoteBalance \in [Accounts -> Nat] /\ remoteBalance[account] \in Nat
  BY StablecoinConstants DEF LedgerInv, LedgerType
<1>2. PICK v \in Nat : /\ remoteBalance' = [remoteBalance EXCEPT ![account] = v]
                       /\ others' = others + (v - remoteBalance[account])
  <2>1. CASE MintRemote(account, amount)
    <3>1. remoteBalance[account] + amount \in Nat
          /\ amount = (remoteBalance[account] + amount) - remoteBalance[account]
      BY <1>1
    <3> QED
      BY <2>1, <3>1 DEF MintRemote
  <2>2. CASE BurnRemote(account, amount)
    <3>1. /\ remoteBalance[account] - amount \in Nat
          /\ others \in Int
          /\ others - amount = others + ((remoteBalance[account] - amount) - remoteBalance[account])
      BY <1>1, <2>2, LedgerSums DEF BurnRemote
    <3> QED
      BY <2>2, <3>1 DEF BurnRemote
  <2> QED
    BY <2>1, <2>2
<1>3. UNCHANGED <<balance, totalSupply, bridging, issued, link, rules>>
  BY DEF MintRemote, BurnRemote
<1>4. SumFunction(remoteBalance') = SumFunction(remoteBalance) + (v - remoteBalance[account])
  BY <1>1, <1>2, HoldersFinite, SumOfUpdate
<1>5. remoteBalance' \in [Accounts -> Nat] /\ others' \in Int
  BY <1>1, <1>2, LedgerSums
<1>6. LedgerType'
  BY <1>3, <1>5 DEF LedgerInv, LedgerType
<1>7. /\ totalSupply = SumFunction(balance)
      /\ totalSupply + SumFunction(Load(bridging)) + SumFunction(remoteBalance')
           = issued + others'
  BY <1>1, <1>2, <1>4, LedgerSums
<1>8. SupplyIsIssued'
  BY <1>3, <1>7 DEF SupplyIsIssued, InBridge, Load
<1> QED
  BY <1>3, <1>6, <1>8, RulesStay DEF LedgerInv

LEMMA LedgerFrame == LedgerInv /\ UNCHANGED ledger /\ RulesType' => LedgerInv'
BY DEF LedgerInv, LedgerType, SupplyIsIssued, InBridge, ledger

LEMMA TokensFrame == LedgerInv /\ UNCHANGED tokenVars => LedgerInv'
BY LedgerFrame, RulesStay DEF LedgerInv, tokenVars

\* What owners, holders, anybody else and CCIP do on their own.
LEMMA OutsideStep ==
  ASSUME LedgerInv, Govern \/ Hold \/ CallConsumers \/ Bridge
  PROVE  LedgerInv'
<1>1. CASE Govern
  <2>1. UNCHANGED ledger
    BY <1>1 DEF Govern, GrantMintRole, RevokeMintRole, GrantBurnRole, RevokeBurnRole,
                GrantMintAndBurnRoles, AddToBlacklist, RemoveFromBlacklist
  <2>2. RulesType'
    BY <1>1 DEF Govern, GrantMintRole, RevokeMintRole, GrantBurnRole, RevokeBurnRole,
                GrantMintAndBurnRoles, AddToBlacklist, RemoveFromBlacklist, LedgerInv, RulesType
  <2> QED BY <2>1, <2>2, LedgerFrame
<1>2. CASE Hold
  <2>1. PICK amount \in Amounts :
          \/ \E from, to \in Holders : Transfer(from, to, amount)
          \/ \E account \in Holders : MintByOther(account, amount) \/ Burn(account, amount)
          \/ \E account \in Accounts : MintRemote(account, amount) \/ BurnRemote(account, amount)
    BY <1>2 DEF Hold
  <2> QED BY <2>1, TransferStep, ProcessMintStep, BurnStep, RemoteStep
<1>3. CASE CallConsumers
  <2>1. PICK amount \in Amounts :
          \/ \E account \in Holders :
               ProcessMint(account, amount) \/ ProcessRedeem(account, amount)
          \/ \E sender \in Holders, beneficiary \in Accounts :
               ProcessCCIPReport(sender, beneficiary, amount)
    BY <1>3 DEF CallConsumers
  <2> QED BY <2>1, ProcessMintStep, BurnStep, ProcessCCIPReportStep
<1>4. CASE Bridge
  BY <1>4, ReleaseOrMintStep DEF Bridge
<1> QED BY <1>1, <1>2, <1>3, <1>4

\* A mint report of an execution that is executed: it names an account that
\* passed the policy, and credits nobody else.
ObeysBlacklist(e) ==
  minted'[e] /\ ~minted[e] =>
    /\ MintRecipient(e) \notin blacklist
    /\ \A h \in Holders : balance'[h] = balance[h] +
         (IF h = MintRecipient(e) THEN message[e].amount ELSE 0)

LEMMA ExecuteMintLedger ==
  ASSUME LedgerInv, NEW e \in Executions, message[e] \in Messages, ExecuteMint(e)
  PROVE  LedgerInv' /\ (minted' # minted => ObeysBlacklist(e))
<1>1. MintRecipient(e) \in Holders /\ message[e].amount \in Amounts /\ message[e].amount \in Nat
  BY StablecoinConstants DEF MintRecipient, Messages, Holders
<1>2. CASE MintAccepted(MintRecipient(e))
  <2>1. /\ ProcessMint(MintRecipient(e), message[e].amount)
        /\ MintRecipient(e) \notin blacklist
    BY <1>2 DEF ExecuteMint, Mint, AccountAllowed
  <2>2. LedgerInv'
    BY <1>1, <2>1, ProcessMintStep
  <2> DEFINE a == MintRecipient(e)
             n == message[e].amount
  <2>3. balance' = [balance EXCEPT ![a] = @ + n] /\ balance \in [Holders -> Nat]
    BY <2>1 DEF ProcessMint, LedgerInv, LedgerType
  <2>4. a \in Holders /\ n \in Nat
    BY <1>1
  <2> HIDE DEF a, n
  <2>5. \A h \in Holders : balance'[h] = balance[h] + (IF h = a THEN n ELSE 0)
    BY <2>3, <2>4
  <2> QED
    BY <2>1, <2>2, <2>5 DEF ObeysBlacklist, a, n
<1>3. CASE ~MintAccepted(MintRecipient(e))
  <2>1. UNCHANGED <<tokenVars, minted>>
    BY <1>3 DEF ExecuteMint
  <2> QED BY <2>1, TokensFrame
<1> QED BY <1>2, <1>3

LEMMA ExecuteTransferLedger ==
  ASSUME LedgerInv, NEW e \in Executions, message[e] \in Messages, ExecuteTransfer(e)
  PROVE  LedgerInv'
<1>1. /\ message[e].amount \in Amounts /\ message[e].beneficiary \in Accounts
      /\ Staging \in Holders
  BY StablecoinConstants DEF Messages
<1>2. CASE TransferAccepted(message[e].amount)
  <2>1. ProcessCCIPReport(Staging, message[e].beneficiary, message[e].amount)
    BY <1>2 DEF ExecuteTransfer, TransferCrossChain
  <2> QED BY <2>1, <1>1, ProcessCCIPReportStep
<1>3. CASE ~TransferAccepted(message[e].amount)
  <2>1. UNCHANGED tokenVars
    BY <1>3 DEF ExecuteTransfer
  <2> QED BY <2>1, TokensFrame
<1> QED BY <1>2, <1>3

\* Every step of the workflow's specification, seen from the ledger.
LEMMA LedgerStep ==
  ASSUME LedgerInv, PendingHasMessage, [IssuanceNext]_issuanceVars
  PROVE  LedgerInv'
<1>1. CASE UNCHANGED issuanceVars
  <2>1. UNCHANGED tokenVars
    BY <1>1 DEF issuanceVars
  <2> QED BY <2>1, TokensFrame
<1>2. CASE \E newReserve \in Reserves : SetReserve(newReserve)
  <2>1. UNCHANGED tokenVars
    BY <1>2 DEF SetReserve
  <2> QED BY <2>1, TokensFrame
<1>3. CASE Outside
  BY <1>3, OutsideStep DEF Outside
<1>4. CASE DeliverTransfer
  BY <1>4, OutsideStep DEF DeliverTransfer
<1>5. ASSUME NEW e \in Executions, ExecuteMint(e)
      PROVE  LedgerInv'
  BY <1>5, ExecuteMintLedger DEF ExecuteMint, Writing, PendingHasMessage
<1>6. ASSUME NEW e \in Executions, ExecuteTransfer(e)
      PROVE  LedgerInv'
  BY <1>6, ExecuteTransferLedger DEF ExecuteTransfer, Writing, PendingHasMessage
<1>7. ASSUME NEW e \in Executions,
             \/ \E m \in Messages : Trigger(e, m)
             \/ ValidateProofOfReserve(e) \/ MintAnswered(e) \/ TransferAnswered(e)
             \/ ReserveUnavailable(e) \/ LoseWrite(e) \/ WriteGivenUp(e)
      PROVE  LedgerInv'
  <2>1. UNCHANGED tokenVars
    BY <1>7 DEF Trigger, ValidateProofOfReserve, MintAnswered, TransferAnswered,
                ReserveUnavailable, LoseWrite, WriteGivenUp
  <2> QED BY <2>1, TokensFrame
<1> QED
  BY <1>1, <1>2, <1>3, <1>4, <1>5, <1>6, <1>7 DEF IssuanceNext, Execution

\* Only the execution of its mint report makes an execution's mint done.
LEMMA MintStep ==
  ASSUME LedgerInv, ExecutionType, PendingHasMessage, [IssuanceNext]_issuanceVars,
         NEW e \in Executions
  PROVE  ObeysBlacklist(e)
<1>1. SUFFICES ASSUME minted'[e], ~minted[e]
               PROVE  ObeysBlacklist(e)
  BY DEF ObeysBlacklist
<1>2. ASSUME NEW f \in Executions, ExecuteMint(f)
      PROVE  f = e
  <2>1. minted' = minted \/ minted' = [minted EXCEPT ![f] = TRUE]
    BY <1>2 DEF ExecuteMint
  <2> QED
    BY <1>1, <2>1 DEF ExecutionType
<1>3. ASSUME NEW f \in Executions, \E m \in Messages : Trigger(f, m)
      PROVE  FALSE
  <2>1. minted' = [minted EXCEPT ![f] = FALSE]
    BY <1>3 DEF Trigger
  <2> QED
    BY <1>1, <2>1 DEF ExecutionType
<1>4. ASSUME NEW f \in Executions,
             \/ ValidateProofOfReserve(f) \/ MintAnswered(f) \/ TransferAnswered(f)
             \/ ReserveUnavailable(f) \/ LoseWrite(f) \/ WriteGivenUp(f) \/ ExecuteTransfer(f)
      PROVE  FALSE
  BY <1>1, <1>4 DEF ValidateProofOfReserve, MintAnswered, TransferAnswered, ReserveUnavailable,
                    LoseWrite, WriteGivenUp, ExecuteTransfer
<1>5. ASSUME \/ \E newReserve \in Reserves : SetReserve(newReserve)
             \/ Outside \/ DeliverTransfer \/ UNCHANGED issuanceVars
      PROVE  FALSE
  BY <1>1, <1>5 DEF SetReserve, Outside, DeliverTransfer, issuanceVars, execVars
<1>6. ExecuteMint(e)
  BY <1>2, <1>3, <1>4, <1>5 DEF IssuanceNext, Execution
<1>7. message[e] \in Messages
  BY <1>6 DEF ExecuteMint, Writing, PendingHasMessage
<1> QED
  BY <1>1, <1>6, <1>7, ExecuteMintLedger

-----------------------------------------------------------------------------
(* The executions.                                                         *)

ExecutionInv == ExecutionType /\ PendingHasMessage /\ InProgress

\* An execution whose variables a step leaves alone stays as it was.
LEMMA OthersKept ==
  ASSUME NEW e \in Executions, Progress(e),
         pc'[e] = pc[e], write'[e] = write[e], outcome'[e] = outcome[e],
         minted'[e] = minted[e], sent'[e] = sent[e]
  PROVE  Progress(e)'
BY DEF Progress

LEMMA ExecFrame ==
  ASSUME ExecutionInv, UNCHANGED execVars
  PROVE  ExecutionInv'
BY DEF ExecutionInv, ExecutionType, PendingHasMessage, InProgress, Progress, execVars

LEMMA TriggerStep ==
  ASSUME ExecutionInv, NEW e \in Executions, NEW m \in Messages, Trigger(e, m)
  PROVE  ExecutionInv'
<1> USE DEF ExecutionInv, Trigger
<1>1. ExecutionType'
  BY DEF ExecutionType, Statuses, Outcomes
<1>2. PendingHasMessage'
  BY DEF ExecutionType, PendingHasMessage
<1>3. Progress(e)'
  BY DEF ExecutionType, Progress
<1>4. ASSUME NEW f \in Executions \ {e} PROVE Progress(f)'
  BY OthersKept DEF ExecutionType, InProgress
<1> QED BY <1>1, <1>2, <1>3, <1>4 DEF InProgress

LEMMA ValidateProofOfReserveStep ==
  ASSUME ExecutionInv, NEW e \in Executions, ValidateProofOfReserve(e)
  PROVE  ExecutionInv'
<1> USE DEF ExecutionInv, ValidateProofOfReserve, Answer
<1>1. ExecutionType'
  BY DEF ExecutionType, Statuses, Outcomes
<1>2. PendingHasMessage'
  BY DEF ExecutionType, PendingHasMessage
<1>3. Progress(e)'
  BY DEF ExecutionType, InProgress, Progress
<1>4. ASSUME NEW f \in Executions \ {e} PROVE Progress(f)'
  BY OthersKept DEF ExecutionType, InProgress
<1> QED BY <1>1, <1>2, <1>3, <1>4 DEF InProgress

LEMMA ReserveUnavailableStep ==
  ASSUME ExecutionInv, NEW e \in Executions, ReserveUnavailable(e)
  PROVE  ExecutionInv'
<1> USE DEF ExecutionInv, ReserveUnavailable, Answer
<1>1. ExecutionType'
  BY DEF ExecutionType, Statuses, Outcomes
<1>2. PendingHasMessage'
  BY DEF ExecutionType, PendingHasMessage
<1>3. Progress(e)'
  BY DEF ExecutionType, InProgress, Progress
<1>4. ASSUME NEW f \in Executions \ {e} PROVE Progress(f)'
  BY OthersKept DEF ExecutionType, InProgress
<1> QED BY <1>1, <1>2, <1>3, <1>4 DEF InProgress

LEMMA ExecuteMintStep ==
  ASSUME ExecutionInv, NEW e \in Executions, ExecuteMint(e)
  PROVE  ExecutionInv'
<1> USE DEF ExecutionInv, ExecuteMint, Writing, Refused
<1>1. ExecutionType'
  BY DEF ExecutionType, Statuses, Outcomes
<1>2. PendingHasMessage'
  BY DEF ExecutionType, PendingHasMessage
<1>3. Progress(e)'
  BY DEF ExecutionType, InProgress, Progress
<1>4. ASSUME NEW f \in Executions \ {e} PROVE Progress(f)'
  BY OthersKept DEF ExecutionType, InProgress
<1> QED BY <1>1, <1>2, <1>3, <1>4 DEF InProgress

LEMMA ExecuteTransferStep ==
  ASSUME ExecutionInv, NEW e \in Executions, ExecuteTransfer(e)
  PROVE  ExecutionInv'
<1> USE DEF ExecutionInv, ExecuteTransfer, Writing, Refused
<1>1. ExecutionType'
  BY DEF ExecutionType, Statuses, Outcomes
<1>2. PendingHasMessage'
  BY DEF ExecutionType, PendingHasMessage
<1>3. Progress(e)'
  BY DEF ExecutionType, InProgress, Progress
<1>4. ASSUME NEW f \in Executions \ {e} PROVE Progress(f)'
  BY OthersKept DEF ExecutionType, InProgress
<1> QED BY <1>1, <1>2, <1>3, <1>4 DEF InProgress

LEMMA LoseWriteStep ==
  ASSUME ExecutionInv, NEW e \in Executions, LoseWrite(e)
  PROVE  ExecutionInv'
<1> USE DEF ExecutionInv, LoseWrite
<1>1. ExecutionType'
  BY DEF ExecutionType, Statuses, Outcomes
<1>2. PendingHasMessage'
  BY DEF ExecutionType, PendingHasMessage
<1>3. Progress(e)'
  BY DEF ExecutionType, InProgress, Progress
<1>4. ASSUME NEW f \in Executions \ {e} PROVE Progress(f)'
  BY OthersKept DEF ExecutionType, InProgress
<1> QED BY <1>1, <1>2, <1>3, <1>4 DEF InProgress

LEMMA MintAnsweredStep ==
  ASSUME ExecutionInv, NEW e \in Executions, MintAnswered(e)
  PROVE  ExecutionInv'
<1> USE DEF ExecutionInv, MintAnswered, Answer, Delivered
<1>1. ExecutionType'
  BY DEF ExecutionType, Statuses, Outcomes
<1>2. PendingHasMessage'
  BY DEF ExecutionType, PendingHasMessage
<1>3. Progress(e)'
  BY DEF ExecutionType, InProgress, Progress
<1>4. ASSUME NEW f \in Executions \ {e} PROVE Progress(f)'
  BY OthersKept DEF ExecutionType, InProgress
<1> QED BY <1>1, <1>2, <1>3, <1>4 DEF InProgress

LEMMA TransferAnsweredStep ==
  ASSUME ExecutionInv, NEW e \in Executions, TransferAnswered(e)
  PROVE  ExecutionInv'
<1> USE DEF ExecutionInv, TransferAnswered, Answer, Delivered
<1>1. ExecutionType'
  BY DEF ExecutionType, Statuses, Outcomes
<1>2. PendingHasMessage'
  BY DEF ExecutionType, PendingHasMessage
<1>3. Progress(e)'
  BY DEF ExecutionType, InProgress, Progress
<1>4. ASSUME NEW f \in Executions \ {e} PROVE Progress(f)'
  BY OthersKept DEF ExecutionType, InProgress
<1> QED BY <1>1, <1>2, <1>3, <1>4 DEF InProgress

LEMMA WriteGivenUpStep ==
  ASSUME ExecutionInv, NEW e \in Executions, WriteGivenUp(e)
  PROVE  ExecutionInv'
<1> USE DEF ExecutionInv, WriteGivenUp, Answer
<1>1. ExecutionType'
  BY DEF ExecutionType, Statuses, Outcomes
<1>2. PendingHasMessage'
  BY DEF ExecutionType, PendingHasMessage
<1>3. Progress(e)'
  BY DEF ExecutionType, InProgress, Progress
<1>4. ASSUME NEW f \in Executions \ {e} PROVE Progress(f)'
  BY OthersKept DEF ExecutionType, InProgress
<1> QED BY <1>1, <1>2, <1>3, <1>4 DEF InProgress

LEMMA ExecutionStep ==
  ASSUME ExecutionInv, [IssuanceNext]_issuanceVars
  PROVE  ExecutionInv'
<1>1. CASE UNCHANGED execVars
  BY <1>1, ExecFrame
<1>2. ASSUME NEW e \in Executions,
             \/ \E m \in Messages : Trigger(e, m)
             \/ Execution(e) \/ ReserveUnavailable(e) \/ LoseWrite(e) \/ WriteGivenUp(e)
      PROVE  ExecutionInv'
  BY <1>2, TriggerStep, ValidateProofOfReserveStep, ReserveUnavailableStep,
     ExecuteMintStep, ExecuteTransferStep, LoseWriteStep, MintAnsweredStep,
     TransferAnsweredStep, WriteGivenUpStep DEF Execution
<1>3. ASSUME \/ \E newReserve \in Reserves : SetReserve(newReserve)
             \/ Outside \/ DeliverTransfer \/ UNCHANGED issuanceVars
      PROVE  UNCHANGED execVars
  BY <1>3 DEF SetReserve, Outside, DeliverTransfer, issuanceVars
<1> QED BY <1>1, <1>2, <1>3 DEF IssuanceNext

LEMMA BoundsStep ==
  ASSUME BoundsType, [IssuanceNext]_issuanceVars
  PROVE  BoundsType'
<1>1. MaxTriggers \in Nat /\ MaxEnvOps \in Nat
  BY IssuanceAssumption DEF IssuanceAssumption
<1>2. /\ triggers' = triggers \/ (triggers < MaxTriggers /\ triggers' = triggers + 1)
      /\ envOps' = envOps \/ (envOps < MaxEnvOps /\ envOps' = envOps + 1)
      /\ reserve' = reserve \/ reserve' \in Reserves
  BY DEF IssuanceNext, issuanceVars, EnvOp, SetReserve, Outside, DeliverTransfer, Trigger,
         Execution, ValidateProofOfReserve, ExecuteMint, ExecuteTransfer, MintAnswered,
         TransferAnswered, ReserveUnavailable, LoseWrite, WriteGivenUp
<1> QED
  BY <1>1, <1>2 DEF BoundsType

-----------------------------------------------------------------------------
(* The theorems.                                                           *)

LEMMA IssuanceStep == IssuanceInv /\ [IssuanceNext]_issuanceVars => IssuanceInv'
BY LedgerStep, ExecutionStep, BoundsStep DEF IssuanceInv, ExecutionInv

\* IssuanceInv holds in every state the contracts and the workflow reach.
THEOREM IssuanceInvariant == IssuanceSpec => []IssuanceInv
<1> QED
  BY InitIssuanceInv, IssuanceStep, PTL DEF IssuanceSpec

\* No balance, supply or fee of the contracts and no counter of the issuance is
\* ever overdrawn: StablecoinERC20 can always burn what it is asked to.
THEOREM IssuanceTypesHold == IssuanceSpec => []IssuanceTypeOK
<1>1. IssuanceInv => StablecoinTypeOK
  BY LedgerSums DEF IssuanceInv, LedgerInv, LedgerType, RulesType, StablecoinTypeOK
<1>2. IssuanceInv => IssuanceTypeOK
  BY <1>1 DEF IssuanceInv, ExecutionType, BoundsType, IssuanceTypeOK
<1> QED
  BY <1>2, IssuanceInvariant, PTL

\* What StablecoinERC20 counts is what its holders have; and with what CCIP
\* carries and what there is on the destination, it is what MintingConsumerWithACE
\* issued and did not redeem, with the mints and burns of everybody else.
THEOREM SupplyIsBacked == IssuanceSpec => []SupplyIsIssued
<1>1. IssuanceInv => SupplyIsIssued
  BY DEF IssuanceInv, LedgerInv
<1> QED
  BY <1>1, IssuanceInvariant, PTL

\* A rejection answered by onHTTPTrigger is final: no report that it claims was
\* refused has been executed, and none can be any more.
THEOREM RejectionsAreFinal == IssuanceSpec => []RejectionIsFinal
<1>1. IssuanceInv => RejectionIsFinal
  BY DEF IssuanceInv, InProgress, Progress, RejectionIsFinal
<1> QED BY <1>1, IssuanceInvariant, PTL

\* The blacklist is read when the mint report executes, in the transaction
\* that mints (MintingConsumerWithACE.onReport): a listing that the workflow
\* could not see when it wrote the report still stops it.
THEOREM BlacklistStopsMints == IssuanceSpec => MintsObeyBlacklist
<1>1. IssuanceInv /\ [IssuanceNext]_issuanceVars =>
        [\A e \in Executions : ObeysBlacklist(e)]_issuanceVars
  BY MintStep DEF IssuanceInv
<1>2. IssuanceSpec => [][\A e \in Executions : ObeysBlacklist(e)]_issuanceVars
  BY <1>1, IssuanceInvariant, PTL DEF IssuanceSpec
<1> QED BY <1>2 DEF MintsObeyBlacklist, ObeysBlacklist

=============================================================================
