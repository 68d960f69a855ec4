------------------------ MODULE AssetServicingProofs ------------------------
(***************************************************************************)
(* For every number of assets, holders, events and nodes: the platform's   *)
(* totals are what holders can redeem, the mirror counts no update twice,  *)
(* it is exact for assets whose invocations did not meet and read no older *)
(* row, and a row keeps its uid.                                           *)
(*                                                                         *)
(* The platform's part of the invariant says what its events say: an asset *)
(* is registered once, and nobody holds what was never minted.  The part   *)
(* of the mirror follows each event from its emission through the posts of *)
(* the nodes to the one update of the table that it may cause, and relates *)
(* the total of a row to the updates that have been stored.                *)
(***************************************************************************)
EXTENDS AssetServicing, Sums

-----------------------------------------------------------------------------
(* The inductive invariant of the platform.                                *)

\* An asset is registered once, under the next free id.
RegisteredOnce ==
  \A a \in AssetIds :
    /\ IndexesOf(a, "AssetRegistered") # {} => Registered(a)
    /\ \A i, j \in IndexesOf(a, "AssetRegistered") : i = j

\* Holders have nothing of an asset that was never minted.
UnmintedIsNotHeld ==
  \A a \in AssetIds : IndexesOf(a, "TokensMinted") = {} => SumFunction(balance[a]) = 0

PlatformInv == PlatformTypeOK /\ RegisteredOnce /\ UnmintedIsNotHeld /\ SupplyTracksBalances

LEMMA PlatformConstants ==
  /\ IsFiniteSet(Accounts) /\ Admin \in Accounts /\ NoAccount \notin Accounts
  /\ MaxAssets \in Nat \ {0} /\ MaxEvents \in Nat
  /\ Amounts \subseteq Nat \ {0} /\ InitialSupplies \subseteq Nat
  /\ NoUid \notin Uids
BY PlatformAssumption DEF PlatformAssumption

-----------------------------------------------------------------------------
(* The key events.                                                         *)

LEMMA EventsAreTyped == PlatformTypeOK => \A i \in 1 .. Len(events) : events[i] \in Events
BY DEF PlatformTypeOK

\* What the log keeps and what it gets.
LEMMA EmitAppends ==
  ASSUME NEW action \in Actions, NEW b \in AssetIds, NEW amount \in Nat
  PROVE  PlatformTypeOK /\ Emit(action, b, amount) =>
           /\ events' \in Seq(Events) /\ Len(events') = Len(events) + 1
           /\ Len(events) + 1 <= MaxEvents
           /\ \A i \in 1 .. Len(events) : events'[i] = events[i]
           /\ events'[Len(events) + 1] = [action |-> action, asset |-> b, amount |-> amount]
<1> SUFFICES ASSUME PlatformTypeOK, Emit(action, b, amount)
             PROVE  /\ events' \in Seq(Events) /\ Len(events') = Len(events) + 1
                    /\ Len(events) + 1 <= MaxEvents
                    /\ \A i \in 1 .. Len(events) : events'[i] = events[i]
                    /\ events'[Len(events) + 1]
                         = [action |-> action, asset |-> b, amount |-> amount]
  OBVIOUS
<1> DEFINE new == [action |-> action, asset |-> b, amount |-> amount]
<1>1. new \in Events
  BY DEF Events
<1>2. events \in Seq(Events) /\ Len(events) < MaxEvents /\ events' = Append(events, new)
  BY DEF PlatformTypeOK, Emit
<1> HIDE DEF new
<1>3. Len(events) \in Nat
  BY <1>2
<1> QED
  BY <1>1, <1>2, <1>3, PlatformConstants DEF new

LEMMA IndexesAfterEmit ==
  ASSUME NEW action \in Actions, NEW b \in AssetIds, NEW amount \in Nat
  PROVE  PlatformTypeOK /\ Emit(action, b, amount) =>
           \A a \in AssetIds, kind \in Actions :
             IndexesOf(a, kind)' = IF a = b /\ kind = action
                                     THEN IndexesOf(a, kind) \union {Len(events) + 1}
                                     ELSE IndexesOf(a, kind)
<1> SUFFICES ASSUME PlatformTypeOK, Emit(action, b, amount),
                    NEW a \in AssetIds, NEW kind \in Actions
             PROVE  IndexesOf(a, kind)' = IF a = b /\ kind = action
                                            THEN IndexesOf(a, kind) \union {Len(events) + 1}
                                            ELSE IndexesOf(a, kind)
  OBVIOUS
<1> DEFINE n == Len(events)
<1>1. n \in Nat
  BY DEF PlatformTypeOK
<1>2. /\ Len(events') = n + 1 /\ \A i \in 1 .. n : events'[i] = events[i]
      /\ events'[n + 1] = [action |-> action, asset |-> b, amount |-> amount]
  BY EmitAppends
<1>3. events'[n + 1].asset = b /\ events'[n + 1].action = action
  BY <1>2
<1> HIDE DEF n
<1>4. 1 .. Len(events') = (1 .. n) \union {n + 1}
  BY <1>1, <1>2
<1>5. IndexesOf(a, kind)'
        = {i \in 1 .. Len(events') : events'[i].asset = a /\ events'[i].action = kind}
  BY DEF IndexesOf
<1>6. IndexesOf(a, kind) = {i \in 1 .. n : events[i].asset = a /\ events[i].action = kind}
  BY DEF IndexesOf, n
<1>7. IndexesOf(a, kind)' = IF a = b /\ kind = action
                              THEN IndexesOf(a, kind) \union {n + 1} ELSE IndexesOf(a, kind)
  BY <1>2, <1>3, <1>4, <1>5, <1>6
<1> QED
  BY <1>7 DEF n

LEMMA IndexesFinite ==
  ASSUME NEW a, NEW kind
  PROVE  PlatformTypeOK =>
           IsFiniteSet(IndexesOf(a, kind)) /\ IndexesOf(a, kind) \subseteq 1 .. Len(events)
<1> SUFFICES ASSUME PlatformTypeOK
             PROVE  IsFiniteSet(IndexesOf(a, kind)) /\ IndexesOf(a, kind) \subseteq 1 .. Len(events)
  OBVIOUS
<1>1. Len(events) \in Nat
  BY DEF PlatformTypeOK
<1>2. IsFiniteSet(1 .. Len(events))
  BY <1>1, FS_Interval
<1>3. IndexesOf(a, kind) \subseteq 1 .. Len(events)
  BY DEF IndexesOf
<1> QED
  BY <1>2, <1>3, FS_Subset

-----------------------------------------------------------------------------
(* Initial supplies.                                                       *)

EventAmounts == [i \in 1 .. Len(events) |-> events[i].amount]

LEMMA SupplyDefinition ==
  ASSUME NEW a
  PROVE  InitialSupply(a) = SumFunctionOnSet(EventAmounts, IndexesOf(a, "AssetRegistered"))
BY DEF InitialSupply, EventAmounts

LEMMA SupplyDefinitionNext ==
  ASSUME NEW a
  PROVE  InitialSupply(a)' = SumFunctionOnSet(EventAmounts', IndexesOf(a, "AssetRegistered")')
BY DEF InitialSupply, EventAmounts

LEMMA AmountsSummable ==
  ASSUME NEW a, NEW kind
  PROVE  PlatformTypeOK => Summable(EventAmounts, IndexesOf(a, kind))
<1> SUFFICES ASSUME PlatformTypeOK PROVE Summable(EventAmounts, IndexesOf(a, kind))
  OBVIOUS
<1>1. \A i \in 1 .. Len(events) : events[i].amount \in Nat
  BY EventsAreTyped DEF Events
<1>2. \A i \in 1 .. Len(events) : EventAmounts[i] \in Int
  BY <1>1 DEF EventAmounts
<1>3. IsFiniteSet(IndexesOf(a, kind)) /\ IndexesOf(a, kind) \subseteq 1 .. Len(events)
  BY IndexesFinite
<1> QED
  BY <1>2, <1>3 DEF Summable

LEMMA InitialSupplyIsInt ==
  ASSUME NEW a
  PROVE  PlatformTypeOK => InitialSupply(a) \in Int
BY AmountsSummable, SumIsInt, SupplyDefinition

LEMMA InitialSupplyKept ==
  ASSUME NEW action \in Actions, NEW b \in AssetIds, NEW amount \in Nat, NEW a \in AssetIds
  PROVE  PlatformTypeOK /\ Emit(action, b, amount) /\ ~(a = b /\ action = "AssetRegistered") =>
           InitialSupply(a)' = InitialSupply(a)
<1>1. SUFFICES ASSUME PlatformTypeOK, Emit(action, b, amount),
                      ~(a = b /\ action = "AssetRegistered")
               PROVE  InitialSupply(a)' = InitialSupply(a)
  OBVIOUS
<1> DEFINE S == IndexesOf(a, "AssetRegistered")
<1>2. IndexesOf(a, "AssetRegistered")' = S
  <2>1. "AssetRegistered" \in Actions
    BY DEF Actions
  <2> QED
    BY <1>1, <2>1, IndexesAfterEmit
<1>3. S \subseteq 1 .. Len(events) /\ Summable(EventAmounts, S)
  BY <1>1, IndexesFinite, AmountsSummable
<1>4. \A i \in 1 .. Len(events) : EventAmounts'[i] = EventAmounts[i]
  <2>1. Len(events) \in Nat
    BY <1>1 DEF PlatformTypeOK
  <2>2. Len(events') = Len(events) + 1 /\ \A i \in 1 .. Len(events) : events'[i] = events[i]
    BY <1>1, EmitAppends
  <2> QED
    BY <2>1, <2>2 DEF EventAmounts
<1>5. \A i \in S : EventAmounts[i] = EventAmounts'[i]
  BY <1>3, <1>4
<1> HIDE DEF S
<1>6. SumFunctionOnSet(EventAmounts, S) = SumFunctionOnSet(EventAmounts', S)
  BY <1>3, <1>5, SumOfSame
<1> QED
  BY <1>2, <1>6, SupplyDefinition, SupplyDefinitionNext DEF S

LEMMA InitialSupplyOfFirst ==
  ASSUME NEW b \in AssetIds, NEW amount \in Nat
  PROVE  PlatformTypeOK /\ Emit("AssetRegistered", b, amount)
           /\ IndexesOf(b, "AssetRegistered") = {} => InitialSupply(b)' = amount
<1>1. SUFFICES ASSUME PlatformTypeOK, Emit("AssetRegistered", b, amount),
                      IndexesOf(b, "AssetRegistered") = {}
               PROVE  InitialSupply(b)' = amount
  OBVIOUS
<1> DEFINE k == Len(events) + 1
<1>2. "AssetRegistered" \in Actions
  BY DEF Actions
<1>3. IndexesOf(b, "AssetRegistered")' = {k}
  BY <1>1, <1>2, IndexesAfterEmit
<1>4. EventAmounts'[k] = amount
  <2>1. Len(events) \in Nat
    BY <1>1 DEF PlatformTypeOK
  <2>2. /\ Len(events') = k
        /\ events'[k] = [action |-> "AssetRegistered", asset |-> b, amount |-> amount]
    BY <1>1, <1>2, EmitAppends
  <2> QED
    BY <2>1, <2>2 DEF EventAmounts
<1> HIDE DEF k
<1>5. IsFiniteSet({k}) /\ k \in {k} /\ \A y \in {k} \ {k} : EventAmounts'[y] = 0
  BY FS_Singleton
<1>6. EventAmounts'[k] \in Int
  BY <1>4
<1>7. SumFunctionOnSet(EventAmounts', {k}) = EventAmounts'[k]
  BY <1>5, <1>6, SumOfOne
<1> QED
  BY <1>3, <1>4, <1>7, SupplyDefinitionNext

-----------------------------------------------------------------------------
(* The platform's steps.                                                   *)

LEMMA BalancesSum ==
  ASSUME NEW bal \in [AssetIds -> [Accounts -> Nat]], NEW a \in AssetIds, NEW h \in Accounts,
         NEW v \in Nat
  PROVE  /\ SumFunction(bal[a]) \in Nat /\ bal[a][h] \in Nat
         /\ bal[a][h] <= SumFunction(bal[a])
         /\ SumFunction([bal[a] EXCEPT ![h] = v]) = SumFunction(bal[a]) + (v - bal[a][h])
<1>1. bal[a] \in [Accounts -> Nat] /\ bal[a][h] \in Nat
  OBVIOUS
<1> DEFINE held == bal[a]
<1> HIDE DEF held
<1>2. held \in [Accounts -> Nat]
  BY <1>1 DEF held
<1>3. /\ SumFunction(held) \in Nat /\ held[h] <= SumFunction(held)
      /\ SumFunction([held EXCEPT ![h] = v]) = SumFunction(held) + (v - held[h])
  BY <1>2, PlatformConstants, SumOfUpdate, ZenonT(30)
<1> QED
  BY <1>1, <1>3 DEF held

\* A premature asset stays one.
LEMMA PrematureStays ==
  ASSUME NEW action \in Actions, NEW b \in AssetIds, NEW amount \in Nat
  PROVE  PlatformTypeOK /\ Emit(action, b, amount) /\ nextAssetId' >= nextAssetId
           /\ nextAssetId' \in Nat =>
             \A a \in AssetIds : Premature(a) => Premature(a)'
<1>1. SUFFICES ASSUME PlatformTypeOK, Emit(action, b, amount), nextAssetId' >= nextAssetId,
                      nextAssetId' \in Nat, NEW a \in AssetIds, Premature(a)
               PROVE  Premature(a)'
  OBVIOUS
<1>2. Registered(a)'
  BY <1>1, PlatformConstants DEF Premature, Registered, PlatformTypeOK, AssetIds
<1>3. /\ IndexesOf(a, "TokensMinted") \subseteq IndexesOf(a, "TokensMinted")'
      /\ IndexesOf(a, "AssetRegistered") \subseteq IndexesOf(a, "AssetRegistered")'
  <2>1. "TokensMinted" \in Actions /\ "AssetRegistered" \in Actions
    BY DEF Actions
  <2> QED
    BY <1>1, <2>1, IndexesAfterEmit
<1> QED
  BY <1>1, <1>2, <1>3 DEF Premature

LEMMA PlatformSums ==
  PlatformTypeOK => \A a \in AssetIds : /\ totalSupply[a] \in Nat /\ InitialSupply(a) \in Int
                                        /\ SumFunction(balance[a]) \in Nat
<1> SUFFICES ASSUME PlatformTypeOK, NEW a \in AssetIds
             PROVE  /\ totalSupply[a] \in Nat /\ InitialSupply(a) \in Int
                    /\ SumFunction(balance[a]) \in Nat
  OBVIOUS
<1>1. balance \in [AssetIds -> [Accounts -> Nat]] /\ totalSupply \in [AssetIds -> Nat]
  BY DEF PlatformTypeOK
<1>2. Admin \in Accounts /\ 0 \in Nat
  BY PlatformConstants
<1>3. SumFunction(balance[a]) \in Nat
  BY <1>1, <1>2, BalancesSum
<1> QED
  BY <1>1, <1>3, InitialSupplyIsInt

\* The total of every asset moves with what its holders have.
MovesTogether ==
  \A a \in AssetIds : \E d \in Int :
    totalSupply'[a] = totalSupply[a] + d
      /\ SumFunction(balance'[a]) = SumFunction(balance[a]) + d

\* An event other than a registration.
LEMMA RecordKeeps ==
  ASSUME NEW action \in Actions \ {"AssetRegistered"}, NEW b \in AssetIds, NEW amount \in Nat
  PROVE  PlatformInv /\ Emit(action, b, amount) /\ nextAssetId' = nextAssetId /\ MovesTogether =>
           RegisteredOnce' /\ SupplyTracksBalances'
<1>1. SUFFICES ASSUME PlatformInv, Emit(action, b, amount), nextAssetId' = nextAssetId,
                      MovesTogether
               PROVE  RegisteredOnce' /\ SupplyTracksBalances'
  OBVIOUS
<1>2. PlatformTypeOK /\ nextAssetId \in Nat
  BY <1>1, PlatformConstants DEF PlatformInv, PlatformTypeOK
<1>3. \A a \in AssetIds : IndexesOf(a, "AssetRegistered")' = IndexesOf(a, "AssetRegistered")
  <2>1. "AssetRegistered" \in Actions
    BY DEF Actions
  <2> QED
    BY <1>1, <1>2, <2>1, IndexesAfterEmit
<1>4. RegisteredOnce'
  BY <1>1, <1>3 DEF PlatformInv, RegisteredOnce, Registered
<1>5. ASSUME NEW a \in AssetIds
      PROVE  Premature(a)' \/ totalSupply'[a] = InitialSupply(a)' + SumFunction(balance'[a])
  <2>1. CASE Premature(a)
    <3>1. nextAssetId' >= nextAssetId /\ nextAssetId' \in Nat
      BY <1>1, <1>2
    <3> QED
      BY <1>1, <1>2, <2>1, <3>1, PrematureStays
  <2>2. CASE ~Premature(a)
    <3>1. totalSupply[a] = InitialSupply(a) + SumFunction(balance[a])
      BY <1>1, <2>2 DEF PlatformInv, SupplyTracksBalances
    <3>2. InitialSupply(a)' = InitialSupply(a)
      BY <1>1, <1>2, InitialSupplyKept
    <3>3. PICK d \in Int : /\ totalSupply'[a] = totalSupply[a] + d
                           /\ SumFunction(balance'[a]) = SumFunction(balance[a]) + d
      BY <1>1 DEF MovesTogether
    <3>4. InitialSupply(a) \in Int /\ SumFunction(balance[a]) \in Nat
      BY <1>2, PlatformSums
    <3> QED
      BY <3>1, <3>2, <3>3, <3>4
  <2> QED
    BY <2>1, <2>2
<1> QED
  BY <1>4, <1>5 DEF SupplyTracksBalances

LEMMA SameSums ==
  PlatformTypeOK /\ UNCHANGED <<totalSupply, balance>> => MovesTogether
<1> SUFFICES ASSUME PlatformTypeOK, UNCHANGED <<totalSupply, balance>>, NEW a \in AssetIds
             PROVE  /\ totalSupply'[a] = totalSupply[a] + 0
                    /\ SumFunction(balance'[a]) = SumFunction(balance[a]) + 0
  BY DEF MovesTogether
<1> QED
  BY PlatformSums

LEMMA VerifyKeeps ==
  ASSUME NEW sender \in Accounts, NEW a \in AssetIds, NEW isValid \in BOOLEAN
  PROVE  PlatformInv /\ VerifyAsset(sender, a, isValid) => PlatformInv'
<1>1. SUFFICES ASSUME PlatformInv, VerifyAsset(sender, a, isValid) PROVE PlatformInv'
  OBVIOUS
<1> DEFINE verdict == IF isValid THEN 1 ELSE 0
<1>2. /\ PlatformTypeOK /\ verdict \in Nat /\ "AssetVerified" \in Actions \ {"AssetRegistered"}
      /\ "TokensMinted" \in Actions
  BY <1>1 DEF PlatformInv, Actions
<1>3. /\ Emit("AssetVerified", a, verdict)
      /\ UNCHANGED <<nextAssetId, issuer, totalSupply, uid, balance, accepting>>
      /\ active' = IF isValid THEN active \union {a} ELSE active \ {a}
  BY <1>1 DEF VerifyAsset
<1> HIDE DEF verdict
<1>4. PlatformTypeOK'
  <2>1. events' \in Seq(Events) /\ Len(events') <= MaxEvents
    BY <1>2, <1>3, EmitAppends
  <2> QED
    BY <1>2, <1>3, <2>1 DEF PlatformTypeOK
<1>5. RegisteredOnce' /\ SupplyTracksBalances'
  BY <1>1, <1>2, <1>3, SameSums, RecordKeeps
<1>6. UnmintedIsNotHeld'
  <2>1. \A b \in AssetIds : IndexesOf(b, "TokensMinted")' = IndexesOf(b, "TokensMinted")
    BY <1>2, <1>3, IndexesAfterEmit
  <2> QED
    BY <1>1, <1>3, <2>1 DEF PlatformInv, UnmintedIsNotHeld
<1> QED
  BY <1>4, <1>5, <1>6 DEF PlatformInv

LEMMA MintKeeps ==
  ASSUME NEW sender \in Accounts, NEW to \in Accounts, NEW a \in AssetIds, NEW amount \in Amounts
  PROVE  PlatformInv /\ Mint(sender, to, a, amount) => PlatformInv'
<1>1. SUFFICES ASSUME PlatformInv, Mint(sender, to, a, amount) PROVE PlatformInv'
  OBVIOUS
<1>2. /\ PlatformTypeOK /\ amount \in Nat /\ "TokensMinted" \in Actions \ {"AssetRegistered"}
  BY <1>1, PlatformConstants DEF PlatformInv, Actions
<1>3. /\ totalSupply' = [totalSupply EXCEPT ![a] = @ + amount]
      /\ balance' = [balance EXCEPT ![a][to] = @ + amount]
      /\ Emit("TokensMinted", a, amount)
      /\ UNCHANGED <<nextAssetId, issuer, active, uid, accepting>>
  BY <1>1 DEF Mint, Credited
<1>4. balance \in [AssetIds -> [Accounts -> Nat]] /\ totalSupply \in [AssetIds -> Nat]
  BY <1>2 DEF PlatformTypeOK
<1> DEFINE v == balance[a][to] + amount
<1>5. v \in Nat /\ balance[a][to] \in Nat
  BY <1>2, <1>4
<1>6. /\ balance'[a] = [balance[a] EXCEPT ![to] = v]
      /\ totalSupply'[a] = totalSupply[a] + amount
      /\ \A c \in AssetIds \ {a} : balance'[c] = balance[c] /\ totalSupply'[c] = totalSupply[c]
  BY <1>3, <1>4
<1>7. balance' \in [AssetIds -> [Accounts -> Nat]] /\ totalSupply' \in [AssetIds -> Nat]
  BY <1>2, <1>3, <1>4, <1>5
<1> HIDE DEF v
<1>8. SumFunction(balance'[a]) = SumFunction(balance[a]) + amount
  <2>1. SumFunction([balance[a] EXCEPT ![to] = v]) = SumFunction(balance[a]) + (v - balance[a][to])
    BY <1>4, <1>5, BalancesSum
  <2>2. SumFunction(balance[a]) \in Nat
    BY <1>2, PlatformSums
  <2> QED
    BY <1>2, <1>5, <1>6, <2>1, <2>2 DEF v
<1>9. PlatformTypeOK'
  <2>1. events' \in Seq(Events) /\ Len(events') <= MaxEvents
    BY <1>2, <1>3, EmitAppends
  <2> QED
    BY <1>2, <1>3, <1>7, <2>1 DEF PlatformTypeOK
<1>10. MovesTogether
  <2> SUFFICES ASSUME NEW c \in AssetIds
               PROVE  \E d \in Int : /\ totalSupply'[c] = totalSupply[c] + d
                                     /\ SumFunction(balance'[c]) = SumFunction(balance[c]) + d
    BY DEF MovesTogether
  <2>1. CASE c = a
    BY <1>2, <1>6, <1>8, <2>1
  <2>2. CASE c # a
    <3>1. totalSupply[c] \in Nat /\ SumFunction(balance[c]) \in Nat
      BY <1>2, PlatformSums
    <3>2. /\ totalSupply'[c] = totalSupply[c] + 0
          /\ SumFunction(balance'[c]) = SumFunction(balance[c]) + 0
      BY <1>6, <2>2, <3>1
    <3> QED
      BY <3>2
  <2> QED
    BY <2>1, <2>2
<1>11. RegisteredOnce' /\ SupplyTracksBalances'
  BY <1>1, <1>2, <1>3, <1>10, RecordKeeps
<1>12. UnmintedIsNotHeld'
  <2>1. \A b \in AssetIds : IndexesOf(b, "TokensMinted")'
          = IF b = a THEN IndexesOf(b, "TokensMinted") \union {Len(events) + 1}
                     ELSE IndexesOf(b, "TokensMinted")
    BY <1>2, <1>3, IndexesAfterEmit
  <2> QED
    BY <1>1, <1>6, <2>1 DEF PlatformInv, UnmintedIsNotHeld
<1> QED
  BY <1>9, <1>11, <1>12 DEF PlatformInv

LEMMA RedeemKeeps ==
  ASSUME NEW sender \in Accounts, NEW a \in AssetIds, NEW amount \in Amounts
  PROVE  PlatformInv /\ Redeem(sender, a, amount) => PlatformInv'
<1>1. SUFFICES ASSUME PlatformInv, Redeem(sender, a, amount) PROVE PlatformInv'
  OBVIOUS
<1>2. /\ PlatformTypeOK /\ amount \in Nat /\ amount > 0
      /\ "TokensRedeemed" \in Actions \ {"AssetRegistered"} /\ "TokensMinted" \in Actions
  BY <1>1, PlatformConstants DEF PlatformInv, Actions
<1>3. /\ totalSupply' = [totalSupply EXCEPT ![a] = @ - amount]
      /\ balance' = [balance EXCEPT ![a][sender] = @ - amount]
      /\ balance[a][sender] >= amount /\ totalSupply[a] >= amount
      /\ Emit("TokensRedeemed", a, amount)
      /\ UNCHANGED <<nextAssetId, issuer, active, uid, accepting>>
  BY <1>1 DEF Redeem, Debited
<1>4. balance \in [AssetIds -> [Accounts -> Nat]] /\ totalSupply \in [AssetIds -> Nat]
  BY <1>2 DEF PlatformTypeOK
<1> DEFINE v == balance[a][sender] - amount
<1>5. v \in Nat /\ balance[a][sender] \in Nat
  BY <1>2, <1>3, <1>4
<1>6. /\ balance'[a] = [balance[a] EXCEPT ![sender] = v]
      /\ totalSupply'[a] = totalSupply[a] - amount
      /\ \A c \in AssetIds \ {a} : balance'[c] = balance[c] /\ totalSupply'[c] = totalSupply[c]
  BY <1>3, <1>4
<1>7. balance' \in [AssetIds -> [Accounts -> Nat]] /\ totalSupply' \in [AssetIds -> Nat]
  BY <1>2, <1>3, <1>4, <1>5
<1> HIDE DEF v
<1>8. /\ SumFunction(balance'[a]) = SumFunction(balance[a]) + (-amount)
      /\ SumFunction(balance[a]) > 0
  <2>1. /\ SumFunction([balance[a] EXCEPT ![sender] = v])
             = SumFunction(balance[a]) + (v - balance[a][sender])
        /\ balance[a][sender] <= SumFunction(balance[a])
    BY <1>4, <1>5, BalancesSum
  <2>2. SumFunction(balance[a]) \in Nat
    BY <1>2, PlatformSums
  <2> QED
    BY <1>2, <1>3, <1>5, <1>6, <2>1, <2>2 DEF v
<1>9. PlatformTypeOK'
  <2>1. events' \in Seq(Events) /\ Len(events') <= MaxEvents
    BY <1>2, <1>3, EmitAppends
  <2> QED
    BY <1>2, <1>3, <1>7, <2>1 DEF PlatformTypeOK
<1>10. MovesTogether
  <2> SUFFICES ASSUME NEW c \in AssetIds
               PROVE  \E d \in Int : /\ totalSupply'[c] = totalSupply[c] + d
                                     /\ SumFunction(balance'[c]) = SumFunction(balance[c]) + d
    BY DEF MovesTogether
  <2>1. totalSupply[c] \in Nat /\ SumFunction(balance[c]) \in Nat
    BY <1>2, PlatformSums
  <2>2. CASE c = a
    <3>1. -amount \in Int /\ totalSupply'[c] = totalSupply[c] + (-amount)
      BY <1>2, <1>6, <2>1, <2>2
    <3> QED
      BY <1>8, <2>2, <3>1
  <2>3. CASE c # a
    <3>1. /\ totalSupply'[c] = totalSupply[c] + 0
          /\ SumFunction(balance'[c]) = SumFunction(balance[c]) + 0
      BY <1>6, <2>1, <2>3
    <3> QED
      BY <3>1
  <2> QED
    BY <2>2, <2>3
<1>11. RegisteredOnce' /\ SupplyTracksBalances'
  BY <1>1, <1>2, <1>3, <1>10, RecordKeeps
<1>12. UnmintedIsNotHeld'
  <2>1. \A b \in AssetIds : IndexesOf(b, "TokensMinted")' = IndexesOf(b, "TokensMinted")
    BY <1>2, <1>3, IndexesAfterEmit
  <2>2. IndexesOf(a, "TokensMinted") # {}
    BY <1>1, <1>8 DEF PlatformInv, UnmintedIsNotHeld
  <2> QED
    BY <1>1, <1>6, <2>1, <2>2 DEF PlatformInv, UnmintedIsNotHeld
<1> QED
  BY <1>9, <1>11, <1>12 DEF PlatformInv

\* What changes neither the log, nor the totals, nor the sums of the balances.
LEMMA PlatformFrame ==
  PlatformInv /\ PlatformTypeOK' /\ UNCHANGED <<nextAssetId, totalSupply, events>>
    /\ (\A a \in AssetIds : SumFunction(balance'[a]) = SumFunction(balance[a])) => PlatformInv'
<1> SUFFICES ASSUME PlatformInv, PlatformTypeOK', UNCHANGED <<nextAssetId, totalSupply, events>>,
                    \A a \in AssetIds : SumFunction(balance'[a]) = SumFunction(balance[a])
             PROVE  PlatformInv'
  OBVIOUS
<1>1. RegisteredOnce'
  BY DEF PlatformInv, RegisteredOnce, IndexesOf, Registered
<1>2. UnmintedIsNotHeld'
  BY DEF PlatformInv, UnmintedIsNotHeld, IndexesOf
<1>3. SupplyTracksBalances'
  BY DEF PlatformInv, SupplyTracksBalances, InitialSupply, Premature, IndexesOf, Registered
<1> QED
  BY <1>1, <1>2, <1>3 DEF PlatformInv

LEMMA SafeTransferKeeps ==
  ASSUME NEW sender \in Accounts, NEW to \in Accounts, NEW a \in AssetIds, NEW amount \in Amounts
  PROVE  PlatformInv /\ SafeTransferFrom(sender, to, a, amount) => PlatformInv'
<1>1. SUFFICES ASSUME PlatformInv, SafeTransferFrom(sender, to, a, amount) PROVE PlatformInv'
  OBVIOUS
<1>2. PlatformTypeOK /\ amount \in Nat
  BY <1>1, PlatformConstants DEF PlatformInv
<1>3. /\ balance' = [balance EXCEPT ![a] =
                      [[balance[a] EXCEPT ![sender] = @ - amount] EXCEPT ![to] = @ + amount]]
      /\ balance[a][sender] >= amount
      /\ UNCHANGED <<nextAssetId, issuer, totalSupply, active, uid, accepting, events>>
  BY <1>1 DEF SafeTransferFrom
<1>4. balance \in [AssetIds -> [Accounts -> Nat]]
  BY <1>2 DEF PlatformTypeOK
<1> DEFINE held == balance[a]
           v == held[sender] - amount
           between == [held EXCEPT ![sender] = v]
           w == between[to] + amount
<1>5. held \in [Accounts -> Nat] /\ held[sender] \in Nat /\ v \in Nat
  BY <1>2, <1>3, <1>4
<1>6. between \in [Accounts -> Nat]
  BY <1>5
<1>7. between[to] \in Nat /\ w \in Nat
  <2> HIDE DEF between
  <2> QED
    BY <1>2, <1>6
<1>8. balance'[a] = [between EXCEPT ![to] = w]
  BY <1>3, <1>4
<1>9. \A c \in AssetIds \ {a} : balance'[c] = balance[c]
  BY <1>3, <1>4
<1>10. SumFunction(between) = SumFunction(held) + (v - held[sender]) /\ SumFunction(held) \in Nat
  <2> HIDE DEF held, v
  <2> QED
    BY <1>5, PlatformConstants, SumOfUpdate, ZenonT(30)
<1>11. SumFunction([between EXCEPT ![to] = w]) = SumFunction(between) + (w - between[to])
  <2> HIDE DEF between, w
  <2> QED
    BY <1>6, <1>7, PlatformConstants, SumOfUpdate, ZenonT(30)
<1>12. SumFunction(balance'[a]) = SumFunction(balance[a])
  <2>1. v - held[sender] = -amount /\ w - between[to] = amount
    <3> HIDE DEF held, between
    <3> QED
      BY <1>2, <1>5, <1>7
  <2>2. SumFunction(balance'[a]) = SumFunction(held)
    <3> HIDE DEF held, v, between, w
    <3> QED
      BY <1>2, <1>8, <1>10, <1>11, <2>1
  <2> QED
    BY <2>2
<1>13. PlatformTypeOK'
  <2>1. [between EXCEPT ![to] = w] \in [Accounts -> Nat]
    <3> HIDE DEF between, w
    <3> QED
      BY <1>6, <1>7
  <2>2. balance' = [balance EXCEPT ![a] = [between EXCEPT ![to] = w]]
    BY <1>3, <1>4
  <2>3. balance' \in [AssetIds -> [Accounts -> Nat]]
    <3> HIDE DEF between, w
    <3> QED
      BY <1>4, <2>1, <2>2
  <2> QED
    BY <1>2, <1>3, <2>3 DEF PlatformTypeOK
<1> HIDE DEF held, v, between, w
<1>14. \A c \in AssetIds : SumFunction(balance'[c]) = SumFunction(balance[c])
  BY <1>9, <1>12
<1> QED
  BY <1>1, <1>3, <1>13, <1>14, PlatformFrame

LEMMA MetadataKeeps ==
  ASSUME PlatformInv, \/ ChangeExpectations
                      \/ \E a \in AssetIds, u \in Uids : UpdateSystemOfRecordMetadata(a, u)
                      \/ UNCHANGED platformVars
  PROVE  PlatformInv' /\ UNCHANGED events
<1>1. UNCHANGED <<nextAssetId, totalSupply, events, balance>>
  BY DEF ChangeExpectations, UpdateSystemOfRecordMetadata, platformVars
<1>2. PlatformTypeOK'
  BY DEF PlatformInv, PlatformTypeOK, ChangeExpectations, UpdateSystemOfRecordMetadata,
         platformVars
<1> QED
  BY <1>1, <1>2, PlatformFrame

\* A registration replaces the total: what is left of it is the initial supply,
\* unless the asset has been minted.
LEMMA RegisterKeeps ==
  ASSUME NEW h \in Accounts, NEW s \in InitialSupplies
  PROVE  PlatformInv /\ RegisterAsset(h, s) => PlatformInv'
<1>1. SUFFICES ASSUME PlatformInv, RegisterAsset(h, s) PROVE PlatformInv'
  OBVIOUS
<1>0. PICK a \in AssetIds : a = nextAssetId
  BY <1>1 DEF RegisterAsset
<1>2. /\ PlatformTypeOK /\ s \in Nat /\ nextAssetId \in Nat
      /\ "AssetRegistered" \in Actions /\ "TokensMinted" \in Actions
  BY <1>1, PlatformConstants DEF PlatformInv, PlatformTypeOK, Actions
<1>3. /\ a = nextAssetId /\ nextAssetId' = a + 1
      /\ issuer' = [issuer EXCEPT ![a] = h]
      /\ totalSupply' = [totalSupply EXCEPT ![a] = s]
      /\ active' = active \ {a}
      /\ uid' = [uid EXCEPT ![a] = NoUid]
      /\ Emit("AssetRegistered", a, s)
      /\ UNCHANGED <<balance, accepting>>
  BY <1>0, <1>1 DEF RegisterAsset
<1>4. \A b \in AssetIds, kind \in Actions :
        IndexesOf(b, kind)' = IF b = a /\ kind = "AssetRegistered"
                                THEN IndexesOf(b, kind) \union {Len(events) + 1}
                                ELSE IndexesOf(b, kind)
  BY <1>2, <1>3, IndexesAfterEmit
<1>5. IndexesOf(a, "AssetRegistered") = {}
  BY <1>1, <1>2, <1>3 DEF PlatformInv, RegisteredOnce, Registered
<1>6. PlatformTypeOK'
  <2>1. events' \in Seq(Events) /\ Len(events') <= MaxEvents
    BY <1>2, <1>3, EmitAppends
  <2>2. nextAssetId' \in 1 .. MaxAssets + 1
    BY <1>3, PlatformConstants DEF AssetIds
  <2>3. totalSupply' \in [AssetIds -> Nat] /\ issuer' \in [AssetIds -> Accounts \union {NoAccount}]
    BY <1>2, <1>3 DEF PlatformTypeOK
  <2>4. uid' \in [AssetIds -> Uids \union {NoUid}] /\ active' \subseteq AssetIds
    BY <1>2, <1>3 DEF PlatformTypeOK
  <2> QED
    BY <1>2, <1>3, <2>1, <2>2, <2>3, <2>4 DEF PlatformTypeOK
<1>7. RegisteredOnce'
  <2> SUFFICES ASSUME NEW b \in AssetIds
               PROVE  /\ IndexesOf(b, "AssetRegistered")' # {} => Registered(b)'
                      /\ \A i, j \in IndexesOf(b, "AssetRegistered")' : i = j
    BY DEF RegisteredOnce
  <2>1. /\ IndexesOf(b, "AssetRegistered") # {} => b < nextAssetId
        /\ \A i, j \in IndexesOf(b, "AssetRegistered") : i = j
    BY <1>1 DEF PlatformInv, RegisteredOnce, Registered
  <2>2. b \in Nat
    BY PlatformConstants DEF AssetIds
  <2>3. CASE b = a
    <3>1. IndexesOf(b, "AssetRegistered")' = {Len(events) + 1}
      BY <1>2, <1>4, <1>5, <2>3
    <3> QED
      BY <1>2, <1>3, <2>3, <3>1 DEF Registered
  <2>4. CASE b # a
    <3>1. IndexesOf(b, "AssetRegistered")' = IndexesOf(b, "AssetRegistered")
      BY <1>2, <1>4, <2>4
    <3> QED
      BY <1>2, <1>3, <2>1, <2>2, <3>1 DEF Registered
  <2> QED
    BY <2>3, <2>4
<1>8. UnmintedIsNotHeld'
  BY <1>1, <1>2, <1>3, <1>4 DEF PlatformInv, UnmintedIsNotHeld
<1>9. ASSUME NEW b \in AssetIds
      PROVE  Premature(b)' \/ totalSupply'[b] = InitialSupply(b)' + SumFunction(balance'[b])
  <2>1. CASE b # a
    <3>1. totalSupply'[b] = totalSupply[b] /\ balance' = balance
      BY <1>2, <1>3, <2>1 DEF PlatformTypeOK
    <3>2. InitialSupply(b)' = InitialSupply(b)
      BY <1>2, <1>3, <2>1, InitialSupplyKept
    <3>3. Premature(b) => Premature(b)'
      BY <1>2, <1>3, PrematureStays
    <3> QED
      BY <1>1, <3>1, <3>2, <3>3 DEF PlatformInv, SupplyTracksBalances
  <2>2. CASE b = a /\ IndexesOf(a, "TokensMinted") = {}
    <3>1. SumFunction(balance'[a]) = 0
      BY <1>1, <1>3, <2>2 DEF PlatformInv, UnmintedIsNotHeld
    <3>2. InitialSupply(a)' = s
      BY <1>2, <1>3, <1>5, InitialSupplyOfFirst
    <3>3. totalSupply'[a] = s
      BY <1>2, <1>3 DEF PlatformTypeOK
    <3> QED
      BY <1>2, <2>2, <3>1, <3>2, <3>3
  <2>3. CASE b = a /\ IndexesOf(a, "TokensMinted") # {}
    <3>1. PICK i \in IndexesOf(a, "TokensMinted") : TRUE
      BY <2>3
    <3>2. i \in Nat /\ i <= Len(events) /\ Len(events) \in Nat
      <4>1. IndexesOf(a, "TokensMinted") \subseteq 1 .. Len(events)
        BY <1>2, IndexesFinite
      <4>2. Len(events) \in Nat
        BY <1>2 DEF PlatformTypeOK
      <4> QED
        BY <3>1, <4>1, <4>2
    <3>3. i \in IndexesOf(a, "TokensMinted")'
      BY <1>2, <1>3, <1>4
    <3>4. Len(events) + 1 \in IndexesOf(a, "AssetRegistered")'
      BY <1>2, <1>3, <1>4
    <3>5. Registered(a)'
      BY <1>2, <1>3 DEF Registered
    <3>6. i < Len(events) + 1
      BY <3>2
    <3>7. Premature(a)'
      <4> QED
        BY <3>3, <3>4, <3>5, <3>6 DEF Premature
    <3> QED
      BY <2>3, <3>7
  <2> QED
    BY <2>1, <2>2, <2>3
<1>10. SupplyTracksBalances'
  BY <1>9 DEF SupplyTracksBalances
<1> QED
  BY <1>6, <1>7, <1>8, <1>10 DEF PlatformInv

\* What users do with the platform.
LEMMA LifecycleKeeps == PlatformInv /\ Lifecycle => PlatformInv'
BY RegisterKeeps, VerifyKeeps, MintKeeps, RedeemKeeps, SafeTransferKeeps, Zenon DEF Lifecycle

LEMMA LifecycleEmits ==
  PlatformInv /\ Lifecycle =>
    \/ UNCHANGED events
    \/ \E action \in Actions, b \in AssetIds, amount \in Nat : Emit(action, b, amount)
<1>1. SUFFICES ASSUME PlatformInv, Lifecycle
               PROVE  \/ UNCHANGED events
                      \/ \E action \in Actions, b \in AssetIds, amount \in Nat :
                           Emit(action, b, amount)
  OBVIOUS
<1>2. \A s \in InitialSupplies \union Amounts : s \in Nat
  BY PlatformConstants
<1>3. 0 \in Nat /\ 1 \in Nat
  OBVIOUS
<1>4. ASSUME NEW h \in Accounts, NEW s \in InitialSupplies, RegisterAsset(h, s)
      PROVE  Emit("AssetRegistered", nextAssetId, s) /\ nextAssetId \in AssetIds
  BY <1>4 DEF RegisterAsset
<1>5. ASSUME NEW a \in AssetIds, NEW sender \in Accounts, NEW isValid \in BOOLEAN,
             VerifyAsset(sender, a, isValid)
      PROVE  \E amount \in Nat : Emit("AssetVerified", a, amount)
  BY <1>3, <1>5 DEF VerifyAsset
<1>6. ASSUME NEW a \in AssetIds, NEW sender \in Accounts, NEW amount \in Amounts,
             Redeem(sender, a, amount)
      PROVE  Emit("TokensRedeemed", a, amount)
  BY <1>6 DEF Redeem
<1>7. ASSUME NEW a \in AssetIds, NEW sender \in Accounts, NEW to \in Accounts,
             NEW amount \in Amounts, Mint(sender, to, a, amount)
      PROVE  Emit("TokensMinted", a, amount)
  BY <1>7 DEF Mint
<1>8. ASSUME NEW a \in AssetIds, NEW sender \in Accounts, NEW to \in Accounts,
             NEW amount \in Amounts, SafeTransferFrom(sender, to, a, amount)
      PROVE  UNCHANGED events
  BY <1>8 DEF SafeTransferFrom
<1>9. /\ "AssetRegistered" \in Actions /\ "AssetVerified" \in Actions
      /\ "TokensMinted" \in Actions /\ "TokensRedeemed" \in Actions
  BY DEF Actions
<1> QED
  BY <1>1, <1>2, <1>4, <1>5, <1>6, <1>7, <1>8, <1>9, Zenon DEF Lifecycle

-----------------------------------------------------------------------------
(* The inductive invariant of the mirror.                                  *)

MirrorType ==
  /\ post \in [EventIds -> [Nodes -> {"idle", "get", "put", "done"}]]
  /\ read \in [EventIds -> [Nodes -> Rows \union {NoRow}]]
  /\ stored \in [EventIds -> SUBSET Nodes]
  /\ table \in [AssetIds -> Rows \union {NoRow}]
  /\ older \in [AssetIds -> SUBSET (Rows \union {NoRow})]
  /\ cache \subseteq Events
  /\ raced \subseteq AssetIds

\* Nothing is posted before its event, and what was put is over.
PostsFollowEvents ==
  \A i \in EventIds, n \in Nodes :
    /\ ~Emitted(i) => post[i][n] = "idle" /\ stored[i] = {} /\ read[i][n] = NoRow
    /\ n \in stored[i] => post[i][n] = "done"

\* A row comes from a registration that was put, and nothing is put before it.
RowsAreRegistered ==
  \A a \in AssetIds :
    /\ table[a] = NoRow => \A i \in 1 .. Len(events) : events[i].asset = a => stored[i] = {}
    /\ table[a] # NoRow => \E i \in IndexesOf(a, "AssetRegistered") : stored[i] # {}

\* What a get may find in the place of the last row says no more than what was
\* put either, and has the same uid.
OlderRows ==
  \A a \in AssetIds : \A row \in older[a] :
    /\ row.minted <= Posted(a, "TokensMinted")
    /\ row.redeemed <= Posted(a, "TokensRedeemed")
    /\ row # NoRow => table[a] # NoRow
    /\ row # NoRow => row.uid = table[a].uid \/ RegisteredTwice(a)

\* An invocation about to put an update.
Updating(i, n) ==
  Emitted(i) /\ post[i][n] = "put" /\ events[i].action # "AssetRegistered"

\* It has read a row of its asset, and the same uid unless there were several.
ReadsAreRows ==
  \A a \in AssetIds, i \in EventIds, n \in Nodes : Updating(i, n) /\ events[i].asset = a =>
    /\ read[i][n] # NoRow /\ table[a] # NoRow
    /\ read[i][n].uid = table[a].uid \/ RegisteredTwice(a)

\* What it has read claims no more than what has been put.
ReadsClaimPosted ==
  \A a \in AssetIds, i \in EventIds, n \in Nodes : Emitted(i) /\ events[i].asset = a =>
    /\ read[i][n].minted <= Posted(a, "TokensMinted")
    /\ read[i][n].redeemed <= Posted(a, "TokensRedeemed")

\* Where invocations did not meet, there is one at most, and its row is the
\* last one unless it found an older one.
OneAtATime ==
  \A i, j \in EventIds, n, m \in Nodes :
    Emitted(i) /\ Emitted(j) /\ events[i].asset = events[j].asset /\ events[i].asset \notin raced
      /\ Invoking(i, n) /\ Invoking(j, m) => i = j /\ n = m

FreshReads ==
  \A i \in EventIds, n \in Nodes :
    Updating(i, n) /\ events[i].asset \notin raced => read[i][n] = table[events[i].asset]

MirrorInv ==
  /\ MirrorType /\ PostsFollowEvents /\ RowsAreRegistered /\ OlderRows
  /\ ReadsAreRows /\ ReadsClaimPosted /\ OneAtATime /\ FreshReads
  /\ NoUpdateCountedTwice /\ SerialMirrorIsExact

ServicingInv ==
  PlatformInv /\ MirrorInv /\ notices \subseteq Notices /\ envOps \in 0 .. MaxEnvOps

LEMMA ServicingConstants ==
  /\ IsFiniteSet(Nodes) /\ Nodes # {} /\ Nodes \subseteq Uids
  /\ MaxEnvOps \in Nat
BY ServicingAssumption DEF ServicingAssumption

-----------------------------------------------------------------------------
(* Rows.                                                                   *)

LEMMA RowTypes ==
  /\ NoRow \notin Rows /\ NoRow.minted = 0 /\ NoRow.redeemed = 0
  /\ \A row \in Rows \union {NoRow} : row.minted \in Nat /\ row.redeemed \in Nat
<1>1. NoUid \notin Nodes
  BY PlatformConstants, ServicingConstants
<1> QED
  BY <1>1 DEF Rows, NoRow

LEMMA RegisteredRow ==
  ASSUME NEW row, NEW event, NEW n \in Nodes, event.action = "AssetRegistered"
  PROVE  /\ Updated(row, event, n) \in Rows
         /\ Updated(row, event, n).minted = 0 /\ Updated(row, event, n).redeemed = 0
BY DEF Updated, Rows, NoRow

\* By how much an event moves the count of a kind of event.
Counts(event, kind) == IF event.action = kind THEN event.amount ELSE 0

LEMMA UpdatedRow ==
  ASSUME NEW row \in Rows, NEW event \in Events, NEW n \in Nodes,
         event.action # "AssetRegistered"
  PROVE  /\ Updated(row, event, n) \in Rows
         /\ Updated(row, event, n).uid = row.uid
         /\ Updated(row, event, n).minted = row.minted + Counts(event, "TokensMinted")
         /\ Updated(row, event, n).redeemed = row.redeemed + Counts(event, "TokensRedeemed")
<1>1. event.amount \in Nat /\ row.minted \in Nat /\ row.redeemed \in Nat
  BY DEF Events, Rows
<1>2. CASE event.action = "AssetVerified"
  BY <1>1, <1>2 DEF Updated, Rows, Counts, Verdict
<1>3. CASE event.action = "TokensMinted"
  BY <1>1, <1>3 DEF Updated, Rows, Counts
<1>4. CASE event.action = "TokensRedeemed"
  BY <1>1, <1>4 DEF Updated, Rows, Counts
<1> QED
  BY <1>2, <1>3, <1>4 DEF Events, Actions

-----------------------------------------------------------------------------
(* What is posted.                                                         *)

Weights == [i \in 1 .. Len(events) |-> Cardinality(stored[i]) * events[i].amount]

LEMMA PostedDefinition ==
  ASSUME NEW a, NEW kind
  PROVE  Posted(a, kind) = SumFunctionOnSet(Weights, IndexesOf(a, kind))
BY DEF Posted, Weights

LEMMA PostedDefinitionNext ==
  ASSUME NEW a, NEW kind
  PROVE  Posted(a, kind)' = SumFunctionOnSet(Weights', IndexesOf(a, kind)')
BY DEF Posted, Weights

LEMMA TimesNat == \A x, y \in Nat : x * y \in Nat
OBVIOUS

LEMMA TimesNext == \A x, y \in Nat : (x + 1) * y = x * y + y
OBVIOUS

LEMMA EmittedIndexes ==
  PlatformTypeOK => 1 .. Len(events) \subseteq EventIds /\ Len(events) \in Nat
BY PlatformConstants DEF PlatformTypeOK, EventIds

LEMMA StoredIsFinite ==
  MirrorType => \A i \in EventIds : IsFiniteSet(stored[i]) /\ Cardinality(stored[i]) \in Nat
<1> SUFFICES ASSUME MirrorType, NEW i \in EventIds
             PROVE  IsFiniteSet(stored[i]) /\ Cardinality(stored[i]) \in Nat
  OBVIOUS
<1>1. stored[i] \in SUBSET Nodes
  BY DEF MirrorType
<1>2. IsFiniteSet(stored[i])
  BY <1>1, ServicingConstants, FS_Subset
<1> QED
  BY <1>2, FS_CardinalityType

LEMMA WeightsAreNats ==
  PlatformTypeOK /\ MirrorType =>
    \A i \in 1 .. Len(events) : /\ Weights[i] \in Nat /\ events[i].amount \in Nat
                                /\ Weights[i] = Cardinality(stored[i]) * events[i].amount
<1> SUFFICES ASSUME PlatformTypeOK, MirrorType, NEW i \in 1 .. Len(events)
             PROVE  /\ Weights[i] \in Nat /\ events[i].amount \in Nat
                    /\ Weights[i] = Cardinality(stored[i]) * events[i].amount
  OBVIOUS
<1>1. events[i].amount \in Nat
  BY EventsAreTyped DEF Events
<1>2. Cardinality(stored[i]) \in Nat
  BY EmittedIndexes, StoredIsFinite
<1>3. Weights[i] = Cardinality(stored[i]) * events[i].amount
  BY DEF Weights
<1> QED
  BY <1>1, <1>2, <1>3, TimesNat

LEMMA PostedIsNat ==
  ASSUME NEW a, NEW kind
  PROVE  PlatformTypeOK /\ MirrorType =>
           Posted(a, kind) \in Nat /\ Summable(Weights, IndexesOf(a, kind))
<1> SUFFICES ASSUME PlatformTypeOK, MirrorType
             PROVE  Posted(a, kind) \in Nat /\ Summable(Weights, IndexesOf(a, kind))
  OBVIOUS
<1> DEFINE S == IndexesOf(a, kind)
<1>1. IsFiniteSet(S) /\ S \subseteq 1 .. Len(events)
  BY IndexesFinite
<1>2. \A i \in S : Weights[i] \in Nat
  BY <1>1, WeightsAreNats
<1> HIDE DEF S
<1>3. SumFunctionOnSet(Weights, S) \in Nat
  BY <1>1, <1>2, SumOfNats
<1>4. Summable(Weights, S)
  BY <1>1, <1>2 DEF Summable
<1> QED
  BY <1>3, <1>4, PostedDefinition DEF S

\* A new event adds nothing until an update of it is stored.
LEMMA PostedAfterEmit ==
  ASSUME NEW action \in Actions, NEW b \in AssetIds, NEW amount \in Nat,
         NEW a \in AssetIds, NEW kind \in Actions
  PROVE  PlatformTypeOK /\ MirrorType /\ PostsFollowEvents /\ Emit(action, b, amount)
           /\ stored' = stored => Posted(a, kind)' = Posted(a, kind)
<1>1. SUFFICES ASSUME PlatformTypeOK, MirrorType, PostsFollowEvents, Emit(action, b, amount),
                      stored' = stored
               PROVE  Posted(a, kind)' = Posted(a, kind)
  OBVIOUS
<1> DEFINE S == IndexesOf(a, kind)
           k == Len(events) + 1
<1>2. /\ Len(events') = k /\ k <= MaxEvents /\ \A i \in 1 .. Len(events) : events'[i] = events[i]
      /\ events'[k] = [action |-> action, asset |-> b, amount |-> amount]
  BY <1>1, EmitAppends
<1>3. Len(events) \in Nat /\ k \in EventIds /\ ~Emitted(k)
  BY <1>1, <1>2, PlatformConstants DEF PlatformTypeOK, EventIds, Emitted
<1>4. stored[k] = {}
  BY <1>1, <1>3, ServicingConstants DEF PostsFollowEvents
<1>5. S \subseteq 1 .. Len(events) /\ Summable(Weights, S)
  BY <1>1, IndexesFinite, PostedIsNat
<1>6. \A i \in 1 .. Len(events) : Weights'[i] = Weights[i]
  BY <1>1, <1>2, <1>3 DEF Weights
<1>7. Weights'[k] = 0
  <2>1. k \in 1 .. Len(events')
    BY <1>2, <1>3
  <2>2. Weights'[k] = Cardinality(stored'[k]) * events'[k].amount
    BY <2>1 DEF Weights
  <2>3. Cardinality(stored'[k]) = 0 /\ events'[k].amount = amount
    BY <1>1, <1>2, <1>4, FS_EmptySet
  <2> QED
    BY <2>2, <2>3
<1>8. IndexesOf(a, kind)' = IF a = b /\ kind = action THEN S \union {k} ELSE S
  BY <1>1, IndexesAfterEmit
<1>9. k \notin S
  BY <1>3, <1>5
<1> HIDE DEF S, k
<1>10. SumFunctionOnSet(Weights, S) = SumFunctionOnSet(Weights', S)
  BY <1>5, <1>6, SumOfSame
<1>11. SumFunctionOnSet(Weights', S) \in Int
  BY <1>5, <1>10, SumIsInt
<1>12. ASSUME a = b, kind = action
       PROVE  SumFunctionOnSet(Weights', S \union {k}) = SumFunctionOnSet(Weights', S)
  <2> DEFINE T == S \union {k}
  <2>1. IsFiniteSet(T)
    BY <1>5, FS_AddElement DEF Summable
  <2>2. \A i \in T : Weights'[i] \in Int
    BY <1>5, <1>6, <1>7 DEF Summable
  <2>3. Summable(Weights', T) /\ k \in T /\ T \ {k} = S
    BY <1>9, <2>1, <2>2 DEF Summable
  <2> HIDE DEF T
  <2>4. SumFunctionOnSet(Weights', T) = Weights'[k] + SumFunctionOnSet(Weights', T \ {k})
    BY <2>3, SumTakesOut
  <2>5. SumFunctionOnSet(Weights', T) = 0 + SumFunctionOnSet(Weights', S)
    BY <1>7, <2>3, <2>4
  <2> QED
    BY <1>11, <2>5 DEF T
<1>13. SumFunctionOnSet(Weights', IndexesOf(a, kind)') = SumFunctionOnSet(Weights', S)
  BY <1>8, <1>12
<1> QED
  BY <1>10, <1>13, PostedDefinition, PostedDefinitionNext DEF S

\* A stored update adds its event once more.
LEMMA PostedAfterPut ==
  ASSUME NEW i \in EventIds, NEW n \in Nodes, NEW a \in AssetIds, NEW kind \in Actions
  PROVE  PlatformTypeOK /\ MirrorType /\ Emitted(i) /\ n \notin stored[i]
           /\ stored' = [stored EXCEPT ![i] = @ \union {n}] /\ UNCHANGED events =>
             Posted(a, kind)' = Posted(a, kind)
                                + (IF events[i].asset = a THEN Counts(events[i], kind) ELSE 0)
<1>1. SUFFICES ASSUME PlatformTypeOK, MirrorType, Emitted(i), n \notin stored[i],
                      stored' = [stored EXCEPT ![i] = @ \union {n}], UNCHANGED events
               PROVE  Posted(a, kind)' = Posted(a, kind)
                        + (IF events[i].asset = a THEN Counts(events[i], kind) ELSE 0)
  OBVIOUS
<1> DEFINE S == IndexesOf(a, kind)
<1>2. i \in 1 .. Len(events) /\ Len(events) \in Nat
  BY <1>1, EmittedIndexes DEF Emitted, EventIds
<1>3. S \subseteq 1 .. Len(events) /\ Summable(Weights, S)
  BY <1>1, IndexesFinite, PostedIsNat
<1>4. IndexesOf(a, kind)' = S
  BY <1>1 DEF IndexesOf
<1>5. \A j \in 1 .. Len(events) : j # i => Weights'[j] = Weights[j]
  BY <1>1, EmittedIndexes DEF Weights, MirrorType
<1>6. events[i].amount \in Nat /\ Weights[i] \in Nat
  BY <1>1, <1>2, WeightsAreNats
<1>7. Weights'[i] = Weights[i] + events[i].amount
  <2>1. stored'[i] = stored[i] \union {n}
    BY <1>1 DEF MirrorType
  <2>2. /\ Cardinality(stored'[i]) = Cardinality(stored[i]) + 1
        /\ Cardinality(stored[i]) \in Nat
    BY <1>1, <2>1, StoredIsFinite, FS_AddElement
  <2>3. Weights'[i] = (Cardinality(stored[i]) + 1) * events[i].amount
    BY <1>1, <1>2, <2>2 DEF Weights
  <2>4. Weights[i] = Cardinality(stored[i]) * events[i].amount
    BY <1>1, <1>2, WeightsAreNats
  <2> QED
    BY <1>6, <2>2, <2>3, <2>4, TimesNext
<1>8. i \in S <=> events[i].asset = a /\ events[i].action = kind
  BY <1>2 DEF IndexesOf
<1>9. Posted(a, kind) \in Nat
  BY <1>1, PostedIsNat
<1>10. Posted(a, kind) = SumFunctionOnSet(Weights, S)
  BY PostedDefinition
<1>11. Posted(a, kind)' = SumFunctionOnSet(Weights', S)
  BY <1>4, PostedDefinitionNext
<1> HIDE DEF S
<1>12. CASE i \in S
  <2>1. Summable(Weights', S)
    BY <1>3, <1>5, <1>6, <1>7 DEF Summable
  <2>2. \A j \in S \ {i} : Weights[j] = Weights'[j]
    BY <1>3, <1>5
  <2>3. SumFunctionOnSet(Weights', S) = SumFunctionOnSet(Weights, S) + (Weights'[i] - Weights[i])
    <3>1. Summable(Weights, S)
      BY <1>3
    <3> QED
      BY <1>12, <2>1, <2>2, <3>1, SumChanges
  <2>4. Counts(events[i], kind) = events[i].amount
    BY <1>8, <1>12 DEF Counts
  <2> QED
    BY <1>6, <1>7, <1>8, <1>9, <1>10, <1>11, <1>12, <2>3, <2>4
<1>13. CASE i \notin S
  <2>1. \A j \in S : Weights[j] = Weights'[j]
    BY <1>3, <1>5, <1>13
  <2>2. SumFunctionOnSet(Weights, S) = SumFunctionOnSet(Weights', S)
    BY <1>3, <2>1, SumOfSame
  <2>3. (IF events[i].asset = a THEN Counts(events[i], kind) ELSE 0) = 0
    BY <1>8, <1>13 DEF Counts
  <2> QED
    BY <1>9, <1>10, <1>11, <2>2, <2>3
<1> QED
  BY <1>12, <1>13

-----------------------------------------------------------------------------
(* The mirror's steps that put nothing.                                    *)

\* Registered by several nodes once, registered by several nodes for good.
LEMMA TwiceStays ==
  ASSUME NEW a \in AssetIds
  PROVE  PlatformTypeOK /\ stored' \in [EventIds -> SUBSET Nodes]
           /\ (\A i \in EventIds : stored[i] \subseteq stored'[i])
           /\ IndexesOf(a, "AssetRegistered") \subseteq IndexesOf(a, "AssetRegistered")'
           /\ MirrorType /\ RegisteredTwice(a) => RegisteredTwice(a)'
<1>1. SUFFICES ASSUME PlatformTypeOK, stored' \in [EventIds -> SUBSET Nodes],
                      \A i \in EventIds : stored[i] \subseteq stored'[i],
                      IndexesOf(a, "AssetRegistered") \subseteq IndexesOf(a, "AssetRegistered")',
                      MirrorType, RegisteredTwice(a)
               PROVE  RegisteredTwice(a)'
  OBVIOUS
<1>2. PICK i \in IndexesOf(a, "AssetRegistered") : Cardinality(stored[i]) > 1
  BY <1>1 DEF RegisteredTwice
<1>3. i \in EventIds
  BY <1>1, EmittedIndexes, IndexesFinite
<1>4. IsFiniteSet(stored'[i]) /\ stored[i] \in SUBSET stored'[i]
  <2>1. stored'[i] \in SUBSET Nodes
    BY <1>1, <1>3
  <2> QED
    BY <1>1, <1>3, <2>1, ServicingConstants, FS_Subset
<1>5. /\ Cardinality(stored[i]) <= Cardinality(stored'[i])
      /\ Cardinality(stored[i]) \in Nat /\ Cardinality(stored'[i]) \in Nat
  BY <1>4, FS_Subset, FS_CardinalityType
<1>6. Cardinality(stored'[i]) > 1
  BY <1>2, <1>5
<1> QED
  BY <1>1, <1>2, <1>6 DEF RegisteredTwice

\* The platform emits an event.
LEMMA EmitKeepsMirror ==
  ASSUME NEW action \in Actions, NEW b \in AssetIds, NEW amount \in Nat
  PROVE  PlatformInv /\ MirrorInv /\ Emit(action, b, amount) /\ UNCHANGED mirrorVars => MirrorInv'
<1>1. SUFFICES ASSUME PlatformInv, MirrorInv, Emit(action, b, amount), UNCHANGED mirrorVars
               PROVE  MirrorInv'
  OBVIOUS
<1>2. PlatformTypeOK /\ MirrorType /\ PostsFollowEvents
  BY <1>1 DEF PlatformInv, MirrorInv
<1>3. UNCHANGED <<post, read, stored, table, older, cache, raced>>
  BY <1>1 DEF mirrorVars
<1> DEFINE k == Len(events) + 1
<1>4. /\ Len(events') = k /\ k <= MaxEvents /\ \A i \in 1 .. Len(events) : events'[i] = events[i]
  BY <1>1, <1>2, EmitAppends
<1>5. Len(events) \in Nat /\ k \in EventIds /\ ~Emitted(k)
  BY <1>2, <1>4, PlatformConstants DEF PlatformTypeOK, EventIds, Emitted
<1>6. \A i \in EventIds : Emitted(i)' => (Emitted(i) /\ events'[i] = events[i]) \/ i = k
  BY <1>4, <1>5 DEF Emitted, EventIds
<1>7. \A i \in EventIds : Emitted(i) => Emitted(i)'
  BY <1>4, <1>5 DEF Emitted, EventIds
<1>8. \A n \in Nodes : post[k][n] = "idle" /\ read[k][n] = NoRow
  BY <1>2, <1>5 DEF PostsFollowEvents
<1>9. stored[k] = {}
  BY <1>2, <1>5, ServicingConstants DEF PostsFollowEvents
<1>10. \A a \in AssetIds, kind \in Actions : Posted(a, kind)' = Posted(a, kind)
  BY <1>1, <1>2, <1>3, PostedAfterEmit
<1>11. \A a \in AssetIds, kind \in Actions : IndexesOf(a, kind) \subseteq IndexesOf(a, kind)'
  BY <1>1, <1>2, IndexesAfterEmit
<1>12. /\ "AssetRegistered" \in Actions /\ "TokensMinted" \in Actions
       /\ "TokensRedeemed" \in Actions
  BY DEF Actions
<1>13. \A a \in AssetIds : RegisteredTwice(a) => RegisteredTwice(a)'
  BY <1>2, <1>3, <1>11, <1>12, TwiceStays DEF MirrorType
<1>14. \A i \in EventIds : Emitted(i) => events[i].asset \in AssetIds
  BY <1>2, EventsAreTyped DEF Emitted, EventIds, Events
<1> HIDE DEF k
<1>15. MirrorType'
  BY <1>2, <1>3 DEF MirrorType
<1>16. PostsFollowEvents'
  BY <1>2, <1>3, <1>7 DEF PostsFollowEvents
<1>17. RowsAreRegistered'
  <2>1. ASSUME NEW a \in AssetIds, table[a] = NoRow, NEW i \in 1 .. Len(events'),
               events'[i].asset = a
        PROVE  stored[i] = {}
    <3>1. i = k \/ (i \in 1 .. Len(events) /\ events'[i] = events[i])
      BY <1>4, <1>5 DEF k
    <3> QED
      BY <1>1, <1>9, <2>1, <3>1 DEF MirrorInv, RowsAreRegistered
  <2>2. ASSUME NEW a \in AssetIds, table[a] # NoRow
        PROVE  \E i \in IndexesOf(a, "AssetRegistered")' : stored[i] # {}
    BY <1>1, <1>11, <1>12, <2>2 DEF MirrorInv, RowsAreRegistered
  <2> QED
    BY <1>3, <2>1, <2>2 DEF RowsAreRegistered
<1>18. \A i \in EventIds, n \in Nodes :
         Updating(i, n)' => Updating(i, n) /\ events'[i] = events[i]
  BY <1>3, <1>6, <1>8 DEF Updating
<1>19. ReadsAreRows'
  <2> SUFFICES ASSUME NEW a \in AssetIds, NEW i \in EventIds, NEW n \in Nodes,
                      Updating(i, n)', events'[i].asset = a
               PROVE  /\ read[i][n] # NoRow /\ table[a] # NoRow
                      /\ read[i][n].uid = table[a].uid \/ RegisteredTwice(a)'
    BY <1>3 DEF ReadsAreRows
  <2>1. Updating(i, n) /\ events[i].asset = a
    BY <1>18
  <2> QED
    BY <1>1, <1>13, <2>1 DEF MirrorInv, ReadsAreRows
<1>20. ReadsClaimPosted'
  <2> SUFFICES ASSUME NEW a \in AssetIds, NEW i \in EventIds, NEW n \in Nodes,
                      Emitted(i)', events'[i].asset = a
               PROVE  /\ read[i][n].minted <= Posted(a, "TokensMinted")
                      /\ read[i][n].redeemed <= Posted(a, "TokensRedeemed")
    BY <1>3, <1>10, <1>12 DEF ReadsClaimPosted
  <2>1. CASE Emitted(i) /\ events'[i] = events[i]
    BY <1>1, <2>1 DEF MirrorInv, ReadsClaimPosted
  <2>2. CASE i = k
    <3>1. Posted(a, "TokensMinted") \in Nat /\ Posted(a, "TokensRedeemed") \in Nat
      BY <1>2, PostedIsNat
    <3>2. read[i][n] = NoRow
      BY <1>8, <2>2
    <3> QED
      BY <3>1, <3>2, RowTypes
  <2> QED
    BY <1>6, <2>1, <2>2
<1>21. OneAtATime'
  BY <1>1, <1>3, <1>6, <1>8 DEF MirrorInv, OneAtATime, Invoking
<1>22. FreshReads'
  BY <1>1, <1>3, <1>18 DEF MirrorInv, FreshReads
<1>23. NoUpdateCountedTwice'
  BY <1>1, <1>3, <1>10, <1>12 DEF MirrorInv, NoUpdateCountedTwice
<1>24. SerialMirrorIsExact'
  BY <1>1, <1>3, <1>10, <1>12, <1>13 DEF MirrorInv, SerialMirrorIsExact
<1>25. OlderRows'
  BY <1>1, <1>3, <1>10, <1>12, <1>13 DEF MirrorInv, OlderRows
<1> QED
  BY <1>15, <1>16, <1>17, <1>19, <1>20, <1>21, <1>22, <1>23, <1>24, <1>25 DEF MirrorInv

\* What is stored stays.
LEMMA QuietSums ==
  UNCHANGED <<stored, events>> =>
    \A a \in AssetIds :
      /\ \A kind \in Actions : /\ IndexesOf(a, kind)' = IndexesOf(a, kind)
                               /\ Posted(a, kind)' = Posted(a, kind)
      /\ RegisteredTwice(a)' <=> RegisteredTwice(a)
BY DEF IndexesOf, Posted, RegisteredTwice

LEMMA KindsOfEvents ==
  /\ "AssetRegistered" \in Actions /\ "TokensMinted" \in Actions
  /\ "TokensRedeemed" \in Actions
BY DEF Actions

\* Neither rows nor what is stored change.
LEMMA QuietFrame ==
  MirrorInv /\ UNCHANGED <<table, older, stored, events>> /\ raced \subseteq raced' =>
    RowsAreRegistered' /\ OlderRows' /\ NoUpdateCountedTwice' /\ SerialMirrorIsExact'
<1> SUFFICES ASSUME MirrorInv, UNCHANGED <<table, older, stored, events>>, raced \subseteq raced'
             PROVE  RowsAreRegistered' /\ OlderRows' /\ NoUpdateCountedTwice' /\ SerialMirrorIsExact'
  OBVIOUS
<1>1. RowsAreRegistered'
  BY QuietSums, KindsOfEvents DEF MirrorInv, RowsAreRegistered
<1>2. NoUpdateCountedTwice'
  BY QuietSums, KindsOfEvents DEF MirrorInv, NoUpdateCountedTwice
<1>3. SerialMirrorIsExact'
  BY QuietSums, KindsOfEvents DEF MirrorInv, SerialMirrorIsExact
<1>4. OlderRows'
  BY QuietSums, KindsOfEvents DEF MirrorInv, OlderRows
<1> QED
  BY <1>1, <1>2, <1>3, <1>4

LEMMA PostDataKeeps ==
  ASSUME NEW i \in EventIds, NEW n \in Nodes
  PROVE  PlatformInv /\ MirrorInv /\ PostData(i, n) => MirrorInv'
<1>1. SUFFICES ASSUME PlatformInv, MirrorInv, PostData(i, n) PROVE MirrorInv'
  OBVIOUS
<1>2. MirrorType /\ PlatformTypeOK
  BY <1>1 DEF PlatformInv, MirrorInv
<1>3. PICK a \in AssetIds : a = events[i].asset
  BY <1>1, <1>2, EventsAreTyped DEF PostData, Emitted, EventIds, Events
<1>4. PICK state \in {"get", "put", "done"} :
        /\ post' = [post EXCEPT ![i][n] = state]
        /\ state = "put" => events[i].action = "AssetRegistered"
        /\ \/ state = "done" /\ raced' = raced
           \/ /\ raced' = raced \/ raced' = raced \union {a}
              /\ (\E j \in 1 .. Len(events), m \in Nodes : events[j].asset = a /\ Invoking(j, m))
                   => a \in raced'
  BY <1>1, <1>3 DEF PostData, To
<1>5. /\ Emitted(i) /\ post[i][n] = "idle"
      /\ UNCHANGED <<events, read, stored, table, older, cache>>
  BY <1>1 DEF PostData, platformVars
<1>6. raced \subseteq raced' /\ raced' \subseteq AssetIds
  BY <1>2, <1>4 DEF MirrorType
<1>7. \A j \in EventIds, m \in Nodes : ~(j = i /\ m = n) => post'[j][m] = post[j][m]
  BY <1>2, <1>4 DEF MirrorType
<1>8. post'[i][n] = state
  BY <1>2, <1>4 DEF MirrorType
<1>9. MirrorType'
  BY <1>2, <1>4, <1>5, <1>6 DEF MirrorType
<1>10. PostsFollowEvents'
  <2>1. \A j \in EventIds : Emitted(j)' <=> Emitted(j)
    BY <1>5 DEF Emitted
  <2>2. n \notin stored[i]
    BY <1>1, <1>5 DEF MirrorInv, PostsFollowEvents
  <2> QED
    BY <1>1, <1>5, <1>7, <2>1, <2>2 DEF MirrorInv, PostsFollowEvents
<1>11. \A j \in EventIds, m \in Nodes : Updating(j, m)' => Updating(j, m)
  BY <1>4, <1>5, <1>7, <1>8 DEF Updating, Emitted
<1>12. ReadsAreRows' /\ ReadsClaimPosted'
  <2>1. ReadsAreRows'
    BY <1>1, <1>5, <1>11, QuietSums DEF MirrorInv, ReadsAreRows
  <2>2. ReadsClaimPosted'
    BY <1>1, <1>5, QuietSums, KindsOfEvents DEF MirrorInv, ReadsClaimPosted, Emitted
  <2> QED
    BY <2>1, <2>2
<1>13. OneAtATime'
  <2> SUFFICES ASSUME NEW j \in EventIds, NEW l \in EventIds, NEW m \in Nodes, NEW o \in Nodes,
                      Emitted(j), Emitted(l), events[j].asset = events[l].asset,
                      events[j].asset \notin raced', Invoking(j, m)', Invoking(l, o)'
               PROVE  j = l /\ m = o
    BY <1>5 DEF OneAtATime, Emitted
  <2>1. CASE ~(j = i /\ m = n) /\ ~(l = i /\ o = n)
    <3>1. Invoking(j, m) /\ Invoking(l, o)
      BY <1>7, <2>1 DEF Invoking
    <3> QED
      BY <1>1, <1>6, <3>1 DEF MirrorInv, OneAtATime
  <2>2. ASSUME NEW q \in EventIds, NEW p \in Nodes, ~(q = i /\ p = n), Invoking(q, p)',
               Emitted(q), events[q].asset = a, a \notin raced', state # "done"
        PROVE  FALSE
    <3>1. Invoking(q, p) /\ q \in 1 .. Len(events)
      BY <1>2, <1>7, <2>2, EmittedIndexes DEF Invoking, Emitted, EventIds
    <3> QED
      BY <1>4, <2>2, <3>1
  <2>3. CASE j = i /\ m = n
    <3>1. state # "done"
      BY <1>8, <2>3 DEF Invoking
    <3> QED
      BY <1>3, <2>2, <2>3, <3>1
  <2>4. CASE l = i /\ o = n
    <3>1. state # "done"
      BY <1>8, <2>4 DEF Invoking
    <3> QED
      BY <1>3, <2>2, <2>4, <3>1
  <2> QED
    BY <2>1, <2>3, <2>4
<1>14. FreshReads'
  BY <1>1, <1>5, <1>6, <1>11 DEF MirrorInv, FreshReads
<1> QED
  BY <1>1, <1>5, <1>6, <1>9, <1>10, <1>12, <1>13, <1>14, QuietFrame DEF MirrorInv

LEMMA GetItemKeeps ==
  ASSUME NEW i \in EventIds, NEW n \in Nodes
  PROVE  PlatformInv /\ MirrorInv /\ GetItem(i, n) => MirrorInv'
<1>1. SUFFICES ASSUME PlatformInv, MirrorInv, GetItem(i, n) PROVE MirrorInv'
  OBVIOUS
<1>2. MirrorType /\ PlatformTypeOK
  BY <1>1 DEF PlatformInv, MirrorInv
<1>3. /\ post[i][n] = "get" /\ UNCHANGED <<events, stored, table, older, cache>>
  BY <1>1 DEF GetItem, platformVars
<1>4. Emitted(i) /\ n \notin stored[i]
  BY <1>1, <1>3 DEF MirrorInv, PostsFollowEvents
<1>5. PICK a \in AssetIds : a = events[i].asset
  BY <1>2, <1>4, EventsAreTyped DEF Emitted, EventIds, Events
<1>16. PICK row \in older[a] \union {table[a]} :
         /\ IF row = table[a] THEN raced' = raced ELSE raced' = raced \union {a}
         /\ IF row = NoRow THEN To(i, n, "done") /\ UNCHANGED read
                           ELSE To(i, n, "put") /\ read' = [read EXCEPT ![i][n] = row]
  BY <1>1, <1>5 DEF GetItem
<1>17. /\ row \in Rows \union {NoRow}
       /\ row.minted <= Posted(a, "TokensMinted")
       /\ row.redeemed <= Posted(a, "TokensRedeemed")
       /\ row # NoRow => table[a] # NoRow
       /\ row # NoRow => row.uid = table[a].uid \/ RegisteredTwice(a)
  <2>1. CASE row \in older[a]
    BY <1>1, <1>2, <2>1 DEF MirrorInv, OlderRows, MirrorType
  <2>2. CASE row = table[a]
    BY <1>1, <1>2, <2>2 DEF MirrorInv, NoUpdateCountedTwice, MirrorType
  <2> QED
    BY <2>1, <2>2
<1>18. raced \subseteq raced' /\ raced' \subseteq AssetIds /\ (a \in raced' \/ row = table[a])
  BY <1>2, <1>16 DEF MirrorType
<1>6. PICK state \in {"put", "done"} :
        /\ post' = [post EXCEPT ![i][n] = state]
        /\ \/ state = "done" /\ read' = read
           \/ state = "put" /\ row # NoRow /\ read' = [read EXCEPT ![i][n] = row]
  BY <1>16 DEF To
<1>7. \A j \in EventIds, m \in Nodes :
        ~(j = i /\ m = n) => post'[j][m] = post[j][m] /\ read'[j][m] = read[j][m]
  BY <1>2, <1>6 DEF MirrorType
<1>8. /\ post'[i][n] = state
      /\ state = "put" => read'[i][n] = row /\ row # NoRow
      /\ state = "done" => read'[i][n] = read[i][n]
  BY <1>2, <1>6 DEF MirrorType
<1>9. MirrorType'
  <2>1. post' \in [EventIds -> [Nodes -> {"idle", "get", "put", "done"}]]
    BY <1>2, <1>6 DEF MirrorType
  <2>3. read' = read \/ read' = [read EXCEPT ![i][n] = row]
    BY <1>6
  <2>4. read \in [EventIds -> [Nodes -> Rows \union {NoRow}]]
    BY <1>2 DEF MirrorType
  <2>5. read' \in [EventIds -> [Nodes -> Rows \union {NoRow}]]
    BY <1>17, <2>3, <2>4
  <2> QED
    BY <1>2, <1>3, <1>18, <2>1, <2>5 DEF MirrorType
<1>10. PostsFollowEvents'
  BY <1>1, <1>3, <1>4, <1>7 DEF MirrorInv, PostsFollowEvents, Emitted
<1>11. ReadsAreRows'
  <2> SUFFICES ASSUME NEW b \in AssetIds, NEW j \in EventIds, NEW m \in Nodes,
                      Updating(j, m)', events[j].asset = b
               PROVE  /\ read'[j][m] # NoRow /\ table[b] # NoRow
                      /\ read'[j][m].uid = table[b].uid \/ RegisteredTwice(b)
    BY <1>3, QuietSums DEF ReadsAreRows
  <2>1. CASE j = i /\ m = n
    <3>1. state = "put"
      BY <1>8, <2>1 DEF Updating
    <3> QED
      BY <1>5, <1>8, <1>17, <2>1, <3>1
  <2>2. CASE ~(j = i /\ m = n)
    <3>1. Updating(j, m)
      BY <1>3, <1>7, <2>2 DEF Updating, Emitted
    <3> QED
      BY <1>1, <1>7, <2>2, <3>1 DEF MirrorInv, ReadsAreRows
  <2> QED
    BY <2>1, <2>2
<1>12. ReadsClaimPosted'
  <2> SUFFICES ASSUME NEW b \in AssetIds, NEW j \in EventIds, NEW m \in Nodes,
                      Emitted(j), events[j].asset = b
               PROVE  /\ read'[j][m].minted <= Posted(b, "TokensMinted")
                      /\ read'[j][m].redeemed <= Posted(b, "TokensRedeemed")
    BY <1>3, QuietSums, KindsOfEvents DEF ReadsClaimPosted, Emitted
  <2>1. CASE read'[j][m] = read[j][m]
    BY <1>1, <2>1 DEF MirrorInv, ReadsClaimPosted
  <2>2. CASE j = i /\ m = n /\ read'[i][n] = row
    BY <1>5, <1>17, <2>2
  <2> QED
    BY <1>7, <1>8, <2>1, <2>2
<1>13. \A j \in EventIds, m \in Nodes : Invoking(j, m)' => Invoking(j, m)
  BY <1>3, <1>7 DEF Invoking
<1>14. OneAtATime'
  BY <1>1, <1>3, <1>13, <1>18 DEF MirrorInv, OneAtATime, Emitted
<1>15. FreshReads'
  <2> SUFFICES ASSUME NEW j \in EventIds, NEW m \in Nodes, Updating(j, m)',
                      events[j].asset \notin raced'
               PROVE  read'[j][m] = table[events[j].asset]
    BY <1>3 DEF FreshReads
  <2>1. CASE j = i /\ m = n
    <3>1. state = "put"
      BY <1>8, <2>1 DEF Updating
    <3> QED
      BY <1>5, <1>8, <1>18, <2>1, <3>1
  <2>2. CASE ~(j = i /\ m = n)
    <3>1. Updating(j, m)
      BY <1>3, <1>7, <2>2 DEF Updating, Emitted
    <3> QED
      BY <1>1, <1>7, <1>18, <2>2, <3>1 DEF MirrorInv, FreshReads
  <2> QED
    BY <2>1, <2>2
<1> QED
  BY <1>1, <1>3, <1>9, <1>10, <1>11, <1>12, <1>14, <1>15, <1>18, QuietFrame DEF MirrorInv

LEMMA RequestFailsKeeps ==
  ASSUME NEW i \in EventIds, NEW n \in Nodes
  PROVE  PlatformInv /\ MirrorInv /\ RequestFails(i, n) => MirrorInv'
<1>1. SUFFICES ASSUME PlatformInv, MirrorInv, RequestFails(i, n) PROVE MirrorInv'
  OBVIOUS
<1>2. MirrorType /\ PlatformTypeOK
  BY <1>1 DEF PlatformInv, MirrorInv
<1>3. /\ Emitted(i)
      /\ post' = [post EXCEPT ![i][n] = "done"] /\ read' = [read EXCEPT ![i][n] = NoRow]
      /\ UNCHANGED <<events, stored, table, older, cache, raced>>
  BY <1>1 DEF RequestFails, To, platformVars
<1>4. \A j \in EventIds, m \in Nodes :
        /\ ~(j = i /\ m = n) => post'[j][m] = post[j][m] /\ read'[j][m] = read[j][m]
        /\ j = i /\ m = n => post'[j][m] = "done" /\ read'[j][m] = NoRow
  BY <1>2, <1>3 DEF MirrorType
<1>5. MirrorType'
  <2>1. post' \in [EventIds -> [Nodes -> {"idle", "get", "put", "done"}]]
    BY <1>2, <1>3 DEF MirrorType
  <2>2. read' \in [EventIds -> [Nodes -> Rows \union {NoRow}]]
    BY <1>2, <1>3 DEF MirrorType
  <2> QED
    BY <1>2, <1>3, <2>1, <2>2 DEF MirrorType
<1>6. PostsFollowEvents'
  BY <1>1, <1>3, <1>4 DEF MirrorInv, PostsFollowEvents, Emitted
<1>7. \A j \in EventIds, m \in Nodes : Updating(j, m)' =>
        Updating(j, m) /\ read'[j][m] = read[j][m]
  BY <1>3, <1>4 DEF Updating, Emitted
<1>8. ReadsAreRows'
  BY <1>1, <1>3, <1>7, QuietSums DEF MirrorInv, ReadsAreRows
<1>9. ReadsClaimPosted'
  <2> SUFFICES ASSUME NEW b \in AssetIds, NEW j \in EventIds, NEW m \in Nodes,
                      Emitted(j), events[j].asset = b
               PROVE  /\ read'[j][m].minted <= Posted(b, "TokensMinted")
                      /\ read'[j][m].redeemed <= Posted(b, "TokensRedeemed")
    BY <1>3, QuietSums, KindsOfEvents DEF ReadsClaimPosted, Emitted
  <2>1. CASE read'[j][m] = read[j][m]
    BY <1>1, <2>1 DEF MirrorInv, ReadsClaimPosted
  <2>2. CASE read'[j][m] = NoRow
    <3>1. Posted(b, "TokensMinted") \in Nat /\ Posted(b, "TokensRedeemed") \in Nat
      BY <1>2, PostedIsNat
    <3> QED
      BY <2>2, <3>1, RowTypes
  <2> QED
    BY <1>4, <2>1, <2>2
<1>10. \A j \in EventIds, m \in Nodes : Invoking(j, m)' => Invoking(j, m)
  BY <1>3, <1>4 DEF Invoking
<1>11. OneAtATime'
  BY <1>1, <1>3, <1>10 DEF MirrorInv, OneAtATime, Emitted
<1>12. FreshReads'
  BY <1>1, <1>3, <1>7 DEF MirrorInv, FreshReads
<1> QED
  BY <1>1, <1>3, <1>5, <1>6, <1>8, <1>9, <1>11, <1>12, QuietFrame DEF MirrorInv

LEMMA MirrorFrame ==
  MirrorInv /\ UNCHANGED <<post, read, stored, table, older, raced, events>> /\ cache' \subseteq Events
    => MirrorInv'
<1> SUFFICES ASSUME MirrorInv, UNCHANGED <<post, read, stored, table, older, raced, events>>,
                    cache' \subseteq Events
             PROVE  MirrorInv'
  OBVIOUS
<1>1. MirrorType' /\ PostsFollowEvents'
  BY DEF MirrorInv, MirrorType, PostsFollowEvents, Emitted
<1>2. \A i \in EventIds, n \in Nodes : /\ Updating(i, n)' <=> Updating(i, n)
                                       /\ Emitted(i)' <=> Emitted(i)
                                       /\ Invoking(i, n)' <=> Invoking(i, n)
  BY DEF Updating, Emitted, Invoking
<1>3. ReadsAreRows'
  BY <1>2, QuietSums DEF MirrorInv, ReadsAreRows
<1>4. ReadsClaimPosted'
  BY QuietSums, KindsOfEvents DEF MirrorInv, ReadsClaimPosted, Emitted
<1>5. OneAtATime'
  BY <1>2 DEF MirrorInv, OneAtATime, Emitted
<1>6. FreshReads'
  BY <1>2 DEF MirrorInv, FreshReads
<1> QED
  BY <1>1, <1>3, <1>4, <1>5, <1>6, QuietFrame DEF MirrorInv

\* What a put stores where.
LEMMA PutItemEffect ==
  ASSUME NEW i \in EventIds, NEW n \in Nodes
  PROVE  PlatformInv /\ MirrorInv /\ PutItem(i, n) =>
           \E a \in AssetIds, event \in Events, new \in Rows :
             /\ Emitted(i) /\ event = events[i] /\ event.asset = a
             /\ n \notin stored[i] /\ post[i][n] = "put"
             /\ \/ /\ event.action = "AssetRegistered"
                   /\ new.minted = 0 /\ new.redeemed = 0
                \/ /\ event.action # "AssetRegistered" /\ read[i][n] \in Rows
                   /\ new.uid = read[i][n].uid
                   /\ new.minted = read[i][n].minted + Counts(event, "TokensMinted")
                   /\ new.redeemed = read[i][n].redeemed + Counts(event, "TokensRedeemed")
             /\ table' = [table EXCEPT ![a] = new]
             /\ older' = [older EXCEPT ![a] = @ \union {table[a]}]
             /\ stored' = [stored EXCEPT ![i] = @ \union {n}]
             /\ read' = [read EXCEPT ![i][n] = NoRow]
             /\ post' = [post EXCEPT ![i][n] = "done"]
             /\ cache' \subseteq Events
             /\ UNCHANGED <<raced, events>>
<1>1. SUFFICES ASSUME PlatformInv, MirrorInv, PutItem(i, n)
               PROVE  \E a \in AssetIds, event \in Events, new \in Rows :
             /\ Emitted(i) /\ event = events[i] /\ event.asset = a
             /\ n \notin stored[i] /\ post[i][n] = "put"
             /\ \/ /\ event.action = "AssetRegistered"
                   /\ new.minted = 0 /\ new.redeemed = 0
                \/ /\ event.action # "AssetRegistered" /\ read[i][n] \in Rows
                   /\ new.uid = read[i][n].uid
                   /\ new.minted = read[i][n].minted + Counts(event, "TokensMinted")
                   /\ new.redeemed = read[i][n].redeemed + Counts(event, "TokensRedeemed")
             /\ table' = [table EXCEPT ![a] = new]
             /\ older' = [older EXCEPT ![a] = @ \union {table[a]}]
             /\ stored' = [stored EXCEPT ![i] = @ \union {n}]
             /\ read' = [read EXCEPT ![i][n] = NoRow]
             /\ post' = [post EXCEPT ![i][n] = "done"]
             /\ cache' \subseteq Events
             /\ UNCHANGED <<raced, events>>
  OBVIOUS
<1>2. MirrorType /\ PlatformTypeOK
  BY <1>1 DEF PlatformInv, MirrorInv
<1>3. /\ post[i][n] = "put" /\ UNCHANGED <<raced, events>>
      /\ table' = [table EXCEPT ![events[i].asset] = Updated(read[i][n], events[i], n)]
      /\ older' = [older EXCEPT ![events[i].asset] = @ \union {table[events[i].asset]}]
      /\ stored' = [stored EXCEPT ![i] = @ \union {n}]
      /\ read' = [read EXCEPT ![i][n] = NoRow]
      /\ post' = [post EXCEPT ![i][n] = "done"]
      /\ cache' = cache \/ cache' = cache \union {events[i]}
  BY <1>1 DEF PutItem, To, platformVars
<1>4. Emitted(i) /\ n \notin stored[i]
  BY <1>1, <1>3 DEF MirrorInv, PostsFollowEvents
<1>5. PICK event \in Events : event = events[i]
  BY <1>2, <1>4, EventsAreTyped DEF Emitted, EventIds
<1>6. PICK a \in AssetIds : a = event.asset
  BY DEF Events
<1>7. cache' \subseteq Events
  BY <1>2, <1>3, <1>5 DEF MirrorType
<1>8. CASE event.action = "AssetRegistered"
  <2>1. PICK new \in Rows : /\ new = Updated(read[i][n], event, n)
                            /\ new.minted = 0 /\ new.redeemed = 0
    BY <1>8, RegisteredRow
  <2>2. table' = [table EXCEPT ![a] = new]
    BY <1>3, <1>5, <1>6, <2>1
  <2> QED
    BY <1>3, <1>4, <1>5, <1>6, <1>7, <1>8, <2>1, <2>2
<1>9. CASE event.action # "AssetRegistered"
  <2>1. Updating(i, n)
    BY <1>3, <1>4, <1>5, <1>9 DEF Updating
  <2>2. read[i][n] \in Rows
    BY <1>1, <1>2, <1>5, <1>6, <2>1 DEF MirrorInv, ReadsAreRows, MirrorType
  <2>3. PICK row \in Rows : row = read[i][n]
    BY <2>2
  <2>4. PICK new \in Rows :
          /\ new = Updated(row, event, n) /\ new.uid = row.uid
          /\ new.minted = row.minted + Counts(event, "TokensMinted")
          /\ new.redeemed = row.redeemed + Counts(event, "TokensRedeemed")
    BY <1>9, UpdatedRow
  <2>5. table' = [table EXCEPT ![a] = new]
    BY <1>3, <1>5, <1>6, <2>3, <2>4
  <2> QED
    BY <1>3, <1>4, <1>5, <1>6, <1>7, <1>9, <2>2, <2>3, <2>4, <2>5
<1> QED
  BY <1>8, <1>9

LEMMA CountsAreNats ==
  \A event \in Events, kind \in Actions : Counts(event, kind) \in Nat
BY DEF Counts, Events

\* A put loses no row, and changes a uid only in a second registration.
LEMMA PutKeepsUid ==
  ASSUME NEW i \in EventIds, NEW n \in Nodes
  PROVE  PlatformInv /\ MirrorInv /\ PutItem(i, n) =>
           \A b \in AssetIds : table[b] # NoRow =>
             /\ table'[b] # NoRow
             /\ table'[b].uid = table[b].uid \/ RegisteredTwice(b)'
<1>1. SUFFICES ASSUME PlatformInv, MirrorInv, PutItem(i, n), NEW b \in AssetIds, table[b] # NoRow
               PROVE  /\ table'[b] # NoRow
                      /\ table'[b].uid = table[b].uid \/ RegisteredTwice(b)'
  OBVIOUS
<1>2. MirrorType /\ PlatformTypeOK
  BY <1>1 DEF PlatformInv, MirrorInv
<1>3. PICK a \in AssetIds, event \in Events, new \in Rows :
             /\ Emitted(i) /\ event = events[i] /\ event.asset = a
             /\ n \notin stored[i] /\ post[i][n] = "put"
             /\ \/ event.action = "AssetRegistered"
                \/ event.action # "AssetRegistered" /\ new.uid = read[i][n].uid
             /\ table' = [table EXCEPT ![a] = new]
             /\ stored' = [stored EXCEPT ![i] = @ \union {n}]
             /\ UNCHANGED <<raced, events>>
  BY <1>1, PutItemEffect
<1>4. CASE b # a
  BY <1>1, <1>2, <1>3, <1>4 DEF MirrorType
<1>5. b = a => table'[b] = new
  BY <1>2, <1>3 DEF MirrorType
<1>6. CASE b = a /\ event.action # "AssetRegistered"
  <2>1. Updating(i, n) /\ events[i].asset = b
    BY <1>3, <1>6 DEF Updating
  <2>2. read[i][n].uid = table[b].uid \/ RegisteredTwice(b)
    BY <1>1, <2>1 DEF MirrorInv, ReadsAreRows
  <2>3. /\ stored' \in [EventIds -> SUBSET Nodes]
        /\ \A j \in EventIds : stored[j] \subseteq stored'[j]
    BY <1>2, <1>3 DEF MirrorType
  <2>4. IndexesOf(b, "AssetRegistered")' = IndexesOf(b, "AssetRegistered")
    BY <1>3 DEF IndexesOf
  <2>5. RegisteredTwice(b) => RegisteredTwice(b)'
    BY <1>2, <2>3, <2>4, TwiceStays
  <2> QED
    BY <1>3, <1>5, <1>6, <2>2, <2>5, RowTypes
<1>7. CASE b = a /\ event.action = "AssetRegistered"
  <2>1. i \in IndexesOf(b, "AssetRegistered")
    BY <1>2, <1>3, <1>7, EmittedIndexes DEF IndexesOf, Emitted, EventIds
  <2>2. PICK r \in IndexesOf(b, "AssetRegistered") : stored[r] # {}
    BY <1>1 DEF MirrorInv, RowsAreRegistered
  <2>3. r = i
    BY <1>1, <2>1 DEF PlatformInv, RegisteredOnce
  <2>4. PICK m \in stored[i] : TRUE
    BY <2>2, <2>3
  <2>5. stored'[i] = stored[i] \union {n}
    BY <1>2, <1>3 DEF MirrorType
  <2>10. Cardinality(stored[i]) \in Nat /\ IsFiniteSet(stored[i])
    BY <1>2, StoredIsFinite
  <2>11. n \notin stored[i]
    BY <1>3
  <2>12. Cardinality(stored[i] \union {n}) = Cardinality(stored[i]) + 1
    BY <2>10, <2>11, FS_AddElement
  <2>6. Cardinality(stored'[i]) = Cardinality(stored[i]) + 1
    BY <2>5, <2>12
  <2>7. Cardinality(stored[i]) # 0
    BY <2>4, <2>10, FS_EmptySet
  <2>8. i \in IndexesOf(b, "AssetRegistered")'
    BY <1>3, <2>1 DEF IndexesOf
  <2>9. RegisteredTwice(b)'
    BY <2>6, <2>7, <2>8, <2>10 DEF RegisteredTwice
  <2> QED
    BY <1>5, <1>7, <2>9, RowTypes
<1> QED
  BY <1>4, <1>6, <1>7

LEMMA PutItemKeeps ==
  ASSUME NEW i \in EventIds, NEW n \in Nodes
  PROVE  PlatformInv /\ MirrorInv /\ PutItem(i, n) => MirrorInv'
<1>1. SUFFICES ASSUME PlatformInv, MirrorInv, PutItem(i, n) PROVE MirrorInv'
  OBVIOUS
<1>2. MirrorType /\ PlatformTypeOK
  BY <1>1 DEF PlatformInv, MirrorInv
<1>3. PICK a \in AssetIds, event \in Events, new \in Rows :
             /\ Emitted(i) /\ event = events[i] /\ event.asset = a
             /\ n \notin stored[i] /\ post[i][n] = "put"
             /\ \/ /\ event.action = "AssetRegistered"
                   /\ new.minted = 0 /\ new.redeemed = 0
                \/ /\ event.action # "AssetRegistered" /\ read[i][n] \in Rows
                   /\ new.uid = read[i][n].uid
                   /\ new.minted = read[i][n].minted + Counts(event, "TokensMinted")
                   /\ new.redeemed = read[i][n].redeemed + Counts(event, "TokensRedeemed")
             /\ table' = [table EXCEPT ![a] = new]
             /\ older' = [older EXCEPT ![a] = @ \union {table[a]}]
             /\ stored' = [stored EXCEPT ![i] = @ \union {n}]
             /\ read' = [read EXCEPT ![i][n] = NoRow]
             /\ post' = [post EXCEPT ![i][n] = "done"]
             /\ cache' \subseteq Events
             /\ UNCHANGED <<raced, events>>
  BY <1>1, PutItemEffect
<1>4. \A b \in AssetIds : table[b] # NoRow =>
             /\ table'[b] # NoRow
             /\ table'[b].uid = table[b].uid \/ RegisteredTwice(b)'
  BY <1>1, PutKeepsUid
<1>5. \A j \in EventIds, m \in Nodes :
        /\ ~(j = i /\ m = n) => post'[j][m] = post[j][m] /\ read'[j][m] = read[j][m]
        /\ j = i /\ m = n => post'[j][m] = "done" /\ read'[j][m] = NoRow
  BY <1>2, <1>3 DEF MirrorType
<1>6. /\ table'[a] = new /\ new # NoRow
      /\ \A b \in AssetIds : b # a => table'[b] = table[b]
  BY <1>2, <1>3, RowTypes DEF MirrorType
<1>7. /\ stored'[i] = stored[i] \union {n}
      /\ \A j \in EventIds : j # i => stored'[j] = stored[j]
  BY <1>2, <1>3 DEF MirrorType
<1>8. i \in 1 .. Len(events)
  BY <1>3 DEF Emitted, EventIds
<1>9. \A j \in EventIds : (Emitted(j)' <=> Emitted(j)) /\ (Emitted(j) => j \in 1 .. Len(events))
  BY <1>3 DEF Emitted, EventIds
<1>10. \A b \in AssetIds, kind \in Actions :
         /\ Posted(b, kind) \in Nat
         /\ Posted(b, kind)' = Posted(b, kind) + (IF a = b THEN Counts(event, kind) ELSE 0)
  BY <1>2, <1>3, PostedIsNat, PostedAfterPut
<1>11. \A b \in AssetIds : /\ IndexesOf(b, "AssetRegistered")' = IndexesOf(b, "AssetRegistered")
                           /\ RegisteredTwice(b) => RegisteredTwice(b)'
  <2> SUFFICES ASSUME NEW b \in AssetIds
               PROVE  /\ IndexesOf(b, "AssetRegistered")' = IndexesOf(b, "AssetRegistered")
                      /\ RegisteredTwice(b) => RegisteredTwice(b)'
    OBVIOUS
  <2>1. IndexesOf(b, "AssetRegistered")' = IndexesOf(b, "AssetRegistered")
    BY <1>3 DEF IndexesOf
  <2>2. stored' \in [EventIds -> SUBSET Nodes]
    BY <1>2, <1>3 DEF MirrorType
  <2>3. \A j \in EventIds : stored[j] \subseteq stored'[j]
    BY <1>7
  <2> QED
    BY <1>2, <2>1, <2>2, <2>3, TwiceStays
<1>12. \A b \in AssetIds, kind \in Actions :
         Posted(b, kind)' \in Nat /\ Posted(b, kind) <= Posted(b, kind)'
  BY <1>3, <1>10, CountsAreNats
<1>13. MirrorType'
  <2>1. post' \in [EventIds -> [Nodes -> {"idle", "get", "put", "done"}]]
    BY <1>2, <1>3 DEF MirrorType
  <2>2. read' \in [EventIds -> [Nodes -> Rows \union {NoRow}]]
    BY <1>2, <1>3 DEF MirrorType
  <2>3. stored' \in [EventIds -> SUBSET Nodes]
    BY <1>2, <1>3 DEF MirrorType
  <2>4. table' \in [AssetIds -> Rows \union {NoRow}]
    BY <1>2, <1>3 DEF MirrorType
  <2>5. older' \in [AssetIds -> SUBSET (Rows \union {NoRow})]
    <3>1. table[a] \in Rows \union {NoRow}
      BY <1>2 DEF MirrorType
    <3> QED
      BY <1>2, <1>3, <3>1 DEF MirrorType
  <2> QED
    BY <1>2, <1>3, <2>1, <2>2, <2>3, <2>4, <2>5 DEF MirrorType
<1>14. PostsFollowEvents'
  <2> SUFFICES ASSUME NEW j \in EventIds, NEW m \in Nodes
               PROVE  /\ ~Emitted(j) =>
                           post'[j][m] = "idle" /\ stored'[j] = {} /\ read'[j][m] = NoRow
                      /\ m \in stored'[j] => post'[j][m] = "done"
    BY <1>9 DEF PostsFollowEvents
  <2> QED
    BY <1>1, <1>3, <1>5, <1>7 DEF MirrorInv, PostsFollowEvents
<1>15. RowsAreRegistered'
  <2>1. ASSUME NEW b \in AssetIds, table'[b] = NoRow, NEW j \in 1 .. Len(events),
               events[j].asset = b
        PROVE  stored'[j] = {}
    <3>1. b # a /\ table[b] = NoRow
      BY <1>6, <2>1
    <3>2. stored[j] = {} /\ j \in EventIds /\ j # i
      BY <1>1, <1>2, <1>3, <2>1, <3>1, EmittedIndexes DEF MirrorInv, RowsAreRegistered
    <3> QED
      BY <1>7, <3>2
  <2>2. ASSUME NEW b \in AssetIds, table'[b] # NoRow
        PROVE  \E j \in IndexesOf(b, "AssetRegistered") : stored'[j] # {}
    <3>1. CASE table[b] # NoRow
      <4>1. PICK j \in IndexesOf(b, "AssetRegistered") : stored[j] # {}
        BY <1>1, <3>1 DEF MirrorInv, RowsAreRegistered
      <4>2. j \in EventIds
        BY <1>2, <4>1, EmittedIndexes DEF IndexesOf
      <4> QED
        BY <1>7, <4>1, <4>2
    <3>2. CASE table[b] = NoRow
      <4>1. b = a
        BY <1>6, <2>2, <3>2
      <4>2. event.action = "AssetRegistered"
        <5>1. SUFFICES ASSUME event.action # "AssetRegistered" PROVE FALSE
          OBVIOUS
        <5>2. Updating(i, n) /\ events[i].asset = a
          BY <1>3, <5>1 DEF Updating
        <5> QED
          BY <1>1, <3>2, <4>1, <5>2 DEF MirrorInv, ReadsAreRows
      <4>3. i \in IndexesOf(b, "AssetRegistered")
        BY <1>3, <1>8, <4>1, <4>2 DEF IndexesOf
      <4> QED
        BY <1>7, <4>3
    <3> QED
      BY <3>1, <3>2
  <2> QED
    BY <1>3, <1>11, <2>1, <2>2 DEF RowsAreRegistered
<1>16. \A j \in EventIds, m \in Nodes : Updating(j, m)' =>
         Updating(j, m) /\ read'[j][m] = read[j][m] /\ ~(j = i /\ m = n)
  BY <1>3, <1>5, <1>9 DEF Updating
<1>17. ReadsAreRows'
  <2> SUFFICES ASSUME NEW b \in AssetIds, NEW j \in EventIds, NEW m \in Nodes,
                      Updating(j, m)', events[j].asset = b
               PROVE  /\ read'[j][m] # NoRow /\ table'[b] # NoRow
                      /\ read'[j][m].uid = table'[b].uid \/ RegisteredTwice(b)'
    BY <1>3 DEF ReadsAreRows
  <2>1. Updating(j, m) /\ read'[j][m] = read[j][m]
    BY <1>16
  <2>2. /\ read[j][m] # NoRow /\ table[b] # NoRow
        /\ read[j][m].uid = table[b].uid \/ RegisteredTwice(b)
    BY <1>1, <2>1 DEF MirrorInv, ReadsAreRows
  <2> QED
    BY <1>4, <1>11, <2>1, <2>2
<1>18. ReadsClaimPosted'
  <2> SUFFICES ASSUME NEW b \in AssetIds, NEW j \in EventIds, NEW m \in Nodes,
                      Emitted(j), events[j].asset = b
               PROVE  /\ read'[j][m].minted <= Posted(b, "TokensMinted")'
                      /\ read'[j][m].redeemed <= Posted(b, "TokensRedeemed")'
    BY <1>3, <1>9 DEF ReadsClaimPosted
  <2>1. CASE read'[j][m] = read[j][m]
    <3>1. /\ read[j][m].minted <= Posted(b, "TokensMinted")
          /\ read[j][m].redeemed <= Posted(b, "TokensRedeemed")
      BY <1>1 DEF MirrorInv, ReadsClaimPosted
    <3>2. read[j][m].minted \in Nat /\ read[j][m].redeemed \in Nat
      BY <1>2, RowTypes DEF MirrorType
    <3> QED
      BY <1>10, <1>12, <2>1, <3>1, <3>2, KindsOfEvents
  <2>2. CASE read'[j][m] = NoRow
    BY <1>12, <2>2, RowTypes, KindsOfEvents
  <2> QED
    BY <1>5, <2>1, <2>2
<1>19. OneAtATime'
  <2>1. \A j \in EventIds, m \in Nodes : Invoking(j, m)' => Invoking(j, m)
    BY <1>3, <1>5 DEF Invoking
  <2> QED
    BY <1>1, <1>3, <2>1 DEF MirrorInv, OneAtATime, Emitted
<1>20. FreshReads'
  <2> SUFFICES ASSUME NEW j \in EventIds, NEW m \in Nodes, Updating(j, m)',
                      events[j].asset \notin raced
               PROVE  read'[j][m] = table'[events[j].asset]
    BY <1>3 DEF FreshReads
  <2>1. Updating(j, m) /\ read'[j][m] = read[j][m] /\ ~(j = i /\ m = n)
    BY <1>16
  <2>2. PICK b \in AssetIds : b = events[j].asset
    BY <1>2, <1>9, <2>1, EventsAreTyped DEF Updating, Events
  <2>3. read[j][m] = table[b]
    BY <1>1, <2>1, <2>2 DEF MirrorInv, FreshReads
  <2>4. b # a
    <3>1. SUFFICES ASSUME b = a PROVE FALSE
      OBVIOUS
    <3>2. Invoking(i, n) /\ Invoking(j, m) /\ Emitted(j)
      BY <1>3, <2>1 DEF Invoking, Updating
    <3> QED
      BY <1>1, <1>3, <2>1, <2>2, <3>1, <3>2 DEF MirrorInv, OneAtATime
  <2> QED
    BY <1>6, <2>1, <2>2, <2>3, <2>4
<1>21. NoUpdateCountedTwice'
  <2> SUFFICES ASSUME NEW b \in AssetIds
               PROVE  /\ table'[b].minted <= Posted(b, "TokensMinted")'
                      /\ table'[b].redeemed <= Posted(b, "TokensRedeemed")'
    BY DEF NoUpdateCountedTwice
  <2>1. CASE b # a
    <3>1. /\ table[b].minted <= Posted(b, "TokensMinted")
          /\ table[b].redeemed <= Posted(b, "TokensRedeemed")
      BY <1>1 DEF MirrorInv, NoUpdateCountedTwice
    <3> QED
      BY <1>6, <1>10, <2>1, <3>1, KindsOfEvents
  <2>2. CASE b = a /\ event.action = "AssetRegistered"
    BY <1>3, <1>6, <1>12, <2>2, KindsOfEvents
  <2>3. CASE b = a /\ event.action # "AssetRegistered"
    <3>1. /\ read[i][n].minted <= Posted(b, "TokensMinted")
          /\ read[i][n].redeemed <= Posted(b, "TokensRedeemed")
      BY <1>1, <1>3, <2>3 DEF MirrorInv, ReadsClaimPosted
    <3>2. /\ read[i][n].minted \in Nat /\ read[i][n].redeemed \in Nat
      BY <1>2, RowTypes DEF MirrorType
    <3>3. /\ Counts(event, "TokensMinted") \in Nat /\ Counts(event, "TokensRedeemed") \in Nat
      BY CountsAreNats, KindsOfEvents
    <3>4. /\ Posted(b, "TokensMinted")' = Posted(b, "TokensMinted") + Counts(event, "TokensMinted")
          /\ Posted(b, "TokensMinted") \in Nat
      BY <1>10, <2>3, KindsOfEvents
    <3>5. /\ Posted(b, "TokensRedeemed")'
               = Posted(b, "TokensRedeemed") + Counts(event, "TokensRedeemed")
          /\ Posted(b, "TokensRedeemed") \in Nat
      BY <1>10, <2>3, KindsOfEvents
    <3>6. /\ new.minted = read[i][n].minted + Counts(event, "TokensMinted")
          /\ new.redeemed = read[i][n].redeemed + Counts(event, "TokensRedeemed")
      BY <1>3, <2>3
    <3> QED
      BY <1>6, <2>3, <3>1, <3>2, <3>3, <3>4, <3>5, <3>6
  <2> QED
    BY <2>1, <2>2, <2>3
<1>22. SerialMirrorIsExact'
  <2> SUFFICES ASSUME NEW b \in AssetIds, b \notin raced, ~RegisteredTwice(b)'
               PROVE  /\ table'[b].minted = Posted(b, "TokensMinted")'
                      /\ table'[b].redeemed = Posted(b, "TokensRedeemed")'
    BY <1>3 DEF SerialMirrorIsExact
  <2>1. /\ table[b].minted = Posted(b, "TokensMinted")
        /\ table[b].redeemed = Posted(b, "TokensRedeemed")
    BY <1>1, <1>11 DEF MirrorInv, SerialMirrorIsExact
  <2>2. CASE b # a
    BY <1>6, <1>10, <2>1, <2>2, KindsOfEvents
  <2>3. CASE b = a /\ event.action = "AssetRegistered"
    <3>1. i \in IndexesOf(b, "AssetRegistered")
      BY <1>3, <1>8, <2>3 DEF IndexesOf
    <3>2. stored[i] = {}
      <4>1. SUFFICES ASSUME NEW m \in stored[i] PROVE FALSE
        OBVIOUS
      <4>2. Cardinality(stored[i]) \in Nat /\ IsFiniteSet(stored[i])
        BY <1>2, StoredIsFinite
      <4>3. n \notin stored[i]
        BY <1>3
      <4>4. Cardinality(stored[i] \union {n}) = Cardinality(stored[i]) + 1
        BY <4>2, <4>3, FS_AddElement
      <4>5. Cardinality(stored[i]) # 0
        BY <4>1, <4>2, FS_EmptySet
      <4>6. Cardinality(stored'[i]) > 1
        BY <1>7, <4>2, <4>4, <4>5
      <4>7. i \in IndexesOf(b, "AssetRegistered")'
        BY <1>11, <3>1
      <4> QED
        BY <4>6, <4>7 DEF RegisteredTwice
    <3>3. table[b] = NoRow
      <4>1. SUFFICES ASSUME table[b] # NoRow PROVE FALSE
        OBVIOUS
      <4>2. PICK r \in IndexesOf(b, "AssetRegistered") : stored[r] # {}
        BY <1>1, <4>1 DEF MirrorInv, RowsAreRegistered
      <4> QED
        BY <1>1, <3>1, <3>2, <4>2 DEF PlatformInv, RegisteredOnce
    <3>4. Posted(b, "TokensMinted") = 0 /\ Posted(b, "TokensRedeemed") = 0
      BY <2>1, <3>3, RowTypes
    <3>5. Counts(event, "TokensMinted") = 0 /\ Counts(event, "TokensRedeemed") = 0
      BY <2>3 DEF Counts
    <3> QED
      BY <1>3, <1>6, <1>10, <2>3, <3>4, <3>5, KindsOfEvents
  <2>4. CASE b = a /\ event.action # "AssetRegistered"
    <3>1. Updating(i, n)
      BY <1>3, <2>4 DEF Updating
    <3>2. read[i][n] = table[b]
      BY <1>1, <1>3, <2>4, <3>1 DEF MirrorInv, FreshReads
    <3>3. /\ new.minted = Posted(b, "TokensMinted") + Counts(event, "TokensMinted")
          /\ new.redeemed = Posted(b, "TokensRedeemed") + Counts(event, "TokensRedeemed")
      BY <1>3, <2>1, <2>4, <3>2
    <3> QED
      BY <1>6, <1>10, <2>4, <3>3, KindsOfEvents
  <2> QED
    BY <2>2, <2>3, <2>4
<1>23. OlderRows'
  <2> SUFFICES ASSUME NEW b \in AssetIds, NEW row \in older'[b]
               PROVE  /\ row.minted <= Posted(b, "TokensMinted")'
                      /\ row.redeemed <= Posted(b, "TokensRedeemed")'
                      /\ row # NoRow => table'[b] # NoRow
                      /\ row # NoRow => row.uid = table'[b].uid \/ RegisteredTwice(b)'
    BY DEF OlderRows
  <2>1. row \in older[b] \/ row = table[b]
    BY <1>2, <1>3 DEF MirrorType
  <2>2. /\ row.minted <= Posted(b, "TokensMinted")
        /\ row.redeemed <= Posted(b, "TokensRedeemed")
        /\ row # NoRow => table[b] # NoRow
        /\ row # NoRow => row.uid = table[b].uid \/ RegisteredTwice(b)
    BY <1>1, <2>1 DEF MirrorInv, OlderRows, NoUpdateCountedTwice
  <2>3. row.minted \in Nat /\ row.redeemed \in Nat
    BY <1>2, <2>1, RowTypes DEF MirrorType
  <2>4. /\ row.minted <= Posted(b, "TokensMinted")'
        /\ row.redeemed <= Posted(b, "TokensRedeemed")'
    BY <1>10, <1>12, <2>2, <2>3, KindsOfEvents
  <2>5. row # NoRow => table'[b] # NoRow
    BY <1>4, <2>2
  <2>6. row # NoRow => row.uid = table'[b].uid \/ RegisteredTwice(b)'
    BY <1>4, <1>11, <2>2
  <2> QED
    BY <2>4, <2>5, <2>6
<1> QED
  BY <1>13, <1>14, <1>15, <1>17, <1>18, <1>19, <1>20, <1>21, <1>22, <1>23 DEF MirrorInv

-----------------------------------------------------------------------------
(* The invariant of the composition.                                       *)

LEMMA InitServicingInv == ServicingInit => ServicingInv
<1>1. SUFFICES ASSUME ServicingInit PROVE ServicingInv
  OBVIOUS
<1>2. PlatformTypeOK
  <2>1. <<>> \in Seq(Events) /\ Len(<<>>) = 0
    OBVIOUS
  <2> QED
    BY <1>1, <2>1, PlatformConstants DEF ServicingInit, PlatformInit, PlatformTypeOK
<1>3. Len(events) = 0 /\ 1 .. Len(events) = {}
  BY <1>1 DEF ServicingInit, PlatformInit
<1>4. \A a \in AssetIds, kind \in Actions : IndexesOf(a, kind) = {} /\ Posted(a, kind) = 0
  BY <1>3, SumOfNone DEF IndexesOf, Posted
<1>5. \A a \in AssetIds : InitialSupply(a) = 0 /\ SumFunction(balance[a]) = 0
  <2>1. ASSUME NEW a \in AssetIds PROVE SumFunction(balance[a]) = 0
    <3>1. balance[a] = [h \in Accounts |-> 0]
      BY <1>1, <2>1 DEF ServicingInit, PlatformInit
    <3> QED
      BY <3>1, PlatformConstants, SumOfZeroFunction
  <2> QED
    BY <1>4, <2>1, KindsOfEvents, SumOfNone DEF InitialSupply
<1>6. PlatformInv
  <2>1. RegisteredOnce /\ UnmintedIsNotHeld
    BY <1>4, <1>5, KindsOfEvents DEF RegisteredOnce, UnmintedIsNotHeld
  <2>2. SupplyTracksBalances
    BY <1>1, <1>5 DEF SupplyTracksBalances, ServicingInit, PlatformInit
  <2> QED
    BY <1>2, <2>1, <2>2 DEF PlatformInv
<1>7. MirrorType
  BY <1>1 DEF ServicingInit, MirrorType
<1>8. \A i \in EventIds : ~Emitted(i)
  BY <1>3 DEF Emitted, EventIds
<1>9. PostsFollowEvents /\ RowsAreRegistered
  BY <1>1, <1>3 DEF ServicingInit, PostsFollowEvents, RowsAreRegistered
<1>10. ReadsAreRows /\ ReadsClaimPosted /\ OneAtATime /\ FreshReads
  BY <1>8 DEF ReadsAreRows, ReadsClaimPosted, OneAtATime, FreshReads, Updating
<1>11. OlderRows /\ NoUpdateCountedTwice /\ SerialMirrorIsExact
  BY <1>1, <1>4, KindsOfEvents, RowTypes
  DEF ServicingInit, OlderRows, NoUpdateCountedTwice, SerialMirrorIsExact
<1>12. notices \subseteq Notices /\ envOps \in 0 .. MaxEnvOps
  BY <1>1, ServicingConstants DEF ServicingInit
<1> QED
  BY <1>6, <1>7, <1>9, <1>10, <1>11, <1>12 DEF ServicingInv, MirrorInv

LEMMA UsersKeep ==
  ASSUME ServicingInv, Users
  PROVE  PlatformInv' /\ MirrorInv'
<1>1. PlatformInv /\ MirrorInv /\ Lifecycle /\ UNCHANGED mirrorVars
  BY DEF ServicingInv, Users
<1>2. PlatformInv'
  BY <1>1, LifecycleKeeps
<1>3. CASE UNCHANGED events
  <2>1. cache' \subseteq Events
    BY <1>1 DEF mirrorVars, MirrorInv, MirrorType
  <2> QED
    BY <1>1, <1>2, <1>3, <2>1, MirrorFrame DEF mirrorVars
<1>4. CASE \E action \in Actions, b \in AssetIds, amount \in Nat : Emit(action, b, amount)
  <2>1. PICK action \in Actions, b \in AssetIds, amount \in Nat : Emit(action, b, amount)
    BY <1>4
  <2> QED
    BY <1>1, <1>2, <2>1, EmitKeepsMirror
<1> QED
  BY <1>1, <1>3, <1>4, LifecycleEmits

\* Steps of the owners, of notifications and of the cache.
LEMMA OthersKeep ==
  ASSUME ServicingInv,
         \/ Owners
         \/ \E event \in cache : Expire(event)
         \/ \E a \in AssetIds : SendNotification(a)
         \/ \E notice \in notices : ExecuteReport(notice)
         \/ UNCHANGED servicingVars
  PROVE  PlatformInv' /\ MirrorInv'
<1>1. PlatformInv /\ MirrorInv /\ notices \subseteq Notices
  BY DEF ServicingInv
<1>2. \/ ChangeExpectations
      \/ \E a \in AssetIds, u \in Uids : UpdateSystemOfRecordMetadata(a, u)
      \/ UNCHANGED platformVars
  <2>1. ASSUME NEW notice \in notices, ExecuteReport(notice)
        PROVE  \/ \E a \in AssetIds, u \in Uids : UpdateSystemOfRecordMetadata(a, u)
               \/ UNCHANGED platformVars
    <3>1. notice.asset \in AssetIds /\ notice.uid \in Uids
      BY <1>1, ServicingConstants DEF Notices
    <3> QED
      BY <2>1, <3>1 DEF ExecuteReport, OnReport
  <2> QED
    BY <2>1 DEF Owners, Expire, SendNotification, servicingVars
<1>3. PlatformInv' /\ UNCHANGED events
  BY <1>1, <1>2, MetadataKeeps
<1>4. UNCHANGED <<post, read, stored, table, older, raced>> /\ cache' \subseteq Events
  BY <1>1 DEF Owners, Expire, SendNotification, ExecuteReport, servicingVars, mirrorVars,
              MirrorInv, MirrorType
<1> QED
  BY <1>1, <1>3, <1>4, MirrorFrame

LEMMA ProceedKeeps ==
  ASSUME ServicingInv, NEW i \in EventIds, NEW n \in Nodes, Proceed(i, n) \/ RequestFails(i, n)
  PROVE  PlatformInv' /\ MirrorInv'
<1>1. PlatformInv /\ MirrorInv
  BY DEF ServicingInv
<1>2. UNCHANGED platformVars
  BY DEF Proceed, PostData, GetItem, PutItem, RequestFails
<1>3. PlatformInv'
  BY <1>1, <1>2, MetadataKeeps
<1>4. MirrorInv'
  BY <1>1, PostDataKeeps, GetItemKeeps, PutItemKeeps, RequestFailsKeeps, Zenon DEF Proceed
<1> QED
  BY <1>3, <1>4

LEMMA NoticesKeep ==
  ASSUME ServicingInv, [ServicingNext]_servicingVars
  PROVE  notices' \subseteq Notices /\ envOps' \in 0 .. MaxEnvOps
<1>1. /\ notices \subseteq Notices /\ envOps \in 0 .. MaxEnvOps /\ MaxEnvOps \in Nat
      /\ \A a \in AssetIds : older[a] \union {table[a]} \subseteq Rows \union {NoRow}
  BY ServicingConstants DEF ServicingInv, MirrorInv, MirrorType
<1>2. \/ UNCHANGED notices
      \/ \E a \in AssetIds : SendNotification(a)
      \/ \E notice \in notices : notices' = notices \ {notice}
  BY DEF ServicingNext, Users, Owners, Proceed, PostData, GetItem, PutItem, RequestFails, Expire,
         ExecuteReport, servicingVars
<1>3. notices' \subseteq Notices
  <2>1. ASSUME NEW a \in AssetIds, SendNotification(a) PROVE notices' \subseteq Notices
    <3>1. PICK row \in (older[a] \union {table[a]}) \ {NoRow} :
            notices' = notices \union {[asset |-> a, uid |-> row.uid]}
      BY <2>1 DEF SendNotification
    <3>2. row.uid \in Nodes
      BY <1>1, <3>1 DEF Rows
    <3>3. [asset |-> a, uid |-> row.uid] \in Notices
      BY <3>2 DEF Notices
    <3> QED
      BY <1>1, <3>1, <3>3
  <2> QED
    BY <1>1, <1>2, <2>1
<1>4. EnvOp \/ UNCHANGED envOps
  BY DEF ServicingNext, Users, Owners, Proceed, PostData, GetItem, PutItem, RequestFails, Expire,
         ExecuteReport, SendNotification, servicingVars
<1>5. envOps' \in 0 .. MaxEnvOps
  BY <1>1, <1>4 DEF EnvOp
<1> QED
  BY <1>3, <1>5

LEMMA ServicingStep == ServicingInv /\ [ServicingNext]_servicingVars => ServicingInv'
<1>1. SUFFICES ASSUME ServicingInv, [ServicingNext]_servicingVars PROVE ServicingInv'
  OBVIOUS
<1>2. notices' \subseteq Notices /\ envOps' \in 0 .. MaxEnvOps
  BY <1>1, NoticesKeep
<1>3. PlatformInv' /\ MirrorInv'
  BY <1>1, UsersKeep, OthersKeep, ProceedKeeps, Zenon DEF ServicingNext
<1> QED
  BY <1>2, <1>3 DEF ServicingInv

-----------------------------------------------------------------------------
(* The theorems.                                                           *)

\* ServicingInv holds in every state the platform and its mirror reach.
THEOREM ServicingInvariant == ServicingSpec => []ServicingInv
BY InitServicingInv, ServicingStep, PTL DEF ServicingSpec

\* No balance, total or row is ever malformed: redeem never takes more than
\* a holder or the total has, and a put always writes a whole row.
THEOREM ServicingTypesHold == ServicingSpec => []ServicingTypeOK
<1>1. ServicingInv => ServicingTypeOK
  BY DEF ServicingInv, PlatformInv, MirrorInv, MirrorType, ServicingTypeOK
<1> QED
  BY <1>1, ServicingInvariant, PTL

\* registerAsset, mint, redeem and safeTransferFrom keep the total of an asset
\* equal to its initial supply and what holders have, unless the asset was
\* minted before its registration.
THEOREM SuppliesAreBacked == ServicingSpec => []SupplyTracksBalances
<1>1. ServicingInv => SupplyTracksBalances
  BY DEF ServicingInv, PlatformInv
<1> QED
  BY <1>1, ServicingInvariant, PTL

\* However the invocations of the lambda interleave, fail, repeat or read older
\* rows, a row claims no more mints and redemptions than were put for its asset.
THEOREM UpdatesCountOnce == ServicingSpec => []NoUpdateCountedTwice
<1>1. ServicingInv => NoUpdateCountedTwice
  BY DEF ServicingInv, MirrorInv
<1> QED
  BY <1>1, ServicingInvariant, PTL

\* The row of an asset is exact while no two invocations for it were under way
\* together, none has read a row that was no longer the last, and one node
\* registered it.
THEOREM MirrorIsExact == ServicingSpec => []SerialMirrorIsExact
<1>1. ServicingInv => SerialMirrorIsExact
  BY DEF ServicingInv, MirrorInv
<1> QED
  BY <1>1, ServicingInvariant, PTL

\* The lambda's puts replace whole rows, yet lose none, and keep the uid that a
\* notification reports to the chain unless several nodes register the asset.
THEOREM UidsAreKept == ServicingSpec => UidIsKept
<1>1. ServicingInv /\ [ServicingNext]_servicingVars =>
        [\A a \in AssetIds : table[a] # NoRow =>
           /\ table'[a] # NoRow
           /\ table'[a].uid = table[a].uid \/ RegisteredTwice(a)']_servicingVars
  <2>1. SUFFICES ASSUME ServicingInv, ServicingNext, NEW a \in AssetIds, table[a] # NoRow
                 PROVE  /\ table'[a] # NoRow
                        /\ table'[a].uid = table[a].uid \/ RegisteredTwice(a)'
    OBVIOUS
  <2>2. table' = table \/ \E i \in EventIds, n \in Nodes : PutItem(i, n)
    BY <2>1 DEF ServicingNext, Users, Owners, Proceed, PostData, GetItem, RequestFails, Expire,
                ExecuteReport, SendNotification, mirrorVars
  <2> QED
    BY <2>1, <2>2, PutKeepsUid DEF ServicingInv
<1> QED
  BY <1>1, ServicingInvariant, PTL DEF ServicingSpec, UidIsKept

=============================================================================
