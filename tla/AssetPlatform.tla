----------------------------- MODULE AssetPlatform -----------------------------
(***************************************************************************)
(* TokenizedAssetPlatform: an ERC-1155 contract of real-world assets, with *)
(* ids in order of registration.  Each action is one transaction; one that *)
(* reverts is not enabled.  burn and burnBatch always revert.              *)
(*                                                                         *)
(* Nothing asks whether an id is registered: an admin can verify and mint  *)
(* an asset that is registered only later.                                 *)
(***************************************************************************)
EXTENDS Integers, Sequences, FiniteSets, Functions

CONSTANTS
  Accounts,        \* addresses; issuers are among them
  Admin,           \* the only holder of ADMIN_ROLE
  NoAccount,       \* address(0)
  MaxAssets,       \* bound on registrations
  Amounts,         \* amounts of tokens in one call
  InitialSupplies, \* initialSupply of registerAsset
  Uids,            \* ids in the system of record
  NoUid,           \* the empty string
  MaxEvents        \* bound on key events

ASSUME PlatformAssumption ==
  /\ IsFiniteSet(Accounts) /\ Admin \in Accounts /\ NoAccount \notin Accounts
  /\ MaxAssets \in Nat \ {0} /\ MaxEvents \in Nat
  /\ Amounts \subseteq Nat \ {0} /\ InitialSupplies \subseteq Nat
  /\ NoUid \notin Uids

AssetIds == 1 .. MaxAssets

VARIABLES
  nextAssetId,
  issuer,      \* assetIssuers, and the issuer in assets
  totalSupply, \* the totals in assets
  active,      \* ids whose asset is active
  uid,         \* the uids in assets
  balance,     \* ERC-1155 balances
  accepting,   \* the receiver's settings let the workflow's reports through
  events       \* the key events, in order

platformVars == <<nextAssetId, issuer, totalSupply, active, uid, balance, accepting, events>>

\* The amount of an AssetVerified event is 1 for a valid asset and 0 otherwise.
Actions == {"AssetRegistered", "AssetVerified", "TokensMinted", "TokensRedeemed"}
Events == [action : Actions, asset : AssetIds, amount : Nat]

PlatformTypeOK ==
  /\ nextAssetId \in 1 .. MaxAssets + 1
  /\ issuer \in [AssetIds -> Accounts \union {NoAccount}]
  /\ totalSupply \in [AssetIds -> Nat]
  /\ active \subseteq AssetIds
  /\ uid \in [AssetIds -> Uids \union {NoUid}]
  /\ balance \in [AssetIds -> [Accounts -> Nat]]
  /\ accepting \in BOOLEAN
  /\ events \in Seq(Events) /\ Len(events) <= MaxEvents

PlatformInit ==
  /\ nextAssetId = 1
  /\ issuer = [a \in AssetIds |-> NoAccount]
  /\ totalSupply = [a \in AssetIds |-> 0]
  /\ active = {}
  /\ uid = [a \in AssetIds |-> NoUid]
  /\ balance = [a \in AssetIds |-> [h \in Accounts |-> 0]]
  /\ accepting \in BOOLEAN
  /\ events = <<>>

Emit(action, a, amount) ==
  /\ Len(events) < MaxEvents
  /\ events' = Append(events, [action |-> action, asset |-> a, amount |-> amount])

IsIssuerOrAdmin(a, sender) == sender = issuer[a] \/ sender = Admin

-----------------------------------------------------------------------------

\* By the admin, with an empty uid: it comes from the system of record later.
RegisterAsset(newIssuer, initialSupply) ==
  LET a == nextAssetId IN
  /\ a \in AssetIds
  /\ nextAssetId' = a + 1
  /\ issuer' = [issuer EXCEPT ![a] = newIssuer]
  /\ totalSupply' = [totalSupply EXCEPT ![a] = initialSupply]
  /\ active' = active \ {a}
  /\ uid' = [uid EXCEPT ![a] = NoUid]
  /\ Emit("AssetRegistered", a, initialSupply)
  /\ UNCHANGED <<balance, accepting>>

VerifyAsset(sender, a, isValid) ==
  /\ IsIssuerOrAdmin(a, sender)
  /\ active' = IF isValid THEN active \union {a} ELSE active \ {a}
  /\ Emit("AssetVerified", a, IF isValid THEN 1 ELSE 0)
  /\ UNCHANGED <<nextAssetId, issuer, totalSupply, uid, balance, accepting>>

\* ERC1155._update, which the contract lets through for active assets only.
Credited(h, a, amount) == [balance EXCEPT ![a][h] = @ + amount]
Debited(h, a, amount) == [balance EXCEPT ![a][h] = @ - amount]

Mint(sender, to, a, amount) ==
  /\ IsIssuerOrAdmin(a, sender)
  /\ a \in active
  /\ totalSupply' = [totalSupply EXCEPT ![a] = @ + amount]
  /\ balance' = Credited(to, a, amount)
  /\ Emit("TokensMinted", a, amount)
  /\ UNCHANGED <<nextAssetId, issuer, active, uid, accepting>>

\* A redemption that leaves the total alone.
Redeem_TotalKept(sender, a, amount) ==
  /\ a \in active
  /\ balance[a][sender] >= amount
  /\ totalSupply[a] >= amount
  /\ balance' = Debited(sender, a, amount)
  /\ Emit("TokensRedeemed", a, amount)
  /\ UNCHANGED <<nextAssetId, issuer, totalSupply, active, uid, accepting>>

\* The balance is required of everyone, by redeem or by _burn.
Redeem(sender, a, amount) ==
  /\ a \in active
  /\ balance[a][sender] >= amount
  /\ totalSupply[a] >= amount
  /\ totalSupply' = [totalSupply EXCEPT ![a] = @ - amount]
  /\ balance' = Debited(sender, a, amount)
  /\ Emit("TokensRedeemed", a, amount)
  /\ UNCHANGED <<nextAssetId, issuer, active, uid, accepting>>

SafeTransferFrom(sender, to, a, amount) ==
  LET left == [balance[a] EXCEPT ![sender] = @ - amount] IN
  /\ a \in active
  /\ balance[a][sender] >= amount
  /\ balance' = [balance EXCEPT ![a] = [left EXCEPT ![to] = @ + amount]]
  /\ UNCHANGED <<nextAssetId, issuer, totalSupply, active, uid, accepting, events>>

\* Anyone may call it.
UpdateSystemOfRecordMetadata(a, newUid) ==
  /\ uid' = [uid EXCEPT ![a] = newUid]
  /\ UNCHANGED <<nextAssetId, issuer, totalSupply, active, balance, accepting, events>>

\* A report of the workflow, through the forwarder.
OnReport(a, newUid) ==
  /\ accepting
  /\ UpdateSystemOfRecordMetadata(a, newUid)

\* The owner changes the forwarder, author, name or id the receiver expects.
ChangeExpectations ==
  /\ accepting' = ~accepting
  /\ UNCHANGED <<nextAssetId, issuer, totalSupply, active, uid, balance, events>>

\* What users do with the platform.
Lifecycle ==
  \/ \E h \in Accounts, s \in InitialSupplies : RegisterAsset(h, s)
  \/ \E a \in AssetIds, sender \in Accounts :
       \/ \E isValid \in BOOLEAN : VerifyAsset(sender, a, isValid)
       \/ \E amount \in Amounts :
            \/ Redeem(sender, a, amount)
            \/ \E to \in Accounts : \/ Mint(sender, to, a, amount)
                                    \/ SafeTransferFrom(sender, to, a, amount)

-----------------------------------------------------------------------------

Registered(a) == a < nextAssetId
IndexesOf(a, action) ==
  {i \in 1 .. Len(events) : events[i].asset = a /\ events[i].action = action}

\* An asset was minted before it was registered.
Premature(a) ==
  /\ Registered(a)
  /\ \E i \in IndexesOf(a, "TokensMinted"), j \in IndexesOf(a, "AssetRegistered") : i < j

\* What the registration of an asset starts with.
InitialSupply(a) ==
  SumFunctionOnSet([i \in 1 .. Len(events) |-> events[i].amount], IndexesOf(a, "AssetRegistered"))

\* The total of an asset is its initial supply and what holders have, so that
\* every holder can redeem: unless the asset was minted before its registration,
\* which replaces the total.  (No holder has the initial supply.)
SupplyTracksBalances ==
  \A a \in AssetIds : Premature(a) \/
    totalSupply[a] = InitialSupply(a) + SumFunction(balance[a])

=============================================================================
