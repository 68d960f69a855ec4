---------------------------- MODULE AssetServicing ----------------------------
(***************************************************************************)
(* The mirror of AssetPlatform in a system of record.  Every key event     *)
(* starts an execution of the log-trigger workflow; each node of the DON   *)
(* posts it to a lambda, which updates the asset's row of a DynamoDB table *)
(* (for most events: get, then put).  The get does not ask for a           *)
(* consistent read, so it may find a row that a put has replaced.  Nodes   *)
(* share a cache of responses, in which requests with the same body are    *)
(* the same request.                                                       *)
(*                                                                         *)
(* In the other direction a notification with the row's uid starts the     *)
(* HTTP-trigger workflow, which reports the uid to the platform.           *)
(***************************************************************************)
EXTENDS AssetPlatform

CONSTANTS
  Nodes,
  MaxEnvOps  \* bound on faults, expiries, notifications, owners' calls, and
             \* on events emitted while an earlier one is still posted

ASSUME ServicingAssumption ==
  /\ IsFiniteSet(Nodes) /\ Nodes # {} /\ Nodes \subseteq Uids
  /\ MaxEnvOps \in Nat

VARIABLES
  post,    \* per event and node: where its request is
  read,    \* per event and node: the row its invocation has got
  stored,  \* per event: the nodes whose invocation has put its update
  table,   \* the rows of AssetState
  older,   \* per asset: the rows that a put has replaced
  cache,   \* bodies of the requests whose responses are stored
  raced,   \* assets for which two invocations were under way together, or
           \* one read an older row
  notices, \* notifications on their way to the chain
  envOps

mirrorVars == <<post, read, stored, table, older, cache, raced>>
servicingVars == <<platformVars, mirrorVars, notices, envOps>>

EventIds == 1 .. MaxEvents

\* The uid of a row stands for the invocation that made it.
Rows == [uid : Nodes, verified : {"unset", "valid", "invalid"}, minted : Nat, redeemed : Nat]
NoRow == [uid |-> NoUid, verified |-> "unset", minted |-> 0, redeemed |-> 0]
Notices == [asset : AssetIds, uid : Nodes]

ServicingTypeOK ==
  /\ PlatformTypeOK
  /\ post \in [EventIds -> [Nodes -> {"idle", "get", "put", "done"}]]
  /\ read \in [EventIds -> [Nodes -> Rows \union {NoRow}]]
  /\ stored \in [EventIds -> SUBSET Nodes]
  /\ table \in [AssetIds -> Rows \union {NoRow}]
  /\ older \in [AssetIds -> SUBSET (Rows \union {NoRow})]
  /\ cache \subseteq Events
  /\ raced \subseteq AssetIds
  /\ notices \subseteq Notices
  /\ envOps \in 0 .. MaxEnvOps

ServicingInit ==
  /\ PlatformInit
  /\ post = [i \in EventIds |-> [n \in Nodes |-> "idle"]]
  /\ read = [i \in EventIds |-> [n \in Nodes |-> NoRow]]
  /\ stored = [i \in EventIds |-> {}]
  /\ table = [a \in AssetIds |-> NoRow]
  /\ older = [a \in AssetIds |-> {}]
  /\ cache = {}
  /\ raced = {}
  /\ notices = {}
  /\ envOps = 0

EnvOp == envOps < MaxEnvOps /\ envOps' = envOps + 1

-----------------------------------------------------------------------------
(* The log-trigger workflow and the lambda.                                *)

Emitted(i) == i <= Len(events)
Invoking(i, n) == post[i][n] \in {"get", "put"}
To(i, n, state) == post' = [post EXCEPT ![i][n] = state]

\* postData on one node: a stored response answers it, or the lambda runs.
PostData(i, n) ==
  LET a == events[i].asset
      underWay == \E j \in 1 .. Len(events), m \in Nodes : events[j].asset = a /\ Invoking(j, m)
  IN
  /\ Emitted(i) /\ post[i][n] = "idle"
  /\ IF events[i] \in cache
       THEN To(i, n, "done") /\ UNCHANGED raced
       ELSE /\ To(i, n, IF events[i].action = "AssetRegistered" THEN "put" ELSE "get")
            /\ raced' = IF underWay THEN raced \union {a} ELSE raced
  /\ UNCHANGED <<platformVars, read, stored, table, older, cache, notices, envOps>>

\* getItem, which DynamoDB may answer with an older row.  Without a row there
\* is no key to put the update under, and the lambda answers with an error.
GetItem(i, n) ==
  LET a == events[i].asset IN
  /\ post[i][n] = "get"
  /\ \E row \in older[a] \union {table[a]} :
       /\ IF row = table[a] THEN UNCHANGED <<raced, envOps>>
                            ELSE EnvOp /\ raced' = raced \union {a}
       /\ IF row = NoRow THEN To(i, n, "done") /\ UNCHANGED read
                         ELSE To(i, n, "put") /\ read' = [read EXCEPT ![i][n] = row]
  /\ UNCHANGED <<platformVars, stored, table, older, cache, notices>>

Verdict(event) == IF event.amount = 1 THEN "valid" ELSE "invalid"

\* A lambda that sets the count instead of adding to it.
Updated_Set(row, event, n) ==
  CASE event.action = "AssetRegistered" -> [NoRow EXCEPT !.uid = n]
    [] event.action = "AssetVerified" -> [row EXCEPT !.verified = Verdict(event)]
    [] event.action = "TokensMinted" -> [row EXCEPT !.minted = event.amount]
    [] event.action = "TokensRedeemed" -> [row EXCEPT !.redeemed = event.amount]

\* A lambda that counts redemptions in the column of mints.
Updated_OneColumn(row, event, n) ==
  CASE event.action = "AssetRegistered" -> [NoRow EXCEPT !.uid = n]
    [] event.action = "AssetVerified" -> [row EXCEPT !.verified = Verdict(event)]
    [] event.action \in {"TokensMinted", "TokensRedeemed"} ->
         [row EXCEPT !.minted = @ + event.amount]

\* A lambda that makes a new uid when an asset is verified.
Updated_NewUid(row, event, n) ==
  CASE event.action = "AssetRegistered" -> [NoRow EXCEPT !.uid = n]
    [] event.action = "AssetVerified" -> [row EXCEPT !.uid = n, !.verified = Verdict(event)]
    [] event.action = "TokensMinted" -> [row EXCEPT !.minted = @ + event.amount]
    [] event.action = "TokensRedeemed" -> [row EXCEPT !.redeemed = @ + event.amount]

Updated(row, event, n) ==
  CASE event.action = "AssetRegistered" -> [NoRow EXCEPT !.uid = n]
    [] event.action = "AssetVerified" -> [row EXCEPT !.verified = Verdict(event)]
    [] event.action = "TokensMinted" -> [row EXCEPT !.minted = @ + event.amount]
    [] event.action = "TokensRedeemed" -> [row EXCEPT !.redeemed = @ + event.amount]

\* putItem, with the response that the node gets and the cache stores.
PutItem(i, n) ==
  LET event == events[i] IN
  /\ post[i][n] = "put"
  /\ table' = [table EXCEPT ![event.asset] = Updated(read[i][n], event, n)]
  /\ older' = [older EXCEPT ![event.asset] = @ \union {table[event.asset]}]
  /\ stored' = [stored EXCEPT ![i] = @ \union {n}]
  /\ read' = [read EXCEPT ![i][n] = NoRow]
  /\ To(i, n, "done")
  /\ \/ cache' = cache \union {event} /\ UNCHANGED envOps
     \/ EnvOp /\ UNCHANGED cache  \* the response is lost
  /\ UNCHANGED <<platformVars, raced, notices>>

\* The request does not reach the lambda, or the lambda fails before its put.
RequestFails(i, n) ==
  /\ EnvOp
  /\ Emitted(i) /\ post[i][n] \in {"idle", "get", "put"}
  /\ To(i, n, "done")
  /\ read' = [read EXCEPT ![i][n] = NoRow]
  /\ UNCHANGED <<platformVars, stored, table, older, cache, raced, notices>>

\* A stored response is older than maxAgeMs.
Expire(event) ==
  /\ EnvOp
  /\ event \in cache
  /\ cache' = cache \ {event}
  /\ UNCHANGED <<platformVars, post, read, stored, table, older, raced, notices>>

-----------------------------------------------------------------------------
(* The uid on its way back.                                                *)

SendNotification(a) ==
  /\ EnvOp
  /\ \E row \in (older[a] \union {table[a]}) \ {NoRow} :
       notices' = notices \union {[asset |-> a, uid |-> row.uid]}
  /\ UNCHANGED <<platformVars, mirrorVars>>

\* onHTTPTrigger: the report of the notification, executed by the forwarder.
\* The workflow does not look at the outcome.
ExecuteReport(notice) ==
  /\ notice \in notices
  /\ notices' = notices \ {notice}
  /\ IF accepting THEN OnReport(notice.asset, notice.uid) ELSE UNCHANGED platformVars
  /\ UNCHANGED <<mirrorVars, envOps>>

-----------------------------------------------------------------------------

Posting == \E i \in 1 .. Len(events), n \in Nodes : post[i][n] # "done"

Users ==
  /\ Lifecycle
  /\ IF Posting /\ events' # events THEN EnvOp ELSE UNCHANGED envOps
  /\ UNCHANGED <<mirrorVars, notices>>

Owners ==
  /\ EnvOp
  /\ ChangeExpectations \/ \E a \in AssetIds, u \in Uids : UpdateSystemOfRecordMetadata(a, u)
  /\ UNCHANGED <<mirrorVars, notices>>

Proceed(i, n) == PostData(i, n) \/ GetItem(i, n) \/ PutItem(i, n)

ServicingNext ==
  \/ Users
  \/ Owners
  \/ \E i \in EventIds, n \in Nodes : Proceed(i, n) \/ RequestFails(i, n)
  \/ \E event \in cache : Expire(event)
  \/ \E a \in AssetIds : SendNotification(a)
  \/ \E notice \in notices : ExecuteReport(notice)

ServicingSpec == ServicingInit /\ [][ServicingNext]_servicingVars

-----------------------------------------------------------------------------
(* Properties.                                                             *)

\* What the stored updates for an event of the asset add up to.
Posted(a, action) ==
  SumFunctionOnSet([i \in 1 .. Len(events) |-> Cardinality(stored[i]) * events[i].amount],
                   IndexesOf(a, action))

\* Several nodes have put the row of a new asset, each with its own uid.
RegisteredTwice(a) ==
  \E i \in IndexesOf(a, "AssetRegistered") : Cardinality(stored[i]) > 1

\* Updates get lost when invocations interleave or read older rows, but no
\* stored update is counted twice: the mirror never claims more than its
\* updates, in whatever order they land.
NoUpdateCountedTwice ==
  \A a \in AssetIds : /\ table[a].minted <= Posted(a, "TokensMinted")
                      /\ table[a].redeemed <= Posted(a, "TokensRedeemed")

\* As long as the invocations for an asset come one after the other and each
\* read finds the last row, which the lambda does not ask for, no update is
\* lost: not by failures, repeated posts, or events before registration.
SerialMirrorIsExact ==
  \A a \in AssetIds \ raced : ~RegisteredTwice(a) =>
    /\ table[a].minted = Posted(a, "TokensMinted")
    /\ table[a].redeemed = Posted(a, "TokensRedeemed")

\* A row is never lost, and keeps the uid that is reported to the chain unless
\* several nodes register the asset, although updates put back whole rows
\* that they have read earlier.
UidIsKept ==
  [][\A a \in AssetIds : table[a] # NoRow =>
       /\ table'[a] # NoRow
       /\ table'[a].uid = table[a].uid \/ RegisteredTwice(a)']_servicingVars

=============================================================================
