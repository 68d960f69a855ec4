--------------------------- MODULE DataFeedsCache ---------------------------
(***************************************************************************)
(* The DataFeedsCache contract: workflows write decimal and bundle reports *)
(* for feeds, feed admins decide which workflow may write which feed, and  *)
(* consumers read the feed that is mapped to the proxy they call through.  *)
(*                                                                         *)
(* A transaction runs alone.  onReport loops over the entries of its       *)
(* report: BeginReport opens the call, each ProcessXxxEntry is one         *)
(* iteration, EndReport returns, and no other action is enabled while a    *)
(* call is open.  No iteration reverts (a bad entry is skipped), so every  *)
(* prefix of a report is a state some complete report reaches.  The        *)
(* length of a report is therefore not bounded by the model.               *)
(*                                                                         *)
(* An array of workflow metadata is a set here: order and repetition have  *)
(* no effect, only emptiness is tested.  A report hash is the pair <<feed, *)
(* workflow>>; keccak256 is injective for this purpose.  A call that       *)
(* reverts changes nothing and is an action that is not enabled.           *)
(***************************************************************************)
EXTENDS Naturals

CONSTANTS
  Accounts,      \* addresses the owner may make feed admins
  DataIds,       \* non-zero feed ids
  NoDataId,      \* bytes16(0)
  Workflows,     \* (sender, workflow owner, workflow name) with no zero part
  NoWorkflow,    \* such a triple with a zero part
  Proxies,       \* aggregator proxy addresses
  Values,        \* uint224 answers and bundle payloads
  MaxTimestamp   \* the largest uint32

ASSUME CacheAssumption ==
  /\ NoDataId \notin DataIds
  /\ NoWorkflow \notin Workflows
  /\ Values \subseteq Nat
  /\ MaxTimestamp \in Nat

AllDataIds == DataIds \union {NoDataId}
AllWorkflows == Workflows \union {NoWorkflow}
Timestamps == 0 .. MaxTimestamp

\* StoredDecimalReport and StoredBundleReport: a value and its timestamp.
Report == [value : Values \union {0}, timestamp : Timestamps]

\* What a mapping holds for a key that was never written.
ZeroReport == [value |-> 0, timestamp |-> 0]

\* The call in progress: none, or onReport with its branch and its author.
NoCall == [kind |-> "none", workflow |-> NoWorkflow]
Calls == [kind : {"none", "decimal", "bundle"}, workflow : AllWorkflows]

VARIABLES
  feedAdmins,       \* s_feedAdmins
  workflowMetadata, \* s_feedConfigs[dataId].workflowMetadata
  hasDecimals,      \* s_feedConfigs[dataId].bundleDecimals is not empty
  writePermissions, \* s_writePermissions
  proxyDataId,      \* s_aggregatorProxyToDataId
  roundId,          \* s_dataIdToRoundId
  latestDecimal,    \* s_latestDecimalReports
  decimalReports,   \* s_decimalReports, by feed and then by round
  latestBundle,     \* s_latestBundleReports
  call              \* the call in progress

configVars == <<workflowMetadata, hasDecimals, writePermissions>>
decimalVars == <<roundId, latestDecimal, decimalReports>>
vars == <<feedAdmins, configVars, proxyDataId, decimalVars, latestBundle, call>>

\* A round is counted per accepted timestamp, so there are never more.
Rounds == Timestamps

TypeOK ==
  /\ feedAdmins \subseteq Accounts
  /\ workflowMetadata \in [AllDataIds -> SUBSET AllWorkflows]
  /\ hasDecimals \in [AllDataIds -> BOOLEAN]
  /\ writePermissions \subseteq AllDataIds \X AllWorkflows
  /\ proxyDataId \in [Proxies -> AllDataIds]
  /\ roundId \in [AllDataIds -> Rounds]
  /\ latestDecimal \in [AllDataIds -> Report]
  /\ decimalReports \in [AllDataIds -> [Rounds -> Report]]
  /\ latestBundle \in [AllDataIds -> Report]
  /\ call \in Calls

Init ==
  /\ feedAdmins = {}
  /\ workflowMetadata = [d \in AllDataIds |-> {}]
  /\ hasDecimals = [d \in AllDataIds |-> FALSE]
  /\ writePermissions = {}
  /\ proxyDataId = [p \in Proxies |-> NoDataId]
  /\ roundId = [d \in AllDataIds |-> 0]
  /\ latestDecimal = [d \in AllDataIds |-> ZeroReport]
  /\ decimalReports = [d \in AllDataIds |-> [r \in Rounds |-> ZeroReport]]
  /\ latestBundle = [d \in AllDataIds |-> ZeroReport]
  /\ call = NoCall

Idle == call.kind = "none"

-----------------------------------------------------------------------------
(* Configuration.                                                          *)

SetFeedAdmin(account, isAdmin) ==
  /\ Idle
  /\ feedAdmins' = IF isAdmin THEN feedAdmins \union {account}
                              ELSE feedAdmins \ {account}
  /\ UNCHANGED <<configVars, proxyDataId, decimalVars, latestBundle, call>>

\* The permissions the current metadata of a set of feeds stands for.
Granted(ids) == {g \in ids \X AllWorkflows : g[2] \in workflowMetadata[g[1]]}

\* A setter that forgets to delete the permissions of the previous metadata.
ReplaceMetadata_KeepsPermissions(ids, metadata) ==
  /\ writePermissions' = writePermissions \union (ids \X metadata)
  /\ workflowMetadata' =
       [d \in AllDataIds |-> IF d \in ids THEN metadata ELSE workflowMetadata[d]]

\* Both setters: delete the permissions of the previous metadata, grant the
\* new ones and store the metadata.
ReplaceMetadata(ids, metadata) ==
  /\ writePermissions' = (writePermissions \ Granted(ids)) \union (ids \X metadata)
  /\ workflowMetadata' =
       [d \in AllDataIds |-> IF d \in ids THEN metadata ELSE workflowMetadata[d]]

\* Deleting the configs of a set of feeds clears their bundle decimals.
DecimalsWithout(ids) == [d \in AllDataIds |-> hasDecimals[d] /\ d \notin ids]

\* What both setters reject: empty arrays, the zero feed id, metadata with a
\* zero address or name.
ValidConfig(ids, metadata) ==
  /\ ids # {} /\ metadata # {}
  /\ NoDataId \notin ids
  /\ NoWorkflow \notin metadata

SetDecimalFeedConfigs(admin, ids, metadata) ==
  /\ Idle
  /\ admin \in feedAdmins
  /\ ValidConfig(ids, metadata)
  /\ ReplaceMetadata(ids, metadata)
  \* Only the deletion of a previous config clears the bundle decimals.
  /\ hasDecimals' = DecimalsWithout({d \in ids : workflowMetadata[d] # {}})
  /\ UNCHANGED <<feedAdmins, proxyDataId, decimalVars, latestBundle, call>>

\* "filled" are the feeds whose last row of the decimals matrix is not empty.
SetBundleFeedConfigs(admin, ids, metadata, filled) ==
  /\ Idle
  /\ admin \in feedAdmins
  /\ ValidConfig(ids, metadata)
  /\ ReplaceMetadata(ids, metadata)
  /\ hasDecimals' =
       [d \in AllDataIds |-> IF d \in ids THEN d \in filled ELSE hasDecimals[d]]
  /\ UNCHANGED <<feedAdmins, proxyDataId, decimalVars, latestBundle, call>>

\* Reverts for a feed without a config, hence also for a repeated id.
RemoveFeedConfigs(admin, ids) ==
  /\ Idle
  /\ admin \in feedAdmins
  /\ \A d \in ids : workflowMetadata[d] # {}
  /\ writePermissions' = writePermissions \ Granted(ids)
  /\ workflowMetadata' =
       [d \in AllDataIds |-> IF d \in ids THEN {} ELSE workflowMetadata[d]]
  /\ hasDecimals' = DecimalsWithout(ids)
  /\ UNCHANGED <<feedAdmins, proxyDataId, decimalVars, latestBundle, call>>

\* The zero id is accepted; a later entry for the same proxy overwrites.
UpdateDataIdMappingsForProxies(admin, mapping) ==
  /\ Idle
  /\ admin \in feedAdmins
  /\ proxyDataId' = [p \in Proxies |->
       IF p \in DOMAIN mapping THEN mapping[p] ELSE proxyDataId[p]]
  /\ UNCHANGED <<feedAdmins, configVars, decimalVars, latestBundle, call>>

RemoveDataIdMappingsForProxies(admin, proxies) ==
  /\ Idle
  /\ admin \in feedAdmins
  /\ proxyDataId' =
       [p \in Proxies |-> IF p \in proxies THEN NoDataId ELSE proxyDataId[p]]
  /\ UNCHANGED <<feedAdmins, configVars, decimalVars, latestBundle, call>>

-----------------------------------------------------------------------------
(* Reports.                                                                *)

\* The length of the report decides which of the two loops runs.
BeginReport(kind, workflow) ==
  /\ Idle
  /\ call' = [kind |-> kind, workflow |-> workflow]
  /\ UNCHANGED <<feedAdmins, configVars, proxyDataId, decimalVars, latestBundle>>

Permitted(dataId) == <<dataId, call.workflow>> \in writePermissions

\* The staleness check with < in place of <=.
Newer_OrEqual(report, latest) == report.timestamp >= latest.timestamp

Newer(report, latest) == report.timestamp > latest.timestamp

\* The round is stored under the id before the increment.
StoreDecimal_PostIncrement(dataId, report) ==
  /\ roundId' = [roundId EXCEPT ![dataId] = @ + 1]
  /\ latestDecimal' = [latestDecimal EXCEPT ![dataId] = report]
  /\ decimalReports' = [decimalReports EXCEPT ![dataId][roundId[dataId]] = report]

StoreDecimal(dataId, report) ==
  LET round == roundId[dataId] + 1 IN
  /\ roundId' = [roundId EXCEPT ![dataId] = round]
  /\ latestDecimal' = [latestDecimal EXCEPT ![dataId] = report]
  /\ decimalReports' = [decimalReports EXCEPT ![dataId][round] = report]

\* An entry that is not permitted or not newer than the latest is skipped.
ProcessDecimalEntry(dataId, report) ==
  /\ call.kind = "decimal"
  /\ IF Permitted(dataId) /\ Newer(report, latestDecimal[dataId])
       THEN StoreDecimal(dataId, report)
       ELSE UNCHANGED decimalVars
  /\ UNCHANGED <<feedAdmins, configVars, proxyDataId, latestBundle, call>>

ProcessBundleEntry(dataId, report) ==
  /\ call.kind = "bundle"
  /\ IF Permitted(dataId) /\ Newer(report, latestBundle[dataId])
       THEN latestBundle' = [latestBundle EXCEPT ![dataId] = report]
       ELSE UNCHANGED latestBundle
  /\ UNCHANGED <<feedAdmins, configVars, proxyDataId, decimalVars, call>>

EndReport ==
  /\ ~Idle
  /\ call' = NoCall
  /\ UNCHANGED <<feedAdmins, configVars, proxyDataId, decimalVars, latestBundle>>

-----------------------------------------------------------------------------

\* Every proxy array and id array of a call, as a partial function.
Mappings == UNION {[ps -> AllDataIds] : ps \in SUBSET Proxies}

ReceivedReport == [value : Values, timestamp : Timestamps]

Configure(admin) ==
  \/ \E ids \in SUBSET AllDataIds, metadata \in SUBSET AllWorkflows :
       \/ SetDecimalFeedConfigs(admin, ids, metadata)
       \/ \E filled \in SUBSET ids : SetBundleFeedConfigs(admin, ids, metadata, filled)
  \/ \E ids \in SUBSET AllDataIds : RemoveFeedConfigs(admin, ids)
  \/ \E mapping \in Mappings : UpdateDataIdMappingsForProxies(admin, mapping)
  \/ \E proxies \in SUBSET Proxies : RemoveDataIdMappingsForProxies(admin, proxies)

OnReport ==
  \/ \E kind \in {"decimal", "bundle"}, w \in AllWorkflows : BeginReport(kind, w)
  \/ \E d \in AllDataIds, report \in ReceivedReport :
       \/ ProcessDecimalEntry(d, report)
       \/ ProcessBundleEntry(d, report)
  \/ EndReport

Next ==
  \/ \E account \in Accounts, isAdmin \in BOOLEAN : SetFeedAdmin(account, isAdmin)
  \/ \E admin \in Accounts : Configure(admin)
  \/ OnReport

Spec == Init /\ [][Next]_vars

-----------------------------------------------------------------------------
(* Views.                                                                  *)

\* latestRoundData and latestBundle revert for a proxy without a mapping.
IsMapped(proxy) == proxyDataId[proxy] # NoDataId

LatestRoundData(proxy) ==
  LET d == proxyDataId[proxy] IN
  [id |-> roundId[d], answer |-> latestDecimal[d].value,
   updatedAt |-> latestDecimal[d].timestamp]

GetRoundData(proxy, round) ==
  LET report == decimalReports[proxyDataId[proxy]][round] IN
  [id |-> round, answer |-> report.value, updatedAt |-> report.timestamp]

-----------------------------------------------------------------------------
(* Properties.                                                             *)

\* The permission table and the feed configs are two stores of one fact:
\* after any sequence of configurations, replacements and removals, exactly
\* the workflows listed for a feed hold a permission for it.
PermissionsMatchConfig ==
  \A d \in AllDataIds, w \in AllWorkflows :
    <<d, w>> \in writePermissions <=> w \in workflowMetadata[d]

\* The zero feed id and incomplete workflow identities never take part: an
\* unmapped proxy, which reads feed 0, can never come to show data.
ZeroKeysUnused ==
  /\ workflowMetadata[NoDataId] = {}
  /\ roundId[NoDataId] = 0
  /\ latestDecimal[NoDataId] = ZeroReport
  /\ latestBundle[NoDataId] = ZeroReport
  /\ \A d \in AllDataIds : NoWorkflow \notin workflowMetadata[d]

\* Bundle decimals exist only while the feed is configured.
DecimalsOnlyIfConfigured ==
  \A d \in AllDataIds : hasDecimals[d] => workflowMetadata[d] # {}

\* latestRoundData and getRoundData of the latest round agree for every
\* proxy, also between two entries of one report.
ViewsAgree ==
  \A p \in Proxies :
    IsMapped(p) => LatestRoundData(p) = GetRoundData(p, LatestRoundData(p).id)

\* Rounds are numbered without gaps and their timestamps increase strictly,
\* whatever the order in which reports of different workflows arrive.
RoundsIncrease ==
  \A d \in AllDataIds :
    /\ \A r \in 1 .. roundId[d] :
         decimalReports[d][r - 1].timestamp < decimalReports[d][r].timestamp
    /\ \A r \in Rounds : r > roundId[d] => decimalReports[d][r] = ZeroReport

\* A feed has no more rounds than its latest timestamp, so a round id fits
\* 32 bits and the cast to uint80 in the views never truncates it.
RoundIdFits == \A d \in AllDataIds : roundId[d] <= latestDecimal[d].timestamp

\* What a consumer sees through a proxy that keeps its mapping never goes
\* back in time, over configuration changes and removals too.
ReadsNeverGoBack ==
  [][\A p \in Proxies :
       IsMapped(p) /\ proxyDataId'[p] = proxyDataId[p] =>
         /\ LatestRoundData(p)'.id >= LatestRoundData(p).id
         /\ LatestRoundData(p)'.updatedAt >= LatestRoundData(p).updatedAt
         /\ LatestRoundData(p)' # LatestRoundData(p) =>
              LatestRoundData(p)'.updatedAt > LatestRoundData(p).updatedAt]_vars

\* A feed changes only by a report of a workflow its config lists at that
\* moment: removing or replacing a config stops the old author at once.
OnlyListedWorkflowsWrite ==
  [][\A d \in AllDataIds :
       latestDecimal'[d] # latestDecimal[d] \/ latestBundle'[d] # latestBundle[d] =>
         call.workflow \in workflowMetadata[d]]_vars

\* Every decimal feed is an append-only log of rounds (module FeedLog).
FeedLogs == INSTANCE FeedLog WITH
  Feeds <- DataIds,
  log <- [d \in DataIds |-> [r \in 1 .. roundId[d] |-> decimalReports[d][r]]]

\* Permissions, removals, proxy mappings and the other feeds are invisible at
\* the level of a feed's log: the contract implements FeedLog.
ImplementsFeedLog == FeedLogs!Spec

\* removeFeedConfigs is documented to remove "feeds and all associated data".
RemovedFeedHasNoData ==
  [][\A d \in DataIds :
       workflowMetadata[d] # {} /\ workflowMetadata'[d] = {} =>
         latestDecimal'[d] = ZeroReport /\ latestBundle'[d] = ZeroReport]_vars

=============================================================================
