------------------------ MODULE DataFeedsCacheProofs ------------------------
(***************************************************************************)
(* Proofs about DataFeedsCache, for every set of feeds, workflows, proxies *)
(* and values and every MaxTimestamp (2^32 - 1 in the contract).           *)
(*                                                                         *)
(* The inductive invariant joins the permission table to the configs, and  *)
(* the three copies of a feed's latest round to each other.  TypeOK is not *)
(* inductive alone: roundId + 1 is a round only because there are never    *)
(* more rounds than the latest timestamp (RoundIdFits).                    *)
(***************************************************************************)
EXTENDS DataFeedsCache, Sequences, TLAPS

\* The comment on s_latestDecimalReports: it always equals
\* s_decimalReports[s_dataIdToRoundId[dataId]][dataId].
LatestIsCurrentRound ==
  \A d \in AllDataIds : latestDecimal[d] = decimalReports[d][roundId[d]]

RoundInv == LatestIsCurrentRound /\ RoundsIncrease /\ RoundIdFits

ConfigInv == PermissionsMatchConfig /\ ZeroKeysUnused /\ DecimalsOnlyIfConfigured

IInv == TypeOK /\ ConfigInv /\ RoundInv

-----------------------------------------------------------------------------
(* The initial state.                                                      *)

LEMMA InitIInv == Init => IInv
<1> SUFFICES ASSUME Init PROVE IInv
  OBVIOUS
<1> USE CacheAssumption
<1>1. ZeroReport \in Report /\ 0 \in Rounds
  BY DEF ZeroReport, Report, Rounds, Timestamps
<1>2. TypeOK
  BY <1>1 DEF Init, TypeOK, NoCall, Calls, AllWorkflows, AllDataIds
<1>3. ConfigInv
  BY DEF Init, ConfigInv, PermissionsMatchConfig, ZeroKeysUnused,
         DecimalsOnlyIfConfigured, AllDataIds
<1>4. RoundInv
  BY <1>1 DEF Init, RoundInv, LatestIsCurrentRound, RoundsIncrease,
              RoundIdFits, ZeroReport, Rounds, Timestamps
<1> QED
  BY <1>2, <1>3, <1>4 DEF IInv

-----------------------------------------------------------------------------
(* What the configuration actions leave alone, and what the reports do.    *)

\* A step that keeps the decimal variables keeps everything said of rounds.
LEMMA RoundInvFrame ==
  ASSUME RoundInv, UNCHANGED decimalVars
  PROVE  RoundInv'
BY DEF RoundInv, LatestIsCurrentRound, RoundsIncrease, RoundIdFits, decimalVars

\* Storing a newer report is one more round, and the only round it touches is
\* the one after the last.
LEMMA StoreDecimalRounds ==
  ASSUME TypeOK, RoundInv,
         NEW d \in AllDataIds, NEW report \in Report,
         report.timestamp > latestDecimal[d].timestamp,
         StoreDecimal(d, report)
  PROVE  /\ roundId' \in [AllDataIds -> Rounds]
         /\ latestDecimal' \in [AllDataIds -> Report]
         /\ decimalReports' \in [AllDataIds -> [Rounds -> Report]]
         /\ RoundInv'
<1> USE CacheAssumption DEF Rounds, Timestamps
<1> DEFINE n == roundId[d] + 1
<1>1. /\ \A e \in AllDataIds : roundId[e] \in 0 .. MaxTimestamp
      /\ \A e \in AllDataIds : latestDecimal[e].timestamp \in 0 .. MaxTimestamp
      /\ \A e \in AllDataIds, r \in Rounds :
           decimalReports[e][r].timestamp \in 0 .. MaxTimestamp
      /\ report.timestamp \in 0 .. MaxTimestamp
  BY DEF TypeOK, Report
<1>2. n \in 1 .. MaxTimestamp /\ n <= report.timestamp
  BY <1>1 DEF RoundInv, RoundIdFits
<1>3. /\ roundId' = [roundId EXCEPT ![d] = n]
      /\ latestDecimal' = [latestDecimal EXCEPT ![d] = report]
      /\ decimalReports' = [decimalReports EXCEPT ![d][n] = report]
  BY DEF StoreDecimal
<1>4. /\ \A e \in AllDataIds : e # d => /\ roundId'[e] = roundId[e]
                                         /\ latestDecimal'[e] = latestDecimal[e]
                                         /\ decimalReports'[e] = decimalReports[e]
      /\ roundId'[d] = n
      /\ latestDecimal'[d] = report
      /\ decimalReports'[d][n] = report
      /\ \A r \in Rounds : r # n => decimalReports'[d][r] = decimalReports[d][r]
  BY <1>2, <1>3 DEF TypeOK
<1>5. /\ roundId' \in [AllDataIds -> Rounds]
      /\ latestDecimal' \in [AllDataIds -> Report]
      /\ decimalReports' \in [AllDataIds -> [Rounds -> Report]]
  BY <1>2, <1>3 DEF TypeOK
<1>6. LatestIsCurrentRound'
  BY <1>4, <1>1 DEF LatestIsCurrentRound, RoundInv
<1>7. RoundIdFits'
  BY <1>2, <1>4 DEF RoundIdFits, RoundInv
<1>8. RoundsIncrease'
  <2> SUFFICES ASSUME NEW e \in AllDataIds
               PROVE  /\ \A r \in 1 .. roundId'[e] :
                           decimalReports'[e][r - 1].timestamp
                             < decimalReports'[e][r].timestamp
                      /\ \A r \in Rounds : r > roundId'[e] =>
                           decimalReports'[e][r] = ZeroReport
    BY DEF RoundsIncrease
  <2>1. CASE e # d
    BY <2>1, <1>4 DEF RoundsIncrease, RoundInv
  <2>2. CASE e = d
    <3>1. decimalReports[d][n - 1] = latestDecimal[d]
      BY <1>1 DEF RoundInv, LatestIsCurrentRound
    <3>2. ASSUME NEW r \in 1 .. n
          PROVE  decimalReports'[d][r - 1].timestamp < decimalReports'[d][r].timestamp
      <4>1. CASE r = n
        BY <4>1, <3>1, <1>1, <1>2, <1>4
      <4>2. CASE r < n
        BY <4>2, <1>1, <1>2, <1>4 DEF RoundInv, RoundsIncrease
      <4> QED BY <4>1, <4>2, <1>2
    <3>3. ASSUME NEW r \in Rounds, r > n
          PROVE  decimalReports'[d][r] = ZeroReport
      BY <3>3, <1>1, <1>2, <1>4 DEF RoundInv, RoundsIncrease
    <3> QED BY <2>2, <3>2, <3>3, <1>4
  <2> QED BY <2>1, <2>2
<1> QED BY <1>5, <1>6, <1>7, <1>8 DEF RoundInv

-----------------------------------------------------------------------------
(* Configuration: both setters and the removal keep the permission table   *)
(* and the configs equal.                                                  *)

LEMMA ConfigureIInv ==
  ASSUME IInv, NEW admin \in Accounts, Configure(admin)
  PROVE  IInv'
<1> USE CacheAssumption DEF IInv
<1>1. UNCHANGED decimalVars
  BY DEF Configure, SetDecimalFeedConfigs, SetBundleFeedConfigs, RemoveFeedConfigs,
         UpdateDataIdMappingsForProxies, RemoveDataIdMappingsForProxies
<1>2. RoundInv'
  BY <1>1, RoundInvFrame
<1>3. ASSUME NEW ids \in SUBSET AllDataIds, NEW metadata \in SUBSET AllWorkflows,
             NEW filled \in SUBSET ids,
             \/ SetDecimalFeedConfigs(admin, ids, metadata)
             \/ SetBundleFeedConfigs(admin, ids, metadata, filled)
      PROVE  TypeOK' /\ ConfigInv'
  <2>1. /\ ReplaceMetadata(ids, metadata)
        /\ ValidConfig(ids, metadata)
        /\ UNCHANGED <<feedAdmins, proxyDataId, decimalVars, latestBundle, call>>
    BY <1>3 DEF SetDecimalFeedConfigs, SetBundleFeedConfigs
  <2>2. /\ hasDecimals' \in [AllDataIds -> BOOLEAN]
        /\ \A d \in AllDataIds : d \notin ids => (hasDecimals'[d] <=> hasDecimals[d])
    <3>1. CASE SetDecimalFeedConfigs(admin, ids, metadata)
      BY <3>1, Zenon DEF SetDecimalFeedConfigs, DecimalsWithout
    <3>2. CASE SetBundleFeedConfigs(admin, ids, metadata, filled)
      <4>1. hasDecimals' = [d \in AllDataIds |->
                              IF d \in ids THEN d \in filled ELSE hasDecimals[d]]
        BY <3>2 DEF SetBundleFeedConfigs
      <4>2. \A d \in AllDataIds :
              (IF d \in ids THEN d \in filled ELSE hasDecimals[d]) \in BOOLEAN
        <5> SUFFICES ASSUME NEW d \in AllDataIds
                     PROVE  (IF d \in ids THEN d \in filled ELSE hasDecimals[d]) \in BOOLEAN
          OBVIOUS
        <5>1. hasDecimals[d] \in BOOLEAN
          BY DEF TypeOK
        <5>2. (d \in filled) \in BOOLEAN
          OBVIOUS
        <5> QED BY <5>1, <5>2, Zenon
      <4> QED BY <4>1, <4>2, Zenon
    <3> QED BY <1>3, <3>1, <3>2
  <2>3. TypeOK'
    BY <2>1, <2>2 DEF TypeOK, ReplaceMetadata, decimalVars
  <2>4. PermissionsMatchConfig'
    BY <2>1 DEF PermissionsMatchConfig, ConfigInv, ReplaceMetadata, Granted
  <2>5. ZeroKeysUnused'
    BY <2>1 DEF ZeroKeysUnused, ConfigInv, ReplaceMetadata, ValidConfig,
                decimalVars, AllDataIds
  <2>6. DecimalsOnlyIfConfigured'
    BY <2>1, <2>2 DEF DecimalsOnlyIfConfigured, ConfigInv, ReplaceMetadata, ValidConfig
  <2> QED BY <2>3, <2>4, <2>5, <2>6 DEF ConfigInv
<1>4. ASSUME NEW ids \in SUBSET AllDataIds, RemoveFeedConfigs(admin, ids)
      PROVE  TypeOK' /\ ConfigInv'
  <2> USE <1>4 DEF RemoveFeedConfigs, DecimalsWithout
  <2>1. TypeOK'
    <3>1. hasDecimals' \in [AllDataIds -> BOOLEAN]
      BY Zenon DEF TypeOK
    <3> QED BY <3>1 DEF TypeOK, decimalVars
  <2>2. PermissionsMatchConfig'
    BY DEF PermissionsMatchConfig, ConfigInv, Granted
  <2>3. ZeroKeysUnused'
    BY DEF ZeroKeysUnused, ConfigInv, decimalVars, AllDataIds
  <2>4. DecimalsOnlyIfConfigured'
    BY DEF DecimalsOnlyIfConfigured, ConfigInv
  <2> QED BY <2>1, <2>2, <2>3, <2>4 DEF ConfigInv
<1>5. ASSUME \/ \E mapping \in Mappings :
                  UpdateDataIdMappingsForProxies(admin, mapping)
             \/ \E proxies \in SUBSET Proxies :
                  RemoveDataIdMappingsForProxies(admin, proxies)
      PROVE  TypeOK' /\ ConfigInv'
  <2>1. /\ proxyDataId' \in [Proxies -> AllDataIds]
        /\ UNCHANGED <<feedAdmins, configVars, decimalVars, latestBundle, call>>
    BY <1>5 DEF UpdateDataIdMappingsForProxies, RemoveDataIdMappingsForProxies,
                Mappings, TypeOK, AllDataIds
  <2> QED
    BY <2>1 DEF TypeOK, ConfigInv, PermissionsMatchConfig, ZeroKeysUnused,
                DecimalsOnlyIfConfigured, configVars, decimalVars
<1> QED
  BY <1>2, <1>3, <1>4, <1>5 DEF Configure

-----------------------------------------------------------------------------
(* Reports: the configs stay, and only a permitted, newer entry is stored. *)

LEMMA DecimalEntryIInv ==
  ASSUME IInv, NEW d \in AllDataIds, NEW report \in ReceivedReport,
         ProcessDecimalEntry(d, report)
  PROVE  IInv'
<1> USE CacheAssumption DEF IInv
<1>1. /\ call.kind = "decimal"
      /\ UNCHANGED <<feedAdmins, configVars, proxyDataId, latestBundle, call>>
  BY DEF ProcessDecimalEntry, Newer
<1>2. report \in Report
  BY DEF ReceivedReport, Report
<1>3. CASE Permitted(d) /\ report.timestamp > latestDecimal[d].timestamp
  <2>1. StoreDecimal(d, report)
    BY <1>3 DEF ProcessDecimalEntry, Newer
  <2>2. /\ roundId' \in [AllDataIds -> Rounds]
        /\ latestDecimal' \in [AllDataIds -> Report]
        /\ decimalReports' \in [AllDataIds -> [Rounds -> Report]]
        /\ RoundInv'
    BY <1>2, <1>3, <2>1, StoreDecimalRounds
  <2>3. d # NoDataId
    BY <1>3 DEF Permitted, ConfigInv, PermissionsMatchConfig, ZeroKeysUnused,
                TypeOK, Calls
  <2>4. ConfigInv'
    BY <1>1, <2>1, <2>3 DEF ConfigInv, PermissionsMatchConfig, ZeroKeysUnused,
         DecimalsOnlyIfConfigured, StoreDecimal, configVars, TypeOK, AllDataIds
  <2> QED BY <1>1, <2>2, <2>4 DEF TypeOK, configVars
<1>4. CASE ~(Permitted(d) /\ report.timestamp > latestDecimal[d].timestamp)
  <2>1. UNCHANGED vars
    BY <1>1, <1>4 DEF ProcessDecimalEntry, Newer, vars
  <2> QED
    BY <2>1, RoundInvFrame DEF vars, TypeOK, ConfigInv, PermissionsMatchConfig,
       ZeroKeysUnused, DecimalsOnlyIfConfigured, configVars, decimalVars
<1> QED BY <1>3, <1>4

LEMMA BundleEntryIInv ==
  ASSUME IInv, NEW d \in AllDataIds, NEW report \in ReceivedReport,
         ProcessBundleEntry(d, report)
  PROVE  IInv'
<1> USE CacheAssumption DEF IInv
<1>1. UNCHANGED <<feedAdmins, configVars, proxyDataId, decimalVars, call>>
  BY DEF ProcessBundleEntry, Newer
<1>2. RoundInv'
  BY <1>1, RoundInvFrame
<1>3. report \in Report
  BY DEF ReceivedReport, Report
<1>4. latestBundle' \in [AllDataIds -> Report]
  BY <1>3 DEF ProcessBundleEntry, Newer, TypeOK
<1>5. latestBundle'[NoDataId] = latestBundle[NoDataId]
  <2>1. ~Permitted(NoDataId)
    BY DEF Permitted, ConfigInv, PermissionsMatchConfig, ZeroKeysUnused,
           TypeOK, Calls, AllDataIds
  <2>2. CASE d = NoDataId
    BY <2>1, <2>2 DEF ProcessBundleEntry, Newer
  <2>3. CASE d # NoDataId
    BY <2>3 DEF ProcessBundleEntry, Newer, TypeOK, AllDataIds
  <2> QED BY <2>2, <2>3
<1>6. ConfigInv'
  BY <1>1, <1>5 DEF ConfigInv, PermissionsMatchConfig, ZeroKeysUnused,
       DecimalsOnlyIfConfigured, configVars, decimalVars
<1> QED BY <1>1, <1>2, <1>4, <1>6 DEF TypeOK, configVars, decimalVars

-----------------------------------------------------------------------------

LEMMA NextIInv == IInv /\ [Next]_vars => IInv'
<1> SUFFICES ASSUME IInv, [Next]_vars PROVE IInv'
  OBVIOUS
<1> USE DEF IInv
<1>1. ASSUME NEW account \in Accounts, NEW isAdmin \in BOOLEAN,
             SetFeedAdmin(account, isAdmin)
      PROVE  IInv'
  BY <1>1, RoundInvFrame DEF SetFeedAdmin, TypeOK, ConfigInv, PermissionsMatchConfig,
     ZeroKeysUnused, DecimalsOnlyIfConfigured, configVars, decimalVars
<1>2. ASSUME NEW admin \in Accounts, Configure(admin)
      PROVE  IInv'
  BY <1>2, ConfigureIInv
<1>3. ASSUME \/ \E kind \in {"decimal", "bundle"}, w \in AllWorkflows : BeginReport(kind, w)
             \/ EndReport
      PROVE  IInv'
  <2>1. call' \in Calls /\ UNCHANGED <<feedAdmins, configVars, proxyDataId, decimalVars, latestBundle>>
    BY <1>3 DEF BeginReport, EndReport, Calls, NoCall, AllWorkflows
  <2> QED
    BY <2>1, RoundInvFrame DEF TypeOK, ConfigInv, PermissionsMatchConfig,
       ZeroKeysUnused, DecimalsOnlyIfConfigured, configVars, decimalVars
<1>4. ASSUME NEW d \in AllDataIds, NEW report \in ReceivedReport,
             ProcessDecimalEntry(d, report) \/ ProcessBundleEntry(d, report)
      PROVE  IInv'
  BY <1>4, DecimalEntryIInv, BundleEntryIInv
<1>5. CASE UNCHANGED vars
  BY <1>5, RoundInvFrame DEF vars, TypeOK, ConfigInv, PermissionsMatchConfig,
     ZeroKeysUnused, DecimalsOnlyIfConfigured, configVars, decimalVars
<1> QED
  BY <1>1, <1>2, <1>3, <1>4, <1>5 DEF Next, OnReport

\* The inductive invariant: every state the contract reaches satisfies it.
THEOREM SpecIInv == Spec => []IInv
  BY InitIInv, NextIInv, PTL DEF Spec

-----------------------------------------------------------------------------
(* The invariants the runs check.                                          *)

\* Every variable keeps its type; in particular a round id never leaves the
\* range of a 32-bit timestamp.
THEOREM TypeCorrect == Spec => []TypeOK
  BY SpecIInv, PTL DEF IInv

\* After any history of configurations, the permissions are those of the
\* current configs: a removed or replaced workflow keeps none.
THEOREM PermissionsFollowConfig == Spec => []PermissionsMatchConfig
  BY SpecIInv, PTL DEF IInv, ConfigInv

\* An unmapped proxy reads feed 0, which never receives data.
THEOREM ZeroFeedStaysEmpty == Spec => []ZeroKeysUnused
  BY SpecIInv, PTL DEF IInv, ConfigInv

\* A feed that is removed and configured again starts without bundle decimals.
THEOREM DecimalsFollowConfig == Spec => []DecimalsOnlyIfConfigured
  BY SpecIInv, PTL DEF IInv, ConfigInv

\* Rounds have no gaps and strictly increasing timestamps, and are never more
\* than the latest timestamp.
THEOREM RoundsAreOrdered == Spec => [](RoundsIncrease /\ RoundIdFits)
  BY SpecIInv, PTL DEF IInv, RoundInv

\* The two views of the latest round agree.
THEOREM LatestViewIsRoundView == Spec => []ViewsAgree
<1>1. IInv => ViewsAgree
  BY DEF IInv, TypeOK, RoundInv, LatestIsCurrentRound, ViewsAgree, LatestRoundData,
         GetRoundData
<1> QED BY <1>1, SpecIInv, PTL

-----------------------------------------------------------------------------
(* What a step may do to a feed.                                           *)

\* A step either leaves the decimal feeds alone or stores one newer report of
\* a workflow that the config of the feed lists.
LEMMA DecimalStep ==
  ASSUME IInv, [Next]_vars
  PROVE  \/ UNCHANGED decimalVars
         \/ \E d \in DataIds, report \in ReceivedReport :
              /\ call.workflow \in workflowMetadata[d]
              /\ report.timestamp > latestDecimal[d].timestamp
              /\ StoreDecimal(d, report)
<1> USE DEF IInv
<1>1. CASE \E d \in AllDataIds, report \in ReceivedReport : ProcessDecimalEntry(d, report)
  <2>1. PICK d \in AllDataIds, report \in ReceivedReport : ProcessDecimalEntry(d, report)
    BY <1>1
  <2>2. CASE Permitted(d) /\ report.timestamp > latestDecimal[d].timestamp
    <3>1. StoreDecimal(d, report)
      BY <2>1, <2>2 DEF ProcessDecimalEntry, Newer
    <3>2. call.workflow \in workflowMetadata[d]
      BY <2>2 DEF Permitted, ConfigInv, PermissionsMatchConfig, TypeOK, Calls
    <3>3. d \in DataIds
      BY <3>2 DEF ConfigInv, ZeroKeysUnused, AllDataIds
    <3> QED BY <2>2, <3>1, <3>2, <3>3
  <2>3. CASE ~(Permitted(d) /\ report.timestamp > latestDecimal[d].timestamp)
    BY <2>1, <2>3 DEF ProcessDecimalEntry, Newer
  <2> QED BY <2>2, <2>3
<1>2. CASE ~ \E d \in AllDataIds, report \in ReceivedReport : ProcessDecimalEntry(d, report)
  BY <1>2 DEF Next, OnReport, Configure, SetFeedAdmin, SetDecimalFeedConfigs,
     SetBundleFeedConfigs, RemoveFeedConfigs, UpdateDataIdMappingsForProxies,
     RemoveDataIdMappingsForProxies, BeginReport, ProcessBundleEntry, EndReport,
     vars, decimalVars
<1> QED BY <1>1, <1>2

\* The same for the bundle feeds.
LEMMA BundleStep ==
  ASSUME IInv, [Next]_vars
  PROVE  \/ UNCHANGED latestBundle
         \/ \E d \in AllDataIds, report \in ReceivedReport :
              /\ call.workflow \in workflowMetadata[d]
              /\ latestBundle' = [latestBundle EXCEPT ![d] = report]
<1> USE DEF IInv
<1>1. CASE \E d \in AllDataIds, report \in ReceivedReport : ProcessBundleEntry(d, report)
  <2>1. PICK d \in AllDataIds, report \in ReceivedReport : ProcessBundleEntry(d, report)
    BY <1>1
  <2>2. Permitted(d) => call.workflow \in workflowMetadata[d]
    BY DEF Permitted, ConfigInv, PermissionsMatchConfig, TypeOK, Calls
  <2> QED BY <2>1, <2>2 DEF ProcessBundleEntry, Newer
<1>2. CASE ~ \E d \in AllDataIds, report \in ReceivedReport : ProcessBundleEntry(d, report)
  BY <1>2 DEF Next, OnReport, Configure, SetFeedAdmin, SetDecimalFeedConfigs,
     SetBundleFeedConfigs, RemoveFeedConfigs, UpdateDataIdMappingsForProxies,
     RemoveDataIdMappingsForProxies, BeginReport, ProcessDecimalEntry, EndReport,
     vars, decimalVars
<1> QED BY <1>1, <1>2

\* Nobody writes a feed whose current config does not list them.
THEOREM WritesAreAuthorised == Spec => OnlyListedWorkflowsWrite
<1>1. IInv /\ [Next]_vars =>
        [\A d \in AllDataIds :
           latestDecimal'[d] # latestDecimal[d] \/ latestBundle'[d] # latestBundle[d] =>
             call.workflow \in workflowMetadata[d]]_vars
  <2> SUFFICES ASSUME IInv, [Next]_vars, NEW d \in AllDataIds,
                      \/ latestDecimal'[d] # latestDecimal[d]
                      \/ latestBundle'[d] # latestBundle[d]
               PROVE  call.workflow \in workflowMetadata[d]
    OBVIOUS
  <2>1. CASE latestDecimal'[d] # latestDecimal[d]
    <3>1. PICK e \in DataIds, report \in ReceivedReport :
            /\ call.workflow \in workflowMetadata[e]
            /\ StoreDecimal(e, report)
      BY <2>1, DecimalStep DEF decimalVars
    <3> QED BY <2>1, <3>1 DEF StoreDecimal, IInv, TypeOK
  <2>2. CASE latestBundle'[d] # latestBundle[d]
    <3>1. PICK e \in AllDataIds, report \in ReceivedReport :
            /\ call.workflow \in workflowMetadata[e]
            /\ latestBundle' = [latestBundle EXCEPT ![e] = report]
      BY <2>2, BundleStep
    <3> QED BY <2>2, <3>1 DEF IInv, TypeOK
  <2> QED BY <2>1, <2>2
<1> QED
  BY <1>1, SpecIInv, PTL DEF Spec, OnlyListedWorkflowsWrite

\* A reader whose proxy keeps its mapping sees round ids and timestamps grow
\* together and never shrink.
THEOREM ReadsAreMonotonic == Spec => ReadsNeverGoBack
<1> USE CacheAssumption
<1>1. IInv /\ [Next]_vars =>
        [\A p \in Proxies :
           IsMapped(p) /\ proxyDataId'[p] = proxyDataId[p] =>
             /\ LatestRoundData(p)'.id >= LatestRoundData(p).id
             /\ LatestRoundData(p)'.updatedAt >= LatestRoundData(p).updatedAt
             /\ LatestRoundData(p)' # LatestRoundData(p) =>
                  LatestRoundData(p)'.updatedAt > LatestRoundData(p).updatedAt]_vars
  <2> SUFFICES ASSUME IInv, [Next]_vars, NEW p \in Proxies,
                      proxyDataId'[p] = proxyDataId[p]
               PROVE  /\ LatestRoundData(p)'.id >= LatestRoundData(p).id
                      /\ LatestRoundData(p)'.updatedAt >= LatestRoundData(p).updatedAt
                      /\ LatestRoundData(p)' # LatestRoundData(p) =>
                           LatestRoundData(p)'.updatedAt > LatestRoundData(p).updatedAt
    OBVIOUS
  <2> DEFINE d == proxyDataId[p]
  <2>1. d \in AllDataIds /\ roundId[d] \in Nat /\ latestDecimal[d].timestamp \in Nat
    BY DEF IInv, TypeOK, Report, Rounds, Timestamps
  <2>2. CASE roundId'[d] = roundId[d] /\ latestDecimal'[d] = latestDecimal[d]
    BY <2>1, <2>2 DEF LatestRoundData
  <2>3. CASE ~(roundId'[d] = roundId[d] /\ latestDecimal'[d] = latestDecimal[d])
    <3>1. PICK e \in DataIds, report \in ReceivedReport :
            /\ report.timestamp > latestDecimal[e].timestamp
            /\ StoreDecimal(e, report)
      BY <2>3, DecimalStep DEF decimalVars
    <3>2. e = d
      BY <2>1, <2>3, <3>1 DEF StoreDecimal, IInv, TypeOK, AllDataIds
    <3>3. roundId'[d] = roundId[d] + 1 /\ latestDecimal'[d] = report
      BY <2>1, <3>1, <3>2 DEF StoreDecimal, IInv, TypeOK
    <3>4. report.timestamp \in Nat
      BY DEF ReceivedReport, Timestamps
    <3> QED BY <2>1, <3>1, <3>2, <3>3, <3>4 DEF LatestRoundData
  <2> QED BY <2>2, <2>3
<1> QED
  BY <1>1, SpecIInv, PTL DEF Spec, ReadsNeverGoBack

-----------------------------------------------------------------------------
(* The contract implements the append-only log.                            *)

Log == [d \in DataIds |-> [r \in 1 .. roundId[d] |-> decimalReports[d][r]]]

\* The prefix of a function is a sequence.
LEMMA PrefixIsSeq ==
  ASSUME NEW S, NEW n \in Nat, NEW g, \A r \in 1 .. n : g[r] \in S
  PROVE  /\ [r \in 1 .. n |-> g[r]] \in Seq(S)
         /\ Len([r \in 1 .. n |-> g[r]]) = n
<1> DEFINE f == [r \in 1 .. n |-> g[r]]
<1>1. f \in [1 .. n -> S] /\ DOMAIN f = 1 .. n
  OBVIOUS
<1> HIDE DEF f
<1>2. f \in Seq(S)
  BY <1>1
<1>3. Len(f) = n
  BY <1>1, <1>2
<1> QED BY <1>2, <1>3 DEF f

\* Storing a report appends it to the log of its feed and to no other.
LEMMA StoreIsPublish ==
  ASSUME IInv, NEW d \in DataIds, NEW report \in ReceivedReport,
         report.timestamp > latestDecimal[d].timestamp,
         StoreDecimal(d, report)
  PROVE  FeedLogs!Next
<1> USE CacheAssumption DEF IInv
<1> DEFINE n == roundId[d]
<1>1. /\ \A e \in DataIds : e \in AllDataIds
      /\ \A e \in DataIds : roundId[e] \in Nat /\ roundId[e] \in Rounds
  BY DEF AllDataIds, TypeOK, Rounds, Timestamps
<1>2. /\ roundId' = [roundId EXCEPT ![d] = n + 1]
      /\ decimalReports' = [decimalReports EXCEPT ![d][n + 1] = report]
      /\ roundId' \in [AllDataIds -> Rounds]
  BY <1>1, StoreDecimalRounds DEF StoreDecimal, ReceivedReport, Report
<1>3. n + 1 \in Rounds
  BY <1>1, <1>2 DEF TypeOK
<1>4. /\ \A e \in DataIds : e # d => roundId'[e] = roundId[e] /\ decimalReports'[e] = decimalReports[e]
      /\ roundId'[d] = n + 1
      /\ \A r \in 1 .. n : decimalReports'[d][r] = decimalReports[d][r]
      /\ decimalReports'[d][n + 1] = report
  BY <1>1, <1>2, <1>3 DEF TypeOK, Rounds, Timestamps
<1>5. \A e \in DataIds : Log[e] = [r \in 1 .. roundId[e] |-> decimalReports[e][r]]
  BY DEF Log
<1>6. \A e \in DataIds : Log'[e] = [r \in 1 .. roundId'[e] |-> decimalReports'[e][r]]
  BY DEF Log
<1>7. Log[d] \in Seq(Report) /\ Len(Log[d]) = n
  <2> DEFINE g == decimalReports[d]
  <2>1. n \in Nat /\ \A r \in 1 .. n : g[r] \in Report
    BY <1>1 DEF TypeOK, Rounds, Timestamps
  <2>2. Log[d] = [r \in 1 .. n |-> g[r]]
    BY <1>5
  <2> HIDE DEF n, g
  <2>3. [r \in 1 .. n |-> g[r]] \in Seq(Report) /\ Len([r \in 1 .. n |-> g[r]]) = n
    BY <2>1, PrefixIsSeq
  <2> QED BY <2>2, <2>3, Zenon
<1>8. Log'[d] = Append(Log[d], report)
  <2>1. Log'[d] = [r \in 1 .. n + 1 |-> IF r = n + 1 THEN report ELSE decimalReports[d][r]]
    BY <1>1, <1>4, <1>6, SMTT(20)
  <2>2. Append(Log[d], report)
          = [r \in 1 .. n + 1 |-> IF r = n + 1 THEN report ELSE Log[d][r]]
    BY <1>1, <1>7
  <2>3. \A r \in 1 .. n : Log[d][r] = decimalReports[d][r]
    BY <1>5
  <2> QED BY <1>1, <2>1, <2>2, <2>3
<1>9. Log' = [Log EXCEPT ![d] = Append(Log[d], report)]
  <2>1. ASSUME NEW e \in DataIds, e # d PROVE Log'[e] = Log[e]
    <3>1. roundId'[e] = roundId[e] /\ decimalReports'[e] = decimalReports[e]
      BY <1>4, <2>1
    <3> QED BY <3>1, <1>5, <1>6, ZenonT(30)
  <2>2. Log' = [e \in DataIds |-> Log'[e]] /\ Log = [e \in DataIds |-> Log[e]]
    BY DEF Log
  <2> QED BY <1>8, <2>1, <2>2
<1>10. report.timestamp > (IF Log[d] = <<>> THEN 0 ELSE Log[d][Len(Log[d])].timestamp)
  <2>1. latestDecimal[d].timestamp \in Nat /\ report.timestamp \in Nat
    BY <1>1 DEF TypeOK, Report, ReceivedReport, Timestamps
  <2>2. CASE n = 0
    BY <1>7, <2>1, <2>2
  <2>3. CASE n # 0
    <3>1. Log[d][n] = latestDecimal[d]
      <4>1. n \in 1 .. n
        BY <1>1, <2>3
      <4>2. Log[d][n] = decimalReports[d][n]
        BY <4>1, <1>5, ZenonT(30)
      <4> QED BY <4>2, <1>1 DEF RoundInv, LatestIsCurrentRound
    <3> QED BY <1>7, <2>3, <3>1
  <2> QED BY <2>2, <2>3
<1>11. report \in FeedLogs!LogReports
  BY DEF ReceivedReport, FeedLogs!LogReports, Timestamps
<1>12. FeedLogs!Publish(d, report)
  BY <1>9, <1>10 DEF FeedLogs!Publish, FeedLogs!LastTimestamp, Log
<1> QED BY <1>11, <1>12 DEF FeedLogs!Next

\* DataFeedsCache implements FeedLog under the mapping of a feed's rounds to
\* its log: configuration steps, bundle reports and rejected entries stutter.
THEOREM CacheImplementsFeedLog == Spec => ImplementsFeedLog
<1>1. Init => FeedLogs!Init
  BY DEF Init, FeedLogs!Init, AllDataIds
<1>2. IInv /\ [Next]_vars => FeedLogs!Next \/ UNCHANGED Log
  <2> SUFFICES ASSUME IInv, [Next]_vars PROVE FeedLogs!Next \/ UNCHANGED Log
    OBVIOUS
  <2>1. CASE UNCHANGED decimalVars
    BY <2>1 DEF Log, decimalVars
  <2>2. CASE ~UNCHANGED decimalVars
    BY <2>2, DecimalStep, StoreIsPublish
  <2> QED BY <2>1, <2>2
<1> QED
  BY <1>1, <1>2, SpecIInv, PTL DEF Spec, ImplementsFeedLog, FeedLogs!Spec, Log

=============================================================================
