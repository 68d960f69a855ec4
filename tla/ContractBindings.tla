-------------------------- MODULE ContractBindings ---------------------------
(***************************************************************************)
(* The generated Go bindings of the contracts: log triggers with their     *)
(* filters, the decoding of logs, log queries, view calls and the          *)
(* unpacking of revert data.                                               *)
(*                                                                         *)
(* A binding says of each event which of its fields are indexed; the rest  *)
(* of what it does with the event is the same for all of them and is       *)
(* written once.  A filter names wanted values of indexed fields.  The     *)
(* binding turns the filters into one list of values per field, so what is *)
(* wanted together is asked for separately, and a field that is left unset *)
(* puts the zero hash into its list, which the network takes as "any".     *)
(* The zero value of a field cannot be told from an unset one.             *)
(***************************************************************************)
EXTENDS Naturals, Sequences

CONSTANTS
  Zero,          \* the zero value of a field, and an unset field of a filter
  Words,         \* the other values of a field
  Bindings,      \* the contracts that handlers call, beside their trigger's
  MaxFilters,    \* bound on the filters of a trigger
  MaxBoundHeight \* bound on the height of the chain

ASSUME BindingAssumption ==
  /\ Zero \notin Words
  /\ MaxFilters \in Nat
  /\ MaxBoundHeight \in Nat \ {0}

Values == Words \union {Zero}

-----------------------------------------------------------------------------
(* The contracts.                                                          *)

\* The fields of ..Topics, which are indexed, and the other fields of ..Decoded.
Event(contract, name, topics, data) ==
  [contract |-> contract, name |-> name, topics |-> topics, data |-> data]

\* DataFeedsCache: its events, triggers, views and errors, as far as it has them.
DataFeedsCache_AnswerUpdated ==
  Event("DataFeedsCache", "AnswerUpdated", <<"current", "roundId">>, <<"updatedAt">>)
DataFeedsCache_BundleFeedConfigSet ==
  Event("DataFeedsCache", "BundleFeedConfigSet",
        <<"dataId">>, <<"decimals", "description", "workflowMetadata">>)
DataFeedsCache_BundleReportUpdated ==
  Event("DataFeedsCache", "BundleReportUpdated", <<"dataId", "timestamp">>, <<"bundle">>)
DataFeedsCache_DecimalFeedConfigSet ==
  Event("DataFeedsCache", "DecimalFeedConfigSet",
        <<"dataId">>, <<"decimals", "description", "workflowMetadata">>)
DataFeedsCache_DecimalReportUpdated ==
  Event("DataFeedsCache", "DecimalReportUpdated",
        <<"dataId", "roundId", "timestamp">>, <<"answer">>)
DataFeedsCache_FeedAdminSet ==
  Event("DataFeedsCache", "FeedAdminSet", <<"feedAdmin", "isAdmin">>, <<>>)
DataFeedsCache_FeedConfigRemoved ==
  Event("DataFeedsCache", "FeedConfigRemoved", <<"dataId">>, <<>>)
DataFeedsCache_InvalidUpdatePermission ==
  Event("DataFeedsCache", "InvalidUpdatePermission",
        <<"dataId">>, <<"sender", "workflowOwner", "workflowName">>)
DataFeedsCache_NewRound ==
  Event("DataFeedsCache", "NewRound", <<"roundId", "startedBy">>, <<"startedAt">>)
DataFeedsCache_OwnershipTransferRequested ==
  Event("DataFeedsCache", "OwnershipTransferRequested", <<"from", "to">>, <<>>)
DataFeedsCache_OwnershipTransferred ==
  Event("DataFeedsCache", "OwnershipTransferred", <<"from", "to">>, <<>>)
DataFeedsCache_ProxyDataIdRemoved ==
  Event("DataFeedsCache", "ProxyDataIdRemoved", <<"proxy", "dataId">>, <<>>)
DataFeedsCache_ProxyDataIdUpdated ==
  Event("DataFeedsCache", "ProxyDataIdUpdated", <<"proxy", "dataId">>, <<>>)
DataFeedsCache_StaleBundleReport ==
  Event("DataFeedsCache", "StaleBundleReport",
        <<"dataId">>, <<"reportTimestamp", "latestTimestamp">>)
DataFeedsCache_StaleDecimalReport ==
  Event("DataFeedsCache", "StaleDecimalReport",
        <<"dataId">>, <<"reportTimestamp", "latestTimestamp">>)
DataFeedsCache_TokenRecovered ==
  Event("DataFeedsCache", "TokenRecovered", <<"token", "to">>, <<"amount">>)
DataFeedsCache_Triggers ==
  {DataFeedsCache_AnswerUpdated, DataFeedsCache_BundleFeedConfigSet,
   DataFeedsCache_BundleReportUpdated, DataFeedsCache_DecimalFeedConfigSet,
   DataFeedsCache_DecimalReportUpdated, DataFeedsCache_FeedAdminSet,
   DataFeedsCache_FeedConfigRemoved, DataFeedsCache_InvalidUpdatePermission,
   DataFeedsCache_NewRound, DataFeedsCache_OwnershipTransferRequested,
   DataFeedsCache_OwnershipTransferred, DataFeedsCache_ProxyDataIdRemoved,
   DataFeedsCache_ProxyDataIdUpdated, DataFeedsCache_StaleBundleReport,
   DataFeedsCache_StaleDecimalReport, DataFeedsCache_TokenRecovered}
DataFeedsCache_Views ==
  {"bundleDecimals", "checkFeedPermission", "decimals", "description", "getAnswer",
   "getBundleDecimals", "getDataIdForProxy", "getDescription", "getFeedMetadata",
   "getLatestAnswer", "getLatestBundle", "getLatestBundleTimestamp", "getLatestRoundData",
   "getLatestTimestamp", "getRoundData", "getTimestamp", "isFeedAdmin", "latestAnswer",
   "latestBundle", "latestBundleTimestamp", "latestRound", "latestRoundData",
   "latestTimestamp", "owner", "typeAndVersion", "version"}
DataFeedsCache_Errors ==
  {"ArrayLengthMismatch", "EmptyConfig", "ErrorSendingNative", "FeedNotConfigured",
   "InsufficientBalance", "InvalidAddress", "InvalidDataId", "InvalidWorkflowName",
   "NoMappingForSender", "SafeERC20FailedOperation", "UnauthorizedCaller"}

\* ProtocolSmartWallet: its events, triggers, views and errors, as far as it has them.
ProtocolSmartWallet_Deposit ==
  Event("ProtocolSmartWallet", "Deposit", <<"aset">>, <<"amount">>)
ProtocolSmartWallet_KeystoneForwarderRemoved ==
  Event("ProtocolSmartWallet", "KeystoneForwarderRemoved", <<"keystoneForwarder">>, <<>>)
ProtocolSmartWallet_KeystoneForwarderSet ==
  Event("ProtocolSmartWallet", "KeystoneForwarderSet", <<"keystoneForwarder">>, <<>>)
ProtocolSmartWallet_MessageReceived ==
  Event("ProtocolSmartWallet", "MessageReceived",
        <<"messageId", "sourceChainSelector">>, <<"sender", "tokenAmount">>)
ProtocolSmartWallet_MessageSent ==
  Event("ProtocolSmartWallet", "MessageSent",
        <<"messageId", "destinationChainSelector">>, <<"receiver", "tokenAmount", "fees">>)
ProtocolSmartWallet_OwnershipTransferRequested ==
  Event("ProtocolSmartWallet", "OwnershipTransferRequested", <<"from", "to">>, <<>>)
ProtocolSmartWallet_OwnershipTransferred ==
  Event("ProtocolSmartWallet", "OwnershipTransferred", <<"from", "to">>, <<>>)
ProtocolSmartWallet_ReportReceived ==
  Event("ProtocolSmartWallet", "ReportReceived",
        <<"workflowOwner", "workflowName">>, <<"params">>)
ProtocolSmartWallet_SenderForSourceChainRemoved ==
  Event("ProtocolSmartWallet", "SenderForSourceChainRemoved",
        <<"_sourceChainSelector", "_sender">>, <<>>)
ProtocolSmartWallet_SenderForSourceChainSet ==
  Event("ProtocolSmartWallet", "SenderForSourceChainSet",
        <<"_sourceChainSelector", "_sender">>, <<>>)
ProtocolSmartWallet_Withdraw ==
  Event("ProtocolSmartWallet", "Withdraw", <<"asset", "to">>, <<"amount">>)
ProtocolSmartWallet_WorkflowOwnerRemoved ==
  Event("ProtocolSmartWallet", "WorkflowOwnerRemoved", <<"workflowOwner">>, <<>>)
ProtocolSmartWallet_WorkflowOwnerSet ==
  Event("ProtocolSmartWallet", "WorkflowOwnerSet", <<"workflowOwner">>, <<>>)
ProtocolSmartWallet_Triggers ==
  {ProtocolSmartWallet_Deposit, ProtocolSmartWallet_KeystoneForwarderRemoved,
   ProtocolSmartWallet_KeystoneForwarderSet, ProtocolSmartWallet_MessageReceived,
   ProtocolSmartWallet_MessageSent, ProtocolSmartWallet_OwnershipTransferRequested,
   ProtocolSmartWallet_OwnershipTransferred, ProtocolSmartWallet_ReportReceived,
   ProtocolSmartWallet_SenderForSourceChainRemoved,
   ProtocolSmartWallet_SenderForSourceChainSet, ProtocolSmartWallet_Withdraw,
   ProtocolSmartWallet_WorkflowOwnerRemoved, ProtocolSmartWallet_WorkflowOwnerSet}
ProtocolSmartWallet_Views ==
  {"allowedCcipSenders", "allowedKeystoneForwarders", "allowedWorkflowOwners",
   "getPoolAddress", "getRouter", "owner", "pool"}
ProtocolSmartWallet_Errors ==
  {"InsufficientFeeTokenAmount", "InsufficientTokenAmount", "InvalidKeystoneForwarder",
   "InvalidRouter", "InvalidSenderAddress", "InvalidSourceChain", "InvalidWorkflowOwner",
   "MismatchedTokenAmount", "MustBeKeystoneForwarder", "NoSenderOnSourceChain",
   "SafeERC20FailedOperation", "UnauthorizedWorkflowOwner", "WrongSenderForSourceChain",
   "ZeroAddress"}

\* MockPool: its events, triggers, views and errors, as far as it has them.
MockPool_CurrentLiquidityRateUpdated ==
  Event("MockPool", "CurrentLiquidityRateUpdated", <<"asset">>, <<"currentLiquidityRate">>)
MockPool_OwnershipTransferRequested ==
  Event("MockPool", "OwnershipTransferRequested", <<"from", "to">>, <<>>)
MockPool_OwnershipTransferred ==
  Event("MockPool", "OwnershipTransferred", <<"from", "to">>, <<>>)
MockPool_Supply ==
  Event("MockPool", "Supply",
        <<"reserve", "onBehalfOf", "referralCode">>, <<"user", "amount">>)
MockPool_Withdraw ==
  Event("MockPool", "Withdraw", <<"reserve", "user", "to">>, <<"amount">>)
MockPool_Triggers ==
  {MockPool_CurrentLiquidityRateUpdated, MockPool_OwnershipTransferRequested,
   MockPool_OwnershipTransferred, MockPool_Supply, MockPool_Withdraw}
MockPool_Views ==
  {"balanceOf", "currentLiquidityRate", "getReserveData", "owner"}
MockPool_Errors ==
  {"AmountZero", "InsufficientBalance", "NoBalance", "SafeERC20FailedOperation"}

\* PriceFeedAggregator: its events, triggers, views and errors, as far as it has them.
PriceFeedAggregator_AnswerUpdated ==
  Event("PriceFeedAggregator", "AnswerUpdated", <<"current", "roundId">>, <<"updatedAt">>)
PriceFeedAggregator_NewRound ==
  Event("PriceFeedAggregator", "NewRound", <<"roundId", "startedBy">>, <<"startedAt">>)
PriceFeedAggregator_OwnershipTransferRequested ==
  Event("PriceFeedAggregator", "OwnershipTransferRequested", <<"from", "to">>, <<>>)
PriceFeedAggregator_OwnershipTransferred ==
  Event("PriceFeedAggregator", "OwnershipTransferred", <<"from", "to">>, <<>>)
PriceFeedAggregator_Triggers ==
  {PriceFeedAggregator_AnswerUpdated, PriceFeedAggregator_NewRound,
   PriceFeedAggregator_OwnershipTransferRequested, PriceFeedAggregator_OwnershipTransferred}
PriceFeedAggregator_Views ==
  {"accessController", "aggregator", "decimals", "description", "getAnswer",
   "getRoundData", "getTimestamp", "latestAnswer", "latestRound", "latestRoundData",
   "latestTimestamp", "owner", "phaseAggregators", "phaseId", "proposedAggregator",
   "proposedGetRoundData", "proposedLatestRoundData", "version"}

\* BundleAggregatorProxy: its events, triggers, views and errors, as far as it has them.
BundleAggregatorProxy_AggregatorConfirmed ==
  Event("BundleAggregatorProxy", "AggregatorConfirmed", <<"previous", "latest">>, <<>>)
BundleAggregatorProxy_AggregatorProposed ==
  Event("BundleAggregatorProxy", "AggregatorProposed", <<"current", "proposed">>, <<>>)
BundleAggregatorProxy_OwnershipTransferRequested ==
  Event("BundleAggregatorProxy", "OwnershipTransferRequested", <<"from", "to">>, <<>>)
BundleAggregatorProxy_OwnershipTransferred ==
  Event("BundleAggregatorProxy", "OwnershipTransferred", <<"from", "to">>, <<>>)
BundleAggregatorProxy_Triggers ==
  {BundleAggregatorProxy_AggregatorConfirmed, BundleAggregatorProxy_AggregatorProposed,
   BundleAggregatorProxy_OwnershipTransferRequested,
   BundleAggregatorProxy_OwnershipTransferred}
BundleAggregatorProxy_Views ==
  {"aggregator", "bundleDecimals", "description", "latestBundle", "latestBundleTimestamp",
   "owner", "proposedAggregator", "typeAndVersion", "version"}
BundleAggregatorProxy_Errors ==
  {"AggregatorNotProposed"}

\* IERC20: its events, triggers, views and errors, as far as it has them.
IERC20_Approval ==
  Event("IERC20", "Approval", <<"owner", "spender">>, <<"value">>)
IERC20_Transfer ==
  Event("IERC20", "Transfer", <<"from", "to">>, <<"value">>)
IERC20_Triggers ==
  {IERC20_Approval, IERC20_Transfer}
IERC20_Views ==
  {"allowance", "balanceOf", "totalSupply"}

\* MessageEmitter: its events, triggers, views and errors, as far as it has them.
MessageEmitter_MessageEmitted ==
  Event("MessageEmitter", "MessageEmitted", <<"emitter", "timestamp">>, <<"message">>)
MessageEmitter_Triggers ==
  {MessageEmitter_MessageEmitted}
MessageEmitter_Views ==
  {"getLastMessage", "getMessage", "typeAndVersion"}

\* ReserveManager: its events, triggers, views and errors, as far as it has them.
ReserveManager_RequestReserveUpdate ==
  Event("ReserveManager", "RequestReserveUpdate", <<>>, <<"u">>)
ReserveManager_Triggers ==
  {ReserveManager_RequestReserveUpdate}
ReserveManager_Views ==
  {"lastTotalMinted", "lastTotalReserve"}

\* BalanceReader: its events, triggers, views and errors, as far as it has them.
BalanceReader_Views ==
  {"getNativeBalances", "typeAndVersion"}

Triggers ==
  UNION {DataFeedsCache_Triggers, ProtocolSmartWallet_Triggers, MockPool_Triggers,
         PriceFeedAggregator_Triggers, BundleAggregatorProxy_Triggers, IERC20_Triggers,
         MessageEmitter_Triggers, ReserveManager_Triggers}

\* The hash of an event is not the zero hash.
ASSUME EventAssumption == Zero \notin {e.name : e \in Triggers}

Views(contract) ==
  CASE contract = "DataFeedsCache" -> DataFeedsCache_Views
    [] contract = "ProtocolSmartWallet" -> ProtocolSmartWallet_Views
    [] contract = "MockPool" -> MockPool_Views
    [] contract = "PriceFeedAggregator" -> PriceFeedAggregator_Views
    [] contract = "BundleAggregatorProxy" -> BundleAggregatorProxy_Views
    [] contract = "IERC20" -> IERC20_Views
    [] contract = "MessageEmitter" -> MessageEmitter_Views
    [] contract = "ReserveManager" -> ReserveManager_Views
    [] contract = "BalanceReader" -> BalanceReader_Views

Errors(contract) ==
  CASE contract = "DataFeedsCache" -> DataFeedsCache_Errors
    [] contract = "ProtocolSmartWallet" -> ProtocolSmartWallet_Errors
    [] contract = "MockPool" -> MockPool_Errors
    [] contract = "BundleAggregatorProxy" -> BundleAggregatorProxy_Errors
    [] OTHER -> {}

-----------------------------------------------------------------------------
(* Topics, filters and logs.                                               *)

IndexedFields(e) == {e.topics[k] : k \in 1 .. Len(e.topics)}
DataFields(e) == {e.data[k] : k \in 1 .. Len(e.data)}
Fields(e) == IndexedFields(e) \union DataFields(e)

Filters(e) == UNION {[1 .. n -> [IndexedFields(e) -> Values]] : n \in 0 .. MaxFilters}

\* Encode..Topics leaving out the fields that are not set.
Rule_OnlySet(filters, field) == {filters[i][field] : i \in 1 .. Len(filters)} \ {Zero}

\* What the filters want of one field.
Rule(filters, field) == {filters[i][field] : i \in 1 .. Len(filters)}

\* The topics a trigger asks for: the event, then a list for each indexed field.
EncodeTopics(e, filters) ==
  <<{e.name}>> \o [k \in 1 .. Len(e.topics) |-> Rule(filters, e.topics[k])]

\* A log of the event with these values of its fields.
LogOf(e, values, block) ==
  [contract |-> e.contract, block |-> block,
   topics |-> <<e.name>> \o [k \in 1 .. Len(e.topics) |-> values[e.topics[k]]],
   data |-> [k \in 1 .. Len(e.data) |-> values[e.data[k]]]]

\* How the network matches a log: an empty list and the zero hash take anything.
TopicMatches(wanted, found) == wanted = {} \/ Zero \in wanted \/ found \in wanted
LogMatches(contract, topics, l) ==
  /\ l.contract = contract
  /\ Len(l.topics) = Len(topics)
  /\ \A k \in 1 .. Len(topics) : TopicMatches(topics[k], l.topics[k])

\* The value of the k-th indexed input: topics are read from the second one on.
TopicOf(e, l, k) == l.topics[k + 1]

\* Decode..: the indexed fields from the topics, the others from the data.
Decode(e, l) ==
  [f \in Fields(e) |->
    IF f \in IndexedFields(e)
      THEN TopicOf(e, l, CHOOSE k \in 1 .. Len(e.topics) : e.topics[k] = f)
      ELSE l.data[CHOOSE k \in 1 .. Len(e.data) : e.data[k] = f]]

-----------------------------------------------------------------------------
(* A handler that is started by a trigger.                                 *)

VARIABLES
  boundHead, boundFinal, \* the last block, and the last final one
  trigger,   \* what the workflow has registered
  emitted,   \* an event that has happened
  handled,   \* what has become of its log
  reply      \* the answer to the handler's last request

bindingVars == <<boundHead, boundFinal, trigger, emitted, handled, reply>>

NotYet == [status |-> "not yet"]
Ignored == [status |-> "ignored"]

BindingTypeOK ==
  /\ boundHead \in 1 .. MaxBoundHeight
  /\ boundFinal \in 1 .. boundHead
  /\ \/ trigger = NotYet
     \/ /\ trigger.event \in Triggers
        /\ trigger.filters \in Filters(trigger.event)
        /\ trigger.topics = EncodeTopics(trigger.event, trigger.filters)
        /\ trigger.confidence \in {"LATEST", "FINALIZED"}
  /\ \/ emitted = NotYet
     \/ /\ emitted.event \in Triggers
        /\ emitted.values \in [Fields(emitted.event) -> Values]
        /\ emitted.log.block \in 1 .. boundHead
  /\ handled \in {NotYet, Ignored} \/ handled.status = "started"
  /\ reply = NotYet \/ reply.status \in {"view", "logs", "reverted", "panic", "error"}

BindingInit ==
  /\ boundHead = 1 /\ boundFinal = 1
  /\ trigger = NotYet
  /\ emitted = NotYet
  /\ handled = NotYet
  /\ reply = NotYet

\* LogTrigger..Log.
LogTrigger(e, filters, confidence) ==
  /\ trigger' = [event |-> e, filters |-> filters, topics |-> EncodeTopics(e, filters),
                 confidence |-> confidence]
  /\ UNCHANGED <<boundHead, boundFinal, emitted, handled, reply>>

\* Events that could be mistaken for one another: those of one name, and those
\* of one contract with the same inputs.
Alike(e, f) ==
  e.name = f.name \/ (e.contract = f.contract /\ e.topics = f.topics /\ e.data = f.data)

\* A contract emits an event: that of the trigger, or one that is alike.
Emits(e, values) ==
  /\ boundHead < MaxBoundHeight
  /\ boundHead' = boundHead + 1
  /\ emitted' = [event |-> e, values |-> values, log |-> LogOf(e, values, boundHead + 1)]
  /\ UNCHANGED <<boundFinal, trigger, handled, reply>>

BoundFinalize ==
  /\ boundFinal < boundHead
  /\ boundFinal' = boundFinal + 1
  /\ UNCHANGED <<boundHead, trigger, emitted, handled, reply>>

\* The network hands on the log when its block is as settled as the trigger
\* asks for, and Adapt decodes it.
Adapt ==
  /\ emitted # NotYet /\ handled = NotYet
  /\ trigger.confidence = "FINALIZED" => emitted.log.block <= boundFinal
  /\ handled' =
       IF LogMatches(trigger.event.contract, trigger.topics, emitted.log)
         THEN [status |-> "started", values |-> Decode(trigger.event, emitted.log)]
         ELSE Ignored
  /\ UNCHANGED <<boundHead, boundFinal, trigger, emitted, reply>>

\* No block number given.
NoBlock == 0

\* No block number taken as the first block.
ViewBlock_Genesis(asked) == IF asked = NoBlock THEN 1 ELSE asked

\* The block a view call reads: with no number, the one that is final now.
ViewBlock(asked) == IF asked = NoBlock THEN boundFinal ELSE asked

\* The handler calls a view; the answer comes, or the call reverts.
Request(result) ==
  /\ reply = NotYet
  /\ reply' = result
  /\ UNCHANGED <<boundHead, boundFinal, trigger, emitted, handled>>

ViewCall(contract, asked) ==
  /\ Views(contract) # {}
  /\ Request([status |-> "view", asked |-> asked, at |-> ViewBlock(asked)])

\* UnpackError of the data of a revert: the selector names one of the
\* contract's errors, or none of them.  Data of less than four bytes, as of a
\* revert without a reason, is sliced all the same.
UnpackError(contract, selector) ==
  IF selector = "none" THEN [status |-> "panic"]
  ELSE [status |-> "reverted", known |-> selector \in Errors(contract)]

ViewReverts(contract, selector) == Request(UnpackError(contract, selector))

\* There is no header of a finalized block, or the network answers with an error.
RequestFails == Request([status |-> "error"])

\* FilterLogs..: the event's logs in a range of blocks, without regard to the
\* values of its fields.  A block hash asks for the range of that block alone;
\* which range a missing bound stands for is the network's choice.  Without
\* options the code reads from the nil pointer it is about to replace.
FilterLogs(e, from, to) ==
  Request([status |-> "logs",
           found |-> /\ emitted.log.contract = e.contract
                     /\ emitted.log.topics[1] = e.name
                     /\ emitted.log.block \in from .. to])
FilterLogsWithoutOptions == Request([status |-> "panic"])

Handle ==
  /\ handled.status = "started"
  /\ \/ \E c \in Bindings \union {trigger.event.contract} :
          \/ \E asked \in {NoBlock} \union 1 .. boundHead : ViewCall(c, asked)
          \/ \E selector \in Errors(c) \union {"none", "other"} : ViewReverts(c, selector)
     \/ \E from, to \in 1 .. MaxBoundHeight : FilterLogs(trigger.event, from, to)
     \/ FilterLogsWithoutOptions
     \/ RequestFails

BindingNext ==
  \/ /\ trigger = NotYet
     /\ \E e \in Triggers : \E filters \in Filters(e), confidence \in {"LATEST", "FINALIZED"} :
          LogTrigger(e, filters, confidence)
  \/ /\ trigger # NotYet /\ emitted = NotYet
     /\ \E e \in {f \in Triggers : Alike(f, trigger.event)} :
          \E values \in [Fields(e) -> Values] : Emits(e, values)
  \/ BoundFinalize
  \/ Adapt
  \/ Handle

BindingSpec == BindingInit /\ [][BindingNext]_bindingVars

-----------------------------------------------------------------------------
(* Properties.                                                             *)

\* The filter lets these values of an event's fields through.
Wants(filter, values) == \A f \in DOMAIN filter : filter[f] \in {Zero, values[f]}

\* A handler gets every log that one of its filters wants, whatever the other
\* filters leave unset, and no log of another event or contract.  It gets the
\* fields as they were emitted and, with one filter, only what that one wants.
\* (With several it may get fields that no single one of them wants.)
HandlersGetTheirLogs ==
  /\ handled = Ignored /\ emitted.event = trigger.event =>
       /\ Len(trigger.filters) > 0
       /\ \A i \in 1 .. Len(trigger.filters) : ~Wants(trigger.filters[i], emitted.values)
  /\ handled.status = "started" =>
       /\ emitted.event = trigger.event
       /\ handled.values = emitted.values
       /\ Len(trigger.filters) = 1 => Wants(trigger.filters[1], emitted.values)

\* A handler that waits for final logs and calls a view without a block sees at
\* least the block of its log.  (A handler started sooner may see an older one.)
FinalLogsAreVisible ==
  reply.status = "view" /\ reply.asked = NoBlock /\ trigger.confidence = "FINALIZED" =>
    reply.at >= emitted.log.block

=============================================================================
