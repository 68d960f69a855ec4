# CRE templates in TLA+

TLA+ specifications of the programs in the `cre-templates` repository: smart
contracts and the CRE (Chainlink Runtime Environment) workflows that drive
them. The modules are translated from the Solidity, Go and TypeScript sources
under `src/`; TLC checks them on small instances, and TLAPS proves the results
for every instance. `PROJECT.json` maps each definition to the source
lines it stands for and lists the runs, the hazards, the findings and the
theorems.

## The system

The repository holds independent templates of one shape: a *workflow* is
started by a trigger (cron, HTTP, a log), reads chains and HTTP services, and
writes a *report*, which a Keystone forwarder delivers to a contract's
`onReport`. The contract keeps the state; a workflow keeps none between
executions. What makes this hard is common to all of them:

- executions of one workflow may overlap (nothing in the code excludes it);
- a read is older than the write that relies on it, and owners, holders and
  other executions act in between;
- a write may fail, and a write whose answer is lost may still land;
- the forwarder's transaction succeeds although the receiver reverted;
- a loop over chains stops at the first failure, with the earlier chains done.

### Inventory

| component | state | operations | what is hard | correct when |
|---|---|---|---|---|
| `DataFeedsCache` contract (bring-your-own-data) | feed configs, write permissions, latest reports, round history, proxy mappings | configure and remove feeds, map proxies, `onReport` | permissions kept in two stores; reports out of order; reconfiguration while reports arrive | only listed workflows write; readers never see time go back; the views agree |
| aggregator proxies (`DecimalAggregatorProxy`, the bundle and price feed proxies) | current and proposed aggregator | propose, confirm, views | handover in two steps, while readers are half way through a feed | readers are moved only to what was proposed |
| PoR and NAV workflows (bring-your-own-data, Go and TS) | none | fetch a value, write it to the cache of every chain | overlap, abort after some chains, late writes, equal time stamps | a finished execution left every chain fresh |
| `ProtocolSmartWallet`, `MockPool` (multi-chain-token-manager) | pool position, LINK, allowed forwarders, owners and senders | rebalance by report or by anybody, to any receiver; CCIP receive; owner functions | tokens in flight, failed deliveries, settings changed meanwhile, strangers who rebalance | no token lost; every message to a wallet can be deposited by it |
| token manager workflow (Go and TS) | none | read rates, pick the best chain, move the other positions | stale reads, overlap, partial failure, reverted receivers | only worthwhile moves; reports what moved; funds end at the best pool |
| stablecoin contracts and ACE policies | balances, roles, blacklist, staged tokens, LINK | mint, redeem and transfer, by report or by anybody; policies; roles; burning | different policies on two steps, none on the public functions; staged tokens have no owner | supply is accounted for; the blacklist holds for the bank's mints |
| stablecoin issuance workflow | none | compare reserves, mint, transfer | failure between mint and transfer, repeated bank messages, late mints | an answered refusal is final; every message is answered |
| stablecoin workflows of phases 1 and 2 | none | one report per request | as above | as above |
| tokenized asset platform, log-trigger workflow, lambda | assets, ERC-1155 balances, system-of-record rows | register, verify, mint, redeem; events mirrored to a database; UID written back | duplicated and reordered events, get-then-put updates, reads of older rows | the mirror agrees with the chain |
| KV store workflow | one S3 object | read, increment, write, on every node | overlapping increments, late puts, nodes that mistake an error for a missing object | no increment counted twice; exact when executions follow one another |
| custom data feed, message half | messages per emitter and time | emit, `getMessage`, `getLastMessage`; log trigger | blocks lost after they started an execution; the fixed first chain | the contract's answer is the message of the log |
| custom data feed, reserve half | last totals of `ReserveManager` | fetch, read supplies in parallel, report | tokens that move during the reads; reports out of order; reports of anybody | the workflow's own reports go back only after overlap; exact when nothing moves |
| Aave lending | wallet's and receiver's balances, approvals, debt | supply, withdraw, borrow, repay by report | a repayment asked for before, and paid after, the debt changed | nothing stays in the receiver |
| read-data-feeds (price and MVR feeds) | none | decimals, then answer, per feed | two view calls at two blocks; reorganisations; handovers, new decimals or mappings in between | answers are final and scaled by their own aggregator |
| indexer block trigger | matches of one execution | webhook with the logs of a block | repeated transactions, spellings of addresses | each match once, in order |
| generated Go bindings | none | filters, log triggers, decoding, log queries, views, error unpacking | the zero value as wildcard; filters as a product of fields; the finalized block as default | a handler gets the logs its filters want |
| Uniswap and LI.FI receivers; Ostium; indexer data fetch | none | one action, request or query per report or trigger | slippage and deadline of a third party | all or nothing |

ABIs, mocks of bindings, deployment scripts and frontends are not components;
the two scripts that decide which policy guards which contract and how wallets
are wired are read for the initial states.

## Modules

| module | models | extends |
|---|---|---|
| `FeedLog` | abstract: a feed is an append-only log with increasing time stamps | - |
| `DataFeedsCache` | the contract; refines `FeedLog` | - |
| `DataFeedsCacheProofs` | its theorems | `DataFeedsCache` |
| `FeedPublisher` | executions of the PoR and NAV workflows over one `FeedLog` per chain | - |
| `FeedPublisherProofs` | its theorems | `FeedPublisher` |
| `ProtocolSmartWallet` | wallets, pools and CCIP between them | - |
| `TokenManager` | executions of the workflow over the wallets | `ProtocolSmartWallet` |
| `TokenManagerProofs` | theorems of wallets and manager | `TokenManager`, `Sums` |
| `Stablecoin` | token, consumers, policies, bridge | - |
| `StablecoinIssuance` | executions of the issuance workflow over them | `Stablecoin` |
| `StablecoinProofs` | their theorems | `StablecoinIssuance`, `Sums` |
| `AssetPlatform` | the ERC-1155 contract of tokenized assets | - |
| `AssetServicing` | its mirror: log-trigger workflow, lambda, database; uids on their way back | `AssetPlatform` |
| `AssetServicingProofs` | theorems of platform and mirror | `AssetServicing`, `Sums` |
| `FeedReader` | one execution of the read-data-feeds workflows, the proxies and the chain below them | - |
| `MessageFeed` | message emitters on several chains and the log-trigger half of the custom data feed | - |
| `ReserveFeed` | its cron half and `ReserveManager` | - |
| `FeedProofs` | theorems of readers and reserves | `FeedReader`, `ReserveFeed`, `Sums` |
| `KvStore` | the counter in the bucket | - |
| `BlockTrigger` | the block webhook | - |
| `AaveLending` | the receiver, the workflow and the wallet | - |
| `ContractBindings` | the generated bindings: which events, views and errors each has, and what they do with them | - |
| `MCTemplates` | seven of these side by side: `FeedReader`, `MessageFeed`, `ReserveFeed`, `KvStore`, `BlockTrigger`, `AaveLending`, `ContractBindings` | all of them |
| `TemplateProofs` | theorems of `MessageFeed`, `KvStore`, `BlockTrigger`, `AaveLending`, `ContractBindings` and of `MCTemplates` | `MCTemplates`, `FeedProofs` |
| `Sums` | what proofs need to know of sums over finite sets | - |
| other `MC*` | instances for TLC | the module in the name |

### DataFeedsCache

The variables are the contract's mappings (`writePermissions` is
`s_writePermissions`, `workflowMetadata` is `s_feedConfigs[..].workflowMetadata`
and so on); each external function is an action whose guard is the conjunction
of its revert conditions. `onReport` loops over the entries of a report, so its
iterations are actions between `BeginReport` and `EndReport`, during which no
other action is enabled: the length of a report is unbounded. No iteration
reverts, so every intermediate state is also the end of a shorter report.
A report hash is the pair (feed, workflow): keccak256 is taken to be injective.
`recoverTokens` moves tokens sent to the contract by mistake and is left out.
The refinement maps each feed to the sequence of its rounds; configuration,
permissions, mappings and stale entries become stuttering.

### FeedPublisher

`FeedPublisher` has the executions of `doPOR` and `doNAV`: `Fetch`, then for
each chain of `config.EVMs` a stamped report (`Write`), its transaction
(`ExecuteReport`, or `LoseReport`) and the answer (`Response`); `Complete` after
the last chain, `CallFails` for any error return. A cache appears as what
`DataFeedsCache` is shown to implement, one log per chain, plus the permission
of the workflow; both are the same entry step of `onReport`, for a decimal
(NAV) or a bundle (PoR). `version` numbers the values of the source in the order
it publishes them, so that a reader going back is visible; `stamps`, `skipped`
and `overlapped` only record what the properties speak about. An entry that is
skipped does not revert, so every executed report is a success for the workflow
and its check of the receiver's status, which `workflow-ts` leaves out, makes no
difference here.

A finished execution may have written nothing to a chain: its report was not
permitted, or another one of that second was there already. It is then still at
least as fresh as its stamp, never as its value: with overlapping executions the
later stamp can carry the earlier value, which is why
`NoRegressionWithoutOverlap` has its premise. The code does not exclude overlap.

### ProtocolSmartWallet and TokenManager

`ProtocolSmartWallet` has one wallet per chain, the pools it may hold a
position in, and the CCIP messages in flight. A message whose receiver reverts
keeps its tokens and can be executed again. Reports are accepted or not by
`ReportAccepted`; an accepted report is one transaction, from the withdrawal to
the sent message. The function behind it, `withdrawFromPoolAndDepositCrossChain`,
is public: `CallRebalance` is anybody calling it, with any amount, destination
and receiver. A receiver is the zero address (the call reverts), the wallet of
the destination, or another address, which then has the tokens
(`DeliverElsewhere`), so `MessagesAreDeliverable` speaks of messages to wallets and
`RebalancingLeavesNoIdleTokens` says who else may have got what. There is one
asset. `MaxUint` stands for `type(uint256).max`.

`TokenManager` adds the executions of `doHighestSupplyAPY`: read a rate
(`ReadRate`, one chain per step), `Visit` a chain (read its balance, decide,
write), the receiver's transaction (`ExecuteReport`), its answer (`Response`), the
final log line (`Complete`). `CallFails` is any error return; after it a pending
transaction may still land. Report receivers are the configured wallets, and the
destination is the wallet of the best chain; strangers who rebalance (`Outsider`)
are among the environment's operations, as owners are. In `workflow-go` a missing
`ReceiverContractExecutionStatus` counts as success; the model has it always
present. Each chain is configured once (`ManagerAssumption`). `ChecksReceiver` is
TRUE for `workflow-go` and FALSE for `workflow-ts`, which differ in this only. APY
figures appear in log lines only and are left out.

### Stablecoin and StablecoinIssuance

`Stablecoin` has the source chain's token and roles, the policy engine as
`ConfigureACEWithConstants.s.sol` leaves it (blacklist on the minting consumer,
volume on the transfer consumer), the tokens staged in the transfer consumer,
the CCIP messages and the balances on the destination chain. The consumers do
not compare their caller, and the public `processMintReport` and
`processCCIPReport` do what `onReport` does without asking the policies:
`CallConsumers` is anybody calling them. So supply changes in more ways than the
bank's. A holder may `Burn` its own tokens, on either chain, and owners may grant
the roles to any address (`Parties`), which then mints or burns (`MintByOther`,
`MintRemote`); `others` counts these, `issued` what the minting consumer minted less
what it redeemed. `SupplyIsIssued` relates the two to the balances on both chains and
to what is between them. The blacklist is a property of the workflow's reports
(`MintsObeyBlacklist`, in `StablecoinIssuance`), since through the public function
the contract mints for anybody. Ownership changes, other bridges' messages, and the
consumers without ACE are left out; senders of `processCCIPReport` are taken to
have given the consumer an allowance.

`StablecoinIssuance` adds executions of `onHTTPTrigger`. A bank message is not
remembered, so `Trigger` may repeat one. The receiver of a write may refuse (by
policy) or revert; the workflow sees an error message for the former only if
the forwarder reports one, which is a nondeterministic choice. A refusal may also
come as a transaction without success ("rejected"), which the workflow answers
as `ACE_POLICY_REJECTED` or, in the transfer step, `ACE_POLICY_REJECTED_CCIP`; any
other failed transaction is `MINT_FAILED` or `CCIP_FAILED`. Amounts are units
of the volume policy: the floating-point scaling of `amount` is not modelled.

### AssetPlatform and AssetServicing

`AssetPlatform` has the contract's functions, one transaction each, and the list
`events` of its key events. The receiver's checks (forwarder, author, name, id)
are one flag, `accepting`; assets are registered with an empty uid. In
`AssetServicing` every event is posted by each node (`PostData`), which a stored
response of an equal request may answer; otherwise the lambda runs, as `GetItem`
and `PutItem` on the asset's row. `RequestFails` and the second disjunct of
`PutItem` lose the request and its response. A row keeps the columns the
properties speak about, and the node that made its uid stands for the random
value. The lambda's read does not ask for consistency, so `GetItem` may return any row
that a put has replaced (`older`); that is a fault within the environment's budget. `SendNotification` and `ExecuteReport` bring the uid to the chain through
the HTTP-trigger workflow, which does not look at the outcome. `raced` only
records for which assets two invocations were under way together, or one of them
read an older row.

The database does not equal the chain, and nothing is claimed about it: events
with the same body within 60 seconds are one request, an event that precedes the
registration is refused, two nodes may both miss the cache. What holds is that
the rows never count an update twice, that they count every update put as long
as invocations for the asset do not overlap and read the row of now, and that the
uid stays, whatever they read.

### FeedReader

`chain` is the contracts' state after each block; `Mine` appends one, `Finalize`
moves the finalized block, `Reorganise` drops blocks that are not final. A view
call of a binding with a nil block is two steps, `HeaderByNumber` and the call at
the number it gave. So a feed takes four steps and its decimals and its answer
may come from two blocks. Between them a proxy may have been handed over, an
aggregator given other decimals (`SetBundleFeedConfigs`, which is
`setBundleFeedConfigs` of the repository's own aggregator) or served from another
feed (`UpdateDataIdMappingsForProxies`); an answer is scaled by its own aggregator
unless one of these happened (`ScaledByItsAggregator`). `BundleDecimals` has the
decimals at the start; the workflow scales with the fourth entry, or not at all
if there is none. A proxy without aggregator makes
the call fail, and an execution ends with the first error. A price feed is a
bundle with equal entries. Executions write nothing, so one at a time suffices.

### MessageFeed and ReserveFeed

`MessageFeed` keeps a list of blocks per chain, the last one open. Only sealed
blocks start an execution (`TriggerFires`); they can still be lost, since the
trigger's confidence is LATEST. `ReadContract` reads the emitter's last message at
the number of the log's block on the *first* configured chain, as the workflow
does. `kept` records that the log's block is still there. What the workflow
returns for a log of another chain is another emitter's history, about which
nothing is claimed.

`ReserveFeed` overlaps executions of `doPOR`: fetch the reserve, read each chain's
supply at its finalized block, write. Tokens on their way between chains are
`OnTheirWay`. `ReserveManager.onReport` compares no sender, so anybody may write what
it likes (`ReportByOther`) and nothing is claimed about the manager's value as such:
`OwnReportsGoBackOnlyLate` compares a report of the workflow with its last one
(`ownReserve`). `late` and `still` only record the premises of the properties: that
executions have overlapped or a write was given up, and that nothing moved.

### KvStore

`KvNodes` read the object one by one; when `KvQuorum` of them have, the median is
incremented (`Increment`) and every node puts the result; when enough puts agree,
the execution ends, and the puts still under way become `straying`: they may land
at any later time. `ReadMistaken` is `isNotFound` finding "404" or "not found" in
some other error. Signing, headers and secrets end in a request that fails.

### BlockTrigger

The loop over the logs of one webhook; `processedHashes` and the store of matches
are the handler's maps. An address is compared in lower case, and a transaction
that creates a contract has none.

### AaveLending

One asset, one wallet that is also the account, an external pool. `ExecuteLending`
is `onReport`: an accepted operation happens as a whole (`LendingAccepted` gathers
the reverts of receiver, token and pool), any other changes nothing; the
workflow sees success in both cases. `debt` grows by `Accrue`. `careless` records
that a repayment was asked for that need not fit: above the debt, or while
another was under way. The pool has no liquidations, and its balances are whole
tokens at a rate of one.

### ContractBindings

Of nine bindings the module lists every event with its indexed and plain fields,
the triggers, the views and the errors `UnpackError` knows, each from the
generated file. An event is the record of its topics (`..Topics`) and of the other
fields (`..Decoded`), and no event's hash is the zero hash (`EventAssumption`).
What the generated code does with them is the same for all of them and is written
once: `EncodeTopics` and the trigger's registration (several filters become a list
of values per field, and an unset field wants anything), `Decode`, `FilterLogs`,
view calls with and without a block (which fail without a finalized header, as
`RequestFails` does), `UnpackError`. Log queries are by range; a `BlockHash` in
their options would replace the range and is left out. The network that matches logs
is external (`LogMatches`). Calldata and report encodings, and the mocks, which
are tables of callbacks, are left out.

## Runs

Every bound is a constant of the `.cfg`; `EnvOp` bounds the number of changes
and faults the environment makes, never the system's own steps.

| run | instance | shows |
|---|---|---|
| `cache` | 2 feeds, 2 workflows, times 0..2 | permissions follow configs; no reader goes back; only listed workflows write; refines `FeedLog` |
| `cache_removal` | 1 feed | violation: `removeFeedConfigs` keeps the reports that its comment says it removes |
| `publisher` | 2 chains, 2 executions, times and versions 1..2, 1 environment operation | success means fresh; values go back under overlap only; caches are logs; every execution ends |
| `wallet` | 2 wallets, 2 tokens, 2 pools, 1 LINK each | any owner, report, stranger and delivery order: tokens conserved, messages deliverable, nothing left idle |
| `manager` | 3 chains, 2 overlapping executions, 1 token, 1 environment operation | writes respect the threshold as read; reported amounts were moved; a completed execution reports exactly what it moved; the funds reach the best pool and stay |
| `manager_ts` | 2 chains, 2 tokens, 2 environment operations, `ChecksReceiver` FALSE | violation: `workflow-ts` reports a move the wallet reverted |
| `stablecoin` | 2 executions, 2 amounts, 2 reserves, 2 messages | supply on both chains is what the bank issued and others minted or burned; refusals final; the workflow's mints obey the blacklist at execution time; every message answered |
| `stablecoin_backing` | 2 messages, 1 reserve | violation: the supply exceeds the reserve |
| `stablecoin_blacklist` | 1 blacklisting | violation: a transfer reaches a blacklisted beneficiary |
| `assets` | 2 nodes, 1 asset, 2 accounts, 4 events, 1 environment operation | redeemable totals; no update counted twice; exact without overlap and older reads; the uid stays |
| `templates` | the seven modules of `MCTemplates` side by side; sizes below | types; answers final and scaled by their aggregator; the log's message; supplies exact when still; handlers get their logs and see them; the counter; each match once; nothing stays in the receiver; the workflow's reserve goes back only late |
| `message_lookup` | 2 chains, 1 emitter, 2 messages | violation: `getMessage` reverts for every message that exists |

`templates` is one run for seven modules: a variable, set at the start, picks the
module that takes all the steps, so its state space is the sum of theirs. They
share no state and no constant of one bounds another. It checks
`TemplateTypeOK`, the type invariant of the module picked. `TemplateProofs` shows
(`TemplatesKeepTheirSpecs`) that an execution of the seven together is one of each
module by itself.

Why these bounds are enough for the cases that matter. Two feeds, workflows and
wallets let one be treated unlike the other; admins and proxies are independent
keys, one suffices. Times 0..2 give a stale, an equal and a newer report and two
rounds in sequence. Two tokens allow two messages in flight and a `setPool`
between them; one LINK lets a wallet run out. Rates 0..2 with two units per basis
point give ties, differences below the threshold and at it. Two executions are the
smallest overlap; one environment operation is a rate change, a lost write or a
setting between read and write, and in `manager_ts` two let a write be given up
and something change before it lands. Amount 1 is below the volume policy's
minimum, amount 2 within it; a reserve of 1 covers the former only. Three chains
in `manager` give ties for the best rate, before and after the chain that holds
the tokens; with its one token an execution has one write at a time, which another
execution or its own late one can overtake, while several writes in one execution
are what the proofs of the safety properties are for. In `publisher` two seconds
give equal and later stamps, two versions an older and a newer value. In `assets`
four events are a registration, a verification and two changes of the count; an
event emitted while an earlier one is still posted is an environment operation
too, so the run has overlapping executions, one fault or one read of an older row,
besides the two nodes of every execution.

In `templates`: two feeds with different decimals, two aggregators, four blocks
and one reorganisation let a proxy be handed over, or its decimals be changed,
between the reads of a feed and a block be lost after it; of the three lists of
decimals two differ in the entry that is used and one has no such entry. Two chains, two times and three blocks give two blocks
with the same time stamp and a block lost under an execution; two messages tell
the right from the wrong one. One token on its way between two chains is missed
or counted twice; two executions and one fault make a report late, or put a
stranger's in between. A field of a
filter is zero or one other value, two filters are the smallest product, and a
filter with every field of an event occurs for all events of all bindings. Three
nodes with a quorum of two are the smallest network with a node too many: one
that is mistaken, or late; two executions overlap. Three transactions, one in
each spelling of the watched address and one without address, in up to four logs.
In lending, amounts to 2 over holdings of 2 give repayments below, at and above
the debt, and two reports under way let them cross.

Deadlock is checked except in the
stablecoin runs, `assets`, `templates` and `message_lookup`, where bank messages,
events, heights and operations are bounded and the system rests after the last one.

Fairness. `TokenManager` assumes that cron keeps firing, that an execution that
can take a step takes one, that a submitted transaction lands unless the
environment loses it, and that CCIP executes each message once. A message whose
receiver reverted waits for a person, so its second execution is not fair, and
neither are rate changes, owners or faults. `StablecoinIssuance` assumes that an
execution keeps going and its transactions land or are lost; `FeedPublisher` the
same, and no tick, publication or start of an execution is fair. All of it is weak
fairness. `FundsReachBestPool` is conditional: no wallet out of LINK and the
owners' settings as deployed (`InService`).

## Proofs

`DataFeedsCacheProofs`, for all sets of feeds, workflows, proxies and values and
every `MaxTimestamp`. The inductive invariant is
`IInv == TypeOK /\ ConfigInv /\ RoundInv`. `TypeOK` alone is not inductive:
`roundId + 1` is a round only because a feed has no more rounds than its latest
time stamp (`RoundIdFits`), which in turn needs `RoundsIncrease` and that the
latest report is the one of the current round (`LatestIsCurrentRound`, stated by
a comment of the contract and not by any run). Entries of a report preserve
`RoundInv` (`StoreDecimalRounds`), configurations preserve `ConfigInv`
(`ConfigureIInv`), each leaves the other alone. From `IInv` follow the
invariants, the two action properties (`WritesAreAuthorised`,
`ReadsAreMonotonic`) and the refinement: `StoreIsPublish` shows that storing a
decimal report appends to the mapped log, everything else stutters.

`Sums` is what the conservation theorems rest on. `SumFunction` and
`SumFunctionOnSet` are recursive functions on subsets, and the library's induction
takes an operator, so induction is first-order here: a family of subsets of a
finite set has a smallest member (`SmallestSubset`), which cannot be wrong when
none below it is. From it follow that the sum does not depend on the order in
which the indices are taken, that it changes by what one or two places change, and
that a sum of natural numbers is at least each of them. Each module then has a few
lemmas of one kind: a transaction moves this amount from there to here, and the
total stays.

`StablecoinProofs`, for any number of executions and amounts and any finite set of
accounts. The ledger's invariant is `LedgerType /\ RulesType /\ SupplyIsIssued`: no
balance, staged token or message is negative, and together they are `issued` and
`others`, through mints, redemptions, transfers that stage tokens and fail, burns
and deliveries, by report and by anybody. An answered refusal is final because of
`Progress`: in the mint step nothing has been sent and what has been minted shows
in the answer, so an execution answers a refusal only when its write has been
settled without a mint. The blacklist theorem splits the steps by whether an
execution's mint report is marked as executed: only the step that executes it does
so, and it credits the account the policy saw with exactly the amount.

`FeedPublisherProofs`, for any number of chains and executions, any order of
chains and any bounds. `PublisherInv` adds to the properties `AllCount` (what an
execution has counted is in the caches or was not permitted) and `InOrder`.
`InOrder` is the reason why values do not go back without overlap: of two reports
that are in a cache or still on their way, the earlier stamp does not carry the
later value. It speaks of reports on their way because an abandoned write may
land at any time, and it is preserved because an execution under way has fetched
a value at least as new as anything known (`PastOnly`). The caches implement
`FeedLog` because only `ExecuteReport` changes a log (`Landing`).

`TokenManagerProofs`, for any finite sets of chains and pools, any tokens and any
number of overlapping executions. The wallets' invariant is the type invariant
with `MessagesAnnounced`: what a message says is settled when it is made, so it
speaks of messages alone; that it is made correctly needs the types, because a
pool is asked for everything with `MaxUint`. That balances are natural numbers
means nothing is ever overdrawn. `TokensConserved` follows because every
transaction has one of two forms: it moves tokens between two places of one chain
(`MovesTokens`), or between a chain and a message in flight (`MovesMessage`). The
action property `RebalancingLeavesNoIdleTokens` follows from conservation before
and after a step that leaves the wallets' own tokens alone and gives nobody else
more than a message to another receiver carried.
`SlotsSuffice` says that the model's places for messages in flight never run out,
so that no step is lost for want of one.

`ManagerInv` adds to the wallets' invariant four facts about each execution by
itself: `ScanSoFar` (which rates it has read), `BestOfAll` (the best of those is
the first maximum), `WriteInOrder` (its pending write is one its own reads
justify, from the chain it visits) and `CountedSoFar` (what it has counted,
against what was moved). The last needs that each chain is configured once:
otherwise the execution comes by the same chain again. Both theorems about
reports assume `ChecksReceiver`; without it `manager_ts` refutes the first.
Conservation and deliverability hold again with executions writing the reports
(`ManagedTokensConserved`, `ManagedMessagesDeliverable`).

`AssetServicingProofs`, for any finite sets of nodes and accounts. On the
platform, `SupplyTracksBalances` needs that nobody holds what was never minted
(`UnmintedIsNotHeld`) and that an asset is registered once (`RegisteredOnce`). The
mirror's invariant follows an update on its way: posts are of events that happened
(`PostsFollowEvents`), what an invocation has read is a row that was there
(`ReadsAreRows`) and claims no more than what has been put (`ReadsClaimPosted`);
the invocation's own event has not been. That is enough for
`NoUpdateCountedTwice`, because a put adds one event to what was read, however
stale that is, and the rows a put has replaced are such rows as well. Exactness needs
more: for an asset that is not in `raced` there is one invocation at a time
(`OneAtATime`) and its read is the row of now (`FreshReads`).

`FeedProofs`. For `FeedReader` it is not enough to know the types: results speak
of blocks long past. `ResultsRead` says what each result has from two blocks that
are final, and final blocks stay (`FinalBlocksStay`). That two blocks without a
handover between them have the same aggregator, and without a change of its
decimals the same decimals, is an induction over heights; it is kept as a part of
the invariant (`NoHandoverSame`), so that the chain carries out the induction as it
grows. For `ReserveFeed`, without overlap what has been fetched and what is on its
way is no older than the workflow's last report (`InOrder`, `NoneNewer`). For any finite set of chains, `SupplyInv` says that an
execution during which nothing moved has the supplies of now on the chains it has
read (`ReadsWhileStill`); its total is then the sum of all of them.

`TemplateProofs`, module by module:

- `KvStore`. A value goes from the object through readings, the median, `newValue`,
  puts and straying puts back into the object; on each stretch it is at most
  `increments`, and that is the whole invariant of `CounterNeverRunsAhead`. For
  `SeriesAreExact`, `SeriesInv` adds what holds while executions follow one
  another: readings come with the object's value but for the mistaken one, the
  puts of an execution agree, and nothing is left over. The theorem assumes
  `KvQuorum > 1`: of a quorum of one the mistaken reading would be the median, and
  the network's quorum is more than its number of faulty nodes.
- `BlockTrigger`. `TriggerInv` states what the loop has seen, by the first log of
  each transaction (`FirstLogsKnown`), because the order of matches is the order
  of first logs (`InOrderOfFirstLogs`).
- `MessageFeed`. A message that is stored under a block's time forbids another one
  in that block (`BlocksConfirm`), so the last message at the block's number is
  the one of the log, however many blocks were lost and mined again.
- `ContractBindings`. `Registered`, `LoggedAsEmitted`, `HandledByMatch` and
  `HandledWhenSettled` follow a log from its emission to its handler. The proof
  that the topics of a registration match what a filter wants is made for an
  arbitrary event; that contract and name determine an event is checked contract
  by contract.
- `AaveLending`. While nobody was careless, the repayment under way is the only
  one and fits the debt (`RepaymentFits`). It stays so because debts shrink only
  by repayments.
- `MCTemplates`. By `TemplatesKeepTheirSpecs`, the type invariants of the modules
  are one of their composition (`TemplateTypesHold`).

Every invariant and every action property that a passing run checks is stated by
a theorem. Model-checked only are the three liveness properties
(`FundsReachBestPool`, `TriggersAreAnswered`, `ExecutionsEnd`), whose fairness
speaks of ENABLED, which the provers do not handle. The runs that expect a
violation are counterexamples: what they refute is not proved of anything.

Assumptions: the named ASSUMEs on the constants, among them that chains, pools,
accounts, amounts and nodes are finite sets, and the hypotheses in the statements of
three theorems: `ChecksReceiver` (twice) and `KvQuorum > 1`.

## Plan

Done, in order of weight: the feeds cache, which the bring-your-own-data
workflows and all their readers depend on, and the workflows that publish
to it; wallets and token manager; stablecoin; tokenized assets and their mirror;
readers, custom data feed, counter, block webhook, lending and bindings; then the
proofs: first of what speaks of single records, then of the sums.

Left, each worth less than what is there:

1. The first two stablecoin phases as one more configuration of `Stablecoin`,
   with consumers that ask no policy engine.
2. `recoverTokens` of the cache, `onBehalfOf` in lending, approvals and batch
   transfers of the tokenized assets.

## Not modelled

- Stablecoin workflows of the first two phases: one report per request, the two
  halves of `StablecoinIssuance` without the policies; nothing is under way
  between two steps that the issuance does not have, too.
- Uniswap and LI.FI swaps: the receiver's transaction is a call of a third
  party's router between two checks, and it keeps nothing; the workflow around it
  is that of `AaveLending`.
- Ostium: one request to a third party's service per trigger.
- Indexer data fetch: one stateless query and one log line.
- Calldata, report encodings and mocks in the bindings; parsing of JSON, floating
  point scaling of amounts, log texts.
