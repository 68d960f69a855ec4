----------------------------- MODULE FeedReader -----------------------------
(***************************************************************************)
(* Reading data feeds through their proxies (read-data-feeds-go and        *)
(* read-mvr-data-feeds-go) while the chain grows, loses blocks that are    *)
(* not final, owners hand a proxy over to another aggregator, and the      *)
(* admins of an aggregator change the decimals of its feeds and the feed a *)
(* proxy is served from.                                                   *)
(*                                                                         *)
(* An execution reads its feeds one after the other, and of each feed      *)
(* first the decimals, then the answer.  Each of the two is a view call of *)
(* the generated binding with a nil block: it asks for the number of the   *)
(* finalized block and then calls the contract at that block.  So a feed   *)
(* is read in four steps, and the two calls may see different blocks.      *)
(* Executions write nothing, so one of them at a time is enough.           *)
(*                                                                         *)
(* An aggregator contract serves several feeds, each proxy from the one    *)
(* the contract has mapped it to.  An aggregator stands here for one feed  *)
(* of such a contract.                                                     *)
(***************************************************************************)
EXTENDS Naturals, Sequences

CONSTANTS
  Feeds,        \* config.Feeds: the proxies, in the configured order
  Aggregators,
  NoAggregator, \* the zero address
  FirstAggregator, \* per proxy: the aggregator it is deployed with
  BundleDecimals,  \* per aggregator: the decimals its fields start with
  DecimalsMatrix,  \* the decimals an admin may give the fields of a bundle
  MaxRound,     \* answers of an aggregator are numbered 0 .. MaxRound
  MaxHeight,    \* bound on the height of the chain
  MaxReorgs     \* bound on reorganisations

Proxies == {Feeds[i] : i \in 1 .. Len(Feeds)}

ASSUME ReaderAssumption ==
  /\ Feeds \in Seq(Proxies)
  /\ NoAggregator \notin Aggregators
  /\ FirstAggregator \in [Proxies -> Aggregators]
  /\ DecimalsMatrix \subseteq Seq(Nat)
  /\ BundleDecimals \in [Aggregators -> DecimalsMatrix]
  /\ MaxRound \in Nat /\ MaxReorgs \in Nat
  /\ MaxHeight \in Nat \ {0}

VARIABLES
  chain,     \* the contracts' state after each block
  finalized, \* the number of the last final block
  reorgs,    \* reorganisations so far (bounds the model)
  pc,        \* the step the execution is at
  header,    \* the block number the pending view call has obtained
  decimals,  \* the decimals just read, and the block they were read at
  results    \* what has been read of the feeds so far

chainVars == <<chain, finalized, reorgs>>
readerVars == <<chain, finalized, reorgs, pc, header, decimals, results>>

\* What the contracts hold: the aggregators of the proxies, and of each
\* aggregator the decimals of its fields and the number of its latest answer.
Contracts ==
  [current : [Proxies -> Aggregators \union {NoAggregator}],
   proposed : [Proxies -> Aggregators \union {NoAggregator}],
   decimals : [Aggregators -> DecimalsMatrix],
   round : [Aggregators -> 0 .. MaxRound]]

Results ==
  [decimals : Nat, decimalsAt : Nat \ {0}, answer : 0 .. MaxRound, answerAt : Nat \ {0}]

ReaderTypeOK ==
  /\ chain \in Seq(Contracts)
  /\ finalized \in 1 .. Len(chain)
  /\ reorgs \in 0 .. MaxReorgs
  /\ pc \in {"idle", "decimalsHeader", "decimals", "answerHeader", "answer"}
  /\ header \in 1 .. finalized
  /\ decimals \in [at : 1 .. finalized, value : Nat]
  /\ results \in Seq(Results)
  /\ Len(results) <= Len(Feeds)

Genesis ==
  [current |-> FirstAggregator, proposed |-> [p \in Proxies |-> NoAggregator],
   decimals |-> BundleDecimals, round |-> [a \in Aggregators |-> 0]]

ReaderInit ==
  /\ chain = <<Genesis>>
  /\ finalized = 1
  /\ reorgs = 0
  /\ pc = "idle"
  /\ header = 1
  /\ decimals = [at |-> 1, value |-> 0]
  /\ results = <<>>

Head1 == chain[Len(chain)]

-----------------------------------------------------------------------------
(* The chain.                                                              *)

Mine(state) ==
  /\ Len(chain) < MaxHeight
  /\ chain' = Append(chain, state)
  /\ UNCHANGED <<finalized, reorgs, pc, header, decimals, results>>

\* An aggregator gets its next answer.
Publish(a) ==
  /\ Head1.round[a] < MaxRound
  /\ Mine([Head1 EXCEPT !.round[a] = @ + 1])

\* proposeAggregator: any address, the zero address included.
ProposeAggregator(p, a) ==
  Mine([Head1 EXCEPT !.proposed[p] = a])

\* confirmAggregator reverts unless the address is the one proposed.  With
\* nothing proposed that is the zero address, so confirming it takes the
\* aggregator away.
ConfirmAggregator(p, a) ==
  /\ a = Head1.proposed[p]
  /\ Mine([Head1 EXCEPT !.proposed[p] = NoAggregator, !.current[p] = a])

\* setBundleFeedConfigs on a feed that is configured, or removeFeedConfigs,
\* which leaves it no decimals.  Its answers stay.
SetBundleFeedConfigs(a, fields) ==
  Mine([Head1 EXCEPT !.decimals[a] = fields])

\* updateDataIdMappingsForProxies: the aggregator contract of p serves it from
\* another of its feeds, or, mapped to the zero id, reverts from now on.
UpdateDataIdMappingsForProxies(p, a) ==
  /\ Head1.current[p] # NoAggregator
  /\ Mine([Head1 EXCEPT !.current[p] = a])

Finalize ==
  /\ finalized < Len(chain)
  /\ finalized' = finalized + 1
  /\ UNCHANGED <<chain, reorgs, pc, header, decimals, results>>

\* Blocks that are not final are replaced: they go, others are mined later.
Reorganise(height) ==
  /\ reorgs < MaxReorgs
  /\ reorgs' = reorgs + 1
  /\ chain' = SubSeq(chain, 1, height)
  /\ UNCHANGED <<finalized, pc, header, decimals, results>>

-----------------------------------------------------------------------------
(* One execution of onTick.                                                *)

Feed == Feeds[Len(results) + 1]
AggregatorAt(p, block) == chain[block].current[p]

\* The decimals a call of bundleDecimals() at that block answers with.
DecimalsAt(p, block) == chain[block].decimals[AggregatorAt(p, block)]

\* The number of decimals of an answer.  Of a bundle it is the fourth entry of
\* bundleDecimals(), 0 if there is none; a price feed has one entry only, which
\* stands here for four equal ones.
Scale(fields) == IF Len(fields) > 3 THEN fields[4] ELSE 0

\* Asking for the header of the latest block instead.
BlockOfNil_Latest == Len(chain)

\* A nil block number stands for the finalized block.
BlockOfNil == finalized

\* onTick starts.
Tick ==
  /\ pc = "idle"
  /\ pc' = IF Len(Feeds) > 0 THEN "decimalsHeader" ELSE "idle"
  /\ results' = <<>>
  /\ UNCHANGED <<chain, finalized, reorgs, header, decimals>>

\* HeaderByNumber of a view call.
HeaderByNumber ==
  /\ pc \in {"decimalsHeader", "answerHeader"}
  /\ header' = BlockOfNil
  /\ pc' = IF pc = "decimalsHeader" THEN "decimals" ELSE "answer"
  /\ UNCHANGED <<chain, finalized, reorgs, decimals, results>>

\* CallContract of decimals() or bundleDecimals() at that block, if the node has
\* it and the proxy had an aggregator.
ReadDecimals ==
  /\ pc = "decimals" /\ header <= Len(chain)
  /\ AggregatorAt(Feed, header) # NoAggregator
  /\ decimals' = [at |-> header, value |-> Scale(DecimalsAt(Feed, header))]
  /\ pc' = "answerHeader"
  /\ UNCHANGED <<chain, finalized, reorgs, header, results>>

\* Decimals kept from the first feed of the loop.
DecimalsOfFeed_FirstFeedOnly ==
  IF Len(results) = 0 THEN decimals
  ELSE [at |-> results[1].decimalsAt, value |-> results[1].decimals]

\* The decimals that scale the answer: those just read of the same feed.
DecimalsOfFeed == decimals

\* CallContract of latestAnswer() or latestBundle(), and the result of the
\* feed; after the last feed the execution ends.
ReadAnswer ==
  LET a == AggregatorAt(Feed, header) IN
  /\ pc = "answer" /\ header <= Len(chain)
  /\ a # NoAggregator
  /\ results' = Append(results,
       [decimals |-> DecimalsOfFeed.value, decimalsAt |-> DecimalsOfFeed.at,
        answer |-> chain[header].round[a], answerAt |-> header])
  /\ pc' = IF Len(results) + 1 = Len(Feeds) THEN "idle" ELSE "decimalsHeader"
  /\ UNCHANGED <<chain, finalized, reorgs, header, decimals>>

\* A header or a call fails, a proxy without an aggregator reverts, or a bundle
\* does not decode: the execution returns the error and no results.
CallErrors ==
  /\ pc # "idle"
  /\ pc' = "idle"
  /\ results' = <<>>
  /\ UNCHANGED <<chain, finalized, reorgs, header, decimals>>

OnTick ==
  \/ Tick
  \/ HeaderByNumber
  \/ ReadDecimals
  \/ ReadAnswer
  \/ CallErrors

Grow ==
  \/ \E a \in Aggregators : Publish(a)
  \/ \E p \in Proxies, a \in Aggregators \union {NoAggregator} :
       \/ ProposeAggregator(p, a) \/ ConfirmAggregator(p, a)
       \/ UpdateDataIdMappingsForProxies(p, a)
  \/ \E a \in Aggregators, fields \in DecimalsMatrix : SetBundleFeedConfigs(a, fields)
  \/ Finalize
  \/ \E height \in finalized .. Len(chain) - 1 : Reorganise(height)

ReaderNext == OnTick \/ Grow

ReaderSpec == ReaderInit /\ [][ReaderNext]_readerVars

-----------------------------------------------------------------------------
(* Properties.                                                             *)

\* Whatever blocks the chain loses while an execution is under way and after
\* it: the answers it has read are still on the chain, at the block they were
\* read at, and served by the proxy of that feed.
AnswersAreFinal ==
  \A i \in 1 .. Len(results) :
    LET block == results[i].answerAt IN
    /\ block <= Len(chain)
    /\ AggregatorAt(Feeds[i], block) # NoAggregator
    /\ results[i].answer = chain[block].round[AggregatorAt(Feeds[i], block)]

\* Proxy p has been moved to another aggregator in the blocks from .. to.
HandedOver(p, from, to) ==
  \E block \in from + 1 .. to : AggregatorAt(p, block) # AggregatorAt(p, block - 1)

\* The decimals of an aggregator have been changed in these blocks.
Reconfigured(a, from, to) ==
  \E block \in from + 1 .. to : chain[block].decimals[a] # chain[block - 1].decimals[a]

\* An answer is scaled with the decimals its own proxy served at the block of
\* the answer, unless between the blocks of the two calls the proxy was handed
\* over or its aggregator given other decimals; the answer is never older than
\* the decimals.
ScaledByItsAggregator ==
  \A i \in 1 .. Len(results) :
    LET r == results[i] IN
    /\ r.decimalsAt <= r.answerAt
    /\ \/ HandedOver(Feeds[i], r.decimalsAt, r.answerAt)
       \/ Reconfigured(AggregatorAt(Feeds[i], r.answerAt), r.decimalsAt, r.answerAt)
       \/ r.decimals = Scale(DecimalsAt(Feeds[i], r.answerAt))

=============================================================================
