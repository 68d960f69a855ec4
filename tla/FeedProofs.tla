----------------------------- MODULE FeedProofs ------------------------------
(***************************************************************************)
(* Two components that read chains at their finalized blocks.              *)
(*                                                                         *)
(* FeedReader: for all feeds, aggregators and heights, what an execution   *)
(* has read stays on the chain, and an answer is scaled with the decimals  *)
(* of its aggregator unless the proxy was handed over or the decimals were *)
(* changed in between.  Two blocks without such a change between them      *)
(* agree; that is an induction over the blocks, and the chain does it:     *)
(* each block it is extended by carries the fact from its parent.          *)
(*                                                                         *)
(* ReserveFeed: for all chains and executions, the workflow's own reports  *)
(* take the reserve back only after executions have overlapped or a write  *)
(* was given up, whatever others write in between, and                     *)
(* a supply that is still throughout the reads is reported exactly.  Reads *)
(* of different chains never form one state, so the invariant speaks only  *)
(* of executions that have seen no supply move: each of their reads is the *)
(* supply of now.                                                          *)
(***************************************************************************)
EXTENDS FeedReader, ReserveFeed, Sums

LEMMA ReaderConstants ==
  /\ Feeds \in Seq(Proxies) /\ Len(Feeds) \in Nat
  /\ NoAggregator \notin Aggregators
  /\ FirstAggregator \in [Proxies -> Aggregators]
  /\ BundleDecimals \in [Aggregators -> DecimalsMatrix]
  /\ MaxRound \in Nat /\ MaxReorgs \in Nat
BY ReaderAssumption DEF ReaderAssumption

LEMMA FeedsLength == Len(Feeds) \in Nat
BY ReaderConstants

LEMMA FeedIsProxy == \A i \in 1 .. Len(Feeds) : Feeds[i] \in Proxies
BY DEF Proxies

LEMMA ScaleIsNat == ASSUME NEW fields \in DecimalsMatrix PROVE Scale(fields) \in Nat
<1>1. fields \in Seq(Nat)
  BY ReaderAssumption DEF ReaderAssumption
<1> QED
  BY <1>1 DEF Scale

-----------------------------------------------------------------------------
(* The reader's invariant.                                                 *)

ChainType ==
  /\ chain \in Seq(Contracts)
  /\ finalized \in 1 .. Len(chain)
  /\ reorgs \in 0 .. MaxReorgs

CallsType ==
  /\ pc \in {"idle", "decimalsHeader", "decimals", "answerHeader", "answer"}
  /\ header \in 1 .. finalized
  /\ decimals \in [at : 1 .. finalized, value : Nat]

ResultsType ==
  /\ results \in Seq(Results)
  /\ Len(results) <= Len(Feeds)
  /\ pc # "idle" => Len(results) < Len(Feeds)

\* Where f does not change from one block to the next, it is the same at both ends.
Connected(f, n) ==
  \A to \in 1 .. n : \A from \in 1 .. to :
    (\E b \in from + 1 .. to : f[b] # f[b - 1]) \/ f[from] = f[to]

AggregatorsOf(p) == [b \in 1 .. Len(chain) |-> AggregatorAt(p, b)]
DecimalsOf(a) == [b \in 1 .. Len(chain) |-> chain[b].decimals[a]]

\* Blocks with no handover between them agree on the aggregator, and those with
\* no reconfiguration on its decimals.
NoHandoverSame ==
  /\ \A p \in Proxies : Connected(AggregatorsOf(p), Len(chain))
  /\ \A a \in Aggregators : Connected(DecimalsOf(a), Len(chain))

\* The decimals just read are those of the aggregator at their block.
DecimalsRead ==
  pc \in {"answerHeader", "answer"} =>
    /\ AggregatorAt(Feed, decimals.at) \in Aggregators
    /\ decimals.value = Scale(DecimalsAt(Feed, decimals.at))

DecimalsFirst == pc = "answer" => decimals.at <= header

\* What a result says of two final blocks.
ResultIsRead(i) ==
  LET r == results[i] IN
  /\ r.decimalsAt <= r.answerAt /\ r.answerAt <= finalized
  /\ AggregatorAt(Feeds[i], r.decimalsAt) \in Aggregators
  /\ r.decimals = Scale(DecimalsAt(Feeds[i], r.decimalsAt))
  /\ AggregatorAt(Feeds[i], r.answerAt) # NoAggregator
  /\ r.answer = chain[r.answerAt].round[AggregatorAt(Feeds[i], r.answerAt)]

ResultsRead == \A i \in 1 .. Len(results) : ResultIsRead(i)

ReaderInv ==
  /\ ChainType /\ CallsType /\ ResultsType
  /\ NoHandoverSame
  /\ DecimalsRead /\ DecimalsFirst /\ ResultsRead

LEMMA ReaderInitInv == ReaderInit => ReaderInv
<1> SUFFICES ASSUME ReaderInit
             PROVE  ReaderInv
  OBVIOUS
<1>1. Genesis \in Contracts
  BY ReaderConstants DEF Genesis, Contracts
<1>2. ChainType
  BY <1>1, ReaderConstants DEF ReaderInit, ChainType
<1>3. CallsType
  BY DEF ReaderInit, CallsType
<1>4. ResultsType
  BY ReaderConstants DEF ReaderInit, ResultsType
<1>5. NoHandoverSame
  <2>1. Len(chain) = 1
    BY DEF ReaderInit
  <2>2. ASSUME NEW to \in 1 .. Len(chain), NEW from \in 1 .. to
        PROVE  from = to
    BY <2>1
  <2> QED
    BY <2>2 DEF NoHandoverSame, Connected
<1>6. DecimalsRead /\ DecimalsFirst /\ ResultsRead
  BY DEF ReaderInit, DecimalsRead, DecimalsFirst, ResultsRead
<1> QED
  BY <1>2, <1>3, <1>4, <1>5, <1>6 DEF ReaderInv

-----------------------------------------------------------------------------
(* The chain.                                                              *)

\* A block more, or some blocks less.
LEMMA ConnectedExtends ==
  ASSUME NEW n \in Nat, NEW f, NEW g, Connected(f, n), \A b \in 1 .. n : g[b] = f[b]
  PROVE  Connected(g, n + 1)
<1> SUFFICES ASSUME NEW to \in 1 .. n + 1, NEW from \in 1 .. to,
                    \A b \in from + 1 .. to : g[b] = g[b - 1]
             PROVE  g[from] = g[to]
  BY DEF Connected
<1>1. ASSUME NEW last \in 1 .. n, from <= last, last <= to
      PROVE  g[from] = g[last]
  <2>1. from \in 1 .. last /\ from \in 1 .. n
    BY <1>1
  <2>2. \A b \in from + 1 .. last : b \in from + 1 .. to /\ b \in 1 .. n /\ b - 1 \in 1 .. n
    BY <1>1
  <2>3. ~\E b \in from + 1 .. last : f[b] # f[b - 1]
    BY <2>2
  <2>4. f[from] = f[last]
    BY <2>1, <2>3 DEF Connected
  <2> QED
    BY <2>1, <2>4
<1>2. CASE to \in 1 .. n
  BY <1>1, <1>2
<1>3. CASE from = to
  BY <1>3
<1>4. CASE to = n + 1 /\ from # to
  <2>1. to - 1 \in 1 .. n /\ from <= to - 1 /\ to - 1 <= to /\ to \in from + 1 .. to
    BY <1>4
  <2>2. g[to] = g[to - 1]
    BY <2>1
  <2> QED
    BY <1>1, <2>1, <2>2
<1> QED
  BY <1>2, <1>3, <1>4

LEMMA ConnectedShrinks ==
  ASSUME NEW n \in Nat, NEW m \in 1 .. n, NEW f, NEW g, Connected(f, n),
         \A b \in 1 .. m : g[b] = f[b]
  PROVE  Connected(g, m)
<1> SUFFICES ASSUME NEW to \in 1 .. m, NEW from \in 1 .. to,
                    \A b \in from + 1 .. to : g[b] = g[b - 1]
             PROVE  g[from] = g[to]
  BY DEF Connected
<1>1. /\ to \in 1 .. n /\ from \in 1 .. m
      /\ \A b \in from + 1 .. to : b \in 1 .. m /\ b - 1 \in 1 .. m
  OBVIOUS
<1>2. ~\E b \in from + 1 .. to : f[b] # f[b - 1]
  BY <1>1
<1>3. f[from] = f[to]
  BY <1>1, <1>2 DEF Connected
<1> QED
  BY <1>1, <1>3

\* Whatever happens to blocks that are not final: what was read of final ones
\* is as it was.
LEMMA FinalBlocksStay ==
  ASSUME ReaderInv, ChainType', NoHandoverSame', finalized <= finalized',
         \A b \in 1 .. finalized : chain'[b] = chain[b],
         UNCHANGED <<pc, header, decimals, results>>
  PROVE  ReaderInv'
<1>1. finalized \in Nat /\ finalized' \in Nat
  BY DEF ReaderInv, ChainType
<1>2. CallsType'
  <2>1. \A b \in 1 .. finalized : b \in 1 .. finalized'
    BY <1>1
  <2>2. header' \in 1 .. finalized' /\ decimals'.at \in 1 .. finalized'
    BY <2>1 DEF ReaderInv, CallsType
  <2> QED
    BY <2>2 DEF ReaderInv, CallsType
<1>3. ResultsType'
  BY DEF ReaderInv, ResultsType
<1>4. \A p : \A b \in 1 .. finalized : AggregatorAt(p, b)' = AggregatorAt(p, b)
  BY DEF AggregatorAt
<1>5. decimals.at \in 1 .. finalized /\ decimals' = decimals /\ pc' = pc /\ header' = header
  BY DEF ReaderInv, CallsType
<1>6. DecimalsRead'
  BY <1>4, <1>5 DEF ReaderInv, DecimalsRead, Feed, AggregatorAt, DecimalsAt
<1>7. DecimalsFirst'
  BY <1>5 DEF ReaderInv, DecimalsFirst
<1>8. ResultsRead'
  <2> SUFFICES ASSUME NEW i \in 1 .. Len(results)
               PROVE  ResultIsRead(i)'
    BY DEF ResultsRead
  <2>1. /\ results[i] \in Results /\ ResultIsRead(i)
    BY DEF ReaderInv, ResultsType, ResultsRead
  <2>2. results[i].answerAt \in 1 .. finalized /\ results[i].decimalsAt \in 1 .. finalized
    BY <1>1, <2>1 DEF Results, ResultIsRead
  <2>3. /\ chain'[results[i].answerAt] = chain[results[i].answerAt]
        /\ chain'[results[i].decimalsAt] = chain[results[i].decimalsAt]
    BY <2>2
  <2> QED
    BY <1>1, <2>1, <2>2, <2>3 DEF ResultIsRead, AggregatorAt, DecimalsAt
<1> QED
  BY <1>2, <1>3, <1>6, <1>7, <1>8 DEF ReaderInv

\* A block is mined: what it leaves as in its parent is connected to earlier blocks.
LEMMA MineKeeps ==
  ASSUME ReaderInv, NEW state \in Contracts, Mine(state)
  PROVE  ReaderInv'
<1>1. /\ chain' = Append(chain, state)
      /\ UNCHANGED <<finalized, reorgs, pc, header, decimals, results>>
  BY DEF Mine
<1>2. /\ chain \in Seq(Contracts) /\ Len(chain) \in Nat /\ finalized \in 1 .. Len(chain)
  BY DEF ReaderInv, ChainType
<1>3. /\ chain' \in Seq(Contracts) /\ Len(chain') = Len(chain) + 1
      /\ \A b \in 1 .. Len(chain) : chain'[b] = chain[b]
  BY <1>1, <1>2
<1>4. ChainType'
  BY <1>1, <1>2, <1>3 DEF ReaderInv, ChainType
<1>5. NoHandoverSame'
  <2>1. ASSUME NEW p \in Proxies
        PROVE  Connected(AggregatorsOf(p), Len(chain))'
    <3>1. \A b \in 1 .. Len(chain) : AggregatorsOf(p)'[b] = AggregatorsOf(p)[b]
      BY <1>2, <1>3 DEF AggregatorsOf, AggregatorAt
    <3>2. Connected(AggregatorsOf(p), Len(chain))
      BY DEF ReaderInv, NoHandoverSame
    <3>3. Connected(AggregatorsOf(p)', Len(chain) + 1)
      BY <1>2, <3>1, <3>2, ConnectedExtends
    <3> QED
      BY <1>3, <3>3 DEF Connected
  <2>2. ASSUME NEW a \in Aggregators
        PROVE  Connected(DecimalsOf(a), Len(chain))'
    <3>1. \A b \in 1 .. Len(chain) : DecimalsOf(a)'[b] = DecimalsOf(a)[b]
      BY <1>2, <1>3 DEF DecimalsOf
    <3>2. Connected(DecimalsOf(a), Len(chain))
      BY DEF ReaderInv, NoHandoverSame
    <3>3. Connected(DecimalsOf(a)', Len(chain) + 1)
      BY <1>2, <3>1, <3>2, ConnectedExtends
    <3> QED
      BY <1>3, <3>3 DEF Connected
  <2> QED
    BY <2>1, <2>2 DEF NoHandoverSame
<1>6. \A b \in 1 .. finalized : chain'[b] = chain[b]
  BY <1>2, <1>3
<1> QED
  BY <1>1, <1>2, <1>4, <1>5, <1>6, FinalBlocksStay

\* What the owners and aggregators change is again a state of the contracts.
LEMMA GrowthKeeps ==
  ASSUME ReaderInv,
         \/ \E a \in Aggregators : Publish(a)
         \/ \E p \in Proxies, a \in Aggregators \union {NoAggregator} :
              \/ ProposeAggregator(p, a) \/ ConfirmAggregator(p, a)
              \/ UpdateDataIdMappingsForProxies(p, a)
         \/ \E a \in Aggregators, fields \in DecimalsMatrix : SetBundleFeedConfigs(a, fields)
  PROVE  ReaderInv'
<1>1. Head1 \in Contracts
  BY DEF ReaderInv, ChainType, Head1
<1>2. CASE \E a \in Aggregators : Publish(a)
  <2>1. PICK a \in Aggregators : Publish(a)
    BY <1>2
  <2>2. [Head1 EXCEPT !.round[a] = @ + 1] \in Contracts
    <3>1. Head1.round \in [Aggregators -> 0 .. MaxRound] /\ Head1.round[a] + 1 \in 0 .. MaxRound
      BY <1>1, <2>1, ReaderConstants DEF Publish, Contracts
    <3>2. [Head1.round EXCEPT ![a] = @ + 1] \in [Aggregators -> 0 .. MaxRound]
      BY <3>1
    <3> QED
      BY <1>1, <3>2 DEF Contracts
  <2> QED
    BY <2>1, <2>2, MineKeeps DEF Publish
<1>3. CASE \E p \in Proxies, a \in Aggregators \union {NoAggregator} :
             \/ ProposeAggregator(p, a) \/ ConfirmAggregator(p, a)
             \/ UpdateDataIdMappingsForProxies(p, a)
  <2>1. PICK p \in Proxies, a \in Aggregators \union {NoAggregator} :
          \/ ProposeAggregator(p, a) \/ ConfirmAggregator(p, a)
          \/ UpdateDataIdMappingsForProxies(p, a)
    BY <1>3
  <2>2. /\ [Head1 EXCEPT !.proposed[p] = a] \in Contracts
        /\ [Head1 EXCEPT !.current[p] = a] \in Contracts
        /\ [Head1 EXCEPT !.proposed[p] = NoAggregator, !.current[p] = a] \in Contracts
    BY <1>1 DEF Contracts
  <2> QED
    BY <2>1, <2>2, MineKeeps
       DEF ProposeAggregator, ConfirmAggregator, UpdateDataIdMappingsForProxies
<1>4. CASE \E a \in Aggregators, fields \in DecimalsMatrix : SetBundleFeedConfigs(a, fields)
  <2>1. PICK a \in Aggregators, fields \in DecimalsMatrix : SetBundleFeedConfigs(a, fields)
    BY <1>4
  <2>2. [Head1 EXCEPT !.decimals[a] = fields] \in Contracts
    BY <1>1 DEF Contracts
  <2> QED
    BY <2>1, <2>2, MineKeeps DEF SetBundleFeedConfigs
<1> QED
  BY <1>2, <1>3, <1>4

LEMMA FinalizeKeeps == ReaderInv /\ Finalize => ReaderInv'
<1> SUFFICES ASSUME ReaderInv, Finalize
             PROVE  ReaderInv'
  OBVIOUS
<1>1. ChainType' /\ finalized <= finalized'
  BY DEF ReaderInv, ChainType, Finalize
<1>2. NoHandoverSame'
  BY DEF ReaderInv, NoHandoverSame, AggregatorsOf, DecimalsOf, AggregatorAt, Finalize
<1> QED
  BY <1>1, <1>2, FinalBlocksStay DEF Finalize

\* A reorganisation takes blocks away that are not final.
LEMMA ReorganiseKeeps ==
  ASSUME ReaderInv, NEW height \in finalized .. Len(chain) - 1, Reorganise(height)
  PROVE  ReaderInv'
<1>1. /\ chain \in Seq(Contracts) /\ Len(chain) \in Nat /\ finalized \in 1 .. Len(chain)
      /\ height \in 1 .. Len(chain) /\ finalized <= height
  BY DEF ReaderInv, ChainType
<1>2. /\ chain' = SubSeq(chain, 1, height)
      /\ UNCHANGED <<finalized, pc, header, decimals, results>>
  BY DEF Reorganise
<1>3. /\ chain' \in Seq(Contracts) /\ Len(chain') = height
      /\ \A b \in 1 .. height : chain'[b] = chain[b]
  BY <1>1, <1>2
<1>4. reorgs' \in 0 .. MaxReorgs
  BY ReaderConstants DEF ReaderInv, ChainType, Reorganise
<1>5. ChainType'
  BY <1>1, <1>2, <1>3, <1>4 DEF ChainType
<1>6. NoHandoverSame'
  <2>1. ASSUME NEW p \in Proxies
        PROVE  Connected(AggregatorsOf(p), Len(chain))'
    <3>1. \A b \in 1 .. height : AggregatorsOf(p)'[b] = AggregatorsOf(p)[b]
      <4> TAKE b \in 1 .. height
      <4>1. b \in 1 .. Len(chain) /\ b \in 1 .. Len(chain')
        BY <1>1, <1>3
      <4> QED
        BY <1>3, <4>1 DEF AggregatorsOf, AggregatorAt
    <3>2. Connected(AggregatorsOf(p), Len(chain))
      BY DEF ReaderInv, NoHandoverSame
    <3>3. Connected(AggregatorsOf(p)', height)
      BY <1>1, <3>1, <3>2, ConnectedShrinks
    <3> QED
      BY <1>3, <3>3 DEF Connected
  <2>2. ASSUME NEW a \in Aggregators
        PROVE  Connected(DecimalsOf(a), Len(chain))'
    <3>1. \A b \in 1 .. height : DecimalsOf(a)'[b] = DecimalsOf(a)[b]
      <4> TAKE b \in 1 .. height
      <4>1. b \in 1 .. Len(chain) /\ b \in 1 .. Len(chain')
        BY <1>1, <1>3
      <4> QED
        BY <1>3, <4>1 DEF DecimalsOf
    <3>2. Connected(DecimalsOf(a), Len(chain))
      BY DEF ReaderInv, NoHandoverSame
    <3>3. Connected(DecimalsOf(a)', height)
      BY <1>1, <3>1, <3>2, ConnectedShrinks
    <3> QED
      BY <1>3, <3>3 DEF Connected
  <2> QED
    BY <2>1, <2>2 DEF NoHandoverSame
<1>7. \A b \in 1 .. finalized : chain'[b] = chain[b]
  BY <1>1, <1>3
<1> QED
  BY <1>1, <1>2, <1>5, <1>6, <1>7, FinalBlocksStay

-----------------------------------------------------------------------------
(* An execution.                                                           *)

\* Its steps leave the chain alone.
LEMMA ChainStays ==
  ASSUME ReaderInv, UNCHANGED chainVars
  PROVE  ChainType' /\ NoHandoverSame'
BY DEF ReaderInv, ChainType, NoHandoverSame, AggregatorsOf, DecimalsOf, AggregatorAt,
       chainVars

LEMMA CallsAtFinalBlocks ==
  ASSUME ReaderInv
  PROVE  /\ finalized \in Nat /\ finalized >= 1
         /\ header \in Nat /\ 1 <= header /\ header <= finalized
         /\ decimals.at \in Nat /\ 1 <= decimals.at /\ decimals.at <= finalized
         /\ decimals.value \in Nat
<1>1. finalized \in Nat /\ finalized >= 1
  BY DEF ReaderInv, ChainType
<1>2. header \in 1 .. finalized /\ decimals \in [at : 1 .. finalized, value : Nat]
  BY DEF ReaderInv, CallsType
<1> QED
  BY <1>1, <1>2

\* A step that adds no result keeps what is known of the results.
LEMMA ResultsStay ==
  ASSUME ReaderInv, UNCHANGED chainVars, results' \in {results, <<>>}
  PROVE  ResultsRead'
<1>1. CASE results' = results
  BY <1>1 DEF ReaderInv, ResultsRead, ResultIsRead, AggregatorAt, DecimalsAt, chainVars
<1>2. CASE results' = <<>>
  BY <1>2 DEF ResultsRead
<1> QED
  BY <1>1, <1>2

\* An execution starts, or ends with an error.
LEMMA NoResultsKeeps ==
  ASSUME ReaderInv, Tick \/ CallErrors
  PROVE  ReaderInv'
<1>1. /\ \/ pc' = "decimalsHeader" /\ Len(Feeds) > 0
         \/ pc' = "idle"
      /\ results' = <<>> /\ UNCHANGED <<header, decimals>> /\ UNCHANGED chainVars
  BY DEF Tick, CallErrors, chainVars
<1>2. pc' \in {"decimalsHeader", "idle"} /\ (pc' # "idle" => 0 < Len(Feeds))
  BY <1>1, FeedsLength
<1>3. CallsType'
  BY <1>1, <1>2 DEF ReaderInv, CallsType, chainVars
<1>4. ResultsType'
  <2>1. results' = <<>> /\ <<>> \in Seq(Results) /\ Len(<<>>) = 0
    BY <1>1
  <2>2. results' \in Seq(Results) /\ Len(results') = 0
    BY <2>1, Zenon
  <2> QED
    BY <1>2, <2>2, FeedsLength DEF ResultsType
<1>5. DecimalsRead' /\ DecimalsFirst'
  BY <1>2 DEF DecimalsRead, DecimalsFirst
<1> QED
  BY <1>1, <1>3, <1>4, <1>5, ChainStays, ResultsStay DEF ReaderInv

LEMMA HeaderKeeps == ReaderInv /\ HeaderByNumber => ReaderInv'
<1> SUFFICES ASSUME ReaderInv, HeaderByNumber
             PROVE  ReaderInv'
  OBVIOUS
<1>1. /\ \/ pc = "decimalsHeader" /\ pc' = "decimals"
         \/ pc = "answerHeader" /\ pc' = "answer"
      /\ header' = finalized
      /\ UNCHANGED <<decimals, results>> /\ UNCHANGED chainVars
  BY DEF HeaderByNumber, BlockOfNil, chainVars
<1>2. finalized' = finalized /\ finalized \in 1 .. finalized /\ decimals.at <= finalized
  BY <1>1, CallsAtFinalBlocks DEF chainVars
<1>3. CallsType'
  BY <1>1, <1>2 DEF ReaderInv, CallsType
<1>4. ResultsType'
  BY <1>1 DEF ReaderInv, ResultsType
<1>5. DecimalsRead'
  BY <1>1 DEF ReaderInv, DecimalsRead, Feed, AggregatorAt, DecimalsAt, chainVars
<1>6. DecimalsFirst'
  BY <1>1, <1>2 DEF DecimalsFirst
<1> QED
  BY <1>1, <1>3, <1>4, <1>5, <1>6, ChainStays, ResultsStay DEF ReaderInv

\* The feed being read is a proxy, and its aggregator at a final block is one.
LEMMA AggregatorType ==
  ASSUME ReaderInv, pc # "idle", NEW b \in 1 .. finalized
  PROVE  AggregatorAt(Feed, b) \in Aggregators \union {NoAggregator}
<1>1. Len(results) + 1 \in 1 .. Len(Feeds)
  BY FeedsLength DEF ReaderInv, ResultsType
<1>2. Feed \in Proxies
  BY <1>1, FeedIsProxy DEF Feed
<1>3. chain[b] \in Contracts
  BY DEF ReaderInv, ChainType
<1> QED
  BY <1>2, <1>3 DEF AggregatorAt, Contracts

LEMMA DecimalsKeeps == ReaderInv /\ ReadDecimals => ReaderInv'
<1> SUFFICES ASSUME ReaderInv, ReadDecimals
             PROVE  ReaderInv'
  OBVIOUS
<1> DEFINE a == AggregatorAt(Feed, header)
<1>1. /\ pc = "decimals" /\ pc' = "answerHeader" /\ a # NoAggregator
      /\ decimals' = [at |-> header, value |-> Scale(DecimalsAt(Feed, header))]
      /\ UNCHANGED <<header, results>> /\ UNCHANGED chainVars
  BY DEF ReadDecimals, chainVars
<1>2. header \in 1 .. finalized /\ a \in Aggregators
  BY <1>1, AggregatorType DEF ReaderInv, CallsType
<1>3. Scale(DecimalsAt(Feed, header)) \in Nat
  <2>1. chain[header] \in Contracts
    BY <1>2 DEF ReaderInv, ChainType
  <2>2. DecimalsAt(Feed, header) \in DecimalsMatrix
    BY <1>2, <2>1 DEF DecimalsAt, Contracts
  <2> QED
    BY <2>2, ScaleIsNat
<1>4. CallsType'
  BY <1>1, <1>2, <1>3 DEF ReaderInv, CallsType, chainVars
<1>5. ResultsType'
  BY <1>1 DEF ReaderInv, ResultsType
<1>6. DecimalsRead'
  BY <1>1, <1>2 DEF DecimalsRead, Feed, AggregatorAt, DecimalsAt, chainVars
<1>7. DecimalsFirst'
  BY <1>1 DEF DecimalsFirst
<1> QED
  BY <1>1, <1>4, <1>5, <1>6, <1>7, ChainStays, ResultsStay DEF ReaderInv

LEMMA AnswerKeeps == ReaderInv /\ ReadAnswer => ReaderInv'
<1> SUFFICES ASSUME ReaderInv, ReadAnswer
             PROVE  ReaderInv'
  OBVIOUS
<1> DEFINE a == AggregatorAt(Feed, header)
           result == [decimals |-> decimals.value, decimalsAt |-> decimals.at,
                      answer |-> chain[header].round[a], answerAt |-> header]
           n == Len(results)
<1>1. /\ pc = "answer" /\ a # NoAggregator
      /\ results' = Append(results, result)
      /\ pc' = IF n + 1 = Len(Feeds) THEN "idle" ELSE "decimalsHeader"
      /\ UNCHANGED <<header, decimals>> /\ UNCHANGED chainVars
  BY DEF ReadAnswer, DecimalsOfFeed, chainVars
<1>2. /\ finalized \in Nat /\ header \in 1 .. finalized /\ finalized' = finalized
      /\ decimals.at \in 1 .. finalized /\ decimals.value \in Nat
  BY <1>1, CallsAtFinalBlocks DEF chainVars
<1>3. a \in Aggregators
  BY <1>1, <1>2, AggregatorType
<1>4. chain[header].round[a] \in 0 .. MaxRound
  <2>1. chain[header] \in Contracts
    BY <1>2 DEF ReaderInv, ChainType
  <2> HIDE DEF a
  <2> QED
    BY <1>3, <2>1 DEF Contracts
<1>5. result \in Results
  BY <1>2, <1>4 DEF Results
<1>6. n \in Nat /\ n < Len(Feeds) /\ results \in Seq(Results)
  BY <1>1 DEF ReaderInv, ResultsType
<1>7. /\ results' \in Seq(Results) /\ Len(results') = n + 1 /\ results'[n + 1] = result
      /\ \A i \in 1 .. n : results'[i] = results[i]
  BY <1>1, <1>5, <1>6
<1>8. pc' \in {"idle", "decimalsHeader"} /\ (pc' # "idle" => n + 1 < Len(Feeds))
  BY <1>1, <1>6, FeedsLength
<1>9. CallsType'
  BY <1>1, <1>2, <1>8 DEF ReaderInv, CallsType
<1>10. ResultsType'
  BY <1>6, <1>7, <1>8, FeedsLength DEF ResultsType
<1>11. DecimalsRead' /\ DecimalsFirst'
  BY <1>8 DEF DecimalsRead, DecimalsFirst
<1>12. ResultsRead'
  <2>1. ASSUME NEW i \in 1 .. n
        PROVE  ResultIsRead(i)'
    BY <1>1, <1>7, <2>1
       DEF ReaderInv, ResultsRead, ResultIsRead, AggregatorAt, DecimalsAt, chainVars
  <2>2. /\ Feeds[n + 1] = Feed
        /\ AggregatorAt(Feed, decimals.at) \in Aggregators
        /\ decimals.value = Scale(DecimalsAt(Feed, decimals.at))
        /\ decimals.at <= header
    BY <1>1 DEF ReaderInv, DecimalsRead, DecimalsFirst, Feed
  <2>3. /\ result.decimalsAt = decimals.at /\ result.answerAt = header
        /\ result.decimals = decimals.value /\ result.answer = chain[header].round[a]
    OBVIOUS
  <2> HIDE DEF result
  <2>4. ASSUME NEW i \in 1 .. Len(results'), i = n + 1
        PROVE  ResultIsRead(i)'
    <3>1. chain' = chain /\ finalized' = finalized
      BY <1>1 DEF chainVars
    <3>2. /\ chain[decimals.at].current[Feeds[i]] \in Aggregators
          /\ decimals.value =
               Scale(chain[decimals.at].decimals[chain[decimals.at].current[Feeds[i]]])
          /\ chain[header].current[Feeds[i]] = a /\ a # NoAggregator
      BY <1>1, <2>2, <2>4, Zenon DEF AggregatorAt, DecimalsAt
    <3> HIDE DEF n, a
    <3>3. /\ results'[i].decimalsAt = decimals.at /\ results'[i].answerAt = header
          /\ results'[i].decimals = decimals.value
          /\ results'[i].answer = chain[header].round[a]
      BY <1>7, <2>3, <2>4
    <3>4. /\ AggregatorAt(Feeds[i], decimals.at)' = AggregatorAt(Feeds[i], decimals.at)
          /\ DecimalsAt(Feeds[i], decimals.at)' = DecimalsAt(Feeds[i], decimals.at)
          /\ AggregatorAt(Feeds[i], header)' = AggregatorAt(Feeds[i], header)
      BY <1>1, <3>1, Zenon DEF AggregatorAt, DecimalsAt
    <3>5. /\ AggregatorAt(Feeds[i], decimals.at) \in Aggregators
          /\ decimals.value = Scale(DecimalsAt(Feeds[i], decimals.at))
          /\ AggregatorAt(Feeds[i], header) = a /\ a # NoAggregator
      BY <3>2, Zenon DEF AggregatorAt, DecimalsAt
    <3>6. \A b : Scale(DecimalsAt(Feeds[i], b)') = Scale(DecimalsAt(Feeds[i], b))'
      BY DEF Scale
    <3> QED
      BY <1>1, <1>2, <2>2, <3>1, <3>3, <3>4, <3>5, <3>6 DEF ResultIsRead
  <2>5. \A i \in 1 .. n + 1 : i \in 1 .. n \/ i = n + 1
    BY <1>6
  <2> QED
    BY <1>7, <2>1, <2>4, <2>5, Zenon DEF ResultsRead
<1> QED
  BY <1>1, <1>9, <1>10, <1>11, <1>12, ChainStays DEF ReaderInv

-----------------------------------------------------------------------------
(* The reader's theorems.                                                  *)

LEMMA ReaderStutters == ReaderInv /\ UNCHANGED readerVars => ReaderInv'
<1> SUFFICES ASSUME ReaderInv, UNCHANGED readerVars
             PROVE  ReaderInv'
  OBVIOUS
<1>1. ChainType' /\ NoHandoverSame'
  BY ChainStays DEF chainVars, readerVars
<1>2. finalized <= finalized'
  BY DEF ReaderInv, ChainType, readerVars
<1> QED
  BY <1>1, <1>2, FinalBlocksStay DEF readerVars

LEMMA ReaderNextInv == ReaderInv /\ [ReaderNext]_readerVars => ReaderInv'
BY NoResultsKeeps, HeaderKeeps, DecimalsKeeps, AnswerKeeps, GrowthKeeps, FinalizeKeeps,
   ReorganiseKeeps, ReaderStutters, Zenon DEF ReaderNext, OnTick, Grow

LEMMA ReaderInvariant == ReaderSpec => []ReaderInv
<1> QED
  BY ReaderInitInv, ReaderNextInv, PTL DEF ReaderSpec

\* The variables of the reader keep their types: no call is made at a block
\* that is not final.
THEOREM ReaderTypesHold == ReaderSpec => []ReaderTypeOK
<1>1. ReaderInv => ReaderTypeOK
  BY DEF ReaderInv, ChainType, CallsType, ResultsType, ReaderTypeOK
<1> QED
  BY <1>1, ReaderInvariant, PTL

\* What an execution has read stays on the chain, whatever blocks it loses.
THEOREM AnswersStay == ReaderSpec => []AnswersAreFinal
<1>1. ASSUME ReaderInv, NEW i \in 1 .. Len(results)
      PROVE  /\ results[i].answerAt <= Len(chain)
             /\ AggregatorAt(Feeds[i], results[i].answerAt) # NoAggregator
             /\ results[i].answer =
                  chain[results[i].answerAt].round[AggregatorAt(Feeds[i], results[i].answerAt)]
  <2>1. ResultIsRead(i) /\ results[i] \in Results
    BY <1>1 DEF ReaderInv, ResultsRead, ResultsType
  <2>2. results[i].answerAt \in Nat /\ finalized \in Nat /\ finalized <= Len(chain)
        /\ Len(chain) \in Nat
    BY <1>1, <2>1 DEF ReaderInv, ChainType, Results
  <2>3. results[i].answerAt <= Len(chain)
    BY <2>1, <2>2 DEF ResultIsRead
  <2> QED
    BY <2>1, <2>3 DEF ResultIsRead
<1>2. ReaderInv => AnswersAreFinal
  BY <1>1 DEF AnswersAreFinal
<1> QED
  BY <1>2, ReaderInvariant, PTL

\* An answer is scaled with the decimals its own proxy served at the block of
\* the answer, unless between the two calls the proxy was handed over or its
\* aggregator given other decimals.
THEOREM AnswersAreScaled == ReaderSpec => []ScaledByItsAggregator
<1>1. ASSUME ReaderInv, NEW i \in 1 .. Len(results)
      PROVE  LET r == results[i] IN
             /\ r.decimalsAt <= r.answerAt
             /\ \/ HandedOver(Feeds[i], r.decimalsAt, r.answerAt)
                \/ Reconfigured(AggregatorAt(Feeds[i], r.answerAt), r.decimalsAt, r.answerAt)
                \/ r.decimals = Scale(DecimalsAt(Feeds[i], r.answerAt))
  <2> DEFINE from == results[i].decimalsAt
             to == results[i].answerAt
             a == AggregatorAt(Feeds[i], from)
  <2>1. ResultIsRead(i) /\ results[i] \in Results /\ i \in 1 .. Len(Feeds)
    BY <1>1, FeedsLength DEF ReaderInv, ResultsRead, ResultsType
  <2>2. /\ to \in 1 .. Len(chain) /\ from \in 1 .. to /\ from \in 1 .. Len(chain)
        /\ \A b \in from + 1 .. to : b \in 1 .. Len(chain) /\ b - 1 \in 1 .. Len(chain)
    <3>1. to \in Nat \ {0} /\ from \in Nat \ {0} /\ from <= to /\ to <= finalized
      BY <2>1 DEF Results, ResultIsRead
    <3>2. finalized \in Nat /\ Len(chain) \in Nat /\ finalized <= Len(chain)
      BY <1>1 DEF ReaderInv, ChainType
    <3> HIDE DEF from, to
    <3> QED
      BY <3>1, <3>2
  <2>3. Feeds[i] \in Proxies /\ a \in Aggregators
    BY <2>1, FeedIsProxy DEF ResultIsRead
  <2> HIDE DEF from, to, a
  <2>4. HandedOver(Feeds[i], from, to) \/ a = AggregatorAt(Feeds[i], to)
    BY <1>1, <2>2, <2>3 DEF ReaderInv, NoHandoverSame, Connected, AggregatorsOf, HandedOver, a
  <2>5. Reconfigured(a, from, to) \/ chain[from].decimals[a] = chain[to].decimals[a]
    BY <1>1, <2>2, <2>3 DEF ReaderInv, NoHandoverSame, Connected, DecimalsOf, Reconfigured
  <2>6. results[i].decimals = Scale(chain[from].decimals[a])
    BY <2>1 DEF ResultIsRead, DecimalsAt, from, a
  <2> QED
    BY <2>1, <2>4, <2>5, <2>6 DEF ResultIsRead, DecimalsAt, from, to
<1>2. ReaderInv => ScaledByItsAggregator
  BY <1>1 DEF ScaledByItsAggregator
<1> QED
  BY <1>2, ReaderInvariant, PTL

-----------------------------------------------------------------------------
(* The reserve.                                                            *)

LEMMA ReserveConstants == MaxReserve \in Nat /\ MaxFaults \in Nat
BY ReserveAssumption DEF ReserveAssumption

ReserveValues == 0 .. MaxReserve
Places == {"idle", "supply", "await", "abandoned"}

\* A report, whatever supply it gives.
IsWrite(w) ==
  \E minted : \E status \in {"none", "pending", "landed", "failed"}, value \in ReserveValues :
    w = [status |-> status, minted |-> minted, reserve |-> value]

RunsKnown ==
  /\ reserve \in ReserveValues /\ ownReserve \in ReserveValues
  /\ porPc \in [ReserveRuns -> Places]
  /\ fetched \in [ReserveRuns -> ReserveValues]
  /\ write = [r \in ReserveRuns |-> write[r]]
  /\ \A r \in ReserveRuns : IsWrite(write[r])

\* The newest value is the one the API publishes.
NoneNewer ==
  /\ ownReserve <= reserve
  /\ \A r \in ReserveRuns : fetched[r] <= reserve /\ write[r].reserve <= reserve

\* A pending write has an execution that waits for it or has given it up.
WritesAwaited ==
  \A r \in ReserveRuns : write[r].status = "pending" => porPc[r] \in {"await", "abandoned"}

\* While nothing is late: what an execution has fetched, or is writing, is no
\* older than the workflow's last report, and no other execution is under way.
InOrder ==
  /\ \A r \in ReserveRuns : porPc[r] # "abandoned"
  /\ \A r, s \in ReserveRuns : porPc[r] # "idle" /\ porPc[s] # "idle" => r = s
  /\ \A r \in ReserveRuns : porPc[r] = "supply" => ownReserve <= fetched[r]
  /\ \A r \in ReserveRuns : write[r].status = "pending" => ownReserve <= write[r].reserve

ReserveInv ==
  /\ RunsKnown /\ WritesAwaited /\ NoneNewer
  /\ ~late => InOrder

LEMMA WriteForm ==
  ASSUME NEW status \in {"none", "pending", "landed", "failed"}, NEW value \in ReserveValues,
         NEW minted
  PROVE  /\ IsWrite([status |-> status, minted |-> minted, reserve |-> value])
         /\ [status |-> status, minted |-> minted, reserve |-> value].status = status
         /\ [status |-> status, minted |-> minted, reserve |-> value].reserve = value
<1>1. IsWrite([status |-> status, minted |-> minted, reserve |-> value])
  BY Zenon DEF IsWrite
<1> QED
  BY <1>1

LEMMA NoWriteForm == IsWrite(NoWrite) /\ NoWrite.status = "none" /\ NoWrite.reserve = 0
<1>1. 0 \in ReserveValues
  BY ReserveConstants DEF ReserveValues
<1> QED
  BY <1>1, WriteForm, Zenon DEF NoWrite

LEMMA ReserveInitInv == ReserveInit => ReserveInv
<1> SUFFICES ASSUME ReserveInit
             PROVE  ReserveInv
  OBVIOUS
<1>1. /\ reserve = 0 /\ ownReserve = 0 /\ porPc = [r \in ReserveRuns |-> "idle"]
      /\ fetched = [r \in ReserveRuns |-> 0]
      /\ write = [r \in ReserveRuns |-> NoWrite]
  BY DEF ReserveInit
<1>2. RunsKnown
  BY <1>1, NoWriteForm, ReserveConstants DEF RunsKnown, ReserveValues, Places
<1>3. WritesAwaited /\ NoneNewer /\ InOrder
  BY <1>1, NoWriteForm DEF WritesAwaited, NoneNewer, InOrder
<1> QED
  BY <1>1, <1>2, <1>3 DEF ReserveInv

\* What a report says after its status has changed.
LEMMA SettledWrite ==
  ASSUME NEW w, IsWrite(w), NEW status \in {"landed", "failed"}
  PROVE  /\ IsWrite([w EXCEPT !.status = status])
         /\ [w EXCEPT !.status = status].status = status
         /\ [w EXCEPT !.status = status].reserve = w.reserve
<1>1. PICK minted : \E before \in {"none", "pending", "landed", "failed"}, value \in ReserveValues :
        w = [status |-> before, minted |-> minted, reserve |-> value]
  BY Zenon DEF IsWrite
<1>2. PICK before \in {"none", "pending", "landed", "failed"}, value \in ReserveValues :
        w = [status |-> before, minted |-> minted, reserve |-> value]
  BY <1>1
<1>3. [w EXCEPT !.status = status] = [status |-> status, minted |-> minted, reserve |-> value]
  BY <1>2
<1>4. w.reserve = value /\ status \in {"none", "pending", "landed", "failed"}
  BY <1>2
<1> DEFINE settled == [status |-> status, minted |-> minted, reserve |-> value]
<1>5. IsWrite(settled) /\ settled.status = status /\ settled.reserve = value
  BY <1>4, WriteForm, Zenon
<1> HIDE DEF settled
<1>6. [w EXCEPT !.status = status] = settled
  BY <1>3 DEF settled
<1> QED
  BY <1>4, <1>5, <1>6

\* Moving tokens, finality, reads of the supply and what others report concern
\* none of the workflow's reserves.
LEMMA SuppliesKeep ==
  ASSUME ReserveInv, UNCHANGED <<reserve, porPc, fetched, write, late, ownReserve>>
  PROVE  ReserveInv'
BY DEF ReserveInv, RunsKnown, WritesAwaited, NoneNewer, InOrder

LEMMA PublishReserveKeeps == ReserveInv /\ PublishReserve => ReserveInv'
<1> SUFFICES ASSUME ReserveInv, PublishReserve
             PROVE  ReserveInv'
  OBVIOUS
<1>1. /\ reserve < MaxReserve /\ reserve' = reserve + 1
      /\ UNCHANGED <<porPc, fetched, write, late, ownReserve>>
  BY DEF PublishReserve, runOnlyVars, managerVars
<1>2. reserve \in ReserveValues /\ reserve' \in ReserveValues
  BY <1>1, ReserveConstants DEF ReserveInv, RunsKnown, ReserveValues
<1>3. RunsKnown'
  BY <1>1, <1>2 DEF ReserveInv, RunsKnown
<1>4. ASSUME NEW r \in ReserveRuns
      PROVE  fetched[r] \in ReserveValues /\ write[r].reserve \in ReserveValues
  BY DEF ReserveInv, RunsKnown, IsWrite
<1>5. NoneNewer'
  BY <1>1, <1>2, <1>4 DEF ReserveInv, RunsKnown, NoneNewer, ReserveValues
<1>6. WritesAwaited' /\ (~late' => InOrder')
  BY <1>1 DEF ReserveInv, WritesAwaited, InOrder
<1> QED
  BY <1>3, <1>5, <1>6 DEF ReserveInv

\* An execution that starts while no other is under way fetches what is newest.
LEMMA FetchKeeps ==
  ASSUME ReserveInv, NEW r \in ReserveRuns, FetchReserve(r)
  PROVE  ReserveInv'
<1>1. /\ porPc' = [porPc EXCEPT ![r] = "supply"] /\ fetched' = [fetched EXCEPT ![r] = reserve]
      /\ write' = [write EXCEPT ![r] = NoWrite] /\ UNCHANGED <<reserve, ownReserve>>
  BY DEF FetchReserve, managerVars
<1>2. ASSUME ~late'
      PROVE  ~late /\ \A s \in ReserveRuns : s # r => porPc[s] = "idle"
  BY <1>2 DEF FetchReserve
<1>3. IsWrite(NoWrite) /\ NoWrite.status = "none" /\ NoWrite.reserve = 0
  BY NoWriteForm
<1>4. RunsKnown'
  BY <1>1, <1>3 DEF ReserveInv, RunsKnown, Places
<1>5. WritesAwaited'
  BY <1>1, <1>3 DEF ReserveInv, RunsKnown, WritesAwaited
<1>6. ~late' => InOrder'
  BY <1>1, <1>2, <1>3 DEF ReserveInv, RunsKnown, NoneNewer, InOrder
<1>7. NoneNewer'
  BY <1>1, <1>3 DEF ReserveInv, RunsKnown, NoneNewer, ReserveValues
<1> QED
  BY <1>4, <1>5, <1>6, <1>7 DEF ReserveInv

LEMMA UpdateKeeps ==
  ASSUME ReserveInv, NEW r \in ReserveRuns, UpdateReserves(r)
  PROVE  ReserveInv'
<1> DEFINE report == [status |-> "pending", minted |-> TotalSupply(r), reserve |-> fetched[r]]
<1>1. /\ porPc[r] = "supply" /\ porPc' = [porPc EXCEPT ![r] = "await"]
      /\ fetched' = [fetched EXCEPT ![r] = 0]
      /\ write' = [write EXCEPT ![r] = report] /\ UNCHANGED <<reserve, ownReserve, late>>
  BY DEF UpdateReserves, Forget, managerVars
<1>2. IsWrite(report) /\ report.status = "pending" /\ report.reserve = fetched[r]
  BY WriteForm DEF ReserveInv, RunsKnown
<1> HIDE DEF report
<1>3. RunsKnown'
  BY <1>1, <1>2, ReserveConstants DEF ReserveInv, RunsKnown, Places, ReserveValues
<1>4. WritesAwaited'
  BY <1>1, <1>2 DEF ReserveInv, RunsKnown, WritesAwaited
<1>5. ~late' => InOrder'
  BY <1>1, <1>2 DEF ReserveInv, RunsKnown, InOrder
<1>6. NoneNewer'
  BY <1>1, <1>2 DEF ReserveInv, RunsKnown, NoneNewer, ReserveValues
<1> QED
  BY <1>3, <1>4, <1>5, <1>6 DEF ReserveInv

\* A write that lands leaves no other pending one, if nothing is late.
LEMMA LandingKeeps ==
  ASSUME ReserveInv, NEW r \in ReserveRuns,
         ExecuteReserveReport(r) \/ LoseReserveReport(r)
  PROVE  /\ ReserveInv'
         /\ ~late' /\ ExecuteReserveReport(r) => manager'.reserve >= ownReserve
<1>1. PICK status \in {"landed", "failed"} : write' = [write EXCEPT ![r].status = status]
  BY DEF ExecuteReserveReport, LoseReserveReport
<1> DEFINE settled == [write[r] EXCEPT !.status = status]
<1>2. /\ write[r].status = "pending" /\ write' = [write EXCEPT ![r] = settled]
      /\ porPc' = [porPc EXCEPT ![r] = IF @ = "abandoned" THEN "idle" ELSE @]
      /\ UNCHANGED <<reserve, fetched, late>>
      /\ \/ ownReserve' = ownReserve /\ ~ExecuteReserveReport(r)
         \/ ownReserve' = write[r].reserve /\ manager'.reserve = write[r].reserve
  <2>1. CASE ExecuteReserveReport(r)
    BY <1>1, <2>1 DEF ExecuteReserveReport, Settled
  <2>2. CASE ~ExecuteReserveReport(r)
    BY <1>1, <2>2 DEF LoseReserveReport, Settled, managerVars
  <2> QED
    BY <2>1, <2>2
<1>3. IsWrite(settled) /\ settled.status = status /\ settled.reserve = write[r].reserve
  <2>1. IsWrite(write[r])
    BY DEF ReserveInv, RunsKnown
  <2> QED
    BY <2>1, SettledWrite, Zenon
<1>4. write[r].reserve \in ReserveValues /\ write[r].reserve <= reserve
  BY DEF ReserveInv, RunsKnown, NoneNewer, IsWrite
<1> HIDE DEF settled
<1>5. RunsKnown'
  BY <1>2, <1>3, <1>4 DEF ReserveInv, RunsKnown, Places
<1>6. WritesAwaited'
  BY <1>2, <1>3 DEF ReserveInv, RunsKnown, WritesAwaited
<1>7. NoneNewer'
  BY <1>2, <1>3, <1>4 DEF ReserveInv, RunsKnown, NoneNewer
<1>8. ASSUME ~late'
      PROVE  InOrder' /\ (ExecuteReserveReport(r) => manager'.reserve >= ownReserve)
  <2>1. InOrder /\ porPc[r] = "await"
    BY <1>2, <1>8 DEF ReserveInv, WritesAwaited, InOrder
  <2>2. ownReserve <= write[r].reserve /\ ownReserve \in ReserveValues
    BY <1>2, <2>1 DEF InOrder, ReserveInv, RunsKnown
  <2>3. ExecuteReserveReport(r) => manager'.reserve >= ownReserve
    BY <1>2, <1>4, <2>2 DEF ReserveValues
  <2>4. porPc' = porPc
    BY <1>2, <2>1 DEF ReserveInv, RunsKnown
  <2>5. \A s \in ReserveRuns : s # r => porPc[s] = "idle" /\ write[s].status # "pending"
    BY <1>2, <2>1 DEF ReserveInv, WritesAwaited, InOrder
  <2>6. \A s \in ReserveRuns : write'[s].status # "pending"
    BY <1>2, <1>3, <2>5 DEF ReserveInv, RunsKnown
  <2> QED
    BY <2>1, <2>3, <2>4, <2>5, <2>6 DEF InOrder
<1> QED
  BY <1>5, <1>6, <1>7, <1>8 DEF ReserveInv

\* The execution is over, with its answer or an error: if it has given up a
\* write, that is late from now on.
LEMMA EndingKeeps ==
  ASSUME ReserveInv, NEW r \in ReserveRuns, ReserveResponse(r) \/ ReserveCallFails(r)
  PROVE  ReserveInv'
<1>1. UNCHANGED <<reserve, write, ownReserve>>
  BY DEF ReserveResponse, ReserveCallFails, managerVars
<1>2. \/ write[r].status # "pending" /\ porPc' = [porPc EXCEPT ![r] = "idle"] /\ (late => late')
      \/ write[r].status = "pending" /\ porPc' = [porPc EXCEPT ![r] = "abandoned"] /\ late'
  <2>1. CASE ReserveResponse(r)
    BY <2>1 DEF ReserveResponse, Answered
  <2>2. CASE ReserveCallFails(r)
    <3>1. CASE write[r].status = "pending"
      BY <2>2, <3>1 DEF ReserveCallFails
    <3>2. CASE write[r].status # "pending"
      BY <2>2, <3>2, Zenon DEF ReserveCallFails
    <3> QED
      BY <3>1, <3>2
  <2> QED
    BY <2>1, <2>2
<1>3. fetched' = fetched \/ fetched' = [fetched EXCEPT ![r] = 0]
  BY DEF ReserveResponse, ReserveCallFails, Forget
<1>4. RunsKnown'
  BY <1>1, <1>2, <1>3, ReserveConstants DEF ReserveInv, RunsKnown, Places, ReserveValues
<1>5. WritesAwaited'
  BY <1>1, <1>2 DEF ReserveInv, RunsKnown, WritesAwaited
<1>6. NoneNewer'
  BY <1>1, <1>3 DEF ReserveInv, RunsKnown, NoneNewer, ReserveValues
<1>7. ASSUME ~late'
      PROVE  InOrder'
  <2>1. InOrder /\ porPc' = [porPc EXCEPT ![r] = "idle"]
    BY <1>2, <1>7 DEF ReserveInv
  <2> QED
    BY <1>1, <1>3, <2>1 DEF ReserveInv, RunsKnown, InOrder
<1> QED
  BY <1>4, <1>5, <1>6, <1>7 DEF ReserveInv

-----------------------------------------------------------------------------
(* The reserve's theorem.                                                  *)

\* Only a report that lands turns a pending write into a landed one.
LEMMA ReserveNextInv ==
  ASSUME ReserveInv, [ReserveNext]_reserveVars
  PROVE  /\ ReserveInv'
         /\ \A r \in ReserveRuns :
              write[r].status = "pending" /\ write'[r].status = "landed" /\ ~late' =>
                manager'.reserve >= ownReserve
<1> DEFINE Lands(r) == write[r].status = "pending" /\ write'[r].status = "landed"
<1>1. write' = write => \A r \in ReserveRuns : ~Lands(r)
  OBVIOUS
<1>2. ASSUME NEW r \in ReserveRuns, ExecuteReserveReport(r) \/ LoseReserveReport(r)
      PROVE  /\ ReserveInv'
             /\ \A s \in ReserveRuns : Lands(s) /\ ~late' => manager'.reserve >= ownReserve
  <2>1. ReserveInv' /\ (~late' /\ ExecuteReserveReport(r) => manager'.reserve >= ownReserve)
    BY <1>2, LandingKeeps
  <2>2. \A s \in ReserveRuns : s # r => ~Lands(s)
    BY <1>2 DEF ExecuteReserveReport, LoseReserveReport, ReserveInv, RunsKnown
  <2>3. LoseReserveReport(r) => ~Lands(r)
    <3>1. ASSUME LoseReserveReport(r)
          PROVE  write'[r].status = "failed"
      <4>1. write'[r] = [write[r] EXCEPT !.status = "failed"]
        BY <3>1 DEF LoseReserveReport, ReserveInv, RunsKnown
      <4>2. IsWrite(write[r])
        BY DEF ReserveInv, RunsKnown
      <4> QED
        BY <4>1, <4>2, SettledWrite
    <3> QED
      BY <3>1
  <2> QED
    BY <1>2, <2>1, <2>2, <2>3
<1>3. CASE PublishReserve
  BY <1>1, <1>3, PublishReserveKeeps, Zenon DEF PublishReserve, runOnlyVars
<1>4. ASSUME NEW r \in ReserveRuns, FetchReserve(r)
      PROVE  ReserveInv' /\ \A s \in ReserveRuns : ~Lands(s)
  <2>1. ReserveInv'
    BY <1>4, FetchKeeps
  <2>2. \A s \in ReserveRuns : write'[s] \in {write[s], NoWrite}
    BY <1>4 DEF FetchReserve, ReserveInv, RunsKnown
  <2> QED
    BY <2>1, <2>2, NoWriteForm
<1>5. ASSUME NEW r \in ReserveRuns, UpdateReserves(r)
      PROVE  ReserveInv' /\ \A s \in ReserveRuns : ~Lands(s)
  <2>1. ReserveInv'
    BY <1>5, UpdateKeeps
  <2>2. \A s \in ReserveRuns : write'[s] = write[s] \/ write'[s].status = "pending"
    BY <1>5 DEF UpdateReserves, ReserveInv, RunsKnown
  <2> QED
    BY <2>1, <2>2
<1>6. CASE \E r \in ReserveRuns : ReserveResponse(r) \/ ReserveCallFails(r)
  BY <1>1, <1>6, EndingKeeps DEF ReserveResponse, ReserveCallFails
<1>7. CASE \/ \E c \in TokenChains, s \in Supplies : MoveToken(c, s)
           \/ \E c \in TokenChains : FinalizeSupply(c)
           \/ \E minted \in Supplies, total \in 0 .. MaxReserve :
                ReportByOther([minted |-> minted, reserve |-> total])
           \/ \E r \in ReserveRuns, c \in TokenChains : ReadSupply(r, c)
           \/ UNCHANGED reserveVars
  <2>1. UNCHANGED <<reserve, porPc, fetched, write, late, ownReserve>>
    BY <1>7 DEF MoveToken, FinalizeSupply, ReportByOther, ReadSupply, reserveVars,
       runOnlyVars, tokenVars, managerVars
  <2> QED
    BY <1>1, <2>1, SuppliesKeep
<1> QED
  BY <1>2, <1>3, <1>4, <1>5, <1>6, <1>7, Zenon DEF ReserveNext, DoPor

\* ReserveManager accepts any report of anybody.  From one report of the
\* workflow's own to a later one the reserve goes back only after executions
\* have overlapped or a write was given up.
THEOREM OwnReportsGoBackOnlyWhenLate == ReserveSpec => OwnReportsGoBackOnlyLate
<1>1. ReserveInv /\ [ReserveNext]_reserveVars => ReserveInv'
  BY ReserveNextInv
<1>2. ReserveInv /\ [ReserveNext]_reserveVars
        => [\A r \in ReserveRuns :
              write[r].status = "pending" /\ write'[r].status = "landed" /\ ~late' =>
                manager'.reserve >= ownReserve]_reserveVars
  BY ReserveNextInv
<1> QED
  BY <1>1, <1>2, ReserveInitInv, PTL DEF ReserveSpec, OwnReportsGoBackOnlyLate

-----------------------------------------------------------------------------
(* The supply that a report gives.                                         *)

LEMMA TokenConstants ==
  /\ IsFiniteSet(TokenChains)
  /\ Issued \in Nat /\ MaxReserve \in Nat /\ MaxFaults \in Nat
  /\ NotRead \notin Nat
BY ReserveAssumption DEF ReserveAssumption

\* Only an execution that is reading supplies has any.
ReadsForgotten ==
  \A r \in ReserveRuns, c \in TokenChains : porPc[r] # "supply" => supplies[r][c] = NotRead

\* While no token moves, the heads and the finalized blocks of all chains agree
\* and hold all tokens, and so does what an execution has read.
ReadsWhileStill ==
  \A r \in ReserveRuns : still[r] =>
    /\ finalSupply = supply /\ SumFunction(supply) = Issued
    /\ \A c \in TokenChains : supplies[r][c] \in {supply[c], NotRead}
    /\ write[r].status = "pending" => write[r].minted = Issued

SupplyInv == ReserveTypeOK /\ ReadsForgotten /\ ReadsWhileStill

Writes ==
  [status : {"none", "pending", "landed", "failed"}, minted : Nat, reserve : 0 .. MaxReserve]

LEMMA NoWriteIsWrite == NoWrite \in Writes /\ NoWrite.status = "none"
BY TokenConstants DEF NoWrite, Writes

LEMMA SuppliesSum ==
  ASSUME NEW f \in [TokenChains -> Supplies]
  PROVE  SumFunction(f) \in Nat
<1>1. \A c \in TokenChains : f[c] \in Nat
  BY TokenConstants DEF Supplies
<1>2. DOMAIN f = TokenChains
  OBVIOUS
<1>3. SumFunctionOnSet(f, TokenChains) \in Nat
  BY <1>1, TokenConstants, SumOfNats
<1> QED
  BY <1>2, <1>3 DEF SumFunction

LEMMA SupplyInitInv == ReserveInit => SupplyInv
<1>1. SUFFICES ASSUME ReserveInit PROVE SupplyInv
  OBVIOUS
<1>2. PICK c \in TokenChains : supply = [d \in TokenChains |-> IF d = c THEN Issued ELSE 0]
  BY <1>1 DEF ReserveInit
<1>3. supply \in [TokenChains -> Supplies]
  BY <1>2, TokenConstants DEF Supplies
<1>4. ReserveTypeOK
  <2>1. /\ supply \in [TokenChains -> Supplies] /\ finalSupply \in [TokenChains -> Supplies]
        /\ reserve \in 0 .. MaxReserve /\ faults \in 0 .. MaxFaults
        /\ porPc \in [ReserveRuns -> {"idle", "supply", "await", "abandoned"}]
        /\ fetched \in [ReserveRuns -> 0 .. MaxReserve]
        /\ manager \in Totals /\ ownReserve \in 0 .. MaxReserve
    BY <1>1, <1>3, TokenConstants DEF ReserveInit, Totals
  <2>2. supplies \in [ReserveRuns -> [TokenChains -> Supplies \union {NotRead}]]
    BY <1>1 DEF ReserveInit
  <2>3. write \in [ReserveRuns -> Writes]
    BY <1>1, NoWriteIsWrite DEF ReserveInit
  <2>4. still \in [ReserveRuns -> BOOLEAN] /\ late \in BOOLEAN
    BY <1>1, Zenon DEF ReserveInit
  <2> QED
    BY <2>1, <2>2, <2>3, <2>4, Zenon DEF ReserveTypeOK, Writes
<1>5. SumFunction(supply) = Issued
  <2> DEFINE zero == [d \in TokenChains |-> 0]
  <2>1. zero \in [TokenChains -> Nat] /\ zero[c] = 0 /\ supply = [zero EXCEPT ![c] = Issued]
    BY <1>2
  <2>2. SumFunction(zero) = 0
    BY TokenConstants, SumOfZeroFunction
  <2> HIDE DEF zero
  <2>3. SumFunction([zero EXCEPT ![c] = Issued]) = SumFunction(zero) + (Issued - zero[c])
    BY <2>1, TokenConstants, SumOfUpdate
  <2> QED
    BY <2>1, <2>2, <2>3, TokenConstants
<1>6. ReadsForgotten
  BY <1>1 DEF ReserveInit, ReadsForgotten
<1>7. ReadsWhileStill
  BY <1>1, <1>5, NoWriteIsWrite DEF ReserveInit, ReadsWhileStill
<1> QED
  BY <1>4, <1>6, <1>7 DEF SupplyInv

\* Tokens that move, and blocks that become final, end the stillness.
LEMMA MovingKeepsSupply ==
  ASSUME SupplyInv,
         \/ \E c \in TokenChains, s \in Supplies : MoveToken(c, s)
         \/ \E c \in TokenChains : FinalizeSupply(c)
  PROVE  SupplyInv'
<1>1. /\ still' = [r \in ReserveRuns |-> FALSE]
      /\ UNCHANGED <<reserve, faults, porPc, fetched, supplies, write, late, managerVars>>
  BY DEF MoveToken, FinalizeSupply, runOnlyVars
<1>2. /\ supply' \in [TokenChains -> Supplies]
      /\ finalSupply' \in [TokenChains -> Supplies]
  BY ZenonT(30) DEF MoveToken, FinalizeSupply, SupplyInv, ReserveTypeOK
<1>3. ReserveTypeOK'
  <2>1. still' \in [ReserveRuns -> BOOLEAN]
    BY <1>1
  <2> QED
    BY <1>1, <1>2, <2>1 DEF SupplyInv, ReserveTypeOK, managerVars
<1>4. ReadsForgotten' /\ ReadsWhileStill'
  BY <1>1 DEF SupplyInv, ReadsForgotten, ReadsWhileStill
<1> QED
  BY <1>3, <1>4 DEF SupplyInv

LEMMA PublishKeepsSupply == SupplyInv /\ PublishReserve => SupplyInv'
<1>1. SUFFICES ASSUME SupplyInv, PublishReserve PROVE SupplyInv'
  OBVIOUS
<1>2. /\ reserve' \in 0 .. MaxReserve
      /\ UNCHANGED <<supply, finalSupply, still, faults, porPc, fetched, supplies, write, late,
                     managerVars>>
  BY <1>1, TokenConstants
  DEF PublishReserve, SupplyInv, ReserveTypeOK, tokenVars, runOnlyVars
<1>3. ReserveTypeOK'
  BY <1>1, <1>2 DEF SupplyInv, ReserveTypeOK, managerVars
<1>4. ReadsForgotten' /\ ReadsWhileStill'
  BY <1>1, <1>2 DEF SupplyInv, ReadsForgotten, ReadsWhileStill
<1> QED
  BY <1>3, <1>4 DEF SupplyInv

\* An execution starts with no supplies, and knows whether tokens are moving.
LEMMA FetchKeepsSupply ==
  ASSUME SupplyInv, NEW r \in ReserveRuns, FetchReserve(r)
  PROVE  SupplyInv'
<1>1. ReserveTypeOK /\ ReadsForgotten /\ ReadsWhileStill
  BY DEF SupplyInv
<1>2. PICK quiet \in BOOLEAN : /\ quiet <=> finalSupply = supply /\ OnTheirWay = 0
                               /\ still' = [still EXCEPT ![r] = quiet]
  BY Zenon DEF FetchReserve
<1>3. /\ porPc[r] = "idle" /\ porPc' = [porPc EXCEPT ![r] = "supply"]
      /\ fetched' = [fetched EXCEPT ![r] = reserve]
      /\ write' = [write EXCEPT ![r] = NoWrite]
      /\ UNCHANGED <<supply, finalSupply, reserve, faults, supplies, managerVars>>
  BY DEF FetchReserve
<1>4. late' \in BOOLEAN
  BY <1>1, Zenon DEF FetchReserve, ReserveTypeOK
<1>5. ReserveTypeOK'
  <2>1. write \in [ReserveRuns -> Writes] /\ still \in [ReserveRuns -> BOOLEAN]
    BY <1>1 DEF ReserveTypeOK, Writes
  <2>2. write' \in [ReserveRuns -> Writes]
    BY <1>3, <2>1, NoWriteIsWrite
  <2>3. still' \in [ReserveRuns -> BOOLEAN]
    BY <1>2, <2>1
  <2>4. /\ porPc' \in [ReserveRuns -> {"idle", "supply", "await", "abandoned"}]
        /\ fetched' \in [ReserveRuns -> 0 .. MaxReserve]
    BY <1>1, <1>3 DEF ReserveTypeOK
  <2> QED
    BY <1>1, <1>3, <1>4, <2>2, <2>3, <2>4 DEF ReserveTypeOK, Writes, managerVars
<1>6. ReadsForgotten'
  BY <1>1, <1>3 DEF ReadsForgotten, ReserveTypeOK
<1>7. quiet => finalSupply = supply /\ SumFunction(supply) = Issued
  <2>1. SumFunction(supply) \in Nat
    BY <1>1, SuppliesSum DEF ReserveTypeOK
  <2> QED
    BY <1>2, <2>1, TokenConstants DEF OnTheirWay
<1>8. still'[r] = quiet /\ \A s \in ReserveRuns : s # r => still'[s] = still[s]
  BY <1>1, <1>2 DEF ReserveTypeOK
<1>9. ReadsWhileStill'
  <2> SUFFICES ASSUME NEW s \in ReserveRuns, still'[s]
               PROVE  /\ finalSupply = supply /\ SumFunction(supply) = Issued
                      /\ \A c \in TokenChains : supplies[s][c] \in {supply[c], NotRead}
                      /\ write'[s].status = "pending" => write'[s].minted = Issued
    BY <1>3 DEF ReadsWhileStill
  <2>1. CASE s = r
    <3>1. write'[s].status = "none"
      BY <1>1, <1>3, <2>1, NoWriteIsWrite DEF ReserveTypeOK
    <3>2. \A c \in TokenChains : supplies[s][c] = NotRead
      BY <1>1, <1>3, <2>1 DEF ReadsForgotten
    <3> QED
      BY <1>7, <1>8, <2>1, <3>1, <3>2
  <2>2. CASE s # r
    <3>1. still[s] /\ write'[s] = write[s]
      BY <1>1, <1>3, <1>8, <2>2 DEF ReserveTypeOK
    <3> QED
      BY <1>1, <3>1 DEF ReadsWhileStill
  <2> QED
    BY <2>1, <2>2
<1> QED
  BY <1>5, <1>6, <1>9 DEF SupplyInv

LEMMA ReadKeepsSupply ==
  ASSUME SupplyInv, NEW r \in ReserveRuns, NEW c \in TokenChains, ReadSupply(r, c)
  PROVE  SupplyInv'
<1>1. ReserveTypeOK /\ ReadsForgotten /\ ReadsWhileStill
  BY DEF SupplyInv
<1>2. PICK amount \in Supplies : amount = finalSupply[c]
  BY <1>1 DEF ReserveTypeOK
<1>3. /\ porPc[r] = "supply" /\ supplies' = [supplies EXCEPT ![r][c] = amount]
      /\ UNCHANGED <<supply, finalSupply, still, reserve, faults, porPc, fetched, write, late,
                     managerVars>>
  BY <1>2 DEF ReadSupply, tokenVars
<1>4. ReserveTypeOK'
  <2>1. supplies' \in [ReserveRuns -> [TokenChains -> Supplies \union {NotRead}]]
    BY <1>1, <1>3 DEF ReserveTypeOK
  <2> QED
    BY <1>1, <1>3, <2>1 DEF ReserveTypeOK, managerVars
<1>5. \A s \in ReserveRuns, d \in TokenChains :
        supplies'[s][d] = IF s = r /\ d = c THEN amount ELSE supplies[s][d]
  BY <1>1, <1>3 DEF ReserveTypeOK
<1>6. ReadsForgotten'
  BY <1>1, <1>3, <1>5 DEF ReadsForgotten
<1>7. ReadsWhileStill'
  BY <1>1, <1>2, <1>3, <1>5 DEF ReadsWhileStill
<1> QED
  BY <1>4, <1>6, <1>7 DEF SupplyInv

\* Supplies that were all read while no token moved are what the chains hold.
LEMMA UpdateKeepsSupply ==
  ASSUME SupplyInv, NEW r \in ReserveRuns, UpdateReserves(r)
  PROVE  SupplyInv'
<1>1. ReserveTypeOK /\ ReadsForgotten /\ ReadsWhileStill
  BY DEF SupplyInv
<1>2. supplies[r] \in [TokenChains -> Supplies]
  BY <1>1 DEF ReserveTypeOK, UpdateReserves
<1>3. PICK total \in Nat : total = SumFunction(supplies[r])
  BY <1>2, SuppliesSum
<1>4. PICK fresh \in 0 .. MaxReserve : fresh = fetched[r]
  BY <1>1 DEF ReserveTypeOK
<1>5. PICK report \in Writes : report.minted = total /\ write' = [write EXCEPT ![r] = report]
  <2>1. [status |-> "pending", minted |-> total, reserve |-> fresh] \in Writes
    BY DEF Writes
  <2>2. write' = [write EXCEPT ![r] =
                    [status |-> "pending", minted |-> total, reserve |-> fresh]]
    BY <1>3, <1>4 DEF UpdateReserves, TotalSupply
  <2> QED
    BY <2>1, <2>2
<1>6. /\ porPc' = [porPc EXCEPT ![r] = "await"]
      /\ fetched' = [fetched EXCEPT ![r] = 0]
      /\ supplies' = [supplies EXCEPT ![r] = [c \in TokenChains |-> NotRead]]
      /\ UNCHANGED <<supply, finalSupply, still, reserve, faults, late, managerVars>>
  BY DEF UpdateReserves, Forget, tokenVars
<1>7. ReserveTypeOK'
  <2>1. write' \in [ReserveRuns -> Writes]
    BY <1>1, <1>5 DEF ReserveTypeOK, Writes
  <2>2. /\ porPc' \in [ReserveRuns -> {"idle", "supply", "await", "abandoned"}]
        /\ fetched' \in [ReserveRuns -> 0 .. MaxReserve]
        /\ supplies' \in [ReserveRuns -> [TokenChains -> Supplies \union {NotRead}]]
    BY <1>1, <1>6, TokenConstants DEF ReserveTypeOK
  <2> QED
    BY <1>1, <1>6, <2>1, <2>2 DEF ReserveTypeOK, Writes, managerVars
<1>8. ReadsForgotten'
  BY <1>1, <1>6 DEF ReadsForgotten, ReserveTypeOK
<1>9. still[r] => total = Issued
  <2>1. SUFFICES ASSUME still[r] PROVE total = Issued
    OBVIOUS
  <2>2. /\ SumFunction(supply) = Issued
        /\ \A c \in TokenChains : supplies[r][c] \in {supply[c], NotRead}
    BY <1>1, <2>1 DEF ReadsWhileStill
  <2>3. \A c \in TokenChains : supplies[r][c] = supply[c]
    BY <2>2 DEF UpdateReserves
  <2>4. supplies[r] = supply
    BY <1>1, <1>2, <2>3 DEF ReserveTypeOK
  <2> QED
    BY <1>3, <2>2, <2>4
<1>10. ReadsWhileStill'
  <2>1. \A s \in ReserveRuns : s # r => write'[s] = write[s] /\ supplies'[s] = supplies[s]
    BY <1>1, <1>5, <1>6 DEF ReserveTypeOK
  <2>2. write'[r].minted = total /\ \A c \in TokenChains : supplies'[r][c] = NotRead
    BY <1>1, <1>5, <1>6 DEF ReserveTypeOK
  <2> QED
    BY <1>1, <1>6, <1>9, <2>1, <2>2 DEF ReadsWhileStill
<1> QED
  BY <1>7, <1>8, <1>10 DEF SupplyInv

\* What lands, fails or ends adds no pending report and reads nothing.
LEMMA OthersKeepSupply ==
  ASSUME SupplyInv, NEW r \in ReserveRuns,
         \/ ExecuteReserveReport(r) \/ LoseReserveReport(r)
         \/ ReserveResponse(r) \/ ReserveCallFails(r)
  PROVE  SupplyInv'
<1>1. ReserveTypeOK /\ ReadsForgotten /\ ReadsWhileStill
  BY DEF SupplyInv
<1>2. UNCHANGED <<supply, finalSupply, still, reserve>>
  BY DEF ExecuteReserveReport, LoseReserveReport, ReserveResponse, ReserveCallFails, tokenVars
<1>3. faults' \in 0 .. MaxFaults /\ late' \in BOOLEAN
  <2>1. faults' \in 0 .. MaxFaults
    BY <1>1, TokenConstants DEF ReserveTypeOK, Fault, ExecuteReserveReport, LoseReserveReport,
                                ReserveResponse, ReserveCallFails
  <2>2. late' \in BOOLEAN
    BY <1>1, Zenon DEF ReserveTypeOK, ExecuteReserveReport, LoseReserveReport,
                       ReserveResponse, ReserveCallFails
  <2> QED
    BY <2>1, <2>2
<1>4. PICK place \in {"idle", "await", "supply", "abandoned"} :
        /\ porPc' = [porPc EXCEPT ![r] = place]
        /\ place = "supply" => porPc[r] = "supply"
  <2>1. CASE ExecuteReserveReport(r) \/ LoseReserveReport(r)
    BY <1>1, <2>1 DEF ExecuteReserveReport, LoseReserveReport, Settled, ReserveTypeOK
  <2>2. CASE ReserveResponse(r) \/ ReserveCallFails(r)
    BY <2>2 DEF ReserveResponse, ReserveCallFails
  <2> QED
    BY <2>1, <2>2
<1>5. /\ fetched' = fetched \/ fetched' = [fetched EXCEPT ![r] = 0]
      /\ \/ supplies' = supplies /\ (porPc[r] # "supply" \/ place = "supply")
         \/ supplies' = [supplies EXCEPT ![r] = [c \in TokenChains |-> NotRead]]
  <2>1. CASE ExecuteReserveReport(r) \/ LoseReserveReport(r)
    <3>1. /\ fetched' = fetched /\ supplies' = supplies
          /\ porPc' = [porPc EXCEPT ![r] = IF @ = "abandoned" THEN "idle" ELSE @]
      BY <2>1 DEF ExecuteReserveReport, LoseReserveReport, Settled
    <3>2. porPc[r] = "supply" => place = "supply"
      BY <1>1, <1>4, <3>1 DEF ReserveTypeOK
    <3> QED
      BY <3>1, <3>2
  <2>2. CASE ReserveResponse(r)
    BY <2>2 DEF ReserveResponse
  <2>3. CASE ReserveCallFails(r)
    BY <2>3 DEF ReserveCallFails, Forget
  <2> QED
    BY <2>1, <2>2, <2>3
<1>6. \/ write' = write
      \/ \E status \in {"landed", "failed"} : write' = [write EXCEPT ![r].status = status]
  BY DEF ExecuteReserveReport, LoseReserveReport, ReserveResponse, ReserveCallFails
<1>7. write' \in [ReserveRuns -> Writes]
  <2>1. write \in [ReserveRuns -> Writes]
    BY <1>1 DEF ReserveTypeOK, Writes
  <2> QED
    BY <1>6, <2>1 DEF Writes
<1>8. manager' \in Totals /\ ownReserve' \in 0 .. MaxReserve
  BY <1>1 DEF ReserveTypeOK, Totals, ExecuteReserveReport, LoseReserveReport, ReserveResponse,
              ReserveCallFails, managerVars
<1>9. ReserveTypeOK'
  <2>1. porPc' \in [ReserveRuns -> {"idle", "supply", "await", "abandoned"}]
    BY <1>1, <1>4 DEF ReserveTypeOK
  <2>2. fetched' \in [ReserveRuns -> 0 .. MaxReserve]
    BY <1>1, <1>5, TokenConstants, SMTT(20) DEF ReserveTypeOK
  <2>3. supplies' \in [ReserveRuns -> [TokenChains -> Supplies \union {NotRead}]]
    BY <1>1, <1>5 DEF ReserveTypeOK
  <2> QED
    BY <1>1, <1>2, <1>3, <1>7, <1>8, <2>1, <2>2, <2>3 DEF ReserveTypeOK, Writes
<1>10. ReadsForgotten'
  BY <1>1, <1>4, <1>5 DEF ReadsForgotten, ReserveTypeOK
<1>11. \A s \in ReserveRuns :
         write'[s].status = "pending" => write'[s] = write[s]
  BY <1>1, <1>6 DEF ReserveTypeOK
<1>12. \A s \in ReserveRuns, c \in TokenChains :
         supplies'[s][c] \in {supplies[s][c], NotRead}
  BY <1>1, <1>5, SMTT(20) DEF ReserveTypeOK
<1>13. ReadsWhileStill'
  BY <1>1, <1>2, <1>11, <1>12 DEF ReadsWhileStill
<1> QED
  BY <1>9, <1>10, <1>13 DEF SupplyInv

\* What somebody else reports touches only the manager.
LEMMA OtherReportKeepsSupply ==
  ASSUME SupplyInv, NEW minted \in Supplies, NEW total \in 0 .. MaxReserve,
         ReportByOther([minted |-> minted, reserve |-> total])
  PROVE  SupplyInv'
<1>1. /\ manager' = [minted |-> minted, reserve |-> total]
      /\ faults < MaxFaults /\ faults' = faults + 1
      /\ UNCHANGED <<tokenVars, reserve, runOnlyVars, late, ownReserve>>
  BY DEF ReportByOther, Fault
<1>2. manager' \in Totals /\ faults' \in 0 .. MaxFaults
  BY <1>1, TokenConstants DEF SupplyInv, ReserveTypeOK, Totals, Supplies
<1>3. ReserveTypeOK'
  BY <1>1, <1>2 DEF SupplyInv, ReserveTypeOK, tokenVars, runOnlyVars
<1>4. ReadsForgotten' /\ ReadsWhileStill'
  BY <1>1 DEF SupplyInv, ReadsForgotten, ReadsWhileStill, tokenVars, runOnlyVars
<1> QED
  BY <1>3, <1>4 DEF SupplyInv

LEMMA SupplyStep == SupplyInv /\ [ReserveNext]_reserveVars => SupplyInv'
<1>1. SUFFICES ASSUME SupplyInv, [ReserveNext]_reserveVars PROVE SupplyInv'
  OBVIOUS
<1>2. CASE UNCHANGED reserveVars
  BY <1>1, <1>2 DEF reserveVars, SupplyInv, ReserveTypeOK, ReadsForgotten, ReadsWhileStill
<1> QED
  BY <1>1, <1>2, MovingKeepsSupply, PublishKeepsSupply, FetchKeepsSupply, ReadKeepsSupply,
     UpdateKeepsSupply, OthersKeepSupply, OtherReportKeepsSupply, Zenon DEF ReserveNext, DoPor

LEMMA SupplyInvariant == ReserveSpec => []SupplyInv
BY SupplyInitInv, SupplyStep, PTL DEF ReserveSpec

\* The supplies are read one after the other, yet a report whose supplies were
\* read while no token moved gives all tokens in existence.
THEOREM StillSuppliesAreExact == ReserveSpec => []StillSupplyIsExact
<1>1. SupplyInv => StillSupplyIsExact
  BY DEF SupplyInv, ReadsWhileStill, StillSupplyIsExact
<1> QED
  BY <1>1, SupplyInvariant, PTL

=============================================================================
