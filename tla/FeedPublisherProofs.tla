------------------------- MODULE FeedPublisherProofs -------------------------
(***************************************************************************)
(* Proofs about FeedPublisher, for any number of chains and executions and *)
(* any bounds on time, versions and faults.                                *)
(*                                                                         *)
(* The central fact is about stamps: as long as executions do not overlap, *)
(* of two reports that are in a cache or on their way, the one with the    *)
(* earlier stamp does not carry the later value.                           *)
(***************************************************************************)
EXTENDS FeedPublisher, TLAPS

LEMMA ConstantTypes ==
  /\ Len(Order) \in Nat /\ Len(Order) >= 1
  /\ \A i \in 1 .. Len(Order) : Order[i] \in Chains
  /\ MaxTime \in Nat \ {0} /\ MaxVersion \in Nat \ {0} /\ MaxEnvOps \in Nat
BY PublisherAssumption DEF PublisherAssumption

USE ConstantTypes

\* A report some cache holds, or some transaction may still bring.
InLog(report) == \E c \in Chains : \E i \in 1 .. Len(log[c]) : log[c][i] = report
OnItsWay(report) == \E r \in Runs : tx[r].status = "pending" /\ tx[r].report = report
Known(report) == InLog(report) \/ OnItsWay(report)

\* Where an execution is determines what it waits for.
Placed(r) ==
  /\ pc[r] = "await" => /\ position[r] <= Len(Order)
                        /\ tx[r] \in Txs
                        /\ tx[r].chain = Order[position[r]]
  /\ tx[r].status = "pending" => pc[r] \in {"await", "abandoned"}

\* What an execution has counted is in the caches.
Landed(r) == \A c \in Chains : stamps[r][c] > 0 =>
               c \in skipped[r] \/ LastTimestamp(c) >= stamps[r][c]
Answered(r) == pc[r] = "await" /\ tx[r].status = "executed" =>
                 \/ tx[r].chain \in skipped[r]
                 \/ LastTimestamp(tx[r].chain) >= tx[r].report.timestamp
Stamped(r) ==
  /\ UnderWay(r) => \A i \in 1 .. position[r] - 1 : stamps[r][Order[i]] > 0
  /\ result[r] = "done" => \A c \in Chains : stamps[r][c] > 0

Counts(r) == Placed(r) /\ Landed(r) /\ Answered(r) /\ Stamped(r)
AllCount == \A r \in Runs : Counts(r)

\* Nobody has stamped in the future or fetched what was not yet published.
PastOnly ==
  /\ \A report \in Reports : Known(report) =>
       report.timestamp <= clock /\ report.value <= version
  /\ \A r \in Runs : fetched[r] <= version

\* While executions do not overlap: there is at most one, nothing known is
\* newer than what it has fetched, and values follow stamps.
InOrder ==
  ~overlapped =>
    /\ \A r, s \in Runs : UnderWay(r) /\ UnderWay(s) => r = s
    /\ \A r \in Runs, report \in Reports :
         UnderWay(r) /\ Known(report) => report.value <= fetched[r]
    /\ \A a, b \in Reports :
         Known(a) /\ Known(b) /\ a.timestamp < b.timestamp => a.value <= b.value

PublisherInv ==
  /\ PublisherTypeOK /\ AllCount
  /\ PastOnly /\ InOrder /\ NoRegressionWithoutOverlap

-----------------------------------------------------------------------------
(* The initial state.                                                      *)

LEMMA InitPublisherInv == PublisherInit => PublisherInv
<1> SUFFICES ASSUME PublisherInit PROVE PublisherInv
  OBVIOUS
<1> USE DEF PublisherInit
<1>1. PublisherTypeOK
  <2>1. log \in [Chains -> Seq(Reports)]
    <3>1. <<>> \in Seq(Reports)
      OBVIOUS
    <3> QED BY <3>1
  <2>2. 1 \in Times /\ 1 \in Versions /\ 1 \in 1 .. Len(Order) + 1
    BY DEF Times, Versions
  <2>3. stamps \in [Runs -> [Chains -> 0 .. MaxTime]]
    OBVIOUS
  <2>4. /\ clock \in Times /\ version \in Versions
        /\ position \in [Runs -> 1 .. Len(Order) + 1]
        /\ fetched \in [Runs -> Versions]
    BY <2>2
  <2>5. envOps \in 0 .. MaxEnvOps /\ permitted \subseteq Chains
    OBVIOUS
  <2>6. available \in BOOLEAN /\ overlapped \in BOOLEAN
    OBVIOUS
  <2>7. /\ pc \in [Runs -> {"idle", "write", "await", "abandoned"}]
        /\ tx \in [Runs -> Txs \union {NoTx}]
        /\ result \in [Runs -> {"none", "done", "failed"}]
        /\ skipped \in [Runs -> SUBSET Chains]
    OBVIOUS
  <2> QED BY <2>1, <2>3, <2>4, <2>5, <2>6, <2>7 DEF PublisherTypeOK
<1>3. AllCount
  BY DEF AllCount, Counts, Placed, Landed, Answered, Stamped, UnderWay, NoTx
<1>4. \A report \in Reports : ~Known(report)
  BY DEF Known, InLog, OnItsWay, NoTx
<1>5. PastOnly
  BY <1>4 DEF PastOnly
<1>6. InOrder
  BY <1>4 DEF InOrder, UnderWay
<1>7. NoRegressionWithoutOverlap
  BY DEF NoRegressionWithoutOverlap
<1> QED BY <1>1, <1>3, <1>5, <1>6, <1>7 DEF PublisherInv

-----------------------------------------------------------------------------
(* Reports that are known.                                                 *)

LEMMA LastTimestampType ==
  ASSUME log \in [Chains -> Seq(Reports)], NEW c \in Chains
  PROVE  LastTimestamp(c) \in Int
<1>1. CASE log[c] = <<>>
  BY <1>1 DEF LastTimestamp
<1>2. CASE log[c] # <<>>
  <2>1. log[c][Len(log[c])] \in Reports
    BY <1>2
  <2>2. log[c][Len(log[c])].timestamp \in 1 .. MaxTime
    BY <2>1 DEF Reports, Times
  <2>3. LastTimestamp(c) = log[c][Len(log[c])].timestamp
    BY <1>2 DEF LastTimestamp
  <2> QED BY <2>2, <2>3
<1> QED BY <1>1, <1>2

\* A step that adds nothing to a log and starts no transaction.
LEMMA KnownFrame ==
  ASSUME log' = log, \A s \in Runs : tx'[s].status = "pending" => tx'[s] = tx[s],
         NEW report, Known(report)'
  PROVE  Known(report)
BY DEF Known, InLog, OnItsWay

\* A transaction that is settled keeps its chain and its report.
LEMMA Settled ==
  ASSUME tx \in [Runs -> Txs \union {NoTx}], NEW r \in Runs, tx[r].status = "pending",
         NEW outcome \in {"executed", "failed"}, tx' = [tx EXCEPT ![r].status = outcome]
  PROVE  /\ tx[r] \in Txs /\ tx'[r] \in Txs
         /\ tx'[r].chain = tx[r].chain /\ tx'[r].report = tx[r].report
         /\ tx'[r].status = outcome
         /\ \A s \in Runs : s # r => tx'[s] = tx[s]
         /\ tx' \in [Runs -> Txs \union {NoTx}]
<1>1. tx[r] \in Txs
  BY DEF NoTx
<1>2. tx'[r] = [tx[r] EXCEPT !.status = outcome]
  OBVIOUS
<1>3. /\ tx'[r].chain = tx[r].chain /\ tx'[r].report = tx[r].report
      /\ tx'[r].status = outcome /\ tx'[r] \in Txs
  BY <1>1, <1>2 DEF Txs
<1>4. \A s \in Runs : s # r => tx'[s] = tx[s]
  OBVIOUS
<1>5. tx' \in [Runs -> Txs \union {NoTx}]
  BY <1>3, <1>4
<1> QED BY <1>1, <1>3, <1>4, <1>5

\* What appending to the log of one chain gives.
LEMMA Grown ==
  ASSUME log \in [Chains -> Seq(Reports)], NEW c \in Chains, NEW report \in Reports,
         log' = [log EXCEPT ![c] = Append(@, report)]
  PROVE  /\ log' \in [Chains -> Seq(Reports)]
         /\ \A d \in Chains : d # c => log'[d] = log[d]
         /\ Len(log[c]) \in Nat /\ Len(log'[c]) = Len(log[c]) + 1
         /\ log'[c][Len(log[c]) + 1] = report
         /\ \A i \in 1 .. Len(log[c]) : log'[c][i] = log[c][i]
<1>1. log'[c] = Append(log[c], report) /\ log[c] \in Seq(Reports)
  OBVIOUS
<1>2. /\ Append(log[c], report) \in Seq(Reports)
      /\ Len(log[c]) \in Nat /\ Len(Append(log[c], report)) = Len(log[c]) + 1
      /\ Append(log[c], report)[Len(log[c]) + 1] = report
      /\ \A i \in 1 .. Len(log[c]) : Append(log[c], report)[i] = log[c][i]
  BY <1>1
<1>3. \A d \in Chains : d # c => log'[d] = log[d]
  OBVIOUS
<1>4. log' \in [Chains -> Seq(Reports)]
  BY <1>1, <1>2, <1>3
<1> QED BY <1>1, <1>2, <1>3, <1>4

\* What executing a report does to the logs: it lands, or it is not the newest,
\* or its chain does not permit it.
LEMMA Landing ==
  ASSUME PublisherTypeOK, NEW r \in Runs, ExecuteReport(r)
  PROVE  /\ tx[r] \in Txs /\ tx[r].chain \in Chains /\ tx[r].report \in Reports
         /\ \/ /\ log' = log
               /\ \/ tx[r].chain \notin permitted
                  \/ LastTimestamp(tx[r].chain) >= tx[r].report.timestamp
            \/ /\ tx[r].report.timestamp > LastTimestamp(tx[r].chain)
               /\ log' = [log EXCEPT ![tx[r].chain] = Append(@, tx[r].report)]
<1>1. tx[r] \in Txs
  <2>1. tx[r] \in Txs \union {NoTx}
    BY DEF PublisherTypeOK
  <2>2. tx[r].status = "pending"
    BY DEF ExecuteReport
  <2> QED BY <2>1, <2>2 DEF NoTx
<1>2. tx[r].chain \in Chains /\ tx[r].report \in Reports
  BY <1>1 DEF Txs
<1>3. tx[r].report.timestamp \in Int
  BY <1>2 DEF Reports, Times
<1>4. LastTimestamp(tx[r].chain) \in Int
  BY <1>2, LastTimestampType DEF PublisherTypeOK
<1> QED BY <1>1, <1>2, <1>3, <1>4 DEF ExecuteReport, Newer

\* Landing moves a report from its way into a log.
LEMMA KnownLanding ==
  ASSUME PublisherTypeOK, NEW r \in Runs, ExecuteReport(r),
         NEW report, Known(report)'
  PROVE  Known(report)
<1> DEFINE c == tx[r].chain
           new == tx[r].report
<1>0. /\ c \in Chains /\ new \in Reports /\ OnItsWay(new)
      /\ tx'[r].status = "executed" /\ \A s \in Runs : s # r => tx'[s] = tx[s]
  <2>1. tx[r].status = "pending" /\ tx' = [tx EXCEPT ![r].status = "executed"]
    BY DEF ExecuteReport
  <2>2. tx \in [Runs -> Txs \union {NoTx}]
    BY DEF PublisherTypeOK
  <2>3. tx'[r].status = "executed" /\ \A s \in Runs : s # r => tx'[s] = tx[s]
    BY <2>1, <2>2, Settled
  <2> QED BY <2>1, <2>3, Landing DEF OnItsWay
<1>1. CASE OnItsWay(report)'
  BY <1>0, <1>1 DEF Known, OnItsWay
<1>2. CASE InLog(report)'
  <2>0. PICK d \in Chains : \E j \in 1 .. Len(log'[d]) : log'[d][j] = report
    BY <1>2 DEF InLog
  <2>1. PICK i \in 1 .. Len(log'[d]) : log'[d][i] = report
    BY <2>0
  <2>2. CASE log'[d] = log[d]
    BY <2>1, <2>2 DEF Known, InLog
  <2>3. CASE log'[d] # log[d]
    <3>1. log' = [log EXCEPT ![c] = Append(@, new)]
      BY <2>3, Landing
    <3>2. log \in [Chains -> Seq(Reports)]
      BY DEF PublisherTypeOK
    <3>0. d = c
      BY <2>3, <3>1, <3>2
    <3>3. /\ Len(log[c]) \in Nat /\ Len(log'[c]) = Len(log[c]) + 1
          /\ log'[c][Len(log[c]) + 1] = new
          /\ \A k \in 1 .. Len(log[c]) : log'[c][k] = log[c][k]
      BY <3>1, <3>2, <1>0, Grown
    <3>6. i \in 1 .. Len(log[c]) + 1 /\ log'[c][i] = report
      BY <3>0, <3>3, <2>1
    <3>4. CASE i = Len(log[c]) + 1
      BY <3>3, <3>4, <3>6, <1>0 DEF Known
    <3>5. CASE i \in 1 .. Len(log[c])
      BY <3>3, <3>5, <3>6, <1>0 DEF Known, InLog
    <3>7. i = Len(log[c]) + 1 \/ i \in 1 .. Len(log[c])
      <4>1. Len(log[c]) \in Nat
        BY <3>3
      <4> QED BY <3>6, <4>1
    <3> QED BY <3>4, <3>5, <3>7
  <2> QED BY <2>2, <2>3
<1> QED BY <1>1, <1>2 DEF Known

\* A write adds one report, stamped now, with what was fetched.
LEMMA KnownWrite ==
  ASSUME PublisherTypeOK, NEW r \in Runs, Write(r), NEW report, Known(report)'
  PROVE  Known(report) \/ report = [value |-> fetched[r], timestamp |-> clock]
<1>1. log' = log /\ \A s \in Runs : s # r => tx'[s] = tx[s]
  BY DEF Write, PublisherTypeOK
<1>2. tx'[r].report = [value |-> fetched[r], timestamp |-> clock]
  BY DEF Write, PublisherTypeOK
<1> QED BY <1>1, <1>2 DEF Known, InLog, OnItsWay

-----------------------------------------------------------------------------
(* The environment.                                                        *)

LEMMA EnvironmentStep ==
  ASSUME PublisherInv,
         Tick \/ Publication \/ Ripcord \/ \E c \in Chains : ChangePermission(c)
  PROVE  PublisherInv'
<1>1. /\ UNCHANGED <<log, runVars, overlapped>>
      /\ clock' \in Times /\ version' \in Versions
      /\ clock' >= clock /\ version' >= version
      /\ permitted' \subseteq Chains /\ envOps' \in 0 .. MaxEnvOps
  <2>1. UNCHANGED <<log, runVars, overlapped>>
    BY DEF Tick, Publication, Ripcord, ChangePermission
  <2>2. /\ clock \in 1 .. MaxTime /\ version \in 1 .. MaxVersion
        /\ permitted \subseteq Chains /\ envOps \in 0 .. MaxEnvOps
    BY DEF PublisherInv, PublisherTypeOK, Times, Versions
  <2>3. /\ clock' \in 1 .. MaxTime /\ clock' >= clock
        /\ version' \in 1 .. MaxVersion /\ version' >= version
    <3>1. CASE Tick
      BY <2>2, <3>1 DEF Tick
    <3>2. CASE Publication
      BY <2>2, <3>2 DEF Publication
    <3>3. CASE Ripcord \/ \E c \in Chains : ChangePermission(c)
      BY <2>2, <3>3 DEF Ripcord, ChangePermission
    <3> QED BY <3>1, <3>2, <3>3
  <2>4. permitted' \subseteq Chains
    BY <2>2 DEF Tick, Publication, Ripcord, ChangePermission
  <2>5. envOps' \in 0 .. MaxEnvOps
    BY <2>2 DEF Tick, Publication, Ripcord, ChangePermission, EnvOp
  <2> QED BY <2>1, <2>3, <2>4, <2>5 DEF Times, Versions
<1>2. available' \in BOOLEAN
  <2>1. available' = available \/ available' = ~available
    BY Zenon DEF Tick, Publication, Ripcord, ChangePermission
  <2>2. available \in BOOLEAN
    BY DEF PublisherInv, PublisherTypeOK
  <2> QED BY <2>1, <2>2
<1>3. PublisherTypeOK'
  <2>1. overlapped' \in BOOLEAN
    BY <1>1 DEF PublisherInv, PublisherTypeOK
  <2>2. log' \in [Chains -> Seq(Reports)]
    BY <1>1 DEF PublisherInv, PublisherTypeOK
  <2>3. /\ pc' \in [Runs -> {"idle", "write", "await", "abandoned"}]
        /\ position' \in [Runs -> 1 .. Len(Order) + 1]
        /\ fetched' \in [Runs -> Versions]
        /\ tx' \in [Runs -> Txs \union {NoTx}]
        /\ result' \in [Runs -> {"none", "done", "failed"}]
        /\ stamps' \in [Runs -> [Chains -> 0 .. MaxTime]]
        /\ skipped' \in [Runs -> SUBSET Chains]
    BY <1>1 DEF PublisherInv, PublisherTypeOK, runVars
  <2> QED BY <1>1, <1>2, <2>1, <2>2, <2>3 DEF PublisherTypeOK
<1>5. AllCount'
  BY <1>1 DEF PublisherInv, AllCount, Counts, Placed, Landed, Answered, Stamped, runVars,
              UnderWay, LastTimestamp
<1>6. \A report : Known(report)' => Known(report)
  BY <1>1, KnownFrame DEF runVars
<1>7. PastOnly'
  <2>1. /\ clock \in Int /\ version \in Int /\ clock' \in Int /\ version' \in Int
        /\ clock' >= clock /\ version' >= version
    BY <1>1 DEF PublisherInv, PublisherTypeOK, Times, Versions
  <2>2. \A s \in Runs : fetched'[s] \in Int /\ fetched'[s] <= version
    <3>1. fetched' = fetched /\ fetched \in [Runs -> 1 .. MaxVersion]
      BY <1>1 DEF PublisherInv, PublisherTypeOK, runVars, Versions
    <3>2. \A s \in Runs : fetched[s] \in Int /\ fetched[s] <= version
      BY <3>1 DEF PublisherInv, PastOnly
    <3> QED BY <3>1, <3>2
  <2>3. \A report \in Reports : Known(report)' =>
          /\ report.timestamp \in Int /\ report.value \in Int
          /\ report.timestamp <= clock /\ report.value <= version
    <3>1. \A report \in Reports :
            report.timestamp \in 1 .. MaxTime /\ report.value \in 1 .. MaxVersion
      BY DEF Reports, Times, Versions
    <3> QED BY <3>1, <1>6 DEF PublisherInv, PastOnly
  <2> QED BY <2>1, <2>2, <2>3 DEF PastOnly
<1>8. InOrder'
  BY <1>1, <1>6 DEF PublisherInv, InOrder, UnderWay, runVars
<1>9. NoRegressionWithoutOverlap'
  BY <1>1 DEF PublisherInv, NoRegressionWithoutOverlap
<1> QED BY <1>3, <1>5, <1>7, <1>8, <1>9 DEF PublisherInv

-----------------------------------------------------------------------------
(* Executions.                                                             *)

-----------------------------------------------------------------------------
(* Executions.                                                             *)

\* A step of another execution leaves what this one counts: logs only grow.
LEMMA CountsFrame ==
  ASSUME PublisherTypeOK, NEW s \in Runs, Counts(s),
         pc'[s] = pc[s], position'[s] = position[s], tx'[s] = tx[s],
         result'[s] = result[s], stamps'[s] = stamps[s], skipped'[s] = skipped[s],
         \A c \in Chains : /\ LastTimestamp(c) \in Int /\ LastTimestamp(c)' \in Int
                           /\ LastTimestamp(c)' >= LastTimestamp(c)
  PROVE  Counts(s)'
<1>1. Placed(s)' /\ Stamped(s)'
  BY DEF Counts, Placed, Stamped, UnderWay
<1>2. Landed(s)'
  <2>1. stamps \in [Runs -> [Chains -> 0 .. MaxTime]]
    BY DEF PublisherTypeOK
  <2>2. \A c \in Chains : stamps[s][c] \in Int
    BY <2>1
  <2> QED BY <2>2 DEF Counts, Landed
<1>3. Answered(s)'
  <2> SUFFICES ASSUME pc[s] = "await", tx[s].status = "executed", tx[s].chain \notin skipped[s]
               PROVE  LastTimestamp(tx[s].chain)' >= tx[s].report.timestamp
    BY DEF Answered
  <2>1. tx[s].chain \in Chains /\ tx[s].report.timestamp \in Int
    <3>1. tx[s] \in Txs
      BY DEF Counts, Placed
    <3> QED BY <3>1 DEF Txs, Reports, Times
  <2>2. LastTimestamp(tx[s].chain) >= tx[s].report.timestamp
    BY DEF Counts, Answered
  <2> QED BY <2>1, <2>2
<1> QED BY <1>1, <1>2, <1>3 DEF Counts

LEMMA FetchFailsStep ==
  ASSUME PublisherInv, NEW r \in Runs, FetchFails(r)
  PROVE  PublisherInv'
<1>0. PublisherTypeOK /\ AllCount /\ PastOnly /\ InOrder /\ NoRegressionWithoutOverlap
  BY DEF PublisherInv
<1>1. PublisherTypeOK'
  <2>1. result' \in [Runs -> {"none", "done", "failed"}]
    BY <1>0 DEF PublisherTypeOK, FetchFails
  <2>2. stamps' \in [Runs -> [Chains -> 0 .. MaxTime]]
    BY <1>0 DEF PublisherTypeOK, FetchFails
  <2>3. skipped' \in [Runs -> SUBSET Chains]
    BY <1>0 DEF PublisherTypeOK, FetchFails
  <2>4. /\ pc' \in [Runs -> {"idle", "write", "await", "abandoned"}]
        /\ position' \in [Runs -> 1 .. Len(Order) + 1]
        /\ fetched' \in [Runs -> Versions]
        /\ tx' \in [Runs -> Txs \union {NoTx}]
    BY <1>0 DEF PublisherTypeOK, FetchFails
  <2>5. log' \in [Chains -> Seq(Reports)]
    BY <1>0 DEF PublisherTypeOK, FetchFails
  <2>6. /\ clock' \in Times /\ version' \in Versions /\ permitted' \subseteq Chains
        /\ envOps' \in 0 .. MaxEnvOps
    BY <1>0 DEF PublisherTypeOK, FetchFails
  <2>7. available' \in BOOLEAN /\ overlapped' \in BOOLEAN
    BY <1>0 DEF PublisherTypeOK, FetchFails
  <2> QED BY <2>1, <2>2, <2>3, <2>4, <2>5, <2>6, <2>7 DEF PublisherTypeOK
<1>2. log' = log /\ \A c \in Chains : LastTimestamp(c)' = LastTimestamp(c)
  BY DEF LastTimestamp, FetchFails
<1>3. AllCount'
  <2> SUFFICES ASSUME NEW s \in Runs PROVE Counts(s)'
    BY DEF AllCount
  <2>1. Counts(s) /\ Counts(r)
    BY <1>0 DEF AllCount
  <2>2. CASE s # r
    <3>1. /\ pc'[s] = pc[s] /\ position'[s] = position[s] /\ tx'[s] = tx[s]
          /\ result'[s] = result[s] /\ stamps'[s] = stamps[s] /\ skipped'[s] = skipped[s]
      BY <1>0, <1>2, <2>2 DEF PublisherTypeOK, FetchFails
    <3>2. \A c \in Chains : /\ LastTimestamp(c) \in Int /\ LastTimestamp(c)' \in Int
                            /\ LastTimestamp(c)' >= LastTimestamp(c)
      BY <1>0, <1>2, LastTimestampType DEF PublisherTypeOK
    <3> QED BY <1>0, <2>1, <3>1, <3>2, CountsFrame
  <2>3. CASE s = r
    BY <1>0, <1>2, <2>1, <2>3 DEF Counts, Placed, Landed, Answered, Stamped, UnderWay, PublisherTypeOK, FetchFails
  <2> QED BY <2>2, <2>3
<1>4. \A report : Known(report)' => Known(report)
  BY <1>0, <1>2, KnownFrame DEF PublisherTypeOK, FetchFails
<1>5. PastOnly'
  BY <1>0, <1>4 DEF PastOnly, FetchFails
<1>6. InOrder'
  <2>1. \A s \in Runs : UnderWay(s)' => UnderWay(s) /\ fetched'[s] = fetched[s]
    BY <1>0 DEF PublisherTypeOK, UnderWay, FetchFails
  <2> QED BY <1>0, <1>4, <2>1 DEF InOrder, FetchFails
<1>7. NoRegressionWithoutOverlap'
  BY <1>0, <1>2 DEF NoRegressionWithoutOverlap, FetchFails
<1> QED BY <1>1, <1>3, <1>5, <1>6, <1>7 DEF PublisherInv

LEMMA FetchStep ==
  ASSUME PublisherInv, NEW r \in Runs, Fetch(r)
  PROVE  PublisherInv'
<1>0. PublisherTypeOK /\ AllCount /\ PastOnly /\ InOrder /\ NoRegressionWithoutOverlap
  BY DEF PublisherInv
<1>1. PublisherTypeOK'
  <2>1. pc' \in [Runs -> {"idle", "write", "await", "abandoned"}]
    BY <1>0 DEF PublisherTypeOK, Fetch
  <2>2. position' \in [Runs -> 1 .. Len(Order) + 1]
    BY <1>0 DEF PublisherTypeOK, Fetch
  <2>3. fetched' \in [Runs -> Versions]
    BY <1>0 DEF PublisherTypeOK, Fetch
  <2>4. tx' \in [Runs -> Txs \union {NoTx}]
    BY <1>0 DEF PublisherTypeOK, Fetch
  <2>5. result' \in [Runs -> {"none", "done", "failed"}]
    BY <1>0 DEF PublisherTypeOK, Fetch
  <2>6. stamps' \in [Runs -> [Chains -> 0 .. MaxTime]]
    BY <1>0 DEF PublisherTypeOK, Fetch
  <2>7. skipped' \in [Runs -> SUBSET Chains]
    BY <1>0 DEF PublisherTypeOK, Fetch
  <2>8. overlapped' \in BOOLEAN
    <3>1. overlapped' = (overlapped \/ \E s \in Runs : UnderWay(s))
      BY DEF Fetch
    <3> QED BY Zenon, <3>1
  <2>9. log' \in [Chains -> Seq(Reports)]
    BY <1>0 DEF PublisherTypeOK, Fetch
  <2>10. /\ clock' \in Times /\ version' \in Versions /\ permitted' \subseteq Chains
         /\ envOps' \in 0 .. MaxEnvOps
    BY <1>0 DEF PublisherTypeOK, Fetch
  <2>11. available' \in BOOLEAN
    BY <1>0 DEF PublisherTypeOK, Fetch
  <2> QED BY <2>1, <2>2, <2>3, <2>4, <2>5, <2>6, <2>7, <2>8, <2>9, <2>10, <2>11 DEF PublisherTypeOK
<1>2. log' = log /\ \A c \in Chains : LastTimestamp(c)' = LastTimestamp(c)
  BY DEF LastTimestamp, Fetch
<1>3. AllCount'
  <2> SUFFICES ASSUME NEW s \in Runs PROVE Counts(s)'
    BY DEF AllCount
  <2>1. Counts(s) /\ Counts(r)
    BY <1>0 DEF AllCount
  <2>2. CASE s # r
    <3>1. /\ pc'[s] = pc[s] /\ position'[s] = position[s] /\ tx'[s] = tx[s]
          /\ result'[s] = result[s] /\ stamps'[s] = stamps[s] /\ skipped'[s] = skipped[s]
      BY <1>0, <1>2, <2>2 DEF PublisherTypeOK, Fetch
    <3>2. \A c \in Chains : /\ LastTimestamp(c) \in Int /\ LastTimestamp(c)' \in Int
                            /\ LastTimestamp(c)' >= LastTimestamp(c)
      BY <1>0, <1>2, LastTimestampType DEF PublisherTypeOK
    <3> QED BY <1>0, <2>1, <3>1, <3>2, CountsFrame
  <2>3. CASE s = r
    <3>1. /\ pc'[r] = "write" /\ position'[r] = 1 /\ tx'[r] = NoTx /\ result'[r] = "none"
          /\ \A c \in Chains : stamps'[r][c] = 0
      BY <1>0 DEF PublisherTypeOK, Fetch
    <3>2. Placed(s)' /\ Answered(s)'
      BY <2>3, <3>1 DEF Placed, Answered, NoTx
    <3>3. Landed(s)' /\ Stamped(s)'
      BY <2>3, <3>1 DEF Landed, Stamped
    <3> QED BY <3>2, <3>3 DEF Counts
  <2> QED BY <2>2, <2>3
<1>4. \A report : Known(report)' => Known(report)
  <2>1. \A s \in Runs : tx'[s].status = "pending" => tx'[s] = tx[s]
    BY <1>0 DEF PublisherTypeOK, Fetch, NoTx
  <2> QED BY <1>2, <2>1, KnownFrame
<1>5. PastOnly'
  <2>1. version \in Int
    BY <1>0 DEF PublisherTypeOK, Versions
  <2>2. \A s \in Runs : fetched'[s] = fetched[s] \/ fetched'[s] = version
    BY <1>0 DEF PublisherTypeOK, Fetch
  <2>3. clock' = clock /\ version' = version
    BY DEF Fetch
  <2> QED BY <1>0, <1>4, <2>1, <2>2, <2>3 DEF PastOnly
<1>6. InOrder'
  <2> SUFFICES ASSUME ~overlapped' PROVE InOrder'
    BY DEF InOrder
  <2>1. ~overlapped /\ \A s \in Runs : ~UnderWay(s)
    <3>1. overlapped' = (overlapped \/ \E s \in Runs : UnderWay(s))
      BY DEF Fetch
    <3> QED BY Zenon, <3>1
  <2>2. \A s \in Runs : s # r => ~UnderWay(s)'
    BY <1>0, <2>1 DEF PublisherTypeOK, Fetch, UnderWay
  <2>3. fetched'[r] = version
    BY <1>0 DEF PublisherTypeOK, Fetch
  <2>4. \A report \in Reports : Known(report)' => Known(report) /\ report.value <= version
    BY <1>0, <1>4 DEF PastOnly
  <2> QED BY <1>0, <2>1, <2>2, <2>3, <2>4 DEF InOrder
<1>7. NoRegressionWithoutOverlap'
  BY <1>0, <1>2 DEF NoRegressionWithoutOverlap, Fetch
<1> QED BY <1>1, <1>3, <1>5, <1>6, <1>7 DEF PublisherInv

LEMMA WriteStep ==
  ASSUME PublisherInv, NEW r \in Runs, Write(r)
  PROVE  PublisherInv'
<1>0. PublisherTypeOK /\ AllCount /\ PastOnly /\ InOrder /\ NoRegressionWithoutOverlap
  BY DEF PublisherInv
<1>1. PublisherTypeOK'
  <2>1. pc' \in [Runs -> {"idle", "write", "await", "abandoned"}]
    BY <1>0 DEF PublisherTypeOK, Write
  <2>2. tx' \in [Runs -> Txs \union {NoTx}]
    <3>1. [chain |-> Order[position[r]], status |-> "pending",
           report |-> [value |-> fetched[r], timestamp |-> clock]] \in Txs
      <4>1. Order[position[r]] \in Chains
        BY <1>0 DEF PublisherTypeOK, Write
      <4>2. [value |-> fetched[r], timestamp |-> clock] \in Reports
        BY <1>0 DEF PublisherTypeOK, Reports
      <4> QED BY <4>1, <4>2 DEF Txs
    <3> QED BY <1>0, <3>1 DEF PublisherTypeOK, Write
  <2>3. /\ position' \in [Runs -> 1 .. Len(Order) + 1]
        /\ fetched' \in [Runs -> Versions]
        /\ result' \in [Runs -> {"none", "done", "failed"}]
        /\ stamps' \in [Runs -> [Chains -> 0 .. MaxTime]]
        /\ skipped' \in [Runs -> SUBSET Chains]
    BY <1>0 DEF PublisherTypeOK, Write
  <2>4. log' \in [Chains -> Seq(Reports)]
    BY <1>0 DEF PublisherTypeOK, Write
  <2>5. /\ clock' \in Times /\ version' \in Versions /\ permitted' \subseteq Chains
        /\ envOps' \in 0 .. MaxEnvOps
    BY <1>0 DEF PublisherTypeOK, Write
  <2>6. available' \in BOOLEAN /\ overlapped' \in BOOLEAN
    BY <1>0 DEF PublisherTypeOK, Write
  <2> QED BY <2>1, <2>2, <2>3, <2>4, <2>5, <2>6 DEF PublisherTypeOK
<1>2. log' = log /\ \A c \in Chains : LastTimestamp(c)' = LastTimestamp(c)
  BY DEF LastTimestamp, Write
<1> DEFINE new == [value |-> fetched[r], timestamp |-> clock]
<1>3. AllCount'
  <2> SUFFICES ASSUME NEW s \in Runs PROVE Counts(s)'
    BY DEF AllCount
  <2>1. Counts(s) /\ Counts(r)
    BY <1>0 DEF AllCount
  <2>2. CASE s # r
    <3>1. /\ pc'[s] = pc[s] /\ position'[s] = position[s] /\ tx'[s] = tx[s]
          /\ result'[s] = result[s] /\ stamps'[s] = stamps[s] /\ skipped'[s] = skipped[s]
      BY <1>0, <1>2, <2>2 DEF PublisherTypeOK, Write
    <3>2. \A c \in Chains : /\ LastTimestamp(c) \in Int /\ LastTimestamp(c)' \in Int
                            /\ LastTimestamp(c)' >= LastTimestamp(c)
      BY <1>0, <1>2, LastTimestampType DEF PublisherTypeOK
    <3> QED BY <1>0, <2>1, <3>1, <3>2, CountsFrame
  <2>3. CASE s = r
    <3>1. /\ tx'[r] \in Txs /\ tx'[r].chain = Order[position[r]] /\ tx'[r].status = "pending"
          /\ pc'[r] = "await" /\ position[r] <= Len(Order) /\ pc[r] = "write"
      <4>1. tx'[r] \in Txs \union {NoTx}
        BY <1>1 DEF PublisherTypeOK
      <4>2. /\ tx'[r].chain = Order[position[r]] /\ tx'[r].status = "pending"
            /\ pc'[r] = "await" /\ position[r] <= Len(Order) /\ pc[r] = "write"
        BY <1>0 DEF PublisherTypeOK, Write
      <4> QED BY <4>1, <4>2 DEF NoTx
    <3> QED BY <1>2, <2>1, <2>3, <3>1 DEF Counts, Placed, Landed, Answered, Stamped, UnderWay, Write
  <2> QED BY <2>2, <2>3
<1>4. \A report : Known(report)' => Known(report) \/ report = new
  BY <1>0, KnownWrite
<1>5. PastOnly'
  <2>1. /\ clock \in Int /\ fetched[r] <= version
        /\ clock' = clock /\ version' = version /\ fetched' = fetched
    BY <1>0 DEF PublisherTypeOK, PastOnly, Times, Write
  <2> QED BY <1>0, <1>4, <2>1 DEF PastOnly
<1>6. InOrder'
  <2> SUFFICES ASSUME ~overlapped' PROVE InOrder'
    BY DEF InOrder
  <2>1. /\ ~overlapped /\ UnderWay(r) /\ fetched' = fetched /\ fetched[r] \in Int
        /\ \A s \in Runs : UnderWay(s)' => UnderWay(s)
    BY <1>0 DEF PublisherTypeOK, UnderWay, Write, Versions
  <2>2. \A s \in Runs : UnderWay(s)' => s = r
    BY <1>0, <2>1 DEF InOrder
  <2>3. \A report \in Reports : Known(report)' => report.value <= fetched[r]
    BY <1>0, <1>4, <2>1 DEF InOrder
  <2>4. ASSUME NEW a \in Reports, NEW b \in Reports, Known(a)', Known(b)', a.timestamp < b.timestamp
        PROVE  a.value <= b.value
    <3>1. CASE b = new
      BY <2>3, <2>4, <3>1
    <3>2. CASE a = new /\ Known(b)
      <4>1. b.timestamp <= clock /\ a.timestamp = clock /\ clock \in Int /\ b.timestamp \in Int
        BY <1>0, <3>2 DEF PastOnly, PublisherTypeOK, Reports, Times
      <4> QED BY <2>4, <4>1
    <3>3. CASE Known(a) /\ Known(b)
      BY <1>0, <2>1, <2>4, <3>3 DEF InOrder
    <3> QED BY <1>4, <2>4, <3>1, <3>2, <3>3
  <2> QED BY <2>1, <2>2, <2>3, <2>4 DEF InOrder
<1>7. NoRegressionWithoutOverlap'
  BY <1>0, <1>2 DEF NoRegressionWithoutOverlap, Write
<1> QED BY <1>1, <1>3, <1>5, <1>6, <1>7 DEF PublisherInv

LEMMA ExecuteReportStep ==
  ASSUME PublisherInv, NEW r \in Runs, ExecuteReport(r)
  PROVE  PublisherInv'
<1>0. PublisherTypeOK /\ AllCount /\ PastOnly /\ InOrder /\ NoRegressionWithoutOverlap
  BY DEF PublisherInv
<1>2. /\ tx[r] \in Txs /\ tx'[r] \in Txs /\ tx[r].chain \in Chains
      /\ tx'[r].chain = tx[r].chain /\ tx'[r].report = tx[r].report
      /\ tx[r].status = "pending" /\ tx'[r].status = "executed"
      /\ \A s \in Runs : s # r => tx'[s] = tx[s]
      /\ tx' \in [Runs -> Txs \union {NoTx}]
  <2>1. /\ tx \in [Runs -> Txs \union {NoTx}] /\ tx[r].status = "pending"
        /\ tx' = [tx EXCEPT ![r].status = "executed"]
    BY <1>0 DEF PublisherTypeOK, ExecuteReport
  <2> QED BY <1>0, <2>1, Settled, Landing
<1>8. /\ log' \in [Chains -> Seq(Reports)]
      /\ \A c \in Chains : /\ LastTimestamp(c) \in Int /\ LastTimestamp(c)' \in Int
                            /\ LastTimestamp(c)' >= LastTimestamp(c)
      /\ tx[r].chain \in permitted => LastTimestamp(tx[r].chain)' >= tx[r].report.timestamp
  <2>1. log \in [Chains -> Seq(Reports)]
    BY <1>0 DEF PublisherTypeOK
  <2>2. \A c \in Chains : LastTimestamp(c) \in Int
    BY <2>1, LastTimestampType
  <2>3. CASE log' = log /\ (tx[r].chain \notin permitted
                            \/ LastTimestamp(tx[r].chain) >= tx[r].report.timestamp)
    <3>1. \A c \in Chains : LastTimestamp(c)' = LastTimestamp(c)
      BY <2>3 DEF LastTimestamp
    <3> QED BY <1>2, <2>1, <2>2, <2>3, <3>1
  <2>4. CASE /\ tx[r].report.timestamp > LastTimestamp(tx[r].chain)
             /\ log' = [log EXCEPT ![tx[r].chain] = Append(@, tx[r].report)]
    <3> DEFINE c == tx[r].chain
    <3>0. tx[r].report \in Reports /\ c \in Chains
      BY <1>0, Landing
    <3>1. /\ log' \in [Chains -> Seq(Reports)]
          /\ \A d \in Chains : d # c => log'[d] = log[d]
          /\ Len(log[c]) \in Nat /\ Len(log'[c]) = Len(log[c]) + 1
          /\ log'[c][Len(log[c]) + 1] = tx[r].report
      BY <2>1, <2>4, <3>0, Grown
    <3>2. LastTimestamp(c)' = tx[r].report.timestamp
      <4>1. log'[c] # <<>>
        BY <3>1
      <4> QED BY <1>2, <3>1, <4>1 DEF LastTimestamp
    <3>3. \A d \in Chains : d # c => LastTimestamp(d)' = LastTimestamp(d)
      BY <3>1 DEF LastTimestamp
    <3>4. tx[r].report.timestamp \in Int
      BY <3>0 DEF Reports, Times
    <3>5. LastTimestamp(c)' >= LastTimestamp(c) /\ LastTimestamp(c)' \in Int
      BY <2>2, <2>4, <3>0, <3>2, <3>4, <1>2
    <3>6. \A d \in Chains : /\ LastTimestamp(d) \in Int /\ LastTimestamp(d)' \in Int
                            /\ LastTimestamp(d)' >= LastTimestamp(d)
      BY <1>2, <2>2, <3>3, <3>5
    <3>7. tx[r].chain \in permitted => LastTimestamp(tx[r].chain)' >= tx[r].report.timestamp
      BY <3>2, <3>4
    <3> QED BY <3>1, <3>6, <3>7
  <2> QED BY <1>0, <2>3, <2>4, Landing
<1>1. PublisherTypeOK'
  <2>1. pc' \in [Runs -> {"idle", "write", "await", "abandoned"}]
    BY <1>0 DEF PublisherTypeOK, ExecuteReport
  <2>2. tx' \in [Runs -> Txs \union {NoTx}]
    BY <1>2
  <2>3. log' \in [Chains -> Seq(Reports)]
    BY <1>8
  <2>4. skipped' \in [Runs -> SUBSET Chains]
    BY <1>0, <1>2 DEF PublisherTypeOK, ExecuteReport
  <2>5. /\ position' \in [Runs -> 1 .. Len(Order) + 1]
        /\ fetched' \in [Runs -> Versions]
        /\ result' \in [Runs -> {"none", "done", "failed"}]
        /\ stamps' \in [Runs -> [Chains -> 0 .. MaxTime]]
    BY <1>0 DEF PublisherTypeOK, ExecuteReport
  <2>6. /\ clock' \in Times /\ version' \in Versions /\ permitted' \subseteq Chains
        /\ envOps' \in 0 .. MaxEnvOps
    BY <1>0 DEF PublisherTypeOK, ExecuteReport
  <2>7. available' \in BOOLEAN /\ overlapped' \in BOOLEAN
    BY <1>0 DEF PublisherTypeOK, ExecuteReport
  <2> QED BY <2>1, <2>2, <2>3, <2>4, <2>5, <2>6, <2>7 DEF PublisherTypeOK
<1>3. AllCount'
  <2> SUFFICES ASSUME NEW s \in Runs PROVE Counts(s)'
    BY DEF AllCount
  <2>1. Counts(s) /\ Counts(r)
    BY <1>0 DEF AllCount
  <2>4. \A c \in Chains : LastTimestamp(c) \in Int /\ LastTimestamp(c)' \in Int
    BY <1>8
  <2>2. CASE s # r
    <3>1. /\ pc'[s] = pc[s] /\ position'[s] = position[s] /\ tx'[s] = tx[s]
          /\ result'[s] = result[s] /\ stamps'[s] = stamps[s] /\ skipped'[s] = skipped[s]
      BY <1>0, <1>2, <2>2 DEF PublisherTypeOK, ExecuteReport
    <3> QED BY <1>0, <1>8, <2>1, <3>1, CountsFrame
  <2>3. CASE s = r
    <3>1. Placed(s)'
      BY <1>0, <1>2, <2>1, <2>3 DEF Counts, Placed, PublisherTypeOK, ExecuteReport
    <3>2. /\ \A c \in Chains : /\ LastTimestamp(c) \in Int /\ LastTimestamp(c)' \in Int
                                /\ LastTimestamp(c)' >= LastTimestamp(c)
                                /\ stamps[r][c] \in Int
          /\ stamps' = stamps /\ skipped[r] \subseteq skipped'[r]
          /\ tx[r].chain \notin permitted => tx[r].chain \in skipped'[r]
      BY <1>0, <1>2, <1>8, <2>4 DEF PublisherTypeOK, ExecuteReport
    <3>3. Landed(s)'
      BY <2>1, <2>3, <3>2 DEF Counts, Landed
    <3>4. Answered(s)'
      BY <1>2, <1>8, <2>3, <3>2 DEF Answered
    <3>5. Stamped(s)'
      BY <1>0, <2>1, <2>3 DEF Counts, Stamped, UnderWay, PublisherTypeOK, ExecuteReport
    <3> QED BY <3>1, <3>3, <3>4, <3>5 DEF Counts
  <2> QED BY <2>2, <2>3
<1>4. \A report : Known(report)' => Known(report)
  BY <1>0, KnownLanding
<1>5. PastOnly'
  BY <1>0, <1>4 DEF PastOnly, ExecuteReport
<1>6. InOrder'
  <2>1. \A s \in Runs : UnderWay(s)' => UnderWay(s) /\ fetched'[s] = fetched[s]
    BY <1>0 DEF PublisherTypeOK, UnderWay, ExecuteReport
  <2> QED BY <1>0, <1>4, <2>1 DEF InOrder, ExecuteReport
<1>7. NoRegressionWithoutOverlap'
  <2> SUFFICES ASSUME ~overlapped', NEW d \in Chains, NEW i \in 1 .. Len(log'[d]) - 1
               PROVE  log'[d][i].value <= log'[d][i + 1].value
    BY DEF NoRegressionWithoutOverlap
  <2>0. ~overlapped
    BY DEF ExecuteReport
  <2>1. CASE log'[d] = log[d]
    BY <1>0, <2>0, <2>1 DEF NoRegressionWithoutOverlap
  <2>2. CASE log'[d] # log[d]
    <3> DEFINE n == Len(log[d])
    <3>1. /\ tx[r].report.timestamp > LastTimestamp(tx[r].chain)
          /\ log' = [log EXCEPT ![tx[r].chain] = Append(@, tx[r].report)]
          /\ tx[r].report \in Reports
      BY <1>0, <2>2, Landing
    <3>2. log \in [Chains -> Seq(Reports)]
      BY <1>0 DEF PublisherTypeOK
    <3>3. d = tx[r].chain
      BY <2>2, <3>1, <3>2
    <3>4. /\ n \in Nat /\ Len(log'[d]) = n + 1
          /\ log'[d][n + 1] = tx[r].report
          /\ \A k \in 1 .. n : log'[d][k] = log[d][k]
      BY <1>2, <3>1, <3>2, <3>3, Grown, SMTT(20)
    <3> HIDE DEF n
    <3>5. CASE i \in 1 .. n - 1
      <4>1. log'[d][i] = log[d][i] /\ log'[d][i + 1] = log[d][i + 1]
        BY <3>4, <3>5
      <4>2. log[d][i].value <= log[d][i + 1].value
        BY <1>0, <2>0, <3>5 DEF NoRegressionWithoutOverlap, n
      <4> QED BY <4>1, <4>2
    <3>6. CASE i = n /\ n >= 1
      <4>1. log[d][n] \in Reports /\ Known(log[d][n])
        <5>1. n \in 1 .. Len(log[d]) /\ log[d] \in Seq(Reports)
          BY <3>2, <3>4, <3>6 DEF n
        <5> QED BY <5>1 DEF Known, InLog
      <4>2. Known(tx[r].report)
        BY <1>2 DEF Known, OnItsWay
      <4>3. log[d][n].timestamp < tx[r].report.timestamp
        <5>1. LastTimestamp(d) = log[d][n].timestamp
          BY <3>4, <3>6 DEF LastTimestamp, n
        <5>2. log[d][n].timestamp \in Int /\ tx[r].report.timestamp \in Int
          BY <3>1, <4>1 DEF Reports, Times
        <5> QED BY <3>1, <3>3, <5>1, <5>2
      <4>4. log[d][n].value <= tx[r].report.value
        BY <1>0, <2>0, <3>1, <4>1, <4>2, <4>3 DEF InOrder
      <4> QED BY <3>4, <3>6, <4>4
    <3> QED BY <3>4, <3>5, <3>6
  <2> QED BY <2>1, <2>2
<1> QED BY <1>1, <1>3, <1>5, <1>6, <1>7 DEF PublisherInv

LEMMA ResponseStep ==
  ASSUME PublisherInv, NEW r \in Runs, Response(r)
  PROVE  PublisherInv'
<1>0. PublisherTypeOK /\ AllCount /\ PastOnly /\ InOrder /\ NoRegressionWithoutOverlap
  BY DEF PublisherInv
<1>2. /\ log' = log /\ tx' = tx /\ \A c \in Chains : LastTimestamp(c)' = LastTimestamp(c)
      /\ position[r] <= Len(Order) /\ tx[r] \in Txs
      /\ tx[r].chain \in Chains /\ tx[r].report \in Reports
  <2>1. log' = log /\ tx' = tx /\ \A c \in Chains : LastTimestamp(c)' = LastTimestamp(c)
    BY DEF LastTimestamp, Response
  <2>2. position[r] <= Len(Order) /\ tx[r] \in Txs
    BY <1>0 DEF AllCount, Counts, Placed, Response
  <2> QED BY <2>1, <2>2 DEF Txs
<1>1. PublisherTypeOK'
  <2>1. pc' \in [Runs -> {"idle", "write", "await", "abandoned"}]
    <3>1. pc' = [pc EXCEPT ![r] = "write"] \/ pc' = [pc EXCEPT ![r] = "idle"]
      BY DEF Response
    <3> QED BY <1>0, <3>1 DEF PublisherTypeOK
  <2>2. position' \in [Runs -> 1 .. Len(Order) + 1]
    <3>1. position' = [position EXCEPT ![r] = @ + 1] \/ position' = position
      BY DEF Response
    <3>2. position \in [Runs -> 1 .. Len(Order) + 1] /\ position[r] \in 1 .. Len(Order)
      BY <1>0, <1>2 DEF PublisherTypeOK
    <3> QED BY <3>1, <3>2
  <2>3. result' \in [Runs -> {"none", "done", "failed"}]
    BY <1>0 DEF PublisherTypeOK, Response
  <2>4. stamps' \in [Runs -> [Chains -> 0 .. MaxTime]]
    <3>1. stamps' = stamps \/ stamps' = [stamps EXCEPT ![r][tx[r].chain] = tx[r].report.timestamp]
      BY DEF Response
    <3>2. tx[r].chain \in Chains /\ tx[r].report.timestamp \in 0 .. MaxTime
      BY <1>2 DEF Reports, Times
    <3>3. stamps \in [Runs -> [Chains -> 0 .. MaxTime]]
      BY <1>0 DEF PublisherTypeOK
    <3> QED BY <3>1, <3>2, <3>3
  <2>5. /\ fetched' \in [Runs -> Versions]
        /\ tx' \in [Runs -> Txs \union {NoTx}]
        /\ skipped' \in [Runs -> SUBSET Chains]
    BY <1>0 DEF PublisherTypeOK, Response
  <2>6. log' \in [Chains -> Seq(Reports)]
    BY <1>0 DEF PublisherTypeOK, Response
  <2>7. /\ clock' \in Times /\ version' \in Versions /\ permitted' \subseteq Chains
        /\ envOps' \in 0 .. MaxEnvOps
    BY <1>0 DEF PublisherTypeOK, Response
  <2>8. available' \in BOOLEAN /\ overlapped' \in BOOLEAN
    BY <1>0 DEF PublisherTypeOK, Response
  <2> QED BY <2>1, <2>2, <2>3, <2>4, <2>5, <2>6, <2>7, <2>8 DEF PublisherTypeOK
<1>3. AllCount'
  <2> SUFFICES ASSUME NEW s \in Runs PROVE Counts(s)'
    BY DEF AllCount
  <2>1. Counts(s) /\ Counts(r)
    BY <1>0 DEF AllCount
  <2>2. CASE s # r
    <3>1. /\ pc'[s] = pc[s] /\ position'[s] = position[s] /\ tx'[s] = tx[s]
          /\ result'[s] = result[s] /\ stamps'[s] = stamps[s] /\ skipped'[s] = skipped[s]
      BY <1>0, <1>2, <2>2 DEF PublisherTypeOK, Response
    <3>2. \A c \in Chains : /\ LastTimestamp(c) \in Int /\ LastTimestamp(c)' \in Int
                            /\ LastTimestamp(c)' >= LastTimestamp(c)
      BY <1>0, <1>2, LastTimestampType DEF PublisherTypeOK
    <3> QED BY <1>0, <2>1, <3>1, <3>2, CountsFrame
  <2>3. CASE s = r
    <3>0. /\ pc[r] = "await" /\ Placed(r) /\ Landed(r) /\ Answered(r) /\ Stamped(r)
          /\ UNCHANGED <<tx, skipped>> /\ position[r] \in 1 .. Len(Order) + 1
          /\ tx[r].status # "pending"
          /\ stamps \in [Runs -> [Chains -> 0 .. MaxTime]]
      BY <1>0, <2>1 DEF Counts, PublisherTypeOK, Response
    <3>1. CASE ~Counted(tx[r])
      <4>1. pc'[r] = "idle" /\ result'[r] = "failed" /\ UNCHANGED <<position, stamps>>
        BY <1>0, <3>1 DEF PublisherTypeOK, Response
      <4> QED BY <1>2, <2>3, <3>0, <4>1 DEF Counts, Placed, Landed, Answered, Stamped, UnderWay
    <3>2. CASE Counted(tx[r])
      <4>1. /\ pc'[r] = "write" /\ position'[r] = position[r] + 1 /\ UNCHANGED result
            /\ stamps' = [stamps EXCEPT ![r][tx[r].chain] = tx[r].report.timestamp]
        BY <1>0, <3>2 DEF PublisherTypeOK, Response
      <4>2. /\ stamps'[r][tx[r].chain] = tx[r].report.timestamp
            /\ \A c \in Chains : c # tx[r].chain => stamps'[r][c] = stamps[r][c]
        BY <3>0, <4>1, <1>2
      <4>3. tx[r].report.timestamp \in Int /\ tx[r].report.timestamp > 0
        BY <1>2 DEF Reports, Times
      <4>4. Placed(s)' /\ Answered(s)'
        BY <2>3, <3>0, <4>1 DEF Placed, Answered
      <4>5. Landed(s)'
        BY <1>2, <2>3, <3>0, <3>2, <4>2 DEF Landed, Answered, Counted
      <4>6. Stamped(s)'
        <5>1. \A i \in 1 .. position[r] - 1 : Order[i] \in Chains /\ stamps[r][Order[i]] > 0
          <6>1. \A i \in 1 .. position[r] - 1 : stamps[r][Order[i]] > 0
            BY <3>0 DEF Stamped, UnderWay
          <6>2. position[r] \in 1 .. Len(Order) /\ Len(Order) \in Nat
            BY <3>0 DEF Placed
          <6> QED BY <6>1, <6>2
        <5>2. Order[position[r]] = tx[r].chain
          BY <3>0 DEF Placed
        <5>3. \A i \in 1 .. position[r] : stamps'[r][Order[i]] > 0
          <6> TAKE i \in 1 .. position[r]
          <6>1. CASE Order[i] = tx[r].chain
            BY <4>2, <4>3, <6>1
          <6>2. CASE Order[i] # tx[r].chain
            <7>1. i \in 1 .. position[r] - 1
              BY <3>0, <5>2, <6>2
            <7> QED BY <4>2, <5>1, <6>2, <7>1
          <6> QED BY <6>1, <6>2
        <5>4. result'[r] = "done" => \A c \in Chains : stamps'[r][c] > 0
          BY <3>0, <4>1, <4>2, <4>3 DEF Stamped
        <5>5. 1 .. position'[r] - 1 = 1 .. position[r]
          BY <3>0, <4>1
        <5> QED BY <2>3, <5>3, <5>4, <5>5 DEF Stamped
      <4> QED BY <4>4, <4>5, <4>6 DEF Counts
    <3> QED BY <3>1, <3>2
  <2> QED BY <2>2, <2>3
<1>4. \A report : Known(report)' => Known(report)
  BY <1>2, KnownFrame
<1>5. PastOnly'
  BY <1>0, <1>4 DEF PastOnly, Response
<1>6. InOrder'
  <2>1. \A s \in Runs : UnderWay(s)' => UnderWay(s) /\ fetched'[s] = fetched[s]
    BY <1>0 DEF PublisherTypeOK, UnderWay, Response
  <2> QED BY <1>0, <1>4, <2>1 DEF InOrder, Response
<1>7. NoRegressionWithoutOverlap'
  BY <1>0, <1>2 DEF NoRegressionWithoutOverlap, Response
<1> QED BY <1>1, <1>3, <1>5, <1>6, <1>7 DEF PublisherInv

LEMMA LoseReportStep ==
  ASSUME PublisherInv, NEW r \in Runs, LoseReport(r)
  PROVE  PublisherInv'
<1>0. PublisherTypeOK /\ AllCount /\ PastOnly /\ InOrder /\ NoRegressionWithoutOverlap
  BY DEF PublisherInv
<1>2. /\ tx[r] \in Txs /\ tx'[r] \in Txs
      /\ tx'[r].chain = tx[r].chain /\ tx'[r].report = tx[r].report
      /\ tx[r].status = "pending" /\ tx'[r].status = "failed"
      /\ \A s \in Runs : s # r => tx'[s] = tx[s]
      /\ tx' \in [Runs -> Txs \union {NoTx}]
      /\ log' = log /\ \A c \in Chains : LastTimestamp(c)' = LastTimestamp(c)
  <2>1. /\ tx \in [Runs -> Txs \union {NoTx}] /\ tx[r].status = "pending"
        /\ tx' = [tx EXCEPT ![r].status = "failed"]
    BY <1>0 DEF PublisherTypeOK, LoseReport
  <2>2. log' = log /\ \A c \in Chains : LastTimestamp(c)' = LastTimestamp(c)
    BY DEF LastTimestamp, LoseReport
  <2> QED BY <2>1, <2>2, Settled
<1>1. PublisherTypeOK'
  <2>1. pc' \in [Runs -> {"idle", "write", "await", "abandoned"}]
    BY <1>0 DEF PublisherTypeOK, LoseReport
  <2>2. tx' \in [Runs -> Txs \union {NoTx}]
    BY <1>2
  <2>3. /\ position' \in [Runs -> 1 .. Len(Order) + 1]
        /\ fetched' \in [Runs -> Versions]
        /\ result' \in [Runs -> {"none", "done", "failed"}]
        /\ stamps' \in [Runs -> [Chains -> 0 .. MaxTime]]
        /\ skipped' \in [Runs -> SUBSET Chains]
    BY <1>0 DEF PublisherTypeOK, LoseReport
  <2>4. log' \in [Chains -> Seq(Reports)]
    BY <1>0 DEF PublisherTypeOK, LoseReport
  <2>5. /\ clock' \in Times /\ version' \in Versions /\ permitted' \subseteq Chains
        /\ envOps' \in 0 .. MaxEnvOps
    BY <1>0 DEF PublisherTypeOK, LoseReport, EnvOp
  <2>6. available' \in BOOLEAN /\ overlapped' \in BOOLEAN
    BY <1>0 DEF PublisherTypeOK, LoseReport
  <2> QED BY <2>1, <2>2, <2>3, <2>4, <2>5, <2>6 DEF PublisherTypeOK
<1>3. AllCount'
  <2> SUFFICES ASSUME NEW s \in Runs PROVE Counts(s)'
    BY DEF AllCount
  <2>1. Counts(s) /\ Counts(r)
    BY <1>0 DEF AllCount
  <2>2. CASE s # r
    <3>1. /\ pc'[s] = pc[s] /\ position'[s] = position[s] /\ tx'[s] = tx[s]
          /\ result'[s] = result[s] /\ stamps'[s] = stamps[s] /\ skipped'[s] = skipped[s]
      BY <1>0, <1>2, <2>2 DEF PublisherTypeOK, LoseReport
    <3>2. \A c \in Chains : /\ LastTimestamp(c) \in Int /\ LastTimestamp(c)' \in Int
                            /\ LastTimestamp(c)' >= LastTimestamp(c)
      BY <1>0, <1>2, LastTimestampType DEF PublisherTypeOK
    <3> QED BY <1>0, <2>1, <3>1, <3>2, CountsFrame
  <2>3. CASE s = r
    BY <1>0, <1>2, <2>1, <2>3 DEF Counts, Placed, Landed, Answered, Stamped, UnderWay, PublisherTypeOK, LoseReport
  <2> QED BY <2>2, <2>3
<1>4. \A report : Known(report)' => Known(report)
  BY <1>2, KnownFrame
<1>5. PastOnly'
  BY <1>0, <1>4 DEF PastOnly, LoseReport
<1>6. InOrder'
  <2>1. \A s \in Runs : UnderWay(s)' => UnderWay(s) /\ fetched'[s] = fetched[s]
    BY <1>0 DEF PublisherTypeOK, UnderWay, LoseReport
  <2> QED BY <1>0, <1>4, <2>1 DEF InOrder, LoseReport
<1>7. NoRegressionWithoutOverlap'
  BY <1>0, <1>2 DEF NoRegressionWithoutOverlap, LoseReport
<1> QED BY <1>1, <1>3, <1>5, <1>6, <1>7 DEF PublisherInv

LEMMA CallFailsStep ==
  ASSUME PublisherInv, NEW r \in Runs, CallFails(r)
  PROVE  PublisherInv'
<1>0. PublisherTypeOK /\ AllCount /\ PastOnly /\ InOrder /\ NoRegressionWithoutOverlap
  BY DEF PublisherInv
<1>1. PublisherTypeOK'
  <2>1. pc' \in [Runs -> {"idle", "write", "await", "abandoned"}]
    BY <1>0 DEF PublisherTypeOK, CallFails
  <2>2. result' \in [Runs -> {"none", "done", "failed"}]
    BY <1>0 DEF PublisherTypeOK, CallFails
  <2>3. /\ position' \in [Runs -> 1 .. Len(Order) + 1]
        /\ fetched' \in [Runs -> Versions]
        /\ tx' \in [Runs -> Txs \union {NoTx}]
        /\ stamps' \in [Runs -> [Chains -> 0 .. MaxTime]]
        /\ skipped' \in [Runs -> SUBSET Chains]
    BY <1>0 DEF PublisherTypeOK, CallFails
  <2>4. log' \in [Chains -> Seq(Reports)]
    BY <1>0 DEF PublisherTypeOK, CallFails
  <2>5. /\ clock' \in Times /\ version' \in Versions /\ permitted' \subseteq Chains
        /\ envOps' \in 0 .. MaxEnvOps
    BY <1>0 DEF PublisherTypeOK, CallFails, EnvOp
  <2>6. available' \in BOOLEAN /\ overlapped' \in BOOLEAN
    BY <1>0 DEF PublisherTypeOK, CallFails
  <2> QED BY <2>1, <2>2, <2>3, <2>4, <2>5, <2>6 DEF PublisherTypeOK
<1>2. log' = log /\ \A c \in Chains : LastTimestamp(c)' = LastTimestamp(c)
  BY DEF LastTimestamp, CallFails
<1>3. AllCount'
  <2> SUFFICES ASSUME NEW s \in Runs PROVE Counts(s)'
    BY DEF AllCount
  <2>1. Counts(s) /\ Counts(r)
    BY <1>0 DEF AllCount
  <2>2. CASE s # r
    <3>1. /\ pc'[s] = pc[s] /\ position'[s] = position[s] /\ tx'[s] = tx[s]
          /\ result'[s] = result[s] /\ stamps'[s] = stamps[s] /\ skipped'[s] = skipped[s]
      BY <1>0, <1>2, <2>2 DEF PublisherTypeOK, CallFails
    <3>2. \A c \in Chains : /\ LastTimestamp(c) \in Int /\ LastTimestamp(c)' \in Int
                            /\ LastTimestamp(c)' >= LastTimestamp(c)
      BY <1>0, <1>2, LastTimestampType DEF PublisherTypeOK
    <3> QED BY <1>0, <2>1, <3>1, <3>2, CountsFrame
  <2>3. CASE s = r
    BY <1>0, <1>2, <2>1, <2>3 DEF Counts, Placed, Landed, Answered, Stamped, UnderWay, PublisherTypeOK, CallFails
  <2> QED BY <2>2, <2>3
<1>4. \A report : Known(report)' => Known(report)
  BY <1>0, <1>2, KnownFrame DEF PublisherTypeOK, CallFails
<1>5. PastOnly'
  BY <1>0, <1>4 DEF PastOnly, CallFails
<1>6. InOrder'
  <2>1. \A s \in Runs : UnderWay(s)' => UnderWay(s) /\ fetched'[s] = fetched[s]
    BY <1>0 DEF PublisherTypeOK, UnderWay, CallFails
  <2> QED BY <1>0, <1>4, <2>1 DEF InOrder, CallFails
<1>7. NoRegressionWithoutOverlap'
  BY <1>0, <1>2 DEF NoRegressionWithoutOverlap, CallFails
<1> QED BY <1>1, <1>3, <1>5, <1>6, <1>7 DEF PublisherInv

LEMMA CompleteStep ==
  ASSUME PublisherInv, NEW r \in Runs, Complete(r)
  PROVE  PublisherInv'
<1>0. PublisherTypeOK /\ AllCount /\ PastOnly /\ InOrder /\ NoRegressionWithoutOverlap
  BY DEF PublisherInv
<1>1. PublisherTypeOK'
  <2>1. pc' \in [Runs -> {"idle", "write", "await", "abandoned"}]
    BY <1>0 DEF PublisherTypeOK, Complete
  <2>2. result' \in [Runs -> {"none", "done", "failed"}]
    BY <1>0 DEF PublisherTypeOK, Complete
  <2>3. /\ position' \in [Runs -> 1 .. Len(Order) + 1]
        /\ fetched' \in [Runs -> Versions]
        /\ tx' \in [Runs -> Txs \union {NoTx}]
        /\ stamps' \in [Runs -> [Chains -> 0 .. MaxTime]]
        /\ skipped' \in [Runs -> SUBSET Chains]
    BY <1>0 DEF PublisherTypeOK, Complete
  <2>4. log' \in [Chains -> Seq(Reports)]
    BY <1>0 DEF PublisherTypeOK, Complete
  <2>5. /\ clock' \in Times /\ version' \in Versions /\ permitted' \subseteq Chains
        /\ envOps' \in 0 .. MaxEnvOps
    BY <1>0 DEF PublisherTypeOK, Complete
  <2>6. available' \in BOOLEAN /\ overlapped' \in BOOLEAN
    BY <1>0 DEF PublisherTypeOK, Complete
  <2> QED BY <2>1, <2>2, <2>3, <2>4, <2>5, <2>6 DEF PublisherTypeOK
<1>2. log' = log /\ \A c \in Chains : LastTimestamp(c)' = LastTimestamp(c)
  BY DEF LastTimestamp, Complete
<1>3. AllCount'
  <2> SUFFICES ASSUME NEW s \in Runs PROVE Counts(s)'
    BY DEF AllCount
  <2>1. Counts(s) /\ Counts(r)
    BY <1>0 DEF AllCount
  <2>2. CASE s # r
    <3>1. /\ pc'[s] = pc[s] /\ position'[s] = position[s] /\ tx'[s] = tx[s]
          /\ result'[s] = result[s] /\ stamps'[s] = stamps[s] /\ skipped'[s] = skipped[s]
      BY <1>0, <1>2, <2>2 DEF PublisherTypeOK, Complete
    <3>2. \A c \in Chains : /\ LastTimestamp(c) \in Int /\ LastTimestamp(c)' \in Int
                            /\ LastTimestamp(c)' >= LastTimestamp(c)
      BY <1>0, <1>2, LastTimestampType DEF PublisherTypeOK
    <3> QED BY <1>0, <2>1, <3>1, <3>2, CountsFrame
  <2>3. CASE s = r
    <3>1. \A c \in Chains : stamps[r][c] > 0
      <4>1. \A i \in 1 .. position[r] - 1 : stamps[r][Order[i]] > 0
        BY <2>1 DEF Counts, Stamped, UnderWay, Complete
      <4>2. position[r] \in 1 .. Len(Order) + 1 /\ position[r] > Len(Order) /\ Len(Order) \in Nat
        BY <1>0 DEF PublisherTypeOK, Complete
      <4>3. 1 .. position[r] - 1 = 1 .. Len(Order)
        BY <4>2
      <4> QED BY <4>1, <4>3, PublisherAssumption DEF PublisherAssumption
    <3> QED BY <1>0, <1>2, <2>1, <2>3, <3>1 DEF Counts, Placed, Landed, Answered, Stamped, UnderWay, PublisherTypeOK, Complete
  <2> QED BY <2>2, <2>3
<1>4. \A report : Known(report)' => Known(report)
  BY <1>0, <1>2, KnownFrame DEF PublisherTypeOK, Complete
<1>5. PastOnly'
  BY <1>0, <1>4 DEF PastOnly, Complete
<1>6. InOrder'
  <2>1. \A s \in Runs : UnderWay(s)' => UnderWay(s) /\ fetched'[s] = fetched[s]
    BY <1>0 DEF PublisherTypeOK, UnderWay, Complete
  <2> QED BY <1>0, <1>4, <2>1 DEF InOrder, Complete
<1>7. NoRegressionWithoutOverlap'
  BY <1>0, <1>2 DEF NoRegressionWithoutOverlap, Complete
<1> QED BY <1>1, <1>3, <1>5, <1>6, <1>7 DEF PublisherInv

-----------------------------------------------------------------------------
(* The theorems.                                                           *)

LEMMA StepPublisherInv == PublisherInv /\ [PublisherNext]_publisherVars => PublisherInv'
<1> SUFFICES ASSUME PublisherInv, [PublisherNext]_publisherVars PROVE PublisherInv'
  OBVIOUS
<1>1. CASE Tick \/ Publication \/ Ripcord \/ \E c \in Chains : ChangePermission(c)
  BY <1>1, EnvironmentStep
<1>2. ASSUME NEW r \in Runs,
             FetchFails(r) \/ Fetch(r) \/ Proceed(r) \/ LoseReport(r) \/ CallFails(r)
      PROVE  PublisherInv'
  BY <1>2, FetchFailsStep, FetchStep, WriteStep, ExecuteReportStep, ResponseStep,
     CompleteStep, LoseReportStep, CallFailsStep DEF Proceed
<1>3. CASE UNCHANGED publisherVars
  <2>1. /\ UNCHANGED <<clock, version, available, permitted, log, envOps, overlapped>>
        /\ UNCHANGED <<pc, position, fetched, tx, result, stamps, skipped>>
    BY <1>3 DEF publisherVars, runVars
  <2>2. PublisherTypeOK'
    BY <2>1 DEF PublisherInv, PublisherTypeOK
  <2>3. AllCount'
    BY <2>1 DEF PublisherInv, AllCount, Counts, Placed, Landed, Answered, Stamped,
                UnderWay, LastTimestamp
  <2>4. \A report : Known(report)' => Known(report)
    BY <2>1, KnownFrame
  <2>5. PastOnly' /\ InOrder' /\ NoRegressionWithoutOverlap'
    BY <2>1, <2>4 DEF PublisherInv, PastOnly, InOrder, UnderWay, NoRegressionWithoutOverlap
  <2> QED BY <2>2, <2>3, <2>5 DEF PublisherInv
<1> QED BY <1>1, <1>2, <1>3 DEF PublisherNext

LEMMA AlwaysPublisherInv == PublisherSpec => []PublisherInv
BY InitPublisherInv, StepPublisherInv, PTL DEF PublisherSpec

\* The variables of the workflows and the caches keep their types.
THEOREM PublisherTypes == PublisherSpec => []PublisherTypeOK
BY AlwaysPublisherInv, PTL DEF PublisherInv

\* A successful execution has left the feed of every chain that permits it at
\* least as fresh as its report, whatever caches have silently skipped.
THEOREM SuccessMeansFresh == PublisherSpec => []DoneMeansFresh
<1>1. PublisherInv => DoneMeansFresh
  BY DEF PublisherInv, AllCount, Counts, Landed, Stamped, DoneMeansFresh
<1> QED BY <1>1, AlwaysPublisherInv, PTL

\* Executions that do not overlap never take a feed back to an older value,
\* in whatever order their writes land.
THEOREM SequentialRunsDoNotRegress == PublisherSpec => []NoRegressionWithoutOverlap
BY AlwaysPublisherInv, PTL DEF PublisherInv

LEMMA StepIsLogStep ==
  ASSUME PublisherInv, [PublisherNext]_publisherVars
  PROVE  [FeedLogs!Next]_log
<1>1. CASE \E r \in Runs : ExecuteReport(r)
  <2>1. PICK r \in Runs : ExecuteReport(r)
    BY <1>1
  <2>2. CASE /\ tx[r].report.timestamp > LastTimestamp(tx[r].chain)
             /\ log' = [log EXCEPT ![tx[r].chain] = Append(@, tx[r].report)]
    <3>1. tx[r].chain \in Chains /\ tx[r].report \in FeedLogs!LogReports
      BY <2>1, Landing DEF PublisherInv, FeedLogs!LogReports, Reports, Times
    <3>2. FeedLogs!Publish(tx[r].chain, tx[r].report)
      BY <2>2 DEF FeedLogs!Publish, FeedLogs!LastTimestamp, LastTimestamp
    <3> QED BY <3>1, <3>2 DEF FeedLogs!Next
  <2> QED BY <2>1, <2>2, Landing DEF PublisherInv
<1>2. CASE ~ \E r \in Runs : ExecuteReport(r)
  BY <1>2 DEF PublisherNext, Proceed, Tick, Publication, Ripcord, ChangePermission, FetchFails,
     Fetch, Write, Response, Complete, LoseReport, CallFails, publisherVars
<1> QED BY <1>1, <1>2

\* Each chain's cache, as the workflows drive it, is the append-only log that
\* DataFeedsCache was shown to implement.
THEOREM CachesImplementFeedLog == PublisherSpec => CachesAreLogs
<1>1. PublisherInit => FeedLogs!Init
  BY DEF PublisherInit, FeedLogs!Init
<1>2. PublisherInv /\ [PublisherNext]_publisherVars => [FeedLogs!Next]_log
  BY StepIsLogStep
<1> QED BY <1>1, <1>2, AlwaysPublisherInv, PTL DEF PublisherSpec, CachesAreLogs, FeedLogs!Spec

=============================================================================
