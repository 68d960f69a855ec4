---------------------------- MODULE FeedPublisher ----------------------------
(***************************************************************************)
(* The workflows that publish a feed (proof of reserve, net asset value)   *)
(* over the caches of several chains.  A cron execution fetches the value  *)
(* from its source once and then writes it to one chain after the other,   *)
(* each report stamped with the time at which it is made, not with the     *)
(* time of the fetch.  It ends at the first write that fails.              *)
(*                                                                         *)
(* A cache is taken for what DataFeedsCache implements: a log that takes   *)
(* permitted reports with a later time stamp than its last and skips the   *)
(* others without reverting (module FeedLog).  Time passes between any two *)
(* steps, executions overlap, and a write that is given up may land later. *)
(***************************************************************************)
EXTENDS Integers, Sequences

CONSTANTS
  Chains,
  Order,      \* config.EVMs: the chains in the configured order
  Runs,       \* executions that may overlap
  MaxTime,    \* bound on the clock, in seconds
  MaxVersion, \* bound on the changes of the source
  MaxEnvOps   \* bound on admins' changes and faults

ASSUME PublisherAssumption ==
  /\ Order \in Seq(Chains) /\ Len(Order) >= 1
  /\ \A c \in Chains : \E i \in 1 .. Len(Order) : Order[i] = c
  /\ MaxTime \in Nat \ {0} /\ MaxVersion \in Nat \ {0} /\ MaxEnvOps \in Nat

VARIABLES
  clock,      \* runtime.Now, in seconds
  version,    \* the value the source serves: a later value is a larger number
  available,  \* the source answers, and its ripcord is not pulled
  permitted,  \* chains whose cache permits the workflow to write the feed
  log,        \* the feed's reports in the cache of each chain
  envOps,     \* environment operations so far
  pc,         \* per execution: where it is
  position,   \* the chain it writes to, as an index of Order
  fetched,    \* the value it has fetched
  tx,         \* its last write
  result,     \* how it ended
  stamps,     \* the stamps of the writes it has counted, 0 for none
  skipped,    \* chains whose cache did not permit its report
  overlapped  \* some execution has begun while another was under way

runVars == <<pc, position, fetched, tx, result, stamps, skipped>>
publisherVars == <<clock, version, available, permitted, log, envOps, runVars, overlapped>>

Times == 1 .. MaxTime
Versions == 1 .. MaxVersion

\* Reports here carry the version of the value.
Reports == [value : Versions, timestamp : Times]
NoTx == [status |-> "none"]
Txs == [chain : Chains, report : Reports, status : {"pending", "executed", "failed"}]

PublisherTypeOK ==
  /\ clock \in Times /\ version \in Versions
  /\ available \in BOOLEAN
  /\ permitted \subseteq Chains
  /\ log \in [Chains -> Seq(Reports)]
  /\ envOps \in 0 .. MaxEnvOps
  /\ pc \in [Runs -> {"idle", "write", "await", "abandoned"}]
  /\ position \in [Runs -> 1 .. Len(Order) + 1]
  /\ fetched \in [Runs -> Versions]
  /\ tx \in [Runs -> Txs \union {NoTx}]
  /\ result \in [Runs -> {"none", "done", "failed"}]
  /\ stamps \in [Runs -> [Chains -> 0 .. MaxTime]]
  /\ skipped \in [Runs -> SUBSET Chains]
  /\ overlapped \in BOOLEAN

PublisherInit ==
  /\ clock = 1 /\ version = 1
  /\ available = TRUE
  /\ permitted = Chains
  /\ log = [c \in Chains |-> <<>>]
  /\ envOps = 0
  /\ pc = [r \in Runs |-> "idle"]
  /\ position = [r \in Runs |-> 1]
  /\ fetched = [r \in Runs |-> 1]
  /\ tx = [r \in Runs |-> NoTx]
  /\ result = [r \in Runs |-> "none"]
  /\ stamps = [r \in Runs |-> [c \in Chains |-> 0]]
  /\ skipped = [r \in Runs |-> {}]
  /\ overlapped = FALSE

-----------------------------------------------------------------------------
(* The environment.                                                        *)

Tick ==
  /\ clock < MaxTime
  /\ clock' = clock + 1
  /\ UNCHANGED <<version, available, permitted, log, envOps, runVars, overlapped>>

Publication ==
  /\ version < MaxVersion
  /\ version' = version + 1
  /\ UNCHANGED <<clock, available, permitted, log, envOps, runVars, overlapped>>

EnvOp == envOps < MaxEnvOps /\ envOps' = envOps + 1

Ripcord ==
  /\ EnvOp
  /\ available' = ~available
  /\ UNCHANGED <<clock, version, permitted, log, runVars, overlapped>>

\* A feed admin of one chain lists the workflow or takes it off the list.
ChangePermission(c) ==
  /\ EnvOp
  /\ permitted' = IF c \in permitted THEN permitted \ {c} ELSE permitted \union {c}
  /\ UNCHANGED <<clock, version, available, log, runVars, overlapped>>

-----------------------------------------------------------------------------
(* One execution of doPOR or doNAV.                                        *)

UnderWay(r) == pc[r] \in {"write", "await"}

\* The fetch fails, or the ripcord is pulled: nothing is written.
FetchFails(r) ==
  /\ pc[r] = "idle"
  /\ ~available
  /\ result' = [result EXCEPT ![r] = "failed"]
  /\ stamps' = [stamps EXCEPT ![r] = [c \in Chains |-> 0]]
  /\ skipped' = [skipped EXCEPT ![r] = {}]
  /\ UNCHANGED <<clock, version, available, permitted, log, envOps,
                 pc, position, fetched, tx, overlapped>>

Fetch(r) ==
  /\ pc[r] = "idle"
  /\ available
  /\ pc' = [pc EXCEPT ![r] = "write"]
  /\ position' = [position EXCEPT ![r] = 1]
  /\ fetched' = [fetched EXCEPT ![r] = version]
  /\ tx' = [tx EXCEPT ![r] = NoTx]
  /\ result' = [result EXCEPT ![r] = "none"]
  /\ stamps' = [stamps EXCEPT ![r] = [c \in Chains |-> 0]]
  /\ skipped' = [skipped EXCEPT ![r] = {}]
  /\ overlapped' = (overlapped \/ \E s \in Runs : UnderWay(s))
  /\ UNCHANGED <<clock, version, available, permitted, log, envOps>>

\* The report is stamped and handed to the forwarder.
Write(r) ==
  /\ pc[r] = "write" /\ position[r] <= Len(Order)
  /\ pc' = [pc EXCEPT ![r] = "await"]
  /\ tx' = [tx EXCEPT ![r] =
       [chain |-> Order[position[r]], status |-> "pending",
        report |-> [value |-> fetched[r], timestamp |-> clock]]]
  /\ UNCHANGED <<clock, version, available, permitted, log, envOps,
                 position, fetched, result, stamps, skipped, overlapped>>

LastTimestamp(c) == IF log[c] = <<>> THEN 0 ELSE log[c][Len(log[c])].timestamp

\* A cache that takes a report with the time stamp of its last one.
Newer_OrEqual(report, c) == report.timestamp >= LastTimestamp(c)

Newer(report, c) == report.timestamp > LastTimestamp(c)

\* DataFeedsCache.onReport: what is not permitted or not newer is skipped, and
\* the call succeeds all the same.
ExecuteReport(r) ==
  LET c == tx[r].chain
      report == tx[r].report
  IN
  /\ tx[r].status = "pending"
  /\ tx' = [tx EXCEPT ![r].status = "executed"]
  /\ log' = IF c \in permitted /\ Newer(report, c)
              THEN [log EXCEPT ![c] = Append(@, report)] ELSE log
  /\ skipped' = IF c \in permitted THEN skipped
                                   ELSE [skipped EXCEPT ![r] = @ \union {c}]
  /\ pc' = [pc EXCEPT ![r] = IF @ = "abandoned" THEN "idle" ELSE @]
  /\ UNCHANGED <<clock, version, available, permitted, envOps,
                 position, fetched, result, stamps, overlapped>>

\* The transaction is dropped or fails.
LoseReport(r) ==
  /\ EnvOp
  /\ tx[r].status = "pending"
  /\ tx' = [tx EXCEPT ![r].status = "failed"]
  /\ pc' = [pc EXCEPT ![r] = IF @ = "abandoned" THEN "idle" ELSE @]
  /\ UNCHANGED <<clock, version, available, permitted, log,
                 position, fetched, result, stamps, skipped, overlapped>>

\* A loop that logs a failed write and goes on to the next chain.
Counted_Always(t) == t.status # "pending"

Counted(t) == t.status = "executed"

\* A workflow that waits until the write has succeeded.
Response_WaitsForSuccess(r) ==
  LET t == tx[r] IN
  /\ pc[r] = "await" /\ Counted(t)
  /\ pc' = [pc EXCEPT ![r] = "write"]
  /\ position' = [position EXCEPT ![r] = @ + 1]
  /\ stamps' = [stamps EXCEPT ![r][t.chain] = t.report.timestamp]
  /\ UNCHANGED <<clock, version, available, permitted, log, envOps,
                 fetched, tx, result, skipped, overlapped>>

Response(r) ==
  LET t == tx[r] IN
  /\ pc[r] = "await" /\ t.status # "pending"
  /\ IF Counted(t)
       THEN /\ pc' = [pc EXCEPT ![r] = "write"]
            /\ position' = [position EXCEPT ![r] = @ + 1]
            /\ stamps' = [stamps EXCEPT ![r][t.chain] = t.report.timestamp]
            /\ UNCHANGED result
       ELSE /\ pc' = [pc EXCEPT ![r] = "idle"]
            /\ result' = [result EXCEPT ![r] = "failed"]
            /\ UNCHANGED <<position, stamps>>
  /\ UNCHANGED <<clock, version, available, permitted, log, envOps,
                 fetched, tx, skipped, overlapped>>

\* A report cannot be made, or a write returns no answer: the execution ends,
\* and its transaction, if there is one, may still land.
CallFails(r) ==
  /\ EnvOp
  /\ UnderWay(r) /\ position[r] <= Len(Order)
  /\ pc' = [pc EXCEPT ![r] = IF @ = "await" /\ tx[r].status = "pending"
                               THEN "abandoned" ELSE "idle"]
  /\ result' = [result EXCEPT ![r] = "failed"]
  /\ UNCHANGED <<clock, version, available, permitted, log,
                 position, fetched, tx, stamps, skipped, overlapped>>

Complete(r) ==
  /\ pc[r] = "write" /\ position[r] > Len(Order)
  /\ pc' = [pc EXCEPT ![r] = "idle"]
  /\ result' = [result EXCEPT ![r] = "done"]
  /\ UNCHANGED <<clock, version, available, permitted, log, envOps,
                 position, fetched, tx, stamps, skipped, overlapped>>

-----------------------------------------------------------------------------

Proceed(r) == Write(r) \/ ExecuteReport(r) \/ Response(r) \/ Complete(r)

PublisherNext ==
  \/ Tick
  \/ Publication
  \/ Ripcord
  \/ \E c \in Chains : ChangePermission(c)
  \/ \E r \in Runs :
       FetchFails(r) \/ Fetch(r) \/ Proceed(r) \/ LoseReport(r) \/ CallFails(r)

\* An execution keeps going; its transaction lands unless it is lost.
PublisherFairness == \A r \in Runs : WF_publisherVars(Proceed(r))

PublisherSpec == PublisherInit /\ [][PublisherNext]_publisherVars /\ PublisherFairness

-----------------------------------------------------------------------------
(* Properties.                                                             *)

\* An execution that ends without an error has left every chain at least as
\* fresh as the report it made for it, except where it was not permitted:
\* although caches skip reports without saying so, and others write meanwhile.
DoneMeansFresh ==
  \A r \in Runs : result[r] = "done" =>
    \A c \in Chains \ skipped[r] : stamps[r][c] > 0 /\ LastTimestamp(c) >= stamps[r][c]

\* Executions that follow one another never take a feed back to a value
\* older than the one it shows, although their abandoned writes land in any
\* order and in the second of a newer one.  (Executions that overlap can: the
\* stamp tells when a report was made and not when its value was fetched.)
NoRegressionWithoutOverlap ==
  overlapped \/
  \A c \in Chains : \A i \in 1 .. Len(log[c]) - 1 :
    log[c][i].value <= log[c][i + 1].value

\* The cache of every chain stays the log that DataFeedsCache implements.
FeedLogs == INSTANCE FeedLog WITH Feeds <- Chains, Values <- Versions, MaxTimestamp <- MaxTime

CachesAreLogs == FeedLogs!Spec

\* Every execution ends.
ExecutionsEnd == \A r \in Runs : UnderWay(r) ~> ~UnderWay(r)

=============================================================================
