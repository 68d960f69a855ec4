---------------------------- MODULE BlockTrigger ----------------------------
(***************************************************************************)
(* The indexer-block-trigger workflow: a webhook posts the logs of a block,*)
(* each with its transaction, and an execution picks the transactions that *)
(* went to a watched address.  A transaction appears once per log it       *)
(* emitted, so one without logs is never seen.  The store of watched and   *)
(* matched items belongs to the execution: a webhook that is posted again  *)
(* is matched again.                                                       *)
(***************************************************************************)
EXTENDS Naturals, Sequences, SequencesExt

CONSTANTS
  Transactions,      \* hashes
  To,                \* per transaction: the address it was sent to, as written
  NoAddress,         \* a transaction that creates a contract has none
  WatchedAddresses,  \* config.watchedAddresses, as written
  ToLower,           \* per spelling of an address: the lower-case one
  MaxLogs            \* bound on the logs of a block

ASSUME TriggerAssumption ==
  /\ NoAddress \notin DOMAIN ToLower
  /\ To \in [Transactions -> DOMAIN ToLower \union {NoAddress}]
  /\ WatchedAddresses \subseteq DOMAIN ToLower
  /\ MaxLogs \in Nat

VARIABLES
  logs,            \* the transactions of the posted logs, in order
  position1,       \* the log that is looked at next
  processedHashes,
  transactions     \* the matches so far: the store, and the result

triggerVars == <<logs, position1, processedHashes, transactions>>

TriggerTypeOK ==
  /\ logs \in Seq(Transactions) /\ Len(logs) <= MaxLogs
  /\ position1 \in 1 .. Len(logs) + 1
  /\ processedHashes \subseteq Transactions
  /\ transactions \in Seq(Transactions)

TriggerInit ==
  /\ logs = <<>>
  /\ position1 = 1
  /\ processedHashes = {}
  /\ transactions = <<>>

Finished == position1 > Len(logs)

\* A webhook arrives when the execution before it has returned: a block with
\* any logs, or the last one once more.
OnHttpTrigger(block) ==
  /\ Finished
  /\ logs' = block
  /\ position1' = 1
  /\ processedHashes' = {}
  /\ transactions' = <<>>

\* Addresses compared as they are written.
IsWatchedAddress_AsWritten(a) == a \in WatchedAddresses

IsWatchedAddress(a) ==
  /\ a # NoAddress
  /\ ToLower[a] \in {ToLower[w] : w \in WatchedAddresses}

Seen(t) == t \in processedHashes

\* One turn of the loop over the logs.
NextLog ==
  LET t == logs[position1] IN
  /\ ~Finished
  /\ position1' = position1 + 1
  /\ processedHashes' = processedHashes \union {t}
  /\ transactions' = IF ~Seen(t) /\ IsWatchedAddress(To[t])
                       THEN Append(transactions, t) ELSE transactions
  /\ UNCHANGED logs

TriggerNext ==
  \/ NextLog
  \/ \E block \in BoundedSeq(Transactions, MaxLogs) : OnHttpTrigger(block)

TriggerSpec == TriggerInit /\ [][TriggerNext]_triggerVars

-----------------------------------------------------------------------------

\* A transaction of the logs that went to an address which equals a watched
\* one up to capitals.
Relevant(t) == \E w \in WatchedAddresses : To[t] # NoAddress /\ ToLower[To[t]] = ToLower[w]

FirstLog(t) == CHOOSE i \in 1 .. Len(logs) : logs[i] = t /\ \A j \in 1 .. i - 1 : logs[j] # t

\* The result has each relevant transaction of the logs once, in the order of
\* their first logs, whatever logs they share the block with.
EachMatchReportedOnce ==
  Finished =>
    /\ ToSet(transactions) = {t \in ToSet(logs) : Relevant(t)}
    /\ \A i, j \in 1 .. Len(transactions) :
         i < j => FirstLog(transactions[i]) < FirstLog(transactions[j])

=============================================================================
