------------------------------ MODULE KvStore -------------------------------
(***************************************************************************)
(* The counter of the kv-store workflow: one object in an S3 bucket, read, *)
(* incremented and written back by cron executions.                        *)
(*                                                                         *)
(* Every node of the network reads the object for itself; the execution    *)
(* goes on with the median of what enough nodes have read, and every node  *)
(* then puts the same new value.  A stored response of an equal request    *)
(* may stand for a node's put.  The execution ends when enough nodes       *)
(* agree, while puts of the other nodes may still be on their way.         *)
(* Nothing orders the reads and puts of one execution after those of       *)
(* another.                                                                *)
(***************************************************************************)
EXTENDS Naturals, FiniteSets

CONSTANTS
  KvNodes,
  KvQuorum,      \* the number of equal or usable node results for consensus
  KvRuns,        \* executions that may overlap
  Absent,        \* there is no object: a GET answers 404
  NotANumber,    \* the object holds some other text
  NoReading,     \* a node that has not read
  MaxStarts,     \* bound on executions
  MaxS3Faults    \* bound on failed requests and executions

ASSUME KvAssumption ==
  /\ IsFiniteSet(KvNodes)
  /\ KvQuorum \in Nat \ {0}
  /\ Absent \notin Nat /\ NotANumber \notin Nat /\ NoReading \notin Nat
  /\ MaxStarts \in Nat /\ MaxS3Faults \in Nat

PutStates == {"none", "sent", "answered", "failed"}

VARIABLES
  object,    \* what the bucket holds
  straying,  \* values of puts that may land although their execution is over
  kvPc,      \* per execution: where it is
  reading,   \* per execution and node: the value it has read
  newValue,  \* the value its nodes put
  put,       \* per execution and node: its put
  starts,    \* executions so far
  s3Faults,  \* faults so far (bounds the model)
  increments, \* executions that have got as far as writing
  successes, \* executions that ended with a result
  serial     \* none overlapped, failed, misread on two nodes, or left a put behind

kvVars == <<object, straying, kvPc, reading, newValue, put, starts, s3Faults,
            increments, successes, serial>>

Counts == 0 .. MaxStarts

KvTypeOK ==
  /\ object \in Counts \union {Absent, NotANumber}
  /\ straying \in SUBSET Counts
  /\ kvPc \in [KvRuns -> {"idle", "read", "write"}]
  /\ reading \in [KvRuns -> [KvNodes -> Counts \union {NoReading}]]
  /\ newValue \in [KvRuns -> Counts]
  /\ put \in [KvRuns -> [KvNodes -> PutStates]]
  /\ starts \in Counts /\ increments \in Counts /\ successes \in Counts
  /\ s3Faults \in 0 .. MaxS3Faults
  /\ serial \in BOOLEAN

KvInit ==
  /\ object \in {Absent, NotANumber}
  /\ straying = {}
  /\ kvPc = [r \in KvRuns |-> "idle"]
  /\ reading = [r \in KvRuns |-> [n \in KvNodes |-> NoReading]]
  /\ newValue = [r \in KvRuns |-> 0]
  /\ put = [r \in KvRuns |-> [n \in KvNodes |-> "none"]]
  /\ starts = 0
  /\ s3Faults = 0
  /\ increments = 0
  /\ successes = 0
  /\ serial = TRUE

\* A missing object counts from 0, and so does one that is not a number.
Number(content) == IF content \in {Absent, NotANumber} THEN 0 ELSE content

S3Fault ==
  /\ s3Faults < MaxS3Faults
  /\ s3Faults' = s3Faults + 1

-----------------------------------------------------------------------------
(* One execution of onCronTrigger.                                         *)

StartCount(r) ==
  /\ kvPc[r] = "idle" /\ starts < MaxStarts
  /\ kvPc' = [kvPc EXCEPT ![r] = "read"]
  /\ starts' = starts + 1
  /\ serial' = (serial /\ \A s \in KvRuns : kvPc[s] = "idle")
  /\ UNCHANGED <<object, straying, reading, newValue, put, s3Faults, increments, successes>>

\* s3ReadOnly on one node.
ReadValue(r, n) ==
  /\ kvPc[r] = "read"
  /\ reading[r][n] = NoReading
  /\ reading' = [reading EXCEPT ![r][n] = Number(object)]
  /\ UNCHANGED <<object, straying, kvPc, newValue, put, starts, s3Faults,
                 increments, successes, serial>>

\* A GET fails with an error whose text has a "404" or a "not found" in it, for
\* whatever reason: isNotFound takes the object for missing.
ReadMistaken(r, n) ==
  /\ S3Fault
  /\ kvPc[r] = "read"
  /\ reading[r][n] = NoReading
  /\ reading' = [reading EXCEPT ![r][n] = 0]
  /\ serial' = (serial /\ \A m \in KvNodes : reading[r][m] \in {Number(object), NoReading})
  /\ UNCHANGED <<object, straying, kvPc, newValue, put, starts, increments, successes>>

Readers(r) == {n \in KvNodes : reading[r][n] # NoReading}

\* The middle one of the readings in order.
IsMedian(r, v) ==
  LET half == Cardinality(Readers(r)) \div 2 IN
  /\ \E n \in Readers(r) : reading[r][n] = v
  /\ Cardinality({n \in Readers(r) : reading[r][n] < v}) <= half
  /\ Cardinality({n \in Readers(r) : reading[r][n] <= v}) > half

\* Consensus over the readings; the new value is one more than the median.
\* Nodes that have not read by then are too late.
Increment(r, old) ==
  /\ kvPc[r] = "read"
  /\ Cardinality(Readers(r)) >= KvQuorum
  /\ IsMedian(r, old)
  /\ newValue' = [newValue EXCEPT ![r] = old + 1]
  /\ kvPc' = [kvPc EXCEPT ![r] = "write"]
  /\ reading' = [reading EXCEPT ![r] = [n \in KvNodes |-> NoReading]]
  /\ increments' = increments + 1
  /\ UNCHANGED <<object, straying, put, starts, s3Faults, successes, serial>>

\* s3WriteOnly on one node sends its put, unless the response to an equal one
\* has been stored: then that is its answer.
WriteValue(r, n) ==
  /\ kvPc[r] = "write"
  /\ put[r][n] = "none"
  /\ \/ put' = [put EXCEPT ![r][n] = "sent"]
     \/ /\ \E m \in KvNodes : put[r][m] = "answered"
        /\ put' = [put EXCEPT ![r][n] = "answered"]
  /\ UNCHANGED <<object, straying, kvPc, reading, newValue, starts, s3Faults,
                 increments, successes, serial>>

\* A put that increments what it finds.
Written_Increments(r) == Number(object) + 1

\* What a put leaves in the bucket.
Written(r) == newValue[r]

\* The bucket takes the value and answers.
PutLands(r, n) ==
  /\ put[r][n] = "sent"
  /\ object' = Written(r)
  /\ put' = [put EXCEPT ![r][n] = "answered"]
  /\ UNCHANGED <<straying, kvPc, reading, newValue, starts, s3Faults,
                 increments, successes, serial>>

\* Every answer counts, also a refusal.
AfterRefusal_AnyStatus == "answered"

\* A status of 300 or more is an error.
AfterRefusal == "failed"

\* The bucket refuses the put.
PutRefused(r, n) ==
  /\ S3Fault
  /\ put[r][n] = "sent"
  /\ put' = [put EXCEPT ![r][n] = AfterRefusal]
  /\ UNCHANGED <<object, straying, kvPc, reading, newValue, starts,
                 increments, successes, serial>>

\* The request times out; the bucket may still take it.
PutTimesOut(r, n) ==
  /\ S3Fault
  /\ put[r][n] = "sent"
  /\ put' = [put EXCEPT ![r][n] = "failed"]
  /\ straying' = straying \union {newValue[r]}
  /\ serial' = FALSE
  /\ UNCHANGED <<object, kvPc, reading, newValue, starts, increments, successes>>

Answering(r) == {n \in KvNodes : put[r][n] = "answered"}
Sending(r) == {n \in KvNodes : put[r][n] = "sent"}

\* The execution is over; puts that are on their way go on without it.
EndCount(r) ==
  /\ kvPc' = [kvPc EXCEPT ![r] = "idle"]
  /\ put' = [put EXCEPT ![r] = [n \in KvNodes |-> "none"]]
  /\ newValue' = [newValue EXCEPT ![r] = 0]
  /\ reading' = [reading EXCEPT ![r] = [n \in KvNodes |-> NoReading]]
  /\ straying' = IF Sending(r) = {} THEN straying ELSE straying \union {newValue[r]}

\* Enough nodes report the same result.
Succeed(r) ==
  /\ kvPc[r] = "write"
  /\ Cardinality(Answering(r)) >= KvQuorum
  /\ EndCount(r)
  /\ successes' = successes + 1
  /\ serial' = (serial /\ Sending(r) = {})
  /\ UNCHANGED <<object, starts, s3Faults, increments>>

\* The secrets, a read, or consensus fails: the execution returns an error.
FailCount(r) ==
  /\ S3Fault
  /\ kvPc[r] # "idle"
  /\ EndCount(r)
  /\ serial' = FALSE
  /\ UNCHANGED <<object, starts, increments, successes>>

\* A put whose execution is over or has given it up lands.
StrayPutLands(v) ==
  /\ v \in straying
  /\ object' = v
  /\ straying' = straying \ {v}
  /\ UNCHANGED <<kvPc, reading, newValue, put, starts, s3Faults, increments,
                 successes, serial>>

OnCronTrigger(r) ==
  \/ StartCount(r)
  \/ \E n \in KvNodes :
       \/ ReadValue(r, n) \/ ReadMistaken(r, n) \/ WriteValue(r, n)
       \/ PutLands(r, n) \/ PutRefused(r, n) \/ PutTimesOut(r, n)
  \/ \E old \in Counts : Increment(r, old)
  \/ Succeed(r)
  \/ FailCount(r)

KvNext ==
  \/ \E r \in KvRuns : OnCronTrigger(r)
  \/ \E v \in Counts : StrayPutLands(v)

KvSpec == KvInit /\ [][KvNext]_kvVars

-----------------------------------------------------------------------------
(* Properties.                                                             *)

\* However executions overlap, and although every node puts the value, possibly
\* late: the counter never shows more than the executions that got as far as
\* writing.  (It may show less, and may go back.)
NothingCountedTwice == Number(object) <= increments

\* As long as executions follow one another and leave nothing behind, the
\* counter is exact whenever none is under way, although one node of an
\* execution may take the object for missing: the median passes over it.
SerialCountIsExact ==
  serial /\ (\A r \in KvRuns : kvPc[r] = "idle") => Number(object) = successes

=============================================================================
