--------------------------- MODULE TemplateProofs ---------------------------
(***************************************************************************)
(* The templates that share no state, for every value of their constants.  *)
(*                                                                         *)
(* KvStore: the counter shows no more than the executions that wrote, and  *)
(* exactly the successful ones while executions follow one another.        *)
(*                                                                         *)
(* BlockTrigger: the result has each relevant transaction once, in order.  *)
(*                                                                         *)
(* MessageFeed: the contract confirms the log that started an execution.   *)
(*                                                                         *)
(* ContractBindings: a handler gets the logs its filters want, decoded as  *)
(* they were emitted, and views that include a final log.                  *)
(*                                                                         *)
(* AaveLending: the receiver of the lending workflow keeps no tokens as    *)
(* long as no repayment was asked for beyond the debt, or next to another. *)
(*                                                                         *)
(* MCTemplates: side by side, each of them follows its own specification   *)
(* and keeps its types.                                                    *)
(***************************************************************************)
EXTENDS MCTemplates, FeedProofs, SequenceTheorems

-----------------------------------------------------------------------------
(* KvStore.  A value takes a long way from one execution to the next:      *)
(* written, it is read by nodes, becomes the median, is incremented, put   *)
(* by every node, and may stray into the bucket when its execution is long *)
(* over.  On each stretch of that way no value is above the number of      *)
(* executions that have incremented so far.                                *)

CountsType ==
  /\ object \in Nat \union {Absent, NotANumber}
  /\ straying \in SUBSET Nat
  /\ reading \in [KvRuns -> [KvNodes -> Nat \union {NoReading}]]
  /\ newValue \in [KvRuns -> Nat]
  /\ increments \in Nat

NumberBounded == Number(object) <= increments

StrayingBounded == \A v \in straying : v <= increments

ReadingsBounded ==
  \A r \in KvRuns, n \in KvNodes :
    reading[r][n] # NoReading => reading[r][n] <= increments

NewValuesBounded == \A r \in KvRuns : newValue[r] <= increments

KvInv ==
  CountsType /\ NumberBounded /\ StrayingBounded /\ ReadingsBounded /\ NewValuesBounded

LEMMA KvSentinels == Absent \notin Nat /\ NotANumber \notin Nat /\ NoReading \notin Nat
BY KvAssumption DEF KvAssumption

LEMMA KvInitInv == KvInit => KvInv
BY KvSentinels DEF KvInit, KvInv, CountsType, Number, NumberBounded, StrayingBounded,
                   ReadingsBounded, NewValuesBounded

\* What the bucket shows is a number.
LEMMA NumberIsNat == CountsType => Number(object) \in Nat
BY DEF CountsType, Number

-----------------------------------------------------------------------------
(* The stretches of the way.                                               *)

\* A node reads what the bucket shows, or takes the object for missing.
LEMMA ReadingKeeps ==
  ASSUME KvInv, NEW r \in KvRuns, NEW n \in KvNodes,
         ReadValue(r, n) \/ ReadMistaken(r, n)
  PROVE  KvInv'
<1>1. PICK v \in Nat : v <= increments /\ reading' = [reading EXCEPT ![r][n] = v]
  BY NumberIsNat DEF KvInv, CountsType, NumberBounded, ReadValue, ReadMistaken
<1>2. UNCHANGED <<object, straying, newValue, increments>>
  BY DEF ReadValue, ReadMistaken
<1>3. CountsType'
  BY <1>1, <1>2 DEF KvInv, CountsType
<1>4. ReadingsBounded'
  BY <1>1, <1>2 DEF KvInv, CountsType, ReadingsBounded
<1>5. NumberBounded' /\ StrayingBounded' /\ NewValuesBounded'
  BY <1>2 DEF KvInv, NumberBounded, Number, StrayingBounded, NewValuesBounded
<1> QED
  BY <1>3, <1>4, <1>5 DEF KvInv

\* The new value is at most one more than the executions before this one.
LEMMA IncrementKeeps ==
  ASSUME KvInv, NEW r \in KvRuns, NEW old \in Counts, Increment(r, old)
  PROVE  KvInv'
<1>1. PICK n \in KvNodes : reading[r][n] # NoReading /\ reading[r][n] = old
  BY DEF Increment, IsMedian, Readers
<1>2. old \in Nat /\ old <= increments
  BY <1>1 DEF KvInv, CountsType, ReadingsBounded
<1>3. /\ newValue' = [newValue EXCEPT ![r] = old + 1]
      /\ reading' = [reading EXCEPT ![r] = [m \in KvNodes |-> NoReading]]
      /\ increments' = increments + 1
      /\ UNCHANGED <<object, straying>>
  BY DEF Increment
<1>4. CountsType'
  BY <1>2, <1>3 DEF KvInv, CountsType
<1>5. NumberBounded'
  BY <1>3, NumberIsNat DEF KvInv, CountsType, NumberBounded, Number
<1>6. StrayingBounded'
  BY <1>3 DEF KvInv, CountsType, StrayingBounded
<1>7. ReadingsBounded'
  BY <1>3 DEF KvInv, CountsType, ReadingsBounded
<1>8. NewValuesBounded'
  BY <1>2, <1>3 DEF KvInv, CountsType, NewValuesBounded
<1> QED
  BY <1>4, <1>5, <1>6, <1>7, <1>8 DEF KvInv

\* A put lands while its execution is there ...
LEMMA PutKeeps ==
  ASSUME KvInv, NEW r \in KvRuns, NEW n \in KvNodes,
         PutLands(r, n) \/ PutRefused(r, n) \/ PutTimesOut(r, n) \/ WriteValue(r, n)
  PROVE  KvInv'
<1>1. UNCHANGED <<reading, newValue, increments>>
  BY DEF PutLands, PutRefused, PutTimesOut, WriteValue
<1>2. /\ object' \in {object, newValue[r]}
      /\ straying' \in {straying, straying \union {newValue[r]}}
  BY DEF PutLands, PutRefused, PutTimesOut, WriteValue, Written
<1>3. newValue[r] \in Nat /\ newValue[r] <= increments
  BY DEF KvInv, CountsType, NewValuesBounded
<1>4. CountsType'
  BY <1>1, <1>2, <1>3 DEF KvInv, CountsType
<1>5. NumberBounded'
  BY <1>1, <1>2, <1>3, KvSentinels DEF KvInv, CountsType, NumberBounded, Number
<1>6. StrayingBounded'
  BY <1>1, <1>2, <1>3 DEF KvInv, StrayingBounded
<1>7. ReadingsBounded' /\ NewValuesBounded'
  BY <1>1 DEF KvInv, ReadingsBounded, NewValuesBounded
<1> QED
  BY <1>4, <1>5, <1>6, <1>7 DEF KvInv

\* ... or when it is over.
LEMMA StrayPutKeeps ==
  ASSUME KvInv, NEW v \in Counts, StrayPutLands(v)
  PROVE  KvInv'
<1>1. /\ object' = v /\ v \in Nat /\ v <= increments
      /\ straying' = straying \ {v}
      /\ UNCHANGED <<reading, newValue, increments>>
  BY DEF KvInv, CountsType, StrayingBounded, StrayPutLands
<1>2. CountsType'
  BY <1>1 DEF KvInv, CountsType
<1>3. NumberBounded'
  BY <1>1, KvSentinels DEF NumberBounded, Number
<1>4. StrayingBounded' /\ ReadingsBounded' /\ NewValuesBounded'
  BY <1>1 DEF KvInv, StrayingBounded, ReadingsBounded, NewValuesBounded
<1> QED
  BY <1>2, <1>3, <1>4 DEF KvInv

\* An execution that ends leaves its value to the puts that are on their way.
LEMMA EndKeeps ==
  ASSUME KvInv, NEW r \in KvRuns, Succeed(r) \/ FailCount(r)
  PROVE  KvInv'
<1>1. /\ newValue' = [newValue EXCEPT ![r] = 0]
      /\ reading' = [reading EXCEPT ![r] = [m \in KvNodes |-> NoReading]]
      /\ straying' \in {straying, straying \union {newValue[r]}}
      /\ UNCHANGED <<object, increments>>
  BY DEF Succeed, FailCount, EndCount
<1>2. newValue[r] \in Nat /\ newValue[r] <= increments
  BY DEF KvInv, CountsType, NewValuesBounded
<1>3. CountsType'
  BY <1>1, <1>2 DEF KvInv, CountsType
<1>4. NumberBounded'
  BY <1>1 DEF KvInv, NumberBounded, Number
<1>5. StrayingBounded'
  BY <1>1, <1>2 DEF KvInv, StrayingBounded
<1>6. ReadingsBounded'
  BY <1>1 DEF KvInv, CountsType, ReadingsBounded
<1>7. NewValuesBounded'
  BY <1>1 DEF KvInv, CountsType, NewValuesBounded
<1> QED
  BY <1>3, <1>4, <1>5, <1>6, <1>7 DEF KvInv

\* Starting touches no value.
LEMMA StartKeeps ==
  ASSUME KvInv, UNCHANGED <<object, straying, reading, newValue, increments>>
  PROVE  KvInv'
BY DEF KvInv, CountsType, NumberBounded, Number, StrayingBounded, ReadingsBounded,
       NewValuesBounded

-----------------------------------------------------------------------------
(* The theorem.                                                            *)

LEMMA KvNextInv == KvInv /\ [KvNext]_kvVars => KvInv'
<1> SUFFICES ASSUME KvInv, [KvNext]_kvVars
             PROVE  KvInv'
  OBVIOUS
<1>1. CASE \E r \in KvRuns : StartCount(r)
  BY <1>1, StartKeeps DEF StartCount
<1>2. CASE \E r \in KvRuns, n \in KvNodes : ReadValue(r, n) \/ ReadMistaken(r, n)
  BY <1>2, ReadingKeeps
<1>3. CASE \E r \in KvRuns, n \in KvNodes :
             PutLands(r, n) \/ PutRefused(r, n) \/ PutTimesOut(r, n) \/ WriteValue(r, n)
  BY <1>3, PutKeeps
<1>4. CASE \E r \in KvRuns, old \in Counts : Increment(r, old)
  BY <1>4, IncrementKeeps
<1>5. CASE \E r \in KvRuns : Succeed(r) \/ FailCount(r)
  BY <1>5, EndKeeps
<1>6. CASE \E v \in Counts : StrayPutLands(v)
  BY <1>6, StrayPutKeeps
<1>7. CASE UNCHANGED kvVars
  BY <1>7, StartKeeps DEF kvVars
<1> QED
  BY <1>1, <1>2, <1>3, <1>4, <1>5, <1>6, <1>7, Zenon DEF KvNext, OnCronTrigger

\* However executions overlap and whatever lands late, the counter shows no more
\* than the executions that got as far as writing: an increment is never
\* applied on top of itself, although every node puts the value.
THEOREM CounterNeverRunsAhead == KvSpec => []NothingCountedTwice
<1>1. KvInv => NothingCountedTwice
  BY DEF KvInv, NumberBounded, NothingCountedTwice
<1>2. KvSpec => []KvInv
  BY KvInitInv, KvNextInv, PTL DEF KvSpec
<1> QED
  BY <1>1, <1>2, PTL

-----------------------------------------------------------------------------
(* KvStore: executions are counted where they pass, and while they follow  *)
(* one another, one at a time brings the counter from one count of         *)
(* successes to the next.                                                  *)

Reading == {r \in KvRuns : kvPc[r] = "read"}
Writing == {r \in KvRuns : kvPc[r] = "write"}

\* Executions read before they write and write before they succeed.
ExecutionsCounted ==
  /\ kvPc \in [KvRuns -> {"idle", "read", "write"}]
  /\ put \in [KvRuns -> [KvNodes -> PutStates]]
  /\ starts \in Counts /\ increments \in Nat /\ successes \in Nat
  /\ s3Faults \in 0 .. MaxS3Faults /\ serial \in BOOLEAN
  /\ IsFiniteSet(Reading) /\ IsFiniteSet(Writing)
  /\ increments + Cardinality(Reading) <= starts
  /\ successes + Cardinality(Writing) <= increments

\* There are readings while an execution reads, and puts while it writes.
NothingLeftOver ==
  \A r \in KvRuns, n \in KvNodes :
    /\ kvPc[r] # "read" => reading[r][n] = NoReading
    /\ kvPc[r] # "write" => put[r][n] = "none"

\* A node has taken the object for missing.
Mistaken(r, n) == reading[r][n] \notin {successes, NoReading}

\* At most one of the readings is mistaken.
ReadingsInOrder ==
  \A r \in KvRuns : kvPc[r] = "read" =>
    /\ Number(object) = successes
    /\ \A n \in KvNodes : Mistaken(r, n) => reading[r][n] = 0
    /\ \A n, m \in KvNodes : Mistaken(r, n) /\ Mistaken(r, m) => n = m

PutsInOrder ==
  \A r \in KvRuns : kvPc[r] = "write" =>
    /\ newValue[r] = successes + 1
    /\ Number(object) \in {successes, successes + 1}
    /\ \A n \in KvNodes : put[r][n] = "answered" => Number(object) = successes + 1

InSeries ==
  /\ straying = {}
  /\ \A r, s \in KvRuns : kvPc[r] # "idle" /\ kvPc[s] # "idle" => r = s
  /\ (\A r \in KvRuns : kvPc[r] = "idle") => Number(object) = successes
  /\ ReadingsInOrder /\ PutsInOrder

SeriesInv == KvInv /\ ExecutionsCounted /\ NothingLeftOver /\ (KvQuorum > 1 /\ serial => InSeries)

LEMMA KvConstants ==
  /\ IsFiniteSet(KvNodes) /\ KvQuorum \in Nat \ {0}
  /\ MaxStarts \in Nat /\ MaxS3Faults \in Nat
BY KvAssumption DEF KvAssumption

LEMMA KvInitSeries == KvInit => ExecutionsCounted /\ NothingLeftOver /\ InSeries
<1> SUFFICES ASSUME KvInit PROVE ExecutionsCounted /\ NothingLeftOver /\ InSeries
  OBVIOUS
<1>1. Reading = {} /\ Writing = {}
  BY DEF KvInit, Reading, Writing
<1>2. IsFiniteSet({}) /\ Cardinality({}) = 0
  BY FS_EmptySet
<1>3. ExecutionsCounted
  <2>1. serial \in BOOLEAN
    BY Zenon DEF KvInit
  <2> QED
    BY <1>1, <1>2, <2>1, KvConstants DEF KvInit, ExecutionsCounted, PutStates, Counts
<1>4. NothingLeftOver
  BY DEF KvInit, NothingLeftOver
<1>5. InSeries
  BY DEF KvInit, InSeries, ReadingsInOrder, PutsInOrder, Number
<1> QED
  BY <1>3, <1>4, <1>5

\* Which executions read and write after a step of one of them.
LEMMA PlacesAfter ==
  ASSUME NEW r \in KvRuns, NEW place \in {"idle", "read", "write"}
  PROVE  ExecutionsCounted /\ kvPc' = [kvPc EXCEPT ![r] = place] =>
           /\ kvPc' \in [KvRuns -> {"idle", "read", "write"}]
           /\ kvPc'[r] = place /\ \A s \in KvRuns \ {r} : kvPc'[s] = kvPc[s]
           /\ Reading' = IF place = "read" THEN Reading \union {r} ELSE Reading \ {r}
           /\ Writing' = IF place = "write" THEN Writing \union {r} ELSE Writing \ {r}
BY DEF ExecutionsCounted, Reading, Writing

LEMMA SetsAfter ==
  ASSUME NEW r, NEW S
  PROVE  IsFiniteSet(S) =>
           /\ IsFiniteSet(S \union {r}) /\ IsFiniteSet(S \ {r})
           /\ Cardinality(S) \in Nat /\ Cardinality(S \ {r}) \in Nat
           /\ Cardinality(S \union {r}) = IF r \in S THEN Cardinality(S) ELSE Cardinality(S) + 1
           /\ Cardinality(S \ {r}) = IF r \in S THEN Cardinality(S) - 1 ELSE Cardinality(S)
           /\ Cardinality(S \ {r}) <= Cardinality(S)
<1>1. IsFiniteSet(S) => IsFiniteSet(S \union {r})
  BY FS_AddElement
<1>2. IsFiniteSet(S) =>
        Cardinality(S \union {r}) = IF r \in S THEN Cardinality(S) ELSE Cardinality(S) + 1
  BY FS_AddElement
<1>3. IsFiniteSet(S) => IsFiniteSet(S \ {r})
  BY FS_RemoveElement
<1>4. IsFiniteSet(S) =>
        Cardinality(S \ {r}) = IF r \in S THEN Cardinality(S) - 1 ELSE Cardinality(S)
  BY FS_RemoveElement
<1>5. IsFiniteSet(S) => Cardinality(S) \in Nat
  BY FS_CardinalityType
<1>6. IsFiniteSet(S) => Cardinality(S \ {r}) \in Nat
  BY <1>3, FS_CardinalityType
<1>7. IsFiniteSet(S) => Cardinality(S \ {r}) <= Cardinality(S)
  <2> DEFINE n == Cardinality(S)
             k == Cardinality(S \ {r})
  <2>1. IsFiniteSet(S) => (n \in Nat /\ k \in Nat /\ (k = n - 1 \/ k = n))
    BY <1>4, <1>5, <1>6
  <2> HIDE DEF n, k
  <2>2. IsFiniteSet(S) => k <= n
    BY <2>1
  <2> QED
    BY <2>2 DEF n, k
<1> QED
  BY <1>1, <1>2, <1>3, <1>4, <1>5, <1>6, <1>7

LEMMA StartSeries ==
  ASSUME SeriesInv, NEW r \in KvRuns, StartCount(r)
  PROVE  ExecutionsCounted' /\ NothingLeftOver' /\ (KvQuorum > 1 /\ serial' => InSeries')
<1>1. /\ KvInv /\ ExecutionsCounted /\ NothingLeftOver /\ (KvQuorum > 1 /\ serial => InSeries)
      /\ CountsType
  BY DEF SeriesInv, KvInv
<1>2. /\ kvPc[r] = "idle" /\ starts < MaxStarts
      /\ kvPc' = [kvPc EXCEPT ![r] = "read"]
      /\ starts' = starts + 1
      /\ UNCHANGED <<object, straying, reading, newValue, put, s3Faults, increments, successes>>
  BY DEF StartCount
<1>3. /\ kvPc' \in [KvRuns -> {"idle", "read", "write"}]
      /\ kvPc'[r] = "read" /\ \A s \in KvRuns \ {r} : kvPc'[s] = kvPc[s]
      /\ Reading' = Reading \union {r} /\ Writing' = Writing \ {r}
  BY <1>1, <1>2, PlacesAfter
<1>4. r \notin Reading /\ r \notin Writing
  BY <1>2 DEF Reading, Writing
<1>5. /\ IsFiniteSet(Reading') /\ Cardinality(Reading) \in Nat
      /\ Cardinality(Reading') = Cardinality(Reading) + 1 /\ Writing' = Writing
  <2>1. IsFiniteSet(Reading)
    BY <1>1 DEF ExecutionsCounted
  <2>2. Writing' = Writing
    BY <1>3, <1>4
  <2>3. /\ IsFiniteSet(Reading \union {r}) /\ Cardinality(Reading) \in Nat
        /\ Cardinality(Reading \union {r}) = Cardinality(Reading) + 1
    BY <1>4, <2>1, SetsAfter
  <2> QED
    BY <1>3, <2>2, <2>3
<1>6. serial' \in BOOLEAN /\ (serial' => serial /\ \A s \in KvRuns : kvPc[s] = "idle")
  BY <1>1, Zenon DEF StartCount, ExecutionsCounted
<1>7. ExecutionsCounted'
  <2>1. starts \in Nat /\ increments \in Nat /\ starts' \in Counts
    BY <1>1, <1>2, KvConstants DEF ExecutionsCounted, Counts
  <2>2. increments + Cardinality(Reading) <= starts
    BY <1>1 DEF ExecutionsCounted
  <2>3. increments + Cardinality(Reading') <= starts'
    BY <1>2, <1>5, <2>1, <2>2
  <2> QED
    BY <1>1, <1>2, <1>3, <1>5, <1>6, <2>1, <2>3 DEF ExecutionsCounted
<1>8. NothingLeftOver'
  BY <1>1, <1>2, <1>3 DEF NothingLeftOver
<1>9. ASSUME KvQuorum > 1, serial'
      PROVE  InSeries'
  <2>1. InSeries /\ Number(object) = successes /\ \A s \in KvRuns : kvPc[s] = "idle"
    BY <1>1, <1>6, <1>9 DEF InSeries
  <2>2. \A s \in KvRuns : kvPc'[s] # "idle" => s = r
    BY <1>3, <2>1
  <2>3. \A n \in KvNodes : reading'[r][n] = NoReading
    BY <1>1, <1>2 DEF NothingLeftOver
  <2>4. ReadingsInOrder'
    BY <1>2, <2>1, <2>2, <2>3 DEF ReadingsInOrder, Mistaken, Number
  <2>5. PutsInOrder'
    BY <1>3, <2>2 DEF PutsInOrder
  <2> QED
    BY <1>2, <1>3, <2>1, <2>2, <2>4, <2>5 DEF InSeries
<1> QED
  BY <1>7, <1>8, <1>9

\* Readings, mistaken or not.
LEMMA ReadingSeries ==
  ASSUME SeriesInv, NEW r \in KvRuns, NEW n \in KvNodes, ReadValue(r, n) \/ ReadMistaken(r, n)
  PROVE  ExecutionsCounted' /\ NothingLeftOver' /\ (KvQuorum > 1 /\ serial' => InSeries')
<1>1. /\ KvInv /\ ExecutionsCounted /\ NothingLeftOver /\ (KvQuorum > 1 /\ serial => InSeries)
      /\ CountsType
  BY DEF SeriesInv, KvInv
<1>2. PICK v \in Nat :
        /\ reading' = [reading EXCEPT ![r][n] = v] /\ kvPc[r] = "read"
        /\ \/ v = Number(object) /\ serial' = serial
           \/ /\ v = 0
              /\ serial' =>
                   serial /\ \A m \in KvNodes : reading[r][m] \in {Number(object), NoReading}
  BY <1>1, NumberIsNat, Zenon DEF ReadValue, ReadMistaken
<1>3. UNCHANGED <<object, straying, kvPc, newValue, put, starts, increments, successes>>
  BY DEF ReadValue, ReadMistaken
<1>4. s3Faults' \in 0 .. MaxS3Faults /\ serial' \in BOOLEAN
  <2>1. s3Faults' \in 0 .. MaxS3Faults
    BY <1>1, KvConstants DEF ExecutionsCounted, ReadValue, ReadMistaken, S3Fault
  <2>2. serial' \in BOOLEAN
    BY <1>1, Zenon DEF ExecutionsCounted, ReadValue, ReadMistaken
  <2> QED
    BY <2>1, <2>2
<1>5. ExecutionsCounted'
  BY <1>1, <1>3, <1>4 DEF ExecutionsCounted, Reading, Writing
<1>6. \A s \in KvRuns, m \in KvNodes :
        reading'[s][m] = IF s = r /\ m = n THEN v ELSE reading[s][m]
  BY <1>1, <1>2 DEF CountsType
<1>7. NothingLeftOver'
  BY <1>1, <1>2, <1>3, <1>6 DEF NothingLeftOver
<1>8. ASSUME KvQuorum > 1, serial'
      PROVE  InSeries'
  <2>1. InSeries /\ Number(object) = successes
    BY <1>1, <1>2, <1>8 DEF InSeries, ReadingsInOrder
  <2>2. v = successes \/ (v = 0 /\ \A m \in KvNodes : ~Mistaken(r, m))
    BY <1>2, <1>8, <2>1 DEF Mistaken
  <2>3. \A s \in KvRuns, m \in KvNodes : kvPc[s] = "read" => s = r
    BY <1>2, <2>1 DEF InSeries
  <2>4. \A m \in KvNodes : m # n => (Mistaken(r, m)' <=> Mistaken(r, m))
    BY <1>3, <1>6 DEF Mistaken
  <2>5. Mistaken(r, n)' => v = 0 /\ \A m \in KvNodes : ~Mistaken(r, m)
    BY <1>3, <1>6, <2>2 DEF Mistaken
  <2>6. ReadingsInOrder'
    <3>1. \A m \in KvNodes : Mistaken(r, m)' => reading'[r][m] = 0
      BY <1>2, <1>6, <2>1, <2>4, <2>5 DEF InSeries, ReadingsInOrder
    <3>2. \A m, o \in KvNodes : Mistaken(r, m)' /\ Mistaken(r, o)' => m = o
      BY <1>2, <2>1, <2>4, <2>5 DEF InSeries, ReadingsInOrder
    <3>3. \A s \in KvRuns : kvPc[s] = "read" => s = r
      BY <1>2, <2>1 DEF InSeries
    <3> QED
      BY <1>3, <2>1, <3>1, <3>2, <3>3 DEF ReadingsInOrder, Number
  <2>7. PutsInOrder'
    BY <1>3, <2>1 DEF InSeries, PutsInOrder, Number
  <2> QED
    BY <1>3, <2>1, <2>6, <2>7 DEF InSeries, Number
<1> QED
  BY <1>5, <1>7, <1>8

\* The median passes over a mistaken reading, if there are two others.
LEMMA MedianIsExact ==
  ASSUME NEW r \in KvRuns, NEW old \in Counts
  PROVE  KvQuorum > 1 /\ CountsType /\ ReadingsInOrder /\ kvPc[r] = "read"
           /\ Cardinality(Readers(r)) >= KvQuorum /\ IsMedian(r, old) => old = successes
<1>1. SUFFICES ASSUME KvQuorum > 1, CountsType, ReadingsInOrder, kvPc[r] = "read",
                      Cardinality(Readers(r)) >= KvQuorum, IsMedian(r, old), old # successes
               PROVE  FALSE
  OBVIOUS
<1>2. PICK m \in KvNodes : reading[r][m] = old /\ Mistaken(r, m)
  BY <1>1 DEF IsMedian, Readers, Mistaken
<1>3. old = 0 /\ \A n \in KvNodes : Mistaken(r, n) => n = m
  BY <1>1, <1>2 DEF ReadingsInOrder
<1>4. successes = Number(object) /\ Number(object) \in Nat
  BY <1>1, NumberIsNat DEF ReadingsInOrder
<1> DEFINE R == Readers(r)
           low == {n \in R : reading[r][n] <= old}
<1>5. low \subseteq {m}
  <2>1. SUFFICES ASSUME NEW n \in low PROVE n = m
    OBVIOUS
  <2>2. n \in KvNodes /\ reading[r][n] <= 0 /\ reading[r][n] # NoReading
    BY <1>3, <2>1 DEF Readers
  <2>3. reading[r][n] # successes
    BY <1>1, <1>3, <1>4, <2>2
  <2> QED
    BY <1>3, <2>2, <2>3 DEF Mistaken
<1>6. IsFiniteSet(R) /\ R \subseteq KvNodes
  <2>1. R \subseteq KvNodes
    BY DEF Readers
  <2> QED
    BY <2>1, KvConstants, FS_Subset
<1>7. Cardinality(low) <= 1 /\ Cardinality(low) \in Nat
  <2>1. IsFiniteSet({m}) /\ Cardinality({m}) = 1
    BY FS_Singleton
  <2>2. Cardinality(low) <= Cardinality({m}) /\ IsFiniteSet(low)
    BY <1>5, <2>1, FS_Subset
  <2> QED
    BY <2>1, <2>2, FS_CardinalityType
<1>8. Cardinality(low) > Cardinality(R) \div 2
  BY <1>1 DEF IsMedian
<1>9. Cardinality(R) \in Nat /\ Cardinality(R) >= 2
  BY <1>1, <1>6, KvConstants, FS_CardinalityType
<1> HIDE DEF R, low
<1>10. Cardinality(R) \div 2 >= 1 /\ Cardinality(R) \div 2 \in Nat
  BY <1>9
<1> QED
  BY <1>7, <1>8, <1>10

\* One more than the median, which is the number of successes.
LEMMA IncrementSeries ==
  ASSUME NEW r \in KvRuns, NEW old \in Counts
  PROVE  SeriesInv /\ Increment(r, old) =>
           ExecutionsCounted' /\ NothingLeftOver' /\ (KvQuorum > 1 /\ serial' => InSeries')
<1>0. SUFFICES ASSUME SeriesInv, Increment(r, old)
               PROVE  /\ ExecutionsCounted' /\ NothingLeftOver'
                      /\ KvQuorum > 1 /\ serial' => InSeries'
  OBVIOUS
<1>1. /\ KvInv /\ ExecutionsCounted /\ NothingLeftOver /\ (KvQuorum > 1 /\ serial => InSeries)
      /\ CountsType
  BY <1>0 DEF SeriesInv, KvInv
<1>2. /\ kvPc[r] = "read" /\ Cardinality(Readers(r)) >= KvQuorum /\ IsMedian(r, old)
      /\ newValue' = [newValue EXCEPT ![r] = old + 1]
      /\ kvPc' = [kvPc EXCEPT ![r] = "write"]
      /\ reading' = [reading EXCEPT ![r] = [n \in KvNodes |-> NoReading]]
      /\ increments' = increments + 1
      /\ UNCHANGED <<object, straying, put, starts, s3Faults, successes, serial>>
  BY <1>0 DEF Increment
<1>3. /\ kvPc' \in [KvRuns -> {"idle", "read", "write"}]
      /\ kvPc'[r] = "write" /\ \A s \in KvRuns \ {r} : kvPc'[s] = kvPc[s]
      /\ Reading' = Reading \ {r} /\ Writing' = Writing \union {r}
  BY <1>1, <1>2, PlacesAfter
<1>4. r \in Reading /\ r \notin Writing
  BY <1>2 DEF Reading, Writing
<1>5. /\ IsFiniteSet(Reading') /\ IsFiniteSet(Writing')
      /\ Cardinality(Reading) \in Nat /\ Cardinality(Writing) \in Nat
      /\ Cardinality(Reading') = Cardinality(Reading) - 1
      /\ Cardinality(Writing') = Cardinality(Writing) + 1
  <2>1. IsFiniteSet(Reading) /\ IsFiniteSet(Writing)
    BY <1>1 DEF ExecutionsCounted
  <2>2. /\ IsFiniteSet(Reading \ {r}) /\ Cardinality(Reading) \in Nat
        /\ Cardinality(Reading \ {r}) = Cardinality(Reading) - 1
    BY <1>4, <2>1, SetsAfter
  <2>3. /\ IsFiniteSet(Writing \union {r}) /\ Cardinality(Writing) \in Nat
        /\ Cardinality(Writing \union {r}) = Cardinality(Writing) + 1
    BY <1>4, <2>1, SetsAfter
  <2> QED
    BY <1>3, <2>2, <2>3
<1>6. ExecutionsCounted'
  <2>1. starts \in Nat /\ increments \in Nat /\ successes \in Nat
    BY <1>1, KvConstants DEF ExecutionsCounted, Counts
  <2>2. /\ increments + Cardinality(Reading) <= starts
        /\ successes + Cardinality(Writing) <= increments
    BY <1>1 DEF ExecutionsCounted
  <2>3. /\ increments' + Cardinality(Reading') <= starts'
        /\ successes' + Cardinality(Writing') <= increments' /\ increments' \in Nat
    BY <1>2, <1>5, <2>1, <2>2
  <2> QED
    BY <1>1, <1>2, <1>3, <1>5, <2>3 DEF ExecutionsCounted
<1>7. \A n \in KvNodes : put[r][n] = "none"
  BY <1>1, <1>2 DEF NothingLeftOver
<1>8. NothingLeftOver'
  BY <1>1, <1>2, <1>3 DEF NothingLeftOver, CountsType
<1>9. ASSUME KvQuorum > 1, serial'
      PROVE  InSeries'
  <2>1. InSeries /\ Number(object) = successes
    BY <1>1, <1>2, <1>9 DEF InSeries, ReadingsInOrder
  <2>2. old = successes
    BY <1>0, <1>1, <1>2, <1>9, <2>1, MedianIsExact DEF InSeries
  <2>3. \A s \in KvRuns : kvPc'[s] # "idle" => s = r
    BY <1>2, <1>3, <2>1 DEF InSeries
  <2>4. ReadingsInOrder'
    BY <1>3, <2>3 DEF ReadingsInOrder
  <2>5. newValue'[r] = successes + 1
    BY <1>1, <1>2, <2>2 DEF CountsType
  <2>6. PutsInOrder'
    BY <1>2, <1>7, <2>1, <2>3, <2>5 DEF PutsInOrder, Number
  <2> QED
    BY <1>2, <1>3, <2>1, <2>3, <2>4, <2>6 DEF InSeries
<1> QED
  BY <1>6, <1>8, <1>9

\* A put stores the value that all the nodes of its execution put.
LEMMA PutSeries ==
  ASSUME SeriesInv, NEW r \in KvRuns, NEW n \in KvNodes,
         PutLands(r, n) \/ PutRefused(r, n) \/ PutTimesOut(r, n) \/ WriteValue(r, n)
  PROVE  ExecutionsCounted' /\ NothingLeftOver' /\ (KvQuorum > 1 /\ serial' => InSeries')
<1>1. /\ KvInv /\ ExecutionsCounted /\ NothingLeftOver /\ (KvQuorum > 1 /\ serial => InSeries)
      /\ CountsType
  BY DEF SeriesInv, KvInv
<1>2. PICK state \in {"sent", "answered", "failed"} :
        /\ put' = [put EXCEPT ![r][n] = state]
        /\ \/ object' = newValue[r]
           \/ object' = object /\ (state = "answered" => \E m \in KvNodes : put[r][m] = "answered")
  BY DEF PutLands, PutRefused, PutTimesOut, WriteValue, Written, AfterRefusal
<1>3. kvPc[r] = "write" /\ UNCHANGED <<kvPc, reading, newValue, starts, increments, successes>>
  <2>1. kvPc[r] = "write"
    BY <1>1 DEF NothingLeftOver, PutLands, PutRefused, PutTimesOut, WriteValue
  <2> QED
    BY <2>1 DEF PutLands, PutRefused, PutTimesOut, WriteValue
<1>4. /\ s3Faults' \in 0 .. MaxS3Faults /\ serial' \in BOOLEAN
      /\ serial' => serial /\ straying' = straying
  <2>1. s3Faults' \in 0 .. MaxS3Faults
    BY <1>1, KvConstants
    DEF ExecutionsCounted, S3Fault, PutLands, PutRefused, PutTimesOut, WriteValue
  <2>2. serial' \in BOOLEAN
    BY <1>1, Zenon DEF ExecutionsCounted, PutLands, PutRefused, PutTimesOut, WriteValue
  <2>3. serial' => serial /\ straying' = straying
    BY Zenon DEF PutLands, PutRefused, PutTimesOut, WriteValue
  <2> QED
    BY <2>1, <2>2, <2>3
<1>5. \A s \in KvRuns, m \in KvNodes :
        put'[s][m] = IF s = r /\ m = n THEN state ELSE put[s][m]
  BY <1>1, <1>2 DEF ExecutionsCounted
<1>6. ExecutionsCounted'
  <2>1. put' \in [KvRuns -> [KvNodes -> PutStates]]
    BY <1>1, <1>2 DEF ExecutionsCounted, PutStates
  <2> QED
    BY <1>1, <1>3, <1>4, <2>1 DEF ExecutionsCounted, Reading, Writing
<1>7. NothingLeftOver'
  BY <1>1, <1>3, <1>5 DEF NothingLeftOver
<1>8. ASSUME KvQuorum > 1, serial'
      PROVE  InSeries'
  <2>1. /\ InSeries /\ newValue[r] = successes + 1
        /\ Number(object) \in {successes, successes + 1}
        /\ \A m \in KvNodes : put[r][m] = "answered" => Number(object) = successes + 1
    BY <1>1, <1>3, <1>4, <1>8 DEF InSeries, PutsInOrder
  <2>2. \A s \in KvRuns : kvPc[s] # "idle" => s = r
    BY <1>3, <2>1 DEF InSeries
  <2>3. object' = newValue[r] => Number(object') = successes + 1
    BY <1>1, <2>1, KvSentinels DEF CountsType, Number
  <2>4. Number(object') \in {successes, successes + 1}
    BY <1>2, <2>1, <2>3
  <2>5. \A m \in KvNodes : put'[r][m] = "answered" => Number(object') = successes + 1
    BY <1>2, <1>5, <2>1, <2>3
  <2>6. ReadingsInOrder' /\ PutsInOrder'
    BY <1>3, <2>1, <2>2, <2>4, <2>5 DEF ReadingsInOrder, PutsInOrder, Number
  <2> QED
    BY <1>3, <1>4, <1>8, <2>1, <2>6 DEF InSeries
<1> QED
  BY <1>6, <1>7, <1>8

\* An execution succeeds with its value in the bucket, and a series goes on if
\* it leaves no put behind.
LEMMA EndSeries ==
  ASSUME SeriesInv, NEW r \in KvRuns, Succeed(r) \/ FailCount(r)
  PROVE  ExecutionsCounted' /\ NothingLeftOver' /\ (KvQuorum > 1 /\ serial' => InSeries')
<1>1. /\ KvInv /\ ExecutionsCounted /\ NothingLeftOver /\ (KvQuorum > 1 /\ serial => InSeries)
      /\ CountsType
  BY DEF SeriesInv, KvInv
<1>2. /\ kvPc' = [kvPc EXCEPT ![r] = "idle"]
      /\ put' = [put EXCEPT ![r] = [n \in KvNodes |-> "none"]]
      /\ newValue' = [newValue EXCEPT ![r] = 0]
      /\ reading' = [reading EXCEPT ![r] = [n \in KvNodes |-> NoReading]]
      /\ UNCHANGED <<object, starts, increments>>
  BY DEF Succeed, FailCount, EndCount
<1>3. /\ kvPc' \in [KvRuns -> {"idle", "read", "write"}]
      /\ kvPc'[r] = "idle" /\ \A s \in KvRuns \ {r} : kvPc'[s] = kvPc[s]
      /\ Reading' = Reading \ {r} /\ Writing' = Writing \ {r}
  BY <1>1, <1>2, PlacesAfter
<1>4. /\ s3Faults' \in 0 .. MaxS3Faults /\ serial' \in BOOLEAN
  <2>1. s3Faults' \in 0 .. MaxS3Faults
    BY <1>1, KvConstants DEF ExecutionsCounted, S3Fault, Succeed, FailCount
  <2>2. serial' \in BOOLEAN
    BY <1>1, Zenon DEF ExecutionsCounted, Succeed, FailCount
  <2> QED
    BY <2>1, <2>2
<1>5. /\ successes \in Nat
      /\ \/ successes' = successes
         \/ successes' = successes + 1 /\ r \in Writing
  BY <1>1 DEF ExecutionsCounted, Succeed, FailCount, Writing
<1>6. /\ IsFiniteSet(Reading') /\ IsFiniteSet(Writing')
      /\ Cardinality(Reading) \in Nat /\ Cardinality(Writing) \in Nat
      /\ Cardinality(Reading') \in Nat /\ Cardinality(Writing') \in Nat
      /\ Cardinality(Reading') <= Cardinality(Reading)
      /\ Cardinality(Writing') <= Cardinality(Writing)
      /\ r \in Writing => Cardinality(Writing') = Cardinality(Writing) - 1
  <2>1. IsFiniteSet(Reading) /\ IsFiniteSet(Writing)
    BY <1>1 DEF ExecutionsCounted
  <2>2. /\ IsFiniteSet(Reading \ {r}) /\ Cardinality(Reading) \in Nat
        /\ Cardinality(Reading \ {r}) \in Nat
        /\ Cardinality(Reading \ {r}) <= Cardinality(Reading)
    BY <2>1, SetsAfter
  <2>3. /\ IsFiniteSet(Writing \ {r}) /\ Cardinality(Writing) \in Nat
        /\ Cardinality(Writing \ {r}) \in Nat
        /\ Cardinality(Writing \ {r}) <= Cardinality(Writing)
        /\ r \in Writing => Cardinality(Writing \ {r}) = Cardinality(Writing) - 1
    BY <2>1, SetsAfter
  <2> QED
    BY <1>3, <2>2, <2>3
<1>7. ExecutionsCounted'
  <2>1. starts \in Nat /\ increments \in Nat /\ successes \in Nat
    BY <1>1, KvConstants DEF ExecutionsCounted, Counts
  <2>2. /\ increments + Cardinality(Reading) <= starts
        /\ successes + Cardinality(Writing) <= increments
    BY <1>1 DEF ExecutionsCounted
  <2>3. /\ increments' + Cardinality(Reading') <= starts'
        /\ successes' + Cardinality(Writing') <= increments' /\ successes' \in Nat
    BY <1>2, <1>5, <1>6, <2>1, <2>2
  <2>4. put' \in [KvRuns -> [KvNodes -> PutStates]]
    BY <1>1, <1>2 DEF ExecutionsCounted, PutStates
  <2> QED
    BY <1>1, <1>2, <1>3, <1>4, <1>6, <2>3, <2>4 DEF ExecutionsCounted
<1>8. NothingLeftOver'
  BY <1>1, <1>2, <1>3 DEF NothingLeftOver, CountsType, ExecutionsCounted
<1>9. ASSUME KvQuorum > 1, serial'
      PROVE  InSeries'
  <2>1. /\ serial /\ kvPc[r] = "write" /\ successes' = successes + 1
        /\ Cardinality(Answering(r)) >= KvQuorum /\ straying' = straying
    BY <1>9, Zenon DEF Succeed, FailCount, EndCount
  <2>2. InSeries
    BY <1>1, <1>9, <2>1
  <2>3. \E n \in KvNodes : put[r][n] = "answered"
    <3>1. SUFFICES ASSUME Answering(r) = {} PROVE FALSE
      BY DEF Answering
    <3>2. Cardinality(Answering(r)) = 0
      BY <3>1, FS_EmptySet
    <3> QED
      BY <2>1, <3>2, KvConstants
  <2>4. Number(object) = successes'
    BY <2>1, <2>2, <2>3 DEF InSeries, PutsInOrder
  <2>5. \A s \in KvRuns : kvPc'[s] = "idle"
    BY <1>3, <2>1, <2>2 DEF InSeries
  <2>6. ReadingsInOrder' /\ PutsInOrder'
    BY <2>5 DEF ReadingsInOrder, PutsInOrder
  <2> QED
    BY <1>2, <2>1, <2>2, <2>4, <2>5, <2>6 DEF InSeries, Number
<1> QED
  BY <1>7, <1>8, <1>9

LEMMA SeriesStep == SeriesInv /\ [KvNext]_kvVars => SeriesInv'
<1>1. SUFFICES ASSUME SeriesInv, [KvNext]_kvVars PROVE SeriesInv'
  OBVIOUS
<1>2. KvInv'
  BY <1>1, KvNextInv DEF SeriesInv
<1>3. ExecutionsCounted' /\ NothingLeftOver' /\ (KvQuorum > 1 /\ serial' => InSeries')
  <2>1. CASE \E v \in Counts : StrayPutLands(v)
    <3>1. /\ ~(KvQuorum > 1 /\ serial)
          /\ UNCHANGED <<kvPc, reading, newValue, put, starts, s3Faults, increments, successes,
                         serial>>
      <4>1. straying # {} /\ UNCHANGED <<kvPc, reading, newValue, put, starts, s3Faults,
                                         increments, successes, serial>>
        BY <2>1 DEF StrayPutLands
      <4> QED
        BY <1>1, <4>1 DEF SeriesInv, InSeries
    <3> QED
      BY <1>1, <3>1 DEF SeriesInv, ExecutionsCounted, NothingLeftOver, Reading, Writing
  <2>2. CASE UNCHANGED kvVars
    BY <1>1, <2>2 DEF kvVars, SeriesInv, ExecutionsCounted, NothingLeftOver, Reading, Writing,
                      InSeries, ReadingsInOrder, PutsInOrder, Mistaken, Number
  <2>3. CASE \E r \in KvRuns : OnCronTrigger(r)
    <3>1. PICK r \in KvRuns : OnCronTrigger(r)
      BY <2>3
    <3>2. CASE \E n \in KvNodes : ReadValue(r, n) \/ ReadMistaken(r, n)
      BY <1>1, <3>2, ReadingSeries
    <3>3. CASE \E n \in KvNodes :
                 PutLands(r, n) \/ PutRefused(r, n) \/ PutTimesOut(r, n) \/ WriteValue(r, n)
      BY <1>1, <3>3, PutSeries
    <3> QED
      BY <1>1, <3>1, <3>2, <3>3, StartSeries, IncrementSeries, EndSeries, Zenon
      DEF OnCronTrigger
  <2> QED
    BY <1>1, <2>1, <2>2, <2>3, Zenon DEF KvNext
<1> QED
  BY <1>2, <1>3 DEF SeriesInv

LEMMA SeriesInvariant == KvSpec => []SeriesInv
<1>1. KvInit => SeriesInv
  BY KvInitInv, KvInitSeries DEF SeriesInv
<1> QED
  BY <1>1, SeriesStep, PTL DEF KvSpec

LEMMA SeriesTypes == SeriesInv => KvTypeOK
<1> SUFFICES ASSUME SeriesInv PROVE KvTypeOK
  OBVIOUS
<1>1. /\ CountsType /\ ExecutionsCounted
      /\ Number(object) <= increments /\ StrayingBounded /\ ReadingsBounded /\ NewValuesBounded
  BY DEF SeriesInv, KvInv, NumberBounded
<1>2. increments \in Counts /\ successes \in Counts
  <2>1. /\ Cardinality(Reading) \in Nat /\ Cardinality(Writing) \in Nat
        /\ increments + Cardinality(Reading) <= starts
        /\ successes + Cardinality(Writing) <= increments
    BY <1>1, FS_CardinalityType DEF ExecutionsCounted
  <2> QED
    BY <1>1, <2>1, KvConstants DEF ExecutionsCounted, Counts
<1>3. \A v \in Nat : v <= increments => v \in Counts
  BY <1>2, KvConstants DEF Counts
<1>4. object \in Counts \union {Absent, NotANumber}
  BY <1>1, <1>3, KvSentinels DEF CountsType, Number
<1>5. straying \in SUBSET Counts
  BY <1>1, <1>3 DEF CountsType, StrayingBounded
<1>6. newValue \in [KvRuns -> Counts]
  BY <1>1, <1>3 DEF CountsType, NewValuesBounded
<1>7. reading \in [KvRuns -> [KvNodes -> Counts \union {NoReading}]]
  BY <1>1, <1>3 DEF CountsType, ReadingsBounded
<1> QED
  BY <1>1, <1>2, <1>4, <1>5, <1>6, <1>7 DEF ExecutionsCounted, KvTypeOK

\* With two nodes or more to agree on a reading, the counter is the number of
\* successful executions as long as they follow one another: the median passes
\* over the one node that takes the object for missing.
THEOREM SeriesAreExact ==
  ASSUME KvQuorum > 1
  PROVE  KvSpec => []SerialCountIsExact
<1>1. SeriesInv => SerialCountIsExact
  BY DEF SeriesInv, InSeries, SerialCountIsExact
<1> QED
  BY <1>1, SeriesInvariant, PTL

-----------------------------------------------------------------------------
(* BlockTrigger.  After every turn of the loop the result is right for the *)
(* logs looked at so far.  That a transaction has a first log at all is    *)
(* part of the invariant: it is the one at which it was not yet seen.      *)

FirstAt(t, i) == logs[i] = t /\ \A j \in 1 .. i - 1 : logs[j] # t

SeenSoFar == processedHashes = {logs[i] : i \in 1 .. position1 - 1}

FirstLogsKnown == \A t \in processedHashes : \E i \in 1 .. position1 - 1 : FirstAt(t, i)

MatchesSoFar == ToSet(transactions) = {t \in processedHashes : Relevant(t)}

InOrderOfFirstLogs ==
  \A i, j \in 1 .. Len(transactions) :
    i < j => FirstLog(transactions[i]) < FirstLog(transactions[j])

TriggerInv ==
  TriggerTypeOK /\ SeenSoFar /\ FirstLogsKnown /\ MatchesSoFar /\ InOrderOfFirstLogs

LEMMA TriggerConstants ==
  /\ NoAddress \notin DOMAIN ToLower
  /\ To \in [Transactions -> DOMAIN ToLower \union {NoAddress}]
  /\ WatchedAddresses \subseteq DOMAIN ToLower
  /\ MaxLogs \in Nat
BY TriggerAssumption DEF TriggerAssumption

\* A transaction is watched for exactly if it is relevant.
LEMMA WatchedIsRelevant ==
  \A t : IsWatchedAddress(To[t]) <=> Relevant(t)
BY DEF IsWatchedAddress, Relevant

LEMMA FirstLogIs ==
  ASSUME NEW t, NEW i \in 1 .. Len(logs)
  PROVE  logs \in Seq(Transactions) /\ FirstAt(t, i) => FirstLog(t) = i
<1> DEFINE P(k) == logs[k] = t /\ \A j \in 1 .. k - 1 : logs[j] # t
<1>1. SUFFICES ASSUME logs \in Seq(Transactions), FirstAt(t, i)
               PROVE  FirstLog(t) = i
  OBVIOUS
<1>2. Len(logs) \in Nat
  BY <1>1
<1>3. \A k \in 1 .. Len(logs) : P(k) => k = i
  <2>1. SUFFICES ASSUME NEW k \in 1 .. Len(logs), P(k)
                 PROVE  k = i
    OBVIOUS
  <2>2. ~(k < i)
    BY <1>1, <1>2, <2>1 DEF FirstAt
  <2>3. ~(i < k)
    BY <1>1, <1>2, <2>1 DEF FirstAt
  <2> QED
    BY <1>2, <2>2, <2>3
<1>4. P(i)
  BY <1>1 DEF FirstAt
<1>5. FirstLog(t) = CHOOSE k \in 1 .. Len(logs) : P(k)
  BY DEF FirstLog
<1> HIDE DEF P
<1>6. (CHOOSE k \in 1 .. Len(logs) : P(k)) \in 1 .. Len(logs)
      /\ P(CHOOSE k \in 1 .. Len(logs) : P(k))
  BY <1>4
<1> QED
  BY <1>3, <1>5, <1>6

LEMMA AppendedSet ==
  ASSUME NEW S, NEW s \in Seq(S), NEW x \in S
  PROVE  ToSet(Append(s, x)) = ToSet(s) \union {x}
<1> DEFINE w == Append(s, x)
<1>1. Len(w) = Len(s) + 1 /\ w[Len(s) + 1] = x /\ \A i \in 1 .. Len(s) : w[i] = s[i]
  OBVIOUS
<1>2. Len(s) \in Nat /\ DOMAIN s = 1 .. Len(s) /\ DOMAIN w = 1 .. Len(s) + 1
  BY <1>1
<1>3. \A i : i \in 1 .. Len(s) + 1 <=> (i \in 1 .. Len(s) \/ i = Len(s) + 1)
  BY <1>2
<1> HIDE DEF w
<1>4. ToSet(w) = {w[i] : i \in 1 .. Len(s) + 1} /\ ToSet(s) = {s[i] : i \in 1 .. Len(s)}
  BY <1>2 DEF ToSet
<1>5. \A y : y \in ToSet(w) <=> (y \in ToSet(s) \/ y = x)
  BY <1>1, <1>3, <1>4
<1> QED
  BY <1>5 DEF w

LEMMA TriggerInvInit == TriggerInit => TriggerInv
<1>1. SUFFICES ASSUME TriggerInit
               PROVE  TriggerInv
  OBVIOUS
<1>2. TriggerTypeOK
  BY <1>1, TriggerConstants DEF TriggerInit, TriggerTypeOK
<1>3. SeenSoFar /\ FirstLogsKnown
  BY <1>1 DEF TriggerInit, SeenSoFar, FirstLogsKnown
<1>4. MatchesSoFar
  BY <1>1 DEF TriggerInit, MatchesSoFar, ToSet
<1>5. InOrderOfFirstLogs
  BY <1>1 DEF TriggerInit, InOrderOfFirstLogs
<1> QED
  BY <1>2, <1>3, <1>4, <1>5 DEF TriggerInv

\* A new block starts over.
LEMMA NewBlockStep ==
  ASSUME TriggerInv, NEW block \in BoundedSeq(Transactions, MaxLogs), OnHttpTrigger(block)
  PROVE  TriggerInv'
<1>1. PICK n \in 0 .. MaxLogs : block \in [1 .. n -> Transactions]
  BY DEF BoundedSeq, SeqOf
<1>2. block \in Seq(Transactions) /\ Len(block) = n
  BY <1>1, TriggerConstants
<1>3. TriggerTypeOK'
  BY <1>1, <1>2, TriggerConstants DEF TriggerTypeOK, OnHttpTrigger
<1>4. SeenSoFar' /\ FirstLogsKnown'
  BY DEF SeenSoFar, FirstLogsKnown, OnHttpTrigger
<1>5. MatchesSoFar'
  BY DEF MatchesSoFar, ToSet, OnHttpTrigger
<1>6. InOrderOfFirstLogs'
  BY DEF InOrderOfFirstLogs, OnHttpTrigger
<1> QED
  BY <1>3, <1>4, <1>5, <1>6 DEF TriggerInv

\* A turn of the loop.
LEMMA NextLogStep ==
  ASSUME TriggerInv, NextLog
  PROVE  TriggerInv'
<1> DEFINE t == logs[position1]
<1>1. /\ logs \in Seq(Transactions) /\ Len(logs) \in Nat /\ Len(logs) <= MaxLogs
      /\ position1 \in 1 .. Len(logs) /\ t \in Transactions
      /\ processedHashes \subseteq Transactions /\ transactions \in Seq(Transactions)
      /\ Len(transactions) \in Nat
  BY DEF TriggerInv, TriggerTypeOK, NextLog, Finished
<1>2. logs' = logs /\ position1' = position1 + 1 /\ processedHashes' = processedHashes \union {t}
  BY DEF NextLog
<1>3. /\ ~Seen(t) /\ Relevant(t) => transactions' = Append(transactions, t)
      /\ Seen(t) \/ ~Relevant(t) => transactions' = transactions
  BY WatchedIsRelevant, Zenon DEF NextLog
<1>4. \A u, i : FirstAt(u, i)' <=> FirstAt(u, i)
  BY <1>2 DEF FirstAt
<1>5. \A u : FirstLog(u)' = FirstLog(u) /\ (Relevant(u)' <=> Relevant(u))
  BY <1>2 DEF FirstLog, Relevant
<1>6. TriggerTypeOK'
  <2>1. Append(transactions, t) \in Seq(Transactions)
    BY <1>1
  <2>2. transactions' \in Seq(Transactions)
    BY <1>1, <1>3, <2>1
  <2>3. position1' \in 1 .. Len(logs) + 1
    BY <1>1, <1>2
  <2> QED
    BY <1>1, <1>2, <2>2, <2>3 DEF TriggerTypeOK
<1>7. SeenSoFar'
  <2>1. processedHashes = {logs[i] : i \in 1 .. position1 - 1}
    BY DEF TriggerInv, SeenSoFar
  <2>2. \A i : i \in 1 .. position1 <=> (i \in 1 .. position1 - 1 \/ i = position1)
    BY <1>1
  <2>3. position1' - 1 = position1
    BY <1>1, <1>2
  <2> QED
    BY <1>2, <2>1, <2>2, <2>3 DEF SeenSoFar
<1>8. ~Seen(t) => FirstAt(t, position1)
  BY <1>1 DEF TriggerInv, SeenSoFar, Seen, FirstAt
<1>9. FirstLogsKnown'
  <2>1. \A u \in processedHashes : \E i \in 1 .. position1' - 1 : FirstAt(u, i)
    <3>1. SUFFICES ASSUME NEW u \in processedHashes
                   PROVE  \E i \in 1 .. position1' - 1 : FirstAt(u, i)
      OBVIOUS
    <3>2. PICK i \in 1 .. position1 - 1 : FirstAt(u, i)
      BY DEF TriggerInv, FirstLogsKnown
    <3>3. i \in 1 .. position1' - 1
      BY <1>1, <1>2
    <3> QED
      BY <3>2, <3>3
  <2>2. position1 \in 1 .. position1' - 1
    BY <1>1, <1>2
  <2>3. \A u \in processedHashes' : \E i \in 1 .. position1' - 1 : FirstAt(u, i)
    BY <1>2, <1>8, <2>1, <2>2 DEF Seen
  <2> QED
    BY <1>4, <2>3 DEF FirstLogsKnown
<1>10. MatchesSoFar'
  <2>1. ToSet(transactions) = {u \in processedHashes : Relevant(u)}
    BY DEF TriggerInv, MatchesSoFar
  <2>2. {u \in processedHashes' : Relevant(u)'} = {u \in processedHashes \union {t} : Relevant(u)}
    BY <1>2, <1>5
  <2>3. CASE ~Seen(t) /\ Relevant(t)
    <3>1. transactions' = Append(transactions, t)
      BY <1>3, <2>3
    <3>2. ToSet(Append(transactions, t)) = ToSet(transactions) \union {t}
      BY <1>1, AppendedSet
    <3>3. {u \in processedHashes \union {t} : Relevant(u)}
            = {u \in processedHashes : Relevant(u)} \union {t}
      BY <2>3
    <3> QED
      BY <2>1, <2>2, <3>1, <3>2, <3>3 DEF MatchesSoFar
  <2>4. CASE Seen(t) \/ ~Relevant(t)
    <3>1. {u \in processedHashes \union {t} : Relevant(u)} = {u \in processedHashes : Relevant(u)}
      BY <2>4 DEF Seen
    <3> QED
      BY <1>3, <2>1, <2>2, <2>4, <3>1 DEF MatchesSoFar
  <2> QED
    BY <2>3, <2>4
<1>11. InOrderOfFirstLogs'
  <2>1. \A i \in 1 .. Len(transactions) : transactions[i] \in processedHashes
    <3>1. DOMAIN transactions = 1 .. Len(transactions)
      BY <1>1
    <3>2. {transactions[i] : i \in DOMAIN transactions} \subseteq processedHashes
      BY Zenon DEF TriggerInv, MatchesSoFar, ToSet
    <3> QED
      BY <3>1, <3>2
  <2>2. \A u \in processedHashes : FirstLog(u) \in Nat /\ FirstLog(u) < position1
    <3>1. SUFFICES ASSUME NEW u \in processedHashes
                   PROVE  FirstLog(u) \in Nat /\ FirstLog(u) < position1
      OBVIOUS
    <3>2. PICK i \in 1 .. position1 - 1 : FirstAt(u, i)
      BY DEF TriggerInv, FirstLogsKnown
    <3>3. i \in 1 .. Len(logs) /\ i \in Nat /\ i < position1
      BY <1>1
    <3>4. FirstLog(u) = i
      BY <1>1, <3>2, <3>3, FirstLogIs
    <3> QED
      BY <3>3, <3>4
  <2>3. ~Seen(t) => FirstLog(t) = position1
    BY <1>1, <1>8, FirstLogIs
  <2>4. CASE transactions' = transactions
    BY <1>5, <2>4 DEF TriggerInv, InOrderOfFirstLogs
  <2>5. CASE ~Seen(t) /\ transactions' = Append(transactions, t)
    <3>1. PICK s : s = transactions
      OBVIOUS
    <3>2. PICK w : w = Append(s, t)
      OBVIOUS
    <3>3. s \in Seq(Transactions) /\ Len(s) \in Nat
      BY <1>1, <3>1
    <3>4. Len(w) = Len(s) + 1 /\ w[Len(s) + 1] = t /\ \A i \in 1 .. Len(s) : w[i] = s[i]
      BY <1>1, <3>2, <3>3
    <3>5. \A i, j \in 1 .. Len(s) : i < j => FirstLog(s[i]) < FirstLog(s[j])
      BY <3>1 DEF TriggerInv, InOrderOfFirstLogs
    <3>6. \A i \in 1 .. Len(s) : FirstLog(s[i]) < FirstLog(t)
      BY <2>1, <2>2, <2>3, <2>5, <3>1
    <3> HIDE DEF t
    <3>7. ASSUME NEW i \in 1 .. Len(w), NEW j \in 1 .. Len(w), i < j
          PROVE  FirstLog(w[i]) < FirstLog(w[j])
      <4>1. i \in 1 .. Len(s)
        BY <3>3, <3>4, <3>7
      <4>2. j \in 1 .. Len(s) \/ j = Len(s) + 1
        BY <3>3, <3>4
      <4>3. CASE j \in 1 .. Len(s)
        BY <3>4, <3>5, <3>7, <4>1, <4>3
      <4>4. CASE j = Len(s) + 1
        BY <3>4, <3>6, <4>1, <4>4
      <4> QED
        BY <4>2, <4>3, <4>4
    <3>8. \A i, j \in 1 .. Len(w) : i < j => FirstLog(w[i])' < FirstLog(w[j])'
      BY <1>5, <3>7
    <3>9. transactions' = w
      BY <2>5, <3>1, <3>2
    <3> QED
      BY <3>8, <3>9 DEF InOrderOfFirstLogs
  <2> QED
    BY <1>3, <2>4, <2>5
<1> QED
  BY <1>6, <1>7, <1>9, <1>10, <1>11 DEF TriggerInv

LEMMA TriggerInvariant == TriggerSpec => []TriggerInv
<1>1. TriggerInit => TriggerInv
  BY TriggerInvInit
<1>2. TriggerInv /\ [TriggerNext]_triggerVars => TriggerInv'
  <2>1. SUFFICES ASSUME TriggerInv, [TriggerNext]_triggerVars
                 PROVE  TriggerInv'
    OBVIOUS
  <2>2. CASE NextLog
    BY <2>1, <2>2, NextLogStep
  <2>3. CASE \E block \in BoundedSeq(Transactions, MaxLogs) : OnHttpTrigger(block)
    BY <2>1, <2>3, NewBlockStep
  <2>4. CASE UNCHANGED triggerVars
    BY <2>1, <2>4, SMTT(20)
    DEF triggerVars, TriggerInv, TriggerTypeOK, SeenSoFar, FirstLogsKnown, FirstAt,
        MatchesSoFar, InOrderOfFirstLogs, FirstLog, Relevant
  <2> QED
    BY <2>1, <2>2, <2>3, <2>4 DEF TriggerNext
<1> QED
  BY <1>1, <1>2, PTL DEF TriggerSpec

\* When an execution of the block trigger has looked at all logs, its result has
\* each relevant transaction once, in the order of their first logs, for blocks
\* of any length and any configuration of watched addresses.
THEOREM MatchesAreReportedOnce == TriggerSpec => []EachMatchReportedOnce
<1>1. TriggerInv => EachMatchReportedOnce
  <2>1. SUFFICES ASSUME TriggerInv, Finished
                 PROVE  /\ ToSet(transactions) = {t \in ToSet(logs) : Relevant(t)}
                        /\ InOrderOfFirstLogs
    BY DEF EachMatchReportedOnce, InOrderOfFirstLogs
  <2>2. logs \in Seq(Transactions) /\ Len(logs) \in Nat /\ position1 \in 1 .. Len(logs) + 1
    BY <2>1 DEF TriggerInv, TriggerTypeOK
  <2>3. position1 - 1 = Len(logs)
    BY <2>1, <2>2 DEF Finished
  <2>4. DOMAIN logs = 1 .. Len(logs)
    BY <2>2
  <2>5. processedHashes = ToSet(logs)
    BY <2>1, <2>3, <2>4 DEF TriggerInv, SeenSoFar, ToSet
  <2> QED
    BY <2>1, <2>5 DEF TriggerInv, MatchesSoFar
<1> QED
  BY <1>1, TriggerInvariant, PTL

-----------------------------------------------------------------------------
(* MessageFeed.  A block confirms its logs when the last message of each   *)
(* sender that emitted in it is the one its log announces.  That rests on  *)
(* what is stored: a sender of the block has a message under its time, and *)
(* so may not emit again before the time moves on.                         *)

ConfirmsLogs(b) ==
  \A e \in Emitters, m \in Messages :
    <<e, m>> \in b.logs => b.last[e] = m /\ b.stored[<<e, b.time>>] = m

BlocksConfirm ==
  \A c \in MessageChains : \A n \in 1 .. Len(blocks[c]) : ConfirmsLogs(blocks[c][n])

StartedByItsBlock ==
  log # NoLog => ConfirmsLogs(log.block) /\ <<log.emitter, log.message>> \in log.block.logs

MessageInv == MessageTypeOK /\ BlocksConfirm /\ StartedByItsBlock /\ AnswerIsTheLogs

LEMMA MessageConstants ==
  /\ FirstChain \in MessageChains
  /\ NoMessage \notin Messages
  /\ MaxTime \in Nat /\ MaxLostBlocks \in Nat
  /\ MaxBlocks \in Nat \ {0}
BY MessageAssumption DEF MessageAssumption

LEMMA LogRecords ==
  /\ NoLog \notin Logs
  /\ NoAnswer \notin Answers
  /\ \A l \in Logs : l.chain \in MessageChains /\ l.number \in 1 .. MaxBlocks /\ l.block \in Blocks
                     /\ l.emitter \in Emitters /\ l.message \in Messages
<1>1. NoLog \notin Logs
  <2>1. SUFFICES ASSUME NoLog \in Logs
                 PROVE  FALSE
    OBVIOUS
  <2>2. "number" \in DOMAIN NoLog
    BY <2>1 DEF Logs
  <2> QED
    BY <2>2 DEF NoLog
<1>2. NoAnswer \notin Answers
  <2>1. SUFFICES ASSUME NoAnswer \in Answers
                 PROVE  FALSE
    OBVIOUS
  <2>2. "kept" \in DOMAIN NoAnswer
    BY <2>1 DEF Answers
  <2> QED
    BY <2>2 DEF NoAnswer
<1>3. \A l \in Logs : l.chain \in MessageChains /\ l.number \in 1 .. MaxBlocks /\ l.block \in Blocks
                      /\ l.emitter \in Emitters /\ l.message \in Messages
  BY DEF Logs
<1> QED
  BY <1>1, <1>2, <1>3

\* Emitting the first message of a sender in a block.
LEMMA EmittedBlock ==
  ASSUME NEW b \in Blocks, NEW e \in Emitters, NEW m \in Messages
  PROVE  b.stored[<<e, b.time>>] = NoMessage /\ ConfirmsLogs(b) =>
           LET n == [time |-> b.time,
                     stored |-> [b.stored EXCEPT ![<<e, b.time>>] = m],
                     last |-> [b.last EXCEPT ![e] = m],
                     logs |-> b.logs \union {<<e, m>>}]
           IN n \in Blocks /\ ConfirmsLogs(n)
<1> DEFINE n == [time |-> b.time,
                 stored |-> [b.stored EXCEPT ![<<e, b.time>>] = m],
                 last |-> [b.last EXCEPT ![e] = m],
                 logs |-> b.logs \union {<<e, m>>}]
<1>1. SUFFICES ASSUME b.stored[<<e, b.time>>] = NoMessage, ConfirmsLogs(b)
               PROVE  n \in Blocks /\ ConfirmsLogs(n)
  OBVIOUS
<1>2. /\ b.time \in Times
      /\ b.stored \in [Emitters \X Times -> Messages \union {NoMessage}]
      /\ b.last \in [Emitters -> Messages \union {NoMessage}]
      /\ b.logs \in SUBSET (Emitters \X Messages)
  BY DEF Blocks
<1>3. <<e, b.time>> \in Emitters \X Times /\ <<e, m>> \in Emitters \X Messages
  BY <1>2
<1>4. PICK stored : stored = [b.stored EXCEPT ![<<e, b.time>>] = m]
  OBVIOUS
<1>5. PICK last : last = [b.last EXCEPT ![e] = m]
  OBVIOUS
<1>6. PICK entries : entries = b.logs \union {<<e, m>>}
  OBVIOUS
<1>7. stored \in [Emitters \X Times -> Messages \union {NoMessage}]
  BY <1>2, <1>4
<1>8. last \in [Emitters -> Messages \union {NoMessage}]
  BY <1>2, <1>5
<1>9. entries \in SUBSET (Emitters \X Messages)
  BY <1>2, <1>3, <1>6
<1>10. n = [time |-> b.time, stored |-> stored, last |-> last, logs |-> entries]
  BY <1>4, <1>5, <1>6
<1> HIDE DEF n
<1>11. n \in Blocks
  BY <1>2, <1>7, <1>8, <1>9, <1>10 DEF Blocks
<1>12. ConfirmsLogs(n)
  <2>1. SUFFICES ASSUME NEW f \in Emitters, NEW k \in Messages, <<f, k>> \in entries
                 PROVE  last[f] = k /\ stored[<<f, b.time>>] = k
    BY <1>10 DEF ConfirmsLogs
  <2>2. CASE f = e
    <3>1. <<e, k>> \notin b.logs
      BY <1>1, MessageConstants DEF ConfirmsLogs
    <3>2. k = m
      BY <1>6, <2>1, <2>2, <3>1
    <3>3. last[e] = m /\ stored[<<e, b.time>>] = m
      BY <1>2, <1>3, <1>4, <1>5
    <3> QED
      BY <2>2, <3>2, <3>3
  <2>3. CASE f # e
    <3>1. <<f, k>> \in b.logs
      BY <1>6, <2>1, <2>3
    <3>2. b.last[f] = k /\ b.stored[<<f, b.time>>] = k
      BY <1>1, <3>1 DEF ConfirmsLogs
    <3>3. last[f] = b.last[f]
      BY <1>2, <1>5, <2>3
    <3>4. stored[<<f, b.time>>] = b.stored[<<f, b.time>>]
      BY <1>2, <1>3, <1>4, <2>3
    <3> QED
      BY <3>2, <3>3, <3>4
  <2> QED
    BY <2>2, <2>3
<1> QED
  BY <1>11, <1>12

LEMMA FreshBlock ==
  ASSUME NEW b \in Blocks, NEW time \in Times
  PROVE  [b EXCEPT !.time = time, !.logs = {}] \in Blocks
         /\ ConfirmsLogs([b EXCEPT !.time = time, !.logs = {}])
BY DEF Blocks, ConfirmsLogs

\* A chain is replaced by one of blocks that confirm their logs.
ConfirmedChain(q) ==
  /\ q \in Seq(Blocks)
  /\ Len(q) \in 1 .. MaxBlocks
  /\ \A n \in 1 .. Len(q) : ConfirmsLogs(q[n])

LEMMA ConfirmedChains ==
  ASSUME MessageInv, NEW c \in MessageChains
  PROVE  ConfirmedChain(blocks[c])
BY DEF MessageInv, MessageTypeOK, BlocksConfirm, ConfirmedChain

LEMMA ChainReplaced ==
  ASSUME MessageInv, NEW c \in MessageChains, NEW q, ConfirmedChain(q),
         blocks' = [blocks EXCEPT ![c] = q], UNCHANGED <<log, answer>>,
         lost' \in 0 .. MaxLostBlocks
  PROVE  MessageInv'
<1>1. blocks \in [MessageChains -> Seq(Blocks)]
  BY DEF MessageInv, MessageTypeOK
<1>2. blocks' \in [MessageChains -> Seq(Blocks)]
  BY <1>1 DEF ConfirmedChain
<1>3. \A d \in MessageChains : ConfirmedChain(blocks'[d])
  <2>1. SUFFICES ASSUME NEW d \in MessageChains
                 PROVE  ConfirmedChain(blocks'[d])
    OBVIOUS
  <2>2. CASE d = c
    BY <1>1, <2>2
  <2>3. CASE d # c
    BY <1>1, <2>3, ConfirmedChains
  <2> QED
    BY <2>2, <2>3
<1>4. MessageTypeOK'
  BY <1>2, <1>3 DEF MessageInv, MessageTypeOK, ConfirmedChain
<1>5. BlocksConfirm'
  BY <1>3 DEF BlocksConfirm, ConfirmedChain
<1>6. StartedByItsBlock' /\ AnswerIsTheLogs'
  BY DEF MessageInv, StartedByItsBlock, AnswerIsTheLogs
<1> QED
  BY <1>4, <1>5, <1>6 DEF MessageInv

\* A confirmed chain stays one with a block put at its end.
LEMMA ConfirmedAppend ==
  ASSUME NEW q \in Seq(Blocks), NEW b \in Blocks
  PROVE  Len(q) < MaxBlocks /\ (\A n \in 1 .. Len(q) : ConfirmsLogs(q[n])) /\ ConfirmsLogs(b) =>
           ConfirmedChain(Append(q, b))
<1>1. SUFFICES ASSUME Len(q) < MaxBlocks, \A n \in 1 .. Len(q) : ConfirmsLogs(q[n]), ConfirmsLogs(b)
               PROVE  ConfirmedChain(Append(q, b))
  OBVIOUS
<1>2. PICK w : w = Append(q, b)
  OBVIOUS
<1>3. Len(q) \in Nat /\ w \in Seq(Blocks) /\ Len(w) = Len(q) + 1
      /\ w[Len(q) + 1] = b /\ \A n \in 1 .. Len(q) : w[n] = q[n]
  BY <1>2
<1>4. \A n \in 1 .. Len(w) : n \in 1 .. Len(q) \/ n = Len(q) + 1
  BY <1>3
<1>5. \A n \in 1 .. Len(w) : ConfirmsLogs(w[n])
  BY <1>1, <1>3, <1>4
<1>6. Len(w) \in 1 .. MaxBlocks
  BY <1>1, <1>3, MessageConstants
<1> QED
  BY <1>2, <1>3, <1>5, <1>6 DEF ConfirmedChain

LEMMA EmitMessageStep ==
  ASSUME MessageInv, NEW c \in MessageChains, NEW e \in Emitters, NEW m \in Messages,
         EmitMessage(c, e, m)
  PROVE  MessageInv'
<1>1. PICK q : q = blocks[c]
  OBVIOUS
<1>2. PICK b : b = Open(c)
  OBVIOUS
<1>3. PICK n : n = [time |-> b.time,
                    stored |-> [b.stored EXCEPT ![<<e, b.time>>] = m],
                    last |-> [b.last EXCEPT ![e] = m],
                    logs |-> b.logs \union {<<e, m>>}]
  OBVIOUS
<1>4. q \in Seq(Blocks) /\ Len(q) \in 1 .. MaxBlocks /\ \A i \in 1 .. Len(q) : ConfirmsLogs(q[i])
  BY <1>1, ConfirmedChains DEF ConfirmedChain
<1>5. b = q[Len(q)]
  BY <1>1, <1>2 DEF Open
<1>6. Len(q) \in 1 .. Len(q) /\ Len(q) \in Nat
  BY <1>4, MessageConstants
<1>7. b \in Blocks /\ ConfirmsLogs(b)
  BY <1>4, <1>5, <1>6
<1>8. b.stored[<<e, b.time>>] = NoMessage
  BY <1>2 DEF EmitMessage, MayEmit
<1>9. n \in Blocks /\ ConfirmsLogs(n)
  BY <1>3, <1>7, <1>8, EmittedBlock
<1>10. PICK r : r = [q EXCEPT ![Len(q)] = n]
  OBVIOUS
<1>11. blocks' = [blocks EXCEPT ![c] = r]
  BY <1>1, <1>2, <1>3, <1>10 DEF EmitMessage
<1>12. ConfirmedChain(r)
  <2>1. r \in Seq(Blocks) /\ Len(r) = Len(q)
    BY <1>4, <1>6, <1>9, <1>10
  <2>2. r[Len(q)] = n /\ \A i \in 1 .. Len(q) : i # Len(q) => r[i] = q[i]
    BY <1>4, <1>6, <1>10
  <2>3. \A i \in 1 .. Len(q) : ConfirmsLogs(r[i])
    BY <1>4, <1>9, <2>2
  <2> QED
    BY <1>4, <2>1, <2>3 DEF ConfirmedChain
<1>13. lost' \in 0 .. MaxLostBlocks /\ UNCHANGED <<log, answer>>
  BY DEF EmitMessage, MessageInv, MessageTypeOK
<1> QED
  BY <1>11, <1>12, <1>13, ChainReplaced

LEMMA SealBlockStep ==
  ASSUME MessageInv, NEW c \in MessageChains, NEW time \in Times, SealBlock(c, time)
  PROVE  MessageInv'
<1>1. PICK q : q = blocks[c]
  OBVIOUS
<1>2. PICK b : b = Open(c)
  OBVIOUS
<1>3. q \in Seq(Blocks) /\ Len(q) \in 1 .. MaxBlocks /\ \A i \in 1 .. Len(q) : ConfirmsLogs(q[i])
  BY <1>1, ConfirmedChains DEF ConfirmedChain
<1>4. b = q[Len(q)]
  BY <1>1, <1>2 DEF Open
<1>5. b \in Blocks
  BY <1>3, <1>4, MessageConstants
<1>6. PICK n : n = [b EXCEPT !.time = time, !.logs = {}]
  OBVIOUS
<1>7. n \in Blocks /\ ConfirmsLogs(n)
  BY <1>5, <1>6, FreshBlock
<1>8. Len(q) < MaxBlocks /\ blocks' = [blocks EXCEPT ![c] = Append(q, n)]
  BY <1>1, <1>2, <1>6 DEF SealBlock
<1>9. ConfirmedChain(Append(q, n))
  BY <1>3, <1>7, <1>8, ConfirmedAppend
<1>10. lost' \in 0 .. MaxLostBlocks /\ UNCHANGED <<log, answer>>
  BY DEF SealBlock, MessageInv, MessageTypeOK
<1> QED
  BY <1>8, <1>9, <1>10, ChainReplaced

LEMMA LoseBlockStep ==
  ASSUME MessageInv, NEW c \in MessageChains, NEW time \in Times, LoseBlock(c, time)
  PROVE  MessageInv'
<1>1. PICK q : q = blocks[c]
  OBVIOUS
<1>2. q \in Seq(Blocks) /\ Len(q) \in 1 .. MaxBlocks /\ \A i \in 1 .. Len(q) : ConfirmsLogs(q[i])
  BY <1>1, ConfirmedChains DEF ConfirmedChain
<1>3. Len(q) > 2 /\ Len(q) \in Nat /\ Len(q) <= MaxBlocks
  BY <1>1, <1>2, MessageConstants DEF LoseBlock
<1>4. PICK k \in Nat : k = Len(q) - 2
  BY <1>3
<1>5. PICK s : s = SubSeq(q, 1, k)
  OBVIOUS
<1>6. s \in Seq(Blocks) /\ Len(s) = k /\ \A i \in 1 .. k : s[i] = q[i]
  BY <1>2, <1>3, <1>4, <1>5
<1>7. k < MaxBlocks /\ k \in 1 .. k /\ \A i \in 1 .. k : i \in 1 .. Len(q)
  BY <1>3, <1>4, MessageConstants
<1>8. PICK b : b = s[Len(s)]
  OBVIOUS
<1>9. b \in Blocks
  BY <1>6, <1>7, <1>8
<1>10. PICK n : n = [b EXCEPT !.time = time, !.logs = {}]
  OBVIOUS
<1>11. n \in Blocks /\ ConfirmsLogs(n)
  BY <1>9, <1>10, FreshBlock
<1>12. blocks' = [blocks EXCEPT ![c] = Append(s, n)]
  BY <1>1, <1>4, <1>5, <1>8, <1>10 DEF LoseBlock
<1>13. \A i \in 1 .. Len(s) : ConfirmsLogs(s[i])
  BY <1>2, <1>6, <1>7
<1>14. ConfirmedChain(Append(s, n))
  BY <1>6, <1>7, <1>11, <1>13, ConfirmedAppend
<1>15. lost' \in 0 .. MaxLostBlocks /\ UNCHANGED <<log, answer>>
  BY MessageConstants DEF LoseBlock, MessageInv, MessageTypeOK
<1> QED
  BY <1>12, <1>14, <1>15, ChainReplaced

LEMMA TriggerFiresStep ==
  ASSUME MessageInv, NEW c \in MessageChains, NEW e \in Emitters, NEW m \in Messages,
         NEW number \in 1 .. MaxBlocks, TriggerFires(c, number, e, m)
  PROVE  MessageInv'
<1>1. blocks[c] \in Seq(Blocks) /\ Len(blocks[c]) \in 1 .. MaxBlocks
      /\ \A n \in 1 .. Len(blocks[c]) : ConfirmsLogs(blocks[c][n])
  BY ConfirmedChains DEF ConfirmedChain
<1>2. number \in 1 .. Len(blocks[c])
  BY <1>1, MessageConstants DEF TriggerFires
<1>3. PICK b : b = blocks[c][number]
  OBVIOUS
<1>4. b \in Blocks /\ ConfirmsLogs(b)
  BY <1>1, <1>2, <1>3
<1>5. /\ log' = [chain |-> c, number |-> number, block |-> b, emitter |-> e, message |-> m]
      /\ <<e, m>> \in b.logs
      /\ UNCHANGED <<blocks, lost, answer>>
  BY <1>3 DEF TriggerFires
<1>6. log' \in Logs
  BY <1>4, <1>5 DEF Logs
<1>7. MessageTypeOK'
  BY <1>5, <1>6 DEF MessageInv, MessageTypeOK
<1>8. BlocksConfirm' /\ AnswerIsTheLogs'
  BY <1>5 DEF MessageInv, BlocksConfirm, AnswerIsTheLogs
<1>9. StartedByItsBlock'
  BY <1>4, <1>5 DEF StartedByItsBlock
<1> QED
  BY <1>7, <1>8, <1>9 DEF MessageInv

\* On the first chain, a kept block answers with the message it logged.
LEMMA ReadContractStep ==
  ASSUME MessageInv, ReadContract
  PROVE  MessageInv'
<1>1. log \in Logs /\ log # NoLog /\ log' = NoLog /\ UNCHANGED <<blocks, lost>>
  BY DEF MessageInv, MessageTypeOK, ReadContract
<1>2. PICK b : b = blocks[FirstChain][log.number]
  OBVIOUS
<1>3. PICK kept \in BOOLEAN :
        kept <=> log.number < Len(blocks[log.chain]) /\ blocks[log.chain][log.number] = log.block
  OBVIOUS
<1>4. PICK m : m = GetLastMessage(b, log.emitter)
  OBVIOUS
<1>5. /\ log.number <= Len(blocks[FirstChain])
      /\ m # Reverted
      /\ answer' = [chain |-> log.chain, logged |-> log.message, message |-> m, kept |-> kept]
  BY <1>2, <1>3, <1>4, Zenon DEF ReadContract, ReadAt
<1>6. m = b.last[log.emitter]
  BY <1>4, <1>5 DEF GetLastMessage
<1>7. log.chain \in MessageChains /\ log.number \in 1 .. MaxBlocks /\ log.emitter \in Emitters
      /\ log.message \in Messages
  BY <1>1, LogRecords
<1>8. m \in Messages
  <2>1. blocks[FirstChain] \in Seq(Blocks) /\ Len(blocks[FirstChain]) \in Nat
    BY MessageConstants DEF MessageInv, MessageTypeOK
  <2>2. log.number \in 1 .. Len(blocks[FirstChain])
    BY <1>5, <1>7, <2>1
  <2>3. b \in Blocks
    BY <1>2, <2>1, <2>2
  <2>4. b.last[log.emitter] \in Messages \union {NoMessage}
    BY <1>7, <2>3 DEF Blocks
  <2>5. m # NoMessage
    BY <1>4, <1>5 DEF GetLastMessage
  <2> QED
    BY <1>6, <2>4, <2>5
<1>9. answer' \in Answers
  BY <1>5, <1>7, <1>8 DEF Answers
<1>10. MessageTypeOK'
  BY <1>1, <1>9 DEF MessageInv, MessageTypeOK
<1>11. BlocksConfirm' /\ StartedByItsBlock'
  BY <1>1 DEF MessageInv, BlocksConfirm, StartedByItsBlock
<1>12. log.chain = FirstChain /\ kept => m = log.message
  <2>1. SUFFICES ASSUME log.chain = FirstChain, kept
                 PROVE  m = log.message
    OBVIOUS
  <2>2. b = log.block
    BY <1>2, <1>3, <2>1
  <2>3. ConfirmsLogs(b) /\ <<log.emitter, log.message>> \in b.logs
    BY <1>1, <2>2 DEF MessageInv, StartedByItsBlock
  <2> QED
    BY <1>6, <1>7, <2>3 DEF ConfirmsLogs
<1>13. AnswerIsTheLogs'
  BY <1>5, <1>12 DEF AnswerIsTheLogs
<1> QED
  BY <1>10, <1>11, <1>13 DEF MessageInv

LEMMA ReadFailsStep ==
  ASSUME MessageInv, ReadFails
  PROVE  MessageInv'
BY DEF MessageInv, ReadFails, MessageTypeOK, BlocksConfirm, StartedByItsBlock, AnswerIsTheLogs

LEMMA MessageInvInit == MessageInit => MessageInv
<1>1. SUFFICES ASSUME MessageInit
               PROVE  MessageInv
  OBVIOUS
<1>2. EmptyBlock \in Blocks /\ ConfirmsLogs(EmptyBlock)
  <2>1. 0 \in Times
    BY MessageConstants DEF Times
  <2>2. [key \in Emitters \X Times |-> NoMessage]
          \in [Emitters \X Times -> Messages \union {NoMessage}]
    OBVIOUS
  <2>3. [e \in Emitters |-> NoMessage] \in [Emitters -> Messages \union {NoMessage}]
    OBVIOUS
  <2> QED
    BY <2>1, <2>2, <2>3 DEF EmptyBlock, Blocks, ConfirmsLogs
<1>3. PICK b : b = EmptyBlock
  OBVIOUS
<1>4. <<b>> \in Seq(Blocks) /\ Len(<<b>>) = 1 /\ <<b>>[1] = b
  BY <1>2, <1>3
<1>5. blocks = [c \in MessageChains |-> <<b>>] /\ lost = 0 /\ log = NoLog /\ answer = NoAnswer
  BY <1>1, <1>3 DEF MessageInit
<1>6. MessageTypeOK
  BY <1>4, <1>5, MessageConstants DEF MessageTypeOK
<1>7. BlocksConfirm
  BY <1>2, <1>3, <1>4, <1>5 DEF BlocksConfirm
<1>8. StartedByItsBlock /\ AnswerIsTheLogs
  BY <1>5 DEF StartedByItsBlock, AnswerIsTheLogs
<1> QED
  BY <1>6, <1>7, <1>8 DEF MessageInv

LEMMA MessageInvariant == MessageSpec => []MessageInv
<1>1. MessageInit => MessageInv
  BY MessageInvInit
<1>2. MessageInv /\ [MessageNext]_messageVars => MessageInv'
  <2>1. SUFFICES ASSUME MessageInv, [MessageNext]_messageVars
                 PROVE  MessageInv'
    OBVIOUS
  <2>2. ASSUME NEW c \in MessageChains, NEW e \in Emitters, NEW m \in Messages,
               EmitMessage(c, e, m)
        PROVE  MessageInv'
    BY <2>1, <2>2, EmitMessageStep
  <2>3. ASSUME NEW c \in MessageChains, NEW time \in Times, SealBlock(c, time)
        PROVE  MessageInv'
    BY <2>1, <2>3, SealBlockStep
  <2>4. ASSUME NEW c \in MessageChains, NEW time \in Times, LoseBlock(c, time)
        PROVE  MessageInv'
    BY <2>1, <2>4, LoseBlockStep
  <2>5. ASSUME NEW c \in MessageChains, NEW e \in Emitters, NEW m \in Messages,
               NEW number \in 1 .. MaxBlocks, TriggerFires(c, number, e, m)
        PROVE  MessageInv'
    BY <2>1, <2>5, TriggerFiresStep
  <2>6. CASE ReadContract
    BY <2>1, <2>6, ReadContractStep
  <2>7. CASE ReadFails
    BY <2>1, <2>7, ReadFailsStep
  <2>8. CASE UNCHANGED messageVars
    BY <2>1, <2>8 DEF messageVars, MessageInv, MessageTypeOK, BlocksConfirm,
         StartedByItsBlock, AnswerIsTheLogs
  <2> QED
    BY <2>1, <2>2, <2>3, <2>4, <2>5, <2>6, <2>7, <2>8 DEF MessageNext, OnLogTrigger, Emission
<1> QED
  BY <1>1, <1>2, PTL DEF MessageSpec

\* The contract confirms the log: an execution that a log of the first chain
\* has started returns the message of that log, unless its block was lost in a
\* reorganisation, whatever was emitted and read meanwhile, on any number of
\* chains.
THEOREM LogsAreConfirmed == MessageSpec => []AnswerIsTheLogs
<1>1. MessageInv => AnswerIsTheLogs
  BY DEF MessageInv
<1> QED
  BY <1>1, MessageInvariant, PTL

-----------------------------------------------------------------------------
(* ContractBindings.  An event is known by its contract and its name: no   *)
(* two events of a contract have the same name, which is a fact about the  *)
(* generated ABIs and is established contract by contract.                 *)

WellFormed(e) == Len(e.topics) \in Nat /\ Len(e.data) \in Nat

EventsOf(contract, events) ==
  /\ \A e \in events : WellFormed(e) /\ e.contract = contract
  /\ \A e, f \in events : e.name = f.name => e = f

LEMMA DataFeedsCache_Events == EventsOf("DataFeedsCache", DataFeedsCache_Triggers)
<1>1. /\ DataFeedsCache_AnswerUpdated.name = "AnswerUpdated"
      /\ DataFeedsCache_AnswerUpdated.contract = "DataFeedsCache"
      /\ DataFeedsCache_BundleFeedConfigSet.name = "BundleFeedConfigSet"
      /\ DataFeedsCache_BundleFeedConfigSet.contract = "DataFeedsCache"
      /\ DataFeedsCache_BundleReportUpdated.name = "BundleReportUpdated"
      /\ DataFeedsCache_BundleReportUpdated.contract = "DataFeedsCache"
      /\ DataFeedsCache_DecimalFeedConfigSet.name = "DecimalFeedConfigSet"
      /\ DataFeedsCache_DecimalFeedConfigSet.contract = "DataFeedsCache"
      /\ DataFeedsCache_DecimalReportUpdated.name = "DecimalReportUpdated"
      /\ DataFeedsCache_DecimalReportUpdated.contract = "DataFeedsCache"
      /\ DataFeedsCache_FeedAdminSet.name = "FeedAdminSet"
      /\ DataFeedsCache_FeedAdminSet.contract = "DataFeedsCache"
      /\ DataFeedsCache_FeedConfigRemoved.name = "FeedConfigRemoved"
      /\ DataFeedsCache_FeedConfigRemoved.contract = "DataFeedsCache"
      /\ DataFeedsCache_InvalidUpdatePermission.name = "InvalidUpdatePermission"
      /\ DataFeedsCache_InvalidUpdatePermission.contract = "DataFeedsCache"
      /\ DataFeedsCache_NewRound.name = "NewRound"
      /\ DataFeedsCache_NewRound.contract = "DataFeedsCache"
      /\ DataFeedsCache_OwnershipTransferRequested.name = "OwnershipTransferRequested"
      /\ DataFeedsCache_OwnershipTransferRequested.contract = "DataFeedsCache"
      /\ DataFeedsCache_OwnershipTransferred.name = "OwnershipTransferred"
      /\ DataFeedsCache_OwnershipTransferred.contract = "DataFeedsCache"
      /\ DataFeedsCache_ProxyDataIdRemoved.name = "ProxyDataIdRemoved"
      /\ DataFeedsCache_ProxyDataIdRemoved.contract = "DataFeedsCache"
      /\ DataFeedsCache_ProxyDataIdUpdated.name = "ProxyDataIdUpdated"
      /\ DataFeedsCache_ProxyDataIdUpdated.contract = "DataFeedsCache"
      /\ DataFeedsCache_StaleBundleReport.name = "StaleBundleReport"
      /\ DataFeedsCache_StaleBundleReport.contract = "DataFeedsCache"
      /\ DataFeedsCache_StaleDecimalReport.name = "StaleDecimalReport"
      /\ DataFeedsCache_StaleDecimalReport.contract = "DataFeedsCache"
      /\ DataFeedsCache_TokenRecovered.name = "TokenRecovered"
      /\ DataFeedsCache_TokenRecovered.contract = "DataFeedsCache"
  BY DEF Event, DataFeedsCache_AnswerUpdated, DataFeedsCache_BundleFeedConfigSet,
         DataFeedsCache_BundleReportUpdated, DataFeedsCache_DecimalFeedConfigSet,
         DataFeedsCache_DecimalReportUpdated, DataFeedsCache_FeedAdminSet,
         DataFeedsCache_FeedConfigRemoved, DataFeedsCache_InvalidUpdatePermission,
         DataFeedsCache_NewRound, DataFeedsCache_OwnershipTransferRequested,
         DataFeedsCache_OwnershipTransferred, DataFeedsCache_ProxyDataIdRemoved,
         DataFeedsCache_ProxyDataIdUpdated, DataFeedsCache_StaleBundleReport,
         DataFeedsCache_StaleDecimalReport, DataFeedsCache_TokenRecovered
<1>2. /\ WellFormed(DataFeedsCache_AnswerUpdated)
      /\ WellFormed(DataFeedsCache_BundleFeedConfigSet)
      /\ WellFormed(DataFeedsCache_BundleReportUpdated)
      /\ WellFormed(DataFeedsCache_DecimalFeedConfigSet)
      /\ WellFormed(DataFeedsCache_DecimalReportUpdated)
      /\ WellFormed(DataFeedsCache_FeedAdminSet)
      /\ WellFormed(DataFeedsCache_FeedConfigRemoved)
      /\ WellFormed(DataFeedsCache_InvalidUpdatePermission)
      /\ WellFormed(DataFeedsCache_NewRound)
      /\ WellFormed(DataFeedsCache_OwnershipTransferRequested)
      /\ WellFormed(DataFeedsCache_OwnershipTransferred)
      /\ WellFormed(DataFeedsCache_ProxyDataIdRemoved)
      /\ WellFormed(DataFeedsCache_ProxyDataIdUpdated)
      /\ WellFormed(DataFeedsCache_StaleBundleReport)
      /\ WellFormed(DataFeedsCache_StaleDecimalReport)
      /\ WellFormed(DataFeedsCache_TokenRecovered)
  BY DEF Event, WellFormed, DataFeedsCache_AnswerUpdated, DataFeedsCache_BundleFeedConfigSet,
         DataFeedsCache_BundleReportUpdated, DataFeedsCache_DecimalFeedConfigSet,
         DataFeedsCache_DecimalReportUpdated, DataFeedsCache_FeedAdminSet,
         DataFeedsCache_FeedConfigRemoved, DataFeedsCache_InvalidUpdatePermission,
         DataFeedsCache_NewRound, DataFeedsCache_OwnershipTransferRequested,
         DataFeedsCache_OwnershipTransferred, DataFeedsCache_ProxyDataIdRemoved,
         DataFeedsCache_ProxyDataIdUpdated, DataFeedsCache_StaleBundleReport,
         DataFeedsCache_StaleDecimalReport, DataFeedsCache_TokenRecovered
<1> QED
  BY <1>1, <1>2 DEF EventsOf, DataFeedsCache_Triggers

LEMMA ProtocolSmartWallet_Events == EventsOf("ProtocolSmartWallet", ProtocolSmartWallet_Triggers)
<1>1. /\ ProtocolSmartWallet_Deposit.name = "Deposit"
      /\ ProtocolSmartWallet_Deposit.contract = "ProtocolSmartWallet"
      /\ ProtocolSmartWallet_KeystoneForwarderRemoved.name = "KeystoneForwarderRemoved"
      /\ ProtocolSmartWallet_KeystoneForwarderRemoved.contract = "ProtocolSmartWallet"
      /\ ProtocolSmartWallet_KeystoneForwarderSet.name = "KeystoneForwarderSet"
      /\ ProtocolSmartWallet_KeystoneForwarderSet.contract = "ProtocolSmartWallet"
      /\ ProtocolSmartWallet_MessageReceived.name = "MessageReceived"
      /\ ProtocolSmartWallet_MessageReceived.contract = "ProtocolSmartWallet"
      /\ ProtocolSmartWallet_MessageSent.name = "MessageSent"
      /\ ProtocolSmartWallet_MessageSent.contract = "ProtocolSmartWallet"
      /\ ProtocolSmartWallet_OwnershipTransferRequested.name = "OwnershipTransferRequested"
      /\ ProtocolSmartWallet_OwnershipTransferRequested.contract = "ProtocolSmartWallet"
      /\ ProtocolSmartWallet_OwnershipTransferred.name = "OwnershipTransferred"
      /\ ProtocolSmartWallet_OwnershipTransferred.contract = "ProtocolSmartWallet"
      /\ ProtocolSmartWallet_ReportReceived.name = "ReportReceived"
      /\ ProtocolSmartWallet_ReportReceived.contract = "ProtocolSmartWallet"
      /\ ProtocolSmartWallet_SenderForSourceChainRemoved.name = "SenderForSourceChainRemoved"
      /\ ProtocolSmartWallet_SenderForSourceChainRemoved.contract = "ProtocolSmartWallet"
      /\ ProtocolSmartWallet_SenderForSourceChainSet.name = "SenderForSourceChainSet"
      /\ ProtocolSmartWallet_SenderForSourceChainSet.contract = "ProtocolSmartWallet"
      /\ ProtocolSmartWallet_Withdraw.name = "Withdraw"
      /\ ProtocolSmartWallet_Withdraw.contract = "ProtocolSmartWallet"
      /\ ProtocolSmartWallet_WorkflowOwnerRemoved.name = "WorkflowOwnerRemoved"
      /\ ProtocolSmartWallet_WorkflowOwnerRemoved.contract = "ProtocolSmartWallet"
      /\ ProtocolSmartWallet_WorkflowOwnerSet.name = "WorkflowOwnerSet"
      /\ ProtocolSmartWallet_WorkflowOwnerSet.contract = "ProtocolSmartWallet"
  BY DEF Event, ProtocolSmartWallet_Deposit, ProtocolSmartWallet_KeystoneForwarderRemoved,
         ProtocolSmartWallet_KeystoneForwarderSet, ProtocolSmartWallet_MessageReceived,
         ProtocolSmartWallet_MessageSent, ProtocolSmartWallet_OwnershipTransferRequested,
         ProtocolSmartWallet_OwnershipTransferred, ProtocolSmartWallet_ReportReceived,
         ProtocolSmartWallet_SenderForSourceChainRemoved,
         ProtocolSmartWallet_SenderForSourceChainSet, ProtocolSmartWallet_Withdraw,
         ProtocolSmartWallet_WorkflowOwnerRemoved, ProtocolSmartWallet_WorkflowOwnerSet
<1>2. /\ WellFormed(ProtocolSmartWallet_Deposit)
      /\ WellFormed(ProtocolSmartWallet_KeystoneForwarderRemoved)
      /\ WellFormed(ProtocolSmartWallet_KeystoneForwarderSet)
      /\ WellFormed(ProtocolSmartWallet_MessageReceived)
      /\ WellFormed(ProtocolSmartWallet_MessageSent)
      /\ WellFormed(ProtocolSmartWallet_OwnershipTransferRequested)
      /\ WellFormed(ProtocolSmartWallet_OwnershipTransferred)
      /\ WellFormed(ProtocolSmartWallet_ReportReceived)
      /\ WellFormed(ProtocolSmartWallet_SenderForSourceChainRemoved)
      /\ WellFormed(ProtocolSmartWallet_SenderForSourceChainSet)
      /\ WellFormed(ProtocolSmartWallet_Withdraw)
      /\ WellFormed(ProtocolSmartWallet_WorkflowOwnerRemoved)
      /\ WellFormed(ProtocolSmartWallet_WorkflowOwnerSet)
  BY DEF Event, WellFormed, ProtocolSmartWallet_Deposit,
         ProtocolSmartWallet_KeystoneForwarderRemoved,
         ProtocolSmartWallet_KeystoneForwarderSet, ProtocolSmartWallet_MessageReceived,
         ProtocolSmartWallet_MessageSent, ProtocolSmartWallet_OwnershipTransferRequested,
         ProtocolSmartWallet_OwnershipTransferred, ProtocolSmartWallet_ReportReceived,
         ProtocolSmartWallet_SenderForSourceChainRemoved,
         ProtocolSmartWallet_SenderForSourceChainSet, ProtocolSmartWallet_Withdraw,
         ProtocolSmartWallet_WorkflowOwnerRemoved, ProtocolSmartWallet_WorkflowOwnerSet
<1> QED
  BY <1>1, <1>2 DEF EventsOf, ProtocolSmartWallet_Triggers

LEMMA MockPool_Events == EventsOf("MockPool", MockPool_Triggers)
<1>1. /\ MockPool_CurrentLiquidityRateUpdated.name = "CurrentLiquidityRateUpdated"
      /\ MockPool_CurrentLiquidityRateUpdated.contract = "MockPool"
      /\ MockPool_OwnershipTransferRequested.name = "OwnershipTransferRequested"
      /\ MockPool_OwnershipTransferRequested.contract = "MockPool"
      /\ MockPool_OwnershipTransferred.name = "OwnershipTransferred"
      /\ MockPool_OwnershipTransferred.contract = "MockPool"
      /\ MockPool_Supply.name = "Supply"
      /\ MockPool_Supply.contract = "MockPool"
      /\ MockPool_Withdraw.name = "Withdraw"
      /\ MockPool_Withdraw.contract = "MockPool"
  BY DEF Event, MockPool_CurrentLiquidityRateUpdated, MockPool_OwnershipTransferRequested,
         MockPool_OwnershipTransferred, MockPool_Supply, MockPool_Withdraw
<1>2. /\ WellFormed(MockPool_CurrentLiquidityRateUpdated)
      /\ WellFormed(MockPool_OwnershipTransferRequested)
      /\ WellFormed(MockPool_OwnershipTransferred)
      /\ WellFormed(MockPool_Supply)
      /\ WellFormed(MockPool_Withdraw)
  BY DEF Event, WellFormed, MockPool_CurrentLiquidityRateUpdated,
         MockPool_OwnershipTransferRequested, MockPool_OwnershipTransferred, MockPool_Supply,
         MockPool_Withdraw
<1> QED
  BY <1>1, <1>2 DEF EventsOf, MockPool_Triggers

LEMMA PriceFeedAggregator_Events == EventsOf("PriceFeedAggregator", PriceFeedAggregator_Triggers)
<1>1. /\ PriceFeedAggregator_AnswerUpdated.name = "AnswerUpdated"
      /\ PriceFeedAggregator_AnswerUpdated.contract = "PriceFeedAggregator"
      /\ PriceFeedAggregator_NewRound.name = "NewRound"
      /\ PriceFeedAggregator_NewRound.contract = "PriceFeedAggregator"
      /\ PriceFeedAggregator_OwnershipTransferRequested.name = "OwnershipTransferRequested"
      /\ PriceFeedAggregator_OwnershipTransferRequested.contract = "PriceFeedAggregator"
      /\ PriceFeedAggregator_OwnershipTransferred.name = "OwnershipTransferred"
      /\ PriceFeedAggregator_OwnershipTransferred.contract = "PriceFeedAggregator"
  BY DEF Event, PriceFeedAggregator_AnswerUpdated, PriceFeedAggregator_NewRound,
         PriceFeedAggregator_OwnershipTransferRequested,
         PriceFeedAggregator_OwnershipTransferred
<1>2. /\ WellFormed(PriceFeedAggregator_AnswerUpdated)
      /\ WellFormed(PriceFeedAggregator_NewRound)
      /\ WellFormed(PriceFeedAggregator_OwnershipTransferRequested)
      /\ WellFormed(PriceFeedAggregator_OwnershipTransferred)
  BY DEF Event, WellFormed, PriceFeedAggregator_AnswerUpdated, PriceFeedAggregator_NewRound,
         PriceFeedAggregator_OwnershipTransferRequested,
         PriceFeedAggregator_OwnershipTransferred
<1> QED
  BY <1>1, <1>2 DEF EventsOf, PriceFeedAggregator_Triggers

LEMMA BundleAggregatorProxy_Events ==
  EventsOf("BundleAggregatorProxy", BundleAggregatorProxy_Triggers)
<1>1. /\ BundleAggregatorProxy_AggregatorConfirmed.name = "AggregatorConfirmed"
      /\ BundleAggregatorProxy_AggregatorConfirmed.contract = "BundleAggregatorProxy"
      /\ BundleAggregatorProxy_AggregatorProposed.name = "AggregatorProposed"
      /\ BundleAggregatorProxy_AggregatorProposed.contract = "BundleAggregatorProxy"
      /\ BundleAggregatorProxy_OwnershipTransferRequested.name = "OwnershipTransferRequested"
      /\ BundleAggregatorProxy_OwnershipTransferRequested.contract = "BundleAggregatorProxy"
      /\ BundleAggregatorProxy_OwnershipTransferred.name = "OwnershipTransferred"
      /\ BundleAggregatorProxy_OwnershipTransferred.contract = "BundleAggregatorProxy"
  BY DEF Event, BundleAggregatorProxy_AggregatorConfirmed,
         BundleAggregatorProxy_AggregatorProposed,
         BundleAggregatorProxy_OwnershipTransferRequested,
         BundleAggregatorProxy_OwnershipTransferred
<1>2. /\ WellFormed(BundleAggregatorProxy_AggregatorConfirmed)
      /\ WellFormed(BundleAggregatorProxy_AggregatorProposed)
      /\ WellFormed(BundleAggregatorProxy_OwnershipTransferRequested)
      /\ WellFormed(BundleAggregatorProxy_OwnershipTransferred)
  BY DEF Event, WellFormed, BundleAggregatorProxy_AggregatorConfirmed,
         BundleAggregatorProxy_AggregatorProposed,
         BundleAggregatorProxy_OwnershipTransferRequested,
         BundleAggregatorProxy_OwnershipTransferred
<1> QED
  BY <1>1, <1>2 DEF EventsOf, BundleAggregatorProxy_Triggers

LEMMA IERC20_Events == EventsOf("IERC20", IERC20_Triggers)
<1>1. /\ IERC20_Approval.name = "Approval"
      /\ IERC20_Approval.contract = "IERC20"
      /\ IERC20_Transfer.name = "Transfer"
      /\ IERC20_Transfer.contract = "IERC20"
  BY DEF Event, IERC20_Approval, IERC20_Transfer
<1>2. /\ WellFormed(IERC20_Approval)
      /\ WellFormed(IERC20_Transfer)
  BY DEF Event, WellFormed, IERC20_Approval, IERC20_Transfer
<1> QED
  BY <1>1, <1>2 DEF EventsOf, IERC20_Triggers

LEMMA MessageEmitter_Events == EventsOf("MessageEmitter", MessageEmitter_Triggers)
<1>1. /\ MessageEmitter_MessageEmitted.name = "MessageEmitted"
      /\ MessageEmitter_MessageEmitted.contract = "MessageEmitter"
  BY DEF Event, MessageEmitter_MessageEmitted
<1>2. /\ WellFormed(MessageEmitter_MessageEmitted)
  BY DEF Event, WellFormed, MessageEmitter_MessageEmitted
<1> QED
  BY <1>1, <1>2 DEF EventsOf, MessageEmitter_Triggers

LEMMA ReserveManager_Events == EventsOf("ReserveManager", ReserveManager_Triggers)
<1>1. /\ ReserveManager_RequestReserveUpdate.name = "RequestReserveUpdate"
      /\ ReserveManager_RequestReserveUpdate.contract = "ReserveManager"
  BY DEF Event, ReserveManager_RequestReserveUpdate
<1>2. /\ WellFormed(ReserveManager_RequestReserveUpdate)
  BY DEF Event, WellFormed, ReserveManager_RequestReserveUpdate
<1> QED
  BY <1>1, <1>2 DEF EventsOf, ReserveManager_Triggers

LEMMA EventsAreWellFormed == \A e \in Triggers : WellFormed(e)
BY DataFeedsCache_Events, ProtocolSmartWallet_Events, MockPool_Events,
   PriceFeedAggregator_Events, BundleAggregatorProxy_Events, IERC20_Events,
   MessageEmitter_Events, ReserveManager_Events, Zenon DEF Triggers, EventsOf

LEMMA EventsByName ==
  \A e, f \in Triggers : e.contract = f.contract /\ e.name = f.name => e = f
BY DataFeedsCache_Events, ProtocolSmartWallet_Events, MockPool_Events,
   PriceFeedAggregator_Events, BundleAggregatorProxy_Events, IERC20_Events,
   MessageEmitter_Events, ReserveManager_Events DEF Triggers, EventsOf

LEMMA BindingConstants ==
  /\ Zero \notin Words
  /\ MaxFilters \in Nat
  /\ MaxBoundHeight \in Nat \ {0}
  /\ \A e \in Triggers : Zero # e.name
BY BindingAssumption, EventAssumption DEF BindingAssumption, EventAssumption

\* A value in front of as many as a number says, as topics are laid out.
LEMMA PutInFront ==
  ASSUME NEW x, NEW n \in Nat, NEW s
  PROVE  s = [k \in 1 .. n |-> s[k]] =>
           /\ Len(<<x>> \o s) = n + 1
           /\ (<<x>> \o s)[1] = x
           /\ \A k \in 1 .. n : (<<x>> \o s)[k + 1] = s[k]
<1>1. SUFFICES ASSUME s = [k \in 1 .. n |-> s[k]]
               PROVE  /\ Len(<<x>> \o s) = n + 1
                      /\ (<<x>> \o s)[1] = x
                      /\ \A k \in 1 .. n : (<<x>> \o s)[k + 1] = s[k]
  OBVIOUS
<1>2. PICK T : T = {x} \union {s[k] : k \in 1 .. n}
  OBVIOUS
<1>3. \A k \in 1 .. n : s[k] \in T
  BY <1>2
<1>4. s \in [1 .. n -> T]
  BY <1>1, <1>3
<1>5. s \in Seq(T) /\ Len(s) = n
  BY <1>4
<1>6. PICK f : f = <<x>>
  OBVIOUS
<1>7. f \in Seq(T) /\ Len(f) = 1 /\ f[1] = x
  BY <1>2, <1>6
<1>8. PICK w : w = f \o s
  OBVIOUS
<1>9. /\ Len(w) = 1 + n
      /\ \A i \in 1 .. 1 + n : w[i] = IF i <= 1 THEN f[i] ELSE s[i - 1]
  <2>1. /\ Len(f \o s) = Len(f) + Len(s)
        /\ \A i \in 1 .. Len(f) + Len(s) :
             (f \o s)[i] = IF i <= Len(f) THEN f[i] ELSE s[i - Len(f)]
    BY <1>5, <1>7, ConcatProperties, Zenon
  <2>2. Len(f) = 1 /\ Len(s) = n
    BY <1>5, <1>7
  <2> QED
    BY <1>8, <2>1, <2>2, Zenon
<1>10. 1 \in 1 .. 1 + n /\ 1 <= 1 /\ 1 + n = n + 1
  OBVIOUS
<1>11. \A k \in 1 .. n : k + 1 \in 1 .. 1 + n /\ ~(k + 1 <= 1) /\ (k + 1) - 1 = k
  OBVIOUS
<1>12. w[1] = x
  BY <1>7, <1>9, <1>10
<1>13. \A k \in 1 .. n : w[k + 1] = s[k]
  <2>1. SUFFICES ASSUME NEW k \in 1 .. n
                 PROVE  w[k + 1] = s[k]
    OBVIOUS
  <2>2. k + 1 \in 1 .. 1 + n /\ ~(k + 1 <= 1) /\ (k + 1) - 1 = k
    BY <1>11
  <2>3. w[k + 1] = s[(k + 1) - 1]
    BY <1>9, <2>2
  <2> QED
    BY <2>2, <2>3
<1> QED
  BY <1>6, <1>8, <1>9, <1>10, <1>12, <1>13

LEMMA EncodedTopics ==
  ASSUME NEW e \in Triggers, NEW filters
  PROVE  /\ Len(EncodeTopics(e, filters)) = Len(e.topics) + 1
         /\ EncodeTopics(e, filters)[1] = {e.name}
         /\ \A k \in 1 .. Len(e.topics) :
              EncodeTopics(e, filters)[k + 1] = Rule(filters, e.topics[k])
<1>1. PICK s : s = [k \in 1 .. Len(e.topics) |-> Rule(filters, e.topics[k])]
  OBVIOUS
<1>2. Len(e.topics) \in Nat
  BY EventsAreWellFormed DEF WellFormed
<1>3. DOMAIN s = 1 .. Len(e.topics)
      /\ \A k \in 1 .. Len(e.topics) : s[k] = Rule(filters, e.topics[k])
  BY <1>1
<1>4. s = [k \in 1 .. Len(e.topics) |-> s[k]]
  BY <1>1
<1>5. EncodeTopics(e, filters) = <<{e.name}>> \o s
  BY <1>1 DEF EncodeTopics
<1>6. PICK w : w = <<{e.name}>> \o s
  OBVIOUS
<1>7. /\ Len(w) = Len(e.topics) + 1 /\ w[1] = {e.name}
      /\ \A k \in 1 .. Len(e.topics) : w[k + 1] = s[k]
  BY <1>2, <1>4, <1>6, PutInFront
<1> QED
  BY <1>3, <1>5, <1>6, <1>7

LEMMA LoggedTopics ==
  ASSUME NEW e \in Triggers, NEW values, NEW block
  PROVE  LET l == LogOf(e, values, block)
         IN /\ l.contract = e.contract /\ l.block = block
            /\ Len(l.topics) = Len(e.topics) + 1
            /\ l.topics[1] = e.name
            /\ \A k \in 1 .. Len(e.topics) : l.topics[k + 1] = values[e.topics[k]]
            /\ \A k \in 1 .. Len(e.data) : l.data[k] = values[e.data[k]]
<1>1. PICK s : s = [k \in 1 .. Len(e.topics) |-> values[e.topics[k]]]
  OBVIOUS
<1>2. PICK d : d = [k \in 1 .. Len(e.data) |-> values[e.data[k]]]
  OBVIOUS
<1>3. Len(e.topics) \in Nat
  BY EventsAreWellFormed DEF WellFormed
<1>4. DOMAIN s = 1 .. Len(e.topics) /\ \A k \in 1 .. Len(e.topics) : s[k] = values[e.topics[k]]
  BY <1>1
<1>5. s = [k \in 1 .. Len(e.topics) |-> s[k]]
  BY <1>1
<1>6. PICK t : t = <<e.name>> \o s
  OBVIOUS
<1>7. /\ Len(t) = Len(e.topics) + 1 /\ t[1] = e.name
      /\ \A k \in 1 .. Len(e.topics) : t[k + 1] = s[k]
  BY <1>3, <1>5, <1>6, PutInFront
<1>8. \A k \in 1 .. Len(e.data) : d[k] = values[e.data[k]]
  BY <1>2
<1>9. LogOf(e, values, block) = [contract |-> e.contract, block |-> block, topics |-> t, data |-> d]
  BY <1>1, <1>2, <1>6 DEF LogOf
<1> QED
  BY <1>4, <1>7, <1>8, <1>9

\* The log of an event matches a trigger's topics exactly if it is of the
\* trigger's event and each of its indexed fields is let through.
LEMMA MatchingLog ==
  ASSUME NEW e \in Triggers, NEW filters, NEW f \in Triggers, NEW values, NEW block
  PROVE  LogMatches(e.contract, EncodeTopics(e, filters), LogOf(f, values, block)) <=>
           /\ f = e
           /\ \A k \in 1 .. Len(e.topics) :
                TopicMatches(Rule(filters, e.topics[k]), values[e.topics[k]])
<1>1. PICK l : l = LogOf(f, values, block)
  OBVIOUS
<1>2. PICK w : w = EncodeTopics(e, filters)
  OBVIOUS
<1>3. PICK n \in Nat : n = Len(e.topics)
  BY EventsAreWellFormed DEF WellFormed
<1>4. Len(w) = n + 1 /\ w[1] = {e.name} /\ \A k \in 1 .. n : w[k + 1] = Rule(filters, e.topics[k])
  BY <1>2, <1>3, EncodedTopics
<1>5. /\ l.contract = f.contract /\ Len(l.topics) = Len(f.topics) + 1 /\ l.topics[1] = f.name
      /\ \A k \in 1 .. Len(f.topics) : l.topics[k + 1] = values[f.topics[k]]
  BY <1>1, LoggedTopics
<1>6. ASSUME LogMatches(e.contract, w, l)
      PROVE  f = e
  <2>1. 1 \in 1 .. Len(w)
    BY <1>4
  <2>2. TopicMatches(w[1], l.topics[1])
    BY <1>6, <2>1 DEF LogMatches
  <2>3. f.name \in {e.name}
    BY <1>4, <1>5, <2>2, BindingConstants DEF TopicMatches
  <2>4. f.contract = e.contract
    BY <1>5, <1>6 DEF LogMatches
  <2> QED
    BY <2>3, <2>4, EventsByName
<1>7. ASSUME f = e
      PROVE  LogMatches(e.contract, w, l) <=>
               \A k \in 1 .. n : TopicMatches(Rule(filters, e.topics[k]), values[e.topics[k]])
  <2>1. TopicMatches(w[1], l.topics[1])
    BY <1>4, <1>5, <1>7 DEF TopicMatches
  <2>2. LogMatches(e.contract, w, l) <=> \A k \in 1 .. n + 1 : TopicMatches(w[k], l.topics[k])
    BY <1>3, <1>4, <1>5, <1>7 DEF LogMatches
  <2>3. \A k \in 1 .. n : w[k + 1] = Rule(filters, e.topics[k])
                          /\ l.topics[k + 1] = values[e.topics[k]]
    BY <1>3, <1>4, <1>5, <1>7
  <2>4. 1 \in 1 .. n + 1 /\ \A k \in 1 .. n : k + 1 \in 1 .. n + 1
    OBVIOUS
  <2>5. \A k \in 1 .. n + 1 : k = 1 \/ (k - 1 \in 1 .. n /\ (k - 1) + 1 = k)
    OBVIOUS
  <2>6. ASSUME \A k \in 1 .. n + 1 : TopicMatches(w[k], l.topics[k]), NEW k \in 1 .. n
        PROVE  TopicMatches(Rule(filters, e.topics[k]), values[e.topics[k]])
    BY <2>3, <2>4, <2>6
  <2>7. ASSUME \A k \in 1 .. n : TopicMatches(Rule(filters, e.topics[k]), values[e.topics[k]]),
               NEW k \in 1 .. n + 1
        PROVE  TopicMatches(w[k], l.topics[k])
    <3>1. CASE k = 1
      BY <2>1, <3>1
    <3>2. CASE k - 1 \in 1 .. n /\ (k - 1) + 1 = k
      <4>1. TopicMatches(Rule(filters, e.topics[k - 1]), values[e.topics[k - 1]])
        BY <2>7, <3>2
      <4>2. w[(k - 1) + 1] = Rule(filters, e.topics[k - 1])
            /\ l.topics[(k - 1) + 1] = values[e.topics[k - 1]]
        BY <2>3, <3>2
      <4> QED
        BY <3>2, <4>1, <4>2
    <3> QED
      BY <2>5, <3>1, <3>2
  <2> QED
    BY <2>2, <2>6, <2>7
<1> QED
  BY <1>1, <1>2, <1>3, <1>6, <1>7

\* A log is decoded to the values it was emitted with.
LEMMA DecodedLog ==
  ASSUME NEW e \in Triggers, NEW values \in [Fields(e) -> Values], NEW block
  PROVE  Decode(e, LogOf(e, values, block)) = values
<1>1. PICK l : l = LogOf(e, values, block)
  OBVIOUS
<1>2. /\ \A k \in 1 .. Len(e.topics) : l.topics[k + 1] = values[e.topics[k]]
      /\ \A k \in 1 .. Len(e.data) : l.data[k] = values[e.data[k]]
  BY <1>1, LoggedTopics
<1>3. ASSUME NEW f \in Fields(e)
      PROVE  Decode(e, l)[f] = values[f]
  <2>1. CASE f \in IndexedFields(e)
    <3>1. PICK k : k = CHOOSE j \in 1 .. Len(e.topics) : e.topics[j] = f
      OBVIOUS
    <3>2. k \in 1 .. Len(e.topics) /\ e.topics[k] = f
      BY <2>1, <3>1 DEF IndexedFields
    <3>3. Decode(e, l)[f] = l.topics[k + 1]
      BY <1>3, <2>1, <3>1 DEF Decode, TopicOf
    <3> QED
      BY <1>2, <3>2, <3>3
  <2>2. CASE f \notin IndexedFields(e)
    <3>1. PICK k : k = CHOOSE j \in 1 .. Len(e.data) : e.data[j] = f
      OBVIOUS
    <3>2. k \in 1 .. Len(e.data) /\ e.data[k] = f
      BY <1>3, <2>2, <3>1 DEF Fields, DataFields
    <3>3. Decode(e, l)[f] = l.data[k]
      BY <1>3, <2>2, <3>1 DEF Decode
    <3> QED
      BY <1>2, <3>2, <3>3
  <2> QED
    BY <2>1, <2>2
<1>4. DOMAIN Decode(e, l) = Fields(e) /\ DOMAIN values = Fields(e)
  BY DEF Decode
<1>5. Decode(e, l) = [f \in Fields(e) |-> Decode(e, l)[f]]
  BY DEF Decode
<1>6. values = [f \in Fields(e) |-> values[f]]
  OBVIOUS
<1>7. Decode(e, l) = values
  BY <1>3, <1>5, <1>6
<1> QED
  BY <1>1, <1>7

LEMMA FilterFields ==
  ASSUME NEW e \in Triggers, NEW filters \in Filters(e)
  PROVE  /\ Len(filters) \in 0 .. MaxFilters
         /\ \A i \in 1 .. Len(filters) : DOMAIN filters[i] = IndexedFields(e)
<1>1. PICK n \in 0 .. MaxFilters : filters \in [1 .. n -> [IndexedFields(e) -> Values]]
  BY DEF Filters
<1>2. Len(filters) = n
  BY <1>1, BindingConstants
<1> QED
  BY <1>1, <1>2

\* A field that is kept out by the filters is one that each of them names.
LEMMA KeptOut ==
  ASSUME NEW e \in Triggers, NEW filters \in Filters(e), NEW values, NEW k \in 1 .. Len(e.topics)
  PROVE  ~TopicMatches(Rule(filters, e.topics[k]), values[e.topics[k]]) =>
           /\ Len(filters) > 0
           /\ \A i \in 1 .. Len(filters) : ~Wants(filters[i], values)
<1> DEFINE g == e.topics[k]
<1>1. SUFFICES ASSUME ~TopicMatches(Rule(filters, g), values[g])
               PROVE  /\ Len(filters) > 0
                      /\ \A i \in 1 .. Len(filters) : ~Wants(filters[i], values)
  OBVIOUS
<1>2. Rule(filters, g) # {} /\ Zero \notin Rule(filters, g) /\ values[g] \notin Rule(filters, g)
  BY <1>1 DEF TopicMatches
<1>3. g \in IndexedFields(e)
  BY DEF IndexedFields
<1> HIDE DEF g
<1>4. \A i \in 1 .. Len(filters) : filters[i][g] \in Rule(filters, g)
  BY DEF Rule
<1>5. \E i : i \in 1 .. Len(filters)
  BY <1>2 DEF Rule
<1>6. Len(filters) > 0
  BY <1>5, FilterFields, BindingConstants
<1>7. \A i \in 1 .. Len(filters) : g \in DOMAIN filters[i] /\ filters[i][g] \notin {Zero, values[g]}
  BY <1>2, <1>3, <1>4, FilterFields
<1> QED
  BY <1>6, <1>7 DEF Wants

\* What a single filter lets through in each field, it wants.
LEMMA LetThrough ==
  ASSUME NEW e \in Triggers, NEW filters \in Filters(e), NEW values
  PROVE  /\ Len(filters) = 1
         /\ \A k \in 1 .. Len(e.topics) :
              TopicMatches(Rule(filters, e.topics[k]), values[e.topics[k]])
         => Wants(filters[1], values)
<1>1. SUFFICES ASSUME Len(filters) = 1,
                      \A k \in 1 .. Len(e.topics) :
                        TopicMatches(Rule(filters, e.topics[k]), values[e.topics[k]]),
                      NEW f \in DOMAIN filters[1]
               PROVE  filters[1][f] \in {Zero, values[f]}
  BY DEF Wants
<1>2. 1 \in 1 .. Len(filters) /\ \A i \in 1 .. Len(filters) : i = 1
  BY <1>1
<1>3. f \in IndexedFields(e)
  BY <1>1, <1>2, FilterFields
<1>4. PICK k \in 1 .. Len(e.topics) : e.topics[k] = f
  BY <1>3 DEF IndexedFields
<1>5. Rule(filters, f) = {filters[1][f]}
  BY <1>2 DEF Rule
<1> QED
  BY <1>1, <1>4, <1>5 DEF TopicMatches

-----------------------------------------------------------------------------

Registered ==
  trigger # NotYet =>
    /\ trigger.event \in Triggers
    /\ trigger.filters \in Filters(trigger.event)
    /\ trigger.topics = EncodeTopics(trigger.event, trigger.filters)
    /\ trigger.confidence \in {"LATEST", "FINALIZED"}

LoggedAsEmitted ==
  emitted # NotYet =>
    /\ trigger # NotYet
    /\ emitted.event \in Triggers
    /\ emitted.values \in [Fields(emitted.event) -> Values]
    /\ emitted.log.block \in 1 .. boundHead
    /\ emitted.log = LogOf(emitted.event, emitted.values, emitted.log.block)

HandledByMatch ==
  handled # NotYet =>
    /\ emitted # NotYet
    /\ IF LogMatches(trigger.event.contract, trigger.topics, emitted.log)
         THEN /\ handled.status = "started"
              /\ handled.values = Decode(trigger.event, emitted.log)
         ELSE handled = Ignored

\* A handler that waits for final logs has been handed one.
HandledWhenSettled ==
  handled.status = "started" /\ trigger.confidence = "FINALIZED" =>
    emitted.log.block <= boundFinal

RepliesToHandlers ==
  /\ reply # NotYet =>
       handled.status = "started" /\ reply.status \in {"view", "logs", "reverted", "panic", "error"}
  /\ FinalLogsAreVisible

HeightsType == boundHead \in 1 .. MaxBoundHeight /\ boundFinal \in 1 .. boundHead

BindingInv ==
  /\ HeightsType /\ Registered /\ LoggedAsEmitted
  /\ HandledByMatch /\ HandledWhenSettled /\ RepliesToHandlers

LEMMA Statuses ==
  /\ NotYet.status = "not yet" /\ Ignored.status = "ignored" /\ NotYet # Ignored
BY DEF NotYet, Ignored

LEMMA BindingInvInit == BindingInit => BindingInv
<1>1. SUFFICES ASSUME BindingInit
               PROVE  BindingInv
  OBVIOUS
<1>2. HeightsType
  BY <1>1, BindingConstants DEF BindingInit, HeightsType
<1>3. handled.status # "started" /\ reply.status # "view"
  BY <1>1, Statuses DEF BindingInit
<1>4. Registered /\ LoggedAsEmitted /\ HandledByMatch
  BY <1>1 DEF BindingInit, Registered, LoggedAsEmitted, HandledByMatch
<1>5. HandledWhenSettled /\ RepliesToHandlers
  BY <1>1, <1>3 DEF BindingInit, HandledWhenSettled, RepliesToHandlers, FinalLogsAreVisible
<1> QED
  BY <1>2, <1>4, <1>5 DEF BindingInv

LEMMA LogTriggerStep ==
  ASSUME BindingInv, trigger = NotYet, NEW e \in Triggers, NEW filters \in Filters(e),
         NEW confidence \in {"LATEST", "FINALIZED"}, LogTrigger(e, filters, confidence)
  PROVE  BindingInv'
<1>1. emitted = NotYet /\ handled = NotYet
  BY DEF BindingInv, LoggedAsEmitted, HandledByMatch
<1>2. handled.status # "started"
  BY <1>1, Statuses
<1>3. reply = NotYet
  BY <1>2 DEF BindingInv, RepliesToHandlers
<1>4. reply.status # "view"
  BY <1>3, Statuses
<1>5. UNCHANGED <<boundHead, boundFinal, emitted, handled, reply>>
  BY DEF LogTrigger
<1>6. trigger'.event = e /\ trigger'.filters = filters /\ trigger'.confidence = confidence
      /\ trigger'.topics = EncodeTopics(e, filters)
  BY DEF LogTrigger
<1>7. HeightsType'
  BY <1>5 DEF BindingInv, HeightsType
<1>8. Registered'
  BY <1>6 DEF Registered
<1>9. LoggedAsEmitted' /\ HandledByMatch'
  BY <1>1, <1>5 DEF LoggedAsEmitted, HandledByMatch
<1>10. HandledWhenSettled' /\ RepliesToHandlers'
  BY <1>2, <1>3, <1>4, <1>5 DEF HandledWhenSettled, RepliesToHandlers, FinalLogsAreVisible
<1> QED
  BY <1>7, <1>8, <1>9, <1>10 DEF BindingInv

LEMMA EmitsStep ==
  ASSUME BindingInv, trigger # NotYet, emitted = NotYet, NEW e \in Triggers,
         NEW values \in [Fields(e) -> Values], Emits(e, values)
  PROVE  BindingInv'
<1>1. handled = NotYet
  BY DEF BindingInv, HandledByMatch
<1>2. handled.status # "started"
  BY <1>1, Statuses
<1>3. reply = NotYet
  BY <1>2 DEF BindingInv, RepliesToHandlers
<1>4. reply.status # "view"
  BY <1>3, Statuses
<1>5. UNCHANGED <<boundFinal, trigger, handled, reply>> /\ boundHead' = boundHead + 1
      /\ boundHead < MaxBoundHeight
  BY DEF Emits
<1>6. emitted'.event = e /\ emitted'.values = values
      /\ emitted'.log = LogOf(e, values, boundHead + 1)
  BY DEF Emits
<1>7. emitted'.log.block = boundHead + 1
  BY <1>6 DEF LogOf
<1>8. HeightsType' /\ boundHead + 1 \in 1 .. boundHead'
  BY <1>5, BindingConstants DEF BindingInv, HeightsType
<1>9. Registered'
  BY <1>5 DEF BindingInv, Registered
<1>10. LoggedAsEmitted'
  BY <1>5, <1>6, <1>7, <1>8 DEF LoggedAsEmitted
<1>11. HandledByMatch'
  BY <1>1, <1>5 DEF HandledByMatch
<1>12. HandledWhenSettled' /\ RepliesToHandlers'
  BY <1>2, <1>3, <1>4, <1>5 DEF HandledWhenSettled, RepliesToHandlers, FinalLogsAreVisible
<1> QED
  BY <1>8, <1>9, <1>10, <1>11, <1>12 DEF BindingInv

\* A block that has an emitted log has a number.
LEMMA LogHeights ==
  ASSUME BindingInv, emitted # NotYet
  PROVE  emitted.log.block \in Nat /\ boundFinal \in Nat
BY DEF BindingInv, HeightsType, LoggedAsEmitted

LEMMA BoundFinalizeStep ==
  ASSUME BindingInv, BoundFinalize
  PROVE  BindingInv'
<1>1. /\ boundFinal < boundHead /\ boundFinal' = boundFinal + 1
      /\ UNCHANGED <<boundHead, trigger, emitted, handled, reply>>
  BY DEF BoundFinalize
<1>2. HeightsType'
  BY <1>1, BindingConstants DEF BindingInv, HeightsType
<1>3. Registered' /\ LoggedAsEmitted' /\ HandledByMatch' /\ RepliesToHandlers'
  BY <1>1 DEF BindingInv, Registered, LoggedAsEmitted, HandledByMatch, RepliesToHandlers,
     FinalLogsAreVisible
<1>4. HandledWhenSettled'
  <2>1. SUFFICES ASSUME handled.status = "started", trigger.confidence = "FINALIZED"
                 PROVE  emitted.log.block <= boundFinal'
    BY <1>1 DEF HandledWhenSettled
  <2>2. emitted # NotYet
    BY <2>1, Statuses DEF BindingInv, HandledByMatch
  <2>3. emitted.log.block <= boundFinal
    BY <2>1 DEF BindingInv, HandledWhenSettled
  <2> QED
    BY <1>1, <2>2, <2>3, LogHeights
<1> QED
  BY <1>2, <1>3, <1>4 DEF BindingInv

LEMMA AdaptStep ==
  ASSUME BindingInv, Adapt
  PROVE  BindingInv'
<1>1. /\ emitted # NotYet /\ handled = NotYet
      /\ trigger.confidence = "FINALIZED" => emitted.log.block <= boundFinal
      /\ UNCHANGED <<boundHead, boundFinal, trigger, emitted, reply>>
  BY DEF Adapt
<1>2. handled.status # "started"
  BY <1>1, Statuses
<1>3. reply = NotYet
  BY <1>2 DEF BindingInv, RepliesToHandlers
<1>4. reply.status # "view"
  BY <1>3, Statuses
<1>5. IF LogMatches(trigger.event.contract, trigger.topics, emitted.log)
        THEN /\ handled'.status = "started"
             /\ handled'.values = Decode(trigger.event, emitted.log)
        ELSE handled' = Ignored
  BY DEF Adapt
<1>6. HeightsType' /\ Registered' /\ LoggedAsEmitted'
  BY <1>1 DEF BindingInv, HeightsType, Registered, LoggedAsEmitted
<1>7. HandledByMatch'
  BY <1>1, <1>5 DEF HandledByMatch
<1>8. HandledWhenSettled'
  BY <1>1 DEF HandledWhenSettled
<1>9. RepliesToHandlers'
  BY <1>1, <1>3, <1>4 DEF RepliesToHandlers, FinalLogsAreVisible
<1> QED
  BY <1>6, <1>7, <1>8, <1>9 DEF BindingInv

\* A request that is answered, with a view from a final block or otherwise.
LEMMA RequestStep ==
  ASSUME BindingInv, handled.status = "started", NEW result, Request(result),
         result.status \in {"view", "logs", "reverted", "panic", "error"},
         result.status = "view" /\ result.asked = NoBlock => result.at = boundFinal
  PROVE  BindingInv'
<1>1. reply' = result /\ UNCHANGED <<boundHead, boundFinal, trigger, emitted, handled>>
  BY DEF Request
<1>2. HeightsType' /\ Registered' /\ LoggedAsEmitted' /\ HandledByMatch' /\ HandledWhenSettled'
  BY <1>1 DEF BindingInv, HeightsType, Registered, LoggedAsEmitted, HandledByMatch,
     HandledWhenSettled
<1>3. FinalLogsAreVisible'
  <2>1. SUFFICES ASSUME result.status = "view", result.asked = NoBlock,
                        trigger.confidence = "FINALIZED"
                 PROVE  result.at >= emitted.log.block
    BY <1>1 DEF FinalLogsAreVisible
  <2>2. result.at = boundFinal
    BY <2>1
  <2>3. emitted # NotYet
    BY Statuses DEF BindingInv, HandledByMatch
  <2>4. emitted.log.block <= boundFinal
    BY <2>1 DEF BindingInv, HandledWhenSettled
  <2> QED
    BY <2>2, <2>3, <2>4, LogHeights
<1>4. RepliesToHandlers'
  BY <1>1, <1>3 DEF RepliesToHandlers
<1> QED
  BY <1>2, <1>4 DEF BindingInv

LEMMA HandleStep ==
  ASSUME BindingInv, Handle
  PROVE  BindingInv'
<1>1. handled.status = "started"
  BY DEF Handle
<1>2. ASSUME NEW contract, NEW asked, ViewCall(contract, asked)
      PROVE  BindingInv'
  <2>1. PICK result : result = [status |-> "view", asked |-> asked, at |-> ViewBlock(asked)]
    OBVIOUS
  <2>2. result.status = "view" /\ (result.asked = NoBlock => result.at = boundFinal)
    BY <2>1 DEF ViewBlock
  <2>3. Request(result)
    BY <1>2, <2>1 DEF ViewCall
  <2> QED
    BY <1>1, <2>2, <2>3, RequestStep
<1>3. ASSUME NEW contract, NEW selector, ViewReverts(contract, selector)
      PROVE  BindingInv'
  <2>1. PICK result : result = UnpackError(contract, selector)
    OBVIOUS
  <2>2. result.status \in {"panic", "reverted"}
    BY <2>1 DEF UnpackError
  <2>3. Request(result)
    BY <1>3, <2>1 DEF ViewReverts
  <2> QED
    BY <1>1, <2>2, <2>3, RequestStep
<1>4. ASSUME NEW from, NEW to, FilterLogs(trigger.event, from, to)
      PROVE  BindingInv'
  <2>1. PICK found \in BOOLEAN :
          found <=> /\ emitted.log.contract = trigger.event.contract
                    /\ emitted.log.topics[1] = trigger.event.name
                    /\ emitted.log.block \in from .. to
    OBVIOUS
  <2>2. PICK result : result = [status |-> "logs", found |-> found]
    OBVIOUS
  <2>3. result.status = "logs"
    BY <2>2
  <2>4. Request(result)
    BY <1>4, <2>1, <2>2, Zenon DEF FilterLogs
  <2> QED
    BY <1>1, <2>3, <2>4, RequestStep
<1>5. CASE FilterLogsWithoutOptions
  <2>1. PICK result : result = [status |-> "panic"]
    OBVIOUS
  <2>2. result.status = "panic" /\ Request(result)
    BY <1>5, <2>1 DEF FilterLogsWithoutOptions
  <2> QED
    BY <1>1, <2>2, RequestStep
<1>6. CASE RequestFails
  <2>1. PICK result : result = [status |-> "error"]
    OBVIOUS
  <2>2. result.status = "error" /\ Request(result)
    BY <1>6, <2>1 DEF RequestFails
  <2> QED
    BY <1>1, <2>2, RequestStep
<1> QED
  BY <1>2, <1>3, <1>4, <1>5, <1>6, Zenon DEF Handle

LEMMA BindingInvariant == BindingSpec => []BindingInv
<1>1. BindingInit => BindingInv
  BY BindingInvInit
<1>2. BindingInv /\ [BindingNext]_bindingVars => BindingInv'
  <2>1. SUFFICES ASSUME BindingInv, [BindingNext]_bindingVars
                 PROVE  BindingInv'
    OBVIOUS
  <2>2. ASSUME trigger = NotYet, NEW e \in Triggers, NEW filters \in Filters(e),
               NEW confidence \in {"LATEST", "FINALIZED"}, LogTrigger(e, filters, confidence)
        PROVE  BindingInv'
    BY <2>1, <2>2, LogTriggerStep
  <2>3. ASSUME trigger # NotYet, emitted = NotYet, NEW e \in Triggers,
               NEW values \in [Fields(e) -> Values], Emits(e, values)
        PROVE  BindingInv'
    BY <2>1, <2>3, EmitsStep
  <2>4. CASE BoundFinalize
    BY <2>1, <2>4, BoundFinalizeStep
  <2>5. CASE Adapt
    BY <2>1, <2>5, AdaptStep
  <2>6. CASE Handle
    BY <2>1, <2>6, HandleStep
  <2>7. CASE UNCHANGED bindingVars
    BY <2>1, <2>7 DEF bindingVars, BindingInv, HeightsType, Registered, LoggedAsEmitted,
       HandledByMatch, HandledWhenSettled, RepliesToHandlers, FinalLogsAreVisible
  <2> QED
    BY <2>1, <2>2, <2>3, <2>4, <2>5, <2>6, <2>7, Zenon DEF BindingNext
<1> QED
  BY <1>1, <1>2, PTL DEF BindingSpec

LEMMA BindingTypes == BindingInv => BindingTypeOK
<1>1. SUFFICES ASSUME BindingInv
               PROVE  BindingTypeOK
  OBVIOUS
<1>2. handled \in {NotYet, Ignored} \/ handled.status = "started"
  BY <1>1 DEF BindingInv, HandledByMatch
<1>3. reply = NotYet \/ reply.status \in {"view", "logs", "reverted", "panic", "error"}
  BY <1>1 DEF BindingInv, RepliesToHandlers
<1> QED
  BY <1>1, <1>2, <1>3 DEF BindingInv, HeightsType, Registered, LoggedAsEmitted, BindingTypeOK

\* A handler gets every log that one of its filters wants, decoded to the values
\* it was emitted with, and no log of another event or contract, for every
\* binding, every set of filters and every pair of events that could be mistaken
\* for one another.
THEOREM HandlersGetWhatTheyWant == BindingSpec => []HandlersGetTheirLogs
<1>1. BindingInv => HandlersGetTheirLogs
  <2>1. SUFFICES ASSUME BindingInv
                 PROVE  HandlersGetTheirLogs
    OBVIOUS
  <2>2. CASE handled = NotYet
    BY <2>2, Statuses DEF HandlersGetTheirLogs
  <2>3. CASE handled # NotYet
    <3>1. PICK e : e = trigger.event
      OBVIOUS
    <3>2. PICK filters : filters = trigger.filters
      OBVIOUS
    <3>3. PICK f : f = emitted.event
      OBVIOUS
    <3>4. PICK values : values = emitted.values
      OBVIOUS
    <3>5. PICK block : block = emitted.log.block
      OBVIOUS
    <3>6. emitted # NotYet /\ trigger # NotYet
      BY <2>1, <2>3 DEF BindingInv, HandledByMatch, LoggedAsEmitted
    <3>7. e \in Triggers /\ filters \in Filters(e) /\ trigger.topics = EncodeTopics(e, filters)
      BY <2>1, <3>1, <3>2, <3>6 DEF BindingInv, Registered
    <3>8. f \in Triggers /\ values \in [Fields(f) -> Values]
          /\ emitted.log = LogOf(f, values, block)
      BY <2>1, <3>3, <3>4, <3>5, <3>6 DEF BindingInv, LoggedAsEmitted
    <3>9. LogMatches(e.contract, trigger.topics, emitted.log) <=>
            /\ f = e
            /\ \A k \in 1 .. Len(e.topics) :
                 TopicMatches(Rule(filters, e.topics[k]), values[e.topics[k]])
      BY <3>7, <3>8, MatchingLog
    <3>10. CASE LogMatches(e.contract, trigger.topics, emitted.log)
      <4>1. handled.status = "started" /\ handled.values = Decode(e, emitted.log)
        BY <2>1, <2>3, <3>1, <3>10 DEF BindingInv, HandledByMatch
      <4>2. f = e
        BY <3>9, <3>10
      <4>3. handled.values = values
        BY <3>7, <3>8, <4>1, <4>2, DecodedLog
      <4>4. Len(filters) = 1 => Wants(filters[1], values)
        BY <3>7, <3>9, <3>10, LetThrough
      <4>5. handled # Ignored
        BY <4>1, Statuses
      <4> QED
        BY <3>1, <3>2, <3>3, <3>4, <4>2, <4>3, <4>4, <4>5 DEF HandlersGetTheirLogs
    <3>11. CASE ~LogMatches(e.contract, trigger.topics, emitted.log)
      <4>1. handled = Ignored
        BY <2>1, <2>3, <3>1, <3>11 DEF BindingInv, HandledByMatch
      <4>2. handled.status # "started"
        BY <4>1, Statuses
      <4>3. ASSUME f = e
            PROVE  Len(filters) > 0 /\ \A i \in 1 .. Len(filters) : ~Wants(filters[i], values)
        <5>1. PICK k \in 1 .. Len(e.topics) :
                ~TopicMatches(Rule(filters, e.topics[k]), values[e.topics[k]])
          BY <3>9, <3>11, <4>3
        <5> QED
          BY <3>7, <5>1, KeptOut
      <4> QED
        BY <3>1, <3>2, <3>3, <3>4, <4>2, <4>3 DEF HandlersGetTheirLogs
    <3> QED
      BY <3>10, <3>11
  <2> QED
    BY <2>2, <2>3
<1> QED
  BY <1>1, BindingInvariant, PTL

\* A handler that waits for final logs and calls a view without naming a block
\* reads a state that includes its log, however far the chain has moved.
THEOREM FinalViewsIncludeTheLog == BindingSpec => []FinalLogsAreVisible
<1>1. BindingInv => FinalLogsAreVisible
  BY DEF BindingInv, RepliesToHandlers
<1> QED
  BY <1>1, BindingInvariant, PTL

-----------------------------------------------------------------------------
(* AaveLending.  The receiver keeps what a repayment pulls beyond the debt *)
(* it finds.  What it finds is not what it was asked for with: the report  *)
(* lands later.  So the invariant says that the one repayment under way    *)
(* still fits the debt: nothing but a repayment makes the debt smaller.    *)

LEMMA LendingConstants ==
  Holdings1 \in Nat /\ Reserve1 \in Nat /\ MaxLending \in Nat /\ MaxLendingOps \in Nat
BY LendingAssumption DEF LendingAssumption

USE LendingConstants

-----------------------------------------------------------------------------
(* The invariant.                                                          *)

BooksType ==
  /\ tokens \in Nat /\ aTokens \in Nat /\ debt \in Nat
  /\ liquidity \in Nat /\ stuck \in Nat

ApprovedType == approved \in [{"token", "aToken", "credit"} -> 0 .. MaxLending]

SlotsType == lending \in [LendingSlots -> LendingReports \union {NoReport}]

RestType == careless \in BOOLEAN /\ lendingOps \in 0 .. MaxLendingOps

\* At most one repayment is under way, and it fits the debt.
RepaymentFits ==
  /\ \A s \in InFlightRepayments : lending[s].amount <= debt
  /\ \A s, t \in InFlightRepayments : s = t

LendingInv ==
  /\ BooksType /\ ApprovedType /\ SlotsType /\ RestType
  /\ ~careless => RepaymentFits /\ stuck = 0

LEMMA LendingTypeParts ==
  LendingTypeOK <=> BooksType /\ ApprovedType /\ SlotsType /\ RestType
BY DEF LendingTypeOK, BooksType, ApprovedType, SlotsType, RestType

LEMMA LendingInitInv == LendingInit => LendingInv
<1> SUFFICES ASSUME LendingInit
             PROVE  LendingInv
  OBVIOUS
<1>1. BooksType
  BY DEF LendingInit, BooksType
<1>2. ApprovedType /\ RestType
  <2>1. ApprovedType
    BY DEF LendingInit, ApprovedType
  <2>2. lendingOps \in 0 .. MaxLendingOps
    BY DEF LendingInit
  <2>3. careless \in BOOLEAN
    BY Zenon DEF LendingInit
  <2> QED
    BY <2>1, <2>2, <2>3, Zenon DEF RestType
<1>3. SlotsType
  BY DEF LendingInit, SlotsType
<1>4. InFlightRepayments = {}
  BY DEF LendingInit, InFlightRepayments, NoReport
<1> QED
  BY <1>1, <1>2, <1>3, <1>4 DEF LendingInit, LendingInv, RepaymentFits

-----------------------------------------------------------------------------
(* What a slot holds.                                                      *)

\* A report that has been asked for is a record of the three fields.
LEMMA SlotReports ==
  ASSUME SlotsType, NEW s \in LendingSlots, lending[s].status # "none"
  PROVE  /\ lending[s] \in LendingReports
         /\ lending[s].amount \in 0 .. MaxLending
         /\ lending[s].operation \in Operations
BY DEF SlotsType, LendingReports, NoReport

\* A settled report, or none, leaves no more repayments under way than before.
LEMMA SettlingKeepsFit ==
  ASSUME SlotsType, RepaymentFits, debt \in Nat, NEW s \in LendingSlots,
         NEW report \in LendingReports \union {NoReport},
         report.status # "pending",
         lending' = [lending EXCEPT ![s] = report],
         debt' = debt
  PROVE  RepaymentFits'
<1>1. \A t \in InFlightRepayments' : t \in InFlightRepayments /\ lending'[t] = lending[t]
  BY DEF InFlightRepayments, SlotsType
<1> QED
  BY <1>1 DEF RepaymentFits

-----------------------------------------------------------------------------
(* The receiver.                                                           *)

\* Only a repayment makes the debt smaller, and it leaves tokens behind only if
\* it takes more than the debt.
LEMMA OnReportBooks ==
  ASSUME BooksType, ApprovedType, NEW operation \in Operations, NEW amount \in 0 .. MaxLending,
         LendingAccepted(operation, amount), LendingOnReport(operation, amount)
  PROVE  /\ BooksType' /\ ApprovedType'
         /\ operation # "REPAY" => debt' >= debt /\ stuck' = stuck
         /\ amount <= debt => stuck' = stuck
<1>1. CASE operation = "SUPPLY"
  BY <1>1 DEF BooksType, ApprovedType, LendingAccepted, LendingOnReport, LendingSupply, Pull
<1>2. CASE operation = "WITHDRAW"
  BY <1>2 DEF BooksType, ApprovedType, LendingAccepted, LendingOnReport, LendingWithdraw, Pull
<1>3. CASE operation = "BORROW"
  BY <1>3 DEF BooksType, ApprovedType, LendingAccepted, LendingOnReport, LendingBorrow, Pull,
              Forwarded
<1>4. CASE operation = "REPAY"
  BY <1>4 DEF BooksType, ApprovedType, LendingAccepted, LendingOnReport, LendingRepay, Pull
<1> QED
  BY <1>1, <1>2, <1>3, <1>4 DEF Operations

-----------------------------------------------------------------------------
(* The steps.                                                              *)

\* Renewing an approval touches neither the debt nor a report.
LEMMA ApproveKeeps ==
  ASSUME LendingInv, NEW kind \in {"token", "aToken", "credit"}, NEW amount \in 0 .. MaxLending,
         ApproveReceiver(kind, amount)
  PROVE  LendingInv'
BY DEF LendingInv, BooksType, ApprovedType, SlotsType, RestType, RepaymentFits,
       InFlightRepayments, ApproveReceiver, LendingOp, books

\* Interest makes the debt larger: a repayment that fits still does.
LEMMA AccrueKeeps == LendingInv /\ Accrue => LendingInv'
BY DEF LendingInv, BooksType, ApprovedType, SlotsType, RestType, RepaymentFits,
       InFlightRepayments, Accrue, LendingOp, LendingReports, NoReport

\* A repayment that need not fit makes the executions careless.
LEMMA DoLendingKeeps ==
  ASSUME LendingInv, NEW s \in LendingSlots, NEW operation \in Operations,
         NEW amount \in 0 .. MaxLending, DoLending(s, operation, amount)
  PROVE  LendingInv'
<1>1. BooksType' /\ ApprovedType'
  BY DEF LendingInv, BooksType, ApprovedType, DoLending, books
<1>2. SlotsType'
  BY DEF LendingInv, SlotsType, DoLending, LendingReports
<1>3. RestType'
  BY DEF LendingInv, RestType, DoLending, LendingOp
<1>4. ASSUME ~careless'
      PROVE  RepaymentFits' /\ stuck' = 0
  <2>1. ~(careless \/ (operation = "REPAY" /\ (amount > debt \/ InFlightRepayments # {})))
    BY <1>4, Zenon DEF DoLending
  <2>2. stuck' = 0 /\ debt' = debt /\ RepaymentFits
    BY <2>1 DEF LendingInv, DoLending, books
  <2>3. \A t \in InFlightRepayments' :
          \/ t = s /\ operation = "REPAY" /\ lending'[t].amount = amount
          \/ t # s /\ t \in InFlightRepayments /\ lending'[t] = lending[t]
    BY DEF InFlightRepayments, DoLending, LendingInv, SlotsType
  <2>4. operation = "REPAY" => amount <= debt /\ InFlightRepayments = {}
    BY <2>1 DEF LendingInv, BooksType
  <2> QED
    BY <2>2, <2>3, <2>4 DEF RepaymentFits
<1> QED
  BY <1>1, <1>2, <1>3, <1>4 DEF LendingInv

\* The report that lands finds the debt it was asked for with, or a larger one.
LEMMA ExecuteKeeps ==
  ASSUME LendingInv, NEW s \in LendingSlots, ExecuteLending(s)
  PROVE  LendingInv'
<1> DEFINE report == lending[s]
<1>1. /\ report \in LendingReports /\ report.status = "pending"
      /\ report.operation \in Operations /\ report.amount \in 0 .. MaxLending
  BY SlotReports DEF LendingInv, ExecuteLending
<1>2. RestType' /\ careless' = careless
  BY DEF LendingInv, RestType, ExecuteLending
<1>3. CASE LendingAccepted(report.operation, report.amount)
  <2>1. /\ LendingOnReport(report.operation, report.amount)
        /\ lending' = [lending EXCEPT ![s].status = "executed"]
    BY <1>3 DEF ExecuteLending
  <2>2. /\ BooksType' /\ ApprovedType'
        /\ report.operation # "REPAY" => debt' >= debt /\ stuck' = stuck
        /\ report.amount <= debt => stuck' = stuck
    BY <1>1, <1>3, <2>1, OnReportBooks DEF LendingInv
  <2>3. SlotsType'
    BY <1>1, <2>1 DEF LendingInv, SlotsType, LendingReports
  <2>4. \A t \in InFlightRepayments' :
          t # s /\ t \in InFlightRepayments /\ lending'[t] = lending[t]
    BY <2>1 DEF InFlightRepayments, LendingInv, SlotsType
  <2>5. ASSUME ~careless
        PROVE  RepaymentFits' /\ stuck' = 0
    <3>1. RepaymentFits /\ stuck = 0
      BY <2>5 DEF LendingInv
    <3>2. CASE report.operation = "REPAY"
      <4>1. s \in InFlightRepayments
        BY <1>1, <3>2 DEF InFlightRepayments
      <4>2. report.amount <= debt /\ InFlightRepayments' = {}
        BY <2>4, <3>1, <4>1 DEF RepaymentFits
      <4> QED
        BY <2>2, <3>1, <4>2 DEF RepaymentFits
    <3>3. CASE report.operation # "REPAY"
      <4>1. \A t \in InFlightRepayments : lending[t].amount \in Nat
        BY SlotReports DEF LendingInv, InFlightRepayments
      <4> QED
        BY <2>2, <2>4, <3>1, <3>3, <4>1 DEF RepaymentFits, LendingInv, BooksType
    <3> QED
      BY <3>2, <3>3
  <2> QED
    BY <1>2, <2>2, <2>3, <2>5 DEF LendingInv
<1>4. CASE ~LendingAccepted(report.operation, report.amount)
  <2> DEFINE reverted == [report EXCEPT !.status = "reverted"]
  <2>1. lending' = [lending EXCEPT ![s] = reverted] /\ UNCHANGED <<books, approved>>
    BY <1>4 DEF ExecuteLending
  <2>2. reverted \in LendingReports /\ reverted.status = "reverted"
    BY <1>1 DEF LendingReports
  <2>3. SlotsType' /\ BooksType' /\ ApprovedType'
    BY <2>1, <2>2 DEF LendingInv, SlotsType, BooksType, ApprovedType, books
  <2>4. ASSUME ~careless
        PROVE  RepaymentFits' /\ stuck' = 0
    <3>1. RepaymentFits /\ stuck = 0 /\ debt' = debt /\ stuck' = stuck
      BY <2>1, <2>4 DEF LendingInv, books
    <3> HIDE DEF reverted
    <3> QED
      BY <2>1, <2>2, <3>1, SettlingKeepsFit DEF LendingInv, BooksType
  <2> QED
    BY <1>2, <2>3, <2>4 DEF LendingInv
<1> QED
  BY <1>3, <1>4

\* A report that is lost, or whose execution returns, is under way no longer.
LEMMA SettleKeeps ==
  ASSUME LendingInv, NEW s \in LendingSlots, LoseLending(s) \/ LendingResponse(s)
  PROVE  LendingInv'
<1>1. PICK report \in LendingReports \union {NoReport} :
        report.status # "pending" /\ lending' = [lending EXCEPT ![s] = report]
  <2>1. CASE LoseLending(s)
    <3> DEFINE failed == [lending[s] EXCEPT !.status = "failed"]
    <3>1. lending[s] \in LendingReports
      BY <2>1, SlotReports DEF LoseLending, LendingInv
    <3>2. failed \in LendingReports /\ failed.status = "failed"
      BY <3>1 DEF LendingReports
    <3>3. lending' = [lending EXCEPT ![s] = failed]
      BY <2>1 DEF LoseLending
    <3> QED
      BY <3>2, <3>3, Zenon
  <2>2. CASE LendingResponse(s)
    BY <2>2 DEF LendingResponse, NoReport
  <2> QED
    BY <2>1, <2>2
<1>2. UNCHANGED <<books, approved, careless, lendingOps>>
  BY DEF LoseLending, LendingResponse
<1>3. BooksType' /\ ApprovedType' /\ RestType' /\ SlotsType'
  BY <1>1, <1>2 DEF LendingInv, BooksType, ApprovedType, RestType, SlotsType, books
<1>4. ~careless => RepaymentFits' /\ stuck' = 0
  BY <1>1, <1>2, SettlingKeepsFit DEF LendingInv, BooksType, books
<1> QED
  BY <1>2, <1>3, <1>4 DEF LendingInv

-----------------------------------------------------------------------------
(* The theorems.                                                           *)

LEMMA LendingNextInv == LendingInv /\ [LendingNext]_lendingVars => LendingInv'
<1> SUFFICES ASSUME LendingInv, [LendingNext]_lendingVars
             PROVE  LendingInv'
  OBVIOUS
<1>1. CASE \E kind \in {"token", "aToken", "credit"}, amount \in 0 .. MaxLending :
             ApproveReceiver(kind, amount)
  BY <1>1, ApproveKeeps
<1>2. CASE Accrue
  BY <1>2, AccrueKeeps
<1>3. CASE \E s \in LendingSlots, operation \in Operations, amount \in 0 .. MaxLending :
             DoLending(s, operation, amount)
  BY <1>3, DoLendingKeeps
<1>4. CASE \E s \in LendingSlots : ExecuteLending(s)
  BY <1>4, ExecuteKeeps
<1>5. CASE \E s \in LendingSlots : LoseLending(s) \/ LendingResponse(s)
  BY <1>5, SettleKeeps
<1>6. CASE UNCHANGED lendingVars
  BY <1>6 DEF lendingVars, LendingInv, BooksType, ApprovedType, SlotsType, RestType,
              RepaymentFits, InFlightRepayments
<1> QED
  BY <1>1, <1>2, <1>3, <1>4, <1>5, <1>6 DEF LendingNext

LEMMA LendingInvariant == LendingSpec => []LendingInv
<1> QED
  BY LendingInitInv, LendingNextInv, PTL DEF LendingSpec

\* The variables of the lending workflow keep their types, however many
\* executions overlap: no step takes more tokens than there are.
THEOREM LendingTypesHold == LendingSpec => []LendingTypeOK
<1>1. LendingInv => LendingTypeOK
  BY LendingTypeParts DEF LendingInv
<1> QED
  BY <1>1, LendingInvariant, PTL

\* AaveReceiver keeps no tokens as long as each repayment was within the debt
\* when it was asked for and no two repayments were under way together.
THEOREM ReceiverKeepsNothing == LendingSpec => []NothingStaysBehind
<1>1. LendingInv => NothingStaysBehind
  BY DEF LendingInv, NothingStaysBehind
<1> QED
  BY <1>1, LendingInvariant, PTL

-----------------------------------------------------------------------------
(* The templates side by side.  A behaviour of the whole is one of every   *)
(* module: the modules that are not running stutter in an initial state.   *)

templateVars == <<template, readerVars, messageVars, reserveVars, bindingVars, kvVars,
                  triggerVars, lendingVars>>

LEMMA TemplatesKeepTheirSpecs ==
  TemplateSpec => /\ ReaderSpec /\ MessageSpec /\ ReserveSpec /\ BindingSpec
                  /\ KvSpec /\ TriggerSpec /\ LendingSpec
<1>1. TemplateInit => /\ ReaderInit /\ MessageInit /\ ReserveInit /\ BindingInit
                      /\ KvInit /\ TriggerInit /\ LendingInit
  BY DEF TemplateInit
<1>2. [TemplateNext]_templateVars => [ReaderNext]_readerVars
  BY DEF TemplateNext, templateVars
<1>3. [TemplateNext]_templateVars => [MessageNext]_messageVars
  BY DEF TemplateNext, templateVars
<1>4. [TemplateNext]_templateVars => [ReserveNext]_reserveVars
  BY DEF TemplateNext, templateVars
<1>5. [TemplateNext]_templateVars => [BindingNext]_bindingVars
  BY DEF TemplateNext, templateVars
<1>6. [TemplateNext]_templateVars => [KvNext]_kvVars
  BY DEF TemplateNext, templateVars
<1>7. [TemplateNext]_templateVars => [TriggerNext]_triggerVars
  BY DEF TemplateNext, templateVars
<1>8. [TemplateNext]_templateVars => [LendingNext]_lendingVars
  BY DEF TemplateNext, templateVars
<1> QED
  BY <1>1, <1>2, <1>3, <1>4, <1>5, <1>6, <1>7, <1>8, PTL DEF TemplateSpec, templateVars,
     ReaderSpec, MessageSpec, ReserveSpec, BindingSpec, KvSpec, TriggerSpec, LendingSpec

\* The state of every template stays within its types, whichever of them is
\* running: above all the counter, the books of the lending pool and the answers
\* of the feeds stay what their executions can account for.
THEOREM TemplateTypesHold == TemplateSpec => []TemplateTypeOK
<1>1. MessageInv => MessageTypeOK
  BY DEF MessageInv
<1>2. SupplyInv => ReserveTypeOK
  BY DEF SupplyInv
<1>3. TriggerInv => TriggerTypeOK
  BY DEF TriggerInv
<1>4. ReaderTypeOK /\ MessageTypeOK /\ ReserveTypeOK /\ BindingTypeOK /\ KvTypeOK /\ TriggerTypeOK
        /\ LendingTypeOK => TemplateTypeOK
  BY DEF TemplateTypeOK
<1> QED
  BY <1>1, <1>2, <1>3, <1>4, TemplatesKeepTheirSpecs, ReaderTypesHold, MessageInvariant,
     SupplyInvariant, BindingInvariant, BindingTypes, SeriesInvariant, SeriesTypes,
     TriggerInvariant, LendingTypesHold, PTL

=============================================================================
