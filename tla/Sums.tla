-------------------------------- MODULE Sums --------------------------------
(***************************************************************************)
(* What the proofs need to know of sums of functions over finite sets, as  *)
(* SumFunction and SumFunctionOnSet define them: a sum takes its indices   *)
(* one after the other in the order CHOOSE gives, as a recursive function  *)
(* on their subsets, its table.                                            *)
(*                                                                         *)
(* Induction is first-order here.  A family of subsets of a finite set has *)
(* a smallest member; what could be wrong of some subset is wrong of a     *)
(* smallest one, and of none of those below it.                            *)
(***************************************************************************)
EXTENDS FiniteSetTheorems, TLAPS

\* A nonempty family of subsets of a finite set has a smallest member.
LEMMA SmallestSubset ==
  ASSUME NEW S, IsFiniteSet(S), NEW F \in SUBSET (SUBSET S), F # {}
  PROVE  \E T \in F : \A U \in F : U \subseteq T => U = T
<1>1. F \subseteq FiniteSubsetsOf(S)
  BY FS_FiniteSubsetsOfFinite
<1>2. \E T \in F : \A U \in F : ~(<<U, T>> \in StrictSubsetOrdering(S))
  BY <1>1, FS_StrictSubsetOrderingWellFounded, WFMin
<1> QED
  BY <1>2 DEF StrictSubsetOrdering

\* A nonempty set of natural numbers has a least one.
LEMMA LeastNumber ==
  ASSUME NEW F \in SUBSET Nat, F # {}
  PROVE  \E n \in F : \A m \in F : n <= m
<1>1. PICK k \in F : TRUE
  OBVIOUS
<1> DEFINE Below == {s \in SUBSET (1 .. k) : \E n \in F : n <= k /\ s = 1 .. n}
<1>2. IsFiniteSet(1 .. k)
  BY <1>1, FS_Interval
<1>3. Below \in SUBSET (SUBSET (1 .. k)) /\ 1 .. k \in Below
  BY <1>1
<1>4. PICK T \in Below : \A U \in Below : U \subseteq T => U = T
  <2> DEFINE Numbers == 1 .. k
  <2> HIDE DEF Below, Numbers
  <2>1. IsFiniteSet(Numbers) /\ Below \in SUBSET (SUBSET Numbers) /\ Below # {}
    BY <1>2, <1>3 DEF Numbers
  <2> QED
    BY <2>1, SmallestSubset
<1>5. PICK n \in F : n <= k /\ T = 1 .. n
  BY <1>4
<1>6. ASSUME NEW m \in F, m < n
      PROVE  FALSE
  <2>1. 1 .. m \in Below /\ 1 .. m \subseteq T
    BY <1>1, <1>5, <1>6
  <2>2. n \in 1 .. n /\ n \notin 1 .. m
    BY <1>5, <1>6
  <2> QED
    BY <1>4, <1>5, <2>1, <2>2
<1> QED
  BY <1>5, <1>6

-----------------------------------------------------------------------------
(* The table of a sum.                                                     *)

First(s) == CHOOSE x \in s : TRUE

Entry(g, f, s) == IF s = {} THEN 0 ELSE f[First(s)] + g[s \ {First(s)}]

IsTable(g, f, S) == g = [s \in SUBSET S |-> Entry(g, f, s)]

Table(f, S) == CHOOSE g : IsTable(g, f, S)

LEMMA SumIsInTable ==
  ASSUME NEW S, NEW f
  PROVE  SumFunctionOnSet(f, S) = Table(f, S)[S]
BY DEF SumFunctionOnSet, FoldFunctionOnSet, MapThenFoldSet, Table, IsTable, Entry, First

LEMMA FirstIsMember == ASSUME NEW s, s # {} PROVE First(s) \in s
BY DEF First

\* The function's values on S are integers.
Summable(f, S) == IsFiniteSet(S) /\ \A x \in S : f[x] \in Int

LEMMA TableExists ==
  ASSUME NEW S, NEW f, Summable(f, S)
  PROVE  \E g \in [SUBSET S -> Int] : IsTable(g, f, S)
<1> DEFINE Upto(n, g) == \A s \in SUBSET S : Cardinality(s) <= n => g[s] = Entry(g, f, s)
           Missing == {n \in Nat : ~\E g \in [SUBSET S -> Int] : Upto(n, g)}
<1>1. \A s \in SUBSET S : IsFiniteSet(s) /\ Cardinality(s) \in Nat
                          /\ Cardinality(s) <= Cardinality(S)
  BY FS_Subset, FS_CardinalityType DEF Summable
<1>2. Cardinality(S) \in Nat
  BY FS_CardinalityType DEF Summable
<1>3. ASSUME NEW n \in Missing, \A m \in Missing : n <= m
      PROVE  FALSE
  <2>1. CASE n = 0
    <3> DEFINE zero == [s \in SUBSET S |-> 0]
    <3>1. zero \in [SUBSET S -> Int]
      OBVIOUS
    <3>2. ASSUME NEW s \in SUBSET S, Cardinality(s) <= 0
          PROVE  zero[s] = Entry(zero, f, s)
      BY <1>1, <3>2, FS_EmptySet DEF Entry
    <3> QED
      BY <2>1, <3>1, <3>2
  <2>2. CASE n # 0
    <3>1. n - 1 \in Nat /\ n - 1 \notin Missing
      <4>1. n \in Nat
        OBVIOUS
      <4> HIDE DEF Missing
      <4> QED
        BY <1>3, <2>2, <4>1
    <3>2. PICK g \in [SUBSET S -> Int] : Upto(n - 1, g)
      BY <3>1
    <3> DEFINE h == [s \in SUBSET S |-> IF Cardinality(s) = n THEN Entry(g, f, s) ELSE g[s]]
    <3>3. ASSUME NEW s \in SUBSET S, s # {}
          PROVE  /\ First(s) \in S /\ s \ {First(s)} \in SUBSET S
                 /\ Cardinality(s \ {First(s)}) = Cardinality(s) - 1
      BY <1>1, <3>3, FirstIsMember, FS_RemoveElement
    <3>4. ASSUME NEW s \in SUBSET S
          PROVE  Entry(g, f, s) \in Int
      <4>1. CASE s = {}
        BY <4>1 DEF Entry
      <4>2. CASE s # {}
        <5>1. f[First(s)] \in Int /\ g[s \ {First(s)}] \in Int
          BY <3>3, <4>2 DEF Summable
        <5> QED
          BY <4>2, <5>1 DEF Entry
      <4> QED
        BY <4>1, <4>2
    <3>5. h \in [SUBSET S -> Int]
      BY <3>4
    <3>6. ASSUME NEW s \in SUBSET S, Cardinality(s) <= n
          PROVE  Entry(h, f, s) = Entry(g, f, s)
      BY <1>1, <3>3, <3>6 DEF Entry
    <3>7. ASSUME NEW s \in SUBSET S, Cardinality(s) <= n
          PROVE  h[s] = Entry(g, f, s)
      BY <1>1, <3>2, <3>7
    <3> QED
      BY <3>5, <3>6, <3>7
  <2> QED
    BY <2>1, <2>2
<1>4. Missing = {}
  <2> HIDE DEF Missing
  <2>1. Missing \in SUBSET Nat
    BY DEF Missing
  <2> QED
    BY <1>3, <2>1, LeastNumber
<1>5. PICK g \in [SUBSET S -> Int] : Upto(Cardinality(S), g)
  BY <1>2, <1>4
<1>6. \A s \in SUBSET S : g[s] = Entry(g, f, s)
  BY <1>1, <1>5
<1> QED
  BY <1>6 DEF IsTable

LEMMA TableEntry ==
  ASSUME NEW S, NEW f, Summable(f, S), NEW s \in SUBSET S
  PROVE  Table(f, S)[s] = Entry(Table(f, S), f, s)
<1>1. IsTable(Table(f, S), f, S)
  BY TableExists DEF Table
<1> QED
  BY <1>1 DEF IsTable

\* Tables of the same values agree.
LEMMA TablesAgree ==
  ASSUME NEW S, NEW T \in SUBSET S, NEW f, NEW h, Summable(f, S), Summable(h, T),
         \A x \in T : f[x] = h[x]
  PROVE  \A s \in SUBSET T : Table(f, S)[s] = Table(h, T)[s]
<1> DEFINE Differ == {s \in SUBSET T : Table(f, S)[s] # Table(h, T)[s]}
<1>1. ASSUME NEW s \in Differ, \A u \in Differ : u \subseteq s => u = s
      PROVE  FALSE
  <2>1. Table(f, S)[s] = Entry(Table(f, S), f, s)
    BY TableEntry
  <2>2. Table(h, T)[s] = Entry(Table(h, T), h, s)
    BY TableEntry
  <2>3. CASE s = {}
    BY <2>1, <2>2, <2>3 DEF Entry
  <2>4. CASE s # {}
    <3>1. First(s) \in s
      BY <2>4, FirstIsMember
    <3>2. s \ {First(s)} \in SUBSET T /\ s \ {First(s)} # s /\ s \ {First(s)} \subseteq s
      BY <3>1
    <3>3. Table(f, S)[s \ {First(s)}] = Table(h, T)[s \ {First(s)}]
      BY <1>1, <3>2
    <3> QED
      BY <2>1, <2>2, <2>4, <3>1, <3>3 DEF Entry
  <2> QED
    BY <2>3, <2>4
<1>2. Differ = {}
  <2> HIDE DEF Differ
  <2>1. Differ \in SUBSET (SUBSET T)
    BY DEF Differ
  <2> QED
    BY <1>1, <2>1, SmallestSubset DEF Summable
<1> QED
  BY <1>2

\* In particular at the set itself.
LEMMA TableAgrees ==
  ASSUME NEW S, NEW T, NEW f, NEW h, T \in SUBSET S, Summable(f, S), Summable(h, T),
         \A x \in T : f[x] = h[x]
  PROVE  Table(f, S)[T] = Table(h, T)[T]
<1>1. T \in SUBSET T
  OBVIOUS
<1> QED
  BY <1>1, TablesAgree

\* The entries of a table are integers.
LEMMA TableType ==
  ASSUME NEW S, NEW f, Summable(f, S)
  PROVE  \A s \in SUBSET S : Table(f, S)[s] \in Int
<1>1. PICK g \in [SUBSET S -> Int] : IsTable(g, f, S)
  BY TableExists
<1>2. IsTable(Table(f, S), f, S)
  BY <1>1 DEF Table
<1> DEFINE Wrong == {s \in SUBSET S : Table(f, S)[s] \notin Int}
<1>3. ASSUME NEW s \in Wrong, \A u \in Wrong : u \subseteq s => u = s
      PROVE  FALSE
  <2>1. Table(f, S)[s] = Entry(Table(f, S), f, s)
    BY TableEntry
  <2>2. CASE s = {}
    BY <2>1, <2>2 DEF Entry
  <2>3. CASE s # {}
    <3>1. First(s) \in s
      BY <2>3, FirstIsMember
    <3>2. s \ {First(s)} \in SUBSET S /\ s \ {First(s)} # s /\ s \ {First(s)} \subseteq s
      BY <3>1
    <3>3. Table(f, S)[s \ {First(s)}] \in Int
      BY <1>3, <3>2
    <3>4. f[First(s)] \in Int
      BY <3>1 DEF Summable
    <3> QED
      BY <2>1, <2>3, <3>3, <3>4 DEF Entry
  <2> QED
    BY <2>2, <2>3
<1>4. Wrong = {}
  <2> HIDE DEF Wrong
  <2>1. Wrong \in SUBSET (SUBSET S)
    BY DEF Wrong
  <2> QED
    BY <1>3, <2>1, SmallestSubset DEF Summable
<1> QED
  BY <1>4

\* The order does not matter: any element may come first.
LEMMA AnyFirst ==
  ASSUME NEW S, NEW f, Summable(f, S)
  PROVE  \A s \in SUBSET S : \A x \in s : Table(f, S)[s] = f[x] + Table(f, S)[s \ {x}]
<1> DEFINE g == Table(f, S)
           Wrong == {s \in SUBSET S : \E x \in s : g[s] # f[x] + g[s \ {x}]}
<1>1. \A s \in SUBSET S : g[s] = Entry(g, f, s) /\ g[s] \in Int
  BY TableEntry, TableType
<1>2. ASSUME NEW s \in Wrong, \A u \in Wrong : u \subseteq s => u = s
      PROVE  FALSE
  <2>1. PICK x \in s : g[s] # f[x] + g[s \ {x}]
    OBVIOUS
  <2> DEFINE y == First(s)
  <2>2. y \in s
    BY <2>1, FirstIsMember
  <2>3. g[s] = f[y] + g[s \ {y}]
    BY <1>1, <2>2 DEF Entry
  <2>4. x # y
    BY <2>1, <2>3
  <2>5. /\ s \ {x} \in SUBSET S /\ s \ {x} \notin Wrong
        /\ s \ {y} \in SUBSET S /\ s \ {y} \notin Wrong
    BY <1>2, <2>1, <2>2
  <2>6. g[s \ {y}] = f[x] + g[(s \ {y}) \ {x}]
    BY <2>1, <2>4, <2>5
  <2>7. g[s \ {x}] = f[y] + g[(s \ {x}) \ {y}]
    BY <2>2, <2>4, <2>5
  <2>8. (s \ {x}) \ {y} = (s \ {y}) \ {x} /\ (s \ {x}) \ {y} \in SUBSET S
    OBVIOUS
  <2>9. f[x] \in Int /\ f[y] \in Int /\ g[(s \ {x}) \ {y}] \in Int
    BY <1>1, <2>1, <2>2, <2>8 DEF Summable
  <2>10. g[s] = f[x] + g[s \ {x}]
    <3> HIDE DEF g, y
    <3>1. g[s \ {y}] = f[x] + g[(s \ {x}) \ {y}]
      BY <2>6, <2>8
    <3> QED
      BY <2>3, <2>7, <2>9, <3>1
  <2> QED
    BY <2>1, <2>10
<1>3. Wrong = {}
  <2> HIDE DEF Wrong
  <2>1. Wrong \in SUBSET (SUBSET S)
    BY DEF Wrong
  <2> QED
    BY <1>2, <2>1, SmallestSubset DEF Summable
<1> QED
  BY <1>3

-----------------------------------------------------------------------------
(* Sums.                                                                   *)

LEMMA SumOfNone == ASSUME NEW f PROVE SumFunctionOnSet(f, {}) = 0
<1>1. Summable(f, {})
  BY FS_EmptySet DEF Summable
<1> QED
  BY <1>1, SumIsInTable, TableEntry DEF Entry

LEMMA SumIsInt ==
  ASSUME NEW S, NEW f, Summable(f, S)
  PROVE  SumFunctionOnSet(f, S) \in Int
BY SumIsInTable, TableType

LEMMA SummablePart ==
  ASSUME NEW S, NEW T \in SUBSET S, NEW f, Summable(f, S)
  PROVE  Summable(f, T)
BY FS_Subset DEF Summable

\* The table of a set holds the tables of its subsets.
LEMMA TableOfPart ==
  ASSUME NEW S, NEW T \in SUBSET S, NEW f, Summable(f, S)
  PROVE  Table(f, S)[T] = Table(f, T)[T]
<1>1. Summable(f, T) /\ T \in SUBSET T
  BY SummablePart
<1>2. ASSUME NEW h, h = f
      PROVE  Table(f, S)[T] = Table(h, T)[T]
  <2>1. Summable(h, T) /\ \A x \in T : f[x] = h[x]
    BY <1>1, <1>2
  <2>2. T \in SUBSET S /\ Summable(f, S) /\ Summable(h, T)
    BY <2>1
  <2> QED
    BY <2>1, <2>2, TableAgrees, Z3
<1> QED
  BY <1>2

\* Any element may be taken out of a sum.
LEMMA SumTakesOut ==
  ASSUME NEW S, NEW f, Summable(f, S), NEW x \in S
  PROVE  SumFunctionOnSet(f, S) = f[x] + SumFunctionOnSet(f, S \ {x})
<1> DEFINE T == S \ {x}
<1>1. T \in SUBSET S /\ S \in SUBSET S /\ Summable(f, T)
  BY SummablePart
<1>2. Table(f, S)[S] = f[x] + Table(f, S)[T]
  BY <1>1, AnyFirst
<1>3. Table(f, S)[T] = Table(f, T)[T]
  BY <1>1, TableOfPart
<1> QED
  BY <1>2, <1>3, SumIsInTable

\* Functions that agree on a set have the same sum over it.
LEMMA SumOfSame ==
  ASSUME NEW S, NEW f, NEW h, Summable(f, S), \A x \in S : f[x] = h[x]
  PROVE  SumFunctionOnSet(f, S) = SumFunctionOnSet(h, S)
<1>1. Summable(h, S) /\ S \in SUBSET S
  BY DEF Summable
<1>2. \A s \in SUBSET S : Table(f, S)[s] = Table(h, S)[s]
  BY <1>1, TablesAgree
<1> QED
  BY <1>1, <1>2, SumIsInTable

\* Where two functions differ at one index only, their sums differ by as much.
LEMMA SumChanges ==
  ASSUME NEW S, NEW f, NEW h, Summable(f, S), Summable(h, S), NEW x \in S,
         \A y \in S \ {x} : f[y] = h[y]
  PROVE  /\ SumFunctionOnSet(h, S) = SumFunctionOnSet(f, S) + (h[x] - f[x])
         /\ SumFunctionOnSet(f, S) \in Int /\ SumFunctionOnSet(h, S) \in Int
<1> DEFINE T == S \ {x}
<1>1. Summable(f, T) /\ f[x] \in Int /\ h[x] \in Int
  BY SummablePart DEF Summable
<1>2. SumFunctionOnSet(f, T) = SumFunctionOnSet(h, T) /\ SumFunctionOnSet(f, T) \in Int
  BY <1>1, SumOfSame, SumIsInt
<1>3. /\ SumFunctionOnSet(f, S) = f[x] + SumFunctionOnSet(f, T)
      /\ SumFunctionOnSet(h, S) = h[x] + SumFunctionOnSet(h, T)
  BY SumTakesOut
<1> QED
  BY <1>1, <1>2, <1>3

\* Where they differ at two, by the sum of the differences.
LEMMA SumChangesTwice ==
  ASSUME NEW S, NEW f, NEW h, Summable(f, S), Summable(h, S), NEW x \in S, NEW z \in S, x # z,
         \A y \in S \ {x, z} : f[y] = h[y]
  PROVE  /\ SumFunctionOnSet(h, S)
              = SumFunctionOnSet(f, S) + ((h[x] - f[x]) + (h[z] - f[z]))
         /\ SumFunctionOnSet(f, S) \in Int /\ SumFunctionOnSet(h, S) \in Int
<1> DEFINE T == S \ {x}
<1>1. T \in SUBSET S /\ z \in T
  OBVIOUS
<1>2. /\ Summable(f, T) /\ Summable(h, T)
      /\ f[x] \in Int /\ h[x] \in Int /\ f[z] \in Int /\ h[z] \in Int
  BY <1>1, SummablePart DEF Summable
<1>3. \A y \in T \ {z} : f[y] = h[y]
  OBVIOUS
<1>4. /\ SumFunctionOnSet(h, T) = SumFunctionOnSet(f, T) + (h[z] - f[z])
      /\ SumFunctionOnSet(f, T) \in Int /\ SumFunctionOnSet(h, T) \in Int
  <2> HIDE DEF T
  <2> QED
    BY <1>1, <1>2, <1>3, SumChanges
<1>5. /\ SumFunctionOnSet(f, S) = f[x] + SumFunctionOnSet(f, T)
      /\ SumFunctionOnSet(h, S) = h[x] + SumFunctionOnSet(h, T)
  BY SumTakesOut
<1> QED
  BY <1>2, <1>4, <1>5

\* A sum of natural numbers is one, and at least as large as each of them.
LEMMA SumOfNats ==
  ASSUME NEW S, NEW f, IsFiniteSet(S), \A x \in S : f[x] \in Nat
  PROVE  /\ SumFunctionOnSet(f, S) \in Nat
         /\ \A x \in S : f[x] <= SumFunctionOnSet(f, S)
<1>1. Summable(f, S)
  BY DEF Summable
<1> DEFINE Wrong == {T \in SUBSET S : SumFunctionOnSet(f, T) \notin Nat}
<1>2. ASSUME NEW T \in Wrong, \A U \in Wrong : U \subseteq T => U = T
      PROVE  FALSE
  <2>1. T \in SUBSET S /\ SumFunctionOnSet(f, T) \notin Nat /\ T # {}
    BY SumOfNone
  <2>2. PICK x \in T : TRUE
    BY <2>1
  <2>3. SumFunctionOnSet(f, T) = f[x] + SumFunctionOnSet(f, T \ {x})
    BY <1>1, <2>1, SummablePart, SumTakesOut
  <2>4. SumFunctionOnSet(f, T \ {x}) \in Nat
    <3>1. T \ {x} \in SUBSET S /\ T \ {x} \subseteq T /\ T \ {x} # T
      BY <2>1
    <3> QED
      BY <1>2, <3>1
  <2>5. f[x] \in Nat
    BY <2>1
  <2> QED
    BY <2>1, <2>3, <2>4, <2>5
<1>3. Wrong = {}
  <2> HIDE DEF Wrong
  <2>1. Wrong \in SUBSET (SUBSET S)
    BY DEF Wrong
  <2> QED
    BY <1>2, <2>1, SmallestSubset
<1>4. \A T \in SUBSET S : SumFunctionOnSet(f, T) \in Nat
  BY <1>3
<1>5. ASSUME NEW x \in S
      PROVE  f[x] <= SumFunctionOnSet(f, S)
  <2>1. SumFunctionOnSet(f, S) = f[x] + SumFunctionOnSet(f, S \ {x})
    BY <1>1, SumTakesOut
  <2>2. f[x] \in Nat /\ SumFunctionOnSet(f, S \ {x}) \in Nat
    BY <1>4
  <2> QED
    BY <2>1, <2>2
<1> QED
  BY <1>4, <1>5

LEMMA SumOfZeros ==
  ASSUME NEW S, NEW f, IsFiniteSet(S), \A x \in S : f[x] = 0
  PROVE  SumFunctionOnSet(f, S) = 0
<1>1. Summable(f, S)
  BY DEF Summable
<1> DEFINE Wrong == {T \in SUBSET S : SumFunctionOnSet(f, T) # 0}
<1>2. ASSUME NEW T \in Wrong, \A U \in Wrong : U \subseteq T => U = T
      PROVE  FALSE
  <2>1. T \in SUBSET S /\ SumFunctionOnSet(f, T) # 0 /\ T # {}
    BY SumOfNone
  <2>2. PICK x \in T : TRUE
    BY <2>1
  <2>3. SumFunctionOnSet(f, T) = f[x] + SumFunctionOnSet(f, T \ {x})
    BY <1>1, <2>1, SummablePart, SumTakesOut
  <2>4. T \ {x} \in SUBSET S /\ T \ {x} \subseteq T /\ T \ {x} # T
    BY <2>1
  <2>5. SumFunctionOnSet(f, T \ {x}) = 0
    BY <1>2, <2>4
  <2>6. f[x] = 0
    BY <2>1
  <2> QED
    BY <2>1, <2>3, <2>5, <2>6
<1>3. Wrong = {}
  <2> HIDE DEF Wrong
  <2>1. Wrong \in SUBSET (SUBSET S)
    BY DEF Wrong
  <2> QED
    BY <1>2, <2>1, SmallestSubset
<1> QED
  BY <1>3

\* A sum of positive numbers is at least their count.
LEMMA SumOfPositives ==
  ASSUME NEW S, NEW f, IsFiniteSet(S), \A x \in S : f[x] \in Nat /\ f[x] > 0
  PROVE  Cardinality(S) <= SumFunctionOnSet(f, S)
<1>1. Summable(f, S)
  BY DEF Summable
<1> DEFINE Wrong == {T \in SUBSET S : ~(Cardinality(T) <= SumFunctionOnSet(f, T))}
<1>2. ASSUME NEW T \in Wrong, \A U \in Wrong : U \subseteq T => U = T
      PROVE  FALSE
  <2>1. T \in SUBSET S /\ ~(Cardinality(T) <= SumFunctionOnSet(f, T)) /\ T # {}
    BY SumOfNone, FS_EmptySet
  <2>2. PICK x \in T : TRUE
    BY <2>1
  <2>3. Summable(f, T) /\ Summable(f, T \ {x})
    BY <1>1, <2>1, SummablePart
  <2>4. SumFunctionOnSet(f, T) = f[x] + SumFunctionOnSet(f, T \ {x})
    BY <2>2, <2>3, SumTakesOut
  <2>5. T \ {x} \in SUBSET S /\ T \ {x} \subseteq T /\ T \ {x} # T
    BY <2>1
  <2>6. Cardinality(T \ {x}) <= SumFunctionOnSet(f, T \ {x})
    BY <1>2, <2>5
  <2>7. /\ Cardinality(T \ {x}) = Cardinality(T) - 1
        /\ Cardinality(T) \in Nat
    BY <2>2, <2>3, FS_RemoveElement, FS_CardinalityType DEF Summable
  <2>8. f[x] \in Nat /\ f[x] > 0 /\ SumFunctionOnSet(f, T \ {x}) \in Int
    BY <2>1, <2>3, SumIsInt
  <2> HIDE DEF Wrong
  <2> QED
    BY <2>1, <2>4, <2>6, <2>7, <2>8
<1>3. Wrong = {}
  <2> HIDE DEF Wrong
  <2>1. Wrong \in SUBSET (SUBSET S)
    BY DEF Wrong
  <2> QED
    BY <1>2, <2>1, SmallestSubset
<1> QED
  BY <1>3

\* A sum with a single term.
LEMMA SumOfOne ==
  ASSUME NEW S, NEW f, IsFiniteSet(S), NEW x \in S, f[x] \in Int, \A y \in S \ {x} : f[y] = 0
  PROVE  SumFunctionOnSet(f, S) = f[x]
<1>1. Summable(f, S)
  BY DEF Summable
<1>2. SumFunctionOnSet(f, S) = f[x] + SumFunctionOnSet(f, S \ {x})
  BY <1>1, SumTakesOut
<1>3. IsFiniteSet(S \ {x})
  BY FS_Subset
<1>4. SumFunctionOnSet(f, S \ {x}) = 0
  BY <1>3, SumOfZeros
<1> QED
  BY <1>2, <1>4

\* The sum over a function's domain.
LEMMA SumOverDomain ==
  ASSUME NEW S, NEW T, NEW f \in [S -> T]
  PROVE  SumFunction(f) = SumFunctionOnSet(f, S)
BY DEF SumFunction

\* One entry of a function of natural numbers is replaced.
LEMMA SumOfUpdate ==
  ASSUME NEW S, IsFiniteSet(S), NEW f \in [S -> Nat], NEW x \in S, NEW v \in Nat
  PROVE  /\ SumFunction(f) \in Nat /\ f[x] <= SumFunction(f)
         /\ SumFunction([f EXCEPT ![x] = v]) = SumFunction(f) + (v - f[x])
<1> DEFINE h == [f EXCEPT ![x] = v]
<1>1. h \in [S -> Nat] /\ h[x] = v /\ \A y \in S \ {x} : f[y] = h[y]
  OBVIOUS
<1>2. (\A y \in S : f[y] \in Nat /\ h[y] \in Nat) /\ Summable(f, S) /\ Summable(h, S)
  BY <1>1 DEF Summable
<1> HIDE DEF h
<1>3. SumFunction(f) = SumFunctionOnSet(f, S) /\ SumFunction(h) = SumFunctionOnSet(h, S)
  BY <1>1, SumOverDomain
<1>4. SumFunctionOnSet(f, S) \in Nat /\ f[x] <= SumFunctionOnSet(f, S)
  BY <1>2, SumOfNats
<1>5. SumFunctionOnSet(h, S) = SumFunctionOnSet(f, S) + (h[x] - f[x])
  BY <1>1, <1>2, SumChanges
<1> QED
  BY <1>1, <1>3, <1>4, <1>5 DEF h

LEMMA SumOfZeroFunction ==
  ASSUME NEW S, IsFiniteSet(S), NEW f \in [S -> Nat], \A x \in S : f[x] = 0
  PROVE  SumFunction(f) = 0
BY SumOverDomain, SumOfZeros

=============================================================================
