---------------------------- MODULE LibraryProofs ----------------------------
(***************************************************************************)
(* Facts about operators of the library that the proofs keep needing.      *)
(*                                                                         *)
(* SumFunctionOnSet adds up money over a set of symbols, trades or orders, *)
(* in an order of its own: its result is an integer, any element may be    *)
(* taken out first, and only the values count.  FlattenSeq joins the       *)
(* sequences of a sequence.  Max and Min are attained.                     *)
(*                                                                         *)
(* Induction is stated of a set of naturals, so that it can be cited       *)
(* without an operator for the induction hypothesis.                       *)
(***************************************************************************)
EXTENDS Integers, FiniteSets, FiniteSetsExt, SequencesExt,
        FiniteSetTheorems, SequenceTheorems, WellFoundedInduction, TLAPS

\* Induction on the naturals: a set with 0 and with every successor of a member.
LEMMA SetInduction ==
  ASSUME NEW Q, 0 \in Q, \A n \in Nat : n \in Q => n + 1 \in Q
  PROVE  Nat \subseteq Q
<1> SUFFICES ASSUME NEW T \in SUBSET Nat, T = Nat \ Q, T # {}
             PROVE  FALSE
  OBVIOUS
<1>1. PICK n \in T : \A m \in T : ~(<<m, n>> \in OpToRel(<, Nat))
  BY NatLessThanWellFounded, WFMin, Zenon
<1>2. \A m \in T : ~(m < n)
  BY <1>1 DEF OpToRel
<1>3. n # 0 /\ n - 1 \in Nat /\ n - 1 < n
  OBVIOUS
<1>4. n - 1 \in Q
  BY <1>2, <1>3
<1> QED
  BY <1>3, <1>4

\* A finite set of naturals has a greatest element.
LEMMA GreatestExists ==
  \A S : S \subseteq Nat /\ S # {} /\ IsFiniteSet(S) => \E x \in S : \A y \in S : x >= y
<1> DEFINE Q == {n \in Nat : \A S : S \subseteq Nat /\ S # {} /\ IsFiniteSet(S) /\ Cardinality(S) = n
                               => \E x \in S : \A y \in S : x >= y}
<1>1. 0 \in Q
  BY FS_EmptySet
<1>2. ASSUME NEW n \in Nat, n \in Q PROVE n + 1 \in Q
  <2> SUFFICES ASSUME NEW S, S \subseteq Nat, S # {}, IsFiniteSet(S), Cardinality(S) = n + 1
               PROVE  \E x \in S : \A y \in S : x >= y
    OBVIOUS
  <2>1. PICK p \in S : TRUE
    OBVIOUS
  <2>2. PICK T : T = S \ {p}
    OBVIOUS
  <2>3. IsFiniteSet(T) /\ Cardinality(T) = n
    BY <2>1, <2>2, FS_RemoveElement
  <2>4. CASE T = {}
    <3>1. \A y \in S : p >= y
      BY <2>2, <2>4
    <3> QED
      BY <3>1
  <2>5. CASE T # {}
    <3>1. T \subseteq Nat
      BY <2>2
    <3>2. PICK x \in T : \A y \in T : x >= y
      BY <1>2, <2>3, <2>5, <3>1
    <3>3. CASE x >= p
      BY <2>2, <3>2, <3>3
    <3>4. CASE ~(x >= p)
      <4>1. \A y \in S : p >= y
        BY <2>2, <3>1, <3>2, <3>4
      <4> QED
        BY <4>1
    <3> QED
      BY <3>3, <3>4
  <2> QED
    BY <2>4, <2>5
<1> HIDE DEF Q
<1>3. Nat \subseteq Q
  BY <1>1, <1>2, SetInduction
<1> SUFFICES ASSUME NEW S, S \subseteq Nat, S # {}, IsFiniteSet(S)
             PROVE  \E x \in S : \A y \in S : x >= y
  OBVIOUS
<1>4. Cardinality(S) \in Nat
  BY FS_CardinalityType
<1> QED
  BY <1>3, <1>4 DEF Q

Chosen(S) == CHOOSE x \in S : TRUE

LEMMA ChosenIsMember == \A S : S # {} => Chosen(S) \in S
  BY DEF Chosen

\* What the fold behind the sum computes from the sums of smaller sets.
Unfold(f, g, T) == IF T = {} THEN 0 ELSE f[Chosen(T)] + g[T \ {Chosen(T)}]

IsTable(g, f, S) == \A T \in SUBSET S : g[T] = Unfold(f, g, T)

\* Taking the chosen element out makes a set smaller by one.
LEMMA SmallerByOne ==
  ASSUME NEW T, IsFiniteSet(T), T # {}
  PROVE  /\ IsFiniteSet(T \ {Chosen(T)})
         /\ Cardinality(T) \in Nat
         /\ Cardinality(T \ {Chosen(T)}) \in Nat
         /\ Cardinality(T \ {Chosen(T)}) = Cardinality(T) - 1
  BY ChosenIsMember, FS_RemoveElement, FS_CardinalityType

\* There is a table of the sums of all subsets.
LEMMA TableExists ==
  ASSUME NEW S, IsFiniteSet(S), NEW f, \A x \in S : f[x] \in Int
  PROVE  \E g \in [SUBSET S -> Int] : IsTable(g, f, S)
<1> DEFINE Q == {n \in Nat : \E g \in [SUBSET S -> Int] :
                    \A T \in SUBSET S : Cardinality(T) <= n => g[T] = Unfold(f, g, T)}
<1>1. \A T \in SUBSET S : IsFiniteSet(T) /\ Cardinality(T) \in Nat
  BY FS_Subset, FS_CardinalityType
<1>2. 0 \in Q
  <2> DEFINE g == [T \in SUBSET S |-> 0]
  <2>1. g \in [SUBSET S -> Int]
    OBVIOUS
  <2>2. ASSUME NEW T \in SUBSET S, Cardinality(T) <= 0 PROVE g[T] = Unfold(f, g, T)
    <3>1. T = {}
      BY <1>1, <2>2, FS_EmptySet
    <3> QED
      BY <3>1 DEF Unfold
  <2> QED
    BY <2>1, <2>2
<1>3. ASSUME NEW n \in Nat, n \in Q PROVE n + 1 \in Q
  <2>1. PICK g \in [SUBSET S -> Int] :
          \A T \in SUBSET S : Cardinality(T) <= n => g[T] = Unfold(f, g, T)
    BY <1>3
  <2> DEFINE h == [T \in SUBSET S |-> Unfold(f, g, T)]
  <2>2. \A T \in SUBSET S : T # {} => T \ {Chosen(T)} \in SUBSET S /\ Chosen(T) \in S
    BY ChosenIsMember
  <2>3. h \in [SUBSET S -> Int]
    <3> SUFFICES ASSUME NEW T \in SUBSET S PROVE Unfold(f, g, T) \in Int
      OBVIOUS
    <3>1. CASE T = {}
      BY <3>1 DEF Unfold
    <3>2. CASE T # {}
      <4>1. f[Chosen(T)] \in Int /\ g[T \ {Chosen(T)}] \in Int
        BY <2>1, <2>2, <3>2
      <4> QED
        BY <3>2, <4>1 DEF Unfold
    <3> QED
      BY <3>1, <3>2
  <2>4. ASSUME NEW T \in SUBSET S, Cardinality(T) <= n + 1 PROVE h[T] = Unfold(f, h, T)
    <3>1. CASE T = {}
      BY <3>1 DEF Unfold
    <3>2. CASE T # {}
      <4> DEFINE U == T \ {Chosen(T)}
      <4>1. U \in SUBSET S /\ Cardinality(U) <= n
        BY <1>1, <2>2, <2>4, <3>2, SmallerByOne
      <4>2. h[U] = g[U]
        BY <2>1, <4>1
      <4> QED
        BY <3>2, <4>1, <4>2 DEF Unfold
    <3> QED
      BY <3>1, <3>2
  <2> HIDE DEF h
  <2> QED
    BY <2>3, <2>4
<1> HIDE DEF Q
<1>4. Cardinality(S) \in Q
  BY <1>1, <1>2, <1>3, SetInduction
<1>5. \A T \in SUBSET S : Cardinality(T) <= Cardinality(S)
  BY FS_Subset
<1> QED
  BY <1>4, <1>5 DEF Q, IsTable

\* Any two tables agree, also if one knows fewer sets.
LEMMA TableUnique ==
  ASSUME NEW S, IsFiniteSet(S), NEW f, NEW g, NEW h, IsTable(g, f, S), IsTable(h, f, S)
  PROVE  \A T \in SUBSET S : g[T] = h[T]
<1> DEFINE Q == {n \in Nat : \A T \in SUBSET S : Cardinality(T) = n => g[T] = h[T]}
<1>1. \A T \in SUBSET S : IsFiniteSet(T) /\ Cardinality(T) \in Nat
  BY FS_Subset, FS_CardinalityType
<1>2. 0 \in Q
  BY <1>1, FS_EmptySet DEF Unfold, IsTable
<1>3. ASSUME NEW n \in Nat, n \in Q PROVE n + 1 \in Q
  <2> SUFFICES ASSUME NEW T \in SUBSET S, Cardinality(T) = n + 1 PROVE g[T] = h[T]
    OBVIOUS
  <2>1. T # {}
    BY FS_EmptySet
  <2> DEFINE U == T \ {Chosen(T)}
  <2>2. U \in SUBSET S /\ Cardinality(U) = n
    BY <1>1, <2>1, SmallerByOne
  <2>3. g[U] = h[U]
    BY <1>3, <2>2
  <2> QED
    BY <2>1, <2>3 DEF Unfold, IsTable
<1> HIDE DEF Q
<1>4. Nat \subseteq Q
  BY <1>2, <1>3, SetInduction
<1> QED
  BY <1>1, <1>4 DEF Q

\* The sum is the entry of a table of its own.
LEMMA SumHasTable ==
  ASSUME NEW S, IsFiniteSet(S), NEW f, \A x \in S : f[x] \in Int
  PROVE  \E g : IsTable(g, f, S) /\ SumFunctionOnSet(f, S) = g[S]
<1>1. PICK table \in [SUBSET S -> Int] : IsTable(table, f, S)
  BY TableExists
<1> DEFINE Rule(s, k) == IF s = {} THEN 0
                         ELSE f[CHOOSE x \in s : TRUE] + k[s \ {CHOOSE x \in s : TRUE}]
           iter == CHOOSE k : k = [s \in SUBSET S |-> Rule(s, k)]
<1>2. SumFunctionOnSet(f, S) = iter[S]
  BY DEF SumFunctionOnSet, FoldFunctionOnSet, MapThenFoldSet
<1>3. \A j, T : Rule(T, j) = Unfold(f, j, T)
  BY DEF Unfold, Chosen
<1>4. table = [s \in SUBSET S |-> Rule(s, table)]
  BY <1>1, <1>3 DEF IsTable
<1>5. iter = [s \in SUBSET S |-> Rule(s, iter)]
  <2> HIDE DEF Rule
  <2> QED
    BY <1>4
<1>6. IsTable(iter, f, S)
  <2> HIDE DEF iter
  <2> QED
    BY <1>3, <1>5 DEF IsTable
<1> HIDE DEF iter
<1> QED
  BY <1>2, <1>6

\* So it is the entry of any table.
LEMMA SumIsEntry ==
  ASSUME NEW S, IsFiniteSet(S), NEW f, \A x \in S : f[x] \in Int
  PROVE  \A g : IsTable(g, f, S) => SumFunctionOnSet(f, S) = g[S]
<1>1. PICK h : IsTable(h, f, S) /\ SumFunctionOnSet(f, S) = h[S]
  BY SumHasTable
<1> SUFFICES ASSUME NEW g, IsTable(g, f, S)
             PROVE  SumFunctionOnSet(f, S) = g[S]
  OBVIOUS
<1>2. \A T \in SUBSET S : h[T] = g[T]
  BY <1>1, TableUnique
<1> QED
  BY <1>1, <1>2

-----------------------------------------------------------------------------
\* The sum of nothing is 0.
LEMMA SumEmpty == \A f : SumFunctionOnSet(f, {}) = 0
<1> TAKE f
<1>1. IsFiniteSet({})
  BY FS_EmptySet
<1>2. PICK g \in [SUBSET {} -> Int] : IsTable(g, f, {})
  BY <1>1, TableExists
<1>3. SumFunctionOnSet(f, {}) = g[{}]
  BY <1>1, <1>2, SumIsEntry
<1>4. g[{}] = 0
  BY <1>2 DEF Unfold, IsTable
<1> QED
  BY <1>3, <1>4

\* One table holds the sums of all subsets.
LEMMA SumTable ==
  ASSUME NEW S, IsFiniteSet(S), NEW f, \A x \in S : f[x] \in Int
  PROVE  \A T \in SUBSET S :
           /\ SumFunctionOnSet(f, T) \in Int
           /\ T # {} => SumFunctionOnSet(f, T)
                          = f[Chosen(T)] + SumFunctionOnSet(f, T \ {Chosen(T)})
<1>1. PICK g \in [SUBSET S -> Int] : IsTable(g, f, S)
  BY TableExists
<1>2. ASSUME NEW T \in SUBSET S PROVE SumFunctionOnSet(f, T) = g[T]
  <2>1. IsFiniteSet(T) /\ \A x \in T : f[x] \in Int
    BY FS_Subset
  <2>2. IsTable(g, f, T)
    BY <1>1 DEF IsTable
  <2> QED
    BY <2>1, <2>2, SumIsEntry
<1> SUFFICES ASSUME NEW T \in SUBSET S
             PROVE  /\ SumFunctionOnSet(f, T) \in Int
                    /\ T # {} => SumFunctionOnSet(f, T)
                                   = f[Chosen(T)] + SumFunctionOnSet(f, T \ {Chosen(T)})
  OBVIOUS
<1>3. T \ {Chosen(T)} \in SUBSET S
  OBVIOUS
<1> QED
  BY <1>1, <1>2, <1>3 DEF Unfold, IsTable

\* The sum of integers is an integer.
LEMMA SumType ==
  ASSUME NEW S, IsFiniteSet(S), NEW f, \A x \in S : f[x] \in Int
  PROVE  SumFunctionOnSet(f, S) \in Int
  BY SumTable

\* Any element can be taken out of a sum.
LEMMA SumRemove ==
  ASSUME NEW S, IsFiniteSet(S), NEW f, \A x \in S : f[x] \in Int
  PROVE  \A T \in SUBSET S : \A x \in T :
           SumFunctionOnSet(f, T) = f[x] + SumFunctionOnSet(f, T \ {x})
<1>0. \A T \in SUBSET S : T # {} =>
        SumFunctionOnSet(f, T) = f[Chosen(T)] + SumFunctionOnSet(f, T \ {Chosen(T)})
  BY SumTable
<1>a. \A T \in SUBSET S : SumFunctionOnSet(f, T) \in Int
  BY SumTable
<1> DEFINE Q == {n \in Nat : \A T \in SUBSET S : Cardinality(T) = n =>
                    \A x \in T : SumFunctionOnSet(f, T) = f[x] + SumFunctionOnSet(f, T \ {x})}
<1>1. \A T \in SUBSET S : IsFiniteSet(T) /\ Cardinality(T) \in Nat
  BY FS_Subset, FS_CardinalityType
<1>2. 0 \in Q
  BY <1>1, FS_EmptySet
<1>3. ASSUME NEW n \in Nat, n \in Q PROVE n + 1 \in Q
  <2> SUFFICES ASSUME NEW T \in SUBSET S, Cardinality(T) = n + 1, NEW x \in T
               PROVE  SumFunctionOnSet(f, T) = f[x] + SumFunctionOnSet(f, T \ {x})
    OBVIOUS
  <2> DEFINE p == Chosen(T)
             U == T \ {p}
             V == T \ {x}
  <2>1. p \in T /\ U \in SUBSET S /\ V \in SUBSET S
    BY ChosenIsMember
  <2>2. Cardinality(U) = n /\ Cardinality(V) = n
    <3>1. \A y \in T : Cardinality(T \ {y}) = Cardinality(T) - 1
      BY <1>1, FS_RemoveElement
    <3> QED
      BY <2>1, <3>1
  <2>3. SumFunctionOnSet(f, T) = f[p] + SumFunctionOnSet(f, U)
    <3>1. T # {}
      OBVIOUS
    <3> QED
      BY <3>1, <1>0
  <2>4. CASE p = x
    BY <2>3, <2>4
  <2>5. CASE p # x
    <3>1. x \in U /\ p \in V /\ U \ {x} = V \ {p} /\ U \ {x} \in SUBSET S
      BY <2>1, <2>5
    <3>2. SumFunctionOnSet(f, U) = f[x] + SumFunctionOnSet(f, U \ {x})
      BY <1>3, <2>1, <2>2, <3>1
    <3>3. SumFunctionOnSet(f, V) = f[p] + SumFunctionOnSet(f, V \ {p})
      BY <1>3, <2>1, <2>2, <3>1
    <3>4. f[p] \in Int /\ f[x] \in Int
      BY <2>1
    <3>5. SumFunctionOnSet(f, U \ {x}) \in Int
      BY <3>1, <1>a
    <3>6. SumFunctionOnSet(f, V) = f[p] + SumFunctionOnSet(f, U \ {x})
      BY <3>1, <3>3
    <3> HIDE DEF p, U
    <3> QED
      BY <2>3, <3>2, <3>4, <3>5, <3>6
  <2> QED
    BY <2>4, <2>5
<1> HIDE DEF Q
<1>4. Nat \subseteq Q
  BY <1>2, <1>3, SetInduction
<1> QED
  BY <1>1, <1>4 DEF Q

\* Only the values of the elements count.
LEMMA SumAgree ==
  ASSUME NEW S, IsFiniteSet(S), NEW f, NEW g, \A x \in S : f[x] \in Int /\ g[x] = f[x]
  PROVE  SumFunctionOnSet(g, S) = SumFunctionOnSet(f, S)
<1>1. PICK h \in [SUBSET S -> Int] : IsTable(h, f, S)
  BY TableExists
<1>2. ASSUME NEW T \in SUBSET S PROVE Unfold(g, h, T) = Unfold(f, h, T)
  BY ChosenIsMember DEF Unfold
<1>3. IsTable(h, g, S)
  BY <1>1, <1>2 DEF IsTable
<1>4. \A x \in S : g[x] \in Int
  OBVIOUS
<1> QED
  BY <1>1, <1>3, <1>4, SumIsEntry

\* A sum changes by what one of its elements changes by.
LEMMA SumChange ==
  ASSUME NEW S, IsFiniteSet(S), NEW f, NEW g, NEW x \in S,
         \A y \in S : f[y] \in Int, \A y \in S : g[y] \in Int,
         \A y \in S : y # x => g[y] = f[y]
  PROVE  /\ SumFunctionOnSet(f, S) \in Int
         /\ SumFunctionOnSet(g, S) = SumFunctionOnSet(f, S) - f[x] + g[x]
<1>1. PICK R : R = S \ {x}
  OBVIOUS
<1>2. IsFiniteSet(R) /\ R \in SUBSET S
  BY <1>1, FS_Subset
<1>3. SumFunctionOnSet(f, S) = f[x] + SumFunctionOnSet(f, R)
  BY <1>1, SumRemove
<1>4. SumFunctionOnSet(g, S) = g[x] + SumFunctionOnSet(g, R)
  BY <1>1, SumRemove
<1>5. SumFunctionOnSet(g, R) = SumFunctionOnSet(f, R)
  BY <1>1, <1>2, SumAgree
<1>6. SumFunctionOnSet(f, R) \in Int
  BY <1>2, SumType
<1>7. f[x] \in Int /\ g[x] \in Int
  OBVIOUS
<1> QED
  BY <1>3, <1>4, <1>5, <1>6, <1>7

\* The sum over a sequence grows by what is appended.
LEMMA SumAppend ==
  ASSUME NEW n \in Nat, NEW f, NEW g,
         \A i \in 1 .. n : f[i] \in Int /\ g[i] = f[i], g[n + 1] \in Int
  PROVE  /\ SumFunctionOnSet(f, 1 .. n) \in Int
         /\ SumFunctionOnSet(g, 1 .. n + 1) = SumFunctionOnSet(f, 1 .. n) + g[n + 1]
<1>1. PICK S : S = 1 .. n + 1
  OBVIOUS
<1>2. /\ 1 .. n = S \ {n + 1} /\ n + 1 \in S /\ 1 .. n \in SUBSET S
      /\ \A i \in S : g[i] \in Int
  BY <1>1
<1>3. IsFiniteSet(S) /\ IsFiniteSet(1 .. n)
  BY <1>1, FS_Interval
<1>4. SumFunctionOnSet(g, S) = g[n + 1] + SumFunctionOnSet(g, 1 .. n)
  BY <1>2, <1>3, SumRemove
<1>5. SumFunctionOnSet(g, 1 .. n) = SumFunctionOnSet(f, 1 .. n)
  BY <1>3, SumAgree
<1>6. SumFunctionOnSet(f, 1 .. n) \in Int
  BY <1>3, SumType
<1> QED
  BY <1>1, <1>4, <1>5, <1>6

\* A sum of zeros is 0.
LEMMA SumZero ==
  ASSUME NEW S, IsFiniteSet(S), NEW f, \A x \in S : f[x] = 0
  PROVE  SumFunctionOnSet(f, S) = 0
<1> DEFINE g == [T \in SUBSET S |-> 0]
<1>1. IsTable(g, f, S)
  <2> SUFFICES ASSUME NEW T \in SUBSET S PROVE g[T] = Unfold(f, g, T)
    BY DEF IsTable
  <2>1. T # {} => Chosen(T) \in S
    BY ChosenIsMember
  <2> QED
    BY <2>1 DEF Unfold
<1>2. g[S] = 0 /\ \A x \in S : f[x] \in Int
  OBVIOUS
<1> HIDE DEF g
<1> QED
  BY <1>1, <1>2, SumIsEntry

-----------------------------------------------------------------------------
(***************************************************************************)
(* The least and the greatest of a set                                     *)
(***************************************************************************)
LEMMA MinIsLeast ==
  ASSUME NEW T \in SUBSET Nat, T # {}
  PROVE  /\ Min(T) \in T
         /\ \A y \in T : Min(T) <= y
<1>1. PICK n \in T : \A m \in T : ~(<<m, n>> \in OpToRel(<, Nat))
  BY NatLessThanWellFounded, WFMin, Zenon
<1>2. \A m \in T : ~(m < n)
  BY <1>1 DEF OpToRel
<1>3. \E x \in T : \A m \in T : x <= m
  BY <1>2
<1> QED
  BY <1>3 DEF Min

LEMMA MaxIsGreatest ==
  ASSUME NEW T \in SUBSET Nat, T # {}, IsFiniteSet(T)
  PROVE  /\ Max(T) \in T
         /\ \A y \in T : Max(T) >= y
  BY GreatestExists DEF Max

LEMMA MaxOfTwo == \A a, b \in Int : Max({a, b}) = IF a >= b THEN a ELSE b
<1> SUFFICES ASSUME NEW a \in Int, NEW b \in Int
             PROVE  Max({a, b}) = IF a >= b THEN a ELSE b
  OBVIOUS
<1> DEFINE m == IF a >= b THEN a ELSE b
<1>1. m \in {a, b} /\ \A y \in {a, b} : m >= y
  OBVIOUS
<1>2. \A x : x \in {a, b} /\ (\A y \in {a, b} : x >= y) => x = m
  OBVIOUS
<1> HIDE DEF m
<1>3. Max({a, b}) = m
  BY <1>1, <1>2 DEF Max
<1> QED
  BY <1>3 DEF m

LEMMA MinOfTwo == \A a, b \in Int : Min({a, b}) = IF a <= b THEN a ELSE b
<1> SUFFICES ASSUME NEW a \in Int, NEW b \in Int
             PROVE  Min({a, b}) = IF a <= b THEN a ELSE b
  OBVIOUS
<1> DEFINE m == IF a <= b THEN a ELSE b
<1>1. m \in {a, b} /\ \A y \in {a, b} : m <= y
  OBVIOUS
<1>2. \A x : x \in {a, b} /\ (\A y \in {a, b} : x <= y) => x = m
  OBVIOUS
<1> HIDE DEF m
<1>3. Min({a, b}) = m
  BY <1>1, <1>2 DEF Min
<1> QED
  BY <1>3 DEF m

LEMMA MinOfThree == \A a, b, c \in Int : Min({a, b, c}) \in Int
<1> SUFFICES ASSUME NEW a \in Int, NEW b \in Int, NEW c \in Int PROVE Min({a, b, c}) \in Int
  OBVIOUS
<1>1. \E m \in {a, b, c} : \A y \in {a, b, c} : m <= y
  OBVIOUS
<1> QED
  BY <1>1 DEF Min

LEMMA ProductType == \A a, b \in Int : a * b \in Int
  OBVIOUS

LEMMA MaxIs ==
  ASSUME NEW T \in SUBSET Int, NEW m \in T, \A y \in T : m >= y
  PROVE  Max(T) = m
<1>1. \A x \in T : (\A y \in T : x >= y) => x = m
  OBVIOUS
<1> QED
  BY <1>1 DEF Max

-----------------------------------------------------------------------------
(***************************************************************************)
(* FlattenSeq appends what the last sequence brings                        *)
(***************************************************************************)
\* An entry of the table by which FlattenSeq joins the sequences of t, and the first n.
Joint(f, t, i) == IF i = 1 THEN t[i] ELSE f[i - 1] \o t[i]

IsJoined(f, t, n) == \A i \in 1 .. n : f[i] = Joint(f, t, i)

LEMMA JointNext ==
  ASSUME NEW f, NEW t, NEW n \in Nat, n # 0
  PROVE  Joint(f, t, n + 1) = f[n] \o t[n + 1]
<1>1. PICK k : k = n + 1
  OBVIOUS
<1>2. k # 1 /\ k - 1 = n
  BY <1>1
<1>3. Joint(f, t, k) = f[n] \o t[k]
  BY <1>2, Zenon DEF Joint
<1> QED
  BY <1>1, <1>3

LEMMA JointType ==
  ASSUME NEW S, NEW t \in Seq(Seq(S)), NEW n \in Nat, n + 1 <= Len(t),
         NEW f \in [1 .. n -> Seq(S)]
  PROVE  Joint(f, t, n + 1) \in Seq(S)
<1>1. t[n + 1] \in Seq(S)
  BY ElementOfSeq, LenProperties
<1>2. CASE n = 0
  BY <1>1, <1>2 DEF Joint
<1>3. CASE n # 0
  <2>1. f[n] \in Seq(S) /\ n + 1 # 1 /\ n + 1 - 1 = n
    BY <1>3
  <2>2. f[n] \o t[n + 1] \in Seq(S)
    BY <1>1, <2>1, ConcatProperties
  <2>3. Joint(f, t, n + 1) = f[n] \o t[n + 1]
    BY <1>3, JointNext
  <2> QED
    BY <2>2, <2>3
<1> QED
  BY <1>2, <1>3

LEMMA JoinedExists ==
  ASSUME NEW S, NEW t \in Seq(Seq(S))
  PROVE  \A n \in Nat : n <= Len(t) => \E f \in [1 .. n -> Seq(S)] : IsJoined(f, t, n)
<1> DEFINE Q == {n \in Nat : n <= Len(t) => \E f \in [1 .. n -> Seq(S)] : IsJoined(f, t, n)}
<1>1. 0 \in Q
  <2>1. [i \in 1 .. 0 |-> <<>>] \in [1 .. 0 -> Seq(S)] /\ IsJoined([i \in 1 .. 0 |-> <<>>], t, 0)
    BY DEF IsJoined
  <2> QED
    BY <2>1
<1>2. ASSUME NEW n \in Nat, n \in Q
      PROVE  n + 1 \in Q
  <2> SUFFICES ASSUME n + 1 <= Len(t)
               PROVE  \E f \in [1 .. n + 1 -> Seq(S)] : IsJoined(f, t, n + 1)
    OBVIOUS
  <2>1. Len(t) \in Nat
    BY LenProperties
  <2>2. PICK f \in [1 .. n -> Seq(S)] : IsJoined(f, t, n)
    BY <1>2, <2>1
  <2>3. PICK last \in Seq(S) : last = Joint(f, t, n + 1)
    BY <2>2, JointType
  <2>4. PICK g : g = [i \in 1 .. n + 1 |-> IF i = n + 1 THEN last ELSE f[i]]
    OBVIOUS
  <2>5. g \in [1 .. n + 1 -> Seq(S)]
    BY <2>4
  <2>6. ASSUME NEW i \in 1 .. n + 1
        PROVE  g[i] = Joint(g, t, i)
    <3>1. Joint(g, t, i) = Joint(f, t, i)
      <4>1. CASE i = 1
        BY <4>1, Zenon DEF Joint
      <4>2. CASE i # 1
        <5>1. g[i - 1] = f[i - 1]
          BY <4>2, <2>4
        <5> QED
          BY <5>1, <4>2, Zenon DEF Joint
      <4> QED
        BY <4>1, <4>2
    <3>2. g[i] = IF i = n + 1 THEN last ELSE f[i]
      BY <2>4
    <3>3. i # n + 1 => f[i] = Joint(f, t, i)
      BY <2>2 DEF IsJoined
    <3> QED
      BY <2>3, <3>1, <3>2, <3>3
  <2> QED
    BY <2>5, <2>6 DEF IsJoined
<1> HIDE DEF Q
<1>3. Nat \subseteq Q
  BY <1>1, <1>2, SetInduction
<1> QED
  BY <1>3 DEF Q

Alike(f, g, n) == \A i \in 1 .. n : f[i] = g[i]

\* Tables over sequences that begin alike begin alike.
LEMMA JoinedAgree ==
  \A t, u, f, g : \A n \in Nat :
    IsJoined(f, t, n) /\ IsJoined(g, u, n) /\ Alike(t, u, n) => Alike(f, g, n)
<1> SUFFICES ASSUME NEW t, NEW u, NEW f, NEW g, NEW n \in Nat,
                    IsJoined(f, t, n), IsJoined(g, u, n), \A i \in 1 .. n : t[i] = u[i]
             PROVE  \A i \in 1 .. n : f[i] = g[i]
  BY DEF Alike
<1> DEFINE Q == {i \in Nat : i \in 1 .. n => f[i] = g[i]}
<1>1. 0 \in Q
  OBVIOUS
<1>2. ASSUME NEW i \in Nat, i \in Q
      PROVE  i + 1 \in Q
  <2> SUFFICES ASSUME i + 1 \in 1 .. n PROVE f[i + 1] = g[i + 1]
    OBVIOUS
  <2>1. f[i + 1] = Joint(f, t, i + 1) /\ g[i + 1] = Joint(g, u, i + 1)
    BY DEF IsJoined
  <2>2. t[i + 1] = u[i + 1]
    OBVIOUS
  <2>3. Joint(f, t, i + 1) = Joint(g, u, i + 1)
    <3>1. CASE i = 0
      BY <2>2, <3>1 DEF Joint
    <3>2. CASE i # 0
      <4>1. f[i] = g[i]
        BY <1>2, <3>2
      <4>2. /\ Joint(f, t, i + 1) = f[i] \o t[i + 1]
            /\ Joint(g, u, i + 1) = g[i] \o u[i + 1]
        BY <3>2, JointNext
      <4> QED
        BY <2>2, <4>1, <4>2
    <3> QED
      BY <3>1, <3>2
  <2> QED
    BY <2>1, <2>3
<1> HIDE DEF Q
<1>3. Nat \subseteq Q
  BY <1>1, <1>2, SetInduction
<1> QED
  BY <1>3 DEF Q

\* What FlattenSeq returns is the last entry of a table.
LEMMA FlattenIsEntry ==
  ASSUME NEW S, NEW t \in Seq(Seq(S)), Len(t) # 0
  PROVE  \E f \in [1 .. Len(t) -> Seq(S)] : IsJoined(f, t, Len(t)) /\ FlattenSeq(t) = f[Len(t)]
<1>1. Len(t) \in Nat
  BY LenProperties
<1>2. PICK f \in [1 .. Len(t) -> Seq(S)] : IsJoined(f, t, Len(t))
  BY <1>1, JoinedExists
<1> DEFINE g == CHOOSE h : h = [i \in 1 .. Len(t) |-> Joint(h, t, i)]
<1>3. f = [i \in 1 .. Len(t) |-> Joint(f, t, i)]
  BY <1>2 DEF IsJoined
<1>4. g = [i \in 1 .. Len(t) |-> Joint(g, t, i)]
  BY <1>3, Zenon
<1>5. FlattenSeq(t) = g[Len(t)]
  BY Zenon DEF FlattenSeq, Joint
<1> HIDE DEF g
<1>6. IsJoined(g, t, Len(t))
  BY <1>4 DEF IsJoined
<1>7. \A i \in 1 .. Len(t) : g[i] = f[i]
  BY <1>1, <1>2, <1>6, JoinedAgree DEF Alike
<1>8. Len(t) \in 1 .. Len(t)
  BY <1>1
<1>9. FlattenSeq(t) = f[Len(t)]
  BY <1>5, <1>7, <1>8, Zenon
<1> QED
  BY <1>2, <1>9, Zenon

LEMMA FlattenGrows ==
  ASSUME NEW S, NEW n \in Nat, NEW t \in Seq(Seq(S)), NEW u \in Seq(Seq(S)),
         Len(t) = n + 1, Len(u) = n, Alike(t, u, n)
  PROVE  /\ FlattenSeq(u) \in Seq(S)
         /\ FlattenSeq(t) = FlattenSeq(u) \o t[n + 1]
<1>1. \E f : IsJoined(f, t, n + 1) /\ FlattenSeq(t) = f[n + 1]
  <2>1. Len(t) # 0
    OBVIOUS
  <2>2. \E f \in [1 .. Len(t) -> Seq(S)] : IsJoined(f, t, Len(t)) /\ FlattenSeq(t) = f[Len(t)]
    BY <2>1, FlattenIsEntry, Zenon
  <2> QED
    BY <2>2, Zenon
<1>2. PICK f : IsJoined(f, t, n + 1) /\ FlattenSeq(t) = f[n + 1]
  BY <1>1
<1>3. f[n + 1] = Joint(f, t, n + 1)
  BY <1>2 DEF IsJoined
<1>4. t[n + 1] \in Seq(S)
  BY ElementOfSeq
<1>5. CASE n = 0
  <2>1. u = <<>>
    BY <1>5, EmptySeq
  <2>2. FlattenSeq(u) = <<>>
    BY <1>5, <2>1, Zenon DEF FlattenSeq
  <2>3. Joint(f, t, n + 1) = t[n + 1]
    BY <1>5 DEF Joint
  <2>4. <<>> \in Seq(S) /\ <<>> \o t[n + 1] = t[n + 1]
    BY <1>4, EmptySeq, ConcatEmptySeq
  <2> QED
    BY <1>2, <1>3, <2>2, <2>3, <2>4, Zenon
<1>6. CASE n # 0
  <2>1. Len(u) # 0
    BY <1>6
  <2>2. PICK g \in [1 .. Len(u) -> Seq(S)] : IsJoined(g, u, Len(u)) /\ FlattenSeq(u) = g[Len(u)]
    BY <2>1, FlattenIsEntry, Zenon
  <2>3. Alike(f, g, n)
    <3>1. IsJoined(g, u, n)
      BY <2>2
    <3>2. IsJoined(f, t, n)
      BY <1>2 DEF IsJoined
    <3> QED
      BY <3>1, <3>2, JoinedAgree
  <2>4. n \in 1 .. n /\ n + 1 - 1 = n /\ n + 1 # 1
    BY <1>6
  <2>5. f[n] = FlattenSeq(u) /\ FlattenSeq(u) \in Seq(S)
    <3>1. g[n] \in Seq(S)
      BY <2>2, <2>4
    <3> QED
      BY <2>2, <2>3, <2>4, <3>1 DEF Alike
  <2>6. Joint(f, t, n + 1) = f[n] \o t[n + 1]
    BY <1>6, JointNext
  <2> QED
    BY <1>2, <1>3, <2>5, <2>6, Zenon
<1> QED
  BY <1>5, <1>6

=============================================================================
