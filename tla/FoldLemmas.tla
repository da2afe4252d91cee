----------------------------- MODULE FoldLemmas -----------------------------
(***************************************************************************)
(* Folds over finite sets: that the function a fold computes with exists,  *)
(* and induction over the sets it is applied to.  The folds of the         *)
(* community modules take an element away from a set until none is left;   *)
(* their operator is a parameter, so each fold of a model has a lemma of   *)
(* its own that follows from these.                                        *)
(***************************************************************************)
EXTENDS Integers, FiniteSets, FiniteSetsExt, FiniteSetTheorems, TLAPS

\* A non-empty set of natural numbers has a least element.
LEMMA LeastNumber ==
    ASSUME NEW T, T \subseteq Nat, T # {}
    PROVE  \E n \in T : \A m \in T : n <= m
<1>1. \E n \in T : \A m \in T : ~ (<<m, n>> \in OpToRel(<, Nat))
  BY NatLessThanWellFounded, WFMin, Zenon
<1>2. \A m \in Nat : \A n \in Nat : m < n => <<m, n>> \in OpToRel(<, Nat)
  BY DEF OpToRel
<1>3. \E n \in T : \A m \in T : ~ (m < n)
  <2>1. \A m \in T : m \in Nat
    OBVIOUS
  <2>2. QED
    BY <2>1, <1>1, <1>2, Zenon
<1>4. QED
  BY <1>3

\* A set of numbers that holds zero and, with a number, the next holds all.
LEMMA AllNumbers ==
    ASSUME NEW T, 0 \in T, \A n \in Nat : n \in T => n + 1 \in T
    PROVE  Nat \subseteq T
<1> SUFFICES ASSUME Nat \ T # {} PROVE FALSE
  OBVIOUS
<1>1. PICK n \in Nat \ T : \A m \in Nat \ T : n <= m
  BY LeastNumber
<1>2. n - 1 \in Nat
  BY <1>1
<1>3. n - 1 \in T
  BY <1>1, <1>2
<1> QED BY <1>1, <1>2, <1>3

(***************************************************************************)
(* A fold takes an element c[s] away from the set s until none is left.    *)
(* What holds of the empty set, and of s when it holds of s \ {c[s]},      *)
(* holds of every subset of a finite set.                                  *)
(***************************************************************************)
Picks(S, c) == \A s \in SUBSET S : s # {} => c[s] \in s

LEMMA SubsetInduction ==
    ASSUME NEW S, IsFiniteSet(S), NEW c, Picks(S, c),
           NEW P, {} \in P,
           \A s \in SUBSET S : s # {} /\ s \ {c[s]} \in P => s \in P
    PROVE  S \in P
<1> DEFINE T == {n \in Nat : \A s \in SUBSET S : Cardinality(s) = n => s \in P}
<1>1. \A s \in SUBSET S : IsFiniteSet(s) /\ Cardinality(s) \in Nat
  BY FS_Subset, FS_CardinalityType
<1>2. 0 \in T
  BY <1>1, FS_EmptySet
<1>3. ASSUME NEW n \in Nat, n \in T PROVE n + 1 \in T
  <2> SUFFICES ASSUME NEW s \in SUBSET S, Cardinality(s) = n + 1 PROVE s \in P
    OBVIOUS
  <2>1. s # {}
    BY FS_EmptySet
  <2>2. c[s] \in s
    BY <2>1 DEF Picks
  <2>3. Cardinality(s \ {c[s]}) = n
    <3>1. Cardinality(s \ {c[s]}) = Cardinality(s) - 1
      BY <1>1, <2>2, FS_RemoveElement
    <3> QED BY <3>1
  <2>4. s \ {c[s]} \in P
    BY <1>3, <2>3
  <2> QED BY <2>1, <2>4
<1>4. Cardinality(S) \in Nat
  BY <1>1
<1> HIDE DEF T
<1>5. Cardinality(S) \in T
  BY <1>2, <1>3, <1>4, AllNumbers
<1> QED BY <1>5 DEF T

\* The function a fold computes with.
FoldsWith(S, A, c, base, step, w) ==
    /\ w \in [SUBSET S -> A]
    /\ w[{}] = base
    /\ \A s \in SUBSET S : s # {} => w[s] = step[<<c[s], w[s \ {c[s]}]>>]

LEMMA FoldExists ==
    ASSUME NEW S, IsFiniteSet(S), NEW A, NEW c, Picks(S, c),
           NEW base \in A, NEW step \in [S \X A -> A]
    PROVE  \E w : FoldsWith(S, A, c, base, step, w)
<1> DEFINE UpTo(w, n) ==
      /\ w \in [SUBSET S -> A]
      /\ w[{}] = base
      /\ \A s \in SUBSET S : s # {} /\ Cardinality(s) <= n => w[s] = step[<<c[s], w[s \ {c[s]}]>>]
<1> DEFINE T == {n \in Nat : \E w : UpTo(w, n)}
<1>1. \A s \in SUBSET S : IsFiniteSet(s) /\ Cardinality(s) \in Nat
  BY FS_Subset, FS_CardinalityType
<1>2. 0 \in T
  <2> DEFINE w == [s \in SUBSET S |-> base]
  <2>1. \A s \in SUBSET S : s # {} => ~ (Cardinality(s) <= 0)
    BY <1>1, FS_EmptySet
  <2>2. UpTo(w, 0)
    BY <2>1
  <2> QED BY <2>2
<1>3. ASSUME NEW n \in Nat, n \in T PROVE n + 1 \in T
  <2>1. PICK w : UpTo(w, n)
    BY <1>3
  <2> DEFINE next == [s \in SUBSET S |-> IF Cardinality(s) = n + 1
                                          THEN step[<<c[s], w[s \ {c[s]}]>>] ELSE w[s]]
  <2>2. ASSUME NEW s \in SUBSET S, s # {}
        PROVE  /\ c[s] \in S /\ s \ {c[s]} \in SUBSET S
               /\ Cardinality(s \ {c[s]}) = Cardinality(s) - 1
    <3>1. c[s] \in s
      BY <2>2 DEF Picks
    <3> QED BY <3>1, <1>1, FS_RemoveElement
  <2>3. next \in [SUBSET S -> A]
    <3> SUFFICES ASSUME NEW s \in SUBSET S, Cardinality(s) = n + 1
                 PROVE  step[<<c[s], w[s \ {c[s]}]>>] \in A
      BY <2>1
    <3>1. s # {}
      BY FS_EmptySet
    <3> QED BY <3>1, <2>1, <2>2
  <2>4. next[{}] = base
    BY <2>1, FS_EmptySet
  <2>5. ASSUME NEW s \in SUBSET S, s # {}, Cardinality(s) <= n + 1
        PROVE  next[s] = step[<<c[s], next[s \ {c[s]}]>>]
    <3> DEFINE r == s \ {c[s]}
    <3>1. r \in SUBSET S /\ Cardinality(r) # n + 1
      BY <1>1, <2>2, <2>5
    <3>2. next[r] = w[r]
      BY <3>1
    <3>3. CASE Cardinality(s) = n + 1
      BY <3>2, <3>3
    <3>4. CASE Cardinality(s) # n + 1
      <4>1. Cardinality(s) <= n
        BY <1>1, <2>5, <3>4
      <4>2. next[s] = w[s] /\ w[s] = step[<<c[s], w[r]>>]
        BY <2>1, <2>5, <3>4, <4>1
      <4> QED BY <3>2, <4>2
    <3> QED BY <3>3, <3>4
  <2> HIDE DEF next
  <2>6. UpTo(next, n + 1)
    BY <2>3, <2>4, <2>5
  <2> HIDE DEF UpTo
  <2> QED BY <2>6
<1>4. Cardinality(S) \in Nat
  BY <1>1
<1>5. Cardinality(S) \in T
  <2> HIDE DEF T
  <2> QED BY <1>2, <1>3, <1>4, AllNumbers
<1>6. PICK w : UpTo(w, Cardinality(S))
  BY <1>5
<1>7. \A s \in SUBSET S : Cardinality(s) <= Cardinality(S)
  BY FS_Subset
<1> QED BY <1>6, <1>7 DEF FoldsWith

\* The element that FoldSet takes first.
AnElement(S) == [s \in SUBSET S |-> CHOOSE x \in s : TRUE]

LEMMA AnElementPicks == \A S : Picks(S, AnElement(S))
BY DEF Picks, AnElement

\* The greatest of a non-empty set of indices.
Greatest(S) == [s \in SUBSET S |-> Max(s)]

LEMMA GreatestPicks ==
    ASSUME NEW n \in Nat PROVE Picks(1..n, Greatest(1..n))
<1> SUFFICES ASSUME NEW s \in SUBSET (1..n), s # {} PROVE Max(s) \in s
  BY DEF Picks, Greatest
<1> DEFINE T == {n - i : i \in s}
<1>1. T \subseteq Nat /\ T # {}
  <2>1. \A i \in 1..n : n - i \in Nat
    OBVIOUS
  <2> QED BY <2>1
<1>2. PICK k \in T : \A m \in T : k <= m
  BY <1>1, LeastNumber
<1>3. PICK i \in s : k = n - i
  BY <1>2
<1>4. \A j \in s : i >= j
  <2> SUFFICES ASSUME NEW j \in s PROVE i >= j
    OBVIOUS
  <2>1. n - i <= n - j
    BY <1>2, <1>3
  <2> QED BY <2>1
<1> QED BY <1>4 DEF Max

\* A non-empty finite set of numbers has a greatest element.
LEMMA MaxIsGreatest ==
    ASSUME NEW T, T \subseteq Nat, T # {}, IsFiniteSet(T)
    PROVE  Max(T) \in T /\ \A m \in T : m <= Max(T)
<1> DEFINE P == {s \in SUBSET T : s # {} => \E n \in s : \A m \in s : m <= n}
           c == AnElement(T)
<1>1. Picks(T, c)
  BY AnElementPicks
<1>2. {} \in P
  OBVIOUS
<1>3. ASSUME NEW s \in SUBSET T, s # {}, s \ {c[s]} \in P PROVE s \in P
  <2> DEFINE x == c[s]
  <2>1. x \in s /\ s \subseteq Nat
    BY <1>1, <1>3 DEF Picks
  <2> HIDE DEF x, c
  <2>2. s \ {x} \in P
    BY <1>3 DEF x
  <2>3. CASE s \ {x} = {}
    BY <2>1, <2>3
  <2>4. CASE s \ {x} # {}
    <3>1. PICK n \in s \ {x} : \A m \in s \ {x} : m <= n
      BY <2>2, <2>4
    <3>2. \E k \in s : \A m \in s : m <= k
      <4>1. CASE x <= n
        BY <3>1, <4>1
      <4>2. CASE ~(x <= n)
        BY <2>1, <3>1, <4>2
      <4> QED BY <4>1, <4>2
    <3> QED BY <3>2
  <2> QED BY <2>3, <2>4
<1> HIDE DEF P, c
<1>4. T \in P
  BY <1>1, <1>2, <1>3, SubsetInduction
<1>5. \E n \in T : \A m \in T : n >= m
  BY <1>4 DEF P
<1> QED BY <1>5 DEF Max

\* The least element of a set of numbers is Min's choice.
LEMMA MinIsLeast ==
    ASSUME NEW T, T \subseteq Nat, T # {}
    PROVE  Min(T) \in T /\ \A m \in T : Min(T) <= m
BY LeastNumber DEF Min

\* The function that sums the numbers f gives the elements of S.
Sums(S, f, w) ==
    /\ w[{}] = 0
    /\ \A s \in SUBSET S : s # {} =>
          w[s] = f[AnElement(S)[s]] + w[s \ {AnElement(S)[s]}]

\* It exists.
LEMMA SumExists ==
    ASSUME NEW S, IsFiniteSet(S), NEW f \in [S -> Nat]
    PROVE  \E w \in [SUBSET S -> Nat] : Sums(S, f, w)
<1> DEFINE step == [x \in S \X Nat |-> f[x[1]] + x[2]]
           c == AnElement(S)
<1>1. Picks(S, c)
  BY AnElementPicks
<1>2. step \in [S \X Nat -> Nat]
  OBVIOUS
<1>3. PICK w : FoldsWith(S, Nat, c, 0, step, w)
  <2> HIDE DEF c, step
  <2> QED BY <1>1, <1>2, FoldExists
<1>4. w \in [SUBSET S -> Nat] /\ w[{}] = 0
  BY <1>3 DEF FoldsWith
<1>5. ASSUME NEW s \in SUBSET S, s # {} PROVE w[s] = f[c[s]] + w[s \ {c[s]}]
  <2>1. c[s] \in S
    BY <1>1, <1>5 DEF Picks
  <2>2. w[s \ {c[s]}] \in Nat
    BY <1>4
  <2>3. w[s] = step[<<c[s], w[s \ {c[s]}]>>]
    BY <1>3, <1>5 DEF FoldsWith
  <2> HIDE DEF c
  <2> QED BY <2>1, <2>2, <2>3
<1> QED BY <1>4, <1>5 DEF Sums

\* A sum of numbers is at most the number of elements in disjoint sets, if each
\* is at most the number of elements of one of them.
LEMMA SumAtMost ==
    ASSUME NEW S, IsFiniteSet(S), NEW f \in [S -> Nat], NEW U, IsFiniteSet(U),
           NEW cut \in [S -> SUBSET U],
           \A x, y \in S : x # y => cut[x] \cap cut[y] = {},
           \A x \in S : f[x] <= Cardinality(cut[x]),
           NEW w, Sums(S, f, w)
    PROVE  w[S] \in Nat /\ w[S] <= Cardinality(UNION {cut[x] : x \in S})
<1> DEFINE c == AnElement(S)
           P == {s \in SUBSET S : w[s] \in Nat /\ w[s] <= Cardinality(UNION {cut[x] : x \in s})}
<1>0. \A V \in SUBSET U : IsFiniteSet(V) /\ Cardinality(V) \in Nat
  BY FS_Subset, FS_CardinalityType
<1>1. Picks(S, c)
  BY AnElementPicks
<1>2. {} \in P
  BY <1>0 DEF Sums
<1>3. ASSUME NEW s \in SUBSET S, s # {}, s \ {c[s]} \in P PROVE s \in P
  <2> DEFINE x == c[s]
             V == UNION {cut[y] : y \in s \ {x}}
  <2>1. x \in s /\ w[s] = f[x] + w[s \ {x}]
    BY <1>1, <1>3 DEF Picks, Sums
  <2>2. w[s \ {x}] \in Nat /\ w[s \ {x}] <= Cardinality(V)
    BY <1>3
  <2> HIDE DEF x, c
  <2>3. x \in S /\ f[x] \in Nat /\ f[x] <= Cardinality(cut[x]) /\ cut[x] \in SUBSET U
    BY <2>1
  <2>4. V \in SUBSET U /\ V \cap cut[x] = {}
    BY <2>1
  <2>5. UNION {cut[y] : y \in s} = V \cup cut[x]
    BY <2>1
  <2> HIDE DEF V
  <2>6. Cardinality(V \cup cut[x]) = Cardinality(V) + Cardinality(cut[x])
    <3>1. IsFiniteSet(V) /\ IsFiniteSet(cut[x]) /\ Cardinality(V) \in Nat /\ Cardinality(cut[x]) \in Nat
      BY <1>0, <2>3, <2>4
    <3>2. Cardinality(V \cup cut[x]) = Cardinality(V) + Cardinality(cut[x]) - Cardinality(V \cap cut[x])
      BY <3>1, FS_Union
    <3>3. Cardinality(V \cap cut[x]) = 0
      BY <2>4, FS_EmptySet
    <3> QED BY <3>1, <3>2, <3>3
  <2>7. Cardinality(V) \in Nat /\ Cardinality(cut[x]) \in Nat
    BY <1>0, <2>3, <2>4
  <2>8. w[s] \in Nat /\ w[s] <= Cardinality(UNION {cut[y] : y \in s})
    <3>1. w[s] \in Nat /\ w[s] <= Cardinality(V) + Cardinality(cut[x])
      BY <2>1, <2>2, <2>3, <2>7
    <3> QED BY <2>5, <2>6, <3>1
  <2> QED BY <2>8
<1> HIDE DEF P, c
<1>4. S \in P
  BY <1>1, <1>2, <1>3, SubsetInduction
<1> QED BY <1>4 DEF P

\* The same of any finite set that has the disjoint subsets.
LEMMA SumWithin ==
    ASSUME NEW S, IsFiniteSet(S), NEW f \in [S -> Nat], NEW V, IsFiniteSet(V),
           NEW cut \in [S -> SUBSET V],
           \A x, y \in S : x # y => cut[x] \cap cut[y] = {},
           \A x \in S : f[x] <= Cardinality(cut[x]),
           NEW w, Sums(S, f, w)
    PROVE  w[S] \in Nat /\ w[S] <= Cardinality(V)
<1> DEFINE u == UNION {cut[x] : x \in S}
<1>1. u \in SUBSET V
  OBVIOUS
<1>2. w[S] \in Nat /\ w[S] <= Cardinality(u)
  BY SumAtMost
<1> HIDE DEF u
<1>3. Cardinality(u) <= Cardinality(V) /\ Cardinality(u) \in Nat /\ Cardinality(V) \in Nat
  BY <1>1, FS_Subset, FS_CardinalityType
<1> QED BY <1>2, <1>3

=============================================================================
