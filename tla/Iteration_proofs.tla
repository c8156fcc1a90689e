--------------------------- MODULE Iteration_proofs ---------------------------
(***************************************************************************)
(* Induction and loops.  What a loop computes is proved by induction on    *)
(* the number of its turns, with sets in the place of predicates: a set    *)
(* that holds the first number of an interval, and with each number the    *)
(* next, holds the interval.                                               *)
(***************************************************************************)
EXTENDS Integers, FiniteSets, FiniteSetTheorems, WellFoundedInduction, TLAPS

(* A non-empty set of natural numbers has a smallest member. *)
LEMMA SmallestMember ==
    ASSUME NEW S, S \subseteq Nat, S # {}
    PROVE  \E x \in S : \A y \in S : x <= y
<1> DEFINE Less == OpToRel(<, Nat)
<1>1. IsWellFoundedOn(Less, Nat)
  BY NatLessThanWellFounded
<1>2. \A x, y \in Nat : x < y => <<x, y>> \in Less
  BY DEF OpToRel
<1> HIDE DEF Less
<1>3. \E x \in S : \A y \in S : ~ (<<y, x>> \in Less)
  BY <1>1, WFMin
<1>4. PICK x \in S : \A y \in S : ~ (<<y, x>> \in Less)
  BY <1>3
<1>5. ASSUME NEW y \in S
      PROVE  x <= y
  <2>1. ~ (y < x)
    BY <1>2, <1>4
  <2> QED
    BY <2>1
<1> QED
  BY <1>5

(* Induction from m up to n. *)
LEMMA IntervalInduction ==
    ASSUME NEW m \in Nat, NEW n \in Nat, NEW P,
           m \in P,
           \A i \in m..n : i \in P /\ i < n => i + 1 \in P
    PROVE  m..n \subseteq P
<1> DEFINE Missing == {i \in m..n : i \notin P}
<1> SUFFICES ASSUME Missing # {}
             PROVE  FALSE
  OBVIOUS
<1>0. Missing \subseteq Nat
  OBVIOUS
<1> HIDE DEF Missing
<1>1. PICK x \in Missing : \A y \in Missing : x <= y
  BY <1>0, SmallestMember
<1> USE DEF Missing
<1>2. x - 1 \in m..n /\ x - 1 \notin Missing
  BY <1>1
<1>3. x \in P
  BY <1>2
<1> QED
  BY <1>1, <1>3

(* The loop that starts with c and applies g[i] in the turn after which    *)
(* its counter is i: the turns, and the values it takes from m up to n.    *)
Turns(S, m, n) == [(m + 1)..n -> [S -> S]]
Runs(S, c, m, n, g) ==
    {f \in [m..n -> S] : f[m] = c /\ \A i \in (m + 1)..n : f[i] = g[i][f[i - 1]]}

(* Such a loop has a value after every turn. *)
LEMMA IterationExists ==
    ASSUME NEW S, NEW c \in S, NEW m \in Nat, NEW n \in Nat, m <= n,
           NEW g, g \in Turns(S, m, n)
    PROVE  Runs(S, c, m, n, g) # {}
<1> USE DEF Turns
<1> DEFINE Part(k) == {f \in [m..k -> S] :
                         f[m] = c /\ \A i \in (m + 1)..k : f[i] = g[i][f[i - 1]]}
           P == {k \in m..n : Part(k) # {}}
<1>1. m \in P
  <2>1. [i \in m..m |-> c] \in Part(m)
    OBVIOUS
  <2> HIDE DEF Part
  <2> QED
    BY <2>1
<1>2. ASSUME NEW k \in m..n, k \in P, k < n
      PROVE  k + 1 \in P
  <2>1. PICK f \in [m..k -> S] :
          f[m] = c /\ \A i \in (m + 1)..k : f[i] = g[i][f[i - 1]]
    BY <1>2
  <2> DEFINE h == [i \in m..(k + 1) |-> IF i = k + 1 THEN g[k + 1][f[k]] ELSE f[i]]
  <2>2. g[k + 1] \in [S -> S] /\ f[k] \in S
    BY <1>2
  <2>3. h \in [m..(k + 1) -> S]
    BY <2>2
  <2>4. h[m] = c
    BY <2>1
  <2>5. ASSUME NEW i \in (m + 1)..(k + 1)
        PROVE  h[i] = g[i][h[i - 1]]
    <3>1. i - 1 \in m..k /\ h[i - 1] = f[i - 1]
      OBVIOUS
    <3>2. CASE i = k + 1
      BY <3>1, <3>2
    <3>3. CASE i \in (m + 1)..k
      BY <2>1, <3>1, <3>3
    <3> QED
      BY <3>2, <3>3
  <2>6. h \in Part(k + 1)
    BY <2>3, <2>4, <2>5
  <2> HIDE DEF Part
  <2> QED
    BY <1>2, <2>6
<1> HIDE DEF P
<1>3. m..n \subseteq P
  BY <1>1, <1>2, IntervalInduction
<1> QED
  BY <1>3 DEF P, Runs


-----------------------------------------------------------------------------
(* Sums over finite sets, as the folds of the library compute them: by     *)
(* taking away one member after another, chosen by ch.                     *)

Chooser(T, ch) == \A s \in SUBSET T : s # {} => ch[s] \in s
FoldOf(T, w, ch, f) ==
    f = [s \in SUBSET T |-> IF s = {} THEN 0 ELSE w[ch[s]] + f[s \ {ch[s]}]]

(* The sums of w over the subsets of T: any member may be taken away.      *)
Totals(T, w) ==
    {f \in [SUBSET T -> Int] :
       f[{}] = 0 /\ \A s \in SUBSET T : \A x \in s : f[s] = w[x] + f[s \ {x}]}

(* Induction over the subsets of a finite set by their size. *)
LEMMA SubsetInduction ==
    ASSUME NEW T, IsFiniteSet(T), NEW P,
           \A s \in SUBSET T : (\A x \in s : s \ {x} \in P) => s \in P
    PROVE  SUBSET T \subseteq P
<1> DEFINE n == Cardinality(T)
           Q == {k \in 0..n : \A s \in SUBSET T : Cardinality(s) <= k => s \in P}
<1>1. n \in Nat
  BY FS_CardinalityType
<1>2. \A s \in SUBSET T : IsFiniteSet(s) /\ Cardinality(s) \in Nat /\ Cardinality(s) <= n
  BY FS_Subset, FS_CardinalityType
<1>3. \A s \in SUBSET T : \A x \in s :
        s \ {x} \in SUBSET T /\ Cardinality(s \ {x}) = Cardinality(s) - 1
  BY <1>2, FS_RemoveElement
<1> HIDE DEF n
<1>4. 0 \in Q
  <2>1. ASSUME NEW s \in SUBSET T, Cardinality(s) <= 0
        PROVE  s \in P
    <3>1. s = {}
      BY <1>2, <2>1, FS_EmptySet
    <3> QED
      BY <3>1
  <2> QED
    BY <1>1, <2>1
<1>5. ASSUME NEW k \in 0..n, k \in Q, k < n
      PROVE  k + 1 \in Q
  <2>1. ASSUME NEW s \in SUBSET T, Cardinality(s) <= k + 1
        PROVE  s \in P
    <3>1. ASSUME NEW x \in s
          PROVE  s \ {x} \in P
      <4>1. s \ {x} \in SUBSET T /\ Cardinality(s \ {x}) <= k
        BY <1>1, <1>2, <1>3, <2>1
      <4> QED
        BY <1>5, <4>1
    <3> QED
      BY <3>1
  <2>2. k + 1 \in 0..n
    BY <1>1, <1>5
  <2> QED
    BY <2>1, <2>2
<1> HIDE DEF Q
<1>6. 0..n \subseteq Q
  BY <1>1, <1>4, <1>5, IntervalInduction
<1>7. n \in Q
  BY <1>1, <1>6
<1> QED
  BY <1>2, <1>7 DEF Q

(* A fold has a value on every subset. *)
LEMMA FoldExists ==
    ASSUME NEW T, IsFiniteSet(T), NEW w \in [T -> Int], NEW ch, Chooser(T, ch)
    PROVE  \E f : FoldOf(T, w, ch, f)
<1> DEFINE n == Cardinality(T)
           Small(k) == {s \in SUBSET T : Cardinality(s) <= k}
           Part(k, f) == /\ f \in [Small(k) -> Int]
                         /\ \A s \in Small(k) :
                              f[s] = IF s = {} THEN 0 ELSE w[ch[s]] + f[s \ {ch[s]}]
           Q == {k \in 0..n : \E f : Part(k, f)}
<1>1. n \in Nat
  BY FS_CardinalityType
<1>2. \A s \in SUBSET T : IsFiniteSet(s) /\ Cardinality(s) \in Nat /\ Cardinality(s) <= n
  BY FS_Subset, FS_CardinalityType
<1>3. ASSUME NEW s \in SUBSET T, s # {}
      PROVE  /\ ch[s] \in s /\ w[ch[s]] \in Int /\ s \ {ch[s]} \in SUBSET T
             /\ Cardinality(s \ {ch[s]}) = Cardinality(s) - 1
  <2>1. ch[s] \in s
    BY <1>3 DEF Chooser
  <2> QED
    BY <1>2, <2>1, FS_RemoveElement
<1> HIDE DEF n
<1>4. 0 \in Q
  <2>1. \A s \in Small(0) : s = {}
    BY <1>2, FS_EmptySet
  <2>2. Part(0, [s \in Small(0) |-> 0])
    BY <2>1
  <2> HIDE DEF Part
  <2> QED
    BY <1>1, <2>2
<1>5. ASSUME NEW k \in 0..n, k \in Q, k < n
      PROVE  k + 1 \in Q
  <2>1. PICK f : Part(k, f)
    BY <1>5
  <2> DEFINE h == [s \in Small(k + 1) |->
                     IF s \in Small(k) THEN f[s] ELSE w[ch[s]] + f[s \ {ch[s]}]]
  <2>2. ASSUME NEW s \in Small(k + 1), s # {}
        PROVE  s \ {ch[s]} \in Small(k) /\ s \ {ch[s]} \in Small(k + 1)
    BY <1>1, <1>2, <1>3, <2>2
  <2>3. \A s \in Small(k + 1) : s = {} => s \in Small(k)
    <3>1. {} \in SUBSET T /\ Cardinality({}) = 0
      BY FS_EmptySet
    <3> QED
      BY <1>1, <3>1
  <2>4. \A s \in Small(k) : f[s] \in Int
    BY <2>1
  <2> HIDE DEF Small
  <2>5. h \in [Small(k + 1) -> Int]
    <3>1. ASSUME NEW s \in Small(k + 1), s \notin Small(k)
          PROVE  w[ch[s]] + f[s \ {ch[s]}] \in Int
      BY <1>3, <2>2, <2>3, <2>4, <3>1 DEF Small
    <3> QED
      BY <2>4, <3>1
  <2>6. ASSUME NEW s \in Small(k + 1)
        PROVE  h[s] = IF s = {} THEN 0 ELSE w[ch[s]] + h[s \ {ch[s]}]
    <3>1. CASE s = {}
      <4>1. s \in Small(k)
        BY <2>3, <3>1
      <4> QED
        BY <2>1, <3>1, <4>1
    <3>2. CASE s # {}
      <4>1. h[s \ {ch[s]}] = f[s \ {ch[s]}]
        BY <2>2, <3>2
      <4>2. h[s] = w[ch[s]] + f[s \ {ch[s]}]
        BY <2>1, <3>2
      <4> QED
        BY <3>2, <4>1, <4>2
    <3> QED
      BY <3>1, <3>2
  <2>7. Part(k + 1, h)
    BY <2>5, <2>6
  <2>8. k + 1 \in 0..n
    BY <1>1, <1>5
  <2> HIDE DEF Part, h
  <2> QED
    BY <2>7, <2>8
<1> HIDE DEF Q
<1>6. n \in Q
  <2>1. 0..n \subseteq Q
    BY <1>1, <1>4, <1>5, IntervalInduction
  <2> QED
    BY <1>1, <2>1
<1>7. PICK f : Part(n, f)
  BY <1>6 DEF Q
<1>8. Small(n) = SUBSET T
  BY <1>2
<1>9. f = [s \in SUBSET T |-> IF s = {} THEN 0 ELSE w[ch[s]] + f[s \ {ch[s]}]]
  BY <1>7, <1>8
<1> QED
  BY <1>9 DEF FoldOf


(* A fold may take the members away in any order. *)
LEMMA FoldTotals ==
    ASSUME NEW T, IsFiniteSet(T), NEW w \in [T -> Int], NEW ch, Chooser(T, ch),
           NEW f, FoldOf(T, w, ch, f)
    PROVE  f \in Totals(T, w)
<1>1. /\ f = [s \in SUBSET T |-> IF s = {} THEN 0 ELSE w[ch[s]] + f[s \ {ch[s]}]]
      /\ f[{}] = 0
      /\ \A s \in SUBSET T : s # {} => f[s] = w[ch[s]] + f[s \ {ch[s]}]
  BY DEF FoldOf
<1>2. \A s \in SUBSET T : s # {} => ch[s] \in s /\ w[ch[s]] \in Int
  BY DEF Chooser
<1> DEFINE Typed == {s \in SUBSET T : f[s] \in Int}
           P == {s \in SUBSET T : \A x \in s : f[s] = w[x] + f[s \ {x}]}
<1>3. SUBSET T \subseteq Typed
  <2>1. ASSUME NEW s \in SUBSET T, \A x \in s : s \ {x} \in Typed
        PROVE  s \in Typed
    <3>1. CASE s = {}
      BY <1>1, <3>1
    <3>2. CASE s # {}
      <4> DEFINE c == ch[s]
      <4>1. c \in s /\ w[c] \in Int /\ f[s] = w[c] + f[s \ {c}]
        BY <1>1, <1>2, <3>2
      <4> HIDE DEF c
      <4>2. f[s \ {c}] \in Int
        BY <2>1, <4>1
      <4>3. f[s] \in Int
        BY <4>1, <4>2
      <4> QED
        BY <4>3
    <3> QED
      BY <3>1, <3>2
  <2> HIDE DEF Typed
  <2> QED
    BY <2>1, SubsetInduction
<1>4. ASSUME NEW s \in SUBSET T, \A x \in s : s \ {x} \in P
      PROVE  s \in P
  <2>1. CASE s = {}
    BY <2>1
  <2>2. CASE s # {}
    <3> DEFINE c == ch[s]
    <3>1. c \in s /\ w[c] \in Int /\ f[s] = w[c] + f[s \ {c}]
      BY <1>1, <1>2, <2>2
    <3> HIDE DEF c
    <3>2. ASSUME NEW x \in s
          PROVE  f[s] = w[x] + f[s \ {x}]
      <4>1. CASE x = c
        BY <3>1, <4>1
      <4>2. CASE x # c
        <5>1. x \in s \ {c} /\ c \in s \ {x} /\ (s \ {c}) \ {x} = (s \ {x}) \ {c}
          BY <3>1, <4>2
        <5>2. f[s \ {c}] = w[x] + f[(s \ {c}) \ {x}] /\ f[s \ {x}] = w[c] + f[(s \ {x}) \ {c}]
          BY <1>4, <3>1, <5>1
        <5>3. f[(s \ {c}) \ {x}] \in Int /\ w[x] \in Int
          BY <1>3
        <5> DEFINE rest == f[(s \ {c}) \ {x}]
        <5>4. f[s] = w[c] + (w[x] + rest) /\ f[s \ {x}] = w[c] + rest
          BY <3>1, <5>1, <5>2
        <5>5. rest \in Int
          BY <5>3
        <5> HIDE DEF rest
        <5>6. w[c] + (w[x] + rest) = w[x] + (w[c] + rest)
          BY <3>1, <5>3, <5>5
        <5> QED
          BY <5>4, <5>6
      <4> QED
        BY <4>1, <4>2
    <3> QED
      BY <3>2
  <2> QED
    BY <2>1, <2>2
<1> HIDE DEF P
<1>5. SUBSET T \subseteq P
  BY <1>4, SubsetInduction
<1> QED
  BY <1>1, <1>3, <1>5 DEF P, Totals

(* The sum over a set depends on the weights of its members alone. *)
LEMMA TotalsAgree ==
    ASSUME NEW T, IsFiniteSet(T),
           NEW V, T \subseteq V, NEW w, NEW f \in Totals(V, w),
           NEW U, T \subseteq U, NEW v, NEW g \in Totals(U, v),
           \A x \in T : v[x] = w[x]
    PROVE  g[T] = f[T]
<1> DEFINE P == {s \in SUBSET T : g[s] = f[s]}
<1>1. ASSUME NEW s \in SUBSET T, \A x \in s : s \ {x} \in P
      PROVE  s \in P
  <2>1. CASE s = {}
    BY <2>1 DEF Totals
  <2>2. CASE s # {}
    <3>1. PICK x \in s : TRUE
      BY <2>2
    <3>2. s \in SUBSET V /\ s \in SUBSET U /\ x \in T
      OBVIOUS
    <3>3. f[s] = w[x] + f[s \ {x}] /\ g[s] = v[x] + g[s \ {x}]
      BY <3>2 DEF Totals
    <3> QED
      BY <1>1, <3>2, <3>3
  <2> QED
    BY <2>1, <2>2
<1> HIDE DEF P
<1>2. SUBSET T \subseteq P
  BY <1>1, SubsetInduction
<1> QED
  BY <1>2 DEF P
=============================================================================
