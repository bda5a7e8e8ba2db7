----------------------------- MODULE OrderLemmas -----------------------------
(***************************************************************************)
(* Least and greatest elements of sets of natural numbers, induction over  *)
(* them, and sums over finite sets.  A loop that takes its rows in order,  *)
(* a boot that takes the highest nonce, a first broken rule and the token  *)
(* and fee windows rest on them.                                           *)
(***************************************************************************)
EXTENDS Integers, FiniteSetsExt, TLAPS, WellFoundedInduction, FiniteSetTheorems

\* A set of natural numbers that is not empty has a least element.
LEMMA NatLeast ==
    ASSUME NEW T \in SUBSET Nat, T # {}
    PROVE  \E x \in T : \A y \in T : x <= y
<1> DEFINE R == {ss \in Nat \X Nat : ss[1] < ss[2]}
<1>1. IsWellFoundedOn(R, Nat)
  BY NatLessThanWellFounded DEF OpToRel
<1> HIDE DEF R
<1>2. PICK x \in T : \A y \in T : ~ (<<y, x>> \in R)
  BY <1>1, WFMin
<1>3. \A y \in T : ~ (y < x)
  BY <1>2 DEF R
<1> QED BY <1>3

\* What holds of every number whose predecessors it holds of, holds of all
\* of them: induction with the property given as a set.
LEMMA NatSetInduction ==
    ASSUME NEW P, 0 \in P, \A n \in Nat : n \in P => n + 1 \in P
    PROVE  Nat \subseteq P
<1> DEFINE T == Nat \ P
<1> SUFFICES ASSUME T # {} PROVE FALSE
  OBVIOUS
<1>1. PICK x \in T : \A y \in T : x <= y
  <2> HIDE DEF T
  <2>1. T \in SUBSET Nat
    BY DEF T
  <2> QED BY <2>1, NatLeast
<1>2. x - 1 \in Nat
  OBVIOUS
<1>3. x - 1 \in P
  BY <1>1, <1>2
<1> QED BY <1>2, <1>3

\* Among elements with a rank there is a first one.
LEMMA FirstByRank ==
    ASSUME NEW S, S # {}, NEW rank, \A x \in S : rank[x] \in Nat
    PROVE  \E x \in S : \A y \in S : rank[x] <= rank[y]
<1> DEFINE T == {rank[x] : x \in S}
<1>1. T \in SUBSET Nat /\ T # {}
  OBVIOUS
<1> HIDE DEF T
<1>2. PICK t \in T : \A u \in T : t <= u
  BY <1>1, NatLeast
<1> QED BY <1>2 DEF T

\* Min finds the least element.
LEMMA MinIsLeast ==
    ASSUME NEW S \in SUBSET Nat, S # {}
    PROVE  Min(S) \in S /\ \A s \in S : Min(S) <= s
<1>1. PICK m \in S : \A s \in S : m <= s
  BY NatLeast
<1> QED BY <1>1 DEF Min

\* Max finds the greatest element of a bounded set.
LEMMA MaxIsGreatest ==
    ASSUME NEW S \in SUBSET Nat, S # {}, NEW n \in Nat, \A s \in S : s <= n
    PROVE  Max(S) \in S /\ \A s \in S : s <= Max(S)
<1> DEFINE T == {n - s : s \in S}
<1>a. \A s \in S : n - s \in Nat
  OBVIOUS
<1>1. T \in SUBSET Nat /\ T # {}
  BY <1>a
<1> HIDE DEF T
<1>2. PICK x \in T : \A y \in T : x <= y
  BY <1>1, NatLeast
<1>3. PICK m \in S : x = n - m
  BY <1>2 DEF T
<1>4. \A s \in S : n - s \in T
  BY DEF T
<1>5. \A s \in S : m >= s
  BY <1>2, <1>3, <1>4
<1> QED BY <1>5 DEF Max

-----------------------------------------------------------------------------
(***************************************************************************)
(* Sums over finite sets, as MapThenSumSet computes them: an element, any  *)
(* one, is taken off and added to the sum of the rest.  Their lemmas are   *)
(* inductions over the size of the set.                                    *)
(***************************************************************************)

\* the element a sum takes next
Chosen(s) == CHOOSE x \in s : TRUE

\* h gives the sums of f over the subsets of K
IsSum(h, f, K) ==
    \A s \in SUBSET K : h[s] = IF s = {} THEN 0 ELSE f[Chosen(s)] + h[s \ {Chosen(s)}]

\* the recursion behind a sum, as a function of its subsets
Unfolded(h, f, K) ==
    [s \in SUBSET K |-> IF s = {} THEN 0 ELSE f[Chosen(s)] + h[s \ {Chosen(s)}]]

\* v is the sum of f over S
SumOver(v, f, S) == \E h : IsSum(h, f, S) /\ v = h[S]

\* The element taken next is one of the set.
LEMMA ChosenIn ==
    ASSUME NEW s, s # {}
    PROVE  Chosen(s) \in s
BY DEF Chosen

\* a finite set has a size, and so has each of its subsets, a smaller one if an
\* element is taken away
LEMMA SubsetSizes ==
    ASSUME NEW K, IsFiniteSet(K), NEW s \in SUBSET K
    PROVE  /\ IsFiniteSet(s) /\ Cardinality(s) \in Nat /\ Cardinality(s) <= Cardinality(K)
           /\ Cardinality(K) \in Nat
           /\ Cardinality(s) = 0 <=> s = {}
           /\ \A x \in s : Cardinality(s \ {x}) = Cardinality(s) - 1
<1>1. IsFiniteSet(s) /\ Cardinality(s) <= Cardinality(K)
  BY FS_Subset
<1>2. Cardinality(s) \in Nat /\ Cardinality(K) \in Nat
  BY <1>1, FS_CardinalityType
<1>3. Cardinality(s) = 0 <=> s = {}
  BY <1>1, FS_EmptySet
<1>4. \A x \in s : Cardinality(s \ {x}) = Cardinality(s) - 1
  BY <1>1, FS_RemoveElement
<1> QED BY <1>1, <1>2, <1>3, <1>4

\* The recursion has a solution.
LEMMA SumExists ==
    ASSUME NEW K, IsFiniteSet(K), NEW f
    PROVE  \E h : h = Unfolded(h, f, K)
<1> DEFINE Upto(h, n) == \A s \in SUBSET K : Cardinality(s) <= n =>
                            h[s] = IF s = {} THEN 0 ELSE f[Chosen(s)] + h[s \ {Chosen(s)}]
           P == {n \in Nat : \E h : Upto(h, n)}
<1>1. 0 \in P
  <2>1. PICK h : h = [s \in SUBSET K |-> 0]
    OBVIOUS
  <2>2. ASSUME NEW s \in SUBSET K, Cardinality(s) <= 0 PROVE s = {} /\ h[s] = 0
    BY <2>1, <2>2, SubsetSizes
  <2>3. Upto(h, 0)
    BY <2>2
  <2> QED BY <2>3
<1>2. ASSUME NEW n \in Nat, n \in P PROVE n + 1 \in P
  <2>1. PICK h : Upto(h, n)
    BY <1>2
  <2>2. PICK g : g = [s \in SUBSET K |-> IF Cardinality(s) <= n THEN h[s] ELSE f[Chosen(s)] + h[s \ {Chosen(s)}]]
    OBVIOUS
  <2>3. ASSUME NEW s \in SUBSET K, Cardinality(s) <= n + 1
        PROVE  g[s] = IF s = {} THEN 0 ELSE f[Chosen(s)] + g[s \ {Chosen(s)}]
    <3>1. CASE s = {}
      <4>1. Cardinality(s) <= n
        BY <3>1, SubsetSizes
      <4>2. g[s] = h[s]
        BY <2>2, <4>1
      <4>3. h[s] = 0
        BY <2>1, <3>1, <4>1
      <4> QED BY <3>1, <4>2, <4>3
    <3>2. CASE s # {}
      <4>1. Chosen(s) \in s /\ s \ {Chosen(s)} \in SUBSET K
        BY <3>2, ChosenIn
      <4>2. Cardinality(s \ {Chosen(s)}) = Cardinality(s) - 1 /\ Cardinality(s) \in Nat
        BY <4>1, SubsetSizes
      <4>3. Cardinality(s \ {Chosen(s)}) <= n
        BY <2>3, <4>2
      <4>4. g[s \ {Chosen(s)}] = h[s \ {Chosen(s)}]
        BY <2>2, <4>1, <4>3
      <4>5. g[s] = f[Chosen(s)] + h[s \ {Chosen(s)}]
        <5>1. CASE Cardinality(s) <= n
          <6>1. g[s] = h[s]
            BY <2>2, <5>1
          <6> QED BY <2>1, <3>2, <5>1, <6>1
        <5>2. CASE ~(Cardinality(s) <= n)
          BY <2>2, <5>2
        <5> QED BY <5>1, <5>2
      <4> QED BY <3>2, <4>4, <4>5
    <3> QED BY <3>1, <3>2
  <2>4. Upto(g, n + 1)
    BY <2>3
  <2> HIDE DEF Upto
  <2> QED BY <2>4
<1>3. Cardinality(K) \in Nat /\ K \in SUBSET K
  BY FS_CardinalityType
<1>4. Cardinality(K) \in P
  <2> HIDE DEF P
  <2> QED BY <1>1, <1>2, <1>3, NatSetInduction
<1>5. PICK h : Upto(h, Cardinality(K))
  BY <1>4
<1>6. PICK g : g = [s \in SUBSET K |-> h[s]]
  OBVIOUS
<1>7. ASSUME NEW s \in SUBSET K
      PROVE  g[s] = IF s = {} THEN 0 ELSE f[Chosen(s)] + g[s \ {Chosen(s)}]
  <2>1. Cardinality(s) <= Cardinality(K)
    BY SubsetSizes
  <2>2. g[s] = h[s] /\ g[s \ {Chosen(s)}] = h[s \ {Chosen(s)}]
    BY <1>6
  <2>3. h[s] = IF s = {} THEN 0 ELSE f[Chosen(s)] + h[s \ {Chosen(s)}]
    BY <1>5, <2>1
  <2> QED BY <2>2, <2>3
<1>8. g = [s \in SUBSET K |-> g[s]]
  BY <1>6
<1>9. g = Unfolded(g, f, K)
  BY <1>7, <1>8 DEF Unfolded
<1> QED BY <1>9

\* The sums of natural numbers are natural numbers.
LEMMA SumIsNat ==
    ASSUME NEW K, IsFiniteSet(K), NEW f, \A x \in K : f[x] \in Nat, NEW h, IsSum(h, f, K),
           NEW s \in SUBSET K
    PROVE  h[s] \in Nat
<1> DEFINE P == {n \in Nat : \A u \in SUBSET K : Cardinality(u) = n => h[u] \in Nat}
<1>1. 0 \in P
  <2>1. ASSUME NEW u \in SUBSET K, Cardinality(u) = 0 PROVE h[u] \in Nat
    <3>1. u = {}
      BY <2>1, SubsetSizes
    <3> QED BY <3>1 DEF IsSum
  <2> QED BY <2>1
<1>2. ASSUME NEW n \in Nat, n \in P PROVE n + 1 \in P
  <2>1. ASSUME NEW u \in SUBSET K, Cardinality(u) = n + 1 PROVE h[u] \in Nat
    <3>1. u # {}
      BY <2>1, SubsetSizes
    <3>2. Chosen(u) \in u /\ u \ {Chosen(u)} \in SUBSET K
      BY <3>1, ChosenIn
    <3>3. Cardinality(u \ {Chosen(u)}) = n
      BY <2>1, <3>2, SubsetSizes
    <3>4. h[u \ {Chosen(u)}] \in Nat
      BY <1>2, <3>2, <3>3
    <3>5. h[u] = f[Chosen(u)] + h[u \ {Chosen(u)}]
      BY <3>1 DEF IsSum
    <3> QED BY <3>2, <3>4, <3>5
  <2> QED BY <2>1
<1>3. Cardinality(s) \in Nat
  BY SubsetSizes
<1>4. Cardinality(s) \in P
  <2> HIDE DEF P
  <2> QED BY <1>1, <1>2, <1>3, NatSetInduction
<1> QED BY <1>4

\* A sum takes its elements in any order.
LEMMA SumSplits ==
    ASSUME NEW K, IsFiniteSet(K), NEW f, \A x \in K : f[x] \in Nat, NEW h, IsSum(h, f, K),
           NEW s \in SUBSET K, NEW x \in s
    PROVE  h[s] = f[x] + h[s \ {x}]
<1> DEFINE P == {n \in Nat : \A u \in SUBSET K : Cardinality(u) = n =>
                                 \A y \in u : h[u] = f[y] + h[u \ {y}]}
<1>1. 0 \in P
  <2>1. ASSUME NEW u \in SUBSET K, Cardinality(u) = 0 PROVE u = {}
    BY <2>1, SubsetSizes
  <2> QED BY <2>1
<1>2. ASSUME NEW n \in Nat, n \in P PROVE n + 1 \in P
  <2>1. ASSUME NEW u \in SUBSET K, Cardinality(u) = n + 1, NEW y \in u
        PROVE  h[u] = f[y] + h[u \ {y}]
    <3>1. PICK c : c = Chosen(u)
      OBVIOUS
    <3>2. c \in u /\ h[u] = f[c] + h[u \ {c}]
      BY <3>1, ChosenIn DEF IsSum
    <3>3. CASE c = y
      BY <3>2, <3>3
    <3>4. CASE c # y
      <4>1. /\ u \ {c} \in SUBSET K /\ u \ {y} \in SUBSET K
            /\ c \in u \ {y} /\ y \in u \ {c}
        BY <3>2, <3>4
      <4>2. Cardinality(u \ {c}) = n /\ Cardinality(u \ {y}) = n
        BY <2>1, <3>2, SubsetSizes
      <4>3. h[u \ {c}] = f[y] + h[(u \ {c}) \ {y}]
        BY <1>2, <4>1, <4>2
      <4>4. h[u \ {y}] = f[c] + h[(u \ {y}) \ {c}]
        BY <1>2, <4>1, <4>2
      <4>5. PICK w : w = (u \ {c}) \ {y}
        OBVIOUS
      <4>6. w = (u \ {y}) \ {c} /\ w \in SUBSET K
        BY <4>5
      <4>7. h[w] \in Nat
        BY <4>6, SumIsNat
      <4>8. f[c] \in Nat /\ f[y] \in Nat
        BY <3>2
      <4>9. h[u] = f[c] + (f[y] + h[w])
        BY <3>2, <4>3, <4>5
      <4>10. h[u \ {y}] = f[c] + h[w]
        BY <4>4, <4>6
      <4>11. f[c] + (f[y] + h[w]) = f[y] + (f[c] + h[w])
        BY <4>7, <4>8
      <4> QED BY <4>9, <4>10, <4>11
    <3> QED BY <3>3, <3>4
  <2> QED BY <2>1
<1>3. Cardinality(s) \in Nat
  BY SubsetSizes
<1>4. Cardinality(s) \in P
  <2> HIDE DEF P
  <2> QED BY <1>1, <1>2, <1>3, NatSetInduction
<1> QED BY <1>4

\* A sum over more elements, each at least as large, is at least as large.
LEMMA SumGrows ==
    ASSUME NEW K, IsFiniteSet(K), NEW f, \A x \in K : f[x] \in Nat, NEW hf, IsSum(hf, f, K),
           NEW L, IsFiniteSet(L), NEW g, \A x \in L : g[x] \in Nat, NEW hg, IsSum(hg, g, L),
           \A x \in K \cap L : f[x] <= g[x],
           NEW s \in SUBSET K, NEW t \in SUBSET L, s \subseteq t
    PROVE  hf[s] <= hg[t]
<1> DEFINE P == {n \in Nat : \A u \in SUBSET K, v \in SUBSET L :
                                 u \subseteq v /\ Cardinality(v) = n => hf[u] <= hg[v]}
<1>1. 0 \in P
  <2>1. ASSUME NEW u \in SUBSET K, NEW v \in SUBSET L, u \subseteq v, Cardinality(v) = 0
        PROVE  hf[u] <= hg[v]
    <3>1. v = {} /\ u = {}
      BY <2>1, SubsetSizes
    <3>2. hf[u] = 0 /\ hg[v] = 0
      BY <3>1 DEF IsSum
    <3> QED BY <3>2
  <2> QED BY <2>1
<1>2. ASSUME NEW n \in Nat, n \in P PROVE n + 1 \in P
  <2>1. ASSUME NEW u \in SUBSET K, NEW v \in SUBSET L, u \subseteq v, Cardinality(v) = n + 1
        PROVE  hf[u] <= hg[v]
    <3>1. v # {}
      BY <2>1, SubsetSizes
    <3>2. PICK x \in v : TRUE
      BY <3>1
    <3>3. PICK r : r = v \ {x}
      OBVIOUS
    <3>4. r \in SUBSET L /\ Cardinality(r) = n
      BY <2>1, <3>3, SubsetSizes
    <3>5. hg[v] = g[x] + hg[r]
      BY <3>3, SumSplits
    <3>6. hg[r] \in Nat /\ g[x] \in Nat
      BY <3>4, SumIsNat
    <3>7. PICK q : q = u \ {x}
      OBVIOUS
    <3>8. q \in SUBSET K /\ q \subseteq r
      BY <2>1, <3>3, <3>7
    <3>9. hf[q] <= hg[r] /\ hf[q] \in Nat
      <4>1. hf[q] <= hg[r]
        BY <1>2, <3>4, <3>8
      <4>2. hf[q] \in Nat
        BY <3>8, SumIsNat
      <4> QED BY <4>1, <4>2
    <3>10. CASE x \in u
      <4>1. hf[u] = f[x] + hf[q]
        BY <3>7, <3>10, SumSplits
      <4>2. f[x] <= g[x] /\ f[x] \in Nat
        BY <3>2, <3>10
      <4> QED BY <3>5, <3>6, <3>9, <4>1, <4>2
    <3>11. CASE x \notin u
      <4>1. q = u
        BY <3>7, <3>11
      <4> QED BY <3>5, <3>6, <3>9, <4>1
    <3> QED BY <3>10, <3>11
  <2> QED BY <2>1
<1>3. Cardinality(t) \in Nat
  BY SubsetSizes
<1>4. Cardinality(t) \in P
  <2> HIDE DEF P
  <2> QED BY <1>1, <1>2, <1>3, NatSetInduction
<1> QED BY <1>4

\* One more element adds at most its own value.
LEMMA SumWithOneMore ==
    ASSUME NEW T, IsFiniteSet(T), NEW x, NEW S, S \subseteq T \cup {x},
           NEW f, \A y \in S : f[y] \in Nat,
           NEW g, \A y \in T : g[y] \in Nat,
           f[x] \in Nat,
           \A y \in S \ {x} : f[y] <= g[y],
           NEW v, SumOver(v, f, S), NEW w, SumOver(w, g, T)
    PROVE  v \in Nat /\ w \in Nat /\ v <= w + f[x]
<1>1. PICK hf : IsSum(hf, f, S) /\ v = hf[S]
  BY DEF SumOver
<1>2. PICK hg : IsSum(hg, g, T) /\ w = hg[T]
  BY DEF SumOver
<1>3. IsFiniteSet(S)
  BY FS_AddElement, FS_Subset
<1>4. v \in Nat
  BY <1>1, <1>3, SumIsNat
<1>5. w \in Nat
  BY <1>2, SumIsNat
<1>6. PICK R : R = S \ {x}
  OBVIOUS
<1>7. IsFiniteSet(R) /\ R \in SUBSET S /\ R \in SUBSET T /\ R \subseteq T
  <2>1. R \in SUBSET S /\ R \in SUBSET T /\ R \subseteq T
    BY <1>6
  <2> QED BY <1>3, <2>1, FS_Subset
<1>8. IsSum(hf, f, R)
  BY <1>1, <1>7 DEF IsSum
<1>9. hf[R] <= w
  <2>1. \A y \in R : f[y] \in Nat
    BY <1>7
  <2>2. \A y \in R \cap T : f[y] <= g[y]
    BY <1>6
  <2>3. hf[R] <= hg[T]
    BY <1>2, <1>7, <1>8, <2>1, <2>2, SumGrows
  <2> QED BY <1>2, <2>3
<1>10. hf[R] \in Nat
  BY <1>1, <1>3, <1>7, SumIsNat
<1>11. CASE x \in S
  <2>1. v = f[x] + hf[R]
    <3>1. S \in SUBSET S
      OBVIOUS
    <3> QED BY <1>1, <1>3, <1>6, <1>11, <3>1, SumSplits
  <2> QED BY <1>4, <1>5, <1>9, <1>10, <2>1
<1>12. CASE x \notin S
  <2>1. R = S
    BY <1>6, <1>12
  <2> QED BY <1>1, <1>4, <1>5, <1>9, <2>1
<1> QED BY <1>4, <1>5, <1>11, <1>12

\* A sum over fewer elements, none larger, is no larger.
LEMMA SumWithin ==
    ASSUME NEW T, IsFiniteSet(T), NEW S, S \subseteq T,
           NEW f, \A y \in S : f[y] \in Nat,
           NEW g, \A y \in T : g[y] \in Nat,
           \A y \in S : f[y] <= g[y],
           NEW v, SumOver(v, f, S), NEW w, SumOver(w, g, T)
    PROVE  v \in Nat /\ w \in Nat /\ v <= w
<1>1. PICK hf : IsSum(hf, f, S) /\ v = hf[S]
  BY DEF SumOver
<1>2. PICK hg : IsSum(hg, g, T) /\ w = hg[T]
  BY DEF SumOver
<1>3. IsFiniteSet(S) /\ S \in SUBSET S /\ T \in SUBSET T /\ S \in SUBSET T
  BY FS_Subset
<1>4. v \in Nat
  BY <1>1, <1>3, SumIsNat
<1>5. w \in Nat
  BY <1>2, <1>3, SumIsNat
<1>6. \A y \in S \cap T : f[y] <= g[y]
  OBVIOUS
<1>7. hf[S] <= hg[T]
  BY <1>1, <1>2, <1>3, <1>6, SumGrows
<1> QED BY <1>1, <1>2, <1>4, <1>5, <1>7

=============================================================================
