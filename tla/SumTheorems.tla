----------------------------- MODULE SumTheorems -----------------------------
(***************************************************************************)
(* What the sums of Sums compute, for every finite set and every function  *)
(* with integer values on it: the books of the payment and stock modules   *)
(* are sums over rows, and each step of theirs changes few of the rows.    *)
(*                                                                         *)
(* The sum is a fold that takes the members in the order of CHOOSE.  The   *)
(* lemmas show that the fold exists and is unique, and that the order does *)
(* not matter.  Induction over finite sets is the search for a smallest    *)
(* counterexample (SmallestSubset), a subset of which none is smaller.     *)
(***************************************************************************)
EXTENDS Sums, Integers, Sequences, FiniteSetTheorems, NaturalsInduction, WellFoundedInduction, TLAPS

\* The member of s the fold takes first, and the equation of the fold.
Pick(s) == CHOOSE x \in s : TRUE
Unfolds(g, f, S) ==
  g = [s \in SUBSET S |-> IF s = {} THEN 0 ELSE f[Pick(s)] + g[s \ {Pick(s)}]]

\* Total is the fold, as MapThenSumSet defines it.
LEMMA TotalIsFold ==
  ASSUME NEW f, NEW S
  PROVE  Total(f, S) = (CHOOSE g : Unfolds(g, f, S))[S]
BY DEF Total, MapThenSumSet, MapThenFoldSet, Unfolds, Pick

\* A non-empty set of subsets of a finite set has a smallest member.
LEMMA SmallestSubset ==
  ASSUME NEW S, IsFiniteSet(S), NEW T \in SUBSET (SUBSET S), T # {}
  PROVE  \E m \in T : \A s \in T : ~(s \subseteq m /\ s # m)
<1>1. IsWellFoundedOn(StrictSubsetOrdering(S), SUBSET S)
  BY FS_StrictSubsetOrderingWellFounded, FS_FiniteSubsetsOfFinite
<1>2. PICK m \in T : \A s \in T : ~(<<s, m>> \in StrictSubsetOrdering(S))
  BY <1>1, WFMin
<1>. QED
  BY <1>2 DEF StrictSubsetOrdering

\* The first member of s is a member of s.
LEMMA PickIn == ASSUME NEW s, s # {} PROVE Pick(s) \in s
BY DEF Pick

\* Two folds of f agree wherever both are defined.
LEMMA FoldUnique ==
  ASSUME NEW f, NEW S, NEW T, NEW g, NEW h, Unfolds(g, f, S), Unfolds(h, f, T),
         NEW u \in SUBSET (S \cap T), IsFiniteSet(u)
  PROVE  g[u] = h[u]
<1> DEFINE bad == {s \in SUBSET u : g[s] # h[s]}
<1> SUFFICES ASSUME bad # {} PROVE FALSE
  OBVIOUS
<1>0. bad \in SUBSET (SUBSET u)
  OBVIOUS
<1>1. PICK m \in bad : \A s \in bad : ~(s \subseteq m /\ s # m)
  <2> HIDE DEF bad
  <2>. QED BY <1>0, SmallestSubset
<1>2. CASE m = {}
  BY <1>2 DEF Unfolds
<1>3. CASE m # {}
  <2>1. Pick(m) \in m
    BY <1>3, PickIn
  <2>2. g[m \ {Pick(m)}] = h[m \ {Pick(m)}]
    BY <1>1, <2>1
  <2>. QED
    BY <1>3, <2>1, <2>2 DEF Unfolds
<1>. QED
  BY <1>2, <1>3

\* There is a fold of f over every finite set.
LEMMA FoldExists ==
  ASSUME NEW f, NEW S, IsFiniteSet(S)
  PROVE  \E g : Unfolds(g, f, S)
<1> DEFINE bad == {s \in SUBSET S : ~\E g : Unfolds(g, f, s)}
<1> SUFFICES ASSUME bad # {} PROVE FALSE
  OBVIOUS
<1>0. bad \in SUBSET (SUBSET S)
  OBVIOUS
<1>1. PICK m \in bad : \A s \in bad : ~(s \subseteq m /\ s # m)
  <2> HIDE DEF bad
  <2>. QED BY <1>0, SmallestSubset
<1> DEFINE G(s) == CHOOSE g : Unfolds(g, f, s)
           below == (SUBSET m) \ {m}
           h == [s \in SUBSET m |-> IF s = {} THEN 0
                   ELSE f[Pick(s)] + G(s \ {Pick(s)})[s \ {Pick(s)}]]
<1>2. \A s \in below : Unfolds(G(s), f, s)
  BY <1>1
<1>3. ASSUME NEW s \in SUBSET m, s # {}
      PROVE  h[s \ {Pick(s)}] = G(s \ {Pick(s)})[s \ {Pick(s)}]
  <2> DEFINE u == s \ {Pick(s)}
  <2>1. u \in below
    BY <1>3, PickIn
  <2>2. Unfolds(G(u), f, u)
    BY <2>1, <1>2
  <2>3. CASE u = {}
    BY <2>2, <2>3 DEF Unfolds
  <2>4. CASE u # {}
    <3>0. Pick(u) \in u
      BY <2>4, PickIn
    <3> DEFINE w == u \ {Pick(u)}
    <3>1. G(u)[u] = f[Pick(u)] + G(u)[w]
      BY <2>2, <2>4 DEF Unfolds
    <3>2. w \in below /\ w \subseteq u
      BY <2>1, <3>0
    <3>3. Unfolds(G(w), f, w)
      BY <3>2, <1>2
    <3>4. IsFiniteSet(w)
      BY <3>2, FS_Subset
    <3>5. G(u)[w] = G(w)[w]
      <4> HIDE DEF G, w, u, h
      <4>. QED BY <2>2, <3>2, <3>3, <3>4, FoldUnique
    <3>6. h[u] = f[Pick(u)] + G(w)[w]
      BY <2>1, <2>4
    <3>. QED
      BY <3>1, <3>5, <3>6
  <2>. QED
    BY <2>3, <2>4
<1>4. Unfolds(h, f, m)
  <2> DEFINE k == [s \in SUBSET m |-> IF s = {} THEN 0
                                      ELSE f[Pick(s)] + h[s \ {Pick(s)}]]
  <2>0. \A s \in SUBSET m : h[s] = k[s]
    <3> HIDE DEF G
    <3>. QED BY <1>3
  <2>1. h = k
    BY <2>0
  <2>. QED
    BY <2>1 DEF Unfolds
<1>. QED
  BY <1>4

\* The sum over no rows is 0.
LEMMA TotalEmpty == ASSUME NEW f PROVE Total(f, {}) = 0
<1>1. PICK g : Unfolds(g, f, {})
  BY FoldExists, FS_EmptySet
<1>. QED
  BY <1>1, TotalIsFold DEF Unfolds

\* The sum over S is that of its first member and the rest.
LEMMA TotalPick ==
  ASSUME NEW f, NEW S, IsFiniteSet(S), S # {}
  PROVE  Total(f, S) = f[Pick(S)] + Total(f, S \ {Pick(S)})
<1> DEFINE R == S \ {Pick(S)}
<1> DEFINE G(s) == CHOOSE g : Unfolds(g, f, s)
<1>1. Pick(S) \in S /\ IsFiniteSet(R) 
  BY PickIn, FS_Subset
<1>2. Unfolds(G(S), f, S)
  BY FoldExists
<1>3. Unfolds(G(R), f, R)
  BY FoldExists, <1>1
<1>4. G(S)[R] = G(R)[R]
  <2> HIDE DEF G
  <2>. QED BY <1>1, <1>2, <1>3, FoldUnique
<1>5. G(S)[S] = f[Pick(S)] + G(S)[R]
  BY <1>2 DEF Unfolds
<1>. QED
  BY <1>4, <1>5, TotalIsFold

\* A sum of integers is one.
LEMMA TotalType ==
  ASSUME NEW f, NEW S, IsFiniteSet(S), \A x \in S : f[x] \in Int
  PROVE  Total(f, S) \in Int
<1> DEFINE bad == {s \in SUBSET S : Total(f, s) \notin Int}
<1> SUFFICES ASSUME bad # {} PROVE FALSE
  OBVIOUS
<1>0. bad \in SUBSET (SUBSET S)
  OBVIOUS
<1>1. PICK m \in bad : \A s \in bad : ~(s \subseteq m /\ s # m)
  <2> HIDE DEF bad
  <2>. QED BY <1>0, SmallestSubset
<1>2. m # {}
  BY TotalEmpty
<1>3. Pick(m) \in m /\ IsFiniteSet(m)
  BY <1>2, PickIn, FS_Subset
<1>4. Total(f, m \ {Pick(m)}) \in Int
  BY <1>1, <1>3
<1>5. Total(f, m) = f[Pick(m)] + Total(f, m \ {Pick(m)})
  BY <1>2, <1>3, TotalPick
<1>. QED
  BY <1>3, <1>4, <1>5

\* Any member of S may be taken out of the sum.
LEMMA TotalRemove ==
  ASSUME NEW f, NEW S, IsFiniteSet(S), \A x \in S : f[x] \in Int, NEW y \in S
  PROVE  Total(f, S) = f[y] + Total(f, S \ {y})
<1> DEFINE Fine(s) == \A x \in s : Total(f, s) = f[x] + Total(f, s \ {x})
           bad == {s \in SUBSET S : ~Fine(s)}
<1> SUFFICES ASSUME bad # {} PROVE FALSE
  OBVIOUS
<1>0. bad \in SUBSET (SUBSET S)
  OBVIOUS
<1>1. PICK m \in bad : \A s \in bad : ~(s \subseteq m /\ s # m)
  <2> HIDE DEF bad
  <2>. QED BY <1>0, SmallestSubset
<1>2. PICK x \in m : Total(f, m) # f[x] + Total(f, m \ {x})
  OBVIOUS
<1>3. Pick(m) \in m /\ IsFiniteSet(m)
  BY <1>2, PickIn, FS_Subset
<1> DEFINE p == Pick(m)
<1>4. Total(f, m) = f[p] + Total(f, m \ {p})
  BY <1>2, <1>3, TotalPick
<1>5. p # x
  BY <1>2, <1>4
<1>6. Fine(m \ {p}) /\ Fine(m \ {x})
  BY <1>1, <1>2, <1>3
<1> HIDE DEF p
<1>7. Total(f, m \ {p}) = f[x] + Total(f, (m \ {p}) \ {x})
  BY <1>2, <1>5, <1>6
<1>8. Total(f, m \ {x}) = f[p] + Total(f, (m \ {x}) \ {p})
  BY <1>3, <1>5, <1>6 DEF p
<1>9. Total(f, (m \ {p}) \ {x}) = Total(f, (m \ {x}) \ {p})
  <2>1. (m \ {p}) \ {x} = (m \ {x}) \ {p}
    OBVIOUS
  <2>. QED BY <2>1
<1>10. Total(f, (m \ {x}) \ {p}) \in Int
  BY <1>3, FS_Subset, TotalType
<1>11. f[p] \in Int /\ f[x] \in Int
  BY <1>3, <1>2 DEF p
<1>12. Total(f, m) = f[p] + Total(f, m \ {p})
  BY <1>4 DEF p
<1>. QED
  BY <1>2, <1>7, <1>8, <1>9, <1>10, <1>11, <1>12

\* The sum depends on the values of f on S alone.
LEMMA TotalSame ==
  ASSUME NEW f, NEW g, NEW S, IsFiniteSet(S), \A x \in S : f[x] = g[x]
  PROVE  Total(f, S) = Total(g, S)
<1> DEFINE bad == {s \in SUBSET S : Total(f, s) # Total(g, s)}
<1> SUFFICES ASSUME bad # {} PROVE FALSE
  OBVIOUS
<1>0. bad \in SUBSET (SUBSET S)
  OBVIOUS
<1>1. PICK m \in bad : \A s \in bad : ~(s \subseteq m /\ s # m)
  <2> HIDE DEF bad
  <2>. QED BY <1>0, SmallestSubset
<1>2. m # {}
  BY TotalEmpty
<1>3. Pick(m) \in m /\ IsFiniteSet(m)
  BY <1>2, PickIn, FS_Subset
<1>4. Total(f, m \ {Pick(m)}) = Total(g, m \ {Pick(m)})
  BY <1>1, <1>3
<1>5. Total(f, m) = f[Pick(m)] + Total(f, m \ {Pick(m)})
  BY <1>2, <1>3, TotalPick
<1>6. Total(g, m) = g[Pick(m)] + Total(g, m \ {Pick(m)})
  BY <1>2, <1>3, TotalPick
<1>7. f[Pick(m)] = g[Pick(m)]
  BY <1>3
<1>. QED
  BY <1>4, <1>5, <1>6, <1>7

\* When one summand is replaced, the sum changes by the difference.
LEMMA TotalChange ==
  ASSUME NEW f, NEW g, NEW S, IsFiniteSet(S), NEW y \in S,
         \A x \in S : f[x] \in Int /\ g[x] \in Int,
         \A x \in S \ {y} : f[x] = g[x]
  PROVE  Total(g, S) = Total(f, S) - f[y] + g[y]
<1>1. IsFiniteSet(S \ {y})
  BY FS_Subset
<1>2. Total(f, S) = f[y] + Total(f, S \ {y})
  BY TotalRemove
<1>3. Total(g, S) = g[y] + Total(g, S \ {y})
  BY TotalRemove
<1>4. Total(f, S \ {y}) = Total(g, S \ {y})
  BY <1>1, TotalSame
<1>5. Total(f, S \ {y}) \in Int
  BY <1>1, TotalType
<1>. QED
  BY <1>2, <1>3, <1>4, <1>5

\* A sum of zeros is 0.
LEMMA TotalZero ==
  ASSUME NEW f, NEW S, IsFiniteSet(S), \A x \in S : f[x] = 0
  PROVE  Total(f, S) = 0
<1> DEFINE bad == {s \in SUBSET S : Total(f, s) # 0}
<1> SUFFICES ASSUME bad # {} PROVE FALSE
  OBVIOUS
<1>0. bad \in SUBSET (SUBSET S)
  OBVIOUS
<1>1. PICK m \in bad : \A s \in bad : ~(s \subseteq m /\ s # m)
  <2> HIDE DEF bad
  <2>. QED BY <1>0, SmallestSubset
<1>2. m # {}
  BY TotalEmpty
<1>3. Pick(m) \in m /\ IsFiniteSet(m)
  BY <1>2, PickIn, FS_Subset
<1>4. Total(f, m \ {Pick(m)}) = 0
  BY <1>1, <1>3
<1>5. Total(f, m) = f[Pick(m)] + Total(f, m \ {Pick(m)})
  BY <1>2, <1>3, TotalPick
<1>. QED
  BY <1>3, <1>4, <1>5

\* The sum over S is that over a part of S and that over the rest.
LEMMA TotalParts ==
  ASSUME NEW f, NEW S, IsFiniteSet(S), \A x \in S : f[x] \in Int, NEW T \in SUBSET S
  PROVE  Total(f, S) = Total(f, T) + Total(f, S \ T)
<1> DEFINE bad == {s \in SUBSET S : Total(f, s) # Total(f, s \cap T) + Total(f, s \ T)}
<1> SUFFICES ASSUME bad # {} PROVE FALSE
  <2>1. S \cap T = T
    OBVIOUS
  <2>. QED BY <2>1
<1>0. bad \in SUBSET (SUBSET S)
  OBVIOUS
<1>1. PICK m \in bad : \A s \in bad : ~(s \subseteq m /\ s # m)
  <2> HIDE DEF bad
  <2>. QED BY <1>0, SmallestSubset
<1>2. m # {}
  <2>1. {} \cap T = {} /\ {} \ T = {}
    OBVIOUS
  <2>. QED BY <2>1, TotalEmpty
<1> DEFINE p == Pick(m)  r == m \ {p}
<1>3. p \in m /\ IsFiniteSet(m)
  BY <1>2, PickIn, FS_Subset
<1>4. Total(f, r) = Total(f, r \cap T) + Total(f, r \ T)
  BY <1>1, <1>3
<1>5. Total(f, m) = f[p] + Total(f, r)
  BY <1>2, <1>3, TotalPick
<1>6. f[p] \in Int /\ IsFiniteSet(m \cap T) /\ IsFiniteSet(m \ T)
  BY <1>3, FS_Subset
<1>9. Total(f, r \cap T) \in Int /\ Total(f, r \ T) \in Int
  <2>1. IsFiniteSet(r \cap T) /\ IsFiniteSet(r \ T)
    BY <1>3, FS_Subset
  <2>2. r \cap T \subseteq S /\ r \ T \subseteq S
    OBVIOUS
  <2> HIDE DEF r
  <2>. QED BY <2>1, <2>2, TotalType
<1>7. CASE p \in T
  <2>1. /\ Total(f, (m \cap T) \ {p}) = Total(f, r \cap T)
        /\ Total(f, m \ T) = Total(f, r \ T)
    <3>1. (m \cap T) \ {p} = r \cap T /\ m \ T = r \ T
      BY <1>7
    <3>. QED BY <3>1
  <2>2. Total(f, m \cap T) = f[p] + Total(f, (m \cap T) \ {p})
    <3> HIDE DEF p
    <3>. QED BY <1>3, <1>6, <1>7, TotalRemove
  <2>. QED
    <3>1. Total(f, m) = Total(f, m \cap T) + Total(f, m \ T)
      <4> HIDE DEF p, r
      <4>. QED BY <2>1, <2>2, <1>4, <1>5, <1>6, <1>9
    <3>. QED BY <3>1
<1>8. CASE p \notin T
  <2>1. /\ Total(f, (m \ T) \ {p}) = Total(f, r \ T)
        /\ Total(f, m \cap T) = Total(f, r \cap T)
    <3>1. (m \ T) \ {p} = r \ T /\ m \cap T = r \cap T
      BY <1>8
    <3>. QED BY <3>1
  <2>2. Total(f, m \ T) = f[p] + Total(f, (m \ T) \ {p})
    <3> HIDE DEF p
    <3>. QED BY <1>3, <1>6, <1>8, TotalRemove
  <2>. QED
    <3>1. Total(f, m) = Total(f, m \cap T) + Total(f, m \ T)
      <4> HIDE DEF p, r
      <4>. QED BY <2>1, <2>2, <1>4, <1>5, <1>6, <1>9
    <3>. QED BY <3>1
<1>. QED
  BY <1>7, <1>8

\* Larger summands have a larger sum.
LEMMA TotalAtMost ==
  ASSUME NEW f, NEW g, NEW S, IsFiniteSet(S),
         \A x \in S : f[x] \in Int /\ g[x] \in Int /\ f[x] <= g[x]
  PROVE  Total(f, S) <= Total(g, S)
<1> DEFINE bad == {s \in SUBSET S : ~(Total(f, s) <= Total(g, s))}
<1> SUFFICES ASSUME bad # {} PROVE FALSE
  OBVIOUS
<1>0. bad \in SUBSET (SUBSET S)
  OBVIOUS
<1>1. PICK m \in bad : \A s \in bad : ~(s \subseteq m /\ s # m)
  <2> HIDE DEF bad
  <2>. QED BY <1>0, SmallestSubset
<1>2. m # {}
  BY TotalEmpty
<1> DEFINE p == Pick(m)  r == m \ {p}
<1>3. p \in m /\ IsFiniteSet(m) /\ IsFiniteSet(r)
  BY <1>2, PickIn, FS_Subset
<1>4. Total(f, r) <= Total(g, r)
  BY <1>1, <1>3
<1>5. Total(f, m) = f[p] + Total(f, r)
  BY <1>2, <1>3, TotalPick
<1>6. Total(g, m) = g[p] + Total(g, r)
  BY <1>2, <1>3, TotalPick
<1>7. Total(f, r) \in Int /\ Total(g, r) \in Int
  BY <1>3, TotalType
<1>8. f[p] \in Int /\ g[p] \in Int /\ f[p] <= g[p]
  BY <1>3
<1>. QED
  BY <1>4, <1>5, <1>6, <1>7, <1>8

\* A sum of natural numbers is one, and at least each of them.
LEMMA TotalNat ==
  ASSUME NEW f, NEW S, IsFiniteSet(S), \A x \in S : f[x] \in Nat
  PROVE  /\ Total(f, S) \in Nat
         /\ \A x \in S : f[x] <= Total(f, S)
<1> DEFINE zero == [x \in S |-> 0]
<1>1. ASSUME NEW T \in SUBSET S
      PROVE  Total(f, T) \in Nat
  <2>1. IsFiniteSet(T)
    BY FS_Subset
  <2>2. Total(zero, T) = 0
    BY <2>1, TotalZero
  <2>3. Total(zero, T) <= Total(f, T)
    BY <2>1, TotalAtMost
  <2>4. Total(f, T) \in Int
    BY <2>1, TotalType
  <2>. QED
    BY <2>2, <2>3, <2>4
<1>2. ASSUME NEW x \in S
      PROVE  f[x] <= Total(f, S)
  <2>1. Total(f, S) = f[x] + Total(f, S \ {x})
    BY TotalRemove
  <2>. QED
    BY <1>1, <2>1
<1>. QED
  BY <1>1, <1>2

\* The sum of two functions is the sum of their sums.
LEMMA TotalPlus ==
  ASSUME NEW f, NEW g, NEW h, NEW S, IsFiniteSet(S),
         \A x \in S : f[x] \in Int /\ g[x] \in Int /\ h[x] = f[x] + g[x]
  PROVE  Total(h, S) = Total(f, S) + Total(g, S)
<1> DEFINE bad == {s \in SUBSET S : Total(h, s) # Total(f, s) + Total(g, s)}
<1> SUFFICES ASSUME bad # {} PROVE FALSE
  OBVIOUS
<1>0. bad \in SUBSET (SUBSET S)
  OBVIOUS
<1>1. PICK m \in bad : \A s \in bad : ~(s \subseteq m /\ s # m)
  <2> HIDE DEF bad
  <2>. QED BY <1>0, SmallestSubset
<1>2. m # {}
  <2>1. Total(f, {}) = 0 /\ Total(g, {}) = 0 /\ Total(h, {}) = 0
    BY TotalEmpty
  <2>2. Total(h, {}) = Total(f, {}) + Total(g, {})
    BY <2>1
  <2>. QED BY <2>2
<1> DEFINE p == Pick(m)  r == m \ {p}
<1>3. p \in m /\ IsFiniteSet(m) /\ IsFiniteSet(r)
  BY <1>2, PickIn, FS_Subset
<1>4. Total(h, r) = Total(f, r) + Total(g, r)
  BY <1>1, <1>3
<1>5. /\ Total(f, m) = f[p] + Total(f, r)
      /\ Total(g, m) = g[p] + Total(g, r)
      /\ Total(h, m) = h[p] + Total(h, r)
  BY <1>2, <1>3, TotalPick
<1>7. Total(f, r) \in Int /\ Total(g, r) \in Int
  BY <1>3, TotalType
<1>8. f[p] \in Int /\ g[p] \in Int /\ h[p] = f[p] + g[p]
  BY <1>3
<1>. QED
  BY <1>4, <1>5, <1>7, <1>8

\* Summands that are 0 outside of T may be left out.
LEMMA TotalMask ==
  ASSUME NEW f, NEW g, NEW S, IsFiniteSet(S), NEW T \in SUBSET S,
         \A x \in T : f[x] \in Int /\ g[x] = f[x],
         \A x \in S \ T : g[x] = 0
  PROVE  Total(g, S) = Total(f, T)
<1>1. IsFiniteSet(T) /\ IsFiniteSet(S \ T)
  BY FS_Subset
<1>2. Total(g, S) = Total(g, T) + Total(g, S \ T)
  <2>1. \A x \in S : g[x] \in Int
    OBVIOUS
  <2>. QED BY <2>1, TotalParts
<1>3. Total(g, T) = Total(f, T)
  BY <1>1, TotalSame
<1>4. Total(g, S \ T) = 0
  BY <1>1, TotalZero
<1>5. Total(f, T) \in Int
  BY <1>1, TotalType
<1>. QED
  BY <1>2, <1>3, <1>4, <1>5

-----------------------------------------------------------------------------
(* Rows in the order of their numbers.                                     *)

\* The numbers of S up to n, and their count.
Upto(S, n) == {m \in S : m <= n}
LEMMA UptoCount ==
  ASSUME NEW N \in Nat, NEW S \in SUBSET (1..N)
  PROVE  /\ \A m \in S : m \in Nat /\ m # 0 /\ m <= N
         /\ IsFiniteSet(S) /\ Cardinality(S) \in Nat /\ Cardinality(S) <= N
         /\ \A n : IsFiniteSet(Upto(S, n)) /\ Cardinality(Upto(S, n)) \in Nat
                   /\ Cardinality(Upto(S, n)) <= Cardinality(S)
<1>1. IsFiniteSet(1..N) /\ Cardinality(1..N) = N
  BY FS_Interval
<1>2. IsFiniteSet(S) /\ Cardinality(S) <= N
  BY <1>1, FS_Subset
<1>3. \A n : Upto(S, n) \in SUBSET S
  BY DEF Upto
<1>4. \A n : IsFiniteSet(Upto(S, n)) /\ Cardinality(Upto(S, n)) <= Cardinality(S)
  BY <1>2, <1>3, FS_Subset
<1>. QED
  BY <1>2, <1>4, FS_CardinalityType

\* The rank of a number among those of S grows with it.
LEMMA RankGrows ==
  ASSUME NEW N \in Nat, NEW S \in SUBSET (1..N), NEW x \in Nat, NEW y \in S, x < y
  PROVE  Cardinality(Upto(S, x)) < Cardinality(Upto(S, y))
<1>1. \A m \in S : m \in Nat
  OBVIOUS
<1>2. y \in Upto(S, y)
  BY <1>1 DEF Upto
<1>3. \A m \in Upto(S, x) : m \in Upto(S, y) /\ m # y
  BY <1>1 DEF Upto
<1>4. Upto(S, x) \subseteq Upto(S, y) \ {y}
  BY <1>3
<1>5. /\ IsFiniteSet(Upto(S, y) \ {y})
      /\ Cardinality(Upto(S, y) \ {y}) = Cardinality(Upto(S, y)) - 1
  BY <1>2, UptoCount, FS_RemoveElement
<1>6. Cardinality(Upto(S, x)) <= Cardinality(Upto(S, y) \ {y})
  BY <1>4, <1>5, FS_Subset
<1>7. Cardinality(Upto(S, x)) \in Nat /\ Cardinality(Upto(S, y)) \in Nat
  BY UptoCount
<1>. QED
  BY <1>5, <1>6, <1>7

\* Each of the ranks is that of a member.
LEMMA RankReached ==
  ASSUME NEW N \in Nat, NEW S \in SUBSET (1..N), NEW k \in 1..Cardinality(S)
  PROVE  \E l \in S : Cardinality(Upto(S, l)) = k
<1> DEFINE Count(n) == Cardinality(Upto(S, n))
           T == {n \in Nat : Count(n) >= k}
<1>1. \A m \in S : m \in Nat /\ m # 0 /\ m <= N
  OBVIOUS
<1>2. Cardinality(S) \in Nat /\ \A n : Count(n) \in Nat
  BY UptoCount
<1>3. N \in T
  <2>1. Upto(S, N) = S
    BY <1>1 DEF Upto
  <2>. QED BY <1>2, <2>1
<1>4. PICK n \in T : \A p \in T : ~(p < n)
  <2>1. IsWellFoundedOn(OpToRel(<, Nat), Nat)
    BY NatLessThanWellFounded
  <2>2. PICK n \in T : \A p \in T : ~(<<p, n>> \in OpToRel(<, Nat))
    <3> HIDE DEF Count
    <3>1. T \subseteq Nat /\ T # {}
      BY <1>3
    <3>. QED BY <2>1, <3>1, WFMin
  <2>. QED BY <2>2 DEF OpToRel
<1>5. n # 0
  <2>0. \A m \in S : ~(m <= 0)
    BY <1>1
  <2>1. Upto(S, 0) = {}
    BY <2>0 DEF Upto
  <2>. QED BY <2>1, FS_EmptySet
<1>6. n - 1 \in Nat /\ Count(n - 1) < k /\ Count(n) >= k
  BY <1>2, <1>4, <1>5
<1>7. CASE n \notin S
  <2>1. \A m \in S : m <= n <=> m <= n - 1
    BY <1>1, <1>6, <1>7
  <2>2. Upto(S, n) = Upto(S, n - 1)
    BY <2>1 DEF Upto
  <2>. QED BY <1>2, <1>6, <2>2
<1>8. CASE n \in S
  <2>1. \A m \in S : m <= n <=> m <= n - 1 \/ m = n
    BY <1>1, <1>6, <1>8
  <2>2. /\ \A m : m \in Upto(S, n) <=> m \in Upto(S, n - 1) \/ m = n
        /\ n \notin Upto(S, n - 1)
    <3>1. n \in Nat /\ ~(n <= n - 1)
      BY <1>6
    <3>. QED BY <1>8, <2>1, <3>1 DEF Upto
  <2>3. Count(n) = Count(n - 1) + 1
    <3>1. Upto(S, n) = Upto(S, n - 1) \cup {n}
      BY <2>2
    <3>2. IsFiniteSet(Upto(S, n - 1))
      BY UptoCount
    <3>3. Cardinality(Upto(S, n - 1) \cup {n}) = Cardinality(Upto(S, n - 1)) + 1
      BY <2>2, <3>2, FS_AddElement
    <3>. QED BY <3>1, <3>3
  <2>. QED BY <1>2, <1>6, <1>8, <2>3
<1>. QED
  BY <1>7, <1>8

\* InOrder lists every member once.
LEMMA OrderLists ==
  ASSUME NEW N \in Nat, NEW S \in SUBSET (1..N)
  PROVE  /\ Cardinality(S) \in Nat /\ Cardinality(S) <= N
         /\ InOrder(S) \in Seq(S) /\ Len(InOrder(S)) = Cardinality(S)
         /\ DOMAIN InOrder(S) = 1..Cardinality(S)
         /\ \A j, k \in DOMAIN InOrder(S) : InOrder(S)[j] = InOrder(S)[k] => j = k
         /\ \A l \in S : \E k \in DOMAIN InOrder(S) : InOrder(S)[k] = l
<1> DEFINE q == InOrder(S)
           Rank(l) == Cardinality(Upto(S, l))
<1>1. /\ Cardinality(S) \in Nat /\ Cardinality(S) <= N
      /\ \A l : Rank(l) \in Nat /\ Rank(l) <= Cardinality(S)
  BY UptoCount
<1>2. q = [k \in 1..Cardinality(S) |-> CHOOSE l \in S : Rank(l) = k]
  BY DEF InOrder, Upto
<1>3. \A k \in 1..Cardinality(S) : \E l \in S : Rank(l) = k
  BY RankReached
<1>4. \A k \in 1..Cardinality(S) : q[k] \in S /\ Rank(q[k]) = k
  <2> HIDE DEF q, Rank
  <2>. QED BY <1>2, <1>3
<1>5. \A l, m \in S : Rank(l) = Rank(m) => l = m
  <2> SUFFICES ASSUME NEW l \in S, NEW m \in S, l # m PROVE Rank(l) # Rank(m)
    OBVIOUS
  <2>0. l \in Nat /\ m \in Nat
    OBVIOUS
  <2>1. CASE l < m
    <3>1. Rank(l) < Rank(m)
      BY <2>0, <2>1, RankGrows
    <3>. QED BY <3>1, <1>1
  <2>2. CASE m < l
    <3>1. Rank(m) < Rank(l)
      BY <2>0, <2>2, RankGrows
    <3>. QED BY <3>1, <1>1
  <2>. QED BY <2>0, <2>1, <2>2
<1>6. ASSUME NEW l \in S PROVE Rank(l) \in 1..Cardinality(S)
  <2>1. l \in Nat /\ l \in Upto(S, l)
    BY DEF Upto
  <2>2. Rank(l) # 0
    BY <2>1, UptoCount, FS_EmptySet
  <2>. QED BY <1>1, <2>2
<1>7. q \in Seq(S) /\ Len(q) = Cardinality(S) /\ DOMAIN q = 1..Cardinality(S)
  <2> HIDE DEF Rank
  <2>0. DOMAIN q = 1..Cardinality(S)
    BY <1>2
  <2>1. q \in [1..Cardinality(S) -> S]
    BY <1>2, <1>4
  <2> HIDE DEF q
  <2>. QED BY <1>1, <2>0, <2>1
<1>. HIDE DEF q, Rank
<1>8. \A l \in S : \E k \in DOMAIN q : q[k] = l
  BY <1>4, <1>5, <1>6, <1>7
<1>9. \A j, k \in DOMAIN q : q[j] = q[k] => j = k
  BY <1>4, <1>7
<1>. QED
  BY <1>1, <1>7, <1>8, <1>9 DEF q
=============================================================================
