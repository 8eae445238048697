----------------------------- MODULE SumLemmas -----------------------------
(***************************************************************************)
(* What the sums of the models are (SumFunctionOnSet of Functions, a fold  *)
(* over a set): the sum of a finite set of integers does not depend on the *)
(* order in which the fold chooses them, so an element may be taken out of *)
(* it or added to it.  The facts of the library from which this follows by *)
(* induction are second-order; here each induction is over the smallest    *)
(* subset that would refute the claim.                                     *)
(***************************************************************************)
EXTENDS Integers, Functions, FiniteSetTheorems, TLAPS

\* A set of subsets of a finite set has a member that includes no other.
LEMMA MinimalSubset ==
  ASSUME NEW S, IsFiniteSet(S), NEW C, C \subseteq SUBSET S, C # {}
  PROVE  \E s \in C : \A t \in C : t \subseteq s => t = s
<1>1. IsWellFoundedOn(StrictSubsetOrdering(S), SUBSET S)
  BY FS_StrictSubsetOrderingWellFounded, FS_FiniteSubsetsOfFinite
<1>2. PICK s \in C : \A t \in C : <<t, s>> \notin StrictSubsetOrdering(S)
  BY <1>1, WFMin
<1>. QED
  BY <1>2 DEF StrictSubsetOrdering

\* A set of naturals has a least member.
LEMMA LeastNumber ==
  ASSUME NEW C, C \subseteq Nat, C # {}
  PROVE  \E n \in C : \A m \in C : n <= m
<1>1. PICK k \in C : TRUE
  OBVIOUS
<1>. DEFINE K == 0 .. k
            B == {s \in SUBSET K : \E n \in C : s = 0 .. n}
<1>2. IsFiniteSet(K)
  BY FS_Interval
<1>3. B \subseteq SUBSET K /\ K \in B
  OBVIOUS
<1>4. PICK s \in B : \A t \in B : t \subseteq s => t = s
  <2>. HIDE DEF B, K
  <2>. QED
    BY <1>2, <1>3, MinimalSubset
<1>5. PICK n \in C : s = 0 .. n
  OBVIOUS
<1>6. ASSUME NEW m \in C, m < n PROVE FALSE
  <2>1. 0 .. m \in SUBSET K /\ 0 .. m \subseteq s /\ n \notin 0 .. m /\ n \in s
    BY <1>5, <1>6
  <2>. QED
    BY <1>4, <2>1
<1>. QED
  BY <1>6

-----------------------------------------------------------------------------
(* The fold has a value *)

Pick(s) == CHOOSE x \in s : TRUE

\* What the fold over s adds up, given its values for smaller sets, and that g is
\* the function of these values for the subsets of S.
OneMore(f, g, s) == IF s = {} THEN 0 ELSE f[Pick(s)] + g[s \ {Pick(s)}]

SumsUp(g, f, S) == g = [s \in SUBSET S |-> OneMore(f, g, s)]

\* Two such functions agree where they are both defined and have the same summands.
LEMMA FoldUnique ==
  ASSUME NEW S, IsFiniteSet(S), NEW f, NEW g, NEW k, NEW h, NEW T, NEW U,
         SumsUp(g, f, T), SumsUp(h, k, U), S \subseteq T, S \subseteq U,
         \A x \in S : f[x] = k[x]
  PROVE  \A s \in SUBSET S : g[s] = h[s]
<1>. DEFINE C == {s \in SUBSET S : g[s] # h[s]}
<1>. SUFFICES ASSUME C # {} PROVE FALSE
  OBVIOUS
<1>0. C \subseteq SUBSET S
  OBVIOUS
<1>1. PICK s \in C : \A t \in C : t \subseteq s => t = s
  <2>. HIDE DEF C
  <2>. QED
    BY <1>0, MinimalSubset
<1>2. g[s] = OneMore(f, g, s) /\ h[s] = OneMore(k, h, s)
  BY DEF SumsUp
<1>3. CASE s = {}
  BY <1>2, <1>3 DEF OneMore
<1>4. CASE s # {}
  <2>. DEFINE p == Pick(s)
  <2>1. p \in s
    BY <1>4 DEF Pick
  <2>2. s \ {p} \notin C
    BY <1>1, <2>1
  <2>3. f[p] = k[p] /\ g[s \ {p}] = h[s \ {p}]
    BY <2>1, <2>2
  <2>. QED
    BY <1>2, <1>4, <2>3 DEF OneMore
<1>. QED
  BY <1>3, <1>4

\* There is one for every finite set: with those of its proper subsets, one more step.
LEMMA FoldExists ==
  ASSUME NEW S, IsFiniteSet(S), NEW f
  PROVE  \E g : SumsUp(g, f, S)
<1>. DEFINE C == {s \in SUBSET S : ~ \E g : SumsUp(g, f, s)}
<1>. SUFFICES ASSUME C # {} PROVE FALSE
  OBVIOUS
<1>0. C \subseteq SUBSET S
  OBVIOUS
<1>1. PICK U \in C : \A t \in C : t \subseteq U => t = U
  <2>. HIDE DEF C
  <2>. QED
    BY <1>0, MinimalSubset
<1>. DEFINE G(V) == (CHOOSE g : SumsUp(g, f, V))[V]
            g == [s \in SUBSET U |-> IF s = {} THEN 0 ELSE f[Pick(s)] + G(s \ {Pick(s)})]
<1>2. \A V \in SUBSET U : V # U => G(V) = OneMore(f, [s \in SUBSET U |-> G(s)], V)
  <2>. SUFFICES ASSUME NEW V \in SUBSET U, V # U
               PROVE  G(V) = OneMore(f, [s \in SUBSET U |-> G(s)], V)
    OBVIOUS
  <2>. DEFINE h == CHOOSE g1 : SumsUp(g1, f, V)
  <2>1. SumsUp(h, f, V)
    BY <1>1
  <2>2. h[V] = OneMore(f, h, V)
    BY <2>1 DEF SumsUp
  <2>3. CASE V = {}
    BY <2>2, <2>3 DEF OneMore
  <2>4. CASE V # {}
    <3>. DEFINE W == V \ {Pick(V)}
                i == CHOOSE g1 : SumsUp(g1, f, W)
    <3>1. W \in SUBSET U /\ W # U /\ W \subseteq V
      OBVIOUS
    <3>2. SumsUp(i, f, W)
      BY <1>1, <3>1
    <3>3. IsFiniteSet(W)
      BY <3>1, FS_Subset
    <3>4. h[W] = i[W]
      BY <3>1, <3>2, <3>3, <2>1, FoldUnique
    <3>. QED
      BY <2>2, <2>4, <3>1, <3>4 DEF OneMore
  <2>. QED
    BY <2>3, <2>4
<1>3. \A V \in SUBSET U : V # U => g[V] = G(V)
  BY <1>2 DEF OneMore
<1>4. SumsUp(g, f, U)
  <2>. SUFFICES ASSUME NEW s \in SUBSET U
               PROVE  g[s] = OneMore(f, g, s)
    BY DEF SumsUp
  <2>1. CASE s = {}
    BY <2>1 DEF OneMore
  <2>2. CASE s # {}
    <3>1. Pick(s) \in s
      BY <2>2 DEF Pick
    <3>2. s \ {Pick(s)} \in SUBSET U /\ s \ {Pick(s)} # U
      BY <3>1
    <3>3. g[s \ {Pick(s)}] = G(s \ {Pick(s)})
      BY <3>2, <1>3
    <3>4. g[s] = f[Pick(s)] + G(s \ {Pick(s)})
      BY <2>2
    <3>. HIDE DEF g, G
    <3>. QED
      BY <2>2, <3>3, <3>4 DEF OneMore
  <2>. QED
    BY <2>1, <2>2
<1>. QED
  BY <1>4

\* So the fold of Functions is one of them.
LEMMA TotalSumsUp ==
  ASSUME NEW S, IsFiniteSet(S), NEW f
  PROVE  \E g : SumsUp(g, f, S) /\ SumFunctionOnSet(f, S) = g[S]
<1>. DEFINE g == CHOOSE h : SumsUp(h, f, S)
<1>1. SumsUp(g, f, S)
  BY FoldExists
<1>2. SumFunctionOnSet(f, S) = g[S]
  BY DEF SumFunctionOnSet, FoldFunctionOnSet, MapThenFoldSet, Pick, OneMore, SumsUp
<1>. QED
  BY <1>1, <1>2

\* It yields the sum of every subset, too.
LEMMA TotalOfSubset ==
  ASSUME NEW S, IsFiniteSet(S), NEW f, NEW g, SumsUp(g, f, S), NEW T \in SUBSET S
  PROVE  g[T] = SumFunctionOnSet(f, T)
<1>1. IsFiniteSet(T)
  BY FS_Subset
<1>2. PICK h : SumsUp(h, f, T) /\ SumFunctionOnSet(f, T) = h[T]
  BY <1>1, TotalSumsUp
<1>. QED
  BY <1>1, <1>2, FoldUnique

\* No summands add up to zero.
LEMMA SumOfNone == \A f : SumFunctionOnSet(f, {}) = 0
<1>. TAKE f
<1>1. PICK g : SumsUp(g, f, {}) /\ SumFunctionOnSet(f, {}) = g[{}]
  BY TotalSumsUp, FS_EmptySet
<1>. QED
  BY <1>1 DEF SumsUp, OneMore

\* One step of the fold.
LEMMA SumUnfolds ==
  ASSUME NEW S, IsFiniteSet(S), S # {}, NEW f
  PROVE  SumFunctionOnSet(f, S) = f[Pick(S)] + SumFunctionOnSet(f, S \ {Pick(S)})
<1>1. PICK g : SumsUp(g, f, S) /\ SumFunctionOnSet(f, S) = g[S]
  BY TotalSumsUp
<1>2. g[S \ {Pick(S)}] = SumFunctionOnSet(f, S \ {Pick(S)})
  BY <1>1, TotalOfSubset
<1>3. g[S] = OneMore(f, g, S)
  BY <1>1 DEF SumsUp
<1>. QED
  BY <1>1, <1>2, <1>3 DEF OneMore

\* A sum of integers is one.
LEMMA SumType ==
  ASSUME NEW S, IsFiniteSet(S), NEW f, \A x \in S : f[x] \in Int
  PROVE  SumFunctionOnSet(f, S) \in Int
<1>. DEFINE C == {s \in SUBSET S : SumFunctionOnSet(f, s) \notin Int}
<1>. SUFFICES ASSUME C # {} PROVE FALSE
  OBVIOUS
<1>0. C \subseteq SUBSET S
  OBVIOUS
<1>1. PICK s \in C : \A t \in C : t \subseteq s => t = s
  <2>. HIDE DEF C
  <2>. QED
    BY <1>0, MinimalSubset
<1>2. s # {}
  BY SumOfNone
<1>3. Pick(s) \in s
  BY <1>2 DEF Pick
<1>4. SumFunctionOnSet(f, s \ {Pick(s)}) \in Int
  BY <1>1, <1>3
<1>5. IsFiniteSet(s)
  BY FS_Subset
<1>6. SumFunctionOnSet(f, s) = f[Pick(s)] + SumFunctionOnSet(f, s \ {Pick(s)})
  BY <1>2, <1>5, SumUnfolds
<1>. QED
  BY <1>3, <1>4, <1>6

\* Whichever element is taken out first, the sum is the same.
LEMMA SumRemove ==
  ASSUME NEW S, IsFiniteSet(S), NEW f, \A x \in S : f[x] \in Int, NEW e \in S
  PROVE  SumFunctionOnSet(f, S) = f[e] + SumFunctionOnSet(f, S \ {e})
<1>. DEFINE T(s) == SumFunctionOnSet(f, s)
            C == {s \in SUBSET S : ~ \A x \in s : T(s) = f[x] + T(s \ {x})}
<1>. SUFFICES ASSUME C # {} PROVE FALSE
  OBVIOUS
<1>0. C \subseteq SUBSET S
  OBVIOUS
<1>1. PICK s \in C : \A t \in C : t \subseteq s => t = s
  <2>. HIDE DEF C
  <2>. QED
    BY <1>0, MinimalSubset
<1>2. PICK x \in s : T(s) # f[x] + T(s \ {x})
  OBVIOUS
<1>. DEFINE p == Pick(s)
<1>3. p \in s
  BY DEF Pick
<1>4. IsFiniteSet(s)
  BY FS_Subset
<1>5. T(s) = f[p] + T(s \ {p})
  BY <1>2, <1>4, SumUnfolds
<1>6. x # p
  BY <1>2, <1>5
<1>7. s \ {p} \notin C /\ s \ {x} \notin C
  BY <1>1, <1>3
<1>8. T(s \ {p}) = f[x] + T((s \ {p}) \ {x})
  BY <1>6, <1>7
<1>9. T(s \ {x}) = f[p] + T((s \ {x}) \ {p})
  BY <1>3, <1>6, <1>7
<1>10. (s \ {x}) \ {p} = (s \ {p}) \ {x}
  OBVIOUS
<1>11. T((s \ {p}) \ {x}) \in Int
  <2>1. IsFiniteSet((s \ {p}) \ {x})
    BY <1>4, FS_Subset
  <2>. QED
    BY <2>1, SumType
<1>12. f[x] \in Int /\ f[p] \in Int
  BY <1>3
<1>13. T(s \ {x}) = f[p] + T((s \ {p}) \ {x})
  BY <1>9, <1>10
<1>14. T(s) = f[p] + (f[x] + T((s \ {p}) \ {x}))
  BY <1>5, <1>8
<1>15. ASSUME NEW a \in Int, NEW b \in Int, NEW c \in Int
       PROVE  a + (b + c) = b + (a + c)
  OBVIOUS
<1>. HIDE DEF T, p, C
<1>16. T(s) = f[x] + (f[p] + T((s \ {p}) \ {x}))
  BY <1>11, <1>12, <1>14, <1>15
<1>. QED
  BY <1>2, <1>13, <1>16

\* Equal summands have equal sums.
LEMMA SumSame ==
  ASSUME NEW S, IsFiniteSet(S), NEW f, NEW g, \A x \in S : f[x] = g[x]
  PROVE  SumFunctionOnSet(f, S) = SumFunctionOnSet(g, S)
<1>1. PICK h : SumsUp(h, f, S) /\ SumFunctionOnSet(f, S) = h[S]
  BY TotalSumsUp
<1>2. PICK k : SumsUp(k, g, S) /\ SumFunctionOnSet(g, S) = k[S]
  BY TotalSumsUp
<1>. QED
  BY <1>1, <1>2, FoldUnique

\* A sum with one more summand, the others being what they were.
LEMMA SumGrows ==
  ASSUME NEW S, IsFiniteSet(S), NEW e, e \notin S, NEW f, NEW g,
         g[e] \in Int, \A x \in S : f[x] \in Int /\ g[x] = f[x]
  PROVE  SumFunctionOnSet(g, S \cup {e}) = SumFunctionOnSet(f, S) + g[e]
<1>1. IsFiniteSet(S \cup {e})
  BY FS_AddElement
<1>2. SumFunctionOnSet(g, S \cup {e}) = g[e] + SumFunctionOnSet(g, (S \cup {e}) \ {e})
  BY <1>1, SumRemove
<1>3. (S \cup {e}) \ {e} = S
  OBVIOUS
<1>4. SumFunctionOnSet(g, S) = SumFunctionOnSet(f, S)
  BY SumSame
<1>5. SumFunctionOnSet(g, S \cup {e}) = g[e] + SumFunctionOnSet(f, S)
  BY <1>2, <1>3, <1>4, Zenon
<1>6. SumFunctionOnSet(f, S) \in Int
  BY SumType
<1>. QED
  BY <1>5, <1>6

\* A sum of which one summand changes.
LEMMA SumChanges ==
  ASSUME NEW S, IsFiniteSet(S), NEW e \in S, NEW f, NEW g,
         \A x \in S : f[x] \in Int, g[e] \in Int, \A x \in S : x # e => g[x] = f[x]
  PROVE  SumFunctionOnSet(g, S) = SumFunctionOnSet(f, S) + (g[e] - f[e])
<1>. DEFINE R == S \ {e}
<1>1. IsFiniteSet(R) /\ (\A x \in R : f[x] \in Int /\ g[x] = f[x]) /\ \A x \in S : g[x] \in Int
  BY FS_RemoveElement
<1>2. SumFunctionOnSet(f, S) = f[e] + SumFunctionOnSet(f, R)
  BY SumRemove
<1>3. SumFunctionOnSet(g, S) = g[e] + SumFunctionOnSet(g, R)
  BY <1>1, SumRemove
<1>. HIDE DEF R
<1>4. SumFunctionOnSet(g, R) = SumFunctionOnSet(f, R)
  BY <1>1, SumSame
<1>5. SumFunctionOnSet(f, R) \in Int /\ f[e] \in Int
  BY <1>1, SumType
<1>. QED
  BY <1>2, <1>3, <1>4, <1>5

=============================================================================
