-------------------------- MODULE NachaFileProofs --------------------------
(***************************************************************************)
(* What the bank file of NachaFile says, for any radix, widths and files:  *)
(* a file whose numbers fit is accepted, and an accepted file whose total  *)
(* fits says what was asked for, batch by batch and entry by entry.        *)
(*                                                                         *)
(* A number that fits its columns is the value read from them; one that    *)
(* does not reads as less than it is, so that an equal sum leaves no entry *)
(* that overflowed.  Inductions over numbers, digits and sequences are     *)
(* over the least number or the shortest sequence that would refute them.  *)
(***************************************************************************)
EXTENDS NachaFile, SumLemmas, SequenceTheorems, TLAPS

-----------------------------------------------------------------------------
(* Sequences                                                                 *)

\* Of some sequences one of the shortest: it is empty, or what is before its last
\* element is not one of them.
LEMMA ShortestSequence ==
  ASSUME NEW S, NEW C, C \subseteq Seq(S), C # {}
  PROVE  \E s \in C : s = <<>> \/ \E t \in Seq(S), e \in S : s = Append(t, e) /\ t \notin C
<1>. DEFINE N == {Len(s) : s \in C}
<1>1. N \subseteq Nat /\ N # {}
  BY LenProperties
<1>2. PICK n \in N : \A m \in N : n <= m
  <2>. HIDE DEF N
  <2>. QED
    BY <1>1, LeastNumber
<1>3. PICK s \in C : Len(s) = n
  OBVIOUS
<1>4. s \in Seq(S)
  OBVIOUS
<1>5. CASE s # <<>>
  <2>1. PICK t \in Seq(S), e \in S : s = Append(t, e)
    BY <1>4, <1>5, SequenceEmptyOrAppend
  <2>2. Len(s) = Len(t) + 1 /\ Len(t) \in Nat
    BY <2>1, AppendProperties, LenProperties
  <2>3. t \notin C
    <3>1. ASSUME t \in C PROVE FALSE
      <4>1. Len(t) \in N
        BY <3>1
      <4>. QED
        BY <1>2, <1>3, <2>2, <4>1
    <3>. QED
      BY <3>1
  <2>. QED
    BY <2>1, <2>3
<1>. QED
  BY <1>5

\* Two ways of flattening agree as far as their sequences do.
Flattens(g, s, n) ==
    g = [i \in 1 .. n |-> IF i = 1 THEN s[i] ELSE g[i - 1] \o s[i]]

LEMMA FlattensUnique ==
  ASSUME NEW m \in Nat, NEW n \in Nat, m <= n, NEW s, NEW t,
         \A i \in 1 .. m : s[i] = t[i],
         NEW g, Flattens(g, s, m), NEW h, Flattens(h, t, n)
  PROVE  \A i \in 1 .. m : g[i] = h[i]
<1>. DEFINE C == {k \in 1 .. m : g[k] # h[k]}
<1>0. ASSUME C # {} PROVE FALSE
  <2>1. PICK k \in C : \A j \in C : k <= j
    <3>1. C \subseteq Nat
      OBVIOUS
    <3>. HIDE DEF C
    <3>. QED
      BY <1>0, <3>1, LeastNumber
  <2>2. k \in 1 .. m /\ k \in 1 .. n /\ g[k] # h[k]
    OBVIOUS
  <2>3. /\ g[k] = (IF k = 1 THEN s[k] ELSE g[k - 1] \o s[k])
        /\ h[k] = (IF k = 1 THEN t[k] ELSE h[k - 1] \o t[k])
    BY <2>2 DEF Flattens
  <2>4. k # 1 /\ s[k] = t[k]
    BY <2>2, <2>3
  <2>5. k - 1 \in 1 .. m /\ k - 1 \notin C
    BY <2>1, <2>2, <2>4
  <2>. QED
    BY <2>2, <2>3, <2>4, <2>5
<1>. QED
  BY <1>0

\* There is one for every sequence of sequences, and FlattenSeq is its last.
LEMMA FlattensExists ==
  ASSUME NEW S, NEW s \in Seq(S)
  PROVE  \E g : Flattens(g, s, Len(s))
<1>. DEFINE C == {u \in Seq(S) : ~ \E g : Flattens(g, u, Len(u))}
<1>. SUFFICES ASSUME C # {} PROVE FALSE
  OBVIOUS
<1>1. PICK u \in C : u = <<>> \/ \E t \in Seq(S), e \in S : u = Append(t, e) /\ t \notin C
  <2>1. C \subseteq Seq(S)
    OBVIOUS
  <2>. HIDE DEF C
  <2>. QED
    BY <2>1, ShortestSequence
<1>2. CASE u = <<>>
  <2>1. Flattens(<<>>, u, Len(u))
    BY <1>2 DEF Flattens
  <2>. QED
    BY <2>1
<1>3. CASE \E t \in Seq(S), e \in S : u = Append(t, e) /\ t \notin C
  <2>1. PICK t \in Seq(S), e \in S : u = Append(t, e) /\ t \notin C
    BY <1>3
  <2>2. PICK f : Flattens(f, t, Len(t))
    BY <2>1
  <2>. DEFINE n == Len(t)
              g == [i \in 1 .. n + 1 |->
                      IF i = n + 1 THEN (IF n = 0 THEN e ELSE f[n] \o e) ELSE f[i]]
  <2>3. n \in Nat /\ Len(u) = n + 1 /\ u[n + 1] = e /\ \A i \in 1 .. n : u[i] = t[i]
    BY <2>1
  <2>4. ASSUME NEW i \in 1 .. n + 1
        PROVE  g[i] = IF i = 1 THEN u[i] ELSE g[i - 1] \o u[i]
    <3>1. CASE i = n + 1
      <4>1. g[i] = (IF n = 0 THEN e ELSE f[n] \o e) /\ (n # 0 => g[n] = f[n])
        BY <3>1, <2>3
      <4>. HIDE DEF g
      <4>. QED
        BY <2>3, <3>1, <4>1
    <3>2. CASE i # n + 1
      <4>1. i \in 1 .. n /\ (i # 1 => i - 1 \in 1 .. n /\ i - 1 # n + 1)
        BY <2>3, <3>2
      <4>2. f[i] = IF i = 1 THEN t[i] ELSE f[i - 1] \o t[i]
        BY <2>2, <4>1 DEF Flattens
      <4>3. g[i] = f[i] /\ (i # 1 => g[i - 1] = f[i - 1])
        BY <2>3, <3>2, <4>1
      <4>. HIDE DEF g
      <4>. QED
        BY <2>3, <4>1, <4>2, <4>3
    <3>. QED
      BY <3>1, <3>2
  <2>5. g = [i \in 1 .. n + 1 |-> g[i]]
    OBVIOUS
  <2>6. Flattens(g, u, n + 1)
    <3>. HIDE DEF g
    <3>. QED
      BY <2>4, <2>5 DEF Flattens
  <2>. QED
    BY <2>3, <2>6
<1>. QED
  BY <1>1, <1>2, <1>3

LEMMA FlattenIsLast ==
  ASSUME NEW S, NEW s \in Seq(S), s # <<>>
  PROVE  \E g : Flattens(g, s, Len(s)) /\ FlattenSeq(s) = g[Len(s)]
<1>. DEFINE g == CHOOSE h : Flattens(h, s, Len(s))
<1>1. Flattens(g, s, Len(s))
  BY FlattensExists
<1>2. Len(s) # 0
  BY EmptySeq
<1>3. FlattenSeq(s) = g[Len(s)]
  BY <1>2 DEF FlattenSeq, Flattens
<1>. QED
  BY <1>1, <1>3

\* Flattening, from the end.
LEMMA FlattenNone == FlattenSeq(<<>>) = <<>>
  BY DEF FlattenSeq

LEMMA FlattenOne ==
  ASSUME NEW S, NEW x \in S
  PROVE  FlattenSeq(Append(<<>>, x)) = x
<1>. DEFINE s == Append(<<>>, x)
<1>1. s \in Seq(S) /\ Len(s) = 1 /\ s[1] = x /\ s # <<>>
  OBVIOUS
<1>. HIDE DEF s
<1>2. PICK g : Flattens(g, s, Len(s)) /\ FlattenSeq(s) = g[Len(s)]
  BY <1>1, FlattenIsLast
<1>3. g[1] = s[1]
  BY <1>1, <1>2 DEF Flattens
<1>. QED
  BY <1>1, <1>2, <1>3 DEF s

LEMMA FlattenMore ==
  ASSUME NEW S, NEW s \in Seq(S), s # <<>>, NEW x \in S
  PROVE  FlattenSeq(Append(s, x)) = FlattenSeq(s) \o x
<1>. DEFINE t == Append(s, x)
<1>1. PICK n \in Nat \ {0} : n = Len(s)
  BY EmptySeq
<1>2. t \in Seq(S) /\ Len(t) = n + 1 /\ t # <<>> /\ t[n + 1] = x /\ \A i \in 1 .. n : s[i] = t[i]
  BY <1>1
<1>. HIDE DEF t
<1>3. PICK g : Flattens(g, s, Len(s)) /\ FlattenSeq(s) = g[Len(s)]
  BY FlattenIsLast
<1>4. PICK h : Flattens(h, t, Len(t)) /\ FlattenSeq(t) = h[Len(t)]
  BY <1>2, FlattenIsLast
<1>5. Flattens(g, s, n) /\ Flattens(h, t, n + 1) /\ n <= n + 1 /\ n + 1 \in Nat
  BY <1>1, <1>2, <1>3, <1>4
<1>6. \A i \in 1 .. n : g[i] = h[i]
  BY <1>2, <1>5, FlattensUnique
<1>7. h[n + 1] = h[n] \o t[n + 1]
  <2>1. n + 1 \in 1 .. n + 1 /\ n + 1 # 1 /\ (n + 1) - 1 = n
    BY <1>1
  <2>2. h[n + 1] = IF n + 1 = 1 THEN t[n + 1] ELSE h[(n + 1) - 1] \o t[n + 1]
    BY <1>5, <2>1 DEF Flattens
  <2>. QED
    BY <2>1, <2>2
<1>8. g[n] = h[n] /\ FlattenSeq(s) = g[n] /\ FlattenSeq(t) = h[n + 1]
  BY <1>1, <1>2, <1>3, <1>4, <1>6
<1>9. FlattenSeq(t) = FlattenSeq(s) \o x
  BY <1>2, <1>7, <1>8
<1>. QED
  BY <1>9 DEF t

\* What is flattened is a sequence of their elements.
LEMMA FlattenType ==
  ASSUME NEW S, NEW s \in Seq(Seq(S))
  PROVE  FlattenSeq(s) \in Seq(S)
<1>. DEFINE C == {u \in Seq(Seq(S)) : FlattenSeq(u) \notin Seq(S)}
<1>. SUFFICES ASSUME C # {} PROVE FALSE
  OBVIOUS
<1>1. PICK u \in C : u = <<>> \/ \E t \in Seq(Seq(S)), e \in Seq(S) : u = Append(t, e) /\ t \notin C
  <2>1. C \subseteq Seq(Seq(S))
    OBVIOUS
  <2>. HIDE DEF C
  <2>. QED
    BY <2>1, ShortestSequence
<1>2. CASE u = <<>>
  BY <1>2, FlattenNone, EmptySeq
<1>3. CASE \E t \in Seq(Seq(S)), e \in Seq(S) : u = Append(t, e) /\ t \notin C
  <2>1. PICK t \in Seq(Seq(S)), e \in Seq(S) : u = Append(t, e) /\ t \notin C
    BY <1>3
  <2>2. FlattenSeq(t) \in Seq(S)
    BY <2>1
  <2>3. CASE t = <<>>
    BY <2>1, <2>3, FlattenOne
  <2>4. CASE t # <<>>
    <3>1. FlattenSeq(u) = FlattenSeq(t) \o e
      BY <2>1, <2>4, FlattenMore
    <3>. QED
      BY <2>2, <3>1, ConcatProperties
  <2>. QED
    BY <2>3, <2>4
<1>. QED
  BY <1>1, <1>2, <1>3

LEMMA FlattenAppend ==
  ASSUME NEW S, NEW s \in Seq(Seq(S)), NEW x \in Seq(S)
  PROVE  FlattenSeq(Append(s, x)) = FlattenSeq(s) \o x
<1>1. CASE s = <<>>
  BY <1>1, FlattenOne, FlattenNone, ConcatEmptySeq
<1>2. CASE s # <<>>
  BY <1>2, FlattenMore
<1>. QED
  BY <1>1, <1>2

LEMMA IsSequence ==
  ASSUME NEW S, NEW n \in Nat, NEW m \in [1 .. n -> S]
  PROVE  m \in Seq(S) /\ Len(m) = n
<1>1. m \in Seq(S)
  OBVIOUS
<1>2. Len(m) = n
  OBVIOUS
<1>. QED
  BY <1>1, <1>2

\* How a sequence is seen to be another with one more element.
LEMMA IsAppend ==
  ASSUME NEW S, NEW s \in Seq(S), NEW x \in S, NEW t \in Seq(S), Len(t) = Len(s) + 1,
         \A i \in 1 .. Len(s) : t[i] = s[i], t[Len(s) + 1] = x
  PROVE  t = Append(s, x)
<1>. DEFINE u == Append(s, x)
<1>1. /\ u \in Seq(S) /\ Len(u) = Len(s) + 1
      /\ \A i \in 1 .. Len(s) : u[i] = s[i]
      /\ u[Len(s) + 1] = x
  BY AppendProperties
<1>2. Len(s) \in Nat
  OBVIOUS
<1>. HIDE DEF u
<1>3. \A i \in 1 .. Len(t) : t[i] = u[i]
  BY <1>1, <1>2
<1>4. t = u
  BY <1>1, <1>3, SeqEqual
<1>. QED
  BY <1>4 DEF u

LEMMA ConcatAppend ==
  ASSUME NEW S, NEW s \in Seq(S), NEW t \in Seq(S), NEW x \in S
  PROVE  s \o Append(t, x) = Append(s \o t, x)
<1>1. Append(t, x) = t \o <<x>> /\ Append(s \o t, x) = (s \o t) \o <<x>>
  BY AppendIsConcat, ConcatProperties
<1>2. <<x>> \in Seq(S)
  OBVIOUS
<1>. QED
  BY <1>1, <1>2, ConcatAssociative

-----------------------------------------------------------------------------
(* Sums of sequences                                                         *)

LEMMA SumOfEmpty == SumFunction(<<>>) = 0
  BY SumOfNone DEF SumFunction

LEMMA SumOfAppend ==
  ASSUME NEW s \in Seq(Int), NEW x \in Int
  PROVE  /\ SumFunction(s) \in Int
         /\ SumFunction(Append(s, x)) = SumFunction(s) + x
<1>. DEFINE t == Append(s, x)
            n == Len(s)
            D == 1 .. n
            e == n + 1
<1>1. /\ n \in Nat /\ DOMAIN s = D /\ DOMAIN t = D \cup {e} /\ e \notin D
      /\ t[e] = x /\ \A i \in D : s[i] \in Int /\ t[i] = s[i]
  OBVIOUS
<1>2. IsFiniteSet(D)
  BY <1>1, FS_Interval
<1>. HIDE DEF t, n, D, e
<1>3. SumFunctionOnSet(t, D \cup {e}) = SumFunctionOnSet(s, D) + t[e]
  BY <1>1, <1>2, SumGrows
<1>4. SumFunctionOnSet(s, D) \in Int
  BY <1>1, <1>2, SumType
<1>. QED
  BY <1>1, <1>3, <1>4 DEF SumFunction, t

LEMMA SumOfConcat ==
  ASSUME NEW s \in Seq(Int), NEW t \in Seq(Int)
  PROVE  SumFunction(s \o t) = SumFunction(s) + SumFunction(t)
<1>. DEFINE C == {u \in Seq(Int) : SumFunction(s \o u) # SumFunction(s) + SumFunction(u)}
<1>. SUFFICES ASSUME C # {} PROVE FALSE
  OBVIOUS
<1>1. PICK u \in C : u = <<>> \/ \E v \in Seq(Int), e \in Int : u = Append(v, e) /\ v \notin C
  <2>1. C \subseteq Seq(Int)
    OBVIOUS
  <2>. HIDE DEF C
  <2>. QED
    BY <2>1, ShortestSequence
<1>2. SumFunction(s) \in Int
  BY SumOfAppend
<1>3. CASE u = <<>>
  <2>1. s \o u = s
    BY <1>3, ConcatEmptySeq
  <2>. QED
    BY <1>2, <1>3, <2>1, SumOfEmpty
<1>4. CASE \E v \in Seq(Int), e \in Int : u = Append(v, e) /\ v \notin C
  <2>1. PICK v \in Seq(Int), e \in Int : u = Append(v, e) /\ v \notin C
    BY <1>4
  <2>2. SumFunction(s \o v) = SumFunction(s) + SumFunction(v)
    BY <2>1
  <2>3. s \o u = Append(s \o v, e) /\ s \o v \in Seq(Int)
    BY <2>1, ConcatAppend, ConcatProperties
  <2>4. SumFunction(s \o u) = SumFunction(s \o v) + e
    BY <2>3, SumOfAppend
  <2>5. SumFunction(u) = SumFunction(v) + e /\ SumFunction(v) \in Int
    BY <2>1, SumOfAppend
  <2>6. SumFunction(s \o u) # SumFunction(s) + SumFunction(u)
    OBVIOUS
  <2>. HIDE DEF C
  <2>. QED
    BY <1>2, <2>2, <2>4, <2>5, <2>6
<1>. QED
  BY <1>1, <1>3, <1>4

\* Summands that are no greater have a sum that is no greater, and an equal one only if
\* they are equal.
LEMMA SumOrder ==
  ASSUME NEW s \in Seq(Int), NEW t \in Seq(Int), Len(s) = Len(t),
         \A i \in 1 .. Len(s) : s[i] <= t[i]
  PROVE  /\ SumFunction(s) <= SumFunction(t)
         /\ SumFunction(s) = SumFunction(t) => s = t
<1>. DEFINE P(u, v) == /\ SumFunction(u) <= SumFunction(v)
                       /\ SumFunction(u) = SumFunction(v) => u = v
            Q(u, v) == Len(u) = Len(v) /\ \A i \in 1 .. Len(u) : u[i] <= v[i]
            C == {u \in Seq(Int) : ~ \A v \in Seq(Int) : Q(u, v) => P(u, v)}
<1>0. ASSUME C # {} PROVE FALSE
  <2>1. PICK u \in C : u = <<>> \/ \E w \in Seq(Int), e \in Int : u = Append(w, e) /\ w \notin C
    <3>1. C \subseteq Seq(Int)
      OBVIOUS
    <3>. HIDE DEF C
    <3>. QED
      BY <1>0, <3>1, ShortestSequence
  <2>2. PICK v \in Seq(Int) : Q(u, v) /\ ~P(u, v)
    OBVIOUS
  <2>3. CASE u = <<>>
    <3>1. v = <<>>
      BY <2>2, <2>3, EmptySeq
    <3>. QED
      BY <2>2, <2>3, <3>1, SumOfEmpty
  <2>4. CASE \E w \in Seq(Int), e \in Int : u = Append(w, e) /\ w \notin C
    <3>1. PICK w \in Seq(Int), e \in Int : u = Append(w, e) /\ w \notin C
      BY <2>4
    <3>2. Len(u) = Len(w) + 1 /\ u[Len(w) + 1] = e /\ Len(w) \in Nat
          /\ \A i \in 1 .. Len(w) : u[i] = w[i]
      BY <3>1, AppendProperties, LenProperties
    <3>3. v # <<>>
      <4>1. Len(v) = Len(w) + 1
        BY <2>2, <3>2
      <4>2. v = <<>> => Len(v) = 0
        BY EmptySeq
      <4>. QED
        BY <3>2, <4>1, <4>2
    <3>4. PICK x \in Seq(Int), f \in Int : v = Append(x, f)
      BY <3>3, SequenceEmptyOrAppend
    <3>5. Len(v) = Len(x) + 1 /\ v[Len(x) + 1] = f /\ Len(x) \in Nat
          /\ \A i \in 1 .. Len(x) : v[i] = x[i]
      BY <3>4, AppendProperties, LenProperties
    <3>6. Len(u) = Len(v) /\ \A i \in 1 .. Len(u) : u[i] <= v[i]
      BY <2>2
    <3>7. Len(w) = Len(x) /\ e <= f /\ \A i \in 1 .. Len(w) : w[i] <= x[i]
      <4>1. Len(w) = Len(x)
        BY <3>2, <3>5, <3>6
      <4>2. Len(w) + 1 \in 1 .. Len(u)
        BY <3>2
      <4>3. \A i \in 1 .. Len(w) : i \in 1 .. Len(u)
        BY <3>2
      <4>. HIDE DEF C, P, Q
      <4>. QED
        BY <3>2, <3>5, <3>6, <4>1, <4>2, <4>3
    <3>8. P(w, x)
      BY <3>1, <3>7
    <3>9. /\ SumFunction(u) = SumFunction(w) + e /\ SumFunction(w) \in Int
          /\ SumFunction(v) = SumFunction(x) + f /\ SumFunction(x) \in Int
      BY <3>1, <3>4, SumOfAppend
    <3>10. SumFunction(u) <= SumFunction(v)
      BY <3>7, <3>8, <3>9
    <3>11. ASSUME SumFunction(u) = SumFunction(v) PROVE u = v
      <4>0. SumFunction(w) <= SumFunction(x)
        BY <3>8
      <4>1. SumFunction(w) = SumFunction(x) /\ e = f
        <5>1. \A p, q \in Int : p <= q /\ e <= f /\ p + e = q + f => p = q /\ e = f
          OBVIOUS
        <5>. HIDE DEF C, P, Q
        <5>2. e <= f /\ SumFunction(w) + e = SumFunction(x) + f
          BY <3>7, <3>9, <3>11
        <5>. QED
          BY <3>9, <4>0, <5>1, <5>2
      <4>2. w = x
        BY <3>8, <4>1
      <4>. QED
        BY <3>1, <3>4, <4>1, <4>2
    <3>. QED
      BY <2>2, <3>10, <3>11
  <2>. QED
    BY <2>1, <2>3, <2>4
<1>1. s \notin C /\ Q(s, t)
  BY <1>0
<1>. QED
  BY <1>1

-----------------------------------------------------------------------------
(* Numbers read from digits                                                  *)

\* v holds the numbers read on the way.
Reads(v, lead, d, n) ==
    v = [k \in 0 .. n |-> IF k = 0 THEN lead ELSE v[k - 1] * Radix + d[k]]

\* Two ways of reading agree as far as their digits do.
LEMMA ReadsUnique ==
  ASSUME NEW m \in Nat, NEW n \in Nat, m <= n, NEW lead, NEW d, NEW e,
         \A i \in 1 .. m : d[i] = e[i],
         NEW v, Reads(v, lead, d, m), NEW w, Reads(w, lead, e, n)
  PROVE  v[m] = w[m]
<1>. DEFINE C == {k \in 0 .. m : v[k] # w[k]}
<1>0. ASSUME C # {} PROVE FALSE
  <2>1. PICK k \in C : \A j \in C : k <= j
    <3>1. C \subseteq Nat
      OBVIOUS
    <3>. HIDE DEF C
    <3>. QED
      BY <1>0, <3>1, LeastNumber
  <2>2. k \in 0 .. m /\ k \in 0 .. n /\ v[k] # w[k]
    OBVIOUS
  <2>3. /\ v[k] = (IF k = 0 THEN lead ELSE v[k - 1] * Radix + d[k])
        /\ w[k] = (IF k = 0 THEN lead ELSE w[k - 1] * Radix + e[k])
    BY <2>2 DEF Reads
  <2>4. k # 0
    BY <2>2, <2>3
  <2>5. k - 1 \in 0 .. m /\ k - 1 \notin C /\ d[k] = e[k]
    BY <2>1, <2>2, <2>4
  <2>. QED
    BY <2>2, <2>3, <2>4, <2>5
<1>. QED
  BY <1>0

\* There is one: the one up to n - 1 and one more digit.
LEMMA ReadsExists ==
  ASSUME NEW lead, NEW d, NEW m \in Nat
  PROVE  \E v : Reads(v, lead, d, m)
<1>. DEFINE P(v, n) ==
              \A j \in 0 .. n : v[j] = IF j = 0 THEN lead ELSE v[j - 1] * Radix + d[j]
            C == {n \in Nat : ~ \E v : P(v, n)}
<1>0. ASSUME C # {} PROVE FALSE
  <2>1. PICK n \in C : \A j \in C : n <= j
    <3>1. C \subseteq Nat
      OBVIOUS
    <3>. HIDE DEF C
    <3>. QED
      BY <1>0, <3>1, LeastNumber
  <2>2. n # 0
    <3>1. P([j \in {0} |-> lead], 0)
      OBVIOUS
    <3>. QED
      BY <3>1
  <2>3. n - 1 \in Nat /\ n - 1 \notin C
    <3>1. n \in Nat
      OBVIOUS
    <3>. HIDE DEF C
    <3>. QED
      BY <2>1, <2>2, <3>1
  <2>4. PICK v : P(v, n - 1)
    BY <2>3
  <2>. DEFINE w == [j \in 0 .. n |-> IF j = n THEN v[n - 1] * Radix + d[n] ELSE v[j]]
  <2>5. ASSUME NEW j \in 0 .. n
        PROVE  w[j] = IF j = 0 THEN lead ELSE w[j - 1] * Radix + d[j]
    <3>1. CASE j = n
      <4>1. w[n] = v[n - 1] * Radix + d[n] /\ w[n - 1] = v[n - 1]
        BY <2>2, <2>3
      <4>. HIDE DEF w
      <4>. QED
        BY <2>2, <3>1, <4>1
    <3>2. CASE j # n
      <4>1. j \in 0 .. n - 1 /\ (j # 0 => j - 1 \in 0 .. n - 1 /\ j - 1 # n /\ j - 1 \in 0 .. n)
        BY <3>2
      <4>2. v[j] = IF j = 0 THEN lead ELSE v[j - 1] * Radix + d[j]
        BY <2>4, <4>1
      <4>3. w[j] = v[j] /\ (j # 0 => w[j - 1] = v[j - 1])
        BY <3>2, <4>1
      <4>. HIDE DEF w
      <4>. QED
        BY <4>2, <4>3
    <3>. QED
      BY <3>1, <3>2
  <2>6. P(w, n)
    BY <2>5
  <2>. QED
    BY <2>6
<1>1. PICK v : P(v, m)
  BY <1>0
<1>. DEFINE w == [j \in 0 .. m |-> v[j]]
<1>2. \A j \in 0 .. m : w[j] = IF j = 0 THEN lead ELSE w[j - 1] * Radix + d[j]
  <2>. SUFFICES ASSUME NEW j \in 0 .. m
                PROVE  w[j] = IF j = 0 THEN lead ELSE w[j - 1] * Radix + d[j]
    OBVIOUS
  <2>1. w[j] = v[j] /\ (j # 0 => w[j - 1] = v[j - 1])
    OBVIOUS
  <2>. HIDE DEF w
  <2>. QED
    BY <1>1, <2>1
<1>3. Reads(w, lead, d, m)
  <2>1. w = [j \in 0 .. m |-> w[j]]
    OBVIOUS
  <2>. HIDE DEF w
  <2>. QED
    BY <1>2, <2>1 DEF Reads
<1>. QED
  BY <1>3

\* Value is the last number of a reading.
LEMMA ValueIsRead ==
  ASSUME NEW lead, NEW d, NEW m \in Nat, m = Len(d)
  PROVE  \E v : Reads(v, lead, d, m) /\ Value(lead, d) = v[m]
<1>. DEFINE v == CHOOSE w : Reads(w, lead, d, m)
<1>1. Reads(v, lead, d, m)
  BY ReadsExists
<1>2. Value(lead, d) = v[m]
  BY DEF Value, Reads
<1>. QED
  BY <1>1, <1>2

\* Equal digits, equal values.
LEMMA ValueSame ==
  ASSUME NEW lead, NEW d, NEW e, NEW m \in Nat, Len(d) = m, Len(e) = m,
         \A i \in 1 .. m : d[i] = e[i]
  PROVE  Value(lead, d) = Value(lead, e)
<1>1. PICK v : Reads(v, lead, d, m) /\ Value(lead, d) = v[m]
  BY ValueIsRead
<1>2. PICK w : Reads(w, lead, e, m) /\ Value(lead, e) = w[m]
  BY ValueIsRead
<1>3. m <= m
  OBVIOUS
<1>4. v[m] = w[m]
  BY <1>1, <1>2, <1>3, ReadsUnique
<1>. QED
  BY <1>1, <1>2, <1>4

\* No digits are worth what leads them.
LEMMA ValueNone ==
  ASSUME NEW lead, NEW d, Len(d) = 0
  PROVE  Value(lead, d) = lead
<1>1. PICK v : Reads(v, lead, d, 0) /\ Value(lead, d) = v[0]
  BY ValueIsRead
<1>2. v[0] = lead
  BY <1>1 DEF Reads
<1>. QED
  BY <1>1, <1>2

\* One digit more.
LEMMA ValueStep ==
  ASSUME NEW lead, NEW d, NEW e, NEW m \in Nat, Len(d) = m, Len(e) = m + 1,
         \A i \in 1 .. m : d[i] = e[i]
  PROVE  Value(lead, e) = Value(lead, d) * Radix + e[m + 1]
<1>1. PICK v : Reads(v, lead, d, m) /\ Value(lead, d) = v[m]
  BY ValueIsRead
<1>2. PICK w : Reads(w, lead, e, m + 1) /\ Value(lead, e) = w[m + 1]
  BY ValueIsRead
<1>3. m + 1 \in Nat /\ m <= m + 1
  OBVIOUS
<1>4. v[m] = w[m]
  BY <1>1, <1>2, <1>3, ReadsUnique
<1>5. w[m + 1] = w[m] * Radix + e[m + 1]
  <2>1. m + 1 \in 0 .. m + 1 /\ m + 1 # 0 /\ (m + 1) - 1 = m
    OBVIOUS
  <2>. QED
    BY <1>2, <2>1 DEF Reads
<1>. QED
  BY <1>1, <1>2, <1>4, <1>5

-----------------------------------------------------------------------------
(* Powers                                                                    *)

LEMMA PowerSteps ==
  /\ Power(0) = 1
  /\ \A k \in Nat : Power(k + 1) = Power(k) * Radix
<1>1. Power(0) = 1
  BY ValueNone DEF Power
<1>2. ASSUME NEW k \in Nat PROVE Power(k + 1) = Power(k) * Radix + 0
  <2>. DEFINE d == [i \in 1 .. k |-> 0]
              e == [i \in 1 .. k + 1 |-> 0]
  <2>1. Len(d) = k /\ Len(e) = k + 1 /\ \A i \in 1 .. k : d[i] = e[i]
    OBVIOUS
  <2>2. e[k + 1] = 0
    OBVIOUS
  <2>. HIDE DEF d, e
  <2>3. Value(1, e) = Value(1, d) * Radix + e[k + 1]
    BY <2>1, ValueStep
  <2>. QED
    BY <2>2, <2>3 DEF Power, d, e
<1>3. \A k \in Nat : Power(k) \in Int
  <2>. DEFINE C == {k \in Nat : Power(k) \notin Int}
  <2>. SUFFICES ASSUME C # {} PROVE FALSE
    OBVIOUS
  <2>1. PICK k \in C : \A j \in C : k <= j
    <3>1. C \subseteq Nat
      OBVIOUS
    <3>. HIDE DEF C
    <3>. QED
      BY <3>1, LeastNumber
  <2>2. k # 0
    BY <1>1
  <2>3. k - 1 \in Nat /\ Power(k - 1) \in Int
    BY <2>1, <2>2
  <2>4. Power((k - 1) + 1) = Power(k - 1) * Radix + 0
    BY <1>2, <2>3
  <2>. QED
    BY <2>3, <2>4, NachaAssumption
<1>. QED
  BY <1>1, <1>2, <1>3, NachaAssumption

\* Powers grow: by a factor, and at least one by one.
LEMMA PowersGrow ==
  /\ \A k \in Nat : Power(k) \in Nat \ {0} /\ Power(k) >= k + 1
  /\ \A j, k \in Nat : j <= k => Power(j) <= Power(k)
<1>1. \A k \in Nat : Power(k) \in Nat \ {0} /\ Power(k) >= k + 1
  <2>. DEFINE C == {k \in Nat : ~(Power(k) \in Nat \ {0} /\ Power(k) >= k + 1)}
  <2>. SUFFICES ASSUME C # {} PROVE FALSE
    OBVIOUS
  <2>1. PICK k \in C : \A j \in C : k <= j
    <3>1. C \subseteq Nat
      OBVIOUS
    <3>. HIDE DEF C
    <3>. QED
      BY <3>1, LeastNumber
  <2>2. k # 0
    BY PowerSteps
  <2>3. k - 1 \in Nat /\ Power(k - 1) \in Nat \ {0} /\ Power(k - 1) >= k
    BY <2>1, <2>2
  <2>4. Power(k) = Power(k - 1) * Radix
    <3>1. Power((k - 1) + 1) = Power(k - 1) * Radix
      BY <2>3, PowerSteps
    <3>. QED
      BY <3>1
  <2>5. Radix \in Nat /\ Radix >= 2
    BY NachaAssumption
  <2>6. Power(k - 1) * Radix \in Nat /\ Power(k - 1) * Radix >= Power(k - 1) + Power(k - 1)
    BY <2>3, <2>5
  <2>. QED
    BY <2>3, <2>4, <2>6
<1>2. ASSUME NEW j \in Nat, NEW n \in Nat, j <= n PROVE Power(j) <= Power(n)
  <2>. DEFINE C == {k \in Nat : j <= k /\ ~(Power(j) <= Power(k))}
  <2>. SUFFICES ASSUME C # {} PROVE FALSE
    BY <1>2
  <2>1. PICK k \in C : \A i \in C : k <= i
    <3>1. C \subseteq Nat
      OBVIOUS
    <3>. HIDE DEF C
    <3>. QED
      BY <3>1, LeastNumber
  <2>2. k # j
    BY <1>1
  <2>3. k - 1 \in Nat /\ j <= k - 1 /\ Power(j) <= Power(k - 1)
    BY <2>1, <2>2
  <2>4. Power(k) = Power(k - 1) * Radix
    <3>1. Power((k - 1) + 1) = Power(k - 1) * Radix
      BY <2>3, PowerSteps
    <3>. QED
      BY <3>1
  <2>5. Radix \in Nat /\ Radix >= 2
    BY NachaAssumption
  <2>6. Power(k - 1) * Radix >= Power(k - 1)
    BY <1>1, <2>3, <2>5
  <2>. QED
    BY <1>1, <2>3, <2>4, <2>6
<1>. QED
  BY <1>1, <1>2

-----------------------------------------------------------------------------
(* Columns                                                                   *)

\* Reading one digit more of the same number.
LEMMA PrefixStep ==
  ASSUME NEW lead, NEW d, NEW k \in Nat \ {0}
  PROVE  Value(lead, [i \in 1 .. k |-> d[i]])
            = Value(lead, [i \in 1 .. k - 1 |-> d[i]]) * Radix + d[k]
<1>1. PICK m \in Nat : k = m + 1
  <2>1. k - 1 \in Nat /\ k = (k - 1) + 1
    OBVIOUS
  <2>. QED
    BY <2>1
<1>. DEFINE a == [i \in 1 .. m |-> d[i]]
            b == [i \in 1 .. m + 1 |-> d[i]]
<1>2. /\ Len(a) = m /\ Len(b) = m + 1
      /\ \A i \in 1 .. m : a[i] = b[i]
      /\ b[m + 1] = d[m + 1]
  OBVIOUS
<1>3. Value(lead, b) = Value(lead, a) * Radix + b[m + 1]
  <2>. HIDE DEF a, b
  <2>. QED
    BY <1>2, ValueStep
<1>4. (m + 1) - 1 = m
  OBVIOUS
<1>. QED
  BY <1>1, <1>2, <1>3, <1>4

\* Digits are worth less than the power of their number.
LEMMA ValueBound ==
  ASSUME NEW d, NEW m \in Nat, \A i \in 1 .. m : d[i] \in 0 .. Radix - 1
  PROVE  Value(0, [i \in 1 .. m |-> d[i]]) \in 0 .. Power(m) - 1
<1>. DEFINE V(k) == Value(0, [i \in 1 .. k |-> d[i]])
            C == {k \in Nat : k <= m /\ V(k) \notin 0 .. Power(k) - 1}
<1>0. ASSUME C # {} PROVE FALSE
  <2>1. PICK k \in C : \A j \in C : k <= j
    <3>1. C \subseteq Nat
      OBVIOUS
    <3>. HIDE DEF C
    <3>. QED
      BY <1>0, <3>1, LeastNumber
  <2>2. k # 0
    <3>1. V(0) = 0
      <4>1. Len([i \in 1 .. 0 |-> d[i]]) = 0
        OBVIOUS
      <4>. QED
        BY <4>1, ValueNone
    <3>2. Power(0) = 1
      BY PowerSteps
    <3>. HIDE DEF V
    <3>. QED
      BY <3>1, <3>2
  <2>3. k \in Nat /\ k <= m /\ V(k) \notin 0 .. Power(k) - 1
    OBVIOUS
  <2>4. V(k - 1) \in 0 .. Power(k - 1) - 1
    <3>. HIDE DEF V
    <3>. QED
      BY <2>1, <2>2, <2>3
  <2>5. V(k) = V(k - 1) * Radix + d[k]
    BY <2>2, <2>3, PrefixStep
  <2>6. Power(k) = Power(k - 1) * Radix /\ Power(k - 1) \in Nat
    <3>1. k - 1 \in Nat /\ (k - 1) + 1 = k
      BY <2>2, <2>3
    <3>2. Power((k - 1) + 1) = Power(k - 1) * Radix
      BY <3>1, PowerSteps
    <3>. QED
      BY <3>1, <3>2, PowersGrow
  <2>7. d[k] \in 0 .. Radix - 1 /\ Radix \in Nat
    BY <2>2, <2>3, NachaAssumption
  <2>. HIDE DEF V
  <2>8. V(k - 1) * Radix <= (Power(k - 1) - 1) * Radix
    BY <2>4, <2>6, <2>7
  <2>9. (Power(k - 1) - 1) * Radix = Power(k - 1) * Radix - Radix
    BY <2>6, <2>7
  <2>10. V(k - 1) * Radix \in Nat /\ Power(k - 1) * Radix \in Nat
    BY <2>4, <2>6, <2>7
  <2>. QED
    BY <2>3, <2>5, <2>6, <2>7, <2>8, <2>9, <2>10
<1>1. m \notin C
  BY <1>0
<1>. QED
  BY <1>1

\* The length of a number.
LEMMA LengthIs ==
  ASSUME NEW n \in Nat
  PROVE  /\ Length(n) \in Nat \ {0}
         /\ n < Power(Length(n))
         /\ \A j \in 1 .. Length(n) - 1 : n >= Power(j)
<1>. DEFINE C == {k \in Nat : k # 0 /\ n < Power(k)}
<1>1. n + 1 \in C
  BY PowersGrow
<1>2. PICK k \in C : \A j \in C : k <= j
  <2>1. C \subseteq Nat /\ C # {}
    BY <1>1
  <2>. HIDE DEF C
  <2>. QED
    BY <2>1, LeastNumber
<1>3. k \in 1 .. n + 1 /\ n < Power(k)
  BY <1>1, <1>2
<1>4. \A j \in 1 .. k - 1 : n >= Power(j)
  <2>. SUFFICES ASSUME NEW j \in 1 .. k - 1 PROVE n >= Power(j)
    OBVIOUS
  <2>1. j \notin C
    <3>1. j < k
      BY <1>3
    <3>. HIDE DEF C
    <3>. QED
      BY <1>2, <1>3, <3>1
  <2>2. Power(j) \in Nat
    BY <1>3, PowersGrow
  <2>. QED
    BY <1>3, <2>1, <2>2
<1>. HIDE DEF C
<1>5. /\ Length(n) \in 1 .. n + 1
      /\ n < Power(Length(n))
      /\ \A j \in 1 .. Length(n) - 1 : n >= Power(j)
  BY <1>3, <1>4 DEF Length
<1>. QED
  BY <1>5

\* The length of a column is its width, or that of a number that is too wide.
LEMMA ColumnsShape ==
  ASSUME NEW n \in Nat, NEW w \in Nat \ {0}
  PROVE  /\ Len(Columns(n, w)) \in Nat /\ Len(Columns(n, w)) >= w
         /\ Columns(n, w) \in Seq(0 .. Radix - 1)
         /\ \A i \in 1 .. Len(Columns(n, w)) : Columns(n, w)[i] \in 0 .. Radix - 1
         /\ n < Power(w) =>
               /\ Len(Columns(n, w)) = w
               /\ \A i \in 1 .. w : Columns(n, w)[i] = (n \div Power(w - i)) % Radix
<1>. DEFINE len == Max({w, Length(n)})
<1>1. /\ len \in Nat /\ len >= w /\ len >= Length(n)
      /\ len = w \/ len = Length(n)
  <2>1. \E m \in {w, Length(n)} : \A k \in {w, Length(n)} : m >= k
    BY LengthIs
  <2>. QED
    BY <2>1, LengthIs DEF Max
<1>2. n < Power(w) => len = w
  <2>. SUFFICES ASSUME n < Power(w), len # w PROVE FALSE
    OBVIOUS
  <2>1. len = Length(n) /\ w \in 1 .. Length(n) - 1
    BY <1>1, LengthIs
  <2>2. n >= Power(w)
    BY <2>1, LengthIs
  <2>3. Power(w) \in Nat
    BY PowersGrow
  <2>. QED
    BY <2>2, <2>3
<1>. HIDE DEF len
<1>3. Columns(n, w) = [i \in 1 .. len |-> (n \div Power(len - i)) % Radix]
  BY DEF Columns, len
<1>4. Len(Columns(n, w)) = len
  BY <1>1, <1>3
<1>5. ASSUME NEW i \in 1 .. len PROVE (n \div Power(len - i)) % Radix \in 0 .. Radix - 1
  <2>1. Power(len - i) \in Nat \ {0} /\ Radix \in Nat \ {0}
    <3>1. len - i \in Nat
      BY <1>1
    <3>. QED
      BY <3>1, PowersGrow, NachaAssumption
  <2>. DEFINE P == Power(len - i)
  <2>2. n \div P \in Nat
    <3>. HIDE DEF P
    <3>1. P \in Nat \ {0}
      BY <2>1 DEF P
    <3>. QED
      BY <3>1
  <2>. HIDE DEF P
  <2>3. (n \div P) % Radix \in 0 .. Radix - 1
    BY <2>1, <2>2
  <2>. QED
    BY <2>3 DEF P
<1>. QED
  BY <1>1, <1>2, <1>3, <1>4, <1>5

\* One digit of a number.
LEMMA DivStep ==
  ASSUME NEW n \in Nat, NEW P \in Nat \ {0}, NEW R \in Nat \ {0}
  PROVE  n \div P = (n \div (P * R)) * R + ((n \div P) % R)
<1>1. n \div (R * P) = (n \div P) \div R
  OBVIOUS
<1>2. PICK q \in Nat : q = n \div P
  OBVIOUS
<1>3. q = (q \div R) * R + (q % R)
  OBVIOUS
<1>4. P * R = R * P
  OBVIOUS
<1>. QED
  BY <1>1, <1>2, <1>3, <1>4

\* A number that fits is what is read from its columns.
LEMMA ColumnsValue ==
  ASSUME NEW w \in Nat \ {0}, NEW n \in Nat, n < Power(w)
  PROVE  Value(0, [i \in 1 .. w |-> Columns(n, w)[i]]) = n
<1>. DEFINE d == Columns(n, w)
            V(k) == Value(0, [i \in 1 .. k |-> d[i]])
            C == {k \in Nat : k <= w /\ V(k) # n \div Power(w - k)}
<1>1. \A i \in 1 .. w : d[i] = (n \div Power(w - i)) % Radix
  BY ColumnsShape
<1>. HIDE DEF d
<1>2. ASSUME C # {} PROVE FALSE
  <2>1. PICK k \in C : \A j \in C : k <= j
    <3>1. C \subseteq Nat
      OBVIOUS
    <3>. HIDE DEF C
    <3>. QED
      BY <1>2, <3>1, LeastNumber
  <2>2. k # 0
    <3>1. V(0) = 0
      <4>1. Len([i \in 1 .. 0 |-> d[i]]) = 0
        OBVIOUS
      <4>. QED
        BY <4>1, ValueNone
    <3>2. n \div Power(w - 0) = 0
      <4>0. Power(w) \in Nat \ {0} /\ w - 0 = w
        BY PowersGrow
      <4>1. PICK P \in Nat \ {0} : P = Power(w) /\ w - 0 = w
        BY <4>0
      <4>2. n \div P = 0
        BY <4>1
      <4>. QED
        BY <4>1, <4>2
    <3>. HIDE DEF V
    <3>. QED
      BY <3>1, <3>2
  <2>3. k \in Nat /\ k <= w /\ V(k) # n \div Power(w - k)
    OBVIOUS
  <2>4. V(k - 1) = n \div Power(w - (k - 1))
    <3>. HIDE DEF V
    <3>. QED
      BY <2>1, <2>2, <2>3
  <2>5. V(k) = V(k - 1) * Radix + d[k]
    BY <2>2, <2>3, PrefixStep
  <2>6. PICK P \in Nat \ {0} : P = Power(w - k) /\ Power(w - (k - 1)) = P * Radix
    <3>1. w - k \in Nat /\ w - (k - 1) = (w - k) + 1
      BY <2>3
    <3>2. Power((w - k) + 1) = Power(w - k) * Radix
      BY <3>1, PowerSteps
    <3>. QED
      BY <3>1, <3>2, PowersGrow
  <2>7. d[k] = (n \div P) % Radix
    BY <1>1, <2>2, <2>3, <2>6
  <2>8. n \div P = (n \div (P * Radix)) * Radix + ((n \div P) % Radix)
    BY DivStep, NachaAssumption
  <2>. HIDE DEF V
  <2>. QED
    BY <2>3, <2>4, <2>5, <2>6, <2>7, <2>8
<1>3. w \notin C
  BY <1>2
<1>4. V(w) = n \div Power(w - w)
  <2>. HIDE DEF V
  <2>. QED
    BY <1>3
<1>5. Power(w - w) = 1
  BY PowerSteps
<1>6. n \div 1 = n
  OBVIOUS
<1>. QED
  BY <1>4, <1>5, <1>6 DEF d

\* A field of digits is worth less than the power of its width.
LEMMA FieldBound ==
  ASSUME NEW line, NEW before, NEW w \in Nat,
         \A i \in 1 .. w : line.digits[before + i] \in 0 .. Radix - 1
  PROVE  Field(line, before, w) \in 0 .. Power(w) - 1
<1>. DEFINE d == [i \in 1 .. w |-> line.digits[before + i]]
<1>1. \A i \in 1 .. w : d[i] \in 0 .. Radix - 1
  OBVIOUS
<1>2. [i \in 1 .. w |-> d[i]] = d
  OBVIOUS
<1>. HIDE DEF d
<1>3. Value(0, d) \in 0 .. Power(w) - 1
  BY <1>1, <1>2, ValueBound
<1>. QED
  BY <1>3 DEF Field, d

\* A field that holds a number's columns is that number if it fits.
LEMMA FieldExact ==
  ASSUME NEW line, NEW before, NEW w \in Nat \ {0}, NEW n \in Nat, n < Power(w),
         \A i \in 1 .. w : line.digits[before + i] = Columns(n, w)[i]
  PROVE  Field(line, before, w) = n
<1>1. [i \in 1 .. w |-> line.digits[before + i]] = [i \in 1 .. w |-> Columns(n, w)[i]]
  OBVIOUS
<1>2. Value(0, [i \in 1 .. w |-> Columns(n, w)[i]]) = n
  BY ColumnsValue
<1>. QED
  BY <1>1, <1>2 DEF Field

-----------------------------------------------------------------------------
(* Lines                                                                     *)

FileLine == [kind : Kinds, digits : Seq(0 .. Radix - 1), hash : Nat]

Entry == [amount : Nat, hash : Nat]

LEMMA Widths ==
  /\ AmountWidth \in Nat \ {0} /\ CountWidth \in Nat \ {0}
  /\ TotalWidth \in Nat \ {0} /\ HashWidth \in Nat \ {0}
  BY NachaAssumption

\* What Encode writes are lines of digits.
LEMMA LineType ==
  /\ \A kind \in Kinds : Line(kind, <<>>) \in FileLine
  /\ \A e \in Entry : EntryLine(e) \in FileLine
  /\ \A kind \in Kinds, c, a, h \in Nat : Control(kind, c, a, h) \in FileLine
<1>1. \A kind \in Kinds, d \in Seq(0 .. Radix - 1) : Line(kind, d) \in FileLine
  BY DEF Line, FileLine
<1>2. <<>> \in Seq(0 .. Radix - 1)
  OBVIOUS
<1>3. ASSUME NEW e \in Entry PROVE EntryLine(e) \in FileLine
  <2>1. e.amount \in Nat /\ e.hash \in Nat
    BY DEF Entry
  <2>2. Columns(e.amount, AmountWidth) \in Seq(0 .. Radix - 1)
    BY <2>1, Widths, ColumnsShape
  <2>. QED
    BY <2>1, <2>2 DEF EntryLine, FileLine, Kinds
<1>4. ASSUME NEW kind \in Kinds, NEW c \in Nat, NEW a \in Nat, NEW h \in Nat
      PROVE  Control(kind, c, a, h) \in FileLine
  <2>1. /\ Columns(c, CountWidth) \in Seq(0 .. Radix - 1)
        /\ Columns(a, TotalWidth) \in Seq(0 .. Radix - 1)
        /\ Columns(h, HashWidth) \in Seq(0 .. Radix - 1)
    BY Widths, ColumnsShape
  <2>2. Columns(c, CountWidth) \o Columns(a, TotalWidth) \o Columns(h, HashWidth)
           \in Seq(0 .. Radix - 1)
    BY <2>1, ConcatProperties
  <2>. QED
    BY <1>1, <2>2 DEF Control
<1>. QED
  BY <1>1, <1>2, <1>3, <1>4

Chosen(line, kind) == IF line.kind = kind THEN <<line>> ELSE <<>>

LEMMA ChosenType ==
  ASSUME NEW line \in FileLine, NEW kind
  PROVE  Chosen(line, kind) \in Seq(FileLine)
  BY DEF Chosen

\* The lines of a kind, from the end.
LEMMA LinesOfAppend ==
  ASSUME NEW s \in Seq(FileLine), NEW line \in FileLine, NEW kind
  PROVE  /\ LinesOf(s, kind) \in Seq(FileLine)
         /\ LinesOf(Append(s, line), kind) = LinesOf(s, kind) \o Chosen(line, kind)
<1>. DEFINE M(u) == [i \in DOMAIN u |-> IF u[i].kind = kind THEN <<u[i]>> ELSE <<>>]
            t == Append(s, line)
            x == Chosen(line, kind)
<1>1. ASSUME NEW u \in Seq(FileLine)
      PROVE  /\ M(u) \in Seq(Seq(FileLine)) /\ Len(M(u)) = Len(u)
             /\ \A i \in 1 .. Len(u) : M(u)[i] = Chosen(u[i], kind)
  <2>1. Len(u) \in Nat /\ DOMAIN u = 1 .. Len(u) /\ \A i \in 1 .. Len(u) : u[i] \in FileLine
    BY LenProperties
  <2>2. M(u) = [i \in 1 .. Len(u) |-> Chosen(u[i], kind)]
    BY <2>1 DEF Chosen
  <2>3. \A i \in 1 .. Len(u) : Chosen(u[i], kind) \in Seq(FileLine)
    BY <2>1, ChosenType
  <2>. HIDE DEF M
  <2>4. M(u) \in [1 .. Len(u) -> Seq(FileLine)]
    BY <2>2, <2>3
  <2>5. M(u) \in Seq(Seq(FileLine)) /\ Len(M(u)) = Len(u)
    BY <2>1, <2>4, IsSequence
  <2>6. \A i \in 1 .. Len(u) : M(u)[i] = Chosen(u[i], kind)
    BY <2>2
  <2>. QED
    BY <2>5, <2>6
<1>2. t \in Seq(FileLine) /\ Len(t) = Len(s) + 1 /\ t[Len(s) + 1] = line
      /\ (\A i \in 1 .. Len(s) : t[i] = s[i]) /\ Len(s) \in Nat
  BY AppendProperties, LenProperties
<1>3. x \in Seq(FileLine)
  BY ChosenType
<1>4. \A u : LinesOf(u, kind) = FlattenSeq(M(u))
  BY DEF LinesOf
<1>. HIDE DEF M, t, x
<1>5. M(t) = Append(M(s), x)
  <2>5. /\ M(s) \in Seq(Seq(FileLine)) /\ Len(M(s)) = Len(s)
        /\ \A i \in 1 .. Len(s) : M(s)[i] = Chosen(s[i], kind)
    BY <1>1
  <2>6. /\ M(t) \in Seq(Seq(FileLine)) /\ Len(M(t)) = Len(t)
        /\ \A i \in 1 .. Len(t) : M(t)[i] = Chosen(t[i], kind)
    BY <1>1, <1>2
  <2>1. M(s) \in Seq(Seq(FileLine)) /\ M(t) \in Seq(Seq(FileLine)) /\ Len(M(t)) = Len(M(s)) + 1
    BY <1>2, <2>5, <2>6
  <2>2. ASSUME NEW i \in 1 .. Len(M(s)) PROVE M(t)[i] = M(s)[i]
    <3>1. i \in 1 .. Len(s) /\ i \in 1 .. Len(t)
      BY <1>2, <2>5
    <3>. QED
      BY <1>2, <2>5, <2>6, <3>1
  <2>3. M(t)[Len(M(s)) + 1] = x
    <3>1. Len(s) + 1 \in 1 .. Len(t)
      BY <1>2
    <3>. QED
      BY <1>2, <2>5, <2>6, <3>1 DEF x
  <2>. QED
    BY <1>3, <2>1, <2>2, <2>3, IsAppend
<1>6. M(s) \in Seq(Seq(FileLine))
  BY <1>1
<1>7. FlattenSeq(M(s)) \in Seq(FileLine) /\ FlattenSeq(M(t)) = FlattenSeq(M(s)) \o x
  BY <1>3, <1>5, <1>6, FlattenType, FlattenAppend
<1>. QED
  BY <1>4, <1>7 DEF t, x

LEMMA LinesOfNone == \A kind : LinesOf(<<>>, kind) = <<>>
<1>. TAKE kind
<1>1. [i \in DOMAIN <<>> |-> IF <<>>[i].kind = kind THEN << <<>>[i] >> ELSE <<>>] = <<>>
  OBVIOUS
<1>. QED
  BY <1>1, FlattenNone DEF LinesOf

LEMMA LinesOfConcat ==
  ASSUME NEW s \in Seq(FileLine), NEW t \in Seq(FileLine), NEW kind
  PROVE  LinesOf(s \o t, kind) = LinesOf(s, kind) \o LinesOf(t, kind)
<1>. DEFINE C == {u \in Seq(FileLine) :
                    LinesOf(s \o u, kind) # LinesOf(s, kind) \o LinesOf(u, kind)}
<1>. SUFFICES ASSUME C # {} PROVE FALSE
  OBVIOUS
<1>1. PICK u \in C : u = <<>> \/ \E v \in Seq(FileLine), e \in FileLine :
                                    u = Append(v, e) /\ v \notin C
  <2>1. C \subseteq Seq(FileLine)
    OBVIOUS
  <2>. HIDE DEF C
  <2>. QED
    BY <2>1, ShortestSequence
<1>2. \A v \in Seq(FileLine) : LinesOf(v, kind) \in Seq(FileLine)
  <2>1. PICK l : l \in FileLine
    BY LineType DEF Kinds
  <2>. QED
    BY <2>1, LinesOfAppend
<1>3. CASE u = <<>>
  <2>1. s \o u = s
    BY <1>3, ConcatEmptySeq
  <2>2. LinesOf(s, kind) \o <<>> = LinesOf(s, kind)
    BY <1>2, ConcatEmptySeq
  <2>. QED
    BY <1>3, <2>1, <2>2, LinesOfNone
<1>4. CASE \E v \in Seq(FileLine), e \in FileLine : u = Append(v, e) /\ v \notin C
  <2>1. PICK v \in Seq(FileLine), e \in FileLine : u = Append(v, e) /\ v \notin C
    BY <1>4
  <2>2. LinesOf(s \o v, kind) = LinesOf(s, kind) \o LinesOf(v, kind)
    BY <2>1
  <2>3. s \o u = Append(s \o v, e) /\ s \o v \in Seq(FileLine)
    <3>. HIDE DEF C
    <3>1. s \o v \in Seq(FileLine)
      BY ConcatProperties
    <3>2. s \o Append(v, e) = Append(s \o v, e)
      BY ConcatAppend
    <3>. QED
      BY <2>1, <3>1, <3>2
  <2>4. LinesOf(s \o u, kind) = LinesOf(s \o v, kind) \o Chosen(e, kind)
    <3>. HIDE DEF C
    <3>1. LinesOf(Append(s \o v, e), kind) = LinesOf(s \o v, kind) \o Chosen(e, kind)
      BY <2>3, LinesOfAppend
    <3>. QED
      BY <2>3, <3>1
  <2>5. LinesOf(u, kind) = LinesOf(v, kind) \o Chosen(e, kind)
    BY <2>1, LinesOfAppend
  <2>6. /\ LinesOf(s, kind) \in Seq(FileLine) /\ LinesOf(v, kind) \in Seq(FileLine)
        /\ Chosen(e, kind) \in Seq(FileLine)
    BY <1>2, ChosenType
  <2>7. (LinesOf(s, kind) \o LinesOf(v, kind)) \o Chosen(e, kind)
           = LinesOf(s, kind) \o (LinesOf(v, kind) \o Chosen(e, kind))
    <3>. HIDE DEF C
    <3>1. PICK a \in Seq(FileLine) : a = LinesOf(s, kind)
      BY <2>6
    <3>2. PICK b \in Seq(FileLine) : b = LinesOf(v, kind)
      BY <2>6
    <3>3. PICK c \in Seq(FileLine) : c = Chosen(e, kind)
      BY <2>6
    <3>4. (a \o b) \o c = a \o (b \o c)
      OBVIOUS
    <3>. QED
      BY <3>1, <3>2, <3>3, <3>4
  <2>8. LinesOf(s \o u, kind) # LinesOf(s, kind) \o LinesOf(u, kind)
    OBVIOUS
  <2>. HIDE DEF C
  <2>. QED
    BY <2>2, <2>4, <2>5, <2>7, <2>8
<1>. QED
  BY <1>1, <1>3, <1>4

\* Of lines of one kind all are of it and none of another.
LEMMA LinesOfSame ==
  ASSUME NEW s \in Seq(FileLine), NEW is, \A i \in 1 .. Len(s) : s[i].kind = is, NEW kind
  PROVE  LinesOf(s, kind) = IF is = kind THEN s ELSE <<>>
<1>. DEFINE R(u) == IF is = kind THEN u ELSE <<>>
            C == {u \in Seq(FileLine) : (\A i \in 1 .. Len(u) : u[i].kind = is)
                                           /\ LinesOf(u, kind) # R(u)}
<1>1. ASSUME C # {} PROVE FALSE
  <2>1. PICK u \in C : u = <<>> \/ \E v \in Seq(FileLine), e \in FileLine :
                                      u = Append(v, e) /\ v \notin C
    <3>1. C \subseteq Seq(FileLine)
      OBVIOUS
    <3>. HIDE DEF C
    <3>. QED
      BY <1>1, <3>1, ShortestSequence
  <2>2. CASE u = <<>>
    BY <2>2, LinesOfNone
  <2>3. CASE \E v \in Seq(FileLine), e \in FileLine : u = Append(v, e) /\ v \notin C
    <3>1. PICK v \in Seq(FileLine), e \in FileLine : u = Append(v, e) /\ v \notin C
      BY <2>3
    <3>2. (\A i \in 1 .. Len(v) : u[i] = v[i]) /\ u[Len(v) + 1] = e
          /\ Len(u) = Len(v) + 1 /\ Len(v) \in Nat
      BY <3>1, AppendProperties, LenProperties
    <3>3. \A i \in 1 .. Len(u) : u[i].kind = is
      OBVIOUS
    <3>4. e.kind = is /\ \A i \in 1 .. Len(v) : v[i].kind = is
      <4>1. Len(v) + 1 \in 1 .. Len(u) /\ \A i \in 1 .. Len(v) : i \in 1 .. Len(u)
        BY <3>2
      <4>. HIDE DEF C
      <4>. QED
        BY <3>2, <3>3, <4>1
    <3>5. LinesOf(v, kind) = R(v)
      BY <3>1, <3>4
    <3>6. LinesOf(u, kind) = R(v) \o Chosen(e, kind)
      <4>. HIDE DEF C, R
      <4>1. LinesOf(Append(v, e), kind) = LinesOf(v, kind) \o Chosen(e, kind)
        BY LinesOfAppend
      <4>. QED
        BY <3>1, <3>5, <4>1
    <3>7. R(u) = R(v) \o Chosen(e, kind)
      <4>1. CASE is = kind
        BY <3>1, <3>4, <4>1, AppendIsConcat DEF Chosen
      <4>2. CASE is # kind
        BY <3>4, <4>2 DEF Chosen
      <4>. QED
        BY <4>1, <4>2
    <3>8. LinesOf(u, kind) # R(u)
      OBVIOUS
    <3>. QED
      BY <3>6, <3>7, <3>8
  <2>. QED
    BY <2>1, <2>2, <2>3
<1>2. s \notin C
  BY <1>1
<1>. QED
  BY <1>2

-----------------------------------------------------------------------------
(* Entries                                                                   *)

LEMMA NaturalsAddUp ==
  ASSUME NEW s \in Seq(Nat)
  PROVE  SumFunction(s) \in Nat
<1>. DEFINE C == {u \in Seq(Nat) : SumFunction(u) \notin Nat}
<1>. SUFFICES ASSUME C # {} PROVE FALSE
  OBVIOUS
<1>1. PICK u \in C : u = <<>> \/ \E v \in Seq(Nat), e \in Nat : u = Append(v, e) /\ v \notin C
  <2>1. C \subseteq Seq(Nat)
    OBVIOUS
  <2>. HIDE DEF C
  <2>. QED
    BY <2>1, ShortestSequence
<1>2. CASE u = <<>>
  BY <1>2, SumOfEmpty
<1>3. CASE \E v \in Seq(Nat), e \in Nat : u = Append(v, e) /\ v \notin C
  <2>1. PICK v \in Seq(Nat), e \in Nat : u = Append(v, e) /\ v \notin C
    BY <1>3
  <2>2. SumFunction(v) \in Nat
    BY <2>1
  <2>3. v \in Seq(Int) /\ e \in Int
    OBVIOUS
  <2>4. SumFunction(u) = SumFunction(v) + e
    BY <2>1, <2>3, SumOfAppend
  <2>. QED
    BY <2>1, <2>2, <2>4
<1>. QED
  BY <1>1, <1>2, <1>3

\* Amounts and hashes add up over what is appended.
LEMMA Totals ==
  ASSUME NEW x \in Seq(Entry), NEW y \in Seq(Entry)
  PROVE  /\ Amount(x) \in Nat /\ Amount(x \o y) = Amount(x) + Amount(y)
         /\ Hash(x) \in Nat /\ Hash(x \o y) = Hash(x) + Hash(y)
<1>. DEFINE A(u) == [i \in DOMAIN u |-> u[i].amount]
            H(u) == [i \in DOMAIN u |-> u[i].hash]
<1>1. ASSUME NEW u \in Seq(Entry)
      PROVE  /\ A(u) \in Seq(Nat) /\ H(u) \in Seq(Nat)
             /\ Len(A(u)) = Len(u) /\ Len(H(u)) = Len(u)
             /\ \A i \in 1 .. Len(u) : A(u)[i] = u[i].amount /\ H(u)[i] = u[i].hash
  <2>1. Len(u) \in Nat /\ DOMAIN u = 1 .. Len(u) /\ \A i \in 1 .. Len(u) : u[i] \in Entry
    BY LenProperties
  <2>2. \A i \in 1 .. Len(u) : u[i].amount \in Nat /\ u[i].hash \in Nat
    BY <2>1 DEF Entry
  <2>. QED
    BY <2>1, <2>2
<1>2. \A u : Amount(u) = SumFunction(A(u)) /\ Hash(u) = SumFunction(H(u))
  BY DEF Amount, Hash
<1>3. /\ x \o y \in Seq(Entry) /\ Len(x \o y) = Len(x) + Len(y)
      /\ Len(x) \in Nat /\ Len(y) \in Nat
      /\ \A i \in 1 .. Len(x) + Len(y) :
            (x \o y)[i] = IF i <= Len(x) THEN x[i] ELSE y[i - Len(x)]
  BY ConcatProperties, LenProperties
<1>. HIDE DEF A, H
<1>4. A(x \o y) = A(x) \o A(y)
  <2>1. /\ A(x) \o A(y) \in Seq(Nat) /\ Len(A(x) \o A(y)) = Len(x) + Len(y)
        /\ \A i \in 1 .. Len(x) + Len(y) :
              (A(x) \o A(y))[i] = IF i <= Len(x) THEN A(x)[i] ELSE A(y)[i - Len(x)]
    <3>1. A(x) \in Seq(Nat) /\ A(y) \in Seq(Nat) /\ Len(A(x)) = Len(x) /\ Len(A(y)) = Len(y)
      BY <1>1
    <3>2. /\ A(x) \o A(y) \in Seq(Nat) /\ Len(A(x) \o A(y)) = Len(A(x)) + Len(A(y))
          /\ \A i \in 1 .. Len(A(x)) + Len(A(y)) : (A(x) \o A(y))[i]
                 = IF i <= Len(A(x)) THEN A(x)[i] ELSE A(y)[i - Len(A(x))]
      BY <3>1, ConcatProperties
    <3>. QED
      BY <3>1, <3>2
  <2>2. A(x \o y) \in Seq(Nat) /\ Len(A(x \o y)) = Len(x) + Len(y)
    BY <1>1, <1>3
  <2>3. ASSUME NEW i \in 1 .. Len(x) + Len(y) PROVE A(x \o y)[i] = (A(x) \o A(y))[i]
    <3>1. A(x \o y)[i] = (x \o y)[i].amount
      BY <1>1, <1>3
    <3>2. CASE i <= Len(x)
      <4>1. i \in 1 .. Len(x)
        BY <1>3, <3>2
      <4>2. A(x)[i] = x[i].amount
        BY <1>1, <4>1
      <4>. QED
        BY <1>3, <2>1, <3>1, <3>2, <4>2
    <3>3. CASE ~(i <= Len(x))
      <4>1. i - Len(x) \in 1 .. Len(y)
        BY <1>3, <3>3
      <4>2. A(y)[i - Len(x)] = y[i - Len(x)].amount
        BY <1>1, <4>1
      <4>. QED
        BY <1>3, <2>1, <3>1, <3>3, <4>2
    <3>. QED
      BY <3>2, <3>3
  <2>. QED
    BY <2>1, <2>2, <2>3, SeqEqual
<1>5. H(x \o y) = H(x) \o H(y)
  <2>1. /\ H(x) \o H(y) \in Seq(Nat) /\ Len(H(x) \o H(y)) = Len(x) + Len(y)
        /\ \A i \in 1 .. Len(x) + Len(y) :
              (H(x) \o H(y))[i] = IF i <= Len(x) THEN H(x)[i] ELSE H(y)[i - Len(x)]
    <3>1. H(x) \in Seq(Nat) /\ H(y) \in Seq(Nat) /\ Len(H(x)) = Len(x) /\ Len(H(y)) = Len(y)
      BY <1>1
    <3>2. /\ H(x) \o H(y) \in Seq(Nat) /\ Len(H(x) \o H(y)) = Len(H(x)) + Len(H(y))
          /\ \A i \in 1 .. Len(H(x)) + Len(H(y)) : (H(x) \o H(y))[i]
                 = IF i <= Len(H(x)) THEN H(x)[i] ELSE H(y)[i - Len(H(x))]
      BY <3>1, ConcatProperties
    <3>. QED
      BY <3>1, <3>2
  <2>2. H(x \o y) \in Seq(Nat) /\ Len(H(x \o y)) = Len(x) + Len(y)
    BY <1>1, <1>3
  <2>3. ASSUME NEW i \in 1 .. Len(x) + Len(y) PROVE H(x \o y)[i] = (H(x) \o H(y))[i]
    <3>1. H(x \o y)[i] = (x \o y)[i].hash
      BY <1>1, <1>3
    <3>2. CASE i <= Len(x)
      <4>1. i \in 1 .. Len(x)
        BY <1>3, <3>2
      <4>2. H(x)[i] = x[i].hash
        BY <1>1, <4>1
      <4>. QED
        BY <1>3, <2>1, <3>1, <3>2, <4>2
    <3>3. CASE ~(i <= Len(x))
      <4>1. i - Len(x) \in 1 .. Len(y)
        BY <1>3, <3>3
      <4>2. H(y)[i - Len(x)] = y[i - Len(x)].hash
        BY <1>1, <4>1
      <4>. QED
        BY <1>3, <2>1, <3>1, <3>3, <4>2
    <3>. QED
      BY <3>2, <3>3
  <2>. QED
    BY <2>1, <2>2, <2>3, SeqEqual
<1>6. /\ SumFunction(A(x) \o A(y)) = SumFunction(A(x)) + SumFunction(A(y))
      /\ SumFunction(H(x) \o H(y)) = SumFunction(H(x)) + SumFunction(H(y))
  <2>1. A(x) \in Seq(Int) /\ A(y) \in Seq(Int) /\ H(x) \in Seq(Int) /\ H(y) \in Seq(Int)
    BY <1>1
  <2>. QED
    BY <2>1, SumOfConcat
<1>7. SumFunction(A(x)) \in Nat /\ SumFunction(H(x)) \in Nat
  BY <1>1, NaturalsAddUp
<1>. QED
  BY <1>2, <1>4, <1>5, <1>6, <1>7

LEMMA TotalsType ==
  ASSUME NEW x \in Seq(Entry)
  PROVE  Amount(x) \in Nat /\ Hash(x) \in Nat
  BY Totals

\* The lines of entries.
LEMMA DetailShape ==
  ASSUME NEW x \in Seq(Entry)
  PROVE  /\ Detail(x) \in Seq(FileLine) /\ Len(Detail(x)) = Len(x)
         /\ \A i \in 1 .. Len(x) : Detail(x)[i] = EntryLine(x[i]) /\ Detail(x)[i].kind = "entry"
<1>1. \A i \in 1 .. Len(x) : x[i] \in Entry
  OBVIOUS
<1>2. \A i \in 1 .. Len(x) : EntryLine(x[i]) \in FileLine
  BY <1>1, LineType
<1>3. Detail(x) = [i \in 1 .. Len(x) |-> EntryLine(x[i])] /\ Len(x) \in Nat
  BY DEF Detail
<1>4. \A e : EntryLine(e).kind = "entry"
  BY DEF EntryLine
<1>. QED
  BY <1>2, <1>3, <1>4

LEMMA DetailConcat ==
  ASSUME NEW x \in Seq(Entry), NEW y \in Seq(Entry)
  PROVE  Detail(x \o y) = Detail(x) \o Detail(y)
<1>1. /\ x \o y \in Seq(Entry) /\ Len(x \o y) = Len(x) + Len(y)
      /\ Len(x) \in Nat /\ Len(y) \in Nat
      /\ \A i \in 1 .. Len(x) + Len(y) :
            (x \o y)[i] = IF i <= Len(x) THEN x[i] ELSE y[i - Len(x)]
  BY ConcatProperties, LenProperties
<1>2. /\ Detail(x) \o Detail(y) \in Seq(FileLine) /\ Len(Detail(x) \o Detail(y)) = Len(x) + Len(y)
      /\ \A i \in 1 .. Len(x) + Len(y) : (Detail(x) \o Detail(y))[i]
             = IF i <= Len(x) THEN Detail(x)[i] ELSE Detail(y)[i - Len(x)]
  <2>1. /\ Detail(x) \in Seq(FileLine) /\ Len(Detail(x)) = Len(x)
        /\ Detail(y) \in Seq(FileLine) /\ Len(Detail(y)) = Len(y)
    BY DetailShape
  <2>2. /\ Detail(x) \o Detail(y) \in Seq(FileLine)
        /\ Len(Detail(x) \o Detail(y)) = Len(Detail(x)) + Len(Detail(y))
        /\ \A i \in 1 .. Len(Detail(x)) + Len(Detail(y)) : (Detail(x) \o Detail(y))[i]
               = IF i <= Len(Detail(x)) THEN Detail(x)[i] ELSE Detail(y)[i - Len(Detail(x))]
    BY <2>1, ConcatProperties
  <2>. QED
    BY <2>1, <2>2
<1>3. Detail(x \o y) \in Seq(FileLine) /\ Len(Detail(x \o y)) = Len(x) + Len(y)
  BY <1>1, DetailShape
<1>4. ASSUME NEW i \in 1 .. Len(x) + Len(y)
      PROVE  Detail(x \o y)[i] = (Detail(x) \o Detail(y))[i]
  <2>1. Detail(x \o y)[i] = EntryLine((x \o y)[i])
    BY <1>1, DetailShape
  <2>2. CASE i <= Len(x)
    <3>1. i \in 1 .. Len(x)
      BY <1>1, <2>2
    <3>2. Detail(x)[i] = EntryLine(x[i])
      BY <3>1, DetailShape
    <3>. QED
      BY <1>1, <1>2, <2>1, <2>2, <3>2
  <2>3. CASE ~(i <= Len(x))
    <3>1. i - Len(x) \in 1 .. Len(y)
      BY <1>1, <2>3
    <3>2. Detail(y)[i - Len(x)] = EntryLine(y[i - Len(x)])
      BY <3>1, DetailShape
    <3>. QED
      BY <1>1, <1>2, <2>1, <2>3, <3>2
  <2>. QED
    BY <2>2, <2>3
<1>. QED
  BY <1>2, <1>3, <1>4, SeqEqual

-----------------------------------------------------------------------------
(* Batches                                                                   *)

BatchControl(x) == Control("batchControl", Len(x) + 1, Amount(x), Hash(x))

BatchLines(x) == <<Line("batch", <<>>)>> \o Detail(x) \o <<BatchControl(x)>>

NoControl(s) == \A i \in 1 .. Len(s) : s[i].kind # "control"

LEMMA OneLine ==
  ASSUME NEW line \in FileLine
  PROVE  /\ <<line>> \in Seq(FileLine) /\ Len(<<line>>) = 1
         /\ line.kind # "control" => NoControl(<<line>>)
         /\ \A kind : LinesOf(<<line>>, kind) = Chosen(line, kind)
<1>1. <<line>> \in Seq(FileLine) /\ Len(<<line>>) = 1 /\ <<line>>[1] = line
  OBVIOUS
<1>2. ASSUME NEW kind PROVE LinesOf(<<line>>, kind) = Chosen(line, kind)
  <2>1. \A i \in 1 .. Len(<<line>>) : <<line>>[i].kind = line.kind
    OBVIOUS
  <2>2. LinesOf(<<line>>, kind) = IF line.kind = kind THEN <<line>> ELSE <<>>
    BY <1>1, <2>1, LinesOfSame
  <2>. QED
    BY <2>2 DEF Chosen
<1>. QED
  BY <1>1, <1>2 DEF NoControl

LEMMA NoControlConcat ==
  ASSUME NEW s \in Seq(FileLine), NEW t \in Seq(FileLine), NoControl(s), NoControl(t)
  PROVE  NoControl(s \o t)
<1>1. /\ Len(s \o t) = Len(s) + Len(t) /\ Len(s) \in Nat /\ Len(t) \in Nat
      /\ \A i \in 1 .. Len(s) + Len(t) :
            (s \o t)[i] = IF i <= Len(s) THEN s[i] ELSE t[i - Len(s)]
  BY ConcatProperties, LenProperties
<1>2. ASSUME NEW i \in 1 .. Len(s) + Len(t) PROVE (s \o t)[i].kind # "control"
  <2>1. CASE i <= Len(s)
    <3>1. i \in 1 .. Len(s)
      BY <1>1, <2>1
    <3>. QED
      BY <1>1, <2>1, <3>1 DEF NoControl
  <2>2. CASE ~(i <= Len(s))
    <3>1. i - Len(s) \in 1 .. Len(t)
      BY <1>1, <2>2
    <3>. QED
      BY <1>1, <2>2, <3>1 DEF NoControl
  <2>. QED
    BY <2>1, <2>2
<1>. QED
  BY <1>1, <1>2 DEF NoControl

\* The lines of one batch, kind by kind.
LEMMA BatchShape ==
  ASSUME NEW x \in Seq(Entry)
  PROVE  /\ BatchControl(x) \in FileLine /\ BatchControl(x).kind = "batchControl"
         /\ BatchLines(x) \in Seq(FileLine)
         /\ Len(BatchLines(x)) = Len(x) + 2
         /\ NoControl(BatchLines(x))
         /\ LinesOf(BatchLines(x), "entry") = Detail(x)
         /\ Len(LinesOf(BatchLines(x), "batch")) = 1
         /\ LinesOf(BatchLines(x), "batchControl") = <<BatchControl(x)>>
         /\ LinesOf(BatchLines(x), "control") = <<>>
<1>. DEFINE b == Line("batch", <<>>)
            d == Detail(x)
            c == BatchControl(x)
<1>1. Amount(x) \in Nat /\ Hash(x) \in Nat /\ Len(x) + 1 \in Nat
  BY Totals
<1>2. b \in FileLine /\ c \in FileLine
  BY <1>1, LineType DEF BatchControl, Kinds
<1>3. b.kind = "batch" /\ c.kind = "batchControl"
  BY DEF BatchControl, Control, Line
<1>4. d \in Seq(FileLine) /\ Len(d) = Len(x) /\ \A i \in 1 .. Len(d) : d[i].kind = "entry"
  BY DetailShape
<1>5. BatchLines(x) = <<b>> \o d \o <<c>>
  BY DEF BatchLines
<1>. HIDE DEF b, c, d
<1>6. /\ <<b>> \in Seq(FileLine) /\ Len(<<b>>) = 1 /\ NoControl(<<b>>)
      /\ \A kind : LinesOf(<<b>>, kind) = Chosen(b, kind)
  BY <1>2, <1>3, OneLine
<1>7. /\ <<c>> \in Seq(FileLine) /\ Len(<<c>>) = 1 /\ NoControl(<<c>>)
      /\ \A kind : LinesOf(<<c>>, kind) = Chosen(c, kind)
  BY <1>2, <1>3, OneLine
<1>8. NoControl(d)
  BY <1>4 DEF NoControl
<1>9. /\ <<b>> \o d \in Seq(FileLine) /\ Len(<<b>> \o d) = Len(<<b>>) + Len(d)
  BY <1>4, <1>6, ConcatProperties
<1>10. /\ (<<b>> \o d) \o <<c>> \in Seq(FileLine)
       /\ Len((<<b>> \o d) \o <<c>>) = Len(<<b>> \o d) + Len(<<c>>)
  BY <1>7, <1>9, ConcatProperties
<1>11. NoControl(<<b>> \o d)
  BY <1>4, <1>6, <1>8, NoControlConcat
<1>12. NoControl((<<b>> \o d) \o <<c>>)
  BY <1>7, <1>9, <1>11, NoControlConcat
<1>13. ASSUME NEW kind
       PROVE  LinesOf(BatchLines(x), kind)
                 = (Chosen(b, kind) \o (IF "entry" = kind THEN d ELSE <<>>)) \o Chosen(c, kind)
  <2>1. LinesOf((<<b>> \o d) \o <<c>>, kind) = LinesOf(<<b>> \o d, kind) \o LinesOf(<<c>>, kind)
    BY <1>7, <1>9, LinesOfConcat
  <2>2. LinesOf(<<b>> \o d, kind) = LinesOf(<<b>>, kind) \o LinesOf(d, kind)
    BY <1>4, <1>6, LinesOfConcat
  <2>3. LinesOf(d, kind) = IF "entry" = kind THEN d ELSE <<>>
    BY <1>4, LinesOfSame
  <2>. QED
    BY <1>5, <1>6, <1>7, <2>1, <2>2, <2>3
<1>14. LinesOf(BatchLines(x), "entry") = d
  <2>1. Chosen(b, "entry") = <<>> /\ Chosen(c, "entry") = <<>>
    BY <1>3 DEF Chosen
  <2>2. (<<>> \o d) \o <<>> = d
    BY <1>4, ConcatEmptySeq
  <2>. QED
    BY <1>13, <2>1, <2>2
<1>15. LinesOf(BatchLines(x), "batch") = <<b>>
  <2>1. Chosen(b, "batch") = <<b>> /\ Chosen(c, "batch") = <<>>
    BY <1>3 DEF Chosen
  <2>2. (<<b>> \o <<>>) \o <<>> = <<b>>
    BY <1>6, ConcatEmptySeq
  <2>. QED
    BY <1>13, <2>1, <2>2
<1>16. LinesOf(BatchLines(x), "batchControl") = <<c>>
  <2>1. Chosen(b, "batchControl") = <<>> /\ Chosen(c, "batchControl") = <<c>>
    BY <1>3 DEF Chosen
  <2>2. (<<>> \o <<>>) \o <<c>> = <<c>>
    BY <1>7, ConcatEmptySeq
  <2>. QED
    BY <1>13, <2>1, <2>2
<1>17. LinesOf(BatchLines(x), "control") = <<>>
  <2>1. Chosen(b, "control") = <<>> /\ Chosen(c, "control") = <<>>
    BY <1>3 DEF Chosen
  <2>2. (<<>> \o <<>>) \o <<>> = <<>>
    OBVIOUS
  <2>. QED
    BY <1>13, <2>1, <2>2
<1>18. Len(<<b>>) + Len(d) + Len(<<c>>) = Len(x) + 2
  BY <1>4, <1>6, <1>7, LenProperties
<1>. QED
  BY <1>2, <1>3, <1>5, <1>6, <1>7, <1>9, <1>10, <1>12, <1>14, <1>15, <1>16, <1>17, <1>18 DEF d, c

-----------------------------------------------------------------------------
(* All batches                                                               *)

Body(f) == FlattenSeq([b \in DOMAIN f |-> Batch(f, b)])

Controls(f) == [b \in DOMAIN f |-> BatchControl(f[b])]

\* The lines of all batches are those of each.
LEMMA BatchesAre ==
  ASSUME NEW f \in Seq(Seq(Entry))
  PROVE  /\ [b \in DOMAIN f |-> Batch(f, b)] \in Seq(Seq(FileLine))
         /\ Len([b \in DOMAIN f |-> Batch(f, b)]) = Len(f)
         /\ \A i \in 1 .. Len(f) : [b \in DOMAIN f |-> Batch(f, b)][i] = BatchLines(f[i])
         /\ Controls(f) \in Seq(FileLine) /\ Len(Controls(f)) = Len(f)
         /\ \A i \in 1 .. Len(f) : Controls(f)[i] = BatchControl(f[i])
<1>. DEFINE M == [b \in DOMAIN f |-> Batch(f, b)]
<1>1. Len(f) \in Nat /\ DOMAIN f = 1 .. Len(f) /\ \A i \in 1 .. Len(f) : f[i] \in Seq(Entry)
  BY LenProperties
<1>2. M = [b \in 1 .. Len(f) |-> BatchLines(f[b])]
  BY <1>1 DEF Batch, BatchLines, BatchControl
<1>3. \A i \in 1 .. Len(f) : BatchLines(f[i]) \in Seq(FileLine) /\ BatchControl(f[i]) \in FileLine
  BY <1>1, BatchShape
<1>. HIDE DEF M
<1>4. M \in [1 .. Len(f) -> Seq(FileLine)] /\ \A i \in 1 .. Len(f) : M[i] = BatchLines(f[i])
  BY <1>2, <1>3
<1>5. M \in Seq(Seq(FileLine)) /\ Len(M) = Len(f)
  BY <1>1, <1>4, IsSequence
<1>6. /\ Controls(f) \in [1 .. Len(f) -> FileLine]
      /\ \A i \in 1 .. Len(f) : Controls(f)[i] = BatchControl(f[i])
  BY <1>1, <1>3 DEF Controls
<1>7. Controls(f) \in Seq(FileLine) /\ Len(Controls(f)) = Len(f)
  BY <1>1, <1>6, IsSequence
<1>. QED
  BY <1>4, <1>5, <1>6, <1>7 DEF M

\* A file and one more batch.
LEMMA BodyAppend ==
  ASSUME NEW f \in Seq(Seq(Entry)), NEW x \in Seq(Entry)
  PROVE  /\ Body(f) \in Seq(FileLine)
         /\ Body(Append(f, x)) = Body(f) \o BatchLines(x)
         /\ Entries(f) \in Seq(Entry)
         /\ Entries(Append(f, x)) = Entries(f) \o x
         /\ Controls(Append(f, x)) = Append(Controls(f), BatchControl(x))
<1>. DEFINE g == Append(f, x)
            M(h) == [b \in DOMAIN h |-> Batch(h, b)]
            n == Len(f)
<1>1. /\ g \in Seq(Seq(Entry)) /\ Len(g) = n + 1 /\ n \in Nat /\ g[n + 1] = x
      /\ \A i \in 1 .. n : g[i] = f[i]
  BY AppendProperties, LenProperties
<1>2. \A h \in Seq(Seq(Entry)) :
         /\ M(h) \in Seq(Seq(FileLine)) /\ Len(M(h)) = Len(h)
         /\ \A i \in 1 .. Len(h) : M(h)[i] = BatchLines(h[i])
         /\ Controls(h) \in Seq(FileLine) /\ Len(Controls(h)) = Len(h)
         /\ \A i \in 1 .. Len(h) : Controls(h)[i] = BatchControl(h[i])
  BY BatchesAre
<1>3. BatchLines(x) \in Seq(FileLine) /\ BatchControl(x) \in FileLine
  BY BatchShape
<1>4. \A h : Body(h) = FlattenSeq(M(h))
  BY DEF Body
<1>. HIDE DEF M, g, n
<1>5. /\ M(f) \in Seq(Seq(FileLine)) /\ Len(M(f)) = n
      /\ \A i \in 1 .. n : M(f)[i] = BatchLines(f[i])
      /\ Controls(f) \in Seq(FileLine) /\ Len(Controls(f)) = n
      /\ \A i \in 1 .. n : Controls(f)[i] = BatchControl(f[i])
  BY <1>2 DEF n
<1>6. /\ M(g) \in Seq(Seq(FileLine)) /\ Len(M(g)) = n + 1
      /\ \A i \in 1 .. n + 1 : M(g)[i] = BatchLines(g[i])
      /\ Controls(g) \in Seq(FileLine) /\ Len(Controls(g)) = n + 1
      /\ \A i \in 1 .. n + 1 : Controls(g)[i] = BatchControl(g[i])
  BY <1>1, <1>2
<1>7. n + 1 \in 1 .. n + 1 /\ \A i \in 1 .. n : i \in 1 .. n + 1
  BY <1>1
<1>8. M(g) = Append(M(f), BatchLines(x))
  <2>1. \A i \in 1 .. Len(M(f)) : M(g)[i] = M(f)[i]
    BY <1>1, <1>5, <1>6, <1>7
  <2>2. M(g)[Len(M(f)) + 1] = BatchLines(x) /\ Len(M(g)) = Len(M(f)) + 1
    BY <1>1, <1>5, <1>6, <1>7
  <2>. QED
    BY <1>3, <1>5, <1>6, <2>1, <2>2, IsAppend
<1>9. Controls(g) = Append(Controls(f), BatchControl(x))
  <2>1. \A i \in 1 .. Len(Controls(f)) : Controls(g)[i] = Controls(f)[i]
    BY <1>1, <1>5, <1>6, <1>7
  <2>2. Controls(g)[Len(Controls(f)) + 1] = BatchControl(x) /\ Len(Controls(g)) = Len(Controls(f)) + 1
    BY <1>1, <1>5, <1>6, <1>7
  <2>. QED
    BY <1>3, <1>5, <1>6, <2>1, <2>2, IsAppend
<1>10. FlattenSeq(M(f)) \in Seq(FileLine) /\ FlattenSeq(M(g)) = FlattenSeq(M(f)) \o BatchLines(x)
  BY <1>3, <1>5, <1>8, FlattenType, FlattenAppend
<1>11. FlattenSeq(f) \in Seq(Entry) /\ FlattenSeq(Append(f, x)) = FlattenSeq(f) \o x
  BY FlattenType, FlattenAppend
<1>. QED
  BY <1>4, <1>9, <1>10, <1>11 DEF g, Entries

LEMMA BodyNone ==
  Body(<<>>) = <<>> /\ Entries(<<>>) = <<>> /\ Controls(<<>>) = <<>>
<1>1. [b \in DOMAIN <<>> |-> Batch(<<>>, b)] = <<>> /\ Controls(<<>>) = <<>>
  BY DEF Controls
<1>. QED
  BY <1>1, FlattenNone DEF Body, Entries

\* What the lines of all batches hold.
BodyHolds(f) ==
    /\ LinesOf(Body(f), "entry") = Detail(Entries(f))
    /\ Len(LinesOf(Body(f), "batch")) = Len(f)
    /\ LinesOf(Body(f), "batchControl") = Controls(f)
    /\ LinesOf(Body(f), "control") = <<>>
    /\ NoControl(Body(f))
    /\ Len(Body(f)) = Len(Entries(f)) + 2 * Len(f)

LEMMA LinesOfType ==
  ASSUME NEW s \in Seq(FileLine), NEW kind
  PROVE  LinesOf(s, kind) \in Seq(FileLine)
<1>1. Line("header", <<>>) \in FileLine
  BY LineType DEF Kinds
<1>. QED
  BY <1>1, LinesOfAppend

LEMMA BodyShape ==
  ASSUME NEW f \in Seq(Seq(Entry))
  PROVE  Body(f) \in Seq(FileLine) /\ Entries(f) \in Seq(Entry) /\ BodyHolds(f)
<1>1. Body(f) \in Seq(FileLine) /\ Entries(f) \in Seq(Entry)
  <2>1. <<>> \in Seq(Entry)
    OBVIOUS
  <2>. QED
    BY <2>1, BodyAppend
<1>. DEFINE C == {g \in Seq(Seq(Entry)) : ~BodyHolds(g)}
<1>2. ASSUME C # {} PROVE FALSE
  <2>1. PICK g \in C : g = <<>> \/ \E h \in Seq(Seq(Entry)), x \in Seq(Entry) :
                                      g = Append(h, x) /\ h \notin C
    <3>1. C \subseteq Seq(Seq(Entry))
      OBVIOUS
    <3>. HIDE DEF C
    <3>. QED
      BY <1>2, <3>1, ShortestSequence
  <2>2. CASE g = <<>>
    <3>1. Detail(<<>>) = <<>> /\ NoControl(<<>>) /\ Len(<<>>) = 0
      BY DEF Detail, NoControl
    <3>2. BodyHolds(<<>>)
      BY <3>1, BodyNone, LinesOfNone DEF BodyHolds
    <3>. QED
      BY <2>2, <3>2
  <2>3. CASE \E h \in Seq(Seq(Entry)), x \in Seq(Entry) : g = Append(h, x) /\ h \notin C
    <3>1. PICK h \in Seq(Seq(Entry)), x \in Seq(Entry) : g = Append(h, x) /\ h \notin C
      BY <2>3
    <3>2. BodyHolds(h) /\ ~BodyHolds(g)
      BY <3>1
    <3>. HIDE DEF C
    <3>3. /\ Body(h) \in Seq(FileLine) /\ Body(g) = Body(h) \o BatchLines(x)
          /\ Entries(h) \in Seq(Entry) /\ Entries(g) = Entries(h) \o x
          /\ Controls(g) = Append(Controls(h), BatchControl(x))
      BY <3>1, BodyAppend
    <3>4. BatchLines(x) \in Seq(FileLine) /\ NoControl(BatchLines(x)) /\ Len(BatchLines(x)) = Len(x) + 2
      BY BatchShape
    <3>5. ASSUME NEW kind
          PROVE  LinesOf(Body(g), kind) = LinesOf(Body(h), kind) \o LinesOf(BatchLines(x), kind)
      BY <3>3, <3>4, LinesOfConcat
    <3>6. LinesOf(Body(g), "entry") = Detail(Entries(g))
      <4>1. LinesOf(Body(h), "entry") = Detail(Entries(h)) /\ LinesOf(BatchLines(x), "entry") = Detail(x)
        BY <3>2, BatchShape DEF BodyHolds
      <4>2. Detail(Entries(h) \o x) = Detail(Entries(h)) \o Detail(x)
        BY <3>3, DetailConcat
      <4>. QED
        BY <3>3, <3>5, <4>1, <4>2
    <3>7. Len(LinesOf(Body(g), "batch")) = Len(g)
      <4>1. Len(LinesOf(Body(h), "batch")) = Len(h) /\ Len(LinesOf(BatchLines(x), "batch")) = 1
        BY <3>2, BatchShape DEF BodyHolds
      <4>2. LinesOf(Body(h), "batch") \in Seq(FileLine) /\ LinesOf(BatchLines(x), "batch") \in Seq(FileLine)
        BY <3>3, <3>4, LinesOfType
      <4>3. Len(LinesOf(Body(h), "batch") \o LinesOf(BatchLines(x), "batch")) = Len(h) + 1
        <5>1. PICK a \in Seq(FileLine) : a = LinesOf(Body(h), "batch")
          BY <4>2
        <5>2. PICK b \in Seq(FileLine) : b = LinesOf(BatchLines(x), "batch")
          BY <4>2
        <5>3. Len(a \o b) = Len(a) + Len(b)
          OBVIOUS
        <5>. QED
          BY <4>1, <5>1, <5>2, <5>3
      <4>4. Len(g) = Len(h) + 1
        BY <3>1, AppendProperties
      <4>. QED
        BY <3>5, <4>3, <4>4
    <3>8. LinesOf(Body(g), "batchControl") = Controls(g)
      <4>1. /\ LinesOf(Body(h), "batchControl") = Controls(h)
            /\ LinesOf(BatchLines(x), "batchControl") = <<BatchControl(x)>>
        BY <3>2, BatchShape DEF BodyHolds
      <4>2. Controls(h) \in Seq(FileLine) /\ BatchControl(x) \in FileLine
        BY BatchesAre, BatchShape
      <4>3. Append(Controls(h), BatchControl(x)) = Controls(h) \o <<BatchControl(x)>>
        BY <4>2, AppendIsConcat
      <4>. QED
        BY <3>3, <3>5, <4>1, <4>3
    <3>9. LinesOf(Body(g), "control") = <<>>
      <4>1. LinesOf(Body(h), "control") = <<>> /\ LinesOf(BatchLines(x), "control") = <<>>
        BY <3>2, BatchShape DEF BodyHolds
      <4>2. <<>> \o <<>> = <<>>
        OBVIOUS
      <4>. QED
        BY <3>5, <4>1, <4>2
    <3>10. NoControl(Body(g))
      <4>1. NoControl(Body(h))
        BY <3>2 DEF BodyHolds
      <4>2. NoControl(Body(h) \o BatchLines(x))
        BY <3>3, <3>4, <4>1, NoControlConcat
      <4>. QED
        BY <3>3, <4>2
    <3>11. Len(Body(g)) = Len(Entries(g)) + 2 * Len(g)
      <4>1. Len(Body(h)) = Len(Entries(h)) + 2 * Len(h)
        BY <3>2 DEF BodyHolds
      <4>2. Len(Body(h) \o BatchLines(x)) = Len(Body(h)) + Len(BatchLines(x))
        BY <3>3, <3>4, ConcatProperties
      <4>3. Len(Entries(h) \o x) = Len(Entries(h)) + Len(x)
        BY <3>3, ConcatProperties
      <4>4. Len(g) = Len(h) + 1
        BY <3>1, AppendProperties
      <4>5. Len(h) \in Nat /\ Len(x) \in Nat /\ Len(Entries(h)) \in Nat
        BY <3>3, LenProperties
      <4>. QED
        BY <3>3, <3>4, <4>1, <4>2, <4>3, <4>4, <4>5
    <3>12. BodyHolds(g)
      BY <3>6, <3>7, <3>8, <3>9, <3>10, <3>11 DEF BodyHolds
    <3>. QED
      BY <3>2, <3>12
  <2>. QED
    BY <2>1, <2>2, <2>3
<1>3. f \notin C
  BY <1>2
<1>. QED
  BY <1>1, <1>3

\* Every batch is within the totals of the file, and they add up to them.
BatchesWithin(f) ==
    /\ \A b \in 1 .. Len(f) : /\ Len(f[b]) <= Len(Entries(f))
                              /\ Amount(f[b]) <= Amount(Entries(f))
                              /\ Hash(f[b]) <= Hash(Entries(f))
    /\ SumFunction([b \in DOMAIN f |-> Amount(f[b])]) = Amount(Entries(f))
    /\ SumFunction([b \in DOMAIN f |-> Hash(f[b])]) = Hash(Entries(f))

LEMMA BatchesAddUp ==
  ASSUME NEW f \in Seq(Seq(Entry))
  PROVE  BatchesWithin(f)
<1>. DEFINE C == {g \in Seq(Seq(Entry)) : ~BatchesWithin(g)}
<1>1. ASSUME C # {} PROVE FALSE
  <2>1. PICK g \in C : g = <<>> \/ \E h \in Seq(Seq(Entry)), x \in Seq(Entry) :
                                      g = Append(h, x) /\ h \notin C
    <3>1. C \subseteq Seq(Seq(Entry))
      OBVIOUS
    <3>. HIDE DEF C
    <3>. QED
      BY <1>1, <3>1, ShortestSequence
  <2>2. CASE g = <<>>
    <3>1. /\ [b \in DOMAIN <<>> |-> Amount(<<>>[b])] = <<>>
          /\ [b \in DOMAIN <<>> |-> Hash(<<>>[b])] = <<>>
          /\ [b \in DOMAIN <<>> |-> <<>>[b].amount] = <<>>
          /\ [b \in DOMAIN <<>> |-> <<>>[b].hash] = <<>>
          /\ Len(<<>>) = 0
      OBVIOUS
    <3>2. Amount(<<>>) = 0 /\ Hash(<<>>) = 0
      BY <3>1, SumOfEmpty DEF Amount, Hash
    <3>3. BatchesWithin(<<>>)
      BY <3>1, <3>2, BodyNone, SumOfEmpty DEF BatchesWithin
    <3>. QED
      BY <2>2, <3>3
  <2>3. CASE \E h \in Seq(Seq(Entry)), x \in Seq(Entry) : g = Append(h, x) /\ h \notin C
    <3>1. PICK h \in Seq(Seq(Entry)), x \in Seq(Entry) : g = Append(h, x) /\ h \notin C
      BY <2>3
    <3>2. BatchesWithin(h) /\ ~BatchesWithin(g)
      BY <3>1
    <3>. DEFINE n == Len(h)
                A(k) == [b \in DOMAIN k |-> Amount(k[b])]
                H(k) == [b \in DOMAIN k |-> Hash(k[b])]
    <3>3. /\ Len(g) = n + 1 /\ n \in Nat /\ g[n + 1] = x /\ DOMAIN g = 1 .. n + 1
          /\ DOMAIN h = 1 .. n /\ \A b \in 1 .. n : g[b] = h[b] /\ h[b] \in Seq(Entry)
      BY <3>1, AppendProperties, LenProperties
    <3>. HIDE DEF C, n
    <3>4. Entries(h) \in Seq(Entry) /\ Entries(g) = Entries(h) \o x
      BY <3>1, BodyAppend
    <3>5. /\ Amount(Entries(h)) \in Nat /\ Amount(x) \in Nat
          /\ Amount(Entries(g)) = Amount(Entries(h)) + Amount(x)
          /\ Hash(Entries(h)) \in Nat /\ Hash(x) \in Nat
          /\ Hash(Entries(g)) = Hash(Entries(h)) + Hash(x)
          /\ Len(Entries(g)) = Len(Entries(h)) + Len(x)
          /\ Len(Entries(h)) \in Nat /\ Len(x) \in Nat
      BY <3>4, Totals, ConcatProperties, LenProperties
    <3>6. /\ A(h) \in Seq(Int) /\ A(g) = Append(A(h), Amount(x))
          /\ H(h) \in Seq(Int) /\ H(g) = Append(H(h), Hash(x))
      <4>0. \A b \in 1 .. n : Amount(h[b]) \in Int /\ Hash(h[b]) \in Int
        <5>. SUFFICES ASSUME NEW b \in 1 .. n PROVE Amount(h[b]) \in Int /\ Hash(h[b]) \in Int
          OBVIOUS
        <5>1. h[b] \in Seq(Entry)
          BY <3>3
        <5>2. Amount(h[b]) \in Nat /\ Hash(h[b]) \in Nat
          BY <5>1, TotalsType
        <5>. QED
          BY <5>2
      <4>1. A(h) \in Seq(Int) /\ Len(A(h)) = n /\ H(h) \in Seq(Int) /\ Len(H(h)) = n
        BY <3>3, <4>0
      <4>2. \A b \in 1 .. n + 1 : g[b] = IF b = n + 1 THEN x ELSE h[b]
        BY <3>3
      <4>3. \A b \in 1 .. n + 1 : Amount(g[b]) \in Int /\ Hash(g[b]) \in Int
        <5>. SUFFICES ASSUME NEW b \in 1 .. n + 1 PROVE Amount(g[b]) \in Int /\ Hash(g[b]) \in Int
          OBVIOUS
        <5>1. CASE b = n + 1
          <6>1. g[b] = x
            BY <3>3, <5>1
          <6>. QED
            BY <3>5, <6>1
        <5>2. CASE b # n + 1
          <6>1. b \in 1 .. n /\ g[b] = h[b]
            BY <3>3, <5>2
          <6>. QED
            BY <4>0, <6>1
        <5>. QED
          BY <5>1, <5>2
      <4>4. A(g) \in Seq(Int) /\ Len(A(g)) = n + 1 /\ H(g) \in Seq(Int) /\ Len(H(g)) = n + 1
        BY <3>3, <4>3
      <4>5. \A b \in 1 .. n : /\ A(h)[b] = Amount(h[b]) /\ A(g)[b] = Amount(g[b])
                              /\ H(h)[b] = Hash(h[b]) /\ H(g)[b] = Hash(g[b])
        BY <3>3
      <4>6. A(g)[n + 1] = Amount(x) /\ H(g)[n + 1] = Hash(x)
        BY <3>3
      <4>. HIDE DEF A, H
      <4>7. A(g) = Append(A(h), Amount(x))
        BY <3>3, <3>5, <4>1, <4>4, <4>5, <4>6, IsAppend
      <4>8. H(g) = Append(H(h), Hash(x))
        BY <3>3, <3>5, <4>1, <4>4, <4>5, <4>6, IsAppend
      <4>. QED
        BY <4>1, <4>7, <4>8
    <3>7. SumFunction(A(h)) = Amount(Entries(h)) /\ SumFunction(H(h)) = Hash(Entries(h))
      BY <3>2 DEF BatchesWithin
    <3>. HIDE DEF A, H
    <3>8. SumFunction(A(g)) = Amount(Entries(g))
      <4>1. SumFunction(Append(A(h), Amount(x))) = SumFunction(A(h)) + Amount(x)
        BY <3>5, <3>6, SumOfAppend
      <4>. QED
        BY <3>5, <3>6, <3>7, <4>1
    <3>9. SumFunction(H(g)) = Hash(Entries(g))
      <4>1. SumFunction(Append(H(h), Hash(x))) = SumFunction(H(h)) + Hash(x)
        BY <3>5, <3>6, SumOfAppend
      <4>. QED
        BY <3>5, <3>6, <3>7, <4>1
    <3>10. ASSUME NEW b \in 1 .. Len(g)
           PROVE  /\ Len(g[b]) <= Len(Entries(g))
                  /\ Amount(g[b]) <= Amount(Entries(g))
                  /\ Hash(g[b]) <= Hash(Entries(g))
      <4>1. CASE b = n + 1
        BY <3>3, <3>5, <4>1
      <4>2. CASE b # n + 1
        <5>1. b \in 1 .. n /\ g[b] = h[b] /\ h[b] \in Seq(Entry)
          BY <3>3, <4>2
        <5>2. /\ Len(h[b]) <= Len(Entries(h))
              /\ Amount(h[b]) <= Amount(Entries(h))
              /\ Hash(h[b]) <= Hash(Entries(h))
          BY <3>2, <5>1 DEF BatchesWithin, n
        <5>3. Len(h[b]) \in Nat /\ Amount(h[b]) \in Nat /\ Hash(h[b]) \in Nat
          BY <5>1, TotalsType, LenProperties
        <5>4. \A p, q, z \in Nat : p <= q => p <= q + z
          OBVIOUS
        <5>5. /\ Len(h[b]) <= Len(Entries(g))
              /\ Amount(h[b]) <= Amount(Entries(g))
              /\ Hash(h[b]) <= Hash(Entries(g))
          BY <3>5, <5>2, <5>3, <5>4
        <5>. QED
          BY <5>1, <5>5
      <4>. QED
        BY <4>1, <4>2
    <3>11. BatchesWithin(g)
      BY <3>8, <3>9, <3>10 DEF BatchesWithin, A, H
    <3>. QED
      BY <3>2, <3>11
  <2>. QED
    BY <2>1, <2>2, <2>3
<1>2. f \notin C
  BY <1>1
<1>. QED
  BY <1>2

-----------------------------------------------------------------------------
(* What Validate reads                                                       *)

\* The fields of a control line, as far as those before them fit.
LEMMA ControlFields ==
  ASSUME NEW kind, NEW c \in Nat, NEW a \in Nat, NEW h \in Nat,
         NEW line, line = Control(kind, c, a, h)
  PROVE  /\ Field(line, 0, CountWidth) \in 0 .. Power(CountWidth) - 1
         /\ c < Power(CountWidth) =>
               /\ Field(line, 0, CountWidth) = c
               /\ a < Power(TotalWidth) =>
                     /\ Field(line, CountWidth, TotalWidth) = a
                     /\ Field(line, CountWidth + TotalWidth, HashWidth)
                           \in 0 .. Power(HashWidth) - 1
                     /\ h < Power(HashWidth) =>
                           Field(line, CountWidth + TotalWidth, HashWidth) = h
<1>. DEFINE A == Columns(c, CountWidth)
            B == Columns(a, TotalWidth)
            D == Columns(h, HashWidth)
            S == 0 .. Radix - 1
<1>1. /\ CountWidth \in Nat \ {0} /\ TotalWidth \in Nat \ {0} /\ HashWidth \in Nat \ {0}
  BY Widths
<1>2. /\ A \in Seq(S) /\ Len(A) \in Nat /\ Len(A) >= CountWidth
      /\ B \in Seq(S) /\ Len(B) \in Nat /\ Len(B) >= TotalWidth
      /\ D \in Seq(S) /\ Len(D) \in Nat /\ Len(D) >= HashWidth
  BY <1>1, ColumnsShape
<1>3. c < Power(CountWidth) => Len(A) = CountWidth
  BY <1>1, ColumnsShape
<1>4. a < Power(TotalWidth) => Len(B) = TotalWidth
  BY <1>1, ColumnsShape
<1>5. line.digits = (A \o B) \o D
  BY DEF Control, Line
<1>6. /\ \A i \in 1 .. Len(A) : A[i] \in S
      /\ \A i \in 1 .. Len(B) : B[i] \in S
      /\ \A i \in 1 .. Len(D) : D[i] \in S
  BY <1>2, ElementOfSeq
<1>. HIDE DEF S
<1>7. /\ A \o B \in Seq(S) /\ Len(A \o B) = Len(A) + Len(B)
      /\ \A i \in 1 .. Len(A) + Len(B) :
            (A \o B)[i] = IF i <= Len(A) THEN A[i] ELSE B[i - Len(A)]
  <2>. HIDE DEF A, B, D
  <2>. QED
    BY <1>2, ConcatProperties
<1>8. \A i \in 1 .. Len(A \o B) + Len(D) :
         ((A \o B) \o D)[i] = IF i <= Len(A \o B) THEN (A \o B)[i] ELSE D[i - Len(A \o B)]
  <2>. HIDE DEF A, B, D
  <2>. QED
    BY <1>2, <1>7, ConcatProperties
<1>9. ASSUME NEW i \in 1 .. CountWidth
      PROVE  line.digits[0 + i] = A[i] /\ A[i] \in 0 .. Radix - 1
  <2>. HIDE DEF A, B, D
  <2>1. i \in 1 .. Len(A) /\ i \in 1 .. Len(A) + Len(B) /\ 0 + i = i
        /\ i \in 1 .. Len(A \o B) + Len(D) /\ i <= Len(A) /\ i <= Len(A \o B)
    BY <1>1, <1>2, <1>7
  <2>. QED
    BY <1>5, <1>6, <1>7, <1>8, <2>1 DEF S
<1>10. ASSUME NEW i \in 1 .. TotalWidth, Len(A) = CountWidth
       PROVE  line.digits[CountWidth + i] = B[i] /\ B[i] \in 0 .. Radix - 1
  <2>. HIDE DEF A, B, D
  <2>1. /\ i \in 1 .. Len(B) /\ CountWidth + i \in 1 .. Len(A) + Len(B)
        /\ CountWidth + i \in 1 .. Len(A \o B) + Len(D)
        /\ ~(CountWidth + i <= Len(A)) /\ CountWidth + i <= Len(A \o B)
        /\ (CountWidth + i) - Len(A) = i
    BY <1>1, <1>2, <1>7, <1>10
  <2>. QED
    BY <1>5, <1>6, <1>7, <1>8, <2>1 DEF S
<1>11. ASSUME NEW i \in 1 .. HashWidth, Len(A) = CountWidth, Len(B) = TotalWidth
       PROVE  line.digits[CountWidth + TotalWidth + i] = D[i] /\ D[i] \in 0 .. Radix - 1
  <2>. HIDE DEF A, B, D
  <2>1. /\ i \in 1 .. Len(D)
        /\ CountWidth + TotalWidth + i \in 1 .. Len(A \o B) + Len(D)
        /\ ~(CountWidth + TotalWidth + i <= Len(A \o B))
        /\ (CountWidth + TotalWidth + i) - Len(A \o B) = i
    BY <1>1, <1>2, <1>7, <1>11
  <2>. QED
    BY <1>5, <1>6, <1>8, <2>1 DEF S
<1>12. Field(line, 0, CountWidth) \in 0 .. Power(CountWidth) - 1
  <2>1. \A i \in 1 .. CountWidth : line.digits[0 + i] \in 0 .. Radix - 1
    BY <1>9
  <2>. QED
    BY <1>1, <2>1, FieldBound
<1>13. c < Power(CountWidth) => Field(line, 0, CountWidth) = c
  <2>1. \A i \in 1 .. CountWidth : line.digits[0 + i] = A[i]
    BY <1>9
  <2>. QED
    BY <1>1, <2>1, FieldExact
<1>14. c < Power(CountWidth) /\ a < Power(TotalWidth) => Field(line, CountWidth, TotalWidth) = a
  <2>. SUFFICES ASSUME c < Power(CountWidth), a < Power(TotalWidth)
                PROVE  Field(line, CountWidth, TotalWidth) = a
    OBVIOUS
  <2>1. \A i \in 1 .. TotalWidth : line.digits[CountWidth + i] = B[i]
    BY <1>3, <1>10
  <2>. QED
    BY <1>1, <2>1, FieldExact
<1>15. c < Power(CountWidth) /\ a < Power(TotalWidth) =>
          Field(line, CountWidth + TotalWidth, HashWidth) \in 0 .. Power(HashWidth) - 1
  <2>. SUFFICES ASSUME c < Power(CountWidth), a < Power(TotalWidth)
                PROVE  Field(line, CountWidth + TotalWidth, HashWidth) \in 0 .. Power(HashWidth) - 1
    OBVIOUS
  <2>1. \A i \in 1 .. HashWidth : line.digits[CountWidth + TotalWidth + i] \in 0 .. Radix - 1
    BY <1>3, <1>4, <1>11
  <2>2. HashWidth \in Nat
    BY <1>1
  <2>. QED
    BY <2>1, <2>2, FieldBound
<1>16. c < Power(CountWidth) /\ a < Power(TotalWidth) /\ h < Power(HashWidth) =>
          Field(line, CountWidth + TotalWidth, HashWidth) = h
  <2>. SUFFICES ASSUME c < Power(CountWidth), a < Power(TotalWidth), h < Power(HashWidth)
                PROVE  Field(line, CountWidth + TotalWidth, HashWidth) = h
    OBVIOUS
  <2>1. \A i \in 1 .. HashWidth : line.digits[CountWidth + TotalWidth + i] = D[i]
    BY <1>3, <1>4, <1>11
  <2>. QED
    BY <1>1, <2>1, FieldExact
<1>. QED
  BY <1>12, <1>13, <1>14, <1>15, <1>16

\* What is read of an entry is its amount if it fits, and less than it otherwise.
LEMMA EntryField ==
  ASSUME NEW e \in Entry
  PROVE  /\ Field(EntryLine(e), 0, AmountWidth) \in Nat
         /\ Field(EntryLine(e), 0, AmountWidth) <= e.amount
         /\ e.amount < Power(AmountWidth) => Field(EntryLine(e), 0, AmountWidth) = e.amount
<1>. DEFINE D == Columns(e.amount, AmountWidth)
<1>1. AmountWidth \in Nat \ {0} /\ e.amount \in Nat
  BY Widths DEF Entry
<1>2. D \in Seq(0 .. Radix - 1) /\ Len(D) \in Nat /\ Len(D) >= AmountWidth
  BY <1>1, ColumnsShape
<1>3. \A i \in 1 .. AmountWidth : /\ EntryLine(e).digits[0 + i] = D[i]
                                  /\ EntryLine(e).digits[0 + i] \in 0 .. Radix - 1
  <2>. SUFFICES ASSUME NEW i \in 1 .. AmountWidth
                PROVE  /\ EntryLine(e).digits[0 + i] = D[i]
                       /\ EntryLine(e).digits[0 + i] \in 0 .. Radix - 1
    OBVIOUS
  <2>1. EntryLine(e).digits = D /\ 0 + i = i
    BY <1>1 DEF EntryLine
  <2>. HIDE DEF D
  <2>2. i \in 1 .. Len(D)
    BY <1>1, <1>2
  <2>3. D[i] \in 0 .. Radix - 1
    BY <1>2, <2>2, ElementOfSeq
  <2>. QED
    BY <2>1, <2>3
<1>4. Field(EntryLine(e), 0, AmountWidth) \in 0 .. Power(AmountWidth) - 1
  BY <1>1, <1>3, FieldBound
<1>5. e.amount < Power(AmountWidth) => Field(EntryLine(e), 0, AmountWidth) = e.amount
  BY <1>1, <1>3, FieldExact
<1>6. Power(AmountWidth) \in Nat
  BY <1>1, PowersGrow
<1>. QED
  BY <1>1, <1>4, <1>5, <1>6

\* So what is read of all entries is their amount exactly if each of them is.
LEMMA EntriesRead ==
  ASSUME NEW x \in Seq(Entry)
  PROVE  /\ Hash(Detail(x)) = Hash(x)
         /\ (\A i \in 1 .. Len(x) : x[i].amount < Power(AmountWidth)) =>
               Read(Detail(x), 0, AmountWidth) = Amount(x)
         /\ Read(Detail(x), 0, AmountWidth) = Amount(x) =>
               \A i \in 1 .. Len(x) : Field(Detail(x)[i], 0, AmountWidth) = x[i].amount
<1>. DEFINE R == [i \in DOMAIN Detail(x) |-> Field(Detail(x)[i], 0, AmountWidth)]
            A == [i \in DOMAIN x |-> x[i].amount]
            n == Len(x)
<1>1. /\ n \in Nat /\ DOMAIN x = 1 .. n /\ \A i \in 1 .. n : x[i] \in Entry
  BY LenProperties
<1>2. DOMAIN Detail(x) = 1 .. n /\ \A i \in 1 .. n : Detail(x)[i] = EntryLine(x[i])
  BY <1>1 DEF Detail
<1>3. Hash(Detail(x)) = Hash(x)
  <2>1. [i \in DOMAIN Detail(x) |-> Detail(x)[i].hash] = [i \in DOMAIN x |-> x[i].hash]
    BY <1>1, <1>2 DEF EntryLine
  <2>. QED
    BY <2>1 DEF Hash
<1>4. Read(Detail(x), 0, AmountWidth) = SumFunction(R) /\ Amount(x) = SumFunction(A)
  BY DEF Read, Amount
<1>5. \A i \in 1 .. n : R[i] = Field(EntryLine(x[i]), 0, AmountWidth) /\ A[i] = x[i].amount
  BY <1>1, <1>2
<1>6. \A i \in 1 .. n : R[i] \in Int /\ A[i] \in Int /\ R[i] <= A[i]
  <2>. SUFFICES ASSUME NEW i \in 1 .. n PROVE R[i] \in Int /\ A[i] \in Int /\ R[i] <= A[i]
    OBVIOUS
  <2>1. x[i] \in Entry /\ x[i].amount \in Nat
    BY <1>1 DEF Entry
  <2>2. /\ Field(EntryLine(x[i]), 0, AmountWidth) \in Nat
        /\ Field(EntryLine(x[i]), 0, AmountWidth) <= x[i].amount
    BY <2>1, EntryField
  <2>. HIDE DEF R, A
  <2>. QED
    BY <1>5, <2>1, <2>2
<1>7. R = [i \in 1 .. n |-> R[i]] /\ A = [i \in 1 .. n |-> A[i]]
  BY <1>1, <1>2
<1>. HIDE DEF R, A
<1>8. R \in [1 .. n -> Int] /\ A \in [1 .. n -> Int]
  BY <1>6, <1>7
<1>9. R \in Seq(Int) /\ Len(R) = n /\ A \in Seq(Int) /\ Len(A) = n
  BY <1>1, <1>8, IsSequence
<1>10. ASSUME \A i \in 1 .. n : x[i].amount < Power(AmountWidth) PROVE SumFunction(R) = SumFunction(A)
  <2>1. ASSUME NEW i \in 1 .. n PROVE R[i] = A[i]
    <3>1. Field(EntryLine(x[i]), 0, AmountWidth) = x[i].amount
      BY <1>1, <1>10, EntryField
    <3>. QED
      BY <1>5, <3>1
  <2>2. R = A
    BY <1>9, <2>1, SeqEqual
  <2>. QED
    BY <2>2
<1>11. ASSUME SumFunction(R) = SumFunction(A)
       PROVE  \A i \in 1 .. n : Field(Detail(x)[i], 0, AmountWidth) = x[i].amount
  <2>1. R = A
    BY <1>6, <1>9, <1>11, SumOrder
  <2>. QED
    BY <1>2, <1>5, <2>1
<1>. QED
  BY <1>3, <1>4, <1>10, <1>11

-----------------------------------------------------------------------------
(* Files                                                                     *)

\* A file whose entries are not negative is one of batches of entries.
LEMMA WritableType ==
  ASSUME NEW f \in Seq(Seq([amount : Int, hash : Nat])), Writable(f)
  PROVE  f \in Seq(Seq(Entry))
<1>. DEFINE E == [amount : Int, hash : Nat]
            P(g) == \A i \in 1 .. Len(Entries(g)) : Entries(g)[i].amount >= 0
            C == {g \in Seq(Seq(E)) : P(g) /\ g \notin Seq(Seq(Entry))}
<1>0. \A e \in E : e.amount >= 0 => e \in Entry
  BY DEF Entry
<1>. HIDE DEF E
<1>1. ASSUME C # {} PROVE FALSE
  <2>1. PICK g \in C : g = <<>> \/ \E h \in Seq(Seq(E)), x \in Seq(E) :
                                      g = Append(h, x) /\ h \notin C
    <3>1. C \subseteq Seq(Seq(E))
      OBVIOUS
    <3>. HIDE DEF C
    <3>. QED
      BY <1>1, <3>1, ShortestSequence
  <2>2. CASE g = <<>>
    BY <2>2, EmptySeq
  <2>3. CASE \E h \in Seq(Seq(E)), x \in Seq(E) : g = Append(h, x) /\ h \notin C
    <3>1. PICK h \in Seq(Seq(E)), x \in Seq(E) : g = Append(h, x) /\ h \notin C
      BY <2>3
    <3>2. P(g) /\ g \notin Seq(Seq(Entry)) /\ (P(h) => h \in Seq(Seq(Entry)))
      BY <3>1
    <3>. HIDE DEF C
    <3>3. Entries(h) \in Seq(E) /\ Entries(g) = Entries(h) \o x
      BY <3>1, FlattenType, FlattenAppend DEF Entries
    <3>4. /\ Len(Entries(g)) = Len(Entries(h)) + Len(x)
          /\ Len(Entries(h)) \in Nat /\ Len(x) \in Nat
          /\ \A i \in 1 .. Len(Entries(h)) + Len(x) : Entries(g)[i] =
                IF i <= Len(Entries(h)) THEN Entries(h)[i] ELSE x[i - Len(Entries(h))]
      BY <3>3, ConcatProperties, LenProperties
    <3>5. P(h)
      <4>1. ASSUME NEW i \in 1 .. Len(Entries(h)) PROVE Entries(h)[i].amount >= 0
        <5>1. i \in 1 .. Len(Entries(g)) /\ i \in 1 .. Len(Entries(h)) + Len(x) /\ i <= Len(Entries(h))
          BY <3>4
        <5>. QED
          BY <3>2, <3>4, <5>1
      <4>. QED
        BY <4>1
    <3>6. ASSUME NEW i \in 1 .. Len(x) PROVE x[i] \in Entry
      <4>. DEFINE j == Len(Entries(h)) + i
      <4>1. /\ j \in 1 .. Len(Entries(g)) /\ j \in 1 .. Len(Entries(h)) + Len(x)
            /\ ~(j <= Len(Entries(h))) /\ j - Len(Entries(h)) = i
        BY <3>4
      <4>. HIDE DEF j
      <4>2. Entries(g)[j] = x[i] /\ Entries(g)[j].amount >= 0
        BY <3>2, <3>4, <4>1
      <4>3. x[i] \in E
        BY ElementOfSeq
      <4>. QED
        BY <1>0, <4>2, <4>3
    <3>7. x \in Seq(Entry)
      <4>1. x = [i \in 1 .. Len(x) |-> x[i]] /\ Len(x) \in Nat
        BY LenProperties
      <4>2. x \in [1 .. Len(x) -> Entry]
        BY <3>6, <4>1
      <4>. QED
        BY <4>1, <4>2, IsSequence
    <3>8. Append(h, x) \in Seq(Seq(Entry))
      BY <3>2, <3>5, <3>7, AppendProperties
    <3>. QED
      BY <3>1, <3>2, <3>8
  <2>. QED
    BY <2>1, <2>2, <2>3
<1>2. P(f)
  <2>1. Entries(f) \in Seq(E)
    BY FlattenType DEF Entries, E
  <2>2. DOMAIN Entries(f) = 1 .. Len(Entries(f))
    BY <2>1, LenProperties
  <2>. QED
    BY <2>2 DEF Writable
<1>3. f \notin C
  BY <1>1
<1>. QED
  BY <1>2, <1>3 DEF E

\* The lines of fill.
LEMMA FillerShape ==
  ASSUME NEW f, Records(f) \in Nat
  PROVE  /\ Filler(f) \in Seq(FileLine)
         /\ Len(Filler(f)) = (BlockSize - (Records(f) % BlockSize)) % BlockSize
         /\ Len(Filler(f)) \in 0 .. BlockSize - 1
         /\ (Records(f) + Len(Filler(f))) % BlockSize = 0
         /\ \A i \in 1 .. Len(Filler(f)) : Filler(f)[i].kind = "control"
<1>. DEFINE k == (BlockSize - (Records(f) % BlockSize)) % BlockSize
            l == Line("control", <<>>)
<1>1. k \in 0 .. BlockSize - 1 /\ (Records(f) + k) % BlockSize = 0
  BY DEF BlockSize
<1>2. l \in FileLine /\ l.kind = "control"
  BY LineType DEF Line, Kinds
<1>3. Filler(f) = [i \in 1 .. k |-> l]
  BY DEF Filler
<1>. HIDE DEF k, l
<1>4. k \in Nat
  BY <1>1 DEF BlockSize
<1>5. Filler(f) \in [1 .. k -> FileLine]
  BY <1>2, <1>3
<1>6. Filler(f) \in Seq(FileLine) /\ Len(Filler(f)) = k
  BY <1>4, <1>5, IsSequence
<1>7. \A i \in 1 .. k : Filler(f)[i].kind = "control"
  BY <1>2, <1>3
<1>. QED
  BY <1>1, <1>6, <1>7 DEF k

FileControl(f) == Control("control", Records(f), Amount(Entries(f)), Hash(Entries(f)))

BeforeControl(f) == <<Line("header", <<>>)>> \o Body(f)

\* What is written, around the control line.
LEMMA FileShape ==
  ASSUME NEW f \in Seq(Seq(Entry))
  PROVE  /\ Records(f) \in Nat \ {0}
         /\ BeforeControl(f) \in Seq(FileLine) /\ Len(BeforeControl(f)) = Records(f) - 1
         /\ NoControl(BeforeControl(f))
         /\ BeforeControl(f)[1].kind = "header"
         /\ FileControl(f) \in FileLine /\ FileControl(f).kind = "control"
         /\ Filler(f) \in Seq(FileLine)
         /\ FileLines(f) = (BeforeControl(f) \o <<FileControl(f)>>) \o Filler(f)
         /\ LinesOf(BeforeControl(f), "entry") = Detail(Entries(f))
         /\ Len(LinesOf(BeforeControl(f), "batch")) = Len(f)
         /\ LinesOf(BeforeControl(f), "batchControl") = Controls(f)
         /\ LinesOf(BeforeControl(f), "control") = <<>>
<1>. DEFINE h == Line("header", <<>>)
            B == Body(f)
            E == Entries(f)
<1>1. B \in Seq(FileLine) /\ E \in Seq(Entry) /\ BodyHolds(f)
  BY BodyShape
<1>2. Len(E) \in Nat /\ Len(f) \in Nat /\ Records(f) = Len(E) + 2 * Len(f) + 2
  BY <1>1, LenProperties DEF Records
<1>3. Amount(E) \in Nat /\ Hash(E) \in Nat
  BY <1>1, TotalsType
<1>4. Records(f) \in Nat \ {0}
  BY <1>2
<1>5. FileControl(f) \in FileLine /\ FileControl(f).kind = "control"
  <2>1. FileControl(f) \in FileLine
    BY <1>3, <1>4, LineType DEF FileControl, Kinds
  <2>2. FileControl(f).kind = "control"
    BY DEF FileControl, Control, Line
  <2>. QED
    BY <2>1, <2>2
<1>6. Filler(f) \in Seq(FileLine)
  BY <1>4, FillerShape
<1>7. h \in FileLine /\ h.kind = "header"
  BY LineType DEF Line, Kinds
<1>8. FileLines(f) = (BeforeControl(f) \o <<FileControl(f)>>) \o Filler(f)
  BY DEF FileLines, BeforeControl, FileControl, Body
<1>. HIDE DEF h, B, E
<1>9. /\ <<h>> \in Seq(FileLine) /\ Len(<<h>>) = 1 /\ NoControl(<<h>>) /\ <<h>>[1] = h
      /\ \A kind : LinesOf(<<h>>, kind) = Chosen(h, kind)
  BY <1>7, OneLine
<1>10. BeforeControl(f) = <<h>> \o B
  BY DEF BeforeControl, h, B
<1>11. /\ <<h>> \o B \in Seq(FileLine) /\ Len(<<h>> \o B) = Len(<<h>>) + Len(B)
       /\ (<<h>> \o B)[1] = h
  <2>1. 1 \in 1 .. Len(<<h>>) + Len(B) /\ 1 <= Len(<<h>>)
    BY <1>1, <1>9, LenProperties
  <2>. QED
    BY <1>1, <1>9, <2>1, ConcatProperties
<1>12. Len(B) = Len(E) + 2 * Len(f)
  BY <1>1 DEF BodyHolds, B, E
<1>13. NoControl(<<h>> \o B)
  <2>1. NoControl(B)
    BY <1>1 DEF BodyHolds, B
  <2>. QED
    BY <1>1, <1>9, <2>1, NoControlConcat
<1>14. ASSUME NEW kind, kind # "header"
       PROVE  LinesOf(<<h>> \o B, kind) = LinesOf(B, kind)
  <2>1. LinesOf(<<h>> \o B, kind) = LinesOf(<<h>>, kind) \o LinesOf(B, kind)
    BY <1>1, <1>9, LinesOfConcat
  <2>2. LinesOf(<<h>>, kind) = <<>>
    BY <1>7, <1>9, <1>14 DEF Chosen
  <2>3. LinesOf(B, kind) \in Seq(FileLine)
    BY <1>1, LinesOfType
  <2>4. <<>> \o LinesOf(B, kind) = LinesOf(B, kind)
    BY <2>3, ConcatEmptySeq
  <2>. QED
    BY <2>1, <2>2, <2>4
<1>15. /\ LinesOf(B, "entry") = Detail(E)
       /\ Len(LinesOf(B, "batch")) = Len(f)
       /\ LinesOf(B, "batchControl") = Controls(f)
       /\ LinesOf(B, "control") = <<>>
  BY <1>1 DEF BodyHolds, B, E
<1>16. Len(BeforeControl(f)) = Records(f) - 1
  BY <1>2, <1>9, <1>10, <1>11, <1>12
<1>17. /\ LinesOf(BeforeControl(f), "entry") = Detail(E)
       /\ Len(LinesOf(BeforeControl(f), "batch")) = Len(f)
       /\ LinesOf(BeforeControl(f), "batchControl") = Controls(f)
       /\ LinesOf(BeforeControl(f), "control") = <<>>
  BY <1>10, <1>14, <1>15
<1>. QED
  BY <1>4, <1>5, <1>6, <1>7, <1>8, <1>10, <1>11, <1>13, <1>16, <1>17 DEF E

\* What Validate finds in it.
LEMMA FileFound ==
  ASSUME NEW f \in Seq(Seq(Entry)), NEW w, w = FileLines(f)
  PROVE  /\ w \in Seq(FileLine) /\ w # <<>>
         /\ Len(w) = Records(f) + Len(Filler(f))
         /\ Head(w).kind = "header" /\ Last(w).kind = "control"
         /\ FirstControl(w) = Records(f) /\ w[Records(f)] = FileControl(f)
         /\ SubSeq(w, 1, Records(f) - 1) = BeforeControl(f)
         /\ LinesOf(w, "entry") = Detail(Entries(f))
         /\ LinesOf(w, "batchControl") = Controls(f)
         /\ LinesOf(w, "control") = <<FileControl(f)>> \o Filler(f)
<1>. DEFINE A == BeforeControl(f)
            K == FileControl(f)
            F == Filler(f)
            r == Records(f)
<1>1. /\ r \in Nat \ {0} /\ A \in Seq(FileLine) /\ Len(A) = r - 1
      /\ NoControl(A) /\ A[1].kind = "header" /\ K \in FileLine /\ K.kind = "control"
      /\ F \in Seq(FileLine) /\ w = (A \o <<K>>) \o F
  BY FileShape
<1>2. Len(F) \in Nat /\ \A i \in 1 .. Len(F) : F[i].kind = "control"
  BY <1>1, FillerShape, LenProperties
<1>3. r >= 2
  <2>1. Entries(f) \in Seq(Entry)
    BY BodyShape
  <2>. QED
    BY <2>1, LenProperties DEF Records
<1>4. /\ LinesOf(A, "entry") = Detail(Entries(f)) /\ LinesOf(A, "batchControl") = Controls(f)
      /\ LinesOf(A, "control") = <<>>
  BY FileShape
<1>. HIDE DEF A, K, F, r
<1>5. /\ <<K>> \in Seq(FileLine) /\ Len(<<K>>) = 1 /\ <<K>>[1] = K
      /\ \A kind : LinesOf(<<K>>, kind) = Chosen(K, kind)
  BY <1>1, OneLine
<1>6. /\ A \o <<K>> \in Seq(FileLine) /\ Len(A \o <<K>>) = r
      /\ \A i \in 1 .. r : (A \o <<K>>)[i] = IF i <= r - 1 THEN A[i] ELSE K
  <2>1. /\ A \o <<K>> \in Seq(FileLine) /\ Len(A \o <<K>>) = Len(A) + Len(<<K>>)
        /\ \A i \in 1 .. Len(A) + Len(<<K>>) :
              (A \o <<K>>)[i] = IF i <= Len(A) THEN A[i] ELSE <<K>>[i - Len(A)]
    BY <1>1, <1>5, ConcatProperties
  <2>2. Len(A) + Len(<<K>>) = r
    BY <1>1, <1>5
  <2>3. ASSUME NEW i \in 1 .. r PROVE (A \o <<K>>)[i] = IF i <= r - 1 THEN A[i] ELSE K
    <3>1. CASE i <= r - 1
      BY <1>1, <2>1, <2>2, <3>1
    <3>2. CASE ~(i <= r - 1)
      <4>1. i - Len(A) = 1 /\ ~(i <= Len(A))
        BY <1>1, <3>2
      <4>. QED
        BY <1>5, <2>1, <2>2, <3>2, <4>1
    <3>. QED
      BY <3>1, <3>2
  <2>. QED
    BY <2>1, <2>2, <2>3
<1>7. /\ w \in Seq(FileLine) /\ Len(w) = r + Len(F)
      /\ \A i \in 1 .. r + Len(F) : w[i] = IF i <= r THEN (A \o <<K>>)[i] ELSE F[i - r]
  <2>. DEFINE P == A \o <<K>>
  <2>1. P \in Seq(FileLine) /\ Len(P) = r /\ w = P \o F
    BY <1>1, <1>6
  <2>. HIDE DEF P
  <2>2. /\ P \o F \in Seq(FileLine) /\ Len(P \o F) = Len(P) + Len(F)
        /\ \A i \in 1 .. Len(P) + Len(F) : (P \o F)[i] = IF i <= Len(P) THEN P[i] ELSE F[i - Len(P)]
    BY <1>1, <2>1, ConcatProperties
  <2>3. \A i \in 1 .. r + Len(F) : w[i] = IF i <= r THEN P[i] ELSE F[i - r]
    BY <2>1, <2>2
  <2>. QED
    BY <2>1, <2>2, <2>3 DEF P
<1>8. ASSUME NEW i \in 1 .. r + Len(F)
      PROVE  w[i] = IF i <= r - 1 THEN A[i] ELSE IF i = r THEN K ELSE F[i - r]
  <2>1. CASE i <= r
    <3>1. i \in 1 .. r /\ (i <= r - 1 \/ i = r) /\ ~(r <= r - 1)
      BY <1>1, <2>1
    <3>. QED
      BY <1>6, <1>7, <2>1, <3>1
  <2>2. CASE ~(i <= r)
    <3>1. ~(i <= r - 1) /\ i # r
      BY <1>1, <2>2
    <3>. QED
      BY <1>7, <2>2, <3>1
  <2>. QED
    BY <2>1, <2>2
<1>9. w[r] = K
  <2>1. r \in 1 .. r + Len(F) /\ ~(r <= r - 1)
    BY <1>1, <1>2
  <2>. QED
    BY <1>8, <2>1
<1>10. ASSUME NEW i \in 1 .. r - 1 PROVE w[i] = A[i] /\ w[i].kind # "control"
  <2>1. i \in 1 .. r + Len(F) /\ i <= r - 1 /\ i \in 1 .. Len(A)
    BY <1>1, <1>2
  <2>. QED
    BY <1>1, <1>8, <2>1 DEF NoControl
<1>11. w # <<>> /\ Head(w).kind = "header"
  <2>1. 1 \in 1 .. r - 1 /\ Len(w) # 0
    BY <1>1, <1>2, <1>3, <1>7
  <2>2. w # <<>>
    BY <2>1, EmptySeq
  <2>3. Head(w) = w[1]
    BY <1>7, <2>2
  <2>. QED
    BY <1>1, <1>10, <2>1, <2>2, <2>3
<1>12. Last(w).kind = "control"
  <2>1. r + Len(F) \in 1 .. r + Len(F) /\ ~(r + Len(F) <= r - 1)
    BY <1>1, <1>2
  <2>2. w[r + Len(F)] = IF r + Len(F) = r THEN K ELSE F[(r + Len(F)) - r]
    BY <1>8, <2>1
  <2>3. r + Len(F) # r => (r + Len(F)) - r \in 1 .. Len(F)
    BY <1>1, <1>2
  <2>. QED
    BY <1>1, <1>2, <1>7, <2>2, <2>3 DEF Last
<1>13. FirstControl(w) = r
  <2>. DEFINE Q(i) == w[i].kind = "control" /\ \A j \in 1 .. i - 1 : w[j].kind # "control"
  <2>1. DOMAIN w = 1 .. r + Len(F) /\ r \in 1 .. r + Len(F)
    BY <1>1, <1>2, <1>7, LenProperties
  <2>2. Q(r)
    BY <1>1, <1>9, <1>10
  <2>3. ASSUME NEW i \in 1 .. r + Len(F), Q(i) PROVE i = r
    <3>1. ~(i < r)
      <4>1. i < r => i \in 1 .. r - 1
        BY <1>1
      <4>. QED
        BY <1>10, <2>3, <4>1
    <3>2. ~(i > r)
      <4>1. i > r => r \in 1 .. i - 1
        BY <1>1
      <4>. QED
        BY <1>1, <1>9, <2>3, <4>1
    <3>. QED
      BY <1>1, <3>1, <3>2
  <2>4. FirstControl(w) = CHOOSE i \in 1 .. r + Len(F) : Q(i)
    BY <2>1 DEF FirstControl
  <2>. HIDE DEF Q
  <2>. QED
    BY <2>1, <2>2, <2>3, <2>4
<1>14. SubSeq(w, 1, r - 1) = A
  <2>1. /\ SubSeq(w, 1, r - 1) \in Seq(FileLine) /\ Len(SubSeq(w, 1, r - 1)) = r - 1
        /\ \A i \in 1 .. r - 1 : SubSeq(w, 1, r - 1)[i] = w[i]
    BY <1>1, <1>2, <1>7
  <2>. QED
    BY <1>1, <1>10, <2>1, SeqEqual
<1>15. ASSUME NEW kind
       PROVE  LinesOf(w, kind) = (LinesOf(A, kind) \o Chosen(K, kind))
                                    \o (IF "control" = kind THEN F ELSE <<>>)
  <2>1. LinesOf(w, kind) = LinesOf(A \o <<K>>, kind) \o LinesOf(F, kind)
    <3>. DEFINE P == A \o <<K>>
    <3>1. P \in Seq(FileLine) /\ w = P \o F
      BY <1>1, <1>6
    <3>. HIDE DEF P
    <3>2. LinesOf(P \o F, kind) = LinesOf(P, kind) \o LinesOf(F, kind)
      BY <1>1, <3>1, LinesOfConcat
    <3>. QED
      BY <3>1, <3>2 DEF P
  <2>2. LinesOf(A \o <<K>>, kind) = LinesOf(A, kind) \o LinesOf(<<K>>, kind)
    BY <1>1, <1>5, LinesOfConcat
  <2>3. LinesOf(F, kind) = IF "control" = kind THEN F ELSE <<>>
    BY <1>1, <1>2, LinesOfSame
  <2>. QED
    BY <1>5, <2>1, <2>2, <2>3
<1>16. ASSUME NEW kind, kind # "control" PROVE LinesOf(w, kind) = LinesOf(A, kind)
  <2>1. Chosen(K, kind) = <<>>
    BY <1>1, <1>16 DEF Chosen
  <2>2. LinesOf(A, kind) \in Seq(FileLine)
    BY <1>1, LinesOfType
  <2>3. (LinesOf(A, kind) \o <<>>) \o <<>> = LinesOf(A, kind)
    BY <2>2, ConcatEmptySeq
  <2>. QED
    BY <1>15, <1>16, <2>1, <2>3
<1>17. LinesOf(w, "control") = <<K>> \o F
  <2>1. Chosen(K, "control") = <<K>>
    BY <1>1 DEF Chosen
  <2>2. <<>> \o <<K>> = <<K>>
    BY <1>5, ConcatEmptySeq
  <2>. QED
    BY <1>4, <1>15, <2>1, <2>2
<1>18. LinesOf(w, "entry") = LinesOf(A, "entry") /\ LinesOf(w, "batchControl") = LinesOf(A, "batchControl")
  BY <1>16
<1>. QED
  BY <1>4, <1>7, <1>9, <1>11, <1>12, <1>13, <1>14, <1>17, <1>18 DEF A, K, F, r

-----------------------------------------------------------------------------
(* The theorems                                                              *)

\* The inductive invariant: what is written are the lines of the file asked for, none
\* of whose entries is negative, and the verdict is Validate's about them.
IInv ==
    /\ file \in Files
    /\ \/ lines = <<>> /\ verdict \in {"none", "refused"}
       \/ /\ lines = FileLines(file) /\ Writable(file)
          /\ verdict \in {"written", "accepted", "rejected"}
    /\ verdict = "accepted" => Valid(lines)
    /\ verdict = "rejected" => ~Valid(lines)

LEMMA IInvHolds == Spec => []IInv
<1>1. Init => IInv
  BY DEF Init, IInv
<1>2. IInv /\ [Next]_vars => IInv'
  <2>. SUFFICES ASSUME IInv, [Next]_vars PROVE IInv'
    OBVIOUS
  <2>1. CASE Encode
    <3>1. CASE Writable(file)
      BY <2>1, <3>1 DEF IInv, Encode
    <3>2. CASE ~Writable(file)
      <4>1. verdict = "none" /\ verdict' = "refused" /\ UNCHANGED <<file, lines>>
        BY <2>1, <3>2 DEF Encode
      <4>2. lines = <<>>
        BY <4>1 DEF IInv
      <4>. QED
        BY <4>1, <4>2 DEF IInv
    <3>. QED
      BY <3>1, <3>2
  <2>2. CASE Validate
    <3>1. /\ verdict = "written" /\ UNCHANGED <<file, lines>>
          /\ verdict' = IF Valid(lines) THEN "accepted" ELSE "rejected"
      BY <2>2 DEF Validate
    <3>2. lines = FileLines(file) /\ Writable(file) /\ file \in Files
      BY <3>1 DEF IInv
    <3>. QED
      BY <3>1, <3>2 DEF IInv
  <2>3. CASE UNCHANGED vars
    BY <2>3 DEF IInv, vars
  <2>. QED
    BY <2>1, <2>2, <2>3 DEF Next
<1>. QED
  BY <1>1, <1>2, PTL DEF Spec

\* A written file is one of batches of entries.
LEMMA WrittenFile ==
  ASSUME IInv, lines # <<>>
  PROVE  file \in Seq(Seq(Entry)) /\ lines = FileLines(file)
<1>1. lines = FileLines(file) /\ Writable(file) /\ file \in Files
  BY DEF IInv
<1>2. file \in Seq(Seq([amount : Int, hash : Nat]))
  BY <1>1, NachaAssumption
<1>. QED
  BY <1>1, <1>2, WritableType

\* What it takes to be accepted.
LEMMA AcceptedMatches ==
  ASSUME NEW f \in Seq(Seq(Entry))
  PROVE  Valid(FileLines(f)) <=>
            /\ Field(FileControl(f), 0, CountWidth) = Records(f)
            /\ Field(FileControl(f), CountWidth, TotalWidth) = Read(Detail(Entries(f)), 0, AmountWidth)
            /\ Field(FileControl(f), CountWidth + TotalWidth, HashWidth) = Hash(Entries(f))
<1>. DEFINE w == FileLines(f)
            E == Entries(f)
<1>1. /\ w # <<>> /\ Head(w).kind = "header" /\ Last(w).kind = "control"
      /\ FirstControl(w) = Records(f) /\ w[Records(f)] = FileControl(f)
      /\ SubSeq(w, 1, Records(f) - 1) = BeforeControl(f)
  BY FileFound
<1>2. /\ LinesOf(BeforeControl(f), "entry") = Detail(E)
      /\ Len(LinesOf(BeforeControl(f), "batch")) = Len(f)
  BY FileShape
<1>3. E \in Seq(Entry)
  BY BodyShape
<1>4. Len(Detail(E)) = Len(E) /\ Hash(Detail(E)) = Hash(E)
  BY <1>3, DetailShape, EntriesRead
<1>5. Valid(w) <=> Matches(FileControl(f), BeforeControl(f))
  <2>. HIDE DEF w
  <2>. QED
    BY <1>1 DEF Valid
<1>6. Matches(FileControl(f), BeforeControl(f)) <=>
         /\ Field(FileControl(f), 0, CountWidth) = Len(E) + 2 * Len(f) + 2
         /\ Field(FileControl(f), CountWidth, TotalWidth) = Read(Detail(E), 0, AmountWidth)
         /\ Field(FileControl(f), CountWidth + TotalWidth, HashWidth) = Hash(E)
  <2>. HIDE DEF E
  <2>. QED
    BY <1>2, <1>4 DEF Matches
<1>7. Records(f) = Len(E) + 2 * Len(f) + 2
  BY DEF Records
<1>. QED
  BY <1>5, <1>6, <1>7

\* TypeOK: what is written are lines of digits, and the verdict is one of Encode's and
\* Validate's (encoder.go, Encode and Validate).
THEOREM TypeCorrect == Spec => []TypeOK
<1>1. IInv => TypeOK
  <2>. SUFFICES ASSUME IInv PROVE TypeOK
    OBVIOUS
  <2>1. file \in Files /\ verdict \in {"none", "refused", "written", "accepted", "rejected"}
    BY DEF IInv
  <2>2. lines \in Seq([kind : Kinds, digits : Seq(0 .. Radix - 1), hash : Nat])
    <3>1. CASE lines = <<>>
      BY <3>1
    <3>2. CASE lines # <<>>
      <4>1. lines \in Seq(FileLine)
        BY <3>2, WrittenFile, FileFound
      <4>. QED
        BY <4>1 DEF FileLine
    <3>. QED
      BY <3>1, <3>2
  <2>. QED
    BY <2>1, <2>2 DEF TypeOK
<1>. QED
  BY <1>1, IInvHolds, PTL

\* BlocksAreFull: what Encode writes ends with its last block of ten, of which one
\* record at least is not fill (encoder.go, Encode).
THEOREM BlocksAreWhole == Spec => []BlocksAreFull
<1>1. IInv => BlocksAreFull
  <2>. SUFFICES ASSUME IInv, lines # <<>>
                PROVE  /\ Len(lines) % BlockSize = 0
                       /\ Len(LinesOf(lines, "control")) <= BlockSize
    BY DEF BlocksAreFull
  <2>1. file \in Seq(Seq(Entry)) /\ lines = FileLines(file)
    BY WrittenFile
  <2>2. /\ Records(file) \in Nat /\ FileControl(file) \in FileLine
        /\ Filler(file) \in Seq(FileLine)
    BY <2>1, FileShape
  <2>3. /\ Len(lines) = Records(file) + Len(Filler(file))
        /\ LinesOf(lines, "control") = <<FileControl(file)>> \o Filler(file)
    BY <2>1, FileFound
  <2>4. /\ Len(Filler(file)) \in 0 .. BlockSize - 1
        /\ (Records(file) + Len(Filler(file))) % BlockSize = 0
    BY <2>2, FillerShape
  <2>5. Len(<<FileControl(file)>> \o Filler(file)) = 1 + Len(Filler(file))
    <3>1. PICK k \in Seq(FileLine) : k = <<FileControl(file)>> /\ Len(k) = 1
      BY <2>2, OneLine
    <3>2. Len(k \o Filler(file)) = Len(k) + Len(Filler(file))
      BY <2>2, <3>1, ConcatProperties
    <3>. QED
      BY <3>1, <3>2
  <2>6. Len(LinesOf(lines, "control")) <= BlockSize
    <3>1. PICK n \in 0 .. BlockSize - 1 : n = Len(Filler(file))
      BY <2>4
    <3>2. Len(LinesOf(lines, "control")) = 1 + n
      BY <2>3, <2>5, <3>1
    <3>3. 1 + n <= BlockSize
      <4>1. BlockSize \in Nat
        BY DEF BlockSize
      <4>. QED
        BY <3>1, <4>1
    <3>. QED
      BY <3>2, <3>3
  <2>. QED
    BY <2>3, <2>4, <2>6
<1>. QED
  BY <1>1, IInvHolds, PTL

\* FittingIsAccepted: Validate rejects no file whose numbers fit their columns
\* (encoder.go, Encode and Validate).
THEOREM FittingFilesPass == Spec => []FittingIsAccepted
<1>1. IInv => FittingIsAccepted
  <2>. SUFFICES ASSUME IInv, verdict = "rejected", Fits PROVE FALSE
    BY DEF FittingIsAccepted
  <2>. DEFINE E == Entries(file)
              K == FileControl(file)
  <2>1. lines # <<>>
    <3>1. lines = FileLines(file) /\ Writable(file) /\ file \in Files
      BY DEF IInv
    <3>2. file \in Seq(Seq(Entry))
      BY <3>1, WritableType, NachaAssumption
    <3>. QED
      BY <3>1, <3>2, FileFound
  <2>2. file \in Seq(Seq(Entry)) /\ lines = FileLines(file)
    BY <2>1, WrittenFile
  <2>3. E \in Seq(Entry)
    BY <2>2, BodyShape
  <2>4. Records(file) \in Nat /\ Amount(E) \in Nat /\ Hash(E) \in Nat
    BY <2>2, <2>3, FileShape, TotalsType
  <2>5. /\ Records(file) < Power(CountWidth) /\ Amount(E) < Power(TotalWidth)
        /\ Hash(E) < Power(HashWidth)
    BY DEF Fits, TotalFits
  <2>6. /\ Field(K, 0, CountWidth) = Records(file)
        /\ Field(K, CountWidth, TotalWidth) = Amount(E)
        /\ Field(K, CountWidth + TotalWidth, HashWidth) = Hash(E)
    BY <2>4, <2>5, ControlFields DEF FileControl
  <2>7. Read(Detail(E), 0, AmountWidth) = Amount(E)
    <3>1. \A i \in 1 .. Len(E) : E[i].amount < Power(AmountWidth)
      <4>1. DOMAIN E = 1 .. Len(E)
        BY <2>3, LenProperties
      <4>. QED
        BY <4>1 DEF Fits
    <3>. QED
      BY <2>3, <3>1, EntriesRead
  <2>8. Valid(lines)
    BY <2>2, <2>6, <2>7, AcceptedMatches
  <2>. QED
    BY <2>8 DEF IInv
<1>. QED
  BY <1>1, IInvHolds, PTL

\* An accepted file whose total fits.
LEMMA AcceptedFile ==
  ASSUME IInv, verdict = "accepted", TotalFits
  PROVE  /\ file \in Seq(Seq(Entry)) /\ Entries(file) \in Seq(Entry)
         /\ LinesOf(lines, "entry") = Detail(Entries(file))
         /\ LinesOf(lines, "batchControl") = Controls(file)
         /\ Head(LinesOf(lines, "control")) = FileControl(file)
         /\ Records(file) \in Nat /\ Records(file) < Power(CountWidth)
         /\ Amount(Entries(file)) < Power(TotalWidth) /\ Hash(Entries(file)) < Power(HashWidth)
         /\ Field(FileControl(file), 0, CountWidth) = Records(file)
         /\ Field(FileControl(file), CountWidth, TotalWidth) = Amount(Entries(file))
         /\ Field(FileControl(file), CountWidth + TotalWidth, HashWidth) = Hash(Entries(file))
         /\ Read(Detail(Entries(file)), 0, AmountWidth) = Amount(Entries(file))
<1>. DEFINE E == Entries(file)
            K == FileControl(file)
<1>1. lines = FileLines(file) /\ Writable(file) /\ file \in Files /\ Valid(lines)
  BY DEF IInv
<1>2. file \in Seq(Seq(Entry))
  BY <1>1, WritableType, NachaAssumption
<1>3. E \in Seq(Entry)
  BY <1>2, BodyShape
<1>4. Records(file) \in Nat /\ Amount(E) \in Nat /\ Hash(E) \in Nat
  BY <1>2, <1>3, FileShape, TotalsType
<1>5. Amount(E) < Power(TotalWidth)
  BY DEF TotalFits
<1>6. /\ Field(K, 0, CountWidth) = Records(file)
      /\ Field(K, CountWidth, TotalWidth) = Read(Detail(E), 0, AmountWidth)
      /\ Field(K, CountWidth + TotalWidth, HashWidth) = Hash(E)
  BY <1>1, <1>2, AcceptedMatches
<1>7. Power(CountWidth) \in Nat /\ Power(HashWidth) \in Nat
  BY Widths, PowersGrow
<1>8. /\ Field(K, 0, CountWidth) \in 0 .. Power(CountWidth) - 1
      /\ Records(file) < Power(CountWidth) =>
            /\ Field(K, CountWidth, TotalWidth) = Amount(E)
            /\ Field(K, CountWidth + TotalWidth, HashWidth) \in 0 .. Power(HashWidth) - 1
  BY <1>4, <1>5, ControlFields DEF FileControl
<1>9. Records(file) < Power(CountWidth)
  BY <1>6, <1>7, <1>8
<1>10. Hash(E) < Power(HashWidth)
  BY <1>6, <1>7, <1>8, <1>9
<1>11. /\ LinesOf(lines, "entry") = Detail(E) /\ LinesOf(lines, "batchControl") = Controls(file)
       /\ LinesOf(lines, "control") = <<K>> \o Filler(file)
  BY <1>1, <1>2, FileFound
<1>12. Head(LinesOf(lines, "control")) = K
  <2>1. K \in FileLine /\ Filler(file) \in Seq(FileLine)
    BY <1>2, FileShape
  <2>. HIDE DEF K
  <2>2. Head(<<K>> \o Filler(file)) = K
    BY <2>1
  <2>. QED
    BY <1>11, <2>2
<1>. QED
  BY <1>2, <1>3, <1>4, <1>5, <1>6, <1>8, <1>9, <1>10, <1>11, <1>12

\* AcceptedIsAsAsked: column by column an accepted file whose total fits says what was
\* asked for (encoder.go, Encode and Validate).
THEOREM AcceptedSaysAsked == Spec => []AcceptedIsAsAsked
<1>1. IInv => AcceptedIsAsAsked
  <2>. SUFFICES ASSUME IInv, verdict = "accepted", TotalFits PROVE AcceptedIsAsAsked
    BY DEF AcceptedIsAsAsked
  <2>. DEFINE E == Entries(file)
              D == LinesOf(lines, "entry")
              K == Head(LinesOf(lines, "control"))
  <2>1. /\ E \in Seq(Entry) /\ D = Detail(E) /\ K = FileControl(file)
        /\ Read(Detail(E), 0, AmountWidth) = Amount(E)
        /\ Field(K, 0, CountWidth) = Records(file)
        /\ Field(K, CountWidth, TotalWidth) = Amount(E)
    BY AcceptedFile
  <2>. HIDE DEF E, D, K
  <2>2. /\ Len(D) = Len(E) /\ DOMAIN D = 1 .. Len(E)
        /\ \A i \in 1 .. Len(E) : Field(D[i], 0, AmountWidth) = E[i].amount
    <3>1. Detail(E) \in Seq(FileLine) /\ Len(Detail(E)) = Len(E)
      BY <2>1, DetailShape
    <3>2. \A i \in 1 .. Len(E) : Field(Detail(E)[i], 0, AmountWidth) = E[i].amount
      BY <2>1, EntriesRead
    <3>. QED
      BY <2>1, <3>1, <3>2, LenProperties
  <2>. QED
    BY <2>1, <2>2 DEF AcceptedIsAsAsked, E, D, K
<1>. QED
  BY <1>1, IInvHolds, PTL

\* BatchControlsAddUp: in such a file the totals and the hashes of the batches add up
\* to those of the file (encoder.go, Encode).
THEOREM BatchesBalance == Spec => []BatchControlsAddUp
<1>1. IInv => BatchControlsAddUp
  <2>. SUFFICES ASSUME IInv, verdict = "accepted", TotalFits PROVE BatchControlsAddUp
    BY DEF BatchControlsAddUp
  <2>. DEFINE E == Entries(file)
              C == LinesOf(lines, "batchControl")
              K == Head(LinesOf(lines, "control"))
  <2>1. /\ file \in Seq(Seq(Entry)) /\ E \in Seq(Entry)
        /\ C = Controls(file) /\ K = FileControl(file)
        /\ Records(file) \in Nat /\ Records(file) < Power(CountWidth)
        /\ Amount(E) < Power(TotalWidth) /\ Hash(E) < Power(HashWidth)
        /\ Field(K, CountWidth, TotalWidth) = Amount(E)
        /\ Field(K, CountWidth + TotalWidth, HashWidth) = Hash(E)
    BY AcceptedFile
  <2>2. /\ DOMAIN file = 1 .. Len(file) /\ DOMAIN C = 1 .. Len(file) /\ Len(file) \in Nat
        /\ \A b \in 1 .. Len(file) : file[b] \in Seq(Entry) /\ C[b] = BatchControl(file[b])
    <3>. HIDE DEF E, C, K
    <3>1. /\ DOMAIN file = 1 .. Len(file) /\ Len(file) \in Nat
          /\ \A b \in 1 .. Len(file) : file[b] \in Seq(Entry)
      BY <2>1, LenProperties
    <3>2. /\ Controls(file) \in Seq(FileLine) /\ Len(Controls(file)) = Len(file)
          /\ \A b \in 1 .. Len(file) : Controls(file)[b] = BatchControl(file[b])
      BY <2>1, BatchesAre
    <3>3. DOMAIN Controls(file) = 1 .. Len(file)
      BY <3>2, LenProperties
    <3>. QED
      BY <2>1, <3>1, <3>2, <3>3
  <2>3. BatchesWithin(file)
    BY <2>1, BatchesAddUp
  <2>4. Records(file) = Len(E) + 2 * Len(file) + 2
    BY DEF Records
  <2>. HIDE DEF E, C, K
  <2>5. Amount(E) \in Nat /\ Hash(E) \in Nat /\ Len(E) \in Nat
    BY <2>1, TotalsType, LenProperties
  <2>6. /\ Power(CountWidth) \in Nat /\ Power(TotalWidth) \in Nat /\ Power(HashWidth) \in Nat
    BY Widths, PowersGrow
  <2>7. ASSUME NEW b \in 1 .. Len(file)
        PROVE  /\ Field(C[b], CountWidth, TotalWidth) = Amount(file[b])
               /\ Field(C[b], CountWidth + TotalWidth, HashWidth) = Hash(file[b])
    <3>1. file[b] \in Seq(Entry) /\ C[b] = BatchControl(file[b])
      BY <2>2
    <3>2. /\ Len(file[b]) \in Nat /\ Len(file[b]) + 1 \in Nat
          /\ Amount(file[b]) \in Nat /\ Hash(file[b]) \in Nat
      BY <3>1, TotalsType, LenProperties
    <3>3. /\ Len(file[b]) <= Len(E) /\ Amount(file[b]) <= Amount(E) /\ Hash(file[b]) <= Hash(E)
      BY <2>3 DEF BatchesWithin, E
    <3>4. Len(file[b]) + 1 < Power(CountWidth)
      BY <2>1, <2>2, <2>4, <2>5, <2>6, <3>2, <3>3
    <3>5. Amount(file[b]) < Power(TotalWidth) /\ Hash(file[b]) < Power(HashWidth)
      BY <2>1, <2>5, <2>6, <3>2, <3>3
    <3>6. C[b] = Control("batchControl", Len(file[b]) + 1, Amount(file[b]), Hash(file[b]))
      BY <3>1 DEF BatchControl
    <3>. QED
      BY <3>2, <3>4, <3>5, <3>6, ControlFields
  <2>8. /\ Read(C, CountWidth, TotalWidth) = SumFunction([b \in DOMAIN file |-> Amount(file[b])])
        /\ Read(C, CountWidth + TotalWidth, HashWidth) = SumFunction([b \in DOMAIN file |-> Hash(file[b])])
    <3>1. /\ [b \in DOMAIN C |-> Field(C[b], CountWidth, TotalWidth)]
                = [b \in DOMAIN file |-> Amount(file[b])]
          /\ [b \in DOMAIN C |-> Field(C[b], CountWidth + TotalWidth, HashWidth)]
                = [b \in DOMAIN file |-> Hash(file[b])]
      BY <2>2, <2>7
    <3>. QED
      BY <3>1 DEF Read
  <2>9. /\ Read(C, CountWidth, TotalWidth) = Amount(E)
        /\ Read(C, CountWidth + TotalWidth, HashWidth) = Hash(E)
    BY <2>3, <2>8 DEF BatchesWithin, E
  <2>. QED
    BY <2>1, <2>9 DEF BatchControlsAddUp, C, K
<1>. QED
  BY <1>1, IInvHolds, PTL

=============================================================================
