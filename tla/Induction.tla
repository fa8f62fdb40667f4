------------------------------ MODULE Induction ------------------------------
(***************************************************************************)
(* Induction over the natural numbers as facts about sets of numbers, and  *)
(* that a function defined by recursion satisfies its equation, for the    *)
(* proofs about the loops of the code that a module states as such a       *)
(* function.                                                               *)
(***************************************************************************)
EXTENDS Naturals, Sequences, SequencesExt, WellFoundedInduction, TLAPS

\* A set of numbers that is not empty has a least one.
LEMMA LeastNumber ==
  ASSUME NEW T \in SUBSET Nat, T # {}
  PROVE  \E n \in T : \A m \in T : n <= m
  <1>1. \E n \in T : \A m \in T : ~(<<m, n>> \in OpToRel(<, Nat))
    BY NatLessThanWellFounded, WFMin, Zenon
  <1>2. PICK n \in T : \A m \in T : ~(m < n)
    BY <1>1, Zenon DEF OpToRel
  <1> QED BY <1>2

\* A set of numbers with 0 and the successor of each of its members has all.
LEMMA NumbersBySteps ==
  ASSUME NEW T, 0 \in T, \A n \in Nat : n \in T => n + 1 \in T
  PROVE  Nat \subseteq T
  <1> SUFFICES ASSUME Nat \ T # {} PROVE FALSE
    OBVIOUS
  <1>1. PICK n \in Nat \ T : \A m \in Nat \ T : n <= m
    BY LeastNumber
  <1>2. n # 0 /\ n - 1 \in Nat /\ n - 1 < n
    BY <1>1
  <1>3. n - 1 \in T
    BY <1>1, <1>2
  <1>4. (n - 1) + 1 \in T
    BY <1>2, <1>3
  <1> QED BY <1>1, <1>2, <1>4

\* The same up to a bound.
LEMMA NumbersUpTo ==
  ASSUME NEW N \in Nat, NEW T, 0 \in T, \A n \in 0..(N - 1) : n \in T => n + 1 \in T
  PROVE  0..N \subseteq T
  <1> DEFINE U == {n \in Nat : n <= N => n \in T}
  <1>1. 0 \in U /\ \A n \in Nat : n \in U => n + 1 \in U
    OBVIOUS
  <1>2. Nat \subseteq U
    BY <1>1, NumbersBySteps, Zenon
  <1> QED BY <1>2

\* f begins with base, and each next value is given by the one before.
Follows(f, N, S, base, g) ==
  f \in [0..N -> S] /\ f[0] = base /\ \A i \in 1..N : f[i] = g[i][f[i - 1]]

\* There is such a function.
LEMMA RecursionExists ==
  ASSUME NEW N \in Nat, NEW S, NEW base \in S, NEW g \in [1..N -> [S -> S]]
  PROVE  \E f : Follows(f, N, S, base, g)
  <1> DEFINE Is(f, n) == f \in [0..n -> S] /\ f[0] = base /\ \A i \in 1..n : f[i] = g[i][f[i - 1]]
             T == {n \in Nat : \E f : Is(f, n)}
  <1>1. 0 \in T
    <2>1. Is([i \in 0..0 |-> base], 0)
      OBVIOUS
    <2> QED BY <2>1
  <1>2. ASSUME NEW n \in 0..(N - 1), n \in T PROVE n + 1 \in T
    <2>1. PICK f : Is(f, n)
      BY <1>2
    <2> DEFINE h == [i \in 0..(n + 1) |-> IF i <= n THEN f[i] ELSE g[n + 1][f[n]]]
    <2>2. f[n] \in S /\ n + 1 \in 1..N
      BY <2>1
    <2>3. g[n + 1][f[n]] \in S
      BY <2>2
    <2>4. h \in [0..(n + 1) -> S]
      BY <2>1, <2>3
    <2>5. h[0] = base
      BY <2>1
    <2>6. ASSUME NEW i \in 1..(n + 1) PROVE h[i] = g[i][h[i - 1]]
      <3>0. i \in 0..(n + 1) /\ i - 1 \in 0..n /\ i - 1 \in 0..(n + 1) /\ i - 1 <= n
        OBVIOUS
      <3>1. h[i - 1] = f[i - 1]
        BY <3>0
      <3>2. CASE i <= n
        <4>1. h[i] = f[i] /\ i \in 1..n
          BY <3>0, <3>2
        <4>2. f[i] = g[i][f[i - 1]]
          BY <2>1, <4>1
        <4> QED BY <3>1, <4>1, <4>2, Zenon
      <3>3. CASE i = n + 1
        <4>1. h[i] = g[n + 1][f[n]] /\ i - 1 = n
          BY <3>0, <3>3
        <4> QED BY <3>1, <3>3, <4>1
      <3> QED BY <3>2, <3>3
    <2> HIDE DEF h
    <2>7. n + 1 \in Nat /\ Is(h, n + 1)
      BY <2>4, <2>5, <2>6
    <2> QED BY <2>7
  <1>3. 0..N \subseteq T
    BY <1>1, <1>2, NumbersUpTo, Zenon
  <1> QED BY <1>3 DEF Follows

(* Sequences put behind each other *)

LEMMA ConcatTyped ==
  ASSUME NEW S, NEW a \in Seq(S), NEW b \in Seq(S)
  PROVE  /\ a \o b \in Seq(S) /\ Len(a \o b) = Len(a) + Len(b)
         /\ \A i \in 1..Len(a) : (a \o b)[i] = a[i]
         /\ \A i \in 1..Len(b) : (a \o b)[Len(a) + i] = b[i]
  OBVIOUS

LEMMA SameSequence ==
  ASSUME NEW S, NEW a \in Seq(S), NEW b \in Seq(S), Len(a) = Len(b), \A i \in 1..Len(a) : a[i] = b[i]
  PROVE  a = b
  OBVIOUS

LEMMA ConcatRegroups ==
  ASSUME NEW S, NEW a \in Seq(S), NEW b \in Seq(S), NEW c \in Seq(S)
  PROVE  (a \o b) \o c = a \o (b \o c)
  OBVIOUS

LEMMA ConcatEmpty ==
  ASSUME NEW S, NEW a \in Seq(S)
  PROVE  a \o <<>> = a /\ <<>> \o a = a
  OBVIOUS

\* f gives what the first i sequences of ss have, one behind the other.
Joins(f, ss, S) ==
  /\ f \in [0..Len(ss) -> Seq(S)] /\ f[0] = <<>>
  /\ \A i \in 1..Len(ss) : f[i] = f[i - 1] \o ss[i]

LEMMA FlattenSteps ==
  ASSUME NEW S, NEW ss \in Seq(Seq(S))
  PROVE  \E f : Joins(f, ss, S) /\ FlattenSeq(ss) = f[Len(ss)]
  <1> DEFINE n == Len(ss)
             g == [i \in 1..n |-> [t \in Seq(S) |-> t \o ss[i]]]
             body(e) == [i \in 1..n |-> IF i = 1 THEN ss[i] ELSE e[i - 1] \o ss[i]]
             F == CHOOSE e : e = body(e)
  <1>1. n \in Nat /\ <<>> \in Seq(S)
    OBVIOUS
  <1>2. \A i \in 1..n : ss[i] \in Seq(S)
    OBVIOUS
  <1>3. g \in [1..n -> [Seq(S) -> Seq(S)]]
    BY <1>2, ConcatTyped
  <1>4. PICK f : Follows(f, n, Seq(S), <<>>, g)
    BY <1>1, <1>3, RecursionExists
  <1>5. Joins(f, ss, S)
    <2> SUFFICES ASSUME NEW i \in 1..n PROVE f[i] = f[i - 1] \o ss[i]
      BY <1>4 DEF Joins, Follows
    <2>1. i - 1 \in 0..n
      BY <1>1
    <2>2. f[i - 1] \in Seq(S) /\ f[i] = g[i][f[i - 1]]
      BY <1>4, <2>1 DEF Follows
    <2> QED BY <2>2
  <1> HIDE DEF g
  <1>6. \A i \in 1..n : i - 1 \in 0..n /\ i \in 0..n
    BY <1>1
  <1>7. CASE n = 0
    <2>1. FlattenSeq(ss) = ss /\ ss = <<>>
      BY <1>7 DEF FlattenSeq
    <2> QED BY <1>5, <1>7, <2>1 DEF Joins
  <1>8. CASE n # 0
    <2> DEFINE k == [i \in 1..n |-> f[i]]
    <2>1. k = body(k)
      <3> SUFFICES ASSUME NEW i \in 1..n PROVE f[i] = IF i = 1 THEN ss[i] ELSE k[i - 1] \o ss[i]
        OBVIOUS
      <3>1. f[i] = f[i - 1] \o ss[i]
        BY <1>5 DEF Joins
      <3>2. CASE i = 1
        <4>1. f[i - 1] = <<>>
          BY <1>5, <3>2 DEF Joins
        <4> QED BY <1>2, <3>1, <3>2, <4>1, ConcatEmpty
      <3>3. CASE i # 1
        <4>1. i - 1 \in 1..n
          BY <3>3
        <4> QED BY <3>1, <3>3, <4>1
      <3> QED BY <3>2, <3>3
    <2>2. F = body(F)
      <3> HIDE DEF body, k
      <3> QED BY <2>1
    <2>3. FlattenSeq(ss) = F[n]
      BY <1>1, <1>8 DEF FlattenSeq
    <2> HIDE DEF F, k
    <2>4. \A i \in 1..n : F[i] = IF i = 1 THEN ss[i] ELSE F[i - 1] \o ss[i]
      <3> HIDE DEF n
      <3> QED BY <2>2
    <2> DEFINE T == {i \in 0..n : i = 0 \/ F[i] = f[i]}
    <2>5. 0 \in T
      BY <1>1
    <2>6. ASSUME NEW i \in 0..(n - 1), i \in T PROVE i + 1 \in T
      <3>1. i + 1 \in 1..n /\ i + 1 \in 0..n /\ (i + 1) - 1 = i
        BY <1>1
      <3>2. f[i + 1] = f[i] \o ss[i + 1]
        BY <1>5, <3>1 DEF Joins
      <3>3. CASE i = 0
        <4>0. f[0] = <<>>
          BY <1>5 DEF Joins
        <4>1. f[i] = <<>> /\ i + 1 = 1 /\ 1 \in 1..n
          BY <3>1, <3>3, <4>0
        <4>2. F[1] = ss[1] /\ ss[1] \in Seq(S)
          BY <1>2, <2>4, <4>1
        <4>3. <<>> \o ss[1] = ss[1]
          BY <4>2, ConcatEmpty
        <4> QED BY <3>1, <3>2, <4>1, <4>2, <4>3
      <3>4. CASE i # 0
        <4>0. i + 1 # 1
          BY <3>4
        <4>1. F[i + 1] = F[(i + 1) - 1] \o ss[i + 1] /\ F[i] = f[i]
          BY <2>4, <2>6, <3>1, <3>4, <4>0, Zenon
        <4> QED BY <3>1, <3>2, <4>1, Zenon
      <3> QED BY <3>3, <3>4
    <2>7. 0..n \subseteq T
      BY <1>1, <2>5, <2>6, NumbersUpTo, Zenon
    <2>8. F[n] = f[n]
      BY <1>1, <1>8, <2>7
    <2> QED BY <1>5, <2>3, <2>8
  <1> QED BY <1>7, <1>8

LEMMA FlattenTyped ==
  ASSUME NEW S, NEW ss \in Seq(Seq(S))
  PROVE  FlattenSeq(ss) \in Seq(S)
  <1>1. PICK f : Joins(f, ss, S) /\ FlattenSeq(ss) = f[Len(ss)]
    BY FlattenSteps
  <1> QED BY <1>1 DEF Joins

LEMMA FlattenConcat ==
  ASSUME NEW S, NEW ss \in Seq(Seq(S)), NEW tt \in Seq(Seq(S))
  PROVE  FlattenSeq(ss \o tt) = FlattenSeq(ss) \o FlattenSeq(tt)
  <1> DEFINE m == Len(ss)
             n == Len(tt)
             both == ss \o tt
  <1>1. /\ both \in Seq(Seq(S)) /\ Len(both) = m + n /\ m \in Nat /\ n \in Nat
        /\ (\A i \in 1..m : both[i] = ss[i]) /\ \A i \in 1..n : both[m + i] = tt[i]
    OBVIOUS
  <1>2. PICK f : Joins(f, ss, S) /\ FlattenSeq(ss) = f[m]
    BY FlattenSteps
  <1>3. PICK h : Joins(h, tt, S) /\ FlattenSeq(tt) = h[n]
    BY FlattenSteps
  <1> HIDE DEF both
  <1>4. PICK k : Joins(k, both, S) /\ FlattenSeq(both) = k[m + n]
    BY <1>1, FlattenSteps
  <1>5. /\ \A i \in 1..m : f[i] = f[i - 1] \o ss[i]
        /\ \A i \in 1..n : h[i] = h[i - 1] \o tt[i]
        /\ \A i \in 1..(m + n) : k[i] = k[i - 1] \o both[i]
        /\ f[0] = <<>> /\ h[0] = <<>> /\ k[0] = <<>>
        /\ (\A i \in 0..m : f[i] \in Seq(S)) /\ \A i \in 0..n : h[i] \in Seq(S)
        /\ \A i \in 1..n : tt[i] \in Seq(S)
    <2>1. DOMAIN f = 0..m /\ DOMAIN h = 0..n
      BY <1>2, <1>3 DEF Joins
    <2>2. (\A i \in 1..m : f[i] = f[i - 1] \o ss[i]) /\ f[0] = <<>>
      BY <1>2, Zenon DEF Joins
    <2>3. (\A i \in 1..n : h[i] = h[i - 1] \o tt[i]) /\ h[0] = <<>>
      BY <1>3, Zenon DEF Joins
    <2>4. (\A i \in 1..(m + n) : k[i] = k[i - 1] \o both[i]) /\ k[0] = <<>>
      BY <1>1, <1>4, Zenon DEF Joins
    <2>5. \A i \in 0..m : f[i] \in Seq(S)
      BY <1>2 DEF Joins
    <2>6. \A i \in 0..n : h[i] \in Seq(S)
      BY <1>3 DEF Joins
    <2>7. \A i \in 1..n : tt[i] \in Seq(S)
      OBVIOUS
    <2> QED BY <2>2, <2>3, <2>4, <2>5, <2>6, <2>7
  <1> HIDE DEF m, n
  <1> DEFINE T == {i \in 0..m : k[i] = f[i]}
  <1>6. 0..m \subseteq T
    <2>1. 0 \in T
      BY <1>1, <1>5
    <2>2. ASSUME NEW i \in 0..(m - 1), i \in T PROVE i + 1 \in T
      <3>1. i + 1 \in 1..m /\ i + 1 \in 0..m /\ i + 1 \in 1..(m + n) /\ (i + 1) - 1 = i
        BY <1>1
      <3>2. k[i + 1] = k[(i + 1) - 1] \o both[i + 1] /\ f[i + 1] = f[(i + 1) - 1] \o ss[i + 1]
        BY <1>5, <3>1, Zenon
      <3>3. both[i + 1] = ss[i + 1] /\ k[i] = f[i]
        BY <1>1, <2>2, <3>1
      <3> QED BY <3>1, <3>2, <3>3
    <2> QED BY <1>1, <2>1, <2>2, NumbersUpTo, Zenon
  <1> DEFINE U == {i \in 0..n : k[m + i] = f[m] \o h[i]}
  <1>7. 0..n \subseteq U
    <2>1. 0 \in U
      <3>1. k[m] = f[m] /\ f[m] \in Seq(S) /\ m + 0 = m /\ 0 \in 0..n
        BY <1>1, <1>5, <1>6
      <3> QED BY <1>5, <3>1, ConcatEmpty
    <2>2. ASSUME NEW i \in 0..(n - 1), i \in U PROVE i + 1 \in U
      <3>1. /\ i + 1 \in 1..n /\ i + 1 \in 0..n /\ i \in 0..n /\ (i + 1) - 1 = i
            /\ m + (i + 1) \in 1..(m + n) /\ (m + (i + 1)) - 1 = m + i /\ m \in 0..m
        BY <1>1
      <3>2. k[m + (i + 1)] = k[m + i] \o tt[i + 1]
        BY <1>1, <1>5, <3>1
      <3>3. h[i + 1] = h[i] \o tt[i + 1]
        BY <1>5, <3>1
      <3>0. f[m] \in Seq(S) /\ h[i] \in Seq(S) /\ tt[i + 1] \in Seq(S)
        BY <1>5, <3>1
      <3>4. (f[m] \o h[i]) \o tt[i + 1] = f[m] \o (h[i] \o tt[i + 1])
        <4>1. \A a, b, c \in Seq(S) : (a \o b) \o c = a \o (b \o c)
          BY ConcatRegroups
        <4> QED BY <3>0, <4>1, Zenon
      <3> QED BY <2>2, <3>1, <3>2, <3>3, <3>4
    <2> QED BY <1>1, <2>1, <2>2, NumbersUpTo, Zenon
  <1>8. k[m + n] = f[m] \o h[n]
    <2>1. n \in 0..n
      BY <1>1
    <2> QED BY <1>7, <2>1
  <1> QED BY <1>2, <1>3, <1>4, <1>8 DEF both

LEMMA FlattenOne ==
  ASSUME NEW S, NEW s \in Seq(S)
  PROVE  FlattenSeq(<<s>>) = s
  <1>1. <<s>> \in Seq(Seq(S)) /\ Len(<<s>>) = 1 /\ <<s>>[1] = s
    OBVIOUS
  <1>2. PICK f : Joins(f, <<s>>, S) /\ FlattenSeq(<<s>>) = f[1]
    BY <1>1, FlattenSteps
  <1> DEFINE one == <<s>>
  <1> HIDE DEF one
  <1>a. Joins(f, one, S) /\ Len(one) = 1 /\ one[1] = s
    BY <1>1, <1>2 DEF one
  <1>3. f[1] = f[0] \o s /\ f[0] = <<>>
    <2>1. f[1] = f[1 - 1] \o one[1] /\ f[0] = <<>>
      BY <1>a DEF Joins
    <2> QED BY <1>a, <2>1
  <1> QED BY <1>2, <1>3, ConcatEmpty

LEMMA FlattenNone ==
  FlattenSeq(<<>>) = <<>>
  BY DEF FlattenSeq

\* Where there is nothing to put together, there is nothing.
LEMMA FlattenBlank ==
  ASSUME NEW S, NEW ss \in Seq(Seq(S)), \A i \in 1..Len(ss) : ss[i] = <<>>
  PROVE  FlattenSeq(ss) = <<>>
  <1> DEFINE n == Len(ss)
  <1>1. n \in Nat /\ <<>> \in Seq(S)
    OBVIOUS
  <1>2. PICK f : Joins(f, ss, S) /\ FlattenSeq(ss) = f[n]
    BY FlattenSteps
  <1> DEFINE T == {i \in 0..n : f[i] = <<>>}
  <1>3. 0 \in T
    BY <1>1, <1>2 DEF Joins
  <1>4. ASSUME NEW i \in 0..(n - 1), i \in T PROVE i + 1 \in T
    <2>1. i + 1 \in 1..n /\ i + 1 \in 0..n /\ (i + 1) - 1 = i
      BY <1>1
    <2>2. f[i + 1] = f[i] \o ss[i + 1]
      BY <1>2, <2>1 DEF Joins
    <2> QED BY <1>1, <1>4, <2>1, <2>2, ConcatEmpty
  <1>5. 0..n \subseteq T
    BY <1>1, <1>3, <1>4, NumbersUpTo, Zenon
  <1> QED BY <1>1, <1>2, <1>5
=============================================================================
