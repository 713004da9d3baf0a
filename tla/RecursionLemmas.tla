---------------------------- MODULE RecursionLemmas ----------------------------
(***************************************************************************)
(* Induction over the naturals and the existence of recursive functions,   *)
(* with sets and functions as parameters, so that the provers can use them *)
(* for what a recursive definition of the models computes; and FlattenSeq, *)
(* of the community modules, as the first such definition.                 *)
(***************************************************************************)
EXTENDS Integers, SequencesExt, SequenceTheorems, WellFoundedInduction, TLAPS

\* A set of naturals with 0 and every successor is all of them: a smallest number
\* outside it would have a predecessor.
LEMMA Induction ==
  ASSUME NEW S \in SUBSET Nat, 0 \in S, \A n \in S : n + 1 \in S
  PROVE  S = Nat
<1> DEFINE R == OpToRel(<, Nat)
<1>1. \A x, y \in Nat : x < y => <<x, y>> \in R
  BY DEF OpToRel
<1>2. IsWellFoundedOn(R, Nat)
  BY NatLessThanWellFounded
<1> HIDE DEF R
<1>3. SUFFICES ASSUME Nat \ S # {} PROVE FALSE
  OBVIOUS
<1>4. PICK x \in Nat \ S : \A y \in Nat \ S : <<y, x>> \notin R
  <2> DEFINE T == Nat \ S
  <2>1. T \subseteq Nat /\ T # {}
    BY <1>3
  <2> HIDE DEF T
  <2>2. \E x \in T : \A y \in T : ~(<<y, x>> \in R)
    BY <1>2, <2>1, WFMin
  <2> QED
    BY <2>2 DEF T
<1>5. x - 1 \in Nat /\ x - 1 \notin S
  BY <1>4
<1>6. <<x - 1, x>> \in R
  BY <1>1, <1>4, <1>5
<1> QED
  BY <1>4, <1>5, <1>6

LEMMA SameFunction ==
  ASSUME NEW D, NEW S, NEW f \in [D -> S], NEW g \in [D -> S], \A x \in D : f[x] = g[x]
  PROVE  f = g
OBVIOUS

Solves(f, F) == f = F[f]
SolvesPointwise(f, F, D) == \A n \in D : f[n] = F[f][n]

LEMMA FixedPoint ==
  ASSUME NEW D, NEW S, NEW F \in [[D -> S] -> [D -> S]], NEW f \in [D -> S],
         SolvesPointwise(f, F, D)
  PROVE  Solves(f, F)
<1> DEFINE g == F[f]
<1>1. g \in [D -> S] /\ \A n \in D : f[n] = g[n]
  BY DEF SolvesPointwise
<1> HIDE DEF g
<1>2. f = g
  BY <1>1, SameFunction
<1> QED
  BY <1>2 DEF g, Solves

\* A value of F[g] depends on those of g at smaller arguments only.
Contractive(F, D, S) ==
  \A g, h \in [D -> S] : \A n \in D :
    (\A m \in D : m < n => g[m] = h[m]) => F[g][n] = F[h][n]

HasSolution(F, D, S) == \E f \in [D -> S] : Solves(f, F)

\* g satisfies the equation of F below n.
Approximates(F, D, g, n) == \A m \in D : m < n => g[m] = F[g][m]

\* A definition f[n \in D] == ... f[m] ..., where each m is below n, has a
\* solution: F[g] is its right-hand side with g for f.
LEMMA RecursiveFunction ==
  ASSUME NEW D \in SUBSET Nat, NEW S, S # {}, NEW F \in [[D -> S] -> [D -> S]],
         Contractive(F, D, S)
  PROVE  HasSolution(F, D, S)
<1> DEFINE Fs == [D -> S]
           A(g, n) == Approximates(F, D, g, n)
<1>1. \A n \in Nat : \E g \in Fs : A(g, n)
  <2> DEFINE T == {n \in Nat : \E g \in Fs : A(g, n)}
  <2>1. 0 \in T
    <3>1. PICK e \in S : TRUE
      OBVIOUS
    <3>2. [m \in D |-> e] \in Fs
      OBVIOUS
    <3>3. \A g \in Fs : A(g, 0)
      BY DEF Approximates
    <3> QED
      BY <3>2, <3>3
  <2>2. ASSUME NEW n \in T PROVE n + 1 \in T
    <3>1. PICK g \in Fs : A(g, n)
      OBVIOUS
    <3>2. F[g] \in Fs
      OBVIOUS
    <3>3. ASSUME NEW m \in D, m < n + 1 PROVE F[g][m] = F[F[g]][m]
      <4>1. ASSUME NEW i \in D, i < m PROVE g[i] = F[g][i]
        <5>1. i < n
          BY <3>3, <4>1
        <5> QED
          BY <3>1, <5>1 DEF Approximates
      <4> QED
        BY <3>2, <4>1 DEF Contractive
    <3>4. A(F[g], n + 1)
      BY <3>3 DEF Approximates
    <3> QED
      BY <3>2, <3>4
  <2> HIDE DEF T
  <2>3. T = Nat
    BY <2>1, <2>2, Induction DEF T
  <2> QED
    BY <2>3 DEF T
\* Two approximations agree as far as they go.
<1>2. ASSUME NEW g \in Fs, NEW h \in Fs, NEW n \in Nat, A(g, n), A(h, n)
      PROVE  \A m \in D : m < n => g[m] = h[m]
  <2> DEFINE T == {k \in Nat : \A m \in D : m < n /\ m < k => g[m] = h[m]}
  <2>1. 0 \in T
    OBVIOUS
  <2>2. ASSUME NEW k \in T PROVE k + 1 \in T
    <3> SUFFICES ASSUME NEW m \in D, m < n, m < k + 1 PROVE g[m] = h[m]
      OBVIOUS
    <3>1. \A i \in D : i < m => g[i] = h[i]
      OBVIOUS
    <3>2. F[g][m] = F[h][m]
      BY <3>1 DEF Contractive
    <3> QED
      BY <1>2, <3>2 DEF Approximates
  <2> HIDE DEF T
  <2>3. T = Nat
    BY <2>1, <2>2, Induction DEF T
  <2> QED
    BY <2>3 DEF T
<1> DEFINE a == [n \in Nat |-> CHOOSE g \in Fs : A(g, n)]
<1>3. \A n \in Nat : a[n] \in Fs /\ A(a[n], n)
  BY <1>1
<1> HIDE DEF a
\* Each value is taken from an approximation that has it right.
<1> DEFINE f == [m \in D |-> a[m + 1][m]]
<1>4. f \in Fs
  BY <1>3
<1>5. ASSUME NEW n \in D PROVE f[n] = F[f][n]
  <2>0. n + 1 \in Nat
    OBVIOUS
  <2>1. a[n + 1] \in Fs /\ A(a[n + 1], n + 1)
    BY <1>3, <2>0
  <2>2. ASSUME NEW m \in D, m < n PROVE f[m] = a[n + 1][m]
    <3>1. m + 1 \in Nat /\ a[m + 1] \in Fs /\ A(a[m + 1], m + 1) /\ A(a[n + 1], m + 1)
      BY <1>3, <2>1, <2>2 DEF Approximates
    <3>2. a[m + 1][m] = a[n + 1][m]
      BY <1>2, <2>1, <3>1
    <3> QED
      BY <3>2
  <2>3. F[f][n] = F[a[n + 1]][n]
    BY <1>4, <2>1, <2>2 DEF Contractive
  <2> QED
    BY <2>1, <2>3 DEF Approximates
<1> HIDE DEF f
<1>6. f \in [D -> S] /\ SolvesPointwise(f, F, D)
  BY <1>4, <1>5 DEF SolvesPointwise
<1>7. Solves(f, F)
  BY <1>6, FixedPoint, Zenon
<1> QED
  BY <1>6, <1>7 DEF HasSolution

-----------------------------------------------------------------------------
(* FlattenSeq *)

\* The function by which FlattenSeq is defined.
Flattens(f, seqs) ==
  f = [i \in 1 .. Len(seqs) |-> IF i = 1 THEN seqs[i] ELSE f[i - 1] \o seqs[i]]

LEMMA FlattenSolves ==
  ASSUME NEW U, NEW seqs \in Seq(Seq(U))
  PROVE  \E f : Flattens(f, seqs)
<1> DEFINE D == 1 .. Len(seqs)
           S == Seq(U)
           F == [g \in [D -> S] |->
                   [i \in D |-> IF i = 1 THEN seqs[i] ELSE g[i - 1] \o seqs[i]]]
<1>1. F \in [[D -> S] -> [D -> S]]
  <2>1. ASSUME NEW g \in [D -> S], NEW i \in D
        PROVE  (IF i = 1 THEN seqs[i] ELSE g[i - 1] \o seqs[i]) \in S
    <3>1. seqs[i] \in Seq(U)
      OBVIOUS
    <3>2. CASE i # 1
      <4>0. i - 1 \in D
        BY <3>2
      <4>1. g[i - 1] \in Seq(U)
        BY <4>0
      <4> QED
        BY <3>1, <3>2, <4>1
    <3> QED
      BY <3>1, <3>2
  <2> HIDE DEF S, D
  <2> QED
    BY <2>1
<1>2. Contractive(F, D, S)
  <2> SUFFICES ASSUME NEW g \in [D -> S], NEW h \in [D -> S], NEW n \in D,
                      \A m \in D : m < n => g[m] = h[m]
               PROVE  F[g][n] = F[h][n]
    BY Zenon DEF Contractive
  <2>1. n # 1 => g[n - 1] = h[n - 1]
    OBVIOUS
  <2> HIDE DEF D, S
  <2> QED
    BY <2>1
<1>3. D \in SUBSET Nat /\ S # {}
  BY EmptySeq
<1>4. HasSolution(F, D, S)
  <2> HIDE DEF F, D, S
  <2> QED
    BY <1>1, <1>2, <1>3, RecursiveFunction, Zenon
<1> QED
  <2> HIDE DEF D, S
  <2>1. PICK f \in [D -> S] : f = F[f]
    BY <1>4 DEF HasSolution, Solves
  <2> QED
    BY <2>1 DEF Flattens, D

LEMMA FlattenIs ==
  ASSUME NEW U, NEW seqs \in Seq(Seq(U)), Len(seqs) > 0
  PROVE  \E f : Flattens(f, seqs) /\ FlattenSeq(seqs) = f[Len(seqs)]
<1> DEFINE f == CHOOSE f : Flattens(f, seqs)
<1>1. Flattens(f, seqs)
  BY FlattenSolves
<1>2. FlattenSeq(seqs) = f[Len(seqs)]
  BY DEF FlattenSeq, Flattens
<1> QED
  BY <1>1, <1>2

FollowsSeqs(f, seqs) ==
  /\ Len(seqs) >= 1 => f[1] = seqs[1]
  /\ \A i \in 1 .. Len(seqs) - 1 : f[i + 1] = f[i] \o seqs[i + 1]

LEMMA FlattensAt ==
  ASSUME NEW seqs, Len(seqs) \in Nat, NEW f, Flattens(f, seqs)
  PROVE  FollowsSeqs(f, seqs)
<1> DEFINE D == 1 .. Len(seqs)
<1>1. \A i \in D : f[i] = IF i = 1 THEN seqs[i] ELSE f[i - 1] \o seqs[i]
  BY DEF Flattens
<1>2. ASSUME NEW i \in 1 .. Len(seqs) - 1 PROVE f[i + 1] = f[i] \o seqs[i + 1]
  <2> DEFINE k == i + 1
  <2>1. k \in D /\ k # 1 /\ k - 1 = i
    OBVIOUS
  <2> HIDE DEF D, k
  <2>2. f[k] = f[i] \o seqs[k]
    BY <1>1, <2>1
  <2> QED
    BY <2>2 DEF k
<1>3. Len(seqs) >= 1 => 1 \in D
  OBVIOUS
<1>4. Len(seqs) >= 1 => f[1] = seqs[1]
  BY <1>1, <1>3, Zenon
<1> QED
  BY <1>2, <1>4 DEF FollowsSeqs

\* Its values have the type of the sequences, and depend on those before only.
LEMMA FlattenTyping ==
  ASSUME NEW U, NEW seqs \in Seq(Seq(U)), NEW f, Flattens(f, seqs)
  PROVE  \A i \in 1 .. Len(seqs) : f[i] \in Seq(U)
<1>0. FollowsSeqs(f, seqs)
  <2>1. Len(seqs) \in Nat
    OBVIOUS
  <2> QED
    BY <2>1, FlattensAt, Zenon
<1> DEFINE T == {i \in Nat : i \in 1 .. Len(seqs) => f[i] \in Seq(U)}
<1>1. 0 \in T
  OBVIOUS
<1>2. ASSUME NEW i \in T PROVE i + 1 \in T
  <2> SUFFICES ASSUME i + 1 \in 1 .. Len(seqs) PROVE f[i + 1] \in Seq(U)
    OBVIOUS
  <2>1. seqs[i + 1] \in Seq(U)
    OBVIOUS
  <2>2. CASE i = 0
    BY <1>0, <2>1, <2>2 DEF FollowsSeqs
  <2>3. CASE i # 0
    <3>1. i \in 1 .. Len(seqs) - 1 /\ f[i] \in Seq(U)
      BY <2>3
    <3>2. f[i + 1] = f[i] \o seqs[i + 1]
      BY <1>0, <3>1 DEF FollowsSeqs
    <3> QED
      BY <2>1, <3>1, <3>2
  <2> QED
    BY <2>2, <2>3
<1> HIDE DEF T
<1>3. T = Nat
  BY <1>1, <1>2, Induction DEF T
<1> QED
  BY <1>3 DEF T

LEMMA FlattenPrefix ==
  ASSUME NEW U, NEW seqs \in Seq(Seq(U)), NEW n \in 0 .. Len(seqs), NEW f, Flattens(f, seqs),
         NEW g, Flattens(g, SubSeq(seqs, 1, n))
  PROVE  \A i \in 1 .. n : f[i] = g[i]
<1> DEFINE q == SubSeq(seqs, 1, n)
<1>0. Len(q) = n /\ \A i \in 1 .. n : q[i] = seqs[i]
  OBVIOUS
<1> HIDE DEF q
<1>4. FollowsSeqs(f, seqs) /\ FollowsSeqs(g, q)
  <2>1. Len(seqs) \in Nat /\ Len(q) \in Nat /\ Flattens(g, q)
    BY <1>0 DEF q
  <2> QED
    BY <2>1, FlattensAt, Zenon
<1> DEFINE T == {i \in Nat : i \in 1 .. n => f[i] = g[i]}
<1>1. 0 \in T
  OBVIOUS
<1>2. ASSUME NEW i \in T PROVE i + 1 \in T
  <2> SUFFICES ASSUME i + 1 \in 1 .. n PROVE f[i + 1] = g[i + 1]
    OBVIOUS
  <2>1. q[i + 1] = seqs[i + 1]
    BY <1>0
  <2>2. CASE i = 0
    BY <1>0, <1>4, <2>1, <2>2 DEF FollowsSeqs
  <2>3. CASE i # 0
    <3>1. i \in 1 .. Len(seqs) - 1 /\ i \in 1 .. Len(q) - 1 /\ f[i] = g[i]
      BY <1>0, <2>3
    <3> QED
      BY <1>0, <1>4, <2>1, <3>1 DEF FollowsSeqs
  <2> QED
    BY <2>2, <2>3
<1> HIDE DEF T
<1>3. T = Nat
  BY <1>1, <1>2, Induction DEF T
<1>5. \A i \in 1 .. n : i \in Nat
  OBVIOUS
<1> QED
  BY <1>3, <1>5, Zenon DEF T

\* FlattenSeq takes one sequence after the other.
LEMMA FlattenStep ==
  ASSUME NEW U, NEW seqs \in Seq(Seq(U)), NEW n \in Nat, n < Len(seqs)
  PROVE  /\ FlattenSeq(SubSeq(seqs, 1, 0)) = <<>>
         /\ FlattenSeq(SubSeq(seqs, 1, n)) \in Seq(U)
         /\ FlattenSeq(SubSeq(seqs, 1, n + 1))
              = FlattenSeq(SubSeq(seqs, 1, n)) \o seqs[n + 1]
<1>1. FlattenSeq(SubSeq(seqs, 1, 0)) = <<>>
  BY DEF FlattenSeq
<1>2. PICK f : Flattens(f, seqs)
  BY FlattenSolves
<1>3. ASSUME NEW m \in 1 .. Len(seqs) PROVE FlattenSeq(SubSeq(seqs, 1, m)) = f[m]
  <2> DEFINE q == SubSeq(seqs, 1, m)
  <2>1. q \in Seq(Seq(U)) /\ Len(q) = m /\ m > 0
    OBVIOUS
  <2> HIDE DEF q
  <2>2. PICK g : Flattens(g, q) /\ FlattenSeq(q) = g[Len(q)]
    BY <2>1, FlattenIs
  <2>3. f[m] = g[m]
    <3>1. m \in 0 .. Len(seqs) /\ m \in 1 .. m
      OBVIOUS
    <3> QED
      BY <1>2, <2>2, <3>1, FlattenPrefix DEF q
  <2> QED
    BY <2>1, <2>2, <2>3 DEF q
<1>7. FollowsSeqs(f, seqs)
  <2>1. Len(seqs) \in Nat
    OBVIOUS
  <2> QED
    BY <1>2, <2>1, FlattensAt, Zenon
<1>4. n + 1 \in 1 .. Len(seqs) /\ seqs[n + 1] \in Seq(U)
  OBVIOUS
<1>5. CASE n = 0
  <2>1. f[1] = seqs[1]
    BY <1>4, <1>7 DEF FollowsSeqs
  <2>2. FlattenSeq(SubSeq(seqs, 1, n + 1)) = seqs[n + 1]
    BY <1>3, <1>4, <1>5, <2>1
  <2>3. <<>> \o seqs[n + 1] = seqs[n + 1] /\ <<>> \in Seq(U)
    BY <1>4, ConcatEmptySeq
  <2> QED
    BY <1>1, <1>5, <2>2, <2>3
<1>6. CASE n # 0
  <2>1. n \in 1 .. Len(seqs)
    BY <1>6
  <2>2. f[n] \in Seq(U)
    BY <1>2, <2>1, FlattenTyping
  <2>3. f[n + 1] = f[n] \o seqs[n + 1]
    <3>1. n \in 1 .. Len(seqs) - 1
      BY <1>6
    <3> QED
      BY <1>7, <3>1 DEF FollowsSeqs
  <2> QED
    BY <1>1, <1>3, <1>4, <2>1, <2>2, <2>3
<1> QED
  BY <1>5, <1>6

=============================================================================
