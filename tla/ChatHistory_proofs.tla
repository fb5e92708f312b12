------------------------- MODULE ChatHistory_proofs -------------------------
(* Proofs about the operators on histories that ChatState is built from: the  *)
(* repair passes, the retained-conversation pruning, the replay of a file.    *)
EXTENDS ChatState, SequenceTheorems, FiniteSetTheorems, WellFoundedInduction, TLAPS

-----------------------------------------------------------------------------
(* Induction without an induction scheme: a set of naturals has a least one. *)

\* A non-empty set of natural numbers has a least element.
LEMMA LeastNatural ==
    ASSUME NEW T, T \subseteq Nat, T # {}
    PROVE  \E m \in T : \A k \in T : m <= k
<1> DEFINE R == OpToRel(<, Nat)
<1>1. IsWellFoundedOn(R, Nat)
  BY NatLessThanWellFounded
<1>2. \A x, y \in Nat : x < y => <<x, y>> \in R
  BY DEF OpToRel
<1> HIDE DEF R
<1>3. PICK m \in T : \A k \in T : ~ (<<k, m>> \in R)
  BY <1>1, WFMin
<1>4. ASSUME NEW k \in T  PROVE m <= k
  <2>1. k \in Nat /\ m \in Nat /\ ~ (k < m)
    BY <1>2, <1>3
  <2> QED
    BY <2>1
<1> QED
  BY <1>3, <1>4

Recursive(f, N, base, step) == f[0] = base /\ \A n \in 1..N : f[n] = step[n][f[n - 1]]

\* A function defined by recursion from 0 to N exists.
LEMMA RecursionExists ==
    ASSUME NEW N \in Nat, NEW S, NEW base \in S, NEW step \in [1..N -> [S -> S]]
    PROVE  \E f \in [0..N -> S] : Recursive(f, N, base, step)
<1> DEFINE Good(f, k) == f[0] = base /\ \A n \in 1..k : f[n] = step[n][f[n - 1]]
           T == {k \in 0..N : ~\E f \in [0..k -> S] : Good(f, k)}
<1>1. SUFFICES ASSUME T # {}  PROVE FALSE
  <2>1. CASE T = {}
    <3>1. N \in 0..N
      OBVIOUS
    <3>2. N \notin T
      <4> HIDE DEF T
      <4> QED  BY <2>1
    <3>3. \E f \in [0..N -> S] : Good(f, N)
      <4> HIDE DEF Good
      <4> QED  BY <3>1, <3>2
    <3> QED
      BY <3>3 DEF Recursive
  <2> QED
    BY <2>1
<1>2. PICK k \in T : \A j \in T : k <= j
  <2>1. T \subseteq Nat
    OBVIOUS
  <2> HIDE DEF T
  <2> QED
    BY <1>1, <2>1, LeastNatural
<1>3. CASE k = 0
  <2>1. Good([n \in 0..k |-> base], k)
    BY <1>3
  <2> QED
    BY <1>3, <2>1
<1>4. CASE k # 0
  <2>1. k - 1 \in 0..N /\ k - 1 \notin T /\ k \in 1..N
    <3>1. k \in 1..N
      BY <1>4
    <3>2. k - 1 \in 0..N /\ ~ (k <= k - 1)
      BY <3>1
    <3> HIDE DEF T
    <3> QED
      BY <1>2, <3>1, <3>2
  <2>2. PICK f \in [0..k - 1 -> S] : Good(f, k - 1)
    BY <2>1
  <2> DEFINE last == step[k][f[k - 1]]
             g    == [n \in 0..k |-> IF n = k THEN last ELSE f[n]]
  <2>3. last \in S
    BY <2>1
  <2>4. g \in [0..k -> S]
    BY <2>1, <2>3
  <2>5. ASSUME NEW n \in 1..k  PROVE g[n] = step[n][g[n - 1]]
    <3>1. CASE n = k
      <4>1. k - 1 \in 0..k /\ k - 1 # k /\ k \in 0..k
        BY <2>1
      <4>2. g[k] = last /\ g[k - 1] = f[k - 1]
        BY <4>1
      <4> HIDE DEF g
      <4> QED
        BY <3>1, <4>2
    <3>2. CASE n # k
      <4>1. n \in 1..k - 1
        BY <2>1, <3>2
      <4>2. f[n] = step[n][f[n - 1]]
        BY <2>2, <4>1
      <4>3. n - 1 \in 0..k /\ n - 1 # k
        BY <4>1, <2>1
      <4>4. g[n] = f[n] /\ g[n - 1] = f[n - 1]
        BY <3>2, <4>3
      <4> HIDE DEF g
      <4> QED
        BY <4>2, <4>4
    <3> QED
      BY <3>1, <3>2
  <2>6. g[0] = base
    BY <1>4, <2>1, <2>2
  <2> HIDE DEF g, Good
  <2> QED
    BY <2>4, <2>5, <2>6, <1>2 DEF Good
<1> QED
  BY <1>3, <1>4

-----------------------------------------------------------------------------
(* Flattening a sequence of blocks. *)

\* What FlattenSeq computes, block by block.
LEMMA FlattenSteps ==
    ASSUME NEW S, NEW B \in Seq(Seq(S))
    PROVE  \E f \in [0..Len(B) -> Seq(S)] :
              /\ f[0] = <<>>
              /\ \A n \in 1..Len(B) : f[n] = f[n - 1] \o B[n]
              /\ FlattenSeq(B) = f[Len(B)]
<1> DEFINE N == Len(B)
           step == [n \in 1..N |-> [s \in Seq(S) |-> s \o B[n]]]
           Eq(c) == c = [i \in 1..N |-> IF i = 1 THEN B[i] ELSE c[i - 1] \o B[i]]
<1>1. N \in Nat /\ \A n \in 1..N : B[n] \in Seq(S)
  BY LenProperties
<1>2. <<>> \in Seq(S)
  BY EmptySeq
<1>3. step \in [1..N -> [Seq(S) -> Seq(S)]]
  BY <1>1, ConcatProperties
<1>4. PICK f \in [0..N -> Seq(S)] : f[0] = <<>> /\ \A n \in 1..N : f[n] = step[n][f[n - 1]]
  <2> HIDE DEF step, N
  <2>1. PICK f \in [0..N -> Seq(S)] : Recursive(f, N, <<>>, step)
    BY <1>1, <1>2, <1>3, RecursionExists
  <2> QED
    BY <2>1 DEF Recursive
<1>5. f[0] = <<>> /\ \A n \in 1..N : f[n] = f[n - 1] \o B[n]
  <2>1. ASSUME NEW n \in 1..N  PROVE f[n] = f[n - 1] \o B[n]
    <3>1. n - 1 \in 0..N
      BY <1>1
    <3>2. f[n - 1] \in Seq(S)
      BY <3>1
    <3> QED
      BY <1>4, <3>2
  <2> QED
    BY <1>4, <2>1
<1>6. CASE N = 0
  BY <1>1, <1>5, <1>6, EmptySeq DEF FlattenSeq
<1>7. CASE N # 0
  <2> DEFINE c == CHOOSE c : Eq(c)
  <2>1. \E h : Eq(h)
    <3> DEFINE h == [i \in 1..N |-> f[i]]
    <3>1. ASSUME NEW i \in 1..N  PROVE h[i] = IF i = 1 THEN B[i] ELSE h[i - 1] \o B[i]
      <4>1. CASE i = 1
        <5>1. h[1] = f[1] /\ f[1] = f[1 - 1] \o B[1] /\ B[1] \in Seq(S)
          BY <1>1, <1>5, <4>1
        <5>2. f[1 - 1] = <<>>
          BY <1>5
        <5> HIDE DEF h
        <5> QED
          BY <4>1, <5>1, <5>2, ConcatEmptySeq
      <4>2. CASE i # 1
        <5>1. i - 1 \in 1..N
          BY <1>1, <4>2
        <5>2. h[i] = f[i] /\ h[i - 1] = f[i - 1]
          BY <5>1
        <5> HIDE DEF h
        <5> QED
          BY <1>5, <4>2, <5>2
      <4> QED
        BY <4>1, <4>2
    <3>2. Eq(h)
      <4>1. h = [i \in 1..N |-> h[i]]
        OBVIOUS
      <4> HIDE DEF h
      <4> QED
        BY <3>1, <4>1
    <3> QED
      BY <3>2
  <2>2. Eq(c)
    BY <2>1
  <2> HIDE DEF c
  <2>3. \A i \in 1..N : c[i] = IF i = 1 THEN B[i] ELSE c[i - 1] \o B[i]
    BY <2>2
  <2>4. \A i \in 1..N : c[i] = f[i]
    <3> DEFINE T == {i \in 1..N : c[i] # f[i]}
    <3>1. SUFFICES ASSUME T # {}  PROVE FALSE
      OBVIOUS
    <3>2. PICK i \in T : \A j \in T : i <= j
      <4>1. T \subseteq Nat
        OBVIOUS
      <4> HIDE DEF T
      <4> QED
        BY <3>1, <4>1, LeastNatural
    <3>3. i \in 1..N /\ c[i] # f[i]
      BY <3>2
    <3>4. CASE i = 1
      <4>1. f[1] = f[1 - 1] \o B[1] /\ B[1] \in Seq(S)
        BY <1>1, <1>5, <3>3, <3>4
      <4>2. f[0] = <<>> /\ 1 - 1 = 0 /\ c[1] = B[1]
        BY <1>5, <2>3, <3>3, <3>4
      <4>3. f[1] = B[1]
        BY <4>1, <4>2, ConcatEmptySeq
      <4> QED
        BY <3>3, <3>4, <4>2, <4>3
    <3>5. CASE i # 1
      <4>1. i - 1 \in 1..N /\ ~ (i <= i - 1)
        BY <1>1, <3>3, <3>5
      <4>2. c[i - 1] = f[i - 1]
        BY <3>2, <4>1
      <4> QED
        BY <1>5, <2>3, <3>3, <3>5, <4>2
    <3> QED
      BY <3>4, <3>5
  <2>5. FlattenSeq(B) = c[N]
    BY <1>7 DEF FlattenSeq, c
  <2>6. N \in 1..N
    BY <1>1, <1>7
  <2> HIDE DEF N
  <2> QED
    BY <1>5, <2>4, <2>5, <2>6 DEF N
<1> QED
  BY <1>6, <1>7

\* Block k of B lies behind place at[k - 1] of out, up to place at[k].
Layout(at, B, out) ==
    /\ at[0] = 0 /\ at[Len(B)] = Len(out)
    /\ \A k \in 1..Len(B) : at[k] = at[k - 1] + Len(B[k])
    /\ \A k, l \in 0..Len(B) : k <= l => at[k] <= at[l]
    /\ \A k \in 1..Len(B) : \A j \in 1..Len(B[k]) : out[at[k - 1] + j] = B[k][j]
    /\ \A p \in 1..Len(out) : \E k \in 1..Len(B) : at[k - 1] < p /\ p <= at[k]

\* FlattenSeq puts the blocks behind each other.
LEMMA FlattenShape ==
    ASSUME NEW S, NEW B \in Seq(Seq(S))
    PROVE  /\ FlattenSeq(B) \in Seq(S)
           /\ \E at \in [0..Len(B) -> Nat] : Layout(at, B, FlattenSeq(B))
<1> DEFINE N == Len(B)
           out == FlattenSeq(B)
<1>1. N \in Nat /\ \A k \in 1..N : B[k] \in Seq(S) /\ Len(B[k]) \in Nat
  BY LenProperties
<1>2. PICK f \in [0..N -> Seq(S)] :
         f[0] = <<>> /\ (\A n \in 1..N : f[n] = f[n - 1] \o B[n]) /\ out = f[N]
  BY FlattenSteps
<1> HIDE DEF N, out
<1> DEFINE at == [k \in 0..N |-> Len(f[k])]
<1>3. at \in [0..N -> Nat] /\ \A k \in 0..N : at[k] = Len(f[k]) /\ f[k] \in Seq(S)
  BY LenProperties
<1> HIDE DEF at
<1>4. /\ 0 \in 0..N /\ N \in 0..N
      /\ \A k \in 1..N : k \in 0..N /\ k - 1 \in 0..N
  BY <1>1
<1>5. out \in Seq(S) /\ at[N] = Len(out) /\ at[0] = 0
  BY <1>2, <1>3, <1>4, EmptySeq
<1>6. ASSUME NEW k \in 1..N
      PROVE  /\ at[k] = at[k - 1] + Len(B[k])
             /\ \A j \in 1..at[k - 1] : f[k][j] = f[k - 1][j]
             /\ \A j \in 1..Len(B[k]) : f[k][at[k - 1] + j] = B[k][j]
  <2> DEFINE a == f[k - 1]
             b == B[k]
  <2>1. a \in Seq(S) /\ b \in Seq(S) /\ f[k] = a \o b /\ at[k] = Len(a \o b) /\ at[k - 1] = Len(a)
    BY <1>1, <1>2, <1>3, <1>4
  <2> HIDE DEF a, b
  <2>2. Len(a) \in Nat /\ Len(b) \in Nat
    BY <2>1, LenProperties
  <2>3. Len(a \o b) = Len(a) + Len(b)
        /\ \A i \in 1..Len(a) + Len(b) : (a \o b)[i] = IF i <= Len(a) THEN a[i] ELSE b[i - Len(a)]
    BY <2>1, ConcatProperties
  <2>4. ASSUME NEW j \in 1..Len(a)  PROVE (a \o b)[j] = a[j]
    <3>1. j \in 1..Len(a) + Len(b) /\ j <= Len(a)
      BY <2>2
    <3> QED
      BY <2>3, <3>1
  <2>5. ASSUME NEW j \in 1..Len(b)  PROVE (a \o b)[Len(a) + j] = b[j]
    <3>1. Len(a) + j \in 1..Len(a) + Len(b) /\ ~ (Len(a) + j <= Len(a)) /\ (Len(a) + j) - Len(a) = j
      BY <2>2
    <3>2. (a \o b)[Len(a) + j] = b[(Len(a) + j) - Len(a)]
      BY <2>3, <3>1
    <3> QED
      BY <3>1, <3>2
  <2> QED
    BY <2>1, <2>3, <2>4, <2>5 DEF a, b
<1>7. ASSUME NEW k \in 0..N, NEW l \in 0..N, k <= l
      PROVE  at[k] <= at[l] /\ \A j \in 1..at[k] : f[l][j] = f[k][j]
  <2> DEFINE Grows(n) == at[k] <= at[n] /\ \A j \in 1..at[k] : f[n][j] = f[k][j]
             T == {n \in k..N : ~Grows(n)}
  <2>1. CASE T = {}
    <3>1. l \in k..N
      BY <1>1, <1>7
    <3>2. l \notin T
      <4> HIDE DEF T
      <4> QED  BY <2>1
    <3>3. Grows(l)
      <4> HIDE DEF Grows
      <4> QED  BY <3>1, <3>2
    <3> QED
      BY <3>3
  <2>2. CASE T # {}
    <3>1. PICK n \in T : \A m \in T : n <= m
      <4>1. T \subseteq Nat
        BY <1>1
      <4> HIDE DEF T
      <4> QED
        BY <2>2, <4>1, LeastNatural
    <3>2. n \in k..N /\ ~Grows(n)
      BY <3>1
    <3>3. n # k
      BY <1>3, <3>2
    <3>4. n \in 1..N /\ n - 1 \in k..N /\ ~ (n <= n - 1)
      BY <1>1, <3>2, <3>3
    <3>5. Grows(n - 1)
      <4>1. n - 1 \notin T
        <5> HIDE DEF T
        <5> QED  BY <3>1, <3>4
      <4> HIDE DEF Grows
      <4> QED
        BY <3>4, <4>1
    <3>6. /\ at[n] = at[n - 1] + Len(B[n]) /\ Len(B[n]) \in Nat
          /\ \A j \in 1..at[n - 1] : f[n][j] = f[n - 1][j]
      BY <1>1, <1>6, <3>4
    <3>7. at[k] \in Nat /\ at[n - 1] \in Nat
      BY <1>1, <1>3, <3>4
    <3>8. at[k] <= at[n]
      BY <3>5, <3>6, <3>7
    <3>9. ASSUME NEW j \in 1..at[k]  PROVE f[n][j] = f[k][j]
      <4>1. j \in 1..at[n - 1]
        BY <3>5, <3>7
      <4> QED
        BY <3>5, <3>6, <4>1
    <3> QED
      BY <3>2, <3>8, <3>9
  <2> QED
    BY <2>1, <2>2
<1>8. ASSUME NEW k \in 1..N, NEW j \in 1..Len(B[k])  PROVE out[at[k - 1] + j] = B[k][j]
  <2>1. k <= N /\ k \in 0..N /\ at[k - 1] \in Nat /\ Len(B[k]) \in Nat
    BY <1>1, <1>3, <1>4
  <2>2. at[k - 1] + j \in 1..at[k]
    BY <1>6, <2>1
  <2>3. f[N][at[k - 1] + j] = f[k][at[k - 1] + j]
    BY <1>4, <1>7, <2>1, <2>2
  <2> QED
    BY <1>2, <1>6, <2>3
<1>9. ASSUME NEW p \in 1..Len(out)  PROVE \E k \in 1..N : at[k - 1] < p /\ p <= at[k]
  <2> DEFINE T == {k \in 0..N : p <= at[k]}
  <2>1. p \in Nat /\ Len(out) \in Nat /\ 0 < p /\ p <= Len(out)
    BY <1>5, LenProperties
  <2>2. N \in T
    BY <1>4, <1>5, <2>1
  <2>3. PICK k \in T : \A m \in T : k <= m
    <3>1. T \subseteq Nat
      OBVIOUS
    <3> HIDE DEF T
    <3> QED
      BY <2>2, <3>1, LeastNatural
  <2>4. k \in 0..N /\ p <= at[k]
    BY <2>3
  <2>5. k # 0
    BY <1>5, <2>1, <2>4
  <2>6. k \in 1..N /\ k - 1 \in 0..N /\ ~ (k <= k - 1)
    BY <1>1, <2>4, <2>5
  <2>7. k - 1 \notin T
    <3> HIDE DEF T
    <3> QED  BY <2>3, <2>6
  <2>8. at[k - 1] < p
    <3>1. at[k - 1] \in Nat /\ ~ (p <= at[k - 1])
      BY <1>3, <2>6, <2>7
    <3> QED
      BY <2>1, <3>1
  <2> QED
    BY <2>4, <2>6, <2>8
<1>10. Layout(at, B, out)
  BY <1>5, <1>6, <1>7, <1>8, <1>9 DEF Layout, N
<1> QED
  BY <1>3, <1>5, <1>10 DEF N, out

\* The blocks are in order: what lies in a later place lies in no earlier block.
LEMMA LayoutOrder ==
    ASSUME NEW S, NEW B \in Seq(Seq(S)), NEW out \in Seq(S), NEW at \in [0..Len(B) -> Nat],
           Layout(at, B, out),
           NEW k \in 1..Len(B), NEW l \in 1..Len(B), NEW p \in Nat, NEW q \in Nat,
           at[k - 1] < p, p <= at[k], at[l - 1] < q, q <= at[l], p <= q
    PROVE  k <= l
<1>1. Len(B) \in Nat
  BY LenProperties
<1>2. SUFFICES ASSUME l < k  PROVE FALSE
  BY <1>1
<1>3. l \in 0..Len(B) /\ k - 1 \in 0..Len(B) /\ l <= k - 1
  BY <1>1, <1>2
<1>4. at[l] <= at[k - 1]
  BY <1>3 DEF Layout
<1>5. at[l] \in Nat /\ at[k - 1] \in Nat
  BY <1>3
<1> QED
  BY <1>4, <1>5

\* Flattening blocks of one item each gives the items.
LEMMA FlattenSingles ==
    ASSUME NEW S, NEW items \in Seq(S), NEW B \in Seq(Seq(S)), Len(B) = Len(items),
           \A k \in 1..Len(items) : B[k] = <<items[k]>>
    PROVE  FlattenSeq(B) = items
<1> DEFINE N == Len(items)
           out == FlattenSeq(B)
<1>0. \A e : Len(<<e>>) = 1 /\ <<e>>[1] = e
  OBVIOUS
<1>1. N \in Nat /\ \A k \in 1..N : Len(B[k]) = 1 /\ B[k][1] = items[k]
  BY <1>0, LenProperties
<1>2. out \in Seq(S)
  BY FlattenShape
<1>3. PICK at \in [0..N -> Nat] : Layout(at, B, out)
  BY FlattenShape
<1> HIDE DEF out
<1>4. \A k \in 0..N : at[k] = k
  <2> DEFINE T == {k \in 0..N : at[k] # k}
  <2>1. SUFFICES ASSUME T # {}  PROVE FALSE
    OBVIOUS
  <2>2. PICK k \in T : \A m \in T : k <= m
    <3>1. T \subseteq Nat
      OBVIOUS
    <3> HIDE DEF T
    <3> QED
      BY <2>1, <3>1, LeastNatural
  <2>3. k \in 0..N /\ at[k] # k
    BY <2>2
  <2>4. k # 0
    BY <1>3, <2>3 DEF Layout
  <2>5. k \in 1..N /\ k - 1 \in 0..N /\ ~ (k <= k - 1)
    BY <1>1, <2>3, <2>4
  <2>6. k - 1 \notin T
    <3> HIDE DEF T
    <3> QED  BY <2>2, <2>5
  <2>7. at[k] = at[k - 1] + 1 /\ at[k - 1] = k - 1
    BY <1>1, <1>3, <2>5, <2>6 DEF Layout
  <2> QED
    BY <2>3, <2>7
<1>5. Len(out) = N
  <2>1. N \in 0..N /\ at[N] = Len(out)
    BY <1>1, <1>3 DEF Layout
  <2> QED
    BY <1>4, <2>1
<1>6. ASSUME NEW k \in 1..N  PROVE out[k] = items[k]
  <2>1. k - 1 \in 0..N /\ (k - 1) + 1 = k /\ 1 \in 1..1
    BY <1>1
  <2>2. out[at[k - 1] + 1] = B[k][1]
    BY <1>1, <1>3, <2>1 DEF Layout
  <2> QED
    BY <1>1, <1>4, <2>1, <2>2
<1>7. out = items
  <2> HIDE DEF N
  <2> QED
    BY <1>2, <1>5, <1>6, SeqEqual DEF N
<1> QED
  BY <1>7 DEF out

-----------------------------------------------------------------------------
(* Dropping items. *)

\* Place p of out holds what was at src[p]; the places in D are gone, the others in order.
Sieved(src, items, D, out) ==
    /\ \A p \in 1..Len(out) : src[p] \in 1..Len(items) /\ src[p] \notin D /\ out[p] = items[src[p]]
    /\ \A p, q \in 1..Len(out) : p < q => src[p] < src[q]
    /\ \A k \in 1..Len(items) : k \notin D => \E p \in 1..Len(out) : src[p] = k

\* Dropping places that are not there drops nothing.
LEMMA WithoutNone ==
    ASSUME NEW S, NEW items \in Seq(S), NEW D, \A k \in 1..Len(items) : k \notin D
    PROVE  Without(items, D) = items
<1> DEFINE B == [k \in DOMAIN items |-> IF k \in D THEN <<>> ELSE <<items[k]>>]
<1>1. Len(items) \in Nat /\ DOMAIN items = 1..Len(items) /\ \A k \in 1..Len(items) : items[k] \in S
  BY LenProperties
<1>2. \A k \in 1..Len(items) : B[k] = <<items[k]>> /\ B[k] \in Seq(S)
  BY <1>1
<1>3. B \in Seq(Seq(S)) /\ Len(B) = Len(items)
  <2>1. B \in [1..Len(items) -> Seq(S)]
    BY <1>1, <1>2
  <2> HIDE DEF B
  <2> QED
    BY <1>1, <2>1, SeqDef, LenProperties
<1>4. FlattenSeq(B) = items
  <2> HIDE DEF B
  <2> QED
    BY <1>2, <1>3, FlattenSingles
<1> QED
  BY <1>4 DEF Without

\* Dropping places leaves a subsequence, of the items at the other places.
LEMMA WithoutShape ==
    ASSUME NEW S, NEW items \in Seq(S), NEW D
    PROVE  /\ Without(items, D) \in Seq(S)
           /\ \E src \in [1..Len(Without(items, D)) -> 1..Len(items)] :
                 Sieved(src, items, D, Without(items, D))
<1> DEFINE B == [k \in DOMAIN items |-> IF k \in D THEN <<>> ELSE <<items[k]>>]
           N == Len(items)
           out == Without(items, D)
<1>1. N \in Nat /\ DOMAIN items = 1..N /\ \A k \in 1..N : items[k] \in S
  BY LenProperties
<1>2. \A k \in 1..N : B[k] = IF k \in D THEN <<>> ELSE <<items[k]>>
  BY <1>1
<1>3. B \in Seq(Seq(S)) /\ Len(B) = N
  <2>1. B \in [1..N -> Seq(S)]
    BY <1>1, EmptySeq
  <2> HIDE DEF B, N
  <2> QED
    BY <1>1, <2>1, SeqDef, LenProperties
<1>4. \A k \in 1..N : /\ k \in D => Len(B[k]) = 0
                      /\ k \notin D => Len(B[k]) = 1 /\ B[k][1] = items[k]
  <2>1. Len(<<>>) = 0 /\ \A e : Len(<<e>>) = 1 /\ <<e>>[1] = e
    OBVIOUS
  <2> TAKE k \in 1..N
  <2>2. B[k] = IF k \in D THEN <<>> ELSE <<items[k]>>
    BY <1>2
  <2> HIDE DEF B, N
  <2> QED
    BY <2>1, <2>2
<1>5. out = FlattenSeq(B)
  BY DEF Without
<1> HIDE DEF B, out, N
<1>6. out \in Seq(S)
  BY <1>3, <1>5, FlattenShape
<1>7. PICK at \in [0..N -> Nat] : Layout(at, B, out)
  BY <1>3, <1>5, FlattenShape
<1>8. Len(out) \in Nat
  BY <1>6, LenProperties
<1> DEFINE src == [p \in 1..Len(out) |-> CHOOSE k \in 1..N : at[k - 1] < p /\ p <= at[k]]
<1>9. ASSUME NEW p \in 1..Len(out)
      PROVE  /\ src[p] \in 1..N /\ at[src[p] - 1] < p /\ p <= at[src[p]]
             /\ src[p] \notin D /\ out[p] = items[src[p]] /\ p = at[src[p] - 1] + 1
  <2>1. \E k \in 1..N : at[k - 1] < p /\ p <= at[k]
    BY <1>3, <1>7 DEF Layout
  <2>2. src[p] \in 1..N /\ at[src[p] - 1] < p /\ p <= at[src[p]]
    BY <2>1
  <2> DEFINE k == src[p]
  <2> HIDE DEF src
  <2>3. at[k] = at[k - 1] + Len(B[k]) /\ at[k - 1] \in Nat /\ p \in Nat
    <3>1. k - 1 \in 0..N
      BY <1>1, <2>2
    <3> QED
      BY <1>3, <1>7, <1>8, <2>2, <3>1, SMTT(30) DEF Layout
  <2>4. k \notin D /\ Len(B[k]) = 1 /\ p = at[k - 1] + 1
    <3>1. k \in D => Len(B[k]) = 0
      BY <1>4, <2>2
    <3>2. k \notin D
      BY <2>2, <2>3, <3>1
    <3>3. Len(B[k]) = 1
      BY <1>4, <2>2, <3>2
    <3> QED
      BY <2>2, <2>3, <3>2, <3>3
  <2>5. out[at[k - 1] + 1] = B[k][1]
    <3>1. 1 \in 1..Len(B[k])
      BY <2>4
    <3> QED
      BY <1>3, <1>7, <2>2, <3>1 DEF Layout
  <2> QED
    BY <1>4, <2>2, <2>4, <2>5
<1> HIDE DEF src
<1>10. ASSUME NEW p \in 1..Len(out), NEW q \in 1..Len(out), p < q  PROVE src[p] < src[q]
  <2>1. p \in Nat /\ q \in Nat /\ p <= q
    BY <1>8, <1>10
  <2>2. src[p] <= src[q]
    <3>1. src[p] \in 1..Len(B) /\ src[q] \in 1..Len(B)
      BY <1>3, <1>9
    <3>2. at[src[p] - 1] < p /\ p <= at[src[p]] /\ at[src[q] - 1] < q /\ q <= at[src[q]]
      BY <1>9
    <3>3. B \in Seq(Seq(S)) /\ at \in [0..Len(B) -> Nat]
      BY <1>3, <1>7
    <3> QED
      BY <1>6, <1>7, <2>1, <3>1, <3>2, <3>3, LayoutOrder, ZenonT(40)
  <2>3. src[p] # src[q]
    BY <1>9, <1>10, <2>1
  <2>4. src[p] \in Nat /\ src[q] \in Nat
    BY <1>1, <1>9
  <2> QED
    BY <2>2, <2>3, <2>4
<1>11. ASSUME NEW k \in 1..N, k \notin D  PROVE \E p \in 1..Len(out) : src[p] = k
  <2> DEFINE p == at[k - 1] + 1
  <2>1. k - 1 \in 0..N /\ k \in 0..N /\ N \in 0..N /\ k <= N
    BY <1>1
  <2>2. at[k - 1] \in Nat /\ at[k] = at[k - 1] + 1 /\ at[k] <= at[N] /\ at[N] = Len(out)
    BY <1>3, <1>4, <1>7, <1>11, <2>1 DEF Layout
  <2>3. p \in 1..Len(out) /\ at[k - 1] < p /\ p <= at[k] /\ p \in Nat /\ p <= p
    BY <1>8, <2>2
  <2> HIDE DEF p
  <2>4. k <= src[p] /\ src[p] <= k
    BY <1>3, <1>6, <1>7, <1>9, <2>3, LayoutOrder
  <2>5. src[p] = k
    BY <1>1, <1>9, <2>3, <2>4
  <2> QED
    BY <2>3, <2>5
<1>12. src \in [1..Len(out) -> 1..N]
  <2>1. src = [p \in 1..Len(out) |-> src[p]]
    BY DEF src
  <2> QED
    BY <1>9, <2>1
<1>13. Sieved(src, items, D, out)
  BY <1>9, <1>10, <1>11 DEF Sieved, N
<1> QED
  BY <1>6, <1>12, <1>13 DEF out, N

-----------------------------------------------------------------------------
(* Replaying messages on a file. *)

Messages == [op : {"append", "replace"}, items : Seq(Item)]

\* f lists what the file holds after each message.
Replays(f, file, msgs) ==
    f[0] = file /\ \A n \in 1..Len(msgs) : f[n] = Applied(f[n - 1], msgs[n])

\* A message makes a history of a history.
LEMMA AppliedType ==
    ASSUME NEW file \in Seq(Item), NEW m \in Messages
    PROVE  Applied(file, m) \in Seq(Item)
  BY ConcatProperties DEF Applied, Messages

\* There is one such list only.
LEMMA ReplaysOnce ==
    ASSUME NEW msgs \in Seq(Messages), NEW file, NEW f, NEW g,
           Replays(f, file, msgs), Replays(g, file, msgs)
    PROVE  \A n \in 0..Len(msgs) : f[n] = g[n]
<1> DEFINE T == {n \in 0..Len(msgs) : f[n] # g[n]}
<1>1. SUFFICES ASSUME T # {}  PROVE FALSE
  OBVIOUS
<1>2. PICK n \in T : \A j \in T : n <= j
  <2>1. T \subseteq Nat
    BY LenProperties
  <2> HIDE DEF T
  <2> QED
    BY <1>1, <2>1, LeastNatural
<1>3. n # 0 /\ n \in 1..Len(msgs)
  BY LenProperties DEF Replays
<1>4. n - 1 \in 0..Len(msgs) /\ ~ (n <= n - 1)
  BY <1>3, LenProperties
<1>5. f[n - 1] = g[n - 1]
  BY <1>2, <1>4
<1> QED
  BY <1>3, <1>5 DEF Replays

\* There is one, and Replayed is where it ends.
LEMMA ReplaysExists ==
    ASSUME NEW msgs \in Seq(Messages), NEW file \in Seq(Item)
    PROVE  \E f \in [0..Len(msgs) -> Seq(Item)] :
              Replays(f, file, msgs) /\ Replayed(file, msgs) = f[Len(msgs)]
<1> DEFINE N == Len(msgs)
           step == [n \in 1..N |-> [s \in Seq(Item) |-> Applied(s, msgs[n])]]
           Eq(c) == c = [n \in 0..N |-> IF n = 0 THEN file ELSE Applied(c[n - 1], msgs[n])]
<1>1. N \in Nat /\ \A n \in 1..N : msgs[n] \in Messages
  BY LenProperties
<1>2. step \in [1..N -> [Seq(Item) -> Seq(Item)]]
  BY <1>1, AppliedType
<1>3. PICK f \in [0..N -> Seq(Item)] : Recursive(f, N, file, step)
  <2> HIDE DEF step, N
  <2> QED
    BY <1>1, <1>2, RecursionExists
<1>4. Replays(f, file, msgs)
  <2>1. ASSUME NEW n \in 1..N  PROVE f[n] = Applied(f[n - 1], msgs[n])
    <3>1. n - 1 \in 0..N
      BY <1>1
    <3>2. f[n - 1] \in Seq(Item)
      BY <3>1
    <3>3. f[n] = step[n][f[n - 1]]
      BY <1>3 DEF Recursive
    <3> QED
      BY <3>2, <3>3
  <2> QED
    BY <1>3, <2>1 DEF Recursive, Replays
<1>5. Eq(f)
  <2>1. ASSUME NEW n \in 0..N  PROVE f[n] = IF n = 0 THEN file ELSE Applied(f[n - 1], msgs[n])
    <3>1. n # 0 => n \in 1..N
      BY <1>1
    <3> QED
      BY <1>4, <3>1 DEF Replays
  <2>2. f = [n \in 0..N |-> f[n]]
    OBVIOUS
  <2> HIDE DEF N
  <2> QED
    BY <2>1, <2>2
<1> DEFINE c == CHOOSE c : Eq(c)
<1>6. Eq(c)
  BY <1>5
<1>7. Replayed(file, msgs) = c[N]
  BY DEF Replayed
<1> HIDE DEF c
<1>8. Replays(c, file, msgs)
  <2>1. c = [n \in 0..N |-> IF n = 0 THEN file ELSE Applied(c[n - 1], msgs[n])]
    BY <1>6
  <2>2. c[0] = file
    BY <1>1, <2>1
  <2>3. ASSUME NEW n \in 1..N  PROVE c[n] = Applied(c[n - 1], msgs[n])
    <3>1. n \in 0..N /\ n # 0
      BY <1>1
    <3> QED
      BY <2>1, <3>1
  <2> QED
    BY <2>2, <2>3 DEF Replays
<1>9. c[N] = f[N]
  <2>1. N \in 0..N
    BY <1>1
  <2> QED
    BY <1>4, <1>8, <2>1, ReplaysOnce
<1> QED
  BY <1>4, <1>7, <1>9

\* Replayed is where any such list ends.
LEMMA ReplaysEnd ==
    ASSUME NEW msgs \in Seq(Messages), NEW file \in Seq(Item), NEW f, Replays(f, file, msgs)
    PROVE  Replayed(file, msgs) = f[Len(msgs)]
<1>1. PICK g \in [0..Len(msgs) -> Seq(Item)] :
         Replays(g, file, msgs) /\ Replayed(file, msgs) = g[Len(msgs)]
  BY ReplaysExists
<1>2. Len(msgs) \in 0..Len(msgs)
  BY LenProperties
<1> QED
  BY <1>1, <1>2, ReplaysOnce

\* The file is in G before, between and after the messages.
Safe(file, msgs, G) ==
    \E f \in [0..Len(msgs) -> Seq(Item)] :
       Replays(f, file, msgs) /\ \A n \in 0..Len(msgs) : f[n] \in G

\* Messages sent later are replayed on what the earlier ones leave.
LEMMA ReplayConcat ==
    ASSUME NEW msgs \in Seq(Messages), NEW more \in Seq(Messages), NEW file \in Seq(Item), NEW G
    PROVE  /\ Replayed(file, msgs \o more) = Replayed(Replayed(file, msgs), more)
           /\ Replayed(file, msgs) \in Seq(Item)
           /\ Safe(file, msgs, G) /\ Safe(Replayed(file, msgs), more, G) => Safe(file, msgs \o more, G)
<1> DEFINE N   == Len(msgs)
           M   == Len(more)
           all == msgs \o more
<1>1. /\ N \in Nat /\ M \in Nat /\ all \in Seq(Messages) /\ Len(all) = N + M
      /\ \A i \in 1..N : all[i] = msgs[i]
      /\ \A i \in 1..M : all[N + i] = more[i]
  <2>1. N \in Nat /\ M \in Nat
    BY LenProperties
  <2>2. /\ all \in Seq(Messages) /\ Len(all) = N + M
        /\ \A i \in 1..N + M : all[i] = IF i <= N THEN msgs[i] ELSE more[i - N]
    BY ConcatProperties
  <2> HIDE DEF N, M, all
  <2>3. ASSUME NEW i \in 1..M  PROVE all[N + i] = more[i]
    <3>1. N + i \in 1..N + M /\ ~ (N + i <= N) /\ (N + i) - N = i
      BY <2>1
    <3>2. all[N + i] = more[(N + i) - N]
      BY <2>2, <3>1
    <3> QED
      BY <3>1, <3>2
  <2>4. ASSUME NEW i \in 1..N  PROVE all[i] = msgs[i]
    <3>1. i \in 1..N + M /\ i <= N
      BY <2>1
    <3> QED
      BY <2>2, <3>1
  <2> QED
    BY <2>1, <2>2, <2>3, <2>4
<1>2. ASSUME NEW f \in [0..N -> Seq(Item)], NEW g \in [0..M -> Seq(Item)],
             Replays(f, file, msgs), Replays(g, f[N], more)
      PROVE  LET h == [n \in 0..N + M |-> IF n <= N THEN f[n] ELSE g[n - N]]
             IN  h \in [0..N + M -> Seq(Item)] /\ Replays(h, file, all) /\ h[N + M] = g[M]
  <2> DEFINE h == [n \in 0..N + M |-> IF n <= N THEN f[n] ELSE g[n - N]]
  <2> HIDE DEF N, M, all
  <2>1. h \in [0..N + M -> Seq(Item)]
    <3>1. \A n \in 0..N + M : (n <= N => n \in 0..N) /\ (~ (n <= N) => n - N \in 0..M)
      BY <1>1
    <3> QED
      BY <3>1
  <2>2. \A n \in 0..N : h[n] = f[n]
    BY <1>1
  <2>3. \A n \in 0..M : h[N + n] = g[n]
    <3>1. g[0] = f[N] /\ h[N] = f[N]
      BY <1>1, <1>2, <2>2 DEF Replays
    <3> TAKE n \in 0..M
    <3>2. CASE n = 0
      BY <1>1, <3>1, <3>2
    <3>3. CASE n # 0
      <4>1. N + n \in 0..N + M /\ ~ (N + n <= N) /\ (N + n) - N = n
        BY <1>1, <3>3
      <4>2. h[N + n] = g[(N + n) - N]
        BY <4>1
      <4> HIDE DEF h
      <4> QED
        BY <4>1, <4>2
    <3> QED
      BY <3>2, <3>3
  <2> HIDE DEF h
  <2>4. ASSUME NEW n \in 1..N + M  PROVE h[n] = Applied(h[n - 1], all[n])
    <3>1. CASE n <= N
      <4>1. n \in 1..N /\ n \in 0..N /\ n - 1 \in 0..N
        BY <1>1, <3>1
      <4>2. f[n] = Applied(f[n - 1], msgs[n])
        BY <1>2, <4>1 DEF Replays, N
      <4> QED
        BY <1>1, <2>2, <4>1, <4>2
    <3>2. CASE ~ (n <= N)
      <4> DEFINE k == n - N
      <4>1. k \in 1..M /\ k \in 0..M /\ k - 1 \in 0..M /\ n = N + k /\ n - 1 = N + (k - 1)
        BY <1>1, <3>2
      <4> HIDE DEF k
      <4>2. g[k] = Applied(g[k - 1], more[k])
        BY <1>2, <4>1 DEF Replays, M
      <4>3. h[n] = g[k] /\ h[n - 1] = g[k - 1] /\ all[n] = more[k]
        BY <1>1, <2>3, <4>1
      <4> QED
        BY <4>2, <4>3
    <3> QED
      BY <3>1, <3>2
  <2>5. h[0] = file
    BY <1>1, <1>2, <2>2 DEF Replays
  <2>6. h[N + M] = g[M]
    BY <1>1, <2>3
  <2>7. Replays(h, file, all)
    BY <1>1, <2>4, <2>5 DEF Replays
  <2> QED
    BY <2>1, <2>6, <2>7 DEF h
<1>3. PICK f \in [0..N -> Seq(Item)] : Replays(f, file, msgs) /\ Replayed(file, msgs) = f[N]
  BY ReplaysExists
<1>4. f[N] \in Seq(Item)
  BY <1>1
<1>5. PICK g \in [0..M -> Seq(Item)] : Replays(g, f[N], more) /\ Replayed(f[N], more) = g[M]
  BY <1>4, ReplaysExists
<1> DEFINE h == [n \in 0..N + M |-> IF n <= N THEN f[n] ELSE g[n - N]]
<1>6. h \in [0..N + M -> Seq(Item)] /\ Replays(h, file, all) /\ h[N + M] = g[M]
  BY <1>2, <1>3, <1>5
<1>7. Replayed(file, all) = Replayed(f[N], more)
  <2> HIDE DEF h, all
  <2>1. Replayed(file, all) = h[Len(all)]
    BY <1>1, <1>6, ReplaysEnd
  <2> QED
    BY <1>1, <1>5, <1>6, <2>1
<1>8. ASSUME Safe(file, msgs, G), Safe(Replayed(file, msgs), more, G)
      PROVE  Safe(file, all, G)
  <2>1. \A n \in 0..N : f[n] \in G
    <3>1. PICK e \in [0..Len(msgs) -> Seq(Item)] :
             Replays(e, file, msgs) /\ \A n \in 0..Len(msgs) : e[n] \in G
      BY <1>8 DEF Safe
    <3>2. \A n \in 0..Len(msgs) : e[n] = f[n]
      BY <1>3, <3>1, ReplaysOnce
    <3> QED
      BY <3>1, <3>2
  <2>2. \A n \in 0..M : g[n] \in G
    <3>1. PICK e \in [0..Len(more) -> Seq(Item)] :
             Replays(e, f[N], more) /\ \A n \in 0..Len(more) : e[n] \in G
      BY <1>3, <1>8 DEF Safe
    <3>2. \A n \in 0..Len(more) : e[n] = g[n]
      BY <1>5, <3>1, ReplaysOnce, SMTT(30)
    <3> QED
      BY <3>1, <3>2
  <2>3. \A n \in 0..N + M : h[n] \in G
    <3> HIDE DEF N, M
    <3>1. \A n \in 0..N + M : (n <= N => n \in 0..N) /\ (~ (n <= N) => n - N \in 0..M)
      BY <1>1
    <3> QED
      BY <2>1, <2>2, <3>1
  <2> HIDE DEF h, N, M, all
  <2> QED
    BY <1>1, <1>6, <2>3 DEF Safe
<1> QED
  BY <1>3, <1>4, <1>7, <1>8

\* No message leaves the file as it is.
LEMMA ReplayNone ==
    ASSUME NEW file \in Seq(Item), NEW G
    PROVE  /\ Replayed(file, <<>>) = file
           /\ file \in G => Safe(file, <<>>, G)
<1> DEFINE f == [n \in 0..0 |-> file]
<1>1. <<>> \in Seq(Messages) /\ Len(<<>>) = 0
  BY EmptySeq
<1>2. f \in [0..0 -> Seq(Item)] /\ f[0] = file
  OBVIOUS
<1> HIDE DEF f
<1>3. Replays(f, file, <<>>)
  BY <1>1, <1>2 DEF Replays
<1>4. Replayed(file, <<>>) = file
  BY <1>1, <1>2, <1>3, ReplaysEnd
<1>5. ASSUME file \in G  PROVE Safe(file, <<>>, G)
  <2>1. \A n \in 0..0 : f[n] \in G
    BY <1>2, <1>5
  <2> QED
    BY <1>1, <1>2, <1>3, <2>1 DEF Safe
<1> QED
  BY <1>4, <1>5

\* One message is applied.
LEMMA ReplayOne ==
    ASSUME NEW file \in Seq(Item), NEW m \in Messages, NEW G
    PROVE  /\ Replayed(file, <<m>>) = Applied(file, m)
           /\ file \in G /\ Applied(file, m) \in G => Safe(file, <<m>>, G)
<1> DEFINE one == <<m>>
           f == [n \in 0..1 |-> IF n = 0 THEN file ELSE Applied(file, m)]
<1>1. one \in Seq(Messages) /\ Len(one) = 1 /\ one[1] = m
  OBVIOUS
<1>2. f \in [0..1 -> Seq(Item)] /\ f[0] = file /\ f[1] = Applied(file, m)
  BY AppliedType
<1> HIDE DEF f, one
<1>3. Replays(f, file, one)
  <2>1. \A n \in 1..1 : n = 1 /\ n - 1 = 0
    OBVIOUS
  <2> QED
    BY <1>1, <1>2, <2>1 DEF Replays
<1>4. Replayed(file, one) = Applied(file, m)
  BY <1>1, <1>2, <1>3, ReplaysEnd
<1>5. ASSUME file \in G, Applied(file, m) \in G  PROVE Safe(file, one, G)
  <2>1. \A n \in 0..1 : n = 0 \/ n = 1
    OBVIOUS
  <2>2. \A n \in 0..1 : f[n] \in G
    BY <1>2, <1>5, <2>1
  <2> QED
    BY <1>1, <1>2, <1>3, <2>2 DEF Safe
<1> QED
  BY <1>4, <1>5 DEF one

\* Handling the first message leaves the others to be replayed.
LEMMA ReplayRest ==
    ASSUME NEW msgs \in Seq(Messages), msgs # <<>>, NEW file \in Seq(Item), NEW G
    PROVE  /\ Head(msgs) \in Messages /\ Tail(msgs) \in Seq(Messages)
           /\ Replayed(file, msgs) = Replayed(Applied(file, Head(msgs)), Tail(msgs))
           /\ Safe(file, msgs, G) => Safe(Applied(file, Head(msgs)), Tail(msgs), G)
<1> DEFINE first == <<Head(msgs)>>
           rest  == Tail(msgs)
<1>1. Head(msgs) \in Messages /\ rest \in Seq(Messages) /\ first \in Seq(Messages)
  BY HeadTailProperties
<1>2. msgs = first \o rest
  <2>1. Len(msgs) \in Nat /\ Len(msgs) # 0 /\ msgs = SubSeq(msgs, 1, Len(msgs))
    BY EmptySeq, LenProperties, SubSeqFull
  <2>2. 1 \in 1..Len(msgs) /\ Len(msgs) \in 1..Len(msgs)
    BY <2>1
  <2>3. SubSeq(msgs, 1, Len(msgs)) = <<msgs[1]>> \o SubSeq(msgs, 1 + 1, Len(msgs))
    BY <2>2, SubSeqRecursiveFirst
  <2>4. rest = SubSeq(msgs, 2, Len(msgs)) /\ Head(msgs) = msgs[1]
    BY TailIsSubSeq
  <2> QED
    BY <2>1, <2>3, <2>4
<1>3. Replayed(file, first) = Applied(file, Head(msgs))
  BY <1>1, ReplayOne
<1>4. Replayed(file, msgs) = Replayed(Replayed(file, first), rest)
  <2> HIDE DEF first, rest
  <2> QED
    BY <1>1, <1>2, ReplayConcat
<1>5. ASSUME Safe(file, msgs, G)  PROVE Safe(Applied(file, Head(msgs)), rest, G)
  <2> DEFINE N == Len(msgs)
             M == Len(rest)
  <2>1. PICK f \in [0..N -> Seq(Item)] : Replays(f, file, msgs) /\ \A n \in 0..N : f[n] \in G
    BY <1>5 DEF Safe
  <2>2. /\ N \in Nat /\ M \in Nat /\ N = M + 1
        /\ \A i \in 1..M : rest[i] = msgs[i + 1]
        /\ Head(msgs) = msgs[1]
    BY HeadTailProperties, LenProperties
  <2> DEFINE g == [n \in 0..M |-> f[n + 1]]
  <2> HIDE DEF N, M, rest
  <2>3. \A n \in 0..M : n + 1 \in 0..N /\ g[n] = f[n + 1]
    BY <2>2
  <2>4. g \in [0..M -> Seq(Item)]
    BY <2>3
  <2> HIDE DEF g
  <2>5. g[0] = Applied(file, Head(msgs))
    <3>1. 0 \in 0..M /\ 0 + 1 = 1 /\ 1 \in 1..N /\ 1 - 1 = 0
      BY <2>2
    <3>2. f[1] = Applied(f[1 - 1], msgs[1]) /\ f[0] = file
      BY <2>1, <3>1 DEF Replays, N
    <3> QED
      BY <2>2, <2>3, <3>1, <3>2
  <2>6. ASSUME NEW n \in 1..M  PROVE g[n] = Applied(g[n - 1], rest[n])
    <3>1. n \in 0..M /\ n - 1 \in 0..M /\ n + 1 \in 1..N /\ (n - 1) + 1 = n /\ (n + 1) - 1 = n
      BY <2>2
    <3>2. f[n + 1] = Applied(f[(n + 1) - 1], msgs[n + 1])
      BY <2>1, <3>1 DEF Replays, N
    <3>3. g[n - 1] = f[(n - 1) + 1] /\ g[n] = f[n + 1]
      BY <2>3, <3>1
    <3> QED
      BY <2>2, <3>1, <3>2, <3>3
  <2>7. Replays(g, Applied(file, Head(msgs)), rest)
    BY <2>5, <2>6 DEF Replays, M
  <2>8. \A n \in 0..M : g[n] \in G
    BY <2>1, <2>3
  <2> QED
    BY <2>4, <2>7, <2>8 DEF Safe, M
<1> QED
  BY <1>1, <1>3, <1>4, <1>5

\* A replace among the messages makes what was there before irrelevant.
LEMMA ReplayReplaced ==
    ASSUME NEW msgs \in Seq(Messages), Replaces(msgs),
           NEW file \in Seq(Item), NEW other \in Seq(Item)
    PROVE  Replayed(file, msgs) = Replayed(other, msgs)
<1> DEFINE N == Len(msgs)
<1>1. N \in Nat /\ DOMAIN msgs = 1..N
  BY LenProperties
<1>2. PICK f \in [0..N -> Seq(Item)] : Replays(f, file, msgs) /\ Replayed(file, msgs) = f[N]
  BY ReplaysExists
<1>3. PICK g \in [0..N -> Seq(Item)] : Replays(g, other, msgs) /\ Replayed(other, msgs) = g[N]
  BY ReplaysExists
<1>4. PICK k \in 1..N : msgs[k].op = "replace"
  BY <1>1 DEF Replaces
<1>5. f[k] = g[k]
  BY <1>2, <1>3, <1>4 DEF Replays, Applied
<1> DEFINE T == {n \in k..N : f[n] # g[n]}
<1>6. CASE T = {}
  <2>1. N \in k..N
    BY <1>1
  <2>2. N \notin T
    <3> HIDE DEF T
    <3> QED  BY <1>6
  <2> QED
    BY <1>2, <1>3, <2>1, <2>2
<1>7. CASE T # {}
  <2>1. PICK n \in T : \A j \in T : n <= j
    <3>1. T \subseteq Nat
      BY <1>1
    <3> HIDE DEF T
    <3> QED
      BY <1>7, <3>1, LeastNatural
  <2>2. n \in k..N /\ f[n] # g[n] /\ n # k
    BY <1>5, <2>1
  <2>3. n \in 1..N /\ n - 1 \in k..N /\ ~ (n <= n - 1)
    BY <1>1, <2>2
  <2>4. f[n - 1] = g[n - 1]
    BY <2>1, <2>3
  <2>5. f[n] = Applied(f[n - 1], msgs[n]) /\ g[n] = Applied(g[n - 1], msgs[n])
    BY <1>2, <1>3, <2>3 DEF Replays
  <2> QED
    BY <2>2, <2>4, <2>5
<1> QED
  BY <1>6, <1>7

\* Appends alone pass through beginnings of what they end in.
LEMMA ReplayAppends ==
    ASSUME NEW msgs \in Seq(Messages), ~Replaces(msgs), NEW file \in Seq(Item), NEW G,
           Replayed(file, msgs) \in G,
           \A s, t \in Seq(Item) : s \o t \in G => s \in G
    PROVE  Safe(file, msgs, G)
<1> DEFINE N == Len(msgs)
<1>1. N \in Nat /\ DOMAIN msgs = 1..N /\ \A n \in 1..N : msgs[n] \in Messages
  BY LenProperties
<1>2. PICK f \in [0..N -> Seq(Item)] : Replays(f, file, msgs) /\ Replayed(file, msgs) = f[N]
  BY ReplaysExists
<1> DEFINE T == {d \in 0..N : f[N - d] \notin G}
<1>3. CASE T = {}
  <2>1. ASSUME NEW n \in 0..N  PROVE f[n] \in G
    <3>1. N - n \in 0..N /\ N - (N - n) = n
      BY <1>1
    <3>2. N - n \notin T
      <4> HIDE DEF T
      <4> QED  BY <1>3
    <3> QED
      BY <3>1, <3>2
  <2> QED
    BY <1>2, <2>1 DEF Safe
<1>4. CASE T # {}
  <2>1. PICK d \in T : \A j \in T : d <= j
    <3>1. T \subseteq Nat
      OBVIOUS
    <3> HIDE DEF T
    <3> QED
      BY <1>4, <3>1, LeastNatural
  <2>2. d \in 0..N /\ f[N - d] \notin G
    BY <2>1
  <2>3. d # 0
    <3>1. N - 0 = N
      BY <1>1
    <3> QED
      BY <1>2, <2>2, <3>1
  <2> DEFINE n == N - d
  <2>4. n \in 0..N /\ n + 1 \in 1..N /\ (n + 1) - 1 = n /\ N - (d - 1) = n + 1 /\ d - 1 \in 0..N
        /\ ~ (d <= d - 1)
    BY <1>1, <2>2, <2>3
  <2> HIDE DEF n
  <2>5. d - 1 \notin T
    <3> HIDE DEF T
    <3> QED  BY <2>1, <2>4
  <2>6. f[n + 1] \in G
    BY <2>4, <2>5
  <2>7. f[n + 1] = Applied(f[n], msgs[n + 1])
    <3>1. f[n + 1] = Applied(f[(n + 1) - 1], msgs[n + 1])
      BY <1>2, <2>4 DEF Replays
    <3> QED
      BY <2>4, <3>1
  <2>8. msgs[n + 1] \in Messages /\ msgs[n + 1].op # "replace"
    BY <1>1, <2>4 DEF Replaces
  <2>9. f[n + 1] = f[n] \o msgs[n + 1].items /\ msgs[n + 1].items \in Seq(Item)
    BY <2>7, <2>8 DEF Applied, Messages
  <2>10. f[n] \in Seq(Item)
    BY <2>4
  <2> QED
    BY <2>2, <2>6, <2>9, <2>10 DEF n
<1> QED
  BY <1>3, <1>4

-----------------------------------------------------------------------------
(* What a well-formed history is. *)

\* No result stands away from the message that made its call.
Neat(items) == \A k \in 1..Len(items) : ~Displaced(items, k)

\* No call is answered twice in one run.
Single(items) == \A k \in 1..Len(items) : ~Superseded(items, k)

\* Every call is answered in the run behind its message.
Answered(items) ==
    \A i \in 1..Len(items) : ToSet(items[i].calls) \subseteq RunCalls(items, i)

\* What makes calls is an assistant message, with ids of their own.
LEMMA ItemFacts ==
    ASSUME NEW item \in Item
    PROVE  /\ item.calls \in Seq(CallIds)
           /\ \A m, n \in 1..Len(item.calls) : item.calls[m] = item.calls[n] => m = n
           /\ HasCalls(item) => ~IsResult(item)
           /\ \A c \in ToSet(item.calls) : HasCalls(item) /\ c \in CallIds
           /\ IsResult(item) => item.call \in CallIds
           /\ item.kind = "system" => item.prompt = None
<1>1. /\ item.calls \in Seq(CallIds) /\ IsInjective(item.calls)
      /\ item.calls # <<>> => item.kind = "assistant"
      /\ item.call # None <=> item.kind = "result"
      /\ item.call \in CallIds \cup {None}
      /\ item.prompt # None => item.kind = "user"
  BY DEF Item
<1>2. DOMAIN item.calls = 1..Len(item.calls) /\ Len(item.calls) \in Nat
  BY <1>1, LenProperties
<1>3. \A m, n \in 1..Len(item.calls) : item.calls[m] = item.calls[n] => m = n
  BY <1>1, <1>2 DEF IsInjective
<1>4. ASSUME NEW c \in ToSet(item.calls)  PROVE HasCalls(item) /\ c \in CallIds
  <2>1. PICK n \in 1..Len(item.calls) : c = item.calls[n]
    BY <1>2 DEF ToSet
  <2>2. item.calls # <<>>
    BY <1>2, <2>1
  <2>3. item.calls[n] \in CallIds
    BY <1>1, <2>1, ElementOfSeq
  <2> QED
    BY <2>1, <2>2, <2>3 DEF HasCalls
<1> QED
  BY <1>1, <1>3, <1>4 DEF HasCalls, IsResult

\* Dropping results neither joins nor cuts a run.
LEMMA SieveRuns ==
    ASSUME NEW items \in Seq(Item), NEW out \in Seq(Item), NEW D, NEW src,
           Sieved(src, items, D, out),
           \A k \in 1..Len(items) : k \in D => IsResult(items[k]),
           NEW p \in 1..Len(out), NEW q \in 1..Len(out)
    PROVE  InRun(out, p, q) <=> InRun(items, src[p], src[q])
<1>1. Len(items) \in Nat /\ Len(out) \in Nat
  BY LenProperties
<1>2. \A r \in 1..Len(out) : src[r] \in 1..Len(items) /\ src[r] \notin D /\ out[r] = items[src[r]]
  BY DEF Sieved
<1>3. \A r, t \in 1..Len(out) : r < t => src[r] < src[t]
  BY DEF Sieved
<1>4. \A r, t \in 1..Len(out) : src[r] < src[t] => r < t
  <2> SUFFICES ASSUME NEW r \in 1..Len(out), NEW t \in 1..Len(out), src[r] < src[t], ~ (r < t)
               PROVE  FALSE
    OBVIOUS
  <2>1. src[r] \in Nat /\ src[t] \in Nat
    BY <1>1, <1>2
  <2>2. t < r \/ t = r
    BY <1>1
  <2> QED
    BY <1>3, <2>1, <2>2
<1>5. ASSUME InRun(out, p, q)  PROVE InRun(items, src[p], src[q])
  <2>1. p < q /\ \A m \in p + 1..q : IsResult(out[m])
    BY <1>5 DEF InRun
  <2>2. ASSUME NEW m \in src[p] + 1..src[q]  PROVE IsResult(items[m])
    <3>1. m \in 1..Len(items) /\ src[p] < m /\ m <= src[q] /\ src[p] \in Nat /\ src[q] \in Nat
      BY <1>1, <1>2
    <3>2. CASE m \in D
      BY <3>1, <3>2
    <3>3. CASE m \notin D
      <4>1. PICK r \in 1..Len(out) : src[r] = m
        BY <3>1, <3>3 DEF Sieved
      <4>2. p < r
        BY <1>4, <3>1, <4>1
      <4>3. r <= q
        <5>1. ~ (q < r)
          BY <1>3, <3>1, <4>1
        <5> QED
          BY <1>1, <5>1
      <4>4. r \in p + 1..q
        BY <1>1, <4>2, <4>3
      <4> QED
        BY <1>2, <2>1, <4>1, <4>4
    <3> QED
      BY <3>2, <3>3
  <2> QED
    BY <1>3, <2>1, <2>2 DEF InRun
<1>6. ASSUME InRun(items, src[p], src[q])  PROVE InRun(out, p, q)
  <2>1. src[p] < src[q] /\ \A m \in src[p] + 1..src[q] : IsResult(items[m])
    BY <1>6 DEF InRun
  <2>2. ASSUME NEW r \in p + 1..q  PROVE IsResult(out[r])
    <3>1. r \in 1..Len(out) /\ p < r /\ (r < q \/ r = q)
      BY <1>1
    <3>2. src[p] < src[r] /\ (src[r] < src[q] \/ src[r] = src[q])
      BY <1>3, <3>1
    <3>3. src[r] \in src[p] + 1..src[q]
      BY <1>1, <1>2, <3>1, <3>2
    <3> QED
      BY <1>2, <2>1, <3>1, <3>3
  <2> QED
    BY <1>4, <2>1, <2>2 DEF InRun
<1> QED
  BY <1>5, <1>6

\* Dropping results keeps a history neat, and makes no answer a double one.
LEMMA SieveKeeps ==
    ASSUME NEW items \in Seq(Item), NEW out \in Seq(Item), NEW D, NEW src,
           Sieved(src, items, D, out),
           \A k \in 1..Len(items) : k \in D => IsResult(items[k]),
           NEW p \in 1..Len(out)
    PROVE  /\ Superseded(out, p) => Superseded(items, src[p])
           /\ Displaced(out, p) => Displaced(items, src[p])
<1>1. Len(items) \in Nat /\ Len(out) \in Nat
  BY LenProperties
<1>2. \A r \in 1..Len(out) : src[r] \in 1..Len(items) /\ src[r] \notin D /\ out[r] = items[src[r]]
  BY DEF Sieved
<1>3. \A r, t \in 1..Len(out) : InRun(out, r, t) <=> InRun(items, src[r], src[t])
  BY SieveRuns
<1>4. ASSUME Superseded(out, p)  PROVE Superseded(items, src[p])
  <2>1. PICK i \in 1..p - 1, l \in p + 1..Len(out) :
           /\ IsResult(out[p]) /\ HasCalls(out[i])
           /\ InRun(out, i, p) /\ InRun(out, i, l) /\ out[l].call = out[p].call
    BY <1>4 DEF Superseded
  <2>2. i \in 1..Len(out) /\ l \in 1..Len(out) /\ i < p /\ p < l
    BY <1>1
  <2>3. src[i] < src[p] /\ src[p] < src[l]
    BY <2>2 DEF Sieved
  <2>4. src[i] \in 1..src[p] - 1 /\ src[l] \in src[p] + 1..Len(items)
    BY <1>1, <1>2, <2>2, <2>3
  <2> QED
    BY <1>2, <1>3, <2>1, <2>2, <2>4 DEF Superseded
<1>5. ASSUME Displaced(out, p), ~Displaced(items, src[p])  PROVE FALSE
  <2>1. IsResult(items[src[p]])
    BY <1>2, <1>5 DEF Displaced
  <2>2. PICK i \in 1..src[p] - 1 : items[src[p]].call \in ToSet(items[i].calls) /\ InRun(items, i, src[p])
    BY <1>5, <2>1 DEF Displaced
  <2>3. i \in 1..Len(items) /\ i < src[p]
    BY <1>1, <1>2
  <2>4. i \notin D
    BY <2>2, <2>3, ItemFacts, ElementOfSeq
  <2>5. PICK r \in 1..Len(out) : src[r] = i
    BY <2>3, <2>4 DEF Sieved
  <2>6. InRun(out, r, p)
    BY <1>3, <2>2, <2>5
  <2>7. r \in 1..p - 1
    BY <1>1, <2>6 DEF InRun
  <2> QED
    BY <1>2, <1>5, <2>2, <2>5, <2>6, <2>7 DEF Displaced
<1> QED
  BY <1>4, <1>5

-----------------------------------------------------------------------------
(* The passes that drop results. *)

\* dedup_duplicate_tool_results leaves one answer of each call in a run.
LEMMA DedupSound ==
    ASSUME NEW items \in Seq(Item)
    PROVE  /\ DedupDuplicateToolResults(items) \in Seq(Item)
           /\ Single(DedupDuplicateToolResults(items))
           /\ Neat(items) => Neat(DedupDuplicateToolResults(items))
<1> DEFINE D == {k \in DOMAIN items : Superseded(items, k)}
           out == Without(items, D)
<1>1. DOMAIN items = 1..Len(items)
  BY LenProperties
<1>2. out \in Seq(Item)
  BY WithoutShape
<1>3. PICK src \in [1..Len(out) -> 1..Len(items)] : Sieved(src, items, D, out)
  BY WithoutShape
<1>4. \A k \in 1..Len(items) : k \in D => IsResult(items[k])
  BY DEF Superseded
<1> HIDE DEF out
<1>5. ASSUME NEW p \in 1..Len(out)
      PROVE  ~Superseded(out, p) /\ (Neat(items) => ~Displaced(out, p))
  <2>1. src[p] \in 1..Len(items) /\ src[p] \notin D
    <3> HIDE DEF D
    <3> QED  BY <1>3 DEF Sieved
  <2>2. ~Superseded(items, src[p])
    BY <1>1, <2>1
  <2>3. (Superseded(out, p) => Superseded(items, src[p])) /\ (Displaced(out, p) => Displaced(items, src[p]))
    <3> HIDE DEF D
    <3> QED  BY <1>2, <1>3, <1>4, SieveKeeps
  <2> QED
    BY <2>1, <2>2, <2>3 DEF Neat
<1> QED
  BY <1>2, <1>5 DEF out, DedupDuplicateToolResults, Single, Neat

\* Without doubled answers the deduplication changes nothing.
LEMMA DedupIdle ==
    ASSUME NEW items \in Seq(Item), Single(items)
    PROVE  DedupDuplicateToolResults(items) = items
<1> DEFINE D == {k \in DOMAIN items : Superseded(items, k)}
<1>1. \A k \in 1..Len(items) : k \notin D
  BY DEF Single
<1> HIDE DEF D
<1>2. Without(items, D) = items
  BY <1>1, WithoutNone
<1> QED
  BY <1>2 DEF DedupDuplicateToolResults, D

\* strip_displaced_tool_results leaves no result astray, and doubles no answer.
LEMMA StripSound ==
    ASSUME NEW items \in Seq(Item)
    PROVE  /\ StripDisplacedToolResults(items) \in Seq(Item)
           /\ Neat(StripDisplacedToolResults(items))
           /\ Single(items) => Single(StripDisplacedToolResults(items))
<1> DEFINE D == {k \in DOMAIN items : Displaced(items, k)}
           out == Without(items, D)
<1>1. DOMAIN items = 1..Len(items)
  BY LenProperties
<1>2. out \in Seq(Item)
  BY WithoutShape
<1>3. PICK src \in [1..Len(out) -> 1..Len(items)] : Sieved(src, items, D, out)
  BY WithoutShape
<1>4. \A k \in 1..Len(items) : k \in D => IsResult(items[k])
  BY DEF Displaced
<1> HIDE DEF out
<1>5. ASSUME NEW p \in 1..Len(out)
      PROVE  ~Displaced(out, p) /\ (Single(items) => ~Superseded(out, p))
  <2>1. src[p] \in 1..Len(items) /\ src[p] \notin D
    <3> HIDE DEF D
    <3> QED  BY <1>3 DEF Sieved
  <2>2. ~Displaced(items, src[p])
    BY <1>1, <2>1
  <2>3. (Superseded(out, p) => Superseded(items, src[p])) /\ (Displaced(out, p) => Displaced(items, src[p]))
    <3> HIDE DEF D
    <3> QED  BY <1>2, <1>3, <1>4, SieveKeeps
  <2> QED
    BY <2>1, <2>2, <2>3 DEF Single
<1> QED
  BY <1>2, <1>5 DEF out, StripDisplacedToolResults, Single, Neat

\* Without results astray the strip changes nothing.
LEMMA StripIdle ==
    ASSUME NEW items \in Seq(Item), Neat(items)
    PROVE  StripDisplacedToolResults(items) = items
<1> DEFINE D == {k \in DOMAIN items : Displaced(items, k)}
<1>1. \A k \in 1..Len(items) : k \notin D
  BY DEF Neat
<1> HIDE DEF D
<1>2. Without(items, D) = items
  BY <1>1, WithoutNone
<1> QED
  BY <1>2 DEF StripDisplacedToolResults, D

-----------------------------------------------------------------------------
(* The pass that inserts results. *)

\* The calls a run leaves unanswered.
LEMMA MissingIs ==
    ASSUME NEW items \in Seq(Item), NEW i \in 1..Len(items)
    PROVE  /\ Missing(items, i) \in Seq(CallIds)
           /\ \A n \in 1..Len(Missing(items, i)) :
                 /\ Missing(items, i)[n] \in ToSet(items[i].calls)
                 /\ Missing(items, i)[n] \notin RunCalls(items, i)
           /\ \A m, n \in 1..Len(Missing(items, i)) :
                 Missing(items, i)[m] = Missing(items, i)[n] => m = n
           /\ \A c \in ToSet(items[i].calls) \ RunCalls(items, i) :
                 \E n \in 1..Len(Missing(items, i)) : Missing(items, i)[n] = c
<1> DEFINE calls == items[i].calls
           D == {n \in DOMAIN calls : calls[n] \in RunCalls(items, i)}
           out == Missing(items, i)
<1>1. calls \in Seq(CallIds) /\ \A m, n \in 1..Len(calls) : calls[m] = calls[n] => m = n
  BY ItemFacts, ElementOfSeq
<1>2. DOMAIN calls = 1..Len(calls) /\ Len(calls) \in Nat
  BY <1>1, LenProperties
<1>3. ToSet(calls) = {calls[n] : n \in 1..Len(calls)}
  BY <1>2 DEF ToSet
<1>4. out = Without(calls, D)
  BY DEF Missing
<1> HIDE DEF out, D
<1>5. out \in Seq(CallIds)
  BY <1>1, <1>4, WithoutShape
<1>6. PICK src \in [1..Len(out) -> 1..Len(calls)] : Sieved(src, calls, D, out)
  BY <1>1, <1>4, WithoutShape
<1> HIDE DEF calls
<1>7. \A n \in 1..Len(out) : src[n] \in 1..Len(calls) /\ src[n] \notin D /\ out[n] = calls[src[n]]
  BY <1>6 DEF Sieved
<1>8. \A n \in 1..Len(out) : out[n] \in ToSet(calls) /\ out[n] \notin RunCalls(items, i)
  BY <1>2, <1>3, <1>7 DEF D
<1>9. ASSUME NEW m \in 1..Len(out), NEW n \in 1..Len(out), out[m] = out[n]  PROVE m = n
  <2>1. src[m] = src[n] /\ src[m] \in Nat
    BY <1>1, <1>2, <1>7, <1>9
  <2>2. ~ (m < n) /\ ~ (n < m)
    BY <1>6, <2>1 DEF Sieved
  <2> QED
    BY <1>5, <2>2, LenProperties
<1>10. ASSUME NEW c \in ToSet(calls) \ RunCalls(items, i)
       PROVE  \E n \in 1..Len(out) : out[n] = c
  <2>1. PICK k \in 1..Len(calls) : c = calls[k]
    BY <1>3
  <2>2. k \notin D
    BY <1>10, <2>1 DEF D
  <2>3. PICK n \in 1..Len(out) : src[n] = k
    BY <1>6, <2>2 DEF Sieved
  <2> QED
    BY <1>7, <2>1, <2>3
<1> QED
  BY <1>5, <1>8, <1>9, <1>10 DEF out, calls

\* A run belongs to one message.
LEMMA OneOwner ==
    ASSUME NEW items \in Seq(Item), NEW k \in 1..Len(items),
           NEW i \in 1..k, NEW j \in 1..k,
           HasCalls(items[i]), i = k \/ InRun(items, i, k),
           HasCalls(items[j]), j = k \/ InRun(items, j, k)
    PROVE  i = j
<1>1. Len(items) \in Nat
  BY LenProperties
<1>2. ASSUME NEW a \in 1..k, NEW b \in 1..k, a < b, HasCalls(items[b]),
             a = k \/ InRun(items, a, k)
      PROVE  FALSE
  <2>1. InRun(items, a, k) /\ b \in a + 1..k /\ b \in 1..Len(items)
    BY <1>1, <1>2
  <2>2. IsResult(items[b])
    BY <2>1 DEF InRun
  <2>3. ~IsResult(items[b])
    BY <1>2, <2>1, ItemFacts, ElementOfSeq
  <2> QED
    BY <2>2, <2>3
<1>3. ~ (i < j) /\ ~ (j < i)
  BY <1>2
<1> QED
  BY <1>1, <1>3

\* Every message with calls owns the end of its run.
LEMMA RunEnds ==
    ASSUME NEW items \in Seq(Item), NEW i \in 1..Len(items), HasCalls(items[i])
    PROVE  \E e \in i..Len(items) : i \in Owners(items, e)
<1> DEFINE N == Len(items)
           T == {e \in i..N : e < N => ~IsResult(items[e + 1])}
<1>1. N \in Nat
  BY LenProperties
<1>2. N \in T
  BY <1>1
<1>3. PICK e \in T : \A m \in T : e <= m
  <2>1. T \subseteq Nat
    BY <1>1
  <2> HIDE DEF T
  <2> QED
    BY <1>2, <2>1, LeastNatural
<1>4. e \in i..N /\ (e < N => ~IsResult(items[e + 1]))
  BY <1>3
<1>5. ASSUME NEW m \in i + 1..e  PROVE IsResult(items[m])
  <2>1. m - 1 \in i..N /\ ~ (e <= m - 1) /\ (m - 1) + 1 = m
    BY <1>1, <1>4
  <2>2. m - 1 \notin T
    <3> HIDE DEF T
    <3> QED  BY <1>3, <2>1
  <2> QED
    BY <2>1, <2>2
<1>6. i \in 1..e /\ (i = e \/ i < e)
  BY <1>1, <1>4
<1>7. i \in Owners(items, e)
  BY <1>4, <1>5, <1>6 DEF Owners, InRun
<1> QED
  BY <1>4, <1>7

\* The results put behind items[k].
LEMMA SyntheticIs ==
    ASSUME NEW items \in Seq(Item), NEW k \in 1..Len(items)
    PROVE  /\ Synthetic(items, k) \in Seq(Item)
           /\ Owners(items, k) = {} => Synthetic(items, k) = <<>>
           /\ \A i \in Owners(items, k) :
                 /\ Len(Synthetic(items, k)) = Len(Missing(items, i))
                 /\ \A n \in 1..Len(Missing(items, i)) :
                       Synthetic(items, k)[n] = Result(Missing(items, i)[n], "synthetic")
<1>1. CASE Owners(items, k) = {}
  BY <1>1, EmptySeq DEF Synthetic
<1>2. CASE Owners(items, k) # {}
  <2> DEFINE o == CHOOSE i \in Owners(items, k) : TRUE
  <2>1. o \in Owners(items, k)
    BY <1>2
  <2> HIDE DEF o
  <2>2. o \in 1..k /\ o \in 1..Len(items)
    BY <2>1, LenProperties DEF Owners
  <2>3. \A i \in Owners(items, k) : i = o
    <3> TAKE i \in Owners(items, k)
    <3>1. /\ i \in 1..k /\ HasCalls(items[i]) /\ (i = k \/ InRun(items, i, k))
          /\ o \in 1..k /\ HasCalls(items[o]) /\ (o = k \/ InRun(items, o, k))
      BY <2>1 DEF Owners
    <3> QED
      BY <3>1, OneOwner
  <2> DEFINE calls == Missing(items, o)
             res == [n \in DOMAIN calls |-> Result(calls[n], "synthetic")]
  <2>4. calls \in Seq(CallIds)
    BY <2>2, MissingIs
  <2>5. Synthetic(items, k) = res
    BY <1>2 DEF Synthetic, o
  <2> HIDE DEF calls
  <2>6. DOMAIN calls = 1..Len(calls) /\ Len(calls) \in Nat /\ \A n \in 1..Len(calls) : calls[n] \in CallIds
    BY <2>4, LenProperties
  <2>7. \A c \in CallIds : Result(c, "synthetic") \in Item
    <3>1. <<>> \in {calls_1 \in Seq(CallIds) : IsInjective(calls_1)}
      BY EmptySeq DEF IsInjective
    <3>2. ASSUME NEW c \in CallIds  PROVE Result(c, "synthetic") \in Item
      <4>1. c # None
        BY Bounds
      <4> QED
        BY <3>1, <4>1 DEF Result, Bare, Item
    <3> QED
      BY <3>2
  <2>8. res \in [1..Len(calls) -> Item] /\ \A n \in 1..Len(calls) : res[n] = Result(calls[n], "synthetic")
    BY <2>6, <2>7
  <2> HIDE DEF res
  <2>9. res \in Seq(Item) /\ Len(res) = Len(calls)
    BY <2>6, <2>8, SeqDef, LenProperties
  <2> QED
    BY <1>2, <2>3, <2>5, <2>8, <2>9 DEF calls
<1> QED
  BY <1>1, <1>2

\* Place p of out belongs to items[src[p]], which is at head[src[p]]; behind it stand the
\* results the run it closes was missing.
Inserted(src, head, items, out) ==
    /\ \A k \in 1..Len(items) : /\ head[k] \in 1..Len(out)
                                /\ src[head[k]] = k /\ out[head[k]] = items[k]
    /\ \A p \in 1..Len(out) : src[p] \in 1..Len(items) /\ head[src[p]] <= p
    /\ \A p, q \in 1..Len(out) : p <= q => src[p] <= src[q]
    /\ \A p \in 1..Len(out) : p # head[src[p]] =>
         \E i \in Owners(items, src[p]) : \E n \in 1..Len(Missing(items, i)) :
            p = head[src[p]] + n /\ out[p] = Result(Missing(items, i)[n], "synthetic")
    /\ \A k \in 1..Len(items) : \A i \in Owners(items, k) : \A n \in 1..Len(Missing(items, i)) :
         /\ head[k] + n \in 1..Len(out) /\ src[head[k] + n] = k
         /\ out[head[k] + n] = Result(Missing(items, i)[n], "synthetic")

\* Completing the runs puts results behind items, each item where its head is.
LEMMA InsertShape ==
    ASSUME NEW items \in Seq(Item)
    PROVE  /\ RepairDanglingToolCalls(items) \in Seq(Item)
           /\ \E src, head : Inserted(src, head, items, RepairDanglingToolCalls(items))
<1> DEFINE N == Len(items)
           B == [k \in DOMAIN items |-> <<items[k]>> \o Synthetic(items, k)]
           out == RepairDanglingToolCalls(items)
           L == [k \in 1..N |-> Len(Synthetic(items, k))]
<1>1. N \in Nat /\ DOMAIN items = 1..N /\ \A k \in 1..N : items[k] \in Item
  BY LenProperties
<1>0. \A k \in 1..N : L[k] = Len(Synthetic(items, k))
  OBVIOUS
<1> HIDE DEF L
<1>2. ASSUME NEW k \in 1..N
      PROVE  /\ B[k] \in Seq(Item) /\ L[k] \in Nat /\ Len(B[k]) = 1 + L[k] /\ B[k][1] = items[k]
             /\ \A n \in 1..L[k] : B[k][1 + n] = Synthetic(items, k)[n]
  <2> DEFINE one == <<items[k]>>
             syn == Synthetic(items, k)
  <2>1. one \in Seq(Item) /\ Len(one) = 1 /\ one[1] = items[k] /\ syn \in Seq(Item)
    BY <1>1, SyntheticIs
  <2>2. B[k] = one \o syn
    BY <1>1
  <2> HIDE DEF one, syn, B
  <2>3. Len(syn) \in Nat
    BY <2>1, LenProperties
  <2>4. /\ one \o syn \in Seq(Item) /\ Len(one \o syn) = 1 + Len(syn)
        /\ \A j \in 1..1 + Len(syn) : (one \o syn)[j] = IF j <= 1 THEN one[j] ELSE syn[j - 1]
    <3>1. /\ one \o syn \in Seq(Item) /\ Len(one \o syn) = Len(one) + Len(syn)
          /\ \A j \in 1..Len(one) + Len(syn) :
               (one \o syn)[j] = IF j <= Len(one) THEN one[j] ELSE syn[j - Len(one)]
      BY <2>1, ConcatProperties
    <3> QED
      BY <2>1, <3>1
  <2>5. (one \o syn)[1] = one[1]
    BY <2>3, <2>4
  <2>6. ASSUME NEW n \in 1..Len(syn)  PROVE (one \o syn)[1 + n] = syn[n]
    <3>1. 1 + n \in 1..1 + Len(syn) /\ ~ (1 + n <= 1) /\ (1 + n) - 1 = n
      BY <2>3
    <3>2. (one \o syn)[1 + n] = syn[(1 + n) - 1]
      BY <2>4, <3>1
    <3> QED
      BY <3>1, <3>2
  <2> QED
    BY <1>0, <2>1, <2>2, <2>3, <2>4, <2>5, <2>6 DEF syn
<1>3. B \in Seq(Seq(Item)) /\ Len(B) = N
  <2>1. B \in [1..N -> Seq(Item)]
    <3>1. B = [k \in 1..N |-> B[k]]
      BY <1>1
    <3> HIDE DEF B
    <3> QED
      BY <1>2, <3>1
  <2> HIDE DEF B, N
  <2> QED
    BY <1>1, <2>1, SeqDef, LenProperties
<1>4. out = FlattenSeq(B)
  BY DEF RepairDanglingToolCalls
<1> HIDE DEF B, out, N
<1>5. out \in Seq(Item)
  BY <1>3, <1>4, FlattenShape
<1>6. PICK at \in [0..N -> Nat] : Layout(at, B, out)
  BY <1>3, <1>4, FlattenShape
<1>7. Len(out) \in Nat
  BY <1>5, LenProperties
<1> DEFINE src == [p \in 1..Len(out) |-> CHOOSE k \in 1..N : at[k - 1] < p /\ p <= at[k]]
           head == [k \in 1..N |-> at[k - 1] + 1]
<1>8. ASSUME NEW p \in 1..Len(out)
      PROVE  src[p] \in 1..N /\ at[src[p] - 1] < p /\ p <= at[src[p]]
  <2>1. \E k \in 1..N : at[k - 1] < p /\ p <= at[k]
    BY <1>3, <1>6 DEF Layout
  <2> QED
    BY <2>1
<1>9. \A k \in 1..N : head[k] = at[k - 1] + 1
  OBVIOUS
<1> HIDE DEF src, head
<1>10. ASSUME NEW k \in 1..N
       PROVE  /\ at[k - 1] \in Nat /\ at[k] = at[k - 1] + 1 + L[k] /\ at[k] <= Len(out)
              /\ \A j \in 1..1 + L[k] : out[at[k - 1] + j] = B[k][j]
  <2>1. k - 1 \in 0..N /\ k \in 0..N /\ N \in 0..N /\ k <= N
    BY <1>1
  <2>2. at[k - 1] \in Nat /\ at[k] <= at[N] /\ at[N] = Len(out) /\ at[k] = at[k - 1] + Len(B[k])
    BY <1>3, <1>6, <2>1 DEF Layout
  <2>3. \A j \in 1..Len(B[k]) : out[at[k - 1] + j] = B[k][j]
    BY <1>3, <1>6 DEF Layout
  <2>4. Len(B[k]) = 1 + L[k] /\ L[k] \in Nat /\ at[k] \in Nat
    BY <1>2, <2>1
  <2>5. at[k] = at[k - 1] + 1 + L[k]
    BY <2>2, <2>4, SMTT(30)
  <2> QED
    BY <2>2, <2>3, <2>4, <2>5
<1>11. ASSUME NEW k \in 1..N, NEW j \in 1..1 + L[k]
       PROVE  at[k - 1] + j \in 1..Len(out) /\ src[at[k - 1] + j] = k /\ out[at[k - 1] + j] = B[k][j]
  <2> DEFINE p == at[k - 1] + j
  <2>1. p \in 1..Len(out) /\ at[k - 1] < p /\ p <= at[k] /\ p \in Nat /\ p <= p
    <3>1. at[k - 1] \in Nat /\ L[k] \in Nat /\ at[k] = at[k - 1] + 1 + L[k] /\ at[k] <= Len(out)
      BY <1>2, <1>10
    <3>2. j \in Nat /\ 1 <= j /\ j <= 1 + L[k]
      BY <3>1
    <3>3. p \in Nat /\ at[k - 1] < p /\ p <= at[k - 1] + 1 + L[k]
      BY <3>1, <3>2, SMTT(30)
    <3> HIDE DEF p
    <3>4. at[k] \in Nat /\ p <= at[k] /\ 1 <= p
      BY <3>1, <3>3
    <3> QED
      BY <1>7, <3>1, <3>3, <3>4
  <2> HIDE DEF p
  <2>2. k <= src[p] /\ src[p] <= k
    BY <1>3, <1>5, <1>6, <1>8, <2>1, LayoutOrder
  <2>3. src[p] = k
    BY <1>1, <1>8, <2>1, <2>2
  <2> QED
    BY <1>10, <2>1, <2>3 DEF p
<1>12. \A k \in 1..N : head[k] \in 1..Len(out) /\ src[head[k]] = k /\ out[head[k]] = items[k]
  <2> TAKE k \in 1..N
  <2>1. 1 \in 1..1 + L[k]
    BY <1>2
  <2> QED
    BY <1>2, <1>9, <1>11, <2>1
<1>13. \A p \in 1..Len(out) : src[p] \in 1..N /\ head[src[p]] <= p
  <2> TAKE p \in 1..Len(out)
  <2>1. src[p] \in 1..N /\ at[src[p] - 1] < p /\ at[src[p] - 1] \in Nat /\ head[src[p]] = at[src[p] - 1] + 1
    BY <1>8, <1>9, <1>10
  <2> QED
    BY <1>7, <2>1
<1>14. ASSUME NEW p \in 1..Len(out), NEW q \in 1..Len(out), p <= q  PROVE src[p] <= src[q]
  <2>1. p \in Nat /\ q \in Nat
    BY <1>7
  <2> QED
    BY <1>3, <1>5, <1>6, <1>8, <1>14, <2>1, LayoutOrder
<1>15. ASSUME NEW k \in 1..N, NEW i \in Owners(items, k), NEW n \in 1..Len(Missing(items, i))
       PROVE  /\ head[k] + n \in 1..Len(out) /\ src[head[k] + n] = k
              /\ out[head[k] + n] = Result(Missing(items, i)[n], "synthetic")
  <2>1. k \in 1..Len(items)
    BY DEF N
  <2>2. n \in 1..L[k] /\ Synthetic(items, k)[n] = Result(Missing(items, i)[n], "synthetic")
    BY <1>0, <2>1, SyntheticIs
  <2>3. 1 + n \in 1..1 + L[k] /\ head[k] + n = at[k - 1] + (1 + n)
    <3>1. L[k] \in Nat /\ at[k - 1] \in Nat /\ head[k] = at[k - 1] + 1
      BY <1>2, <1>9, <1>10
    <3>2. n \in Nat /\ 1 <= n /\ n <= L[k]
      BY <2>2, <3>1
    <3> QED
      BY <3>1, <3>2, SMTT(30)
  <2>4. B[k][1 + n] = Synthetic(items, k)[n]
    BY <1>2, <2>2
  <2> QED
    BY <1>11, <2>2, <2>3, <2>4
<1>16. ASSUME NEW p \in 1..Len(out), p # head[src[p]]
       PROVE  \E i \in Owners(items, src[p]) : \E n \in 1..Len(Missing(items, i)) :
                 p = head[src[p]] + n /\ out[p] = Result(Missing(items, i)[n], "synthetic")
  <2> DEFINE k == src[p]
             n == p - head[k]
  <2>1. k \in 1..N /\ p <= at[k] /\ head[k] = at[k - 1] + 1 /\ head[k] <= p /\ at[k - 1] \in Nat
        /\ at[k] = at[k - 1] + 1 + L[k] /\ L[k] \in Nat
    BY <1>2, <1>8, <1>9, <1>10, <1>13
  <2>2. n \in 1..L[k] /\ p = head[k] + n
    BY <1>7, <1>16, <2>1, SMTT(30)
  <2>3. Owners(items, k) # {}
    <3>1. k \in 1..Len(items)
      BY <2>1 DEF N
    <3>2. Owners(items, k) = {} => L[k] = 0
      BY <1>0, <2>1, <3>1, SyntheticIs
    <3> HIDE DEF n, k
    <3> QED
      BY <2>2, <3>2
  <2>4. PICK i \in Owners(items, k) : TRUE
    BY <2>3
  <2>5. L[k] = Len(Missing(items, i))
    <3>1. k \in 1..Len(items)
      BY <2>1 DEF N
    <3> HIDE DEF n, k
    <3> QED
      BY <1>0, <2>1, <3>1, SyntheticIs
  <2> HIDE DEF n
  <2>6. n \in 1..Len(Missing(items, i))
    BY <2>2, <2>5
  <2>7. out[head[k] + n] = Result(Missing(items, i)[n], "synthetic")
    BY <1>15, <2>1, <2>6
  <2> QED
    BY <2>2, <2>6, <2>7
<1>17. Inserted(src, head, items, out)
  BY <1>12, <1>13, <1>14, <1>15, <1>16 DEF Inserted, N
<1> QED
  BY <1>5, <1>17 DEF out

\* What is inserted is a result, so a message with calls is never behind its own head.
LEMMA InsertedHeads ==
    ASSUME NEW items \in Seq(Item), NEW out \in Seq(Item), NEW src, NEW head,
           Inserted(src, head, items, out)
    PROVE  /\ \A k, l \in 1..Len(items) : k < l <=> head[k] < head[l]
           /\ \A p \in 1..Len(out) : p = head[src[p]] \/ (head[src[p]] < p /\ IsResult(out[p]))
           /\ \A p \in 1..Len(out) : HasCalls(out[p]) => p = head[src[p]]
           /\ \A p \in 1..Len(out) : p = head[src[p]] => out[p] = items[src[p]]
<1>1. Len(items) \in Nat /\ Len(out) \in Nat
  BY LenProperties
<1>2. /\ \A k \in 1..Len(items) : head[k] \in 1..Len(out) /\ src[head[k]] = k /\ out[head[k]] = items[k]
      /\ \A p \in 1..Len(out) : src[p] \in 1..Len(items) /\ head[src[p]] <= p
      /\ \A p, q \in 1..Len(out) : p <= q => src[p] <= src[q]
  BY DEF Inserted
<1>3. ASSUME NEW k \in 1..Len(items), NEW l \in 1..Len(items)  PROVE k < l <=> head[k] < head[l]
  <2>1. head[k] \in Nat /\ head[l] \in Nat /\ k \in Nat /\ l \in Nat
    BY <1>1, <1>2
  <2>2. head[k] <= head[l] => k <= l
    BY <1>2
  <2>3. head[l] <= head[k] => l <= k
    BY <1>2
  <2>4. k = l => head[k] = head[l]
    OBVIOUS
  <2> QED
    BY <2>1, <2>2, <2>3, <2>4
<1>4. ASSUME NEW p \in 1..Len(out), p # head[src[p]]
      PROVE  head[src[p]] < p /\ IsResult(out[p]) /\ ~HasCalls(out[p])
  <2>1. PICK c : out[p] = Result(c, "synthetic")
    <3>1. PICK i \in Owners(items, src[p]) :
             \E n \in 1..Len(Missing(items, i)) :
                p = head[src[p]] + n /\ out[p] = Result(Missing(items, i)[n], "synthetic")
      BY <1>4 DEF Inserted
    <3>2. PICK n \in 1..Len(Missing(items, i)) : out[p] = Result(Missing(items, i)[n], "synthetic")
      BY <3>1
    <3> QED
      BY <3>2
  <2>2. out[p].kind = "result" /\ out[p].calls = <<>>
    BY <2>1 DEF Result, Bare
  <2>3. head[src[p]] \in Nat /\ p \in Nat /\ head[src[p]] <= p
    BY <1>1, <1>2
  <2> QED
    BY <1>4, <2>2, <2>3 DEF IsResult, HasCalls
<1>5. \A p \in 1..Len(out) : p = head[src[p]] => out[p] = items[src[p]]
  BY <1>2
<1> QED
  BY <1>3, <1>4, <1>5

\* A run reaches what is inserted behind the items it reaches.
LEMMA InsertedRuns ==
    ASSUME NEW items \in Seq(Item), NEW out \in Seq(Item), NEW src, NEW head,
           Inserted(src, head, items, out),
           NEW k \in 1..Len(items), NEW q \in 1..Len(out)
    PROVE  InRun(out, head[k], q) <=> head[k] < q /\ (k = src[q] \/ InRun(items, k, src[q]))
<1>1. Len(items) \in Nat /\ Len(out) \in Nat
  BY LenProperties
<1>2. /\ \A j \in 1..Len(items) : head[j] \in 1..Len(out) /\ src[head[j]] = j /\ out[head[j]] = items[j]
      /\ \A p \in 1..Len(out) : src[p] \in 1..Len(items) /\ head[src[p]] <= p
      /\ \A p, t \in 1..Len(out) : p <= t => src[p] <= src[t]
  BY DEF Inserted
<1>3. /\ \A j, l \in 1..Len(items) : j < l <=> head[j] < head[l]
      /\ \A p \in 1..Len(out) : p = head[src[p]] \/ (head[src[p]] < p /\ IsResult(out[p]))
  BY InsertedHeads
<1>4. ASSUME InRun(out, head[k], q), k # src[q]  PROVE InRun(items, k, src[q])
  <2>1. head[k] < q /\ \A m \in head[k] + 1..q : IsResult(out[m])
    BY <1>4 DEF InRun
  <2>2. k < src[q]
    <3>1. head[k] <= q
      BY <1>1, <1>2, <2>1
    <3>2. k <= src[q] /\ src[q] \in Nat /\ k \in Nat
      BY <1>1, <1>2, <3>1
    <3> QED
      BY <1>4, <3>2
  <2>3. ASSUME NEW m \in k + 1..src[q]  PROVE IsResult(items[m])
    <3>1. m \in 1..Len(items) /\ k < m /\ m <= src[q] /\ src[q] \in 1..Len(items)
      BY <1>1, <1>2
    <3>2. head[k] < head[m]
      BY <1>3, <3>1
    <3>3. ~ (head[src[q]] < head[m])
      BY <1>1, <1>3, <3>1
    <3>4. head[m] \in Nat /\ head[k] \in Nat /\ head[src[q]] \in Nat /\ q \in Nat /\ head[src[q]] <= q
      BY <1>1, <1>2, <3>1
    <3>5. head[m] \in head[k] + 1..q
      BY <3>2, <3>3, <3>4
    <3> QED
      BY <1>2, <2>1, <3>1, <3>5
  <2> QED
    BY <2>2, <2>3 DEF InRun
<1>5. ASSUME head[k] < q, k = src[q] \/ InRun(items, k, src[q])  PROVE InRun(out, head[k], q)
  <2>1. ASSUME NEW m \in head[k] + 1..q  PROVE IsResult(out[m])
    <3>0. head[k] \in Nat /\ head[k] >= 1 /\ q \in Nat /\ q <= Len(out)
      BY <1>1, <1>2
    <3>1. m \in 1..Len(out) /\ head[k] < m /\ m <= q /\ head[k] <= m
      BY <1>1, <3>0
    <3>2. k <= src[m] /\ src[m] <= src[q] /\ src[m] \in 1..Len(items)
      BY <1>2, <3>1
    <3>3. CASE m = head[src[m]]
      <4>1. k # src[m]
        BY <3>0, <3>1, <3>3
      <4>2. k < src[m]
        BY <1>1, <3>2, <4>1
      <4>3. k # src[q]
        BY <1>1, <1>2, <3>2, <4>2
      <4>4. src[m] \in k + 1..src[q]
        BY <1>1, <1>2, <3>2, <4>2
      <4>5. IsResult(items[src[m]])
        BY <1>5, <4>3, <4>4 DEF InRun
      <4>6. out[m] = items[src[m]]
        BY <1>2, <3>2, <3>3
      <4> QED
        BY <4>5, <4>6
    <3>4. CASE m # head[src[m]]
      BY <1>3, <3>1, <3>4
    <3> QED
      BY <3>3, <3>4
  <2> QED
    BY <1>5, <2>1 DEF InRun
<1>6. InRun(out, head[k], q) => head[k] < q
  BY DEF InRun
<1> QED
  BY <1>4, <1>5, <1>6

\* repair_dangling_tool_calls answers every call.
LEMMA InsertAnswers ==
    ASSUME NEW items \in Seq(Item)
    PROVE  Answered(RepairDanglingToolCalls(items))
<1> DEFINE out == RepairDanglingToolCalls(items)
<1>1. out \in Seq(Item)
  BY InsertShape
<1>2. PICK src, head : Inserted(src, head, items, out)
  BY InsertShape
<1> HIDE DEF out
<1>3. Len(items) \in Nat /\ Len(out) \in Nat
  BY <1>1, LenProperties
<1>4. /\ \A j \in 1..Len(items) : head[j] \in 1..Len(out) /\ src[head[j]] = j /\ out[head[j]] = items[j]
      /\ \A p \in 1..Len(out) : src[p] \in 1..Len(items)
  BY <1>2 DEF Inserted
<1>5. \A j, l \in 1..Len(items) : j < l <=> head[j] < head[l]
  BY <1>1, <1>2, InsertedHeads
<1>6. ASSUME NEW p \in 1..Len(out), NEW c \in ToSet(out[p].calls)  PROVE c \in RunCalls(out, p)
  <2> DEFINE i == src[p]
  <2>1. HasCalls(out[p]) /\ c \in CallIds
    BY <1>1, <1>6, ItemFacts, ElementOfSeq
  <2>2. p = head[i] /\ out[p] = items[i] /\ i \in 1..Len(items)
    BY <1>1, <1>2, <1>4, <2>1, InsertedHeads
  <2> HIDE DEF i
  <2>3. CASE c \in RunCalls(items, i)
    <3>1. PICK k \in i + 1..Len(items) : InRun(items, i, k) /\ items[k].call = c
      BY <2>3 DEF RunCalls
    <3>2. k \in 1..Len(items) /\ i < k
      BY <1>3, <2>2
    <3>3. head[i] < head[k] /\ head[k] \in 1..Len(out) /\ src[head[k]] = k /\ out[head[k]].call = c
      BY <1>4, <1>5, <2>2, <3>1, <3>2
    <3>4. InRun(out, p, head[k])
      BY <1>1, <1>2, <2>2, <3>1, <3>3, InsertedRuns
    <3>5. head[k] \in p + 1..Len(out)
      BY <1>3, <2>2, <3>3
    <3> QED
      BY <3>3, <3>4, <3>5 DEF RunCalls
  <2>4. CASE c \notin RunCalls(items, i)
    <3>1. HasCalls(items[i]) /\ c \in ToSet(items[i].calls)
      BY <1>6, <2>1, <2>2
    <3>2. PICK e \in i..Len(items) : i \in Owners(items, e)
      BY <2>2, <3>1, RunEnds
    <3>3. PICK n \in 1..Len(Missing(items, i)) : Missing(items, i)[n] = c
      BY <2>2, <2>4, <3>1, MissingIs
    <3>4. Len(Missing(items, i)) \in Nat
      BY <2>2, MissingIs, LenProperties
    <3>5. e \in 1..Len(items) /\ i <= e /\ (i = e \/ InRun(items, i, e))
      BY <1>3, <2>2, <3>2 DEF Owners
    <3>6. head[e] + n \in 1..Len(out) /\ src[head[e] + n] = e /\ out[head[e] + n].call = c
      <4>1. /\ head[e] + n \in 1..Len(out) /\ src[head[e] + n] = e
            /\ out[head[e] + n] = Result(Missing(items, i)[n], "synthetic")
        BY <1>2, <3>2, <3>5, SMTT(30) DEF Inserted
      <4> QED
        BY <3>3, <4>1 DEF Result, Bare
    <3>7. head[i] <= head[e]
      <4>1. head[i] \in Nat /\ head[e] \in Nat
        BY <1>3, <1>4, <2>2, <3>5
      <4>2. ~ (e < i)
        BY <1>3, <2>2, <3>5
      <4> QED
        BY <1>5, <2>2, <3>5, <4>1, <4>2
    <3>8. p < head[e] + n
      <4>1. p \in Nat /\ head[e] \in Nat /\ n \in Nat /\ n >= 1 /\ p <= head[e]
        BY <1>3, <1>4, <2>2, <3>4, <3>5, <3>7
      <4> QED
        BY <4>1
    <3> DEFINE q == head[e] + n
    <3>9. q \in 1..Len(out) /\ src[q] = e /\ out[q].call = c /\ p < q
      BY <3>6, <3>8
    <3> HIDE DEF q
    <3>10. InRun(out, p, q)
      BY <1>1, <1>2, <2>2, <3>5, <3>9, InsertedRuns
    <3>11. q \in p + 1..Len(out)
      BY <1>3, <3>9
    <3> QED
      BY <3>9, <3>10, <3>11 DEF RunCalls
  <2> QED
    BY <2>3, <2>4
<1> QED
  BY <1>6 DEF out, Answered

\* It puts no result astray: what it inserts closes the run of its own message.
LEMMA InsertKeepsNeat ==
    ASSUME NEW items \in Seq(Item), Neat(items)
    PROVE  Neat(RepairDanglingToolCalls(items))
<1> DEFINE out == RepairDanglingToolCalls(items)
<1>1. out \in Seq(Item)
  BY InsertShape
<1>2. PICK src, head : Inserted(src, head, items, out)
  BY InsertShape
<1> HIDE DEF out
<1>3. Len(items) \in Nat /\ Len(out) \in Nat
  BY <1>1, LenProperties
<1>4. /\ \A j \in 1..Len(items) : head[j] \in 1..Len(out) /\ src[head[j]] = j /\ out[head[j]] = items[j]
      /\ \A p \in 1..Len(out) : src[p] \in 1..Len(items)
  BY <1>2 DEF Inserted
<1>5. \A j, l \in 1..Len(items) : j < l <=> head[j] < head[l]
  BY <1>1, <1>2, InsertedHeads
<1>6. ASSUME NEW p \in 1..Len(out), IsResult(out[p]), NEW i \in 1..Len(items), head[i] < p,
             out[p].call \in ToSet(items[i].calls), i = src[p] \/ InRun(items, i, src[p])
      PROVE  ~Displaced(out, p)
  <2>1. InRun(out, head[i], p)
    BY <1>1, <1>2, <1>6, InsertedRuns
  <2>2. head[i] \in 1..p - 1 /\ out[head[i]] = items[i]
    BY <1>3, <1>4, <1>6
  <2> QED
    BY <1>6, <2>1, <2>2 DEF Displaced
<1>7. ASSUME NEW p \in 1..Len(out), IsResult(out[p])
      PROVE  ~Displaced(out, p)
  <2> DEFINE k == src[p]
  <2>1. k \in 1..Len(items)
    BY <1>4
  <2>2. CASE p = head[k]
    <3>1. out[p] = items[k]
      BY <1>4, <2>1, <2>2
    <3>2. PICK i \in 1..k - 1 : items[k].call \in ToSet(items[i].calls) /\ InRun(items, i, k)
      BY <1>7, <2>1, <3>1 DEF Neat, Displaced
    <3>3. i \in 1..Len(items) /\ i < k
      BY <1>3, <2>1
    <3>4. head[i] < p
      BY <1>5, <2>1, <2>2, <3>3
    <3> QED
      BY <1>6, <1>7, <3>1, <3>2, <3>3, <3>4
  <2>3. CASE p # head[k]
    <3>0. PICK i \in Owners(items, k) : \E n \in 1..Len(Missing(items, i)) :
             p = head[k] + n /\ out[p] = Result(Missing(items, i)[n], "synthetic")
      BY <1>2, <2>3 DEF Inserted
    <3>1. PICK n \in 1..Len(Missing(items, i)) :
             p = head[k] + n /\ out[p] = Result(Missing(items, i)[n], "synthetic")
      BY <3>0
    <3>2. i \in 1..Len(items) /\ i <= k /\ (i = k \/ InRun(items, i, k))
      BY <1>3, <2>1, <3>1 DEF Owners
    <3>3. out[p].call \in ToSet(items[i].calls)
      <4>1. out[p].call = Missing(items, i)[n]
        BY <3>1 DEF Result, Bare
      <4> QED
        BY <3>2, <4>1, MissingIs
    <3>4. head[k] < p
      BY <1>1, <1>2, <2>3, InsertedHeads
    <3>5. head[i] < p
      <4>1. head[i] \in Nat /\ head[k] \in Nat /\ p \in Nat
        BY <1>3, <1>4, <2>1, <3>2
      <4>2. i = k \/ head[i] < head[k]
        <5>1. i = k \/ i < k
          BY <1>3, <2>1, <3>2
        <5> QED
          BY <1>5, <2>1, <3>2, <5>1
      <4> QED
        BY <3>4, <4>1, <4>2
    <3> QED
      BY <1>6, <1>7, <3>2, <3>3, <3>5
  <2> QED
    BY <2>2, <2>3
<1> QED
  BY <1>7 DEF out, Neat, Displaced

\* It doubles no answer.
LEMMA InsertKeepsSingle ==
    ASSUME NEW items \in Seq(Item), Single(items)
    PROVE  Single(RepairDanglingToolCalls(items))
<1> DEFINE out == RepairDanglingToolCalls(items)
           N   == Len(items)
<1>1. out \in Seq(Item)
  BY InsertShape
<1>2. PICK src, head : Inserted(src, head, items, out)
  BY InsertShape
<1> HIDE DEF out
<1>3. N \in Nat /\ Len(out) \in Nat
  BY <1>1, LenProperties
<1>4. /\ \A j \in 1..N : head[j] \in 1..Len(out) /\ src[head[j]] = j /\ out[head[j]] = items[j]
      /\ \A p \in 1..Len(out) : src[p] \in 1..N /\ head[src[p]] <= p
      /\ \A p, q \in 1..Len(out) : p <= q => src[p] <= src[q]
  BY <1>2 DEF Inserted
<1>5. /\ \A j, l \in 1..N : j < l <=> head[j] < head[l]
      /\ \A p \in 1..Len(out) : p = head[src[p]] \/ head[src[p]] < p
  BY <1>1, <1>2, InsertedHeads
<1>6. SUFFICES ASSUME NEW p \in 1..Len(out), Superseded(out, p)  PROVE FALSE
  BY DEF out, Single
<1>7. PICK h \in 1..p - 1, q \in p + 1..Len(out) :
         HasCalls(out[h]) /\ InRun(out, h, p) /\ InRun(out, h, q) /\ out[q].call = out[p].call
  BY <1>6 DEF Superseded
<1> DEFINE i == src[h]
           k == src[p]
           l == src[q]
<1>8. h \in 1..Len(out) /\ q \in 1..Len(out) /\ h < p /\ p < q /\ p <= q /\ h <= p
  BY <1>3
<1>9. i \in 1..N /\ k \in 1..N /\ l \in 1..N /\ i <= k /\ k <= l
  BY <1>4, <1>8
<1>10. h = head[i] /\ HasCalls(items[i])
  BY <1>1, <1>2, <1>7, <1>8, InsertedHeads
<1>11. (i = k \/ InRun(items, i, k)) /\ (i = l \/ InRun(items, i, l))
  BY <1>1, <1>2, <1>7, <1>8, <1>9, <1>10, InsertedRuns
<1>12. \A j \in Owners(items, k) : j = i
  <2> TAKE j \in Owners(items, k)
  <2>1. j \in 1..k /\ HasCalls(items[j]) /\ (j = k \/ InRun(items, j, k)) /\ i \in 1..k
    BY <1>3, <1>9 DEF Owners
  <2> QED
    BY <1>9, <1>10, <1>11, <2>1, OneOwner
<1>13. \A j \in Owners(items, l) : j = i
  <2> TAKE j \in Owners(items, l)
  <2>1. j \in 1..l /\ HasCalls(items[j]) /\ (j = l \/ InRun(items, j, l)) /\ i \in 1..l
    BY <1>3, <1>9 DEF Owners
  <2> QED
    BY <1>9, <1>10, <1>11, <2>1, OneOwner
<1> HIDE DEF i, k, l
<1>14. p # head[k] =>
         /\ i \in Owners(items, k)
         /\ \E n \in 1..Len(Missing(items, i)) : p = head[k] + n /\ out[p].call = Missing(items, i)[n]
  <2> SUFFICES ASSUME p # head[k]
               PROVE  /\ i \in Owners(items, k)
                      /\ \E n \in 1..Len(Missing(items, i)) :
                           p = head[k] + n /\ out[p].call = Missing(items, i)[n]
    OBVIOUS
  <2>0. PICK j \in Owners(items, k) : \E n \in 1..Len(Missing(items, j)) :
           p = head[k] + n /\ out[p] = Result(Missing(items, j)[n], "synthetic")
    BY <1>2 DEF Inserted, k
  <2>1. PICK n \in 1..Len(Missing(items, j)) :
           p = head[k] + n /\ out[p] = Result(Missing(items, j)[n], "synthetic")
    BY <2>0
  <2>2. j = i /\ out[p].call = Missing(items, j)[n]
    BY <1>12, <2>1 DEF Result, Bare
  <2> QED
    BY <2>1, <2>2
<1>15. q # head[l] =>
         \E n \in 1..Len(Missing(items, i)) : q = head[l] + n /\ out[q].call = Missing(items, i)[n]
  <2> SUFFICES ASSUME q # head[l]
               PROVE  \E n \in 1..Len(Missing(items, i)) :
                        q = head[l] + n /\ out[q].call = Missing(items, i)[n]
    OBVIOUS
  <2>0. PICK j \in Owners(items, l) : \E n \in 1..Len(Missing(items, j)) :
           q = head[l] + n /\ out[q] = Result(Missing(items, j)[n], "synthetic")
    BY <1>2, <1>8 DEF Inserted, l
  <2>1. PICK n \in 1..Len(Missing(items, j)) :
           q = head[l] + n /\ out[q] = Result(Missing(items, j)[n], "synthetic")
    BY <2>0
  <2>2. j = i /\ out[q].call = Missing(items, j)[n]
    BY <1>13, <2>1 DEF Result, Bare
  <2> QED
    BY <2>1, <2>2
<1>16. head[i] \in Nat /\ head[k] \in Nat /\ head[l] \in Nat /\ p \in Nat /\ q \in Nat
  BY <1>3, <1>4, <1>9
\* The answer kept first was inserted: its run ends at items[k].
<1>17. p = head[k] \/ k = l
  <2> SUFFICES ASSUME p # head[k], k # l  PROVE FALSE
    OBVIOUS
  <2>1. k < N => ~IsResult(items[k + 1])
    BY <1>14 DEF Owners
  <2>2. i < l /\ k < N /\ k + 1 \in i + 1..l
    BY <1>3, <1>9
  <2>3. InRun(items, i, l)
    BY <1>3, <1>9, <1>11, <2>2
  <2> QED
    BY <2>1, <2>2, <2>3 DEF InRun
<1>18. CASE p = head[k] /\ q = head[l]
  <2>1. k < l /\ i < k /\ IsResult(items[k]) /\ items[l].call = items[k].call
    <3>1. out[p] = items[k] /\ out[q] = items[l]
      BY <1>4, <1>9, <1>18
    <3>2. IsResult(items[k])
      BY <1>6, <3>1 DEF Superseded
    <3> QED
      BY <1>5, <1>7, <1>8, <1>9, <1>10, <1>18, <3>1, <3>2
  <2>2. InRun(items, i, k) /\ InRun(items, i, l)
    BY <1>3, <1>9, <1>11, <2>1
  <2>3. i \in 1..k - 1 /\ l \in k + 1..N
    BY <1>3, <1>9, <2>1
  <2>4. Superseded(items, k)
    BY <1>10, <2>1, <2>2, <2>3 DEF Superseded
  <2> QED
    BY <1>9, <2>4 DEF Single
<1>19. CASE p = head[k] /\ q # head[l]
  <2>1. i < k /\ out[p] = items[k]
    BY <1>4, <1>5, <1>8, <1>9, <1>10, <1>19
  <2>2. InRun(items, i, k) /\ k \in i + 1..N
    BY <1>3, <1>9, <1>11, <2>1
  <2>3. out[p].call \in RunCalls(items, i)
    BY <2>1, <2>2 DEF RunCalls
  <2>4. PICK n \in 1..Len(Missing(items, i)) : out[q].call = Missing(items, i)[n]
    BY <1>15, <1>19
  <2> QED
    BY <1>7, <1>9, <2>3, <2>4, MissingIs
<1>20. CASE p # head[k] /\ q = head[l]
  <2>1. k = l /\ head[k] < p
    BY <1>5, <1>17, <1>20 DEF k
  <2> QED
    BY <1>8, <1>16, <1>20, <2>1
<1>21. CASE p # head[k] /\ q # head[l]
  <2>1. k = l
    BY <1>17, <1>21
  <2>2. PICK m \in 1..Len(Missing(items, i)) : p = head[k] + m /\ out[p].call = Missing(items, i)[m]
    BY <1>14, <1>21
  <2>3. PICK n \in 1..Len(Missing(items, i)) : q = head[l] + n /\ out[q].call = Missing(items, i)[n]
    BY <1>15, <1>21
  <2>4. m = n
    BY <1>7, <1>9, <2>2, <2>3, MissingIs
  <2>5. p = q
    BY <2>1, <2>2, <2>3, <2>4
  <2> QED
    BY <1>8, <1>16, <2>5
<1> QED
  BY <1>18, <1>19, <1>20, <1>21

\* It leaves alone what is answered.
LEMMA InsertIdle ==
    ASSUME NEW items \in Seq(Item), Answered(items)
    PROVE  RepairDanglingToolCalls(items) = items
<1> DEFINE B == [k \in DOMAIN items |-> <<items[k]>> \o Synthetic(items, k)]
<1>1. Len(items) \in Nat /\ DOMAIN items = 1..Len(items) /\ \A k \in 1..Len(items) : items[k] \in Item
  BY LenProperties
<1>2. ASSUME NEW k \in 1..Len(items)  PROVE Synthetic(items, k) = <<>>
  <2>1. CASE Owners(items, k) = {}
    BY <2>1, SyntheticIs
  <2>2. CASE Owners(items, k) # {}
    <3>1. PICK i \in Owners(items, k) : TRUE
      BY <2>2
    <3>2. i \in 1..Len(items)
      BY <1>1, <3>1 DEF Owners
    <3>3. ToSet(items[i].calls) \subseteq RunCalls(items, i)
      BY <3>2 DEF Answered
    <3>4. Len(Missing(items, i)) \in Nat /\ 1..Len(Missing(items, i)) = {}
      BY <3>2, <3>3, MissingIs, LenProperties
    <3>5. Len(Missing(items, i)) = 0
      <4> DEFINE n == Len(Missing(items, i))
      <4>1. n \in Nat /\ 1..n = {}
        BY <3>4
      <4> HIDE DEF n
      <4>2. n # 0 => 1 \in 1..n
        BY <4>1
      <4>3. n = 0
        BY <4>1, <4>2
      <4> QED
        BY <4>3 DEF n
    <3>6. Synthetic(items, k) \in Seq(Item) /\ Len(Synthetic(items, k)) = 0
      BY <3>1, <3>5, SyntheticIs
    <3> QED
      BY <3>6, EmptySeq
  <2> QED
    BY <2>1, <2>2
<1>3. \A k \in 1..Len(items) : B[k] = <<items[k]>> /\ B[k] \in Seq(Item)
  <2> TAKE k \in 1..Len(items)
  <2>1. <<items[k]>> \in Seq(Item)
    BY <1>1
  <2>2. <<items[k]>> \o <<>> = <<items[k]>>
    BY <2>1, ConcatEmptySeq
  <2> QED
    BY <1>1, <1>2, <2>1, <2>2
<1>4. B \in Seq(Seq(Item)) /\ Len(B) = Len(items)
  <2>1. B = [k \in 1..Len(items) |-> B[k]]
    BY <1>1
  <2> HIDE DEF B
  <2>2. B \in [1..Len(items) -> Seq(Item)]
    BY <1>3, <2>1
  <2> QED
    BY <1>1, <2>2, SeqDef, LenProperties
<1>5. FlattenSeq(B) = items
  <2> HIDE DEF B
  <2> QED
    BY <1>3, <1>4, FlattenSingles
<1> QED
  BY <1>5 DEF RepairDanglingToolCalls

-----------------------------------------------------------------------------
(* The repairs as a whole. *)

\* A repair at a write boundary, or before a request, pairs every call with one result.
THEOREM IntegritySound ==
    ASSUME NEW items \in Seq(Item)
    PROVE  /\ Integrity(items) \in Seq(Item)
           /\ Single(Integrity(items)) /\ Answered(Integrity(items))
           /\ Neat(items) => Neat(Integrity(items))
<1>1. /\ DedupDuplicateToolResults(items) \in Seq(Item) /\ Single(DedupDuplicateToolResults(items))
      /\ Neat(items) => Neat(DedupDuplicateToolResults(items))
  BY DedupSound
<1> QED
  BY <1>1, InsertShape, InsertAnswers, InsertKeepsSingle, InsertKeepsNeat DEF Integrity

\* The out-of-band repair moreover leaves no result astray, and is idempotent.
THEOREM RepairedSound ==
    ASSUME NEW items \in Seq(Item)
    PROVE  /\ Repaired(items) \in Seq(Item)
           /\ Neat(Repaired(items))
           /\ Repaired(Repaired(items)) = Repaired(items)
<1> DEFINE dedup == DedupDuplicateToolResults(items)
           strip == StripDisplacedToolResults(dedup)
           out   == RepairDanglingToolCalls(strip)
<1>1. dedup \in Seq(Item) /\ Single(dedup)
  BY DedupSound
<1> HIDE DEF dedup
<1>2. strip \in Seq(Item) /\ Neat(strip) /\ Single(strip)
  BY <1>1, StripSound
<1> HIDE DEF strip
<1>3. out \in Seq(Item) /\ Answered(out) /\ Neat(out) /\ Single(out)
  BY <1>2, InsertShape, InsertAnswers, InsertKeepsSingle, InsertKeepsNeat
<1> HIDE DEF out
<1>4. Repaired(out) = out
  BY <1>3, DedupIdle, StripIdle, InsertIdle DEF Repaired
<1> QED
  BY <1>3, <1>4 DEF Repaired, out, strip, dedup

\* Where no call has two answers and every call has one, it has exactly one.
LEMMA PairedOnce ==
    ASSUME NEW items \in Seq(Item), Single(items), Answered(items),
           NEW i \in 1..Len(items), NEW c \in ToSet(items[i].calls)
    PROVE  Cardinality({k \in DOMAIN items : InRun(items, i, k) /\ items[k].call = c}) = 1
<1> DEFINE S == {k \in DOMAIN items : InRun(items, i, k) /\ items[k].call = c}
<1>1. Len(items) \in Nat /\ DOMAIN items = 1..Len(items)
  BY LenProperties
<1>2. HasCalls(items[i])
  BY ItemFacts, ElementOfSeq
<1>3. c \in RunCalls(items, i)
  BY DEF Answered
<1>4. PICK k \in i + 1..Len(items) : InRun(items, i, k) /\ items[k].call = c
  BY <1>3 DEF RunCalls
<1>5. k \in S
  BY <1>1, <1>4
<1>6. ASSUME NEW a \in S, NEW b \in S, a < b  PROVE FALSE
  <2>1. /\ InRun(items, i, a) /\ items[a].call = c /\ a \in 1..Len(items)
        /\ InRun(items, i, b) /\ items[b].call = c /\ b \in 1..Len(items)
    BY <1>1
  <2>2. i < a /\ i \in 1..a - 1 /\ b \in a + 1..Len(items) /\ a \in i + 1..a
    BY <1>1, <1>6, <2>1 DEF InRun
  <2>3. IsResult(items[a])
    BY <2>1, <2>2 DEF InRun
  <2>4. Superseded(items, a)
    BY <1>2, <2>1, <2>2, <2>3 DEF Superseded
  <2> QED
    BY <2>1, <2>4 DEF Single
<1>7. \A j \in S : j = k
  <2> TAKE j \in S
  <2>1. j \in Nat /\ k \in Nat
    BY <1>1, <1>4
  <2>2. ~ (j < k) /\ ~ (k < j)
    <3> HIDE DEF S
    <3> QED  BY <1>5, <1>6
  <2> QED
    BY <2>1, <2>2
<1>8. S = {k}
  <2> HIDE DEF S
  <2> QED  BY <1>5, <1>7
<1>9. Cardinality({k}) = 1
  BY FS_Singleton
<1> QED
  BY <1>8, <1>9

-----------------------------------------------------------------------------
(* The first item, and changes of text. *)

\* The history starts with a system message.
Headed(items) == Len(items) >= 1 /\ items[1].kind = "system"

\* The last run of results is that of a message with these calls.
Open(items, calls) ==
    \E i \in 1..Len(items) : /\ calls \subseteq ToSet(items[i].calls)
                             /\ \A m \in i + 1..Len(items) : IsResult(items[m])

\* Two histories that differ in their texts at most.
Alike(items, out) ==
    /\ Len(out) = Len(items)
    /\ \A k \in 1..Len(items) : /\ out[k].kind = items[k].kind /\ out[k].calls = items[k].calls
                                /\ out[k].call = items[k].call /\ out[k].prompt = items[k].prompt

\* What a change of texts cannot disturb.
LEMMA AlikeKeeps ==
    ASSUME NEW items \in Seq(Item), NEW out \in Seq(Item), Alike(items, out)
    PROVE  /\ Neat(items) => Neat(out)
           /\ \A calls : Open(items, calls) => Open(out, calls)
           /\ Headed(items) => Headed(out)
           /\ Single(items) => Single(out)
           /\ Answered(items) => Answered(out)
<1>1. Len(items) \in Nat /\ Len(out) = Len(items)
  BY LenProperties DEF Alike
<1>2. \A k \in 1..Len(items) : /\ IsResult(out[k]) <=> IsResult(items[k])
                               /\ HasCalls(out[k]) <=> HasCalls(items[k])
                               /\ out[k].calls = items[k].calls /\ out[k].call = items[k].call
  BY DEF Alike, IsResult, HasCalls
<1>3. ASSUME NEW i \in 1..Len(items), NEW k \in 1..Len(items)
      PROVE  InRun(out, i, k) <=> InRun(items, i, k)
  <2>1. \A m \in i + 1..k : m \in 1..Len(items)
    BY <1>1
  <2> QED
    BY <1>2, <2>1 DEF InRun
<1>4. ASSUME NEW k \in 1..Len(items), Displaced(out, k)  PROVE Displaced(items, k)
  <2>1. \A i \in 1..k - 1 : i \in 1..Len(items)
    BY <1>1
  <2> QED
    BY <1>2, <1>3, <1>4, <2>1 DEF Displaced
<1>5. ASSUME NEW k \in 1..Len(items), Superseded(out, k)  PROVE Superseded(items, k)
  <2>1. (\A i \in 1..k - 1 : i \in 1..Len(items)) /\ (\A l \in k + 1..Len(items) : l \in 1..Len(items))
    BY <1>1
  <2> QED
    BY <1>1, <1>2, <1>3, <1>5, <2>1 DEF Superseded
<1>6. ASSUME NEW calls, Open(items, calls)  PROVE Open(out, calls)
  <2>1. PICK i \in 1..Len(items) : /\ calls \subseteq ToSet(items[i].calls)
                                   /\ \A m \in i + 1..Len(items) : IsResult(items[m])
    BY <1>6 DEF Open
  <2>2. \A m \in i + 1..Len(items) : m \in 1..Len(items)
    BY <1>1
  <2> QED
    BY <1>1, <1>2, <2>1, <2>2 DEF Open
<1>7. Headed(items) => Headed(out)
  BY <1>1 DEF Headed, Alike
<1>8. ASSUME NEW i \in 1..Len(items), NEW c \in RunCalls(items, i)  PROVE c \in RunCalls(out, i)
  <2>1. PICK k \in i + 1..Len(items) : InRun(items, i, k) /\ items[k].call = c
    BY DEF RunCalls
  <2>2. k \in 1..Len(items) /\ k \in i + 1..Len(out)
    BY <1>1
  <2>3. InRun(out, i, k) /\ out[k].call = c
    BY <1>2, <1>3, <2>1, <2>2
  <2> QED
    BY <2>2, <2>3 DEF RunCalls
<1>9. Answered(items) => Answered(out)
  <2> SUFFICES ASSUME Answered(items), NEW i \in 1..Len(items), NEW c \in ToSet(out[i].calls)
               PROVE  c \in RunCalls(out, i)
    BY <1>1 DEF Answered
  <2>1. c \in RunCalls(items, i)
    BY <1>2 DEF Answered
  <2> QED
    BY <1>8, <2>1
<1> QED
  BY <1>1, <1>4, <1>5, <1>6, <1>7, <1>9 DEF Neat, Single

\* A beginning of a neat history is neat: what answers what is settled from the front.
LEMMA NeatPrefix ==
    ASSUME NEW items \in Seq(Item), NEW out \in Seq(Item), Len(out) <= Len(items),
           \A k \in 1..Len(out) : out[k] = items[k]
    PROVE  Neat(items) => Neat(out)
<1>1. Len(items) \in Nat /\ Len(out) \in Nat
  BY LenProperties
<1>2. ASSUME NEW k \in 1..Len(out), Displaced(out, k)  PROVE k \in 1..Len(items) /\ Displaced(items, k)
  <2>1. k \in 1..Len(items)
    BY <1>1
  <2>2. ASSUME NEW i \in 1..k - 1  PROVE out[i] = items[i] /\ (InRun(items, i, k) => InRun(out, i, k))
    <3>1. i \in 1..Len(out) /\ \A m \in i + 1..k : m \in 1..Len(out)
      BY <1>1
    <3> QED
      BY <3>1 DEF InRun
  <2> QED
    BY <1>2, <2>1, <2>2 DEF Displaced
<1> QED
  BY <1>2 DEF Neat

\* What the first one of two sequences holds keeps its place when they are joined.
LEMMA NeatClosed ==
    ASSUME NEW s \in Seq(Item), NEW t \in Seq(Item), Neat(s \o t)
    PROVE  Neat(s)
<1> DEFINE all == s \o t
<1>1. Len(s) \in Nat /\ Len(t) \in Nat
  BY LenProperties
<1>2. all \in Seq(Item) /\ Len(all) = Len(s) + Len(t)
      /\ \A j \in 1..Len(s) + Len(t) : all[j] = IF j <= Len(s) THEN s[j] ELSE t[j - Len(s)]
  BY ConcatProperties
<1> HIDE DEF all
<1>3. Len(s) <= Len(all) /\ \A k \in 1..Len(s) : s[k] = all[k]
  BY <1>1, <1>2
<1>4. Neat(all)
  BY DEF all
<1> QED
  BY <1>2, <1>3, <1>4, NeatPrefix

\* A pushed item is astray only when it is a result nobody behind it asked for.
LEMMA NeatAppend ==
    ASSUME NEW items \in Seq(Item), NEW item \in Item, Neat(items),
           IsResult(item) => Open(items, {item.call})
    PROVE  Neat(Append(items, item))
<1> DEFINE out == Append(items, item)
           N   == Len(items)
<1>1. N \in Nat /\ out \in Seq(Item) /\ Len(out) = N + 1 /\ out[N + 1] = item
      /\ \A k \in 1..N : out[k] = items[k]
  BY AppendProperties, LenProperties
<1> HIDE DEF out
<1>2. ASSUME NEW k \in 1..N  PROVE ~Displaced(out, k)
  <2>1. ASSUME NEW i \in 1..k - 1  PROVE out[i] = items[i] /\ (InRun(items, i, k) => InRun(out, i, k))
    <3>1. i \in 1..N /\ \A m \in i + 1..k : m \in 1..N
      BY <1>1
    <3> QED
      BY <1>1, <3>1 DEF InRun
  <2> QED
    BY <1>1, <2>1 DEF Neat, Displaced
<1>3. ~Displaced(out, N + 1)
  <2>1. CASE ~IsResult(item)
    BY <1>1, <2>1 DEF Displaced
  <2>2. CASE IsResult(item)
    <3>1. PICK i \in 1..N : /\ {item.call} \subseteq ToSet(items[i].calls)
                            /\ \A m \in i + 1..N : IsResult(items[m])
      BY <2>2 DEF Open
    <3>2. \A m \in i + 1..N + 1 : m = N + 1 \/ (m \in i + 1..N /\ m \in 1..N)
      BY <1>1
    <3>3. \A m \in i + 1..N + 1 : IsResult(out[m])
      BY <1>1, <2>2, <3>1, <3>2
    <3>4. i < N + 1 /\ i \in 1..(N + 1) - 1
      BY <1>1
    <3> QED
      BY <1>1, <3>1, <3>3, <3>4 DEF Displaced, InRun
  <2> QED
    BY <2>1, <2>2
<1>4. \A k \in 1..N + 1 : k \in 1..N \/ k = N + 1
  BY <1>1
<1> QED
  BY <1>1, <1>2, <1>3, <1>4 DEF out, Neat

\* A result keeps the run it is pushed on open; a message with calls opens its own.
LEMMA OpenAppend ==
    ASSUME NEW items \in Seq(Item), NEW item \in Item, NEW calls
    PROVE  /\ IsResult(item) /\ Open(items, calls) => Open(Append(items, item), calls)
           /\ calls \subseteq ToSet(item.calls) => Open(Append(items, item), calls)
<1> DEFINE out == Append(items, item)
           N   == Len(items)
<1>1. N \in Nat /\ out \in Seq(Item) /\ Len(out) = N + 1 /\ out[N + 1] = item
      /\ \A k \in 1..N : out[k] = items[k]
  BY AppendProperties, LenProperties
<1> HIDE DEF out
<1>2. ASSUME IsResult(item), Open(items, calls)  PROVE Open(out, calls)
  <2>1. PICK i \in 1..N : calls \subseteq ToSet(items[i].calls) /\ \A m \in i + 1..N : IsResult(items[m])
    BY <1>2 DEF Open
  <2>2. \A m \in i + 1..N + 1 : m = N + 1 \/ (m \in i + 1..N /\ m \in 1..N)
    BY <1>1
  <2>3. \A m \in i + 1..N + 1 : IsResult(out[m])
    BY <1>1, <1>2, <2>1, <2>2
  <2>4. i \in 1..N + 1 /\ out[i] = items[i]
    BY <1>1
  <2> QED
    BY <1>1, <2>1, <2>3, <2>4 DEF Open
<1>3. ASSUME calls \subseteq ToSet(item.calls)  PROVE Open(out, calls)
  <2>1. N + 1 \in 1..N + 1 /\ \A m \in (N + 1) + 1..N + 1 : FALSE
    BY <1>1
  <2> QED
    BY <1>1, <1>3, <2>1 DEF Open
<1> QED
  BY <1>2, <1>3 DEF out

\* Fewer calls leave the run as open.
LEMMA OpenFewer ==
    ASSUME NEW items, NEW calls, NEW fewer \in SUBSET calls, Open(items, calls)
    PROVE  Open(items, fewer)
  BY DEF Open

\* A push leaves the head where it is.
LEMMA HeadedAppend ==
    ASSUME NEW items \in Seq(Item), NEW item \in Item, Headed(items)
    PROVE  Headed(Append(items, item))
<1>1. Len(items) \in Nat /\ Len(items) >= 1
  BY LenProperties DEF Headed
<1>2. 1 \in 1..Len(items) /\ Len(items) + 1 >= 1
  BY <1>1
<1> QED
  BY <1>2, AppendProperties DEF Headed

-----------------------------------------------------------------------------
(* Pruning, heads, cuts, compactions. *)

\* Another text makes another item.
LEMMA TextIsFree ==
    ASSUME NEW item \in Item, NEW text \in {"plain", "other", "memory", "synthetic", "cleared"}
    PROVE  /\ [item EXCEPT !.text = text] \in Item
           /\ [item EXCEPT !.text = text].kind = item.kind
           /\ [item EXCEPT !.text = text].calls = item.calls
           /\ [item EXCEPT !.text = text].call = item.call
           /\ [item EXCEPT !.text = text].prompt = item.prompt
<1> DEFINE new == [item EXCEPT !.text = text]
<1>1. item \in [kind : {"system", "user", "reminder", "assistant", "result"},
                calls : {calls \in Seq(CallIds) : IsInjective(calls)},
                call : CallIds \cup {None},
                prompt : 0..MaxPrompts \cup {None},
                text : {"plain", "other", "memory", "synthetic", "cleared"}]
  BY DEF Item
<1>2. /\ new \in [kind : {"system", "user", "reminder", "assistant", "result"},
                  calls : {calls \in Seq(CallIds) : IsInjective(calls)},
                  call : CallIds \cup {None},
                  prompt : 0..MaxPrompts \cup {None},
                  text : {"plain", "other", "memory", "synthetic", "cleared"}]
      /\ new.kind = item.kind /\ new.calls = item.calls
      /\ new.call = item.call /\ new.prompt = item.prompt
  BY <1>1
<1> HIDE DEF new
<1>3. new \in Item
  BY <1>2 DEF Item
<1> QED
  BY <1>2, <1>3 DEF new

\* Pruning changes the text of results only, and only of old ones.
LEMMA PrunedShape ==
    ASSUME NEW items \in Seq(Item)
    PROVE  /\ Pruned(items) \in Seq(Item) /\ Alike(items, Pruned(items))
           /\ \A k \in 1..Len(items) : Pruned(items)[k] # items[k] =>
                 /\ IsResult(items[k]) /\ ~ (promptIndex < HardClearAge)
                 /\ (IF Users(items, k) = 0 THEN 0 ELSE Users(items, k) - 1) >= EffectiveThreshold(items)
<1> DEFINE old(k) == /\ IsResult(items[k])
                     /\ (IF Users(items, k) = 0 THEN 0 ELSE Users(items, k) - 1)
                           >= EffectiveThreshold(items)
           new == [k \in DOMAIN items |-> IF old(k) THEN [items[k] EXCEPT !.text = "cleared"] ELSE items[k]]
           N   == Len(items)
<1>1. N \in Nat /\ DOMAIN items = 1..N /\ \A k \in 1..N : items[k] \in Item
  BY LenProperties
<1>2. CASE promptIndex < HardClearAge
  <2>1. Pruned(items) = items
    BY <1>2 DEF Pruned
  <2> QED
    BY <1>1, <2>1 DEF Alike
<1>3. CASE ~ (promptIndex < HardClearAge)
  <2>1. Pruned(items) = new
    BY <1>3 DEF Pruned
  <2> HIDE DEF old
  <2>2. \A k \in 1..N : new[k] = IF old(k) THEN [items[k] EXCEPT !.text = "cleared"] ELSE items[k]
    BY <1>1
  <2>3. new = [k \in 1..N |-> new[k]]
    BY <1>1
  <2> HIDE DEF new
  <2>4. \A k \in 1..N : /\ new[k] \in Item
                        /\ new[k].kind = items[k].kind /\ new[k].calls = items[k].calls
                        /\ new[k].call = items[k].call /\ new[k].prompt = items[k].prompt
    <3> TAKE k \in 1..N
    <3>1. items[k] \in Item
      BY <1>1
    <3> DEFINE cleared == [items[k] EXCEPT !.text = "cleared"]
    <3>2. /\ cleared \in Item /\ cleared.kind = items[k].kind /\ cleared.calls = items[k].calls
          /\ cleared.call = items[k].call /\ cleared.prompt = items[k].prompt
      BY <3>1, TextIsFree
    <3>3. new[k] = cleared \/ new[k] = items[k]
      BY <2>2
    <3> HIDE DEF cleared
    <3> QED
      BY <3>1, <3>2, <3>3
  <2>5. new \in [1..N -> Item]
    BY <2>3, <2>4
  <2>6. new \in Seq(Item) /\ Len(new) = N
    BY <1>1, <2>5, SeqDef, LenProperties
  <2>7. Alike(items, new)
    BY <2>4, <2>6 DEF Alike
  <2>8. \A k \in 1..N : new[k] # items[k] => old(k)
    BY <2>2
  <2> QED
    BY <1>3, <2>1, <2>6, <2>7, <2>8 DEF old
<1> QED
  BY <1>2, <1>3

\* An item put in front moves the others by one place.
LEMMA Shifted ==
    ASSUME NEW item \in Item, NEW items \in Seq(Item)
    PROVE  /\ <<item>> \o items \in Seq(Item) /\ Len(<<item>> \o items) = Len(items) + 1
           /\ (<<item>> \o items)[1] = item
           /\ \A k \in 1..Len(items) : (<<item>> \o items)[k + 1] = items[k]
           /\ Neat(items) /\ ~IsResult(item) => Neat(<<item>> \o items)
<1> DEFINE one == <<item>>
           out == one \o items
           N   == Len(items)
<1>1. one \in Seq(Item) /\ Len(one) = 1 /\ one[1] = item
  OBVIOUS
<1>2. N \in Nat
  BY LenProperties
<1> HIDE DEF one
<1>3. /\ out \in Seq(Item) /\ Len(out) = N + 1
      /\ \A j \in 1..N + 1 : out[j] = IF j <= 1 THEN one[j] ELSE items[j - 1]
  <2>1. /\ out \in Seq(Item) /\ Len(out) = Len(one) + N
        /\ \A j \in 1..Len(one) + N : out[j] = IF j <= Len(one) THEN one[j] ELSE items[j - Len(one)]
    BY <1>1, ConcatProperties
  <2>2. Len(one) + N = N + 1
    BY <1>1, <1>2
  <2> QED
    BY <1>1, <2>1, <2>2
<1> HIDE DEF out
<1>4. out[1] = item
  BY <1>1, <1>2, <1>3
<1>5. \A k \in 1..N : out[k + 1] = items[k]
  <2> TAKE k \in 1..N
  <2>1. k + 1 \in 1..N + 1 /\ ~ (k + 1 <= 1) /\ (k + 1) - 1 = k
    BY <1>2
  <2>2. out[k + 1] = items[(k + 1) - 1]
    BY <1>3, <2>1
  <2> QED
    BY <2>1, <2>2
<1>6. ASSUME Neat(items), ~IsResult(item), NEW k \in 1..N + 1  PROVE ~Displaced(out, k)
  <2>1. CASE k = 1
    BY <1>4, <1>6, <2>1 DEF Displaced
  <2>2. CASE k # 1
    <3> DEFINE j == k - 1
    <3>1. j \in 1..N /\ k = j + 1
      BY <1>2, <2>2
    <3> HIDE DEF j
    <3>2. SUFFICES ASSUME IsResult(out[k])
                   PROVE  \E i \in 1..k - 1 : out[k].call \in ToSet(out[i].calls) /\ InRun(out, i, k)
      BY DEF Displaced
    <3>3. out[k] = items[j]
      BY <1>5, <3>1
    <3>4. PICK i \in 1..j - 1 : items[j].call \in ToSet(items[i].calls) /\ InRun(items, i, j)
      BY <1>6, <3>1, <3>2, <3>3 DEF Neat, Displaced
    <3>5. i \in 1..N /\ i + 1 \in 1..k - 1 /\ i + 1 < k
      BY <1>2, <3>1
    <3>6. ASSUME NEW m \in (i + 1) + 1..k  PROVE IsResult(out[m])
      <4> DEFINE l == m - 1
      <4>1. l \in i + 1..j /\ l \in 1..N /\ m = l + 1
        BY <1>2, <3>1, <3>5
      <4> HIDE DEF l
      <4>2. out[m] = items[l] /\ IsResult(items[l])
        BY <1>5, <3>4, <4>1 DEF InRun
      <4> QED
        BY <4>2
    <3>7. InRun(out, i + 1, k)
      BY <3>5, <3>6 DEF InRun
    <3>8. out[i + 1] = items[i]
      BY <1>5, <3>5
    <3> QED
      BY <3>3, <3>4, <3>5, <3>7, <3>8
  <2> QED
    BY <2>1, <2>2
<1>7. Neat(items) /\ ~IsResult(item) => Neat(out)
  BY <1>3, <1>6 DEF Neat
<1> QED
  BY <1>3, <1>4, <1>5, <1>7 DEF out, one

\* A system head is an item.
LEMMA SystemIs ==
    ASSUME NEW text \in {"plain", "other", "memory"}
    PROVE  System(text) \in Item /\ System(text).kind = "system"
<1>1. <<>> \in {calls \in Seq(CallIds) : IsInjective(calls)}
  BY EmptySeq DEF IsInjective
<1> QED
  BY <1>1 DEF System, Bare, Item

\* replace_or_insert_system_head leaves a history with a head, as neat as it was.
LEMMA WithHeadShape ==
    ASSUME NEW items \in Seq(Item), NEW text \in {"plain", "other", "memory"}
    PROVE  /\ WithHead(items, text) \in Seq(Item) /\ Headed(WithHead(items, text))
           /\ Neat(items) => Neat(WithHead(items, text))
           /\ Headed(items) => Alike(items, WithHead(items, text))
<1>1. Len(items) \in Nat /\ DOMAIN items = 1..Len(items) /\ \A k \in 1..Len(items) : items[k] \in Item
  BY LenProperties
<1>2. items # <<>> <=> Len(items) >= 1
  BY <1>1, EmptySeq
<1>3. CASE Headed(items)
  <2> DEFINE out  == [items EXCEPT ![1].text = text]
             head == [items[1] EXCEPT !.text = text]
  <2>1. WithHead(items, text) = out
    BY <1>2, <1>3 DEF WithHead, Headed
  <2>2. 1 \in 1..Len(items) /\ items[1] \in Item
    BY <1>1, <1>3 DEF Headed
  <2>3. /\ head \in Item /\ head.kind = items[1].kind /\ head.calls = items[1].calls
        /\ head.call = items[1].call /\ head.prompt = items[1].prompt
    <3> DEFINE first == items[1]
    <3>1. first \in Item /\ text \in {"plain", "other", "memory", "synthetic", "cleared"}
      BY <2>2
    <3> HIDE DEF first
    <3>2. /\ [first EXCEPT !.text = text] \in Item
          /\ [first EXCEPT !.text = text].kind = first.kind
          /\ [first EXCEPT !.text = text].calls = first.calls
          /\ [first EXCEPT !.text = text].call = first.call
          /\ [first EXCEPT !.text = text].prompt = first.prompt
      BY <3>1, TextIsFree
    <3> QED
      BY <3>2 DEF first
  <2>4. out = [k \in 1..Len(items) |-> IF k = 1 THEN head ELSE items[k]]
    BY <1>1
  <2> HIDE DEF head, out
  <2>5. out \in [1..Len(items) -> Item]
    BY <1>1, <2>3, <2>4
  <2>6. out \in Seq(Item) /\ Len(out) = Len(items)
    BY <1>1, <2>5, SeqDef, LenProperties
  <2>7. \A k \in 1..Len(items) : out[k] = IF k = 1 THEN head ELSE items[k]
    BY <2>4
  <2>8. Alike(items, out)
    BY <2>3, <2>6, <2>7 DEF Alike
  <2> QED
    BY <1>3, <2>1, <2>6, <2>8, AlikeKeeps
<1>4. CASE ~Headed(items)
  <2>1. WithHead(items, text) = <<System(text)>> \o items
    BY <1>2, <1>4 DEF WithHead, Headed
  <2>2. System(text) \in Item /\ System(text).kind = "system" /\ ~IsResult(System(text))
    BY SystemIs DEF IsResult
  <2> DEFINE out == <<System(text)>> \o items
  <2>3. out \in Seq(Item) /\ Len(out) = Len(items) + 1 /\ out[1] = System(text) /\ (Neat(items) => Neat(out))
    BY <2>2, Shifted
  <2> HIDE DEF out
  <2>4. Headed(out)
    BY <1>1, <2>2, <2>3 DEF Headed
  <2>5. WithHead(items, text) = out
    BY <2>1 DEF out
  <2> QED
    BY <1>4, <2>3, <2>4, <2>5
<1> QED
  BY <1>3, <1>4

\* The passes leave a first item that is no result where it is.
LEMMA SievedFirst ==
    ASSUME NEW items \in Seq(Item), NEW out \in Seq(Item), NEW D, NEW src,
           Sieved(src, items, D, out),
           \A k \in 1..Len(items) : k \in D => IsResult(items[k]), Headed(items)
    PROVE  Headed(out)
<1>1. Len(items) \in Nat /\ Len(out) \in Nat
  BY LenProperties
<1>2. 1 \in 1..Len(items) /\ 1 \notin D /\ items[1].kind = "system"
  BY <1>1 DEF Headed, IsResult
<1>3. PICK p \in 1..Len(out) : src[p] = 1
  BY <1>2 DEF Sieved
<1>4. 1 \in 1..Len(out) /\ src[1] \in 1..Len(items)
  BY <1>1, <1>3 DEF Sieved
<1>5. ~ (1 < p)
  <2>1. 1 < p => src[1] < src[p]
    BY <1>3, <1>4 DEF Sieved
  <2>2. src[1] \in Nat /\ src[1] >= 1
    BY <1>1, <1>4
  <2> QED
    BY <1>3, <2>1, <2>2
<1>6. p = 1
  BY <1>1, <1>3, <1>5
<1>7. out[1] = items[1]
  BY <1>3, <1>4, <1>6 DEF Sieved
<1> QED
  BY <1>1, <1>2, <1>4, <1>7 DEF Headed

\* The deduplication leaves the head where it is.
LEMMA DedupHeaded ==
    ASSUME NEW items \in Seq(Item), Headed(items)
    PROVE  Headed(DedupDuplicateToolResults(items))
<1> DEFINE D == {k \in DOMAIN items : Superseded(items, k)}
           out == Without(items, D)
<1>1. out \in Seq(Item)
  BY WithoutShape
<1>2. PICK src \in [1..Len(out) -> 1..Len(items)] : Sieved(src, items, D, out)
  BY WithoutShape
<1>3. \A k \in 1..Len(items) : k \in D => IsResult(items[k])
  BY DEF Superseded
<1> HIDE DEF out, D
<1>4. Headed(out)
  BY <1>1, <1>2, <1>3, SievedFirst
<1> QED
  BY <1>4 DEF out, D, DedupDuplicateToolResults

\* The strip leaves the head where it is.
LEMMA StripHeaded ==
    ASSUME NEW items \in Seq(Item), Headed(items)
    PROVE  Headed(StripDisplacedToolResults(items))
<1> DEFINE D == {k \in DOMAIN items : Displaced(items, k)}
           out == Without(items, D)
<1>1. out \in Seq(Item)
  BY WithoutShape
<1>2. PICK src \in [1..Len(out) -> 1..Len(items)] : Sieved(src, items, D, out)
  BY WithoutShape
<1>3. \A k \in 1..Len(items) : k \in D => IsResult(items[k])
  BY DEF Displaced
<1> HIDE DEF out, D
<1>4. Headed(out)
  BY <1>1, <1>2, <1>3, SievedFirst
<1> QED
  BY <1>4 DEF out, D, StripDisplacedToolResults

\* The completion of the runs leaves the head where it is.
LEMMA InsertHeaded ==
    ASSUME NEW items \in Seq(Item), Headed(items)
    PROVE  Headed(RepairDanglingToolCalls(items))
<1> DEFINE out == RepairDanglingToolCalls(items)
<1>1. out \in Seq(Item)
  BY InsertShape
<1>2. PICK src, head : Inserted(src, head, items, out)
  BY InsertShape
<1> HIDE DEF out
<1>3. Len(items) \in Nat /\ Len(out) \in Nat /\ 1 \in 1..Len(items)
  BY <1>1, LenProperties DEF Headed
<1>4. head[1] \in 1..Len(out) /\ out[head[1]] = items[1]
  BY <1>2, <1>3 DEF Inserted
<1>5. 1 \in 1..Len(out)
  BY <1>3, <1>4
<1>6. src[1] \in 1..Len(items) /\ head[src[1]] <= 1 /\ head[src[1]] \in 1..Len(out)
  BY <1>2, <1>5 DEF Inserted
<1>7. head[src[1]] = 1
  BY <1>3, <1>6
<1>8. ~ (1 < src[1])
  <2>1. 1 < src[1] => head[1] < head[src[1]]
    BY <1>1, <1>2, <1>3, <1>6, InsertedHeads
  <2> QED
    BY <1>3, <1>4, <1>7, <2>1
<1>9. src[1] = 1
  BY <1>3, <1>6, <1>8
<1>10. out[1] = items[1]
  BY <1>4, <1>7, <1>9
<1> QED
  BY <1>3, <1>5, <1>10 DEF Headed, out

\* The two repairs composed of these leave the head where it is.
LEMMA RepairsHeaded ==
    ASSUME NEW items \in Seq(Item), Headed(items)
    PROVE  Headed(Integrity(items)) /\ Headed(Repaired(items))
<1> DEFINE dedup == DedupDuplicateToolResults(items)
<1>1. dedup \in Seq(Item) /\ Headed(dedup)
  BY DedupSound, DedupHeaded
<1> HIDE DEF dedup
<1>2. StripDisplacedToolResults(dedup) \in Seq(Item) /\ Headed(StripDisplacedToolResults(dedup))
  BY <1>1, StripSound, StripHeaded
<1> QED
  BY <1>1, <1>2, InsertHeaded DEF Integrity, Repaired, dedup

\* A set of natural numbers has its minimum.
LEMMA MinIs ==
    ASSUME NEW T, T \subseteq Nat, T # {}
    PROVE  Min(T) \in T /\ \A k \in T : Min(T) <= k
<1>1. \E m \in T : \A k \in T : m <= k
  BY LeastNatural
<1> QED
  BY <1>1 DEF Min

\* What a cut keeps is a beginning of the history, with its head.
LEMMA TruncateShape ==
    ASSUME NEW items \in Seq(Item), NEW target \in Nat
    PROVE  /\ TruncateForPrompt(items, target) \in Seq(Item)
           /\ Headed(items) => Headed(TruncateForPrompt(items, target))
           /\ Neat(items) => Neat(TruncateForPrompt(items, target))
<1> DEFINE cuts == {k \in DOMAIN items : items[k].prompt # None /\ items[k].prompt >= target}
           out  == SubSeq(items, 1, Min(cuts) - 1)
           N    == Len(items)
<1>1. N \in Nat /\ DOMAIN items = 1..N /\ \A k \in 1..N : items[k] \in Item
  BY LenProperties
<1>2. CASE cuts = {}
  BY <1>2 DEF TruncateForPrompt
<1>3. CASE cuts # {}
  <2>1. cuts \subseteq 1..N /\ \A k \in cuts : items[k].prompt # None
    BY <1>1
  <2>2. Headed(items) => 1 \notin cuts
    <3> SUFFICES ASSUME Headed(items)  PROVE items[1].prompt = None
      BY <2>1
    <3>1. 1 \in 1..N /\ items[1].kind = "system"
      BY <1>1 DEF Headed
    <3> QED
      BY <1>1, <3>1, ItemFacts
  <2>3. TruncateForPrompt(items, target) = out
    BY <1>3 DEF TruncateForPrompt
  <2> DEFINE m == Min(cuts) - 1
  <2>4. Min(cuts) \in cuts
    <3>1. cuts \subseteq Nat
      BY <1>1, <2>1
    <3> HIDE DEF cuts
    <3> QED
      BY <1>3, <3>1, MinIs
  <2>5. m \in Nat /\ m <= N /\ (Headed(items) => m >= 1)
    <3> HIDE DEF cuts
    <3>1. Min(cuts) \in 1..N /\ (Headed(items) => Min(cuts) # 1)
      BY <2>1, <2>2, <2>4
    <3> QED
      BY <1>1, <3>1
  <2> HIDE DEF m
  <2>6. out = SubSeq(items, 1, m)
    BY DEF m
  <2> HIDE DEF out, cuts
  <2>7. \A k \in 1..m : items[k] \in Item
    BY <1>1, <2>5
  <2>8. out \in Seq(Item) /\ Len(out) = (IF 1 <= m THEN m - 1 + 1 ELSE 0) /\ \A k \in 1..m - 1 + 1 : out[k] = items[1 + k - 1]
    BY <2>5, <2>6, <2>7, SubSeqProperties
  <2>9. Len(out) = m /\ \A k \in 1..m : out[k] = items[k]
    <3>1. m - 1 + 1 = m /\ (1 <= m \/ m = 0) /\ \A k \in 1..m : 1 + k - 1 = k
      BY <2>5
    <3> QED
      BY <2>5, <2>8, <3>1
  <2>10. Neat(items) => Neat(out)
    BY <1>1, <2>5, <2>8, <2>9, NeatPrefix
  <2>11. Headed(items) => Headed(out)
    <3> SUFFICES ASSUME Headed(items)  PROVE Headed(out)
      OBVIOUS
    <3>1. 1 \in 1..m
      BY <2>5
    <3> QED
      BY <2>5, <2>9, <3>1 DEF Headed
  <2> QED
    BY <2>3, <2>8, <2>10, <2>11
<1> QED
  BY <1>2, <1>3

\* A compacted history has a head and no result.
LEMMA CompactedShape ==
    ASSUME NEW head \in Item, NEW items
    PROVE  /\ Compacted(head, items) \in Seq(Item) /\ Len(Compacted(head, items)) >= 1
           /\ Compacted(head, items)[1] = head
           /\ ~IsResult(head) => Neat(Compacted(head, items))
<1> DEFINE user   == Bare("user")
           front  == <<head, Reminder>>
           middle == IF \E k \in DOMAIN items : items[k].kind = "user" THEN <<user>> ELSE <<>>
           back   == <<Reminder>>
           out    == front \o middle \o back
           Fine   == {item \in Item : ~IsResult(head) => ~IsResult(item)}
<1>1. Reminder \in Fine /\ user \in Fine /\ head \in Fine
  <2>1. <<>> \in {calls \in Seq(CallIds) : IsInjective(calls)}
    BY EmptySeq DEF IsInjective
  <2>2. user \in Item /\ ~IsResult(user)
    BY <2>1 DEF Bare, Item, IsResult
  <2>3. Reminder \in Item /\ ~IsResult(Reminder)
    BY <2>1 DEF Reminder, Bare, Item, IsResult
  <2> QED
    BY <2>2, <2>3
<1>2. Fine \subseteq Item /\ \A item \in Fine : ~IsResult(head) => ~IsResult(item)
  OBVIOUS
<1> HIDE DEF Fine, user
<1>3. front \in Seq(Fine) /\ Len(front) = 2 /\ front[1] = head
  BY <1>1
<1>4. middle \in Seq(Fine)
  BY <1>1, EmptySeq
<1>5. back \in Seq(Fine)
  BY <1>1
<1> HIDE DEF front, middle, back
<1>6. Len(middle) \in Nat /\ Len(back) \in Nat
  BY <1>4, <1>5, LenProperties
<1> DEFINE start == front \o middle
<1>7. start \in Seq(Fine) /\ Len(start) = Len(front) + Len(middle)
      /\ \A j \in 1..Len(front) + Len(middle) :
            start[j] = IF j <= Len(front) THEN front[j] ELSE middle[j - Len(front)]
  BY <1>3, <1>4, ConcatProperties
<1> HIDE DEF start
<1>8. Len(start) = 2 + Len(middle) /\ start[1] = head
  BY <1>3, <1>6, <1>7
<1>9. start \o back \in Seq(Fine) /\ Len(start \o back) = Len(start) + Len(back)
      /\ \A j \in 1..Len(start) + Len(back) :
            (start \o back)[j] = IF j <= Len(start) THEN start[j] ELSE back[j - Len(start)]
  <2>1. start \in Seq(Fine) /\ back \in Seq(Fine)
    BY <1>5, <1>7
  <2> QED
    BY <2>1, ConcatProperties
<1>10. out = start \o back /\ Compacted(head, items) = out
  BY DEF start, out, Compacted, front, middle, back, user
<1> HIDE DEF out
<1>11. out \in Seq(Fine) /\ Len(out) >= 1 /\ out[1] = head /\ Len(out) \in Nat
  BY <1>6, <1>8, <1>9, <1>10
<1>12. \A k \in 1..Len(out) : out[k] \in Fine
  BY <1>11, ElementOfSeq
<1>13. out \in Seq(Item)
  <2>1. out \in [1..Len(out) -> Item]
    <3>1. out \in [1..Len(out) -> Fine]
      BY <1>11, LenProperties
    <3> QED
      BY <1>2, <3>1
  <2> QED
    BY <1>11, <2>1, SeqDef
<1>14. ~IsResult(head) => Neat(out)
  BY <1>2, <1>12 DEF Neat, Displaced
<1> QED
  BY <1>10, <1>11, <1>13, <1>14

\* SetToSeq lists a set of calls, each once.
LEMMA CallsListed ==
    ASSUME NEW calls \in SUBSET CallIds
    PROVE  /\ Assistant(SetToSeq(calls)) \in Item
           /\ ToSet(Assistant(SetToSeq(calls)).calls) = calls
           /\ ~IsResult(Assistant(SetToSeq(calls)))
<1> DEFINE list == SetToSeq(calls)
           n == Cardinality(calls)
<1>1. IsFiniteSet(calls)
  BY Bounds, FS_Subset
<1>2. n \in Nat /\ ExistsBijection(1..n, calls)
  BY <1>1, FS_CardinalityType
<1>3. \E f \in [1..n -> calls] : IsInjective(f)
  BY <1>2 DEF ExistsBijection, Bijection, Injection
<1>4. list \in [1..n -> calls] /\ IsInjective(list)
  BY <1>3 DEF SetToSeq
<1> HIDE DEF list
<1>5. list \in Seq(CallIds) /\ Len(list) = n /\ DOMAIN list = 1..n
  <2>1. list \in [1..n -> CallIds]
    BY <1>4
  <2> QED
    BY <1>2, <2>1, SeqDef, LenProperties
<1>6. ToSet(list) = calls
  <2>1. IsFiniteSet(1..n) /\ Cardinality(1..n) = n
    BY <1>2, FS_Interval
  <2>2. list \in Injection(1..n, calls)
    BY <1>4 DEF Injection
  <2>3. list \in Surjection(1..n, calls)
    <3> HIDE DEF n
    <3> QED
      BY <1>1, <2>1, <2>2, FS_Injection DEF n
  <2>4. \A c \in calls : \E k \in 1..n : list[k] = c
    BY <2>3 DEF Surjection
  <2> QED
    BY <1>4, <1>5, <2>4 DEF ToSet
<1>7. Assistant(list).calls = list /\ Assistant(list).kind = "assistant"
  BY DEF Assistant, Bare
<1>8. Assistant(list) \in Item
  BY <1>4, <1>5 DEF Assistant, Bare, Item
<1> QED
  BY <1>6, <1>7, <1>8 DEF list, IsResult
=============================================================================
