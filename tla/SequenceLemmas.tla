--------------------------- MODULE SequenceLemmas ---------------------------
(***************************************************************************)
(* Facts about numbers and sequences that the proofs of several components *)
(* cite: induction and recursion on numbers, the least and the greatest    *)
(* element of a set of them, and what a prefix of a sequence holds.        *)
(***************************************************************************)
EXTENDS Integers, Sequences, FiniteSetsExt, SequenceTheorems,
        WellFoundedInduction, TLAPS

(* Every nonempty set of naturals has a least element.                     *)
LEMMA LeastElement ==
  ASSUME NEW T \in SUBSET Nat, T # {}
  PROVE  \E x \in T : \A y \in T : x <= y
<1>1. PICK x \in T : \A y \in T : ~(<<y, x>> \in OpToRel(<, Nat))
  BY NatLessThanWellFounded, WFMin, Zenon
<1>2. \A y \in T : <<y, x>> \in OpToRel(<, Nat) <=> y < x
  BY DEF OpToRel
<1>3. \A y \in T : ~(y < x)
  BY <1>1, <1>2, Zenon
<1>4. \A y \in T : x <= y
  BY <1>3
<1>. QED  BY <1>4

(* A set of naturals with 0 and what follows each of its elements is all. *)
LEMMA InductiveSet ==
  ASSUME NEW P \in SUBSET Nat, 0 \in P, \A n \in P : n + 1 \in P
  PROVE  P = Nat
<1>1. SUFFICES ASSUME Nat \ P # {} PROVE FALSE
  OBVIOUS
<1>2. PICK m \in Nat \ P : \A n \in Nat \ P : m <= n
  BY <1>1, LeastElement
<1>3. m # 0 /\ m - 1 \in Nat /\ m - 1 \in P
  BY <1>2
<1>. QED  BY <1>3

(* What is defined by recursion on a number exists.                        *)
Recurs(g, S, s, F) == g \in [Nat -> S] /\ g[0] = s /\ \A n \in Nat : g[n + 1] = F[n][g[n]]

LEMMA Recursion ==
  ASSUME NEW S, NEW s \in S, NEW F \in [Nat -> [S -> S]]
  PROVE  \E g : Recurs(g, S, s, F)
<1> DEFINE Part(n, g) == /\ g \in [0..n -> S] /\ g[0] = s
                         /\ \A k \in 0..n : k # n => g[k + 1] = F[k][g[k]]
           P == {n \in Nat : \E g : Part(n, g)}
<1>1. 0 \in P
  <2>1. Part(0, [k \in 0..0 |-> s])
    OBVIOUS
  <2>. QED  BY <2>1
<1>2. ASSUME NEW n \in P PROVE n + 1 \in P
  <2>1. PICK g : Part(n, g)
    OBVIOUS
  <2>2. g[n] \in S /\ F[n][g[n]] \in S
    BY <2>1
  <2>3. Part(n + 1, [k \in 0..(n + 1) |-> IF k = n + 1 THEN F[n][g[n]] ELSE g[k]])
    BY <2>1, <2>2
  <2>4. \E h : Part(n + 1, h)
    BY <2>3, Zenon
  <2>. QED  BY <2>4
<1>3. P = Nat
  <2> HIDE DEF P
  <2>1. P \in SUBSET Nat
    BY DEF P
  <2>. QED  BY <1>1, <1>2, <2>1, InductiveSet
<1>4. \A n \in Nat : \E g : Part(n, g)
  BY <1>3
<1> DEFINE h == [n \in Nat |-> CHOOSE g : Part(n, g)]
<1>5. \A n \in Nat : Part(n, h[n])
  BY <1>4
<1> HIDE DEF h
<1>6. \A n \in Nat : \A k \in 0..n : h[n + 1][k] = h[n][k]
  <2> SUFFICES ASSUME NEW n \in Nat PROVE \A k \in 0..n : h[n + 1][k] = h[n][k]
    OBVIOUS
  <2> DEFINE Q == {k \in Nat : k <= n => h[n + 1][k] = h[n][k]}
  <2>1. Part(n, h[n]) /\ Part(n + 1, h[n + 1])
    BY <1>5
  <2>2. 0 \in Q
    BY <2>1
  <2>3. ASSUME NEW k \in Q PROVE k + 1 \in Q
    <3>1. SUFFICES ASSUME k + 1 <= n PROVE h[n + 1][k + 1] = h[n][k + 1]
      OBVIOUS
    <3>2. h[n + 1][k] = h[n][k]
      BY <3>1
    <3>3. h[n + 1][k + 1] = F[k][h[n + 1][k]] /\ h[n][k + 1] = F[k][h[n][k]]
      BY <2>1, <3>1
    <3>. QED  BY <3>2, <3>3
  <2>4. Q = Nat
    <3> HIDE DEF Q
    <3>1. Q \in SUBSET Nat
      BY DEF Q
    <3>. QED  BY <2>2, <2>3, <3>1, InductiveSet
  <2>. QED  BY <2>4
<1> DEFINE g == [n \in Nat |-> h[n][n]]
<1>7. g \in [Nat -> S] /\ g[0] = s
  BY <1>5
<1>8. \A n \in Nat : g[n + 1] = F[n][g[n]]
  <2> SUFFICES ASSUME NEW n \in Nat PROVE g[n + 1] = F[n][g[n]]
    OBVIOUS
  <2>1. h[n + 1][n + 1] = F[n][h[n + 1][n]]
    BY <1>5
  <2>. QED  BY <1>6, <2>1
<1>9. Recurs(g, S, s, F)
  BY <1>7, <1>8 DEF Recurs
<1>. QED  BY <1>9

(* A bounded nonempty set of naturals has a greatest element, and it is    *)
(* what Max denotes.                                                       *)
LEMMA GreatestElement ==
  ASSUME NEW n \in Nat, NEW T \in SUBSET (0..n), T # {}
  PROVE  Max(T) \in T /\ \A y \in T : y <= Max(T)
<1> DEFINE D == { n - y : y \in T }
<1>1. D \in SUBSET Nat /\ D # {}
  <2>1. PICK t \in T : TRUE
    OBVIOUS
  <2>2. n - t \in D
    OBVIOUS
  <2>3. \A y \in T : n - y \in Nat
    OBVIOUS
  <2>. QED  BY <2>2, <2>3
<1>2. PICK d \in D : \A e \in D : d <= e
  BY <1>1, LeastElement
<1>3. PICK m \in T : d = n - m
  BY <1>2
<1>4. \A y \in T : m >= y
  <2>. TAKE y \in T
  <2>1. n - m <= n - y
    BY <1>2, <1>3
  <2>. QED  BY <2>1
<1>5. \E x \in T : \A y \in T : x >= y
  BY <1>4
<1>. QED  BY <1>5 DEF Max

(* The first k elements of a sequence.                                     *)
LEMMA PrefixProperties ==
  ASSUME NEW S, NEW s \in Seq(S), NEW k \in Nat, k <= Len(s)
  PROVE  /\ SubSeq(s, 1, k) \in Seq(S)
         /\ Len(SubSeq(s, 1, k)) = k
         /\ \A m \in 1..k : SubSeq(s, 1, k)[m] = s[m]
<1>1. \A i \in 1..k : s[i] \in S
  BY ElementOfSeq
<1>2. ASSUME NEW m \in Int, NEW j \in Int, \A i \in m..j : s[i] \in S
      PROVE  /\ SubSeq(s, m, j) \in Seq(S)
             /\ m <= j => Len(SubSeq(s, m, j)) = j - m + 1
             /\ ~(m <= j) => Len(SubSeq(s, m, j)) = 0
  BY <1>2, SubSeqProperties, ZenonT(60)
<1>3. 1 \in Int /\ k \in Int
  OBVIOUS
<1>4. /\ SubSeq(s, 1, k) \in Seq(S)
      /\ 1 <= k => Len(SubSeq(s, 1, k)) = k - 1 + 1
      /\ ~(1 <= k) => Len(SubSeq(s, 1, k)) = 0
  BY <1>1, <1>2, <1>3, Zenon
<1>5. \A l : (1 <= k => l = k - 1 + 1) /\ (~(1 <= k) => l = 0) => l = k
  OBVIOUS
<1>6. Len(SubSeq(s, 1, k)) = k
  BY <1>4, <1>5, Zenon
<1>. QED  BY <1>4, <1>6
=============================================================================
