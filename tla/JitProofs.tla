----------------------------- MODULE JitProofs -----------------------------
(***************************************************************************)
(* Proofs about the adaptive JIT, its loops and their fast paths, for any  *)
(* expressions, statements, loops, programs, values and threshold.         *)
(*                                                                         *)
(* Code.  A node has code when its children have, and that code takes the  *)
(* machine from any stack to the same stack with one number on top, or     *)
(* stops it.  This holds of the symbol table it happens to meet, whatever  *)
(* the table holds.  The children come before the node, so both the code   *)
(* of a node and what the interpreter does with it are recursive functions *)
(* over the nodes, and a fact about all nodes is a set of ids that has     *)
(* every id whose predecessors it has (Upward, Rising).                    *)
(*                                                                         *)
(* States.  The invariant is SoundState: the variables of both tiers hold  *)
(* values, the entries are settled, and the loop under way is one of the   *)
(* program's, on a path that its body has the code for.  A whole visit of  *)
(* an expression, with the counting, compiling, running and giving up of   *)
(* the expressions in it, is one step of the program: what one rule of the *)
(* interpreter keeps (Reaches) is proved rule by rule, then for all nodes. *)
(* What a statement keeps (Leads) follows in the same way, and then what a *)
(* test or a turn of a loop does (Moves).                                  *)
(***************************************************************************)
EXTENDS Loops, SequenceLemmas

(* What holds of 0, and of k when it holds of k - 1, holds up to N.        *)
LEMMA Upward ==
  ASSUME NEW N \in Nat, NEW P, 0 \in P, \A k \in 1..N : k - 1 \in P => k \in P
  PROVE  \A k \in 0..N : k \in P
<1> DEFINE Q == {k \in Nat : k <= N => k \in P}
<1>1. 0 \in Q
  OBVIOUS
<1>2. ASSUME NEW k \in Q PROVE k + 1 \in Q
  <2>1. SUFFICES ASSUME k + 1 <= N PROVE k + 1 \in P
    OBVIOUS
  <2>2. k \in P /\ k + 1 \in 1..N /\ (k + 1) - 1 = k
    BY <2>1
  <2>. QED  BY <2>2
<1>3. Q = Nat
  <2>1. Q \in SUBSET Nat
    OBVIOUS
  <2> HIDE DEF Q
  <2>. QED  BY <1>1, <1>2, <2>1, InductiveSet
<1>. QED  BY <1>3

(* A recursion over 0..N exists.                                           *)
RecursUpTo(g, N, S, s, F) ==
  /\ g = [k \in 0..N |-> g[k]]
  /\ \A k \in 0..N : g[k] \in S
  /\ g[0] = s
  /\ \A k \in 1..N : g[k] = F[k][g[k - 1]]

LEMMA BoundedRecursion ==
  ASSUME NEW N \in Nat, NEW S, NEW s \in S, NEW F \in [1..N -> [S -> S]]
  PROVE  \E g : RecursUpTo(g, N, S, s, F)
<1> DEFINE G == [n \in Nat |-> [x \in S |-> IF n + 1 \in 1..N THEN F[n + 1][x] ELSE x]]
<1>1. G \in [Nat -> [S -> S]]
  OBVIOUS
<1>2. PICK h : Recurs(h, S, s, G)
  <2> HIDE DEF G
  <2>. QED  BY <1>1, Recursion
<1>3. h \in [Nat -> S] /\ h[0] = s /\ \A n \in Nat : h[n + 1] = G[n][h[n]]
  BY <1>2, Zenon DEF Recurs
<1> DEFINE g == [k \in 0..N |-> h[k]]
<1>4. \A k \in 0..N : g[k] \in S
  BY <1>3
<1>5. \A k \in 1..N : g[k] = F[k][g[k - 1]]
  <2> SUFFICES ASSUME NEW k \in 1..N PROVE g[k] = F[k][g[k - 1]]
    OBVIOUS
  <2>1. k - 1 \in Nat /\ (k - 1) + 1 = k /\ k \in 0..N /\ k - 1 \in 0..N /\ h[k - 1] \in S
    BY <1>3
  <2>2. h[k] = G[k - 1][h[k - 1]]
    BY <1>3, <2>1
  <2>3. G[k - 1][h[k - 1]] = F[k][h[k - 1]]
    BY <2>1
  <2>. QED  BY <2>1, <2>2, <2>3
<1>6. g[0] = s
  BY <1>3
<1>7. g = [k \in 0..N |-> g[k]]
  OBVIOUS
<1> HIDE DEF g
<1>8. RecursUpTo(g, N, S, s, F)
  BY <1>4, <1>5, <1>6, <1>7 DEF RecursUpTo
<1>. QED  BY <1>8

(* The end of a sequence.                                                  *)
LEMMA AppendEnd ==
  ASSUME NEW S, NEW s \in Seq(S), NEW a \in S
  PROVE  /\ Append(s, a) \in Seq(S)
         /\ Len(Append(s, a)) = Len(s) + 1
         /\ Append(s, a)[Len(s) + 1] = a
         /\ \A i \in 1..Len(s) : Append(s, a)[i] = s[i]
         /\ SubSeq(Append(s, a), 1, Len(s)) = s
<1>1. Len(s) \in Nat /\ Append(s, a) \in Seq(S) /\ Len(Append(s, a)) = Len(s) + 1
  OBVIOUS
<1>2. Append(s, a)[Len(s) + 1] = a /\ \A i \in 1..Len(s) : Append(s, a)[i] = s[i]
  OBVIOUS
<1>3. SubSeq(Append(s, a), 1, Len(s)) = s
  <2> DEFINE t == SubSeq(Append(s, a), 1, Len(s))
  <2>1. t \in Seq(S) /\ Len(t) = Len(s) /\ \A m \in 1..Len(s) : t[m] = Append(s, a)[m]
    BY <1>1, PrefixProperties
  <2> HIDE DEF t
  <2>2. \A m \in 1..Len(s) : t[m] = s[m]
    BY <2>1, <1>2
  <2>3. t = s
    BY <2>1, <2>2, SeqEqual
  <2>. QED  BY <2>3 DEF t
<1>. QED  BY <1>1, <1>2, <1>3

Outcomes == Values \union {Throw, Nested}

(* What kind a value is of.                                                *)
LEMMA ValueKinds ==
  ASSUME NEW a \in Values
  PROVE  /\ a.t \in {"int", "float", "string", "none", "error", "array"}
         /\ IsNumber(a) <=> a \in Numbers
         /\ a.t = "array" => a.e \in Seq(Scalars) /\ a = Array(a.e)
         /\ a.t # "array" => a \in Scalars
         /\ a.t = "string" => a.n \in Nat
         /\ a.t = "error" <=> a = Error
         /\ Fails(a) <=> a = Error
<1>1. CASE a \in Numbers
  BY <1>1 DEF Values, Scalars, Numbers, None, Error, IsNumber, Fails
<1>2. CASE a \in [t : {"string"}, n : Nat]
  BY <1>2 DEF Values, Scalars, Numbers, None, Error, IsNumber, Fails
<1>3. CASE a \in [t : {"array"}, e : Seq(Scalars)]
  BY <1>3 DEF Values, Numbers, Array, Error, IsNumber, Fails
<1>4. CASE a \in {None, Error}
  BY <1>4 DEF Values, Scalars, Numbers, None, Error, IsNumber, Fails
<1>. QED  BY <1>1, <1>2, <1>3, <1>4 DEF Values, Scalars

LEMMA NumberParts ==
  ASSUME NEW a \in Numbers
  PROVE  /\ a \in Values /\ a \in Scalars /\ IsNumber(a) /\ ~Fails(a)
         /\ a.t \in {"int", "float"} /\ a.v \in Int /\ Twice(a) \in Int
         /\ a # Going /\ a # Bail /\ a # None /\ a # Error /\ a # Throw /\ a # Nested
BY DEF Values, Scalars, Numbers, IsNumber, Fails, Twice, Going, Bail, None, Error, Throw, Nested

(* Values are made, and doubled, as integers.                              *)
LEMMA NumbersMade ==
  ASSUME NEW i \in Int
  PROVE  /\ Int1(i) \in Numbers /\ Float2(i) \in Numbers
         /\ Int1(i).t = "int" /\ Int1(i).v = i /\ Float2(i).t = "float" /\ Float2(i).v = i
BY DEF Int1, Float2, Numbers

LEMMA TruthMade ==
  ASSUME NEW b
  PROVE  Truth(b) \in Numbers /\ Truth(b).t = "int"
BY NumbersMade DEF Truth

(* Nothing that ends an expression is a number.                            *)
LEMMA Distinct ==
  /\ Going # Bail /\ Going # Error /\ Going # Throw /\ Going # Nested
  /\ Bail # Error /\ Bail # Throw /\ Bail # Nested
  /\ Error # Throw /\ Error # Nested /\ Throw # Nested
  /\ Going \notin Values /\ Bail \notin Values /\ Throw \notin Values /\ Nested \notin Values
  /\ Error \in Values /\ None \in Values /\ Error \in Scalars /\ None \in Scalars
  /\ ~IsNumber(Error) /\ ~IsNumber(None) /\ ~IsNumber(Throw) /\ ~IsNumber(Nested)
  /\ ~IsNumber(Bail) /\ ~IsNumber(Going)
  /\ Fails(Error) /\ Fails(Throw) /\ Fails(Nested) /\ ~Fails(None) /\ ~Fails(Bail)
BY DEF Going, Bail, Error, Throw, Nested, None, Values, Scalars, Numbers, IsNumber, Fails

LEMMA QuotientInt ==
  ASSUME NEW a \in Int, NEW b \in Int, b # 0
  PROVE  Quotient(a, b) \in Int
<1> DEFINE p == IF a < 0 THEN -a ELSE a
           q == IF b < 0 THEN -b ELSE b
<1>1. p \in Nat /\ q \in Nat /\ q > 0
  OBVIOUS
<1>2. p \div q \in Int
  <2> HIDE DEF p, q
  <2>. QED  BY <1>1
<1>3. Quotient(a, b) = IF (a < 0) = (b < 0) THEN p \div q ELSE -(p \div q)
  BY Zenon DEF Quotient
<1> HIDE DEF p, q
<1>. QED  BY <1>2, <1>3

LEMMA ParityInt ==
  ASSUME NEW a \in Numbers
  PROVE  IntOf(a) \in Int
BY QuotientInt, NumberParts DEF IntOf

(* What the operators make of numbers.                                     *)
LEMMA OnNumbers ==
  ASSUME NEW a \in Numbers, NEW b \in Numbers
  PROVE  /\ Sum(a, b) \in Numbers /\ Difference(a, b) \in Numbers /\ Less(a, b) \in Numbers
         /\ Remainder(a, b) \in Numbers \union {Error, Throw}
         /\ a.t = "int" /\ b.t = "int" => Remainder(a, b) \in Numbers \union {Throw}
         /\ Negated(a) \in Numbers /\ Inverted(a) \in Numbers
<1>1. /\ a.t \in {"int", "float"} /\ a.v \in Int /\ Twice(a) \in Int /\ IsNumber(a)
      /\ b.t \in {"int", "float"} /\ b.v \in Int /\ Twice(b) \in Int /\ IsNumber(b)
  BY NumberParts
<1>2. Sum(a, b) \in Numbers
  BY <1>1, NumbersMade DEF Sum
<1>3. Difference(a, b) \in Numbers
  BY <1>1, NumbersMade DEF Difference
<1>4. Less(a, b) \in Numbers
  <2>1. Less(a, b) = Truth(Twice(a) < Twice(b))
    BY <1>1 DEF Less
  <2>. QED  BY <2>1, TruthMade, Zenon
<1>5. /\ Remainder(a, b) \in Numbers \union {Error, Throw}
      /\ a.t = "int" /\ b.t = "int" => Remainder(a, b) \in Numbers \union {Throw}
  <2>1. CASE b.v # 0
    <3>1. a.v - b.v * Quotient(a.v, b.v) \in Int
      BY <1>1, <2>1, QuotientInt
    <3>2. Int1(a.v - b.v * Quotient(a.v, b.v)) \in Numbers
      BY <3>1, NumbersMade
    <3>. QED  BY <2>1, <3>2 DEF Remainder
  <2>2. CASE b.v = 0
    BY <2>2 DEF Remainder
  <2>. QED  BY <2>1, <2>2
<1>6. Negated(a) \in Numbers
  BY <1>1, NumbersMade DEF Negated
<1>7. Inverted(a) \in Numbers
  BY <1>1, NumbersMade, TruthMade DEF Inverted
<1>. QED  BY <1>2, <1>3, <1>4, <1>5, <1>6, <1>7

LEMMA TextMade ==
  ASSUME NEW n \in Nat PROVE Text(n) \in Scalars /\ Text(n) \in Values
BY DEF Text, Values, Scalars

(* An operator gives a value or ends the process.                          *)
LEMMA ApplyType ==
  ASSUME NEW op, NEW a \in Values, NEW b \in Values
  PROVE  Apply(op, a, b) \in Outcomes
<1>1. /\ a.t \in {"int", "float", "string", "none", "error", "array"}
      /\ b.t \in {"int", "float", "string", "none", "error", "array"}
      /\ IsNumber(a) <=> a \in Numbers
      /\ IsNumber(b) <=> b \in Numbers
      /\ a.t = "string" => a.n \in Nat
      /\ b.t = "string" => b.n \in Nat
  BY ValueKinds
<1>2. /\ Numbers \subseteq Outcomes /\ Error \in Outcomes /\ Throw \in Outcomes
      /\ \A n \in Nat : Text(n) \in Outcomes
  BY Distinct, NumberParts, TextMade DEF Outcomes
<1>3. CASE IsNumber(a) /\ IsNumber(b)
  BY <1>1, <1>2, <1>3, OnNumbers DEF Apply
<1>4. CASE ~(IsNumber(a) /\ IsNumber(b))
  <2>1. Sum(a, b) \in Outcomes
    BY <1>1, <1>2, <1>4 DEF Sum, IsNumber
  <2>2. Difference(a, b) \in Outcomes
    BY <1>1, <1>2, <1>4 DEF Difference, IsNumber
  <2>3. Remainder(a, b) \in Outcomes
    BY <1>1, <1>2, <1>4 DEF Remainder, IsNumber
  <2>4. Less(a, b) \in Outcomes
    BY <1>1, <1>2, <1>4, TruthMade DEF Less, IsNumber
  <2>. QED  BY <2>1, <2>2, <2>3, <2>4 DEF Apply
<1>. QED  BY <1>3, <1>4

LEMMA UnaryType ==
  ASSUME NEW a \in Values
  PROVE  Negated(a) \in Outcomes /\ Inverted(a) \in Outcomes
<1>1. CASE a \in Numbers
  BY <1>1, OnNumbers, NumberParts DEF Outcomes
<1>2. CASE a \notin Numbers
  BY <1>2, ValueKinds DEF Negated, Inverted, Outcomes, IsNumber
<1>. QED  BY <1>1, <1>2

(* An array's element is a value.                                          *)
LEMMA AtType ==
  ASSUME NEW s \in Seq(Scalars), NEW p
  PROVE  At(s, p) \in Scalars /\ At(s, p) \in Values
BY Distinct DEF At, Values

(* A table that grows by one entry at a time keeps what it holds.          *)
Grows(T, N, S) ==
  \A k \in 0..N : /\ T[k] \in Seq(S) /\ Len(T[k]) = k
                  /\ \A j \in 1..k : T[k][j] = T[j][j]

LEMMA Growing ==
  ASSUME NEW N \in Nat, NEW S, NEW T, T[0] = << >>,
         \A k \in 1..N : \E x \in S : T[k] = Append(T[k - 1], x)
  PROVE  Grows(T, N, S)
<1> DEFINE P == {k \in 0..N : /\ T[k] \in Seq(S) /\ Len(T[k]) = k
                              /\ \A j \in 1..k : T[k][j] = T[j][j]}
<1>1. 0 \in P
  <2>1. 0 \in 0..N /\ 1..0 = {} /\ T[0] \in Seq(S) /\ Len(T[0]) = 0
    OBVIOUS
  <2>. QED  BY <2>1
<1>2. ASSUME NEW k \in 1..N, k - 1 \in P PROVE k \in P
  <2>1. T[k - 1] \in Seq(S) /\ Len(T[k - 1]) = k - 1
        /\ \A j \in 1..(k - 1) : T[k - 1][j] = T[j][j]
    BY <1>2
  <2>2. PICK x \in S : T[k] = Append(T[k - 1], x)
    BY <2>1
  <2>3. T[k] \in Seq(S) /\ Len(T[k]) = k /\ \A j \in 1..(k - 1) : T[k][j] = T[k - 1][j]
    BY <2>1, <2>2, AppendEnd
  <2>4. \A j \in 1..k : T[k][j] = T[j][j]
    BY <2>1, <2>3
  <2>. QED  BY <2>3, <2>4
<1>3. \A k \in 0..N : k \in P
  <2> HIDE DEF P
  <2>. QED  BY <1>1, <1>2, Upward
<1>. QED  BY <1>3 DEF Grows

Named == {"load", "loadarray", "push", "pop"}
Plainly == {"+", "-", "%", "<", "and", "or", "neg", "not", "fail"}
Instructions == [op : {"const"}, v : Numbers] \union [op : Named, name : Names]
                  \union [op : Plainly]

(* The code of a node, given that of the nodes before it, is instructions. *)
LEMMA CodeOfNodeType ==
  ASSUME NEW id \in Ids, NEW C \in Seq(Seq(Instructions)), Len(C) = id - 1
  PROVE  CodeOfNode(C, Node[id]) \in Seq(Instructions)
<1> DEFINE n == Node[id]
<1>1. Formed(id, n) /\ id \in Nat /\ id - 1 \in Nat
  BY NodeAssumption
<1>2. \A i \in 1..(id - 1) : C[i] \in Seq(Instructions)
  BY <1>1, ElementOfSeq
<1>3. \A x \in Names : \A o \in Named : [op |-> o, name |-> x] \in Instructions
  BY DEF Instructions
<1>4. \A o \in Plainly : [op |-> o] \in Instructions
  BY DEF Instructions
<1>5. CASE n.kind = "value"
  <2>1. n.v \in Values
    BY <1>1, <1>5 DEF Formed, Values
  <2>2. IsNumber(n.v) => n.v \in Numbers
    BY <2>1, ValueKinds
  <2>3. IsNumber(n.v) => [op |-> "const", v |-> n.v] \in Instructions
    BY <2>2 DEF Instructions
  <2>. QED  BY <1>4, <1>5, <2>3 DEF CodeOfNode, Plainly
<1>6. CASE n.kind \in {"var", "pop"}
  BY <1>1, <1>3, <1>6 DEF CodeOfNode, Formed, Named
<1>7. CASE n.kind \in {"index", "push"}
  <2>1. n.name \in Names /\ C[n.e] \in Seq(Instructions)
    BY <1>1, <1>2, <1>7 DEF Formed
  <2>. QED  BY <1>3, <1>7, <2>1, AppendEnd DEF CodeOfNode, Named
<1>8. CASE n.kind = "bin"
  <2>1. C[n.l] \in Seq(Instructions) /\ C[n.r] \in Seq(Instructions) /\ n.op \in Plainly
    BY <1>1, <1>2, <1>8 DEF Formed, Plainly
  <2>2. C[n.l] \o C[n.r] \in Seq(Instructions) /\ [op |-> n.op] \in Instructions
    BY <1>4, <2>1, ConcatProperties
  <2>. QED  BY <1>8, <2>2, AppendEnd DEF CodeOfNode
<1>9. CASE n.kind = "un"
  <2>1. C[n.e] \in Seq(Instructions)
    BY <1>1, <1>2, <1>9 DEF Formed
  <2>. QED  BY <1>4, <1>9, <2>1, AppendEnd DEF CodeOfNode, Plainly
<1>10. CASE n.kind = "call"
  BY <1>4, <1>10 DEF CodeOfNode, Plainly
<1>. QED  BY <1>1, <1>5, <1>6, <1>7, <1>8, <1>9, <1>10 DEF Formed

(* The recursion over the nodes, unfolded: the code of a node is made of   *)
(* the code of those before it.                                            *)
LEMMA CodesUnfold ==
  /\ CodesUpTo[0] = << >>
  /\ \A k \in Ids : CodesUpTo[k] = Append(CodesUpTo[k - 1], CodeOfNode(CodesUpTo[k - 1], Node[k]))
<1> DEFINE N == Len(Node)
           S == Seq(Seq(Instructions))
           Grow(C, k) == IF Len(C) = k - 1 THEN Append(C, CodeOfNode(C, Node[k])) ELSE C
           F == [k \in 1..N |-> [C \in S |-> Grow(C, k)]]
           first == << >>
           Body(f, k) == IF k = 0 THEN << >>
                         ELSE Append(f[k - 1], CodeOfNode(f[k - 1], Node[k]))
<1>1. N \in Nat /\ Ids = 1..N
  BY NodeAssumption
<1>2. \A k \in 1..N, C \in S : Grow(C, k) \in S
  BY <1>1, CodeOfNodeType, AppendEnd
<1>3. F \in [1..N -> [S -> S]]
  BY <1>2
<1>4. first \in S
  OBVIOUS
<1>50. PICK g : RecursUpTo(g, N, S, first, F)
  <2>1. N \in Nat
    BY <1>1
  <2> HIDE DEF F, S, N, first
  <2>. QED  BY <2>1, <1>3, <1>4, BoundedRecursion, Zenon
<1>5. /\ g = [k \in 0..N |-> g[k]]
      /\ \A k \in 0..N : g[k] \in S
      /\ g[0] = first
      /\ \A k \in 1..N : g[k] = F[k][g[k - 1]]
  BY <1>50, Zenon DEF RecursUpTo
<1>6. \A k \in 1..N : g[k] = Grow(g[k - 1], k)
  <2> SUFFICES ASSUME NEW k \in 1..N PROVE g[k] = Grow(g[k - 1], k)
    OBVIOUS
  <2>1. k - 1 \in 0..N
    BY <1>1
  <2>2. g[k - 1] \in S /\ g[k] = F[k][g[k - 1]]
    BY <1>5, <2>1
  <2> HIDE DEF S, Grow
  <2>. QED  BY <2>2
<1>7. \A k \in 0..N : Len(g[k]) = k
  <2> DEFINE P == {k \in 0..N : Len(g[k]) = k}
  <2>1. 0 \in P
    BY <1>5
  <2>2. ASSUME NEW k \in 1..N, k - 1 \in P PROVE k \in P
    <3>1. g[k - 1] \in S /\ Len(g[k - 1]) = k - 1 /\ k \in Ids
      BY <1>1, <1>5, <2>2
    <3>2. g[k] = Append(g[k - 1], CodeOfNode(g[k - 1], Node[k]))
      BY <1>6, <3>1
    <3>3. CodeOfNode(g[k - 1], Node[k]) \in Seq(Instructions)
      BY <3>1, CodeOfNodeType
    <3>. QED  BY <3>1, <3>2, <3>3, AppendEnd
  <2> HIDE DEF P
  <2>3. \A k \in 0..N : k \in P
    BY <1>1, <2>1, <2>2, Upward
  <2>. QED  BY <2>3 DEF P
<1>8. \A k \in 0..N : g[k] = Body(g, k)
  <2> SUFFICES ASSUME NEW k \in 0..N PROVE g[k] = Body(g, k)
    OBVIOUS
  <2>1. CASE k = 0
    BY <1>5, <2>1
  <2>2. CASE k # 0
    <3>1. k \in 1..N /\ k - 1 \in 0..N
      BY <1>1, <2>2
    <3>. QED  BY <1>6, <1>7, <2>2, <3>1
  <2>. QED  BY <2>1, <2>2
<1>9. g = [k \in 0..N |-> Body(g, k)]
  BY <1>5, <1>8
<1>10. CodesUpTo = [k \in 0..N |-> Body(CodesUpTo, k)]
  BY <1>9 DEF CodesUpTo
<1>11. \A k \in 0..N : CodesUpTo[k] = Body(CodesUpTo, k)
  BY <1>10
<1>12. \A k \in 1..N : k \in 0..N /\ k # 0
  BY <1>1
<1>13. CodesUpTo[0] = << >>
  BY <1>1, <1>11
<1>14. \A k \in 1..N : CodesUpTo[k] = Body(CodesUpTo, k)
  BY <1>11, <1>12
<1>. QED  BY <1>1, <1>12, <1>13, <1>14

(* The code of a node, in terms of the code of its children.               *)
LEMMA Codes ==
  /\ CodeOf \in Seq(Seq(Instructions)) /\ Len(CodeOf) = Len(Node)
  /\ \A id \in Ids : CodeOf[id] \in Seq(Instructions) /\ CodeOf[id] = CodeOfNode(CodeOf, Node[id])
<1> DEFINE N == Len(Node)
           T == CodesUpTo
<1>1. N \in Nat /\ Ids = 1..N
  BY NodeAssumption
<1> DEFINE S == Seq(Instructions)
<1>2. \A k \in 0..N : /\ T[k] \in Seq(S) /\ Len(T[k]) = k
                      /\ \A j \in 1..k : T[k][j] = T[j][j]
  <2>1. T[0] = << >>
    BY CodesUnfold
  <2>2. \A k \in 1..N : T[k] = Append(T[k - 1], CodeOfNode(T[k - 1], Node[k]))
    BY <1>1, CodesUnfold
  <2>3. \A k \in 1..N, C \in Seq(S) : Len(C) = k - 1 => CodeOfNode(C, Node[k]) \in S
    BY <1>1, CodeOfNodeType
  <2> HIDE DEF T, N, S
  <2> DEFINE Q == {k \in 0..N : T[k] \in Seq(S) /\ Len(T[k]) = k}
  <2>4. 0 \in Q
    <3>1. 0 \in 0..N
      BY <1>1
    <3>2. << >> \in Seq(S) /\ Len(<< >>) = 0
      OBVIOUS
    <3>. QED  BY <2>1, <3>1, <3>2, Zenon
  <2>5. ASSUME NEW k \in 1..N, k - 1 \in Q PROVE k \in Q
    <3>1. T[k - 1] \in Seq(S) /\ Len(T[k - 1]) = k - 1
      BY <2>5
    <3>2. CodeOfNode(T[k - 1], Node[k]) \in S
      BY <2>3, <3>1
    <3>3. Append(T[k - 1], CodeOfNode(T[k - 1], Node[k])) \in Seq(S)
          /\ Len(Append(T[k - 1], CodeOfNode(T[k - 1], Node[k]))) = k
      BY <3>1, <3>2, AppendEnd
    <3>4. k \in 0..N
      BY <1>1
    <3>5. T[k] = Append(T[k - 1], CodeOfNode(T[k - 1], Node[k]))
      BY <2>2, Zenon
    <3>. QED  BY <3>3, <3>4, <3>5, Zenon
  <2>6. \A k \in 0..N : k \in Q
    <3> HIDE DEF Q
    <3>. QED  BY <1>1, <2>4, <2>5, Upward
  <2>7. \A k \in 1..N : \E x \in S : T[k] = Append(T[k - 1], x)
    <3> SUFFICES ASSUME NEW k \in 1..N
                 PROVE  \E x \in S : T[k] = Append(T[k - 1], x)
      OBVIOUS
    <3>1. k - 1 \in 0..N
      BY <1>1
    <3>2. CodeOfNode(T[k - 1], Node[k]) \in S
      BY <2>3, <2>6, <3>1
    <3>. QED  BY <2>2, <3>2
  <2> HIDE DEF Q
  <2>8. N \in Nat
    BY <1>1
  <2>9. Grows(T, N, S)
    BY <2>1, <2>7, <2>8, Growing, Zenon
  <2>. QED  BY <2>9, Zenon DEF Grows
<1>3. CodeOf = T[N]
  BY DEF CodeOf
<1>4. ASSUME NEW id \in Ids
      PROVE  CodeOf[id] \in Seq(Instructions) /\ CodeOf[id] = CodeOfNode(CodeOf, Node[id])
  <2>1. id \in 1..N /\ id - 1 \in 0..N /\ id \in 0..N /\ N \in 0..N
    BY <1>1
  <2>2. CodeOf[id] = T[id][id]
    BY <1>2, <1>3, <2>1
  <2>3. T[id] = Append(T[id - 1], CodeOfNode(T[id - 1], Node[id]))
    BY CodesUnfold
  <2>4. T[id - 1] \in Seq(Seq(Instructions)) /\ Len(T[id - 1]) = id - 1
    BY <1>2, <2>1
  <2>5. CodeOfNode(T[id - 1], Node[id]) \in Seq(Instructions)
    BY <2>4, CodeOfNodeType
  <2>6. CodeOf[id] = CodeOfNode(T[id - 1], Node[id])
    BY <2>1, <2>2, <2>3, <2>4, <2>5, AppendEnd
  <2>7. \A j \in 1..(id - 1) : T[id - 1][j] = CodeOf[j]
    <3> SUFFICES ASSUME NEW j \in 1..(id - 1) PROVE T[id - 1][j] = CodeOf[j]
      OBVIOUS
    <3>1. j \in 1..N
      BY <2>1
    <3>2. T[id - 1][j] = T[j][j] /\ T[N][j] = T[j][j]
      BY <1>2, <2>1, <3>1
    <3>. QED  BY <1>3, <3>2
  <2>8. CodeOfNode(T[id - 1], Node[id]) = CodeOfNode(CodeOf, Node[id])
    <3>1. Formed(id, Node[id])
      BY NodeAssumption
    <3>2. /\ Node[id].kind \in {"index", "push", "un"} => Node[id].e \in 1..(id - 1)
          /\ Node[id].kind = "bin" => Node[id].l \in 1..(id - 1) /\ Node[id].r \in 1..(id - 1)
      BY <3>1 DEF Formed
    <3>. QED  BY <2>7, <3>2 DEF CodeOfNode
  <2>. QED  BY <2>5, <2>6, <2>8
<1>5. N \in 0..N
  BY <1>1
<1>6. CodeOf \in Seq(Seq(Instructions)) /\ Len(CodeOf) = Len(Node)
  BY <1>2, <1>3, <1>5
<1>. QED  BY <1>4, <1>6

SymbolTables == [Names -> Values]

(* What is an array stays one.                                             *)
Kept(old, new) == \A x \in Names : old[x].t = "array" => new[x].t = "array"

Stops == {Going, Bail, Error, Throw}
MachineType == [stack : Seq(Numbers), sym : SymbolTables, val : Stops]

(* An array of scalars is a value.                                         *)
LEMMA ArrayMade ==
  ASSUME NEW s \in Seq(Scalars)
  PROVE  Array(s) \in Values /\ Array(s).t = "array" /\ Array(s).e = s
BY DEF Array, Values

(* A table in which a name holds something else is a table.                *)
LEMMA Rebound ==
  ASSUME NEW f \in SymbolTables, NEW x \in Names, NEW a \in Values
  PROVE  /\ [f EXCEPT ![x] = a] \in SymbolTables
         /\ [f EXCEPT ![x] = a][x] = a
         /\ \A y \in Names : y # x => [f EXCEPT ![x] = a][y] = f[y]
         /\ a.t = "array" => Kept(f, [f EXCEPT ![x] = a])
BY DEF SymbolTables, Kept

LEMMA ScalarsAppend ==
  ASSUME NEW s \in Seq(Scalars), NEW a \in Scalars
  PROVE  Append(s, a) \in Seq(Scalars)
OBVIOUS

LEMMA FrontLast ==
  ASSUME NEW S, NEW s \in Seq(S), s # << >>
  PROVE  Front(s) \in Seq(S) /\ Last(s) \in S
<1>1. Len(s) \in Nat /\ Len(s) # 0
  BY EmptySeq
<1>2. Len(s) - 1 \in Nat /\ Len(s) - 1 <= Len(s) /\ Len(s) \in 1..Len(s)
  BY <1>1
<1>3. SubSeq(s, 1, Len(s) - 1) \in Seq(S)
  BY <1>2, PrefixProperties
<1>4. s[Len(s)] \in S
  BY <1>2, ElementOfSeq
<1>. QED  BY <1>3, <1>4 DEF Front, Last

(* What the stack is without its last operands, and with another.          *)
LEMMA StackEnd ==
  ASSUME NEW m \in MachineType, m.stack # << >>
  PROVE  /\ Len(m.stack) \in Nat /\ Len(m.stack) > 0
         /\ Top(m, 0) \in Numbers
         /\ Drop(m, 1) \in Seq(Numbers)
<1>1. m.stack \in Seq(Numbers)
  BY DEF MachineType
<1>2. Len(m.stack) \in Nat /\ Len(m.stack) # 0
  BY <1>1, EmptySeq
<1>3. Len(m.stack) - 1 \in Nat /\ Len(m.stack) - 1 <= Len(m.stack)
      /\ Len(m.stack) - 0 \in 1..Len(m.stack)
  BY <1>2
<1>4. Drop(m, 1) \in Seq(Numbers)
  BY <1>1, <1>3, PrefixProperties DEF Drop
<1>5. Top(m, 0) \in Numbers
  BY <1>1, <1>3, ElementOfSeq DEF Top
<1>. QED  BY <1>2, <1>4, <1>5

LEMMA StopType ==
  ASSUME NEW m \in MachineType, NEW o \in Stops
  PROVE  Stop(m, o) \in MachineType /\ Stop(m, o).sym = m.sym /\ Stop(m, o).val = o
BY DEF Stop, MachineType

(* The instructions, one by one: each leaves a machine, and arrays stay    *)
(* arrays.                                                                 *)
LEMMA PushNumberType ==
  ASSUME NEW m \in MachineType, NEW a \in Values
  PROVE  PushNumber(m, a) \in MachineType /\ PushNumber(m, a).sym = m.sym
<1>1. CASE a.t = "error"
  BY <1>1, StopType DEF PushNumber, IsNumber, Stops
<1>2. CASE IsNumber(a)
  <2>1. a \in Numbers /\ a.t # "error"
    BY <1>2, ValueKinds, NumberParts
  <2>2. Append(m.stack, a) \in Seq(Numbers)
    BY <2>1 DEF MachineType
  <2>3. PushNumber(m, a) = [m EXCEPT !.stack = Append(@, a)]
    BY <1>2, <2>1 DEF PushNumber
  <2>. QED  BY <2>2, <2>3 DEF MachineType
<1>3. CASE a.t # "error" /\ ~IsNumber(a)
  BY <1>3, StopType DEF PushNumber, Stops
<1>. QED  BY <1>1, <1>2, <1>3

(* The three ways of an instruction that wants an array.                   *)
LEMMA LoadArrayCases ==
  ASSUME NEW m \in MachineType, NEW x \in Names
  PROVE  LoadArray(m, x) =
           IF m.stack = << >> \/ Top(m, 0).t = "float" THEN Stop(m, Bail)
           ELSE IF m.sym[x].t = "error" THEN Stop(m, Error)
           ELSE IF m.sym[x].t = "array"
                THEN PushNumber([m EXCEPT !.stack = Drop(m, 1)], At(m.sym[x].e, Top(m, 0).v))
           ELSE Stop(m, Bail)
BY DEF LoadArray, WithArray

LEMMA PushArrayCases ==
  ASSUME NEW m \in MachineType, NEW x \in Names
  PROVE  PushArray(m, x) =
           IF m.stack = << >> THEN Stop(m, Bail)
           ELSE IF m.sym[x].t = "error" THEN Stop(m, Error)
           ELSE IF m.sym[x].t = "array"
                THEN [m EXCEPT !.sym[x] = Array(Append(m.sym[x].e, Top(m, 0)))]
           ELSE Stop(m, Bail)
BY DEF PushArray, WithArray

LEMMA PopArrayCases ==
  ASSUME NEW m \in MachineType, NEW x \in Names
  PROVE  PopArray(m, x) =
           IF m.sym[x].t = "error" THEN Stop(m, Error)
           ELSE IF m.sym[x].t = "array"
                THEN IF m.sym[x].e = << >> THEN Stop(m, Error)
                     ELSE PushNumber([m EXCEPT !.sym[x] = Array(Front(m.sym[x].e))],
                                     Last(m.sym[x].e))
           ELSE Stop(m, Bail)
BY DEF PopArray, WithArray

Sound(m, after) == after \in MachineType /\ Kept(m.sym, after.sym)

LEMMA SoundStop ==
  ASSUME NEW m \in MachineType, NEW o \in Stops
  PROVE  Sound(m, Stop(m, o))
BY StopType DEF Sound, Kept

LEMMA SymbolType ==
  ASSUME NEW m \in MachineType, NEW x \in Names
  PROVE  /\ m.sym \in SymbolTables /\ m.sym[x] \in Values
         /\ m.sym[x].t = "array" => m.sym[x].e \in Seq(Scalars)
<1>1. m.sym \in SymbolTables /\ m.sym[x] \in Values
  BY DEF MachineType, SymbolTables
<1>. QED  BY <1>1, ValueKinds

LEMMA LoadArrayType ==
  ASSUME NEW m \in MachineType, NEW x \in Names
  PROVE  Sound(m, LoadArray(m, x))
<1>1. Bail \in Stops /\ Error \in Stops
  BY DEF Stops
<1>2. CASE m.stack # << >> /\ m.sym[x].t = "array"
  <2> DEFINE popped == [m EXCEPT !.stack = Drop(m, 1)]
  <2>1. popped \in MachineType /\ popped.sym = m.sym
    BY <1>2, StackEnd DEF MachineType
  <2>2. At(m.sym[x].e, Top(m, 0).v) \in Values
    BY <1>2, SymbolType, AtType
  <2> HIDE DEF popped
  <2>3. PushNumber(popped, At(m.sym[x].e, Top(m, 0).v)) \in MachineType
        /\ PushNumber(popped, At(m.sym[x].e, Top(m, 0).v)).sym = m.sym
    BY <2>1, <2>2, PushNumberType
  <2>4. Sound(m, PushNumber(popped, At(m.sym[x].e, Top(m, 0).v)))
    BY <2>3 DEF Sound, Kept
  <2>. QED  BY <1>1, <1>2, <2>4, SoundStop, LoadArrayCases DEF popped
<1>3. CASE ~(m.stack # << >> /\ m.sym[x].t = "array")
  BY <1>1, <1>3, SoundStop, LoadArrayCases
<1>. QED  BY <1>2, <1>3

LEMMA PushArrayType ==
  ASSUME NEW m \in MachineType, NEW x \in Names
  PROVE  Sound(m, PushArray(m, x))
<1>1. Bail \in Stops /\ Error \in Stops
  BY DEF Stops
<1>2. CASE m.stack # << >> /\ m.sym[x].t = "array"
  <2> DEFINE a == Array(Append(m.sym[x].e, Top(m, 0)))
  <2>1. a \in Values /\ a.t = "array"
    <3>1. Top(m, 0) \in Scalars
      BY <1>2, StackEnd, NumberParts
    <3>2. Append(m.sym[x].e, Top(m, 0)) \in Seq(Scalars)
      BY <1>2, <3>1, SymbolType, ScalarsAppend
    <3>. QED  BY <3>2, ArrayMade
  <2>2. m.sym \in SymbolTables
    BY SymbolType
  <2> HIDE DEF a
  <2>3. [m.sym EXCEPT ![x] = a] \in SymbolTables /\ Kept(m.sym, [m.sym EXCEPT ![x] = a])
    BY <2>1, <2>2, Rebound
  <2>4. [m EXCEPT !.sym[x] = a] \in MachineType
        /\ [m EXCEPT !.sym[x] = a].sym = [m.sym EXCEPT ![x] = a]
    BY <2>3 DEF MachineType
  <2>5. Sound(m, [m EXCEPT !.sym[x] = a])
    BY <2>3, <2>4 DEF Sound
  <2>. QED  BY <1>2, <2>1, <2>5, PushArrayCases, ValueKinds, SymbolType DEF a
<1>3. CASE ~(m.stack # << >> /\ m.sym[x].t = "array")
  BY <1>1, <1>3, SoundStop, PushArrayCases
<1>. QED  BY <1>2, <1>3

LEMMA PopArrayType ==
  ASSUME NEW m \in MachineType, NEW x \in Names
  PROVE  Sound(m, PopArray(m, x))
<1>1. Bail \in Stops /\ Error \in Stops
  BY DEF Stops
<1>2. CASE m.sym[x].t = "array" /\ m.sym[x].e # << >>
  <2> DEFINE a == Array(Front(m.sym[x].e))
             shrunk == [m EXCEPT !.sym[x] = a]
  <2>1. m.sym \in SymbolTables /\ Front(m.sym[x].e) \in Seq(Scalars) /\ Last(m.sym[x].e) \in Scalars
    BY <1>2, SymbolType, FrontLast
  <2>2. a \in Values /\ a.t = "array" /\ Last(m.sym[x].e) \in Values
    BY <2>1, ArrayMade DEF Values
  <2> HIDE DEF a
  <2>3. [m.sym EXCEPT ![x] = a] \in SymbolTables /\ Kept(m.sym, [m.sym EXCEPT ![x] = a])
    BY <2>1, <2>2, Rebound
  <2>4. shrunk \in MachineType /\ shrunk.sym = [m.sym EXCEPT ![x] = a]
    BY <2>3 DEF MachineType
  <2> HIDE DEF shrunk
  <2>5. Sound(m, PushNumber(shrunk, Last(m.sym[x].e)))
    BY <2>2, <2>3, <2>4, PushNumberType DEF Sound
  <2>. QED  BY <1>2, <2>5, PopArrayCases DEF a, shrunk
<1>3. CASE ~(m.sym[x].t = "array" /\ m.sym[x].e # << >>)
  BY <1>1, <1>3, SoundStop, PopArrayCases
<1>. QED  BY <1>2, <1>3

(* What a binary instruction makes of two numbers.                         *)
LEMMA ArithmeticType ==
  ASSUME NEW op, NEW a \in Numbers, NEW b \in Numbers
  PROVE  Arithmetic(op, a, b) \in Numbers \union {Bail, Throw}
<1>1. CASE op = "and" \/ op = "or"
  BY <1>1, TruthMade DEF Arithmetic
<1>2. CASE op = "%"
  <2>1. CASE "float" \in {a.t, b.t}
    BY <1>2, <2>1 DEF Arithmetic
  <2>2. CASE "float" \notin {a.t, b.t}
    <3>1. a.t = "int" /\ b.t = "int"
      BY <2>2, NumberParts
    <3>. QED  BY <1>2, <2>2, <3>1, OnNumbers DEF Arithmetic
  <2>. QED  BY <2>1, <2>2
<1>3. CASE op \notin {"and", "or", "%"}
  <2>1. Arithmetic(op, a, b) = Apply(op, a, b)
    BY <1>3 DEF Arithmetic
  <2>2. Apply(op, a, b) \in Numbers
    BY <1>3, OnNumbers DEF Apply
  <2>. QED  BY <2>1, <2>2
<1>. QED  BY <1>1, <1>2, <1>3

LEMMA BinaryType ==
  ASSUME NEW m \in MachineType, NEW op
  PROVE  Sound(m, Binary(m, op)) /\ Binary(m, op).sym = m.sym
<1>1. m.stack \in Seq(Numbers) /\ Len(m.stack) \in Nat
  BY DEF MachineType
<1>2. CASE Len(m.stack) < 2
  BY <1>2, SoundStop, StopType DEF Binary, Stops
<1>3. CASE ~(Len(m.stack) < 2)
  <2> DEFINE r == Arithmetic(op, Top(m, 1), Top(m, 0))
  <2>1. Len(m.stack) - 1 \in 1..Len(m.stack) /\ Len(m.stack) - 0 \in 1..Len(m.stack)
        /\ Len(m.stack) - 2 \in Nat /\ Len(m.stack) - 2 <= Len(m.stack)
    BY <1>1, <1>3
  <2>2. Top(m, 1) \in Numbers /\ Top(m, 0) \in Numbers
    BY <1>1, <2>1, ElementOfSeq DEF Top
  <2>3. Drop(m, 2) \in Seq(Numbers)
    BY <1>1, <2>1, PrefixProperties DEF Drop
  <2>4. r \in Numbers \union {Bail, Throw}
    BY <2>2, ArithmeticType
  <2>5. IsNumber(r) <=> r \in Numbers
    BY <2>4, Distinct, NumberParts
  <2>6. Binary(m, op) = IF IsNumber(r) THEN [m EXCEPT !.stack = Append(Drop(m, 2), r)]
                        ELSE Stop(m, r)
    BY <1>3 DEF Binary
  <2> HIDE DEF r
  <2>7. CASE IsNumber(r)
    <3>1. Append(Drop(m, 2), r) \in Seq(Numbers)
      BY <2>3, <2>5, <2>7
    <3>2. [m EXCEPT !.stack = Append(Drop(m, 2), r)] \in MachineType
          /\ [m EXCEPT !.stack = Append(Drop(m, 2), r)].sym = m.sym
      BY <3>1 DEF MachineType
    <3>. QED  BY <2>6, <2>7, <3>2 DEF Sound, Kept
  <2>8. CASE ~IsNumber(r)
    <3>1. r \in Stops
      BY <2>4, <2>5, <2>8 DEF Stops
    <3>. QED  BY <2>6, <2>8, <3>1, SoundStop, StopType
  <2>. QED  BY <2>7, <2>8
<1>. QED  BY <1>2, <1>3

LEMMA UnaryCases ==
  ASSUME NEW m \in MachineType
  PROVE  /\ Unary(m, Negated) = IF m.stack = << >> THEN Stop(m, Bail)
                                ELSE [m EXCEPT !.stack = Append(Drop(m, 1), Negated(Top(m, 0)))]
         /\ Unary(m, Inverted) = IF m.stack = << >> THEN Stop(m, Bail)
                                 ELSE [m EXCEPT !.stack = Append(Drop(m, 1), Inverted(Top(m, 0)))]
BY DEF Unary

LEMMA UnaryMachineType ==
  ASSUME NEW m \in MachineType
  PROVE  /\ Sound(m, Unary(m, Negated)) /\ Unary(m, Negated).sym = m.sym
         /\ Sound(m, Unary(m, Inverted)) /\ Unary(m, Inverted).sym = m.sym
<1>1. CASE m.stack = << >>
  BY <1>1, UnaryCases, SoundStop, StopType DEF Stops
<1>2. CASE m.stack # << >>
  <2>1. Top(m, 0) \in Numbers /\ Drop(m, 1) \in Seq(Numbers)
    BY <1>2, StackEnd
  <2>2. Negated(Top(m, 0)) \in Numbers /\ Inverted(Top(m, 0)) \in Numbers
    BY <2>1, OnNumbers
  <2>3. ASSUME NEW a \in Numbers
        PROVE  /\ [m EXCEPT !.stack = Append(Drop(m, 1), a)] \in MachineType
               /\ [m EXCEPT !.stack = Append(Drop(m, 1), a)].sym = m.sym
    <3>1. Append(Drop(m, 1), a) \in Seq(Numbers)
      BY <2>1
    <3>. QED  BY <3>1 DEF MachineType
  <2>. QED  BY <1>2, <2>2, <2>3, UnaryCases DEF Sound, Kept
<1>. QED  BY <1>1, <1>2

LEMMA InstructionType ==
  ASSUME NEW m \in MachineType, NEW i \in Instructions
  PROVE  Sound(m, Instruction(m, i))
<1>1. CASE m.val # Going
  BY <1>1 DEF Instruction, Sound, Kept
<1>2. CASE m.val = Going
  <2>1. CASE i.op = "const"
    <3>1. i.v \in Numbers
      BY <2>1 DEF Instructions, Named, Plainly
    <3>2. Append(m.stack, i.v) \in Seq(Numbers)
      BY <3>1 DEF MachineType
    <3>3. Instruction(m, i) = [m EXCEPT !.stack = Append(@, i.v)]
      BY <1>2, <2>1 DEF Instruction
    <3>. QED  BY <3>2, <3>3 DEF Sound, Kept, MachineType
  <2>2. CASE i.op \in Named
    <3>1. i.name \in Names
      BY <2>2 DEF Instructions, Named, Plainly
    <3>2. CASE i.op = "load"
      <4>1. Instruction(m, i) = PushNumber(m, m.sym[i.name])
        BY <1>2, <3>2 DEF Instruction
      <4>. QED  BY <3>1, <4>1, SymbolType, PushNumberType DEF Sound, Kept
    <3>3. CASE i.op = "loadarray"
      BY <1>2, <3>1, <3>3, LoadArrayType DEF Instruction
    <3>4. CASE i.op = "push"
      BY <1>2, <3>1, <3>4, PushArrayType DEF Instruction
    <3>5. CASE i.op = "pop"
      BY <1>2, <3>1, <3>5, PopArrayType DEF Instruction
    <3>. QED  BY <2>2, <3>2, <3>3, <3>4, <3>5 DEF Named
  <2>3. CASE i.op \notin Named /\ i.op # "const"
    <3>1. CASE i.op = "neg"
      BY <1>2, <3>1, UnaryMachineType DEF Instruction
    <3>2. CASE i.op = "not"
      BY <1>2, <3>2, UnaryMachineType DEF Instruction
    <3>3. CASE i.op # "neg" /\ i.op # "not"
      BY <1>2, <2>3, <3>3, BinaryType DEF Instruction, Named
    <3>. QED  BY <3>1, <3>2, <3>3
  <2>. QED  BY <2>1, <2>2, <2>3
<1>. QED  BY <1>1, <1>2

(* What holds of k when it holds below k holds everywhere.                 *)
LEMMA Rising ==
  ASSUME NEW N \in Nat, NEW P, \A k \in 1..N : (\A j \in 1..(k - 1) : j \in P) => k \in P
  PROVE  \A k \in 1..N : k \in P
<1> DEFINE Q == {k \in 0..N : \A j \in 1..k : j \in P}
<1>1. 0 \in Q
  OBVIOUS
<1>2. ASSUME NEW k \in 1..N, k - 1 \in Q PROVE k \in Q
  <2>1. \A j \in 1..(k - 1) : j \in P
    BY <1>2
  <2>2. k \in P
    BY <2>1
  <2>3. \A j \in 1..k : j \in 1..(k - 1) \/ j = k
    OBVIOUS
  <2>. QED  BY <2>1, <2>2, <2>3
<1>3. \A k \in 0..N : k \in Q
  <2> HIDE DEF Q
  <2>. QED  BY <1>1, <1>2, Upward
<1>. QED  BY <1>3

(* A machine that is given a code in the state m ends in the state after.  *)
Steps(R, code, m, after) ==
  /\ R[0] = m /\ R[Len(code)] = after
  /\ \A i \in 1..Len(code) : R[i] = Instruction(R[i - 1], code[i])

Takes(code, m, after) == \E R : Steps(R, code, m, after)

(* Code of one instruction, of two pieces, of two pieces and an            *)
(* instruction.                                                            *)
LEMMA TakesOne ==
  ASSUME NEW x, NEW m, NEW after, Takes(<<x>>, m, after)
  PROVE  after = Instruction(m, x)
<1>1. PICK R : Steps(R, <<x>>, m, after)
  BY Zenon DEF Takes
<1>2. Len(<<x>>) = 1 /\ 1 \in 1..Len(<<x>>) /\ <<x>>[1] = x /\ 1 - 1 = 0
  OBVIOUS
<1>. QED  BY <1>1, <1>2 DEF Steps

LEMMA TakesAppend ==
  ASSUME NEW S, NEW p \in Seq(S), NEW x \in S, NEW m, NEW after, Takes(Append(p, x), m, after)
  PROVE  \E mid : Takes(p, m, mid) /\ after = Instruction(mid, x)
<1>1. PICK R : Steps(R, Append(p, x), m, after)
  BY Zenon DEF Takes
<1>2. /\ Len(p) \in Nat /\ Len(Append(p, x)) = Len(p) + 1
      /\ Append(p, x)[Len(p) + 1] = x
      /\ \A i \in 1..Len(p) : Append(p, x)[i] = p[i]
  BY AppendEnd
<1>3. Steps(R, p, m, R[Len(p)])
  BY <1>1, <1>2 DEF Steps
<1>4. after = Instruction(R[Len(p)], x)
  BY <1>1, <1>2 DEF Steps
<1>5. Takes(p, m, R[Len(p)])
  BY <1>3, Zenon DEF Takes
<1>. QED  BY <1>4, <1>5

LEMMA TakesBoth ==
  ASSUME NEW S, NEW p \in Seq(S), NEW q \in Seq(S), NEW m, NEW after, Takes(p \o q, m, after)
  PROVE  \E mid : Takes(p, m, mid) /\ Takes(q, mid, after)
<1>1. PICK R : Steps(R, p \o q, m, after)
  BY Zenon DEF Takes
<1> DEFINE T == [i \in 0..Len(q) |-> R[Len(p) + i]]
           mid == R[Len(p)]
<1>2. /\ Len(p) \in Nat /\ Len(q) \in Nat /\ Len(p \o q) = Len(p) + Len(q)
      /\ \A i \in 1..Len(p) : (p \o q)[i] = p[i]
      /\ \A i \in 1..Len(q) : (p \o q)[Len(p) + i] = q[i]
  OBVIOUS
<1>3. Steps(R, p, m, mid)
  BY <1>1, <1>2 DEF Steps
<1>4. T[0] = mid /\ T[Len(q)] = after
  BY <1>1, <1>2 DEF Steps
<1>5. ASSUME NEW i \in 1..Len(q) PROVE T[i] = Instruction(T[i - 1], q[i])
  <2>1. /\ Len(p) + i \in 1..Len(p \o q) /\ i \in 0..Len(q) /\ i - 1 \in 0..Len(q)
        /\ (Len(p) + i) - 1 = Len(p) + (i - 1)
    BY <1>2
  <2>2. R[Len(p) + i] = Instruction(R[Len(p) + (i - 1)], (p \o q)[Len(p) + i])
    BY <1>1, <2>1 DEF Steps
  <2>. QED  BY <1>2, <2>1, <2>2
<1>6. Steps(T, q, mid, after)
  BY <1>4, <1>5 DEF Steps
<1>7. Takes(p, m, mid) /\ Takes(q, mid, after)
  BY <1>3, <1>6, Zenon DEF Takes
<1>. QED  BY <1>7

Begun(symbols) == [stack |-> << >>, sym |-> symbols, val |-> Going]

(* The machine at the start of a piece of code.                            *)
LEMMA BegunType ==
  ASSUME NEW symbols \in SymbolTables
  PROVE  Begun(symbols) \in MachineType
BY DEF Begun, MachineType, Stops

(* Machine() takes the code from its beginning.                            *)
LEMMA MachineTakes ==
  ASSUME NEW code \in Seq(Instructions), NEW symbols \in SymbolTables
  PROVE  Takes(code, Begun(symbols), Machine(code, symbols))
<1> DEFINE N == Len(code)
           S == MachineType
           first == Begun(symbols)
           F == [i \in 1..N |-> [m \in S |-> Instruction(m, code[i])]]
           Body(f, i) == IF i = 0 THEN [stack |-> << >>, sym |-> symbols, val |-> Going]
                         ELSE Instruction(f[i - 1], code[i])
           Ran == CHOOSE f : f = [i \in 0..N |-> Body(f, i)]
<1>1. N \in Nat
  OBVIOUS
<1>2. \A i \in 1..N, m \in S : Instruction(m, code[i]) \in S
  <2> SUFFICES ASSUME NEW i \in 1..N, NEW m \in S PROVE Instruction(m, code[i]) \in S
    OBVIOUS
  <2>1. code[i] \in Instructions
    BY ElementOfSeq
  <2>. QED  BY <2>1, InstructionType DEF Sound
<1>3. F \in [1..N -> [S -> S]] /\ first \in S
  BY <1>2, BegunType
<1>40. PICK g : RecursUpTo(g, N, S, first, F)
  <2>1. first \in S
    BY <1>3
  <2>2. F \in [1..N -> [S -> S]]
    BY <1>3
  <2> HIDE DEF F, S, N, first
  <2>. QED  BY <1>1, <2>1, <2>2, BoundedRecursion, Zenon
<1>4. /\ g = [k \in 0..N |-> g[k]]
      /\ \A k \in 0..N : g[k] \in S
      /\ g[0] = first
      /\ \A k \in 1..N : g[k] = F[k][g[k - 1]]
  BY <1>40, Zenon DEF RecursUpTo
<1>5. \A k \in 0..N : g[k] = Body(g, k)
  <2> SUFFICES ASSUME NEW k \in 0..N PROVE g[k] = Body(g, k)
    OBVIOUS
  <2>1. CASE k = 0
    BY <1>4, <2>1 DEF Begun
  <2>2. CASE k # 0
    <3>1. k \in 1..N /\ k - 1 \in 0..N
      BY <1>1, <2>2
    <3>2. g[k - 1] \in S /\ g[k] = F[k][g[k - 1]]
      BY <1>4, <3>1
    <3> HIDE DEF S
    <3>. QED  BY <2>2, <3>1, <3>2
  <2>. QED  BY <2>1, <2>2
<1>6. g = [k \in 0..N |-> Body(g, k)]
  BY <1>4, <1>5
<1>7. Ran = [k \in 0..N |-> Body(Ran, k)]
  BY <1>6
<1>8. Machine(code, symbols) = Ran[N]
  BY DEF Machine
<1> HIDE DEF Ran
<1>9. \A k \in 0..N : Ran[k] = Body(Ran, k)
  BY <1>7
<1>10. Steps(Ran, code, Begun(symbols), Ran[N])
  <2>1. Ran[0] = Begun(symbols)
    BY <1>1, <1>9 DEF Begun
  <2>2. ASSUME NEW i \in 1..N PROVE Ran[i] = Instruction(Ran[i - 1], code[i])
    <3>1. i \in 0..N /\ i # 0
      BY <1>1
    <3>. QED  BY <1>9, <3>1
  <2>. QED  BY <2>1, <2>2 DEF Steps
<1>. QED  BY <1>8, <1>10, Zenon DEF Takes

(* The code of a compiled node, and of its children.                       *)
LEMMA CompiledNode ==
  ASSUME NEW id \in Ids, Compiles(id)
  PROVE  LET n == Node[id] IN
         /\ n.kind \in {"value", "var", "index", "push", "pop", "bin", "un"}
         /\ n.kind = "value" => n.v \in Numbers /\ CodeOf[id] = <<[op |-> "const", v |-> n.v]>>
         /\ n.kind = "var" => n.name \in Names /\ CodeOf[id] = <<[op |-> "load", name |-> n.name]>>
         /\ n.kind = "pop" => n.name \in Names /\ CodeOf[id] = <<[op |-> "pop", name |-> n.name]>>
         /\ n.kind = "index" =>
              /\ n.name \in Names /\ n.e \in Ids /\ n.e < id /\ Compiles(n.e)
              /\ CodeOf[id] = Append(CodeOf[n.e], [op |-> "loadarray", name |-> n.name])
         /\ n.kind = "push" =>
              /\ n.name \in Names /\ n.e \in Ids /\ n.e < id /\ Compiles(n.e)
              /\ CodeOf[id] = Append(CodeOf[n.e], [op |-> "push", name |-> n.name])
         /\ n.kind = "un" =>
              /\ n.e \in Ids /\ n.e < id /\ Compiles(n.e) /\ n.op \in {"-", "not"}
              /\ CodeOf[id] = Append(CodeOf[n.e], [op |-> IF n.op = "-" THEN "neg" ELSE "not"])
         /\ n.kind = "bin" =>
              /\ n.l \in Ids /\ n.l < id /\ Compiles(n.l) /\ n.r \in Ids /\ n.r < id /\ Compiles(n.r)
              /\ n.op \in {"+", "-", "%", "<", "and", "or"}
              /\ CodeOf[id] = Append(CodeOf[n.l] \o CodeOf[n.r], [op |-> n.op])
<1> DEFINE n == Node[id]
<1>1. /\ Formed(id, n) /\ id \in Nat /\ Ids = 1..Len(Node) /\ Len(Node) \in Nat
      /\ CodeOf[id] = CodeOfNode(CodeOf, n)
      /\ \A i \in DOMAIN CodeOf[id] : CodeOf[id][i].op # "fail"
  BY NodeAssumption, Codes DEF Compiles
<1>2. \A c \in 1..(id - 1) : c \in Ids /\ c < id /\ CodeOf[c] \in Seq(Instructions)
  BY <1>1, Codes
<1>3. \A p \in Seq(Instructions), x \in Instructions :
        (\A i \in DOMAIN Append(p, x) : Append(p, x)[i].op # "fail")
          => \A i \in DOMAIN p : p[i].op # "fail"
  OBVIOUS
<1>4. \A p, q \in Seq(Instructions) :
        (\A i \in DOMAIN (p \o q) : (p \o q)[i].op # "fail")
          => /\ \A i \in DOMAIN p : p[i].op # "fail"
             /\ \A i \in DOMAIN q : q[i].op # "fail"
  <2> SUFFICES ASSUME NEW p \in Seq(Instructions), NEW q \in Seq(Instructions),
                      \A i \in DOMAIN (p \o q) : (p \o q)[i].op # "fail"
               PROVE  /\ \A i \in DOMAIN p : p[i].op # "fail"
                      /\ \A i \in DOMAIN q : q[i].op # "fail"
    OBVIOUS
  <2>1. \A i \in DOMAIN p : i \in DOMAIN (p \o q) /\ (p \o q)[i] = p[i]
    OBVIOUS
  <2>2. \A i \in DOMAIN q : Len(p) + i \in DOMAIN (p \o q) /\ (p \o q)[Len(p) + i] = q[i]
    OBVIOUS
  <2>. QED  BY <2>1, <2>2
<1>5. \A x : DOMAIN <<x>> = {1} /\ <<x>>[1] = x
  OBVIOUS
<1>6. CASE n.kind = "value"
  <2>1. n.v \in Values
    BY <1>1, <1>6 DEF Formed, Values
  <2>2. CASE IsNumber(n.v)
    BY <1>1, <1>6, <2>1, <2>2, ValueKinds DEF CodeOfNode
  <2>3. CASE ~IsNumber(n.v)
    <3>1. CodeOf[id] = <<[op |-> "fail"]>>
      BY <1>1, <1>6, <2>3 DEF CodeOfNode
    <3>. QED  BY <1>1, <1>5, <3>1
  <2>. QED  BY <2>2, <2>3
<1>7. CASE n.kind \in {"var", "pop"}
  BY <1>1, <1>7 DEF CodeOfNode, Formed
<1>8. CASE n.kind \in {"index", "push"}
  <2>1. n.name \in Names /\ n.e \in 1..(id - 1)
    BY <1>1, <1>8 DEF Formed
  <2> DEFINE x == [op |-> IF n.kind = "index" THEN "loadarray" ELSE "push", name |-> n.name]
  <2>2. CodeOf[id] = Append(CodeOf[n.e], x)
    BY <1>1, <1>8 DEF CodeOfNode
  <2>3. x \in Instructions
    BY <2>1 DEF Instructions, Named
  <2> HIDE DEF x
  <2>4. Compiles(n.e)
    BY <1>1, <1>2, <1>3, <2>1, <2>2, <2>3 DEF Compiles
  <2>. QED  BY <1>2, <1>8, <2>1, <2>2, <2>4 DEF x
<1>9. CASE n.kind = "un"
  <2>1. n.e \in 1..(id - 1) /\ n.op \in {"-", "not"}
    BY <1>1, <1>9 DEF Formed
  <2> DEFINE x == [op |-> IF n.op = "-" THEN "neg" ELSE "not"]
  <2>2. CodeOf[id] = Append(CodeOf[n.e], x)
    BY <1>1, <1>9 DEF CodeOfNode
  <2>3. x \in Instructions
    BY <2>1 DEF Instructions, Plainly
  <2> HIDE DEF x
  <2>4. Compiles(n.e)
    BY <1>1, <1>2, <1>3, <2>1, <2>2, <2>3 DEF Compiles
  <2>. QED  BY <1>2, <1>9, <2>1, <2>2, <2>4 DEF x
<1>10. CASE n.kind = "bin"
  <2>1. n.l \in 1..(id - 1) /\ n.r \in 1..(id - 1) /\ n.op \in {"+", "-", "%", "<", "and", "or"}
    BY <1>1, <1>10 DEF Formed
  <2> DEFINE x == [op |-> n.op]
  <2>2. CodeOf[id] = Append(CodeOf[n.l] \o CodeOf[n.r], x)
    BY <1>1, <1>10 DEF CodeOfNode
  <2>3. x \in Instructions
    BY <2>1 DEF Instructions, Plainly
  <2> HIDE DEF x
  <2>4. CodeOf[n.l] \in Seq(Instructions) /\ CodeOf[n.r] \in Seq(Instructions)
    BY <1>2, <2>1
  <2>5. CodeOf[n.l] \o CodeOf[n.r] \in Seq(Instructions)
    BY <2>4
  <2>6. \A i \in DOMAIN (CodeOf[n.l] \o CodeOf[n.r]) :
           (CodeOf[n.l] \o CodeOf[n.r])[i].op # "fail"
    BY <1>1, <1>3, <2>2, <2>3, <2>5, Zenon
  <2>7. Compiles(n.l) /\ Compiles(n.r)
    BY <1>4, <2>4, <2>6, Zenon DEF Compiles
  <2>. QED  BY <1>2, <1>10, <2>1, <2>2, <2>7 DEF x
<1>11. CASE n.kind = "call"
  <2>1. CodeOf[id] = <<[op |-> "fail"]>>
    BY <1>1, <1>11 DEF CodeOfNode
  <2>. QED  BY <1>1, <1>5, <2>1
<1>12. n.kind \in {"value", "var", "index", "push", "pop", "bin", "un", "call"}
  BY <1>1 DEF Formed
<1>. QED  BY <1>6, <1>7, <1>8, <1>9, <1>10, <1>11, <1>12

(* The stack with one number more, and with two.                           *)
LEMMA OneOnTop ==
  ASSUME NEW m, NEW st \in Seq(Numbers), NEW a \in Numbers, m.stack = Append(st, a)
  PROVE  /\ m.stack # << >> /\ Top(m, 0) = a /\ Drop(m, 1) = st
<1>1. /\ Len(st) \in Nat /\ Len(Append(st, a)) = Len(st) + 1 /\ Append(st, a)[Len(st) + 1] = a
      /\ SubSeq(Append(st, a), 1, Len(st)) = st
  BY AppendEnd
<1>2. Len(<< >>) = 0
  OBVIOUS
<1>3. Len(st) + 1 - 0 = Len(st) + 1 /\ Len(st) + 1 - 1 = Len(st) /\ Len(st) + 1 # 0
  BY <1>1
<1>. QED  BY <1>1, <1>2, <1>3 DEF Top, Drop

LEMMA TwoOnTop ==
  ASSUME NEW m, NEW st \in Seq(Numbers), NEW a \in Numbers, NEW b \in Numbers,
         m.stack = Append(Append(st, a), b)
  PROVE  ~(Len(m.stack) < 2) /\ Top(m, 1) = a /\ Top(m, 0) = b /\ Drop(m, 2) = st
<1> DEFINE sa == Append(st, a)
           sb == Append(sa, b)
<1>1. /\ sa \in Seq(Numbers) /\ Len(st) \in Nat /\ Len(sa) = Len(st) + 1 /\ sa[Len(st) + 1] = a
      /\ \A i \in 1..Len(st) : sa[i] = st[i]
  BY AppendEnd
<1> HIDE DEF sa
<1>2. /\ sb \in Seq(Numbers) /\ Len(sb) = Len(sa) + 1 /\ sb[Len(sa) + 1] = b
      /\ \A i \in 1..Len(sa) : sb[i] = sa[i]
  BY <1>1, AppendEnd
<1> HIDE DEF sb
<1>3. m.stack = sb
  BY DEF sa, sb
<1>4. /\ Len(st) \in Nat /\ Len(st) <= Len(sb) /\ Len(sb) = Len(st) + 2
      /\ Len(st) + 1 \in 1..Len(sa)
  BY <1>1, <1>2
<1>5. /\ SubSeq(sb, 1, Len(st)) \in Seq(Numbers) /\ Len(SubSeq(sb, 1, Len(st))) = Len(st)
      /\ \A i \in 1..Len(st) : SubSeq(sb, 1, Len(st))[i] = sb[i]
  BY <1>2, <1>4, PrefixProperties
<1>6. \A i \in 1..Len(st) : i \in 1..Len(sa)
  BY <1>1
<1>7. \A i \in 1..Len(st) : SubSeq(sb, 1, Len(st))[i] = st[i]
  BY <1>1, <1>2, <1>5, <1>6
<1>8. SubSeq(sb, 1, Len(st)) = st
  BY <1>5, <1>7, SeqEqual
<1>9. /\ Len(st) + 2 - 2 = Len(st) /\ Len(st) + 2 - 1 = Len(st) + 1 /\ Len(st) + 2 - 0 = Len(st) + 2
      /\ Len(sa) + 1 = Len(st) + 2 /\ ~(Len(st) + 2 < 2)
  BY <1>1
<1>10. Drop(m, 2) = st
  BY <1>3, <1>4, <1>8, <1>9 DEF Drop
<1>11. Top(m, 0) = b
  BY <1>2, <1>3, <1>4, <1>9 DEF Top
<1>12. Top(m, 1) = a
  BY <1>1, <1>2, <1>3, <1>4, <1>9 DEF Top
<1>. QED  BY <1>3, <1>4, <1>9, <1>10, <1>11, <1>12

(* Code leaves one number on the stack of a machine that goes on, and      *)
(* nothing changes the state of one that does not.                         *)
Leaves(m, after) ==
  /\ Sound(m, after)
  /\ m.val # Going => after = m
  /\ after.val = Going => m.val = Going /\ \E a \in Numbers : after.stack = Append(m.stack, a)

(* The ways to leave a number: to stop, and to push one.                   *)
LEMMA StopLeaves ==
  ASSUME NEW m \in MachineType, m.val = Going, NEW o \in Stops, o # Going
  PROVE  Leaves(m, Stop(m, o))
BY SoundStop, StopType DEF Leaves

LEMMA PushNumberLeaves ==
  ASSUME NEW m \in MachineType, m.val = Going, NEW a \in Values
  PROVE  /\ PushNumber(m, a).val = Going => a \in Numbers /\ PushNumber(m, a).stack = Append(m.stack, a)
<1>1. CASE IsNumber(a)
  BY <1>1, ValueKinds, NumberParts DEF PushNumber, MachineType
<1>2. CASE ~IsNumber(a)
  <2>1. PushNumber(m, a) = Stop(m, Error) \/ PushNumber(m, a) = Stop(m, Bail)
    BY <1>2, ValueKinds DEF PushNumber
  <2>. QED  BY <2>1, StopType, Distinct DEF Stops
<1>. QED  BY <1>1, <1>2

LEMMA KeptOn ==
  ASSUME NEW a, NEW b, NEW c, Sound(a, b), Sound(b, c)
  PROVE  Sound(a, c)
BY DEF Sound, Kept

(* The code of every node does: by the nodes before it, child by child.    *)
LEMMA CodeLeaves ==
  ASSUME NEW k \in Ids, Compiles(k), NEW m0 \in MachineType, NEW end0, Takes(CodeOf[k], m0, end0)
  PROVE  Leaves(m0, end0)
<1> DEFINE Good(id) == Compiles(id) => \A m \in MachineType : \A after :
                         Takes(CodeOf[id], m, after) => Leaves(m, after)
           P == {id \in Ids : Good(id)}
<1>1. Len(Node) \in Nat /\ Ids = 1..Len(Node)
  BY NodeAssumption
<1>2. ASSUME NEW id \in Ids, \A j \in 1..(id - 1) : j \in P PROVE Good(id)
  <2> SUFFICES ASSUME Compiles(id), NEW m \in MachineType, NEW after, Takes(CodeOf[id], m, after)
               PROVE  Leaves(m, after)
    BY Zenon
  <2> DEFINE n == Node[id]
  <2>1. n.kind \in {"value", "var", "index", "push", "pop", "bin", "un"}
    BY CompiledNode
  <2>2. \A j \in Ids : j < id /\ Compiles(j) =>
           \A m1 \in MachineType : \A a1 : Takes(CodeOf[j], m1, a1) => Leaves(m1, a1)
    <3> SUFFICES ASSUME NEW j \in Ids, j < id, Compiles(j)
                 PROVE  \A m1 \in MachineType : \A a1 : Takes(CodeOf[j], m1, a1) => Leaves(m1, a1)
      OBVIOUS
    <3>1. j \in 1..(id - 1)
      BY <1>1
    <3>2. j \in P
      BY <1>2, <3>1
    <3>. QED  BY <3>2
  <2> HIDE DEF P
  <2>3. CASE n.kind \in {"value", "var", "pop"}
    <3>1. PICK x \in Instructions : CodeOf[id] = <<x>>
                                    /\ x.op = (CASE n.kind = "value" -> "const"
                                                 [] n.kind = "var" -> "load"
                                                 [] n.kind = "pop" -> "pop")
      <4>1. CASE n.kind = "value"
        <5>1. n.v \in Numbers /\ CodeOf[id] = <<[op |-> "const", v |-> n.v]>>
          BY <4>1, CompiledNode
        <5>2. [op |-> "const", v |-> n.v] \in Instructions
          BY <5>1 DEF Instructions
        <5>. QED  BY <4>1, <5>1, <5>2
      <4>2. CASE n.kind = "var"
        <5>1. n.name \in Names /\ CodeOf[id] = <<[op |-> "load", name |-> n.name]>>
          BY <4>2, CompiledNode
        <5>2. [op |-> "load", name |-> n.name] \in Instructions
          BY <5>1 DEF Instructions, Named
        <5>. QED  BY <4>2, <5>1, <5>2
      <4>3. CASE n.kind = "pop"
        <5>1. n.name \in Names /\ CodeOf[id] = <<[op |-> "pop", name |-> n.name]>>
          BY <4>3, CompiledNode
        <5>2. [op |-> "pop", name |-> n.name] \in Instructions
          BY <5>1 DEF Instructions, Named
        <5>. QED  BY <4>3, <5>1, <5>2
      <4>. QED  BY <2>3, <4>1, <4>2, <4>3
    <3>2. after = Instruction(m, x)
      BY <3>1, TakesOne
    <3>3. Sound(m, after)
      BY <3>2, InstructionType
    <3>4. CASE m.val # Going
      BY <3>2, <3>3, <3>4 DEF Instruction, Leaves
    <3>5. CASE m.val = Going
      <4>1. CASE x.op = "const"
        <5>1. x.v \in Numbers
          BY <4>1 DEF Instructions, Named, Plainly
        <5>2. after = [m EXCEPT !.stack = Append(@, x.v)]
          BY <3>2, <3>5, <4>1 DEF Instruction
        <5>3. after.stack = Append(m.stack, x.v)
          BY <5>2 DEF MachineType
        <5>. QED  BY <3>3, <3>5, <5>1, <5>3 DEF Leaves
      <4>2. CASE x.op = "load"
        <5>1. x.name \in Names
          BY <4>2 DEF Instructions, Named, Plainly
        <5>2. after = PushNumber(m, m.sym[x.name]) /\ m.sym[x.name] \in Values
          BY <3>2, <3>5, <4>2, <5>1, SymbolType DEF Instruction
        <5>. QED  BY <3>3, <3>5, <5>2, PushNumberLeaves DEF Leaves
      <4>3. CASE x.op = "pop"
        <5>1. x.name \in Names
          BY <4>3 DEF Instructions, Named, Plainly
        <5>2. after = PopArray(m, x.name)
          BY <3>2, <3>5, <4>3 DEF Instruction
        <5> DEFINE s == m.sym[x.name].e
                   shrunk == [m EXCEPT !.sym[x.name] = Array(Front(s))]
        <5>3. CASE m.sym[x.name].t = "array" /\ s # << >>
          <6>1. after = PushNumber(shrunk, Last(s))
            BY <5>1, <5>2, <5>3, PopArrayCases, SymbolType, ValueKinds
          <6>2. m.sym \in SymbolTables /\ Front(s) \in Seq(Scalars) /\ Last(s) \in Values
            BY <5>1, <5>3, SymbolType, FrontLast DEF Values
          <6>3. [m.sym EXCEPT ![x.name] = Array(Front(s))] \in SymbolTables
            BY <5>1, <6>2, ArrayMade, Rebound
          <6>4. shrunk \in MachineType /\ shrunk.val = Going /\ shrunk.stack = m.stack
            BY <3>5, <6>3 DEF MachineType
          <6> HIDE DEF shrunk
          <6>. QED  BY <3>3, <3>5, <6>1, <6>2, <6>4, PushNumberLeaves DEF Leaves
        <5>4. CASE ~(m.sym[x.name].t = "array" /\ s # << >>)
          <6>1. after = Stop(m, Error) \/ after = Stop(m, Bail)
            BY <5>1, <5>2, <5>4, PopArrayCases
          <6>. QED  BY <3>5, <6>1, StopLeaves, Distinct DEF Stops
        <5>. QED  BY <5>3, <5>4
      <4>. QED  BY <2>3, <3>1, <4>1, <4>2, <4>3
    <3>. QED  BY <3>4, <3>5
  <2>4. CASE n.kind \in {"index", "push", "un"}
    <3>1. PICK x \in Instructions : /\ CodeOf[id] = Append(CodeOf[n.e], x)
                                    /\ x.op \in {"loadarray", "push", "neg", "not"}
      <4>1. CASE n.kind = "index"
        <5>1. /\ n.name \in Names
              /\ CodeOf[id] = Append(CodeOf[n.e], [op |-> "loadarray", name |-> n.name])
          BY <4>1, CompiledNode
        <5>2. [op |-> "loadarray", name |-> n.name] \in Instructions
          BY <5>1 DEF Instructions, Named
        <5>. QED  BY <5>1, <5>2
      <4>2. CASE n.kind = "push"
        <5>1. /\ n.name \in Names
              /\ CodeOf[id] = Append(CodeOf[n.e], [op |-> "push", name |-> n.name])
          BY <4>2, CompiledNode
        <5>2. [op |-> "push", name |-> n.name] \in Instructions
          BY <5>1 DEF Instructions, Named
        <5>. QED  BY <5>1, <5>2
      <4>3. CASE n.kind = "un"
        <5>1. CodeOf[id] = Append(CodeOf[n.e], [op |-> IF n.op = "-" THEN "neg" ELSE "not"])
          BY <4>3, CompiledNode
        <5>2. [op |-> IF n.op = "-" THEN "neg" ELSE "not"] \in Instructions
          BY DEF Instructions, Plainly
        <5>. QED  BY <5>1, <5>2
      <4>. QED  BY <2>4, <4>1, <4>2, <4>3
    <3>2. n.e \in Ids /\ n.e < id /\ Compiles(n.e) /\ CodeOf[n.e] \in Seq(Instructions)
      BY <2>4, CompiledNode, Codes
    <3>3. PICK mid : Takes(CodeOf[n.e], m, mid) /\ after = Instruction(mid, x)
      BY <3>1, <3>2, TakesAppend
    <3>4. Leaves(m, mid)
      BY <2>2, <3>2, <3>3
    <3>5. mid \in MachineType /\ Sound(m, mid) /\ Sound(mid, after)
      BY <3>3, <3>4, InstructionType DEF Leaves, Sound
    <3>6. Sound(m, after)
      BY <3>5, KeptOn
    <3>7. CASE mid.val # Going
      <4>1. after = mid
        BY <3>3, <3>7 DEF Instruction
      <4>. QED  BY <3>4, <4>1
    <3>8. CASE mid.val = Going
      <4>1. PICK a \in Numbers : mid.stack = Append(m.stack, a)
        BY <3>4, <3>8 DEF Leaves
      <4>2. m.val = Going /\ m.stack \in Seq(Numbers)
        BY <3>4, <3>8 DEF Leaves, MachineType
      <4>3. mid.stack # << >> /\ Top(mid, 0) = a /\ Drop(mid, 1) = m.stack
        BY <4>1, <4>2, OneOnTop
      <4>4. SUFFICES ASSUME after.val = Going PROVE \E b \in Numbers : after.stack = Append(m.stack, b)
        BY <3>6, <4>2 DEF Leaves
      <4>5. CASE x.op = "loadarray"
        <5>1. x.name \in Names /\ after = LoadArray(mid, x.name)
          BY <3>3, <3>8, <4>5 DEF Instruction, Instructions, Named, Plainly
        <5> DEFINE popped == [mid EXCEPT !.stack = Drop(mid, 1)]
                   v == At(mid.sym[x.name].e, Top(mid, 0).v)
        <5>2. Stop(mid, Bail).val # Going /\ Stop(mid, Error).val # Going
          BY <3>5, StopType, Distinct DEF Stops
        <5>3. after = PushNumber(popped, v) /\ mid.sym[x.name].t = "array"
          BY <3>5, <4>4, <5>1, <5>2, LoadArrayCases
        <5>4. popped \in MachineType /\ popped.val = Going /\ popped.stack = m.stack
          BY <3>5, <3>8, <4>2, <4>3 DEF MachineType
        <5>5. v \in Values
          BY <3>5, <5>1, <5>3, SymbolType, AtType
        <5> HIDE DEF popped, v
        <5>. QED  BY <4>4, <5>3, <5>4, <5>5, PushNumberLeaves
      <4>6. CASE x.op = "push"
        <5>1. x.name \in Names /\ after = PushArray(mid, x.name)
          BY <3>3, <3>8, <4>6 DEF Instruction, Instructions, Named, Plainly
        <5>2. Stop(mid, Bail).val # Going /\ Stop(mid, Error).val # Going
          BY <3>5, StopType, Distinct DEF Stops
        <5>3. after = [mid EXCEPT !.sym[x.name] = Array(Append(mid.sym[x.name].e, Top(mid, 0)))]
          BY <3>5, <4>4, <5>1, <5>2, PushArrayCases
        <5>4. after.stack = mid.stack
          BY <3>5, <5>3 DEF MachineType
        <5>. QED  BY <4>1, <5>4
      <4>7. CASE x.op \in {"neg", "not"}
        <5>1. after = Unary(mid, Negated) \/ after = Unary(mid, Inverted)
          BY <3>3, <3>8, <4>7 DEF Instruction
        <5>2. Negated(a) \in Numbers /\ Inverted(a) \in Numbers
          BY OnNumbers
        <5>3. \E b \in Numbers : after = [mid EXCEPT !.stack = Append(Drop(mid, 1), b)]
          BY <3>5, <4>3, <5>1, <5>2, UnaryCases
        <5>. QED  BY <3>5, <4>3, <5>3 DEF MachineType
      <4>. QED  BY <3>1, <4>5, <4>6, <4>7
    <3>. QED  BY <3>7, <3>8
  <2>5. CASE n.kind = "bin"
    <3> DEFINE x == [op |-> n.op]
    <3>1. /\ n.l \in Ids /\ n.l < id /\ Compiles(n.l) /\ CodeOf[n.l] \in Seq(Instructions)
          /\ n.r \in Ids /\ n.r < id /\ Compiles(n.r) /\ CodeOf[n.r] \in Seq(Instructions)
          /\ n.op \in {"+", "-", "%", "<", "and", "or"}
          /\ CodeOf[id] = Append(CodeOf[n.l] \o CodeOf[n.r], x)
      BY <2>5, CompiledNode, Codes
    <3>2. CodeOf[n.l] \o CodeOf[n.r] \in Seq(Instructions) /\ x \in Instructions
      BY <3>1 DEF Instructions, Plainly
    <3>3. PICK right : Takes(CodeOf[n.l] \o CodeOf[n.r], m, right) /\ after = Instruction(right, x)
      <4> DEFINE p == CodeOf[n.l] \o CodeOf[n.r]
      <4>1. p \in Seq(Instructions) /\ x \in Instructions /\ Takes(Append(p, x), m, after)
        BY <3>1, <3>2
      <4> HIDE DEF p, x
      <4>2. \E right : Takes(p, m, right) /\ after = Instruction(right, x)
        BY <4>1, TakesAppend
      <4>. QED  BY <4>2 DEF p
    <3>4. PICK left : Takes(CodeOf[n.l], m, left) /\ Takes(CodeOf[n.r], left, right)
      BY <3>1, <3>3, TakesBoth
    <3>5. Leaves(m, left)
      BY <2>2, <3>1, <3>4
    <3>6. left \in MachineType /\ Leaves(left, right)
      BY <2>2, <3>1, <3>4, <3>5 DEF Leaves, Sound
    <3>7. right \in MachineType /\ Sound(m, right) /\ Sound(right, after)
      BY <3>2, <3>3, <3>5, <3>6, KeptOn, InstructionType DEF Leaves, Sound
    <3>8. Sound(m, after)
      BY <3>7, KeptOn
    <3>9. CASE right.val # Going
      <4>1. after = right
        BY <3>3, <3>9 DEF Instruction
      <4>2. m.val # Going => right = m
        BY <3>5, <3>6 DEF Leaves
      <4>. QED  BY <3>8, <3>9, <4>1, <4>2 DEF Leaves
    <3>10. CASE right.val = Going
      <4>1. PICK b \in Numbers : right.stack = Append(left.stack, b)
        BY <3>6, <3>10 DEF Leaves
      <4>2. left.val = Going
        BY <3>6, <3>10 DEF Leaves
      <4>3. PICK a \in Numbers : left.stack = Append(m.stack, a)
        BY <3>5, <4>2 DEF Leaves
      <4>4. m.val = Going /\ m.stack \in Seq(Numbers)
        BY <3>5, <4>2 DEF Leaves, MachineType
      <4>5. right.stack = Append(Append(m.stack, a), b)
        BY <4>1, <4>3
      <4>6. ~(Len(right.stack) < 2) /\ Top(right, 1) = a /\ Top(right, 0) = b /\ Drop(right, 2) = m.stack
        BY <4>4, <4>5, TwoOnTop
      <4> DEFINE r == Arithmetic(n.op, a, b)
      <4>7. after = IF IsNumber(r) THEN [right EXCEPT !.stack = Append(m.stack, r)] ELSE Stop(right, r)
        <5>1. after = Binary(right, n.op)
          BY <3>1, <3>3, <3>10 DEF Instruction
        <5>. QED  BY <4>6, <5>1 DEF Binary
      <4>8. r \in Numbers \union {Bail, Throw}
        BY ArithmeticType
      <4>9. CASE r \in Numbers
        <5>1. after = [right EXCEPT !.stack = Append(m.stack, r)]
          BY <4>7, <4>9, NumberParts
        <5> HIDE DEF r
        <5>2. after.stack = Append(m.stack, r)
          BY <3>7, <5>1 DEF MachineType
        <5>. QED  BY <3>8, <4>4, <4>9, <5>2 DEF Leaves
      <4>10. CASE r \in {Bail, Throw}
        <5>1. after = Stop(right, r) /\ r # Going /\ r \in Stops
          BY <4>7, <4>10, Distinct DEF Stops
        <5>2. after.val # Going
          BY <3>7, <5>1, StopType
        <5>. QED  BY <3>8, <4>4, <5>2 DEF Leaves
      <4>. QED  BY <4>8, <4>9, <4>10
    <3>. QED  BY <3>9, <3>10
  <2>. QED  BY <2>1, <2>3, <2>4, <2>5
<1>3. \A id \in 1..Len(Node) : id \in P
  <2>1. \A id \in 1..Len(Node) : (\A j \in 1..(id - 1) : j \in P) => id \in P
    BY <1>1, <1>2
  <2> HIDE DEF P
  <2>. QED  BY <1>1, <2>1, Rising
<1>4. Good(k)
  BY <1>1, <1>3
<1>. QED  BY <1>4

(* From an empty stack, then, code that runs to its end leaves one number. *)
LEMMA Balanced ==
  ASSUME NEW id \in Ids, Compiles(id), NEW symbols \in SymbolTables
  PROVE  LET m == Machine(CodeOf[id], symbols)
         IN  /\ m \in MachineType /\ Kept(symbols, m.sym)
             /\ m.val = Going => Len(m.stack) = 1 /\ m.stack[1] \in Numbers
<1> DEFINE m == Machine(CodeOf[id], symbols)
           b == Begun(symbols)
<1>1. CodeOf[id] \in Seq(Instructions)
  BY Codes
<1>2. Takes(CodeOf[id], b, m)
  BY <1>1, MachineTakes
<1>3. b \in MachineType /\ b.sym = symbols /\ b.stack = << >>
  BY BegunType DEF Begun
<1> HIDE DEF m, b
<1>4. Leaves(b, m)
  BY <1>2, <1>3, CodeLeaves
<1>5. m \in MachineType /\ Kept(symbols, m.sym)
  BY <1>3, <1>4 DEF Leaves, Sound
<1>6. ASSUME m.val = Going PROVE Len(m.stack) = 1 /\ m.stack[1] \in Numbers
  <2>1. PICK a \in Numbers : m.stack = Append(<< >>, a)
    BY <1>3, <1>4, <1>6 DEF Leaves
  <2>. QED  BY <2>1
<1>. QED  BY <1>5, <1>6 DEF m

Tables == [Ids -> Entries]

(* An entry that has been counted to the threshold is settled one way.     *)
Settled(e) == /\ e.hits \in 0..HotThreshold
              /\ (e.hits = HotThreshold) <=> (e.program \/ e.disabled)
              /\ ~(e.program /\ e.disabled)

AllSettled(c) == \A id \in Ids : Settled(c[id])

(* The states of the interpreter with a value, or none from compiled code. *)
Reached == [sym : SymbolTables, cache : Tables, val : Outcomes \union {Bail}]
Results == [sym : SymbolTables, cache : Tables, val : Outcomes]

(* An expression keeps arrays what they are and settled entries settled.   *)
Follows(s, r) == Kept(s.sym, r.sym) /\ (AllSettled(s.cache) => AllSettled(r.cache))
Reaches(s, r) == r \in Results /\ Follows(s, r)

Fine(V) == /\ V \in Seq([States -> Results])
           /\ \A j \in 1..Len(V) : \A s \in States : Follows(s, V[j][s])

(* What an outcome is, and how states follow each other.                   *)
LEMMA OutcomeKinds ==
  ASSUME NEW a \in Outcomes
  PROVE  /\ Fails(a) \/ (a \in Values /\ a # Error /\ ~Fails(a))
         /\ a # Bail
BY ValueKinds, Distinct, Zenon DEF Outcomes

LEMMA ResultsReached ==
  ASSUME NEW r \in Results
  PROVE  r \in Reached
BY DEF Results, Reached

LEMMA FollowsSame ==
  ASSUME NEW s, NEW r, r.sym = s.sym, r.cache = s.cache
  PROVE  Follows(s, r)
BY DEF Follows, Kept

LEMMA FollowsOn ==
  ASSUME NEW r, NEW s, NEW t, Follows(r, s), Follows(s, t)
  PROVE  Follows(r, t)
BY DEF Follows, Kept

LEMMA ReachesOn ==
  ASSUME NEW r, NEW s, NEW t, Follows(r, s), Reaches(s, t)
  PROVE  Reaches(r, t)
BY FollowsOn DEF Reaches

LEMMA ResultReaches ==
  ASSUME NEW s \in Reached, NEW a \in Outcomes
  PROVE  /\ Reaches(s, Result(s, a)) /\ Result(s, a) \in Results
         /\ Result(s, a).val = a /\ Result(s, a).sym = s.sym /\ Result(s, a).cache = s.cache
<1>1. Result(s, a) \in Results /\ Result(s, a).sym = s.sym /\ Result(s, a).cache = s.cache
      /\ Result(s, a).val = a
  BY DEF Result, Reached, Results
<1>. QED  BY <1>1, FollowsSame DEF Reaches

(* A state in which a name is bound anew.                                  *)
LEMMA BoundReached ==
  ASSUME NEW s \in Reached, NEW x \in Names, NEW a \in Values
  PROVE  /\ [s EXCEPT !.sym[x] = a] \in Reached
         /\ s \in Results => [s EXCEPT !.sym[x] = a] \in Results
         /\ [s EXCEPT !.sym[x] = a].sym = [s.sym EXCEPT ![x] = a]
         /\ [s EXCEPT !.sym[x] = a].cache = s.cache
         /\ [s EXCEPT !.sym[x] = a].val = s.val
         /\ [s.sym EXCEPT ![x] = a] \in SymbolTables
         /\ a.t = "array" => Follows(s, [s EXCEPT !.sym[x] = a])
<1>1. s.sym \in SymbolTables
  BY DEF Reached
<1>2. /\ [s.sym EXCEPT ![x] = a] \in SymbolTables
      /\ a.t = "array" => Kept(s.sym, [s.sym EXCEPT ![x] = a])
  BY <1>1, Rebound
<1>3. /\ [s EXCEPT !.sym[x] = a] \in Reached
      /\ s \in Results => [s EXCEPT !.sym[x] = a] \in Results
      /\ [s EXCEPT !.sym[x] = a].sym = [s.sym EXCEPT ![x] = a]
      /\ [s EXCEPT !.sym[x] = a].cache = s.cache
      /\ [s EXCEPT !.sym[x] = a].val = s.val
  BY <1>2 DEF Reached, Results
<1>. QED  BY <1>2, <1>3 DEF Follows

(* Another sequence in an array is another array in the name.              *)
LEMMA ElementsChanged ==
  ASSUME NEW s \in Reached, NEW x \in Names, s.sym[x].t = "array", NEW w
  PROVE  [s EXCEPT !.sym[x].e = w] = [s EXCEPT !.sym[x] = Array(w)]
<1>1. s.sym[x] \in Values /\ s.sym \in SymbolTables
  BY DEF Reached, SymbolTables
<1>2. PICK q : s.sym[x] = Array(q)
  BY <1>1, ValueKinds
<1>3. [Array(q) EXCEPT !.e = w] = Array(w)
  BY DEF Array
<1> DEFINE f == s.sym
<1>4. [f EXCEPT ![x].e = w] = [f EXCEPT ![x] = Array(w)]
  <2>1. [f[x] EXCEPT !.e = w] = Array(w)
    BY <1>2, <1>3
  <2>2. [f EXCEPT ![x].e = w] = [f EXCEPT ![x] = [f[x] EXCEPT !.e = w]]
    OBVIOUS
  <2>. QED  BY <2>1, <2>2
<1>5. [s EXCEPT !.sym[x].e = w] = [s EXCEPT !.sym = [f EXCEPT ![x].e = w]]
  OBVIOUS
<1>6. [s EXCEPT !.sym[x] = Array(w)] = [s EXCEPT !.sym = [f EXCEPT ![x] = Array(w)]]
  OBVIOUS
<1>. QED  BY <1>4, <1>5, <1>6

(* A node that is visited before this one.                                 *)
LEMMA VisitedReaches ==
  ASSUME NEW V, Fine(V), NEW j \in 1..Len(V), NEW s \in Reached
  PROVE  Reaches(s, Visited(V, j, s))
<1> DEFINE t == [sym |-> s.sym, cache |-> s.cache]
<1>1. t \in States /\ t.sym = s.sym /\ t.cache = s.cache
  BY DEF Reached, States, SymbolTables, Tables
<1>2. V[j] \in [States -> Results]
  BY ElementOfSeq DEF Fine
<1> HIDE DEF t
<1>3. V[j][t] \in Results /\ Follows(t, V[j][t])
  BY <1>1, <1>2 DEF Fine
<1>4. Visited(V, j, s) = V[j][t]
  BY DEF Visited, t
<1>5. Follows(s, V[j][t])
  BY <1>1, <1>3 DEF Follows
<1>. QED  BY <1>3, <1>4, <1>5 DEF Reaches

-----------------------------------------------------------------------------
(* The rules of the interpreter, one by one.                               *)
LEMMA LogicReaches ==
  ASSUME NEW V, Fine(V), NEW n, n.l \in 1..Len(V), n.r \in 1..Len(V), NEW s \in Reached
  PROVE  Reaches(s, VisitLogic(V, n, s))
<1> DEFINE a == Visited(V, n.l, s)
           b == Visited(V, n.r, a)
           end == Result(b, IF IsNumber(b.val) THEN Truth(IntOf(b.val) # 0) ELSE Throw)
<1>1. VisitLogic(V, n, s) =
        IF Fails(a.val) THEN a
        ELSE IF ~IsNumber(a.val) THEN Result(a, Throw)
        ELSE IF (IntOf(a.val) # 0) = (n.op = "or") THEN Result(a, Truth(n.op = "or"))
        ELSE IF Fails(b.val) THEN b ELSE end
  BY DEF VisitLogic, Decide, Then
<1>2. Reaches(s, a)
  BY VisitedReaches
<1>3. a \in Reached
  BY <1>2, ResultsReached DEF Reaches
<1> HIDE DEF a
<1>4. Reaches(a, b)
  BY <1>3, VisitedReaches
<1>5. b \in Reached
  BY <1>4, ResultsReached DEF Reaches
<1> HIDE DEF b
<1>6. Throw \in Outcomes /\ \A c : Truth(c) \in Outcomes
  <2>1. \A c : Truth(c) \in Numbers
    BY TruthMade
  <2>2. \A x \in Numbers : x \in Outcomes
    BY NumberParts DEF Outcomes
  <2>3. Throw \in Outcomes
    BY DEF Outcomes
  <2>. QED  BY <2>1, <2>2, <2>3, Zenon
<1>7. Reaches(a, Result(a, Throw)) /\ Reaches(a, Result(a, Truth(n.op = "or")))
  BY <1>3, <1>6, ResultReaches, Zenon
<1>8. Reaches(b, end)
  <2>1. (IF IsNumber(b.val) THEN Truth(IntOf(b.val) # 0) ELSE Throw) \in Outcomes
    BY <1>6, Zenon
  <2>. QED  BY <1>5, <2>1, ResultReaches, Zenon
<1> HIDE DEF end
<1>9. Reaches(s, b)
  BY <1>2, <1>4, ReachesOn, Zenon DEF Reaches
<1>10. Reaches(s, end)
  BY <1>8, <1>9, ReachesOn, Zenon DEF Reaches
<1>11. Reaches(s, Result(a, Throw)) /\ Reaches(s, Result(a, Truth(n.op = "or")))
  BY <1>2, <1>7, ReachesOn, Zenon DEF Reaches
<1>. QED  BY <1>1, <1>2, <1>9, <1>10, <1>11, Zenon

LEMMA BinaryReaches ==
  ASSUME NEW V, Fine(V), NEW n, n.l \in 1..Len(V), n.r \in 1..Len(V), NEW s \in Reached
  PROVE  Reaches(s, VisitBinary(V, n, s))
<1> DEFINE a == Visited(V, n.l, s)
           b == Visited(V, n.r, a)
           end == Result(b, Apply(n.op, a.val, b.val))
<1>1. VisitBinary(V, n, s) =
        IF Fails(a.val) THEN a ELSE IF Fails(b.val) THEN b ELSE end
  BY DEF VisitBinary, Then
<1>2. Reaches(s, a)
  BY VisitedReaches
<1>3. a \in Reached /\ a.val \in Outcomes
  BY <1>2, ResultsReached DEF Reaches, Results
<1> HIDE DEF a
<1>4. Reaches(a, b)
  BY <1>3, VisitedReaches
<1>5. b \in Reached /\ b.val \in Outcomes
  BY <1>4, ResultsReached DEF Reaches, Results
<1> HIDE DEF b
<1>6. ~Fails(a.val) /\ ~Fails(b.val) => Reaches(b, end)
  <2> SUFFICES ASSUME ~Fails(a.val), ~Fails(b.val) PROVE Reaches(b, end)
    OBVIOUS
  <2>1. a.val \in Values /\ b.val \in Values
    BY <1>3, <1>5, OutcomeKinds
  <2>2. Apply(n.op, a.val, b.val) \in Outcomes
    BY <2>1, ApplyType
  <2>. QED  BY <1>5, <2>2, ResultReaches, Zenon
<1> HIDE DEF end
<1>7. Reaches(s, b)
  BY <1>2, <1>4, ReachesOn, Zenon DEF Reaches
<1>8. ~Fails(a.val) /\ ~Fails(b.val) => Reaches(s, end)
  BY <1>6, <1>7, ReachesOn, Zenon DEF Reaches
<1>. QED  BY <1>1, <1>2, <1>7, <1>8, Zenon

LEMMA UnaryReaches ==
  ASSUME NEW V, Fine(V), NEW n, n.e \in 1..Len(V), NEW s \in Reached
  PROVE  Reaches(s, VisitUnary(V, n, s))
<1> DEFINE a == Visited(V, n.e, s)
           end == Result(a, IF n.op = "-" THEN Negated(a.val) ELSE Inverted(a.val))
<1>1. VisitUnary(V, n, s) = IF Fails(a.val) THEN a ELSE end
  BY DEF VisitUnary, Then
<1>2. Reaches(s, a)
  BY VisitedReaches
<1>3. a \in Reached /\ a.val \in Outcomes
  BY <1>2, ResultsReached DEF Reaches, Results
<1> HIDE DEF a
<1>4. ~Fails(a.val) => Reaches(a, end)
  <2> SUFFICES ASSUME ~Fails(a.val) PROVE Reaches(a, end)
    OBVIOUS
  <2>1. a.val \in Values
    BY <1>3, OutcomeKinds
  <2>2. (IF n.op = "-" THEN Negated(a.val) ELSE Inverted(a.val)) \in Outcomes
    BY <2>1, UnaryType
  <2>. QED  BY <1>3, <2>2, ResultReaches, Zenon
<1> HIDE DEF end
<1>5. ~Fails(a.val) => Reaches(s, end)
  BY <1>2, <1>4, ReachesOn, Zenon DEF Reaches
<1>. QED  BY <1>1, <1>2, <1>5, Zenon

LEMMA IndexReaches ==
  ASSUME NEW V, Fine(V), NEW n, n.e \in 1..Len(V), n.name \in Names, NEW s \in Reached
  PROVE  Reaches(s, VisitIndex(V, n, s))
<1> DEFINE i == Visited(V, n.e, s)
           a == i.sym[n.name]
           v == IF a.t \notin {"array", "string"} THEN Error
                ELSE IF ~IsNumber(i.val) THEN Throw
                ELSE IF a.t = "array" THEN At(a.e, IntOf(i.val))
                ELSE IF IntOf(i.val) \in 1..a.n THEN Text(1) ELSE Error
<1>1. Reaches(s, i)
  BY VisitedReaches
<1>2. i \in Reached
  BY <1>1, ResultsReached DEF Reaches
<1>3. VisitIndex(V, n, s) = IF i.val \in {Throw, Nested} THEN i ELSE Result(i, v)
  BY DEF VisitIndex, Element
<1>4. v \in Outcomes
  <2>1. a \in Values
    BY <1>2 DEF Reached, SymbolTables
  <2>2. a.t = "array" => At(a.e, IntOf(i.val)) \in Values
    BY <2>1, ValueKinds, AtType
  <2>3. Text(1) \in Values /\ Error \in Values
    BY TextMade, Distinct
  <2>. QED  BY <2>2, <2>3 DEF Outcomes
<1> HIDE DEF i, v
<1>5. Reaches(i, Result(i, v))
  BY <1>2, <1>4, ResultReaches, Zenon
<1>. QED  BY <1>1, <1>3, <1>5, ReachesOn, Zenon DEF Reaches

LEMMA PushReaches ==
  ASSUME NEW V, Fine(V), NEW n, n.e \in 1..Len(V), n.name \in Names, NEW s \in Reached
  PROVE  Reaches(s, VisitPush(V, n, s))
<1> DEFINE a == Visited(V, n.e, s)
           longer == Array(Append(a.sym[n.name].e, a.val))
           grown == [a EXCEPT !.sym[n.name] = longer]
<1>1. Reaches(s, a)
  BY VisitedReaches
<1>2. a \in Reached /\ a \in Results /\ a.val \in Outcomes /\ Follows(s, a)
  BY <1>1, ResultsReached DEF Reaches, Results
<1>3. VisitPush(V, n, s) = IF s.sym[n.name].t # "array" THEN Result(s, Error)
                           ELSE IF Fails(a.val) THEN a ELSE Grown(n, a)
  BY DEF VisitPush, Then
<1> HIDE DEF a
<1>4. Error \in Outcomes /\ Nested \in Outcomes
  BY Distinct DEF Outcomes
<1>5. Reaches(s, Result(s, Error)) /\ Reaches(a, Result(a, Nested))
  BY <1>2, <1>4, ResultReaches, Zenon
<1>6. ASSUME s.sym[n.name].t = "array", ~Fails(a.val), a.val.t # "array"
      PROVE  Reaches(s, Grown(n, a))
  <2>1. a.sym[n.name] \in Values /\ a.sym[n.name].t = "array"
    BY <1>2, <1>6 DEF Reached, SymbolTables, Follows, Kept
  <2>2. a.sym[n.name].e \in Seq(Scalars) /\ a.sym[n.name] = Array(a.sym[n.name].e)
    BY <2>1, ValueKinds
  <2>3. a.val \in Scalars
    BY <1>2, <1>6, OutcomeKinds, ValueKinds
  <2>4. longer \in Values /\ longer.t = "array"
    BY <2>2, <2>3, ScalarsAppend, ArrayMade
  <2>5. Grown(n, a) = grown
    <3>1. Grown(n, a) = [a EXCEPT !.sym[n.name].e = Append(a.sym[n.name].e, a.val)]
      BY <1>6 DEF Grown
    <3>2. a \in Reached /\ a.sym[n.name].t = "array"
      BY <1>2, <2>1
    <3> DEFINE w == Append(a.sym[n.name].e, a.val)
    <3>3. [a EXCEPT !.sym[n.name].e = w] = [a EXCEPT !.sym[n.name] = Array(w)]
      <4> HIDE DEF w
      <4>. QED  BY <3>2, ElementsChanged
    <3>. QED  BY <3>1, <3>3
  <2> HIDE DEF longer
  <2>6. grown \in Results /\ Follows(a, grown)
    BY <1>2, <2>4, BoundReached
  <2> HIDE DEF grown
  <2>7. Reaches(a, grown)
    BY <2>6 DEF Reaches
  <2>. QED  BY <1>2, <2>5, <2>7, ReachesOn, Zenon
<1>7. a.val.t = "array" => Grown(n, a) = Result(a, Nested)
  BY DEF Grown
<1>8. Reaches(s, Result(a, Nested))
  BY <1>2, <1>5, ReachesOn, Zenon
<1>. QED  BY <1>1, <1>3, <1>5, <1>6, <1>7, <1>8, Zenon

LEMMA PopReaches ==
  ASSUME NEW n, n.name \in Names, NEW s \in Reached
  PROVE  Reaches(s, VisitPop(n, s))
<1> DEFINE q == s.sym[n.name].e
           shrunk == [s EXCEPT !.sym[n.name] = Array(Front(q))]
<1>1. s.sym[n.name] \in Values
  BY DEF Reached, SymbolTables
<1>2. Error \in Outcomes /\ None \in Outcomes
  BY Distinct DEF Outcomes
<1>3. Reaches(s, Result(s, Error)) /\ Reaches(s, Result(s, None))
  BY <1>2, ResultReaches, Zenon
<1>4. CASE s.sym[n.name].t = "array" /\ q # << >>
  <2>1. q \in Seq(Scalars) /\ s.sym[n.name] = Array(q)
    BY <1>1, <1>4, ValueKinds
  <2>2. Front(q) \in Seq(Scalars) /\ Last(q) \in Scalars
    BY <1>4, <2>1, FrontLast
  <2>3. Last(q) \in Outcomes /\ Array(Front(q)) \in Values /\ Array(Front(q)).t = "array"
    BY <2>2, ArrayMade DEF Outcomes, Values
  <2>4. VisitPop(n, s) = Result(shrunk, Last(q))
    <3>1. VisitPop(n, s) = Result([s EXCEPT !.sym[n.name].e = Front(q)], Last(q))
      BY <1>4 DEF VisitPop
    <3>. QED  BY <1>4, <3>1, ElementsChanged
  <2>5. shrunk \in Reached /\ Follows(s, shrunk)
    <3> DEFINE w == Array(Front(q))
    <3>1. w \in Values /\ w.t = "array"
      BY <2>3
    <3> HIDE DEF w
    <3>2. [s EXCEPT !.sym[n.name] = w] \in Reached /\ Follows(s, [s EXCEPT !.sym[n.name] = w])
      BY <3>1, BoundReached
    <3>. QED  BY <3>2 DEF w
  <2> HIDE DEF shrunk
  <2>6. Reaches(shrunk, Result(shrunk, Last(q)))
    BY <2>3, <2>5, ResultReaches, Zenon
  <2>. QED  BY <2>4, <2>5, <2>6, ReachesOn, Zenon
<1>5. CASE s.sym[n.name].t # "array" \/ q = << >>
  BY <1>3, <1>5 DEF VisitPop
<1>. QED  BY <1>4, <1>5

(* Code keeps the machine's state what it is.                              *)
LEMMA TakesSound ==
  ASSUME NEW code \in Seq(Instructions), NEW m \in MachineType, NEW after, Takes(code, m, after)
  PROVE  Sound(m, after)
<1>1. PICK R : Steps(R, code, m, after)
  BY Zenon DEF Takes
<1> DEFINE N == Len(code)
           P == {i \in 0..N : Sound(m, R[i])}
<1>2. N \in Nat /\ R[0] = m /\ R[N] = after
      /\ \A i \in 1..N : R[i] = Instruction(R[i - 1], code[i])
  BY <1>1 DEF Steps
<1>3. 0 \in P
  BY <1>2 DEF Sound, Kept
<1>4. ASSUME NEW k \in 1..N, k - 1 \in P PROVE k \in P
  <2>1. code[k] \in Instructions /\ Sound(m, R[k - 1]) /\ k \in 0..N
    BY <1>2, <1>4, ElementOfSeq
  <2>2. Sound(R[k - 1], R[k])
    BY <1>2, <2>1, InstructionType DEF Sound
  <2>3. Sound(m, R[k])
    BY <2>1, <2>2, KeptOn
  <2>. QED  BY <2>1, <2>3
<1> HIDE DEF P
<1>5. \A k \in 0..N : k \in P
  BY <1>2, <1>3, <1>4, Upward
<1>. QED  BY <1>2, <1>5 DEF P

(* What compiled code gives.                                               *)
LEMMA ExecuteType ==
  ASSUME NEW id \in Ids, NEW symbols \in SymbolTables
  PROVE  LET r == Execute(CodeOf[id], symbols)
         IN  /\ r = [sym |-> r.sym, val |-> r.val]
             /\ r.sym \in SymbolTables /\ Kept(symbols, r.sym)
             /\ r.val \in Numbers \union {Bail, Error, Throw}
<1> DEFINE m == Machine(CodeOf[id], symbols)
<1>1. m \in MachineType /\ Kept(symbols, m.sym)
  <2>1. CodeOf[id] \in Seq(Instructions)
    BY Codes
  <2>2. Takes(CodeOf[id], Begun(symbols), m)
    BY <2>1, MachineTakes
  <2>3. Begun(symbols) \in MachineType /\ Begun(symbols).sym = symbols
    BY BegunType DEF Begun
  <2> HIDE DEF m
  <2>. QED  BY <2>1, <2>2, <2>3, TakesSound DEF Sound
<1> HIDE DEF m
<1>2. Outcome(m).sym = m.sym /\ m.sym \in SymbolTables
  BY <1>1 DEF Outcome, MachineType
<1>3. Outcome(m).val \in Numbers \union {Bail, Error, Throw}
  <2>1. m.stack \in Seq(Numbers) /\ m.val \in Stops
    BY <1>1 DEF MachineType
  <2>2. Len(m.stack) = 1 => m.stack[1] \in Numbers
    BY <2>1, ElementOfSeq
  <2>. QED  BY <2>1, <2>2 DEF Outcome, Stops
<1>4. Outcome(m) = [sym |-> Outcome(m).sym, val |-> Outcome(m).val]
  BY DEF Outcome
<1>. QED  BY <1>1, <1>2, <1>3, <1>4 DEF Execute, m

-----------------------------------------------------------------------------
(* Calls.                                                                  *)
FollowsBut(n, s, r) ==
  /\ \A x \in Names \ Range(n.params) : s.sym[x].t = "array" => r.sym[x].t = "array"
  /\ AllSettled(s.cache) => AllSettled(r.cache)

CallFormed(V, n) ==
  /\ n.params \in Seq(Names) /\ n.args \in Seq(1..Len(V)) /\ Len(n.args) = Len(n.params)
  /\ n.ret \in 1..Len(V)

LEMMA BindArgReaches ==
  ASSUME NEW V, Fine(V), NEW n, CallFormed(V, n), NEW i \in 1..Len(n.args), NEW s \in Reached,
         NEW r \in Results, FollowsBut(n, s, r)
  PROVE  BindArg(V, n, i, r) \in Results /\ FollowsBut(n, s, BindArg(V, n, i, r))
<1> DEFINE a == Visited(V, n.args[i], r)
           bound == [a EXCEPT !.sym[n.params[i]] = a.val]
<1>1. n.args[i] \in 1..Len(V) /\ n.params[i] \in Names /\ n.params[i] \in Range(n.params)
  <2>1. i \in 1..Len(n.params)
    BY DEF CallFormed
  <2>2. n.args[i] \in 1..Len(V) /\ n.params[i] \in Names
    BY <2>1, ElementOfSeq DEF CallFormed
  <2>3. n.params[i] \in Range(n.params)
    BY <2>1 DEF CallFormed, Range
  <2>. QED  BY <2>2, <2>3
<1>2. BindArg(V, n, i, r) = IF Fails(r.val) THEN r ELSE IF Fails(a.val) THEN a ELSE bound
  BY DEF BindArg, Then
<1>3. Reaches(r, a)
  BY <1>1, ResultsReached, VisitedReaches
<1>4. a \in Reached /\ a \in Results /\ a.val \in Outcomes /\ Follows(r, a)
  BY <1>3, ResultsReached DEF Reaches, Results
<1> HIDE DEF a
<1>5. FollowsBut(n, s, a)
  BY <1>4 DEF FollowsBut, Follows, Kept
<1>6. ASSUME ~Fails(a.val) PROVE bound \in Results /\ FollowsBut(n, s, bound)
  <2>1. a.val \in Values
    BY <1>4, <1>6, OutcomeKinds
  <2>2. bound \in Results /\ bound.sym = [a.sym EXCEPT ![n.params[i]] = a.val] /\ bound.cache = a.cache
    <3> DEFINE x == n.params[i]
    <3>1. x \in Names
      BY <1>1
    <3> HIDE DEF x
    <3>2. /\ [a EXCEPT !.sym[x] = a.val] \in Results
          /\ [a EXCEPT !.sym[x] = a.val].sym = [a.sym EXCEPT ![x] = a.val]
          /\ [a EXCEPT !.sym[x] = a.val].cache = a.cache
      BY <1>4, <2>1, <3>1, BoundReached
    <3>. QED  BY <3>2 DEF x
  <2>3. a.sym \in SymbolTables
    BY <1>4 DEF Reached
  <2>4. \A x \in Names \ Range(n.params) : bound.sym[x] = a.sym[x]
    BY <1>1, <2>1, <2>2, <2>3, Rebound
  <2> HIDE DEF bound
  <2>5. FollowsBut(n, s, bound)
    BY <1>5, <2>2, <2>4 DEF FollowsBut
  <2>. QED  BY <2>2, <2>5
<1>. QED  BY <1>2, <1>4, <1>5, <1>6

LEMMA BindArgsReaches ==
  ASSUME NEW V, Fine(V), NEW n, CallFormed(V, n), NEW s \in Reached
  PROVE  BindArgs(V, n, s) \in Results /\ FollowsBut(n, s, BindArgs(V, n, s))
<1> DEFINE N == Len(n.args)
           S == {r \in Results : FollowsBut(n, s, r)}
           first == Result(s, None)
           F == [i \in 1..N |-> [r \in S |-> BindArg(V, n, i, r)]]
           Body(f, i) == IF i = 0 THEN Result(s, None) ELSE BindArg(V, n, i, f[i - 1])
           Bound == CHOOSE f : f = [i \in 0..N |-> Body(f, i)]
<1>1. N \in Nat
  BY DEF CallFormed
<1>2. \A i \in 1..N, r \in S : BindArg(V, n, i, r) \in S
  BY BindArgReaches
<1>3. F \in [1..N -> [S -> S]]
  BY <1>2
<1>4. first \in S
  <2>1. None \in Outcomes
    BY Distinct DEF Outcomes
  <2>2. first \in Results /\ first.sym = s.sym /\ first.cache = s.cache
    BY <2>1, ResultReaches
  <2> HIDE DEF first
  <2>. QED  BY <2>2 DEF FollowsBut
<1>50. PICK g : RecursUpTo(g, N, S, first, F)
  <2> HIDE DEF F, S, N, first
  <2>. QED  BY <1>1, <1>3, <1>4, BoundedRecursion, Zenon
<1>5. /\ g = [k \in 0..N |-> g[k]]
      /\ \A k \in 0..N : g[k] \in S
      /\ g[0] = first
      /\ \A k \in 1..N : g[k] = F[k][g[k - 1]]
  BY <1>50, Zenon DEF RecursUpTo
<1>6. \A k \in 0..N : g[k] = Body(g, k)
  <2> SUFFICES ASSUME NEW k \in 0..N PROVE g[k] = Body(g, k)
    OBVIOUS
  <2>1. CASE k = 0
    BY <1>5, <2>1
  <2>2. CASE k # 0
    <3>1. k \in 1..N /\ k - 1 \in 0..N
      BY <1>1, <2>2
    <3>2. g[k - 1] \in S /\ g[k] = F[k][g[k - 1]]
      BY <1>5, <3>1
    <3> HIDE DEF S
    <3>. QED  BY <2>2, <3>1, <3>2
  <2>. QED  BY <2>1, <2>2
<1>7. g = [k \in 0..N |-> Body(g, k)]
  BY <1>5, <1>6
<1>8. Bound = [k \in 0..N |-> Body(Bound, k)]
  BY <1>7
<1>9. BindArgs(V, n, s) = Bound[N]
  BY DEF BindArgs
<1> HIDE DEF Bound
<1>10. \A k \in 0..N : Bound[k] = Body(Bound, k)
  BY <1>8
<1>11. \A k \in 0..N : k \in {i \in 0..N : Bound[i] \in S}
  <2> DEFINE P == {i \in 0..N : Bound[i] \in S}
  <2>1. 0 \in P
    BY <1>1, <1>4, <1>10
  <2>2. ASSUME NEW k \in 1..N, k - 1 \in P PROVE k \in P
    <3>1. k \in 0..N /\ k # 0 /\ Bound[k - 1] \in S
      BY <1>1, <2>2
    <3>2. Bound[k] = BindArg(V, n, k, Bound[k - 1])
      BY <1>10, <3>1
    <3>3. Bound[k] \in S
      BY <1>2, <3>1, <3>2
    <3>. QED  BY <3>1, <3>3
  <2> HIDE DEF P
  <2>3. \A k \in 0..N : k \in P
    BY <1>1, <2>1, <2>2, Upward
  <2>. QED  BY <2>3 DEF P
<1>12. Bound[N] \in S
  BY <1>1, <1>11
<1>. QED  BY <1>9, <1>12

(* The quick way of a call, and the call.                                  *)
LEMMA QuickReturnReaches ==
  ASSUME NEW n, n.ret \in Ids, NEW s \in Reached
  PROVE  /\ QuickReturn(n, s) \in Reached
         /\ QuickReturn(n, s).sym = s.sym /\ QuickReturn(n, s).cache = s.cache
<1>1. s.sym \in SymbolTables /\ s.cache \in Tables
  BY DEF Reached
<1>2. Compiles(n.ret) => Execute(CodeOf[n.ret], s.sym).val \in Outcomes \union {Bail}
  BY <1>1, ExecuteType, NumberParts, Distinct DEF Outcomes
<1>3. \A a : Result(s, a) = [sym |-> s.sym, cache |-> s.cache, val |-> a]
  BY DEF Result
<1>4. \A a \in Outcomes \union {Bail} :
        Result(s, a) \in Reached /\ Result(s, a).sym = s.sym /\ Result(s, a).cache = s.cache
  BY <1>1, <1>3 DEF Reached
<1>. QED  BY <1>2, <1>4 DEF QuickReturn, PureNumeric

LEMMA CallReaches ==
  ASSUME NEW V, Fine(V), NEW n, CallFormed(V, n), n.ret \in Ids, NEW s \in Reached
  PROVE  Reaches(s, VisitCall(V, n, s))
<1> DEFINE b == BindArgs(V, n, s)
           q == QuickReturn(n, b)
           v == Visited(V, n.ret, q)
           r == IF Fails(b.val) THEN b ELSE IF q.val = Bail THEN v ELSE q
<1>1. VisitCall(V, n, s) = Unbind(n, s, r)
  BY DEF VisitCall, Then, OrElse
<1>2. b \in Results /\ FollowsBut(n, s, b)
  BY BindArgsReaches
<1>3. b \in Reached
  BY <1>2, ResultsReached
<1> HIDE DEF b
<1>4. q \in Reached /\ q.sym = b.sym /\ q.cache = b.cache
  BY <1>3, QuickReturnReaches
<1>5. q.val # Bail => q \in Results
  BY <1>4 DEF Reached, Results
<1> HIDE DEF q
<1>6. Reaches(q, v)
  BY <1>4, VisitedReaches DEF CallFormed
<1> HIDE DEF v
<1>7. FollowsBut(n, s, q)
  BY <1>2, <1>4 DEF FollowsBut
<1>8. v \in Results /\ FollowsBut(n, s, v)
  BY <1>6, <1>7 DEF FollowsBut, Reaches, Follows, Kept
<1>9. r \in Results /\ FollowsBut(n, s, r)
  BY <1>2, <1>5, <1>7, <1>8
<1> HIDE DEF r
<1> DEFINE f == [x \in Names |-> IF x \in Range(n.params) THEN s.sym[x] ELSE r.sym[x]]
<1>10. Unbind(n, s, r) = [r EXCEPT !.sym = f]
  BY DEF Unbind
<1>11. f \in SymbolTables
  BY <1>9 DEF Reached, Results, SymbolTables
<1>12. Kept(s.sym, f)
  BY <1>9 DEF Kept, FollowsBut
<1> HIDE DEF f
<1>13. /\ [r EXCEPT !.sym = f] \in Results /\ [r EXCEPT !.sym = f].sym = f
       /\ [r EXCEPT !.sym = f].cache = r.cache
  BY <1>9, <1>11 DEF Results
<1>14. Follows(s, [r EXCEPT !.sym = f])
  BY <1>9, <1>12, <1>13 DEF Follows, FollowsBut
<1>. QED  BY <1>1, <1>10, <1>13, <1>14 DEF Reaches

(* All rules together.                                                     *)
LEMMA InterpretReaches ==
  ASSUME NEW id \in Ids, NEW V, Fine(V), Len(V) = id - 1, NEW s \in Reached
  PROVE  Reaches(s, Interpret(V, Node[id], s))
<1> DEFINE n == Node[id]
<1>1. Formed(id, n) /\ id \in Nat /\ Ids = 1..Len(Node) /\ Len(Node) \in Nat
  BY NodeAssumption
<1>2. \A c \in 1..(id - 1) : c \in 1..Len(V) /\ c \in Ids
  BY <1>1
<1> HIDE DEF n
<1>3. CASE n.kind = "value"
  <2>1. n.v \in Outcomes
    BY <1>1, <1>3 DEF Formed, Outcomes, Values
  <2>2. Interpret(V, n, s) = Result(s, n.v)
    BY <1>3 DEF Interpret
  <2>. QED  BY <2>1, <2>2, ResultReaches DEF n
<1>4. CASE n.kind = "var"
  <2>1. s.sym[n.name] \in Outcomes
    BY <1>1, <1>4 DEF Formed, Outcomes, Reached, SymbolTables
  <2>2. Interpret(V, n, s) = Result(s, s.sym[n.name])
    BY <1>4 DEF Interpret
  <2>. QED  BY <2>1, <2>2, ResultReaches DEF n
<1>5. CASE n.kind = "call"
  <2>1. /\ n.params \in Seq(Names) /\ n.args \in Seq(1..(id - 1))
        /\ Len(n.args) = Len(n.params) /\ n.ret \in 1..(id - 1)
    BY <1>1, <1>5 DEF Formed
  <2>2. CallFormed(V, n) /\ n.ret \in Ids
    BY <1>2, <2>1 DEF CallFormed
  <2>3. Interpret(V, n, s) = VisitCall(V, n, s)
    BY <1>5 DEF Interpret
  <2>. QED  BY <2>2, <2>3, CallReaches DEF n
<1>6. CASE n.kind = "index"
  <2>1. n.name \in Names /\ n.e \in 1..Len(V)
    BY <1>1, <1>2, <1>6 DEF Formed
  <2>2. Interpret(V, n, s) = VisitIndex(V, n, s)
    BY <1>6 DEF Interpret
  <2>. QED  BY <2>1, <2>2, IndexReaches DEF n
<1>7. CASE n.kind = "push"
  <2>1. n.name \in Names /\ n.e \in 1..Len(V)
    BY <1>1, <1>2, <1>7 DEF Formed
  <2>2. Interpret(V, n, s) = VisitPush(V, n, s)
    BY <1>7 DEF Interpret
  <2>. QED  BY <2>1, <2>2, PushReaches DEF n
<1>8. CASE n.kind = "pop"
  <2>1. n.name \in Names
    BY <1>1, <1>8 DEF Formed
  <2>2. Interpret(V, n, s) = VisitPop(n, s)
    BY <1>8 DEF Interpret
  <2>. QED  BY <2>1, <2>2, PopReaches DEF n
<1>9. CASE n.kind = "un"
  <2>1. n.e \in 1..Len(V)
    BY <1>1, <1>2, <1>9 DEF Formed
  <2>2. Interpret(V, n, s) = VisitUnary(V, n, s)
    BY <1>9 DEF Interpret
  <2>. QED  BY <2>1, <2>2, UnaryReaches DEF n
<1>10. CASE n.kind = "bin"
  <2>1. n.l \in 1..Len(V) /\ n.r \in 1..Len(V)
    BY <1>1, <1>2, <1>10 DEF Formed
  <2>2. Interpret(V, n, s) = VisitLogic(V, n, s) \/ Interpret(V, n, s) = VisitBinary(V, n, s)
    BY <1>10 DEF Interpret
  <2>. QED  BY <2>1, <2>2, LogicReaches, BinaryReaches DEF n
<1>. QED  BY <1>1, <1>3, <1>4, <1>5, <1>6, <1>7, <1>8, <1>9, <1>10 DEF Formed

(* Counting a visit settles the entry or leaves it below the threshold.    *)
LEMMA CountedSettled ==
  ASSUME NEW id, NEW e \in Entries
  PROVE  Counted(id, e) \in Entries /\ (Settled(e) => Settled(Counted(id, e)))
<1>1. e.hits \in Nat /\ e.program \in BOOLEAN /\ e.disabled \in BOOLEAN
  BY DEF Entries
<1>2. HotThreshold \in Nat /\ HotThreshold # 0
  BY ThresholdAssumption
<1>3. CASE e.program \/ e.disabled
  BY <1>3 DEF Counted
<1>4. CASE ~(e.program \/ e.disabled)
  <2> DEFINE hot == e.hits + 1 = HotThreshold
             c == Counted(id, e)
  <2>1. c = [hits |-> e.hits + 1, program |-> hot /\ Compiles(id), disabled |-> hot /\ ~Compiles(id)]
    BY <1>4 DEF Counted
  <2>2. /\ c.hits = e.hits + 1 /\ c.program = (hot /\ Compiles(id))
        /\ c.disabled = (hot /\ ~Compiles(id))
    BY <2>1
  <2>3. c \in Entries
    <3>1. (hot /\ Compiles(id)) \in BOOLEAN /\ (hot /\ ~Compiles(id)) \in BOOLEAN
      OBVIOUS
    <3>. QED  BY <1>1, <2>1, <3>1 DEF Entries
  <2>4. ASSUME Settled(e) PROVE Settled(c)
    <3>1. e.hits \in 0..HotThreshold /\ e.hits # HotThreshold
      BY <1>4, <2>4, Zenon DEF Settled
    <3>2. e.hits + 1 \in 0..HotThreshold
      BY <1>2, <3>1
    <3> HIDE DEF c
    <3>3. (c.hits = HotThreshold) <=> (c.program \/ c.disabled)
      BY <2>2, Zenon
    <3>4. ~(c.program /\ c.disabled)
      BY <2>2, Zenon
    <3>. QED  BY <2>2, <3>2, <3>3, <3>4, Zenon DEF Settled
  <2>. QED  BY <2>3, <2>4
<1>. QED  BY <1>3, <1>4

(* Compiled code, or none, and then the interpreter.                       *)
LEMMA TryJitReaches ==
  ASSUME NEW id \in Ids, NEW s \in States
  PROVE  TryJit(id, s) \in Reached /\ Follows(s, TryJit(id, s))
<1> DEFINE c == [s EXCEPT !.cache[id] = Counted(id, @)]
           b == Result(c, Bail)
           r == Execute(CodeOf[id], b.sym)
<1>1. s.sym \in SymbolTables /\ s.cache \in Tables
  BY DEF States, SymbolTables, Tables
<1>2. \A t : t.sym \in SymbolTables /\ t.cache \in Tables =>
        /\ Result(t, Bail) \in Reached
        /\ Result(t, Bail).sym = t.sym /\ Result(t, Bail).cache = t.cache
  BY DEF Result, Reached
<1>3. Result(s, Bail) \in Reached /\ Follows(s, Result(s, Bail))
  BY <1>1, <1>2, FollowsSame
<1>4. c.sym = s.sym /\ c.cache \in Tables /\ (AllSettled(s.cache) => AllSettled(c.cache))
  <2>1. c.sym = s.sym /\ c.cache = [s.cache EXCEPT ![id] = Counted(id, s.cache[id])]
    BY DEF States
  <2>2. s.cache[id] \in Entries
    BY <1>1 DEF Tables
  <2>3. Counted(id, s.cache[id]) \in Entries
        /\ (Settled(s.cache[id]) => Settled(Counted(id, s.cache[id])))
    BY <2>2, CountedSettled
  <2>4. \A j \in Ids : c.cache[j] = IF j = id THEN Counted(id, s.cache[id]) ELSE s.cache[j]
    BY <1>1, <2>1 DEF Tables
  <2>5. c.cache \in Tables
    BY <1>1, <2>1, <2>3 DEF Tables
  <2> HIDE DEF c
  <2>6. AllSettled(s.cache) => AllSettled(c.cache)
    BY <2>3, <2>4 DEF AllSettled
  <2>. QED  BY <2>1, <2>5, <2>6
<1> HIDE DEF c
<1>5. b \in Reached /\ b.sym = s.sym /\ b.cache = c.cache
  BY <1>1, <1>2, <1>4
<1>6. Follows(s, b)
  BY <1>4, <1>5 DEF Follows, Kept
<1> HIDE DEF b
<1>7. r.sym \in SymbolTables /\ Kept(b.sym, r.sym) /\ r.val \in Outcomes \union {Bail}
  <2>1. b.sym \in SymbolTables
    BY <1>5 DEF Reached
  <2>. QED  BY <2>1, ExecuteType, NumberParts, Distinct DEF Outcomes
<1> HIDE DEF r
<1>8. /\ RunCode(b, r) \in Reached /\ RunCode(b, r).sym = r.sym
      /\ RunCode(b, r).cache = b.cache
  BY <1>5, <1>7 DEF RunCode, Reached
<1>9. Follows(b, RunCode(b, r))
  BY <1>7, <1>8 DEF Follows
<1>10. Follows(s, RunCode(b, r))
  BY <1>6, <1>9, FollowsOn
<1>11. TryJit(id, s) \in {Result(s, Bail), b, RunCode(b, r)}
  BY DEF TryJit, RunIfCompiled, b, c, r
<1>. QED  BY <1>3, <1>5, <1>6, <1>8, <1>10, <1>11

LEMMA VisitNodeReaches ==
  ASSUME NEW id \in Ids, NEW V, Fine(V), Len(V) = id - 1, NEW s \in States
  PROVE  Reaches(s, VisitNode(V, id, s))
<1> DEFINE r == TryJit(id, s)
<1>1. r \in Reached /\ Follows(s, r)
  BY TryJitReaches
<1>2. VisitNode(V, id, s) = IF r.val = Bail THEN Interpret(V, Node[id], r) ELSE r
  BY DEF VisitNode, OrElse
<1> HIDE DEF r
<1>3. CASE r.val = Bail
  BY <1>1, <1>2, <1>3, InterpretReaches, ReachesOn
<1>4. CASE r.val # Bail
  <2>1. r \in Results
    BY <1>1, <1>4 DEF Reached, Results
  <2>. QED  BY <1>1, <1>2, <1>4, <2>1 DEF Reaches
<1>. QED  BY <1>3, <1>4

NextVisits(V, k) == Append(V, [s \in States |-> VisitNode(V, k, s)])

(* One node more.                                                          *)
LEMMA FineOn ==
  ASSUME NEW id \in Ids, NEW V, Fine(V), Len(V) = id - 1
  PROVE  Fine(NextVisits(V, id)) /\ Len(NextVisits(V, id)) = id
<1> DEFINE f == [s \in States |-> VisitNode(V, id, s)]
           W == Append(V, f)
<1>1. \A s \in States : Reaches(s, VisitNode(V, id, s))
  BY VisitNodeReaches
<1>2. f \in [States -> Results] /\ \A s \in States : Follows(s, f[s])
  BY <1>1 DEF Reaches
<1> HIDE DEF f
<1>3. /\ V \in Seq([States -> Results]) /\ id \in Nat /\ Len(V) \in Nat /\ Len(V) + 1 = id
      /\ \A j \in 1..Len(V) : \A s \in States : Follows(s, V[j][s])
  BY NodeAssumption DEF Fine
<1>4. /\ W \in Seq([States -> Results]) /\ Len(W) = id /\ W[id] = f
      /\ \A j \in 1..Len(V) : W[j] = V[j]
  BY <1>2, <1>3, AppendEnd
<1>5. W = NextVisits(V, id)
  BY DEF NextVisits, f
<1> HIDE DEF W
<1>6. \A j \in 1..Len(W) : j \in 1..Len(V) \/ j = id
  BY <1>3, <1>4
<1>7. \A j \in 1..Len(W) : \A s \in States : Follows(s, W[j][s])
  BY <1>2, <1>3, <1>4, <1>6
<1>. QED  BY <1>4, <1>5, <1>7 DEF Fine

(* The recursion over the nodes, unfolded.                                 *)
LEMMA VisitsUnfold ==
  /\ VisitsUpTo[0] = << >>
  /\ \A k \in Ids : VisitsUpTo[k] = NextVisits(VisitsUpTo[k - 1], k)
<1> DEFINE N == Len(Node)
           S == {V \in Seq([States -> Results]) : Fine(V)}
           Grow(V, k) == IF Len(V) = k - 1 THEN NextVisits(V, k) ELSE V
           F == [k \in 1..N |-> [V \in S |-> Grow(V, k)]]
           first == << >>
           Body(f, k) == IF k = 0 THEN << >>
                         ELSE Append(f[k - 1], [s \in States |-> VisitNode(f[k - 1], k, s)])
<1>1. N \in Nat /\ Ids = 1..N
  BY NodeAssumption
<1>2. \A k \in 1..N, V \in S : Grow(V, k) \in S
  <2> SUFFICES ASSUME NEW k \in 1..N, NEW V \in S PROVE Grow(V, k) \in S
    OBVIOUS
  <2>1. Len(V) = k - 1 => Fine(NextVisits(V, k))
    BY <1>1, FineOn
  <2>2. Len(V) = k - 1 => NextVisits(V, k) \in Seq([States -> Results])
    BY <2>1 DEF Fine
  <2>. QED  BY <2>1, <2>2
<1>3. F \in [1..N -> [S -> S]]
  BY <1>2
<1>4. first \in S
  <2>1. first \in Seq([States -> Results]) /\ 1..Len(first) = {}
    OBVIOUS
  <2>2. Fine(first)
    BY <2>1 DEF Fine
  <2>. QED  BY <2>1, <2>2
<1>50. PICK g : RecursUpTo(g, N, S, first, F)
  <2>1. N \in Nat
    BY <1>1
  <2> HIDE DEF F, S, N, first
  <2>. QED  BY <2>1, <1>3, <1>4, BoundedRecursion, Zenon
<1>5. /\ g = [k \in 0..N |-> g[k]]
      /\ \A k \in 0..N : g[k] \in S
      /\ g[0] = first
      /\ \A k \in 1..N : g[k] = F[k][g[k - 1]]
  BY <1>50, Zenon DEF RecursUpTo
<1>6. \A k \in 1..N : g[k] = Grow(g[k - 1], k)
  <2> SUFFICES ASSUME NEW k \in 1..N PROVE g[k] = Grow(g[k - 1], k)
    OBVIOUS
  <2>1. k - 1 \in 0..N
    BY <1>1
  <2>2. g[k - 1] \in S /\ g[k] = F[k][g[k - 1]]
    BY <1>5, <2>1
  <2> HIDE DEF S, Grow
  <2>. QED  BY <2>2
<1>7. \A k \in 0..N : Len(g[k]) = k
  <2> DEFINE P == {k \in 0..N : Len(g[k]) = k}
  <2>1. 0 \in P
    BY <1>5
  <2>2. ASSUME NEW k \in 1..N, k - 1 \in P PROVE k \in P
    <3>1. Fine(g[k - 1]) /\ Len(g[k - 1]) = k - 1 /\ k \in Ids
      BY <1>1, <1>5, <2>2
    <3>2. g[k] = NextVisits(g[k - 1], k)
      BY <1>6, <3>1
    <3>3. k \in 0..N
      BY <1>1
    <3>. QED  BY <3>1, <3>2, <3>3, FineOn
  <2> HIDE DEF P
  <2>3. \A k \in 0..N : k \in P
    BY <1>1, <2>1, <2>2, Upward
  <2>. QED  BY <2>3 DEF P
<1>8. \A k \in 0..N : g[k] = Body(g, k)
  <2> SUFFICES ASSUME NEW k \in 0..N PROVE g[k] = Body(g, k)
    OBVIOUS
  <2>1. CASE k = 0
    BY <1>5, <2>1
  <2>2. CASE k # 0
    <3>1. k \in 1..N /\ k - 1 \in 0..N
      BY <1>1, <2>2
    <3>2. g[k] = NextVisits(g[k - 1], k)
      BY <1>6, <1>7, <3>1
    <3>. QED  BY <2>2, <3>2 DEF NextVisits
  <2>. QED  BY <2>1, <2>2
<1>9. g = [k \in 0..N |-> Body(g, k)]
  BY <1>5, <1>8
<1>10. VisitsUpTo = [k \in 0..N |-> Body(VisitsUpTo, k)]
  BY <1>9 DEF VisitsUpTo
<1>11. \A k \in 0..N : VisitsUpTo[k] = Body(VisitsUpTo, k)
  BY <1>10
<1>12. \A k \in 1..N : k \in 0..N /\ k # 0
  BY <1>1
<1>13. VisitsUpTo[0] = << >>
  <2>1. VisitsUpTo[0] = Body(VisitsUpTo, 0)
    <3>1. 0 \in 0..N
      BY <1>1
    <3>. QED  BY <1>11, <3>1, Zenon
  <2>2. Body(VisitsUpTo, 0) = << >>
    OBVIOUS
  <2>. QED  BY <2>1, <2>2
<1>14. \A k \in 1..N : VisitsUpTo[k] = Body(VisitsUpTo, k)
  BY <1>11, <1>12
<1>15. \A k \in 1..N : Body(VisitsUpTo, k) = NextVisits(VisitsUpTo[k - 1], k)
  BY <1>12 DEF NextVisits
<1>. QED  BY <1>1, <1>13, <1>14, <1>15

(* And so every node, by the nodes before it.                              *)
LEMMA VisitsFine ==
  \A k \in 0..Len(Node) : Fine(VisitsUpTo[k]) /\ Len(VisitsUpTo[k]) = k
<1> DEFINE N == Len(Node)
           P == {k \in 0..N : Fine(VisitsUpTo[k]) /\ Len(VisitsUpTo[k]) = k}
<1>1. N \in Nat /\ Ids = 1..N
  BY NodeAssumption
<1>2. 0 \in P
  <2>1. << >> \in Seq([States -> Results]) /\ 1..Len(<< >>) = {} /\ Len(<< >>) = 0
    OBVIOUS
  <2>2. Fine(<< >>)
    BY <2>1 DEF Fine
  <2>. QED  BY <1>1, <2>1, <2>2, VisitsUnfold
<1>3. ASSUME NEW k \in 1..N, k - 1 \in P PROVE k \in P
  <2>1. k \in Ids /\ k \in 0..N
    BY <1>1
  <2>2. VisitsUpTo[k] = NextVisits(VisitsUpTo[k - 1], k)
    BY <2>1, VisitsUnfold
  <2>. QED  BY <1>3, <2>1, <2>2, FineOn
<1> HIDE DEF P
<1>4. \A k \in 0..N : k \in P
  BY <1>1, <1>2, <1>3, Upward
<1>. QED  BY <1>4 DEF P

Placed(s) == s.sym \in SymbolTables /\ s.cache \in Tables

LEMMA VisitReaches ==
  ASSUME NEW id \in Ids, NEW s, Placed(s)
  PROVE  Reaches(s, Visit(id, s))
<1> DEFINE t == Result(s, Error)
<1>1. Fine(Visits) /\ Len(Visits) = Len(Node) /\ Len(Node) \in Nat /\ Ids = 1..Len(Node)
  BY VisitsFine, NodeAssumption DEF Visits
<1>2. id \in 1..Len(Visits)
  BY <1>1
<1>3. t \in Reached /\ t.sym = s.sym /\ t.cache = s.cache
  BY Distinct DEF Result, Reached, Outcomes, Placed
<1>4. Visited(Visits, id, t) = Visited(Visits, id, s)
  BY <1>3 DEF Visited
<1> HIDE DEF t
<1>5. Reaches(t, Visited(Visits, id, t))
  BY <1>1, <1>2, <1>3, VisitedReaches
<1>. QED  BY <1>3, <1>4, <1>5 DEF Visit, Reaches, Follows

LEMMA ReachedPlaced ==
  ASSUME NEW s \in Reached
  PROVE  Placed(s)
BY DEF Placed, Reached

(* What a statement leaves.                                                *)
Endings == [sym : SymbolTables, cache : Tables, val : Outcomes \union {Break, Continue}]

StaysSettled(s, r) == AllSettled(s.cache) => AllSettled(r.cache)
Leads(s, r) == r \in Endings /\ StaysSettled(s, r)

(* How a statement can end, and how endings follow each other.             *)
LEMMA EndingKinds ==
  ASSUME NEW a \in Outcomes \union {Break, Continue}
  PROVE  /\ Fails(a) \/ a \in {Break, Continue} \/ (a \in Values /\ a # Error)
         /\ Fails(a) => a \in Outcomes
         /\ ~Fails(Break) /\ ~Fails(Continue)
         /\ Break # Bail /\ Continue # Bail /\ a # Bail
         /\ Break \notin Outcomes /\ Continue \notin Outcomes
<1>1. /\ ~Fails(Break) /\ ~Fails(Continue) /\ Break # Bail /\ Continue # Bail
  BY DEF Fails, Break, Continue, Bail
<1>2. Break.t = "break" /\ Continue.t = "continue"
  BY DEF Break, Continue
<1>3. Break \notin Outcomes /\ Continue \notin Outcomes
  <2>1. \A b \in Outcomes : b.t \notin {"break", "continue"}
    <3>1. \A b \in Values : b.t \notin {"break", "continue"}
      BY ValueKinds
    <3>. QED  BY <3>1 DEF Outcomes, Throw, Nested
  <2>. QED  BY <1>2, <2>1
<1>4. CASE a \in Outcomes
  BY <1>1, <1>3, <1>4, OutcomeKinds
<1>5. CASE a \in {Break, Continue}
  BY <1>1, <1>3, <1>5
<1>. QED  BY <1>4, <1>5

LEMMA ReachesLeads ==
  ASSUME NEW s, NEW r, Reaches(s, r)
  PROVE  Leads(s, r) /\ r \in Results /\ r \in Reached /\ Placed(r) /\ r.val \in Outcomes
BY DEF Reaches, Leads, Results, Reached, Endings, Follows, StaysSettled, Placed

LEMMA LeadsOn ==
  ASSUME NEW r, NEW s, NEW t, StaysSettled(r, s), Leads(s, t)
  PROVE  Leads(r, t)
BY DEF Leads, StaysSettled

LEMMA ResultLeads ==
  ASSUME NEW s, Placed(s), NEW a \in Outcomes \union {Break, Continue}
  PROVE  /\ Leads(s, Result(s, a)) /\ Placed(Result(s, a))
         /\ Result(s, a).sym = s.sym /\ Result(s, a).cache = s.cache /\ Result(s, a).val = a
BY DEF Result, Placed, Leads, Endings, StaysSettled

(* A state that gets another symbol table.                                 *)
LEMMA TableLeads ==
  ASSUME NEW s \in Endings, NEW f \in SymbolTables
  PROVE  /\ Leads(s, [s EXCEPT !.sym = f]) /\ [s EXCEPT !.sym = f].sym = f
         /\ [s EXCEPT !.sym = f].val = s.val
BY DEF Endings, Leads, StaysSettled

(* The store of an element, and the statement that makes it.               *)
LEMMA StoreType ==
  ASSUME NEW f \in SymbolTables, NEW x \in Names, NEW p, NEW a \in Scalars
  PROVE  Store(f, x, p, a) \in SymbolTables
<1>1. CASE f[x].t = "array" /\ IntOf(p) \in DOMAIN f[x].e
  <2> DEFINE q == f[x].e
             i == IntOf(p)
             w == [q EXCEPT ![i] = a]
  <2>1. f[x] \in Values
    BY DEF SymbolTables
  <2>2. q \in Seq(Scalars) /\ f[x] = Array(q)
    BY <1>1, <2>1, ValueKinds
  <2>3. w \in Seq(Scalars)
    <3>1. i \in 1..Len(q)
      BY <1>1, <2>2
    <3> HIDE DEF q, i
    <3>. QED  BY <2>2, <3>1
  <2>4. Array(w) \in Values
    BY <2>3, ArrayMade
  <2>5. [f EXCEPT ![x] = Array(w)] \in SymbolTables
    BY <2>4, Rebound
  <2>6. Store(f, x, p, a) = [f EXCEPT ![x] = Array(w)]
    <3>1. Store(f, x, p, a) = [f EXCEPT ![x] = [f[x] EXCEPT !.e = w]]
      BY <1>1 DEF Store
    <3>2. \A u : [Array(u) EXCEPT !.e = w] = Array(w)
      BY DEF Array
    <3> HIDE DEF q, w
    <3>. QED  BY <2>2, <3>1, <3>2
  <2>. QED  BY <2>5, <2>6
<1>2. CASE ~(f[x].t = "array" /\ IntOf(p) \in DOMAIN f[x].e)
  BY <1>2 DEF Store
<1>. QED  BY <1>1, <1>2

LEMMA StoreValueLeads ==
  ASSUME NEW n, n.name \in Names, n.e \in Ids, NEW i \in Results
  PROVE  Leads(i, StoreValue(n, i))
<1> DEFINE v == Visit(n.e, i)
           f == Store(v.sym, n.name, i.val, v.val)
           stored == [v EXCEPT !.sym = f]
<1>1. Placed(i)
  BY DEF Results, Placed
<1>2. Reaches(i, v)
  BY <1>1, VisitReaches
<1>3. Leads(i, v) /\ v \in Endings /\ Placed(v) /\ v.val \in Outcomes /\ StaysSettled(i, v)
      /\ v.sym \in SymbolTables
  BY <1>2, ReachesLeads DEF Leads, Placed
<1>4. StoreValue(n, i) = IF i.val \in {Throw, Nested} THEN i
                         ELSE IF i.sym[n.name].t \in {"array", "string"} /\ ~IsNumber(i.val)
                         THEN Result(i, Throw) ELSE StoreAt(n, i, v)
  BY DEF StoreValue
<1> HIDE DEF v
<1>5. Leads(i, Result(i, Throw)) /\ Leads(v, Result(v, Nested))
  BY <1>1, <1>3, ResultLeads DEF Outcomes
<1>6. Leads(i, Result(v, Nested))
  BY <1>3, <1>5, LeadsOn
<1>7. ASSUME v.val \notin {Throw, Nested}, v.val.t # "array" PROVE Leads(i, stored)
  <2>1. v.val \in Values
    BY <1>3, <1>7 DEF Outcomes
  <2>2. v.val \in Scalars
    BY <1>7, <2>1, ValueKinds
  <2>3. f \in SymbolTables
    BY <1>3, <2>2, StoreType
  <2> HIDE DEF f
  <2>4. Leads(v, stored)
    BY <1>3, <2>3, TableLeads
  <2>. QED  BY <1>3, <2>4, LeadsOn
<1>8. StoreAt(n, i, v) = IF v.val \in {Throw, Nested} THEN v
                         ELSE IF v.val.t = "array" THEN Result(v, Nested) ELSE stored
  BY DEF StoreAt
<1>9. Leads(i, i)
  BY DEF Leads, Results, Endings, StaysSettled
<1>. QED  BY <1>3, <1>4, <1>5, <1>6, <1>7, <1>8, <1>9

-----------------------------------------------------------------------------
(* Blocks.                                                                 *)
Able(D) == /\ D \in Seq([States -> Endings])
           /\ \A j \in 1..Len(D) : \A s \in States : StaysSettled(s, D[j][s])

LEMMA DoneLeads ==
  ASSUME NEW D, Able(D), NEW j \in 1..Len(D), NEW s, Placed(s)
  PROVE  Leads(s, Done(D, j, s))
<1> DEFINE t == [sym |-> s.sym, cache |-> s.cache]
<1>1. t \in States /\ t.cache = s.cache
  BY DEF Placed, States, SymbolTables, Tables
<1>2. D[j] \in [States -> Endings]
  BY ElementOfSeq DEF Able
<1> HIDE DEF t
<1>3. D[j][t] \in Endings /\ StaysSettled(t, D[j][t])
  BY <1>1, <1>2 DEF Able
<1>4. Done(D, j, s) = D[j][t]
  BY DEF Done, t
<1>. QED  BY <1>1, <1>3, <1>4 DEF Leads, StaysSettled

LEMMA EndingPlaced ==
  ASSUME NEW s \in Endings
  PROVE  Placed(s) /\ s.val \in Outcomes \union {Break, Continue}
BY DEF Endings, Placed

LEMMA BlockLeads ==
  ASSUME NEW D, Able(D), NEW b \in Seq(1..Len(D)), NEW s, Placed(s)
  PROVE  Leads(s, Block(D, b, s))
<1> DEFINE N == Len(b)
           S == {r \in Endings : StaysSettled(s, r)}
           first == Result(s, None)
           Turn1(r, i) == IF Ends(r.val) THEN r ELSE Done(D, b[i], r)
           F == [i \in 1..N |-> [r \in S |-> Turn1(r, i)]]
           Body(f, i) == IF i = 0 THEN Result(s, None)
                         ELSE IF Ends(f[i - 1].val) THEN f[i - 1] ELSE Done(D, b[i], f[i - 1])
           After == CHOOSE f : f = [i \in 0..N |-> Body(f, i)]
<1>1. N \in Nat
  OBVIOUS
<1>2. \A i \in 1..N, r \in S : Turn1(r, i) \in S
  <2> SUFFICES ASSUME NEW i \in 1..N, NEW r \in S PROVE Turn1(r, i) \in S
    OBVIOUS
  <2>1. b[i] \in 1..Len(D)
    BY ElementOfSeq
  <2>2. Placed(r) /\ StaysSettled(s, r)
    BY EndingPlaced
  <2>3. Leads(r, Done(D, b[i], r))
    BY <2>1, <2>2, DoneLeads
  <2>4. Leads(s, Done(D, b[i], r))
    BY <2>2, <2>3, LeadsOn
  <2>. QED  BY <2>4 DEF Leads
<1>3. F \in [1..N -> [S -> S]]
  BY <1>2
<1>4. first \in S
  <2>1. None \in Outcomes
    BY Distinct DEF Outcomes
  <2>2. Leads(s, first)
    BY <2>1, ResultLeads
  <2> HIDE DEF first
  <2>. QED  BY <2>2 DEF Leads
<1>50. PICK g : RecursUpTo(g, N, S, first, F)
  <2> HIDE DEF F, S, N, first
  <2>. QED  BY <1>1, <1>3, <1>4, BoundedRecursion, Zenon
<1>5. /\ g = [k \in 0..N |-> g[k]]
      /\ \A k \in 0..N : g[k] \in S
      /\ g[0] = first
      /\ \A k \in 1..N : g[k] = F[k][g[k - 1]]
  BY <1>50, Zenon DEF RecursUpTo
<1>6. \A k \in 0..N : g[k] = Body(g, k)
  <2> SUFFICES ASSUME NEW k \in 0..N PROVE g[k] = Body(g, k)
    OBVIOUS
  <2>1. CASE k = 0
    BY <1>5, <2>1
  <2>2. CASE k # 0
    <3>1. k \in 1..N /\ k - 1 \in 0..N
      BY <1>1, <2>2
    <3>2. g[k - 1] \in S /\ g[k] = F[k][g[k - 1]]
      BY <1>5, <3>1
    <3>3. g[k] = Turn1(g[k - 1], k)
      <4> HIDE DEF S, Turn1
      <4>. QED  BY <3>1, <3>2
    <3>. QED  BY <2>2, <3>3
  <2>. QED  BY <2>1, <2>2
<1>7. g = [k \in 0..N |-> Body(g, k)]
  BY <1>5, <1>6
<1>8. After = [k \in 0..N |-> Body(After, k)]
  BY <1>7
<1>9. Block(D, b, s) = After[N]
  BY DEF Block
<1> HIDE DEF After
<1>10. \A k \in 0..N : After[k] = Body(After, k)
  BY <1>8
<1> DEFINE P == {i \in 0..N : After[i] \in S}
<1>11. 0 \in P
  BY <1>1, <1>4, <1>10
<1>12. ASSUME NEW k \in 1..N, k - 1 \in P PROVE k \in P
  <2>1. k \in 0..N /\ k # 0 /\ After[k - 1] \in S
    BY <1>1, <1>12
  <2>2. After[k] = Turn1(After[k - 1], k)
    BY <1>10, <2>1
  <2>3. After[k] \in S
    <3> HIDE DEF Turn1, S
    <3>. QED  BY <1>2, <2>1, <2>2
  <2>. QED  BY <2>1, <2>3
<1>13. \A k \in 0..N : k \in P
  <2> HIDE DEF P
  <2>. QED  BY <1>1, <1>11, <1>12, Upward
<1>14. After[N] \in S
  BY <1>1, <1>13
<1>. QED  BY <1>9, <1>14 DEF Leads

(* The statements, and all of them by those before them.                   *)
LEMMA TakeBranchLeads ==
  ASSUME NEW D, Able(D), NEW n, n.then \in Seq(1..Len(D)), n.else \in Seq(1..Len(D)),
         NEW c, Placed(c)
  PROVE  Leads(c, TakeBranch(D, n, c))
<1>1. Throw \in Outcomes /\ Int1(0) \in Outcomes
  BY NumbersMade, NumberParts DEF Outcomes
<1>2. Leads(c, Result(c, Throw)) /\ Leads(c, Result(c, Int1(0)))
  BY <1>1, ResultLeads, Zenon
<1>3. Branch(n, c) \in Seq(1..Len(D))
  BY DEF Branch
<1>4. Leads(c, Block(D, Branch(n, c), c))
  BY <1>3, BlockLeads
<1>. QED  BY <1>2, <1>4 DEF TakeBranch

LEMMA DoStatementLeads ==
  ASSUME NEW k \in DOMAIN Stmt, NEW D, Able(D), Len(D) = k - 1, NEW s, Placed(s)
  PROVE  Leads(s, DoStatement(D, Stmt[k], s))
<1> DEFINE n == Stmt[k]
           r == Visit(Operand(n), s)
           set == [r EXCEPT !.sym[n.name] = r.val]
<1>1. FormedStatement(k, n) /\ k \in Nat
  BY ProgramsAssumption
<1> HIDE DEF n
<1>2. CASE n.kind = "break"
  <2>1. DoStatement(D, n, s) = Result(s, Break)
    BY <1>2 DEF DoStatement
  <2>. QED  BY <2>1, ResultLeads DEF n
<1>3. CASE n.kind = "continue"
  <2>1. DoStatement(D, n, s) = Result(s, Continue)
    BY <1>3 DEF DoStatement
  <2>. QED  BY <2>1, ResultLeads DEF n
<1>4. CASE n.kind \in {"evaluate", "assign", "store", "if"}
  <2>1. DoStatement(D, n, s) = Finish(D, n, r)
    BY <1>4 DEF DoStatement
  <2>2. Operand(n) \in Ids
    BY <1>1, <1>4 DEF Operand, FormedStatement
  <2>3. Reaches(s, r)
    BY <2>2, VisitReaches
  <2>4. Leads(s, r) /\ r \in Results /\ r \in Reached /\ Placed(r) /\ r.val \in Outcomes
        /\ StaysSettled(s, r)
    BY <2>3, ReachesLeads DEF Leads
  <2> HIDE DEF r
  <2>5. CASE n.kind = "store"
    <3>1. n.name \in Names /\ n.e \in Ids
      BY <1>1, <2>5 DEF FormedStatement
    <3>2. Leads(r, StoreValue(n, r))
      BY <2>4, <3>1, StoreValueLeads
    <3>3. Finish(D, n, r) = StoreValue(n, r)
      BY <2>5 DEF Finish
    <3>. QED  BY <2>1, <2>4, <3>2, <3>3, LeadsOn DEF n
  <2>6. CASE n.kind = "assign" /\ ~Fails(r.val)
    <3>1. n.name \in Names /\ r.val \in Values
      BY <1>1, <2>4, <2>6, OutcomeKinds DEF FormedStatement
    <3> DEFINE x == n.name
    <3>2. [r EXCEPT !.sym[x] = r.val] \in Results /\ [r EXCEPT !.sym[x] = r.val].cache = r.cache
      <4> HIDE DEF x
      <4>1. x \in Names
        BY <3>1 DEF x
      <4>. QED  BY <2>4, <3>1, <4>1, BoundReached
    <3>3. Finish(D, n, r) = set
      BY <2>6 DEF Finish
    <3>4. Leads(r, set)
      BY <3>2 DEF Leads, Results, Endings, StaysSettled
    <3> HIDE DEF set
    <3>. QED  BY <2>1, <2>4, <3>3, <3>4, LeadsOn DEF n
  <2>7. CASE n.kind = "if" /\ ~Fails(r.val)
    <3>1. n.then \in Seq(1..Len(D)) /\ n.else \in Seq(1..Len(D))
      BY <1>1, <2>7 DEF FormedStatement
    <3>2. Leads(r, TakeBranch(D, n, r))
      BY <2>4, <3>1, TakeBranchLeads
    <3>3. Finish(D, n, r) = TakeBranch(D, n, r)
      BY <2>7 DEF Finish
    <3>. QED  BY <2>1, <2>4, <3>2, <3>3, LeadsOn DEF n
  <2>8. CASE n.kind = "evaluate" \/ (n.kind # "store" /\ Fails(r.val))
    <3>1. Finish(D, n, r) = r
      BY <2>8 DEF Finish
    <3>. QED  BY <2>1, <2>4, <3>1 DEF n
  <2>. QED  BY <1>4, <2>5, <2>6, <2>7, <2>8
<1>. QED  BY <1>1, <1>2, <1>3, <1>4 DEF FormedStatement

NextDoings(D, k) == Append(D, [s \in States |-> DoStatement(D, Stmt[k], s)])

LEMMA AbleOn ==
  ASSUME NEW k \in DOMAIN Stmt, NEW D, Able(D), Len(D) = k - 1
  PROVE  Able(NextDoings(D, k)) /\ Len(NextDoings(D, k)) = k
<1> DEFINE f == [s \in States |-> DoStatement(D, Stmt[k], s)]
           W == Append(D, f)
<1>1. \A s \in States : Leads(s, DoStatement(D, Stmt[k], s))
  <2>1. \A s \in States : Placed(s)
    BY DEF Placed, States, SymbolTables, Tables
  <2>. QED  BY <2>1, DoStatementLeads
<1>2. f \in [States -> Endings] /\ \A s \in States : StaysSettled(s, f[s])
  BY <1>1 DEF Leads
<1> HIDE DEF f
<1>3. /\ D \in Seq([States -> Endings]) /\ k \in Nat /\ Len(D) \in Nat /\ Len(D) + 1 = k
      /\ \A j \in 1..Len(D) : \A s \in States : StaysSettled(s, D[j][s])
  BY ProgramsAssumption DEF Able
<1>4. /\ W \in Seq([States -> Endings]) /\ Len(W) = k /\ W[k] = f
      /\ \A j \in 1..Len(D) : W[j] = D[j]
  BY <1>2, <1>3, AppendEnd
<1>5. W = NextDoings(D, k)
  BY DEF NextDoings, f
<1> HIDE DEF W
<1>6. \A j \in 1..Len(W) : j \in 1..Len(D) \/ j = k
  BY <1>3, <1>4
<1>7. \A j \in 1..Len(W) : \A s \in States : StaysSettled(s, W[j][s])
  BY <1>2, <1>3, <1>4, <1>6
<1>. QED  BY <1>4, <1>5, <1>7 DEF Able

(* The recursion over the statements, unfolded.                            *)
LEMMA DoingsUnfold ==
  /\ DoneUpTo[0] = << >>
  /\ \A k \in DOMAIN Stmt : DoneUpTo[k] = NextDoings(DoneUpTo[k - 1], k)
<1> DEFINE N == Len(Stmt)
           S == {D \in Seq([States -> Endings]) : Able(D)}
           Grow(D, k) == IF Len(D) = k - 1 THEN NextDoings(D, k) ELSE D
           F == [k \in 1..N |-> [D \in S |-> Grow(D, k)]]
           first == << >>
           Body(f, k) == IF k = 0 THEN << >>
                         ELSE Append(f[k - 1], [s \in States |-> DoStatement(f[k - 1], Stmt[k], s)])
<1>1. N \in Nat /\ DOMAIN Stmt = 1..N
  BY ProgramsAssumption
<1>2. \A k \in 1..N, D \in S : Grow(D, k) \in S
  <2> SUFFICES ASSUME NEW k \in 1..N, NEW D \in S PROVE Grow(D, k) \in S
    OBVIOUS
  <2>1. Len(D) = k - 1 => Able(NextDoings(D, k))
    BY <1>1, AbleOn
  <2>2. Len(D) = k - 1 => NextDoings(D, k) \in Seq([States -> Endings])
    BY <2>1 DEF Able
  <2>. QED  BY <2>1, <2>2
<1>3. F \in [1..N -> [S -> S]]
  BY <1>2
<1>4. first \in S
  <2>1. first \in Seq([States -> Endings]) /\ 1..Len(first) = {}
    OBVIOUS
  <2>2. Able(first)
    BY <2>1 DEF Able
  <2>. QED  BY <2>1, <2>2
<1>50. PICK g : RecursUpTo(g, N, S, first, F)
  <2>1. N \in Nat
    BY <1>1
  <2> HIDE DEF F, S, N, first
  <2>. QED  BY <2>1, <1>3, <1>4, BoundedRecursion, Zenon
<1>5. /\ g = [k \in 0..N |-> g[k]]
      /\ \A k \in 0..N : g[k] \in S
      /\ g[0] = first
      /\ \A k \in 1..N : g[k] = F[k][g[k - 1]]
  BY <1>50, Zenon DEF RecursUpTo
<1>6. \A k \in 1..N : g[k] = Grow(g[k - 1], k)
  <2> SUFFICES ASSUME NEW k \in 1..N PROVE g[k] = Grow(g[k - 1], k)
    OBVIOUS
  <2>1. k - 1 \in 0..N
    BY <1>1
  <2>2. g[k - 1] \in S /\ g[k] = F[k][g[k - 1]]
    BY <1>5, <2>1
  <2> HIDE DEF S, Grow
  <2>. QED  BY <2>2
<1>7. \A k \in 0..N : Len(g[k]) = k
  <2> DEFINE P == {k \in 0..N : Len(g[k]) = k}
  <2>1. 0 \in P
    BY <1>5
  <2>2. ASSUME NEW k \in 1..N, k - 1 \in P PROVE k \in P
    <3>1. Able(g[k - 1]) /\ Len(g[k - 1]) = k - 1 /\ k \in DOMAIN Stmt
      BY <1>1, <1>5, <2>2
    <3>2. g[k] = NextDoings(g[k - 1], k)
      BY <1>6, <3>1
    <3>3. k \in 0..N
      BY <1>1
    <3>. QED  BY <3>1, <3>2, <3>3, AbleOn
  <2> HIDE DEF P
  <2>3. \A k \in 0..N : k \in P
    BY <1>1, <2>1, <2>2, Upward
  <2>. QED  BY <2>3 DEF P
<1>8. \A k \in 0..N : g[k] = Body(g, k)
  <2> SUFFICES ASSUME NEW k \in 0..N PROVE g[k] = Body(g, k)
    OBVIOUS
  <2>1. CASE k = 0
    BY <1>5, <2>1
  <2>2. CASE k # 0
    <3>1. k \in 1..N /\ k - 1 \in 0..N
      BY <1>1, <2>2
    <3>2. g[k] = NextDoings(g[k - 1], k)
      BY <1>6, <1>7, <3>1
    <3>. QED  BY <2>2, <3>2 DEF NextDoings
  <2>. QED  BY <2>1, <2>2
<1>9. g = [k \in 0..N |-> Body(g, k)]
  BY <1>5, <1>8
<1>10. DoneUpTo = [k \in 0..N |-> Body(DoneUpTo, k)]
  BY <1>9 DEF DoneUpTo
<1>11. \A k \in 0..N : DoneUpTo[k] = Body(DoneUpTo, k)
  BY <1>10
<1>12. \A k \in 1..N : k \in 0..N /\ k # 0
  BY <1>1
<1>13. DoneUpTo[0] = << >>
  <2>1. DoneUpTo[0] = Body(DoneUpTo, 0)
    <3>1. 0 \in 0..N
      BY <1>1
    <3>. QED  BY <1>11, <3>1, Zenon
  <2>2. Body(DoneUpTo, 0) = << >>
    OBVIOUS
  <2>. QED  BY <2>1, <2>2
<1>14. \A k \in 1..N : DoneUpTo[k] = Body(DoneUpTo, k)
  BY <1>11, <1>12
<1>15. \A k \in 1..N : Body(DoneUpTo, k) = NextDoings(DoneUpTo[k - 1], k)
  BY <1>12 DEF NextDoings
<1>. QED  BY <1>1, <1>13, <1>14, <1>15

LEMMA DoingsAble == Able(Doings) /\ Len(Doings) = Len(Stmt)
<1> DEFINE N == Len(Stmt)
           P == {k \in 0..N : Able(DoneUpTo[k]) /\ Len(DoneUpTo[k]) = k}
<1>1. N \in Nat /\ DOMAIN Stmt = 1..N
  BY ProgramsAssumption
<1>2. 0 \in P
  <2>1. << >> \in Seq([States -> Endings]) /\ 1..Len(<< >>) = {} /\ Len(<< >>) = 0
    OBVIOUS
  <2>2. Able(<< >>)
    BY <2>1 DEF Able
  <2>. QED  BY <1>1, <2>1, <2>2, DoingsUnfold
<1>3. ASSUME NEW k \in 1..N, k - 1 \in P PROVE k \in P
  <2>1. k \in DOMAIN Stmt /\ k \in 0..N
    BY <1>1
  <2>2. DoneUpTo[k] = NextDoings(DoneUpTo[k - 1], k)
    BY <2>1, DoingsUnfold
  <2>. QED  BY <1>3, <2>1, <2>2, AbleOn
<1> HIDE DEF P
<1>4. \A k \in 0..N : k \in P
  BY <1>1, <1>2, <1>3, Upward
<1>. QED  BY <1>1, <1>4 DEF P, Doings

LEMMA DoLeads ==
  ASSUME NEW k \in DOMAIN Stmt, NEW s, Placed(s)
  PROVE  Leads(s, Do(k, s))
BY DoingsAble, DoneLeads, ProgramsAssumption DEF Do

(* What compiled code leaves, and what the arguments of a fast call do.    *)
Runs == [sym : SymbolTables, val : Numbers \union {Bail, Error, Throw}]
Bindings == [sym : SymbolTables, val : Stops]

LEMMA ExecuteRuns ==
  ASSUME NEW id \in Ids, NEW symbols \in SymbolTables
  PROVE  Execute(CodeOf[id], symbols) \in Runs
<1> DEFINE r == Execute(CodeOf[id], symbols)
<1>1. /\ r = [sym |-> r.sym, val |-> r.val]
      /\ r.sym \in SymbolTables /\ r.val \in Numbers \union {Bail, Error, Throw}
  BY ExecuteType
<1> HIDE DEF r
<1>2. r \in Runs
  BY <1>1 DEF Runs
<1>. QED  BY <1>2 DEF r

LEMMA Widened ==
  ASSUME NEW S, NEW T, S \subseteq T, NEW q \in Seq(S)
  PROVE  q \in Seq(T)
<1>1. Len(q) \in Nat /\ q = [i \in 1..Len(q) |-> q[i]] /\ \A i \in 1..Len(q) : q[i] \in S
  BY ElementOfSeq
<1>2. \A i \in 1..Len(q) : q[i] \in T
  BY <1>1
<1>3. q \in [1..Len(q) -> T]
  BY <1>1, <1>2
<1>. QED  BY <1>1, <1>3, SeqDef

LEMMA CallNode ==
  ASSUME NEW id \in Ids, Node[id].kind = "call"
  PROVE  LET n == Node[id] IN
         /\ n.params \in Seq(Names) /\ n.args \in Seq(Ids) /\ Len(n.args) = Len(n.params)
         /\ n.ret \in Ids
<1>1. Formed(id, Node[id]) /\ Ids = 1..Len(Node) /\ Len(Node) \in Nat
  BY NodeAssumption
<1>2. 1..(id - 1) \subseteq Ids
  BY <1>1
<1>3. /\ Node[id].params \in Seq(Names) /\ Node[id].args \in Seq(1..(id - 1))
      /\ Len(Node[id].args) = Len(Node[id].params) /\ Node[id].ret \in 1..(id - 1)
  BY <1>1 DEF Formed
<1>4. Node[id].args \in Seq(Ids)
  <2> DEFINE S == 1..(id - 1)
             q == Node[id].args
  <2>1. S \subseteq Ids /\ q \in Seq(S)
    BY <1>2, <1>3
  <2> HIDE DEF S, q
  <2>2. q \in Seq(Ids)
    BY <2>1, Widened
  <2>. QED  BY <2>2 DEF q
<1>. QED  BY <1>2, <1>3, <1>4

CallNodes == {id \in Ids : Node[id].kind = "call"}

LEMMA FastArgType ==
  ASSUME NEW id \in CallNodes, NEW i \in 1..Len(Node[id].args), NEW r \in Bindings
  PROVE  FastArg(Node[id], i, r) \in Bindings
<1> DEFINE n == Node[id]
           a == Execute(CodeOf[n.args[i]], r.sym)
           f == [a.sym EXCEPT ![n.params[i]] = a.val]
<1>1. n.args[i] \in Ids /\ n.params[i] \in Names
  <2>1. n.params \in Seq(Names) /\ n.args \in Seq(Ids) /\ Len(n.args) = Len(n.params)
    BY CallNode DEF CallNodes
  <2> HIDE DEF n
  <2>2. i \in 1..Len(n.params) /\ i \in 1..Len(n.args)
    BY <2>1 DEF n
  <2>. QED  BY <2>1, <2>2, ElementOfSeq
<1>2. r.sym \in SymbolTables
  BY DEF Bindings
<1>3. a \in Runs
  BY <1>1, <1>2, ExecuteRuns
<1>4. FastArg(n, i, r) = IF r.val # Going THEN r
                         ELSE IF a.val = Bail \/ Fails(a.val) THEN a
                         ELSE [sym |-> f, val |-> Going]
  BY DEF FastArg
<1> HIDE DEF a, n
<1>5. a.val = Bail \/ Fails(a.val) => a \in Bindings
  BY <1>3, NumberParts DEF Runs, Bindings, Stops
<1>6. ~(a.val = Bail \/ Fails(a.val)) => [sym |-> f, val |-> Going] \in Bindings
  <2> SUFFICES ASSUME ~(a.val = Bail \/ Fails(a.val)) PROVE f \in SymbolTables
    BY DEF Bindings, Stops
  <2>1. a.val \in Values /\ a.sym \in SymbolTables
    BY <1>3, NumberParts, Distinct DEF Runs
  <2>. QED  BY <1>1, <2>1, Rebound
<1>. QED  BY <1>4, <1>5, <1>6 DEF n

(* All arguments, by the ones before them.                                 *)
LEMMA FastArgsType ==
  ASSUME NEW id \in CallNodes, NEW symbols \in SymbolTables
  PROVE  FastArgs(Node[id], symbols) \in Bindings
<1> DEFINE n == Node[id]
           N == Len(n.args)
           S == Bindings
           first == [sym |-> symbols, val |-> Going]
           F == [i \in 1..N |-> [r \in S |-> FastArg(n, i, r)]]
           Body(f, i) == IF i = 0 THEN [sym |-> symbols, val |-> Going] ELSE FastArg(n, i, f[i - 1])
           Bound == CHOOSE f : f = [i \in 0..N |-> Body(f, i)]
<1>1. N \in Nat
  BY CallNode DEF CallNodes
<1>2. \A i \in 1..N, r \in S : FastArg(n, i, r) \in S
  BY FastArgType
<1> HIDE DEF n
<1>3. F \in [1..N -> [S -> S]]
  BY <1>2
<1>4. first \in S
  BY DEF Bindings, Stops
<1>50. PICK g : RecursUpTo(g, N, S, first, F)
  <2> HIDE DEF F, S, N, first
  <2>. QED  BY <1>1, <1>3, <1>4, BoundedRecursion, Zenon
<1>5. /\ g = [k \in 0..N |-> g[k]]
      /\ \A k \in 0..N : g[k] \in S
      /\ g[0] = first
      /\ \A k \in 1..N : g[k] = F[k][g[k - 1]]
  BY <1>50, Zenon DEF RecursUpTo
<1>6. \A k \in 0..N : g[k] = Body(g, k)
  <2> SUFFICES ASSUME NEW k \in 0..N PROVE g[k] = Body(g, k)
    OBVIOUS
  <2>1. CASE k = 0
    BY <1>5, <2>1
  <2>2. CASE k # 0
    <3>1. k \in 1..N /\ k - 1 \in 0..N
      BY <1>1, <2>2
    <3>2. g[k - 1] \in S /\ g[k] = F[k][g[k - 1]]
      BY <1>5, <3>1
    <3> HIDE DEF S
    <3>. QED  BY <2>2, <3>1, <3>2
  <2>. QED  BY <2>1, <2>2
<1>7. g = [k \in 0..N |-> Body(g, k)]
  BY <1>5, <1>6
<1>8. Bound = [k \in 0..N |-> Body(Bound, k)]
  BY <1>7
<1>9. FastArgs(n, symbols) = Bound[N]
  BY DEF FastArgs
<1> HIDE DEF Bound
<1>10. \A k \in 0..N : Bound[k] = Body(Bound, k)
  BY <1>8
<1> DEFINE P == {i \in 0..N : Bound[i] \in S}
<1>11. 0 \in P
  BY <1>1, <1>4, <1>10
<1>12. ASSUME NEW k \in 1..N, k - 1 \in P PROVE k \in P
  <2>1. k \in 0..N /\ k # 0 /\ Bound[k - 1] \in S
    BY <1>1, <1>12
  <2>2. Bound[k] = FastArg(n, k, Bound[k - 1])
    BY <1>10, <2>1
  <2>3. Bound[k] \in S
    BY <1>2, <2>1, <2>2
  <2>. QED  BY <2>1, <2>3
<1>13. \A k \in 0..N : k \in P
  <2> HIDE DEF P
  <2>. QED  BY <1>1, <1>11, <1>12, Upward
<1>. QED  BY <1>1, <1>9, <1>13 DEF n

LEMMA PutBackType ==
  ASSUME NEW n, NEW old \in SymbolTables, NEW new \in SymbolTables
  PROVE  PutBack(n, old, new) \in SymbolTables
BY DEF PutBack, SymbolTables

-----------------------------------------------------------------------------
(* A turn of a loop's body.                                                *)
PathFits(n, path) ==
  \/ path = "general"
  \/ path \in {"assign", "call"} /\ n.body # << >> /\ Stmt[n.body[1]].kind = "assign"
       /\ (path = "call" => Node[Stmt[n.body[1]].e].kind = "call")
  \/ path = "array" /\ n.body # << >> /\ Stmt[n.body[1]].kind = "store"

(* A body that has been run, or is left to the interpreter.                *)
HalfTurns == [sym : SymbolTables, cache : Tables, val : Outcomes \union {Bail}]
TurnFits(n, s, t) ==
  t.s \in HalfTurns /\ StaysSettled(s, t.s) /\ PathFits(n, t.path)

(* How a turn goes on: the interpreter, or the fast path again.            *)
LEMMA FallBackFits ==
  ASSUME NEW n, NEW s \in Endings, NEW f \in SymbolTables
  PROVE  TurnFits(n, s, FallBack(s, f))
<1>1. FallBack(s, f).s = [s EXCEPT !.sym = f, !.val = Bail] /\ FallBack(s, f).path = "general"
  BY DEF FallBack, Took
<1>2. [s EXCEPT !.sym = f, !.val = Bail] \in HalfTurns
      /\ [s EXCEPT !.sym = f, !.val = Bail].cache = s.cache
  BY DEF Endings, HalfTurns
<1>. QED  BY <1>1, <1>2 DEF TurnFits, StaysSettled, PathFits

LEMMA GoOnFits ==
  ASSUME NEW n, NEW s \in Endings, NEW r, r.sym \in SymbolTables, r.val \in Outcomes,
         NEW f, ~Fails(r.val) => f \in SymbolTables, NEW path, PathFits(n, path)
  PROVE  TurnFits(n, s, GoOn(s, r, f, path))
<1> DEFINE g == IF Fails(r.val) THEN r.sym ELSE f
           t == [s EXCEPT !.sym = g, !.val = r.val]
<1>1. GoOn(s, r, f, path).s = t /\ GoOn(s, r, f, path).path = path
  BY DEF GoOn, Took
<1>2. g \in SymbolTables
  OBVIOUS
<1> HIDE DEF g
<1>3. t \in HalfTurns /\ t.cache = s.cache
  BY <1>2 DEF Endings, HalfTurns
<1> HIDE DEF t
<1>. QED  BY <1>1, <1>3 DEF TurnFits, StaysSettled

LEMMA RunKinds ==
  ASSUME NEW r \in Runs, r.val # Bail
  PROVE  /\ r.sym \in SymbolTables /\ r.val \in Outcomes
         /\ ~Fails(r.val) => r.val \in Numbers /\ r.val \in Values /\ r.val \in Scalars
BY NumberParts, Distinct DEF Runs, Outcomes

LEMMA BodyStatement ==
  ASSUME NEW id \in DOMAIN Loop, Loop[id].body # << >>
  PROVE  Loop[id].body[1] \in DOMAIN Stmt
<1>1. Loop[id].body \in Seq(DOMAIN Stmt)
  BY ProgramsAssumption DEF FormedLoop
<1>2. Len(Loop[id].body) \in Nat /\ Len(Loop[id].body) # 0
  BY <1>1, EmptySeq
<1>. QED  BY <1>1, <1>2, ElementOfSeq

(* The three fast paths.                                                   *)
LEMMA TurnAssignFits ==
  ASSUME NEW n, NEW k \in DOMAIN Stmt, Stmt[k].kind = "assign", PathFits(n, "assign"),
         NEW s \in Endings
  PROVE  TurnFits(n, s, TurnAssign(k, s))
<1> DEFINE r == Execute(CodeOf[Stmt[k].e], s.sym)
           x == Stmt[k].name
           f == [r.sym EXCEPT ![x] = r.val]
<1>1. Stmt[k].e \in Ids /\ x \in Names
  BY ProgramsAssumption DEF FormedStatement
<1>2. s.sym \in SymbolTables
  BY DEF Endings
<1>3. r \in Runs
  BY <1>1, <1>2, ExecuteRuns
<1>4. TurnAssign(k, s) = IF r.val = Bail THEN FallBack(s, r.sym) ELSE GoOn(s, r, f, "assign")
  BY DEF TurnAssign, AfterAssign
<1> HIDE DEF r, x
<1>5. CASE r.val = Bail
  <2>1. r.sym \in SymbolTables
    BY <1>3 DEF Runs
  <2>. QED  BY <1>4, <1>5, <2>1, FallBackFits
<1>6. CASE r.val # Bail
  <2>1. /\ r.sym \in SymbolTables /\ r.val \in Outcomes
        /\ ~Fails(r.val) => r.val \in Values
    BY <1>3, <1>6, RunKinds
  <2>2. ~Fails(r.val) => f \in SymbolTables
    BY <1>1, <2>1, Rebound
  <2> HIDE DEF f
  <2>. QED  BY <1>4, <1>6, <2>1, <2>2, GoOnFits
<1>. QED  BY <1>5, <1>6

LEMMA TurnCallFits ==
  ASSUME NEW n, NEW k \in DOMAIN Stmt, Stmt[k].kind = "assign", Node[Stmt[k].e].kind = "call",
         PathFits(n, "call"), NEW s \in Endings
  PROVE  TurnFits(n, s, TurnCall(k, s))
<1> DEFINE id == Stmt[k].e
           c == Node[id]
           a == FastArgs(c, s.sym)
           r == FastReturn(c, a)
           x == Stmt[k].name
           f == PutBack(c, s.sym, [r.sym EXCEPT ![x] = r.val])
           g == PutBack(c, s.sym, r.sym)
<1>1. id \in CallNodes /\ x \in Names
  BY ProgramsAssumption DEF FormedStatement, CallNodes
<1>2. s.sym \in SymbolTables
  BY DEF Endings
<1>3. a \in Bindings /\ c.ret \in Ids
  BY <1>1, <1>2, FastArgsType, CallNode DEF CallNodes
<1>4. TurnCall(k, s) = IF r.val = Bail THEN FallBack(s, g) ELSE GoOn(s, r, f, "call")
  BY DEF TurnCall, AfterCall
<1> HIDE DEF id, c, a, x
<1>5. r \in Runs
  <2>1. a.sym \in SymbolTables
    BY <1>3 DEF Bindings
  <2>2. Execute(CodeOf[c.ret], a.sym) \in Runs
    BY <1>3, <2>1, ExecuteRuns
  <2>3. a.val # Going => a \in Runs
    BY <1>3 DEF Bindings, Runs, Stops
  <2>. QED  BY <2>2, <2>3 DEF FastReturn
<1> HIDE DEF r
<1>6. r.sym \in SymbolTables
  BY <1>5 DEF Runs
<1>7. CASE r.val = Bail
  <2>1. g \in SymbolTables
    BY <1>2, <1>6, PutBackType
  <2> HIDE DEF g
  <2>. QED  BY <1>4, <1>7, <2>1, FallBackFits
<1>8. CASE r.val # Bail
  <2>1. r.val \in Outcomes /\ (~Fails(r.val) => r.val \in Values)
    BY <1>5, <1>8, RunKinds
  <2>2. ~Fails(r.val) => [r.sym EXCEPT ![x] = r.val] \in SymbolTables
    BY <1>1, <1>6, <2>1, Rebound
  <2>3. ~Fails(r.val) => f \in SymbolTables
    BY <1>2, <2>2, PutBackType
  <2> HIDE DEF f
  <2>. QED  BY <1>4, <1>6, <1>8, <2>1, <2>3, GoOnFits
<1>. QED  BY <1>7, <1>8

LEMMA TurnArrayFits ==
  ASSUME NEW n, NEW k \in DOMAIN Stmt, Stmt[k].kind = "store", PathFits(n, "array"),
         NEW s \in Endings
  PROVE  TurnFits(n, s, TurnArray(k, s))
<1> DEFINE i == Execute(CodeOf[Stmt[k].i], s.sym)
           v == Execute(CodeOf[Stmt[k].e], i.sym)
           x == Stmt[k].name
           w == [v EXCEPT !.val = i.val]
           f == Store(v.sym, x, i.val, v.val)
<1>1. Stmt[k].e \in Ids /\ Stmt[k].i \in Ids /\ x \in Names
  BY ProgramsAssumption DEF FormedStatement
<1>2. s.sym \in SymbolTables
  BY DEF Endings
<1>3. i \in Runs
  BY <1>1, <1>2, ExecuteRuns
<1>4. i.sym \in SymbolTables
  BY <1>3 DEF Runs
<1>5. v \in Runs
  BY <1>1, <1>4, ExecuteRuns
<1>6. TurnArray(k, s) = IF Bail \in {i.val, v.val} THEN FallBack(s, v.sym)
                        ELSE IF Fails(i.val) THEN GoOn(s, w, v.sym, "array")
                        ELSE GoOn(s, v, f, "array")
  BY DEF TurnArray, ArrayValue, AfterArray
<1> HIDE DEF i, v, x
<1>7. v.sym \in SymbolTables
  BY <1>5 DEF Runs
<1>8. CASE Bail \in {i.val, v.val}
  BY <1>6, <1>7, <1>8, FallBackFits
<1>9. CASE Bail \notin {i.val, v.val} /\ Fails(i.val)
  <2>1. i.val \in Outcomes
    BY <1>3, <1>9, RunKinds
  <2>2. w.sym = v.sym /\ w.val = i.val
    BY <1>5 DEF Runs
  <2> HIDE DEF w
  <2>. QED  BY <1>6, <1>7, <1>9, <2>1, <2>2, GoOnFits
<1>10. CASE Bail \notin {i.val, v.val} /\ ~Fails(i.val)
  <2>1. v.val \in Outcomes /\ (~Fails(v.val) => v.val \in Scalars)
    BY <1>5, <1>10, RunKinds
  <2>2. ~Fails(v.val) => f \in SymbolTables
    BY <1>1, <1>7, <2>1, StoreType
  <2> HIDE DEF f
  <2>. QED  BY <1>6, <1>7, <1>10, <2>1, <2>2, GoOnFits
<1>. QED  BY <1>8, <1>9, <1>10

(* A whole turn, with what the interpreter makes of it if the code gave    *)
(* up.                                                                     *)
LEMMA TurnLeads ==
  ASSUME NEW id \in DOMAIN Loop, NEW path, PathFits(Loop[id], path), NEW s \in Endings
  PROVE  LET t == Turn(Loop[id], path, s)
         IN  Leads(s, t.s) /\ PathFits(Loop[id], t.path)
<1> DEFINE n == Loop[id]
           f == FastTurn(n, path, s)
           b == Block(Doings, n.body, f.s)
<1>1. TurnFits(n, s, f)
  <2>1. CASE path = "general"
    <3>1. f = FallBack(s, s.sym) /\ s.sym \in SymbolTables
      BY <2>1 DEF FastTurn, Endings
    <3> HIDE DEF f
    <3>. QED  BY <3>1, FallBackFits
  <2>2. CASE path = "assign"
    <3>1. n.body # << >> /\ Stmt[n.body[1]].kind = "assign"
      BY <2>2 DEF PathFits
    <3>2. f = TurnAssign(n.body[1], s) /\ n.body[1] \in DOMAIN Stmt
      BY <2>2, <3>1, BodyStatement DEF FastTurn
    <3> HIDE DEF f
    <3>. QED  BY <2>2, <3>1, <3>2, TurnAssignFits
  <2>3. CASE path = "call"
    <3>1. /\ n.body # << >> /\ Stmt[n.body[1]].kind = "assign"
          /\ Node[Stmt[n.body[1]].e].kind = "call"
      BY <2>3 DEF PathFits
    <3>2. f = TurnCall(n.body[1], s) /\ n.body[1] \in DOMAIN Stmt
      BY <2>3, <3>1, BodyStatement DEF FastTurn
    <3> HIDE DEF f
    <3>. QED  BY <2>3, <3>1, <3>2, TurnCallFits
  <2>4. CASE path = "array"
    <3>1. n.body # << >> /\ Stmt[n.body[1]].kind = "store"
      BY <2>4 DEF PathFits
    <3>2. f = TurnArray(n.body[1], s) /\ n.body[1] \in DOMAIN Stmt
      BY <2>4, <3>1, BodyStatement DEF FastTurn
    <3> HIDE DEF f
    <3>. QED  BY <2>4, <3>1, <3>2, TurnArrayFits
  <2>. QED  BY <2>1, <2>2, <2>3, <2>4 DEF PathFits
<1>2. Turn(n, path, s) = IF f.s.val = Bail THEN Took(b, "general") ELSE f
  BY DEF Turn, OrInterpret
<1> HIDE DEF f
<1>3. f.s \in HalfTurns /\ StaysSettled(s, f.s) /\ PathFits(n, f.path)
  BY <1>1 DEF TurnFits
<1>4. CASE f.s.val = Bail
  <2>1. n.body \in Seq(1..Len(Doings))
    BY ProgramsAssumption, DoingsAble DEF FormedLoop
  <2>2. Placed(f.s)
    BY <1>3 DEF Placed, HalfTurns
  <2>3. Leads(f.s, b)
    BY <2>1, <2>2, DoingsAble, BlockLeads
  <2>4. Leads(s, b)
    BY <1>3, <2>3, LeadsOn
  <2> HIDE DEF b
  <2>5. Took(b, "general").s = b /\ Took(b, "general").path = "general"
    BY DEF Took
  <2>. QED  BY <1>2, <1>4, <2>4, <2>5 DEF PathFits
<1>5. CASE f.s.val # Bail
  <2>1. f.s \in Endings
    BY <1>3, <1>5 DEF HalfTurns, Endings
  <2>. QED  BY <1>2, <1>3, <1>5, <2>1 DEF Leads
<1>. QED  BY <1>4, <1>5

Paths == {"general", "assign", "call", "array"}
Yields == Outcomes \union {Break, Continue}
WhileLoops == [kind : {"while", "repeat"}, id : DOMAIN Loop, phase : {"test", "body"},
               path : {"general"}]
ForLoops == [kind : {"for"}, id : DOMAIN Loop, phase : {"test", "body"}, path : Paths,
             i : Yields, step : Numbers, end : Outcomes]

(* A loop under way is one of the program's; a for-loop in its body counts *)
(* with numbers, and its fast path is one that its body can take.          *)
UnderWay(l) ==
  \/ l = Idle
  \/ l \in WhileLoops /\ Loop[l.id].kind = l.kind
  \/ l \in ForLoops /\ Loop[l.id].kind = "for" /\ PathFits(Loop[l.id], l.path)
       /\ (l.phase = "body" => l.i \in Numbers)

Moves(s, r) ==
  Placed(r) /\ StaysSettled(s, r) /\ UnderWay(r.loop)

(* A state with its loop, and one whose loop is over.                      *)
LEMMA WithMoves ==
  ASSUME NEW s, NEW r, Placed(r), StaysSettled(s, r), NEW a, NEW l, UnderWay(l)
  PROVE  Moves(s, With(r, a, l))
BY DEF With, Moves, Placed, StaysSettled

LEMMA EndedMoves ==
  ASSUME NEW s, NEW r, Placed(r), StaysSettled(s, r), NEW a
  PROVE  Moves(s, Ended(r, a))
BY WithMoves DEF Ended, UnderWay

(* The path is chosen so that the code it needs is there.                  *)
LEMMA PathIsFit ==
  ASSUME NEW id \in DOMAIN Loop, NEW s
  PROVE  PathFits(Loop[id], Path(Loop[id], s)) /\ Path(Loop[id], s) \in Paths
<1> DEFINE n == Loop[id]
           b == Stmt[n.body[1]]
<1>1. CASE Plain(s) \/ Len(n.body) # 1
  <2>1. Path(n, s) = "general"
    BY <1>1 DEF Path
  <2>. QED  BY <2>1 DEF PathFits, Paths
<1>2. CASE ~(Plain(s) \/ Len(n.body) # 1)
  <2>1. n.body # << >>
    <3>1. Len(n.body) = 1 /\ Len(<< >>) = 0
      BY <1>2
    <3>. QED  BY <3>1
  <2>2. Path(n, s) =
          CASE b.kind = "assign" -> IF Compiles(b.e) THEN "assign"
                                    ELSE IF CallCompiles(Node[b.e]) THEN "call" ELSE "general"
            [] b.kind = "store" -> IF s.sym[b.name].t = "array" /\ Compiles(b.i) /\ Compiles(b.e)
                                   THEN "array" ELSE "general"
            [] OTHER -> "general"
    BY <1>2 DEF Path
  <2>3. CallCompiles(Node[b.e]) => Node[b.e].kind = "call"
    BY DEF CallCompiles
  <2> HIDE DEF n
  <2>4. CASE b.kind = "assign"
    <3>1. Path(n, s) = IF Compiles(b.e) THEN "assign"
                       ELSE IF CallCompiles(Node[b.e]) THEN "call" ELSE "general"
      BY <2>2, <2>4
    <3>. QED  BY <2>1, <2>3, <2>4, <3>1 DEF PathFits, Paths, n
  <2>5. CASE b.kind = "store"
    <3>1. Path(n, s) \in {"array", "general"}
      BY <2>2, <2>5
    <3>. QED  BY <2>1, <2>5, <3>1 DEF PathFits, Paths, n
  <2>6. CASE b.kind \notin {"assign", "store"}
    <3>1. Path(n, s) = "general"
      BY <2>2, <2>6
    <3>. QED  BY <3>1 DEF PathFits, Paths, n
  <2>. QED  BY <2>4, <2>5, <2>6
<1>. QED  BY <1>1, <1>2

LEMMA NumberIn ==
  ASSUME NEW a \in Yields
  PROVE  IsNumber(a) <=> a \in Numbers
<1>1. CASE a \in Values
  BY <1>1, ValueKinds
<1>2. CASE a \in {Throw, Nested, Break, Continue}
  BY <1>2 DEF IsNumber, Numbers, Throw, Nested, Break, Continue
<1>. QED  BY <1>1, <1>2 DEF Yields, Outcomes

(* The first test of a loop, and every next one.                           *)
LEMMA BeginForMoves ==
  ASSUME NEW id \in DOMAIN Loop, Loop[id].kind = "for", NEW s, Placed(s)
  PROVE  Moves(s, BeginFor(id, Loop[id], s))
<1> DEFINE n == Loop[id]
           i == Do(n.start, s)
           step == Step(n, i)
           end == Visit(n.end, step)
           l == [kind |-> "for", id |-> id, phase |-> "test",
                 path |-> Path(n, end), i |-> i.val, step |-> step.val, end |-> end.val]
<1>1. n.start \in DOMAIN Stmt /\ n.end \in Ids /\ n.step \in Ids \union {0}
  BY ProgramsAssumption DEF FormedLoop
<1>2. BeginFor(id, n, s) =
        IF Fails(i.val) THEN Ended(i, i.val)
        ELSE IF Fails(step.val) THEN Ended(step, step.val)
        ELSE IF Fails(end.val) THEN Ended(end, end.val)
        ELSE IF ~IsNumber(step.val) THEN Ended(end, Throw)
        ELSE IF Twice(step.val) = 0 THEN Ended(end, Error)
        ELSE With(end, None, l)
  BY DEF BeginFor, OrEnded, First
<1>3. PathFits(n, Path(n, end)) /\ Path(n, end) \in Paths
  BY PathIsFit
<1> HIDE DEF n
<1>4. Leads(s, i)
  BY <1>1, DoLeads
<1>5. Placed(i) /\ StaysSettled(s, i) /\ i.val \in Yields
  BY <1>4, EndingPlaced DEF Leads, Yields
<1> HIDE DEF i
<1>6. Leads(i, step)
  <2>1. n.step # 0 => Reaches(i, Visit(n.step, i))
    BY <1>1, <1>5, VisitReaches
  <2>2. n.step # 0 => Leads(i, Visit(n.step, i))
    BY <2>1, ReachesLeads
  <2>3. Leads(i, Result(i, Int1(1)))
    BY <1>5, ResultLeads, NumbersMade, NumberParts DEF Outcomes
  <2>. QED  BY <2>2, <2>3 DEF Step
<1>7. Leads(s, step)
  BY <1>5, <1>6, LeadsOn
<1>8. Placed(step) /\ StaysSettled(s, step) /\ step.val \in Yields
  BY <1>7, EndingPlaced DEF Leads, Yields
<1> HIDE DEF step
<1>9. Reaches(step, end)
  BY <1>1, <1>8, VisitReaches
<1>10. Leads(step, end) /\ end.val \in Outcomes
  BY <1>9, ReachesLeads
<1>11. Leads(s, end)
  BY <1>8, <1>10, LeadsOn
<1>12. Placed(end) /\ StaysSettled(s, end)
  BY <1>11, EndingPlaced DEF Leads
<1> HIDE DEF end
<1>13. IsNumber(step.val) => UnderWay(l)
  <2> SUFFICES ASSUME IsNumber(step.val) PROVE UnderWay(l)
    OBVIOUS
  <2>1. step.val \in Numbers
    BY <1>8, NumberIn
  <2>2. l \in ForLoops /\ l.id = id /\ l.path = Path(n, end) /\ l.phase = "test"
    BY <1>3, <1>5, <1>10, <2>1 DEF ForLoops
  <2> HIDE DEF l
  <2>. QED  BY <1>3, <2>2 DEF UnderWay, n
<1> HIDE DEF l
<1>14. IsNumber(step.val) => Moves(s, With(end, None, l))
  BY <1>12, <1>13, WithMoves
<1>. QED  BY <1>2, <1>5, <1>8, <1>12, <1>14, EndedMoves DEF n

LEMMA BeginMoves ==
  ASSUME NEW id \in DOMAIN Loop, NEW s, Placed(s)
  PROVE  Moves(s, Begin(id, s))
<1>1. CASE Loop[id].kind = "for"
  <2>1. Begin(id, s) = BeginFor(id, Loop[id], s)
    BY <1>1 DEF Begin
  <2>. QED  BY <1>1, <2>1, BeginForMoves
<1>2. CASE Loop[id].kind \in {"while", "repeat"}
  <2> DEFINE l(phase) == [kind |-> Loop[id].kind, id |-> id, phase |-> phase, path |-> "general"]
  <2>1. Begin(id, s) = With(s, None, l("test")) \/ Begin(id, s) = With(s, None, l("body"))
    BY <1>2 DEF Begin
  <2>2. \A phase \in {"test", "body"} : UnderWay(l(phase))
    BY <1>2 DEF UnderWay, WhileLoops
  <2>3. StaysSettled(s, s)
    BY DEF StaysSettled
  <2> HIDE DEF l
  <2>. QED  BY <2>1, <2>2, <2>3, WithMoves
<1>. QED  BY <1>1, <1>2, ProgramsAssumption DEF FormedLoop

LEMMA NextIterationMoves ==
  ASSUME NEW l \in ForLoops, UnderWay(l), l.phase = "body", NEW s, NEW r \in Endings,
         StaysSettled(s, r), NEW path, path \in Paths, PathFits(Loop[l.id], path)
  PROVE  Moves(s, NextIteration(l, r, path))
<1> DEFINE x == Loop[l.id].name
           i == Sum(l.i, l.step)
           t == [r EXCEPT !.sym[x] = i]
           m == [l EXCEPT !.i = i, !.path = path, !.phase = "test"]
<1>1. /\ l.kind = "for" /\ l.id \in DOMAIN Loop /\ l.step \in Numbers /\ l.end \in Outcomes
      /\ l.i \in Numbers /\ Loop[l.id].kind = "for"
  BY DEF UnderWay, ForLoops, WhileLoops, Idle
<1>2. x \in Names
  BY <1>1, ProgramsAssumption DEF FormedLoop
<1>3. i \in Numbers /\ i \in Values /\ i \in Yields
  BY <1>1, OnNumbers, NumberParts DEF Yields, Outcomes
<1>4. NextIteration(l, r, path) = With(t, r.val, m)
  BY DEF NextIteration
<1> HIDE DEF x, i
<1>5. r.sym \in SymbolTables /\ r.cache \in Tables
  BY DEF Endings
<1>6. [r.sym EXCEPT ![x] = i] \in SymbolTables
  BY <1>2, <1>3, <1>5, Rebound
<1>7. t.sym = [r.sym EXCEPT ![x] = i] /\ t.cache = r.cache
  BY DEF Endings
<1> HIDE DEF t
<1>8. Placed(t) /\ StaysSettled(s, t)
  BY <1>5, <1>6, <1>7 DEF Placed, StaysSettled
<1>9. m \in ForLoops /\ m.id = l.id /\ m.path = path /\ m.phase = "test"
  BY <1>3 DEF ForLoops
<1> HIDE DEF m
<1>10. UnderWay(m)
  BY <1>1, <1>9 DEF UnderWay
<1>. QED  BY <1>4, <1>8, <1>10, WithMoves

(* One step of a loop.                                                     *)
LEMMA AdvanceMoves ==
  ASSUME NEW l, UnderWay(l), NEW s \in Endings
  PROVE  Moves(s, Advance(l, s))
<1>1. Placed(s) /\ StaysSettled(s, s)
  BY EndingPlaced DEF StaysSettled
<1>2. CASE l = Idle
  <2>1. Advance(l, s) = Ended(s, None)
    BY <1>2 DEF Advance, Idle
  <2>. QED  BY <1>1, <2>1, EndedMoves
<1>3. CASE l # Idle /\ l.phase = "body"
  <2> DEFINE t == Turn(Loop[l.id], l.path, s)
  <2>1. l.id \in DOMAIN Loop /\ PathFits(Loop[l.id], l.path) /\ l.kind \in {"for", "while", "repeat"}
    BY <1>3 DEF UnderWay, WhileLoops, ForLoops, PathFits
  <2>2. Leads(s, t.s) /\ PathFits(Loop[l.id], t.path)
    BY <2>1, TurnLeads
  <2>3. Advance(l, s) = AfterBody(l, t)
    BY <1>3, <2>1 DEF Advance
  <2> HIDE DEF t
  <2>4. t.s \in Endings /\ StaysSettled(s, t.s) /\ Placed(t.s)
    BY <2>2, EndingPlaced DEF Leads
  <2>5. AfterBody(l, t) =
          IF Fails(t.s.val) THEN Ended(t.s, t.s.val)
          ELSE IF t.s.val = Break THEN Ended(t.s, None)
          ELSE IF l.kind = "for" THEN NextIteration(l, t.s, t.path)
          ELSE With(t.s, t.s.val, [l EXCEPT !.phase = "test"])
    BY DEF AfterBody
  <2>6. ASSUME l.kind = "for" PROVE Moves(s, NextIteration(l, t.s, t.path))
    <3>1. l \in ForLoops
      BY <1>3, <2>6 DEF UnderWay, WhileLoops
    <3>2. t.path \in Paths
      BY <2>2 DEF PathFits, Paths
    <3>. QED  BY <1>3, <2>2, <2>4, <3>1, <3>2, NextIterationMoves
  <2>7. ASSUME l.kind # "for" PROVE UnderWay([l EXCEPT !.phase = "test"])
    <3>1. l \in WhileLoops /\ Loop[l.id].kind = l.kind
      BY <1>3, <2>7 DEF UnderWay, ForLoops
    <3>2. [l EXCEPT !.phase = "test"] \in WhileLoops /\ [l EXCEPT !.phase = "test"].id = l.id
          /\ [l EXCEPT !.phase = "test"].kind = l.kind
      BY <3>1 DEF WhileLoops
    <3>. QED  BY <3>1, <3>2 DEF UnderWay
  <2>. QED  BY <2>3, <2>4, <2>5, <2>6, <2>7, EndedMoves, WithMoves
<1>4. CASE l # Idle /\ l.phase # "body" /\ l.kind = "for"
  <2>1. l \in ForLoops /\ Loop[l.id].kind = "for" /\ PathFits(Loop[l.id], l.path)
    BY <1>4 DEF UnderWay, WhileLoops
  <2> DEFINE m == [l EXCEPT !.phase = "body"]
  <2>2. Advance(l, s) = IF IsNumber(l.i) /\ IsNumber(l.end)
                        THEN IF InRange(l) THEN With(s, None, m) ELSE Ended(s, None)
                        ELSE Ended(s, Throw)
    BY <1>4 DEF Advance, ForTest, Enters
  <2>3. IsNumber(l.i) => UnderWay(m)
    <3> SUFFICES ASSUME IsNumber(l.i) PROVE UnderWay(m)
      OBVIOUS
    <3>1. l.i \in Numbers
      BY <2>1, NumberIn DEF ForLoops
    <3>2. m \in ForLoops /\ m.id = l.id /\ m.path = l.path /\ m.i = l.i
      BY <2>1 DEF ForLoops
    <3> HIDE DEF m
    <3>. QED  BY <2>1, <3>1, <3>2 DEF UnderWay
  <2> HIDE DEF m
  <2>. QED  BY <1>1, <2>2, <2>3, EndedMoves, WithMoves
<1>5. CASE l # Idle /\ l.phase # "body" /\ l.kind # "for"
  <2>1. l \in WhileLoops /\ Loop[l.id].kind = l.kind /\ l.id \in DOMAIN Loop
        /\ l.kind \in {"while", "repeat"}
    BY <1>5 DEF UnderWay, ForLoops, WhileLoops
  <2> DEFINE c == Visit(Loop[l.id].cond, s)
             m == [l EXCEPT !.phase = "body"]
  <2>2. Loop[l.id].cond \in Ids
    BY <2>1, ProgramsAssumption DEF FormedLoop
  <2>3. Advance(l, s) = Test(l, c)
    BY <1>5, <2>1 DEF Advance
  <2>4. Reaches(s, c)
    BY <1>1, <2>2, VisitReaches
  <2> HIDE DEF c
  <2>5. Placed(c) /\ StaysSettled(s, c)
    BY <2>4, ReachesLeads DEF Leads
  <2>6. Test(l, c) = Ended(c, Throw) \/ Test(l, c) = Ended(c, None) \/ Test(l, c) = With(c, None, m)
    BY DEF Test, Enters
  <2>7. UnderWay(m)
    <3>1. m \in WhileLoops /\ m.id = l.id /\ m.kind = l.kind
      BY <2>1 DEF WhileLoops
    <3> HIDE DEF m
    <3>. QED  BY <2>1, <3>1 DEF UnderWay
  <2> HIDE DEF m
  <2>. QED  BY <2>3, <2>5, <2>6, <2>7, EndedMoves, WithMoves
<1>. QED  BY <1>2, <1>3, <1>4, <1>5

(* The variables hold values, the entries are settled, and the loop under  *)
(* way, of either tier, is one that the program has.                       *)
SoundState ==
  /\ sym \in SymbolTables /\ refSym \in SymbolTables
  /\ cache \in Tables /\ AllSettled(cache)
  /\ UnderWay(loop) /\ UnderWay(refLoop)
  /\ program \in Programs

(* The cache without the JIT.                                              *)
LEMMA NeverHotType == NeverHot \in Tables
BY DEF NeverHot, Tables, Off, Cold, Entries

(* The invariant holds at first, and every step keeps it.                  *)
LEMMA SoundAtFirst == LoopInit => SoundState
<1> SUFFICES ASSUME LoopInit PROVE SoundState
  OBVIOUS
<1>1. sym \in SymbolTables /\ refSym \in SymbolTables
  BY StartAssumption DEF LoopInit, Init, SymbolTables
<1>2. cache = [id \in Ids |-> Cold]
  BY DEF LoopInit, Init
<1>3. Cold \in Entries /\ Settled(Cold)
  BY ThresholdAssumption DEF Cold, Entries, Settled
<1>4. cache \in Tables /\ AllSettled(cache)
  BY <1>2, <1>3 DEF Tables, AllSettled
<1>5. UnderWay(loop) /\ UnderWay(refLoop) /\ program \in Programs
  BY DEF LoopInit, UnderWay
<1>. QED  BY <1>1, <1>4, <1>5 DEF SoundState

LEMMA SoundMove ==
  ASSUME SoundState, NEW hot, NEW cold, Move({hot}, {cold}),
         Moves([sym |-> sym, cache |-> cache], hot),
         Moves([sym |-> refSym, cache |-> NeverHot], cold)
  PROVE  SoundState'
<1>1. /\ sym' = hot.sym /\ cache' = hot.cache /\ loop' = hot.loop
      /\ refSym' = cold.sym /\ refLoop' = cold.loop /\ program' = program
  BY DEF Move
<1>2. /\ hot.sym \in SymbolTables /\ hot.cache \in Tables /\ UnderWay(hot.loop)
      /\ cold.sym \in SymbolTables /\ UnderWay(cold.loop)
  BY DEF Moves, Placed
<1>3. AllSettled(cache) => AllSettled(hot.cache)
  BY DEF Moves, StaysSettled
<1>4. AllSettled(hot.cache)
  BY <1>3 DEF SoundState
<1>5. sym' \in SymbolTables /\ refSym' \in SymbolTables /\ cache' \in Tables /\ program' \in Programs
  BY <1>1, <1>2 DEF SoundState
<1>6. UnderWay(loop)' /\ UnderWay(refLoop)'
  BY <1>1, <1>2 DEF UnderWay, WhileLoops, ForLoops, PathFits
<1>7. AllSettled(cache)'
  BY <1>1, <1>4 DEF AllSettled, Settled
<1>. QED  BY <1>5, <1>6, <1>7 DEF SoundState, SymbolTables, Tables

LEMMA SoundStep == SoundState /\ [LoopNext]_allVars => SoundState'
<1> SUFFICES ASSUME SoundState, [LoopNext]_allVars PROVE SoundState'
  OBVIOUS
<1> DEFINE s == [sym |-> sym, cache |-> cache]
           r == [sym |-> refSym, cache |-> NeverHot]
<1>1. Placed(s) /\ Placed(r) /\ StaysSettled(s, s)
  BY NeverHotType DEF SoundState, Placed, StaysSettled
<1>2. CASE \E id \in program.loops : BeginLoop(id)
  <2>1. PICK id \in program.loops : BeginLoop(id)
    BY <1>2
  <2>2. id \in DOMAIN Loop
    BY ProgramsAssumption DEF SoundState
  <2>3. Move({Begin(id, s)}, {Begin(id, r)})
    BY <2>1 DEF BeginLoop
  <2>4. Moves(s, Begin(id, s)) /\ Moves(r, Begin(id, r))
    BY <1>1, <2>2, BeginMoves
  <2>. QED  BY <2>3, <2>4, SoundMove
<1>3. CASE TakeTurn
  <2> DEFINE s1 == [sym |-> sym, cache |-> cache, val |-> None]
             r1 == [sym |-> refSym, cache |-> NeverHot, val |-> None]
  <2>1. s1 \in Endings /\ r1 \in Endings
    BY NeverHotType, Distinct DEF SoundState, Endings, Outcomes
  <2>2. UnderWay(loop) /\ UnderWay(refLoop)
    BY DEF SoundState
  <2>3. Move({Advance(loop, s1)}, {Advance(refLoop, r1)})
    BY <1>3 DEF TakeTurn
  <2>4. s1.cache = s.cache /\ r1.cache = r.cache
    OBVIOUS
  <2> HIDE DEF s1, r1
  <2>5. Moves(s1, Advance(loop, s1)) /\ Moves(r1, Advance(refLoop, r1))
    BY <2>1, <2>2, AdvanceMoves
  <2>6. Moves(s, Advance(loop, s1)) /\ Moves(r, Advance(refLoop, r1))
    BY <2>4, <2>5 DEF Moves, StaysSettled
  <2>. QED  BY <2>3, <2>6, SoundMove
<1>4. CASE Statement
  <2>1. program' = program /\ loop' = loop /\ refLoop' = refLoop
    BY <1>4 DEF Statement
  <2>2. CASE \E id \in program.roots : Evaluate(id)
    <3>1. PICK id \in program.roots : Evaluate(id)
      BY <2>2
    <3>2. id \in Ids
      BY ProgramsAssumption, StartAssumption DEF SoundState
    <3> DEFINE hot == Visit(id, s)
               cold == Visit(id, r)
    <3>3. sym' = hot.sym /\ cache' = hot.cache /\ refSym' = cold.sym
      BY <3>1 DEF Evaluate
    <3>4. Reaches(s, hot) /\ Reaches(r, cold)
      BY <1>1, <3>2, VisitReaches
    <3> HIDE DEF hot, cold
    <3>5. /\ hot.sym \in SymbolTables /\ hot.cache \in Tables /\ cold.sym \in SymbolTables
          /\ AllSettled(cache) => AllSettled(hot.cache)
      BY <3>4 DEF Reaches, Results, Follows
    <3>6. AllSettled(cache)'
      BY <3>3, <3>5 DEF SoundState, AllSettled, Settled
    <3>7. UnderWay(loop)' /\ UnderWay(refLoop)'
      BY <2>1 DEF SoundState, UnderWay, WhileLoops, ForLoops, PathFits
    <3>. QED  BY <2>1, <3>3, <3>5, <3>6, <3>7 DEF SoundState, SymbolTables, Tables
  <2>3. CASE \E x \in Names : Assign(x)
    <3>0. PICK x \in Names : Assign(x)
      BY <2>3
    <3>1. PICK a \in Assignable[x] :
            sym' = [sym EXCEPT ![x] = a] /\ refSym' = [refSym EXCEPT ![x] = a] /\ cache' = cache
      BY <3>0 DEF Assign
    <3>2. a \in Values
      BY StartAssumption
    <3>3. sym' \in SymbolTables /\ refSym' \in SymbolTables
      BY <3>1, <3>2, Rebound DEF SoundState
    <3>4. AllSettled(cache)'
      BY <3>1 DEF SoundState, AllSettled, Settled
    <3>5. UnderWay(loop)' /\ UnderWay(refLoop)'
      BY <2>1 DEF SoundState, UnderWay, WhileLoops, ForLoops, PathFits
    <3>. QED  BY <2>1, <3>1, <3>3, <3>4, <3>5 DEF SoundState, SymbolTables, Tables
  <2>. QED  BY <1>4, <2>2, <2>3 DEF Statement
<1>5. CASE UNCHANGED allVars
  BY <1>5 DEF allVars, vars, SoundState, SymbolTables, Tables, AllSettled, Settled,
              UnderWay, WhileLoops, ForLoops, PathFits
<1>. QED  BY <1>2, <1>3, <1>4, <1>5 DEF LoopNext

(* With it the code that the entries hold is balanced in every table.      *)
LEMMA SoundMachine == SoundState => MachineSound
<1> SUFFICES ASSUME SoundState PROVE MachineSound
  OBVIOUS
<1>1. TypeOK
  BY DEF SoundState, TypeOK, SymbolTables, AllSettled, Settled
<1>2. ASSUME NEW id \in Roots, Compiles(id), Machine(CodeOf[id], sym).val = Going
      PROVE  Len(Machine(CodeOf[id], sym).stack) = 1
  <2>1. id \in Ids /\ sym \in SymbolTables
    BY StartAssumption DEF SoundState
  <2>. QED  BY <1>2, <2>1, Balanced
<1>3. StackBalanced
  BY <1>2 DEF StackBalanced
<1>. QED  BY <1>1, <1>3 DEF MachineSound

(* jit.cpp, JitCompiler and JitProgram::execute(): whatever a program does *)
(* with its variables, expressions and loops, every counter stops at the   *)
(* threshold and its entry is settled one way there, and the code that a   *)
(* root can have leaves exactly one number on the operand stack if it runs *)
(* to its end.                                                             *)
THEOREM CodeIsSound == LoopSpec => []MachineSound
BY SoundAtFirst, SoundStep, SoundMachine, PTL DEF LoopSpec
=============================================================================
