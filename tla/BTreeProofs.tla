---------------------------- MODULE BTreeProofs ----------------------------
(***************************************************************************)
(* Proofs about BTree, for any values: the nodes are filled as a B-tree's  *)
(* should be at every step of an insertion, and the tree is the set of the *)
(* values inserted.                                                        *)
(*                                                                         *)
(* Nothing is said by recursion on the tree.  That every leaf is as deep   *)
(* has a certificate: a number for each node, 0 for a leaf, that is one    *)
(* more than that of each child (Levelled).  A split gives the new node    *)
(* that of the node it is split from, and only a new root has a greater    *)
(* one.  That a search finds what is there has one too: for each node the  *)
(* values that are looked for in it or below it, those of a child being    *)
(* the ones between the keys around the child (Ranged).  The two halves of *)
(* a split share what the node had, but for the key that goes up.          *)
(***************************************************************************)
EXTENDS BTree, SequenceLemmas, FiniteSetTheorems

(* A B-tree of n nodes, whatever their links.                              *)
BNodeOf(n) == [keys : Seq(BValues), children : Seq(1..n), leaf : BOOLEAN]

BTyped(h, n) == n \in Nat /\ h \in [1..n -> BNodeOf(n)]

(* Sequences, in halves and with an element put in.                        *)

(* The last l elements of a sequence.                                      *)
LEMMA SuffixProperties ==
  ASSUME NEW S, NEW s \in Seq(S), NEW k \in Nat, NEW l \in Nat, k + l = Len(s)
  PROVE  /\ SubSeq(s, k + 1, Len(s)) \in Seq(S)
         /\ Len(SubSeq(s, k + 1, Len(s))) = l
         /\ \A j \in 1..l : SubSeq(s, k + 1, Len(s))[j] = s[j + k]
<1>1. \A i \in (k + 1)..Len(s) : s[i] \in S
  OBVIOUS
<1>2. SubSeq(s, k + 1, Len(s)) \in Seq(S)
  BY <1>1, SubSeqProperties
<1>. QED  BY <1>2

(* u is s with e put in at i.                                              *)
Inserted(s, i, e, u) ==
  /\ Len(u) = Len(s) + 1 /\ u[i] = e
  /\ \A j \in 1..(Len(s) + 1) : (j < i => u[j] = s[j]) /\ (i < j => u[j] = s[j - 1])

LEMMA InsertAtParts ==
  ASSUME NEW S, NEW s \in Seq(S), NEW e \in S, NEW i \in 1..(Len(s) + 1)
  PROVE  InsertAt(s, i, e) \in Seq(S) /\ Inserted(s, i, e, InsertAt(s, i, e))
<1> DEFINE a == SubSeq(s, 1, i - 1)
           b == SubSeq(s, i, Len(s))
<1>1. /\ a \in Seq(S) /\ Len(a) = i - 1 /\ \A j \in 1..(i - 1) : a[j] = s[j]
  BY SubSeqProperties
<1>2. /\ b \in Seq(S) /\ Len(b) = Len(s) - i + 1 /\ \A j \in 1..(Len(s) - i + 1) : b[j] = s[i + j - 1]
  BY SubSeqProperties
<1>3. InsertAt(s, i, e) = a \o <<e>> \o b
  BY DEF InsertAt
<1> HIDE DEF a, b
<1>4. /\ a \o <<e>> \in Seq(S) /\ Len(a \o <<e>>) = i /\ (a \o <<e>>)[i] = e
      /\ \A j \in 1..(i - 1) : (a \o <<e>>)[j] = a[j]
  BY <1>1
<1> DEFINE f == a \o <<e>>
<1> HIDE DEF f
<1>5. /\ f \o b \in Seq(S) /\ Len(f \o b) = Len(s) + 1
      /\ \A j \in 1..i : (f \o b)[j] = f[j]
      /\ \A j \in 1..(Len(s) + 1) : i < j => (f \o b)[j] = b[j - i]
  <2>1. f \in Seq(S) /\ Len(f) = i /\ i \in Nat
    BY <1>4 DEF f
  <2>2. b \in Seq(S) /\ Len(b) = Len(s) - i + 1
    BY <1>2
  <2>3. f \o b \in Seq(S) /\ Len(f \o b) = Len(s) + 1
    BY <2>1, <2>2
  <2>4. \A j \in 1..i : (f \o b)[j] = f[j]
    BY <2>1, <2>2
  <2>5. \A j \in 1..(Len(s) + 1) : i < j => (f \o b)[j] = b[j - i]
    BY <2>1, <2>2
  <2>. QED  BY <2>3, <2>4, <2>5
<1>6. InsertAt(s, i, e) = f \o b
  BY <1>3 DEF f
<1>7. /\ \A j \in 1..(i - 1) : f[j] = s[j]
      /\ f[i] = e
  BY <1>1, <1>4 DEF f
<1>8. ASSUME NEW j \in 1..(Len(s) + 1), i < j PROVE (f \o b)[j] = s[j - 1]
  <2>1. j - i \in 1..(Len(s) - i + 1) /\ i + (j - i) - 1 = j - 1
    BY <1>8
  <2>. QED  BY <1>2, <1>5, <1>8, <2>1
<1>9. Inserted(s, i, e, f \o b)
  BY <1>5, <1>7, <1>8 DEF Inserted
<1>. QED  BY <1>5, <1>6, <1>9, Zenon

-----------------------------------------------------------------------------
(* The parts of a node.                                                    *)
LEMMA BNodeParts ==
  ASSUME NEW h, NEW n, BTyped(h, n), NEW m \in 1..n
  PROVE  /\ n \in Nat /\ h[m] \in BNodeOf(n)
         /\ h[m].keys \in Seq(BValues) /\ h[m].children \in Seq(1..n) /\ h[m].leaf \in BOOLEAN
         /\ Len(h[m].keys) \in Nat /\ Len(h[m].children) \in Nat
         /\ \A j \in 1..Len(h[m].keys) : h[m].keys[j] \in BValues
         /\ \A j \in 1..Len(h[m].children) : h[m].children[j] \in 1..n
<1>1. n \in Nat /\ h[m] \in BNodeOf(n)
  BY DEF BTyped
<1>2. h[m].keys \in Seq(BValues) /\ h[m].children \in Seq(1..n) /\ h[m].leaf \in BOOLEAN
  BY <1>1 DEF BNodeOf
<1>. QED  BY <1>1, <1>2, SMTT(40)

(* However the constructor is called, a node has room for three keys.      *)
LEMMA Degree == T \in Nat /\ 2 <= T /\ MaxKeys \in Nat /\ MaxKeys = 2 * T - 1
BY BUseAssumption DEF T, MaxKeys

(* A node made of its parts.                                               *)
Made(u, n, k, l, c) == u \in BNodeOf(n) /\ u.keys = k /\ u.leaf = l /\ u.children = c

(* Of sequences of values and of nodes.                                    *)
LEMMA NodeMade ==
  ASSUME NEW n, NEW k \in Seq(BValues), NEW l \in BOOLEAN, NEW c \in Seq(1..n)
  PROVE  Made([keys |-> k, leaf |-> l, children |-> c], n, k, l, c)
BY DEF Made, BNodeOf

(* The two halves of a full node.                                          *)
LowerHalf(r, u) ==
  /\ u.leaf = r.leaf /\ Len(u.keys) = T - 1 /\ \A j \in 1..(T - 1) : u.keys[j] = r.keys[j]
  /\ ~r.leaf => Len(u.children) = T /\ \A j \in 1..T : u.children[j] = r.children[j]
  /\ r.leaf => u.children = r.children

UpperHalf(r, u) ==
  /\ u.leaf = r.leaf /\ Len(u.keys) = T - 1 /\ \A j \in 1..(T - 1) : u.keys[j] = r.keys[j + T]
  /\ ~r.leaf => Len(u.children) = T /\ \A j \in 1..T : u.children[j] = r.children[j + T]
  /\ r.leaf => u.children = << >>

(* What split_child() leaves in the child.                                 *)
LEMMA LowerEffect ==
  ASSUME NEW n \in Nat, NEW r \in BNodeOf(n), Len(r.keys) = MaxKeys, ~r.leaf => Len(r.children) = 2 * T,
         NEW u, u = [keys |-> SubSeq(r.keys, 1, T - 1), leaf |-> r.leaf,
                     children |-> IF r.leaf THEN r.children ELSE SubSeq(r.children, 1, T)]
  PROVE  u \in BNodeOf(n) /\ LowerHalf(r, u)
<1>1. /\ T \in Nat /\ T - 1 \in Nat /\ MaxKeys = 2 * T - 1 /\ T - 1 <= 2 * T - 1 /\ T <= 2 * T
      /\ r.keys \in Seq(BValues) /\ r.children \in Seq(1..n) /\ r.leaf \in BOOLEAN
  BY Degree DEF BNodeOf
<1>2. /\ SubSeq(r.keys, 1, T - 1) \in Seq(BValues) /\ Len(SubSeq(r.keys, 1, T - 1)) = T - 1
      /\ \A j \in 1..(T - 1) : SubSeq(r.keys, 1, T - 1)[j] = r.keys[j]
  <2>1. T - 1 <= Len(r.keys)
    BY <1>1
  <2>. QED  BY <1>1, <2>1, PrefixProperties, ZenonT(40)
<1>3. CASE r.leaf
  <2>1. u = [keys |-> SubSeq(r.keys, 1, T - 1), leaf |-> r.leaf, children |-> r.children]
    BY <1>3
  <2>2. Made(u, n, SubSeq(r.keys, 1, T - 1), r.leaf, r.children)
    BY <1>1, <1>2, <2>1, NodeMade, Zenon
  <2>. QED  BY <1>2, <1>3, <2>2, Zenon DEF LowerHalf, Made
<1>4. CASE ~r.leaf
  <2>1. u = [keys |-> SubSeq(r.keys, 1, T - 1), leaf |-> r.leaf, children |-> SubSeq(r.children, 1, T)]
    BY <1>4
  <2>2. /\ SubSeq(r.children, 1, T) \in Seq(1..n) /\ Len(SubSeq(r.children, 1, T)) = T
        /\ \A j \in 1..T : SubSeq(r.children, 1, T)[j] = r.children[j]
    <3>1. T <= Len(r.children)
      BY <1>1, <1>4
    <3>2. ASSUME NEW s \in Seq(1..n), NEW k \in Nat, k <= Len(s)
          PROVE  /\ SubSeq(s, 1, k) \in Seq(1..n) /\ Len(SubSeq(s, 1, k)) = k
                 /\ \A j \in 1..k : SubSeq(s, 1, k)[j] = s[j]
      BY <3>2, PrefixProperties
    <3>. QED  BY <1>1, <3>1, <3>2, Zenon
  <2>3. Made(u, n, SubSeq(r.keys, 1, T - 1), r.leaf, SubSeq(r.children, 1, T))
    BY <1>1, <1>2, <2>1, <2>2, NodeMade, Zenon
  <2>. QED  BY <1>2, <1>4, <2>2, <2>3, Zenon DEF LowerHalf, Made
<1>. QED  BY <1>3, <1>4

(* What it puts in the new node.                                           *)
LEMMA UpperEffect ==
  ASSUME NEW n \in Nat, NEW r \in BNodeOf(n), Len(r.keys) = MaxKeys, ~r.leaf => Len(r.children) = 2 * T,
         NEW u, u = [keys |-> SubSeq(r.keys, T + 1, Len(r.keys)), leaf |-> r.leaf,
                     children |-> IF r.leaf THEN << >> ELSE SubSeq(r.children, T + 1, Len(r.children))]
  PROVE  u \in BNodeOf(n) /\ UpperHalf(r, u)
<1>1. /\ T \in Nat /\ T - 1 \in Nat /\ MaxKeys = 2 * T - 1 /\ T + (T - 1) = 2 * T - 1 /\ T + T = 2 * T
      /\ r.keys \in Seq(BValues) /\ r.children \in Seq(1..n) /\ r.leaf \in BOOLEAN
  BY Degree DEF BNodeOf
<1>2. /\ SubSeq(r.keys, T + 1, Len(r.keys)) \in Seq(BValues) /\ Len(SubSeq(r.keys, T + 1, Len(r.keys))) = T - 1
      /\ \A j \in 1..(T - 1) : SubSeq(r.keys, T + 1, Len(r.keys))[j] = r.keys[j + T]
  <2>1. T + (T - 1) = Len(r.keys)
    BY <1>1
  <2>. QED  BY <1>1, <2>1, SuffixProperties
<1>3. CASE r.leaf
  <2>1. u = [keys |-> SubSeq(r.keys, T + 1, Len(r.keys)), leaf |-> r.leaf, children |-> << >>]
    BY <1>3
  <2>2. << >> \in Seq(1..n)
    OBVIOUS
  <2>3. Made(u, n, SubSeq(r.keys, T + 1, Len(r.keys)), r.leaf, << >>)
    BY <1>1, <1>2, <2>1, <2>2, NodeMade, Zenon
  <2>. QED  BY <1>2, <1>3, <2>3, Zenon DEF UpperHalf, Made
<1>4. CASE ~r.leaf
  <2>1. u = [keys |-> SubSeq(r.keys, T + 1, Len(r.keys)), leaf |-> r.leaf,
             children |-> SubSeq(r.children, T + 1, Len(r.children))]
    BY <1>4
  <2>2. /\ SubSeq(r.children, T + 1, Len(r.children)) \in Seq(1..n)
        /\ Len(SubSeq(r.children, T + 1, Len(r.children))) = T
        /\ \A j \in 1..T : SubSeq(r.children, T + 1, Len(r.children))[j] = r.children[j + T]
    <3>1. T + T = Len(r.children)
      BY <1>1, <1>4
    <3>2. ASSUME NEW s \in Seq(1..n), NEW k \in Nat, k + k = Len(s)
          PROVE  /\ SubSeq(s, k + 1, Len(s)) \in Seq(1..n)
                 /\ Len(SubSeq(s, k + 1, Len(s))) = k
                 /\ \A j \in 1..k : SubSeq(s, k + 1, Len(s))[j] = s[j + k]
      BY <3>2, SuffixProperties, SMTT(40)
    <3>. QED  BY <1>1, <3>1, <3>2, Zenon
  <2>3. Made(u, n, SubSeq(r.keys, T + 1, Len(r.keys)), r.leaf, SubSeq(r.children, T + 1, Len(r.children)))
    BY <1>1, <1>2, <2>1, <2>2, NodeMade, Zenon
  <2>. QED  BY <1>2, <1>4, <2>2, <2>3, Zenon DEF UpperHalf, Made
<1>. QED  BY <1>3, <1>4

(* What splitting child i of p makes of the nodes: c keeps the first T - 1 *)
(* keys, the new node gets the last T - 1, and p the one between them.     *)
Halved(h, u, n, p, i, c) ==
  /\ \A m \in 1..n : m # c /\ m # p => u[m] = h[m]
  /\ LowerHalf(h[c], u[c]) /\ UpperHalf(h[c], u[n + 1])
  /\ u[p].leaf = h[p].leaf
  /\ Inserted(h[p].keys, i, h[c].keys[T], u[p].keys)
  /\ Inserted(h[p].children, i + 1, n + 1, u[p].children)

(* A node of a tree is one of a tree with more nodes.                      *)
LEMMA NodeGrows ==
  ASSUME NEW n \in Nat, NEW r \in BNodeOf(n)
  PROVE  r \in BNodeOf(n + 1)
<1>1. 1..n \subseteq 1..(n + 1)
  OBVIOUS
<1>2. Seq(1..n) \subseteq Seq(1..(n + 1))
  BY <1>1, SeqMonotonic
<1>. QED  BY <1>2 DEF BNodeOf

(* u is the nodes g and one more.                                          *)
OneMore(g, n, r, u) == Len(u) = n + 1 /\ u[n + 1] = r /\ \A m \in 1..n : u[m] = g[m]

(* Appending a node.                                                       *)
LEMMA NodesAndOne ==
  ASSUME NEW n \in Nat, NEW S, NEW g \in [1..n -> S], NEW r \in S, NEW u, u = Append(g, r)
  PROVE  u \in Seq(S) /\ u \in [1..(n + 1) -> S] /\ OneMore(g, n, r, u)
<1>1. g \in Seq(S)
  BY SeqDef
<1>2. Len(g) = n
  BY <1>1
<1>3. /\ Append(g, r) \in Seq(S) /\ Len(Append(g, r)) = n + 1
      /\ Append(g, r)[n + 1] = r /\ \A m \in 1..n : Append(g, r)[m] = g[m]
  BY <1>1, <1>2, AppendProperties
<1>4. u \in Seq(S) /\ Len(u) = n + 1
  BY <1>3, Zenon
<1>5. u \in [1..Len(u) -> S]
  BY <1>4, LenProperties
<1>6. u \in [1..(n + 1) -> S]
  BY <1>4, <1>5
<1>. QED  BY <1>3, <1>4, <1>6, Zenon DEF OneMore

(* split_child() halves a full child.                                      *)
LEMMA SplitEffect ==
  ASSUME NEW h, NEW n, BTyped(h, n), NEW p \in 1..n, NEW i \in 1..Len(h[p].children),
         NEW c \in 1..n, h[p].children[i] = c, c # p,
         Len(h[p].children) = Len(h[p].keys) + 1,
         Len(h[c].keys) = MaxKeys, ~h[c].leaf => Len(h[c].children) = 2 * T
  PROVE  /\ BTyped(Split(h, p, i), n + 1) /\ Len(Split(h, p, i)) = n + 1
         /\ Split(h, p, i) \in Seq(BNodeOf(n + 1))
         /\ Halved(h, Split(h, p, i), n, p, i, c)
<1>1. /\ n \in Nat /\ n + 1 \in Nat /\ T \in Nat /\ 2 <= T /\ MaxKeys = 2 * T - 1
      /\ h \in [1..n -> BNodeOf(n)] /\ h[c] \in BNodeOf(n) /\ h[p] \in BNodeOf(n)
      /\ h[c].keys \in Seq(BValues) /\ h[p].keys \in Seq(BValues)
      /\ h[p].children \in Seq(1..n) /\ h[p].leaf \in BOOLEAN
  <2>1. n \in Nat /\ h \in [1..n -> BNodeOf(n)]
    BY DEF BTyped
  <2>. QED  BY <2>1, Degree, BNodeParts, SMTT(40)
<1>2. PICK k : k = h[c].keys[T]
  OBVIOUS
<1>3. PICK left : left = [keys |-> SubSeq(h[c].keys, 1, T - 1), leaf |-> h[c].leaf,
                          children |-> IF h[c].leaf THEN h[c].children ELSE SubSeq(h[c].children, 1, T)]
  OBVIOUS
<1>4. PICK right : right = [keys |-> SubSeq(h[c].keys, T + 1, Len(h[c].keys)), leaf |-> h[c].leaf,
                            children |-> IF h[c].leaf THEN << >>
                                         ELSE SubSeq(h[c].children, T + 1, Len(h[c].children))]
  OBVIOUS
<1>5. PICK keys, children : keys = InsertAt(h[p].keys, i, k) /\ children = InsertAt(h[p].children, i + 1, n + 1)
  OBVIOUS
<1>6. PICK parent : parent = [keys |-> keys, leaf |-> h[p].leaf, children |-> children]
  OBVIOUS
<1>7. PICK g : g = [h EXCEPT ![c] = left, ![p] = parent]
  OBVIOUS
<1>8. Split(h, p, i) = Append(g, right)
  <2>1. Len(h) = n
    BY <1>1
  <2>2. parent = [keys |-> InsertAt(h[p].keys, i, h[c].keys[T]), leaf |-> h[p].leaf,
                  children |-> InsertAt(h[p].children, i + 1, Len(h) + 1)]
    BY <1>2, <1>5, <1>6, <2>1, Zenon
  <2>. QED  BY <1>3, <1>4, <1>7, <2>2, Zenon DEF Split, SplitInto
<1>9. left \in BNodeOf(n + 1) /\ LowerHalf(h[c], left)
  <2>1. left \in BNodeOf(n) /\ LowerHalf(h[c], left)
    BY <1>1, <1>3, LowerEffect
  <2>. QED  BY <1>1, <2>1, NodeGrows
<1>10. right \in BNodeOf(n + 1) /\ UpperHalf(h[c], right)
  <2>1. right \in BNodeOf(n) /\ UpperHalf(h[c], right)
    BY <1>1, <1>4, UpperEffect
  <2>. QED  BY <1>1, <2>1, NodeGrows
<1>11. /\ k \in BValues /\ i \in 1..(Len(h[p].keys) + 1) /\ i + 1 \in 1..(Len(h[p].children) + 1)
       /\ n + 1 \in 1..(n + 1) /\ h[p].children \in Seq(1..(n + 1))
  <2>1. h[p].children \in Seq(1..(n + 1))
    <3>1. 1..n \subseteq 1..(n + 1)
      BY <1>1
    <3>2. Seq(1..n) \subseteq Seq(1..(n + 1))
      BY <3>1, SeqMonotonic
    <3>. QED  BY <1>1, <3>2, Zenon
  <2>2. k \in BValues
    <3>1. T \in 1..Len(h[c].keys)
      BY <1>1
    <3>. QED  BY <1>1, <1>2, <3>1
  <2>3. i \in 1..(Len(h[p].keys) + 1) /\ i + 1 \in 1..(Len(h[p].children) + 1) /\ n + 1 \in 1..(n + 1)
    BY <1>1
  <2>. QED  BY <2>1, <2>2, <2>3, Zenon
<1>12. keys \in Seq(BValues) /\ Inserted(h[p].keys, i, k, keys)
  BY <1>1, <1>5, <1>11, InsertAtParts, Zenon
<1>13. children \in Seq(1..(n + 1)) /\ Inserted(h[p].children, i + 1, n + 1, children)
  BY <1>5, <1>11, InsertAtParts, Zenon
<1>14. parent \in BNodeOf(n + 1) /\ parent.keys = keys /\ parent.children = children /\ parent.leaf = h[p].leaf
  BY <1>1, <1>6, <1>12, <1>13 DEF BNodeOf
<1>15. /\ g \in [1..n -> BNodeOf(n + 1)] /\ g[c] = left /\ g[p] = parent
       /\ \A m \in 1..n : m # c /\ m # p => g[m] = h[m]
  <2>1. \A m \in 1..n : h[m] \in BNodeOf(n + 1)
    BY <1>1, NodeGrows
  <2>. QED  BY <1>1, <1>7, <1>9, <1>14, <2>1
<1>16. PICK u : u = Append(g, right)
  OBVIOUS
<1>17. u \in Seq(BNodeOf(n + 1)) /\ u \in [1..(n + 1) -> BNodeOf(n + 1)] /\ OneMore(g, n, right, u)
  BY <1>1, <1>10, <1>15, <1>16, NodesAndOne, Zenon
<1>18. Halved(h, u, n, p, i, c)
  <2>1. u[c] = left /\ u[p] = parent /\ \A m \in 1..n : m # c /\ m # p => u[m] = h[m]
    BY <1>15, <1>17 DEF OneMore
  <2>2. u[n + 1] = right
    BY <1>17 DEF OneMore
  <2>. QED  BY <2>2, <1>2, <1>9, <1>10, <1>12, <1>13, <1>14, <1>17, <2>1, Zenon DEF Halved
<1>. QED  BY <1>1, <1>8, <1>16, <1>17, <1>18, Zenon DEF BTyped, OneMore

-----------------------------------------------------------------------------
(* That every leaf is as deep: a number for each node, 0 for a leaf, that  *)
(* is one more than that of each child.                                    *)
NodeFits(x, top, k, ht) ==
  /\ Len(x.keys) <= MaxKeys /\ (~top => T - 1 <= Len(x.keys))
  /\ x.leaf <=> k = 0
  /\ x.leaf => Len(x.children) = 0
  /\ ~x.leaf => Len(x.children) = Len(x.keys) + 1
  /\ \A j \in 1..Len(x.children) : ht[x.children[j]] + 1 = k

Levelled(h, n, r, ht) ==
  /\ ht \in [1..n -> Nat]
  /\ \A m \in 1..n : NodeFits(h[m], m = r, ht[m], ht)

(* The new node of a split is as deep as the one it is split from.         *)
Deeper(n, ht, k) == [m \in 1..(n + 1) |-> IF m = n + 1 THEN k ELSE ht[m]]

(* A split leaves every leaf as deep.                                      *)
LEMMA SplitLevelled ==
  ASSUME NEW h, NEW n, BTyped(h, n), NEW r \in 1..n, NEW ht, Levelled(h, n, r, ht),
         NEW p \in 1..n, NEW i \in 1..Len(h[p].children), NEW c \in 1..n, h[p].children[i] = c,
         Len(h[p].keys) < MaxKeys, Len(h[c].keys) = MaxKeys,
         NEW u, BTyped(u, n + 1), Halved(h, u, n, p, i, c)
  PROVE  Levelled(u, n + 1, r, Deeper(n, ht, ht[c]))
<1> DEFINE hu == Deeper(n, ht, ht[c])
<1>1. /\ n \in Nat /\ ht \in [1..n -> Nat] /\ ht[c] \in Nat /\ ht[p] \in Nat
      /\ T \in Nat /\ 2 <= T /\ MaxKeys = 2 * T - 1
  BY Degree DEF BTyped, Levelled
<1>2. hu \in [1..(n + 1) -> Nat] /\ hu[n + 1] = ht[c] /\ \A m \in 1..n : hu[m] = ht[m]
  BY <1>1, SMTT(40) DEF Deeper
<1> HIDE DEF hu
<1>3. /\ NodeFits(h[c], c = r, ht[c], ht) /\ NodeFits(h[p], p = r, ht[p], ht)
      /\ \A j \in 1..Len(h[c].children) : h[c].children[j] \in 1..n
      /\ \A j \in 1..Len(h[p].children) : h[p].children[j] \in 1..n
      /\ h[c].leaf \in BOOLEAN /\ h[p].leaf \in BOOLEAN
      /\ Len(h[p].keys) \in Nat /\ Len(h[p].children) \in Nat
  BY BNodeParts DEF Levelled
<1>4. ~h[p].leaf /\ ht[c] + 1 = ht[p] /\ c # p /\ Len(h[p].children) = Len(h[p].keys) + 1
  <2>1. ~h[p].leaf
    BY <1>3 DEF NodeFits
  <2>2. ht[c] + 1 = ht[p]
    BY <1>3, Zenon DEF NodeFits
  <2>3. c # p
    BY <1>1, <2>2
  <2>. QED  BY <1>3, <2>1, <2>2, <2>3, Zenon DEF NodeFits
<1>5. /\ ~h[c].leaf => Len(h[c].children) = 2 * T
      /\ h[c].leaf => Len(h[c].children) = 0
      /\ h[c].leaf <=> ht[c] = 0
      /\ \A j \in 1..Len(h[c].children) : ht[h[c].children[j]] + 1 = ht[c]
  <2>1. /\ ~h[c].leaf => Len(h[c].children) = Len(h[c].keys) + 1
        /\ h[c].leaf => Len(h[c].children) = 0
        /\ h[c].leaf <=> ht[c] = 0
        /\ \A j \in 1..Len(h[c].children) : ht[h[c].children[j]] + 1 = ht[c]
    BY <1>3, Zenon DEF NodeFits
  <2>. QED  BY <1>1, <2>1
<1>6. ASSUME NEW m \in 1..(n + 1) PROVE NodeFits(u[m], m = r, hu[m], hu)
  <2>1. CASE m \in 1..n /\ m # c /\ m # p
    <3>1. u[m] = h[m] /\ hu[m] = ht[m] /\ NodeFits(h[m], m = r, ht[m], ht)
      BY <1>2, <2>1 DEF Halved, Levelled
    <3>2. \A j \in 1..Len(h[m].children) : h[m].children[j] \in 1..n
      BY <2>1, BNodeParts
    <3>3. \A j \in 1..Len(h[m].children) : hu[h[m].children[j]] = ht[h[m].children[j]]
      BY <1>2, <3>2
    <3>. QED  BY <3>1, <3>3 DEF NodeFits
  <2>2. CASE m = c
    <3>1. LowerHalf(h[c], u[c]) /\ hu[c] = ht[c]
      BY <1>2 DEF Halved
    <3>2. \A j \in 1..Len(h[c].children) : hu[h[c].children[j]] + 1 = ht[c]
      BY <1>2, <1>3, <1>5
    <3>3. /\ u[c].leaf = h[c].leaf /\ Len(u[c].keys) = T - 1 /\ T - 1 <= MaxKeys
      BY <1>1, <3>1, SMTT(40) DEF LowerHalf
    <3>4. CASE h[c].leaf
      <4>1. Len(u[c].children) = 0
        BY <1>5, <3>1, <3>4 DEF LowerHalf
      <4>. QED  BY <1>1, <1>5, <2>2, <3>1, <3>3, <3>4, <4>1 DEF NodeFits
    <3>5. CASE ~h[c].leaf
      <4>1. Len(u[c].children) = T /\ \A j \in 1..T : u[c].children[j] = h[c].children[j]
        BY <3>1, <3>5 DEF LowerHalf
      <4>2. \A j \in 1..T : j \in 1..Len(h[c].children)
        BY <1>1, <1>5, <3>5, SMTT(40)
      <4>3. \A j \in 1..Len(u[c].children) : hu[u[c].children[j]] + 1 = ht[c]
        BY <3>2, <4>1, <4>2, ZenonT(40)
      <4>4. Len(u[c].children) = Len(u[c].keys) + 1
        BY <1>1, <3>3, <4>1
      <4>. QED  BY <1>5, <2>2, <3>1, <3>3, <3>5, <4>3, <4>4 DEF NodeFits
    <3>. QED  BY <3>4, <3>5
  <2>3. CASE m = n + 1
    <3>1. UpperHalf(h[c], u[n + 1]) /\ hu[n + 1] = ht[c]
      BY <1>2 DEF Halved
    <3>2. \A j \in 1..Len(h[c].children) : hu[h[c].children[j]] + 1 = ht[c]
      BY <1>2, <1>3, <1>5
    <3>3. /\ u[n + 1].leaf = h[c].leaf /\ Len(u[n + 1].keys) = T - 1 /\ T - 1 <= MaxKeys
      BY <1>1, <3>1 DEF UpperHalf
    <3>4. CASE h[c].leaf
      <4>1. Len(u[n + 1].children) = 0
        BY <1>5, <3>1, <3>4 DEF UpperHalf
      <4>. QED  BY <1>1, <1>5, <2>3, <3>1, <3>3, <3>4, <4>1 DEF NodeFits
    <3>5. CASE ~h[c].leaf
      <4>1. Len(u[n + 1].children) = T /\ \A j \in 1..T : u[n + 1].children[j] = h[c].children[j + T]
        BY <3>1, <3>5, Zenon DEF UpperHalf
      <4>2. \A j \in 1..T : j + T \in 1..Len(h[c].children)
        BY <1>1, <1>5, <3>5
      <4>3. \A j \in 1..Len(u[n + 1].children) : hu[u[n + 1].children[j]] + 1 = ht[c]
        BY <3>2, <4>1, <4>2, ZenonT(40)
      <4>4. Len(u[n + 1].children) = Len(u[n + 1].keys) + 1
        BY <1>1, <3>3, <4>1
      <4>. QED  BY <1>5, <2>3, <3>1, <3>3, <3>5, <4>3, <4>4 DEF NodeFits
    <3>. QED  BY <3>4, <3>5
  <2>4. CASE m = p
    <3>1. /\ Inserted(h[p].keys, i, h[c].keys[T], u[p].keys) /\ u[p].leaf = h[p].leaf
          /\ Inserted(h[p].children, i + 1, n + 1, u[p].children) /\ hu[p] = ht[p]
      BY <1>2 DEF Halved
    <3>2. \A j \in 1..Len(h[p].children) : hu[h[p].children[j]] + 1 = ht[p]
      BY <1>2, <1>3 DEF NodeFits
    <3>3. ASSUME NEW j \in 1..(Len(h[p].children) + 1) PROVE hu[u[p].children[j]] + 1 = ht[p]
      <4>1. CASE j < i + 1
        <5>1. j \in 1..Len(h[p].children)
          BY <1>3, <4>1
        <5>. QED  BY <3>1, <3>2, <4>1, <5>1, Zenon DEF Inserted
      <4>2. CASE j = i + 1
        BY <1>2, <1>4, <3>1, <4>2 DEF Inserted
      <4>3. CASE i + 1 < j
        <5>1. j - 1 \in 1..Len(h[p].children)
          BY <1>3, <4>3
        <5>. QED  BY <3>1, <3>2, <4>3, <5>1 DEF Inserted
      <4>. QED  BY <1>3, <4>1, <4>2, <4>3
    <3>4. /\ Len(u[p].keys) = Len(h[p].keys) + 1 /\ Len(u[p].children) = Len(h[p].children) + 1
      BY <3>1 DEF Inserted
    <3>5. /\ Len(h[p].keys) + 1 <= MaxKeys /\ Len(u[p].children) = Len(u[p].keys) + 1
          /\ T - 1 <= Len(h[p].keys) => T - 1 <= Len(u[p].keys)
          /\ ht[p] # 0
      <4>1. Len(h[p].keys) \in Nat
        BY <1>3
      <4>2. Len(h[p].keys) + 1 <= MaxKeys /\ ht[p] # 0
        <5>1. MaxKeys \in Nat
          BY Degree
        <5>2. Len(h[p].keys) + 1 <= MaxKeys
          BY <4>1, <5>1
        <5>3. ht[p] # 0
          BY <1>1, <1>4
        <5>. QED  BY <5>2, <5>3
      <4>3. Len(u[p].children) = Len(u[p].keys) + 1
        BY <1>4, <3>4
      <4>4. T - 1 <= Len(h[p].keys) => T - 1 <= Len(u[p].keys)
        BY <1>1, <3>4, <4>1
      <4>. QED  BY <4>2, <4>3, <4>4
    <3>6. p # r => T - 1 <= Len(h[p].keys)
      BY <1>3, Zenon DEF NodeFits
    <3>7. \A j \in 1..Len(u[p].children) : hu[u[p].children[j]] + 1 = hu[p]
      BY <3>1, <3>3, <3>4, Zenon
    <3>8. NodeFits(u[p], p = r, hu[p], hu)
      BY <1>4, <3>1, <3>4, <3>5, <3>6, <3>7 DEF NodeFits
    <3>. QED  BY <2>4, <3>8
  <2>5. m \in 1..n \/ m = n + 1
    BY <1>1
  <2>. QED  BY <2>1, <2>2, <2>3, <2>4, <2>5, Zenon
<1>7. Levelled(u, n + 1, r, hu)
  BY <1>2, <1>6, Zenon DEF Levelled
<1>. QED  BY <1>7 DEF hu

-----------------------------------------------------------------------------
(* Where contains_node() and insert_nonfull() stop.                        *)
PlaceIn(s) ==
  LET notBelow == { i \in DOMAIN s : ~Less(s[i], bkey) }
  IN  IF notBelow = {} THEN Len(s) + 1 ELSE Min(notBelow)

AfterIn(s) ==
  LET notAbove == { i \in DOMAIN s : ~Less(bkey, s[i]) }
  IN  IF notAbove = {} THEN 1 ELSE Max(notAbove) + 1

(* contains_node() stops behind the keys below the value.                  *)
LEMMA PlaceInIs ==
  ASSUME NEW s \in Seq(BValues)
  PROVE  /\ PlaceIn(s) \in 1..(Len(s) + 1)
         /\ \A j \in 1..Len(s) : j < PlaceIn(s) => Less(s[j], bkey)
         /\ PlaceIn(s) <= Len(s) => ~Less(s[PlaceIn(s)], bkey)
<1> DEFINE N == { i \in DOMAIN s : ~Less(s[i], bkey) }
<1>1. Len(s) \in Nat /\ DOMAIN s = 1..Len(s)
  OBVIOUS
<1>2. N \in SUBSET Nat /\ N \subseteq 1..Len(s)
  BY <1>1
<1>3. \A j \in 1..Len(s) : j \notin N => Less(s[j], bkey)
  BY <1>1
<1>4. \A j \in N : ~Less(s[j], bkey)
  OBVIOUS
<1>5. PlaceIn(s) = IF N = {} THEN Len(s) + 1 ELSE Min(N)
  BY DEF PlaceIn
<1> HIDE DEF N
<1>6. CASE N = {}
  BY <1>1, <1>3, <1>5, <1>6
<1>7. CASE N # {}
  <2>1. Min(N) \in N /\ \A y \in N : Min(N) <= y
    BY <1>2, <1>7, LeastElement DEF Min
  <2>2. PICK x \in 1..Len(s) : x = Min(N)
    BY <1>2, <2>1
  <2>3. PlaceIn(s) = x /\ x \in N
    BY <1>5, <1>7, <2>1, <2>2, Zenon
  <2>4. ASSUME NEW j \in 1..Len(s), j < x PROVE Less(s[j], bkey)
    <3>1. x <= j => FALSE
      BY <1>1, <2>4
    <3>2. j \notin N
      BY <2>1, <2>2, <3>1, Zenon
    <3>. QED  BY <1>3, <3>2, Zenon
  <2>5. x \in 1..(Len(s) + 1)
    BY <1>1
  <2>. QED  BY <1>4, <2>3, <2>4, <2>5, Zenon
<1>. QED  BY <1>6, <1>7

(* insert_nonfull() stops before the keys above it.                        *)
LEMMA AfterInIs ==
  ASSUME NEW s \in Seq(BValues)
  PROVE  /\ AfterIn(s) \in 1..(Len(s) + 1)
         /\ \A j \in 1..Len(s) : AfterIn(s) <= j => Less(bkey, s[j])
         /\ 1 < AfterIn(s) => ~Less(bkey, s[AfterIn(s) - 1])
<1> DEFINE N == { i \in DOMAIN s : ~Less(bkey, s[i]) }
<1>1. Len(s) \in Nat /\ DOMAIN s = 1..Len(s)
  OBVIOUS
<1>2. N \in SUBSET (0..Len(s)) /\ N \subseteq 1..Len(s)
  BY <1>1
<1>3. \A j \in 1..Len(s) : j \notin N => Less(bkey, s[j])
  BY <1>1
<1>4. \A j \in N : ~Less(bkey, s[j])
  OBVIOUS
<1>5. AfterIn(s) = IF N = {} THEN 1 ELSE Max(N) + 1
  BY DEF AfterIn
<1> HIDE DEF N
<1>6. CASE N = {}
  BY <1>1, <1>3, <1>5, <1>6
<1>7. CASE N # {}
  <2>1. Max(N) \in N /\ \A y \in N : y <= Max(N)
    BY <1>1, <1>2, <1>7, GreatestElement
  <2>2. AfterIn(s) = Max(N) + 1 /\ Max(N) \in 1..Len(s)
    BY <1>2, <1>5, <1>7, <2>1
  <2>3. \A j \in 1..Len(s) : AfterIn(s) <= j => j \notin N
    BY <1>1, <2>1, <2>2
  <2>4. AfterIn(s) - 1 = Max(N)
    BY <1>1, <2>2
  <2>. QED  BY <1>1, <1>3, <1>4, <2>1, <2>2, <2>3, <2>4
<1>. QED  BY <1>6, <1>7

(* Both look at the keys only.                                             *)
LEMMA PlaceOf ==
  /\ \A m : Place(m) = PlaceIn(bnodes[m].keys)
  /\ \A h, m : After(h, m) = AfterIn(h[m].keys)
BY DEF Place, PlaceIn, After, AfterIn

-----------------------------------------------------------------------------
Counted(ht) == bdoing = "height" /\ broot # 0 => levels + ht[bat] = ht[broot] + 1

(* The inductive invariant of Filling.                                     *)
Fit ==
  /\ BTypeOK
  /\ broot = 0 => bnodes = << >>
  /\ broot # 0 => Len(bnodes[broot].keys) # 0
  /\ bdoing \in {"insert", "contains", "place"} => bkey \in BValues
  /\ broot # 0 /\ bdoing # "none" => bat \in BIds
  /\ bdoing = "place" => broot # 0 /\ ~Full(bnodes, bat)
  /\ \E ht : Levelled(bnodes, Len(bnodes), broot, ht) /\ Counted(ht)

(* The nodes of a state.                                                   *)
LEMMA NodesTyped ==
  ASSUME BTypeOK
  PROVE  /\ bnodes \in Seq(BNodeOf(Len(bnodes))) /\ BTyped(bnodes, Len(bnodes)) /\ Len(bnodes) \in Nat
         /\ broot \in 0..Len(bnodes) /\ BIds = 1..Len(bnodes)
<1>1. bnodes \in Seq(BNodeOf(Len(bnodes)))
  BY DEF BTypeOK, BNodeType, BNodeOf, BIds
<1>2. Len(bnodes) \in Nat /\ bnodes \in [1..Len(bnodes) -> BNodeOf(Len(bnodes))]
  BY <1>1, LenProperties
<1>. QED  BY <1>1, <1>2 DEF BTyped, BTypeOK, BIds

Doings == {"none", "insert", "contains", "place", "min", "max", "height"}

(* A step that makes and changes no node.                                  *)
LEMMA KeptFit ==
  ASSUME Fit, UNCHANGED <<bnodes, broot, bcount>>, levels' \in Nat, bdoing' \in Doings,
         bkey' \in BValues \union {None}, bresult' \in BValues \union {None, 0, 1} \union Nat,
         bat' \in 0..Len(bnodes),
         bdoing' \in {"insert", "contains", "place"} => bkey' \in BValues,
         broot # 0 /\ bdoing' # "none" => bat' \in BIds,
         bdoing' = "place" => broot # 0 /\ ~Full(bnodes, bat'),
         NEW ht, Levelled(bnodes, Len(bnodes), broot, ht), Counted(ht)'
  PROVE  Fit'
<1>1. BTypeOK'
  BY DEF Fit, BTypeOK, BNodeType, BIds, Doings
<1>2. \E hu : Levelled(bnodes, Len(bnodes), broot, hu)' /\ Counted(hu)'
  <2>1. Levelled(bnodes, Len(bnodes), broot, ht)'
    <3>1. Levelled(bnodes', Len(bnodes'), broot', ht)
      BY Zenon
    <3>. QED  BY <3>1 DEF Levelled, NodeFits, MaxKeys, T
  <2>. QED  BY <2>1
<1>. QED  BY <1>1, <1>2 DEF Fit, BIds, Full, MaxKeys, T

(* A step that does.                                                       *)
LEMMA ChangedFit ==
  ASSUME NEW n, NEW u, u \in Seq(BNodeOf(n)), Len(u) = n, BTyped(u, n), bnodes' = u,
         broot' \in 1..n, Len(u[broot'].keys) # 0,
         NEW ht, Levelled(u, n, broot', ht),
         bcount' \in Nat, levels' \in Nat, bdoing' \in {"none", "place"}, bat' \in 0..n,
         bkey' \in BValues \union {None}, bresult' \in BValues \union {None, 0, 1} \union Nat,
         bdoing' = "place" => bkey' \in BValues /\ bat' \in 1..n /\ ~Full(u, bat')
  PROVE  Fit'
<1>1. BTypeOK'
  <2>1. bnodes' \in Seq(BNodeType')
    BY DEF BNodeType, BNodeOf, BIds
  <2>. QED  BY <2>1 DEF BTypeOK, BTyped
<1>2. Levelled(bnodes, Len(bnodes), broot, ht)' /\ Counted(ht)'
  <2>1. Levelled(bnodes', Len(bnodes'), broot', ht)
    BY Zenon
  <2>2. Counted(ht)'
    BY DEF Counted
  <2>. QED  BY <2>1, <2>2 DEF Levelled, NodeFits, MaxKeys, T
<1>3. n \in Nat
  BY DEF BTyped
<1>. QED  BY <1>1, <1>2, <1>3 DEF Fit, BIds, Full, MaxKeys, T

(* What is known of one of them.                                           *)
LEMMA FitNode ==
  ASSUME Fit, NEW ht, Levelled(bnodes, Len(bnodes), broot, ht), NEW m \in BIds
  PROVE  /\ NodeFits(bnodes[m], m = broot, ht[m], ht) /\ ht[m] \in Nat
         /\ bnodes[m].keys \in Seq(BValues) /\ Len(bnodes[m].keys) \in Nat /\ bnodes[m].leaf \in BOOLEAN
         /\ Len(bnodes[m].keys) # 0
         /\ \A j \in 1..Len(bnodes[m].keys) : bnodes[m].keys[j] \in BValues
         /\ Len(bnodes[m].children) \in Nat
         /\ \A j \in 1..Len(bnodes[m].children) : /\ bnodes[m].children[j] \in BIds
                                                  /\ ht[bnodes[m].children[j]] + 1 = ht[m]
         /\ bnodes[m].leaf <=> ht[m] = 0
         /\ ~bnodes[m].leaf => Len(bnodes[m].children) = Len(bnodes[m].keys) + 1
<1>1. BTyped(bnodes, Len(bnodes)) /\ BIds = 1..Len(bnodes)
  BY NodesTyped DEF Fit
<1>2. /\ bnodes[m].keys \in Seq(BValues) /\ Len(bnodes[m].keys) \in Nat /\ bnodes[m].leaf \in BOOLEAN
      /\ \A j \in 1..Len(bnodes[m].keys) : bnodes[m].keys[j] \in BValues
      /\ Len(bnodes[m].children) \in Nat
      /\ \A j \in 1..Len(bnodes[m].children) : bnodes[m].children[j] \in BIds
  BY <1>1, BNodeParts
<1>3. NodeFits(bnodes[m], m = broot, ht[m], ht) /\ ht[m] \in Nat
  BY <1>1 DEF Levelled
<1>4. Len(bnodes[m].keys) # 0
  <2>1. CASE m = broot
    <3>1. broot # 0
      BY <1>1, <2>1, NodesTyped
    <3>. QED  BY <2>1, <3>1 DEF Fit
  <2>2. CASE m # broot
    <3>1. T - 1 <= Len(bnodes[m].keys)
      BY <1>3, <2>2, Zenon DEF NodeFits
    <3>. QED  BY <1>2, <3>1, Degree
  <2>. QED  BY <2>1, <2>2
<1>5. /\ \A j \in 1..Len(bnodes[m].children) : ht[bnodes[m].children[j]] + 1 = ht[m]
      /\ bnodes[m].leaf <=> ht[m] = 0
      /\ ~bnodes[m].leaf => Len(bnodes[m].children) = Len(bnodes[m].keys) + 1
  BY <1>3, Zenon DEF NodeFits
<1>. QED  BY <1>2, <1>3, <1>4, <1>5, Zenon

(* The rest of a state.                                                    *)
LEMMA FitPosition ==
  ASSUME Fit
  PROVE  /\ bdoing \in Doings /\ levels \in Nat /\ bcount \in Nat
         /\ bkey \in BValues \union {None} /\ bat \in 0..Len(bnodes)
         /\ broot \in 0..Len(bnodes) /\ Len(bnodes) \in Nat
         /\ bresult \in BValues \union {None, 0, 1} \union Nat
         /\ broot # 0 => broot \in BIds
BY NodesTyped DEF Fit, BTypeOK, Doings, BIds

(* insert() and contains() begin at the root.                              *)
LEMMA BBeginFit ==
  ASSUME Fit, NEW what \in {"insert", "contains"}, NEW v \in BValues, BBegin(what, v)
  PROVE  Fit'
<1>1. PICK ht : Levelled(bnodes, Len(bnodes), broot, ht) /\ Counted(ht)
  BY DEF Fit
<1>2. /\ UNCHANGED <<bnodes, broot, bcount>> /\ levels' \in Nat /\ bresult' = bresult
      /\ bdoing' = what /\ bkey' = v /\ bat' = broot
  BY FitPosition DEF BBegin
<1>3. Counted(ht)'
  BY <1>2 DEF Counted
<1>. QED  BY <1>1, <1>2, <1>3, FitPosition, KeptFit DEF Doings

(* So do min(), max() and height().                                        *)
LEMMA BWalkFromFit ==
  ASSUME Fit, NEW what \in {"min", "max", "height"}, BWalkFrom(what)
  PROVE  Fit'
<1>1. PICK ht : Levelled(bnodes, Len(bnodes), broot, ht) /\ Counted(ht)
  BY DEF Fit
<1>2. /\ UNCHANGED <<bnodes, broot, bcount>> /\ levels' = 1 /\ bresult' = bresult
      /\ bdoing' = what /\ bkey' = bkey /\ bat' = broot
  BY DEF BWalkFrom
<1>3. Counted(ht)'
  <2>1. broot # 0 => ht[broot] \in Nat
    BY <1>1, FitNode, FitPosition
  <2>. QED  BY <1>2, <2>1 DEF Counted
<1>. QED  BY <1>1, <1>2, <1>3, FitPosition, KeptFit DEF Doings

(* An operation that ends without a change.                                *)
LEMMA EndFit ==
  ASSUME Fit, UNCHANGED <<bnodes, broot, bcount>>, NEW r \in BValues \union {None, 0, 1} \union Nat, BEnd(r)
  PROVE  Fit'
<1>1. PICK ht : Levelled(bnodes, Len(bnodes), broot, ht) /\ Counted(ht)
  BY DEF Fit
<1>2. /\ bdoing' = "none" /\ bkey' = None /\ bat' = 0 /\ levels' = 0 /\ bresult' = r
  BY DEF BEnd
<1>3. Counted(ht)'
  BY <1>2 DEF Counted
<1>. QED  BY <1>1, <1>2, <1>3, FitPosition, KeptFit DEF Doings

(* A search goes to a child.                                               *)
LEMMA BDescendFit ==
  ASSUME Fit, BDescend
  PROVE  Fit'
<1>1. PICK ht : Levelled(bnodes, Len(bnodes), broot, ht) /\ Counted(ht)
  BY DEF Fit
<1>2. /\ UNCHANGED <<bnodes, broot, bcount, bdoing, bkey, levels, bresult>>
      /\ bdoing \in {"insert", "contains"} /\ broot # 0 /\ ~bnodes[bat].leaf
      /\ bat' = bnodes[bat].children[Place(bat)]
  BY DEF BDescend, BSearching
<1>3. bat \in BIds
  BY <1>2 DEF Fit
<1>4. bat' \in BIds
  <2>1. Place(bat) \in 1..(Len(bnodes[bat].keys) + 1)
    BY <1>1, <1>3, FitNode, PlaceInIs, PlaceOf
  <2>. QED  BY <1>1, <1>2, <1>3, <2>1, FitNode
<1>5. bat' \in 0..Len(bnodes)
  BY <1>4, FitPosition DEF BIds
<1>6. Counted(ht)'
  BY <1>2 DEF Counted
<1>7. bkey' \in BValues
  BY <1>2 DEF Fit
<1>. QED  BY <1>1, <1>2, <1>4, <1>5, <1>6, <1>7, FitPosition, KeptFit DEF Doings

(* A walk goes down a level, and counts it.                                *)
LEMMA BWalkFit ==
  ASSUME Fit, BWalk
  PROVE  Fit'
<1>1. PICK ht : Levelled(bnodes, Len(bnodes), broot, ht) /\ Counted(ht)
  BY DEF Fit
<1>2. /\ UNCHANGED <<bnodes, broot, bcount, bdoing, bkey, bresult>>
      /\ bdoing \in {"min", "max", "height"} /\ broot # 0 /\ ~bnodes[bat].leaf
      /\ levels' = levels + 1
      /\ bat' = IF bdoing = "max" THEN Last(bnodes[bat].children) ELSE Head(bnodes[bat].children)
  BY DEF BWalk, BWalking
<1>3. bat \in BIds
  BY <1>2 DEF Fit
<1>4. bat' \in BIds /\ ht[bat'] + 1 = ht[bat]
  <2>1. PICK k \in 1..Len(bnodes[bat].children) : bat' = bnodes[bat].children[k]
    <3>1. Len(bnodes[bat].children) \in Nat /\ Len(bnodes[bat].children) # 0
      BY <1>1, <1>2, <1>3, FitNode
    <3>2. Head(bnodes[bat].children) = bnodes[bat].children[1]
      BY <1>1, <1>3, <3>1, FitNode, NodesTyped, BNodeParts DEF Fit
    <3>. QED  BY <1>2, <3>1, <3>2 DEF Last
  <2>. QED  BY <1>1, <1>3, <2>1, FitNode
<1>5. bat' \in 0..Len(bnodes)
  BY <1>4, FitPosition DEF BIds
<1>6. Counted(ht)'
  <2>1. ht[bat'] \in Nat /\ ht[bat] \in Nat /\ ht[broot] \in Nat /\ levels \in Nat
    BY <1>1, <1>2, <1>3, <1>4, FitNode, FitPosition
  <2>2. bdoing = "height" => levels + ht[bat] = ht[broot] + 1
    BY <1>1, <1>2 DEF Counted
  <2>3. bdoing = "height" => levels + 1 + ht[bat'] = ht[broot] + 1
    BY <1>4, <2>1, <2>2
  <2>. QED  BY <1>2, <2>3 DEF Counted
<1>. QED  BY <1>1, <1>2, <1>4, <1>5, <1>6, FitPosition, KeptFit DEF Doings

(* A walk ends with a key of a leaf, or with the levels.                   *)
LEMMA BArriveFit ==
  ASSUME Fit, BArrive
  PROVE  Fit'
<1>1. PICK ht : Levelled(bnodes, Len(bnodes), broot, ht) /\ Counted(ht)
  BY DEF Fit
<1>2. /\ bat \in BIds /\ bdoing \in {"min", "max", "height"} /\ UNCHANGED <<bnodes, broot, bcount>>
      /\ BEnd(CASE bdoing = "min" -> Head(bnodes[bat].keys)
                [] bdoing = "max" -> Last(bnodes[bat].keys)
                [] bdoing = "height" -> levels)
  BY DEF Fit, BArrive, BWalking
<1>3. /\ Len(bnodes[bat].keys) \in Nat /\ Len(bnodes[bat].keys) # 0 /\ bnodes[bat].keys \in Seq(BValues)
      /\ \A j \in 1..Len(bnodes[bat].keys) : bnodes[bat].keys[j] \in BValues
  BY <1>1, <1>2, FitNode
<1>4. Head(bnodes[bat].keys) \in BValues /\ Last(bnodes[bat].keys) \in BValues
  BY <1>3 DEF Last
<1>5. levels \in Nat
  BY FitPosition
<1>6. CASE bdoing = "min"
  BY <1>2, <1>4, <1>6, EndFit
<1>7. CASE bdoing = "max"
  BY <1>2, <1>4, <1>7, EndFit
<1>8. CASE bdoing = "height"
  BY <1>2, <1>5, <1>8, EndFit
<1>. QED  BY <1>2, <1>6, <1>7, <1>8

-----------------------------------------------------------------------------
(* The steps that make or change nodes.                                    *)
LEMMA BInsertFirstFit ==
  ASSUME Fit, BInsertFirst
  PROVE  Fit'
<1>1. /\ bkey \in BValues /\ bdoing' = "none" /\ bkey' = None /\ bat' = 0 /\ levels' = 0 /\ bresult' = bkey
      /\ broot' = 1 /\ bcount' = 1
  BY DEF Fit, BInsertFirst, BEnd
<1>2. PICK u : u = <<[keys |-> <<bkey>>, children |-> << >>, leaf |-> TRUE]>>
  OBVIOUS
<1>3. bnodes' = u
  BY <1>2 DEF BInsertFirst
<1>4. [keys |-> <<bkey>>, children |-> << >>, leaf |-> TRUE] \in BNodeOf(1)
  BY <1>1 DEF BNodeOf
<1>5. u \in Seq(BNodeOf(1)) /\ Len(u) = 1 /\ u[1] = [keys |-> <<bkey>>, children |-> << >>, leaf |-> TRUE]
  BY <1>2, <1>4
<1>6. BTyped(u, 1)
  BY <1>5, LenProperties DEF BTyped
<1>7. u[1].keys = <<bkey>> /\ u[1].children = << >> /\ u[1].leaf = TRUE
  BY <1>5
<1>8. PICK ht : ht = [m \in 1..1 |-> 0]
  OBVIOUS
<1>9. Levelled(u, 1, 1, ht)
  <2>1. ht \in [1..1 -> Nat] /\ ht[1] = 0
    BY <1>8
  <2>2. NodeFits(u[1], 1 = 1, ht[1], ht)
    BY <1>7, <2>1, Degree DEF NodeFits
  <2>. QED  BY <2>1, <2>2 DEF Levelled
<1>10. Len(u[1].keys) # 0
  BY <1>7
<1>11. /\ broot' \in 1..1 /\ Len(u[broot'].keys) # 0 /\ Levelled(u, 1, broot', ht)
       /\ bcount' \in Nat /\ levels' \in Nat /\ bdoing' \in {"none", "place"} /\ bat' \in 0..1
       /\ bkey' \in BValues \union {None} /\ bresult' \in BValues \union {None, 0, 1} \union Nat
       /\ bdoing' # "place"
  BY <1>1, <1>9, <1>10
<1>. QED  BY <1>3, <1>5, <1>6, <1>11, ChangedFit, Zenon

(* A full child of the node that is reached is split.                      *)
SplitTo(h, n, r, ht, p, i, c, u) ==
  /\ c \in 1..n /\ c # p /\ Len(h[c].keys) = MaxKeys
  /\ Len(h[p].children) = Len(h[p].keys) + 1 /\ ~h[p].leaf
  /\ BTyped(u, n + 1) /\ Len(u) = n + 1 /\ u \in Seq(BNodeOf(n + 1))
  /\ Halved(h, u, n, p, i, c)
  /\ Levelled(u, n + 1, r, Deeper(n, ht, ht[c]))
  /\ ~Full(u, c) /\ ~Full(u, n + 1)
  /\ u[p].children[i] = c /\ u[p].children[i + 1] = n + 1 /\ Len(u[p].keys) # 0

(* After a split, neither half is full.                                    *)
LEMMA SplitNodes ==
  ASSUME NEW h, NEW n, BTyped(h, n), NEW r \in 1..n, NEW ht, Levelled(h, n, r, ht),
         NEW p \in 1..n, NEW i \in 1..Len(h[p].children),
         Len(h[p].keys) < MaxKeys, Full(h, h[p].children[i])
  PROVE  SplitTo(h, n, r, ht, p, i, h[p].children[i], Split(h, p, i))
<1>0. PICK u, c : u = Split(h, p, i) /\ c = h[p].children[i]
  OBVIOUS
<1>1. n \in Nat /\ c \in 1..n /\ Len(h[c].keys) = MaxKeys /\ Len(h[p].keys) \in Nat /\ Len(h[p].children) \in Nat
  BY <1>0, BNodeParts DEF BTyped, Full
<1>2. NodeFits(h[c], c = r, ht[c], ht) /\ NodeFits(h[p], p = r, ht[p], ht) /\ ht \in [1..n -> Nat]
  BY <1>1 DEF Levelled
<1>3. ht[c] + 1 = ht[p] /\ ht[c] \in Nat /\ ht[p] \in Nat /\ ~h[p].leaf
  <2>1. ht[c] + 1 = ht[p]
    BY <1>0, <1>2, Zenon DEF NodeFits
  <2>2. ht[c] \in Nat /\ ht[p] \in Nat
    BY <1>1, <1>2
  <2>. QED  BY <1>2, <2>1, <2>2 DEF NodeFits
<1>4. c # p
  BY <1>3
<1>5. Len(h[p].children) = Len(h[p].keys) + 1
  BY <1>2, <1>3, Zenon DEF NodeFits
<1>6. ~h[c].leaf => Len(h[c].children) = 2 * T
  <2>1. ~h[c].leaf => Len(h[c].children) = MaxKeys + 1
    BY <1>1, <1>2 DEF NodeFits
  <2>. QED  BY <2>1, Degree
<1>7. BTyped(u, n + 1) /\ Len(u) = n + 1 /\ u \in Seq(BNodeOf(n + 1)) /\ Halved(h, u, n, p, i, c)
  BY <1>0, <1>1, <1>4, <1>5, <1>6, SplitEffect, Zenon
<1>8. Levelled(u, n + 1, r, Deeper(n, ht, ht[c]))
  BY <1>0, <1>1, <1>7, SplitLevelled, Zenon
<1>9. LowerHalf(h[c], u[c]) /\ UpperHalf(h[c], u[n + 1]) /\ Inserted(h[p].keys, i, h[c].keys[T], u[p].keys)
      /\ Inserted(h[p].children, i + 1, n + 1, u[p].children)
  BY <1>7 DEF Halved
<1>10. ~Full(u, c) /\ ~Full(u, n + 1)
  <2>1. T - 1 # MaxKeys
    BY Degree
  <2>. QED  BY <1>9, <2>1, Zenon DEF LowerHalf, UpperHalf, Full
<1>11. u[p].children[i] = c /\ u[p].children[i + 1] = n + 1
  <2>1. i \in 1..(Len(h[p].children) + 1) /\ i < i + 1
    BY <1>1
  <2>. QED  BY <1>0, <1>9, <2>1, Zenon DEF Inserted
<1>12. Len(u[p].keys) # 0
  BY <1>1, <1>9, SMTT(40) DEF Inserted
<1>13. SplitTo(h, n, r, ht, p, i, c, u)
  BY <1>1, <1>3, <1>4, <1>5, <1>7, <1>8, <1>10, <1>11, <1>12, Zenon DEF SplitTo
<1>. QED  BY <1>0, <1>13, Zenon

(* A new root over a full one.                                             *)
NewTop(r) == [keys |-> << >>, children |-> <<r>>, leaf |-> FALSE]

GrownTo(h, n, r, ht, g) ==
  /\ BTyped(g, n + 1) /\ OneMore(h, n, NewTop(r), g) /\ Levelled(g, n + 1, n + 1, Deeper(n, ht, ht[r] + 1))
  /\ Full(g, r) /\ n + 1 \in 1..(n + 1)
  /\ Len(g[n + 1].keys) = 0 /\ Len(g[n + 1].children) = 1 /\ g[n + 1].children[1] = r

(* The new root, before it is split, is the only node without a key.       *)
LEMMA NewRoot ==
  ASSUME NEW h, NEW n, BTyped(h, n), NEW r \in 1..n, NEW ht, Levelled(h, n, r, ht), Full(h, r)
  PROVE  GrownTo(h, n, r, ht, Append(h, NewTop(r)))
<1>0. PICK g : g = Append(h, NewTop(r))
  OBVIOUS
<1>1. n \in Nat /\ h \in [1..n -> BNodeOf(n)] /\ ht \in [1..n -> Nat] /\ ht[r] \in Nat /\ n + 1 \in 1..(n + 1)
  BY DEF BTyped, Levelled
<1>2. \A m \in 1..n : h[m] \in BNodeOf(n + 1)
  BY <1>1, NodeGrows
<1>3. h \in [1..n -> BNodeOf(n + 1)]
  BY <1>1, <1>2
<1>4. /\ NewTop(r) \in BNodeOf(n + 1) /\ NewTop(r).keys = << >> /\ NewTop(r).children = <<r>>
      /\ NewTop(r).leaf = FALSE
  <2>1. r \in 1..(n + 1)
    BY <1>1
  <2>2. << >> \in Seq(BValues) /\ <<r>> \in Seq(1..(n + 1))
    BY <2>1
  <2>. QED  BY <2>2 DEF BNodeOf, NewTop
<1>5. g \in [1..(n + 1) -> BNodeOf(n + 1)] /\ OneMore(h, n, NewTop(r), g)
  BY <1>0, <1>1, <1>3, <1>4, NodesAndOne, Zenon
<1>6. g[n + 1] = NewTop(r) /\ \A m \in 1..n : g[m] = h[m]
  BY <1>5 DEF OneMore
<1>7. PICK hu : hu = Deeper(n, ht, ht[r] + 1)
  OBVIOUS
<1>8. hu \in [1..(n + 1) -> Nat] /\ hu[n + 1] = ht[r] + 1 /\ \A m \in 1..n : hu[m] = ht[m]
  BY <1>1, <1>7 DEF Deeper
<1>9. ASSUME NEW m \in 1..(n + 1) PROVE NodeFits(g[m], m = n + 1, hu[m], hu)
  <2>1. CASE m \in 1..n
    <3>1. g[m] = h[m] /\ hu[m] = ht[m] /\ NodeFits(h[m], m = r, ht[m], ht) /\ m # n + 1
      BY <1>1, <1>6, <1>8, <2>1 DEF Levelled
    <3>2. \A j \in 1..Len(h[m].children) : hu[h[m].children[j]] = ht[h[m].children[j]]
      BY <1>8, <2>1, BNodeParts
    <3>3. m = r => T - 1 <= Len(h[m].keys)
      BY Degree DEF Full
    <3>. QED  BY <3>1, <3>2, <3>3 DEF NodeFits
  <2>2. CASE m = n + 1
    <3>1. g[m].keys = << >> /\ g[m].children = <<r>> /\ g[m].leaf = FALSE /\ hu[m] = ht[r] + 1 /\ hu[r] = ht[r]
      BY <1>4, <1>6, <1>8, <2>2
    <3>2. hu[m] # 0
      BY <1>1, <3>1
    <3>. QED  BY <1>1, <2>2, <3>1, <3>2, Degree DEF NodeFits
  <2>. QED  BY <1>1, <2>1, <2>2
<1>10. Levelled(g, n + 1, n + 1, hu)
  BY <1>8, <1>9, Zenon DEF Levelled
<1>11. /\ Full(g, r) /\ Len(g[n + 1].keys) = 0 /\ Len(g[n + 1].children) = 1 /\ g[n + 1].children[1] = r
  <2>1. g[n + 1].keys = << >> /\ g[n + 1].children = <<r>> /\ g[r] = h[r]
    BY <1>4, <1>6, Zenon
  <2>2. Full(g, r)
    BY <2>1 DEF Full
  <2>. QED  BY <2>1, <2>2
<1>12. GrownTo(h, n, r, ht, g)
  BY <1>1, <1>5, <1>7, <1>10, <1>11 DEF BTyped, GrownTo
<1>. QED  BY <1>0, <1>12, Zenon

(* A value put in a leaf that is not full.                                 *)
KeyPut(h, n, r, ht, a, i, v, u) ==
  /\ BTyped(u, n) /\ u \in Seq(BNodeOf(n)) /\ Len(u) = n /\ Levelled(u, n, r, ht)
  /\ Inserted(h[a].keys, i, v, u[a].keys) /\ u[a].leaf /\ u[a].children = h[a].children
  /\ \A m \in 1..n : m # a => u[m] = h[m]

(* It keeps its children and every other node.                             *)
LEMMA KeyAdded ==
  ASSUME NEW h, NEW n, BTyped(h, n), NEW r, NEW ht, Levelled(h, n, r, ht),
         NEW a \in 1..n, h[a].leaf, ~Full(h, a), NEW i \in 1..(Len(h[a].keys) + 1), NEW v \in BValues
  PROVE  KeyPut(h, n, r, ht, a, i, v, [h EXCEPT ![a].keys = InsertAt(@, i, v)])
<1>0. PICK u : u = [h EXCEPT ![a].keys = InsertAt(@, i, v)]
  OBVIOUS
<1>1. /\ n \in Nat /\ h \in [1..n -> BNodeOf(n)] /\ h[a] \in BNodeOf(n) /\ h[a].keys \in Seq(BValues)
      /\ Len(h[a].keys) \in Nat
  BY BNodeParts DEF BTyped
<1>2. PICK keys : keys = InsertAt(h[a].keys, i, v)
  OBVIOUS
<1>3. keys \in Seq(BValues) /\ Inserted(h[a].keys, i, v, keys)
  BY <1>1, <1>2, InsertAtParts, Zenon
<1>4. u = [h EXCEPT ![a].keys = keys]
  BY <1>0, <1>2
<1>5. PICK x : x = [h[a] EXCEPT !.keys = keys]
  OBVIOUS
<1>6. x \in BNodeOf(n) /\ x.keys = keys /\ x.leaf = h[a].leaf /\ x.children = h[a].children
  BY <1>1, <1>3, <1>5 DEF BNodeOf
<1>7. u = [h EXCEPT ![a] = x]
  BY <1>4, <1>5
<1>8. u \in [1..n -> BNodeOf(n)] /\ u[a] = x /\ \A m \in 1..n : m # a => u[m] = h[m]
  BY <1>1, <1>6, <1>7
<1>9. u \in Seq(BNodeOf(n)) /\ Len(u) = n
  <2>1. u \in Seq(BNodeOf(n))
    BY <1>1, <1>8, SeqDef
  <2>2. DOMAIN u = 1..n
    BY <1>8
  <2>. QED  BY <1>1, <2>1, <2>2
<1>10. ht \in [1..n -> Nat] /\ \A m \in 1..n : NodeFits(h[m], m = r, ht[m], ht)
  BY DEF Levelled
<1>11. NodeFits(x, a = r, ht[a], ht)
  <2>1. Len(h[a].keys) <= MaxKeys /\ (a # r => T - 1 <= Len(h[a].keys)) /\ Len(keys) = Len(h[a].keys) + 1
    BY <1>3, <1>10, Zenon DEF NodeFits, Inserted
  <2>2. Len(keys) <= MaxKeys /\ (a # r => T - 1 <= Len(keys))
    BY <1>1, <2>1, Degree DEF Full
  <2>. QED  BY <1>6, <1>10, <2>2, ZenonT(40) DEF NodeFits
<1>12. Levelled(u, n, r, ht)
  BY <1>8, <1>10, <1>11, Zenon DEF Levelled
<1>13. KeyPut(h, n, r, ht, a, i, v, u)
  BY <1>1, <1>3, <1>6, <1>8, <1>9, <1>12, Zenon DEF BTyped, KeyPut
<1>. QED  BY <1>0, <1>13, Zenon

(* insert() splits a full root.                                            *)
LEMMA StartPlacingFit ==
  ASSUME Fit, StartPlacing
  PROVE  Fit'
<1>1. PICK ht : Levelled(bnodes, Len(bnodes), broot, ht) /\ Counted(ht)
  BY DEF Fit
<1>2. /\ broot # 0 /\ bkey \in BValues /\ bdoing' = "place" /\ UNCHANGED <<bcount, bkey, levels, bresult>>
  BY DEF Fit, StartPlacing
<1>3. PICK n : n = Len(bnodes)
  OBVIOUS
<1>4. n \in Nat /\ BTyped(bnodes, n) /\ broot \in 1..n /\ Levelled(bnodes, n, broot, ht)
  BY <1>1, <1>2, <1>3, NodesTyped, FitPosition DEF Fit
<1>5. CASE Full(bnodes, broot)
  <2>1. PICK g : g = Append(bnodes, NewTop(broot))
    OBVIOUS
  <2>2. /\ BTyped(g, n + 1) /\ Levelled(g, n + 1, n + 1, Deeper(n, ht, ht[broot] + 1))
        /\ Full(g, broot) /\ n + 1 \in 1..(n + 1)
        /\ Len(g[n + 1].keys) = 0 /\ Len(g[n + 1].children) = 1 /\ g[n + 1].children[1] = broot
    <3>1. GrownTo(bnodes, n, broot, ht, g)
      BY <1>4, <1>5, <2>1, NewRoot, Zenon
    <3>. QED  BY <3>1, Zenon DEF GrownTo
  <2>3. PICK u : u = Split(g, n + 1, 1)
    OBVIOUS
  <2>4. bnodes' = u /\ broot' = n + 1 /\ bat' = n + 1
    BY <1>3, <1>5, <2>1, <2>3 DEF StartPlacing, NewTop
  <2>5. 1 \in 1..Len(g[n + 1].children) /\ Len(g[n + 1].keys) < MaxKeys /\ Full(g, g[n + 1].children[1])
    BY <2>2, Degree
  <2>6. PICK hu : hu = Deeper(n + 1, Deeper(n, ht, ht[broot] + 1), Deeper(n, ht, ht[broot] + 1)[broot])
    OBVIOUS
  <2>7. /\ BTyped(u, n + 1 + 1) /\ Len(u) = n + 1 + 1 /\ u \in Seq(BNodeOf(n + 1 + 1))
        /\ Levelled(u, n + 1 + 1, n + 1, hu) /\ Len(u[n + 1].keys) # 0
        /\ Halved(g, u, n + 1, n + 1, 1, broot)
    <3>1. SplitTo(g, n + 1, n + 1, Deeper(n, ht, ht[broot] + 1), n + 1, 1, broot, u)
      BY <2>2, <2>3, <2>5, SplitNodes, Zenon
    <3>. QED  BY <2>6, <3>1, Zenon DEF SplitTo
  <2>8. ~Full(u, n + 1)
    <3>1. Inserted(g[n + 1].keys, 1, g[broot].keys[T], u[n + 1].keys)
      BY <2>7 DEF Halved
    <3>2. Len(u[n + 1].keys) = 1
      BY <2>2, <3>1 DEF Inserted
    <3>. QED  BY <3>2, Degree DEF Full
  <2>9. n + 1 \in 1..(n + 1 + 1) /\ n + 1 \in 0..(n + 1 + 1)
    BY <1>4
  <2>. QED  BY <1>2, <2>4, <2>7, <2>8, <2>9, FitPosition, ChangedFit
<1>6. CASE ~Full(bnodes, broot)
  <2>1. UNCHANGED <<bnodes, broot, bcount>> /\ bat' = broot
    BY <1>2, <1>6 DEF StartPlacing
  <2>2. Counted(ht)'
    BY <1>2 DEF Counted
  <2>. QED  BY <1>1, <1>2, <1>6, <2>1, <2>2, FitPosition, KeptFit DEF Doings
<1>. QED  BY <1>5, <1>6

(* insert_nonfull() splits a full child before it goes there.              *)
LEMMA PlaceDeeperFit ==
  ASSUME Fit, PlaceDeeper
  PROVE  Fit'
<1>1. PICK ht : Levelled(bnodes, Len(bnodes), broot, ht) /\ Counted(ht)
  BY DEF Fit
<1>2. /\ broot # 0 /\ bkey \in BValues /\ bdoing = "place" /\ bat \in BIds /\ ~Full(bnodes, bat) /\ ~bnodes[bat].leaf
      /\ UNCHANGED <<broot, bcount, bdoing, bkey, levels, bresult>>
  BY DEF Fit, PlaceDeeper
<1>3. PICK n : n = Len(bnodes)
  OBVIOUS
<1>4. n \in Nat /\ BTyped(bnodes, n) /\ broot \in 1..n /\ bat \in 1..n /\ Levelled(bnodes, n, broot, ht)
  BY <1>1, <1>2, <1>3, NodesTyped, FitPosition DEF Fit
<1>5. PICK i : i = After(bnodes, bat)
  OBVIOUS
<1>6. i \in 1..Len(bnodes[bat].children) /\ bnodes[bat].children[i] \in BIds
  <2>1. i \in 1..(Len(bnodes[bat].keys) + 1)
    BY <1>1, <1>2, <1>5, FitNode, AfterInIs, PlaceOf
  <2>. QED  BY <1>1, <1>2, <2>1, FitNode
<1>7. CASE Full(bnodes, bnodes[bat].children[i])
  <2>1. PICK u : u = Split(bnodes, bat, i)
    OBVIOUS
  <2>2. bnodes' = u /\ bat' = u[bat].children[IF Less(u[bat].keys[i], bkey) THEN i + 1 ELSE i]
    BY <1>5, <1>7, <2>1 DEF PlaceDeeper
  <2>3. PICK c : c = bnodes[bat].children[i]
    OBVIOUS
  <2>4. Len(bnodes[bat].keys) < MaxKeys
    <3>1. NodeFits(bnodes[bat], bat = broot, ht[bat], ht) /\ Len(bnodes[bat].keys) \in Nat
      BY <1>1, <1>2, FitNode
    <3>. QED  BY <1>2, <3>1, Degree DEF NodeFits, Full
  <2>5. /\ BTyped(u, n + 1) /\ Len(u) = n + 1 /\ u \in Seq(BNodeOf(n + 1))
        /\ Levelled(u, n + 1, broot, Deeper(n, ht, ht[c]))
        /\ ~Full(u, c) /\ ~Full(u, n + 1) /\ c \in 1..n
        /\ u[bat].children[i] = c /\ u[bat].children[i + 1] = n + 1 /\ Len(u[bat].keys) # 0
        /\ Halved(bnodes, u, n, bat, i, c)
    <3>1. SplitTo(bnodes, n, broot, ht, bat, i, c, u)
      BY <1>4, <1>6, <1>7, <2>1, <2>3, <2>4, SplitNodes, Zenon
    <3>. QED  BY <3>1, Zenon DEF SplitTo
  <2>6. bat' \in {c, n + 1}
    BY <2>2, <2>5
  <2>7. bat' \in 1..(n + 1) /\ ~Full(u, bat') /\ broot' \in 1..(n + 1) /\ bat' \in 0..(n + 1)
    BY <1>2, <1>4, <2>5, <2>6
  <2>8. Len(u[broot].keys) # 0
    <3>1. CASE broot = bat
      BY <2>5, <3>1
    <3>2. CASE broot = c
      BY <2>5, <3>2, Degree DEF Halved, LowerHalf
    <3>3. CASE broot # bat /\ broot # c
      BY <1>2, <1>4, <2>5, <3>3 DEF Halved, Fit
    <3>. QED  BY <3>1, <3>2, <3>3
  <2>. QED  BY <1>2, <2>2, <2>5, <2>7, <2>8, FitPosition, ChangedFit
<1>8. CASE ~Full(bnodes, bnodes[bat].children[i])
  <2>1. UNCHANGED <<bnodes, broot, bcount>> /\ bat' = bnodes[bat].children[i]
    BY <1>2, <1>5, <1>8 DEF PlaceDeeper
  <2>2. Counted(ht)'
    BY <1>2 DEF Counted
  <2>3. bat' \in BIds /\ bat' \in 0..Len(bnodes)
    BY <1>6, <2>1, FitPosition DEF BIds
  <2>. QED  BY <1>1, <1>2, <1>8, <2>1, <2>2, <2>3, FitPosition, KeptFit DEF Doings
<1>. QED  BY <1>7, <1>8

(* At a leaf it puts the value in.                                         *)
LEMMA PlaceHereFit ==
  ASSUME Fit, PlaceHere
  PROVE  Fit'
<1>1. PICK ht : Levelled(bnodes, Len(bnodes), broot, ht) /\ Counted(ht)
  BY DEF Fit
<1>2. /\ broot # 0 /\ bkey \in BValues /\ bat \in BIds /\ ~Full(bnodes, bat) /\ bnodes[bat].leaf
      /\ broot' = broot /\ bcount' = bcount + 1
      /\ bdoing' = "none" /\ bkey' = None /\ bat' = 0 /\ levels' = 0 /\ bresult' = bkey
  BY DEF Fit, PlaceHere, BEnd
<1>3. PICK n : n = Len(bnodes)
  OBVIOUS
<1>4. n \in Nat /\ BTyped(bnodes, n) /\ broot \in 1..n /\ bat \in 1..n /\ Levelled(bnodes, n, broot, ht)
  BY <1>1, <1>2, <1>3, NodesTyped, FitPosition DEF Fit
<1>5. PICK i : i = After(bnodes, bat)
  OBVIOUS
<1>6. i \in 1..(Len(bnodes[bat].keys) + 1)
  BY <1>1, <1>2, <1>5, FitNode, AfterInIs, PlaceOf
<1>7. PICK u : u = [bnodes EXCEPT ![bat].keys = InsertAt(@, i, bkey)]
  OBVIOUS
<1>8. bnodes' = u
  BY <1>5, <1>7 DEF PlaceHere
<1>9. /\ BTyped(u, n) /\ u \in Seq(BNodeOf(n)) /\ Len(u) = n /\ Levelled(u, n, broot, ht)
      /\ Inserted(bnodes[bat].keys, i, bkey, u[bat].keys)
      /\ \A m \in 1..n : m # bat => u[m] = bnodes[m]
  <2>1. KeyPut(bnodes, n, broot, ht, bat, i, bkey, u)
    BY <1>2, <1>4, <1>6, <1>7, KeyAdded, Zenon
  <2>. QED  BY <2>1, Zenon DEF KeyPut
<1>10. Len(u[broot].keys) # 0
  <2>1. CASE broot = bat
    <3>1. Len(bnodes[bat].keys) \in Nat /\ Len(u[bat].keys) = Len(bnodes[bat].keys) + 1
      BY <1>1, <1>2, <1>9, FitNode DEF Inserted
    <3>. QED  BY <2>1, <3>1
  <2>2. CASE broot # bat
    BY <1>2, <1>4, <1>9, <2>2 DEF Fit
  <2>. QED  BY <2>1, <2>2
<1>11. /\ broot' \in 1..n /\ Len(u[broot'].keys) # 0 /\ Levelled(u, n, broot', ht)
       /\ bcount' \in Nat /\ levels' \in Nat /\ bdoing' \in {"none", "place"} /\ bat' \in 0..n
       /\ bkey' \in BValues \union {None} /\ bresult' \in BValues \union {None, 0, 1} \union Nat
       /\ bdoing' # "place"
  BY <1>2, <1>4, <1>9, <1>10, FitPosition
<1>. QED  BY <1>8, <1>9, <1>11, ChangedFit, Zenon

-----------------------------------------------------------------------------
(* The empty tree.                                                         *)
LEMMA FitInit == BInit => Fit
<1>1. SUFFICES ASSUME BInit PROVE Fit
  OBVIOUS
<1>2. /\ bnodes = << >> /\ broot = 0 /\ bcount = 0 /\ bdoing = "none" /\ bkey = None
      /\ bat = 0 /\ levels = 0 /\ bresult = None /\ Len(bnodes) = 0
  BY <1>1 DEF BInit
<1>3. BTypeOK
  BY <1>2 DEF BTypeOK
<1>4. Levelled(bnodes, Len(bnodes), broot, << >>) /\ Counted(<< >>)
  <2>1. << >> \in [1..0 -> Nat]
    OBVIOUS
  <2>. QED  BY <1>2, <2>1 DEF Levelled, Counted
<1>. QED  BY <1>2, <1>3, <1>4 DEF Fit

(* Every step keeps the invariant.                                         *)
LEMMA FitStep == Fit /\ [BNext]_bvars => Fit'
<1>1. SUFFICES ASSUME Fit, [BNext]_bvars PROVE Fit'
  OBVIOUS
<1>3. CASE UNCHANGED bvars
  <2>1. PICK ht : Levelled(bnodes, Len(bnodes), broot, ht) /\ Counted(ht)
    BY <1>1 DEF Fit
  <2>2. UNCHANGED <<bnodes, broot, bcount, bdoing, bkey, bat, levels, bresult>>
    BY <1>3 DEF bvars
  <2>3. Counted(ht)'
    BY <2>1, <2>2 DEF Counted
  <2>4. /\ bdoing \in {"insert", "contains", "place"} => bkey \in BValues
        /\ broot # 0 /\ bdoing # "none" => bat \in BIds
        /\ bdoing = "place" => broot # 0 /\ ~Full(bnodes, bat)
    BY <1>1 DEF Fit
  <2>. QED  BY <1>1, <2>1, <2>2, <2>3, <2>4, FitPosition, KeptFit
<1>4. CASE \E v \in BValues : BBegin("insert", v)
  BY <1>1, <1>4, BBeginFit
<1>5. CASE \E v \in BLooked : BBegin("contains", v)
  BY <1>1, <1>5, BBeginFit, BUseAssumption
<1>6. CASE \E what \in BAsked : BWalkFrom(what)
  BY <1>1, <1>6, BWalkFromFit, BUseAssumption
<1>7. CASE BInsertFirst
  BY <1>1, <1>7, BInsertFirstFit
<1>8. CASE ContainsEmpty
  BY <1>1, <1>8, EndFit DEF ContainsEmpty
<1>9. CASE BFound
  <2>1. bdoing = "insert" => bkey \in BValues
    BY <1>1 DEF Fit
  <2>2. PICK r \in BValues \union {None, 0, 1} \union Nat : BEnd(r)
    BY <1>9, <2>1 DEF BFound
  <2>. QED  BY <1>1, <1>9, <2>2, EndFit DEF BFound
<1>10. CASE BDescend
  BY <1>1, <1>10, BDescendFit
<1>11. CASE BNotFound
  BY <1>1, <1>11, EndFit DEF BNotFound
<1>12. CASE StartPlacing
  BY <1>1, <1>12, StartPlacingFit
<1>13. CASE PlaceDeeper
  BY <1>1, <1>13, PlaceDeeperFit
<1>14. CASE PlaceHere
  BY <1>1, <1>14, PlaceHereFit
<1>15. CASE BWalkEmpty
  BY <1>1, <1>15, EndFit DEF BWalkEmpty
<1>16. CASE BWalk
  BY <1>1, <1>16, BWalkFit
<1>17. CASE BArrive
  BY <1>1, <1>17, BArriveFit
<1>. QED  BY <1>1, <1>3, <1>4, <1>5, <1>6, <1>7, <1>8, <1>9, <1>10, <1>11, <1>12, <1>13, <1>14, <1>15,
             <1>16, <1>17 DEF BNext, BSteps

(* The nodes are levelled at every step of every operation.                *)
THEOREM FitInvariant == BSpec => []Fit
BY FitInit, FitStep, PTL DEF BSpec

(* Then they are filled as they should be.                                 *)
LEMMA FitIsFilling == Fit => Filling
<1>1. SUFFICES ASSUME Fit PROVE Filling
  OBVIOUS
<1>2. PICK ht : Levelled(bnodes, Len(bnodes), broot, ht)
  BY <1>1 DEF Fit
<1>3. ASSUME NEW n \in BIds
      PROVE  /\ Len(bnodes[n].keys) <= MaxKeys
             /\ n # broot => Len(bnodes[n].keys) >= T - 1
             /\ ~bnodes[n].leaf => Len(bnodes[n].children) = Len(bnodes[n].keys) + 1
  <2>1. /\ NodeFits(bnodes[n], n = broot, ht[n], ht) /\ Len(bnodes[n].keys) \in Nat
        /\ ~bnodes[n].leaf => Len(bnodes[n].children) = Len(bnodes[n].keys) + 1
    BY <1>1, <1>2, FitNode
  <2>2. Len(bnodes[n].keys) <= MaxKeys /\ (n # broot => T - 1 <= Len(bnodes[n].keys))
    BY <2>1, Zenon DEF NodeFits
  <2>. QED  BY <2>1, <2>2, Degree
<1>. QED  BY <1>1, <1>3 DEF Filling, Filled, Fit

(* The nodes are filled as they should be, at every step.                  *)
THEOREM AlwaysFilled == BSpec => []Filling
BY FitInvariant, FitIsFilling, PTL

-----------------------------------------------------------------------------
(* height() is the depth of every leaf.                                    *)
LEMMA LevelsAreLevel ==
  ASSUME Fit, NEW ht, Levelled(bnodes, Len(bnodes), broot, ht), NEW k \in 0..Len(bnodes), NEW m \in Level(k)
  PROVE  m \in BIds /\ broot # 0 /\ ht[m] + k = ht[broot]
<1>1. PICK N : N = Len(bnodes)
  OBVIOUS
<1>2. N \in Nat /\ BIds = 1..N /\ BTyped(bnodes, N)
  BY <1>1, NodesTyped DEF Fit
<1> DEFINE Down == [i \in Nat |-> [X \in SUBSET BIds |-> UNION { ToSet(bnodes[n].children) : n \in X }]]
           start == {broot} \ {0}
<1>3. ASSUME NEW n \in BIds PROVE ToSet(bnodes[n].children) \subseteq BIds
  <2>1. bnodes[n].children \in Seq(1..N)
    BY <1>2, BNodeParts
  <2>. QED  BY <1>2, <2>1 DEF ToSet
<1>4. Down \in [Nat -> [SUBSET BIds -> SUBSET BIds]]
  BY <1>3
<1>5. start \in SUBSET BIds
  BY FitPosition
<1>6. PICK g : Recurs(g, SUBSET BIds, start, Down)
  BY <1>4, <1>5, Recursion
<1>7. /\ g \in [Nat -> SUBSET BIds] /\ g[0] = start
      /\ \A i \in Nat : g[i + 1] = UNION { ToSet(bnodes[n].children) : n \in g[i] }
  <2>1. /\ g \in [Nat -> SUBSET BIds] /\ g[0] = start /\ \A i \in Nat : g[i + 1] = Down[i][g[i]]
    BY <1>6, Zenon DEF Recurs
  <2>2. \A i \in Nat : Down[i][g[i]] = UNION { ToSet(bnodes[n].children) : n \in g[i] }
    BY <2>1
  <2>. QED  BY <2>1, <2>2
<1> DEFINE IsLevels(f) == f = [i \in 0..Len(bnodes) |->
             IF i = 0 THEN {broot} \ {0} ELSE UNION { ToSet(bnodes[n].children) : n \in f[i - 1] }]
<1>8. \E f : IsLevels(f)
  <2>1. PICK f : f = [i \in 0..Len(bnodes) |-> g[i]]
    OBVIOUS
  <2>2. ASSUME NEW i \in 0..Len(bnodes)
        PROVE  f[i] = IF i = 0 THEN {broot} \ {0} ELSE UNION { ToSet(bnodes[n].children) : n \in f[i - 1] }
    <3>1. CASE i = 0
      BY <1>7, <2>1, <3>1
    <3>2. CASE i # 0
      <4>1. i - 1 \in 0..Len(bnodes) /\ i - 1 \in Nat /\ i = (i - 1) + 1 /\ f[i - 1] = g[i - 1] /\ f[i] = g[i]
        BY <1>1, <1>2, <2>1, <3>2
      <4>2. g[(i - 1) + 1] = UNION { ToSet(bnodes[n].children) : n \in g[i - 1] }
        BY <1>7, <4>1
      <4>. QED  BY <3>2, <4>1, <4>2
    <3>. QED  BY <3>1, <3>2
  <2>3. IsLevels(f)
    BY <2>1, <2>2
  <2>. QED  BY <2>3
<1>9. PICK f : f = CHOOSE x : IsLevels(x)
  OBVIOUS
<1>10. IsLevels(f)
  BY <1>8, <1>9, Zenon
<1>11. Level(k) = f[k]
  BY <1>9, Zenon DEF Level
<1>12. /\ f[0] = {broot} \ {0}
       /\ \A i \in 0..Len(bnodes) : i # 0 => f[i] = UNION { ToSet(bnodes[n].children) : n \in f[i - 1] }
  <2>1. \A i \in 0..Len(bnodes) :
          f[i] = IF i = 0 THEN {broot} \ {0} ELSE UNION { ToSet(bnodes[n].children) : n \in f[i - 1] }
    BY <1>10, Zenon
  <2>2. 0 \in 0..Len(bnodes)
    BY <1>1, <1>2
  <2>. QED  BY <2>1, <2>2, Zenon
<1> HIDE DEF IsLevels
<1> DEFINE P == { i \in Nat : i \in 0..N => \A n \in f[i] : n \in BIds /\ broot # 0 /\ ht[n] + i = ht[broot] }
<1>13. 0 \in P
  <2>1. ASSUME NEW n \in f[0] PROVE n \in BIds /\ broot # 0 /\ ht[n] + 0 = ht[broot]
    <3>1. n = broot /\ broot # 0
      BY <1>12
    <3>2. ht[broot] \in Nat /\ broot \in BIds
      BY <3>1, FitNode, FitPosition
    <3>. QED  BY <3>1, <3>2
  <2>. QED  BY <2>1
<1>14. ASSUME NEW i \in P PROVE i + 1 \in P
  <2>1. SUFFICES ASSUME i + 1 \in 0..N, NEW n \in f[i + 1]
                 PROVE  n \in BIds /\ broot # 0 /\ ht[n] + (i + 1) = ht[broot]
    OBVIOUS
  <2>2. i \in 0..N /\ i + 1 # 0 /\ (i + 1) - 1 = i
    BY <1>2, <2>1
  <2>3. PICK p \in f[i] : n \in ToSet(bnodes[p].children)
    BY <1>1, <1>12, <2>1, <2>2
  <2>4. p \in BIds /\ broot # 0 /\ ht[p] + i = ht[broot]
    BY <2>2, <2>3
  <2>5. PICK j \in 1..Len(bnodes[p].children) : n = bnodes[p].children[j]
    <3>1. bnodes[p].children \in Seq(1..N)
      BY <1>2, <2>4, BNodeParts
    <3>. QED  BY <2>3, <3>1 DEF ToSet
  <2>6. n \in BIds /\ ht[n] + 1 = ht[p]
    BY <2>4, <2>5, FitNode
  <2>7. ht[n] \in Nat /\ ht[p] \in Nat /\ ht[broot] \in Nat
    BY <2>4, <2>6, FitNode, FitPosition
  <2>8. i \in Nat
    BY <1>14
  <2>9. \A a, b, d \in Nat : a + 1 = b /\ b + i = d => a + (i + 1) = d
    BY <2>8
  <2>. QED  BY <2>4, <2>6, <2>7, <2>9, Zenon
<1> HIDE DEF P
<1>15. P = Nat
  <2>1. P \in SUBSET Nat
    BY DEF P
  <2>. QED  BY <1>13, <1>14, <2>1, InductiveSet
<1>16. k \in P
  BY <1>1, <1>2, <1>15
<1>. QED  BY <1>1, <1>11, <1>16 DEF P

(* Where a walk ends, every leaf is as far from the root.                  *)
LEMMA HeightStep == Fit /\ [BNext]_bvars => [HeightOfAll]_bvars
<1>1. SUFFICES ASSUME Fit, BNext, bdoing = "height", bdoing' = "none",
                      NEW k \in 0..Len(bnodes), NEW n \in Level(k)
               PROVE  bnodes[n].leaf <=> k + 1 = bresult'
  BY DEF HeightOfAll, BIdle
<1>2. PICK ht : Levelled(bnodes, Len(bnodes), broot, ht) /\ Counted(ht)
  BY <1>1 DEF Fit
<1>3. n \in BIds /\ broot # 0 /\ ht[n] + k = ht[broot]
  BY <1>1, <1>2, LevelsAreLevel
<1>4. BArrive
  BY <1>1, <1>3 DEF BNext, BSteps, BBegin, BWalkFrom, BIdle, BInsertFirst, ContainsEmpty, BFound, BSearching, BDescend,
     BNotFound, StartPlacing, PlaceDeeper, PlaceHere, BWalkEmpty, BWalk
<1>5. bresult' = levels /\ bnodes[bat].leaf /\ bat \in BIds
  BY <1>1, <1>3, <1>4 DEF BArrive, BEnd, Fit
<1>6. levels + ht[bat] = ht[broot] + 1
  BY <1>1, <1>2, <1>3 DEF Counted
<1>7. ht[bat] = 0 /\ ht[broot] \in Nat /\ ht[n] \in Nat /\ levels \in Nat /\ (bnodes[n].leaf <=> ht[n] = 0)
  BY <1>1, <1>2, <1>3, <1>5, FitNode, FitPosition
<1>8. ht[n] = 0 <=> k + 1 = levels
  BY <1>3, <1>6, <1>7
<1>. QED  BY <1>5, <1>7, <1>8

-----------------------------------------------------------------------------
(* The values in order.                                                    *)
LEMMA BOrder ==
  ASSUME Comparable(BValues)
  PROVE  /\ \A v \in BValues : ~Less(v, v) /\ Same(v, v)
         /\ \A v, w \in BValues : Less(v, w) => ~Less(w, v)
         /\ \A v, w, x \in BValues : Less(v, w) /\ Less(w, x) => Less(v, x)
         /\ \A v, w, x \in BValues : Less(v, w) => Less(v, x) \/ Less(x, w)
         /\ \A v, w \in BValues : Less(v, w) \/ Less(w, v) \/ Same(v, w)
         /\ \A v, w \in BValues : Same(v, w) => Same(w, v) /\ ~Less(v, w) /\ ~Less(w, v)
         /\ \A v, w, x \in BValues : Same(v, w) => (Less(v, x) <=> Less(w, x)) /\ (Less(x, v) <=> Less(x, w))
BY DEF Comparable

Rising(s) == \A i, j \in 1..Len(s) : i < j => Less(s[i], s[j])

(* v belongs at place i of s.                                              *)
Gap(s, i, v) == \A j \in 1..Len(s) : (j < i => Less(s[j], v)) /\ (i <= j => Less(v, s[j]))

Between(D, s, i) == { v \in D : Gap(s, i, v) }

IsIn(v, s) == \E j \in 1..Len(s) : v = s[j]

(* Keys stay in order when one is put in where it belongs.                 *)
LEMMA InsertedSorted ==
  ASSUME Comparable(BValues), NEW s \in Seq(BValues), Rising(s), NEW i \in 1..(Len(s) + 1), NEW e \in BValues,
         Gap(s, i, e), NEW u, Inserted(s, i, e, u)
  PROVE  Rising(u)
<1>1. Len(s) \in Nat /\ Len(u) = Len(s) + 1 /\ u[i] = e
  BY DEF Inserted
<1>2. ASSUME NEW a \in 1..Len(u), NEW b \in 1..Len(u), a < b PROVE Less(u[a], u[b])
  <2>1. a \in 1..(Len(s) + 1) /\ b \in 1..(Len(s) + 1) /\ a \in Nat /\ b \in Nat /\ i \in Nat
    BY <1>1
  <2>2. CASE b < i
    <3>1. a \in 1..Len(s) /\ b \in 1..Len(s) /\ a < i
      BY <1>1, <1>2, <2>1, <2>2
    <3>. QED  BY <1>2, <2>1, <2>2, <3>1 DEF Inserted, Rising
  <2>3. CASE b = i
    <3>1. a \in 1..Len(s) /\ a < i
      BY <1>1, <1>2, <2>1, <2>3
    <3>. QED  BY <1>1, <2>1, <2>3, <3>1 DEF Inserted, Gap
  <2>4. CASE i < b
    <3>1. b - 1 \in 1..Len(s) /\ u[b] = s[b - 1] /\ i <= b - 1
      BY <1>1, <2>1, <2>4 DEF Inserted
    <3>2. CASE a < i
      <4>1. a \in 1..Len(s) /\ u[a] = s[a] /\ a < b - 1
        BY <1>1, <2>1, <2>4, <3>1, <3>2 DEF Inserted
      <4>. QED  BY <3>1, <4>1 DEF Rising
    <3>3. CASE a = i
      BY <1>1, <3>1, <3>3 DEF Gap
    <3>4. CASE i < a
      <4>1. a - 1 \in 1..Len(s) /\ u[a] = s[a - 1] /\ a - 1 < b - 1
        BY <1>1, <1>2, <2>1, <3>4 DEF Inserted
      <4>. QED  BY <3>1, <4>1 DEF Rising
    <3>. QED  BY <2>1, <3>2, <3>3, <3>4
  <2>. QED  BY <2>1, <2>2, <2>3, <2>4
<1>. QED  BY <1>2 DEF Rising

(* They are those there were and the one put in.                           *)
LEMMA InsertedElements ==
  ASSUME NEW S, NEW s \in Seq(S), NEW i \in 1..(Len(s) + 1), NEW e, NEW u, Inserted(s, i, e, u), NEW v
  PROVE  IsIn(v, u) <=> v = e \/ IsIn(v, s)
<1>1. Len(s) \in Nat /\ Len(u) = Len(s) + 1 /\ u[i] = e /\ i \in Nat
  BY DEF Inserted
<1>2. ASSUME IsIn(v, u) PROVE v = e \/ IsIn(v, s)
  <2>1. PICK j \in 1..(Len(s) + 1) : v = u[j]
    BY <1>1, <1>2 DEF IsIn
  <2>2. CASE j < i
    <3>1. j \in 1..Len(s)
      BY <1>1, <2>2
    <3>. QED  BY <2>1, <2>2, <3>1 DEF Inserted, IsIn
  <2>3. CASE j = i
    BY <1>1, <2>1, <2>3
  <2>4. CASE i < j
    <3>1. j - 1 \in 1..Len(s)
      BY <1>1, <2>4
    <3>. QED  BY <2>1, <2>4, <3>1 DEF Inserted, IsIn
  <2>. QED  BY <1>1, <2>2, <2>3, <2>4
<1>3. ASSUME IsIn(v, s) PROVE IsIn(v, u)
  <2>1. PICK j \in 1..Len(s) : v = s[j]
    BY <1>3 DEF IsIn
  <2>2. CASE j < i
    <3>1. j \in 1..(Len(s) + 1) /\ u[j] = s[j]
      BY <1>1, <2>2 DEF Inserted
    <3>. QED  BY <1>1, <2>1, <3>1 DEF IsIn
  <2>3. CASE i <= j
    <3>1. j + 1 \in 1..(Len(s) + 1) /\ i < j + 1 /\ (j + 1) - 1 = j
      BY <1>1, <2>3
    <3>2. u[j + 1] = s[j]
      BY <3>1 DEF Inserted
    <3>. QED  BY <1>1, <2>1, <3>1, <3>2 DEF IsIn
  <2>. QED  BY <1>1, <2>2, <2>3
<1>4. ASSUME v = e PROVE IsIn(v, u)
  BY <1>1, <1>4 DEF IsIn
<1>. QED  BY <1>2, <1>3, <1>4

(* Where a value belongs among the keys and one more.                      *)
LEMMA InsertedGap ==
  ASSUME NEW s \in Seq(BValues), NEW i \in 1..(Len(s) + 1), NEW e, NEW u, Inserted(s, i, e, u),
         NEW k \in 1..(Len(s) + 2), NEW v
  PROVE  Gap(u, k, v) <=>
           /\ (i < k => Less(e, v)) /\ (k <= i => Less(v, e))
           /\ Gap(s, IF k <= i THEN k ELSE k - 1, v)
<1>1. Len(s) \in Nat /\ Len(u) = Len(s) + 1 /\ u[i] = e /\ i \in Nat /\ k \in Nat /\ 1 <= k
  BY DEF Inserted
<1>2. PICK l \in Nat : l = IF k <= i THEN k ELSE k - 1
  BY <1>1
<1>3. ASSUME Gap(u, k, v)
      PROVE  (i < k => Less(e, v)) /\ (k <= i => Less(v, e)) /\ Gap(s, l, v)
  <2>1. (i < k => Less(e, v)) /\ (k <= i => Less(v, e))
    BY <1>1, <1>3 DEF Gap
  <2>2. ASSUME NEW j \in 1..Len(s) PROVE (j < l => Less(s[j], v)) /\ (l <= j => Less(v, s[j]))
    <3>1. CASE j < i
      <4>1. j \in 1..Len(u) /\ u[j] = s[j] /\ (j < l => j < k) /\ (l <= j => k <= j)
        BY <1>1, <1>2, <3>1 DEF Inserted
      <4>. QED  BY <1>3, <4>1 DEF Gap
    <3>2. CASE i <= j
      <4>1. j + 1 \in 1..(Len(s) + 1) /\ i < j + 1 /\ (j + 1) - 1 = j /\ (j < l => j + 1 < k) /\ (l <= j => k <= j + 1)
        BY <1>1, <1>2, <3>2
      <4>2. u[j + 1] = s[j]
        BY <4>1 DEF Inserted
      <4>. QED  BY <1>1, <1>3, <4>1, <4>2 DEF Gap
    <3>. QED  BY <1>1, <3>1, <3>2
  <2>. QED  BY <2>1, <2>2 DEF Gap
<1>4. ASSUME (i < k => Less(e, v)) /\ (k <= i => Less(v, e)), Gap(s, l, v)
      PROVE  Gap(u, k, v)
  <2>1. ASSUME NEW j \in 1..(Len(s) + 1) PROVE (j < k => Less(u[j], v)) /\ (k <= j => Less(v, u[j]))
    <3>1. CASE j < i
      <4>1. j \in 1..Len(s) /\ u[j] = s[j] /\ (j < k => j < l) /\ (k <= j => l <= j)
        BY <1>1, <1>2, <3>1 DEF Inserted
      <4>. QED  BY <1>4, <4>1 DEF Gap
    <3>2. CASE j = i
      BY <1>1, <1>4, <3>2
    <3>3. CASE i < j
      <4>1. j - 1 \in 1..Len(s) /\ u[j] = s[j - 1] /\ (j < k => j - 1 < l) /\ (k <= j => l <= j - 1)
        BY <1>1, <1>2, <3>3 DEF Inserted
      <4>. QED  BY <1>4, <4>1 DEF Gap
    <3>. QED  BY <1>1, <3>1, <3>2, <3>3
  <2>. QED  BY <1>1, <2>1 DEF Gap
<1>. QED  BY <1>2, <1>3, <1>4

(* Where a value belongs in the half before, or behind, the key a.         *)
LEMMA LowerGap ==
  ASSUME Comparable(BValues), NEW s \in Seq(BValues), Rising(s), NEW a \in 1..Len(s), NEW q, Len(q) = a - 1,
         \A j \in 1..(a - 1) : q[j] = s[j]
  PROVE  /\ Rising(q)
         /\ \A k \in 1..a, v \in BValues : Gap(s, k, v) <=> Gap(q, k, v) /\ Less(v, s[a])
<1>1. Len(s) \in Nat /\ a \in Nat /\ 1 <= a /\ a <= Len(s) /\ \A j \in 1..Len(s) : s[j] \in BValues
  OBVIOUS
<1>2. \A j \in 1..(a - 1) : j \in 1..Len(s) /\ j < a
  BY <1>1
<1>3. Rising(q)
  BY <1>2 DEF Rising
<1>4. ASSUME NEW k \in 1..a, NEW v \in BValues, Gap(s, k, v) PROVE Gap(q, k, v) /\ Less(v, s[a])
  <2>1. Gap(q, k, v)
    BY <1>2, <1>4 DEF Gap
  <2>2. k <= a
    BY <1>1
  <2>. QED  BY <1>4, <2>1, <2>2 DEF Gap
<1>5. ASSUME NEW k \in 1..a, NEW v \in BValues, Gap(q, k, v), Less(v, s[a]),
             NEW j \in 1..Len(s)
      PROVE  (j < k => Less(s[j], v)) /\ (k <= j => Less(v, s[j]))
  <2>1. CASE j < a
    <3>1. j \in 1..(a - 1)
      BY <1>1, <2>1
    <3>. QED  BY <1>5, <3>1 DEF Gap
  <2>2. CASE j = a
    <3>1. ~(a < k)
      BY <1>1
    <3>. QED  BY <1>5, <2>2, <3>1
  <2>3. CASE a < j
    <3>1. ~(j < k)
      BY <1>1, <2>3
    <3>2. Less(s[a], s[j]) /\ s[j] \in BValues /\ s[a] \in BValues
      BY <1>1, <2>3 DEF Rising
    <3>. QED  BY <1>5, <3>1, <3>2, BOrder
  <2>. QED  BY <1>1, <2>1, <2>2, <2>3
<1>6. ASSUME NEW k \in 1..a, NEW v \in BValues, Gap(q, k, v), Less(v, s[a]) PROVE Gap(s, k, v)
  BY <1>5, <1>6 DEF Gap
<1>. QED  BY <1>3, <1>4, <1>6

(* And in the other half, behind the key a.                                *)
LEMMA UpperGap ==
  ASSUME Comparable(BValues), NEW s \in Seq(BValues), Rising(s), NEW a \in 1..Len(s), NEW q,
         Len(q) = Len(s) - a, \A j \in 1..(Len(s) - a) : q[j] = s[j + a]
  PROVE  /\ Rising(q)
         /\ \A k \in 1..(Len(s) - a + 1), v \in BValues :
              Gap(s, k + a, v) <=> Gap(q, k, v) /\ Less(s[a], v)
<1>1. Len(s) \in Nat /\ a \in Nat /\ 1 <= a /\ a <= Len(s) /\ \A j \in 1..Len(s) : s[j] \in BValues
  OBVIOUS
<1>2. \A j \in 1..(Len(s) - a) : j + a \in 1..Len(s) /\ j \in Nat /\ q[j] = s[j + a]
  BY <1>1
<1>3. Rising(q)
  <2>1. ASSUME NEW i \in 1..(Len(s) - a), NEW j \in 1..(Len(s) - a), i < j PROVE Less(q[i], q[j])
    <3>1. i + a < j + a
      BY <1>1, <2>1
    <3>. QED  BY <1>2, <3>1 DEF Rising
  <2>. QED  BY <2>1 DEF Rising
<1>4. ASSUME NEW k \in 1..(Len(s) - a + 1), NEW v \in BValues, Gap(s, k + a, v) PROVE Gap(q, k, v) /\ Less(s[a], v)
  <2>1. ASSUME NEW j \in 1..(Len(s) - a) PROVE (j < k => Less(q[j], v)) /\ (k <= j => Less(v, q[j]))
    <3>1. (j < k => j + a < k + a) /\ (k <= j => k + a <= j + a)
      BY <1>1
    <3>. QED  BY <1>2, <1>4, <3>1 DEF Gap
  <2>2. a < k + a
    BY <1>1
  <2>. QED  BY <1>4, <2>1, <2>2 DEF Gap
<1>5. ASSUME NEW k \in 1..(Len(s) - a + 1), NEW v \in BValues, Gap(q, k, v), Less(s[a], v),
             NEW j \in 1..Len(s)
      PROVE  (j < k + a => Less(s[j], v)) /\ (k + a <= j => Less(v, s[j]))
  <2>1. CASE j < a
    <3>1. ~(k + a <= j)
      BY <1>1, <2>1
    <3>2. Less(s[j], s[a]) /\ s[j] \in BValues /\ s[a] \in BValues
      BY <1>1, <2>1 DEF Rising
    <3>. QED  BY <1>5, <3>1, <3>2, BOrder
  <2>2. CASE j = a
    <3>1. ~(k + a <= a)
      BY <1>1
    <3>. QED  BY <1>5, <2>2, <3>1
  <2>3. CASE a < j
    <3>1. j - a \in 1..(Len(s) - a) /\ (j - a) + a = j /\ (j < k + a => j - a < k) /\ (k + a <= j => k <= j - a)
      BY <1>1, <2>3
    <3>2. q[j - a] = s[j]
      BY <1>2, <3>1
    <3>. QED  BY <1>5, <3>1, <3>2 DEF Gap
  <2>. QED  BY <1>1, <2>1, <2>2, <2>3
<1>6. ASSUME NEW k \in 1..(Len(s) - a + 1), NEW v \in BValues, Gap(q, k, v), Less(s[a], v) PROVE Gap(s, k + a, v)
  BY <1>5, <1>6 DEF Gap
<1>. QED  BY <1>3, <1>4, <1>6

-----------------------------------------------------------------------------
(* That a search finds what is there: for each node the values that are    *)
(* looked for in it or below it.  Those of a child are the ones between    *)
(* the keys around the child.                                              *)
RangedNode(x, D, dom) ==
  /\ D \subseteq BValues
  /\ \A v \in D, w \in BValues : Same(v, w) => w \in D
  /\ \A j \in 1..Len(x.keys) : x.keys[j] \in D
  /\ Rising(x.keys)
  /\ \A j \in 1..Len(x.children) : dom[x.children[j]] = Between(D, x.keys, j)

Ranged(h, n, dom, ht) ==
  /\ dom \in [1..n -> SUBSET BValues]
  /\ \A m \in 1..n : RangedNode(h[m], dom[m], dom)
  /\ \A m, w \in 1..n : m # w /\ ht[m] = ht[w] => dom[m] \intersect dom[w] = {}
  /\ \A m, w \in 1..n : ht[m] < ht[w] => \A j \in 1..Len(h[w].keys) : h[w].keys[j] \notin dom[m]

(* A full node, and what its children hold when it is split.               *)
ToHalve(x, D, dom, du) ==
  /\ x.keys \in Seq(BValues) /\ Len(x.keys) = MaxKeys /\ x.leaf \in BOOLEAN
  /\ x.leaf => Len(x.children) = 0
  /\ ~x.leaf => Len(x.children) = 2 * T
  /\ RangedNode(x, D, dom)
  /\ \A j \in 1..Len(x.children) : du[x.children[j]] = dom[x.children[j]]

(* The lower half holds the values below the key in the middle.            *)
LEMMA RangedLower ==
  ASSUME Comparable(BValues), NEW x, NEW D, NEW dom, NEW du, ToHalve(x, D, dom, du),
         NEW y, LowerHalf(x, y), NEW E, E = { v \in D : Less(v, x.keys[T]) }
  PROVE  RangedNode(y, E, du)
<1>0. /\ x.keys \in Seq(BValues) /\ Len(x.keys) = MaxKeys /\ x.leaf \in BOOLEAN
      /\ x.leaf => Len(x.children) = 0
      /\ ~x.leaf => Len(x.children) = 2 * T
      /\ RangedNode(x, D, dom)
      /\ \A j \in 1..Len(x.children) : du[x.children[j]] = dom[x.children[j]]
  BY DEF ToHalve
<1>1. /\ T \in Nat /\ 2 <= T /\ T \in 1..Len(x.keys) /\ Len(x.keys) = 2 * T - 1
      /\ \A j \in 1..Len(x.keys) : x.keys[j] \in BValues
  BY <1>0, Degree
<1>2. /\ y.leaf = x.leaf /\ Len(y.keys) = T - 1 /\ \A j \in 1..(T - 1) : y.keys[j] = x.keys[j]
      /\ ~x.leaf => Len(y.children) = T /\ \A j \in 1..T : y.children[j] = x.children[j]
      /\ x.leaf => Len(y.children) = 0
  BY <1>0 DEF LowerHalf
<1>3. /\ Rising(y.keys)
      /\ \A k \in 1..T, v \in BValues : Gap(x.keys, k, v) <=> Gap(y.keys, k, v) /\ Less(v, x.keys[T])
  BY <1>0, <1>1, <1>2, LowerGap DEF RangedNode
<1>4. D \subseteq BValues /\ E \subseteq BValues /\ \A v \in E, w \in BValues : Same(v, w) => w \in E
  <2>1. D \subseteq BValues /\ \A v \in D, w \in BValues : Same(v, w) => w \in D
    BY <1>0 DEF RangedNode
  <2>. QED  BY <1>1, <2>1, BOrder
<1>5. \A j \in 1..Len(y.keys) : y.keys[j] \in E
  <2>1. ASSUME NEW j \in 1..(T - 1) PROVE x.keys[j] \in E
    <3>1. j \in 1..Len(x.keys) /\ j < T
      BY <1>1
    <3>. QED  BY <1>0, <1>1, <3>1 DEF RangedNode, Rising
  <2>. QED  BY <1>2, <2>1
<1>6. \A j \in 1..Len(y.children) : du[y.children[j]] = Between(E, y.keys, j)
  <2>1. CASE x.leaf
    BY <1>2, <2>1
  <2>2. CASE ~x.leaf
    <3>1. ASSUME NEW j \in 1..T PROVE du[y.children[j]] = Between(E, y.keys, j)
      <4>1. j \in 1..Len(x.children) /\ y.children[j] = x.children[j]
        BY <1>0, <1>1, <1>2, <2>2
      <4>2. du[y.children[j]] = Between(D, x.keys, j)
        BY <1>0, <4>1 DEF RangedNode
      <4>3. Between(D, x.keys, j) = Between(E, y.keys, j)
        BY <1>3, <1>4 DEF Between
      <4>. QED  BY <4>2, <4>3
    <3>. QED  BY <1>2, <2>2, <3>1
  <2>. QED  BY <2>1, <2>2
<1>. QED  BY <1>3, <1>4, <1>5, <1>6, Zenon DEF RangedNode

(* The upper half holds those above it.                                    *)
LEMMA RangedUpper ==
  ASSUME Comparable(BValues), NEW x, NEW D, NEW dom, NEW du, ToHalve(x, D, dom, du),
         NEW y, UpperHalf(x, y), NEW E, E = { v \in D : Less(x.keys[T], v) }
  PROVE  RangedNode(y, E, du)
<1>0. /\ x.keys \in Seq(BValues) /\ Len(x.keys) = MaxKeys /\ x.leaf \in BOOLEAN
      /\ x.leaf => Len(x.children) = 0
      /\ ~x.leaf => Len(x.children) = 2 * T
      /\ RangedNode(x, D, dom)
      /\ \A j \in 1..Len(x.children) : du[x.children[j]] = dom[x.children[j]]
  BY DEF ToHalve
<1>1. /\ T \in Nat /\ 2 <= T /\ T \in 1..Len(x.keys) /\ Len(x.keys) = 2 * T - 1 /\ Len(x.keys) - T = T - 1
      /\ Len(x.keys) - T + 1 = T
      /\ \A j \in 1..Len(x.keys) : x.keys[j] \in BValues
  BY <1>0, Degree
<1>2. /\ y.leaf = x.leaf /\ Len(y.keys) = T - 1 /\ \A j \in 1..(T - 1) : y.keys[j] = x.keys[j + T]
      /\ ~x.leaf => Len(y.children) = T /\ \A j \in 1..T : y.children[j] = x.children[j + T]
      /\ x.leaf => Len(y.children) = 0
  BY <1>0 DEF UpperHalf
<1>3. /\ Rising(y.keys)
      /\ \A k \in 1..T, v \in BValues : Gap(x.keys, k + T, v) <=> Gap(y.keys, k, v) /\ Less(x.keys[T], v)
  <2>1. Rising(x.keys) /\ Len(y.keys) = Len(x.keys) - T /\ \A j \in 1..(Len(x.keys) - T) : y.keys[j] = x.keys[j + T]
    BY <1>0, <1>1, <1>2 DEF RangedNode
  <2>2. /\ Rising(y.keys)
        /\ \A k \in 1..(Len(x.keys) - T + 1), v \in BValues :
             Gap(x.keys, k + T, v) <=> Gap(y.keys, k, v) /\ Less(x.keys[T], v)
    BY <1>0, <1>1, <2>1, UpperGap, Zenon
  <2>. QED  BY <1>1, <2>2, Zenon
<1>4. D \subseteq BValues /\ E \subseteq BValues /\ \A v \in E, w \in BValues : Same(v, w) => w \in E
  <2>1. D \subseteq BValues /\ \A v \in D, w \in BValues : Same(v, w) => w \in D
    BY <1>0 DEF RangedNode
  <2>. QED  BY <1>1, <2>1, BOrder
<1>5. \A j \in 1..Len(y.keys) : y.keys[j] \in E
  <2>1. ASSUME NEW j \in 1..(T - 1) PROVE x.keys[j + T] \in E
    <3>1. j + T \in 1..Len(x.keys) /\ T < j + T
      BY <1>1
    <3>. QED  BY <1>0, <1>1, <3>1 DEF RangedNode, Rising
  <2>. QED  BY <1>2, <2>1
<1>6. \A j \in 1..Len(y.children) : du[y.children[j]] = Between(E, y.keys, j)
  <2>1. CASE x.leaf
    BY <1>2, <2>1
  <2>2. CASE ~x.leaf
    <3>1. ASSUME NEW j \in 1..T PROVE du[y.children[j]] = Between(E, y.keys, j)
      <4>1. j + T \in 1..Len(x.children) /\ y.children[j] = x.children[j + T]
        BY <1>0, <1>1, <1>2, <2>2
      <4>2. du[y.children[j]] = Between(D, x.keys, j + T)
        BY <1>0, <4>1 DEF RangedNode
      <4>3. Between(D, x.keys, j + T) = Between(E, y.keys, j)
        BY <1>3, <1>4 DEF Between
      <4>. QED  BY <4>2, <4>3
    <3>. QED  BY <1>2, <2>2, <3>1
  <2>. QED  BY <2>1, <2>2
<1>. QED  BY <1>3, <1>4, <1>5, <1>6, Zenon DEF RangedNode

(* A node that gets the key e, and the child d right of child i.           *)
ToGrow(x, D, dom, i, e, d, du) ==
  /\ x.keys \in Seq(BValues) /\ RangedNode(x, D, dom)
  /\ Len(x.children) = Len(x.keys) + 1 /\ i \in 1..Len(x.children)
  /\ e \in dom[x.children[i]]
  /\ \A j \in 1..Len(x.children) : j # i => du[x.children[j]] = dom[x.children[j]]
  /\ du[x.children[i]] = { v \in dom[x.children[i]] : Less(v, e) }
  /\ du[d] = { v \in dom[x.children[i]] : Less(e, v) }

(* The parent holds the values that it did.                                *)
LEMMA RangedParent ==
  ASSUME Comparable(BValues), NEW x, NEW D, NEW dom, NEW i, NEW e, NEW d, NEW du, ToGrow(x, D, dom, i, e, d, du),
         NEW y, Inserted(x.keys, i, e, y.keys), Inserted(x.children, i + 1, d, y.children)
  PROVE  RangedNode(y, D, du)
<1>0. /\ x.keys \in Seq(BValues) /\ RangedNode(x, D, dom)
      /\ Len(x.children) = Len(x.keys) + 1 /\ i \in 1..Len(x.children)
      /\ e \in dom[x.children[i]]
      /\ \A j \in 1..Len(x.children) : j # i => du[x.children[j]] = dom[x.children[j]]
      /\ du[x.children[i]] = { v \in dom[x.children[i]] : Less(v, e) }
      /\ du[d] = { v \in dom[x.children[i]] : Less(e, v) }
  BY DEF ToGrow
<1>1. /\ Len(x.keys) \in Nat /\ i \in 1..(Len(x.keys) + 1) /\ i \in Nat
      /\ \A j \in 1..Len(x.keys) : x.keys[j] \in BValues
      /\ Len(y.keys) = Len(x.keys) + 1 /\ Len(y.children) = Len(x.keys) + 2
  BY <1>0 DEF Inserted
<1>2. /\ D \subseteq BValues /\ \A v \in D, w \in BValues : Same(v, w) => w \in D
      /\ \A j \in 1..Len(x.keys) : x.keys[j] \in D
      /\ Rising(x.keys)
      /\ \A j \in 1..Len(x.children) : dom[x.children[j]] = Between(D, x.keys, j)
  BY <1>0 DEF RangedNode
<1>3. e \in D /\ e \in BValues /\ Gap(x.keys, i, e)
  BY <1>0, <1>2 DEF Between
<1>4. Rising(y.keys)
  BY <1>0, <1>1, <1>2, <1>3, InsertedSorted
<1>5. ASSUME NEW j \in 1..Len(y.keys) PROVE y.keys[j] \in D
  <2>1. IsIn(y.keys[j], y.keys)
    BY DEF IsIn
  <2>2. y.keys[j] = e \/ IsIn(y.keys[j], x.keys)
    BY <1>0, <1>1, <2>1, InsertedElements
  <2>. QED  BY <1>2, <1>3, <2>2 DEF IsIn
<1>6. ASSUME NEW j \in 1..Len(y.children) PROVE du[y.children[j]] = Between(D, y.keys, j)
  <2>1. j \in 1..(Len(x.keys) + 2) /\ j \in 1..(Len(x.children) + 1) /\ j \in Nat
    BY <1>0, <1>1
  <2>2. \A v : Gap(y.keys, j, v) <=> /\ (i < j => Less(e, v)) /\ (j <= i => Less(v, e))
                                     /\ Gap(x.keys, IF j <= i THEN j ELSE j - 1, v)
    BY <1>0, <1>1, <2>1, InsertedGap, Zenon
  <2>3. CASE j < i
    <3>1. y.children[j] = x.children[j] /\ j \in 1..Len(x.children) /\ j # i /\ j \in 1..Len(x.keys)
      BY <1>0, <1>1, <2>1, <2>3 DEF Inserted
    <3>2. \A v \in D : Gap(x.keys, j, v) => Less(v, e)
      <4>1. Less(x.keys[j], e)
        BY <1>3, <2>3, <3>1 DEF Gap
      <4>2. \A v \in D : Gap(x.keys, j, v) => Less(v, x.keys[j])
        BY <2>1, <3>1 DEF Gap
      <4>. QED  BY <1>1, <1>2, <1>3, <3>1, <4>1, <4>2, BOrder
    <3>3. \A v : Gap(y.keys, j, v) <=> Less(v, e) /\ Gap(x.keys, j, v)
      BY <1>1, <2>1, <2>2, <2>3
    <3>4. Between(D, y.keys, j) = Between(D, x.keys, j)
      BY <3>2, <3>3 DEF Between
    <3>. QED  BY <1>0, <1>2, <3>1, <3>4
  <2>4. CASE j = i
    <3>1. y.children[j] = x.children[i] /\ i \in 1..Len(x.children)
      BY <1>0, <1>1, <2>1, <2>4 DEF Inserted
    <3>2. \A v : Gap(y.keys, j, v) <=> Less(v, e) /\ Gap(x.keys, i, v)
      BY <1>1, <2>1, <2>2, <2>4
    <3>3. Between(D, y.keys, j) = { v \in Between(D, x.keys, i) : Less(v, e) }
      BY <3>2 DEF Between
    <3>. QED  BY <1>0, <1>2, <3>1, <3>3
  <2>5. CASE j = i + 1
    <3>1. y.children[j] = d
      BY <2>5 DEF Inserted
    <3>2. \A v : Gap(y.keys, j, v) <=> Less(e, v) /\ Gap(x.keys, i, v)
      <4>1. i < j /\ ~(j <= i) /\ j - 1 = i
        BY <1>1, <2>5
      <4>. QED  BY <2>2, <4>1
    <3>3. Between(D, y.keys, j) = { v \in Between(D, x.keys, i) : Less(e, v) }
      BY <3>2 DEF Between
    <3>. QED  BY <1>0, <1>2, <3>1, <3>3
  <2>6. CASE i + 1 < j
    <3>1. y.children[j] = x.children[j - 1] /\ j - 1 \in 1..Len(x.children) /\ j - 1 # i
      BY <1>0, <1>1, <2>1, <2>6 DEF Inserted
    <3>2. i \in 1..Len(x.keys) /\ i < j - 1 /\ i < j /\ ~(j <= i)
      BY <1>1, <2>1, <2>6
    <3>3. \A v \in D : Gap(x.keys, j - 1, v) => Less(e, v)
      <4>1. Less(e, x.keys[i])
        BY <1>1, <1>3, <3>2 DEF Gap
      <4>2. \A v \in D : Gap(x.keys, j - 1, v) => Less(x.keys[i], v)
        BY <3>2 DEF Gap
      <4>. QED  BY <1>1, <1>2, <1>3, <3>2, <4>1, <4>2, BOrder
    <3>4. \A v : Gap(y.keys, j, v) <=> Less(e, v) /\ Gap(x.keys, j - 1, v)
      BY <2>2, <3>2
    <3>5. Between(D, y.keys, j) = Between(D, x.keys, j - 1)
      BY <3>3, <3>4 DEF Between
    <3>. QED  BY <1>0, <1>2, <3>1, <3>5
  <2>. QED  BY <1>1, <2>1, <2>3, <2>4, <2>5, <2>6
<1>. QED  BY <1>2, <1>4, <1>5, <1>6, Zenon DEF RangedNode

(* The two halves of a node share its values, but for the key between.     *)
Shared(n, dom, c, e) ==
  [m \in 1..(n + 1) |-> IF m = n + 1 THEN { v \in dom[c] : Less(e, v) }
                        ELSE IF m = c THEN { v \in dom[c] : Less(v, e) } ELSE dom[m]]

(* A node is the child of one node only, and once.                         *)
OnlyChild(h, n, p, i, c) ==
  \A x \in 1..n : \A j \in 1..Len(h[x].children) : h[x].children[j] = c => x = p /\ j = i

(* No other child holds the values of this one.                            *)
LEMMA OneParent ==
  ASSUME Comparable(BValues), NEW h, NEW n, BTyped(h, n), NEW r, NEW ht, Levelled(h, n, r, ht),
         NEW dom, Ranged(h, n, dom, ht),
         NEW p \in 1..n, NEW i \in 1..Len(h[p].children), NEW c, h[p].children[i] = c, Len(h[c].keys) # 0,
         Len(h[p].children) = Len(h[p].keys) + 1
  PROVE  OnlyChild(h, n, p, i, c)
<1> SUFFICES ASSUME NEW x \in 1..n, NEW j \in 1..Len(h[x].children), h[x].children[j] = c
             PROVE  x = p /\ j = i
  BY DEF OnlyChild
<1>1. /\ c \in 1..n /\ Len(h[c].keys) \in Nat /\ Len(h[p].keys) \in Nat /\ Len(h[p].children) \in Nat
      /\ n \in Nat
  BY BNodeParts DEF BTyped
<1>2. RangedNode(h[c], dom[c], dom) /\ RangedNode(h[p], dom[p], dom) /\ RangedNode(h[x], dom[x], dom)
  BY <1>1 DEF Ranged
<1>3. PICK v : v \in dom[c]
  <2>1. 1 \in 1..Len(h[c].keys)
    BY <1>1
  <2>. QED  BY <1>2, <2>1 DEF RangedNode
<1>4. /\ v \in Between(dom[p], h[p].keys, i) /\ v \in Between(dom[x], h[x].keys, j)
  BY <1>2, <1>3 DEF RangedNode
<1>5. v \in dom[p] /\ v \in dom[x] /\ v \in BValues
  BY <1>2, <1>4 DEF Between, RangedNode
<1>6. ht[c] + 1 = ht[p] /\ ht[c] + 1 = ht[x]
  <2>1. NodeFits(h[p], p = r, ht[p], ht) /\ NodeFits(h[x], x = r, ht[x], ht)
    BY DEF Levelled
  <2>. QED  BY <2>1, Zenon DEF NodeFits
<1>7. x = p
  BY <1>5, <1>6 DEF Ranged
<1>8. Gap(h[p].keys, i, v) /\ Gap(h[p].keys, j, v)
  BY <1>4, <1>7 DEF Between
<1>9. \A a \in 1..Len(h[p].keys) : h[p].keys[a] \in BValues
  BY <1>1, BNodeParts
<1>10. ~(i < j)
  <2>1. SUFFICES ASSUME i < j PROVE FALSE
    OBVIOUS
  <2>2. i \in 1..Len(h[p].keys) /\ i <= i
    BY <1>1, <1>7, <2>1
  <2>3. Less(v, h[p].keys[i]) /\ Less(h[p].keys[i], v)
    BY <1>8, <2>1, <2>2 DEF Gap
  <2>. QED  BY <1>5, <1>9, <2>2, <2>3, BOrder
<1>11. ~(j < i)
  <2>1. SUFFICES ASSUME j < i PROVE FALSE
    OBVIOUS
  <2>2. j \in 1..Len(h[p].keys) /\ j <= j
    BY <1>1, <1>7, <2>1
  <2>3. Less(v, h[p].keys[j]) /\ Less(h[p].keys[j], v)
    BY <1>8, <2>1, <2>2 DEF Gap
  <2>. QED  BY <1>5, <1>9, <2>2, <2>3, BOrder
<1>. QED  BY <1>1, <1>7, <1>10, <1>11

(* The node that a node after the split was, or was part of.               *)
Origin(n, c, m) == IF m = n + 1 THEN c ELSE m

KeysSplit(h, u, n, p, c, e) ==
  \A v : /\ \A m \in 1..(n + 1) : IsIn(v, u[m].keys) => IsIn(v, h[Origin(n, c, m)].keys) \/ (m = p /\ v = e)
         /\ (\E m \in 1..(n + 1) : IsIn(v, u[m].keys)) <=> (\E m \in 1..n : IsIn(v, h[m].keys))

(* A split loses no key, and makes none.                                   *)
LEMMA SplitKeys ==
  ASSUME NEW h, NEW n, BTyped(h, n), NEW p \in 1..n, NEW i \in 1..Len(h[p].children), NEW c \in 1..n, c # p,
         Len(h[c].keys) = MaxKeys, Len(h[p].children) = Len(h[p].keys) + 1,
         NEW u, Halved(h, u, n, p, i, c), NEW e, e = h[c].keys[T]
  PROVE  KeysSplit(h, u, n, p, c, e)
<1> SUFFICES ASSUME NEW v
             PROVE  /\ \A m \in 1..(n + 1) : IsIn(v, u[m].keys) => IsIn(v, h[Origin(n, c, m)].keys) \/ (m = p /\ v = e)
                    /\ (\E m \in 1..(n + 1) : IsIn(v, u[m].keys)) <=> (\E m \in 1..n : IsIn(v, h[m].keys))
  BY DEF KeysSplit
<1>1. /\ n \in Nat /\ T \in Nat /\ 2 <= T /\ Len(h[c].keys) = 2 * T - 1 /\ h[p].keys \in Seq(BValues)
      /\ i \in 1..(Len(h[p].keys) + 1)
  BY Degree, BNodeParts DEF BTyped
<1>2. /\ \A m \in 1..n : m # c /\ m # p => u[m] = h[m]
      /\ Len(u[c].keys) = T - 1 /\ \A j \in 1..(T - 1) : u[c].keys[j] = h[c].keys[j]
      /\ Len(u[n + 1].keys) = T - 1 /\ \A j \in 1..(T - 1) : u[n + 1].keys[j] = h[c].keys[j + T]
      /\ Inserted(h[p].keys, i, e, u[p].keys)
  BY DEF Halved, LowerHalf, UpperHalf
<1>3. IsIn(v, u[p].keys) <=> v = e \/ IsIn(v, h[p].keys)
  <2>1. h[p].keys \in Seq(BValues) /\ i \in 1..(Len(h[p].keys) + 1) /\ Inserted(h[p].keys, i, e, u[p].keys)
    BY <1>1, <1>2
  <2>2. ASSUME NEW s \in Seq(BValues), NEW j \in 1..(Len(s) + 1), NEW w, Inserted(s, j, e, w)
        PROVE  IsIn(v, w) <=> v = e \/ IsIn(v, s)
    BY <2>2, InsertedElements, SMTT(40)
  <2>. QED  BY <2>1, <2>2, Zenon
<1>4. IsIn(v, u[c].keys) => IsIn(v, h[c].keys)
  <2>1. \A j \in 1..(T - 1) : j \in 1..Len(h[c].keys)
    BY <1>1
  <2>. QED  BY <1>2, <2>1 DEF IsIn
<1>5. IsIn(v, u[n + 1].keys) => IsIn(v, h[c].keys)
  <2>1. \A j \in 1..(T - 1) : j + T \in 1..Len(h[c].keys)
    <3>1. T \in Nat /\ Len(h[c].keys) = 2 * T - 1
      BY <1>1
    <3>2. \A j \in 1..(T - 1) : j + T \in 1..(2 * T - 1)
      BY <3>1
    <3>. QED  BY <3>1, <3>2
  <2>. QED  BY <1>2, <2>1 DEF IsIn
<1>6. IsIn(e, h[c].keys)
  <2>1. T \in 1..Len(h[c].keys)
    BY <1>1
  <2>. QED  BY <2>1 DEF IsIn
<1>7. IsIn(v, h[c].keys) => v = e \/ IsIn(v, u[c].keys) \/ IsIn(v, u[n + 1].keys)
  <2>1. SUFFICES ASSUME NEW j \in 1..Len(h[c].keys), v = h[c].keys[j]
                 PROVE  v = e \/ IsIn(v, u[c].keys) \/ IsIn(v, u[n + 1].keys)
    BY DEF IsIn
  <2>2. CASE j < T
    <3>1. j \in 1..(T - 1)
      BY <1>1, <2>2
    <3>. QED  BY <1>2, <2>1, <3>1 DEF IsIn
  <2>3. CASE j = T
    BY <2>1, <2>3
  <2>4. CASE T < j
    <3>1. j - T \in 1..(T - 1) /\ (j - T) + T = j
      <4>1. T \in Nat /\ j \in 1..(2 * T - 1)
        BY <1>1
      <4>. QED  BY <2>4, <4>1
    <3>2. u[n + 1].keys[j - T] = v
      BY <1>2, <2>1, <3>1
    <3>. QED  BY <1>2, <3>1, <3>2 DEF IsIn
  <2>. QED  BY <1>1, <2>2, <2>3, <2>4
<1>8. ASSUME NEW m \in 1..(n + 1), IsIn(v, u[m].keys)
      PROVE  IsIn(v, h[Origin(n, c, m)].keys) \/ (m = p /\ v = e)
  <2>1. CASE m = n + 1
    BY <1>5, <1>8, <2>1 DEF Origin
  <2>2. CASE m # n + 1
    <3>1. m \in 1..n /\ Origin(n, c, m) = m
      <4>1. n \in Nat
        BY <1>1
      <4>. QED  BY <2>2, <4>1 DEF Origin
    <3>. QED  BY <1>2, <1>3, <1>4, <1>8, <3>1
  <2>. QED  BY <2>1, <2>2
<1>9. ASSUME NEW m \in 1..(n + 1), IsIn(v, u[m].keys) PROVE \E w \in 1..n : IsIn(v, h[w].keys)
  <2>1. Origin(n, c, m) \in 1..n
    <3>1. n \in Nat /\ (m = n + 1 \/ m \in 1..n)
      BY <1>1
    <3>. QED  BY <3>1 DEF Origin
  <2>. QED  BY <1>6, <1>8, <1>9, <2>1
<1>10. ASSUME NEW m \in 1..n, IsIn(v, h[m].keys) PROVE \E w \in 1..(n + 1) : IsIn(v, u[w].keys)
  <2>1. m \in 1..(n + 1) /\ n + 1 \in 1..(n + 1) /\ p \in 1..(n + 1) /\ c \in 1..(n + 1)
    BY <1>1
  <2>2. CASE m = c
    BY <1>3, <1>7, <1>10, <2>1, <2>2
  <2>3. CASE m = p
    BY <1>3, <1>10, <2>1, <2>3
  <2>4. CASE m # c /\ m # p
    BY <1>2, <1>10, <2>1, <2>4
  <2>. QED  BY <2>2, <2>3, <2>4
<1>. QED  BY <1>8, <1>9, <1>10

SplitRanges(h, u, n, ht, dom, p, i, c, e) ==
  /\ Ranged(u, n + 1, Shared(n, dom, c, e), Deeper(n, ht, ht[c]))
  /\ e \in dom[c] /\ IsIn(e, h[c].keys) /\ u[p].keys[i] = e

(* After a split every value is looked for where it is.                    *)
LEMMA SplitRanged ==
  ASSUME Comparable(BValues), NEW h, NEW n, BTyped(h, n), NEW r \in 1..n, NEW ht, Levelled(h, n, r, ht),
         NEW dom, Ranged(h, n, dom, ht), NEW p \in 1..n, NEW i \in 1..Len(h[p].children),
         NEW c, c = h[p].children[i], NEW u, SplitTo(h, n, r, ht, p, i, c, u), NEW e, e = h[c].keys[T]
  PROVE  SplitRanges(h, u, n, ht, dom, p, i, c, e)
<1>1. /\ n \in Nat /\ c \in 1..n /\ c # p /\ Len(h[c].keys) = MaxKeys /\ ~h[p].leaf
      /\ Len(h[p].children) = Len(h[p].keys) + 1 /\ Halved(h, u, n, p, i, c) /\ BTyped(u, n + 1)
  BY DEF BTyped, SplitTo
<1>2. PICK hu, du : hu = Deeper(n, ht, ht[c]) /\ du = Shared(n, dom, c, e)
  OBVIOUS
<1>3. /\ ht \in [1..n -> Nat] /\ dom \in [1..n -> SUBSET BValues]
      /\ \A m \in 1..n : NodeFits(h[m], m = r, ht[m], ht) /\ RangedNode(h[m], dom[m], dom)
  BY DEF Levelled, Ranged
<1>4. /\ hu \in [1..(n + 1) -> Nat] /\ hu[n + 1] = ht[c] /\ \A m \in 1..n : hu[m] = ht[m]
  <2>1. n \in Nat /\ ht \in [1..n -> Nat] /\ ht[c] \in Nat
    BY <1>1, <1>3
  <2>2. hu = [m \in 1..(n + 1) |-> IF m = n + 1 THEN ht[c] ELSE ht[m]]
    BY <1>2, Zenon DEF Deeper
  <2>. QED  BY <2>1, <2>2, SMTT(40)
<1>5. /\ du \in [1..(n + 1) -> SUBSET BValues]
      /\ du[c] = { v \in dom[c] : Less(v, e) } /\ du[n + 1] = { v \in dom[c] : Less(e, v) }
      /\ \A m \in 1..n : m # c => du[m] = dom[m]
      /\ \A m \in 1..n : du[m] \subseteq dom[m]
  <2>1. du = Shared(n, dom, c, e) /\ n \in Nat /\ c \in 1..n /\ dom \in [1..n -> SUBSET BValues]
    BY <1>1, <1>2, <1>3
  <2>2. /\ n + 1 \in 1..(n + 1) /\ c \in 1..(n + 1) /\ c # n + 1
        /\ \A m \in 1..n : m \in 1..(n + 1) /\ m # n + 1
        /\ \A m \in 1..(n + 1) : m # n + 1 => m \in 1..n
    BY <2>1
  <2>3. /\ du[c] = { v \in dom[c] : Less(v, e) } /\ du[n + 1] = { v \in dom[c] : Less(e, v) }
        /\ \A m \in 1..n : m # c => du[m] = dom[m]
    BY <2>1, <2>2, Zenon DEF Shared
  <2>4. du \in [1..(n + 1) -> SUBSET BValues]
    <3>1. dom[c] \subseteq BValues
      BY <2>1
    <3>2. \A m \in 1..(n + 1) :
            (IF m = n + 1 THEN { v \in dom[c] : Less(e, v) }
             ELSE IF m = c THEN { v \in dom[c] : Less(v, e) } ELSE dom[m]) \in SUBSET BValues
      BY <2>1, <2>2, <3>1
    <3>. QED  BY <2>1, <3>2, Zenon DEF Shared
  <2>. QED  BY <2>3, <2>4
<1>6. /\ T \in 1..Len(h[c].keys) /\ Len(h[c].keys) = 2 * T - 1 /\ T \in Nat /\ Len(h[c].keys) # 0
  <2>1. T \in Nat /\ 2 <= T /\ Len(h[c].keys) = 2 * T - 1
    BY <1>1, Degree
  <2>. QED  BY <2>1
<1>7. e \in dom[c] /\ e \in BValues /\ IsIn(e, h[c].keys)
  BY <1>1, <1>3, <1>6 DEF RangedNode, IsIn
<1>8. ASSUME NEW x \in 1..n, NEW j \in 1..Len(h[x].children), h[x].children[j] = c
      PROVE  x = p /\ j = i
  <2>1. h[p].children[i] = c
    OBVIOUS
  <2>2. OnlyChild(h, n, p, i, c)
    BY <1>1, <1>6, <2>1, OneParent
  <2>. QED  BY <1>8, <2>2 DEF OnlyChild
<1>9. ASSUME NEW m \in 1..n
      PROVE  /\ h[m].keys \in Seq(BValues) /\ h[m].leaf \in BOOLEAN
             /\ \A j \in 1..Len(h[m].children) : h[m].children[j] \in 1..n
             /\ \A j \in 1..Len(h[m].keys) : h[m].keys[j] \in BValues
  BY BNodeParts
<1>10. /\ \A m \in 1..n : m # c /\ m # p => u[m] = h[m]
       /\ LowerHalf(h[c], u[c]) /\ UpperHalf(h[c], u[n + 1])
       /\ Inserted(h[p].keys, i, e, u[p].keys) /\ Inserted(h[p].children, i + 1, n + 1, u[p].children)
  BY <1>1 DEF Halved
<1>11. u[p].keys[i] = e
  BY <1>10 DEF Inserted
<1>12. /\ h[c].leaf => Len(h[c].children) = 0
       /\ ~h[c].leaf => Len(h[c].children) = 2 * T
       /\ ht[c] + 1 = ht[p]
       /\ ht[c] \in Nat
  <2>1. /\ h[c].leaf => Len(h[c].children) = 0
        /\ ~h[c].leaf => Len(h[c].children) = Len(h[c].keys) + 1
        /\ ht[c] + 1 = ht[p]
    BY <1>1, <1>3, Zenon DEF NodeFits
  <2>. QED  BY <1>1, <1>3, <1>6, <2>1, SMTT(40)
<1>13. \A j \in 1..Len(h[c].children) : du[h[c].children[j]] = dom[h[c].children[j]]
  BY <1>1, <1>5, <1>8, <1>9
<1>14. ASSUME NEW m \in 1..(n + 1) PROVE RangedNode(u[m], du[m], du)
  <2>1. CASE m \in 1..n /\ m # c /\ m # p
    <3>1. u[m] = h[m] /\ du[m] = dom[m] /\ RangedNode(h[m], dom[m], dom)
      BY <1>3, <1>5, <1>10, <2>1
    <3>2. \A j \in 1..Len(h[m].children) : du[h[m].children[j]] = dom[h[m].children[j]]
      BY <1>5, <1>8, <1>9, <2>1
    <3>. QED  BY <3>1, <3>2 DEF RangedNode
  <2>2. CASE m = c
    <3>1. h[c].keys \in Seq(BValues) /\ h[c].leaf \in BOOLEAN /\ RangedNode(h[c], dom[c], dom)
      BY <1>1, <1>3, <1>9
    <3>2. du[c] = { v \in dom[c] : Less(v, h[c].keys[T]) }
      BY <1>5
    <3>3. RangedNode(u[c], du[c], du)
      <4>1. ToHalve(h[c], dom[c], dom, du)
        BY <1>1, <1>12, <1>13, <3>1 DEF ToHalve
      <4>. QED  BY <1>10, <3>2, <4>1, RangedLower
    <3>. QED  BY <2>2, <3>3
  <2>3. CASE m = n + 1
    <3>1. h[c].keys \in Seq(BValues) /\ h[c].leaf \in BOOLEAN /\ RangedNode(h[c], dom[c], dom)
      BY <1>1, <1>3, <1>9
    <3>2. du[n + 1] = { v \in dom[c] : Less(h[c].keys[T], v) }
      BY <1>5
    <3>3. RangedNode(u[n + 1], du[n + 1], du)
      <4>1. ToHalve(h[c], dom[c], dom, du)
        BY <1>1, <1>12, <1>13, <3>1 DEF ToHalve
      <4>. QED  BY <1>10, <3>2, <4>1, RangedUpper
    <3>. QED  BY <2>3, <3>3
  <2>4. CASE m = p
    <3>1. \A j \in 1..Len(h[p].children) : j # i => du[h[p].children[j]] = dom[h[p].children[j]]
      BY <1>5, <1>8, <1>9
    <3>2. RangedNode(u[p], dom[p], du)
      <4>1. /\ h[p].keys \in Seq(BValues) /\ RangedNode(h[p], dom[p], dom) /\ e \in dom[h[p].children[i]]
            /\ du[h[p].children[i]] = { v \in dom[h[p].children[i]] : Less(v, e) }
            /\ du[n + 1] = { v \in dom[h[p].children[i]] : Less(e, v) }
        BY <1>3, <1>5, <1>7, <1>9
      <4>2. ToGrow(h[p], dom[p], dom, i, e, n + 1, du)
        BY <1>1, <3>1, <4>1 DEF ToGrow
      <4>. QED  BY <1>10, <4>2, RangedParent
    <3>3. du[p] = dom[p]
      BY <1>1, <1>5
    <3>. QED  BY <2>4, <3>2, <3>3
  <2>5. m \in 1..n \/ m = n + 1
    BY <1>1
  <2>. QED  BY <2>1, <2>2, <2>3, <2>4, <2>5
<1>15. ASSUME NEW m \in 1..(n + 1)
       PROVE  /\ Origin(n, c, m) \in 1..n /\ hu[m] = ht[Origin(n, c, m)] /\ du[m] \subseteq dom[Origin(n, c, m)]
              /\ e \notin du[m] \/ Origin(n, c, m) # c
  <2>1. CASE m = n + 1
    BY <1>1, <1>4, <1>5, <1>7, <2>1, BOrder DEF Origin
  <2>2. CASE m \in 1..n /\ m # n + 1
    <3>1. Origin(n, c, m) = m
      BY <2>2 DEF Origin
    <3>2. e \notin du[c]
      BY <1>5, <1>7, BOrder
    <3>. QED  BY <1>4, <1>5, <2>2, <3>1, <3>2
  <2>. QED  BY <1>1, <2>1, <2>2
<1>16. ASSUME NEW m \in 1..(n + 1), NEW w \in 1..(n + 1), m # w, hu[m] = hu[w] PROVE du[m] \intersect du[w] = {}
  <2>1. CASE Origin(n, c, m) # Origin(n, c, w)
    <3>1. dom[Origin(n, c, m)] \intersect dom[Origin(n, c, w)] = {}
      BY <1>15, <1>16, <2>1 DEF Ranged
    <3>. QED  BY <1>15, <3>1
  <2>2. CASE Origin(n, c, m) = Origin(n, c, w)
    <3>1. (m = c /\ w = n + 1) \/ (w = c /\ m = n + 1)
      BY <1>16, <2>2 DEF Origin
    <3>2. du[c] \intersect du[n + 1] = {}
      <4>1. \A v \in dom[c] : v \in BValues
        BY <1>1, <1>3
      <4>. QED  BY <1>5, <1>7, <4>1, BOrder
    <3>. QED  BY <3>1, <3>2
  <2>. QED  BY <2>1, <2>2
<1>17. ASSUME NEW m \in 1..(n + 1), NEW w \in 1..(n + 1), hu[m] < hu[w], NEW j \in 1..Len(u[w].keys)
       PROVE  u[w].keys[j] \notin du[m]
  <2>1. PICK v : v = u[w].keys[j]
    OBVIOUS
  <2>2. IsIn(v, u[w].keys)
    BY <2>1 DEF IsIn
  <2>3. IsIn(v, h[Origin(n, c, w)].keys) \/ (w = p /\ v = e)
    <3>1. KeysSplit(h, u, n, p, c, e)
      BY <1>1, SplitKeys
    <3>. QED  BY <2>2, <3>1, Zenon DEF KeysSplit
  <2>4. CASE IsIn(v, h[Origin(n, c, w)].keys)
    <3>1. ht[Origin(n, c, m)] < ht[Origin(n, c, w)]
      BY <1>15, <1>17
    <3>2. v \notin dom[Origin(n, c, m)]
      BY <1>15, <2>4, <3>1, SMTT(40) DEF Ranged, IsIn
    <3>. QED  BY <1>15, <2>1, <3>2
  <2>5. CASE w = p /\ v = e
    <3>1. ht[Origin(n, c, m)] < ht[c] + 1 /\ ht[Origin(n, c, m)] \in Nat
      <4>1. Origin(n, c, p) = p
        BY <1>1 DEF Origin
      <4>2. ht[Origin(n, c, m)] \in Nat
        BY <1>3, <1>15
      <4>. QED  BY <1>12, <1>15, <1>17, <2>5, <4>1, <4>2
    <3>2. CASE Origin(n, c, m) = c
      BY <1>15, <2>1, <2>5, <3>2
    <3>3. CASE Origin(n, c, m) # c /\ ht[Origin(n, c, m)] = ht[c]
      <4>1. e \notin dom[Origin(n, c, m)]
        <5>1. \A a, b \in 1..n : a # b /\ ht[a] = ht[b] => dom[a] \intersect dom[b] = {}
          BY <1>1, Zenon DEF Ranged
        <5>2. c \in 1..n /\ Origin(n, c, m) \in 1..n
          BY <1>1, <1>15
        <5>3. dom[Origin(n, c, m)] \intersect dom[c] = {}
          BY <3>3, <5>1, <5>2, Zenon
        <5>. QED  BY <1>7, <5>3
      <4>. QED  BY <1>15, <2>1, <2>5, <4>1
    <3>4. CASE ht[Origin(n, c, m)] < ht[c]
      <4>1. e \notin dom[Origin(n, c, m)]
        <5>1. \A j2 \in 1..Len(h[c].keys) : h[c].keys[j2] \notin dom[Origin(n, c, m)]
          <6>1. \A a, b \in 1..n :
                  ht[a] < ht[b] => \A j2 \in 1..Len(h[b].keys) : h[b].keys[j2] \notin dom[a]
            BY <1>1, Zenon DEF Ranged
          <6>2. c \in 1..n /\ Origin(n, c, m) \in 1..n
            BY <1>1, <1>15
          <6>. QED  BY <3>4, <6>1, <6>2, Zenon
        <5>. QED  BY <1>6, <5>1, Zenon
      <4>. QED  BY <1>15, <2>1, <2>5, <4>1
    <3>. QED  BY <1>12, <3>1, <3>2, <3>3, <3>4, SMTT(40)
  <2>. QED  BY <2>3, <2>4, <2>5
<1>18. Ranged(u, n + 1, du, hu)
  BY <1>5, <1>14, <1>16, <1>17 DEF Ranged
<1>. QED  BY <1>2, <1>7, <1>11, <1>18, Zenon DEF SplitRanges

-----------------------------------------------------------------------------
(* The root is looked at for every value, and alone at its level.          *)
Top(n, r, dom, ht) == dom[r] = BValues /\ \A m \in 1..n : m # r => ht[m] < ht[r]

Told(h, n, r, ht, dom) ==
  /\ BTyped(h, n) /\ r \in 1..n
  /\ Levelled(h, n, r, ht) /\ Ranged(h, n, dom, ht) /\ Top(n, r, dom, ht)

Widened(n, dom) == [m \in 1..(n + 1) |-> IF m = n + 1 THEN BValues ELSE dom[m]]

(* The new root holds every value.                                         *)
LEMMA GrownTold ==
  ASSUME NEW h, NEW n, NEW r, NEW ht, NEW dom, Told(h, n, r, ht, dom), NEW g, GrownTo(h, n, r, ht, g)
  PROVE  Told(g, n + 1, n + 1, Deeper(n, ht, ht[r] + 1), Widened(n, dom))
<1>1. PICK hu, du : hu = Deeper(n, ht, ht[r] + 1) /\ du = Widened(n, dom)
  OBVIOUS
<1>2. /\ BTyped(h, n) /\ n \in Nat /\ r \in 1..n /\ ht \in [1..n -> Nat] /\ dom \in [1..n -> SUBSET BValues]
      /\ dom[r] = BValues /\ \A m \in 1..n : m # r => ht[m] < ht[r]
  BY DEF Told, BTyped, Levelled, Ranged, Top
<1>3. /\ hu \in [1..(n + 1) -> Nat] /\ hu[n + 1] = ht[r] + 1 /\ \A m \in 1..n : hu[m] = ht[m] /\ hu[m] < hu[n + 1]
  <2>1. ht[r] + 1 \in Nat /\ \A m \in 1..n : ht[m] < ht[r] + 1
    BY <1>2
  <2>. QED  BY <1>1, <1>2, <2>1 DEF Deeper
<1>4. /\ du \in [1..(n + 1) -> SUBSET BValues] /\ du[n + 1] = BValues /\ \A m \in 1..n : du[m] = dom[m]
  BY <1>1, <1>2 DEF Widened
<1>5. /\ BTyped(g, n + 1) /\ Levelled(g, n + 1, n + 1, hu) /\ n + 1 \in 1..(n + 1)
      /\ \A m \in 1..n : g[m] = h[m]
      /\ Len(g[n + 1].keys) = 0 /\ Len(g[n + 1].children) = 1 /\ g[n + 1].children[1] = r
  BY <1>1 DEF GrownTo, OneMore
<1>6. ASSUME NEW m \in 1..(n + 1) PROVE RangedNode(g[m], du[m], du)
  <2>1. CASE m \in 1..n
    <3>1. g[m] = h[m] /\ du[m] = dom[m] /\ RangedNode(h[m], dom[m], dom)
      BY <1>4, <1>5, <2>1 DEF Told, Ranged
    <3>2. \A j \in 1..Len(h[m].children) : du[h[m].children[j]] = dom[h[m].children[j]]
      BY <1>2, <1>4, <2>1, BNodeParts
    <3>. QED  BY <3>1, <3>2 DEF RangedNode
  <2>2. CASE m = n + 1
    <3>1. Between(BValues, g[n + 1].keys, 1) = BValues
      BY <1>5 DEF Between, Gap
    <3>2. du[r] = BValues /\ \A j \in 1..Len(g[n + 1].children) : j = 1
      BY <1>2, <1>4, <1>5
    <3>. QED  BY <1>4, <1>5, <2>2, <3>1, <3>2 DEF RangedNode, Rising
  <2>. QED  BY <1>2, <2>1, <2>2
<1>7. ASSUME NEW m \in 1..(n + 1), NEW w \in 1..(n + 1), m # w, hu[m] = hu[w] PROVE du[m] \intersect du[w] = {}
  <2>1. m \in 1..n /\ w \in 1..n
    BY <1>2, <1>3, <1>7, SMTT(40)
  <2>. QED  BY <1>3, <1>4, <1>7, <2>1 DEF Told, Ranged
<1>8. ASSUME NEW m \in 1..(n + 1), NEW w \in 1..(n + 1), hu[m] < hu[w], NEW j \in 1..Len(g[w].keys)
      PROVE  g[w].keys[j] \notin du[m]
  <2>1. w \in 1..n
    BY <1>2, <1>5, <1>8
  <2>2. m \in 1..n
    <3>1. hu[w] < hu[n + 1] /\ hu[w] \in Nat /\ hu[n + 1] \in Nat /\ hu[m] \in Nat
      BY <1>2, <1>3, <2>1
    <3>2. m # n + 1
      BY <1>8, <3>1
    <3>. QED  BY <1>2, <3>2
  <2>. QED  BY <1>3, <1>4, <1>5, <1>8, <2>1, <2>2 DEF Told, Ranged
<1>9. Ranged(g, n + 1, du, hu)
  BY <1>4, <1>6, <1>7, <1>8 DEF Ranged
<1>10. Top(n + 1, n + 1, du, hu)
  BY <1>2, <1>3, <1>4 DEF Top
<1>. QED  BY <1>1, <1>5, <1>9, <1>10, Zenon DEF Told

(* A split below the root leaves the root alone.                           *)
LEMMA SplitTold ==
  ASSUME Comparable(BValues), NEW h, NEW n, NEW r, NEW ht, NEW dom, Told(h, n, r, ht, dom),
         NEW p \in 1..n, NEW i \in 1..Len(h[p].children), NEW c, c = h[p].children[i],
         NEW u, SplitTo(h, n, r, ht, p, i, c, u)
  PROVE  Told(u, n + 1, r, Deeper(n, ht, ht[c]), Shared(n, dom, c, h[c].keys[T]))
<1>1. PICK hu, du, e : hu = Deeper(n, ht, ht[c]) /\ du = Shared(n, dom, c, e) /\ e = h[c].keys[T]
  OBVIOUS
<1>2. /\ BTyped(h, n) /\ n \in Nat /\ r \in 1..n /\ ht \in [1..n -> Nat] /\ dom \in [1..n -> SUBSET BValues]
      /\ dom[r] = BValues /\ \A m \in 1..n : m # r => ht[m] < ht[r]
      /\ Levelled(h, n, r, ht) /\ Ranged(h, n, dom, ht)
  BY DEF Told, BTyped, Levelled, Ranged, Top
<1>3. c \in 1..n /\ BTyped(u, n + 1) /\ Levelled(u, n + 1, r, hu)
  BY <1>1 DEF SplitTo
<1>4. Ranged(u, n + 1, du, hu)
  <2>1. SplitRanges(h, u, n, ht, dom, p, i, c, e)
    BY <1>1, <1>2, SplitRanged
  <2>. QED  BY <1>1, <2>1, Zenon DEF SplitRanges
<1>5. ht[c] + 1 = ht[p]
  <2>1. NodeFits(h[p], p = r, ht[p], ht)
    BY <1>2 DEF Levelled
  <2>. QED  BY <2>1, Zenon DEF NodeFits
<1>6. ht[c] < ht[r] /\ c # r
  <2>1. ht[c] \in Nat /\ ht[p] \in Nat /\ ht[r] \in Nat
    BY <1>2, <1>3
  <2>2. p # r => ht[p] < ht[r]
    BY <1>2
  <2>. QED  BY <1>5, <2>1, <2>2, SMTT(40)
<1>7. hu[n + 1] = ht[c] /\ \A m \in 1..n : hu[m] = ht[m]
  <2>1. ht[c] \in Nat
    BY <1>2, <1>3
  <2>2. hu = [m \in 1..(n + 1) |-> IF m = n + 1 THEN ht[c] ELSE ht[m]]
    BY <1>1, Zenon DEF Deeper
  <2>3. n + 1 \in 1..(n + 1) /\ \A m \in 1..n : m \in 1..(n + 1) /\ m # n + 1
    BY <1>2
  <2>. QED  BY <2>2, <2>3, Zenon
<1>8. du[r] = dom[r]
  <2>1. \A m \in 1..n : m # c => du[m] = dom[m]
    <3>1. du = Shared(n, dom, c, e) /\ n \in Nat
      BY <1>1, <1>2
    <3>2. \A m \in 1..n : m \in 1..(n + 1) /\ m # n + 1
      BY <3>1
    <3>. QED  BY <3>1, <3>2, Zenon DEF Shared
  <2>. QED  BY <1>2, <1>6, <2>1
<1>9. Top(n + 1, r, du, hu)
  <2>1. ASSUME NEW m \in 1..(n + 1), m # r PROVE hu[m] < hu[r]
    <3>1. m = n + 1 \/ m \in 1..n
      BY <1>2
    <3>. QED  BY <1>2, <1>6, <1>7, <2>1, <3>1
  <2>. QED  BY <1>2, <1>8, <2>1 DEF Top
<1>10. r \in 1..(n + 1)
  BY <1>2
<1>. QED  BY <1>1, <1>3, <1>4, <1>9, <1>10, Zenon DEF Told

(* A value that belongs in a leaf is put in there.                         *)
LEMMA KeyPutTold ==
  ASSUME Comparable(BValues), NEW h, NEW n, NEW r, NEW ht, NEW dom, Told(h, n, r, ht, dom),
         NEW a \in 1..n, h[a].leaf, NEW v \in dom[a], NEW i \in 1..(Len(h[a].keys) + 1), Gap(h[a].keys, i, v),
         NEW u, KeyPut(h, n, r, ht, a, i, v, u)
  PROVE  Told(u, n, r, ht, dom)
<1>1. /\ BTyped(h, n) /\ n \in Nat /\ r \in 1..n /\ ht \in [1..n -> Nat] /\ dom \in [1..n -> SUBSET BValues]
      /\ Levelled(h, n, r, ht) /\ Ranged(h, n, dom, ht) /\ Top(n, r, dom, ht)
  BY DEF Told, BTyped, Levelled, Ranged
<1>2. /\ BTyped(u, n) /\ Levelled(u, n, r, ht)
      /\ Inserted(h[a].keys, i, v, u[a].keys) /\ u[a].children = h[a].children
      /\ \A m \in 1..n : m # a => u[m] = h[m]
  BY DEF KeyPut
<1>3. ht[a] = 0 /\ Len(h[a].children) = 0
  <2>1. NodeFits(h[a], a = r, ht[a], ht)
    BY <1>1 DEF Levelled
  <2>. QED  BY <2>1, Zenon DEF NodeFits
<1>4. ASSUME NEW m \in 1..n PROVE RangedNode(u[m], dom[m], dom)
  <2>1. CASE m # a
    BY <1>1, <1>2, <2>1 DEF Ranged
  <2>2. CASE m = a
    <3>1. RangedNode(h[a], dom[a], dom) /\ h[a].keys \in Seq(BValues) /\ v \in BValues
      BY <1>1, BNodeParts DEF Ranged
    <3>2. Rising(u[a].keys)
      BY <1>2, <3>1, InsertedSorted DEF RangedNode
    <3>3. ASSUME NEW j \in 1..Len(u[a].keys) PROVE u[a].keys[j] \in dom[a]
      <4>1. IsIn(u[a].keys[j], u[a].keys)
        BY DEF IsIn
      <4>2. u[a].keys[j] = v \/ IsIn(u[a].keys[j], h[a].keys)
        BY <1>2, <3>1, <4>1, InsertedElements
      <4>. QED  BY <3>1, <4>2 DEF IsIn, RangedNode
    <3>4. \A j \in 1..Len(u[a].children) : dom[u[a].children[j]] = Between(dom[a], u[a].keys, j)
      BY <1>2, <1>3
    <3>. QED  BY <2>2, <3>1, <3>2, <3>3, <3>4 DEF RangedNode
  <2>. QED  BY <2>1, <2>2
<1>5. ASSUME NEW m \in 1..n, NEW w \in 1..n, ht[m] < ht[w], NEW j \in 1..Len(u[w].keys)
      PROVE  u[w].keys[j] \notin dom[m]
  <2>1. w # a
    BY <1>1, <1>3, <1>5
  <2>. QED  BY <1>1, <1>2, <1>5, <2>1 DEF Ranged
<1>6. Ranged(u, n, dom, ht)
  BY <1>1, <1>4, <1>5 DEF Ranged
<1>. QED  BY <1>1, <1>2, <1>6, Zenon DEF Told

(* A value that is looked for at a leaf is nowhere else.                   *)
LEMMA OnlyInLeaf ==
  ASSUME NEW h, NEW n, NEW r, NEW ht, NEW dom, Told(h, n, r, ht, dom), NEW a \in 1..n, h[a].leaf,
         NEW v \in dom[a], NEW m \in 1..n, IsIn(v, h[m].keys)
  PROVE  m = a
<1>1. /\ ht \in [1..n -> Nat] /\ NodeFits(h[a], a = r, ht[a], ht) /\ RangedNode(h[m], dom[m], dom)
      /\ Ranged(h, n, dom, ht)
  BY DEF Told, Levelled, Ranged
<1>2. ht[a] = 0 /\ ht[m] \in Nat
  BY <1>1 DEF NodeFits
<1>3. v \in dom[m]
  BY <1>1 DEF RangedNode, IsIn
<1>4. CASE ht[m] = 0
  BY <1>1, <1>2, <1>3, <1>4 DEF Ranged
<1>5. CASE ht[m] # 0
  <2>1. ht[a] < ht[m]
    BY <1>2, <1>5
  <2>. QED  BY <1>1, <2>1 DEF Ranged, IsIn
<1>. QED  BY <1>4, <1>5

(* Where a search goes on.                                                 *)
LEMMA PlaceGap ==
  ASSUME Comparable(BValues), bkey \in BValues, NEW s \in Seq(BValues), Rising(s),
         ~(PlaceIn(s) <= Len(s) /\ Same(bkey, s[PlaceIn(s)]))
  PROVE  Gap(s, PlaceIn(s), bkey)
<1>1. PICK i : i = PlaceIn(s)
  OBVIOUS
<1>2. /\ i \in 1..(Len(s) + 1) /\ \A j \in 1..Len(s) : j < i => Less(s[j], bkey)
      /\ i <= Len(s) => ~Less(s[i], bkey)
      /\ ~(i <= Len(s) /\ Same(bkey, s[i]))
  BY <1>1, PlaceInIs
<1>3. Len(s) \in Nat /\ \A j \in 1..Len(s) : s[j] \in BValues
  OBVIOUS
<1>4. i \in 1..Len(s) => Less(bkey, s[i])
  <2>1. i \in 1..Len(s) => i <= Len(s)
    BY <1>3
  <2>. QED  BY <1>2, <1>3, <2>1, BOrder
<1>5. ASSUME NEW j \in 1..Len(s), i <= j PROVE Less(bkey, s[j])
  <2>1. i \in 1..Len(s) /\ (i = j \/ i < j)
    BY <1>2, <1>3, <1>5
  <2>2. i < j => Less(s[i], s[j])
    BY <2>1 DEF Rising
  <2>. QED  BY <1>3, <1>4, <2>1, <2>2, BOrder
<1>6. Gap(s, i, bkey)
  BY <1>2, <1>5 DEF Gap
<1>. QED  BY <1>1, <1>6

(* Where a new value belongs.                                              *)
LEMMA AfterGap ==
  ASSUME Comparable(BValues), bkey \in BValues, NEW s \in Seq(BValues), Rising(s),
         \A j \in 1..Len(s) : ~Same(s[j], bkey)
  PROVE  Gap(s, AfterIn(s), bkey)
<1>1. PICK i : i = AfterIn(s)
  OBVIOUS
<1>2. /\ i \in 1..(Len(s) + 1) /\ \A j \in 1..Len(s) : i <= j => Less(bkey, s[j])
      /\ 1 < i => ~Less(bkey, s[i - 1])
  BY <1>1, AfterInIs
<1>3. Len(s) \in Nat /\ \A j \in 1..Len(s) : s[j] \in BValues
  OBVIOUS
<1>4. ASSUME NEW j \in 1..Len(s), j < i PROVE Less(s[j], bkey)
  <2>1. PICK k : k = i - 1
    OBVIOUS
  <2>2. k \in 1..Len(s) /\ 1 < i /\ (j = k \/ j < k)
    BY <1>2, <1>3, <1>4, <2>1
  <2>3. ~Less(bkey, s[k]) /\ ~Same(s[k], bkey) /\ s[k] \in BValues
    BY <1>2, <1>3, <2>1, <2>2
  <2>4. Less(s[k], bkey)
    BY <2>3, BOrder
  <2>5. j < k => Less(s[j], s[k])
    BY <2>2 DEF Rising
  <2>. QED  BY <1>3, <2>2, <2>3, <2>4, <2>5, BOrder
<1>5. Gap(s, i, bkey)
  BY <1>2, <1>4 DEF Gap
<1>. QED  BY <1>1, <1>5

(* A value that belongs between the keys is none of them.                  *)
LEMMA GapDiffers ==
  ASSUME Comparable(BValues), NEW s \in Seq(BValues), NEW i \in 1..(Len(s) + 1), NEW v \in BValues, Gap(s, i, v),
         NEW w, IsIn(w, s)
  PROVE  ~Same(w, v) /\ w # v
<1>1. PICK j \in 1..Len(s) : w = s[j]
  BY DEF IsIn
<1>2. j < i \/ i <= j
  OBVIOUS
<1>3. Less(w, v) \/ Less(v, w)
  BY <1>1, <1>2 DEF Gap
<1>4. w \in BValues
  BY <1>1
<1>. QED  BY <1>3, <1>4, BOrder

(* The ends of what a node is looked at for are with its first and last    *)
(* child.                                                                  *)
Ahead(D) == \A v \in D, x \in BValues \ D : Less(v, x)
Behind(D) == \A v \in D, x \in BValues \ D : Less(x, v)

(* What is ahead of all else, stays so in the first child.                 *)
LEMMA FirstAhead ==
  ASSUME Comparable(BValues), NEW D \in SUBSET BValues, NEW s \in Seq(BValues), Ahead(D)
  PROVE  Ahead(Between(D, s, 1))
<1> SUFFICES ASSUME NEW v \in Between(D, s, 1), NEW x \in BValues \ Between(D, s, 1) PROVE Less(v, x)
  BY DEF Ahead
<1>1. v \in D /\ \A j \in 1..Len(s) : Less(v, s[j])
  BY DEF Between, Gap
<1>2. CASE x \in D
  <2>1. PICK j \in 1..Len(s) : ~Less(x, s[j])
    BY <1>2 DEF Between, Gap
  <2>2. s[j] \in BValues
    OBVIOUS
  <2>. QED  BY <1>1, <2>1, <2>2, BOrder
<1>3. CASE x \notin D
  BY <1>1, <1>3 DEF Ahead
<1>. QED  BY <1>2, <1>3

(* What is behind all else, stays so in the last child.                    *)
LEMMA LastBehind ==
  ASSUME Comparable(BValues), NEW D \in SUBSET BValues, NEW s \in Seq(BValues), Behind(D)
  PROVE  Behind(Between(D, s, Len(s) + 1))
<1> SUFFICES ASSUME NEW v \in Between(D, s, Len(s) + 1), NEW x \in BValues \ Between(D, s, Len(s) + 1) PROVE Less(x, v)
  BY DEF Behind
<1>0. \A j \in 1..Len(s) : j < Len(s) + 1 /\ ~(Len(s) + 1 <= j) /\ s[j] \in BValues
  OBVIOUS
<1>1. v \in D /\ \A j \in 1..Len(s) : Less(s[j], v)
  BY <1>0 DEF Between, Gap
<1>2. CASE x \in D
  <2>1. PICK j \in 1..Len(s) : ~Less(s[j], x)
    BY <1>0, <1>2 DEF Between, Gap
  <2>. QED  BY <1>0, <1>1, <2>1, BOrder
<1>3. CASE x \notin D
  BY <1>1, <1>3 DEF Behind
<1>. QED  BY <1>2, <1>3

-----------------------------------------------------------------------------
(* The values of the nodes.                                                *)
Holding(h, n) == { v \in BValues : \E m \in 1..n : IsIn(v, h[m].keys) }

(* They are the union of the keys.                                         *)
LEMMA HeldValues ==
  ASSUME NEW h, NEW n, BTyped(h, n)
  PROVE  UNION { ToSet(h[m].keys) : m \in 1..n } = Holding(h, n)
<1>1. ASSUME NEW m \in 1..n PROVE \A v : v \in ToSet(h[m].keys) <=> v \in BValues /\ IsIn(v, h[m].keys)
  <2>1. h[m].keys \in Seq(BValues)
    BY BNodeParts
  <2>. QED  BY <2>1 DEF ToSet, IsIn
<1>. QED  BY <1>1 DEF Holding

(* The members are the values of the nodes.                                *)
LEMMA MembersHeld ==
  ASSUME BTypeOK
  PROVE  BMembers = Holding(bnodes, Len(bnodes)) /\ BMembers \subseteq BValues
<1>1. BMembers = UNION { ToSet(bnodes[m].keys) : m \in 1..Len(bnodes) }
  BY DEF BMembers, BIds
<1>. QED  BY <1>1, HeldValues, NodesTyped DEF Holding

At(dom) ==
  /\ bdoing \in {"insert", "contains", "place"} => bkey \in dom[bat]
  /\ bdoing = "min" => Ahead(dom[bat])
  /\ bdoing = "max" => Behind(dom[bat])

Ordered(ht, dom) == Told(bnodes, Len(bnodes), broot, ht, dom) /\ At(dom)

BContent ==
  /\ IsFiniteSet(BMembers) /\ bcount = Cardinality(BMembers)
  /\ bdoing = "place" => \A v \in BMembers : ~Same(v, bkey)
  /\ broot # 0 => \E ht, dom : Ordered(ht, dom)

(* A step that changes no node.                                            *)
LEMMA KeptContent ==
  ASSUME BContent, UNCHANGED <<bnodes, broot, bcount>>,
         bdoing' = "place" => \A v \in BMembers : ~Same(v, bkey'),
         NEW ht, NEW dom, broot # 0 => Told(bnodes, Len(bnodes), broot, ht, dom) /\ At(dom)'
  PROVE  BContent' /\ BMembers' = BMembers /\ bcount' = bcount
<1>1. BMembers' = BMembers
  BY DEF BMembers, BIds
<1>2. broot' # 0 => Ordered(ht, dom)'
  <2>1. broot' # 0 => Told(bnodes', Len(bnodes'), broot', ht, dom)
    BY Zenon
  <2>2. Told(bnodes', Len(bnodes'), broot', ht, dom) <=> Told(bnodes, Len(bnodes), broot, ht, dom)'
    BY DEF Told, BTyped, BNodeOf, Levelled, NodeFits, Ranged, RangedNode, Between, Gap, Rising, Top, MaxKeys, T
  <2>. QED  BY <2>1, <2>2 DEF Ordered
<1>. QED  BY <1>1, <1>2 DEF BContent

(* What is known of a node.                                                *)
LEMMA NodeKnown ==
  ASSUME Fit, NEW ht, NEW dom, Told(bnodes, Len(bnodes), broot, ht, dom), NEW m \in BIds
  PROVE  /\ bnodes[m].keys \in Seq(BValues) /\ Rising(bnodes[m].keys) /\ Len(bnodes[m].keys) # 0
         /\ Len(bnodes[m].keys) \in Nat
         /\ dom[m] \subseteq BValues /\ \A v \in dom[m], w \in BValues : Same(v, w) => w \in dom[m]
         /\ \A j \in 1..Len(bnodes[m].keys) : bnodes[m].keys[j] \in dom[m]
         /\ \A j \in 1..Len(bnodes[m].children) :
              dom[bnodes[m].children[j]] = Between(dom[m], bnodes[m].keys, j)
         /\ ~bnodes[m].leaf => Len(bnodes[m].children) = Len(bnodes[m].keys) + 1
         /\ m \in 1..Len(bnodes)
<1>1. Levelled(bnodes, Len(bnodes), broot, ht) /\ Ranged(bnodes, Len(bnodes), dom, ht) /\ m \in 1..Len(bnodes)
  BY DEF Told, BIds
<1>2. RangedNode(bnodes[m], dom[m], dom)
  BY <1>1 DEF Ranged
<1>3. /\ bnodes[m].keys \in Seq(BValues) /\ Len(bnodes[m].keys) # 0 /\ Len(bnodes[m].keys) \in Nat
      /\ ~bnodes[m].leaf => Len(bnodes[m].children) = Len(bnodes[m].keys) + 1
  BY <1>1, FitNode
<1>. QED  BY <1>1, <1>2, <1>3, Zenon DEF RangedNode

(* The values that a search has come to a leaf for are those of the leaf.  *)
LEMMA LeafHolds ==
  ASSUME Fit, NEW ht, NEW dom, Told(bnodes, Len(bnodes), broot, ht, dom), NEW a \in BIds, bnodes[a].leaf,
         NEW v \in BMembers, v \in dom[a]
  PROVE  IsIn(v, bnodes[a].keys)
<1>1. PICK m \in 1..Len(bnodes) : IsIn(v, bnodes[m].keys)
  BY MembersHeld DEF Fit, Holding
<1>2. a \in 1..Len(bnodes)
  BY DEF BIds
<1>3. m = a
  BY <1>1, <1>2, OnlyInLeaf
<1>. QED  BY <1>1, <1>3

(* A search that ends at a leaf without a hit has missed nothing.          *)
LEMMA SearchMissed ==
  ASSUME Comparable(BValues), Fit, BContent, BSearching, ~Hit(bat), bnodes[bat].leaf
  PROVE  \A v \in BMembers : ~Same(v, bkey)
<1>1. PICK ht, dom : Told(bnodes, Len(bnodes), broot, ht, dom) /\ bkey \in dom[bat]
  BY DEF BContent, BSearching, Ordered, At
<1>2. bat \in BIds /\ bkey \in BValues
  BY DEF Fit, BSearching
<1>3. /\ bnodes[bat].keys \in Seq(BValues) /\ Rising(bnodes[bat].keys)
      /\ \A v \in dom[bat], w \in BValues : Same(v, w) => w \in dom[bat]
  BY <1>1, <1>2, NodeKnown
<1>4. Gap(bnodes[bat].keys, PlaceIn(bnodes[bat].keys), bkey)
  BY <1>2, <1>3, PlaceGap, PlaceOf DEF Hit
<1>5. PlaceIn(bnodes[bat].keys) \in 1..(Len(bnodes[bat].keys) + 1)
  BY <1>3, PlaceInIs
<1>6. ASSUME NEW v \in BMembers, Same(v, bkey) PROVE FALSE
  <2>1. v \in BValues
    BY MembersHeld DEF Fit
  <2>2. Same(bkey, v)
    BY <1>2, <1>6, <2>1, BOrder
  <2>3. v \in dom[bat]
    BY <1>1, <1>3, <2>1, <2>2
  <2>4. IsIn(v, bnodes[bat].keys)
    BY <1>1, <1>2, <2>3, LeafHolds
  <2>5. ~Same(v, bkey)
    BY <1>2, <1>3, <1>4, <1>5, <2>4, GapDiffers
  <2>. QED  BY <1>6, <2>5
<1>. QED  BY <1>6

(* A hit is a member.                                                      *)
LEMMA SearchHit ==
  ASSUME Comparable(BValues), Fit, BSearching, Hit(bat)
  PROVE  \E v \in BMembers : Same(v, bkey)
<1>1. bat \in BIds /\ bkey \in BValues /\ BTypeOK
  BY DEF Fit, BSearching
<1>2. PICK j \in 1..(Len(bnodes[bat].keys) + 1) : j = Place(bat)
  <2>1. bnodes[bat].keys \in Seq(BValues)
    BY <1>1, NodesTyped, BNodeParts
  <2>. QED  BY <2>1, PlaceInIs, PlaceOf
<1>3. /\ bnodes[bat].keys \in Seq(BValues) /\ BTyped(bnodes, Len(bnodes)) /\ bat \in 1..Len(bnodes)
  BY <1>1, NodesTyped, BNodeParts
<1>4. j \in 1..Len(bnodes[bat].keys) /\ Same(bkey, bnodes[bat].keys[j])
  <2>1. Len(bnodes[bat].keys) \in Nat /\ j <= Len(bnodes[bat].keys)
    BY <1>2, <1>3 DEF Hit
  <2>. QED  BY <1>2, <2>1 DEF Hit
<1>5. PICK v \in BValues : v = bnodes[bat].keys[j]
  BY <1>3, <1>4
<1>6. v \in Holding(bnodes, Len(bnodes))
  BY <1>3, <1>4, <1>5 DEF Holding, IsIn
<1>7. v \in BMembers
  BY <1>1, <1>6, MembersHeld
<1>8. Same(v, bkey)
  BY <1>1, <1>4, <1>5, BOrder
<1>. QED  BY <1>7, <1>8

(* min() returns the least member.                                         *)
LEMMA ArrivedFirst ==
  ASSUME Comparable(BValues), Fit, BContent, bdoing = "min", broot # 0, bnodes[bat].leaf
  PROVE  /\ Head(bnodes[bat].keys) \in BMembers
         /\ \A v \in BMembers : v # Head(bnodes[bat].keys) => Less(Head(bnodes[bat].keys), v)
<1>1. PICK ht, dom : Told(bnodes, Len(bnodes), broot, ht, dom) /\ Ahead(dom[bat])
  BY DEF BContent, Ordered, At
<1>2. bat \in BIds /\ BTypeOK
  BY DEF Fit
<1>3. PICK s : s = bnodes[bat].keys
  OBVIOUS
<1>4. /\ s \in Seq(BValues) /\ Rising(s) /\ Len(s) # 0 /\ Len(s) \in Nat /\ bat \in 1..Len(bnodes)
      /\ \A j \in 1..Len(s) : s[j] \in dom[bat]
  BY <1>1, <1>2, <1>3, NodeKnown
<1>5. Head(s) = s[1] /\ 1 \in 1..Len(s) /\ s[1] \in BValues
  BY <1>4
<1>6. s[1] \in BMembers
  <2>1. s[1] \in Holding(bnodes, Len(bnodes))
    BY <1>3, <1>4, <1>5 DEF Holding, IsIn
  <2>. QED  BY <1>2, <2>1, MembersHeld
<1>7. ASSUME NEW v \in BMembers, v # s[1] PROVE Less(s[1], v)
  <2>1. v \in BValues
    BY <1>2, MembersHeld
  <2>2. CASE v \in dom[bat]
    <3>1. PICK j \in 1..Len(s) : v = s[j]
      BY <1>1, <1>2, <1>3, <2>2, LeafHolds DEF IsIn
    <3>2. 1 < j
      BY <1>4, <1>7, <3>1
    <3>. QED  BY <1>4, <1>5, <3>1, <3>2 DEF Rising
  <2>3. CASE v \notin dom[bat]
    BY <1>1, <1>4, <1>5, <2>1, <2>3 DEF Ahead
  <2>. QED  BY <2>2, <2>3
<1>. QED  BY <1>3, <1>5, <1>6, <1>7

(* max() returns the greatest.                                             *)
LEMMA ArrivedLast ==
  ASSUME Comparable(BValues), Fit, BContent, bdoing = "max", broot # 0, bnodes[bat].leaf
  PROVE  /\ Last(bnodes[bat].keys) \in BMembers
         /\ \A v \in BMembers : v # Last(bnodes[bat].keys) => Less(v, Last(bnodes[bat].keys))
<1>1. PICK ht, dom : Told(bnodes, Len(bnodes), broot, ht, dom) /\ Behind(dom[bat])
  BY DEF BContent, Ordered, At
<1>2. bat \in BIds /\ BTypeOK
  BY DEF Fit
<1>3. PICK s : s = bnodes[bat].keys
  OBVIOUS
<1>4. /\ s \in Seq(BValues) /\ Rising(s) /\ Len(s) # 0 /\ Len(s) \in Nat /\ bat \in 1..Len(bnodes)
      /\ \A j \in 1..Len(s) : s[j] \in dom[bat]
  BY <1>1, <1>2, <1>3, NodeKnown
<1>5. PICK l \in 1..Len(s) : Last(s) = s[l] /\ l = Len(s) /\ s[l] \in BValues
  BY <1>4 DEF Last
<1>6. s[l] \in BMembers
  <2>1. s[l] \in Holding(bnodes, Len(bnodes))
    BY <1>3, <1>4, <1>5 DEF Holding, IsIn
  <2>. QED  BY <1>2, <2>1, MembersHeld
<1>7. ASSUME NEW v \in BMembers, v # s[l] PROVE Less(v, s[l])
  <2>1. v \in BValues
    BY <1>2, MembersHeld
  <2>2. CASE v \in dom[bat]
    <3>1. PICK j \in 1..Len(s) : v = s[j]
      BY <1>1, <1>2, <1>3, <2>2, LeafHolds DEF IsIn
    <3>2. j < l
      BY <1>4, <1>5, <1>7, <3>1
    <3>. QED  BY <1>4, <1>5, <3>1, <3>2 DEF Rising
  <2>3. CASE v \notin dom[bat]
    BY <1>1, <1>4, <1>5, <2>1, <2>3 DEF Behind
  <2>. QED  BY <2>2, <2>3
<1>. QED  BY <1>3, <1>5, <1>6, <1>7

-----------------------------------------------------------------------------
(* Each step keeps what is known of the values.                            *)
ValuesKept == BContent' /\ BMembers' = BMembers /\ bcount' = bcount

(* A search begins at the root.                                            *)
LEMMA BBeginContent ==
  ASSUME Fit, BContent, NEW what \in {"insert", "contains"}, NEW v \in BValues, BBegin(what, v)
  PROVE  ValuesKept
<1>1. /\ UNCHANGED <<bnodes, broot, bcount>> /\ bdoing' = what /\ bkey' = v /\ bat' = broot
  BY DEF BBegin
<1>2. PICK ht, dom : broot # 0 => Ordered(ht, dom)
  BY DEF BContent
<1>3. broot # 0 => Told(bnodes, Len(bnodes), broot, ht, dom) /\ dom[broot] = BValues
  BY <1>2 DEF Ordered, Told, Top
<1>4. broot # 0 => At(dom)'
  BY <1>1, <1>3 DEF At
<1>. QED  BY <1>1, <1>3, <1>4, KeptContent DEF ValuesKept

(* So does a walk.                                                         *)
LEMMA BWalkFromContent ==
  ASSUME Fit, BContent, NEW what \in {"min", "max", "height"}, BWalkFrom(what)
  PROVE  ValuesKept
<1>1. /\ UNCHANGED <<bnodes, broot, bcount>> /\ bdoing' = what /\ bat' = broot
  BY DEF BWalkFrom
<1>2. PICK ht, dom : broot # 0 => Ordered(ht, dom)
  BY DEF BContent
<1>3. broot # 0 => Told(bnodes, Len(bnodes), broot, ht, dom) /\ dom[broot] = BValues
  BY <1>2 DEF Ordered, Told, Top
<1>4. broot # 0 => At(dom)'
  <2>1. Ahead(BValues) /\ Behind(BValues)
    BY DEF Ahead, Behind
  <2>2. broot # 0 => Ahead(dom[broot]) /\ Behind(dom[broot])
    BY <1>3, <2>1
  <2>. QED  BY <1>1, <2>2 DEF At
<1>. QED  BY <1>1, <1>3, <1>4, KeptContent DEF ValuesKept

(* An operation that ends without a change.                                *)
LEMMA EndContent ==
  ASSUME BContent, UNCHANGED <<bnodes, broot, bcount>>, bdoing' = "none"
  PROVE  ValuesKept
<1>2. PICK ht, dom : broot # 0 => Ordered(ht, dom)
  BY DEF BContent
<1>3. broot # 0 => Told(bnodes, Len(bnodes), broot, ht, dom) /\ At(dom)'
  BY <1>2 DEF Ordered, At
<1>. QED  BY <1>3, KeptContent DEF ValuesKept

(* A search goes on where the value would be.                              *)
LEMMA BDescendContent ==
  ASSUME Comparable(BValues), Fit, BContent, BDescend
  PROVE  ValuesKept
<1>1. /\ UNCHANGED <<bnodes, broot, bcount, bdoing, bkey>> /\ bdoing \in {"insert", "contains"} /\ broot # 0
      /\ ~Hit(bat) /\ ~bnodes[bat].leaf /\ bat' = bnodes[bat].children[Place(bat)]
  BY DEF BDescend, BSearching
<1>2. PICK ht, dom : Told(bnodes, Len(bnodes), broot, ht, dom) /\ bkey \in dom[bat]
  BY <1>1 DEF BContent, Ordered, At
<1>3. bat \in BIds /\ bkey \in BValues
  BY <1>1 DEF Fit
<1>4. PICK s, i : s = bnodes[bat].keys /\ i = PlaceIn(s)
  OBVIOUS
<1>5. /\ s \in Seq(BValues) /\ Rising(s) /\ Len(bnodes[bat].children) = Len(s) + 1
      /\ \A j \in 1..Len(bnodes[bat].children) : dom[bnodes[bat].children[j]] = Between(dom[bat], s, j)
  BY <1>1, <1>2, <1>3, <1>4, NodeKnown
<1>6. Gap(s, i, bkey) /\ i \in 1..(Len(s) + 1) /\ i = Place(bat)
  BY <1>1, <1>3, <1>4, <1>5, PlaceGap, PlaceInIs, PlaceOf DEF Hit
<1>7. bkey \in dom[bat']
  BY <1>1, <1>2, <1>5, <1>6 DEF Between
<1>8. At(dom)'
  BY <1>1, <1>7 DEF At
<1>. QED  BY <1>1, <1>2, <1>8, KeptContent DEF ValuesKept

(* A walk goes on to the least or the greatest.                            *)
LEMMA BWalkContent ==
  ASSUME Comparable(BValues), Fit, BContent, BWalk
  PROVE  ValuesKept
<1>1. /\ UNCHANGED <<bnodes, broot, bcount, bdoing, bkey>> /\ bdoing \in {"min", "max", "height"} /\ broot # 0
      /\ ~bnodes[bat].leaf
      /\ bat' = IF bdoing = "max" THEN Last(bnodes[bat].children) ELSE Head(bnodes[bat].children)
  BY DEF BWalk, BWalking
<1>2. PICK ht, dom : Told(bnodes, Len(bnodes), broot, ht, dom) /\ At(dom)
  BY <1>1 DEF BContent, Ordered
<1>3. bat \in BIds
  BY <1>1 DEF Fit
<1>4. PICK s, c : s = bnodes[bat].keys /\ c = bnodes[bat].children
  OBVIOUS
<1>5. /\ s \in Seq(BValues) /\ Rising(s) /\ Len(c) = Len(s) + 1 /\ Len(s) \in Nat /\ dom[bat] \in SUBSET BValues
      /\ \A j \in 1..Len(c) : dom[c[j]] = Between(dom[bat], s, j)
  BY <1>1, <1>2, <1>3, <1>4, NodeKnown
<1>6. c \in Seq(1..Len(bnodes))
  BY <1>3, <1>4, NodesTyped, BNodeParts DEF Fit
<1>7. CASE bdoing = "min"
  <2>1. bat' = c[1] /\ 1 \in 1..Len(c)
    BY <1>1, <1>4, <1>5, <1>6, <1>7
  <2>2. Ahead(Between(dom[bat], s, 1))
    BY <1>2, <1>5, <1>7, FirstAhead DEF At
  <2>3. At(dom)'
    BY <1>1, <1>5, <1>7, <2>1, <2>2 DEF At
  <2>. QED  BY <1>1, <1>2, <1>7, <2>3, KeptContent DEF ValuesKept
<1>8. CASE bdoing = "max"
  <2>1. bat' = c[Len(s) + 1] /\ Len(s) + 1 \in 1..Len(c)
    BY <1>1, <1>4, <1>5, <1>6, <1>8 DEF Last
  <2>2. Behind(Between(dom[bat], s, Len(s) + 1))
    BY <1>2, <1>5, <1>8, LastBehind DEF At
  <2>3. At(dom)'
    BY <1>1, <1>5, <1>8, <2>1, <2>2 DEF At
  <2>. QED  BY <1>1, <1>2, <1>8, <2>3, KeptContent DEF ValuesKept
<1>9. CASE bdoing = "height"
  <2>1. At(dom)'
    BY <1>1, <1>9 DEF At
  <2>. QED  BY <1>1, <1>2, <1>9, <2>1, KeptContent DEF ValuesKept
<1>. QED  BY <1>1, <1>7, <1>8, <1>9

-----------------------------------------------------------------------------
(* A split keeps the values.                                               *)
LEMMA HoldingSplit ==
  ASSUME NEW h, NEW n, NEW u, NEW p, NEW c, NEW e, KeysSplit(h, u, n, p, c, e)
  PROVE  Holding(u, n + 1) = Holding(h, n)
BY DEF KeysSplit, Holding

(* So does a new root.                                                     *)
LEMMA HoldingGrown ==
  ASSUME NEW h, NEW n \in Nat, NEW r, NEW ht, NEW g, GrownTo(h, n, r, ht, g)
  PROVE  Holding(g, n + 1) = Holding(h, n)
<1>1. \A m \in 1..n : g[m] = h[m]
  BY DEF GrownTo, OneMore
<1>2. \A v : ~IsIn(v, g[n + 1].keys)
  BY DEF GrownTo, IsIn
<1>3. \A m \in 1..(n + 1) : m \in 1..n \/ m = n + 1
  OBVIOUS
<1>4. \A m \in 1..n : m \in 1..(n + 1)
  OBVIOUS
<1>. QED  BY <1>1, <1>2, <1>3, <1>4, Zenon DEF Holding

(* A value put in a leaf is one more.                                      *)
LEMMA HoldingPut ==
  ASSUME NEW h, NEW n, BTyped(h, n), NEW r, NEW ht, NEW a \in 1..n, NEW i \in 1..(Len(h[a].keys) + 1),
         NEW v \in BValues, NEW u, KeyPut(h, n, r, ht, a, i, v, u)
  PROVE  Holding(u, n) = Holding(h, n) \union {v}
<1>1. /\ h[a].keys \in Seq(BValues) /\ Inserted(h[a].keys, i, v, u[a].keys)
      /\ \A m \in 1..n : m # a => u[m] = h[m]
  BY BNodeParts DEF KeyPut
<1>2. \A w : IsIn(w, u[a].keys) <=> w = v \/ IsIn(w, h[a].keys)
  BY <1>1, InsertedElements
<1>3. \A w : (\E m \in 1..n : IsIn(w, u[m].keys)) <=> w = v \/ \E m \in 1..n : IsIn(w, h[m].keys)
  BY <1>1, <1>2
<1>. QED  BY <1>3 DEF Holding

(* A step that changes the nodes.                                          *)
LEMMA ChangedContent ==
  ASSUME NEW u, NEW n, BTyped(u, n), bnodes' = u, Len(u) = n,
         NEW ht, NEW dom, Told(u, n, broot', ht, dom), At(dom)',
         NEW S, Holding(u, n) = S, IsFiniteSet(S), bcount' = Cardinality(S),
         bdoing' = "place" => \A v \in S : ~Same(v, bkey')
  PROVE  BContent' /\ BMembers' = S
<1>1. BMembers' = S
  <2>1. BMembers' = UNION { ToSet(u[m].keys) : m \in 1..n }
    BY DEF BMembers, BIds
  <2>. QED  BY <2>1, HeldValues
<1>2. Ordered(ht, dom)'
  <2>1. Told(bnodes', Len(bnodes'), broot', ht, dom)
    BY Zenon
  <2>2. Told(bnodes', Len(bnodes'), broot', ht, dom) <=> Told(bnodes, Len(bnodes), broot, ht, dom)'
    BY DEF Told, BTyped, BNodeOf, Levelled, NodeFits, Ranged, RangedNode, Between, Gap, Rising, Top, MaxKeys, T
  <2>. QED  BY <2>1, <2>2 DEF Ordered
<1>. QED  BY <1>1, <1>2 DEF BContent

(* The first value is the only one.                                        *)
LEMMA BInsertFirstContent ==
  ASSUME Fit, BContent, BInsertFirst
  PROVE  BContent' /\ BMembers = {} /\ BMembers' = {bkey} /\ bcount' = 1
<1>1. /\ bkey \in BValues /\ bnodes = << >> /\ broot' = 1 /\ bcount' = 1 /\ bdoing' = "none"
      /\ bnodes' = <<[keys |-> <<bkey>>, children |-> << >>, leaf |-> TRUE]>>
  BY DEF Fit, BInsertFirst, BEnd
<1>2. PICK u : u = <<[keys |-> <<bkey>>, children |-> << >>, leaf |-> TRUE]>>
  OBVIOUS
<1>3. /\ Len(u) = 1 /\ u[1].keys = <<bkey>> /\ u[1].children = << >> /\ u[1].leaf = TRUE
      /\ BTyped(u, 1)
  <2>1. <<bkey>> \in Seq(BValues) /\ << >> \in Seq(1..1)
    BY <1>1
  <2>2. [keys |-> <<bkey>>, children |-> << >>, leaf |-> TRUE] \in BNodeOf(1)
    BY <2>1 DEF BNodeOf
  <2>3. u \in [1..1 -> BNodeOf(1)]
    <3>1. \A x : x \in BNodeOf(1) => <<x>> \in [1..1 -> BNodeOf(1)]
      OBVIOUS
    <3>. QED  BY <1>2, <2>2, <3>1, Zenon
  <2>. QED  BY <1>2, <2>3 DEF BTyped
<1>4. PICK ht, dom : ht = [m \in 1..1 |-> 0] /\ dom = [m \in 1..1 |-> BValues]
  OBVIOUS
<1>5. Levelled(u, 1, 1, ht)
  <2>1. ht \in [1..1 -> Nat] /\ ht[1] = 0
    BY <1>4
  <2>2. NodeFits(u[1], TRUE, 0, ht)
    BY <1>3, Degree DEF NodeFits
  <2>3. \A m \in 1..1 : m = 1
    OBVIOUS
  <2>. QED  BY <2>1, <2>2, <2>3 DEF Levelled
<1>6. Ranged(u, 1, dom, ht) /\ Top(1, 1, dom, ht)
  <2>1. ht[1] = 0 /\ dom[1] = BValues /\ dom \in [1..1 -> SUBSET BValues] /\ \A m \in 1..1 : m = 1
    BY <1>4
  <2>2. RangedNode(u[1], BValues, dom)
    BY <1>1, <1>3 DEF RangedNode, Rising
  <2>. QED  BY <2>1, <2>2 DEF Ranged, Top
<1>7. Told(u, 1, 1, ht, dom)
  BY <1>3, <1>5, <1>6 DEF Told
<1>8. Holding(u, 1) = {bkey}
  <2>1. \A v : IsIn(v, u[1].keys) <=> v = bkey
    BY <1>3 DEF IsIn
  <2>2. \A m \in 1..1 : m = 1
    OBVIOUS
  <2>3. 1 \in 1..1
    OBVIOUS
  <2>. QED  BY <1>1, <2>1, <2>2, <2>3, Zenon DEF Holding
<1>9. At(dom)'
  BY <1>1 DEF At
<1>10. IsFiniteSet({bkey}) /\ Cardinality({bkey}) = 1
  BY FS_Singleton
<1>11. BMembers = {}
  <2>1. BIds = {}
    BY <1>1 DEF BIds
  <2>. QED  BY <2>1 DEF BMembers
<1>12. BContent' /\ BMembers' = {bkey}
  BY <1>1, <1>2, <1>3, <1>7, <1>8, <1>9, <1>10, ChangedContent, ZenonT(40)
<1>. QED  BY <1>1, <1>11, <1>12

(* A value that is placed is new.                                          *)
LEMMA StartPlacingContent ==
  ASSUME Comparable(BValues), Fit, BContent, StartPlacing
  PROVE  ValuesKept
<1>1. PICK ht, dom : Told(bnodes, Len(bnodes), broot, ht, dom) /\ At(dom)
  BY DEF BContent, StartPlacing, Ordered
<1>2. /\ broot # 0 /\ bkey \in BValues /\ bdoing' = "place" /\ UNCHANGED <<bcount, bkey, levels, bresult>>
      /\ \A v \in BMembers : ~Same(v, bkey)
  BY SearchMissed DEF Fit, StartPlacing, BSearching
<1>3. PICK n : n = Len(bnodes)
  OBVIOUS
<1>4. /\ n \in Nat /\ BTyped(bnodes, n) /\ broot \in 1..n /\ Levelled(bnodes, n, broot, ht)
      /\ Told(bnodes, n, broot, ht, dom)
  BY <1>1, <1>3, NodesTyped DEF Fit, Told
<1>5. CASE Full(bnodes, broot)
  <2>1. PICK g : g = Append(bnodes, NewTop(broot))
    OBVIOUS
  <2>2. GrownTo(bnodes, n, broot, ht, g)
    BY <1>4, <1>5, <2>1, NewRoot, Zenon
  <2>3. PICK hg, dg : hg = Deeper(n, ht, ht[broot] + 1) /\ dg = Widened(n, dom)
    OBVIOUS
  <2>4. /\ Told(g, n + 1, n + 1, hg, dg)
        /\ BTyped(g, n + 1) /\ Levelled(g, n + 1, n + 1, hg)
        /\ Full(g, broot) /\ n + 1 \in 1..(n + 1)
        /\ Len(g[n + 1].keys) = 0 /\ Len(g[n + 1].children) = 1 /\ g[n + 1].children[1] = broot
    <3>1. Told(g, n + 1, n + 1, hg, dg)
      BY <1>4, <2>2, <2>3, GrownTold
    <3>. QED  BY <2>2, <3>1, Zenon DEF GrownTo, Told
  <2>5. PICK u : u = Split(g, n + 1, 1)
    OBVIOUS
  <2>6. bnodes' = u /\ broot' = n + 1 /\ bat' = n + 1
    BY <1>3, <1>5, <2>1, <2>5 DEF StartPlacing, NewTop
  <2>7. 1 \in 1..Len(g[n + 1].children) /\ Len(g[n + 1].keys) < MaxKeys /\ Full(g, g[n + 1].children[1])
    BY <2>4, Degree
  <2>8. SplitTo(g, n + 1, n + 1, hg, n + 1, 1, broot, u)
    BY <2>4, <2>5, <2>7, SplitNodes, Zenon
  <2>9. PICK hu, du, e : e = g[broot].keys[T] /\ hu = Deeper(n + 1, hg, hg[broot]) /\ du = Shared(n + 1, dg, broot, e)
    OBVIOUS
  <2>10. Told(u, n + 1 + 1, n + 1, hu, du)
    BY <2>4, <2>7, <2>8, <2>9, SplitTold
  <2>11. Holding(u, n + 1 + 1) = Holding(g, n + 1)
    <3>1. /\ Halved(g, u, n + 1, n + 1, 1, broot) /\ broot \in 1..(n + 1) /\ broot # n + 1
          /\ Len(g[broot].keys) = MaxKeys /\ Len(g[n + 1].children) = Len(g[n + 1].keys) + 1
      BY <2>8, Zenon DEF SplitTo
    <3>2. KeysSplit(g, u, n + 1, n + 1, broot, e)
      BY <2>4, <2>7, <2>9, <3>1, SplitKeys
    <3>. QED  BY <3>2, HoldingSplit
  <2>12. Holding(u, n + 1 + 1) = BMembers
    <3>1. Holding(g, n + 1) = Holding(bnodes, n)
      BY <1>4, <2>2, HoldingGrown
    <3>. QED  BY <1>3, <2>11, <3>1, MembersHeld DEF Fit
  <2>13. BTyped(u, n + 1 + 1) /\ Len(u) = n + 1 + 1 /\ du[n + 1] = BValues
    <3>1. BTyped(u, n + 1 + 1) /\ Len(u) = n + 1 + 1
      BY <2>8, Zenon DEF SplitTo
    <3>2. du[n + 1] = BValues
      BY <2>10 DEF Told, Top
    <3>. QED  BY <3>1, <3>2
  <2>14. At(du)'
    BY <1>2, <2>6, <2>13 DEF At
  <2>15. IsFiniteSet(BMembers) /\ bcount' = Cardinality(BMembers)
    BY <1>2 DEF BContent
  <2>16. BContent' /\ BMembers' = BMembers
    BY <1>2, <2>6, <2>10, <2>12, <2>13, <2>14, <2>15, ChangedContent
  <2>. QED  BY <1>2, <2>16 DEF ValuesKept
<1>6. CASE ~Full(bnodes, broot)
  <2>1. UNCHANGED <<bnodes, broot, bcount>> /\ bat' = broot /\ bkey' = bkey
    BY <1>2, <1>6 DEF StartPlacing
  <2>2. dom[broot] = BValues
    BY <1>1 DEF Told, Top
  <2>3. At(dom)'
    BY <1>2, <2>1, <2>2 DEF At
  <2>. QED  BY <1>1, <1>2, <2>1, <2>3, KeptContent DEF ValuesKept
<1>. QED  BY <1>5, <1>6

(* The key that went up says to which half the new value belongs.          *)
LEMMA PlaceDeeperContent ==
  ASSUME Comparable(BValues), Fit, BContent, PlaceDeeper
  PROVE  ValuesKept
<1>1. PICK ht, dom : Told(bnodes, Len(bnodes), broot, ht, dom) /\ bkey \in dom[bat]
  BY DEF BContent, PlaceDeeper, Fit, Ordered, At
<1>2. /\ broot # 0 /\ bkey \in BValues /\ bdoing = "place" /\ bat \in BIds /\ ~Full(bnodes, bat) /\ ~bnodes[bat].leaf
      /\ UNCHANGED <<broot, bcount, bdoing, bkey, levels, bresult>>
      /\ \A v \in BMembers : ~Same(v, bkey)
  BY DEF Fit, PlaceDeeper, BContent
<1>3. PICK n : n = Len(bnodes)
  OBVIOUS
<1>4. /\ n \in Nat /\ BTyped(bnodes, n) /\ broot \in 1..n /\ Levelled(bnodes, n, broot, ht)
      /\ Told(bnodes, n, broot, ht, dom) /\ bat \in 1..n /\ dom \in [1..n -> SUBSET BValues]
  BY <1>1, <1>2, <1>3, NodesTyped DEF Fit, Told, Ranged
<1>5. PICK s, i, c : s = bnodes[bat].keys /\ i = AfterIn(s) /\ c = bnodes[bat].children[i]
  OBVIOUS
<1>6. /\ s \in Seq(BValues) /\ Rising(s) /\ Len(bnodes[bat].children) = Len(s) + 1
      /\ \A j \in 1..Len(bnodes[bat].children) : dom[bnodes[bat].children[j]] = Between(dom[bat], s, j)
  BY <1>1, <1>2, <1>5, NodeKnown
<1>7. \A m \in 1..n : \A j \in 1..Len(bnodes[m].keys) : bnodes[m].keys[j] \in BMembers
  <2>1. ASSUME NEW m \in 1..n, NEW j \in 1..Len(bnodes[m].keys) PROVE bnodes[m].keys[j] \in BMembers
    <3>1. bnodes[m].keys[j] \in BValues
      BY <1>4, BNodeParts
    <3>. QED  BY <1>3, <3>1, MembersHeld DEF Fit, Holding, IsIn
  <2>. QED  BY <2>1
<1>8. Gap(s, i, bkey) /\ i \in 1..(Len(s) + 1) /\ i = After(bnodes, bat)
  <2>1. \A j \in 1..Len(s) : ~Same(s[j], bkey)
    BY <1>2, <1>4, <1>5, <1>7
  <2>. QED  BY <1>2, <1>5, <1>6, <2>1, AfterGap, AfterInIs, PlaceOf
<1>9. bkey \in dom[c] /\ i \in 1..Len(bnodes[bat].children)
  BY <1>1, <1>5, <1>6, <1>8 DEF Between
<1>10. CASE Full(bnodes, c)
  <2>1. PICK u : u = Split(bnodes, bat, i)
    OBVIOUS
  <2>2. bnodes' = u /\ bat' = u[bat].children[IF Less(u[bat].keys[i], bkey) THEN i + 1 ELSE i]
    BY <1>5, <1>8, <1>10, <2>1 DEF PlaceDeeper
  <2>3. Len(bnodes[bat].keys) < MaxKeys
    <3>1. NodeFits(bnodes[bat], bat = broot, ht[bat], ht) /\ Len(bnodes[bat].keys) \in Nat
      BY <1>2, <1>3, <1>4, FitNode
    <3>. QED  BY <1>2, <3>1, Degree DEF NodeFits, Full
  <2>4. SplitTo(bnodes, n, broot, ht, bat, i, c, u)
    BY <1>4, <1>5, <1>9, <1>10, <2>1, <2>3, SplitNodes, Zenon
  <2>5. PICK hu, du, e : e = bnodes[c].keys[T] /\ hu = Deeper(n, ht, ht[c]) /\ du = Shared(n, dom, c, e)
    OBVIOUS
  <2>6. Told(u, n + 1, broot, hu, du)
    BY <1>4, <1>5, <1>9, <2>4, <2>5, SplitTold
  <2>7. SplitRanges(bnodes, u, n, ht, dom, bat, i, c, e)
    BY <1>4, <1>5, <1>9, <2>4, <2>5, SplitRanged DEF Told
  <2>8. /\ BTyped(u, n + 1) /\ Len(u) = n + 1 /\ c \in 1..n /\ Len(bnodes[c].keys) = MaxKeys
        /\ u[bat].children[i] = c /\ u[bat].children[i + 1] = n + 1 /\ Halved(bnodes, u, n, bat, i, c) /\ c # bat
        /\ Len(bnodes[bat].children) = Len(bnodes[bat].keys) + 1
    BY <2>4, Zenon DEF SplitTo
  <2>9. e \in BMembers /\ e \in BValues /\ u[bat].keys[i] = e /\ ~Same(e, bkey)
    <3>1. e \in dom[c] /\ IsIn(e, bnodes[c].keys) /\ u[bat].keys[i] = e
      BY <2>7, Zenon DEF SplitRanges
    <3>2. e \in BMembers /\ e \in BValues
      BY <1>4, <1>7, <2>8, <3>1 DEF IsIn
    <3>. QED  BY <1>2, <3>1, <3>2
  <2>10. /\ du[c] = { v \in dom[c] : Less(v, e) } /\ du[n + 1] = { v \in dom[c] : Less(e, v) }
    <3>1. du = Shared(n, dom, c, e) /\ n \in Nat /\ c \in 1..n
      BY <1>4, <2>5, <2>8
    <3>2. c \in 1..(n + 1) /\ n + 1 \in 1..(n + 1) /\ c # n + 1
      BY <3>1
    <3>. QED  BY <3>1, <3>2 DEF Shared
  <2>11. bkey \in du[bat']
    <3>1. CASE Less(e, bkey)
      BY <1>9, <2>2, <2>8, <2>9, <2>10, <3>1
    <3>2. CASE ~Less(e, bkey)
      <4>1. Less(bkey, e)
        BY <1>2, <2>9, <3>2, BOrder
      <4>. QED  BY <1>9, <2>2, <2>8, <2>9, <2>10, <3>2, <4>1
    <3>. QED  BY <3>1, <3>2
  <2>12. At(du)'
    BY <1>2, <2>11 DEF At
  <2>13. Holding(u, n + 1) = BMembers
    <3>1. KeysSplit(bnodes, u, n, bat, c, e)
      BY <1>4, <1>9, <2>5, <2>8, SplitKeys
    <3>2. Holding(u, n + 1) = Holding(bnodes, n)
      BY <3>1, HoldingSplit
    <3>. QED  BY <1>3, <3>2, MembersHeld DEF Fit
  <2>14. IsFiniteSet(BMembers) /\ bcount' = Cardinality(BMembers)
    BY <1>2 DEF BContent
  <2>15. broot' = broot /\ bkey' = bkey
    BY <1>2
  <2>16. Told(u, n + 1, broot', hu, du)
    BY <2>6, <2>15
  <2>17. BContent' /\ BMembers' = BMembers
    BY <1>2, <2>2, <2>8, <2>12, <2>13, <2>14, <2>15, <2>16, ChangedContent
  <2>. QED  BY <1>2, <2>17 DEF ValuesKept
<1>11. CASE ~Full(bnodes, c)
  <2>1. UNCHANGED <<bnodes, broot, bcount>> /\ bat' = c /\ bkey' = bkey /\ bdoing' = "place"
    BY <1>2, <1>5, <1>8, <1>11 DEF PlaceDeeper
  <2>2. At(dom)'
    BY <1>9, <2>1 DEF At
  <2>. QED  BY <1>1, <1>2, <2>1, <2>2, KeptContent DEF ValuesKept
<1>. QED  BY <1>10, <1>11

(* The new value comes in, and is counted.                                 *)
LEMMA PlaceHereContent ==
  ASSUME Comparable(BValues), Fit, BContent, PlaceHere
  PROVE  /\ BContent' /\ BMembers' = BMembers \union {bkey} /\ bcount' = Cardinality(BMembers')
         /\ \A v \in BMembers : ~Same(v, bkey)
<1>1. PICK ht, dom : Told(bnodes, Len(bnodes), broot, ht, dom) /\ bkey \in dom[bat]
  BY DEF BContent, PlaceHere, Fit, Ordered, At
<1>2. /\ broot # 0 /\ bkey \in BValues /\ bat \in BIds /\ ~Full(bnodes, bat) /\ bnodes[bat].leaf
      /\ broot' = broot /\ bcount' = bcount + 1 /\ bdoing' = "none" /\ BTypeOK
      /\ \A v \in BMembers : ~Same(v, bkey)
  BY DEF Fit, PlaceHere, BEnd, BContent
<1>3. PICK n : n = Len(bnodes)
  OBVIOUS
<1>4. /\ n \in Nat /\ BTyped(bnodes, n) /\ broot \in 1..n /\ Levelled(bnodes, n, broot, ht)
      /\ Told(bnodes, n, broot, ht, dom) /\ bat \in 1..n
  BY <1>1, <1>2, <1>3, NodesTyped DEF Told
<1>5. PICK s, i : s = bnodes[bat].keys /\ i = AfterIn(s)
  OBVIOUS
<1>6. /\ s \in Seq(BValues) /\ Rising(s) /\ \A j \in 1..Len(s) : s[j] \in BMembers
  <2>1. s \in Seq(BValues) /\ Rising(s)
    BY <1>1, <1>2, <1>5, NodeKnown
  <2>. QED  BY <1>2, <1>3, <1>4, <1>5, <2>1, MembersHeld DEF Holding, IsIn
<1>7. Gap(s, i, bkey) /\ i \in 1..(Len(s) + 1) /\ i = After(bnodes, bat)
  BY <1>2, <1>5, <1>6, AfterGap, AfterInIs, PlaceOf
<1>8. PICK u : u = [bnodes EXCEPT ![bat].keys = InsertAt(@, i, bkey)]
  OBVIOUS
<1>9. bnodes' = u
  BY <1>7, <1>8 DEF PlaceHere
<1>10. KeyPut(bnodes, n, broot, ht, bat, i, bkey, u)
  BY <1>2, <1>4, <1>5, <1>7, <1>8, KeyAdded, Zenon
<1>11. Told(u, n, broot, ht, dom)
  BY <1>1, <1>2, <1>4, <1>5, <1>7, <1>10, KeyPutTold
<1>12. Holding(u, n) = BMembers \union {bkey}
  <2>1. Holding(u, n) = Holding(bnodes, n) \union {bkey}
    BY <1>2, <1>4, <1>5, <1>7, <1>10, HoldingPut
  <2>. QED  BY <1>2, <1>3, <2>1, MembersHeld
<1>13. bkey \notin BMembers
  BY <1>2, BOrder
<1>14. /\ IsFiniteSet(BMembers \union {bkey}) /\ bcount' = Cardinality(BMembers \union {bkey})
  BY <1>2, <1>13, FS_AddElement DEF BContent
<1>15. BTyped(u, n) /\ Len(u) = n
  BY <1>10, Zenon DEF KeyPut
<1>16. At(dom)'
  BY <1>2 DEF At
<1>17. BContent' /\ BMembers' = BMembers \union {bkey}
  <2>1. Told(u, n, broot', ht, dom) /\ bdoing' # "place"
    BY <1>2, <1>11
  <2>. QED  BY <1>9, <1>12, <1>14, <1>15, <1>16, <2>1, ChangedContent
<1>. QED  BY <1>2, <1>14, <1>17

-----------------------------------------------------------------------------
(* The empty tree.                                                         *)
LEMMA BContentInit == BInit => BContent
<1> SUFFICES ASSUME BInit PROVE BContent
  OBVIOUS
<1>1. bnodes = << >> /\ broot = 0 /\ bcount = 0 /\ bdoing = "none" /\ BIds = {}
  BY DEF BInit, BIds
<1>2. BMembers = {}
  BY <1>1 DEF BMembers
<1>. QED  BY <1>1, <1>2, FS_EmptySet DEF BContent

(* What each step does to the values.                                      *)
LEMMA BContentStep ==
  ASSUME Comparable(BValues), Fit, BContent, [BNext]_bvars
  PROVE  BContent'
<1>1. CASE UNCHANGED bvars
  <2>1. UNCHANGED <<bnodes, broot, bcount, bdoing, bkey, bat>>
    BY <1>1 DEF bvars
  <2>2. PICK ht, dom : broot # 0 => Ordered(ht, dom)
    BY DEF BContent
  <2>3. broot # 0 => Told(bnodes, Len(bnodes), broot, ht, dom) /\ At(dom)'
    BY <2>1, <2>2 DEF Ordered, At
  <2>4. bdoing' = "place" => \A v \in BMembers : ~Same(v, bkey')
    BY <2>1 DEF BContent
  <2>. QED  BY <2>1, <2>3, <2>4, KeptContent
<1>2. CASE \E v \in BValues : BBegin("insert", v)
  BY <1>2, BBeginContent DEF ValuesKept
<1>3. CASE \E v \in BLooked : BBegin("contains", v)
  BY <1>3, BBeginContent, BUseAssumption DEF ValuesKept
<1>4. CASE \E what \in BAsked : BWalkFrom(what)
  BY <1>4, BWalkFromContent, BUseAssumption DEF ValuesKept
<1>5. CASE BInsertFirst
  BY <1>5, BInsertFirstContent
<1>6. CASE ContainsEmpty
  BY <1>6, EndContent DEF ContainsEmpty, BEnd, ValuesKept
<1>7. CASE BFound
  BY <1>7, EndContent DEF BFound, BEnd, ValuesKept
<1>8. CASE BDescend
  BY <1>8, BDescendContent DEF ValuesKept
<1>9. CASE BNotFound
  BY <1>9, EndContent DEF BNotFound, BEnd, ValuesKept
<1>10. CASE StartPlacing
  BY <1>10, StartPlacingContent DEF ValuesKept
<1>11. CASE PlaceDeeper
  BY <1>11, PlaceDeeperContent DEF ValuesKept
<1>12. CASE PlaceHere
  BY <1>12, PlaceHereContent
<1>13. CASE BWalkEmpty
  BY <1>13, EndContent DEF BWalkEmpty, BEnd, ValuesKept
<1>14. CASE BWalk
  BY <1>14, BWalkContent DEF ValuesKept
<1>15. CASE BArrive
  BY <1>15, EndContent DEF BArrive, BEnd, ValuesKept
<1>. QED  BY <1>1, <1>2, <1>3, <1>4, <1>5, <1>6, <1>7, <1>8, <1>9, <1>10, <1>11, <1>12, <1>13, <1>14, <1>15
          DEF BNext, BSteps

-----------------------------------------------------------------------------
(* The set that a B-tree is.                                               *)
LEMMA BPendingIs ==
  /\ bdoing \in {"insert", "place"} => BPending = <<"insert", bkey>>
  /\ bdoing = "contains" => BPending = <<"contains", bkey>>
  /\ bdoing = "min" => BPending = <<"min">>
  /\ bdoing = "max" => BPending = <<"max">>
  /\ bdoing = "height" => BPending = <<"height">>
  /\ bdoing = "none" => BPending = << >>
BY DEF BPending, BWalking

(* And after a step.                                                       *)
LEMMA BPendingNext ==
  /\ bdoing' \in {"insert", "place"} => BPending' = <<"insert", bkey'>>
  /\ bdoing' = "contains" => BPending' = <<"contains", bkey'>>
  /\ bdoing' = "min" => BPending' = <<"min">>
  /\ bdoing' = "max" => BPending' = <<"max">>
  /\ bdoing' = "height" => BPending' = <<"height">>
  /\ bdoing' = "none" => BPending' = << >>
BY DEF BPending, BWalking

(* The instance counts as the module does.                                 *)
LEMMA SameSize == \A S : BSet!Cardinality(S) = Cardinality(S)
BY Zenon DEF BSet!Cardinality, Cardinality

(* The empty tree is the empty set.                                        *)
LEMMA BSetInit == BInit => BSet!Init
<1> SUFFICES ASSUME BInit PROVE BSet!Init
  OBVIOUS
<1>1. bdoing = "none" /\ BIds = {} /\ bcount = 0 /\ bresult = None
  BY DEF BInit, BIds
<1>2. BPending = << >>
  BY <1>1, BPendingIs
<1>3. BMembers = {} /\ BSize = 0
  BY <1>1 DEF BMembers, BSize
<1>. QED  BY <1>1, <1>2, <1>3 DEF BSet!Init

(* Each step is one of the set or leaves it alone.                         *)
LEMMA BSetStep ==
  ASSUME Comparable(BValues), Fit, BContent, [BNext]_bvars
  PROVE  [BSet!Next]_(BSet!vars)
<1> USE BUseAssumption
<1>1. /\ bdoing \in {"insert", "contains", "place"} => bkey \in BValues
      /\ bcount = Cardinality(BMembers) /\ IsFiniteSet(BMembers) /\ BMembers \subseteq BValues
      /\ levels \in Nat /\ BSize = bcount /\ BSize' = bcount'
  BY MembersHeld, FitPosition DEF Fit, BContent, BSize
<1>2. ASSUME BMembers' = BMembers, bcount' = bcount, bresult' = bresult, BPending' = BPending
      PROVE  UNCHANGED BSet!vars
  BY <1>1, <1>2 DEF BSet!vars
<1>3. ASSUME UNCHANGED <<bnodes, bcount>> PROVE BMembers' = BMembers /\ BSize' = BSize
  BY <1>3 DEF BMembers, BIds, BSize
<1>4. ASSUME NEW v \in BValues, BBegin("insert", v) PROVE BSet!Call(<<"insert", v>>)
  <2>1. BPending = << >> /\ BPending' = <<"insert", v>> /\ bresult' = bresult
    BY <1>4, BPendingIs, BPendingNext DEF BBegin, BIdle
  <2>. QED  BY <1>3, <1>4, <2>1 DEF BSet!Call, BBegin
<1>5. ASSUME NEW v \in BValues, BBegin("contains", v) PROVE BSet!Call(<<"contains", v>>)
  <2>1. BPending = << >> /\ BPending' = <<"contains", v>> /\ bresult' = bresult
    BY <1>5, BPendingIs, BPendingNext DEF BBegin, BIdle
  <2>. QED  BY <1>3, <1>5, <2>1 DEF BSet!Call, BBegin
<1>6. ASSUME NEW what \in BAsked, BWalkFrom(what)
      PROVE  BSet!Call(<<"min">>) \/ BSet!Call(<<"max">>) \/ BSet!Call(<<"height">>)
  <2>1. BPending = << >> /\ bresult' = bresult
        /\ (BPending' = <<"min">> \/ BPending' = <<"max">> \/ BPending' = <<"height">>)
    BY <1>6, BPendingIs, BPendingNext DEF BWalkFrom, BIdle
  <2>. QED  BY <1>3, <1>6, <2>1 DEF BSet!Call, BWalkFrom
<1>7. CASE BInsertFirst
  <2>1. BMembers = {} /\ BMembers' = {bkey} /\ BSize' = 1
    BY <1>1, <1>7, BInsertFirstContent
  <2>2. BPending = <<"insert", bkey>> /\ BPending' = << >> /\ bresult' = bkey /\ bkey \in BValues
    BY <1>1, <1>7, BPendingIs, BPendingNext DEF BInsertFirst, BEnd
  <2>3. ~BSet!Has(bkey)
    BY <2>1 DEF BSet!Has
  <2>4. BSet!Insert(bkey)
    <3>1. Cardinality({bkey}) = 1
      BY FS_Singleton
    <3>2. BMembers' = BMembers \union {bkey} /\ BSize' = Cardinality(BMembers')
      BY <2>1, <3>1
    <3>. QED  BY <2>2, <2>3, <3>2, SameSize DEF BSet!Insert, BSet!Returns
  <2>. QED  BY <2>2, <2>4 DEF BSet!Next
<1>8. ASSUME NEW v, UNCHANGED <<bnodes, bcount>>, BEnd(v), bdoing = "contains",
             v = IF BSet!Has(bkey) THEN 1 ELSE 0
      PROVE  BSet!Next
  <2>1. BPending = <<"contains", bkey>> /\ BPending' = << >> /\ bresult' = v /\ bkey \in BValues
    BY <1>1, <1>8, BPendingIs, BPendingNext DEF BEnd
  <2>2. BSet!Contains(bkey)
    BY <1>3, <1>8, <2>1 DEF BSet!Contains, BSet!Returns
  <2>. QED  BY <2>1, <2>2 DEF BSet!Next
<1>9. CASE ContainsEmpty
  <2>1. BMembers = {}
    <3>1. BIds = {}
      BY <1>9 DEF ContainsEmpty, Fit, BIds
    <3>. QED  BY <3>1 DEF BMembers
  <2>2. ~BSet!Has(bkey)
    BY <2>1 DEF BSet!Has
  <2>. QED  BY <1>8, <1>9, <2>2 DEF ContainsEmpty
<1>10. CASE BFound
  <2>1. BSet!Has(bkey)
    BY <1>10, SearchHit DEF BFound, BSet!Has
  <2>2. CASE bdoing = "contains"
    BY <1>8, <1>10, <2>1, <2>2 DEF BFound
  <2>3. CASE bdoing = "insert"
    <3>1. BPending = <<"insert", bkey>> /\ BPending' = << >> /\ bresult' = bkey /\ bkey \in BValues
          /\ UNCHANGED <<bnodes, bcount>>
      BY <1>1, <1>10, <2>3, BPendingIs, BPendingNext DEF BFound, BEnd
    <3>2. BMembers' = BMembers /\ BSize' = Cardinality(BMembers')
      BY <1>1, <1>3, <3>1
    <3>3. BSet!Insert(bkey)
      BY <2>1, <3>1, <3>2, SameSize DEF BSet!Insert, BSet!Returns
    <3>. QED  BY <3>1, <3>3 DEF BSet!Next
  <2>. QED  BY <1>10, <2>2, <2>3 DEF BFound, BSearching
<1>11. CASE BDescend
  <2>1. UNCHANGED <<bdoing, bkey, bresult>>
    BY <1>11 DEF BDescend
  <2>2. BPending' = BPending
    BY <2>1 DEF BPending, BWalking
  <2>. QED  BY <1>2, <1>11, <2>1, <2>2, BDescendContent DEF ValuesKept
<1>12. CASE BNotFound
  <2>1. ~BSet!Has(bkey)
    BY <1>12, SearchMissed DEF BNotFound, BSearching, BSet!Has
  <2>. QED  BY <1>8, <1>12, <2>1 DEF BNotFound
<1>13. CASE StartPlacing
  <2>1. bdoing = "insert" /\ bdoing' = "place" /\ UNCHANGED <<bkey, bresult>>
    BY <1>13 DEF StartPlacing
  <2>2. BPending' = BPending
    BY <2>1, BPendingIs, BPendingNext
  <2>. QED  BY <1>2, <1>13, <2>1, <2>2, StartPlacingContent DEF ValuesKept
<1>14. CASE PlaceDeeper
  <2>1. UNCHANGED <<bdoing, bkey, bresult>>
    BY <1>14 DEF PlaceDeeper
  <2>2. BPending' = BPending
    BY <2>1 DEF BPending, BWalking
  <2>. QED  BY <1>2, <1>14, <2>1, <2>2, PlaceDeeperContent DEF ValuesKept
<1>15. CASE PlaceHere
  <2>1. BMembers' = BMembers \union {bkey} /\ BSize' = Cardinality(BMembers') /\ \A v \in BMembers : ~Same(v, bkey)
    BY <1>1, <1>15, PlaceHereContent
  <2>2. BPending = <<"insert", bkey>> /\ BPending' = << >> /\ bresult' = bkey /\ bkey \in BValues
    BY <1>1, <1>15, BPendingIs, BPendingNext DEF PlaceHere, BEnd
  <2>3. ~BSet!Has(bkey)
    BY <2>1 DEF BSet!Has
  <2>4. BSet!Insert(bkey)
    BY <2>1, <2>2, <2>3, SameSize DEF BSet!Insert, BSet!Returns
  <2>. QED  BY <2>2, <2>4 DEF BSet!Next
<1>16. CASE BWalkEmpty
  <2>1. BMembers = {} /\ BMembers' = BMembers /\ BSize' = BSize
    <3>1. BIds = {}
      BY <1>16 DEF BWalkEmpty, Fit, BIds
    <3>. QED  BY <1>3, <1>16, <3>1 DEF BMembers, BWalkEmpty
  <2>2. BPending' = << >> /\ bdoing \in {"min", "max", "height"}
        /\ bresult' = IF bdoing = "height" THEN 0 ELSE None
    BY <1>16, BPendingNext DEF BWalkEmpty, BWalking, BEnd
  <2>3. CASE bdoing = "min"
    <3>1. BSet!Extreme("min", Less)
      BY <2>1, <2>2, <2>3, BPendingIs DEF BSet!Extreme, BSet!Returns
    <3>. QED  BY <3>1 DEF BSet!Next
  <2>4. CASE bdoing = "max"
    <3>1. BSet!Extreme("max", BSet!More)
      BY <2>1, <2>2, <2>4, BPendingIs DEF BSet!Extreme, BSet!Returns
    <3>. QED  BY <3>1 DEF BSet!Next
  <2>5. CASE bdoing = "height"
    <3>1. BSet!Height
      BY <2>1, <2>2, <2>5, BPendingIs DEF BSet!Height
    <3>. QED  BY <3>1 DEF BSet!Next
  <2>. QED  BY <2>2, <2>3, <2>4, <2>5
<1>17. CASE BWalk
  <2>1. UNCHANGED <<bdoing, bkey, bresult>>
    BY <1>17 DEF BWalk
  <2>2. BPending' = BPending
    BY <2>1 DEF BPending, BWalking
  <2>. QED  BY <1>2, <1>17, <2>1, <2>2, BWalkContent DEF ValuesKept
<1>18. CASE BArrive
  <2>1. /\ BMembers' = BMembers /\ BSize' = BSize /\ BPending' = << >>
        /\ bdoing \in {"min", "max", "height"} /\ broot # 0 /\ bnodes[bat].leaf
    BY <1>3, <1>18, BPendingNext DEF BArrive, BWalking, BEnd
  <2>2. CASE bdoing = "min"
    <3>1. BPending = <<"min">> /\ bresult' = Head(bnodes[bat].keys)
      BY <1>18, <2>2, BPendingIs DEF BArrive, BEnd
    <3>2. /\ Head(bnodes[bat].keys) \in BMembers
          /\ \A v \in BMembers : v # Head(bnodes[bat].keys) => Less(Head(bnodes[bat].keys), v)
      BY <2>1, <2>2, ArrivedFirst
    <3>3. BSet!Extreme("min", Less)
      BY <2>1, <3>1, <3>2 DEF BSet!Extreme, BSet!Ends, BSet!Returns
    <3>. QED  BY <3>3 DEF BSet!Next
  <2>3. CASE bdoing = "max"
    <3>1. BPending = <<"max">> /\ bresult' = Last(bnodes[bat].keys)
      BY <1>18, <2>3, BPendingIs DEF BArrive, BEnd
    <3>2. /\ Last(bnodes[bat].keys) \in BMembers
          /\ \A v \in BMembers : v # Last(bnodes[bat].keys) => Less(v, Last(bnodes[bat].keys))
      BY <2>1, <2>3, ArrivedLast
    <3>3. BSet!Extreme("max", BSet!More)
      BY <2>1, <3>1, <3>2 DEF BSet!Extreme, BSet!Ends, BSet!Returns, BSet!More
    <3>. QED  BY <3>3 DEF BSet!Next
  <2>4. CASE bdoing = "height"
    <3>1. BPending = <<"height">> /\ bresult' = levels
      BY <1>18, <2>4, BPendingIs DEF BArrive, BEnd
    <3>2. BSet!Height
      BY <1>1, <2>1, <3>1 DEF BSet!Height
    <3>. QED  BY <3>2 DEF BSet!Next
  <2>. QED  BY <2>1, <2>2, <2>3, <2>4
<1>19. CASE UNCHANGED bvars
  <2>1. UNCHANGED <<bnodes, bcount, bdoing, bkey, bresult>>
    BY <1>19 DEF bvars
  <2>2. BPending' = BPending
    BY <2>1 DEF BPending, BWalking
  <2>. QED  BY <1>2, <1>3, <2>1, <2>2
<1>20. ASSUME BNext PROVE [BSet!Next]_(BSet!vars)
  <2>1. CASE \E v \in BValues : BBegin("insert", v)
    BY <1>4, <2>1 DEF BSet!Next
  <2>2. CASE \E v \in BLooked : BBegin("contains", v)
    BY <1>5, <2>2 DEF BSet!Next
  <2>3. CASE \E what \in BAsked : BWalkFrom(what)
    BY <1>6, <2>3 DEF BSet!Next
  <2>. QED  BY <1>7, <1>9, <1>10, <1>11, <1>12, <1>13, <1>14, <1>15, <1>16, <1>17, <1>18, <1>20,
               <2>1, <2>2, <2>3 DEF BNext, BSteps
<1>. QED  BY <1>19, <1>20

(* A B-tree of values that < compares is the set of the values inserted,   *)
(* and its height is that of every leaf.                                   *)
THEOREM BTreeIsSet ==
  ASSUME Comparable(BValues)
  PROVE  BSpec => BTreeAnswers
<1>1. BInit => BContent /\ BSet!Init
  BY BContentInit, BSetInit
<1>2. Fit /\ BContent /\ [BNext]_bvars => BContent' /\ [BSet!Next]_(BSet!vars)
  BY BContentStep, BSetStep
<1>. QED  BY <1>1, <1>2, FitInvariant, HeightStep, PTL DEF BSpec, BTreeAnswers, BSet!Spec
=============================================================================
