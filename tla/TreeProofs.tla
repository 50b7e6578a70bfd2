----------------------------- MODULE TreeProofs -----------------------------
(***************************************************************************)
(* Proofs about RBTree, for any values: the tree is red-black at every     *)
(* step, a repair's included, and is the set of the values inserted.       *)
(*                                                                         *)
(* Nothing is said by recursion on the tree.  That the nodes are one tree  *)
(* has a certificate: each node has a place on a line, and an interval of  *)
(* it around the place that the nodes below it share, those on the left    *)
(* before the place and those on the right behind it (Placed).  A rotation *)
(* moves no node to another place, so the order of the values is kept by   *)
(* whatever keeps the certificate.  That every way down has as many black  *)
(* nodes has one too: a number for each node that is, on either side, the  *)
(* child's and one more if the child is black (Weighed).  Only the root's  *)
(* changes when a repair ends.                                             *)
(***************************************************************************)
EXTENDS RBTree, SequenceLemmas, FiniteSetTheorems, TLAPS

Sides == {"left", "right"}

(* A tree of n nodes, whatever their links.                                *)
NodeOf(n) ==
  [value : Values, color : {"red", "black"}, kid : [Sides -> 0..n], parent : 0..n]

Typed(t, n) == n \in Nat /\ t \in [nodes : [1..n -> NodeOf(n)], root : 0..n]

(* There are two sides.                                                    *)
LEMMA OtherSide ==
  \A s \in Sides : /\ Other(s) \in Sides /\ Other(s) # s /\ Other(Other(s)) = s
                   /\ \A r \in Sides : r # s => r = Other(s)
BY DEF Sides, Other

(* What a tree and a node consist of.                                      *)
LEMMA TreeParts ==
  ASSUME NEW t, NEW n, Typed(t, n)
  PROVE  n \in Nat /\ t.nodes \in [1..n -> NodeOf(n)] /\ t.root \in 0..n
BY DEF Typed

LEMMA NodeParts ==
  ASSUME NEW t, NEW n, Typed(t, n), NEW m \in 1..n
  PROVE  /\ t.nodes[m] \in NodeOf(n)
         /\ t.nodes[m].value \in Values /\ t.nodes[m].color \in {"red", "black"}
         /\ t.nodes[m].parent \in 0..n
         /\ t.nodes[m].kid \in [Sides -> 0..n]
         /\ \A s \in Sides : t.nodes[m].kid[s] \in 0..n
<1>1. t.nodes[m] \in NodeOf(n)
  BY TreeParts
<1>. QED  BY <1>1 DEF NodeOf

(* What an assignment to members of a node does.                           *)
LEMMA ColorPut ==
  ASSUME NEW n, NEW r \in NodeOf(n), NEW c \in {"red", "black"}, NEW u, u = [r EXCEPT !.color = c]
  PROVE  /\ u \in NodeOf(n) /\ u.color = c
         /\ u.value = r.value /\ u.parent = r.parent /\ u.kid = r.kid
BY DEF NodeOf

LEMMA ParentPut ==
  ASSUME NEW n, NEW r \in NodeOf(n), NEW p \in 0..n, NEW u, u = [r EXCEPT !.parent = p]
  PROVE  /\ u \in NodeOf(n) /\ u.parent = p
         /\ u.value = r.value /\ u.color = r.color /\ u.kid = r.kid
BY DEF NodeOf

(* A node other than the ones painted keeps its color; nothing else        *)
(* changes.                                                                *)
LEMMA PaintedEffect ==
  ASSUME NEW t, NEW n, Typed(t, n), NEW black, NEW red,
         black \intersect red = {}, NEW u, Painted(t, black, red) = u
  PROVE  /\ Typed(u, n) /\ u.root = t.root
         /\ \A m \in 1..n :
              /\ u.nodes[m].value = t.nodes[m].value
              /\ u.nodes[m].parent = t.nodes[m].parent
              /\ u.nodes[m].kid = t.nodes[m].kid
              /\ m \in black => u.nodes[m].color = "black"
              /\ m \in red => u.nodes[m].color = "red"
              /\ m \notin black /\ m \notin red => u.nodes[m].color = t.nodes[m].color
<1> DEFINE C(m) == CASE m \in black -> "black" [] m \in red -> "red" [] OTHER -> t.nodes[m].color
<1>0. n \in Nat /\ DOMAIN t.nodes = 1..n /\ t \in [nodes : [1..n -> NodeOf(n)], root : 0..n]
  BY DEF Typed
<1>1. u = [t EXCEPT !.nodes = [m \in DOMAIN t.nodes |-> [t.nodes[m] EXCEPT !.color = C(m)]]]
  BY Zenon DEF Painted
<1>2. ASSUME NEW m
      PROVE  /\ m \in black => C(m) = "black"
             /\ m \in red => C(m) = "red"
             /\ m \notin black /\ m \notin red => C(m) = t.nodes[m].color
  <2>1. CASE m \in black
    <3>1. m \notin red
      BY <2>1
    <3>. QED  BY <2>1, <3>1, Zenon
  <2>2. CASE m \in red
    <3>1. m \notin black
      BY <2>2
    <3>. QED  BY <2>2, <3>1, Zenon
  <2>3. CASE m \notin black /\ m \notin red
    BY <2>3, Zenon
  <2>. QED  BY <2>1, <2>2, <2>3
<1>3. \A m \in 1..n : t.nodes[m] \in NodeOf(n) /\ t.nodes[m].color \in {"red", "black"}
  BY NodeParts
<1> HIDE DEF C
<1>4. \A m \in 1..n : C(m) \in {"red", "black"}
  BY <1>2, <1>3
<1> DEFINE H == [m \in 1..n |-> [t.nodes[m] EXCEPT !.color = C(m)]]
<1>5. ASSUME NEW m \in 1..n
      PROVE  /\ H[m] \in NodeOf(n) /\ H[m].color = C(m)
             /\ H[m].value = t.nodes[m].value
             /\ H[m].parent = t.nodes[m].parent
             /\ H[m].kid = t.nodes[m].kid
  BY <1>3, <1>4, ColorPut
<1>6. H \in [1..n -> NodeOf(n)]
  BY <1>5
<1>7. u = [t EXCEPT !.nodes = H]
  BY <1>0, <1>1
<1> HIDE DEF H
<1>8. u.nodes = H /\ u.root = t.root /\ u \in [nodes : [1..n -> NodeOf(n)], root : 0..n]
  BY <1>0, <1>6, <1>7
<1>9. Typed(u, n)
  BY <1>0, <1>8 DEF Typed
<1>. QED  BY <1>2, <1>5, <1>8, <1>9

(* Links both ways, as in Linked.                                          *)
LinkedIn(t, n) ==
  \A m \in 1..n :
    /\ t.nodes[m].parent = 0 <=> m = t.root
    /\ \A s \in Sides : t.nodes[m].kid[s] # 0 => t.nodes[t.nodes[m].kid[s]].parent = m
    /\ t.nodes[m].parent # 0 => \E s \in Sides : t.nodes[t.nodes[m].parent].kid[s] = m

(* A certificate that the nodes are one tree: each has a place, pos, on a  *)
(* line, and the nodes of its subtree are those between lo and hi.         *)
Below(pos, lo, hi, j, m) ==
  \/ lo[m] <= lo[j] /\ hi[j] <= pos[m]
  \/ pos[m] <= lo[j] /\ hi[j] <= hi[m]

Placed(t, n, pos, lo, hi) ==
  /\ pos \in [1..n -> Int] /\ lo \in [1..n -> Int] /\ hi \in [1..n -> Int]
  /\ \A m \in 1..n : lo[m] < pos[m] /\ pos[m] < hi[m]
  /\ \A i, j \in 1..n : i # j =>
       \/ hi[i] <= lo[j] \/ hi[j] <= lo[i]
       \/ Below(pos, lo, hi, i, j) \/ Below(pos, lo, hi, j, i)
  /\ t.root # 0 => \A j \in 1..n : lo[t.root] < pos[j] /\ pos[j] < hi[t.root]
  /\ \A m \in 1..n : LET k == t.nodes[m].kid["left"] IN
       IF k # 0 THEN lo[k] = lo[m] /\ hi[k] = pos[m]
       ELSE \A j \in 1..n : ~(lo[m] < pos[j] /\ pos[j] < pos[m])
  /\ \A m \in 1..n : LET k == t.nodes[m].kid["right"] IN
       IF k # 0 THEN lo[k] = pos[m] /\ hi[k] = hi[m]
       ELSE \A j \in 1..n : ~(pos[m] < pos[j] /\ pos[j] < hi[m])

(* Places and the ends of intervals are integers.                          *)
LEMMA PlacedParts ==
  ASSUME NEW t, NEW n, Typed(t, n), NEW pos, NEW lo, NEW hi, Placed(t, n, pos, lo, hi)
  PROVE  /\ pos \in [1..n -> Int] /\ lo \in [1..n -> Int] /\ hi \in [1..n -> Int]
         /\ \A m \in 1..n : /\ pos[m] \in Int /\ lo[m] \in Int /\ hi[m] \in Int
                            /\ lo[m] < pos[m] /\ pos[m] < hi[m]
BY DEF Placed

(* A child's places are fewer than its parent's.                           *)
LEMMA KidFacts ==
  ASSUME NEW t, NEW n, Typed(t, n), LinkedIn(t, n),
         NEW pos, NEW lo, NEW hi, Placed(t, n, pos, lo, hi),
         NEW m \in 1..n, NEW s \in Sides, NEW k \in 1..n, t.nodes[m].kid[s] = k
  PROVE  /\ t.nodes[k].parent = m /\ k # m /\ t.nodes[m].kid[Other(s)] # k
         /\ lo[m] <= lo[k] /\ hi[k] <= hi[m] /\ hi[k] - lo[k] < hi[m] - lo[m]
<1>1. n \in Nat /\ k # 0
  BY TreeParts
<1>2. t.nodes[k].parent = m
  BY <1>1 DEF LinkedIn
<1>3. /\ lo[m] \in Int /\ pos[m] \in Int /\ hi[m] \in Int /\ lo[m] < pos[m] /\ pos[m] < hi[m]
      /\ lo[k] \in Int /\ hi[k] \in Int /\ pos[k] \in Int /\ lo[k] < pos[k] /\ pos[k] < hi[k]
  BY <1>1, PlacedParts
<1>4. CASE s = "left"
  <2>1. lo[k] = lo[m] /\ hi[k] = pos[m]
    BY <1>1, <1>4 DEF Placed
  <2>2. t.nodes[m].kid["right"] = k => lo[k] = pos[m]
    BY <1>1 DEF Placed
  <2>3. Other(s) = "right"
    BY <1>4 DEF Other
  <2>. QED  BY <1>1, <1>2, <1>3, <2>1, <2>2, <2>3
<1>5. CASE s = "right"
  <2>1. lo[k] = pos[m] /\ hi[k] = hi[m]
    BY <1>1, <1>5 DEF Placed
  <2>2. t.nodes[m].kid["left"] = k => hi[k] = pos[m]
    BY <1>1 DEF Placed
  <2>3. Other(s) = "left"
    BY <1>5 DEF Other
  <2>. QED  BY <1>1, <1>2, <1>3, <2>1, <2>2, <2>3
<1>. QED  BY <1>4, <1>5 DEF Sides

(* The child a node is, of its parent.                                     *)
LEMMA ParentFacts ==
  ASSUME NEW t, NEW n, Typed(t, n), LinkedIn(t, n),
         NEW pos, NEW lo, NEW hi, Placed(t, n, pos, lo, hi),
         NEW m \in 1..n, NEW p \in 1..n, t.nodes[m].parent = p
  PROVE  /\ p # m /\ m # t.root
         /\ \E s \in Sides : t.nodes[p].kid[s] = m /\ t.nodes[p].kid[Other(s)] # m
         /\ lo[p] <= lo[m] /\ hi[m] <= hi[p] /\ hi[m] - lo[m] < hi[p] - lo[p]
         /\ \A i \in 1..n, s \in Sides : t.nodes[i].kid[s] = m => i = p
<1>1. n \in Nat /\ p # 0 /\ m # 0
  BY TreeParts
<1>2. PICK s \in Sides : t.nodes[p].kid[s] = m
  BY <1>1 DEF LinkedIn
<1>3. /\ p # m /\ t.nodes[p].kid[Other(s)] # m
      /\ lo[p] <= lo[m] /\ hi[m] <= hi[p] /\ hi[m] - lo[m] < hi[p] - lo[p]
  BY <1>1, <1>2, KidFacts
<1>4. m # t.root /\ \A i \in 1..n, r \in Sides : t.nodes[i].kid[r] = m => i = p
  BY <1>1 DEF LinkedIn
<1>. QED  BY <1>1, <1>2, <1>3, <1>4

(* What a rotation does, told node by node: y goes up, x goes down.        *)
Turned(t, u, n, x, y, inner, p, side) ==
  /\ u.root = IF p = 0 THEN y ELSE t.root
  /\ \A m \in 1..n :
       /\ u.nodes[m].value = t.nodes[m].value
       /\ u.nodes[m].parent =
            IF m = x THEN y ELSE IF m = y THEN p ELSE IF m = inner THEN x ELSE t.nodes[m].parent
       /\ \A s \in Sides : u.nodes[m].kid[s] =
            IF m = x THEN IF s = side THEN t.nodes[m].kid[s] ELSE inner
            ELSE IF m = y THEN IF s = side THEN x ELSE t.nodes[m].kid[s]
            ELSE IF t.nodes[m].kid[s] = x THEN y ELSE t.nodes[m].kid[s]

(* The nodes of a rotation.                                                *)
Pivot(t, x, y, inner, p, side) ==
  t.nodes[x].kid[Other(side)] = y /\ t.nodes[y].kid[side] = inner /\ t.nodes[x].parent = p

(* They are different ones.                                                *)
LEMMA AroundRotation ==
  ASSUME NEW t, NEW n, Typed(t, n), LinkedIn(t, n),
         NEW pos, NEW lo, NEW hi, Placed(t, n, pos, lo, hi),
         NEW side \in Sides, NEW x \in 1..n, NEW y \in 1..n, NEW inner, NEW p,
         Pivot(t, x, y, inner, p, side)
  PROVE  /\ n \in Nat /\ inner \in 0..n /\ p \in 0..n /\ t.root \in 0..n
         /\ x # 0 /\ y # 0 /\ x # y /\ inner # x /\ inner # y /\ p # x /\ p # y
         /\ (inner # 0 => inner # p)
         /\ t.nodes[y].parent = x /\ (inner # 0 => t.nodes[inner].parent = y)
<1>0. t.nodes[x].kid[Other(side)] = y /\ t.nodes[y].kid[side] = inner /\ t.nodes[x].parent = p
  BY DEF Pivot
<1>1. /\ Other(side) \in Sides /\ n \in Nat /\ t.root \in 0..n /\ x # 0 /\ y # 0
  BY OtherSide, TreeParts
<1>2. inner \in 0..n
  BY <1>0, NodeParts
<1>3. p \in 0..n
  BY <1>0, NodeParts
<1>4. \A m \in 1..n : lo[m] \in Int /\ hi[m] \in Int
  BY PlacedParts
<1>5. t.nodes[y].parent = x /\ y # x /\ hi[y] - lo[y] < hi[x] - lo[x]
  BY <1>0, <1>1, KidFacts
<1>6. inner # 0 => /\ inner \in 1..n /\ t.nodes[inner].parent = y /\ inner # y
                   /\ hi[inner] - lo[inner] < hi[y] - lo[y]
  BY <1>0, <1>1, <1>2, KidFacts
<1>7. p # 0 => p \in 1..n /\ p # x /\ hi[x] - lo[x] < hi[p] - lo[p]
  BY <1>0, <1>1, <1>3, ParentFacts
<1>8. CASE p = 0
  BY <1>1, <1>2, <1>4, <1>5, <1>6, <1>8
<1>9. CASE p # 0
  BY <1>1, <1>2, <1>3, <1>4, <1>5, <1>6, <1>7, <1>9
<1>. QED  BY <1>8, <1>9

Swung(t, x, y, inner, p, side, other) ==
  LET h == t.nodes
  IN  [nodes |-> [n \in DOMAIN h |->
         CASE n = x -> [h[n] EXCEPT !.kid[other] = inner, !.parent = y]
           [] n = y -> [h[n] EXCEPT !.kid[side] = x, !.parent = p]
           [] n = inner -> [h[n] EXCEPT !.parent = x]
           [] n = p -> [h[n] EXCEPT !.kid[IF h[p].kid[side] = x THEN side ELSE other] = y]
           [] OTHER -> h[n]],
       root |-> IF p = 0 THEN y ELSE t.root]

(* A rotation, with the node between the two named.                        *)
LEMMA RotatedIsSwung ==
  ASSUME NEW t, NEW x, NEW side
  PROVE  Rotated(t, x, side) =
           Swung(t, x, t.nodes[x].kid[Other(side)], t.nodes[t.nodes[x].kid[Other(side)]].kid[side],
                 t.nodes[x].parent, side, Other(side))
BY Zenon DEF Rotated, Swung

(* What a rotation does to the links, node by node.                        *)
LEMMA RotatedEffect ==
  ASSUME NEW t, NEW n, Typed(t, n), LinkedIn(t, n),
         NEW pos, NEW lo, NEW hi, Placed(t, n, pos, lo, hi),
         NEW side \in Sides, NEW x \in 1..n, NEW y \in 1..n, NEW inner, NEW p,
         Pivot(t, x, y, inner, p, side),
         NEW u, Rotated(t, x, side) = u
  PROVE  /\ Typed(u, n) /\ Turned(t, u, n, x, y, inner, p, side)
         /\ \A m \in 1..n : u.nodes[m].color = t.nodes[m].color
<1> USE DEF Turned
<1>1. /\ Other(side) \in Sides /\ Other(side) # side /\ Other(Other(side)) = side
      /\ \A s \in Sides : s = side \/ s = Other(side)
  BY OtherSide
<1>2. /\ n \in Nat /\ inner \in 0..n /\ p \in 0..n /\ t.root \in 0..n
      /\ x # 0 /\ y # 0 /\ x # y /\ inner # x /\ inner # y /\ p # x /\ p # y
      /\ (inner # 0 => inner # p)
      /\ t.nodes[y].parent = x /\ (inner # 0 => t.nodes[inner].parent = y)
  BY AroundRotation
<1> DEFINE o == Other(side)
           q == IF t.nodes[p].kid[side] = x THEN side ELSE o
           G(m) ==
             CASE m = x -> [t.nodes[m] EXCEPT !.kid[o] = inner, !.parent = y]
               [] m = y -> [t.nodes[m] EXCEPT !.kid[side] = x, !.parent = p]
               [] m = inner -> [t.nodes[m] EXCEPT !.parent = x]
               [] m = p -> [t.nodes[m] EXCEPT !.kid[q] = y]
               [] OTHER -> t.nodes[m]
           H == [m \in 1..n |-> G(m)]
<1>3. u = [nodes |-> H, root |-> IF p = 0 THEN y ELSE t.root]
  <2>1. DOMAIN t.nodes = 1..n
    BY TreeParts
  <2>2. u = Swung(t, x, y, inner, p, side, o)
    BY RotatedIsSwung DEF Pivot
  <2>3. u = [nodes |-> [m \in DOMAIN t.nodes |-> G(m)], root |-> IF p = 0 THEN y ELSE t.root]
    BY <2>2, Zenon DEF Swung
  <2>. QED  BY <2>1, <2>3
<1>o. o \in Sides /\ o # side /\ \A s \in Sides : s # o <=> s = side
  BY <1>1
<1> HIDE DEF o
<1>4. ASSUME NEW m \in 1..n
      PROVE /\ m = x => G(m) = [t.nodes[x] EXCEPT !.kid[o] = inner, !.parent = y]
            /\ m = y => G(m) = [t.nodes[y] EXCEPT !.kid[side] = x, !.parent = p]
            /\ m = inner => G(m) = [t.nodes[inner] EXCEPT !.parent = x]
            /\ m = p => G(m) = [t.nodes[p] EXCEPT !.kid[q] = y]
            /\ m \notin {x, y, inner, p} => G(m) = t.nodes[m]
  <2>1. m # 0
    BY <1>2
  <2>2. CASE m = x
    <3>1. m # y /\ m # inner /\ m # p
      BY <1>2, <2>2
    <3>. QED  BY <2>2, <3>1, Zenon
  <2>3. CASE m = y
    <3>1. m # x /\ m # inner /\ m # p
      BY <1>2, <2>3
    <3>. QED  BY <2>3, <3>1, Zenon
  <2>4. CASE m = inner
    <3>1. m # x /\ m # y /\ m # p
      BY <1>2, <2>1, <2>4
    <3>. QED  BY <2>4, <3>1, Zenon
  <2>5. CASE m = p
    <3>1. m # x /\ m # y /\ m # inner
      BY <1>2, <2>1, <2>5
    <3>. QED  BY <2>5, <3>1, Zenon
  <2>6. CASE m # x /\ m # y /\ m # inner /\ m # p
    BY <2>6, Zenon
  <2>. QED  BY <2>2, <2>3, <2>4, <2>5, <2>6
<1> HIDE DEF G
<1>5. ASSUME p # 0
      PROVE  /\ p \in 1..n /\ q \in Sides /\ Other(q) \in Sides /\ Other(q) # q
             /\ \A s \in Sides : s = q \/ s = Other(q)
             /\ t.nodes[p].kid[q] = x /\ t.nodes[p].kid[Other(q)] # x
  <2>2. p \in 1..n
    BY <1>2, <1>5
  <2>1. PICK s \in Sides : t.nodes[p].kid[s] = x /\ t.nodes[p].kid[Other(s)] # x
    BY <2>2, ParentFacts DEF Pivot
  <2>3. q = s
    BY <1>o, <1>1, <2>1
  <2>. QED  BY <2>1, <2>2, <2>3, OtherSide
<1> HIDE DEF q
<1>6. \A m \in 1..n, s \in Sides : t.nodes[m].kid[s] = x => m = p
  BY <1>2 DEF LinkedIn, Pivot
<1>7. \A m \in 1..n : t.nodes[m] \in NodeOf(n) /\ \A s \in Sides : t.nodes[m].kid[s] \in 0..n
  BY NodeParts
<1>8. /\ G(x) \in NodeOf(n) /\ G(x).value = t.nodes[x].value /\ G(x).color = t.nodes[x].color
      /\ G(x).parent = y
      /\ \A s \in Sides : G(x).kid[s] = IF s = side THEN t.nodes[x].kid[s] ELSE inner
  <2>1. G(x) = [t.nodes[x] EXCEPT !.kid[o] = inner, !.parent = y]
    BY <1>4
  <2>2. t.nodes[x] \in NodeOf(n) /\ y \in 0..n
    BY <1>2, <1>7
  <2> DEFINE v == [t.nodes[x] EXCEPT !.kid[o] = inner]
  <2>4. /\ v \in NodeOf(n) /\ v.value = t.nodes[x].value /\ v.color = t.nodes[x].color
        /\ v.kid[o] = inner /\ \A s \in Sides : s # o => v.kid[s] = t.nodes[x].kid[s]
    BY <1>o, <1>2, <2>2 DEF NodeOf
  <2>5. G(x) = [v EXCEPT !.parent = y]
    BY <2>1, Zenon
  <2> HIDE DEF v
  <2>3. /\ G(x) \in NodeOf(n) /\ G(x).value = t.nodes[x].value /\ G(x).color = t.nodes[x].color
        /\ G(x).parent = y /\ G(x).kid[o] = inner
        /\ \A s \in Sides : s # o => G(x).kid[s] = t.nodes[x].kid[s]
    BY <1>2, <2>4, <2>5, ParentPut
  <2>. QED  BY <1>o, <2>3
<1>9. /\ G(y) \in NodeOf(n) /\ G(y).value = t.nodes[y].value /\ G(y).color = t.nodes[y].color
      /\ G(y).parent = p
      /\ \A s \in Sides : G(y).kid[s] = IF s = side THEN x ELSE t.nodes[y].kid[s]
  <2>1. G(y) = [t.nodes[y] EXCEPT !.kid[side] = x, !.parent = p]
    BY <1>4
  <2>2. t.nodes[y] \in NodeOf(n) /\ x \in 0..n
    BY <1>2, <1>7
  <2> DEFINE v == [t.nodes[y] EXCEPT !.kid[side] = x]
  <2>4. /\ v \in NodeOf(n) /\ v.value = t.nodes[y].value /\ v.color = t.nodes[y].color
        /\ v.kid[side] = x /\ \A s \in Sides : s # side => v.kid[s] = t.nodes[y].kid[s]
    BY <1>o, <1>2, <2>2 DEF NodeOf
  <2>5. G(y) = [v EXCEPT !.parent = p]
    BY <2>1, Zenon
  <2> HIDE DEF v
  <2>3. /\ G(y) \in NodeOf(n) /\ G(y).value = t.nodes[y].value /\ G(y).color = t.nodes[y].color
        /\ G(y).parent = p /\ G(y).kid[side] = x
        /\ \A s \in Sides : s # side => G(y).kid[s] = t.nodes[y].kid[s]
    BY <1>2, <2>4, <2>5, ParentPut
  <2>. QED  BY <2>3
<1>10. ASSUME NEW m \in 1..n, m # x, m # y
       PROVE  /\ G(m) \in NodeOf(n) /\ G(m).value = t.nodes[m].value
              /\ G(m).color = t.nodes[m].color
              /\ G(m).parent = IF m = inner THEN x ELSE t.nodes[m].parent
              /\ \A s \in Sides : G(m).kid[s] =
                   IF t.nodes[m].kid[s] = x THEN y ELSE t.nodes[m].kid[s]
  <2>0. m # 0
    BY <1>2
  <2>1. CASE m = inner
    <3>1. G(m) = [t.nodes[m] EXCEPT !.parent = x]
      BY <1>4, <2>1
    <3>2. t.nodes[m] \in NodeOf(n) /\ x \in 0..n
      BY <1>2, <1>7
    <3>3. /\ G(m) \in NodeOf(n) /\ G(m).value = t.nodes[m].value
          /\ G(m).color = t.nodes[m].color /\ G(m).parent = x /\ G(m).kid = t.nodes[m].kid
      BY <3>1, <3>2, ParentPut
    <3>4. m # p
      BY <1>2, <2>0, <2>1
    <3>. QED  BY <1>6, <2>1, <3>3, <3>4
  <2>2. CASE m = p
    <3>1. p # 0 /\ m # inner
      BY <1>2, <2>0, <2>2
    <3>2. G(m) = [t.nodes[m] EXCEPT !.kid[q] = y]
      BY <1>4, <2>2
    <3>3. t.nodes[m] \in NodeOf(n) /\ y \in 0..n /\ q \in Sides
      BY <1>2, <1>5, <1>7, <3>1
    <3>4. /\ G(m) \in NodeOf(n) /\ G(m).value = t.nodes[m].value
          /\ G(m).color = t.nodes[m].color /\ G(m).parent = t.nodes[m].parent
          /\ G(m).kid[q] = y /\ \A s \in Sides : s # q => G(m).kid[s] = t.nodes[m].kid[s]
      BY <3>2, <3>3 DEF NodeOf
    <3>. QED  BY <1>5, <2>2, <3>1, <3>4
  <2>3. CASE m # inner /\ m # p
    <3>1. G(m) = t.nodes[m]
      BY <1>4, <1>10, <2>3
    <3>. QED  BY <1>6, <1>7, <2>3, <3>1
  <2>. QED  BY <2>1, <2>2, <2>3
<1>11. \A m \in 1..n : G(m) \in NodeOf(n)
  BY <1>8, <1>9, <1>10
<1>12. Typed(u, n) /\ u.nodes = H /\ u.root = IF p = 0 THEN y ELSE t.root
  <2>1. H \in [1..n -> NodeOf(n)] /\ (IF p = 0 THEN y ELSE t.root) \in 0..n
    BY <1>2, <1>11
  <2> HIDE DEF H
  <2>. QED  BY <1>2, <1>3, <2>1 DEF Typed
<1>13. \A m \in 1..n : u.nodes[m] = G(m)
  BY <1>12
<1>14. \A m \in 1..n : u.nodes[m].value = t.nodes[m].value /\ u.nodes[m].color = t.nodes[m].color
  BY <1>8, <1>9, <1>10, <1>13
<1>15. \A m \in 1..n : u.nodes[m].parent =
         IF m = x THEN y ELSE IF m = y THEN p ELSE IF m = inner THEN x ELSE t.nodes[m].parent
  BY <1>8, <1>9, <1>10, <1>13
<1>16. ASSUME NEW m \in 1..n, NEW s \in Sides
       PROVE  u.nodes[m].kid[s] =
                IF m = x THEN IF s = side THEN t.nodes[m].kid[s] ELSE inner
                ELSE IF m = y THEN IF s = side THEN x ELSE t.nodes[m].kid[s]
                ELSE IF t.nodes[m].kid[s] = x THEN y ELSE t.nodes[m].kid[s]
  <2>1. CASE m = x
    BY <1>8, <1>13, <2>1
  <2>2. CASE m = y
    BY <1>2, <1>9, <1>13, <2>2
  <2>3. CASE m # x /\ m # y
    BY <1>10, <1>13, <2>3
  <2>. QED  BY <2>1, <2>2, <2>3
<1>. QED  BY <1>12, <1>14, <1>15, <1>16

(* A rotation leaves parents and children inverse of each other.           *)
LEMMA TurnedLinked ==
  ASSUME NEW t, NEW n, Typed(t, n), LinkedIn(t, n),
         NEW pos, NEW lo, NEW hi, Placed(t, n, pos, lo, hi),
         NEW side \in Sides, NEW x \in 1..n, NEW y \in 1..n, NEW inner, NEW p,
         Pivot(t, x, y, inner, p, side),
         NEW u, Typed(u, n), Turned(t, u, n, x, y, inner, p, side)
  PROVE  LinkedIn(u, n)
<1>1. /\ Other(side) \in Sides /\ Other(side) # side
      /\ \A s \in Sides : s = side \/ s = Other(side)
  BY OtherSide
<1>2. /\ n \in Nat /\ inner \in 0..n /\ p \in 0..n /\ t.root \in 0..n
      /\ x # 0 /\ y # 0 /\ x # y /\ inner # x /\ inner # y /\ p # x /\ p # y
      /\ (inner # 0 => inner # p)
      /\ t.nodes[y].parent = x /\ (inner # 0 => t.nodes[inner].parent = y)
  BY AroundRotation
<1>3. /\ t.nodes[x].kid[Other(side)] = y /\ t.nodes[y].kid[side] = inner
      /\ t.nodes[x].parent = p
  BY DEF Pivot
<1>4. \A m \in 1..n :
        /\ t.nodes[m].parent = 0 <=> m = t.root
        /\ \A s \in Sides : t.nodes[m].kid[s] # 0 => t.nodes[t.nodes[m].kid[s]].parent = m
        /\ t.nodes[m].parent # 0 => \E s \in Sides : t.nodes[t.nodes[m].parent].kid[s] = m
  BY DEF LinkedIn
<1>5. /\ u.root = IF p = 0 THEN y ELSE t.root
      /\ \A m \in 1..n : u.nodes[m].parent =
            IF m = x THEN y ELSE IF m = y THEN p ELSE IF m = inner THEN x ELSE t.nodes[m].parent
      /\ \A m \in 1..n, s \in Sides : u.nodes[m].kid[s] =
            IF m = x THEN IF s = side THEN t.nodes[m].kid[s] ELSE inner
            ELSE IF m = y THEN IF s = side THEN x ELSE t.nodes[m].kid[s]
            ELSE IF t.nodes[m].kid[s] = x THEN y ELSE t.nodes[m].kid[s]
  BY DEF Turned
<1>6. \A m \in 1..n, s \in Sides : t.nodes[m].kid[s] \in 0..n
  BY NodeParts
<1>7. \A m \in 1..n : t.nodes[m].parent \in 0..n
  BY NodeParts
<1>8. ASSUME NEW m \in 1..n PROVE u.nodes[m].parent = 0 <=> m = u.root
  <2>1. CASE p = 0
    BY <1>2, <1>3, <1>4, <1>5, <2>1
  <2>2. CASE p # 0
    BY <1>2, <1>3, <1>4, <1>5, <2>2
  <2>. QED  BY <2>1, <2>2
<1>9. ASSUME NEW m \in 1..n, NEW s \in Sides, u.nodes[m].kid[s] # 0
      PROVE  u.nodes[u.nodes[m].kid[s]].parent = m
  <2>1. CASE m = x /\ s = side
    <3>1. PICK k \in 1..n : k = t.nodes[x].kid[side]
      BY <1>2, <1>5, <1>6, <1>9, <2>1
    <3>2. t.nodes[k].parent = x /\ k # x /\ k # y
      BY <1>2, <1>3, <3>1, KidFacts
    <3>3. u.nodes[m].kid[s] = k /\ k # inner
      BY <1>2, <1>5, <2>1, <3>1, <3>2
    <3>. QED  BY <1>5, <2>1, <3>2, <3>3
  <2>2. CASE m = x /\ s # side
    BY <1>2, <1>5, <1>9, <2>2
  <2>3. CASE m = y /\ s = side
    BY <1>2, <1>5, <2>3
  <2>4. CASE m = y /\ s # side
    <3>1. PICK k \in 1..n : k = t.nodes[y].kid[s]
      BY <1>2, <1>5, <1>6, <1>9, <2>4
    <3>2. t.nodes[k].parent = y /\ k # y /\ s = Other(side)
      BY <1>1, <2>4, <3>1, KidFacts
    <3>3. k # inner
      BY <1>2, <1>3, <2>4, <3>1, <3>2, KidFacts, OtherSide
    <3>4. u.nodes[m].kid[s] = k /\ k # x
      BY <1>2, <1>3, <1>5, <2>4, <3>1, <3>2
    <3>. QED  BY <1>5, <2>4, <3>2, <3>3, <3>4
  <2>5. CASE m # x /\ m # y /\ t.nodes[m].kid[s] = x
    <3>1. m = p /\ u.nodes[m].kid[s] = y
      BY <1>2, <1>3, <1>4, <1>5, <2>5
    <3>. QED  BY <1>2, <1>5, <3>1
  <2>6. CASE m # x /\ m # y /\ t.nodes[m].kid[s] # x
    <3>1. PICK k \in 1..n : k = t.nodes[m].kid[s]
      BY <1>2, <1>5, <1>6, <1>9, <2>6
    <3>2. t.nodes[k].parent = m /\ k # x /\ u.nodes[m].kid[s] = k
      BY <1>2, <1>4, <1>5, <2>6, <3>1
    <3>3. k # y /\ k # inner
      BY <1>2, <2>6, <3>2
    <3>. QED  BY <1>5, <3>2, <3>3
  <2>. QED  BY <2>1, <2>2, <2>3, <2>4, <2>5, <2>6
<1>10. ASSUME NEW m \in 1..n, u.nodes[m].parent # 0
       PROVE  \E s \in Sides : u.nodes[u.nodes[m].parent].kid[s] = m
  <2>1. CASE m = x
    <3>1. u.nodes[y].kid[side] = x /\ u.nodes[m].parent = y
      BY <1>2, <1>5, <2>1
    <3>. QED  BY <2>1, <3>1
  <2>2. CASE m = y
    <3>1. p \in 1..n /\ u.nodes[m].parent = p /\ p # 0
      BY <1>2, <1>5, <1>10, <2>2
    <3>2. PICK s \in Sides : t.nodes[p].kid[s] = x
      BY <1>3, <1>4, <3>1
    <3>3. u.nodes[p].kid[s] = y
      BY <1>2, <1>5, <3>1, <3>2
    <3>. QED  BY <2>2, <3>1, <3>3
  <2>3. CASE m = inner
    <3>1. u.nodes[x].kid[Other(side)] = inner /\ u.nodes[m].parent = x
      BY <1>1, <1>2, <1>5, <2>3
    <3>. QED  BY <1>1, <2>3, <3>1
  <2>4. CASE m # x /\ m # y /\ m # inner
    <3>1. PICK q \in 1..n : q = t.nodes[m].parent /\ q # 0
      BY <1>2, <1>5, <1>7, <1>10, <2>4
    <3>2. PICK s \in Sides : t.nodes[q].kid[s] = m
      BY <1>4, <3>1
    <3>3. (q = x => s = side) /\ (q = y => s # side)
      BY <1>1, <1>3, <2>4, <3>2
    <3>4. u.nodes[q].kid[s] = m
      BY <1>5, <2>4, <3>2, <3>3
    <3>5. u.nodes[m].parent = q
      BY <1>5, <2>4, <3>1
    <3>. QED  BY <3>4, <3>5
  <2>. QED  BY <2>1, <2>2, <2>3, <2>4
<1>. QED  BY <1>8, <1>9, <1>10 DEF LinkedIn

(* The places move with the nodes; x gives its own to y and keeps those of *)
(* what hangs below it now.                                                *)
LEMMA TurnedPlaced ==
  ASSUME NEW t, NEW n, Typed(t, n), LinkedIn(t, n),
         NEW pos, NEW lo, NEW hi, Placed(t, n, pos, lo, hi),
         NEW side \in Sides, NEW x \in 1..n, NEW y \in 1..n, NEW inner, NEW p,
         Pivot(t, x, y, inner, p, side),
         NEW u, Typed(u, n), Turned(t, u, n, x, y, inner, p, side)
  PROVE  \E l, h : Placed(u, n, pos, l, h)
<1> DEFINE l == [lo EXCEPT ![y] = lo[x], ![x] = IF side = "left" THEN lo[x] ELSE pos[y]]
           h == [hi EXCEPT ![y] = hi[x], ![x] = IF side = "left" THEN pos[y] ELSE hi[x]]
<1>1. /\ side \in {"left", "right"} /\ Other("left") = "right" /\ Other("right") = "left"
      /\ "left" \in Sides /\ "right" \in Sides
  BY DEF Other, Sides
<1>2. /\ n \in Nat /\ inner \in 0..n /\ p \in 0..n /\ t.root \in 0..n
      /\ x # 0 /\ y # 0 /\ x # y /\ inner # x /\ inner # y /\ p # x /\ p # y
      /\ (inner # 0 => inner # p)
      /\ t.nodes[y].parent = x /\ (inner # 0 => t.nodes[inner].parent = y)
  BY AroundRotation
<1>3. /\ t.nodes[x].kid[Other(side)] = y /\ t.nodes[y].kid[side] = inner
      /\ t.nodes[x].parent = p
  BY DEF Pivot
<1>4. \A m \in 1..n, s \in Sides :
        /\ t.nodes[m].kid[s] \in 0..n
        /\ t.nodes[m].kid[s] # 0 => t.nodes[t.nodes[m].kid[s]].parent = m
  BY NodeParts DEF LinkedIn
<1>5. /\ u.root = IF p = 0 THEN y ELSE t.root
      /\ \A m \in 1..n, s \in Sides : u.nodes[m].kid[s] =
            IF m = x THEN IF s = side THEN t.nodes[m].kid[s] ELSE inner
            ELSE IF m = y THEN IF s = side THEN x ELSE t.nodes[m].kid[s]
            ELSE IF t.nodes[m].kid[s] = x THEN y ELSE t.nodes[m].kid[s]
  BY DEF Turned
<1>6. /\ pos \in [1..n -> Int] /\ lo \in [1..n -> Int] /\ hi \in [1..n -> Int]
      /\ \A m \in 1..n : /\ pos[m] \in Int /\ lo[m] \in Int /\ hi[m] \in Int
                         /\ lo[m] < pos[m] /\ pos[m] < hi[m]
  BY PlacedParts
<1>7. /\ t.root # 0 => \A j \in 1..n : lo[t.root] < pos[j] /\ pos[j] < hi[t.root]
      /\ \A i, j \in 1..n : i # j =>
           \/ hi[i] <= lo[j] \/ hi[j] <= lo[i]
           \/ Below(pos, lo, hi, i, j) \/ Below(pos, lo, hi, j, i)
  BY DEF Placed
<1>8. \A m \in 1..n :
        IF t.nodes[m].kid["left"] # 0
        THEN lo[t.nodes[m].kid["left"]] = lo[m] /\ hi[t.nodes[m].kid["left"]] = pos[m]
        ELSE \A j \in 1..n : ~(lo[m] < pos[j] /\ pos[j] < pos[m])
  BY DEF Placed
<1>9. \A m \in 1..n :
        IF t.nodes[m].kid["right"] # 0
        THEN lo[t.nodes[m].kid["right"]] = pos[m] /\ hi[t.nodes[m].kid["right"]] = hi[m]
        ELSE \A j \in 1..n : ~(pos[m] < pos[j] /\ pos[j] < hi[m])
  BY DEF Placed
<1>10. /\ l \in [1..n -> Int] /\ h \in [1..n -> Int] /\ l[y] = lo[x] /\ h[y] = hi[x]
       /\ l[x] = IF side = "left" THEN lo[x] ELSE pos[y]
       /\ h[x] = IF side = "left" THEN pos[y] ELSE hi[x]
       /\ \A m \in 1..n : m # x /\ m # y => l[m] = lo[m] /\ h[m] = hi[m]
  BY <1>2, <1>6
<1> HIDE DEF l, h
<1>11. ASSUME side = "left"
       PROVE  /\ l[x] = lo[x] /\ h[x] = pos[y] /\ lo[y] = pos[x] /\ hi[y] = hi[x]
              /\ u.nodes[x].kid["left"] = t.nodes[x].kid["left"] /\ u.nodes[x].kid["right"] = inner
              /\ u.nodes[y].kid["left"] = x /\ u.nodes[y].kid["right"] = t.nodes[y].kid["right"]
              /\ t.nodes[x].kid["right"] = y /\ t.nodes[y].kid["left"] = inner
  <2>1. t.nodes[x].kid["right"] = y /\ t.nodes[y].kid["left"] = inner
    BY <1>1, <1>3, <1>11
  <2>2. lo[y] = pos[x] /\ hi[y] = hi[x]
    BY <1>2, <1>9, <2>1
  <2>3. /\ u.nodes[x].kid["left"] = t.nodes[x].kid["left"] /\ u.nodes[x].kid["right"] = inner
        /\ u.nodes[y].kid["left"] = x /\ u.nodes[y].kid["right"] = t.nodes[y].kid["right"]
    BY <1>1, <1>2, <1>5, <1>11
  <2>. QED  BY <1>10, <1>11, <2>1, <2>2, <2>3
<1>12. ASSUME side = "right"
       PROVE  /\ l[x] = pos[y] /\ h[x] = hi[x] /\ hi[y] = pos[x] /\ lo[y] = lo[x]
              /\ u.nodes[x].kid["right"] = t.nodes[x].kid["right"] /\ u.nodes[x].kid["left"] = inner
              /\ u.nodes[y].kid["right"] = x /\ u.nodes[y].kid["left"] = t.nodes[y].kid["left"]
              /\ t.nodes[x].kid["left"] = y /\ t.nodes[y].kid["right"] = inner
  <2>1. t.nodes[x].kid["left"] = y /\ t.nodes[y].kid["right"] = inner
    BY <1>1, <1>3, <1>12
  <2>2. hi[y] = pos[x] /\ lo[y] = lo[x]
    BY <1>2, <1>8, <2>1
  <2>3. /\ u.nodes[x].kid["right"] = t.nodes[x].kid["right"] /\ u.nodes[x].kid["left"] = inner
        /\ u.nodes[y].kid["right"] = x /\ u.nodes[y].kid["left"] = t.nodes[y].kid["left"]
    BY <1>1, <1>2, <1>5, <1>12
  <2>. QED  BY <1>10, <1>12, <2>1, <2>2, <2>3
<1>13. \A m \in 1..n : l[m] < pos[m] /\ pos[m] < h[m]
  <2>1. l[x] < pos[x] /\ pos[x] < h[x]
    BY <1>1, <1>6, <1>11, <1>12
  <2>2. l[y] < pos[y] /\ pos[y] < h[y]
    BY <1>1, <1>6, <1>10, <1>11, <1>12
  <2>. QED  BY <1>6, <1>10, <2>1, <2>2
<1>14. u.root # 0 => \A j \in 1..n : l[u.root] < pos[j] /\ pos[j] < h[u.root]
  <2>1. (p = 0 => t.root = x) /\ t.root # y /\ (p # 0 => t.root # x)
    BY <1>2, <1>3 DEF LinkedIn
  <2>2. CASE p = 0
    <3>1. u.root = y /\ t.root = x
      BY <1>5, <2>1, <2>2
    <3>. QED  BY <1>2, <1>7, <1>10, <3>1
  <2>3. CASE p # 0 /\ t.root # 0
    <3>1. u.root = t.root /\ t.root \in 1..n
      BY <1>2, <1>5, <2>3
    <3>. QED  BY <1>2, <1>7, <1>10, <2>1, <2>3, <3>1
  <2>. QED  BY <1>5, <2>2, <2>3
<1>15. ASSUME NEW m \in 1..n, m # x, m # y, NEW s \in Sides
       PROVE  LET k == t.nodes[m].kid[s] IN
              IF k = x THEN u.nodes[m].kid[s] = y
              ELSE u.nodes[m].kid[s] = k /\ (k # 0 => l[k] = lo[k] /\ h[k] = hi[k])
  <2>1. CASE t.nodes[m].kid[s] = x
    BY <1>5, <1>15, <2>1
  <2>2. CASE t.nodes[m].kid[s] # x
    <3>1. u.nodes[m].kid[s] = t.nodes[m].kid[s]
      BY <1>5, <1>15, <2>2
    <3>2. t.nodes[m].kid[s] # 0 => t.nodes[m].kid[s] \in 1..n /\ t.nodes[m].kid[s] # y
      BY <1>2, <1>4, <1>15
    <3>. QED  BY <1>10, <2>2, <3>1, <3>2
  <2>. QED  BY <2>1, <2>2
<1>16. ASSUME NEW m \in {x, y}, NEW s \in Sides, t.nodes[m].kid[s] # 0, t.nodes[m].kid[s] # y
       PROVE  l[t.nodes[m].kid[s]] = lo[t.nodes[m].kid[s]] /\ h[t.nodes[m].kid[s]] = hi[t.nodes[m].kid[s]]
  <2>1. PICK k \in 1..n : t.nodes[m].kid[s] = k /\ t.nodes[k].parent = m
    BY <1>2, <1>4, <1>16
  <2>2. k # m
    BY <2>1, <1>16, KidFacts
  <2>3. k # x
    BY <1>2, <1>3, <1>16, <2>1, <2>2
  <2>. QED  BY <1>10, <1>16, <2>1, <2>3
<1>17. ASSUME NEW m \in 1..n
       PROVE  IF u.nodes[m].kid["left"] # 0
              THEN l[u.nodes[m].kid["left"]] = l[m] /\ h[u.nodes[m].kid["left"]] = pos[m]
              ELSE \A j \in 1..n : ~(l[m] < pos[j] /\ pos[j] < pos[m])
  <2>1. CASE m = x /\ side = "left"
    <3>1. t.nodes[x].kid["left"] # y
      BY <1>1, <1>11, <2>1, KidFacts
    <3>. QED  BY <1>1, <1>8, <1>11, <1>16, <2>1, <3>1
  <2>2. CASE m = x /\ side = "right"
    BY <1>1, <1>2, <1>9, <1>12, <1>16, <2>2
  <2>3. CASE m = y /\ side = "left"
    BY <1>1, <1>2, <1>10, <1>11, <2>3
  <2>4. CASE m = y /\ side = "right"
    <3>1. t.nodes[y].kid["left"] # y
      BY <1>1, KidFacts
    <3>2. /\ l[y] = lo[y] /\ u.nodes[y].kid["left"] = t.nodes[y].kid["left"]
      BY <1>10, <1>12, <2>4, Zenon
    <3>3. CASE t.nodes[y].kid["left"] # 0
      <4>1. /\ l[t.nodes[y].kid["left"]] = lo[t.nodes[y].kid["left"]]
            /\ h[t.nodes[y].kid["left"]] = hi[t.nodes[y].kid["left"]]
        BY <1>1, <1>16, <3>1, <3>3, Zenon
      <4>2. lo[t.nodes[y].kid["left"]] = lo[y] /\ hi[t.nodes[y].kid["left"]] = pos[y]
        BY <1>8, <3>3, Zenon
      <4>. QED  BY <2>4, <3>2, <3>3, <4>1, <4>2, Zenon
    <3>4. CASE t.nodes[y].kid["left"] = 0
      <4>1. \A j \in 1..n : ~(lo[y] < pos[j] /\ pos[j] < pos[y])
        BY <1>8, <3>4, Zenon
      <4>. QED  BY <2>4, <3>2, <3>4, <4>1, Zenon
    <3>. QED  BY <3>3, <3>4
  <2>5. CASE m # x /\ m # y
    <3>1. l[m] = lo[m] /\ h[m] = hi[m] /\ l[y] = lo[x] /\ h[y] = hi[x] /\ x # 0 /\ y # 0
      BY <1>2, <1>10, <2>5
    <3>2. CASE t.nodes[m].kid["left"] = x
      <4>1. u.nodes[m].kid["left"] = y
        BY <1>1, <1>15, <2>5, <3>2
      <4>. QED  BY <1>8, <3>1, <3>2, <4>1
    <3>3. CASE t.nodes[m].kid["left"] # x
      <4>1. /\ u.nodes[m].kid["left"] = t.nodes[m].kid["left"]
            /\ t.nodes[m].kid["left"] # 0 =>
                 /\ l[t.nodes[m].kid["left"]] = lo[t.nodes[m].kid["left"]]
                 /\ h[t.nodes[m].kid["left"]] = hi[t.nodes[m].kid["left"]]
        BY <1>1, <1>15, <2>5, <3>3
      <4>. QED  BY <1>8, <3>1, <4>1
    <3>. QED  BY <3>2, <3>3
  <2>. QED  BY <1>1, <2>1, <2>2, <2>3, <2>4, <2>5
<1>18. ASSUME NEW m \in 1..n
       PROVE  IF u.nodes[m].kid["right"] # 0
              THEN l[u.nodes[m].kid["right"]] = pos[m] /\ h[u.nodes[m].kid["right"]] = h[m]
              ELSE \A j \in 1..n : ~(pos[m] < pos[j] /\ pos[j] < h[m])
  <2>1. CASE m = x /\ side = "right"
    <3>1. t.nodes[x].kid["right"] # y
      BY <1>1, <1>12, <2>1, KidFacts
    <3>. QED  BY <1>1, <1>9, <1>12, <1>16, <2>1, <3>1
  <2>2. CASE m = x /\ side = "left"
    BY <1>1, <1>2, <1>8, <1>11, <1>16, <2>2
  <2>3. CASE m = y /\ side = "right"
    BY <1>1, <1>2, <1>10, <1>12, <2>3
  <2>4. CASE m = y /\ side = "left"
    <3>1. t.nodes[y].kid["right"] # y
      BY <1>1, KidFacts
    <3>. QED  BY <1>1, <1>9, <1>10, <1>11, <1>16, <2>4, <3>1, SMTT(60)
  <2>5. CASE m # x /\ m # y
    <3>1. l[m] = lo[m] /\ h[m] = hi[m] /\ l[y] = lo[x] /\ h[y] = hi[x] /\ x # 0 /\ y # 0
      BY <1>2, <1>10, <2>5
    <3>2. CASE t.nodes[m].kid["right"] = x
      <4>1. u.nodes[m].kid["right"] = y
        BY <1>1, <1>15, <2>5, <3>2
      <4>. QED  BY <1>9, <3>1, <3>2, <4>1
    <3>3. CASE t.nodes[m].kid["right"] # x
      <4>1. /\ u.nodes[m].kid["right"] = t.nodes[m].kid["right"]
            /\ t.nodes[m].kid["right"] # 0 =>
                 /\ l[t.nodes[m].kid["right"]] = lo[t.nodes[m].kid["right"]]
                 /\ h[t.nodes[m].kid["right"]] = hi[t.nodes[m].kid["right"]]
        BY <1>1, <1>15, <2>5, <3>3
      <4>. QED  BY <1>9, <3>1, <4>1
    <3>. QED  BY <3>2, <3>3
  <2>. QED  BY <1>1, <2>1, <2>2, <2>3, <2>4, <2>5
<1>19. ASSUME NEW j \in 1..n, j # x, j # y
       PROVE  /\ h[j] <= l[x] \/ h[x] <= l[j] \/ Below(pos, l, h, j, x) \/ Below(pos, l, h, x, j)
              /\ h[j] <= l[y] \/ h[y] <= l[j] \/ Below(pos, l, h, j, y) \/ Below(pos, l, h, y, j)
  <2>1. /\ hi[j] <= lo[x] \/ hi[x] <= lo[j] \/ Below(pos, lo, hi, j, x) \/ Below(pos, lo, hi, x, j)
        /\ hi[j] <= lo[y] \/ hi[y] <= lo[j] \/ Below(pos, lo, hi, j, y) \/ Below(pos, lo, hi, y, j)
    BY <1>7, <1>19
  <2>2. l[j] = lo[j] /\ h[j] = hi[j] /\ l[y] = lo[x] /\ h[y] = hi[x]
    BY <1>10, <1>19
  <2>3. /\ lo[j] \in Int /\ pos[j] \in Int /\ hi[j] \in Int /\ lo[j] < pos[j] /\ pos[j] < hi[j]
        /\ lo[x] \in Int /\ pos[x] \in Int /\ hi[x] \in Int /\ lo[x] < pos[x] /\ pos[x] < hi[x]
        /\ lo[y] \in Int /\ pos[y] \in Int /\ hi[y] \in Int /\ lo[y] < pos[y] /\ pos[y] < hi[y]
    BY <1>6
  <2>4. CASE side = "left"
    BY <1>11, <2>1, <2>2, <2>3, <2>4 DEF Below
  <2>5. CASE side = "right"
    BY <1>12, <2>1, <2>2, <2>3, <2>5 DEF Below
  <2>. QED  BY <1>1, <2>4, <2>5
<1>20. Below(pos, l, h, x, y)
  BY <1>1, <1>6, <1>10, <1>11, <1>12 DEF Below
<1>21. ASSUME NEW i \in 1..n, NEW j \in 1..n, i # j
       PROVE  h[i] <= l[j] \/ h[j] <= l[i] \/ Below(pos, l, h, i, j) \/ Below(pos, l, h, j, i)
  <2>1. CASE i \notin {x, y} /\ j \notin {x, y}
    BY <1>7, <1>10, <1>21, <2>1 DEF Below
  <2>2. CASE i \in {x, y} \/ j \in {x, y}
    BY <1>19, <1>20, <1>21, <2>2
  <2>. QED  BY <2>1, <2>2
<1>22. Placed(u, n, pos, l, h)
  BY <1>6, <1>10, <1>13, <1>14, <1>17, <1>18, <1>21 DEF Placed
<1>. QED  BY <1>22

(* A certificate of the black nodes below each node, the same on both      *)
(* sides; High counts a child itself.                                      *)
High(t, c, k) == IF k = 0 THEN 0 ELSE c[k] + (IF t.nodes[k].color = "black" THEN 1 ELSE 0)

Weighed(t, n, c) ==
  /\ c \in [1..n -> Nat]
  /\ \A m \in 1..n, s \in Sides : High(t, c, t.nodes[m].kid[s]) = c[m]

(* A rotation whose nodes exchange their colors, the upper one getting     *)
(* red, keeps the certificate.                                             *)
LEMMA TurnedWeighed ==
  ASSUME NEW t, NEW n, Typed(t, n), LinkedIn(t, n),
         NEW pos, NEW lo, NEW hi, Placed(t, n, pos, lo, hi), NEW c, Weighed(t, n, c),
         NEW side \in Sides, NEW x \in 1..n, NEW y \in 1..n, NEW inner, NEW p,
         Pivot(t, x, y, inner, p, side),
         NEW u, Typed(u, n), Turned(t, u, n, x, y, inner, p, side),
         t.nodes[y].color = "red", u.nodes[x].color = "red", u.nodes[y].color = t.nodes[x].color,
         \A m \in 1..n : m # x /\ m # y => u.nodes[m].color = t.nodes[m].color
  PROVE  Weighed(u, n, c)
<1>1. /\ Other(side) \in Sides /\ Other(side) # side
      /\ \A s \in Sides : s = side \/ s = Other(side)
  BY OtherSide
<1>2. /\ n \in Nat /\ inner \in 0..n /\ p \in 0..n /\ t.root \in 0..n
      /\ x # 0 /\ y # 0 /\ x # y /\ inner # x /\ inner # y /\ p # x /\ p # y
      /\ (inner # 0 => inner # p)
      /\ t.nodes[y].parent = x /\ (inner # 0 => t.nodes[inner].parent = y)
  BY AroundRotation
<1>3. /\ t.nodes[x].kid[Other(side)] = y /\ t.nodes[y].kid[side] = inner
      /\ t.nodes[x].parent = p
  BY DEF Pivot
<1>4. \A m \in 1..n, s \in Sides :
        /\ t.nodes[m].kid[s] \in 0..n
        /\ t.nodes[m].kid[s] # 0 => t.nodes[t.nodes[m].kid[s]].parent = m
  BY NodeParts DEF LinkedIn
<1>5. \A m \in 1..n, s \in Sides : u.nodes[m].kid[s] =
            IF m = x THEN IF s = side THEN t.nodes[m].kid[s] ELSE inner
            ELSE IF m = y THEN IF s = side THEN x ELSE t.nodes[m].kid[s]
            ELSE IF t.nodes[m].kid[s] = x THEN y ELSE t.nodes[m].kid[s]
  BY DEF Turned
<1>6. c \in [1..n -> Nat] /\ \A m \in 1..n, s \in Sides : High(t, c, t.nodes[m].kid[s]) = c[m]
  BY DEF Weighed
<1>7. \A k \in 0..n : k # x /\ k # y => High(u, c, k) = High(t, c, k)
  BY <1>2 DEF High
<1>8. High(t, c, y) = c[y] /\ High(u, c, x) = c[x] /\ High(u, c, y) = High(t, c, x)
  <2>1. c[x] \in Nat /\ c[y] \in Nat
    BY <1>6
  <2>2. High(t, c, y) = c[y]
    BY <1>2, <2>1 DEF High
  <2>3. High(u, c, x) = c[x]
    BY <1>2, <2>1 DEF High
  <2>4. c[y] = c[x]
    BY <1>1, <1>3, <1>6, <2>2
  <2>5. High(u, c, y) = High(t, c, x)
    BY <1>2, <2>4 DEF High
  <2>. QED  BY <2>2, <2>3, <2>5
<1>9. c[x] = c[y]
  BY <1>1, <1>3, <1>6, <1>8
<1>10. ASSUME NEW m \in 1..n, NEW s \in Sides PROVE High(u, c, u.nodes[m].kid[s]) = c[m]
  <2>1. CASE m = x /\ s = side
    <3>1. PICK k \in 0..n : t.nodes[x].kid[side] = k
      BY <1>4
    <3>2. k # x /\ k # y
      <4>1. k \in 1..n => k # x /\ k # y
        BY <1>3, <3>1, KidFacts
      <4>. QED  BY <1>2, <4>1
    <3>. QED  BY <1>5, <1>6, <1>7, <2>1, <3>1, <3>2
  <2>2. CASE m = x /\ s # side
    <3>1. u.nodes[m].kid[s] = inner
      BY <1>5, <2>2
    <3>2. High(u, c, inner) = High(t, c, inner)
      BY <1>2, <1>7
    <3>3. High(t, c, inner) = c[y]
      BY <1>3, <1>6
    <3>. QED  BY <1>9, <2>2, <3>1, <3>2, <3>3
  <2>3. CASE m = y /\ s = side
    BY <1>2, <1>5, <1>8, <1>9, <2>3
  <2>4. CASE m = y /\ s # side
    <3>1. PICK k \in 0..n : t.nodes[y].kid[s] = k
      BY <1>4
    <3>2. k # x /\ k # y
      <4>1. k \in 1..n => k # y /\ t.nodes[k].parent = y
        BY <3>1, KidFacts
      <4>. QED  BY <1>2, <1>3, <4>1
    <3>3. u.nodes[m].kid[s] = k
      BY <1>2, <1>5, <2>4, <3>1
    <3>. QED  BY <1>6, <1>7, <2>4, <3>1, <3>2, <3>3
  <2>5. CASE m # x /\ m # y /\ t.nodes[m].kid[s] = x
    <3>1. u.nodes[m].kid[s] = y
      BY <1>5, <2>5
    <3>2. High(t, c, x) = c[m]
      BY <1>6, <2>5
    <3>. QED  BY <1>8, <3>1, <3>2
  <2>6. CASE m # x /\ m # y /\ t.nodes[m].kid[s] # x
    <3>1. PICK k \in 0..n : t.nodes[m].kid[s] = k
      BY <1>4
    <3>2. k # x /\ k # y
      BY <1>2, <1>4, <2>6, <3>1
    <3>3. u.nodes[m].kid[s] = k
      BY <1>5, <2>6, <3>1
    <3>. QED  BY <1>6, <1>7, <3>1, <3>2, <3>3
  <2>. QED  BY <2>1, <2>2, <2>3, <2>4, <2>5, <2>6
<1>. QED  BY <1>6, <1>10 DEF Weighed

(* Paint changes no link.                                                  *)
LEMMA PaintedLinks ==
  ASSUME NEW t, NEW n, Typed(t, n), NEW u, Typed(u, n), u.root = t.root,
         \A m \in 1..n : u.nodes[m].parent = t.nodes[m].parent /\ u.nodes[m].kid = t.nodes[m].kid
  PROVE  /\ LinkedIn(t, n) => LinkedIn(u, n)
         /\ \A pos, lo, hi : Placed(t, n, pos, lo, hi) => Placed(u, n, pos, lo, hi)
<1>1. n \in Nat /\ \A m \in 1..n : /\ t.nodes[m].parent \in 0..n
                                  /\ \A s \in Sides : t.nodes[m].kid[s] \in 0..n
  BY NodeParts, TreeParts
<1>2. LinkedIn(t, n) => LinkedIn(u, n)
  <2> SUFFICES ASSUME LinkedIn(t, n), NEW m \in 1..n
               PROVE  /\ u.nodes[m].parent = 0 <=> m = u.root
                      /\ \A s \in Sides : u.nodes[m].kid[s] # 0 => u.nodes[u.nodes[m].kid[s]].parent = m
                      /\ u.nodes[m].parent # 0 => \E s \in Sides : u.nodes[u.nodes[m].parent].kid[s] = m
    BY DEF LinkedIn
  <2>1. u.nodes[m].parent = 0 <=> m = u.root
    BY DEF LinkedIn
  <2>2. ASSUME NEW s \in Sides, u.nodes[m].kid[s] # 0 PROVE u.nodes[u.nodes[m].kid[s]].parent = m
    <3>1. PICK k \in 1..n : t.nodes[m].kid[s] = k
      BY <1>1, <2>2
    <3>2. k # 0 /\ t.nodes[k].parent = m
      BY <1>1, <3>1 DEF LinkedIn
    <3>. QED  BY <3>1, <3>2
  <2>3. ASSUME u.nodes[m].parent # 0 PROVE \E s \in Sides : u.nodes[u.nodes[m].parent].kid[s] = m
    <3>1. PICK q \in 1..n : t.nodes[m].parent = q
      BY <1>1, <2>3
    <3>2. PICK s \in Sides : t.nodes[q].kid[s] = m
      BY <1>1, <3>1 DEF LinkedIn
    <3>. QED  BY <3>1, <3>2
  <2>. QED  BY <2>1, <2>2, <2>3
<1>3. ASSUME NEW pos, NEW lo, NEW hi, Placed(t, n, pos, lo, hi) PROVE Placed(u, n, pos, lo, hi)
  <2>1. /\ pos \in [1..n -> Int] /\ lo \in [1..n -> Int] /\ hi \in [1..n -> Int]
        /\ \A m \in 1..n : lo[m] < pos[m] /\ pos[m] < hi[m]
        /\ \A i, j \in 1..n : i # j =>
             \/ hi[i] <= lo[j] \/ hi[j] <= lo[i]
             \/ Below(pos, lo, hi, i, j) \/ Below(pos, lo, hi, j, i)
        /\ u.root # 0 => \A j \in 1..n : lo[u.root] < pos[j] /\ pos[j] < hi[u.root]
    BY <1>3 DEF Placed
  <2>2. ASSUME NEW m \in 1..n
        PROVE LET k == u.nodes[m].kid["left"] IN
              IF k # 0 THEN lo[k] = lo[m] /\ hi[k] = pos[m]
              ELSE \A j \in 1..n : ~(lo[m] < pos[j] /\ pos[j] < pos[m])
    <3>1. u.nodes[m].kid = t.nodes[m].kid
      OBVIOUS
    <3>2. LET k == t.nodes[m].kid["left"] IN
              IF k # 0 THEN lo[k] = lo[m] /\ hi[k] = pos[m]
              ELSE \A j \in 1..n : ~(lo[m] < pos[j] /\ pos[j] < pos[m])
      BY <1>3 DEF Placed
    <3>. QED  BY <3>1, <3>2
  <2>3. ASSUME NEW m \in 1..n
        PROVE LET k == u.nodes[m].kid["right"] IN
              IF k # 0 THEN lo[k] = pos[m] /\ hi[k] = hi[m]
              ELSE \A j \in 1..n : ~(pos[m] < pos[j] /\ pos[j] < hi[m])
    <3>1. u.nodes[m].kid = t.nodes[m].kid
      OBVIOUS
    <3>2. LET k == t.nodes[m].kid["right"] IN
              IF k # 0 THEN lo[k] = pos[m] /\ hi[k] = hi[m]
              ELSE \A j \in 1..n : ~(pos[m] < pos[j] /\ pos[j] < hi[m])
      BY <1>3 DEF Placed
    <3>. QED  BY <3>1, <3>2
  <2>. QED  BY <2>1, <2>2, <2>3 DEF Placed
<1>. QED  BY <1>2, <1>3

(* A rotation of two red nodes.                                            *)
LEMMA RedTurn ==
  ASSUME NEW t, NEW n, Typed(t, n), LinkedIn(t, n),
         NEW pos, NEW lo, NEW hi, Placed(t, n, pos, lo, hi), NEW c, Weighed(t, n, c),
         NEW side \in Sides, NEW x \in 1..n, NEW y \in 1..n, NEW inner, NEW p,
         Pivot(t, x, y, inner, p, side),
         t.nodes[y].color = "red", t.nodes[x].color = "red",
         NEW u, Rotated(t, x, side) = u
  PROVE  /\ Typed(u, n) /\ LinkedIn(u, n) /\ Weighed(u, n, c)
         /\ \E l, h : Placed(u, n, pos, l, h)
         /\ Turned(t, u, n, x, y, inner, p, side)
         /\ \A m \in 1..n : u.nodes[m].color = t.nodes[m].color
<1>1. /\ Typed(u, n) /\ Turned(t, u, n, x, y, inner, p, side)
      /\ \A m \in 1..n : u.nodes[m].color = t.nodes[m].color
  BY RotatedEffect
<1>2. LinkedIn(u, n)
  BY <1>1, TurnedLinked
<1>3. Weighed(u, n, c)
  BY <1>1, TurnedWeighed
<1>4. \E l, h : Placed(u, n, pos, l, h)
  BY <1>1, TurnedPlaced
<1>. QED  BY <1>1, <1>2, <1>3, <1>4

Swapped(t, y, x) == Painted(t, {y}, {x})

(* The rotation of the grandparent, black, and the parent, red, after the  *)
(* two have exchanged their colors.                                        *)
LEMMA BlackTurn ==
  ASSUME NEW t, NEW n, Typed(t, n), LinkedIn(t, n),
         NEW pos, NEW lo, NEW hi, Placed(t, n, pos, lo, hi), NEW c, Weighed(t, n, c),
         NEW side \in Sides, NEW x \in 1..n, NEW y \in 1..n, NEW inner, NEW p,
         Pivot(t, x, y, inner, p, side),
         t.nodes[y].color = "red", t.nodes[x].color = "black",
         NEW u, Rotated(Swapped(t, y, x), x, side) = u
  PROVE  /\ Typed(u, n) /\ LinkedIn(u, n) /\ Weighed(u, n, c)
         /\ \E l, h : Placed(u, n, pos, l, h)
         /\ Turned(t, u, n, x, y, inner, p, side)
         /\ \A m \in 1..n : u.nodes[m].color =
              IF m = x THEN "red" ELSE IF m = y THEN "black" ELSE t.nodes[m].color
<1> DEFINE v == Swapped(t, y, x)
<1>1. x # y
  BY AroundRotation
<1>2. /\ Typed(v, n) /\ v.root = t.root
      /\ \A m \in 1..n :
              /\ v.nodes[m].value = t.nodes[m].value
              /\ v.nodes[m].parent = t.nodes[m].parent
              /\ v.nodes[m].kid = t.nodes[m].kid
              /\ m \in {y} => v.nodes[m].color = "black"
              /\ m \in {x} => v.nodes[m].color = "red"
              /\ m \notin {y} /\ m \notin {x} => v.nodes[m].color = t.nodes[m].color
  <2>1. {y} \intersect {x} = {} /\ Painted(t, {y}, {x}) = v
    BY <1>1 DEF Swapped
  <2> HIDE DEF v
  <2>. QED  BY <2>1, PaintedEffect
<1> HIDE DEF v
<1>3. LinkedIn(v, n) /\ Placed(v, n, pos, lo, hi)
  BY <1>2, PaintedLinks
<1>4. Pivot(v, x, y, inner, p, side)
  BY <1>2 DEF Pivot
<1>5. Rotated(v, x, side) = u
  BY DEF v
<1>6. /\ Typed(u, n) /\ Turned(v, u, n, x, y, inner, p, side)
      /\ \A m \in 1..n : u.nodes[m].color = v.nodes[m].color
  <2>1. Typed(v, n)
    BY <1>2
  <2>. QED  BY <2>1, <1>3, <1>4, <1>5, RotatedEffect
<1>7. Turned(t, u, n, x, y, inner, p, side)
  <2>1. /\ v.root = t.root
        /\ \A m \in 1..n : /\ v.nodes[m].value = t.nodes[m].value
                           /\ v.nodes[m].parent = t.nodes[m].parent
                           /\ v.nodes[m].kid = t.nodes[m].kid
    BY <1>2
  <2>. QED  BY <1>6, <2>1 DEF Turned
<1>8. \A m \in 1..n : u.nodes[m].color =
              IF m = x THEN "red" ELSE IF m = y THEN "black" ELSE t.nodes[m].color
  BY <1>1, <1>2, <1>6
<1>9. LinkedIn(u, n)
  BY <1>6, <1>7, TurnedLinked
<1>10. \E l, h : Placed(u, n, pos, l, h)
  BY <1>6, <1>7, TurnedPlaced
<1>11. Weighed(u, n, c)
  <2>1. /\ u.nodes[x].color = "red" /\ u.nodes[y].color = t.nodes[x].color
        /\ \A m \in 1..n : m # x /\ m # y => u.nodes[m].color = t.nodes[m].color
    BY <1>1, <1>8
  <2>. QED  BY <1>6, <1>7, <2>1, TurnedWeighed
<1>. QED  BY <1>6, <1>7, <1>8, <1>9, <1>10, <1>11

(* A black node gets red and its red children black: it weighs one more,   *)
(* and what is above and below it as much as before.                       *)
LEMMA RecoloredWeighed ==
  ASSUME NEW t, NEW n, Typed(t, n), LinkedIn(t, n),
         NEW pos, NEW lo, NEW hi, Placed(t, n, pos, lo, hi), NEW c, Weighed(t, n, c),
         NEW g \in 1..n, NEW a \in 1..n, NEW b \in 1..n, NEW side \in Sides,
         t.nodes[g].kid[side] = a, t.nodes[g].kid[Other(side)] = b,
         t.nodes[a].color = "red", t.nodes[b].color = "red", t.nodes[g].color = "black",
         NEW u, \A m \in 1..n : u.nodes[m].kid = t.nodes[m].kid,
         u.nodes[a].color = "black", u.nodes[b].color = "black", u.nodes[g].color = "red",
         \A m \in 1..n : m # a /\ m # b /\ m # g => u.nodes[m].color = t.nodes[m].color
  PROVE  \E d : Weighed(u, n, d)
<1> DEFINE d == [c EXCEPT ![g] = c[g] + 1]
<1>1. /\ n \in Nat /\ a # 0 /\ b # 0 /\ g # 0 /\ a # b /\ a # g /\ b # g
      /\ t.nodes[a].parent = g /\ t.nodes[b].parent = g
      /\ \A s \in Sides : s = side \/ s = Other(side)
  BY TreeParts, KidFacts, OtherSide
<1>2. c \in [1..n -> Nat] /\ \A m \in 1..n, s \in Sides : High(t, c, t.nodes[m].kid[s]) = c[m]
  BY DEF Weighed
<1>3. \A m \in 1..n, s \in Sides :
        /\ t.nodes[m].kid[s] \in 0..n
        /\ t.nodes[m].kid[s] # 0 => t.nodes[t.nodes[m].kid[s]].parent = m
  BY NodeParts DEF LinkedIn
<1>4. d \in [1..n -> Nat] /\ d[g] = c[g] + 1 /\ \A m \in 1..n : m # g => d[m] = c[m]
  BY <1>2
<1> HIDE DEF d
<1>5. \A k \in 0..n : k \notin {a, b} => High(u, d, k) = High(t, c, k)
  <2>1. High(u, d, g) = High(t, c, g)
    BY <1>1, <1>2, <1>4 DEF High
  <2>2. ASSUME NEW k \in 0..n, k \notin {a, b, g} PROVE High(u, d, k) = High(t, c, k)
    <3>1. k # 0 => k \in 1..n /\ d[k] = c[k] /\ u.nodes[k].color = t.nodes[k].color
      BY <1>1, <1>4, <2>2
    <3>. QED  BY <3>1 DEF High
  <2>. QED  BY <2>1, <2>2
<1>6. High(u, d, a) = c[g] + 1 /\ High(u, d, b) = c[g] + 1
  <2>1. High(t, c, a) = c[g] /\ High(t, c, b) = c[g]
    BY <1>2, OtherSide
  <2>2. c[a] \in Nat /\ c[b] \in Nat
    BY <1>2
  <2>3. High(t, c, a) = c[a] /\ High(t, c, b) = c[b]
    BY <1>1, <2>2 DEF High
  <2>4. High(u, d, a) = c[a] + 1 /\ High(u, d, b) = c[b] + 1
    BY <1>1, <1>4 DEF High
  <2>. QED  BY <2>1, <2>3, <2>4
<1>7. ASSUME NEW m \in 1..n, NEW s \in Sides PROVE High(u, d, u.nodes[m].kid[s]) = d[m]
  <2>1. PICK k \in 0..n : t.nodes[m].kid[s] = k
    BY <1>3
  <2>2. u.nodes[m].kid[s] = k
    BY <2>1
  <2>3. CASE m = g
    <3>1. k = a \/ k = b
      BY <1>1, <2>1, <2>3
    <3>. QED  BY <1>4, <1>6, <2>2, <2>3, <3>1
  <2>4. CASE m # g
    <3>1. k \notin {a, b}
      BY <1>1, <1>3, <2>1, <2>4
    <3>. QED  BY <1>2, <1>4, <1>5, <2>1, <2>2, <2>4, <3>1
  <2>. QED  BY <2>3, <2>4
<1>8. Weighed(u, n, d)
  BY <1>4, <1>7 DEF Weighed
<1>. QED  BY <1>8

(* The color of the root counts below no node.                             *)
LEMMA RootWeighed ==
  ASSUME NEW t, NEW n, Typed(t, n), LinkedIn(t, n), NEW c, Weighed(t, n, c),
         NEW u, \A m \in 1..n : u.nodes[m].kid = t.nodes[m].kid,
         \A m \in 1..n : m # t.root => u.nodes[m].color = t.nodes[m].color
  PROVE  Weighed(u, n, c)
<1>1. n \in Nat /\ c \in [1..n -> Nat]
      /\ \A m \in 1..n, s \in Sides : High(t, c, t.nodes[m].kid[s]) = c[m]
  BY TreeParts DEF Weighed
<1>2. ASSUME NEW m \in 1..n, NEW s \in Sides PROVE High(u, c, u.nodes[m].kid[s]) = c[m]
  <2>1. PICK k \in 0..n : t.nodes[m].kid[s] = k
    BY NodeParts
  <2>2. k # 0 => k \in 1..n /\ k # t.root
    BY <1>1, <2>1 DEF LinkedIn
  <2>3. High(u, c, k) = High(t, c, k)
    BY <2>2 DEF High
  <2>. QED  BY <1>1, <2>1, <2>3
<1>. QED  BY <1>1, <1>2 DEF Weighed

(* A red node without children, hung in the place of a missing one.        *)
Grown(t, u, n, a, side, v) ==
  /\ u.root = t.root
  /\ \A m \in 1..n :
       /\ u.nodes[m].value = t.nodes[m].value /\ u.nodes[m].color = t.nodes[m].color
       /\ u.nodes[m].parent = t.nodes[m].parent
       /\ \A s \in Sides : u.nodes[m].kid[s] =
            IF m = a /\ s = side THEN n + 1 ELSE t.nodes[m].kid[s]
  /\ u.nodes[n + 1].value = v /\ u.nodes[n + 1].color = "red" /\ u.nodes[n + 1].parent = a
  /\ \A s \in Sides : u.nodes[n + 1].kid[s] = 0

(* The new node is linked both ways.                                       *)
LEMMA GrownLinked ==
  ASSUME NEW t, NEW n, Typed(t, n), LinkedIn(t, n), t.root # 0,
         NEW a \in 1..n, NEW side \in Sides, t.nodes[a].kid[side] = 0,
         NEW u, NEW v, Typed(u, n + 1), Grown(t, u, n, a, side, v)
  PROVE  LinkedIn(u, n + 1)
<1>1. n \in Nat /\ a # 0 /\ t.root \in 1..n
  BY TreeParts
<1>2. \A m \in 1..n : /\ t.nodes[m].parent \in 0..n
                     /\ \A s \in Sides : t.nodes[m].kid[s] \in 0..n
  BY NodeParts
<1>3. \A m \in 1..n :
        /\ t.nodes[m].parent = 0 <=> m = t.root
        /\ \A s \in Sides : t.nodes[m].kid[s] # 0 => t.nodes[t.nodes[m].kid[s]].parent = m
        /\ t.nodes[m].parent # 0 => \E s \in Sides : t.nodes[t.nodes[m].parent].kid[s] = m
  BY DEF LinkedIn
<1>4. /\ u.root = t.root /\ \A m \in 1..n : u.nodes[m].parent = t.nodes[m].parent
      /\ \A m \in 1..n, s \in Sides : u.nodes[m].kid[s] =
            IF m = a /\ s = side THEN n + 1 ELSE t.nodes[m].kid[s]
      /\ u.nodes[n + 1].parent = a /\ \A s \in Sides : u.nodes[n + 1].kid[s] = 0
  BY DEF Grown
<1>5. ASSUME NEW m \in 1..(n + 1) PROVE u.nodes[m].parent = 0 <=> m = u.root
  <2>1. CASE m = n + 1
    BY <1>1, <1>4, <2>1
  <2>2. CASE m \in 1..n
    BY <1>3, <1>4, <2>2
  <2>. QED  BY <1>1, <2>1, <2>2
<1>6. ASSUME NEW m \in 1..(n + 1), NEW s \in Sides, u.nodes[m].kid[s] # 0
      PROVE  u.nodes[u.nodes[m].kid[s]].parent = m
  <2>1. m \in 1..n
    BY <1>1, <1>4, <1>6
  <2>2. CASE m = a /\ s = side
    BY <1>4, <2>1, <2>2
  <2>3. CASE ~(m = a /\ s = side)
    <3>1. PICK k \in 0..n : t.nodes[m].kid[s] = k
      BY <1>2, <2>1
    <3>2. u.nodes[m].kid[s] = k /\ k \in 1..n
      BY <1>1, <1>4, <1>6, <2>1, <2>3, <3>1
    <3>. QED  BY <1>3, <1>4, <1>6, <2>1, <3>1, <3>2
  <2>. QED  BY <2>2, <2>3
<1>7. ASSUME NEW m \in 1..(n + 1), u.nodes[m].parent # 0
      PROVE  \E s \in Sides : u.nodes[u.nodes[m].parent].kid[s] = m
  <2>1. CASE m = n + 1
    BY <1>1, <1>4, <2>1
  <2>2. CASE m \in 1..n
    <3>1. PICK q \in 1..n : t.nodes[m].parent = q
      BY <1>1, <1>2, <1>4, <1>7, <2>2
    <3>2. PICK s \in Sides : t.nodes[q].kid[s] = m
      BY <1>1, <1>3, <2>2, <3>1
    <3>3. u.nodes[q].kid[s] = m
      BY <1>1, <1>4, <2>2, <3>2
    <3>. QED  BY <1>4, <2>2, <3>1, <3>3
  <2>. QED  BY <1>1, <2>1, <2>2
<1>. QED  BY <1>5, <1>6, <1>7 DEF LinkedIn

(* A red node adds nothing to the number of black nodes.                   *)
LEMMA GrownWeighed ==
  ASSUME NEW t, NEW n, Typed(t, n), NEW c, Weighed(t, n, c),
         NEW a \in 1..n, NEW side \in Sides, t.nodes[a].kid[side] = 0,
         NEW u, NEW v, Typed(u, n + 1), Grown(t, u, n, a, side, v)
  PROVE  \E d : Weighed(u, n + 1, d)
<1> DEFINE d == [m \in 1..(n + 1) |-> IF m = n + 1 THEN 0 ELSE c[m]]
<1>1. n \in Nat /\ \A m \in 1..n, s \in Sides : t.nodes[m].kid[s] \in 0..n
  BY NodeParts, TreeParts
<1>2. c \in [1..n -> Nat] /\ \A m \in 1..n, s \in Sides : High(t, c, t.nodes[m].kid[s]) = c[m]
  BY DEF Weighed
<1>3. d \in [1..(n + 1) -> Nat] /\ d[n + 1] = 0 /\ \A m \in 1..n : d[m] = c[m]
  BY <1>1, <1>2
<1> HIDE DEF d
<1>4. /\ \A m \in 1..n : u.nodes[m].color = t.nodes[m].color
      /\ \A m \in 1..n, s \in Sides : u.nodes[m].kid[s] =
            IF m = a /\ s = side THEN n + 1 ELSE t.nodes[m].kid[s]
      /\ u.nodes[n + 1].color = "red" /\ \A s \in Sides : u.nodes[n + 1].kid[s] = 0
  BY DEF Grown
<1>5. High(u, d, n + 1) = 0 /\ High(u, d, 0) = 0 /\ High(t, c, 0) = 0
  BY <1>1, <1>3, <1>4 DEF High
<1>6. \A k \in 0..n : High(u, d, k) = High(t, c, k)
  BY <1>1, <1>3, <1>4 DEF High
<1>7. ASSUME NEW m \in 1..(n + 1), NEW s \in Sides PROVE High(u, d, u.nodes[m].kid[s]) = d[m]
  <2>1. CASE m = n + 1
    BY <1>3, <1>4, <1>5, <2>1
  <2>2. CASE m = a /\ s = side
    BY <1>2, <1>3, <1>4, <1>5, <2>2
  <2>3. CASE m \in 1..n /\ ~(m = a /\ s = side)
    <3>1. PICK k \in 0..n : t.nodes[m].kid[s] = k
      BY <1>1, <2>3
    <3>2. u.nodes[m].kid[s] = k
      BY <1>4, <2>3, <3>1
    <3>. QED  BY <1>2, <1>3, <1>6, <2>3, <3>1, <3>2
  <2>. QED  BY <1>1, <2>1, <2>2, <2>3
<1>8. Weighed(u, n + 1, d)
  BY <1>3, <1>7 DEF Weighed
<1>. QED  BY <1>8

(* The places of a tree with a new leaf: twice the old ones, which leaves  *)
(* one between any two.                                                    *)
LEMMA GrownPlaced ==
  ASSUME NEW t, NEW n, Typed(t, n), LinkedIn(t, n), t.root # 0,
         NEW pos, NEW lo, NEW hi, Placed(t, n, pos, lo, hi),
         NEW a \in 1..n, NEW side \in Sides, t.nodes[a].kid[side] = 0,
         NEW u, NEW v, Typed(u, n + 1), Grown(t, u, n, a, side, v)
  PROVE  \E q, l, h :
           /\ Placed(u, n + 1, q, l, h)
           /\ \A i, j \in 1..n : q[i] < q[j] => pos[i] < pos[j]
           /\ side = "left" => \A i \in 1..n : /\ q[i] < q[n + 1] => pos[i] <= lo[a]
                                               /\ q[n + 1] < q[i] => pos[a] <= pos[i]
           /\ side = "right" => \A i \in 1..n : /\ q[i] < q[n + 1] => pos[i] <= pos[a]
                                                /\ q[n + 1] < q[i] => hi[a] <= pos[i]
<1> DEFINE q == [m \in 1..(n + 1) |-> IF m \in 1..n THEN 2 * pos[m]
                                      ELSE IF side = "left" THEN 2 * pos[a] - 1 ELSE 2 * pos[a] + 1]
           l == [m \in 1..(n + 1) |-> IF m \in 1..n THEN 2 * lo[m]
                                      ELSE IF side = "left" THEN 2 * lo[a] ELSE 2 * pos[a]]
           h == [m \in 1..(n + 1) |-> IF m \in 1..n THEN 2 * hi[m]
                                      ELSE IF side = "left" THEN 2 * pos[a] ELSE 2 * hi[a]]
<1>1. /\ n \in Nat /\ n + 1 \in 1..(n + 1) /\ n + 1 \notin 1..n /\ t.root \in 1..n
      /\ \A m \in 1..(n + 1) : m \in 1..n \/ m = n + 1
      /\ \A m \in 1..n : m \in 1..(n + 1)
      /\ \A m \in 1..n, s \in Sides : t.nodes[m].kid[s] \in 0..n
  <2>1. n \in Nat /\ t.root \in 1..n
    BY TreeParts
  <2>2. \A m \in 1..n, s \in Sides : t.nodes[m].kid[s] \in 0..n
    BY NodeParts
  <2>. QED  BY <2>1, <2>2
<1>2. /\ pos \in [1..n -> Int] /\ lo \in [1..n -> Int] /\ hi \in [1..n -> Int]
      /\ \A m \in 1..n : /\ pos[m] \in Int /\ lo[m] \in Int /\ hi[m] \in Int
                         /\ lo[m] < pos[m] /\ pos[m] < hi[m]
  BY PlacedParts
<1>3. /\ q \in [1..(n + 1) -> Int] /\ l \in [1..(n + 1) -> Int] /\ h \in [1..(n + 1) -> Int]
      /\ \A m \in 1..n : q[m] = 2 * pos[m] /\ l[m] = 2 * lo[m] /\ h[m] = 2 * hi[m]
  <2>1. \A m \in 1..n : 2 * pos[m] \in Int /\ 2 * lo[m] \in Int /\ 2 * hi[m] \in Int
    BY <1>2
  <2>2. 2 * pos[a] - 1 \in Int /\ 2 * pos[a] + 1 \in Int
    BY <1>2
  <2>3. q \in [1..(n + 1) -> Int] /\ \A m \in 1..n : q[m] = 2 * pos[m]
    BY <1>1, <2>1, <2>2
  <2>4. l \in [1..(n + 1) -> Int] /\ \A m \in 1..n : l[m] = 2 * lo[m]
    BY <1>1, <2>1
  <2>5. h \in [1..(n + 1) -> Int] /\ \A m \in 1..n : h[m] = 2 * hi[m]
    BY <1>1, <2>1
  <2>. QED  BY <2>3, <2>4, <2>5
<1>4. /\ side = "left" => q[n + 1] = 2 * pos[a] - 1 /\ l[n + 1] = 2 * lo[a] /\ h[n + 1] = 2 * pos[a]
      /\ side = "right" => q[n + 1] = 2 * pos[a] + 1 /\ l[n + 1] = 2 * pos[a] /\ h[n + 1] = 2 * hi[a]
  BY <1>1
<1> HIDE DEF q, l, h
<1>5. /\ \A i, j \in 1..n : i # j =>
           \/ hi[i] <= lo[j] \/ hi[j] <= lo[i]
           \/ Below(pos, lo, hi, i, j) \/ Below(pos, lo, hi, j, i)
      /\ \A j \in 1..n : lo[t.root] < pos[j] /\ pos[j] < hi[t.root]
  BY DEF Placed
<1>6. \A m \in 1..n :
        IF t.nodes[m].kid["left"] # 0
        THEN lo[t.nodes[m].kid["left"]] = lo[m] /\ hi[t.nodes[m].kid["left"]] = pos[m]
        ELSE \A j \in 1..n : ~(lo[m] < pos[j] /\ pos[j] < pos[m])
  BY DEF Placed
<1>7. \A m \in 1..n :
        IF t.nodes[m].kid["right"] # 0
        THEN lo[t.nodes[m].kid["right"]] = pos[m] /\ hi[t.nodes[m].kid["right"]] = hi[m]
        ELSE \A j \in 1..n : ~(pos[m] < pos[j] /\ pos[j] < hi[m])
  BY DEF Placed
<1>8. /\ u.root = t.root
      /\ \A m \in 1..n, s \in Sides : u.nodes[m].kid[s] =
            IF m = a /\ s = side THEN n + 1 ELSE t.nodes[m].kid[s]
      /\ \A s \in Sides : u.nodes[n + 1].kid[s] = 0
  BY DEF Grown
<1>9. side = "left" \/ side = "right"
  BY DEF Sides
(* The gap that the new node gets.                                         *)
<1>10. /\ side = "left" => \A i \in 1..n : pos[i] <= lo[a] \/ pos[a] <= pos[i]
       /\ side = "right" => \A i \in 1..n : pos[i] <= pos[a] \/ hi[a] <= pos[i]
  BY <1>2, <1>6, <1>7
<1>11. /\ l[n + 1] < q[n + 1] /\ q[n + 1] < h[n + 1]
       /\ \A i \in 1..n : ~(l[n + 1] < q[i] /\ q[i] < h[n + 1])
       /\ q[n + 1] \in Int /\ l[n + 1] \in Int /\ h[n + 1] \in Int
       /\ l[a] < q[n + 1] /\ q[n + 1] < h[a]
  <2>1. /\ lo[a] \in Int /\ pos[a] \in Int /\ hi[a] \in Int /\ lo[a] < pos[a] /\ pos[a] < hi[a]
        /\ q[a] = 2 * pos[a] /\ l[a] = 2 * lo[a] /\ h[a] = 2 * hi[a]
    BY <1>2, <1>3
  <2>2. /\ l[n + 1] < q[n + 1] /\ q[n + 1] < h[n + 1]
        /\ q[n + 1] \in Int /\ l[n + 1] \in Int /\ h[n + 1] \in Int
        /\ l[a] < q[n + 1] /\ q[n + 1] < h[a]
    BY <1>4, <1>9, <2>1
  <2>3. ASSUME NEW i \in 1..n PROVE ~(l[n + 1] < q[i] /\ q[i] < h[n + 1])
    <3>1. pos[i] \in Int /\ q[i] = 2 * pos[i]
      BY <1>2, <1>3
    <3>2. CASE side = "left"
      BY <1>4, <1>10, <2>1, <3>1, <3>2
    <3>3. CASE side = "right"
      BY <1>4, <1>10, <2>1, <3>1, <3>3
    <3>. QED  BY <1>9, <3>2, <3>3
  <2>. QED  BY <2>2, <2>3
<1>12. ASSUME NEW m \in 1..(n + 1) PROVE l[m] < q[m] /\ q[m] < h[m]
  <2>1. CASE m = n + 1
    BY <1>11, <2>1
  <2>2. CASE m \in 1..n
    <3>1. /\ lo[m] \in Int /\ pos[m] \in Int /\ hi[m] \in Int /\ lo[m] < pos[m] /\ pos[m] < hi[m]
          /\ q[m] = 2 * pos[m] /\ l[m] = 2 * lo[m] /\ h[m] = 2 * hi[m]
      BY <1>2, <1>3, <2>2
    <3>. QED  BY <3>1
  <2>. QED  BY <1>1, <2>1, <2>2
<1>13. ASSUME NEW j \in 1..n
       PROVE  \/ h[j] <= l[n + 1] \/ h[n + 1] <= l[j]
              \/ Below(q, l, h, j, n + 1) \/ Below(q, l, h, n + 1, j)
  <2>1. j # a => \/ hi[j] <= lo[a] \/ hi[a] <= lo[j]
                 \/ Below(pos, lo, hi, j, a) \/ Below(pos, lo, hi, a, j)
    BY <1>5
  <2>2. /\ lo[j] \in Int /\ pos[j] \in Int /\ hi[j] \in Int /\ lo[j] < pos[j] /\ pos[j] < hi[j]
        /\ lo[a] \in Int /\ pos[a] \in Int /\ hi[a] \in Int /\ lo[a] < pos[a] /\ pos[a] < hi[a]
        /\ q[j] = 2 * pos[j] /\ l[j] = 2 * lo[j] /\ h[j] = 2 * hi[j]
    BY <1>2, <1>3
  <2>3. CASE side = "left"
    <3>1. pos[j] <= lo[a] \/ pos[a] <= pos[j]
      BY <1>10, <2>3
    <3>. QED  BY <1>4, <2>1, <2>2, <2>3, <3>1 DEF Below
  <2>4. CASE side = "right"
    <3>1. pos[j] <= pos[a] \/ hi[a] <= pos[j]
      BY <1>10, <2>4
    <3>. QED  BY <1>4, <2>1, <2>2, <2>4, <3>1 DEF Below
  <2>. QED  BY <1>9, <2>3, <2>4
<1>14. ASSUME NEW i \in 1..(n + 1), NEW j \in 1..(n + 1), i # j
       PROVE  h[i] <= l[j] \/ h[j] <= l[i] \/ Below(q, l, h, i, j) \/ Below(q, l, h, j, i)
  <2>1. CASE i \in 1..n /\ j \in 1..n
    <3>1. \/ hi[i] <= lo[j] \/ hi[j] <= lo[i]
          \/ Below(pos, lo, hi, i, j) \/ Below(pos, lo, hi, j, i)
      BY <1>5, <1>14, <2>1
    <3>2. /\ lo[i] \in Int /\ pos[i] \in Int /\ hi[i] \in Int
          /\ q[i] = 2 * pos[i] /\ l[i] = 2 * lo[i] /\ h[i] = 2 * hi[i]
          /\ lo[j] \in Int /\ pos[j] \in Int /\ hi[j] \in Int
          /\ q[j] = 2 * pos[j] /\ l[j] = 2 * lo[j] /\ h[j] = 2 * hi[j]
      BY <1>2, <1>3, <2>1
    <3>. QED  BY <3>1, <3>2 DEF Below
  <2>2. CASE i = n + 1 \/ j = n + 1
    BY <1>1, <1>13, <1>14, <2>2
  <2>. QED  BY <1>1, <2>1, <2>2
(* No other gap holds the new node's place.                                *)
<1>15. ASSUME NEW m \in 1..n, t.nodes[m].kid["left"] = 0, l[m] < q[n + 1], q[n + 1] < q[m]
       PROVE  m = a /\ side = "left"
  <2>1. m # a => \/ hi[m] <= lo[a] \/ hi[a] <= lo[m]
                 \/ Below(pos, lo, hi, m, a) \/ Below(pos, lo, hi, a, m)
    BY <1>5
  <2>2. /\ lo[m] \in Int /\ pos[m] \in Int /\ hi[m] \in Int /\ lo[m] < pos[m] /\ pos[m] < hi[m]
        /\ lo[a] \in Int /\ pos[a] \in Int /\ hi[a] \in Int /\ lo[a] < pos[a] /\ pos[a] < hi[a]
        /\ q[m] = 2 * pos[m] /\ l[m] = 2 * lo[m] /\ h[m] = 2 * hi[m]
        /\ ~(lo[m] < pos[a] /\ pos[a] < pos[m])
    BY <1>2, <1>3, <1>6, <1>15
  <2>3. CASE side = "left"
    <3>1. pos[m] <= lo[a] \/ pos[a] <= pos[m]
      BY <1>10, <2>3
    <3>. QED  BY <1>4, <1>15, <2>1, <2>2, <2>3, <3>1 DEF Below
  <2>4. CASE side = "right"
    <3>1. pos[m] <= pos[a] \/ hi[a] <= pos[m]
      BY <1>10, <2>4
    <3>. QED  BY <1>4, <1>15, <2>1, <2>2, <2>4, <3>1 DEF Below
  <2>. QED  BY <1>9, <2>3, <2>4
<1>16. ASSUME NEW m \in 1..n, t.nodes[m].kid["right"] = 0, q[m] < q[n + 1], q[n + 1] < h[m]
       PROVE  m = a /\ side = "right"
  <2>1. m # a => \/ hi[m] <= lo[a] \/ hi[a] <= lo[m]
                 \/ Below(pos, lo, hi, m, a) \/ Below(pos, lo, hi, a, m)
    BY <1>5
  <2>2. /\ lo[m] \in Int /\ pos[m] \in Int /\ hi[m] \in Int /\ lo[m] < pos[m] /\ pos[m] < hi[m]
        /\ lo[a] \in Int /\ pos[a] \in Int /\ hi[a] \in Int /\ lo[a] < pos[a] /\ pos[a] < hi[a]
        /\ q[m] = 2 * pos[m] /\ l[m] = 2 * lo[m] /\ h[m] = 2 * hi[m]
        /\ ~(pos[m] < pos[a] /\ pos[a] < hi[m])
    BY <1>2, <1>3, <1>7, <1>16
  <2>3. CASE side = "left"
    <3>1. pos[m] <= lo[a] \/ pos[a] <= pos[m]
      BY <1>10, <2>3
    <3>. QED  BY <1>4, <1>16, <2>1, <2>2, <2>3, <3>1 DEF Below
  <2>4. CASE side = "right"
    <3>1. pos[m] <= pos[a] \/ hi[a] <= pos[m]
      BY <1>10, <2>4
    <3>. QED  BY <1>4, <1>16, <2>1, <2>2, <2>4, <3>1 DEF Below
  <2>. QED  BY <1>9, <2>3, <2>4
<1>17. ASSUME NEW m \in 1..(n + 1)
       PROVE  IF u.nodes[m].kid["left"] # 0
              THEN l[u.nodes[m].kid["left"]] = l[m] /\ h[u.nodes[m].kid["left"]] = q[m]
              ELSE \A j \in 1..(n + 1) : ~(l[m] < q[j] /\ q[j] < q[m])
  <2>1. CASE m = n + 1
    <3>1. u.nodes[m].kid["left"] = 0
      BY <1>8, <2>1 DEF Sides
    <3>2. ASSUME NEW j \in 1..(n + 1) PROVE ~(l[m] < q[j] /\ q[j] < q[m]) 
      <4>1. CASE j = n + 1
        BY <1>11, <2>1, <4>1
      <4>2. CASE j \in 1..n
        <5>1. q[j] \in Int
          BY <1>2, <1>3, <4>2
        <5>2. ~(l[n + 1] < q[j] /\ q[j] < h[n + 1])
          BY <1>11, <4>2
        <5>. QED  BY <1>11, <2>1, <5>1, <5>2
      <4>. QED  BY <1>1, <4>1, <4>2
    <3>. QED  BY <3>1, <3>2
  <2>2. CASE m = a /\ side = "left"
    <3>1. u.nodes[m].kid["left"] = n + 1 /\ n + 1 # 0
      BY <1>1, <1>8, <2>2 DEF Sides
    <3>. QED  BY <1>3, <1>4, <2>2, <3>1
  <2>3. CASE m \in 1..n /\ ~(m = a /\ side = "left")
    <3>1. PICK k \in 0..n : t.nodes[m].kid["left"] = k /\ u.nodes[m].kid["left"] = k
      BY <1>1, <1>8, <2>3 DEF Sides
    <3>2. CASE k = 0
      <4>1. ~(l[m] < q[n + 1] /\ q[n + 1] < q[m])
        BY <1>15, <2>3, <3>1, <3>2
      <4>2. \A j \in 1..n : ~(lo[m] < pos[j] /\ pos[j] < pos[m])
        BY <1>6, <2>3, <3>1, <3>2
      <4>3. ASSUME NEW j \in 1..n PROVE ~(l[m] < q[j] /\ q[j] < q[m])
        <5>1. /\ lo[m] \in Int /\ pos[m] \in Int /\ pos[j] \in Int
              /\ l[m] = 2 * lo[m] /\ q[m] = 2 * pos[m] /\ q[j] = 2 * pos[j]
          BY <1>2, <1>3, <2>3
        <5>. QED  BY <4>2, <5>1
      <4>. QED  BY <1>1, <3>1, <3>2, <4>1, <4>3
    <3>3. CASE k # 0
      <4>1. k \in 1..n /\ lo[k] = lo[m] /\ hi[k] = pos[m]
        BY <1>1, <1>6, <2>3, <3>1, <3>3
      <4>. QED  BY <1>3, <2>3, <3>1, <3>3, <4>1
    <3>. QED  BY <3>2, <3>3
  <2>. QED  BY <1>1, <2>1, <2>2, <2>3
<1>18. ASSUME NEW m \in 1..(n + 1)
       PROVE  IF u.nodes[m].kid["right"] # 0
              THEN l[u.nodes[m].kid["right"]] = q[m] /\ h[u.nodes[m].kid["right"]] = h[m]
              ELSE \A j \in 1..(n + 1) : ~(q[m] < q[j] /\ q[j] < h[m])
  <2>1. CASE m = n + 1
    <3>1. u.nodes[m].kid["right"] = 0
      BY <1>8, <2>1 DEF Sides
    <3>2. ASSUME NEW j \in 1..(n + 1) PROVE ~(q[m] < q[j] /\ q[j] < h[m]) 
      <4>1. CASE j = n + 1
        BY <1>11, <2>1, <4>1
      <4>2. CASE j \in 1..n
        <5>1. q[j] \in Int
          BY <1>2, <1>3, <4>2
        <5>2. ~(l[n + 1] < q[j] /\ q[j] < h[n + 1])
          BY <1>11, <4>2
        <5>. QED  BY <1>11, <2>1, <5>1, <5>2
      <4>. QED  BY <1>1, <4>1, <4>2
    <3>. QED  BY <3>1, <3>2
  <2>2. CASE m = a /\ side = "right"
    <3>1. u.nodes[m].kid["right"] = n + 1 /\ n + 1 # 0
      BY <1>1, <1>8, <2>2 DEF Sides
    <3>. QED  BY <1>3, <1>4, <2>2, <3>1
  <2>3. CASE m \in 1..n /\ ~(m = a /\ side = "right")
    <3>1. PICK k \in 0..n : t.nodes[m].kid["right"] = k /\ u.nodes[m].kid["right"] = k
      BY <1>1, <1>8, <2>3 DEF Sides
    <3>2. CASE k = 0
      <4>1. ~(q[m] < q[n + 1] /\ q[n + 1] < h[m])
        BY <1>16, <2>3, <3>1, <3>2
      <4>2. \A j \in 1..n : ~(pos[m] < pos[j] /\ pos[j] < hi[m])
        BY <1>7, <2>3, <3>1, <3>2
      <4>3. ASSUME NEW j \in 1..n PROVE ~(q[m] < q[j] /\ q[j] < h[m])
        <5>1. /\ pos[m] \in Int /\ hi[m] \in Int /\ pos[j] \in Int
              /\ q[m] = 2 * pos[m] /\ h[m] = 2 * hi[m] /\ q[j] = 2 * pos[j]
          BY <1>2, <1>3, <2>3
        <5>. QED  BY <4>2, <5>1
      <4>. QED  BY <1>1, <3>1, <3>2, <4>1, <4>3
    <3>3. CASE k # 0
      <4>1. k \in 1..n /\ lo[k] = pos[m] /\ hi[k] = hi[m]
        BY <1>1, <1>7, <2>3, <3>1, <3>3
      <4>. QED  BY <1>3, <2>3, <3>1, <3>3, <4>1
    <3>. QED  BY <3>2, <3>3
  <2>. QED  BY <1>1, <2>1, <2>2, <2>3
<1>19. u.root # 0 => \A j \in 1..(n + 1) : l[u.root] < q[j] /\ q[j] < h[u.root]
  <2>1. ASSUME NEW j \in 1..n PROVE l[u.root] < q[j] /\ q[j] < h[u.root]
    <3>1. /\ lo[t.root] < pos[j] /\ pos[j] < hi[t.root]
          /\ lo[t.root] \in Int /\ pos[j] \in Int /\ hi[t.root] \in Int
          /\ l[t.root] = 2 * lo[t.root] /\ h[t.root] = 2 * hi[t.root] /\ q[j] = 2 * pos[j]
      BY <1>1, <1>2, <1>3, <1>5
    <3>. QED  BY <1>8, <3>1
  <2>2. /\ lo[t.root] < pos[a] /\ pos[a] < hi[t.root]
        /\ lo[t.root] \in Int /\ pos[a] \in Int /\ hi[t.root] \in Int
        /\ l[u.root] = 2 * lo[t.root] /\ h[u.root] = 2 * hi[t.root]
    BY <1>1, <1>2, <1>3, <1>5, <1>8
  <2>3. l[u.root] < q[n + 1] /\ q[n + 1] < h[u.root]
    BY <1>4, <1>9, <2>2
  <2>. QED  BY <1>1, <2>1, <2>3
<1>20. Placed(u, n + 1, q, l, h)
  BY <1>3, <1>12, <1>14, <1>17, <1>18, <1>19, <1>11, <1>1 DEF Placed
<1>21. \A i, j \in 1..n : q[i] < q[j] => pos[i] < pos[j]
  BY <1>2, <1>3
<1>22. side = "left" => \A i \in 1..n : /\ q[i] < q[n + 1] => pos[i] <= lo[a]
                                        /\ q[n + 1] < q[i] => pos[a] <= pos[i]
  BY <1>2, <1>3, <1>4, <1>10
<1>23. side = "right" => \A i \in 1..n : /\ q[i] < q[n + 1] => pos[i] <= pos[a]
                                         /\ q[n + 1] < q[i] => hi[a] <= pos[i]
  BY <1>2, <1>3, <1>4, <1>10
<1>. QED  BY <1>20, <1>21, <1>22, <1>23

(* Finitely many numbers have an upper bound.                              *)
LEMMA Bounded ==
  ASSUME NEW n \in Nat, NEW w \in [1..n -> Nat]
  PROVE  \E top \in Nat : \A m \in 1..n : w[m] <= top
<1> DEFINE P == {k \in Nat : k <= n => \E top \in Nat : \A m \in 1..k : w[m] <= top}
<1>1. 0 \in P
  OBVIOUS
<1>2. ASSUME NEW k \in P PROVE k + 1 \in P
  <2>1. SUFFICES ASSUME k + 1 <= n PROVE \E top \in Nat : \A m \in 1..(k + 1) : w[m] <= top
    OBVIOUS
  <2>2. k \in Nat /\ k <= n
    BY <2>1
  <2>3. PICK top \in Nat : \A m \in 1..k : w[m] <= top
    BY <2>2
  <2>4. w[k + 1] \in Nat /\ \A m \in 1..k : w[m] \in Nat
    BY <2>1, <2>2
  <2>5. \A m \in 1..(k + 1) : w[m] <= top + w[k + 1]
    <3>1. \A m \in 1..(k + 1) : m \in 1..k \/ m = k + 1
      BY <2>2
    <3>. QED  BY <2>3, <2>4, <3>1
  <2>. QED  BY <2>4, <2>5
<1>3. P = Nat
  <2>1. P \in SUBSET Nat
    OBVIOUS
  <2> HIDE DEF P
  <2>. QED  BY <1>1, <1>2, <2>1, InductiveSet
<1>4. n \in P
  <2> HIDE DEF P
  <2>. QED  BY <1>3
<1>. QED  BY <1>4

(* Every node is reached from the root: the nodes of a tree are the root   *)
(* and what has a parent among them.                                       *)
LEMMA FromTheRoot ==
  ASSUME NEW t, NEW n, Typed(t, n), LinkedIn(t, n),
         NEW pos, NEW lo, NEW hi, Placed(t, n, pos, lo, hi),
         NEW S, \A m \in 1..n : m = t.root \/ t.nodes[m].parent \in S => m \in S
  PROVE  1..n \subseteq S
<1> DEFINE w == [m \in 1..n |-> hi[m] - lo[m]]
           D == (1..n) \ S
<1>1. n \in Nat /\ \A m \in 1..n : hi[m] \in Int /\ lo[m] \in Int /\ hi[m] - lo[m] \in Nat
  BY TreeParts, PlacedParts
<1>2. w \in [1..n -> Nat] /\ \A m \in 1..n : w[m] = hi[m] - lo[m]
  BY <1>1
<1> HIDE DEF w
<1>3. PICK top \in Nat : \A m \in 1..n : w[m] <= top
  BY <1>1, <1>2, Bounded
<1>4. SUFFICES ASSUME D # {} PROVE FALSE
  OBVIOUS
<1> DEFINE T == { top - w[m] : m \in D }
<1>5. T \in SUBSET Nat /\ T # {}
  BY <1>2, <1>3, <1>4
<1>6. PICK b \in T : \A d \in T : b <= d
  BY <1>5, LeastElement
<1>7. PICK m \in D : b = top - w[m]
  BY <1>6
<1>8. ASSUME NEW k \in D PROVE w[k] <= w[m]
  <2>1. top - w[m] <= top - w[k] /\ w[m] \in Nat /\ w[k] \in Nat
    BY <1>2, <1>6, <1>7
  <2>. QED  BY <2>1
<1>9. m # t.root /\ t.nodes[m].parent \notin S /\ t.nodes[m].parent # 0
  BY DEF LinkedIn
<1>10. PICK p \in 1..n : t.nodes[m].parent = p
  BY <1>1, <1>9, NodeParts
<1>11. hi[m] - lo[m] < hi[p] - lo[p]
  BY <1>10, ParentFacts
<1>12. p \in D
  BY <1>9, <1>10
<1>. QED  BY <1>1, <1>2, <1>8, <1>11, <1>12

(* As many black nodes on every way down as the certificate of the root    *)
(* says.                                                                   *)
LEMMA BalancedByWeight ==
  ASSUME Typed(Tree, Len(nodes)), LinkedIn(Tree, Len(nodes)),
         NEW pos, NEW lo, NEW hi, Placed(Tree, Len(nodes), pos, lo, hi),
         NEW c, Weighed(Tree, Len(nodes), c), root = 0 => Len(nodes) = 0
  PROVE  BlackBalanced
<1> DEFINE n == Len(nodes)
           Black(m) == IF nodes[m].color = "black" THEN 1 ELSE 0
           F(f) == [m \in Ids |-> Black(m) + (IF nodes[m].parent = 0 THEN 0 ELSE f[nodes[m].parent])]
           blacks == CHOOSE f : f = F(f)
           K == High(Tree, c, root)
           f0 == [m \in Ids |-> K - c[m]]
           M == { m \in Ids : \E side \in {"left", "right"} : nodes[m].kid[side] = 0 }
<1>1. /\ n \in Nat /\ root \in 0..n /\ (n # 0 => root \in 1..n)
      /\ Tree.nodes = nodes /\ Tree.root = root /\ Ids = 1..n
  BY TreeParts DEF Tree, Ids
<1>2. \A m \in 1..n : /\ nodes[m].parent \in 0..n /\ (nodes[m].parent = 0 <=> m = root)
                     /\ \A s \in Sides : nodes[m].kid[s] \in 0..n
  BY <1>1, NodeParts DEF LinkedIn
<1>3. /\ c \in [1..n -> Nat]
      /\ \A m \in 1..n, s \in Sides : High(Tree, c, nodes[m].kid[s]) = c[m]
  BY <1>1 DEF Weighed
<1>4. \A m \in 1..n : High(Tree, c, m) = c[m] + Black(m) /\ Black(m) \in {0, 1}
  BY <1>1 DEF High
<1>5. ASSUME NEW m \in 1..n, nodes[m].parent # 0
      PROVE  nodes[m].parent \in 1..n /\ c[nodes[m].parent] = c[m] + Black(m)
  <2>1. PICK q \in 1..n : nodes[m].parent = q
    BY <1>2, <1>5
  <2>2. PICK s \in Sides : nodes[q].kid[s] = m
    BY <1>1, <1>5, <2>1 DEF LinkedIn
  <2>. QED  BY <1>3, <1>4, <2>1, <2>2
<1> HIDE DEF Black
<1>6. n # 0 => K \in Nat /\ K = c[root] + Black(root)
  BY <1>1, <1>3, <1>4
<1> HIDE DEF K
<1>7. ASSUME NEW m \in 1..n
      PROVE  K - c[m] = Black(m) + (IF nodes[m].parent = 0 THEN 0 ELSE K - c[nodes[m].parent])
  <2>1. K \in Nat /\ K = c[root] + Black(root) /\ c[m] \in Nat /\ Black(m) \in {0, 1}
    BY <1>1, <1>3, <1>4, <1>6
  <2>2. CASE nodes[m].parent = 0
    BY <1>2, <2>1, <2>2
  <2>3. CASE nodes[m].parent # 0
    BY <1>5, <2>1, <2>3
  <2>. QED  BY <2>2, <2>3
<1>8. f0 = F(f0)
  BY <1>1, <1>5, <1>7
<1>9. blacks = F(blacks)
  BY <1>8
<1> HIDE DEF blacks
<1>10. \A m \in Ids : blacks[m] = Black(m) + (IF nodes[m].parent = 0 THEN 0 ELSE blacks[nodes[m].parent])
  BY <1>9
<1> DEFINE S == { m \in 1..n : blacks[m] = K - c[m] }
<1>11. ASSUME NEW m \in 1..n, m = root \/ nodes[m].parent \in S PROVE m \in S
  <2>1. CASE nodes[m].parent = 0
    BY <1>1, <1>7, <1>10, <2>1
  <2>2. CASE nodes[m].parent # 0
    BY <1>1, <1>2, <1>7, <1>10, <1>11, <2>2
  <2>. QED  BY <2>1, <2>2
<1>12. 1..n \subseteq S
  <2> HIDE DEF S
  <2>. QED  BY <1>1, <1>11, FromTheRoot
<1>13. \A m \in M : blacks[m] = K
  <2>1. ASSUME NEW m \in M PROVE c[m] = 0 /\ m \in 1..n
    BY <1>1, <1>3 DEF High, Sides
  <2>. QED  BY <1>1, <1>6, <1>12, <2>1
<1>14. { blacks[m] : m \in M } \subseteq {K}
  BY <1>13
<1>15. Cardinality({ blacks[m] : m \in M }) <= 1
  <2>1. IsFiniteSet({K}) /\ Cardinality({K}) = 1
    BY FS_Singleton
  <2>2. Cardinality({ blacks[m] : m \in M }) <= Cardinality({K})
    BY <1>14, <2>1, FS_Subset
  <2>. QED  BY <2>1, <2>2
<1>. QED  BY <1>15 DEF BlackBalanced, blacks, Black

(* The last rotation of a repair, of the grandparent g and the parent y,   *)
(* leaves no red node below a red one and no red root.                     *)
LEMMA TopTurn ==
  ASSUME NEW t, NEW n, Typed(t, n), LinkedIn(t, n),
         NEW pos, NEW lo, NEW hi, Placed(t, n, pos, lo, hi), NEW c, Weighed(t, n, c),
         NEW side \in Sides, NEW g \in 1..n, NEW y \in 1..n, NEW low \in 1..n,
         t.nodes[g].kid[side] = y, t.nodes[y].kid[side] = low,
         t.nodes[y].color = "red", t.nodes[g].color = "black",
         ~IsRed(t, t.nodes[g].kid[Other(side)]),
         \A m \in 1..n : t.nodes[m].color = "red"
                         /\ (t.nodes[m].parent = 0 \/ t.nodes[t.nodes[m].parent].color = "red") => m = low,
         NEW u, Rotated(Swapped(t, y, g), g, Other(side)) = u
  PROVE  /\ Typed(u, n) /\ LinkedIn(u, n) /\ Weighed(u, n, c)
         /\ \E l, h : Placed(u, n, pos, l, h)
         /\ \A m \in 1..n : u.nodes[m].value = t.nodes[m].value
         /\ u.nodes[low].color = t.nodes[low].color
         /\ \A m \in 1..n : u.nodes[m].color = "red" =>
              u.nodes[m].parent # 0 /\ u.nodes[u.nodes[m].parent].color # "red"
<1>1. /\ Other(side) \in Sides /\ Other(Other(side)) = side /\ Other(side) # side
      /\ \A s \in Sides : s = side \/ s = Other(side)
  BY OtherSide
<1>2. PICK inner, p : Pivot(t, g, y, inner, p, Other(side))
  BY <1>1 DEF Pivot
<1>3. /\ n \in Nat /\ inner \in 0..n /\ p \in 0..n
      /\ g # 0 /\ y # 0 /\ g # y /\ inner # g /\ inner # y /\ p # g /\ p # y
      /\ t.nodes[y].parent = g /\ (inner # 0 => t.nodes[inner].parent = y)
  BY <1>1, <1>2, AroundRotation
<1>4. t.nodes[y].kid[Other(side)] = inner /\ t.nodes[g].parent = p
  BY <1>2 DEF Pivot
<1>5. /\ Typed(u, n) /\ LinkedIn(u, n) /\ Weighed(u, n, c)
      /\ \E l, h : Placed(u, n, pos, l, h)
      /\ Turned(t, u, n, g, y, inner, p, Other(side))
      /\ \A m \in 1..n : u.nodes[m].color =
              IF m = g THEN "red" ELSE IF m = y THEN "black" ELSE t.nodes[m].color
  <2>1. PICK o \in Sides : Other(side) = o
    BY <1>1
  <2>2. Pivot(t, g, y, inner, p, o) /\ Rotated(Swapped(t, y, g), g, o) = u
    BY <1>2, <2>1
  <2>3. /\ Typed(u, n) /\ LinkedIn(u, n) /\ Weighed(u, n, c)
        /\ \E l, h : Placed(u, n, pos, l, h)
        /\ Turned(t, u, n, g, y, inner, p, o)
        /\ \A m \in 1..n : u.nodes[m].color =
              IF m = g THEN "red" ELSE IF m = y THEN "black" ELSE t.nodes[m].color
    BY <2>2, BlackTurn
  <2>. QED  BY <2>1, <2>3
<1>6. /\ \A m \in 1..n : u.nodes[m].value = t.nodes[m].value
      /\ \A m \in 1..n : u.nodes[m].parent =
            IF m = g THEN y ELSE IF m = y THEN p ELSE IF m = inner THEN g ELSE t.nodes[m].parent
  BY <1>5 DEF Turned
<1>7. /\ t.nodes[low].parent = y /\ low # y /\ low # inner /\ low # 0
      /\ low # g
  <2>1. t.nodes[low].parent = y /\ low # y /\ t.nodes[y].kid[Other(side)] # low
    BY KidFacts
  <2>2. hi[low] - lo[low] < hi[y] - lo[y] /\ hi[y] - lo[y] < hi[g] - lo[g]
    BY KidFacts
  <2>3. \A m \in 1..n : hi[m] \in Int /\ lo[m] \in Int
    BY PlacedParts
  <2>4. low # g
    BY <2>2, <2>3
  <2>. QED  BY <1>3, <1>4, <2>1, <2>4
<1>8. u.nodes[low].color = t.nodes[low].color
  BY <1>5, <1>7
<1>9. ASSUME NEW m \in 1..n, u.nodes[m].color = "red"
      PROVE  u.nodes[m].parent # 0 /\ u.nodes[u.nodes[m].parent].color # "red"
  <2>0. m # 0 /\ m # y
    BY <1>3, <1>5, <1>9
  <2>1. CASE m = g
    BY <1>3, <1>5, <1>6, <2>1
  <2>2. CASE m # g
    <3>1. t.nodes[m].color = "red"
      BY <1>5, <1>9, <2>0, <2>2
    <3>2. m # inner
      BY <1>3, <1>7, <3>1
    <3>3. u.nodes[m].parent = t.nodes[m].parent
      BY <1>6, <2>0, <2>2, <3>2
    <3>4. PICK q \in 0..n : t.nodes[m].parent = q
      BY NodeParts
    <3>5. CASE m = low
      BY <1>3, <1>5, <1>7, <3>3, <3>5
    <3>6. CASE m # low
      <4>1. q \in 1..n /\ q # 0 /\ t.nodes[q].color # "red"
        BY <1>3, <3>1, <3>4, <3>6
      <4>2. q # g
        <5>1. SUFFICES ASSUME q = g PROVE FALSE
          OBVIOUS
        <5>2. PICK s \in Sides : t.nodes[g].kid[s] = m
          BY <3>4, <4>1, <5>1 DEF LinkedIn
        <5>3. t.nodes[g].kid[Other(side)] = m
          BY <1>1, <2>0, <5>2
        <5>. QED  BY <2>0, <3>1, <5>3 DEF IsRed
      <4>. QED  BY <1>5, <3>3, <3>4, <4>1, <4>2
    <3>. QED  BY <3>5, <3>6
  <2>. QED  BY <2>1, <2>2
<1>. QED  BY <1>5, <1>6, <1>8, <1>9

-----------------------------------------------------------------------------
(* A red node with a red parent, or without one, is where the repair is.   *)
Reds == \A m \in Ids : nodes[m].color = "red"
          /\ (nodes[m].parent = 0 \/ nodes[nodes[m].parent].color = "red") => doing = "fix" /\ at = m

(* Where an operation is.                                                  *)
Position ==
  /\ doing = "fix" => at \in Ids /\ nodes[at].color = "red"
  /\ doing \in {"insert", "contains", "fix"} => key \in Values
  /\ doing = "insert" /\ root # 0 /\ at = 0 => above \in Ids /\ nodes[above].kid[SideOf(above)] = 0
  /\ Walking /\ root # 0 => at \in Ids

Shape ==
  /\ TypeOK
  /\ root = 0 <=> Len(nodes) = 0
  /\ LinkedIn(Tree, Len(nodes))
  /\ \E pos, lo, hi : Placed(Tree, Len(nodes), pos, lo, hi)
  /\ \E c : Weighed(Tree, Len(nodes), c)
  /\ Reds /\ Position

(* The tree that the variables are.                                        *)
LEMMA TreeOfState ==
  ASSUME TypeOK
  PROVE  /\ Typed(Tree, Len(nodes)) /\ Tree.nodes = nodes /\ Tree.root = root
         /\ Ids = 1..Len(nodes) /\ Len(nodes) \in Nat
         /\ nodes \in [1..Len(nodes) -> NodeOf(Len(nodes))]
<1>1. NodeType = NodeOf(Len(nodes)) /\ nodes \in Seq(NodeType) /\ root \in 0..Len(nodes)
  BY DEF TypeOK, NodeType, NodeOf, Sides
<1>2. nodes \in [1..Len(nodes) -> NodeOf(Len(nodes))] /\ Len(nodes) \in Nat
  BY <1>1
<1>. QED  BY <1>1, <1>2 DEF Typed, Tree, Ids

LEMMA SeqOfTree ==
  ASSUME NEW t, NEW n, Typed(t, n)
  PROVE  Len(t.nodes) = n /\ t.nodes \in Seq(NodeOf(n)) /\ t.root \in 0..n /\ n \in Nat
         /\ [nodes |-> t.nodes, root |-> t.root] = t
BY DEF Typed

(* What a repair finds at a red node with a red parent.                    *)
LEMMA AtViolation ==
  ASSUME Shape, doing = "fix", RedRed
  PROVE  /\ at \in 1..Len(nodes) /\ Parent \in 1..Len(nodes) /\ Grand \in 1..Len(nodes)
         /\ nodes[at].parent = Parent /\ nodes[Parent].parent = Grand
         /\ nodes[at].color = "red" /\ nodes[Parent].color = "red" /\ nodes[Grand].color = "black"
         /\ Side \in Sides /\ nodes[Grand].kid[Side] = Parent /\ nodes[Grand].kid[Other(Side)] = Uncle
         /\ at # Parent /\ Parent # Grand /\ at # Grand
<1> DEFINE n == Len(nodes)
<1>1. /\ Typed(Tree, n) /\ Tree.nodes = nodes /\ Tree.root = root /\ Ids = 1..n /\ n \in Nat
      /\ LinkedIn(Tree, n) /\ Reds /\ Position
  BY TreeOfState DEF Shape
<1>2. PICK pos, lo, hi : Placed(Tree, n, pos, lo, hi)
  BY DEF Shape
<1>3. at \in 1..n /\ nodes[at].color = "red" /\ nodes[at].parent = Parent
  BY <1>1 DEF Position, Parent
<1>4. Parent \in 1..n /\ nodes[Parent].color = "red" /\ nodes[Parent].parent = Grand
  BY <1>1, <1>3, NodeParts DEF RedRed, IsRed, Parent, Grand
<1>5. at # Parent
  BY <1>1, <1>2, <1>3, <1>4, ParentFacts
<1>6. Grand # 0 /\ nodes[Grand].color # "red"
  BY <1>1, <1>4, <1>5 DEF Reds
<1>7. Grand \in 1..n /\ nodes[Grand].color = "black"
  BY <1>1, <1>4, <1>6, NodeParts
<1>8. PICK s \in Sides : nodes[Grand].kid[s] = Parent /\ nodes[Grand].kid[Other(s)] # Parent
  BY <1>1, <1>2, <1>4, <1>7, ParentFacts
<1>9. Side = s
  BY <1>8 DEF Side, Sides, Other
<1>. QED  BY <1>3, <1>4, <1>5, <1>6, <1>7, <1>8, <1>9 DEF Uncle

(* The tree after a step, from what the step makes of it.                  *)
LEMMA NextTree ==
  ASSUME NEW u, NEW n, Typed(u, n), u.nodes = nodes', u.root = root'
  PROVE  /\ Tree' = u /\ Len(nodes') = n /\ root' \in 0..Len(nodes')
         /\ nodes' \in Seq(NodeType')
<1>1. Len(nodes') = n /\ nodes' \in Seq(NodeOf(n)) /\ root' \in 0..n
      /\ [nodes |-> nodes', root |-> root'] = u
  BY SeqOfTree
<1>2. NodeType' = NodeOf(n)
  BY <1>1 DEF NodeType, NodeOf, Sides
<1>. QED  BY <1>1, <1>2 DEF Tree

(* What a step of a repair makes of the tree: the same values in the same  *)
(* places, and links, colors and heights as they should be.                *)
Restored(u, n) ==
  /\ Typed(u, n) /\ LinkedIn(u, n)
  /\ \E c : Weighed(u, n, c)
  /\ \A pos, lo, hi : Placed(Tree, n, pos, lo, hi) => \E l, h : Placed(u, n, pos, l, h)
  /\ \A m \in 1..n : u.nodes[m].value = nodes[m].value

(* A step of a repair restores the tree but for one node, where the next   *)
(* step looks: here two levels up, when the uncle is red.                  *)
LEMMA RecolorEffect ==
  ASSUME Shape, Recolor, NEW n, n = Len(nodes)
  PROVE  /\ Restored(Tree', n) /\ root' = root /\ Len(nodes') = n
         /\ at' \in 1..n /\ nodes'[at'].color = "red"
         /\ \A m \in 1..n : nodes'[m].color = "red" /\
              (nodes'[m].parent = 0 \/ nodes'[nodes'[m].parent].color = "red") => m = at'
<1>1. /\ Typed(Tree, n) /\ Tree.nodes = nodes /\ Tree.root = root /\ Ids = 1..n /\ n \in Nat
      /\ LinkedIn(Tree, n) /\ Reds /\ Position
  BY TreeOfState DEF Shape
<1>2. PICK pos, lo, hi : Placed(Tree, n, pos, lo, hi)
  BY DEF Shape
<1>3. PICK c : Weighed(Tree, n, c)
  BY DEF Shape
<1>4. /\ at \in 1..n /\ Parent \in 1..n /\ Grand \in 1..n
      /\ nodes[at].parent = Parent /\ nodes[Parent].parent = Grand
      /\ nodes[at].color = "red" /\ nodes[Parent].color = "red" /\ nodes[Grand].color = "black"
      /\ Side \in Sides /\ nodes[Grand].kid[Side] = Parent /\ nodes[Grand].kid[Other(Side)] = Uncle
      /\ at # Parent /\ Parent # Grand /\ at # Grand
  BY AtViolation DEF Recolor
<1>5. Uncle \in 1..n /\ nodes[Uncle].color = "red"
  <2>1. Uncle # 0 /\ nodes[Uncle].color = "red"
    BY <1>1 DEF Recolor, IsRed
  <2>2. Uncle \in 0..n
    BY <1>1, <1>4, NodeParts, OtherSide
  <2>. QED  BY <1>1, <2>1, <2>2
<1>6. nodes[Uncle].parent = Grand /\ Uncle # Grand /\ Uncle # Parent
  BY <1>1, <1>2, <1>4, <1>5, KidFacts, OtherSide
<1> DEFINE u == Painted(Tree, {Parent, Uncle}, {Grand})
<1>7. u.nodes = nodes' /\ u.root = root' /\ at' = Grand
  BY DEF Recolor, Become
<1>8. /\ Typed(u, n) /\ u.root = root
      /\ \A m \in 1..n :
              /\ u.nodes[m].value = nodes[m].value
              /\ u.nodes[m].parent = nodes[m].parent
              /\ u.nodes[m].kid = nodes[m].kid
              /\ m \in {Parent, Uncle} => u.nodes[m].color = "black"
              /\ m \in {Grand} => u.nodes[m].color = "red"
              /\ m \notin {Parent, Uncle} /\ m \notin {Grand} => u.nodes[m].color = nodes[m].color
  <2> DEFINE black == {Parent, Uncle}
             red == {Grand}
  <2>1. black \intersect red = {} /\ Painted(Tree, black, red) = u
    BY <1>4, <1>6
  <2> HIDE DEF u, black, red
  <2>2. /\ Typed(u, n) /\ u.root = Tree.root
        /\ \A m \in 1..n :
              /\ u.nodes[m].value = Tree.nodes[m].value
              /\ u.nodes[m].parent = Tree.nodes[m].parent
              /\ u.nodes[m].kid = Tree.nodes[m].kid
              /\ m \in black => u.nodes[m].color = "black"
              /\ m \in red => u.nodes[m].color = "red"
              /\ m \notin black /\ m \notin red => u.nodes[m].color = Tree.nodes[m].color
    BY <1>1, <2>1, PaintedEffect
  <2>. QED  BY <1>1, <2>2 DEF black, red
<1> HIDE DEF u
<1>9. Tree' = u /\ Len(nodes') = n
  BY <1>7, <1>8, NextTree
<1>10. LinkedIn(u, n) /\ \A p, l, h : Placed(Tree, n, p, l, h) => Placed(u, n, p, l, h)
  BY <1>1, <1>8, PaintedLinks
<1>11. \E d : Weighed(u, n, d)
  <2>1. /\ Tree.nodes[Grand].kid[Side] = Parent /\ Tree.nodes[Grand].kid[Other(Side)] = Uncle
        /\ Tree.nodes[Parent].color = "red" /\ Tree.nodes[Uncle].color = "red"
        /\ Tree.nodes[Grand].color = "black"
        /\ \A m \in 1..n : u.nodes[m].kid = Tree.nodes[m].kid
        /\ u.nodes[Parent].color = "black" /\ u.nodes[Uncle].color = "black" /\ u.nodes[Grand].color = "red"
        /\ \A m \in 1..n : m # Parent /\ m # Uncle /\ m # Grand =>
             u.nodes[m].color = Tree.nodes[m].color
    BY <1>1, <1>4, <1>5, <1>8
  <2>2. Side \in Sides /\ Parent \in 1..n /\ Uncle \in 1..n /\ Grand \in 1..n
    BY <1>4, <1>5
  <2>3. Typed(Tree, n) /\ LinkedIn(Tree, n)
    BY <1>1
  <2>. QED  BY <1>2, <1>3, <2>1, <2>2, <2>3, RecoloredWeighed
<1>12. Restored(u, n)
  BY <1>8, <1>10, <1>11 DEF Restored
<1>13. ASSUME NEW m \in 1..n, nodes'[m].color = "red",
              nodes'[m].parent = 0 \/ nodes'[nodes'[m].parent].color = "red"
       PROVE  m = at'
  <2>1. SUFFICES ASSUME m # Grand PROVE FALSE
    BY <1>7
  <2>2. m # Parent /\ m # Uncle /\ nodes[m].color = "red" /\ nodes'[m].parent = nodes[m].parent
    BY <1>7, <1>8, <1>13, <2>1
  <2>3. PICK q \in 0..n : nodes[m].parent = q
    BY <1>1, NodeParts
  <2>4. CASE q = 0
    BY <1>1, <1>4, <2>2, <2>3, <2>4 DEF Reds
  <2>5. CASE q # 0
    <3>1. q \in 1..n /\ u.nodes[q].color = "red"
      BY <1>1, <1>7, <1>13, <2>2, <2>3, <2>5
    <3>2. q # Parent /\ q # Uncle
      BY <1>8, <3>1
    <3>3. CASE q = Grand
      <4>1. PICK s \in Sides : nodes[Grand].kid[s] = m
        BY <1>1, <1>4, <2>3, <2>5, <3>3 DEF LinkedIn
      <4>. QED  BY <1>4, <2>2, <4>1, OtherSide
    <3>4. CASE q # Grand
      <4>1. nodes[q].color = "red"
        BY <1>8, <3>1, <3>2, <3>4
      <4>2. m = at
        BY <1>1, <2>2, <2>3, <4>1 DEF Reds
      <4>. QED  BY <1>4, <2>3, <3>2, <4>2
    <3>. QED  BY <3>3, <3>4
  <2>. QED  BY <2>4, <2>5
<1>. QED  BY <1>4, <1>7, <1>8, <1>9, <1>12, <1>13

(* The end of a repair paints the root black, which is on every way down.  *)
LEMMA FixedEffect ==
  ASSUME Shape, Fixed, NEW n, n = Len(nodes)
  PROVE  /\ Restored(Tree', n) /\ root' = root /\ Len(nodes') = n
         /\ \A m \in 1..n : ~(nodes'[m].color = "red" /\
              (nodes'[m].parent = 0 \/ nodes'[nodes'[m].parent].color = "red"))
<1>1. /\ Typed(Tree, n) /\ Tree.nodes = nodes /\ Tree.root = root /\ Ids = 1..n /\ n \in Nat
      /\ LinkedIn(Tree, n) /\ Reds /\ Position
  BY TreeOfState DEF Shape
<1>2. PICK c : Weighed(Tree, n, c)
  BY DEF Shape
<1> DEFINE u == Painted(Tree, {root}, {})
<1>3. u.nodes = nodes' /\ u.root = root'
  BY DEF Fixed, Become
<1>4. /\ Typed(u, n) /\ u.root = root
      /\ \A m \in 1..n :
              /\ u.nodes[m].value = nodes[m].value
              /\ u.nodes[m].parent = nodes[m].parent
              /\ u.nodes[m].kid = nodes[m].kid
              /\ m \in {root} => u.nodes[m].color = "black"
              /\ m \in {} => u.nodes[m].color = "red"
              /\ m \notin {root} /\ m \notin {} => u.nodes[m].color = nodes[m].color
  <2>1. {root} \intersect {} = {} /\ Painted(Tree, {root}, {}) = u
    OBVIOUS
  <2> HIDE DEF u
  <2>. QED  BY <1>1, <2>1, PaintedEffect
<1> HIDE DEF u
<1>5. Tree' = u /\ Len(nodes') = n
  BY <1>3, <1>4, NextTree
<1>6. LinkedIn(u, n) /\ \A p, l, h : Placed(Tree, n, p, l, h) => Placed(u, n, p, l, h)
  BY <1>1, <1>4, PaintedLinks
<1>7. Weighed(u, n, c)
  <2>1. /\ \A m \in 1..n : u.nodes[m].kid = Tree.nodes[m].kid
        /\ \A m \in 1..n : m # Tree.root => u.nodes[m].color = Tree.nodes[m].color
    BY <1>1, <1>4
  <2>. QED  BY <1>1, <1>2, <2>1, RootWeighed
<1>8. Restored(u, n)
  BY <1>4, <1>6, <1>7 DEF Restored
<1>9. ASSUME NEW m \in 1..n, nodes'[m].color = "red",
             nodes'[m].parent = 0 \/ nodes'[nodes'[m].parent].color = "red"
      PROVE  FALSE
  <2>1. m # root /\ nodes[m].color = "red" /\ nodes'[m].parent = nodes[m].parent
    BY <1>3, <1>4, <1>9
  <2>2. nodes[m].parent # 0
    BY <1>1, <2>1 DEF LinkedIn
  <2>3. PICK q \in 1..n : nodes[m].parent = q
    BY <1>1, <2>2, NodeParts
  <2>4. u.nodes[q].color = "red" /\ q # root /\ nodes[q].color = "red"
    BY <1>1, <1>3, <1>4, <1>9, <2>1, <2>2, <2>3
  <2>5. m = at
    BY <1>1, <2>1, <2>3, <2>4 DEF Reds
  <2>6. Parent = q /\ RedRed
    BY <1>1, <2>2, <2>3, <2>4, <2>5 DEF Parent, RedRed, IsRed
  <2>. QED  BY <2>6 DEF Fixed
<1>. QED  BY <1>3, <1>4, <1>5, <1>8, <1>9

(* A tree with a node has a root.                                          *)
LEMMA RootExists ==
  ASSUME NEW t, NEW n, Typed(t, n), LinkedIn(t, n),
         NEW pos, NEW lo, NEW hi, Placed(t, n, pos, lo, hi)
  PROVE  t.root = 0 <=> n = 0
<1>1. n \in Nat /\ t.root \in 0..n
  BY TreeParts
<1>2. ASSUME t.root = 0 PROVE n = 0
  <2> DEFINE S == {}
  <2>1. \A m : m \notin S
    OBVIOUS
  <2> HIDE DEF S
  <2>2. \A m \in 1..n : m = t.root \/ t.nodes[m].parent \in S => m \in S
    BY <1>1, <1>2, <2>1
  <2>3. 1..n \subseteq S
    BY <2>2, FromTheRoot
  <2>. QED  BY <1>1, <2>1, <2>3
<1>. QED  BY <1>1, <1>2

(* When the uncle is black one or two rotations leave no red node below a  *)
(* red one.                                                                *)
LEMMA RotateEffect ==
  ASSUME Shape, Rotate, NEW n, n = Len(nodes)
  PROVE  /\ Restored(Tree', n) /\ Len(nodes') = n
         /\ at' \in 1..n /\ nodes'[at'].color = "red"
         /\ \A m \in 1..n : ~(nodes'[m].color = "red" /\
              (nodes'[m].parent = 0 \/ nodes'[nodes'[m].parent].color = "red"))
<1>1. /\ Typed(Tree, n) /\ Tree.nodes = nodes /\ Tree.root = root /\ Ids = 1..n /\ n \in Nat
      /\ LinkedIn(Tree, n) /\ Reds /\ Position
  BY TreeOfState DEF Shape
<1>2. PICK c : Weighed(Tree, n, c)
  BY DEF Shape
<1>3. PICK pos0, lo0, hi0 : Placed(Tree, n, pos0, lo0, hi0)
  BY DEF Shape
<1>4. /\ at \in 1..n /\ Parent \in 1..n /\ Grand \in 1..n
      /\ nodes[at].parent = Parent /\ nodes[Parent].parent = Grand
      /\ nodes[at].color = "red" /\ nodes[Parent].color = "red" /\ nodes[Grand].color = "black"
      /\ Side \in Sides /\ nodes[Grand].kid[Side] = Parent /\ nodes[Grand].kid[Other(Side)] = Uncle
      /\ at # Parent /\ Parent # Grand /\ at # Grand
  BY AtViolation DEF Rotate
<1>5. \A m \in 1..n : nodes[m].color = "red"
         /\ (nodes[m].parent = 0 \/ nodes[nodes[m].parent].color = "red") => m = at
  BY <1>1 DEF Reds
<1>6. ~IsRed(Tree, Uncle)
  BY DEF Rotate
<1>7. Other(Side) \in Sides /\ Other(Side) # Side /\ \A s \in Sides : s = Side \/ s = Other(Side)
  BY <1>4, OtherSide
(* Either way, what the second rotation makes of the tree v it starts from.*)
<1>8. ASSUME NEW v, NEW low \in 1..n, NEW y \in 1..n,
             Typed(v, n), LinkedIn(v, n), Weighed(v, n, c),
             \A pos, lo, hi : Placed(Tree, n, pos, lo, hi) => \E l, h : Placed(v, n, pos, l, h),
             \A m \in 1..n : v.nodes[m].value = nodes[m].value,
             v.nodes[Grand].kid[Side] = y, v.nodes[y].kid[Side] = low,
             v.nodes[y].color = "red", v.nodes[Grand].color = "black", v.nodes[low].color = "red",
             ~IsRed(v, v.nodes[Grand].kid[Other(Side)]),
             \A m \in 1..n : v.nodes[m].color = "red"
               /\ (v.nodes[m].parent = 0 \/ v.nodes[v.nodes[m].parent].color = "red") => m = low,
             Become(Rotated(Swapped(v, y, Grand), Grand, Other(Side))), at' = low
      PROVE  /\ Restored(Tree', n) /\ Len(nodes') = n
             /\ at' \in 1..n /\ nodes'[at'].color = "red"
             /\ \A m \in 1..n : ~(nodes'[m].color = "red" /\
                  (nodes'[m].parent = 0 \/ nodes'[nodes'[m].parent].color = "red"))
  <2>1. PICK u : Rotated(Swapped(v, y, Grand), Grand, Other(Side)) = u
    OBVIOUS
  <2>2. u.nodes = nodes' /\ u.root = root'
    BY <1>8, <2>1 DEF Become
  <2>3. ASSUME NEW pos, NEW lo, NEW hi, Placed(v, n, pos, lo, hi)
        PROVE  /\ Typed(u, n) /\ LinkedIn(u, n) /\ Weighed(u, n, c)
               /\ \E l, h : Placed(u, n, pos, l, h)
               /\ \A m \in 1..n : u.nodes[m].value = v.nodes[m].value
               /\ u.nodes[low].color = v.nodes[low].color
               /\ \A m \in 1..n : u.nodes[m].color = "red" =>
                    u.nodes[m].parent # 0 /\ u.nodes[u.nodes[m].parent].color # "red"
    <3>1. Grand \in 1..n /\ Side \in Sides
      BY <1>4
    <3>2. /\ v.nodes[Grand].kid[Side] = y /\ v.nodes[y].kid[Side] = low
          /\ v.nodes[y].color = "red" /\ v.nodes[Grand].color = "black"
          /\ ~IsRed(v, v.nodes[Grand].kid[Other(Side)])
          /\ Typed(v, n) /\ LinkedIn(v, n) /\ Weighed(v, n, c)
      BY <1>8
    <3>3. \A m \in 1..n : v.nodes[m].color = "red"
            /\ (v.nodes[m].parent = 0 \/ v.nodes[v.nodes[m].parent].color = "red") => m = low
      BY <1>8
    <3>. QED  BY <2>1, <2>3, <3>1, <3>2, <3>3, TopTurn, SMTT(60)
  <2>4. PICK l0, h0 : Placed(v, n, pos0, l0, h0)
    BY <1>3, <1>8
  <2>5. /\ Typed(u, n) /\ LinkedIn(u, n) /\ Weighed(u, n, c)
        /\ \A m \in 1..n : u.nodes[m].value = nodes[m].value
        /\ u.nodes[low].color = "red"
        /\ \A m \in 1..n : u.nodes[m].color = "red" =>
             u.nodes[m].parent # 0 /\ u.nodes[u.nodes[m].parent].color # "red"
    BY <1>8, <2>3, <2>4
  <2>6. ASSUME NEW pos, NEW lo, NEW hi, Placed(Tree, n, pos, lo, hi) PROVE \E l, h : Placed(u, n, pos, l, h)
    <3>1. PICK l1, h1 : Placed(v, n, pos, l1, h1)
      BY <1>8, <2>6
    <3>. QED  BY <2>3, <3>1
  <2>7. Tree' = u /\ Len(nodes') = n
    BY <2>2, <2>5, NextTree
  <2>8. Restored(u, n)
    BY <2>5, <2>6 DEF Restored
  <2>. QED  BY <1>8, <2>2, <2>5, <2>7, <2>8
<1>9. CASE ~Inner
  <2>1. Become(Rotated(Swapped(Tree, Parent, Grand), Grand, Other(Side))) /\ at' = at
    BY <1>1, <1>4, <1>9 DEF Rotate, Swapped
  <2>2. nodes[Parent].kid[Side] = at
    <3>1. PICK s \in Sides : nodes[Parent].kid[s] = at
      BY <1>1, <1>4, NodeParts DEF LinkedIn
    <3>. QED  BY <1>7, <1>9, <3>1 DEF Inner
  <2>3. \A pos, lo, hi : Placed(Tree, n, pos, lo, hi) => \E l, h : Placed(Tree, n, pos, l, h)
    OBVIOUS
  <2>4. /\ Tree.nodes[Grand].kid[Side] = Parent /\ Tree.nodes[Parent].kid[Side] = at
        /\ Tree.nodes[Parent].color = "red" /\ Tree.nodes[Grand].color = "black"
        /\ Tree.nodes[at].color = "red" /\ ~IsRed(Tree, Tree.nodes[Grand].kid[Other(Side)])
        /\ \A m \in 1..n : Tree.nodes[m].value = nodes[m].value
        /\ Typed(Tree, n) /\ LinkedIn(Tree, n)
    BY <1>1, <1>4, <1>6, <2>2
  <2>5. \A m \in 1..n : Tree.nodes[m].color = "red"
          /\ (Tree.nodes[m].parent = 0 \/ Tree.nodes[Tree.nodes[m].parent].color = "red") => m = at
    BY <1>1, <1>5
  <2>6. Parent \in 1..n /\ at \in 1..n
    BY <1>4
  <2>. QED  BY <1>2, <1>8, <2>1, <2>3, <2>4, <2>5, <2>6
<1>10. CASE Inner
  <2>1. PICK v : Rotated(Tree, Parent, Side) = v
    OBVIOUS
  <2>2. PICK i, g : Pivot(Tree, Parent, at, i, g, Side)
    BY <1>1, <1>10 DEF Pivot, Inner
  <2>3. g = Grand /\ nodes[at].kid[Side] = i
    BY <1>1, <1>4, <2>2 DEF Pivot
  <2>4. ASSUME NEW pos, NEW lo, NEW hi, Placed(Tree, n, pos, lo, hi)
        PROVE  /\ Typed(v, n) /\ LinkedIn(v, n) /\ Weighed(v, n, c)
               /\ \E l, h : Placed(v, n, pos, l, h)
               /\ Turned(Tree, v, n, Parent, at, i, g, Side)
               /\ \A m \in 1..n : v.nodes[m].color = Tree.nodes[m].color
    BY <1>1, <1>2, <1>4, <2>1, <2>2, <2>4, RedTurn
  <2>5. /\ Typed(v, n) /\ LinkedIn(v, n) /\ Weighed(v, n, c)
        /\ \A m \in 1..n : v.nodes[m].color = nodes[m].color /\ v.nodes[m].value = nodes[m].value
        /\ \A m \in 1..n : v.nodes[m].parent =
             IF m = Parent THEN at ELSE IF m = at THEN Grand ELSE IF m = i THEN Parent ELSE nodes[m].parent
        /\ \A m \in 1..n, s \in Sides : v.nodes[m].kid[s] =
             IF m = Parent THEN IF s = Side THEN nodes[m].kid[s] ELSE i
             ELSE IF m = at THEN IF s = Side THEN Parent ELSE nodes[m].kid[s]
             ELSE IF nodes[m].kid[s] = Parent THEN at ELSE nodes[m].kid[s]
    BY <1>1, <1>3, <2>3, <2>4 DEF Turned
  <2>6. \A pos, lo, hi : Placed(Tree, n, pos, lo, hi) => \E l, h : Placed(v, n, pos, l, h)
    BY <2>4
  <2>7. Become(Rotated(Swapped(v, at, Grand), Grand, Other(Side))) /\ at' = Parent
    <3>1. v.nodes[Parent].parent = at /\ v.nodes[at].parent = Grand
      BY <1>4, <2>5
    <3>. QED  BY <1>10, <2>1, <3>1 DEF Rotate, Swapped
  <2>8. /\ v.nodes[Grand].kid[Side] = at /\ v.nodes[at].kid[Side] = Parent
        /\ v.nodes[Grand].kid[Other(Side)] = Uncle
    <3>1. Uncle # Parent
      BY <1>1, <1>3, <1>4, KidFacts
    <3>. QED  BY <1>4, <1>7, <2>5, <3>1
  <2>9. ~IsRed(v, Uncle)
    <3>1. Uncle \in 0..n
      BY <1>1, <1>4, <1>7, NodeParts
    <3>. QED  BY <1>1, <1>6, <2>5, <3>1 DEF IsRed
  <2>10. ASSUME NEW m \in 1..n, v.nodes[m].color = "red",
                v.nodes[m].parent = 0 \/ v.nodes[v.nodes[m].parent].color = "red"
         PROVE  m = Parent
    <3>1. SUFFICES ASSUME m # Parent PROVE FALSE
      OBVIOUS
    <3>2. m # at
      BY <1>1, <1>4, <2>5, <2>10
    <3>3. m # i
      <4>1. SUFFICES ASSUME m = i PROVE FALSE
        OBVIOUS
      <4>2. nodes[m].parent = at
        BY <1>1, <1>4, <2>3, <4>1 DEF LinkedIn
      <4>. QED  BY <1>4, <1>5, <2>5, <2>10, <3>2, <4>2
    <3>4. v.nodes[m].parent = nodes[m].parent /\ nodes[m].color = "red"
      BY <2>5, <2>10, <3>1, <3>2, <3>3
    <3>5. PICK q \in 0..n : nodes[m].parent = q
      BY <1>1, NodeParts
    <3>6. q = 0 \/ nodes[q].color = "red"
      BY <1>1, <2>5, <2>10, <3>4, <3>5
    <3>. QED  BY <1>5, <3>2, <3>4, <3>5, <3>6
  <2>11. \A m \in 1..n : v.nodes[m].color = "red"
           /\ (v.nodes[m].parent = 0 \/ v.nodes[v.nodes[m].parent].color = "red") => m = Parent
    BY <2>10
  <2>12. /\ Parent \in 1..n /\ at \in 1..n /\ Typed(v, n) /\ LinkedIn(v, n) /\ Weighed(v, n, c)
         /\ \A m \in 1..n : v.nodes[m].value = nodes[m].value
         /\ v.nodes[at].color = "red" /\ v.nodes[Grand].color = "black" /\ v.nodes[Parent].color = "red"
         /\ ~IsRed(v, v.nodes[Grand].kid[Other(Side)])
    BY <1>4, <2>5, <2>8, <2>9
  <2>. QED  BY <1>8, <2>6, <2>7, <2>8, <2>11, <2>12
<1>. QED  BY <1>9, <1>10

(* An insertion hangs a red node in the place of the missing child that    *)
(* the search has come to.                                                 *)
LEMMA LinkEffect ==
  ASSUME Shape, Link, NEW n, n = Len(nodes)
  PROVE  /\ Typed(Tree', n + 1) /\ Len(nodes') = n + 1 /\ LinkedIn(Tree', n + 1)
         /\ \E c : Weighed(Tree', n + 1, c)
         /\ above \in 1..n /\ SideOf(above) \in Sides /\ nodes[above].kid[SideOf(above)] = 0
         /\ Grown(Tree, Tree', n, above, SideOf(above), key)
<1>1. /\ Typed(Tree, n) /\ Tree.nodes = nodes /\ Tree.root = root /\ Ids = 1..n /\ n \in Nat
      /\ LinkedIn(Tree, n) /\ Reds /\ Position /\ nodes \in [1..n -> NodeOf(n)]
  BY TreeOfState DEF Shape
<1>2. PICK c : Weighed(Tree, n, c)
  BY DEF Shape
<1>3. PICK a \in 1..n : above = a
  BY <1>1 DEF Link, Position
<1>4. PICK s \in Sides : SideOf(above) = s
  BY DEF SideOf, Sides
<1>5. nodes[a].kid[s] = 0 /\ key \in Values /\ root # 0
  BY <1>1, <1>3, <1>4 DEF Link, Position
<1> DEFINE e == Node(key, "red", a)
           r == [nodes[a] EXCEPT !.kid[s] = n + 1]
           g == [nodes EXCEPT ![a] = r]
<1>6. nodes' = Append(g, e) /\ root' = root
  BY <1>3, <1>4 DEF Link
<1>7. /\ e \in NodeOf(n + 1) /\ e.value = key /\ e.color = "red" /\ e.parent = a
      /\ \A q \in Sides : e.kid[q] = 0
  <2>1. a \in 0..(n + 1) /\ 0 \in 0..(n + 1) /\ Sides = {"left", "right"}
    BY <1>1 DEF Sides
  <2>2. [side \in {"left", "right"} |-> 0] \in [Sides -> 0..(n + 1)]
    BY <2>1
  <2>. QED  BY <1>5, <2>1, <2>2 DEF Node, NodeOf
<1>8. \A m \in 1..n : nodes[m] \in NodeOf(n + 1)
  <2>1. \A i \in 0..n : i \in 0..(n + 1)
    BY <1>1
  <2>2. [Sides -> 0..n] \subseteq [Sides -> 0..(n + 1)]
    BY <2>1
  <2>3. ASSUME NEW m \in 1..n PROVE nodes[m] \in NodeOf(n + 1)
    <3>1. nodes[m] \in NodeOf(n)
      BY <1>1
    <3>. QED  BY <2>1, <2>2, <3>1 DEF NodeOf
  <2>. QED  BY <2>3
<1>9. /\ r \in NodeOf(n + 1) /\ r.value = nodes[a].value /\ r.color = nodes[a].color
      /\ r.parent = nodes[a].parent /\ r.kid[s] = n + 1
      /\ \A q \in Sides : q # s => r.kid[q] = nodes[a].kid[q]
  <2>1. nodes[a] \in NodeOf(n + 1) /\ n + 1 \in 0..(n + 1)
    BY <1>1, <1>8
  <2>. QED  BY <2>1 DEF NodeOf
<1> HIDE DEF e, r
<1>10. /\ g \in [1..n -> NodeOf(n + 1)] /\ g[a] = r /\ \A m \in 1..n : m # a => g[m] = nodes[m]
  BY <1>1, <1>8, <1>9
<1> HIDE DEF g
<1>11. /\ g \in Seq(NodeOf(n + 1)) /\ Len(g) = n
  BY <1>1, <1>10
<1>12. /\ nodes' \in Seq(NodeOf(n + 1)) /\ Len(nodes') = n + 1 /\ nodes'[n + 1] = e
       /\ \A m \in 1..n : nodes'[m] = g[m]
  BY <1>1, <1>6, <1>7, <1>11
<1>13. nodes' \in [1..(n + 1) -> NodeOf(n + 1)] /\ root' \in 0..(n + 1)
  <2>1. root \in 0..n
    BY <1>1, TreeParts
  <2>2. root' \in 0..(n + 1)
    BY <1>1, <1>6, <2>1
  <2>3. nodes' \in [1..Len(nodes') -> NodeOf(n + 1)]
    BY <1>12
  <2>4. 1..Len(nodes') = 1..(n + 1)
    BY <1>12
  <2>. QED  BY <2>2, <2>3, <2>4
<1>14. /\ Tree'.nodes = nodes' /\ Tree'.root = root'
       /\ Tree' \in [nodes : [1..(n + 1) -> NodeOf(n + 1)], root : 0..(n + 1)]
  BY <1>13 DEF Tree
<1>15. Typed(Tree', n + 1)
  BY <1>1, <1>14 DEF Typed
<1>16. Grown(Tree, Tree', n, above, SideOf(above), key)
  <2>1. ASSUME NEW m \in 1..n
        PROVE  /\ nodes'[m].value = nodes[m].value /\ nodes'[m].color = nodes[m].color
               /\ nodes'[m].parent = nodes[m].parent
               /\ \A q \in Sides : nodes'[m].kid[q] = IF m = a /\ q = s THEN n + 1 ELSE nodes[m].kid[q]
    <3>1. CASE m = a
      BY <1>9, <1>10, <1>12, <3>1
    <3>2. CASE m # a
      BY <1>10, <1>12, <3>2
    <3>. QED  BY <3>1, <3>2
  <2>2. /\ nodes'[n + 1].value = key /\ nodes'[n + 1].color = "red" /\ nodes'[n + 1].parent = a
        /\ \A q \in Sides : nodes'[n + 1].kid[q] = 0
    BY <1>7, <1>12
  <2>. QED  BY <1>1, <1>3, <1>4, <1>6, <1>14, <2>1, <2>2 DEF Grown
<1>17. LinkedIn(Tree', n + 1)
  BY <1>1, <1>3, <1>4, <1>5, <1>15, <1>16, GrownLinked
<1>18. \E d : Weighed(Tree', n + 1, d)
  BY <1>1, <1>2, <1>3, <1>4, <1>5, <1>15, <1>16, GrownWeighed
<1>. QED  BY <1>3, <1>4, <1>5, <1>12, <1>15, <1>16, <1>17, <1>18

(* The first node is a tree.                                               *)
LEMMA FirstEffect ==
  ASSUME Shape, InsertFirst
  PROVE  /\ Typed(Tree', 1) /\ Len(nodes') = 1 /\ LinkedIn(Tree', 1) /\ root' = 1
         /\ \E c : Weighed(Tree', 1, c)
         /\ \E pos, lo, hi : Placed(Tree', 1, pos, lo, hi)
         /\ nodes'[1].value = key /\ nodes'[1].color = "black" /\ nodes'[1].parent = 0
         /\ key \in Values
<1>1. key \in Values
  BY DEF Shape, Position, InsertFirst
<1> DEFINE e == Node(key, "black", 0)
<1>2. /\ e \in NodeOf(1) /\ e.value = key /\ e.color = "black" /\ e.parent = 0
      /\ \A q \in Sides : e.kid[q] = 0
  <2>1. Sides = {"left", "right"} /\ 0 \in 0..1
    BY DEF Sides
  <2>2. [side \in {"left", "right"} |-> 0] \in [Sides -> 0..1]
    BY <2>1
  <2>. QED  BY <1>1, <2>1, <2>2 DEF Node, NodeOf
<1>3. nodes' = <<e>> /\ root' = 1
  BY DEF InsertFirst
<1> HIDE DEF e
<1>4. Len(nodes') = 1 /\ nodes'[1] = e /\ nodes' \in [1..1 -> NodeOf(1)]
  BY <1>2, <1>3
<1>5. /\ Tree'.nodes = nodes' /\ Tree'.root = 1 /\ Typed(Tree', 1)
  <2>1. Tree' = [nodes |-> nodes', root |-> 1]
    BY <1>3 DEF Tree
  <2>2. Tree' \in [nodes : [1..1 -> NodeOf(1)], root : 0..1]
    BY <1>4, <2>1
  <2>. QED  BY <2>1, <2>2 DEF Typed
<1>6. \A m \in 1..1 : /\ m = 1 /\ Tree'.nodes[m].parent = 0
                      /\ \A q \in Sides : Tree'.nodes[m].kid[q] = 0
  BY <1>2, <1>4, <1>5
<1>7. LinkedIn(Tree', 1)
  BY <1>5, <1>6 DEF LinkedIn
<1>8. Weighed(Tree', 1, [m \in 1..1 |-> 0])
  BY <1>6 DEF Weighed, High
<1>9. Placed(Tree', 1, [m \in 1..1 |-> 0], [m \in 1..1 |-> -1], [m \in 1..1 |-> 1])
  <2> DEFINE pos == [m \in 1..1 |-> 0]
             lo == [m \in 1..1 |-> -1]
             hi == [m \in 1..1 |-> 1]
  <2>1. /\ pos \in [1..1 -> Int] /\ lo \in [1..1 -> Int] /\ hi \in [1..1 -> Int]
        /\ pos[1] = 0 /\ lo[1] = -1 /\ hi[1] = 1
    OBVIOUS
  <2> HIDE DEF pos, lo, hi
  <2>2. \A m \in 1..1 : Tree'.nodes[m].kid["left"] = 0 /\ Tree'.nodes[m].kid["right"] = 0
    BY <1>6 DEF Sides
  <2>3. Placed(Tree', 1, pos, lo, hi)
    BY <1>5, <1>6, <2>1, <2>2 DEF Placed
  <2>. QED  BY <2>3 DEF pos, lo, hi
<1>. QED  BY <1>1, <1>2, <1>3, <1>4, <1>5, <1>7, <1>8, <1>9


-----------------------------------------------------------------------------
(* A step that leaves the tree as it is.                                   *)
LEMMA SameTree ==
  ASSUME Shape, nodes' = nodes, root' = root, TypeOK', Position',
         doing = "fix" => doing' = "fix" /\ at' = at
  PROVE  Shape'
<1>1. Tree' = Tree /\ Ids' = Ids /\ Len(nodes') = Len(nodes)
  BY DEF Tree, Ids
<1>2. Reds'
  <2>1. Reds
    BY DEF Shape
  <2>. QED  BY <1>1, <2>1 DEF Reds
<1>3. /\ root' = 0 <=> Len(nodes') = 0
      /\ LinkedIn(Tree', Len(nodes'))
      /\ \E pos, lo, hi : Placed(Tree', Len(nodes'), pos, lo, hi)
      /\ \E c : Weighed(Tree', Len(nodes'), c)
  BY <1>1 DEF Shape
<1>. QED  BY <1>2, <1>3 DEF Shape

(* What is left to show of a step that changes the tree.                   *)
LEMMA NewTree ==
  ASSUME NEW n, Typed(Tree', n), Len(nodes') = n, LinkedIn(Tree', n),
         \E pos, lo, hi : Placed(Tree', n, pos, lo, hi),
         \E c : Weighed(Tree', n, c),
         \A m \in 1..n : nodes'[m].color = "red"
            /\ (nodes'[m].parent = 0 \/ nodes'[nodes'[m].parent].color = "red")
              => doing' = "fix" /\ at' = m,
         Position', count' \in Nat, doing' \in {"none", "insert", "contains", "fix", "left", "right"},
         key' \in Values \union {None}, at' \in 0..n, above' \in 0..n,
         result' \in Values \union {None, 0, 1}
  PROVE  Shape'
<1>1. Tree'.nodes = nodes' /\ Tree'.root = root' /\ Ids' = 1..n
  BY DEF Tree, Ids
<1>2. root' \in 0..Len(nodes') /\ nodes' \in Seq(NodeType')
  BY <1>1, NextTree
<1>3. TypeOK'
  BY <1>2 DEF TypeOK
<1>4. root' = 0 <=> Len(nodes') = 0
  <2>1. PICK pos, lo, hi : Placed(Tree', n, pos, lo, hi)
    OBVIOUS
  <2>. QED  BY <1>1, <2>1, RootExists
<1>5. Reds'
  BY <1>1 DEF Reds
<1>. QED  BY <1>3, <1>4, <1>5 DEF Shape

(* The three facts of the invariant: it holds at first, each step keeps    *)
(* it, and it is more than what is to be shown.                            *)
LEMMA ShapeInit == Init => Shape
<1> SUFFICES ASSUME Init PROVE Shape
  OBVIOUS
<1>1. nodes = << >> /\ root = 0 /\ count = 0 /\ doing = "none" /\ key = None /\ at = 0
      /\ above = 0 /\ result = None /\ Len(nodes) = 0 /\ Ids = {}
  BY DEF Init, Ids
<1>2. TypeOK
  BY <1>1 DEF TypeOK
<1>3. /\ Reds /\ Position
  BY <1>1 DEF Reds, Position, Walking
<1>4. LinkedIn(Tree, Len(nodes))
  BY <1>1 DEF LinkedIn, Tree
<1>5. Placed(Tree, Len(nodes), [m \in 1..0 |-> 0], [m \in 1..0 |-> 0], [m \in 1..0 |-> 0])
  <2> DEFINE f == [m \in 1..0 |-> 0]
  <2>1. f \in [1..0 -> Int] /\ Tree.root = 0 /\ 1..0 = {}
    BY <1>1 DEF Tree
  <2> HIDE DEF f
  <2>2. Placed(Tree, Len(nodes), f, f, f)
    BY <1>1, <2>1 DEF Placed
  <2>. QED  BY <2>2 DEF f
<1>6. Weighed(Tree, Len(nodes), [m \in 1..0 |-> 0])
  BY <1>1 DEF Weighed
<1>. QED  BY <1>1, <1>2, <1>3, <1>4, <1>5, <1>6 DEF Shape

LEMMA ShapeStep ==
  ASSUME Shape, [Next]_vars
  PROVE  Shape'
<1> USE UseAssumption
<1>1. /\ Typed(Tree, Len(nodes)) /\ Tree.nodes = nodes /\ Tree.root = root
      /\ Ids = 1..Len(nodes) /\ Len(nodes) \in Nat /\ TypeOK /\ Position /\ Reds
      /\ root = 0 <=> Len(nodes) = 0
  BY TreeOfState DEF Shape
<1>2. /\ root \in 0..Len(nodes) /\ count \in Nat
      /\ doing \in {"none", "insert", "contains", "fix", "left", "right"}
      /\ key \in Values \union {None}
      /\ at \in 0..Len(nodes) /\ above \in 0..Len(nodes)
      /\ result \in Values \union {None, 0, 1} /\ nodes \in Seq(NodeType)
  BY <1>1 DEF TypeOK
<1>3. \A m \in 1..Len(nodes) : nodes[m].value \in Values
        /\ \A s \in Sides : nodes[m].kid[s] \in 0..Len(nodes)
  BY <1>1, NodeParts
<1> DEFINE n == Len(nodes)
<1>4. ASSUME nodes' = nodes, root' = root
      PROVE  Ids' = Ids /\ NodeType' = NodeType
  BY <1>4 DEF Ids, NodeType
<1>5. ASSUME NEW r \in Values \union {None, 0, 1}, End(r), UNCHANGED <<nodes, root, count>>, doing # "fix"
      PROVE  Shape'
  <2>1. TypeOK'
    BY <1>2, <1>4, <1>5 DEF TypeOK, End
  <2>2. Position'
    BY <1>5 DEF Position, End, Walking
  <2>. QED  BY <1>5, <2>1, <2>2, SameTree
<1>6. ASSUME NEW v \in Values, NEW what \in {"insert", "contains"}, Begin(what, v)
      PROVE  Shape'
  <2>1. TypeOK'
    BY <1>2, <1>4, <1>6 DEF TypeOK, Begin
  <2>2. Position'
    BY <1>6 DEF Position, Begin, Walking
  <2>. QED  BY <1>6, <2>1, <2>2, SameTree DEF Begin, Idle
<1>7. ASSUME NEW side \in Asked, WalkFrom(side)
      PROVE  Shape'
  <2>1. TypeOK'
    BY <1>2, <1>4, <1>7 DEF TypeOK, WalkFrom
  <2>2. Position'
    <3>1. root # 0 => root \in Ids
      BY <1>1, <1>2
    <3>. QED  BY <1>4, <1>7, <3>1 DEF Position, WalkFrom
  <2>. QED  BY <1>7, <2>1, <2>2, SameTree DEF WalkFrom, Idle
<1>8. CASE Descend
  <2>1. at \in 1..n /\ SideOf(at) \in Sides
    BY <1>2, <1>8 DEF Descend, SideOf, Sides
  <2>2. TypeOK'
    BY <1>2, <1>3, <1>4, <1>8, <2>1 DEF TypeOK, Descend
  <2>3. Position'
    <3>1. SideOf(above)' = SideOf(at)
      BY <1>8 DEF Descend, SideOf
    <3>. QED  BY <1>1, <1>4, <1>8, <2>1, <3>1 DEF Position, Descend, Searching, Walking
  <2>. QED  BY <1>8, <2>2, <2>3, SameTree DEF Descend, Searching
<1>9. CASE Walk
  <2>1. at \in 1..n /\ doing \in Sides
    BY <1>1, <1>9 DEF Walk, Walking, Position, Sides
  <2>2. TypeOK'
    BY <1>2, <1>3, <1>4, <1>9, <2>1 DEF TypeOK, Walk
  <2>3. Position'
    <3>1. nodes[at].kid[doing] \in 1..n
      BY <1>1, <1>3, <1>9, <2>1 DEF Walk
    <3>. QED  BY <1>1, <1>4, <1>9, <3>1 DEF Position, Walk, Walking
  <2>. QED  BY <1>9, <2>2, <2>3, SameTree DEF Walk, Walking
<1>10. CASE Found
  <2>1. key \in Values
    BY <1>1, <1>10 DEF Found, Searching, Position
  <2>. QED  BY <1>5, <1>10, <2>1 DEF Found, Searching
<1>11. CASE NotFound
  BY <1>5, <1>11 DEF NotFound
<1>12. CASE WalkEmpty
  BY <1>5, <1>12 DEF WalkEmpty, Walking
<1>13. CASE Arrive
  <2>1. nodes[at].value \in Values
    BY <1>1, <1>3, <1>13 DEF Arrive, Position
  <2>. QED  BY <1>5, <1>13, <2>1 DEF Arrive, Walking
<1>14. CASE InsertFirst
  <2>1. /\ Typed(Tree', 1) /\ Len(nodes') = 1 /\ LinkedIn(Tree', 1) /\ root' = 1
        /\ \E c : Weighed(Tree', 1, c)
        /\ \E pos, lo, hi : Placed(Tree', 1, pos, lo, hi)
        /\ nodes'[1].color = "black" /\ key \in Values
    BY <1>14, FirstEffect
  <2>2. /\ count' = 1 /\ doing' = "none" /\ key' = None /\ at' = 0 /\ above' = 0 /\ result' = key
    BY <1>14 DEF InsertFirst, End
  <2>3. Position'
    BY <2>2 DEF Position, Walking
  <2>4. \A m \in 1..1 : nodes'[m].color # "red"
    BY <2>1
  <2>. QED  BY <2>1, <2>2, <2>3, <2>4, NewTree
<1>15. CASE Link
  <2>1. /\ Typed(Tree', n + 1) /\ Len(nodes') = n + 1 /\ LinkedIn(Tree', n + 1)
        /\ \E c : Weighed(Tree', n + 1, c)
        /\ above \in 1..n /\ SideOf(above) \in Sides /\ nodes[above].kid[SideOf(above)] = 0
        /\ Grown(Tree, Tree', n, above, SideOf(above), key)
    BY <1>15, LinkEffect
  <2>2. /\ root # 0 /\ doing = "insert" /\ count' = count + 1 /\ doing' = "fix" /\ at' = n + 1
        /\ root' = root /\ key' = key /\ above' = above /\ result' = result /\ key \in Values
    BY <1>1, <1>15 DEF Link, Position
  <2>3. \E pos, lo, hi : Placed(Tree', n + 1, pos, lo, hi)
    <3>1. PICK pos, lo, hi : Placed(Tree, n, pos, lo, hi)
      BY DEF Shape
    <3>2. LinkedIn(Tree, n)
      BY DEF Shape
    <3>. QED  BY <1>1, <2>1, <2>2, <3>1, <3>2, GrownPlaced
  <2>4. /\ Tree'.nodes = nodes' /\ Ids' = 1..(n + 1)
        /\ nodes'[n + 1].color = "red"
        /\ \A m \in 1..n : nodes'[m].color = nodes[m].color /\ nodes'[m].parent = nodes[m].parent
    BY <1>1, <2>1 DEF Grown, Tree, Ids
  <2>5. Position'
    BY <1>1, <2>2, <2>4 DEF Position, Walking
  <2>6. ASSUME NEW m \in 1..(n + 1), nodes'[m].color = "red"
            /\ (nodes'[m].parent = 0 \/ nodes'[nodes'[m].parent].color = "red")
        PROVE  doing' = "fix" /\ at' = m
    <3>1. SUFFICES ASSUME m \in 1..n PROVE FALSE
      BY <1>1, <2>2
    <3>2. PICK q \in 0..n : nodes[m].parent = q
      BY <1>1, <3>1, NodeParts
    <3>3. nodes[m].color = "red" /\ (q = 0 \/ nodes[q].color = "red")
      BY <1>1, <2>4, <2>6, <3>1, <3>2
    <3>. QED  BY <1>1, <2>2, <3>1, <3>2, <3>3 DEF Reds
  <2>7. count' \in Nat /\ at' \in 0..(n + 1) /\ above' \in 0..(n + 1)
    BY <1>1, <1>2, <2>2
  <2>. QED  BY <1>2, <2>1, <2>2, <2>3, <2>5, <2>6, <2>7, NewTree
<1>16. ASSUME Restored(Tree', n)
       PROVE  \E pos, lo, hi : Placed(Tree', n, pos, lo, hi)
  <2>1. PICK pos, lo, hi : Placed(Tree, n, pos, lo, hi)
    BY DEF Shape
  <2>. QED  BY <1>16, <2>1 DEF Restored
<1>17. CASE Recolor
  <2>1. /\ Restored(Tree', n) /\ Len(nodes') = n /\ at' \in 1..n /\ nodes'[at'].color = "red"
        /\ \A m \in 1..n : nodes'[m].color = "red" /\
             (nodes'[m].parent = 0 \/ nodes'[nodes'[m].parent].color = "red") => m = at'
    BY <1>17, RecolorEffect
  <2>2. doing = "fix" /\ count' = count /\ doing' = "fix" /\ key' = key /\ above' = above /\ result' = result
    BY <1>17 DEF Recolor
  <2>3. Position'
    BY <1>1, <2>1, <2>2 DEF Position, Walking, Ids
  <2>4. Typed(Tree', n) /\ LinkedIn(Tree', n) /\ \E c : Weighed(Tree', n, c)
    BY <2>1 DEF Restored
  <2>. QED  BY <1>1, <1>2, <1>16, <2>1, <2>2, <2>3, <2>4, NewTree
<1>18. CASE Rotate
  <2>1. /\ Restored(Tree', n) /\ Len(nodes') = n /\ at' \in 1..n /\ nodes'[at'].color = "red"
        /\ \A m \in 1..n : ~(nodes'[m].color = "red" /\
             (nodes'[m].parent = 0 \/ nodes'[nodes'[m].parent].color = "red"))
    BY <1>18, RotateEffect
  <2>2. doing = "fix" /\ count' = count /\ doing' = "fix" /\ key' = key /\ above' = above /\ result' = result
    BY <1>18 DEF Rotate
  <2>3. Position'
    BY <1>1, <2>1, <2>2 DEF Position, Walking, Ids
  <2>4. Typed(Tree', n) /\ LinkedIn(Tree', n) /\ \E c : Weighed(Tree', n, c)
    BY <2>1 DEF Restored
  <2>. QED  BY <1>1, <1>2, <1>16, <2>1, <2>2, <2>3, <2>4, NewTree
<1>19. CASE Fixed
  <2>1. /\ Restored(Tree', n) /\ Len(nodes') = n
        /\ \A m \in 1..n : ~(nodes'[m].color = "red" /\
             (nodes'[m].parent = 0 \/ nodes'[nodes'[m].parent].color = "red"))
    BY <1>19, FixedEffect
  <2>2. /\ count' = count /\ doing' = "none" /\ key' = None /\ at' = 0 /\ above' = 0 /\ result' = key
    BY <1>19 DEF Fixed, End
  <2>3. Position' /\ key \in Values
    BY <1>1, <1>19, <2>2 DEF Position, Walking, Fixed
  <2>4. Typed(Tree', n) /\ LinkedIn(Tree', n) /\ \E c : Weighed(Tree', n, c)
    BY <2>1 DEF Restored
  <2>. QED  BY <1>1, <1>2, <1>16, <2>1, <2>2, <2>3, <2>4, NewTree
<1>20. CASE UNCHANGED vars
  <2>1. TypeOK'
    BY <1>1, <1>4, <1>20 DEF TypeOK, vars
  <2>2. Position'
    BY <1>1, <1>4, <1>20 DEF Position, vars, Walking, SideOf
  <2>. QED  BY <1>20, <2>1, <2>2, SameTree DEF vars
<1>. QED
  BY <1>6, <1>7, <1>8, <1>9, <1>10, <1>11, <1>12, <1>13, <1>14, <1>15, <1>17, <1>18, <1>19, <1>20
  DEF Next, Steps

LEMMA ShapeIsRedBlack == Shape => RedBlack
<1> SUFFICES ASSUME Shape PROVE RedBlack
  OBVIOUS
<1>1. /\ Typed(Tree, Len(nodes)) /\ Tree.nodes = nodes /\ Tree.root = root
      /\ Ids = 1..Len(nodes) /\ Len(nodes) \in Nat /\ TypeOK /\ Reds
      /\ root = 0 <=> Len(nodes) = 0
      /\ LinkedIn(Tree, Len(nodes))
  BY TreeOfState DEF Shape
<1>2. Linked
  BY <1>1 DEF Linked, LinkedIn, Sides
<1>3. NoRedRed
  <2>1. ASSUME Idle, root # 0 PROVE nodes[root].color = "black"
    <3>1. root \in 1..Len(nodes)
      BY <1>1, <2>1, TreeParts
    <3>2. nodes[root].parent = 0
      BY <1>1, <3>1 DEF LinkedIn
    <3>3. nodes[root].color # "red"
      BY <1>1, <2>1, <3>1, <3>2 DEF Reds, Idle
    <3>. QED  BY <1>1, <3>1, <3>3, NodeParts
  <2>. QED  BY <1>1, <2>1 DEF NoRedRed, Reds
<1>4. BlackBalanced
  <2>1. PICK pos, lo, hi : Placed(Tree, Len(nodes), pos, lo, hi)
    BY DEF Shape
  <2>2. PICK c : Weighed(Tree, Len(nodes), c)
    BY DEF Shape
  <2>. QED  BY <1>1, <2>1, <2>2, BalancedByWeight
<1>. QED  BY <1>1, <1>2, <1>3, <1>4 DEF RedBlack

THEOREM ShapeInvariant == Spec => []Shape
<1>1. Init => Shape
  BY ShapeInit
<1>2. Shape /\ [Next]_vars => Shape'
  BY ShapeStep
<1>. QED  BY <1>1, <1>2, PTL DEF Spec

(* The tree is red-black at every step, whatever the values.               *)
THEOREM AlwaysRedBlack == Spec => []RedBlack
BY ShapeInvariant, ShapeIsRedBlack, PTL


-----------------------------------------------------------------------------
(* The values in the order of their places.                                *)
Sorted(pos) == \A i, j \in Ids : pos[i] < pos[j] => Less(nodes[i].value, nodes[j].value)

(* The key of a search is between the values below and those above a gap.  *)
KeyIn(pos, low, high) ==
  \A m \in Ids : /\ pos[m] <= low => Less(nodes[m].value, key)
                 /\ high <= pos[m] => Less(key, nodes[m].value)

Sought(pos, lo, hi) ==
  Searching /\ root # 0 =>
    IF at # 0 THEN KeyIn(pos, lo[at], hi[at])
    ELSE /\ above \in Ids /\ nodes[above].kid[SideOf(above)] = 0
         /\ IF SideOf(above) = "left" THEN KeyIn(pos, lo[above], pos[above])
            ELSE KeyIn(pos, pos[above], hi[above])

(* A walk has passed no node on the side it goes to.                       *)
Walked(pos, lo, hi) ==
  /\ doing = "left" /\ root # 0 => \A m \in Ids : lo[at] < pos[m]
  /\ doing = "right" /\ root # 0 => \A m \in Ids : pos[m] < hi[at]

Certified(pos, lo, hi) ==
  Placed(Tree, Len(nodes), pos, lo, hi) /\ Sorted(pos) /\ Sought(pos, lo, hi) /\ Walked(pos, lo, hi)

Content ==
  /\ \E pos, lo, hi : Certified(pos, lo, hi)
  /\ count = Len(nodes)
  /\ doing = "fix" => \E m \in Ids : nodes[m].value = key

(* What an order is good for.                                              *)
LEMMA OrderFacts ==
  ASSUME Comparable(Values)
  PROVE  /\ \A v, w \in Values : ~(Less(v, w) /\ Less(w, v))
         /\ \A v, w, x \in Values : Less(v, w) /\ Less(w, x) => Less(v, x)
         /\ \A v, w \in Values : ~Same(v, w) => Less(v, w) \/ Less(w, v)
         /\ \A v, w \in Values : Same(v, w) => Same(w, v) /\ ~Less(v, w) /\ ~Less(w, v)
         /\ \A v \in Values : Same(v, v)
BY DEF Comparable

(* Two nodes are at different places.                                      *)
LEMMA Apart ==
  ASSUME NEW t, NEW n, Typed(t, n), NEW pos, NEW lo, NEW hi, Placed(t, n, pos, lo, hi),
         NEW i \in 1..n, NEW j \in 1..n, i # j
  PROVE  pos[i] < pos[j] \/ pos[j] < pos[i]
<1>1. /\ pos[i] \in Int /\ lo[i] \in Int /\ hi[i] \in Int /\ lo[i] < pos[i] /\ pos[i] < hi[i]
      /\ pos[j] \in Int /\ lo[j] \in Int /\ hi[j] \in Int /\ lo[j] < pos[j] /\ pos[j] < hi[j]
  BY PlacedParts
<1>2. \/ hi[i] <= lo[j] \/ hi[j] <= lo[i]
      \/ Below(pos, lo, hi, i, j) \/ Below(pos, lo, hi, j, i)
  BY DEF Placed
<1>. QED  BY <1>1, <1>2 DEF Below

(* The nodes hold values that < tells apart.                               *)
LEMMA AllDifferent ==
  ASSUME Comparable(Values), Shape, Content, NEW i \in Ids, NEW j \in Ids, i # j
  PROVE  Less(nodes[i].value, nodes[j].value) \/ Less(nodes[j].value, nodes[i].value)
<1>1. PICK pos, lo, hi : Placed(Tree, Len(nodes), pos, lo, hi) /\ Sorted(pos)
  BY DEF Content, Certified
<1>2. Typed(Tree, Len(nodes)) /\ Ids = 1..Len(nodes)
  BY TreeOfState DEF Shape
<1>3. pos[i] < pos[j] \/ pos[j] < pos[i]
  BY <1>1, <1>2, Apart
<1>. QED  BY <1>1, <1>3 DEF Sorted

(* What is in the tree is a value of the program.                          *)
LEMMA ValuesOfNodes ==
  ASSUME Shape
  PROVE  /\ \A m \in Ids : nodes[m].value \in Values
         /\ Stored \subseteq Values
         /\ doing \in {"insert", "contains", "fix"} => key \in Values
<1>1. Typed(Tree, Len(nodes)) /\ Ids = 1..Len(nodes) /\ Tree.nodes = nodes /\ Position
  BY TreeOfState DEF Shape
<1>2. \A m \in Ids : nodes[m].value \in Values
  BY <1>1, NodeParts
<1>. QED  BY <1>1, <1>2 DEF Stored, Position

(* The size that is counted is that of the set.                            *)
LEMMA SizeOfStored ==
  ASSUME Comparable(Values), Shape, Content
  PROVE  IsFiniteSet(Stored) /\ Cardinality(Stored) = count
<1> DEFINE f == [m \in Ids |-> nodes[m].value]
<1>1. Ids = 1..Len(nodes) /\ Len(nodes) \in Nat
  BY TreeOfState DEF Shape
<1>2. f \in Bijection(Ids, Stored)
  <2>1. \A i, j \in Ids : f[i] = f[j] => i = j
    BY AllDifferent, ValuesOfNodes, OrderFacts
  <2>2. f \in [Ids -> Stored] /\ \A v \in Stored : \E m \in Ids : f[m] = v
    BY DEF Stored
  <2>. QED  BY <2>1, <2>2 DEF Bijection, Injection, Surjection, IsInjective
<1>3. IsFiniteSet(Ids) /\ Cardinality(Ids) = Len(nodes)
  BY <1>1, FS_Interval
<1>4. ExistsBijection(Ids, Stored)
  BY <1>2 DEF ExistsBijection
<1>. QED  BY <1>3, <1>4, FS_Bijection, FS_SameCardinalityBij DEF Content

(* An empty tree is in order.                                              *)
LEMMA ContentInit == Init => Content
<1> SUFFICES ASSUME Init PROVE Content
  OBVIOUS
<1>1. /\ nodes = << >> /\ root = 0 /\ count = 0 /\ doing = "none" /\ Len(nodes) = 0 /\ Ids = {}
  BY DEF Init, Ids
<1>2. Shape
  BY ShapeInit
<1>3. PICK pos, lo, hi : Placed(Tree, Len(nodes), pos, lo, hi)
  BY <1>2 DEF Shape
<1>4. Sorted(pos) /\ Sought(pos, lo, hi) /\ Walked(pos, lo, hi)
  BY <1>1 DEF Sorted, Sought, Walked, Searching
<1>. QED  BY <1>1, <1>3, <1>4 DEF Content, Certified

(* A step that leaves the tree as it is.                                   *)
LEMMA SameContent ==
  ASSUME Content, nodes' = nodes, root' = root, count' = count,
         doing' = "fix" => doing = "fix" /\ key' = key,
         \A pos, lo, hi : Certified(pos, lo, hi) => Sought(pos, lo, hi)' /\ Walked(pos, lo, hi)'
  PROVE  Content'
<1>1. Tree' = Tree /\ Ids' = Ids /\ Len(nodes') = Len(nodes)
  BY DEF Tree, Ids
<1>2. PICK pos, lo, hi : Certified(pos, lo, hi)
  BY DEF Content
<1>3. Sorted(pos)'
  BY <1>1, <1>2 DEF Sorted, Certified
<1>4. Placed(Tree, Len(nodes), pos, lo, hi)'
  BY <1>1, <1>2 DEF Certified
<1>5. Certified(pos, lo, hi)'
  BY <1>2, <1>3, <1>4 DEF Certified
<1>6. doing' = "fix" => \E m \in Ids' : nodes'[m].value = key'
  BY <1>1 DEF Content
<1>7. count' = Len(nodes')
  BY <1>1 DEF Content
<1>. QED  BY <1>5, <1>6, <1>7 DEF Content

(* The places of a tree that only a repair has changed.                    *)
LEMMA RestoredContent ==
  ASSUME Shape, Content, doing = "fix", count' = count, doing' \in {"fix", "none"},
         doing' = "fix" => key' = key,
         Restored(Tree', Len(nodes)), Len(nodes') = Len(nodes)
  PROVE  Content' /\ Stored' = Stored
<1>1. Tree'.nodes = nodes' /\ Ids' = Ids /\ Ids = 1..Len(nodes) /\ Typed(Tree, Len(nodes))
  BY TreeOfState DEF Tree, Ids, Shape
<1>2. \A m \in Ids : nodes'[m].value = nodes[m].value
  BY <1>1 DEF Restored
<1>3. PICK pos, lo, hi : Certified(pos, lo, hi)
  BY DEF Content
<1>4. PICK l, h : Placed(Tree', Len(nodes'), pos, l, h)
  BY <1>3 DEF Certified, Restored
<1>5. Sorted(pos)'
  BY <1>1, <1>2, <1>3 DEF Sorted, Certified
<1>6. Sought(pos, l, h)' /\ Walked(pos, l, h)'
  BY DEF Sought, Walked, Searching
<1>7. Certified(pos, l, h)'
  BY <1>4, <1>5, <1>6 DEF Certified
<1>8. doing' = "fix" => \E m \in Ids' : nodes'[m].value = key'
  BY <1>1, <1>2 DEF Content
<1>9. count' = Len(nodes')
  BY DEF Content
<1>10. Stored' = Stored
  BY <1>1, <1>2 DEF Stored
<1>. QED  BY <1>7, <1>8, <1>9, <1>10 DEF Content

(* A search goes to the side where the key is.                             *)
LEMMA SearchGoesOn ==
  ASSUME Comparable(Values), Shape, Descend, NEW pos, NEW lo, NEW hi, Certified(pos, lo, hi)
  PROVE  Sought(pos, lo, hi)'
<1> DEFINE n == Len(nodes)
<1>1. /\ Typed(Tree, n) /\ Tree.nodes = nodes /\ Tree.root = root /\ Ids = 1..n /\ n \in Nat
      /\ Placed(Tree, n, pos, lo, hi) /\ Sorted(pos) /\ Sought(pos, lo, hi)
  BY TreeOfState DEF Shape, Certified
<1>2. /\ nodes' = nodes /\ root' = root /\ key' = key /\ Ids' = Ids /\ doing' = doing /\ Searching
      /\ at \in Ids /\ above' = at /\ at' = nodes[at].kid[SideOf(at)] /\ ~Same(key, nodes[at].value)
      /\ SideOf(above)' = SideOf(at)
  BY <1>1 DEF Descend, Ids, SideOf, Shape, TypeOK
<1>3. PICK a \in Ids : at = a
  BY <1>2
<1>4. /\ pos[a] \in Int /\ lo[a] \in Int /\ hi[a] \in Int /\ lo[a] < pos[a] /\ pos[a] < hi[a]
      /\ \A m \in Ids : pos[m] \in Int /\ nodes[m].value \in Values
      /\ \A m \in Ids : m # a => pos[m] < pos[a] \/ pos[a] < pos[m]
      /\ key \in Values
  BY <1>1, <1>2, PlacedParts, ValuesOfNodes, Apart DEF Searching
<1>5. SUFFICES ASSUME root # 0 PROVE Sought(pos, lo, hi)'
  BY <1>2 DEF Sought
<1>6. KeyIn(pos, lo[a], hi[a])
  BY <1>1, <1>2, <1>3, <1>5 DEF Sought, Ids
<1>7. ASSUME NEW x, NEW y, KeyIn(pos, x, y)
      PROVE  KeyIn(pos, x, y)'
  BY <1>2, <1>7 DEF KeyIn
<1>8. CASE SideOf(at) = "left"
  <2>1. Less(key, nodes[a].value)
    BY <1>3, <1>8 DEF SideOf
  <2>2. KeyIn(pos, lo[a], pos[a])
    <3>1. ASSUME NEW m \in Ids, pos[a] <= pos[m] PROVE Less(key, nodes[m].value)
      <4>1. CASE m = a
        BY <2>1, <4>1
      <4>2. CASE m # a
        <5>1. Less(nodes[a].value, nodes[m].value)
          BY <1>1, <1>4, <3>1, <4>2 DEF Sorted
        <5>. QED  BY <1>4, <2>1, <5>1, OrderFacts
      <4>. QED  BY <4>1, <4>2
    <3>. QED  BY <1>6, <3>1 DEF KeyIn
  <2>3. PICK k \in 0..n : nodes[a].kid["left"] = k
    BY <1>1, NodeParts DEF Sides
  <2>4. k # 0 => lo[k] = lo[a] /\ hi[k] = pos[a]
    BY <1>1, <2>3 DEF Placed
  <2>5. CASE k # 0
    <3>1. KeyIn(pos, lo[k], hi[k])'
      BY <1>7, <2>2, <2>4, <2>5
    <3>. QED  BY <1>2, <1>3, <1>8, <2>3, <2>5, <3>1 DEF Sought
  <2>6. CASE k = 0
    <3>1. KeyIn(pos, lo[a], pos[a])'
      BY <1>7, <2>2
    <3>. QED  BY <1>2, <1>3, <1>8, <2>3, <2>6, <3>1 DEF Sought
  <2>. QED  BY <2>5, <2>6
<1>9. CASE SideOf(at) # "left"
  <2>1. SideOf(at) = "right" /\ Less(nodes[a].value, key)
    BY <1>2, <1>3, <1>4, <1>9, OrderFacts DEF SideOf
  <2>2. KeyIn(pos, pos[a], hi[a])
    <3>1. ASSUME NEW m \in Ids, pos[m] <= pos[a] PROVE Less(nodes[m].value, key)
      <4>1. CASE m = a
        BY <2>1, <4>1
      <4>2. CASE m # a
        <5>1. Less(nodes[m].value, nodes[a].value)
          BY <1>1, <1>4, <3>1, <4>2 DEF Sorted
        <5>. QED  BY <1>4, <2>1, <5>1, OrderFacts
      <4>. QED  BY <4>1, <4>2
    <3>. QED  BY <1>6, <3>1 DEF KeyIn
  <2>3. PICK k \in 0..n : nodes[a].kid["right"] = k
    BY <1>1, NodeParts DEF Sides
  <2>4. k # 0 => lo[k] = pos[a] /\ hi[k] = hi[a]
    BY <1>1, <2>3 DEF Placed
  <2>5. CASE k # 0
    <3>1. KeyIn(pos, lo[k], hi[k])'
      BY <1>7, <2>2, <2>4, <2>5
    <3>. QED  BY <1>2, <1>3, <2>1, <2>3, <2>5, <3>1 DEF Sought
  <2>6. CASE k = 0
    <3>1. KeyIn(pos, pos[a], hi[a])'
      BY <1>7, <2>2
    <3>. QED  BY <1>2, <1>3, <2>1, <2>3, <2>6, <3>1 DEF Sought
  <2>. QED  BY <2>5, <2>6
<1>. QED  BY <1>8, <1>9

(* A search that ends at a missing child has missed no value.              *)
LEMMA SearchMisses ==
  ASSUME Comparable(Values), Shape, Content, Searching, at = 0, NEW m \in Ids
  PROVE  ~Same(nodes[m].value, key) /\ nodes[m].value # key
<1>1. PICK pos, lo, hi : Certified(pos, lo, hi)
  BY DEF Content
<1>2. /\ Typed(Tree, Len(nodes)) /\ Tree.nodes = nodes /\ Ids = 1..Len(nodes) /\ Len(nodes) \in Nat
      /\ Placed(Tree, Len(nodes), pos, lo, hi) /\ Sought(pos, lo, hi)
  BY <1>1, TreeOfState DEF Shape, Certified
<1>3. root # 0
  BY <1>2 DEF Shape
<1>4. above \in Ids /\ nodes[above].kid[SideOf(above)] = 0
  BY <1>2, <1>3 DEF Sought
<1>5. /\ pos[above] \in Int /\ lo[above] \in Int /\ hi[above] \in Int /\ pos[m] \in Int
  BY <1>2, <1>4, PlacedParts
<1>6. Less(nodes[m].value, key) \/ Less(key, nodes[m].value)
  <2>1. CASE SideOf(above) = "left"
    <3>1. KeyIn(pos, lo[above], pos[above])
      BY <1>2, <1>3, <2>1 DEF Sought
    <3>2. ~(lo[above] < pos[m] /\ pos[m] < pos[above])
      BY <1>2, <1>4, <2>1 DEF Placed
    <3>. QED  BY <1>5, <3>1, <3>2 DEF KeyIn
  <2>2. CASE SideOf(above) # "left"
    <3>0. SideOf(above) = "right"
      BY <2>2 DEF SideOf
    <3>1. KeyIn(pos, pos[above], hi[above])
      BY <1>2, <1>3, <3>0 DEF Sought
    <3>2. ~(pos[above] < pos[m] /\ pos[m] < hi[above])
      BY <1>2, <1>4, <3>0 DEF Placed
    <3>. QED  BY <1>5, <3>1, <3>2 DEF KeyIn
  <2>. QED  BY <2>1, <2>2
<1>. QED  BY <1>6, ValuesOfNodes, OrderFacts DEF Searching

(* A walk goes on to the end of the order.                                 *)
LEMMA WalkGoesOn ==
  ASSUME Shape, Walk, NEW pos, NEW lo, NEW hi, Certified(pos, lo, hi)
  PROVE  Walked(pos, lo, hi)'
<1>1. /\ Typed(Tree, Len(nodes)) /\ Tree.nodes = nodes /\ Ids = 1..Len(nodes)
      /\ Placed(Tree, Len(nodes), pos, lo, hi) /\ Walked(pos, lo, hi) /\ Position
  BY TreeOfState DEF Shape, Certified
<1>2. /\ nodes' = nodes /\ root' = root /\ Ids' = Ids /\ doing' = doing /\ doing \in {"left", "right"}
      /\ at \in Ids /\ at' = nodes[at].kid[doing] /\ at' # 0 /\ root # 0
  BY <1>1 DEF Walk, Walking, Ids, Position
<1>3. CASE doing = "left"
  <2>1. lo[at'] = lo[at]
    BY <1>1, <1>2, <1>3 DEF Placed
  <2>. QED  BY <1>1, <1>2, <1>3, <2>1 DEF Walked
<1>4. CASE doing = "right"
  <2>1. hi[at'] = hi[at]
    BY <1>1, <1>2, <1>4 DEF Placed
  <2>. QED  BY <1>1, <1>2, <1>4, <2>1 DEF Walked
<1>. QED  BY <1>2, <1>3, <1>4

(* The node a walk ends at is the first or the last.                       *)
LEMMA WalkArrives ==
  ASSUME Comparable(Values), Shape, Content, Arrive, NEW m \in Ids, m # at
  PROVE  /\ at \in Ids
         /\ doing = "left" => Less(nodes[at].value, nodes[m].value)
         /\ doing = "right" => Less(nodes[m].value, nodes[at].value)
<1>1. PICK pos, lo, hi : Certified(pos, lo, hi)
  BY DEF Content
<1>2. /\ Typed(Tree, Len(nodes)) /\ Tree.nodes = nodes /\ Ids = 1..Len(nodes)
      /\ Placed(Tree, Len(nodes), pos, lo, hi) /\ Walked(pos, lo, hi) /\ Sorted(pos) /\ Position
  BY <1>1, TreeOfState DEF Shape, Certified
<1>3. at \in Ids /\ root # 0 /\ nodes[at].kid[doing] = 0
  BY <1>2 DEF Arrive, Walking, Position
<1>4. /\ pos[at] \in Int /\ lo[at] \in Int /\ hi[at] \in Int /\ pos[m] \in Int
      /\ pos[at] < pos[m] \/ pos[m] < pos[at]
  BY <1>2, <1>3, PlacedParts, Apart
<1>5. ASSUME doing = "left" PROVE Less(nodes[at].value, nodes[m].value)
  <2>1. lo[at] < pos[m] /\ ~(lo[at] < pos[m] /\ pos[m] < pos[at])
    BY <1>2, <1>3, <1>5 DEF Placed, Walked
  <2>. QED  BY <1>2, <1>3, <1>4, <2>1 DEF Sorted
<1>6. ASSUME doing = "right" PROVE Less(nodes[m].value, nodes[at].value)
  <2>1. pos[m] < hi[at] /\ ~(pos[at] < pos[m] /\ pos[m] < hi[at])
    BY <1>2, <1>3, <1>6 DEF Placed, Walked
  <2>. QED  BY <1>2, <1>3, <1>4, <2>1 DEF Sorted
<1>. QED  BY <1>3, <1>5, <1>6

(* The place of the new node is the gap that the search has found.         *)
LEMMA LinkContent ==
  ASSUME Comparable(Values), Shape, Content, Link
  PROVE  Content' /\ Stored' = Stored \union {key} /\ key \notin Stored
<1> DEFINE n == Len(nodes)
<1>1. /\ Typed(Tree, n) /\ Tree.nodes = nodes /\ Tree.root = root /\ Ids = 1..n /\ n \in Nat
      /\ LinkedIn(Tree, n)
  BY TreeOfState DEF Shape
<1>2. /\ Typed(Tree', n + 1) /\ Len(nodes') = n + 1
      /\ above \in 1..n /\ SideOf(above) \in Sides /\ nodes[above].kid[SideOf(above)] = 0
      /\ Grown(Tree, Tree', n, above, SideOf(above), key)
  BY LinkEffect
<1>3. /\ root # 0 /\ at = 0 /\ doing = "insert" /\ Searching /\ doing' = "fix" /\ key' = key
      /\ count' = count + 1
  BY DEF Link, Searching
<1>4. PICK pos, lo, hi : Certified(pos, lo, hi)
  BY DEF Content
<1>5. PICK a \in 1..n : above = a
  BY <1>2
<1>6. PICK s \in Sides : SideOf(above) = s
  BY <1>2
<1>7. Placed(Tree, n, pos, lo, hi) /\ Sorted(pos) /\ Sought(pos, lo, hi)
  BY <1>4 DEF Certified
<1>8. PICK q, l, h :
        /\ Placed(Tree', n + 1, q, l, h)
        /\ \A i, j \in 1..n : q[i] < q[j] => pos[i] < pos[j]
        /\ s = "left" => \A i \in 1..n : /\ q[i] < q[n + 1] => pos[i] <= lo[a]
                                         /\ q[n + 1] < q[i] => pos[a] <= pos[i]
        /\ s = "right" => \A i \in 1..n : /\ q[i] < q[n + 1] => pos[i] <= pos[a]
                                          /\ q[n + 1] < q[i] => hi[a] <= pos[i]
  BY <1>1, <1>2, <1>3, <1>5, <1>6, <1>7, GrownPlaced
<1>9. /\ Ids' = 1..(n + 1) /\ nodes'[n + 1].value = key /\ n + 1 \notin 1..n
      /\ \A m \in 1..n : nodes'[m].value = nodes[m].value
  BY <1>1, <1>2 DEF Grown, Tree, Ids
<1>10. \A i \in 1..n : /\ q[i] < q[n + 1] => Less(nodes[i].value, key)
                       /\ q[n + 1] < q[i] => Less(key, nodes[i].value)
  <2>1. CASE s = "left"
    <3>1. KeyIn(pos, lo[a], pos[a])
      BY <1>3, <1>5, <1>6, <1>7, <2>1 DEF Sought
    <3>2. ASSUME NEW i \in 1..n, q[i] < q[n + 1] PROVE Less(nodes[i].value, key)
      <4>1. pos[i] <= lo[a]
        BY <1>8, <2>1, <3>2
      <4>. QED  BY <1>1, <3>1, <4>1 DEF KeyIn
    <3>3. ASSUME NEW i \in 1..n, q[n + 1] < q[i] PROVE Less(key, nodes[i].value)
      <4>1. pos[a] <= pos[i]
        BY <1>8, <2>1, <3>3
      <4>. QED  BY <1>1, <3>1, <4>1 DEF KeyIn
    <3>. QED  BY <3>2, <3>3
  <2>2. CASE s = "right"
    <3>1. KeyIn(pos, pos[a], hi[a])
      BY <1>3, <1>5, <1>6, <1>7, <2>2 DEF Sought
    <3>2. ASSUME NEW i \in 1..n, q[i] < q[n + 1] PROVE Less(nodes[i].value, key)
      <4>1. pos[i] <= pos[a]
        BY <1>8, <2>2, <3>2
      <4>. QED  BY <1>1, <3>1, <4>1 DEF KeyIn
    <3>3. ASSUME NEW i \in 1..n, q[n + 1] < q[i] PROVE Less(key, nodes[i].value)
      <4>1. hi[a] <= pos[i]
        BY <1>8, <2>2, <3>3
      <4>. QED  BY <1>1, <3>1, <4>1 DEF KeyIn
    <3>. QED  BY <3>2, <3>3
  <2>. QED  BY <2>1, <2>2 DEF Sides
<1>11. Sorted(q)'
  <2>1. /\ q \in [1..(n + 1) -> Int]
    BY <1>8 DEF Placed
  <2>2. ASSUME NEW i \in 1..(n + 1), NEW j \in 1..(n + 1), q[i] < q[j]
        PROVE  Less(nodes'[i].value, nodes'[j].value)
    <3>1. i \in 1..n \/ i = n + 1
      BY <1>1
    <3>2. j \in 1..n \/ j = n + 1
      BY <1>1
    <3>3. CASE i \in 1..n /\ j \in 1..n
      BY <1>1, <1>7, <1>8, <1>9, <2>2, <3>3 DEF Sorted
    <3>4. CASE i \in 1..n /\ j = n + 1
      BY <1>9, <1>10, <2>2, <3>4
    <3>5. CASE i = n + 1 /\ j \in 1..n
      BY <1>9, <1>10, <2>2, <3>5
    <3>6. ~(i = n + 1 /\ j = n + 1)
      BY <2>1, <2>2
    <3>. QED  BY <3>1, <3>2, <3>3, <3>4, <3>5, <3>6
  <2>. QED  BY <1>9, <2>2 DEF Sorted
<1>12. Sought(q, l, h)' /\ Walked(q, l, h)'
  BY <1>3 DEF Sought, Walked, Searching
<1>13. Certified(q, l, h)'
  BY <1>2, <1>8, <1>11, <1>12 DEF Certified
<1>14. \E m \in Ids' : nodes'[m].value = key'
  <2>1. n + 1 \in 1..(n + 1)
    BY <1>1
  <2>. QED  BY <1>3, <1>9, <2>1
<1>15. count' = Len(nodes')
  BY <1>2, <1>3 DEF Content
<1>16. Stored' = Stored \union {key}
  <2>1. \A m \in 1..(n + 1) : m \in 1..n \/ m = n + 1
    BY <1>1
  <2>2. \A m \in 1..n : m \in 1..(n + 1)
    BY <1>1
  <2>3. n + 1 \in 1..(n + 1)
    BY <1>1
  <2>4. Stored' = { nodes'[m].value : m \in 1..(n + 1) }
    BY <1>9 DEF Stored
  <2>. QED  BY <1>1, <1>9, <2>1, <2>2, <2>3, <2>4 DEF Stored
<1>17. key \notin Stored
  BY <1>3, SearchMisses DEF Stored
<1>. QED  BY <1>13, <1>14, <1>15, <1>16, <1>17 DEF Content

(* The set of the first value.                                             *)
LEMMA FirstContent ==
  ASSUME Comparable(Values), Shape, Content, InsertFirst
  PROVE  Content' /\ Stored' = {key} /\ Stored = {} /\ count' = 1
<1>1. /\ Len(nodes') = 1 /\ nodes'[1].value = key
      /\ \E pos, lo, hi : Placed(Tree', 1, pos, lo, hi)
  BY FirstEffect
<1>2. count' = 1 /\ doing' = "none" /\ root = 0
  BY DEF InsertFirst, End
<1>3. Ids' = {1} /\ Ids = {}
  BY <1>1, <1>2 DEF Ids, Shape
<1>4. PICK pos, lo, hi : Placed(Tree', Len(nodes'), pos, lo, hi)
  BY <1>1
<1>5. Sorted(pos)'
  <2>1. pos[1] \in Int
    BY <1>1, <1>4 DEF Placed
  <2>. QED  BY <1>3, <2>1 DEF Sorted
<1>6. Sought(pos, lo, hi)' /\ Walked(pos, lo, hi)'
  BY <1>2 DEF Sought, Walked, Searching
<1>7. Certified(pos, lo, hi)'
  BY <1>4, <1>5, <1>6 DEF Certified
<1>8. Stored' = {key} /\ Stored = {}
  BY <1>1, <1>3 DEF Stored
<1>. QED  BY <1>1, <1>2, <1>7, <1>8 DEF Content

(* Every step keeps the values in order and the search on its way.         *)
LEMMA ContentStep ==
  ASSUME Comparable(Values), Shape, Content, [Next]_vars
  PROVE  Content'
<1> USE UseAssumption
<1>1. ASSUME NEW pos, NEW lo, NEW hi, Certified(pos, lo, hi)
      PROVE  /\ Placed(Tree, Len(nodes), pos, lo, hi) /\ Sorted(pos)
             /\ Sought(pos, lo, hi) /\ Walked(pos, lo, hi)
             /\ root # 0 => \A m \in Ids : lo[root] < pos[m] /\ pos[m] < hi[root]
             /\ root # 0 => root \in Ids
             /\ \A m \in Ids : pos[m] \in Int /\ lo[m] \in Int /\ hi[m] \in Int
  <2>1. Placed(Tree, Len(nodes), pos, lo, hi) /\ Typed(Tree, Len(nodes)) /\ Tree.root = root
        /\ Ids = 1..Len(nodes)
    BY <1>1, TreeOfState DEF Certified, Shape
  <2>2. root # 0 => root \in Ids
    BY <2>1, TreeParts
  <2>3. root # 0 => \A m \in Ids : lo[root] < pos[m] /\ pos[m] < hi[root]
    BY <2>1 DEF Placed
  <2>. QED  BY <1>1, <2>1, <2>2, <2>3, PlacedParts DEF Certified
<1>2. ASSUME NEW r, End(r), UNCHANGED <<nodes, root, count>>
      PROVE  Content'
  <2>1. \A pos, lo, hi : Sought(pos, lo, hi)' /\ Walked(pos, lo, hi)'
    BY <1>2 DEF Sought, Walked, Searching, End
  <2>. QED  BY <1>2, <2>1, SameContent DEF End
<1>3. ASSUME NEW v \in Values, NEW what \in {"insert", "contains"}, Begin(what, v)
      PROVE  Content'
  <2>1. ASSUME NEW pos, NEW lo, NEW hi, Certified(pos, lo, hi)
        PROVE  Sought(pos, lo, hi)' /\ Walked(pos, lo, hi)'
    <3>1. root # 0 => KeyIn(pos, lo[root], hi[root])'
      <4>1. PICK r : r = root
        OBVIOUS
      <4>2. r # 0 => \A m \in Ids : ~(pos[m] <= lo[r]) /\ ~(hi[r] <= pos[m])
        BY <1>1, <2>1, <4>1
      <4>3. Ids' = Ids
        BY <1>3 DEF Begin, Ids
      <4>4. r # 0 => KeyIn(pos, lo[r], hi[r])'
        BY <4>2, <4>3 DEF KeyIn
      <4>. QED  BY <1>3, <4>1, <4>4 DEF Begin
    <3>2. root' = root /\ at' = root /\ doing' \in {"insert", "contains"}
      BY <1>3 DEF Begin
    <3>3. Sought(pos, lo, hi)'
      BY <3>1, <3>2 DEF Sought
    <3>. QED  BY <3>2, <3>3 DEF Walked
  <2>. QED  BY <1>3, <2>1, SameContent DEF Begin
<1>4. ASSUME NEW side \in Asked, WalkFrom(side)
      PROVE  Content'
  <2>1. ASSUME NEW pos, NEW lo, NEW hi, Certified(pos, lo, hi)
        PROVE  Sought(pos, lo, hi)' /\ Walked(pos, lo, hi)'
    <3>1. root' = root /\ at' = root /\ doing' \in {"left", "right"} /\ Ids' = Ids
      BY <1>4 DEF WalkFrom, Ids
    <3>2. Walked(pos, lo, hi)'
      BY <1>1, <2>1, <3>1 DEF Walked
    <3>. QED  BY <3>1, <3>2 DEF Sought, Searching
  <2>. QED  BY <1>4, <2>1, SameContent DEF WalkFrom
<1>5. CASE InsertFirst
  BY <1>5, FirstContent
<1>6. CASE Descend
  <2>1. \A pos, lo, hi : Walked(pos, lo, hi)'
    BY <1>6 DEF Descend, Searching, Walked
  <2>. QED  BY <1>6, <2>1, SearchGoesOn, SameContent DEF Descend
<1>7. CASE Found
  BY <1>2, <1>7 DEF Found
<1>8. CASE NotFound
  BY <1>2, <1>8 DEF NotFound
<1>9. CASE Link
  BY <1>9, LinkContent
<1>10. CASE Recolor
  <2>1. Restored(Tree', Len(nodes)) /\ Len(nodes') = Len(nodes)
    BY <1>10, RecolorEffect
  <2>. QED  BY <1>10, <2>1, RestoredContent DEF Recolor
<1>11. CASE Rotate
  <2>1. Restored(Tree', Len(nodes)) /\ Len(nodes') = Len(nodes)
    BY <1>11, RotateEffect
  <2>. QED  BY <1>11, <2>1, RestoredContent DEF Rotate
<1>12. CASE Fixed
  <2>1. Restored(Tree', Len(nodes)) /\ Len(nodes') = Len(nodes)
    BY <1>12, FixedEffect
  <2>2. doing = "fix" /\ count' = count /\ doing' = "none"
    BY <1>12 DEF Fixed, End
  <2>. QED  BY <2>1, <2>2, RestoredContent
<1>13. CASE WalkEmpty
  BY <1>2, <1>13 DEF WalkEmpty
<1>14. CASE Walk
  <2>1. \A pos, lo, hi : Sought(pos, lo, hi)'
    BY <1>14 DEF Walk, Walking, Searching, Sought
  <2>2. doing' = doing /\ doing # "fix"
    BY <1>14 DEF Walk, Walking
  <2>. QED  BY <1>14, <2>1, <2>2, WalkGoesOn, SameContent DEF Walk
<1>15. CASE Arrive
  BY <1>2, <1>15 DEF Arrive
<1>16. CASE UNCHANGED vars
  <2>1. nodes' = nodes /\ root' = root /\ count' = count /\ doing' = doing /\ key' = key
        /\ at' = at /\ above' = above /\ Ids' = Ids
    BY <1>16 DEF vars, Ids
  <2>2. ASSUME NEW pos, NEW lo, NEW hi, Certified(pos, lo, hi)
        PROVE  Sought(pos, lo, hi)' /\ Walked(pos, lo, hi)'
    BY <1>1, <2>1, <2>2 DEF Sought, Walked, KeyIn, Searching, SideOf
  <2>. QED  BY <2>1, <2>2, SameContent
<1>. QED
  BY <1>3, <1>4, <1>5, <1>6, <1>7, <1>8, <1>9, <1>10, <1>11, <1>12, <1>13, <1>14, <1>15, <1>16
  DEF Next, Steps

-----------------------------------------------------------------------------
(* The set that a tree is.                                                 *)
LEMMA PendingIs ==
  /\ doing \in {"insert", "fix"} => Pending = <<"insert", key>>
  /\ doing = "contains" => Pending = <<"contains", key>>
  /\ doing = "left" => Pending = <<"min">>
  /\ doing = "right" => Pending = <<"max">>
  /\ doing = "none" => Pending = << >>
BY DEF Pending

LEMMA PendingNext ==
  /\ doing' \in {"insert", "fix"} => Pending' = <<"insert", key'>>
  /\ doing' = "contains" => Pending' = <<"contains", key'>>
  /\ doing' = "left" => Pending' = <<"min">>
  /\ doing' = "right" => Pending' = <<"max">>
  /\ doing' = "none" => Pending' = << >>
BY DEF Pending

(* During a repair the key is in the tree and not yet in the set.          *)
LEMMA MembersAre ==
  ASSUME Comparable(Values), Shape, Content
  PROVE  /\ doing # "fix" => Members = Stored /\ Size = Cardinality(Members)
         /\ doing = "fix" => /\ key \in Stored /\ Members = Stored \ {key}
                             /\ Size = count - 1
                             /\ \A m \in Members : ~Same(m, key)
<1>1. count = Cardinality(Stored)
  BY SizeOfStored
<1>2. ASSUME doing = "fix"
      PROVE  key \in Stored /\ \A v \in Stored \ {key} : ~Same(v, key)
  <2>1. PICK m \in Ids : nodes[m].value = key
    BY <1>2 DEF Content
  <2>2. key \in Stored
    BY <2>1 DEF Stored
  <2>3. ASSUME NEW v \in Stored, v # key PROVE ~Same(v, key)
    <3>1. PICK i \in Ids : v = nodes[i].value
      BY DEF Stored
    <3>2. i # m
      BY <2>1, <2>3, <3>1
    <3>3. Less(nodes[i].value, nodes[m].value) \/ Less(nodes[m].value, nodes[i].value)
      BY <3>2, AllDifferent
    <3>4. key \in Values /\ v \in Values
      BY <1>2, ValuesOfNodes
    <3>. QED  BY <2>1, <3>1, <3>3, <3>4, OrderFacts
  <2>. QED  BY <2>2, <2>3
<1>. QED  BY <1>1, <1>2 DEF Members, Size

(* The instance counts as the module does.                                 *)
LEMMA SameCardinality == \A S : Set!Cardinality(S) = Cardinality(S)
BY Zenon DEF Set!Cardinality, Cardinality

(* The empty set, and each step is one of the set or leaves it alone.      *)
LEMMA SetInit == Init => Set!Init
<1> SUFFICES ASSUME Init PROVE Set!Init
  OBVIOUS
<1>1. doing = "none" /\ Ids = {} /\ count = 0 /\ result = None
  BY DEF Init, Ids
<1>2. Pending = << >>
  BY <1>1, PendingIs
<1>3. Members = {} /\ Size = 0
  BY <1>1 DEF Members, Size, Stored
<1>. QED  BY <1>1, <1>2, <1>3 DEF Set!Init

LEMMA SetStep ==
  ASSUME Comparable(Values), Shape, Content, [Next]_vars
  PROVE  [Set!Next]_(Set!vars)
<1> USE UseAssumption
<1>1. /\ Stored \subseteq Values /\ \A m \in Ids : nodes[m].value \in Values
      /\ doing \in {"insert", "contains", "fix"} => key \in Values
      /\ count = Cardinality(Stored) /\ IsFiniteSet(Stored)
      /\ Position /\ count = Len(nodes) /\ TypeOK
      /\ root = 0 <=> Len(nodes) = 0
      /\ Ids = 1..Len(nodes) /\ Len(nodes) \in Nat
  BY ValuesOfNodes, SizeOfStored, TreeOfState DEF Shape, Content
<1>2. ASSUME nodes' = nodes, count' = count, doing # "fix", doing' # "fix"
      PROVE  Members' = Members /\ Size' = Size
  BY <1>2 DEF Members, Size, Stored, Ids
<1>3. ASSUME Stored' = Stored, count' = count, doing = "fix", doing' = "fix", key' = key,
             result' = result
      PROVE  UNCHANGED Set!vars
  <2>1. Members' = Members /\ Size' = Size
    BY <1>3 DEF Members, Size
  <2>2. Pending' = Pending
    BY <1>3, PendingIs, PendingNext
  <2>. QED  BY <1>3, <2>1, <2>2 DEF Set!vars
<1>4. ASSUME NEW v \in Values, Begin("insert", v) PROVE Set!Call(<<"insert", v>>)
  <2>1. Members' = Members /\ Size' = Size /\ result' = result
    BY <1>2, <1>4 DEF Begin, Idle
  <2>2. Pending = << >> /\ Pending' = <<"insert", v>>
    BY <1>4, PendingIs, PendingNext DEF Begin, Idle
  <2>. QED  BY <2>1, <2>2 DEF Set!Call
<1>5. ASSUME NEW v \in Values, Begin("contains", v) PROVE Set!Call(<<"contains", v>>)
  <2>1. Members' = Members /\ Size' = Size /\ result' = result
    BY <1>2, <1>5 DEF Begin, Idle
  <2>2. Pending = << >> /\ Pending' = <<"contains", v>>
    BY <1>5, PendingIs, PendingNext DEF Begin, Idle
  <2>. QED  BY <2>1, <2>2 DEF Set!Call
<1>6. ASSUME NEW side \in Asked, WalkFrom(side)
      PROVE  Set!Call(<<"min">>) \/ Set!Call(<<"max">>)
  <2>1. Members' = Members /\ Size' = Size /\ result' = result
    BY <1>2, <1>6 DEF WalkFrom, Idle
  <2>2. Pending = << >> /\ (Pending' = <<"min">> \/ Pending' = <<"max">>)
    BY <1>6, PendingIs, PendingNext DEF WalkFrom, Idle
  <2>. QED  BY <2>1, <2>2 DEF Set!Call
<1>7. CASE InsertFirst
  <2>1. Stored' = {key} /\ Stored = {} /\ count' = 1 /\ key \in Values
    BY <1>1, <1>7, FirstContent DEF InsertFirst
  <2>2. doing = "insert" /\ doing' = "none" /\ result' = key
    BY <1>7 DEF InsertFirst, End
  <2>3. Pending = <<"insert", key>> /\ Pending' = << >>
    BY <2>2, PendingIs, PendingNext
  <2>4. Members = {} /\ Members' = {key} /\ Size' = 1
    BY <2>1, <2>2 DEF Members, Size
  <2>5. Cardinality({key}) = 1
    BY FS_Singleton
  <2>6. ~Set!Has(key)
    BY <2>4 DEF Set!Has
  <2>7. Set!Insert(key)
    <3>1. Members' = Members \union {key} /\ Size' = Cardinality(Members')
      BY <2>4, <2>5
    <3>. QED  BY <2>2, <2>3, <2>6, <3>1, SameCardinality DEF Set!Insert, Set!Returns
  <2>. QED  BY <2>1, <2>7 DEF Set!Next
<1>8. CASE Descend
  <2>1. Members' = Members /\ Size' = Size /\ result' = result
    BY <1>2, <1>8 DEF Descend, Searching
  <2>2. Pending' = Pending
    BY <1>8, PendingIs, PendingNext DEF Descend, Searching
  <2>. QED  BY <2>1, <2>2 DEF Set!vars
<1>9. CASE Found
  <2>1. Members' = Members /\ Size' = Size /\ Members = Stored /\ doing' = "none" /\ key \in Values
        /\ Size' = Cardinality(Members')
    BY <1>1, <1>2, <1>9, MembersAre DEF Found, Searching, End
  <2>2. at \in Ids
    BY <1>1, <1>9 DEF Found, TypeOK
  <2>3. Set!Has(key)
    <3>1. nodes[at].value \in Stored /\ Same(nodes[at].value, key)
      BY <1>1, <1>9, <2>1, <2>2, OrderFacts DEF Stored, Found
    <3>. QED  BY <2>1, <3>1 DEF Set!Has
  <2>4. Pending' = << >>
    BY <2>1, PendingNext
  <2>5. CASE doing = "insert"
    <3>1. Pending = <<"insert", key>> /\ result' = key
      BY <1>9, <2>5, PendingIs DEF Found, End
    <3>2. Set!Insert(key)
      BY <2>1, <2>3, <2>4, <3>1, SameCardinality DEF Set!Insert, Set!Returns
    <3>. QED  BY <2>1, <3>2 DEF Set!Next
  <2>6. CASE doing = "contains"
    <3>1. Pending = <<"contains", key>> /\ result' = 1
      BY <1>9, <2>6, PendingIs DEF Found, End
    <3>2. Set!Contains(key)
      BY <2>1, <2>3, <2>4, <3>1 DEF Set!Contains, Set!Returns
    <3>. QED  BY <2>1, <3>2 DEF Set!Next
  <2>. QED  BY <1>9, <2>5, <2>6 DEF Found, Searching
<1>10. CASE NotFound
  <2>1. Members' = Members /\ Size' = Size /\ Members = Stored /\ doing' = "none" /\ key \in Values
        /\ result' = 0 /\ doing = "contains" /\ at = 0
    BY <1>1, <1>2, <1>10, MembersAre DEF NotFound, End
  <2>2. ~Set!Has(key)
    <3>1. \A m \in Ids : ~Same(nodes[m].value, key)
      BY <2>1, SearchMisses DEF Searching
    <3>. QED  BY <2>1, <3>1 DEF Set!Has, Stored
  <2>3. Pending' = << >> /\ Pending = <<"contains", key>>
    BY <2>1, PendingIs, PendingNext
  <2>4. Set!Contains(key)
    BY <2>1, <2>2, <2>3 DEF Set!Contains, Set!Returns
  <2>. QED  BY <2>1, <2>4 DEF Set!Next
<1>11. CASE Link
  <2>1. Stored' = Stored \union {key} /\ key \notin Stored /\ count' = count + 1
    BY <1>11, LinkContent DEF Link
  <2>2. doing = "insert" /\ doing' = "fix" /\ key' = key /\ result' = result
    BY <1>11 DEF Link
  <2>3. Members' = Members /\ Size' = Size
    BY <1>1, <2>1, <2>2 DEF Members, Size
  <2>4. Pending' = Pending
    BY <2>2, PendingIs, PendingNext
  <2>. QED  BY <2>2, <2>3, <2>4 DEF Set!vars
<1>12. CASE Recolor
  <2>1. Restored(Tree', Len(nodes)) /\ Len(nodes') = Len(nodes)
    BY <1>12, RecolorEffect
  <2>2. Stored' = Stored
    BY <1>12, <2>1, RestoredContent DEF Recolor
  <2>. QED  BY <1>3, <1>12, <2>2 DEF Recolor
<1>13. CASE Rotate
  <2>1. Restored(Tree', Len(nodes)) /\ Len(nodes') = Len(nodes)
    BY <1>13, RotateEffect
  <2>2. Stored' = Stored
    BY <1>13, <2>1, RestoredContent DEF Rotate
  <2>. QED  BY <1>3, <1>13, <2>2 DEF Rotate
<1>14. CASE Fixed
  <2>1. Restored(Tree', Len(nodes)) /\ Len(nodes') = Len(nodes)
    BY <1>14, FixedEffect
  <2>2. doing = "fix" /\ doing' = "none" /\ result' = key /\ count' = count
    BY <1>14 DEF Fixed, End
  <2>3. Stored' = Stored
    BY <2>1, <2>2, RestoredContent
  <2>4. key \in Stored /\ Members = Stored \ {key} /\ \A m \in Members : ~Same(m, key)
    BY <2>2, MembersAre
  <2>5. Members' = Stored /\ Size' = count
    BY <2>2, <2>3 DEF Members, Size
  <2>6. Members' = Members \union {key} /\ ~Set!Has(key) /\ Size' = Cardinality(Members')
    BY <1>1, <2>4, <2>5 DEF Set!Has
  <2>7. Pending = <<"insert", key>> /\ Pending' = << >>
    BY <2>2, PendingIs, PendingNext
  <2>8. Set!Insert(key)
    BY <2>2, <2>6, <2>7, SameCardinality DEF Set!Insert, Set!Returns
  <2>. QED  BY <1>1, <2>2, <2>8 DEF Set!Next
<1>15. CASE WalkEmpty
  <2>1. /\ Members' = Members /\ Size' = Size /\ Members = Stored /\ doing' = "none" /\ result' = None
        /\ doing \in {"left", "right"} /\ root = 0
    BY <1>2, <1>15, MembersAre DEF WalkEmpty, Walking, End
  <2>2. Members = {}
    BY <1>1, <2>1 DEF Stored
  <2>3. Pending' = << >> /\ (Pending = <<"min">> \/ Pending = <<"max">>)
    BY <2>1, PendingIs, PendingNext
  <2>4. Set!Extreme("min", Less) \/ Set!Extreme("max", Set!More)
    BY <2>1, <2>2, <2>3 DEF Set!Extreme, Set!Returns
  <2>. QED  BY <2>4 DEF Set!Next
<1>16. CASE Walk
  <2>1. Members' = Members /\ Size' = Size /\ result' = result
    BY <1>2, <1>16 DEF Walk, Walking
  <2>2. Pending' = Pending
    BY <1>16, PendingIs, PendingNext DEF Walk, Walking
  <2>. QED  BY <2>1, <2>2 DEF Set!vars
<1>17. CASE Arrive
  <2>1. /\ Members' = Members /\ Size' = Size /\ Members = Stored /\ doing' = "none"
        /\ result' = nodes[at].value
        /\ doing \in {"left", "right"} /\ root # 0
    BY <1>2, <1>17, MembersAre DEF Arrive, Walking, End
  <2>2. at \in Ids /\ nodes[at].value \in Members
    BY <1>1, <2>1 DEF Position, Walking, Stored
  <2>3. Pending' = << >>
    BY <2>1, PendingNext
  <2>4. CASE doing = "left"
    <3>1. Pending = <<"min">>
      BY <2>4, PendingIs
    <3>2. \A v \in Members : v # nodes[at].value => Less(nodes[at].value, v)
      BY <1>17, <2>1, <2>4, WalkArrives DEF Stored
    <3>3. Set!Extreme("min", Less)
      BY <2>1, <2>2, <2>3, <3>1, <3>2 DEF Set!Extreme, Set!Ends, Set!Returns
    <3>. QED  BY <3>3 DEF Set!Next
  <2>5. CASE doing = "right"
    <3>1. Pending = <<"max">>
      BY <2>5, PendingIs
    <3>2. \A v \in Members : v # nodes[at].value => Less(v, nodes[at].value)
      BY <1>17, <2>1, <2>5, WalkArrives DEF Stored
    <3>3. Set!Extreme("max", Set!More)
      BY <2>1, <2>2, <2>3, <3>1, <3>2 DEF Set!Extreme, Set!Ends, Set!Returns, Set!More
    <3>. QED  BY <3>3 DEF Set!Next
  <2>. QED  BY <2>1, <2>4, <2>5
<1>18. CASE UNCHANGED vars
  <2>1. Pending' = Pending
    BY <1>18 DEF vars, Pending
  <2>2. Members' = Members /\ Size' = Size /\ result' = result
    BY <1>18 DEF vars, Members, Size, Stored, Ids
  <2>. QED  BY <2>1, <2>2 DEF Set!vars
<1>19. ASSUME Next PROVE [Set!Next]_(Set!vars)
  <2>1. CASE \E v \in Values : Begin("insert", v)
    BY <1>4, <2>1 DEF Set!Next
  <2>2. CASE \E v \in Looked : Begin("contains", v)
    BY <1>5, <2>2 DEF Set!Next
  <2>3. CASE \E side \in Asked : WalkFrom(side)
    BY <1>6, <2>3 DEF Set!Next
  <2>. QED  BY <1>7, <1>8, <1>9, <1>10, <1>11, <1>12, <1>13, <1>14, <1>15, <1>16, <1>17, <1>19,
               <2>1, <2>2, <2>3 DEF Next, Steps
<1>. QED  BY <1>18, <1>19

(* A red-black tree of values that < compares is the set of the values     *)
(* inserted.                                                               *)
THEOREM TreeIsSet ==
  ASSUME Comparable(Values)
  PROVE  Spec => IsSet
<1>1. Init => Content /\ Set!Init
  BY ContentInit, SetInit
<1>2. Shape /\ Content /\ [Next]_vars => Content' /\ [Set!Next]_(Set!vars)
  BY ContentStep, SetStep
<1>. QED  BY <1>1, <1>2, ShapeInvariant, PTL DEF Spec, IsSet, Set!Spec
=============================================================================
