--------------------------- MODULE StructureProofs ---------------------------
(***************************************************************************)
(* Proofs about three structures of the standard library: the disjoint     *)
(* sets, the linked list and the queue.                                    *)
(***************************************************************************)
EXTENDS LinkedList, DSU, SequenceLemmas, FiniteSetTheorems

-----------------------------------------------------------------------------
(* The forest of a DSU is one for every set of values: a parent ranks      *)
(* above its child, whatever the operations in progress, and count is the  *)
(* number of roots.                                                        *)
(*                                                                         *)
(* The invariant adds to the two what find_index() knows.  The calls in    *)
(* progress are a path of parents; on the way back the index returned is a *)
(* root that ranks above the call that waits for it; and the roots already *)
(* found stay roots, because a compression moves none.                     *)

ArraysOK ==
  /\ values \in Seq(Members)
  /\ parent \in Seq(Ids) /\ Len(parent) = Len(values)
  /\ rank \in Seq(Nat) /\ Len(rank) = Len(values)
  /\ count \in Int

ControlOK ==
  /\ op \in {"none", "make_set", "find", "connected", "merge"}
  /\ args \in Seq(Members)
  /\ Len(args) = (CASE op = "none" -> 0 [] op \in {"make_set", "find"} -> 1 [] OTHER -> 2)
  /\ roots \in Seq(Ids) /\ Len(roots) <= Len(args)
  /\ stack \in Seq(Ids) /\ above \in 0..Len(values)

Distinct == \A i, j \in Ids : values[i] = values[j] => i = j

Forest == Distinct /\ RankRises /\ CountsRoots

StackClimbs ==
  \A k \in 1..(Len(stack) - 1) : parent[stack[k]] = stack[k + 1] /\ stack[k] # stack[k + 1]

StackRanks ==
  \A k, l \in 1..Len(stack) : k < l => rank[stack[k]] < rank[stack[l]]

BackIsRoot ==
  above # 0 => /\ above \in Roots
               /\ stack # << >> => Top \notin Roots /\ rank[Top] < rank[above]

FoundAreRoots == \A k \in 1..Len(roots) : roots[k] \in Roots

Busy == stack # << >> \/ above # 0 => Len(roots) < Len(args)

Control == StackClimbs /\ StackRanks /\ BackIsRoot /\ FoundAreRoots /\ Busy

Inv == ArraysOK /\ ControlOK /\ Forest /\ Control

(* make_set() makes no call of find_index().                               *)
Quiet == op \in {"none", "make_set"} => stack = << >> /\ above = 0 /\ roots = << >>

(* Indices, parents and ranks have the types one expects.                  *)
LEMMA Elements ==
  ASSUME ArraysOK
  PROVE  /\ Len(values) \in Nat
         /\ \A i \in Ids : values[i] \in Members /\ parent[i] \in Ids /\ rank[i] \in Nat
BY ElementOfSeq, LenProperties DEF ArraysOK, Ids

(* There are finitely many roots.                                          *)
LEMMA RootsFinite ==
  ASSUME ArraysOK
  PROVE  IsFiniteSet(Roots) /\ Cardinality(Roots) \in Nat
<1>1. IsFiniteSet(Ids)
  BY Elements, FS_Interval DEF Ids
<1>2. Roots \in SUBSET Ids
  BY DEF Roots
<1>. QED  BY <1>1, <1>2, FS_Subset, FS_CardinalityType

(* index_of() returns an index that holds the value, or 0 if there is none.*)
LEMMA IndexOfFinds ==
  ASSUME ArraysOK, NEW v
  PROVE  /\ IndexOf(v) = 0 => \A i \in Ids : values[i] # v
         /\ IndexOf(v) # 0 => IndexOf(v) \in Ids /\ values[IndexOf(v)] = v
<1> DEFINE H == { i \in Ids : values[i] = v }
<1>1. CASE H = {}
  BY <1>1 DEF IndexOf
<1>2. CASE H # {}
  <2>1. Len(values) \in Nat
    BY Elements
  <2>2. H \in SUBSET Nat
    BY <2>1 DEF Ids
  <2>3. \E x \in H : \A y \in H : x <= y
    BY <1>2, <2>2, LeastElement
  <2>4. Min(H) \in H
    BY <2>3 DEF Min
  <2>5. IndexOf(v) = Min(H)
    BY <1>2 DEF IndexOf
  <2>6. Min(H) # 0
    BY <2>1, <2>4 DEF Ids
  <2>. QED  BY <2>4, <2>5, <2>6
<1>. QED  BY <1>1, <1>2

-----------------------------------------------------------------------------
(* A new value is a set of its own, and nothing else changes.              *)
LEMMA AddEffect ==
  ASSUME ArraysOK, NEW v \in Members, Add(v)
  PROVE  /\ ArraysOK'
         /\ Len(values') = Len(values) + 1
         /\ \A i \in Ids : /\ values'[i] = values[i]
                           /\ parent'[i] = parent[i]
                           /\ rank'[i] = rank[i]
         /\ values'[Len(values) + 1] = v
         /\ parent'[Len(values) + 1] = Len(values) + 1
         /\ Ids' = Ids \union {Len(values) + 1}
<1> DEFINE n == Len(values)
<1>1. n \in Nat
  BY Elements
<1>2. /\ values' \in Seq(Members) /\ Len(values') = n + 1
      /\ \A i \in 1..n : values'[i] = values[i]
      /\ values'[n + 1] = v
  BY AppendProperties DEF Add, ArraysOK
<1>3. Ids' = Ids \union {n + 1}
  BY <1>1, <1>2 DEF Ids
<1>4. parent \in Seq(Ids')
  BY <1>3 DEF ArraysOK
<1>5. /\ parent' \in Seq(Ids') /\ Len(parent') = n + 1
      /\ \A i \in 1..n : parent'[i] = parent[i]
      /\ parent'[n + 1] = n + 1
  <2>1. n + 1 \in Ids' /\ Len(parent) = n /\ parent' = Append(parent, n + 1)
    BY <1>3 DEF Add, ArraysOK
  <2>. HIDE DEF n
  <2>. QED  BY <1>4, <2>1, AppendProperties
<1>6. /\ rank' \in Seq(Nat) /\ Len(rank') = n + 1
      /\ \A i \in 1..n : rank'[i] = rank[i]
  <2>1. Len(rank) = n /\ rank' = Append(rank, 0) /\ rank \in Seq(Nat)
    BY DEF Add, ArraysOK
  <2>. HIDE DEF n
  <2>. QED  BY <2>1, AppendProperties
<1>7. count' \in Int
  BY DEF Add, ArraysOK
<1>. QED  BY <1>2, <1>3, <1>5, <1>6, <1>7 DEF ArraysOK, Ids

LEMMA AddForest ==
  ASSUME ArraysOK, Forest, NEW v \in Members, IndexOf(v) = 0, Add(v)
  PROVE  Forest' /\ Roots' = Roots \union {Len(values) + 1}
<1> DEFINE n == Len(values)
<1>1. /\ Ids' = Ids \union {n + 1} /\ n + 1 \notin Ids
      /\ \A i \in Ids : values'[i] = values[i] /\ parent'[i] = parent[i] /\ rank'[i] = rank[i]
      /\ values'[n + 1] = v /\ parent'[n + 1] = n + 1
  BY AddEffect, Elements DEF Ids
<1>2. \A i \in Ids : values[i] # v
  BY IndexOfFinds
<1>3. \A i \in Ids : parent[i] \in Ids
  BY Elements
<1>. HIDE DEF n
<1>4. Distinct'
  BY <1>1, <1>2 DEF Forest, Distinct
<1>5. RankRises'
  BY <1>1, <1>3 DEF Forest, RankRises
<1>6. Roots' = Roots \union {n + 1}
  BY <1>1, <1>3 DEF Roots
<1>7. CountsRoots'
  <2>1. n + 1 \notin Roots
    BY <1>1 DEF Roots
  <2>2. Cardinality(Roots \union {n + 1}) = Cardinality(Roots) + 1
    BY <2>1, RootsFinite, FS_AddElement
  <2>3. count' = count + 1
    BY DEF Add
  <2>. QED  BY <1>6, <2>2, <2>3 DEF Forest, CountsRoots
<1>. QED  BY <1>4, <1>5, <1>6, <1>7 DEF Forest, n

-----------------------------------------------------------------------------
(* One element of `parent` is assigned.                                     *)
LEMMA Reparent ==
  ASSUME ArraysOK, NEW t \in Ids, NEW r \in Ids,
         parent' = [parent EXCEPT ![t] = r]
  PROVE  /\ parent' \in Seq(Ids) /\ Len(parent') = Len(values)
         /\ \A i \in Ids : parent'[i] = IF i = t THEN r ELSE parent[i]
<1>1. parent \in Seq(Ids) /\ Len(parent) = Len(values)
  BY DEF ArraysOK
<1>2. Ids = 1..Len(parent)
  BY <1>1 DEF Ids
<1>3. t \in 1..Len(parent)
  BY <1>2
<1>4. /\ parent' \in Seq(Ids) /\ Len(parent') = Len(parent)
      /\ \A i \in 1..Len(parent) : parent'[i] = IF i = t THEN r ELSE parent[i]
  BY <1>1, <1>3, ExceptSeq
<1>. QED  BY <1>1, <1>2, <1>4

(* A compression moves a node that is not a root below one that ranks      *)
(* above it.                                                               *)
LEMMA CompressForest ==
  ASSUME Inv, Compress
  PROVE  ArraysOK' /\ Forest' /\ Roots' = Roots
<1> DEFINE t == Top
<1>1. t \in Ids /\ t \notin Roots /\ above \in Roots /\ rank[t] < rank[above]
  <2>1. stack # << >> /\ above # 0
    BY DEF Compress
  <2>2. t \in Ids
    BY <2>1, ElementOfSeq, LenProperties, EmptySeq DEF Inv, ControlOK, Top
  <2>. QED  BY <2>1, <2>2 DEF Inv, Control, BackIsRoot
<1>2. above \in Ids /\ above # t
  BY <1>1 DEF Roots
<1>3. parent' = [parent EXCEPT ![t] = above]
  BY DEF Compress
<1>4. values' = values /\ rank' = rank /\ count' = count /\ Ids' = Ids
  BY DEF Compress, Ids
<1>5. /\ parent' \in Seq(Ids) /\ Len(parent') = Len(values)
      /\ \A i \in Ids : parent'[i] = IF i = t THEN above ELSE parent[i]
  BY <1>1, <1>2, <1>3, Reparent DEF Inv
<1>6. ArraysOK'
  BY <1>4, <1>5 DEF Inv, ArraysOK
<1>. HIDE DEF t
<1>7. \A i \in Ids : parent'[i] = i <=> parent[i] = i
  BY <1>1, <1>2, <1>5 DEF Roots
<1>8. Roots' = Roots
  BY <1>4, <1>7 DEF Roots
<1>9. RankRises'
  BY <1>1, <1>4, <1>5 DEF Inv, Forest, RankRises
<1>. QED  BY <1>4, <1>6, <1>8, <1>9 DEF Inv, Forest, Distinct, CountsRoots

(* A merge hangs one root below another, which then ranks above it.        *)
LEMMA HangForest ==
  ASSUME ArraysOK, Forest, NEW low \in Roots, NEW high \in Roots, low # high,
         Hang(low, high),
         rank' \in Seq(Nat), Len(rank') = Len(rank),
         \A i \in Ids : i # high => rank'[i] = rank[i],
         rank[low] < rank'[high], rank[high] <= rank'[high]
  PROVE  ArraysOK' /\ Forest'
<1>1. low \in Ids /\ high \in Ids /\ parent[low] = low /\ parent[high] = high
  BY DEF Roots
<1>2. values' = values /\ Ids' = Ids /\ count' = count - 1
  BY DEF Hang, Ids
<1>3. /\ parent' \in Seq(Ids) /\ Len(parent') = Len(values)
      /\ \A i \in Ids : parent'[i] = IF i = low THEN high ELSE parent[i]
  BY <1>1, Reparent DEF Hang
<1>4. ArraysOK'
  BY <1>2, <1>3 DEF ArraysOK
<1>5. \A i \in Ids : parent[i] \in Ids /\ rank[i] \in Nat
  BY Elements
<1>6. rank'[high] \in Nat
  BY <1>1, <1>2, <1>4, ElementOfSeq DEF ArraysOK, Ids
<1>7. RankRises'
  <2>. SUFFICES ASSUME NEW i \in Ids, parent'[i] # i
                PROVE  rank'[i] < rank'[parent'[i]]
    BY <1>2 DEF RankRises
  <2>1. CASE i = low
    <3>1. parent'[i] = high /\ rank'[i] = rank[low]
      BY <1>1, <1>3, <2>1
    <3>. QED  BY <3>1
  <2>2. CASE i # low
    <3>1. parent'[i] = parent[i] /\ i # high
      BY <1>1, <1>3, <2>2
    <3>2. rank[i] < rank[parent[i]] /\ rank'[i] = rank[i]
      BY <3>1 DEF Forest, RankRises
    <3>3. rank[parent[i]] <= rank'[parent[i]]
      <4>1. CASE parent[i] = high
        BY <4>1
      <4>2. CASE parent[i] # high
        <5>1. rank'[parent[i]] = rank[parent[i]]
          BY <1>5, <4>2
        <5>. QED  BY <1>5, <5>1
      <4>. QED  BY <4>1, <4>2
    <3>4. rank'[parent[i]] \in Nat
      BY <1>5, <1>6
    <3>. QED  BY <1>5, <3>1, <3>2, <3>3, <3>4
  <2>. QED  BY <2>1, <2>2
<1>8. Roots' = Roots \ {low}
  BY <1>1, <1>2, <1>3 DEF Roots
<1>9. CountsRoots'
  <2>1. Cardinality(Roots \ {low}) = Cardinality(Roots) - 1
    BY RootsFinite, FS_RemoveElement
  <2>. QED  BY <1>2, <1>8, <2>1, RootsFinite DEF Forest, CountsRoots
<1>. QED  BY <1>2, <1>4, <1>7, <1>9 DEF Forest, Distinct

-----------------------------------------------------------------------------
(* A call of find_index() puts the index of its value on the stack.        *)
LEMMA CallEffect ==
  ASSUME ArraysOK, Forest, NEW v \in Members, Call(v)
  PROVE  /\ ArraysOK' /\ Forest'
         /\ Ids \subseteq Ids' /\ Len(values) <= Len(values') /\ Len(values') \in Nat
         /\ \A i \in Ids : /\ values'[i] = values[i]
                           /\ parent'[i] = parent[i]
                           /\ rank'[i] = rank[i]
         /\ \A i \in Ids : i \in Roots' <=> i \in Roots
         /\ \E j \in Ids' : stack' = Append(stack, j) /\ values'[j] = v
<1>1. Len(values) \in Nat
  BY Elements
<1>2. CASE IndexOf(v) # 0
  <2>1. UNCHANGED arrays /\ stack' = Append(stack, IndexOf(v))
    BY <1>2 DEF Call
  <2>2. /\ values' = values /\ parent' = parent /\ rank' = rank /\ count' = count
        /\ Ids' = Ids /\ Roots' = Roots
    BY <2>1 DEF arrays, Ids, Roots
  <2>3. ArraysOK' /\ Forest'
    BY <2>2 DEF ArraysOK, Forest, Distinct, RankRises, CountsRoots
  <2>4. IndexOf(v) \in Ids /\ values[IndexOf(v)] = v
    BY <1>2, IndexOfFinds
  <2>. QED  BY <1>1, <2>1, <2>2, <2>3, <2>4
<1>3. CASE IndexOf(v) = 0
  <2>1. Add(v) /\ stack' = Append(stack, Len(values) + 1)
    BY <1>3 DEF Call
  <2>2. Forest' /\ Roots' = Roots \union {Len(values) + 1}
    BY <1>3, <2>1, AddForest
  <2>3. Len(values) + 1 \notin Ids
    BY <1>1 DEF Ids
  <2>. QED  BY <1>1, <2>1, <2>2, <2>3, AddEffect
<1>. QED  BY <1>2, <1>3

(* What a call knows does not change when values are added.                *)
LEMMA CallInv ==
  ASSUME Inv, NEW v \in Members, Call(v), above = 0, Len(roots) < Len(args),
         stack # << >> => v = values[parent[Top]] /\ parent[Top] # Top
  PROVE  Inv'
<1>1. PICK j \in Ids' : stack' = Append(stack, j) /\ values'[j] = v
  BY CallEffect DEF Inv
<1>2. /\ ArraysOK' /\ Forest' /\ Ids \subseteq Ids'
      /\ \A i \in Ids : values'[i] = values[i] /\ parent'[i] = parent[i]
      /\ \A i \in Ids : i \in Roots' <=> i \in Roots
      /\ Len(values') \in Nat
  BY CallEffect DEF Inv
<1>3. UNCHANGED <<op, args, roots, above>>
  BY DEF Call
<1>4. stack \in Seq(Ids') /\ roots \in Seq(Ids')
  BY <1>2 DEF Inv, ControlOK
<1>5. /\ stack' \in Seq(Ids') /\ Len(stack') = Len(stack) + 1 /\ stack' # << >>
      /\ \A k \in 1..Len(stack) : stack'[k] = stack[k]
      /\ stack'[Len(stack) + 1] = j
  BY <1>1, <1>4, AppendProperties
<1>6. ControlOK'
  BY <1>2, <1>3, <1>4, <1>5 DEF Inv, ControlOK
<1>7. Len(stack) \in Nat /\ \A k \in 1..Len(stack) : stack[k] \in Ids
  BY ElementOfSeq, LenProperties DEF Inv, ControlOK
<1>8. stack # << >> => Len(stack) \in 1..Len(stack) /\ Top \in Ids
  BY <1>7, EmptySeq DEF Inv, ControlOK, Top
<1>9. stack # << >> => parent[Top] = j
  <2>. SUFFICES ASSUME stack # << >> PROVE parent[Top] = j
    OBVIOUS
  <2>1. parent[Top] \in Ids
    BY <1>8, Elements DEF Inv
  <2>2. values'[parent[Top]] = v
    BY <1>2, <2>1
  <2>. QED  BY <1>1, <1>2, <2>1, <2>2 DEF Forest, Distinct
<1>10. StackClimbs'
  <2>. SUFFICES ASSUME NEW k \in 1..Len(stack)
                PROVE  parent'[stack'[k]] = stack'[k + 1] /\ stack'[k] # stack'[k + 1]
    BY <1>5, <1>7 DEF StackClimbs
  <2>1. stack'[k] = stack[k] /\ stack[k] \in Ids
    BY <1>5, <1>7
  <2>2. CASE k = Len(stack)
    <3>1. stack # << >> /\ stack[k] = Top /\ stack'[k + 1] = j
      BY <1>5, <1>7, <2>2, EmptySeq DEF Top
    <3>. QED  BY <1>2, <1>9, <2>1, <3>1
  <2>3. CASE k # Len(stack)
    <3>1. k \in 1..(Len(stack) - 1) /\ k + 1 \in 1..Len(stack)
      BY <1>7, <2>3
    <3>2. parent[stack[k]] = stack[k + 1] /\ stack[k] # stack[k + 1]
      BY <3>1 DEF Inv, Control, StackClimbs
    <3>3. stack'[k + 1] = stack[k + 1]
      BY <1>5, <3>1
    <3>. QED  BY <1>2, <2>1, <3>2, <3>3
  <2>. QED  BY <2>2, <2>3
<1>11. BackIsRoot' /\ Busy'
  BY <1>3 DEF BackIsRoot, Busy
<1>12. FoundAreRoots'
  <2>1. \A k \in 1..Len(roots) : roots[k] \in Ids
    BY ElementOfSeq DEF Inv, ControlOK
  <2>. QED  BY <1>2, <1>3, <2>1 DEF Inv, Control, FoundAreRoots
<1>13. StackRanks'
  <2>1. \A i \in Ids : rank'[i] = rank[i] /\ rank[i] \in Nat
    BY CallEffect, Elements DEF Inv
  <2>2. j \in Ids' /\ rank'[j] \in Nat
    BY <1>2, ElementOfSeq DEF ArraysOK, Ids
  <2>. SUFFICES ASSUME NEW k \in 1..(Len(stack) + 1), NEW l \in 1..(Len(stack) + 1), k < l
                PROVE  rank'[stack'[k]] < rank'[stack'[l]]
    BY <1>5 DEF StackRanks
  <2>3. k \in 1..Len(stack) /\ stack'[k] = stack[k] /\ stack[k] \in Ids
    BY <1>5, <1>7
  <2>4. CASE l \in 1..Len(stack)
    <3>1. stack'[l] = stack[l] /\ stack[l] \in Ids /\ rank[stack[k]] < rank[stack[l]]
      BY <1>5, <1>7, <2>3, <2>4 DEF Inv, Control, StackRanks
    <3>. QED  BY <2>1, <2>3, <3>1
  <2>5. CASE l = Len(stack) + 1
    <3>1. stack # << >> /\ stack'[l] = j
      BY <1>5, <1>7, <2>3, <2>5, EmptySeq
    <3>2. rank[Top] < rank'[j]
      BY <1>2, <1>8, <1>9, <2>1, <3>1 DEF Inv, Forest, RankRises
    <3>3. rank[stack[k]] <= rank[Top]
      <4>1. CASE k = Len(stack)
        BY <1>8, <2>1, <3>1, <4>1 DEF Top
      <4>2. CASE k # Len(stack)
        BY <1>8, <1>7, <2>1, <2>3, <3>1, <4>2 DEF Inv, Control, StackRanks, Top
      <4>. QED  BY <4>1, <4>2
    <3>. QED  BY <1>8, <2>1, <2>2, <2>3, <3>1, <3>2, <3>3
  <2>. QED  BY <1>7, <2>4, <2>5
<1>. QED  BY <1>2, <1>6, <1>10, <1>11, <1>12, <1>13 DEF Inv, Control

(* The last call of the stack, and the stack without it.                   *)
LEMMA PopEffect ==
  ASSUME Inv, stack # << >>, Pop
  PROVE  /\ Len(stack) \in Nat \ {0} /\ Top \in Ids
         /\ stack' \in Seq(Ids) /\ Len(stack') = Len(stack) - 1
         /\ \A k \in 1..(Len(stack) - 1) : stack'[k] = stack[k]
         /\ stack' # << >> => /\ Top' = stack[Len(stack) - 1]
                             /\ Top' \in Ids
                             /\ parent[Top'] = Top /\ Top' # Top
<1>1. Len(stack) \in Nat \ {0}
  BY LenProperties, EmptySeq DEF Inv, ControlOK
<1>2. /\ stack' \in Seq(Ids) /\ Len(stack') = Len(stack) - 1
      /\ \A k \in 1..(Len(stack) - 1) : stack'[k] = stack[k]
  <2>1. stack \in Seq(Ids) /\ Len(stack) - 1 \in Nat /\ Len(stack) - 1 <= Len(stack)
    BY <1>1 DEF Inv, ControlOK
  <2>2. stack' = SubSeq(stack, 1, Len(stack) - 1)
    BY DEF Pop
  <2>. QED  BY <2>1, <2>2, PrefixProperties
<1>3. \A k \in 1..Len(stack) : stack[k] \in Ids
  BY ElementOfSeq DEF Inv, ControlOK
<1>4. ASSUME stack' # << >>
      PROVE  /\ Top' = stack[Len(stack) - 1]
             /\ Top' \in Ids
             /\ parent[Top'] = Top /\ Top' # Top
  <2>1. Len(stack') # 0
    BY <1>2, <1>4, EmptySeq
  <2>2. Len(stack) - 1 \in 1..(Len(stack) - 1)
    BY <1>1, <1>2, <2>1
  <2>3. Top' = stack[Len(stack) - 1]
    BY <1>2, <2>2 DEF Top
  <2>4. /\ parent[stack[Len(stack) - 1]] = stack[Len(stack) - 1 + 1]
        /\ stack[Len(stack) - 1] # stack[Len(stack) - 1 + 1]
    BY <2>2 DEF Inv, Control, StackClimbs
  <2>5. Len(stack) - 1 + 1 = Len(stack)
    BY <1>1
  <2>6. Len(stack) - 1 \in 1..Len(stack)
    BY <1>1, <2>2
  <2>. QED  BY <1>3, <2>3, <2>4, <2>5, <2>6 DEF Top
<1>5. Top \in Ids
  BY <1>1, <1>3 DEF Top
<1>. QED  BY <1>1, <1>2, <1>4, <1>5

(* The calls below the one that returns climb as before.                   *)
LEMMA PopRanks ==
  ASSUME Inv, stack # << >>, Pop, rank' = rank
  PROVE  StackRanks'
<1>1. /\ Len(stack) \in Nat \ {0} /\ Len(stack') = Len(stack) - 1
      /\ \A k \in 1..(Len(stack) - 1) : stack'[k] = stack[k]
  BY PopEffect
<1>2. StackRanks
  BY DEF Inv, Control
<1>3. ASSUME NEW k \in 1..(Len(stack) - 1), NEW l \in 1..(Len(stack) - 1), k < l
      PROVE  rank'[stack'[k]] < rank'[stack'[l]]
  <2>1. k \in 1..Len(stack) /\ l \in 1..Len(stack)
    BY <1>1
  <2>2. rank[stack[k]] < rank[stack[l]]
    BY <1>2, <1>3, <2>1 DEF StackRanks
  <2>. QED  BY <1>1, <2>2
<1>. QED  BY <1>1, <1>3 DEF StackRanks

(* find_index() reaches a root: its caller is below it.                    *)
LEMMA AtRootInv ==
  ASSUME Inv, AtRoot
  PROVE  Inv'
<1>1. stack # << >> /\ Pop /\ above = 0 /\ parent[Top] = Top /\ above' = Top
      /\ UNCHANGED <<values, parent, rank, count, op, args, roots>>
  BY DEF AtRoot, arrays
<1>2. /\ Len(stack) \in Nat \ {0} /\ Top \in Ids
      /\ stack' \in Seq(Ids) /\ Len(stack') = Len(stack) - 1
      /\ \A k \in 1..(Len(stack) - 1) : stack'[k] = stack[k]
      /\ stack' # << >> => Top' \in Ids /\ parent[Top'] = Top /\ Top' # Top
  BY <1>1, PopEffect
<1>3. ArraysOK' /\ Forest' /\ Ids' = Ids /\ Roots' = Roots
  BY <1>1 DEF Inv, ArraysOK, Forest, Distinct, RankRises, CountsRoots, Ids, Roots
<1>4. Top \in Roots /\ Top \in 0..Len(values)
  BY <1>1, <1>2, Elements DEF Inv, Roots, Ids
<1>5. ControlOK'
  BY <1>1, <1>2, <1>3, <1>4 DEF Inv, ControlOK
<1>6. StackClimbs'
  <2>. SUFFICES ASSUME NEW k \in 1..(Len(stack') - 1)
                PROVE  parent[stack'[k]] = stack'[k + 1] /\ stack'[k] # stack'[k + 1]
    BY <1>1 DEF StackClimbs
  <2>1. k \in 1..(Len(stack) - 1) /\ k + 1 \in 1..(Len(stack) - 1)
    BY <1>2
  <2>. QED  BY <1>2, <2>1 DEF Inv, Control, StackClimbs
<1>7. BackIsRoot'
  <2>1. ASSUME stack' # << >> PROVE Top' \notin Roots /\ rank[Top'] < rank[Top]
    <3>1. Top' \in Ids /\ parent[Top'] = Top /\ Top' # Top
      BY <1>2, <2>1
    <3>. QED  BY <3>1 DEF Inv, Forest, RankRises, Roots
  <2>. QED  BY <1>1, <1>3, <1>4, <2>1 DEF BackIsRoot
<1>8. FoundAreRoots' /\ Busy'
  BY <1>1, <1>3 DEF Inv, Control, FoundAreRoots, Busy
<1>9. StackRanks'
  BY <1>1, PopRanks
<1>. QED  BY <1>3, <1>5, <1>6, <1>7, <1>8, <1>9 DEF Inv, Control

(* A caller of find_index() is compressed: the calls below it wait on.     *)
LEMMA CompressInv ==
  ASSUME Inv, Compress
  PROVE  Inv'
<1>1. stack # << >> /\ Pop /\ above # 0 /\ parent' = [parent EXCEPT ![Top] = above]
      /\ UNCHANGED <<values, rank, count, op, args, roots, above>>
  BY DEF Compress
<1>2. /\ Len(stack) \in Nat \ {0} /\ Top \in Ids
      /\ stack' \in Seq(Ids) /\ Len(stack') = Len(stack) - 1
      /\ \A k \in 1..(Len(stack) - 1) : stack'[k] = stack[k]
      /\ stack' # << >> => Top' \in Ids /\ parent[Top'] = Top /\ Top' # Top
  BY <1>1, PopEffect
<1>3. ArraysOK' /\ Forest' /\ Roots' = Roots /\ Ids' = Ids
  BY <1>1, CompressForest DEF Ids
<1>4. ControlOK'
  BY <1>1, <1>2, <1>3 DEF Inv, ControlOK
<1>5. above \in Roots /\ Top \notin Roots /\ rank[Top] < rank[above]
  BY <1>1 DEF Inv, Control, BackIsRoot
<1>6. \A i \in Ids : rank[i] \in Nat
  BY Elements DEF Inv
<1>7. \A k \in 1..(Len(stack) - 1) : stack[k] # Top /\ stack[k] \in Ids
  <2>1. \A k \in 1..(Len(stack) - 1) : k \in 1..Len(stack) /\ k < Len(stack)
    BY <1>2
  <2>2. Len(stack) \in 1..Len(stack)
    BY <1>2
  <2>3. \A k \in 1..Len(stack) : stack[k] \in Ids
    BY ElementOfSeq DEF Inv, ControlOK
  <2>4. \A k \in 1..(Len(stack) - 1) : rank[stack[k]] < rank[Top]
    BY <2>1, <2>2 DEF Inv, Control, StackRanks, Top
  <2>. QED  BY <1>2, <1>6, <2>1, <2>3, <2>4
<1>8. \A i \in Ids \ {Top} : parent'[i] = parent[i]
  BY <1>1, <1>2, <1>5, Reparent DEF Inv, Roots
<1>9. StackClimbs'
  <2>. SUFFICES ASSUME NEW k \in 1..(Len(stack') - 1)
                PROVE  parent'[stack'[k]] = stack'[k + 1] /\ stack'[k] # stack'[k + 1]
    BY DEF StackClimbs
  <2>1. k \in 1..(Len(stack) - 1) /\ k + 1 \in 1..(Len(stack) - 1)
    BY <1>2
  <2>2. stack'[k] = stack[k] /\ stack'[k + 1] = stack[k + 1]
    BY <1>2, <2>1
  <2>3. parent[stack[k]] = stack[k + 1] /\ stack[k] # stack[k + 1]
    BY <2>1 DEF Inv, Control, StackClimbs
  <2>. QED  BY <1>7, <1>8, <2>1, <2>2, <2>3
<1>10. BackIsRoot'
  <2>1. ASSUME stack' # << >> PROVE Top' \notin Roots /\ rank[Top'] < rank[above]
    <3>1. Top' \in Ids /\ parent[Top'] = Top /\ Top' # Top
      BY <1>2, <2>1
    <3>2. rank[Top'] < rank[Top]
      BY <3>1 DEF Inv, Forest, RankRises
    <3>3. above \in Ids
      BY <1>5 DEF Roots
    <3>. QED  BY <1>2, <1>5, <1>6, <3>1, <3>2, <3>3 DEF Roots
  <2>. QED  BY <1>1, <1>3, <1>5, <2>1 DEF BackIsRoot
<1>11. FoundAreRoots' /\ Busy'
  BY <1>1, <1>3 DEF Inv, Control, FoundAreRoots, Busy
<1>12. StackRanks'
  BY <1>1, PopRanks
<1>. QED  BY <1>3, <1>4, <1>9, <1>10, <1>11, <1>12 DEF Inv, Control

(* The root reached becomes a result of the operation.                     *)
LEMMA FoundInv ==
  ASSUME Inv, Found
  PROVE  Inv'
<1>1. /\ stack = << >> /\ above # 0 /\ roots' = Append(roots, above) /\ above' = 0
      /\ UNCHANGED <<values, parent, rank, count, op, args, stack>>
  BY DEF Found, arrays
<1>2. ArraysOK' /\ Forest' /\ Ids' = Ids /\ Roots' = Roots
  BY <1>1 DEF Inv, ArraysOK, Forest, Distinct, RankRises, CountsRoots, Ids, Roots
<1>3. above \in Roots /\ Len(roots) < Len(args)
  BY <1>1 DEF Inv, Control, BackIsRoot, Busy
<1>4. roots \in Seq(Ids) /\ above \in Ids
  BY <1>3 DEF Inv, ControlOK, Roots
<1>5. /\ roots' \in Seq(Ids) /\ Len(roots') = Len(roots) + 1
      /\ \A k \in 1..Len(roots) : roots'[k] = roots[k]
      /\ roots'[Len(roots) + 1] = above
  BY <1>1, <1>4, AppendProperties
<1>6. Len(roots) \in Nat /\ Len(args) \in Nat /\ 0 \in 0..Len(values)
  BY <1>4, LenProperties, Elements DEF Inv, ControlOK
<1>7. ControlOK'
  BY <1>1, <1>2, <1>3, <1>5, <1>6 DEF Inv, ControlOK
<1>8. FoundAreRoots'
  <2>. SUFFICES ASSUME NEW k \in 1..(Len(roots) + 1) PROVE roots'[k] \in Roots
    BY <1>2, <1>5 DEF FoundAreRoots
  <2>1. CASE k = Len(roots) + 1
    BY <1>3, <1>5, <2>1
  <2>2. CASE k # Len(roots) + 1
    BY <1>5, <1>6, <2>2 DEF Inv, Control, FoundAreRoots
  <2>. QED  BY <2>1, <2>2
<1>9. StackClimbs' /\ StackRanks' /\ BackIsRoot' /\ Busy'
  BY <1>1, EmptySeq DEF StackClimbs, StackRanks, BackIsRoot, Busy
<1>. QED  BY <1>2, <1>7, <1>8, <1>9 DEF Inv, Control

(* An operation that has all its roots and ends has no call in progress.   *)
LEMMA EndControl ==
  ASSUME Inv, NEW r, NEW what \in {"find", "connected", "merge"}, AllFound(what), End(r),
         values' = values
  PROVE  ControlOK' /\ Control' /\ stack = << >>
<1>1. stack = << >> /\ above = 0
  <2>1. Len(roots) = Len(args) /\ Len(args) \in Nat
    BY LenProperties DEF AllFound, Inv, ControlOK
  <2>. QED  BY <2>1 DEF Inv, Control, Busy
<1>2. op' = "none" /\ args' = << >> /\ roots' = << >> /\ stack' = << >> /\ above' = 0
  BY <1>1 DEF End
<1>3. Ids' = Ids /\ Len(values) \in Nat /\ 0 \in 0..Len(values)
  BY Elements DEF Inv, Ids
<1>4. ControlOK'
  BY <1>2, <1>3, EmptySeq DEF ControlOK
<1>5. Control'
  BY <1>2, EmptySeq DEF Control, StackClimbs, StackRanks, BackIsRoot, FoundAreRoots, Busy
<1>. QED  BY <1>1, <1>4, <1>5

(* An operation that assigns no array ends.                                *)
LEMMA EndInv ==
  ASSUME Inv, NEW r, NEW what \in {"find", "connected", "merge"}, AllFound(what), End(r),
         UNCHANGED arrays
  PROVE  Inv'
<1>1. ArraysOK' /\ Forest' /\ values' = values
  BY DEF Inv, ArraysOK, Forest, Distinct, RankRises, CountsRoots, Ids, Roots, arrays
<1>. QED  BY <1>1, EndControl DEF Inv

(* merge() has two roots, and their ranks are numbers.                     *)
LEMMA TwoRoots ==
  ASSUME Inv, AllFound("merge")
  PROVE  /\ roots[1] \in Roots /\ roots[2] \in Roots
         /\ roots[1] \in Ids /\ roots[2] \in Ids
         /\ rank[roots[1]] \in Nat /\ rank[roots[2]] \in Nat
<1>1. Len(roots) = 2
  BY DEF AllFound, Inv, ControlOK
<1>2. roots[1] \in Roots /\ roots[2] \in Roots
  BY <1>1 DEF Inv, Control, FoundAreRoots
<1>. QED  BY <1>2, Elements DEF Inv, Roots

(* Roots of different ranks: the lower goes below the higher.              *)
LEMMA MergeRankedInv ==
  ASSUME Inv, MergeRanked
  PROVE  Inv'
<1>1. /\ AllFound("merge") /\ rank[roots[1]] # rank[roots[2]] /\ rank' = rank
      /\ IF rank[roots[1]] < rank[roots[2]]
         THEN Hang(roots[1], roots[2])
         ELSE Hang(roots[2], roots[1])
  BY DEF MergeRanked
<1>2. /\ rank' \in Seq(Nat) /\ Len(rank') = Len(rank)
      /\ \A i \in Ids : rank'[i] = rank[i] /\ rank[i] \in Nat
  BY <1>1, Elements DEF Inv, ArraysOK
<1>3. ASSUME NEW low \in Roots, NEW high \in Roots, rank[low] < rank[high], Hang(low, high)
      PROVE  Inv'
  <2>1. low \in Ids /\ high \in Ids
    BY DEF Roots
  <2>2. low # high /\ rank[low] < rank'[high] /\ rank[high] <= rank'[high]
    BY <1>2, <1>3, <2>1
  <2>3. ArraysOK' /\ Forest'
    BY <1>2, <1>3, <2>2, HangForest DEF Inv
  <2>4. ControlOK' /\ Control'
    BY <1>1, <1>3, EndControl DEF Hang
  <2>. QED  BY <2>3, <2>4 DEF Inv
<1>4. CASE rank[roots[1]] < rank[roots[2]]
  BY <1>1, <1>3, <1>4, TwoRoots
<1>5. CASE ~(rank[roots[1]] < rank[roots[2]])
  <2>1. rank[roots[2]] < rank[roots[1]]
    BY <1>1, <1>5, TwoRoots
  <2>. QED  BY <1>1, <1>3, <1>5, <2>1, TwoRoots
<1>. QED  BY <1>4, <1>5

(* Roots of the same rank: the first is the parent, and its rank grows.    *)
LEMMA MergeEqualInv ==
  ASSUME Inv, MergeEqual
  PROVE  Inv'
<1> DEFINE low == roots[2]  high == roots[1]
<1>1. /\ AllFound("merge") /\ high # low /\ rank[high] = rank[low]
      /\ Hang(low, high)
      /\ rank' = [rank EXCEPT ![high] = rank[high] + 1]
  BY DEF MergeEqual
<1>2. /\ low \in Roots /\ high \in Roots /\ high \in Ids /\ low \in Ids
      /\ rank[high] \in Nat /\ rank[low] \in Nat
  BY <1>1, TwoRoots
<1>. HIDE DEF low, high
<1>3. /\ rank' \in Seq(Nat) /\ Len(rank') = Len(rank)
      /\ \A i \in Ids : rank'[i] = IF i = high THEN rank[high] + 1 ELSE rank[i]
  <2>1. rank \in Seq(Nat) /\ Ids = 1..Len(rank)
    BY DEF Inv, ArraysOK, Ids
  <2>2. high \in 1..Len(rank) /\ rank[high] + 1 \in Nat
    BY <1>2, <2>1
  <2>3. /\ rank' \in Seq(Nat) /\ Len(rank') = Len(rank)
        /\ \A i \in 1..Len(rank) : rank'[i] = IF i = high THEN rank[high] + 1 ELSE rank[i]
    BY <1>1, <2>1, <2>2, ExceptSeq
  <2>. QED  BY <2>1, <2>3
<1>4. rank[low] < rank'[high] /\ rank[high] <= rank'[high]
  BY <1>1, <1>2, <1>3
<1>5. \A i \in Ids : i # high => rank'[i] = rank[i]
  BY <1>3
<1>6. ArraysOK' /\ Forest'
  BY <1>1, <1>2, <1>3, <1>4, <1>5, HangForest DEF Inv
<1>7. ControlOK' /\ Control'
  BY <1>1, EndControl DEF Hang
<1>. QED  BY <1>6, <1>7 DEF Inv

(* make_set() ends.                                                        *)
LEMMA MakeSetInv ==
  ASSUME Inv, Quiet, MakeSetEnds
  PROVE  Inv'
<1> DEFINE v == args[1]
<1>1. op = "make_set" /\ stack = << >> /\ above = 0 /\ v \in Members
  <2>1. op = "make_set" /\ args \in Seq(Members) /\ Len(args) = 1
    BY DEF MakeSetEnds, Inv, ControlOK
  <2>. QED  BY <2>1, ElementOfSeq DEF Quiet
<1>2. op' = "none" /\ args' = << >> /\ roots' = << >> /\ stack' = << >> /\ above' = 0
  BY <1>1 DEF MakeSetEnds, End
<1>3. IF IndexOf(v) # 0 THEN UNCHANGED arrays ELSE Add(v)
  BY DEF MakeSetEnds
<1>. HIDE DEF v
<1>4. ArraysOK' /\ Forest' /\ Len(values') \in Nat
  <2>1. CASE IndexOf(v) # 0
    BY <1>3, <2>1, Elements DEF Inv, ArraysOK, Forest, Distinct, RankRises, CountsRoots,
                         Ids, Roots, arrays
  <2>2. CASE IndexOf(v) = 0
    BY <1>1, <1>3, <2>2, AddEffect, AddForest, Elements DEF Inv
  <2>. QED  BY <2>1, <2>2
<1>5. ControlOK'
  BY <1>2, <1>4, EmptySeq DEF Inv, ControlOK
<1>6. Control'
  BY <1>2, EmptySeq DEF Control, StackClimbs, StackRanks, BackIsRoot, FoundAreRoots, Busy
<1>. QED  BY <1>4, <1>5, <1>6 DEF Inv

(* An operation begins with no call in progress.                           *)
LEMMA BeginInv ==
  ASSUME Inv, NEW what \in {"make_set", "find", "connected", "merge"}, NEW vs \in Seq(Members),
         Len(vs) = (CASE what \in {"make_set", "find"} -> 1 [] OTHER -> 2), Begin(what, vs)
  PROVE  Inv'
<1>1. /\ op = "none" /\ op' = what /\ args' = vs
      /\ UNCHANGED <<values, parent, rank, count, roots, stack, above>>
  BY DEF Begin, arrays
<1>2. roots = << >> /\ stack = << >> /\ above = 0
  <2>1. Len(args) = 0 /\ Len(roots) \in Nat /\ Len(roots) <= 0
    BY <1>1, LenProperties DEF Inv, ControlOK
  <2>2. roots = << >>
    BY <2>1, EmptySeq DEF Inv, ControlOK
  <2>. QED  BY <2>1, <2>2, LenProperties DEF Inv, Control, Busy
<1>3. ArraysOK' /\ Forest' /\ Ids' = Ids
  BY <1>1 DEF Inv, ArraysOK, Forest, Distinct, RankRises, CountsRoots, Ids, Roots
<1>4. Len(vs) \in Nat /\ 0 <= Len(vs)
  BY LenProperties
<1>5. ControlOK'
  BY <1>1, <1>2, <1>3, <1>4, EmptySeq DEF Inv, ControlOK
<1>6. Control'
  BY <1>1, <1>2, EmptySeq DEF Control, StackClimbs, StackRanks, BackIsRoot, FoundAreRoots, Busy
<1>. QED  BY <1>3, <1>5, <1>6 DEF Inv

-----------------------------------------------------------------------------
LEMMA InitInv == DSUInit => Inv /\ Quiet
<1>. SUFFICES ASSUME DSUInit PROVE Inv /\ Quiet
  OBVIOUS
<1>1. Len(values) = 0 /\ Ids = {} /\ Roots = {}
  BY EmptySeq DEF DSUInit, Ids, Roots
<1>2. ArraysOK /\ ControlOK
  BY <1>1, EmptySeq DEF DSUInit, ArraysOK, ControlOK
<1>3. Forest
  BY <1>1, FS_EmptySet DEF DSUInit, Forest, Distinct, RankRises, CountsRoots
<1>4. Control
  BY EmptySeq DEF DSUInit, Control, StackClimbs, StackRanks, BackIsRoot, FoundAreRoots, Busy
<1>5. Quiet
  BY DEF DSUInit, Quiet
<1>. QED  BY <1>2, <1>3, <1>4, <1>5 DEF Inv

(* An operation that has all its roots has no call in progress.            *)
LEMMA AllFoundQuiet ==
  ASSUME Inv, NEW what, AllFound(what)
  PROVE  stack = << >> /\ above = 0
<1>1. Len(roots) = Len(args) /\ Len(args) \in Nat
  BY LenProperties DEF AllFound, Inv, ControlOK
<1>. QED  BY <1>1 DEF Inv, Control, Busy

LEMMA StepQuiet == Inv /\ Quiet /\ [DSUNext]_dsuVars => Quiet'
<1>. SUFFICES ASSUME Inv, Quiet, [DSUNext]_dsuVars PROVE Quiet'
  OBVIOUS
<1>1. ASSUME NEW what, NEW vs, Begin(what, vs) PROVE Quiet'
  BY <1>1 DEF Begin, Quiet
<1>2. CASE FindNext \/ FindParent
  BY <1>2 DEF FindNext, FindParent, Call, Quiet
<1>3. CASE AtRoot \/ Compress \/ Found
  BY <1>3 DEF AtRoot, Compress, Found, Quiet
<1>4. ASSUME NEW r, End(r), stack = << >> /\ above = 0 PROVE Quiet'
  BY <1>4 DEF End, Quiet
<1>5. CASE MakeSetEnds
  BY <1>4, <1>5 DEF MakeSetEnds, Quiet
<1>6. CASE FindEnds \/ ConnectedEnds \/ MergeSame
  BY <1>4, <1>6, AllFoundQuiet DEF FindEnds, ConnectedEnds, MergeSame
<1>7. CASE MergeRanked \/ MergeEqual
  BY <1>4, <1>7, AllFoundQuiet DEF MergeRanked, MergeEqual, Hang
<1>8. CASE UNCHANGED dsuVars
  BY <1>8 DEF dsuVars, Quiet
<1>. QED  BY <1>1, <1>2, <1>3, <1>5, <1>6, <1>7, <1>8 DEF DSUNext, Steps

LEMMA StepInv == Inv /\ Quiet /\ [DSUNext]_dsuVars => Inv'
<1>. SUFFICES ASSUME Inv, Quiet, [DSUNext]_dsuVars PROVE Inv'
  OBVIOUS
<1>1. CASE MakeSetEnds
  BY <1>1, MakeSetInv
<1>2. ASSUME NEW v \in Members, NEW what \in {"make_set", "find"}, Begin(what, <<v>>) PROVE Inv'
  <2>1. <<v>> \in Seq(Members) /\ Len(<<v>>) = 1
    OBVIOUS
  <2>. QED  BY <1>2, <2>1, BeginInv
<1>3. ASSUME NEW v \in Members, NEW w \in Members, NEW what \in {"connected", "merge"},
             Begin(what, <<v, w>>)
      PROVE  Inv'
  <2>1. <<v, w>> \in Seq(Members) /\ Len(<<v, w>>) = 2 /\ what \notin {"make_set", "find"}
    OBVIOUS
  <2>. QED  BY <1>3, <2>1, BeginInv
<1>4. CASE FindNext
  <2>1. /\ stack = << >> /\ above = 0 /\ Len(roots) < Len(args)
        /\ Call(args[Len(roots) + 1])
    BY <1>4 DEF FindNext
  <2>2. Len(roots) + 1 \in 1..Len(args)
    BY <2>1, LenProperties DEF Inv, ControlOK
  <2>3. args[Len(roots) + 1] \in Members
    BY <2>2, ElementOfSeq DEF Inv, ControlOK
  <2>. QED  BY <2>1, <2>3, CallInv
<1>5. CASE FindParent
  <2>1. /\ stack # << >> /\ above = 0 /\ parent[Top] # Top /\ Call(values[parent[Top]])
    BY <1>5 DEF FindParent
  <2>2. Top \in Ids
    BY <2>1, ElementOfSeq, LenProperties, EmptySeq DEF Inv, ControlOK, Top
  <2>3. values[parent[Top]] \in Members
    BY <2>2, Elements DEF Inv
  <2>4. Len(roots) < Len(args)
    BY <2>1 DEF Inv, Control, Busy
  <2>. QED  BY <2>1, <2>3, <2>4, CallInv
<1>6. CASE AtRoot
  BY <1>6, AtRootInv
<1>7. CASE Compress
  BY <1>7, CompressInv
<1>8. CASE Found
  BY <1>8, FoundInv
<1>9. CASE FindEnds
  BY <1>9, EndInv DEF FindEnds
<1>10. CASE ConnectedEnds
  BY <1>10, EndInv DEF ConnectedEnds
<1>11. CASE MergeSame
  BY <1>11, EndInv DEF MergeSame
<1>12. CASE MergeRanked
  BY <1>12, MergeRankedInv
<1>13. CASE MergeEqual
  BY <1>13, MergeEqualInv
<1>14. CASE UNCHANGED dsuVars
  <2>1. UNCHANGED <<values, parent, rank, count, op, args, roots, stack, above>>
    BY <1>14 DEF dsuVars, arrays
  <2>2. ArraysOK' /\ ControlOK'
    BY <2>1 DEF Inv, ArraysOK, ControlOK, Ids
  <2>3. Forest'
    BY <2>1 DEF Inv, Forest, Distinct, RankRises, CountsRoots, Ids, Roots
  <2>4. StackClimbs' /\ StackRanks'
    BY <2>1 DEF Inv, Control, StackClimbs, StackRanks, Ids, Top
  <2>5. BackIsRoot' /\ FoundAreRoots' /\ Busy'
    BY <2>1 DEF Inv, Control, BackIsRoot, FoundAreRoots, Busy, Ids, Roots, Top
  <2>. QED  BY <2>2, <2>3, <2>4, <2>5 DEF Inv, Control
<1>. QED  BY <1>1, <1>2, <1>3, <1>4, <1>5, <1>6, <1>7, <1>8, <1>9, <1>10, <1>11, <1>12,
             <1>13, <1>14 DEF DSUNext, Steps

(* Whatever is merged and found, a parent ranks above its child, in the    *)
(* middle of a path compression too: find_index() climbs no cycle.         *)
THEOREM Acyclic == DSUSpec => []RankRises
<1>1. Inv => RankRises
  BY DEF Inv, Forest
<1>. QED  BY <1>1, InitInv, StepInv, StepQuiet, PTL DEF DSUSpec

(* size() is the number of roots.                                          *)
THEOREM Counted == DSUSpec => []CountsRoots
<1>1. Inv => CountsRoots
  BY DEF Inv, Forest
<1>. QED  BY <1>1, InitInv, StepInv, StepQuiet, PTL DEF DSUSpec

(* No call of find_index() adds a value while a caller waits for it with a *)
(* reference into `parent`: the value it looks for is the value of an      *)
(* index, so index_of() finds it.                                          *)
THEOREM Stable == DSUSpec => NeverGrowsBelow
<1>1. Inv /\ Quiet /\ [DSUNext]_dsuVars => [Len(stack) > 0 => Len(parent') = Len(parent)]_dsuVars
  <2>. SUFFICES ASSUME Inv, Quiet, DSUNext, Len(stack) > 0 PROVE Len(parent') = Len(parent)
    OBVIOUS
  <2>1. stack # << >> /\ op \notin {"none", "make_set"}
    BY EmptySeq DEF Quiet
  <2>2. CASE FindParent
    <3>1. Top \in Ids
      BY <2>1, ElementOfSeq, LenProperties, EmptySeq DEF Inv, ControlOK, Top
    <3>2. parent[Top] \in Ids /\ Call(values[parent[Top]])
      BY <2>2, <3>1, Elements DEF Inv, FindParent
    <3>3. IndexOf(values[parent[Top]]) # 0
      BY <3>2, IndexOfFinds DEF Inv
    <3>. QED  BY <3>2, <3>3 DEF Call, arrays
  <2>3. CASE AtRoot
    BY <2>3 DEF AtRoot, arrays
  <2>4. CASE Compress
    BY <2>4, CompressForest DEF Compress, Inv, ArraysOK, Ids
  <2>5. \A what : AllFound(what) => Len(roots) = Len(args)
    BY DEF AllFound
  <2>6. Len(roots) < Len(args) /\ Len(roots) \in Nat /\ Len(args) \in Nat
    BY <2>1, LenProperties DEF Inv, Control, Busy, ControlOK
  <2>. QED  BY <2>1, <2>2, <2>3, <2>4, <2>5, <2>6
         DEF DSUNext, Steps, MakeSetEnds, Begin, FindNext, Found, FindEnds, ConnectedEnds,
             MergeSame, MergeRanked, MergeEqual
<1>. QED  BY <1>1, InitInv, StepInv, StepQuiet, PTL DEF DSUSpec, NeverGrowsBelow

-----------------------------------------------------------------------------
(* The root of an index is where the path of its parents ends.  The path   *)
(* is stated for any array p of n parents, so that the arrays before and   *)
(* after a step can be compared.                                           *)

RootIn(p, n, i) ==
  LET up[k \in 0..n] == IF k = 0 THEN i ELSE p[up[k - 1]]
  IN  up[n]

(* h is the path from i.                                                   *)
Path(h, p, n, i) ==
  h \in [Nat -> 1..n] /\ h[0] = i /\ \A k \in Nat : h[k + 1] = p[h[k]]

(* p are parents that rise in the ranks rk.                                *)
Ascends(p, n, rk) ==
  /\ n \in Nat /\ p \in [1..n -> 1..n] /\ rk \in [1..n -> Nat]
  /\ \A i \in 1..n : p[i] # i => rk[i] < rk[p[i]]

LEMMA PathExists ==
  ASSUME NEW n \in Nat, NEW p \in [1..n -> 1..n], NEW i \in 1..n
  PROVE  \E h : Path(h, p, n, i) /\ RootIn(p, n, i) = h[n]
<1> DEFINE F == [k \in Nat |-> p]
           Body(f, k) == IF k = 0 THEN i ELSE p[f[k - 1]]
           up == CHOOSE f : f = [k \in 0..n |-> Body(f, k)]
<1>1. F \in [Nat -> [1..n -> 1..n]]
  OBVIOUS
<1>2. PICK h : Recurs(h, 1..n, i, F)
  <2> HIDE DEF F
  <2>. QED  BY <1>1, Recursion
<1>3. Path(h, p, n, i)
  BY <1>2 DEF Recurs, Path
<1>4. [k \in 0..n |-> h[k]] = [k \in 0..n |-> Body([l \in 0..n |-> h[l]], k)]
  <2> SUFFICES ASSUME NEW k \in 0..n PROVE h[k] = Body([l \in 0..n |-> h[l]], k)
    OBVIOUS
  <2>1. CASE k = 0
    BY <1>3, <2>1 DEF Path
  <2>2. CASE k # 0
    <3>1. k - 1 \in Nat /\ k - 1 \in 0..n /\ (k - 1) + 1 = k
      BY <2>2
    <3>. QED  BY <1>3, <2>2, <3>1 DEF Path
  <2>. QED  BY <2>1, <2>2
<1>5. up = [k \in 0..n |-> Body(up, k)]
  BY <1>4
<1> HIDE DEF up
<1> DEFINE P == {k \in Nat : k <= n => up[k] = h[k]}
<1>6. 0 \in P
  BY <1>3, <1>5 DEF Path
<1>7. ASSUME NEW k \in P PROVE k + 1 \in P
  <2> SUFFICES ASSUME k + 1 <= n PROVE up[k + 1] = h[k + 1]
    OBVIOUS
  <2>1. k + 1 \in 0..n /\ (k + 1) - 1 = k /\ k + 1 # 0
    OBVIOUS
  <2>2. up[k + 1] = Body(up, k + 1)
    BY <1>5, <2>1
  <2>3. up[k] = h[k]
    OBVIOUS
  <2>. QED  BY <1>3, <2>1, <2>2, <2>3 DEF Path
<1>8. P = Nat
  <2>1. P \in SUBSET Nat
    OBVIOUS
  <2> HIDE DEF P
  <2>. QED  BY <1>6, <1>7, <2>1, InductiveSet
<1>9. up[n] = h[n]
  BY <1>8
<1>10. RootIn(p, n, i) = up[n]
  BY DEF RootIn, up
<1>. QED  BY <1>3, <1>9, <1>10

(* A path that rises comes to its end within n steps: it visits no index   *)
(* twice.                                                                  *)
LEMMA PathEnds ==
  ASSUME NEW p, NEW n, NEW rk, Ascends(p, n, rk), NEW i, NEW h, Path(h, p, n, i)
  PROVE  p[h[n]] = h[n]
<1>1. /\ n \in Nat /\ h \in [Nat -> 1..n] /\ \A k \in Nat : h[k + 1] = p[h[k]]
      /\ rk \in [1..n -> Nat] /\ \A j \in 1..n : p[j] # j => rk[j] < rk[p[j]]
  BY DEF Ascends, Path
<1>2. ASSUME NEW k \in Nat, p[h[k]] = h[k] PROVE \A l \in Nat : h[k + l] = h[k]
  <2> DEFINE P == {l \in Nat : h[k + l] = h[k]}
  <2>1. 0 \in P
    OBVIOUS
  <2>2. ASSUME NEW l \in P PROVE l + 1 \in P
    <3>1. k + l \in Nat /\ k + (l + 1) = (k + l) + 1
      OBVIOUS
    <3>2. h[(k + l) + 1] = p[h[k + l]] /\ h[k + l] = h[k]
      BY <1>1, <3>1
    <3>3. h[k + (l + 1)] = h[k]
      BY <1>2, <3>1, <3>2
    <3>. QED  BY <3>3
  <2>3. P = Nat
    <3>1. P \in SUBSET Nat
      OBVIOUS
    <3> HIDE DEF P
    <3>. QED  BY <2>1, <2>2, <3>1, InductiveSet
  <2>. QED  BY <2>3
<1>3. SUFFICES ASSUME \A k \in 0..n : p[h[k]] # h[k] PROVE FALSE
  <2>1. SUFFICES ASSUME NEW k \in 0..n, p[h[k]] = h[k] PROVE p[h[n]] = h[n]
    OBVIOUS
  <2>2. n - k \in Nat /\ k \in Nat /\ k + (n - k) = n
    BY <1>1
  <2>3. h[k + (n - k)] = h[k]
    BY <1>2, <2>1, <2>2
  <2>. QED  BY <2>1, <2>2, <2>3
<1>4. ASSUME NEW k \in 0..n
      PROVE  \A l \in Nat : \A m \in 0..n : m = k + l + 1 => rk[h[k]] < rk[h[m]]
  <2> DEFINE P == {l \in Nat : \A m \in 0..n : m = k + l + 1 => rk[h[k]] < rk[h[m]]}
  <2>1. ASSUME NEW m \in 0..n
        PROVE  rk[h[m]] < rk[h[m + 1]] /\ rk[h[m]] \in Nat /\ rk[h[m + 1]] \in Nat
    <3>1. m \in Nat /\ m + 1 \in Nat
      BY <1>1
    <3>2. h[m] \in 1..n /\ h[m + 1] \in 1..n /\ h[m + 1] = p[h[m]] /\ p[h[m]] # h[m]
      BY <1>1, <1>3, <3>1
    <3>. QED  BY <1>1, <3>2
  <2>2. 0 \in P
    <3> SUFFICES ASSUME NEW m \in 0..n, m = k + 0 + 1 PROVE rk[h[k]] < rk[h[m]]
      OBVIOUS
    <3>1. m = k + 1
      BY <1>1
    <3>. QED  BY <2>1, <3>1
  <2>3. ASSUME NEW l \in P PROVE l + 1 \in P
    <3> SUFFICES ASSUME NEW m \in 0..n, m = k + (l + 1) + 1 PROVE rk[h[k]] < rk[h[m]]
      OBVIOUS
    <3>1. k \in Nat /\ m - 1 \in 0..n /\ m - 1 = k + l + 1 /\ (m - 1) + 1 = m
      BY <1>1
    <3>2. rk[h[k]] < rk[h[m - 1]]
      BY <3>1
    <3>3. rk[h[m - 1]] < rk[h[m]] /\ rk[h[m - 1]] \in Nat /\ rk[h[m]] \in Nat
      BY <2>1, <3>1
    <3>. QED  BY <2>1, <3>2, <3>3
  <2>4. P = Nat
    <3>1. P \in SUBSET Nat
      OBVIOUS
    <3> HIDE DEF P
    <3>. QED  BY <2>2, <2>3, <3>1, InductiveSet
  <2>. QED  BY <2>4
<1>5. ASSUME NEW k \in 0..n, NEW l \in 0..n, k < l PROVE h[k] # h[l]
  <2>1. l - k - 1 \in Nat /\ l = k + (l - k - 1) + 1
    BY <1>1, <1>5
  <2>2. rk[h[k]] < rk[h[l]]
    BY <1>4, <2>1
  <2>3. k \in Nat /\ l \in Nat
    BY <1>1
  <2>4. h[k] \in 1..n /\ h[l] \in 1..n
    BY <1>1, <2>3
  <2>5. rk[h[k]] \in Nat /\ rk[h[l]] \in Nat
    BY <1>1, <2>4
  <2>. QED  BY <2>2, <2>5
<1> DEFINE f == [k \in 0..n |-> h[k]]
<1>6. f \in [0..n -> 1..n]
  <2>1. \A k \in 0..n : k \in Nat
    BY <1>1
  <2>2. \A k \in 0..n : h[k] \in 1..n
    BY <1>1, <2>1
  <2>. QED  BY <2>2
<1>7. /\ IsFiniteSet(0..n) /\ Cardinality(0..n) = n + 1
      /\ IsFiniteSet(1..n) /\ Cardinality(1..n) = n
  <2>1. /\ n \in Int /\ 0 \in Int /\ 1 \in Int /\ ~(0 > n)
        /\ (1 > n => n = 0) /\ n - 0 + 1 = n + 1 /\ n - 1 + 1 = n
    BY <1>1
  <2>. QED  BY <2>1, FS_Interval
<1>8. Cardinality(1..n) < Cardinality(0..n)
  BY <1>1, <1>7
<1>9. \E x, y \in 0..n : x # y /\ f[x] = f[y]
  <2> HIDE DEF f
  <2>. QED  BY <1>6, <1>7, <1>8, FS_PigeonHole
<1>10. PICK x \in 0..n, y \in 0..n : x # y /\ h[x] = h[y]
  BY <1>9
<1>. QED  BY <1>1, <1>5, <1>10

LEMMA RootFacts ==
  ASSUME NEW p, NEW n, NEW rk, Ascends(p, n, rk), NEW i \in 1..n
  PROVE  /\ RootIn(p, n, i) \in 1..n
         /\ p[RootIn(p, n, i)] = RootIn(p, n, i)
         /\ p[i] = i => RootIn(p, n, i) = i
         /\ RootIn(p, n, p[i]) = RootIn(p, n, i)
<1>1. n \in Nat /\ p \in [1..n -> 1..n]
  BY DEF Ascends
<1>2. PICK h : Path(h, p, n, i) /\ RootIn(p, n, i) = h[n]
  BY <1>1, PathExists
<1>3. PICK g : Path(g, p, n, p[i]) /\ RootIn(p, n, p[i]) = g[n]
  BY <1>1, PathExists
<1>4. p[h[n]] = h[n] /\ h[n] \in 1..n
  <2>1. p[h[n]] = h[n]
    BY <1>2, PathEnds
  <2>. QED  BY <1>1, <1>2, <2>1 DEF Path
<1>5. \A k \in Nat : g[k] = h[k + 1]
  <2> DEFINE P == {k \in Nat : g[k] = h[k + 1]}
  <2>1. 0 \in P
    BY <1>2, <1>3 DEF Path
  <2>2. ASSUME NEW k \in P PROVE k + 1 \in P
    <3>1. k \in Nat /\ k + 1 \in Nat
      OBVIOUS
    <3>. QED  BY <1>2, <1>3, <3>1 DEF Path
  <2>3. P = Nat
    <3>1. P \in SUBSET Nat
      OBVIOUS
    <3> HIDE DEF P
    <3>. QED  BY <2>1, <2>2, <3>1, InductiveSet
  <2>. QED  BY <2>3
<1>6. p[i] = i => h[n] = i
  <2> SUFFICES ASSUME p[i] = i PROVE h[n] = i
    OBVIOUS
  <2> DEFINE P == {k \in Nat : h[k] = i}
  <2>1. 0 \in P
    BY <1>2 DEF Path
  <2>2. ASSUME NEW k \in P PROVE k + 1 \in P
    BY <1>2 DEF Path
  <2>3. P = Nat
    <3>1. P \in SUBSET Nat
      OBVIOUS
    <3> HIDE DEF P
    <3>. QED  BY <2>1, <2>2, <3>1, InductiveSet
  <2>. QED  BY <1>1, <2>3
<1>7. g[n] = h[n]
  BY <1>1, <1>2, <1>4, <1>5 DEF Path
<1>. QED  BY <1>2, <1>3, <1>4, <1>6, <1>7

(* What is the same for an index and its parent, and a root's is itself,   *)
(* is the root.                                                            *)
LEMMA RootUnique ==
  ASSUME NEW p, NEW n, NEW rk, Ascends(p, n, rk), NEW g,
         \A i \in 1..n : (p[i] = i => g[i] = i) /\ g[p[i]] = g[i]
  PROVE  \A i \in 1..n : RootIn(p, n, i) = g[i]
<1> SUFFICES ASSUME NEW i \in 1..n PROVE RootIn(p, n, i) = g[i]
  OBVIOUS
<1>1. n \in Nat /\ p \in [1..n -> 1..n]
  BY DEF Ascends
<1>2. PICK h : Path(h, p, n, i) /\ RootIn(p, n, i) = h[n]
  BY <1>1, PathExists
<1>3. \A k \in Nat : g[h[k]] = g[i]
  <2> DEFINE P == {k \in Nat : g[h[k]] = g[i]}
  <2>1. 0 \in P
    BY <1>2 DEF Path
  <2>2. ASSUME NEW k \in P PROVE k + 1 \in P
    BY <1>2 DEF Path
  <2>3. P = Nat
    <3>1. P \in SUBSET Nat
      OBVIOUS
    <3> HIDE DEF P
    <3>. QED  BY <2>1, <2>2, <3>1, InductiveSet
  <2>. QED  BY <2>3
<1>4. p[h[n]] = h[n] /\ h[n] \in 1..n
  <2>1. p[h[n]] = h[n]
    BY <1>2, PathEnds
  <2>. QED  BY <1>1, <1>2, <2>1 DEF Path
<1>. QED  BY <1>1, <1>2, <1>3, <1>4

-----------------------------------------------------------------------------
(* index_of() and the root, for the arrays before and after a step.        *)
IndexIn(vs, v) ==
  LET holds == { i \in 1..Len(vs) : vs[i] = v }
  IN  IF holds = {} THEN 0 ELSE Min(holds)

LEMMA InArrays ==
  /\ \A v : IndexOf(v) = IndexIn(values, v) /\ IndexOf(v)' = IndexIn(values', v)
  /\ \A i : /\ RootOf(i) = RootIn(parent, Len(values), i)
            /\ RootOf(i)' = RootIn(parent', Len(values'), i)
BY DEF IndexOf, IndexIn, Ids, RootOf, RootIn

LEMMA IndexIs ==
  ASSUME NEW vs \in Seq(Members), \A i, j \in 1..Len(vs) : vs[i] = vs[j] => i = j
  PROVE  /\ \A i \in 1..Len(vs) : IndexIn(vs, vs[i]) = i
         /\ \A v : IndexIn(vs, v) # 0 => IndexIn(vs, v) \in 1..Len(vs) /\ vs[IndexIn(vs, v)] = v
<1>1. Len(vs) \in Nat
  OBVIOUS
<1>2. ASSUME NEW v
      PROVE  /\ IndexIn(vs, v) # 0 => IndexIn(vs, v) \in 1..Len(vs) /\ vs[IndexIn(vs, v)] = v
             /\ (\E i \in 1..Len(vs) : vs[i] = v) => IndexIn(vs, v) # 0
  <2> DEFINE H == { i \in 1..Len(vs) : vs[i] = v }
  <2>1. CASE H = {}
    BY <2>1 DEF IndexIn
  <2>2. CASE H # {}
    <3>1. H \in SUBSET Nat
      BY <1>1
    <3>2. \E x \in H : \A y \in H : x <= y
      BY <2>2, <3>1, LeastElement
    <3>3. Min(H) \in H
      BY <3>2 DEF Min
    <3>4. IndexIn(vs, v) = Min(H)
      BY <2>2 DEF IndexIn
    <3>. QED  BY <1>1, <3>3, <3>4
  <2>. QED  BY <2>1, <2>2
<1>3. ASSUME NEW i \in 1..Len(vs) PROVE IndexIn(vs, vs[i]) = i
  <2>1. /\ IndexIn(vs, vs[i]) \in 1..Len(vs)
        /\ vs[IndexIn(vs, vs[i])] = vs[i]
    BY <1>2
  <2>. QED  BY <2>1
<1>. QED  BY <1>2, <1>3

LEMMA AscendsIs ==
  ASSUME NEW n \in Nat, NEW p \in Seq(1..n), Len(p) = n, NEW rk \in Seq(Nat), Len(rk) = n,
         \A i \in 1..n : p[i] # i => rk[i] < rk[p[i]]
  PROVE  Ascends(p, n, rk)
<1>1. p \in [1..n -> 1..n] /\ rk \in [1..n -> Nat]
  BY LenProperties
<1>. QED  BY <1>1 DEF Ascends

LEMMA InvAscends ==
  /\ Inv => Ascends(parent, Len(values), rank)
  /\ Inv' => Ascends(parent', Len(values'), rank')
<1>1. ASSUME Inv PROVE Ascends(parent, Len(values), rank)
  BY <1>1, AscendsIs, Elements DEF Inv, ArraysOK, Forest, RankRises, Ids
<1>2. ASSUME Inv' PROVE Ascends(parent', Len(values'), rank')
  <2>1. Len(values') \in Nat
    BY <1>2 DEF Inv, ArraysOK
  <2>. QED  BY <1>2, <2>1, AscendsIs DEF Inv, ArraysOK, Forest, RankRises, Ids
<1>. QED  BY <1>1, <1>2

(* What the invariant says of index_of() and of the roots.                 *)
LEMMA KnownIndices ==
  ASSUME Inv
  PROVE  /\ \A i \in Ids : IndexOf(values[i]) = i
         /\ \A v : IndexOf(v) # 0 => IndexOf(v) \in Ids /\ values[IndexOf(v)] = v
         /\ \A i \in Ids : /\ RootOf(i) \in Roots /\ RootOf(i) \in Ids
                           /\ RootOf(parent[i]) = RootOf(i)
                           /\ i \in Roots => RootOf(i) = i
<1>1. Ascends(parent, Len(values), rank)
  BY InvAscends
<1>2. values \in Seq(Members) /\ \A i, j \in 1..Len(values) : values[i] = values[j] => i = j
  BY DEF Inv, ArraysOK, Forest, Distinct, Ids
<1>3. /\ \A i \in 1..Len(values) : IndexIn(values, values[i]) = i
      /\ \A v : IndexIn(values, v) # 0 =>
           IndexIn(values, v) \in 1..Len(values) /\ values[IndexIn(values, v)] = v
  BY <1>2, IndexIs
<1>4. \A i \in 1..Len(values) :
        /\ RootIn(parent, Len(values), i) \in 1..Len(values)
        /\ parent[RootIn(parent, Len(values), i)] = RootIn(parent, Len(values), i)
        /\ parent[i] = i => RootIn(parent, Len(values), i) = i
        /\ RootIn(parent, Len(values), parent[i]) = RootIn(parent, Len(values), i)
  BY <1>1, RootFacts
<1>. QED  BY <1>3, <1>4, InArrays DEF Ids, Roots

(* What stays where values are added and no parent changes.                *)
LEMMA Grows ==
  ASSUME Inv, Inv', Ids \subseteq Ids',
         \A i \in Ids : values'[i] = values[i] /\ parent'[i] = parent[i]
  PROVE  /\ \A v : IndexOf(v) # 0 => IndexOf(v)' = IndexOf(v)
         /\ \A i \in Ids : RootOf(i)' = RootOf(i)
<1> DEFINE n == Len(values)  m == Len(values')
<1>1. Ascends(parent, n, rank) /\ Ascends(parent', m, rank')
  BY InvAscends
<1>2. Ids = 1..n /\ Ids' = 1..m
  BY DEF Ids
<1>3. \A i \in 1..m : /\ parent'[i] = i => RootIn(parent', m, i) = i
                      /\ RootIn(parent', m, parent'[i]) = RootIn(parent', m, i)
  BY <1>1, RootFacts
<1> HIDE DEF n, m
<1>4. \A i \in 1..n : RootIn(parent, n, i) = RootIn(parent', m, i)
  <2> DEFINE g == [i \in 1..m |-> RootIn(parent', m, i)]
  <2>1. \A i \in 1..n : parent[i] \in 1..n
    BY <1>1 DEF Ascends
  <2>2. \A i \in 1..n : (parent[i] = i => g[i] = i) /\ g[parent[i]] = g[i]
    BY <1>2, <1>3, <2>1
  <2>3. \A i \in 1..n : RootIn(parent, n, i) = g[i]
    <3> HIDE DEF g
    <3>. QED  BY <1>1, <2>2, RootUnique
  <2>. QED  BY <1>2, <2>3
<1>5. \A i \in Ids : RootOf(i)' = RootOf(i)
  BY <1>2, <1>4, InArrays DEF n, m
<1>6. ASSUME NEW v, IndexOf(v) # 0 PROVE IndexOf(v)' = IndexOf(v)
  <2>1. IndexOf(v) \in Ids /\ values'[IndexOf(v)] = v
    BY <1>6, KnownIndices
  <2>2. \A i \in 1..Len(values') : IndexIn(values', values'[i]) = i
    BY IndexIs DEF Inv, ArraysOK, Forest, Distinct, Ids
  <2>. QED  BY <1>2, <2>1, <2>2, InArrays DEF m
<1>. QED  BY <1>5, <1>6

(* And where one index gets another parent: g is what the roots become.    *)
LEMMA Moves ==
  ASSUME Inv, Inv', values' = values, NEW g,
         \A i \in Ids : (parent'[i] = i => g[i] = i) /\ g[parent'[i]] = g[i]
  PROVE  \A i \in Ids : RootOf(i)' = g[i]
<1>1. Ascends(parent', Len(values), rank')
  BY InvAscends
<1>2. \A i \in 1..Len(values) : RootIn(parent', Len(values), i) = g[i]
  BY <1>1, RootUnique DEF Ids
<1>. QED  BY <1>2, InArrays DEF Ids

LEMMA CompressRoots ==
  ASSUME Inv, Inv', Compress, RootOf(Top) = above
  PROVE  \A i \in Ids : RootOf(i)' = RootOf(i)
<1> DEFINE g == [i \in Ids |-> RootOf(i)]
<1>1. stack # << >> /\ above # 0 /\ parent' = [parent EXCEPT ![Top] = above] /\ values' = values
      /\ Pop
  BY DEF Compress
<1>2. Top \in Ids /\ above \in Ids /\ above \in Roots /\ Top \notin Roots
  BY <1>1, PopEffect DEF Inv, Control, BackIsRoot, Roots
<1>3. \A i \in Ids : parent'[i] = IF i = Top THEN above ELSE parent[i]
  BY <1>1, <1>2, Reparent DEF Inv
<1>4. \A i \in Ids : parent[i] \in Ids
  BY Elements DEF Inv
<1>5. ASSUME NEW i \in Ids PROVE (parent'[i] = i => g[i] = i) /\ g[parent'[i]] = g[i]
  <2>1. CASE i = Top
    BY <1>2, <1>3, <2>1, KnownIndices
  <2>2. CASE i # Top
    BY <1>3, <1>4, <2>2, KnownIndices DEF Roots
  <2>. QED  BY <2>1, <2>2
<1>6. \A i \in Ids : RootOf(i)' = g[i]
  <2> HIDE DEF g
  <2>. QED  BY <1>1, <1>5, Moves
<1>. QED  BY <1>6

LEMMA HangRoots ==
  ASSUME Inv, Inv', NEW low \in Roots, NEW high \in Roots, low # high, Hang(low, high)
  PROVE  \A i \in Ids : RootOf(i)' = IF RootOf(i) = low THEN high ELSE RootOf(i)
<1> DEFINE g == [i \in Ids |-> IF RootOf(i) = low THEN high ELSE RootOf(i)]
<1>1. low \in Ids /\ high \in Ids /\ parent[low] = low /\ parent[high] = high
  BY DEF Roots
<1>2. \A i \in Ids : parent'[i] = IF i = low THEN high ELSE parent[i]
  BY <1>1, Reparent DEF Inv, Hang
<1>3. \A i \in Ids : parent[i] \in Ids
  BY Elements DEF Inv
<1>4. ASSUME NEW i \in Ids PROVE (parent'[i] = i => g[i] = i) /\ g[parent'[i]] = g[i]
  <2>1. CASE i = low
    BY <1>1, <1>2, <2>1, KnownIndices
  <2>2. CASE i # low
    BY <1>2, <1>3, <2>2, KnownIndices DEF Roots
  <2>. QED  BY <2>1, <2>2
<1>5. \A i \in Ids : RootOf(i)' = g[i]
  <2>1. values' = values
    BY DEF Hang
  <2> HIDE DEF g
  <2>. QED  BY <1>4, <2>1, Moves
<1>. QED  BY <1>5

-----------------------------------------------------------------------------
(* What an operation in progress looks for: the roots found so far are     *)
(* those of its arguments, and the calls of find_index() are on the way to *)
(* the root of the next, or back from it.                                  *)
RootOfValue(p, vs, v) == RootIn(p, Len(vs), IndexIn(vs, v))

Sought ==
  /\ \A k \in 1..Len(roots) :
       /\ IndexIn(values, args[k]) # 0
       /\ roots[k] = RootOfValue(parent, values, args[k])
  /\ stack # << >> \/ above # 0 =>
       /\ IndexIn(values, args[Len(roots) + 1]) # 0
       /\ stack # << >> =>
            RootIn(parent, Len(values), Top) = RootOfValue(parent, values, args[Len(roots) + 1])
       /\ above # 0 => above = RootOfValue(parent, values, args[Len(roots) + 1])

(* A step after which what was known is known, and has the same root.      *)
Settled ==
  /\ \A v : IndexIn(values, v) # 0 => IndexIn(values', v) = IndexIn(values, v)
  /\ \A i \in Ids : RootIn(parent', Len(values'), i) = RootIn(parent, Len(values), i)

LEMMA SettledRoots ==
  ASSUME Inv, Settled, NEW v, IndexIn(values, v) # 0
  PROVE  /\ IndexIn(values', v) # 0
         /\ RootOfValue(parent', values', v) = RootOfValue(parent, values, v)
<1>1. IndexIn(values, v) \in Ids
  BY KnownIndices, InArrays
<1>. QED  BY <1>1 DEF Settled, RootOfValue

LEMMA SettledFound ==
  ASSUME Inv, Sought, Settled, args' = args, roots' = roots
  PROVE  \A k \in 1..Len(roots') :
           /\ IndexIn(values', args'[k]) # 0
           /\ roots'[k] = RootOfValue(parent', values', args'[k])
BY SettledRoots DEF Sought

LEMMA StaysSettled ==
  ASSUME Inv, Inv', values' = values, parent' = parent
  PROVE  Settled
BY DEF Settled

LEMMA CallSettled ==
  ASSUME Inv, Inv', NEW v \in Members, Call(v)
  PROVE  Settled
<1>1. Ids \subseteq Ids' /\ \A i \in Ids : values'[i] = values[i] /\ parent'[i] = parent[i]
  BY CallEffect DEF Inv
<1>. QED  BY <1>1, Grows, InArrays DEF Settled

(* A call puts the index of its value on the stack.                        *)
LEMMA CallFinds ==
  ASSUME Inv, Inv', NEW v \in Members, Call(v)
  PROVE  /\ IndexIn(values', v) # 0 /\ Top' = IndexIn(values', v) /\ stack' # << >>
         /\ UNCHANGED <<op, args, roots, above, answer>>
<1>1. PICK j \in Ids' : stack' = Append(stack, j) /\ values'[j] = v
  BY CallEffect DEF Inv
<1>2. stack' \in Seq(Ids') /\ stack' # << >> /\ Top' = j
  <2>1. stack \in Seq(Ids')
    <3>1. Ids \subseteq Ids'
      BY CallEffect DEF Inv
    <3>. QED  BY <3>1 DEF Inv, ControlOK
  <2>2. Len(stack') = Len(stack) + 1 /\ stack'[Len(stack) + 1] = j /\ stack' # << >>
    BY <1>1, <2>1, AppendProperties
  <2>. QED  BY <1>1, <2>1, <2>2 DEF Top
<1>3. \A i \in 1..Len(values') : IndexIn(values', values'[i]) = i
  BY IndexIs DEF Inv, ArraysOK, Forest, Distinct, Ids
<1>4. j # 0 /\ j \in 1..Len(values')
  BY DEF Ids
<1>. QED  BY <1>1, <1>2, <1>3, <1>4 DEF Call

LEMMA SoughtFindNext ==
  ASSUME Inv, Inv', Sought, FindNext
  PROVE  Sought'
<1>1. /\ stack = << >> /\ above = 0 /\ Len(roots) < Len(args) /\ Call(args[Len(roots) + 1])
  BY DEF FindNext
<1>2. args[Len(roots) + 1] \in Members
  <2>1. Len(roots) + 1 \in 1..Len(args)
    BY <1>1, LenProperties DEF Inv, ControlOK
  <2>. QED  BY <2>1, ElementOfSeq DEF Inv, ControlOK
<1>3. /\ IndexIn(values', args[Len(roots) + 1]) # 0
      /\ Top' = IndexIn(values', args[Len(roots) + 1])
      /\ args' = args /\ roots' = roots /\ above' = above
  BY <1>1, <1>2, CallFinds
<1>4. Settled
  BY <1>1, <1>2, CallSettled
<1>5. \A k \in 1..Len(roots') : /\ IndexIn(values', args'[k]) # 0
                                /\ roots'[k] = RootOfValue(parent', values', args'[k])
  BY <1>3, <1>4, SettledFound
<1>. QED  BY <1>1, <1>3, <1>5 DEF Sought, RootOfValue

LEMMA SoughtFindParent ==
  ASSUME Inv, Inv', Sought, FindParent
  PROVE  Sought'
<1> DEFINE v == args[Len(roots) + 1]
           w == values[parent[Top]]
<1>1. stack # << >> /\ above = 0 /\ parent[Top] # Top /\ Call(w)
  BY DEF FindParent
<1>2. Top \in Ids
  BY <1>1, ElementOfSeq, LenProperties, EmptySeq DEF Inv, ControlOK, Top
<1>3. parent[Top] \in Ids /\ w \in Members
  BY <1>2, Elements DEF Inv
<1>4. IndexOf(w) = parent[Top] /\ parent[Top] # 0 /\ RootOf(parent[Top]) = RootOf(Top)
  BY <1>2, <1>3, KnownIndices DEF Ids
<1>5. Settled
  BY <1>1, <1>3, CallSettled
<1>6. /\ Top' = IndexIn(values', w) /\ args' = args /\ roots' = roots /\ above' = above
  BY <1>1, <1>3, CallFinds
<1>7. IndexIn(values, w) = parent[Top]
      /\ RootIn(parent, Len(values), parent[Top]) = RootIn(parent, Len(values), Top)
  BY <1>4, InArrays
<1>8. Top' = parent[Top] /\ RootIn(parent', Len(values'), Top') = RootIn(parent, Len(values), Top)
  BY <1>3, <1>4, <1>5, <1>6, <1>7 DEF Settled
<1>9. /\ IndexIn(values, v) # 0
      /\ RootIn(parent, Len(values), Top) = RootOfValue(parent, values, v)
  BY <1>1 DEF Sought
<1>10. /\ IndexIn(values', v) # 0
       /\ RootOfValue(parent', values', v) = RootOfValue(parent, values, v)
  BY <1>5, <1>9, SettledRoots
<1>11. \A k \in 1..Len(roots') : /\ IndexIn(values', args'[k]) # 0
                                 /\ roots'[k] = RootOfValue(parent', values', args'[k])
  BY <1>5, <1>6, SettledFound
<1>. QED  BY <1>1, <1>6, <1>8, <1>9, <1>10, <1>11 DEF Sought

LEMMA SoughtAtRoot ==
  ASSUME Inv, Inv', Sought, AtRoot
  PROVE  Sought'
<1>1. stack # << >> /\ Pop /\ above = 0 /\ parent[Top] = Top /\ above' = Top
      /\ UNCHANGED <<values, parent, args, roots>>
  BY DEF AtRoot, arrays
<1>2. Top \in Ids /\ (stack' # << >> => Top' \in Ids /\ parent[Top'] = Top)
  BY <1>1, PopEffect
<1>3. RootOf(Top) = Top /\ (stack' # << >> => RootOf(parent[Top']) = RootOf(Top'))
  BY <1>1, <1>2, KnownIndices DEF Roots
<1>4. /\ RootIn(parent, Len(values), Top) = Top
      /\ stack' # << >> =>
           RootIn(parent, Len(values), Top') = RootIn(parent, Len(values), Top)
  BY <1>2, <1>3, InArrays
<1>. QED  BY <1>1, <1>4 DEF Sought

LEMMA SoughtCompress ==
  ASSUME Inv, Inv', Sought, Compress
  PROVE  Sought' /\ Settled
<1> DEFINE v == args[Len(roots) + 1]
<1>1. stack # << >> /\ above # 0 /\ Pop /\ UNCHANGED <<values, args, roots, above>>
  BY DEF Compress
<1>2. Top \in Ids /\ (stack' # << >> => Top' \in Ids /\ parent[Top'] = Top)
  BY <1>1, PopEffect
<1>3. /\ IndexIn(values, v) # 0
      /\ RootIn(parent, Len(values), Top) = RootOfValue(parent, values, v)
      /\ above = RootOfValue(parent, values, v)
  BY <1>1 DEF Sought
<1>4. \A i \in Ids : RootOf(i)' = RootOf(i)
  <2>1. RootOf(Top) = above
    BY <1>3, InArrays
  <2>. QED  BY <2>1, CompressRoots
<1>5. Settled
  BY <1>1, <1>4, InArrays DEF Settled
<1>6. stack' # << >> => /\ RootIn(parent', Len(values'), Top') = RootIn(parent, Len(values), Top')
                        /\ RootIn(parent, Len(values), Top') = RootIn(parent, Len(values), Top)
  BY <1>2, <1>5, KnownIndices, InArrays DEF Settled
<1>7. /\ IndexIn(values', v) # 0
      /\ RootOfValue(parent', values', v) = RootOfValue(parent, values, v)
  BY <1>3, <1>5, SettledRoots
<1>8. \A k \in 1..Len(roots') : /\ IndexIn(values', args'[k]) # 0
                                /\ roots'[k] = RootOfValue(parent', values', args'[k])
  BY <1>1, <1>5, SettledFound
<1>. QED  BY <1>1, <1>3, <1>5, <1>6, <1>7, <1>8 DEF Sought

LEMMA SoughtFound ==
  ASSUME Inv, Inv', Sought, Found
  PROVE  Sought'
<1>1. /\ stack = << >> /\ above # 0 /\ roots' = Append(roots, above) /\ above' = 0
      /\ UNCHANGED <<values, parent, args, stack>>
  BY DEF Found, arrays
<1>2. roots \in Seq(Ids) /\ above \in Ids
  BY <1>1 DEF Inv, ControlOK, Control, BackIsRoot, Roots
<1>3. /\ Len(roots) \in Nat /\ Len(roots') = Len(roots) + 1
      /\ \A k \in 1..Len(roots) : roots'[k] = roots[k]
      /\ roots'[Len(roots) + 1] = above
  BY <1>1, <1>2, AppendProperties, LenProperties
<1>4. ASSUME NEW k \in 1..Len(roots')
      PROVE  /\ IndexIn(values, args[k]) # 0
             /\ roots'[k] = RootOfValue(parent, values, args[k])
  <2>1. CASE k = Len(roots) + 1
    BY <1>1, <1>3, <2>1 DEF Sought
  <2>2. CASE k # Len(roots) + 1
    <3>1. k \in 1..Len(roots)
      BY <1>3, <2>2
    <3>. QED  BY <1>3, <3>1 DEF Sought
  <2>. QED  BY <2>1, <2>2
<1>. QED  BY <1>1, <1>4 DEF Sought

LEMMA SoughtIdle ==
  ASSUME roots' = << >>, stack' = << >>, above' = 0
  PROVE  Sought'
BY EmptySeq DEF Sought

LEMMA BeginIdle ==
  ASSUME Inv, NEW what, NEW vs, Begin(what, vs)
  PROVE  /\ roots = << >> /\ stack = << >> /\ above = 0
         /\ roots' = << >> /\ stack' = << >> /\ above' = 0
<1>1. op = "none" /\ roots' = roots /\ stack' = stack /\ above' = above
  BY DEF Begin
<1>2. Len(args) = 0 /\ Len(roots) \in Nat /\ Len(roots) <= 0
  BY <1>1, LenProperties DEF Inv, ControlOK
<1>3. roots = << >>
  BY <1>2, EmptySeq DEF Inv, ControlOK
<1>. QED  BY <1>1, <1>2, <1>3, LenProperties DEF Inv, Control, Busy

LEMMA EndIdle ==
  ASSUME Inv, Quiet, NEW r, End(r), op = "make_set" \/ \E what : AllFound(what)
  PROVE  roots' = << >> /\ stack' = << >> /\ above' = 0 /\ stack = << >> /\ above = 0
<1>1. stack = << >> /\ above = 0
  BY AllFoundQuiet DEF Quiet
<1>. QED  BY <1>1 DEF End

LEMMA SoughtStep ==
  ASSUME Inv, Quiet, Sought, Inv', [DSUNext]_dsuVars
  PROVE  Sought'
<1>1. ASSUME NEW what, NEW vs, Begin(what, vs) PROVE Sought'
  BY <1>1, BeginIdle, SoughtIdle
<1>2. CASE FindNext
  BY <1>2, SoughtFindNext
<1>3. CASE FindParent
  BY <1>3, SoughtFindParent
<1>4. CASE AtRoot
  BY <1>4, SoughtAtRoot
<1>5. CASE Compress
  BY <1>5, SoughtCompress
<1>6. CASE Found
  BY <1>6, SoughtFound
<1>7. ASSUME NEW r, End(r), op = "make_set" \/ \E what : AllFound(what) PROVE Sought'
  BY <1>7, EndIdle, SoughtIdle
<1>8. CASE MakeSetEnds
  BY <1>7, <1>8 DEF MakeSetEnds
<1>9. CASE FindEnds \/ ConnectedEnds \/ MergeSame
  BY <1>7, <1>9 DEF FindEnds, ConnectedEnds, MergeSame
<1>10. CASE MergeRanked \/ MergeEqual
  BY <1>7, <1>10 DEF MergeRanked, MergeEqual, Hang
<1>11. CASE UNCHANGED dsuVars
  BY <1>11 DEF dsuVars, arrays, Sought, Top
<1>. QED  BY <1>1, <1>2, <1>3, <1>4, <1>5, <1>6, <1>8, <1>9, <1>10, <1>11 DEF DSUNext, Steps

-----------------------------------------------------------------------------
(* The leaders, for the arrays before and after a step.                    *)
LeaderIn(p, vs) ==
  [v \in { vs[i] : i \in 1..Len(vs) } |-> vs[RootIn(p, Len(vs), IndexIn(vs, v))]]

LEMMA LeaderIs ==
  Leader = LeaderIn(parent, values) /\ Leader' = LeaderIn(parent', values')
BY DEF Leader, LeaderIn, RootOf, RootIn, IndexOf, IndexIn, Ids

LEMMA LeaderOf ==
  /\ Inv => /\ DOMAIN Leader = { values[i] : i \in Ids }
            /\ \A i \in Ids : Leader[values[i]] = values[RootOf(i)]
  /\ Inv' => /\ DOMAIN Leader' = { values'[i] : i \in Ids' }
             /\ \A i \in Ids' : Leader'[values'[i]] = values'[RootIn(parent', Len(values'), i)]
<1>1. ASSUME Inv
      PROVE  /\ DOMAIN Leader = { values[i] : i \in Ids }
             /\ \A i \in Ids : Leader[values[i]] = values[RootOf(i)]
  <2>1. \A i \in 1..Len(values) : IndexIn(values, values[i]) = i
    BY <1>1, IndexIs DEF Inv, ArraysOK, Forest, Distinct, Ids
  <2>. QED  BY <2>1, LeaderIs, InArrays DEF LeaderIn, Ids
<1>2. ASSUME Inv'
      PROVE  /\ DOMAIN Leader' = { values'[i] : i \in Ids' }
             /\ \A i \in Ids' : Leader'[values'[i]] = values'[RootIn(parent', Len(values'), i)]
  <2>1. \A i \in 1..Len(values') : IndexIn(values', values'[i]) = i
    BY <1>2, IndexIs DEF Inv, ArraysOK, Forest, Distinct, Ids
  <2>. QED  BY <2>1, LeaderIs DEF LeaderIn, Ids
<1>. QED  BY <1>1, <1>2

LEMMA LeaderKeeps ==
  ASSUME Inv, Inv', values' = values, Settled
  PROVE  Leader' = Leader
<1>1. \A i \in Ids : RootIn(parent', Len(values'), i) = RootIn(parent, Len(values), i)
  BY DEF Settled
<1>2. \A v : v \in { values[i] : i \in 1..Len(values) } => IndexIn(values, v) \in Ids
  <2>1. \A i \in Ids : IndexOf(values[i]) = i
    BY KnownIndices
  <2>. QED  BY <2>1, InArrays DEF Ids
<1>. QED  BY <1>1, <1>2, LeaderIs DEF LeaderIn

LEMMA LeaderAlone ==
  ASSUME Inv, Inv', NEW v \in Members, Add(v), IndexOf(v) = 0, Settled
  PROVE  /\ v \notin DOMAIN Leader
         /\ Leader' = [w \in DOMAIN Leader \union {v} |-> IF w = v THEN v ELSE Leader[w]]
<1> DEFINE n == Len(values)
<1>1. /\ Ids' = Ids \union {n + 1} /\ values'[n + 1] = v /\ parent'[n + 1] = n + 1
      /\ \A i \in Ids : values'[i] = values[i] /\ parent'[i] = parent[i]
  BY AddEffect DEF Inv
<1>2. \A i \in Ids : values[i] # v
  BY IndexOfFinds DEF Inv
<1>3. /\ DOMAIN Leader = { values[i] : i \in Ids }
      /\ \A i \in Ids : Leader[values[i]] = values[RootOf(i)]
      /\ DOMAIN Leader' = { values'[i] : i \in Ids' }
      /\ \A i \in Ids' : Leader'[values'[i]] = values'[RootIn(parent', Len(values'), i)]
  BY LeaderOf
<1>4. RootIn(parent', Len(values'), n + 1) = n + 1
  <2>1. Ascends(parent', Len(values'), rank')
    BY InvAscends
  <2>2. n + 1 \in 1..Len(values') /\ parent'[n + 1] = n + 1
    BY <1>1 DEF Ids
  <2> HIDE DEF n
  <2>. QED  BY <2>1, <2>2, RootFacts
<1> HIDE DEF n
<1>5. \A i \in Ids : RootIn(parent', Len(values'), i) = RootOf(i) /\ RootOf(i) \in Ids
  BY InArrays, KnownIndices DEF Settled
<1>6. \A i \in Ids : Leader'[values[i]] = Leader[values[i]]
  BY <1>1, <1>3, <1>5
<1>7. Leader'[v] = v
  BY <1>1, <1>3, <1>4
<1>8. DOMAIN Leader' = DOMAIN Leader \union {v} /\ v \notin DOMAIN Leader
  BY <1>1, <1>2, <1>3
<1>9. Leader' = [w \in DOMAIN Leader' |-> Leader'[w]]
  BY LeaderIs DEF LeaderIn
<1>10. \A w \in DOMAIN Leader' : Leader'[w] = IF w = v THEN v ELSE Leader[w]
  <2> SUFFICES ASSUME NEW w \in DOMAIN Leader, w # v PROVE Leader'[w] = Leader[w]
    BY <1>7, <1>8
  <2>1. PICK i \in Ids : w = values[i]
    BY <1>3
  <2>. QED  BY <1>6, <2>1
<1>. QED  BY <1>8, <1>9, <1>10

LEMMA LeaderMerged ==
  ASSUME Inv, Inv', NEW low \in Roots, NEW high \in Roots, low # high, Hang(low, high)
  PROVE  Leader' = [u \in DOMAIN Leader |->
                      IF Leader[u] \in {values[low], values[high]} THEN values[high] ELSE Leader[u]]
<1>1. values' = values /\ Ids' = Ids /\ low \in Ids /\ high \in Ids
  BY DEF Hang, Ids, Roots
<1>2. \A i \in Ids : RootIn(parent', Len(values'), i) = IF RootOf(i) = low THEN high ELSE RootOf(i)
  BY HangRoots, InArrays
<1>3. /\ DOMAIN Leader = { values[i] : i \in Ids }
      /\ \A i \in Ids : Leader[values[i]] = values[RootOf(i)]
      /\ DOMAIN Leader' = { values[i] : i \in Ids }
      /\ \A i \in Ids : Leader'[values[i]] = values[RootIn(parent', Len(values'), i)]
  BY <1>1, LeaderOf
<1>4. \A i, j \in Ids : values[i] = values[j] => i = j
  BY DEF Inv, Forest, Distinct
<1>5. \A i \in Ids : RootOf(i) \in Ids
  BY KnownIndices
<1>6. \A i \in Ids : Leader'[values[i]] =
        IF Leader[values[i]] \in {values[low], values[high]} THEN values[high] ELSE Leader[values[i]]
  BY <1>1, <1>2, <1>3, <1>4, <1>5
<1>7. Leader' = [w \in DOMAIN Leader' |-> Leader'[w]]
  BY LeaderIs DEF LeaderIn
<1>. QED  BY <1>3, <1>6, <1>7

-----------------------------------------------------------------------------
(* Two arguments or one behind the name of a method.                       *)
LEMMA ConsPair ==
  ASSUME NEW a, NEW b, NEW c
  PROVE  <<a>> \o <<b>> = <<a, b>> /\ <<a>> \o <<b, c>> = <<a, b, c>>
<1> DEFINE S == {a, b, c}
           s == <<a>>
           t == <<b>>
           u == <<b, c>>
           v == <<a, b>>
           w == <<a, b, c>>
<1>1. /\ s \in Seq(S) /\ t \in Seq(S) /\ u \in Seq(S) /\ v \in Seq(S) /\ w \in Seq(S)
      /\ Len(s) = 1 /\ Len(t) = 1 /\ Len(u) = 2 /\ Len(v) = 2 /\ Len(w) = 3
      /\ s[1] = a /\ t[1] = b /\ u[1] = b /\ u[2] = c
      /\ v[1] = a /\ v[2] = b /\ w[1] = a /\ w[2] = b /\ w[3] = c
  OBVIOUS
<1> HIDE DEF s, t, u, v, w, S
<1>2. /\ s \o t \in Seq(S) /\ Len(s \o t) = 2
      /\ \A i \in 1..2 : (s \o t)[i] = IF i <= 1 THEN s[i] ELSE t[i - 1]
  <2>1. Len(s) + Len(t) = 2
    BY <1>1
  <2>2. /\ s \o t \in Seq(S) /\ Len(s \o t) = Len(s) + Len(t)
        /\ \A i \in 1..(Len(s) + Len(t)) :
             (s \o t)[i] = IF i <= Len(s) THEN s[i] ELSE t[i - Len(s)]
    BY <1>1, ConcatProperties
  <2>. QED  BY <1>1, <2>1, <2>2
<1>3. /\ s \o u \in Seq(S) /\ Len(s \o u) = 3
      /\ \A i \in 1..3 : (s \o u)[i] = IF i <= 1 THEN s[i] ELSE u[i - 1]
  <2>1. Len(s) + Len(u) = 3
    BY <1>1
  <2>2. /\ s \o u \in Seq(S) /\ Len(s \o u) = Len(s) + Len(u)
        /\ \A i \in 1..(Len(s) + Len(u)) :
             (s \o u)[i] = IF i <= Len(s) THEN s[i] ELSE u[i - Len(s)]
    BY <1>1, ConcatProperties
  <2>. QED  BY <1>1, <2>1, <2>2
<1>4. (s \o t)[1] = a /\ (s \o t)[2] = b
  BY <1>1, <1>2
<1>5. (s \o u)[1] = a /\ (s \o u)[2] = b /\ (s \o u)[3] = c
  BY <1>1, <1>3
<1>6. \A i \in 1..Len(v) : v[i] = (s \o t)[i]
  <2>1. \A i \in 1..2 : i = 1 \/ i = 2
    OBVIOUS
  <2>. QED  BY <1>1, <1>4, <2>1
<1>7. \A i \in 1..Len(w) : w[i] = (s \o u)[i]
  <2>1. \A i \in 1..3 : i = 1 \/ i = 2 \/ i = 3
    OBVIOUS
  <2>. QED  BY <1>1, <1>5, <2>1
<1>8. s \o t = v
  BY <1>1, <1>2, <1>6, SeqEqual
<1>9. s \o u = w
  BY <1>1, <1>3, <1>7, SeqEqual
<1>. QED  BY <1>8, <1>9 DEF s, t, u, v, w

LEMMA PendingIs ==
  ASSUME Inv
  PROVE  /\ op \in {"make_set", "find"} => Pending = <<op, args[1]>> /\ args[1] \in Members
         /\ op \in {"connected", "merge"} => /\ Pending = <<op, args[1], args[2]>>
                                             /\ args[1] \in Members /\ args[2] \in Members
         /\ op = "none" => Pending = << >>
<1>1. /\ args \in Seq(Members)
      /\ Len(args) = (CASE op = "none" -> 0 [] op \in {"make_set", "find"} -> 1 [] OTHER -> 2)
  BY DEF Inv, ControlOK
<1>2. CASE op \in {"make_set", "find"}
  <2>1. Len(args) = 1 /\ args[1] \in Members
    BY <1>1, <1>2, ElementOfSeq
  <2>2. args = <<args[1]>>
    BY <1>1, <2>1
  <2>3. <<op>> \o <<args[1]>> = <<op, args[1]>>
    BY ConsPair
  <2>. QED  BY <1>2, <2>1, <2>2, <2>3 DEF Pending
<1>3. CASE op \in {"connected", "merge"}
  <2>1. Len(args) = 2 /\ args[1] \in Members /\ args[2] \in Members
    BY <1>1, <1>3, ElementOfSeq
  <2>2. args = <<args[1], args[2]>>
    BY <1>1, <2>1
  <2>3. <<op>> \o <<args[1], args[2]>> = <<op, args[1], args[2]>>
    BY ConsPair
  <2>. QED  BY <1>3, <2>1, <2>2, <2>3 DEF Pending
<1>4. CASE op = "none"
  BY <1>4 DEF Pending
<1>. QED  BY <1>2, <1>3, <1>4 DEF Inv, ControlOK

(* The arguments of an operation that has all its roots.                   *)
LEMMA Answered ==
  ASSUME Inv, Sought, NEW what, AllFound(what), NEW k \in 1..Len(args)
  PROVE  /\ args[k] \in DOMAIN Leader /\ Leader[args[k]] = values[roots[k]]
         /\ roots[k] \in Ids
<1>1. k \in 1..Len(roots)
  BY DEF AllFound
<1>2. /\ IndexIn(values, args[k]) # 0
      /\ roots[k] = RootIn(parent, Len(values), IndexIn(values, args[k]))
  BY <1>1 DEF Sought, RootOfValue
<1>3. PICK i \in Ids : i = IndexOf(args[k]) /\ values[i] = args[k]
  BY <1>2, KnownIndices, InArrays
<1>4. roots[k] = RootOf(i) /\ RootOf(i) \in Ids
  BY <1>2, <1>3, KnownIndices, InArrays
<1>. QED  BY <1>3, <1>4, LeaderOf

LEMMA Stutters ==
  ASSUME Inv, Inv', values' = values, Settled, UNCHANGED <<count, op, args, answer>>
  PROVE  UNCHANGED <<Leader, count, Pending, answer>>
BY LeaderKeeps DEF Pending

LEMMA BeginRefines ==
  ASSUME Inv, Inv',
         \/ \E v \in Members, what \in {"make_set", "find"} : Begin(what, <<v>>)
         \/ \E v, w \in Members, what \in {"connected", "merge"} : Begin(what, <<v, w>>)
  PROVE  Sets!Next
<1>1. ASSUME NEW what \in {"make_set", "find", "connected", "merge"}, NEW vs, Begin(what, vs)
      PROVE  Sets!Call(<<what>> \o vs)
  <2>1. op = "none" /\ op' = what /\ args' = vs /\ UNCHANGED <<values, parent, count, answer>>
    BY <1>1 DEF Begin, arrays
  <2>2. Leader' = Leader
    BY <2>1, LeaderKeeps, StaysSettled
  <2>3. Pending = << >> /\ Pending' = <<what>> \o vs
    BY <2>1 DEF Pending
  <2>. QED  BY <2>1, <2>2, <2>3 DEF Sets!Call
<1>2. ASSUME NEW v \in Members, NEW what \in {"make_set", "find"}, Begin(what, <<v>>)
      PROVE  Sets!Next
  <2>1. Sets!Call(<<what, v>>)
    BY <1>1, <1>2, ConsPair
  <2>. QED  BY <2>1 DEF Sets!Next
<1>3. ASSUME NEW v \in Members, NEW w \in Members, NEW what \in {"connected", "merge"},
             Begin(what, <<v, w>>)
      PROVE  Sets!Next
  <2>1. Sets!Call(<<what>> \o <<v, w>>)
    BY <1>1, <1>3
  <2>2. <<what>> \o <<v, w>> = <<what, v, w>>
    BY ConsPair, Zenon
  <2>3. Sets!Call(<<what, v, w>>)
    BY <2>1, <2>2
  <2>. QED  BY <1>3, <2>3 DEF Sets!Next
<1>. QED  BY <1>2, <1>3

LEMMA AddSettled ==
  ASSUME Inv, Inv', NEW v \in Members,
         IF IndexOf(v) # 0 THEN UNCHANGED arrays ELSE Add(v)
  PROVE  Settled
<1>1. CASE IndexOf(v) # 0
  BY <1>1, StaysSettled DEF arrays
<1>2. CASE IndexOf(v) = 0
  <2>1. Ids \subseteq Ids' /\ \A i \in Ids : values'[i] = values[i] /\ parent'[i] = parent[i]
    BY <1>2, AddEffect DEF Inv
  <2>. QED  BY <2>1, Grows, InArrays DEF Settled
<1>. QED  BY <1>1, <1>2

(* A value is added by a call of find_index() or by make_set().            *)
LEMMA AddRefines ==
  ASSUME Inv, Inv', NEW v \in Members, Settled,
         IF IndexOf(v) # 0 THEN UNCHANGED arrays ELSE Add(v)
  PROVE  /\ v \in DOMAIN Leader => UNCHANGED <<Leader, count>>
         /\ v \notin DOMAIN Leader =>
              Leader' = [w \in DOMAIN Leader \union {v} |-> IF w = v THEN v ELSE Leader[w]]
              /\ count' = count + 1
<1>1. CASE IndexOf(v) # 0
  <2>1. v \in DOMAIN Leader
    BY <1>1, KnownIndices, LeaderOf
  <2>2. values' = values /\ count' = count
    BY <1>1 DEF arrays
  <2>. QED  BY <2>1, <2>2, LeaderKeeps
<1>2. CASE IndexOf(v) = 0
  BY <1>2, LeaderAlone DEF Add
<1>. QED  BY <1>1, <1>2

LEMMA MakeSetRefines ==
  ASSUME Inv, Inv', MakeSetEnds
  PROVE  Sets!Next
<1> DEFINE v == args[1]
<1>1. /\ op = "make_set" /\ op' = "none" /\ answer' = v
      /\ IF IndexOf(v) # 0 THEN UNCHANGED arrays ELSE Add(v)
  BY DEF MakeSetEnds, End
<1>2. Pending = <<"make_set", v>> /\ v \in Members /\ Pending' = << >>
  BY <1>1, PendingIs DEF Pending
<1> HIDE DEF v
<1>3. Settled
  BY <1>1, <1>2, AddSettled
<1>4. Sets!MakeSet(v)
  BY <1>1, <1>2, <1>3, AddRefines DEF Sets!MakeSet, Sets!Added, Sets!Returns, Sets!Alone
<1>. QED  BY <1>2, <1>4 DEF Sets!Next

LEMMA FindNextRefines ==
  ASSUME Inv, Inv', FindNext
  PROVE  Sets!Next \/ UNCHANGED <<Leader, count, Pending, answer>>
<1> DEFINE k == Len(roots) + 1
           v == args[k]
<1>1. /\ op \in {"find", "connected", "merge"} /\ Len(roots) < Len(args) /\ Call(v)
      /\ UNCHANGED <<op, args, answer>>
  BY DEF FindNext, Call
<1>2. k \in 1..Len(args) /\ v \in Members
  <2>1. k \in 1..Len(args)
    BY <1>1, LenProperties DEF Inv, ControlOK
  <2>. QED  BY <2>1, ElementOfSeq DEF Inv, ControlOK
<1>3. v \in Sets!ToSet(Pending)
  <2>1. \/ Pending = <<op, args[1]>> /\ Len(args) = 1
        \/ Pending = <<op, args[1], args[2]>> /\ Len(args) = 2
    BY <1>1, PendingIs DEF Inv, ControlOK
  <2>2. k = 1 \/ (k = 2 /\ Len(args) = 2)
    BY <1>2, <2>1
  <2>3. /\ \A a, b : a \in Sets!ToSet(<<b, a>>)
        /\ \A a, b, c : a \in Sets!ToSet(<<b, a, c>>) /\ c \in Sets!ToSet(<<b, a, c>>)
    BY DEF Sets!ToSet
  <2>. QED  BY <2>1, <2>2, <2>3
<1> HIDE DEF v, k
<1>4. Settled /\ (IF IndexOf(v) # 0 THEN UNCHANGED arrays ELSE Add(v)) /\ Pending' = Pending
  BY <1>1, <1>2, CallSettled DEF Call, Pending
<1>5. CASE v \in DOMAIN Leader
  BY <1>1, <1>2, <1>4, <1>5, AddRefines
<1>6. CASE v \notin DOMAIN Leader
  <2>1. Sets!Mention(v)
    BY <1>1, <1>2, <1>3, <1>4, <1>6, AddRefines DEF Sets!Mention, Sets!Added, Sets!Alone
  <2>. QED  BY <1>2, <2>1 DEF Sets!Next
<1>. QED  BY <1>5, <1>6

LEMMA EndRefines ==
  ASSUME Inv, Inv', Sought, FindEnds \/ ConnectedEnds \/ MergeSame
  PROVE  Sets!Next
<1>1. UNCHANGED <<values, parent, count>> /\ op' = "none"
  BY DEF FindEnds, ConnectedEnds, MergeSame, arrays, End
<1>2. Leader' = Leader /\ Pending' = << >>
  BY <1>1, LeaderKeeps, StaysSettled DEF Pending
<1>3. CASE FindEnds
  <2>1. AllFound("find") /\ answer' = values[roots[1]] /\ op = "find"
    BY <1>3 DEF FindEnds, End, AllFound
  <2>2. 1 \in 1..Len(args)
    BY <2>1 DEF Inv, ControlOK
  <2>3. Sets!Find(args[1])
    BY <1>1, <1>2, <2>1, <2>2, Answered, PendingIs DEF Sets!Find, Sets!Added, Sets!Returns
  <2>. QED  BY <2>1, <2>3, PendingIs DEF Sets!Next
<1>4. ASSUME op \in {"connected", "merge"}, AllFound(op)
      PROVE  /\ Pending = <<op, args[1], args[2]>> /\ args[1] \in Members /\ args[2] \in Members
             /\ args[1] \in DOMAIN Leader /\ Leader[args[1]] = values[roots[1]]
             /\ args[2] \in DOMAIN Leader /\ Leader[args[2]] = values[roots[2]]
             /\ roots[1] = roots[2] <=> values[roots[1]] = values[roots[2]]
  <2>1. 1 \in 1..Len(args) /\ 2 \in 1..Len(args)
    BY <1>4 DEF Inv, ControlOK
  <2>2. /\ args[1] \in DOMAIN Leader /\ Leader[args[1]] = values[roots[1]] /\ roots[1] \in Ids
        /\ args[2] \in DOMAIN Leader /\ Leader[args[2]] = values[roots[2]] /\ roots[2] \in Ids
    BY <1>4, <2>1, Answered
  <2>. QED  BY <1>4, <2>2, PendingIs DEF Inv, Forest, Distinct
<1>5. CASE ConnectedEnds
  <2>1. /\ AllFound("connected") /\ op = "connected"
        /\ answer' = (IF roots[1] = roots[2] THEN 1 ELSE 0)
    BY <1>5 DEF ConnectedEnds, End, AllFound
  <2>2. Sets!Connected(args[1], args[2])
    BY <1>1, <1>2, <1>4, <2>1 DEF Sets!Connected, Sets!Added, Sets!Returns
  <2>. QED  BY <1>4, <2>1, <2>2 DEF Sets!Next
<1>6. CASE MergeSame
  <2>1. AllFound("merge") /\ roots[1] = roots[2] /\ answer' = values[roots[1]] /\ op = "merge"
    BY <1>6 DEF MergeSame, End, AllFound
  <2>2. Leader = [u \in DOMAIN Leader |-> Leader[u]]
    BY LeaderIs DEF LeaderIn
  <2>3. Sets!Merge(args[1], args[2])
    BY <1>1, <1>2, <1>4, <2>1, <2>2 DEF Sets!Merge, Sets!Added, Sets!Returns
  <2>. QED  BY <1>4, <2>1, <2>3 DEF Sets!Next
<1>. QED  BY <1>3, <1>5, <1>6

LEMMA MergeRefines ==
  ASSUME Inv, Inv', Sought, MergeRanked \/ MergeEqual
  PROVE  Sets!Next
<1>1. PICK low, high : /\ {low, high} = {roots[1], roots[2]} /\ low # high /\ Hang(low, high)
                       /\ AllFound("merge")
  BY DEF MergeRanked, MergeEqual
<1>2. low \in Roots /\ high \in Roots /\ op = "merge" /\ op' = "none" /\ answer' = values[high]
      /\ count' = count - 1
  <2>1. low \in Roots /\ high \in Roots
    BY <1>1, TwoRoots
  <2>. QED  BY <1>1, <2>1 DEF Hang, End, AllFound
<1>3. 1 \in 1..Len(args) /\ 2 \in 1..Len(args)
  BY <1>2 DEF Inv, ControlOK
<1>4. /\ args[1] \in DOMAIN Leader /\ Leader[args[1]] = values[roots[1]] /\ roots[1] \in Ids
      /\ args[2] \in DOMAIN Leader /\ Leader[args[2]] = values[roots[2]] /\ roots[2] \in Ids
  BY <1>1, <1>3, Answered
<1>5. Leader' = [u \in DOMAIN Leader |->
                   IF Leader[u] \in {values[low], values[high]} THEN values[high] ELSE Leader[u]]
  BY <1>1, <1>2, LeaderMerged
<1>6. /\ {values[low], values[high]} = {Leader[args[1]], Leader[args[2]]}
      /\ Leader[args[1]] # Leader[args[2]]
  <2>1. values[roots[1]] # values[roots[2]]
    BY <1>1, <1>4 DEF Inv, Forest, Distinct
  <2>. QED  BY <1>1, <1>4, <2>1
<1>7. Sets!Merge(args[1], args[2])
  <2>1. Pending = <<"merge", args[1], args[2]>> /\ Pending' = << >>
    BY <1>2, PendingIs DEF Pending
  <2>2. values[high] \in {Leader[args[1]], Leader[args[2]]}
    BY <1>6
  <2>. QED  BY <1>2, <1>4, <1>5, <1>6, <2>1, <2>2 DEF Sets!Merge, Sets!Added, Sets!Returns
<1>. QED  BY <1>2, <1>7, PendingIs DEF Sets!Next

LEMMA StepRefines ==
  ASSUME Inv, Quiet, Sought, Inv', [DSUNext]_dsuVars
  PROVE  [Sets!Next]_<<Leader, count, Pending, answer>>
<1>1. CASE \/ \E v \in Members, what \in {"make_set", "find"} : Begin(what, <<v>>)
           \/ \E v, w \in Members, what \in {"connected", "merge"} : Begin(what, <<v, w>>)
  BY <1>1, BeginRefines
<1>2. CASE MakeSetEnds
  BY <1>2, MakeSetRefines
<1>3. CASE FindNext
  BY <1>3, FindNextRefines
<1>4. CASE FindParent
  <2>1. /\ stack # << >> /\ Call(values[parent[Top]])
    BY <1>4 DEF FindParent
  <2>2. Top \in Ids
    BY <2>1, ElementOfSeq, LenProperties, EmptySeq DEF Inv, ControlOK, Top
  <2>3. parent[Top] \in Ids
    BY <2>2, Elements DEF Inv
  <2>4. IndexOf(values[parent[Top]]) # 0
    BY <2>3, KnownIndices DEF Ids
  <2>5. UNCHANGED <<values, parent, count, op, args, answer>>
    BY <2>1, <2>4 DEF Call, arrays
  <2>. QED  BY <2>5, Stutters, StaysSettled
<1>5. CASE AtRoot \/ Found
  <2>1. UNCHANGED <<values, parent, count, op, args, answer>>
    BY <1>5 DEF AtRoot, Found, arrays
  <2>. QED  BY <2>1, Stutters, StaysSettled
<1>6. CASE Compress
  <2>1. UNCHANGED <<values, count, op, args, answer>>
    BY <1>6 DEF Compress
  <2>. QED  BY <1>6, <2>1, Stutters, SoughtCompress
<1>7. CASE FindEnds \/ ConnectedEnds \/ MergeSame
  BY <1>7, EndRefines
<1>8. CASE MergeRanked \/ MergeEqual
  BY <1>8, MergeRefines
<1>9. CASE UNCHANGED dsuVars
  <2>1. UNCHANGED <<values, parent, count, op, args, answer>>
    BY <1>9 DEF dsuVars, arrays
  <2>. QED  BY <2>1, Stutters, StaysSettled
<1>. QED  BY <1>1, <1>2, <1>3, <1>4, <1>5, <1>6, <1>7, <1>8, <1>9 DEF DSUNext, Steps

LEMMA InitRefines ==
  DSUInit => Sought /\ Sets!Init
<1> SUFFICES ASSUME DSUInit PROVE Sought /\ Sets!Init
  OBVIOUS
<1>1. Sought
  BY EmptySeq DEF DSUInit, Sought
<1>2. Leader = [v \in {} |-> v]
  <2>1. DOMAIN Leader = {} /\ Leader = [v \in DOMAIN Leader |-> Leader[v]]
    BY EmptySeq DEF DSUInit, Leader, Ids
  <2>. QED  BY <2>1
<1>3. Sets!Init
  BY <1>2 DEF DSUInit, Sets!Init, Pending
<1>. QED  BY <1>1, <1>3

(* The roots are the leaders of a partition, whatever path compression     *)
(* does to the trees: find() returns the leader of a value, connected()    *)
(* whether two have the same, and only merge() changes one.                *)
THEOREM IsPartition == DSUSpec => ImplementsPartition
<1>1. Inv /\ Quiet /\ Sought /\ [DSUNext]_dsuVars
        => Inv' /\ Quiet' /\ Sought' /\ [Sets!Next]_<<Leader, count, Pending, answer>>
  BY StepInv, StepQuiet, SoughtStep, StepRefines
<1>. QED  BY <1>1, InitInv, InitRefines, PTL DEF DSUSpec, ImplementsPartition, Sets!Spec, Sets!vars

-----------------------------------------------------------------------------
(* The values below a root, for the arrays before and after a step.        *)
TreeIn(p, n, r) == { i \in 1..n : RootIn(p, n, i) = r }

Weighs(p, n, rk) ==
  \A r \in 1..n : p[r] = r => Cardinality(TreeIn(p, n, r)) >= TwoTo[rk[r]]

LEMMA WeighsIs ==
  /\ RankLogarithmic <=> Weighs(parent, Len(values), rank)
  /\ RankLogarithmic' <=> Weighs(parent', Len(values'), rank')
BY DEF RankLogarithmic, Weighs, TreeIn, Roots, Ids, RootOf, RootIn

LEMMA TwoToIs ==
  TwoTo[0] = 1 /\ \A k \in Nat : TwoTo[k] \in Nat /\ TwoTo[k + 1] = 2 * TwoTo[k]
<1> DEFINE F == [k \in Nat |-> [x \in Nat |-> 2 * x]]
           Body(f, k) == IF k = 0 THEN 1 ELSE 2 * f[k - 1]
<1>1. F \in [Nat -> [Nat -> Nat]]
  OBVIOUS
<1>2. PICK g : Recurs(g, Nat, 1, F)
  <2> HIDE DEF F
  <2>. QED  BY <1>1, Recursion
<1>3. g \in [Nat -> Nat] /\ g[0] = 1 /\ \A k \in Nat : g[k + 1] = 2 * g[k]
  BY <1>2 DEF Recurs
<1>4. g = [k \in Nat |-> Body(g, k)]
  <2> SUFFICES ASSUME NEW k \in Nat PROVE g[k] = Body(g, k)
    BY <1>3
  <2>1. CASE k = 0
    BY <1>3, <2>1
  <2>2. CASE k # 0
    <3>1. k - 1 \in Nat /\ (k - 1) + 1 = k
      BY <2>2
    <3>. QED  BY <1>3, <2>2, <3>1
  <2>. QED  BY <2>1, <2>2
<1>5. TwoTo = [k \in Nat |-> Body(TwoTo, k)]
  BY <1>4 DEF TwoTo
<1> DEFINE P == {k \in Nat : TwoTo[k] = g[k]}
<1>6. 0 \in P
  BY <1>3, <1>5
<1>7. ASSUME NEW k \in P PROVE k + 1 \in P
  <2>1. k + 1 \in Nat /\ k + 1 # 0 /\ (k + 1) - 1 = k
    OBVIOUS
  <2>. QED  BY <1>3, <1>5, <2>1
<1>8. P = Nat
  <2>1. P \in SUBSET Nat
    OBVIOUS
  <2> HIDE DEF P
  <2>. QED  BY <1>6, <1>7, <2>1, InductiveSet
<1>9. \A k \in Nat : TwoTo[k] = g[k]
  BY <1>8
<1>. QED  BY <1>3, <1>9

LEMMA TreeFinite ==
  ASSUME NEW p, NEW n \in Nat
  PROVE  /\ \A r : IsFiniteSet(TreeIn(p, n, r)) /\ Cardinality(TreeIn(p, n, r)) \in Nat
         /\ \A T \in SUBSET (1..n) : IsFiniteSet(T) /\ Cardinality(T) \in Nat
<1>1. IsFiniteSet(1..n)
  BY FS_Interval
<1>2. \A T \in SUBSET (1..n) : IsFiniteSet(T) /\ Cardinality(T) \in Nat
  BY <1>1, FS_Subset, FS_CardinalityType
<1>3. \A r : TreeIn(p, n, r) \in SUBSET (1..n)
  BY DEF TreeIn
<1>. QED  BY <1>2, <1>3

(* A step that hangs no root elsewhere: the trees grow at most, and a root *)
(* nobody knew has rank 0.                                                 *)
LEMMA WeighsGrown ==
  ASSUME Inv, Inv', Settled, Ids \subseteq Ids',
         \A i \in Ids : rank'[i] = rank[i],
         \A i \in Ids : parent'[i] = i => parent[i] = i,
         \A i \in Ids' : i \notin Ids => rank'[i] = 0,
         RankLogarithmic
  PROVE  RankLogarithmic'
<1> DEFINE n == Len(values)  m == Len(values')
<1>1. n \in Nat /\ m \in Nat /\ Ids = 1..n /\ Ids' = 1..m
  BY Elements DEF Inv, ArraysOK, Ids
<1>2. \A i \in 1..n : RootIn(parent', m, i) = RootIn(parent, n, i)
  BY DEF Settled, Ids
<1>3. Weighs(parent, n, rank)
  BY WeighsIs
<1>4. Ascends(parent', m, rank') /\ Ascends(parent, n, rank)
  BY InvAscends
<1>5. \A i \in 1..n : rank'[i] = rank[i] /\ (parent'[i] = i => parent[i] = i)
  BY <1>1
<1>6. \A i \in 1..m : i \notin 1..n => rank'[i] = 0
  BY <1>1
<1>7. 1..n \subseteq 1..m
  BY <1>1
<1> HIDE DEF n, m
<1>8. ASSUME NEW r \in 1..m, parent'[r] = r
      PROVE  Cardinality(TreeIn(parent', m, r)) >= TwoTo[rank'[r]]
  <2> DEFINE T == TreeIn(parent', m, r)
  <2>1. IsFiniteSet(T) /\ Cardinality(T) \in Nat
    BY <1>1, TreeFinite
  <2>2. CASE r \in 1..n
    <3>1. TreeIn(parent, n, r) \in SUBSET T
      BY <1>2, <1>7 DEF TreeIn
    <3>2. Cardinality(TreeIn(parent, n, r)) <= Cardinality(T)
      BY <2>1, <3>1, FS_Subset
    <3>3. Cardinality(TreeIn(parent, n, r)) >= TwoTo[rank[r]] /\ rank'[r] = rank[r]
      BY <1>3, <1>5, <1>8, <2>2 DEF Weighs
    <3>4. rank[r] \in Nat
      BY <1>4, <2>2 DEF Ascends
    <3>5. TwoTo[rank[r]] \in Nat /\ Cardinality(TreeIn(parent, n, r)) \in Nat
      BY <1>1, <3>4, TwoToIs, TreeFinite
    <3> HIDE DEF T
    <3>6. Cardinality(T) >= TwoTo[rank[r]]
      BY <2>1, <3>2, <3>3, <3>5
    <3>. QED  BY <3>3, <3>6 DEF T
  <2>3. CASE r \notin 1..n
    <3>1. RootIn(parent', m, r) = r
      BY <1>4, <1>8, RootFacts
    <3>2. {r} \in SUBSET T
      BY <3>1 DEF TreeIn
    <3>3. 1 <= Cardinality(T)
      <4>1. Cardinality({r}) = 1
        BY FS_Singleton
      <4>2. Cardinality({r}) <= Cardinality(T)
        BY <2>1, <3>2, FS_Subset
      <4>. QED  BY <4>1, <4>2
    <3>4. rank'[r] = 0
      BY <1>6, <2>3
    <3>. QED  BY <2>1, <3>3, <3>4, TwoToIs
  <2>. QED  BY <2>2, <2>3
<1>9. Weighs(parent', m, rank')
  BY <1>8 DEF Weighs
<1>. QED  BY <1>9, WeighsIs DEF m

(* A merge adds the tree below `low` to the one below `high`; the rank of  *)
(* `high` grows only if the one added weighs as much.                      *)
LEMMA WeighsMerged ==
  ASSUME Inv, Inv', NEW low \in Roots, NEW high \in Roots, low # high, Hang(low, high),
         \A i \in Ids : i # high => rank'[i] = rank[i],
         \/ rank'[high] = rank[high]
         \/ rank'[high] = rank[high] + 1 /\ rank[low] = rank[high],
         RankLogarithmic
  PROVE  RankLogarithmic'
<1> DEFINE n == Len(values)
<1>1. n \in Nat /\ Ids = 1..n /\ values' = values
  BY Elements DEF Inv, Hang, Ids
<1>2. \A i \in 1..n : RootIn(parent', n, i) = IF RootIn(parent, n, i) = low
                                              THEN high ELSE RootIn(parent, n, i)
  <2>1. \A i \in Ids : RootOf(i)' = IF RootOf(i) = low THEN high ELSE RootOf(i)
    BY HangRoots
  <2>. QED  BY <1>1, <2>1, InArrays
<1>3. Weighs(parent, n, rank)
  BY WeighsIs
<1>4. \A i \in 1..n : rank[i] \in Nat /\ parent'[i] = IF i = low THEN high ELSE parent[i]
  <2>1. low \in Ids /\ high \in Ids /\ parent' = [parent EXCEPT ![low] = high]
    BY DEF Roots, Hang
  <2>2. ArraysOK
    BY DEF Inv
  <2>3. \A i \in Ids : parent'[i] = IF i = low THEN high ELSE parent[i]
    BY <2>1, <2>2, Reparent
  <2>4. \A i \in Ids : rank[i] \in Nat
    BY <2>2, Elements
  <2>. QED  BY <1>1, <2>3, <2>4
<1>5. low \in 1..n /\ high \in 1..n /\ parent[low] = low /\ parent[high] = high
  BY <1>1 DEF Roots
<1>6. \A i \in 1..n : i # high => rank'[i] = rank[i]
  BY <1>1
<1> HIDE DEF n
<1> DEFINE L == TreeIn(parent, n, low)
           H == TreeIn(parent, n, high)
<1>7. /\ IsFiniteSet(L) /\ Cardinality(L) \in Nat
      /\ IsFiniteSet(H) /\ Cardinality(H) \in Nat
  BY <1>1, TreeFinite
<1>8. Cardinality(TreeIn(parent', n, high)) = Cardinality(L) + Cardinality(H)
  <2>1. TreeIn(parent', n, high) = L \union H
    BY <1>2 DEF TreeIn
  <2>2. L \cap H = {}
    BY DEF TreeIn
  <2> HIDE DEF L, H
  <2>3. Cardinality(L \union H) = Cardinality(L) + Cardinality(H) - Cardinality(L \cap H)
    BY <1>7, FS_Union
  <2>4. Cardinality(L \cap H) = 0
    BY <2>2, FS_EmptySet
  <2>. QED  BY <1>7, <2>1, <2>3, <2>4
<1>9. /\ Cardinality(L) >= TwoTo[rank[low]] /\ TwoTo[rank[low]] \in Nat
      /\ Cardinality(H) >= TwoTo[rank[high]] /\ TwoTo[rank[high]] \in Nat
      /\ TwoTo[rank[high] + 1] = 2 * TwoTo[rank[high]]
  <2>1. rank[low] \in Nat /\ rank[high] \in Nat
    BY <1>4, <1>5
  <2>. QED  BY <1>3, <1>5, <2>1, TwoToIs DEF Weighs
<1> HIDE DEF L, H
<1>10. Cardinality(TreeIn(parent', n, high)) >= TwoTo[rank'[high]]
  <2>1. CASE rank'[high] = rank[high]
    BY <1>7, <1>8, <1>9, <2>1
  <2>2. CASE rank'[high] = rank[high] + 1 /\ rank[low] = rank[high]
    <3>1. Cardinality(L) >= TwoTo[rank[high]] /\ TwoTo[rank'[high]] = 2 * TwoTo[rank[high]]
      BY <1>9, <2>2
    <3>. QED  BY <1>7, <1>8, <1>9, <3>1
  <2>. QED  BY <2>1, <2>2
<1>11. ASSUME NEW r \in 1..n, parent'[r] = r, r # high
       PROVE  Cardinality(TreeIn(parent', n, r)) >= TwoTo[rank'[r]]
  <2>1. r # low /\ parent[r] = r /\ rank'[r] = rank[r]
    BY <1>4, <1>5, <1>6, <1>11
  <2>2. TreeIn(parent', n, r) = TreeIn(parent, n, r)
    BY <1>2, <1>11, <2>1 DEF TreeIn
  <2>. QED  BY <1>3, <2>1, <2>2 DEF Weighs
<1>12. Weighs(parent', n, rank')
  BY <1>10, <1>11 DEF Weighs
<1>. QED  BY <1>1, <1>12, WeighsIs DEF n

LEMMA WeighsAdd ==
  ASSUME Inv, Inv', NEW v \in Members, Settled, RankLogarithmic,
         IF IndexOf(v) # 0 THEN UNCHANGED arrays ELSE Add(v)
  PROVE  RankLogarithmic'
<1>1. CASE IndexOf(v) # 0
  BY <1>1, WeighsGrown DEF arrays, Ids
<1>2. CASE IndexOf(v) = 0
  <2> DEFINE n == Len(values)
  <2>1. /\ Ids' = Ids \union {n + 1}
        /\ \A i \in Ids : parent'[i] = parent[i] /\ rank'[i] = rank[i]
    BY <1>2, AddEffect DEF Inv
  <2>2. rank'[n + 1] = 0
    <3>1. rank \in Seq(Nat) /\ Len(rank) = n /\ rank' = Append(rank, 0)
      BY <1>2 DEF Inv, ArraysOK, Add
    <3> HIDE DEF n
    <3>. QED  BY <3>1, AppendProperties
  <2> HIDE DEF n
  <2>. QED  BY <2>1, <2>2, WeighsGrown
<1>. QED  BY <1>1, <1>2

LEMMA WeighsStep ==
  ASSUME Inv, Quiet, Sought, RankLogarithmic, Inv', [DSUNext]_dsuVars
  PROVE  RankLogarithmic'
<1>1. ASSUME UNCHANGED arrays PROVE RankLogarithmic'
  BY <1>1, WeighsIs DEF arrays
<1>2. ASSUME NEW what, NEW vs, Begin(what, vs) PROVE RankLogarithmic'
  BY <1>1, <1>2 DEF Begin
<1>3. CASE FindEnds \/ ConnectedEnds \/ MergeSame \/ AtRoot \/ Found \/ UNCHANGED dsuVars
  BY <1>1, <1>3 DEF FindEnds, ConnectedEnds, MergeSame, AtRoot, Found, dsuVars
<1>4. ASSUME NEW v \in Members, Call(v) PROVE RankLogarithmic'
  BY <1>4, CallSettled, WeighsAdd DEF Call
<1>5. CASE FindNext
  <2>1. Call(args[Len(roots) + 1]) /\ Len(roots) < Len(args)
    BY <1>5 DEF FindNext
  <2>2. Len(roots) + 1 \in 1..Len(args)
    BY <2>1, LenProperties DEF Inv, ControlOK
  <2>3. args[Len(roots) + 1] \in Members
    BY <2>2, ElementOfSeq DEF Inv, ControlOK
  <2>. QED  BY <1>4, <2>1, <2>3
<1>6. CASE FindParent
  <2>1. stack # << >> /\ Call(values[parent[Top]])
    BY <1>6 DEF FindParent
  <2>2. Top \in Ids
    BY <2>1, ElementOfSeq, LenProperties, EmptySeq DEF Inv, ControlOK, Top
  <2>3. values[parent[Top]] \in Members
    BY <2>2, Elements DEF Inv
  <2>. QED  BY <1>4, <2>1, <2>3
<1>7. CASE Compress
  <2>1. stack # << >> /\ above # 0 /\ parent' = [parent EXCEPT ![Top] = above]
        /\ values' = values /\ rank' = rank /\ Ids' = Ids
    BY <1>7 DEF Compress, Ids
  <2>2. Top \in Ids /\ above \in Roots /\ above \in Ids
    BY <2>1, ElementOfSeq, LenProperties, EmptySeq
    DEF Inv, ControlOK, Control, BackIsRoot, Roots, Top
  <2>3. \A i \in Ids : parent'[i] = IF i = Top THEN above ELSE parent[i]
    BY <2>1, <2>2, Reparent DEF Inv
  <2>4. Settled
    BY <1>7, SoughtCompress
  <2>. QED  BY <2>1, <2>2, <2>3, <2>4, WeighsGrown DEF Roots
<1>8. CASE MakeSetEnds
  <2>1. op = "make_set" /\ (IF IndexOf(args[1]) # 0 THEN UNCHANGED arrays ELSE Add(args[1]))
    BY <1>8 DEF MakeSetEnds
  <2>2. args[1] \in Members
    BY <2>1, PendingIs
  <2>3. Settled
    BY <2>1, <2>2, AddSettled
  <2>. QED  BY <2>1, <2>2, <2>3, WeighsAdd
<1>9. CASE MergeRanked
  <2>1. /\ AllFound("merge") /\ rank[roots[1]] # rank[roots[2]] /\ rank' = rank
        /\ Hang(roots[1], roots[2]) \/ Hang(roots[2], roots[1])
    BY <1>9 DEF MergeRanked
  <2>2. roots[1] \in Roots /\ roots[2] \in Roots /\ roots[1] # roots[2]
    BY <2>1, TwoRoots
  <2>. QED  BY <2>1, <2>2, WeighsMerged
<1>10. CASE MergeEqual
  <2> DEFINE low == roots[2]  high == roots[1]
  <2>1. /\ AllFound("merge") /\ low # high /\ rank[low] = rank[high] /\ Hang(low, high)
        /\ rank' = [rank EXCEPT ![high] = rank[high] + 1]
    BY <1>10 DEF MergeEqual
  <2>2. low \in Roots /\ high \in Roots /\ high \in Ids
    BY <2>1, TwoRoots
  <2> HIDE DEF low, high
  <2>3. \A i \in Ids : rank'[i] = IF i = high THEN rank[high] + 1 ELSE rank[i]
    <3>1. rank \in [Ids -> Nat]
      BY LenProperties DEF Inv, ArraysOK, Ids
    <3>. QED  BY <2>1, <2>2, <3>1
  <2>. QED  BY <2>1, <2>2, <2>3, WeighsMerged
<1>. QED  BY <1>2, <1>3, <1>5, <1>6, <1>7, <1>8, <1>9, <1>10 DEF DSUNext, Steps

(* Every root has as many values as two to the power of its rank, so the   *)
(* calls of find_index() are never deeper than the logarithm of the number *)
(* of values, in the middle of an operation too.                           *)
THEOREM Shallow == DSUSpec => []RankLogarithmic
<1>1. DSUInit => RankLogarithmic
  BY EmptySeq DEF DSUInit, RankLogarithmic, Roots, Ids
<1>2. Inv /\ Quiet /\ Sought /\ RankLogarithmic /\ [DSUNext]_dsuVars
        => Inv' /\ Quiet' /\ Sought' /\ RankLogarithmic'
  BY StepInv, StepQuiet, SoughtStep, WeighsStep
<1>. QED  BY <1>1, <1>2, InitInv, InitRefines, PTL DEF DSUSpec

-----------------------------------------------------------------------------
(* A LinkedList is a Deque for every threshold of compact(), every set of  *)
(* values and every position asked for, and its dead elements are bounded. *)
(*                                                                         *)
(* The sequence a LinkedList stands for is a function of its arrays and    *)
(* head.  Each operation is shown to have the effect on its length and on  *)
(* its elements, position by position, that the Deque asks for; two        *)
(* sequences with the same length and elements are equal.  The invariant   *)
(* is that head is at most one behind the array, without which the length  *)
(* would not be that of a sequence.                                        *)

(* compact() keeps what is alive, in order, and bounds what is dead.       *)
LEMMA CompactedKeeps ==
  ASSUME NEW S, NEW data \in Seq(S), NEW h \in Nat \ {0}, h <= Len(data) + 1,
         NEW c, c = Compacted(data, h)
  PROVE  /\ c.data \in Seq(S) /\ c.head \in Nat \ {0}
         /\ Len(c.data) - c.head = Len(data) - h
         /\ \A k \in 1..(Len(data) - h + 1) : c.data[c.head + k - 1] = data[h + k - 1]
         /\ Modest(c.data, c.head)
<1> DEFINE n == Len(data) - h + 1
<1>0. Threshold \in Nat \ {0} /\ Len(data) \in Nat /\ n \in Nat
  BY ThresholdAssumption, LenProperties
<1>1. CASE h > Len(data)
  <2>1. c = [data |-> << >>, head |-> 1]
    BY <1>1 DEF Compacted
  <2>2. Len(c.data) = 0 /\ c.data \in Seq(S) /\ c.head = 1
    BY <2>1, EmptySeq
  <2>. QED  BY <1>0, <1>1, <2>2 DEF Modest
<1>2. CASE h <= Len(data) /\ (h <= Threshold \/ h <= Len(data) \div 2)
  <2>1. c = [data |-> data, head |-> h]
    BY <1>0, <1>2 DEF Compacted
  <2>. QED  BY <1>0, <1>2, <2>1 DEF Modest
<1>3. CASE h <= Len(data) /\ ~(h <= Threshold \/ h <= Len(data) \div 2)
  <2>1. c = [data |-> Live(data, h), head |-> 1]
    BY <1>0, <1>3 DEF Compacted
  <2>2. \A k \in 1..n : h + k - 1 \in 1..Len(data) /\ data[h + k - 1] \in S
    <3>. TAKE k \in 1..n
    <3>1. h + k - 1 \in 1..Len(data)
      BY <1>0, <1>3
    <3>. QED  BY <3>1, ElementOfSeq
  <2>3. Live(data, h) = [k \in 1..n |-> data[h + k - 1]]
    BY DEF Live
  <2>. HIDE DEF n
  <2>4. Live(data, h) \in [1..n -> S]
    BY <2>2, <2>3
  <2>5. Live(data, h) \in Seq(S) /\ Len(Live(data, h)) = n
    BY <1>0, <2>4, SeqDef, LenProperties
  <2>6. \A k \in 1..n : c.data[1 + k - 1] = data[h + k - 1]
    BY <1>0, <2>1, <2>3
  <2>. QED  BY <1>0, <1>3, <2>1, <2>5, <2>6 DEF n, Modest
<1>4. h > Len(data) \/ h <= Len(data)
  BY <1>0
<1>. QED  BY <1>1, <1>2, <1>3, <1>4, Zenon

(* Three arguments two arrays and a head may be.                           *)
Shaped(f, b, h) == f \in Seq(Values) /\ b \in Seq(Values) /\ h \in Nat \ {0} /\ h <= Len(b) + 1

(* The sequence they stand for, position by position.                      *)
Stands(w, f, b, h) ==
  /\ w \in Seq(Values)
  /\ Len(w) = Len(f) + Len(b) - h + 1
  /\ \A k \in 1..Len(f) : w[k] = f[Len(f) - k + 1]
  /\ \A k \in 1..(Len(b) - h + 1) : w[Len(f) + k] = b[h + k - 1]

LEMMA Lengths ==
  ASSUME NEW f, NEW b, NEW h, Shaped(f, b, h)
  PROVE  Len(f) \in Nat /\ Len(b) \in Nat /\ h \in Nat \ {0} /\ h <= Len(b) + 1
BY LenProperties DEF Shaped

LEMMA JoinedStands ==
  ASSUME NEW f, NEW b, NEW h, Shaped(f, b, h), NEW w, w = Joined(f, b, h)
  PROVE  Stands(w, f, b, h)
<1> DEFINE n == Len(f) + Len(b) - h + 1
           E(k) == IF k <= Len(f) THEN f[Len(f) - k + 1] ELSE b[h + k - Len(f) - 1]
<1>1. Len(f) \in Nat /\ Len(b) \in Nat /\ h \in Nat \ {0} /\ n \in Nat
  BY Lengths
<1>2. \A k \in 1..n : E(k) \in Values
  <2>. TAKE k \in 1..n
  <2>1. CASE k <= Len(f)
    <3>1. Len(f) - k + 1 \in 1..Len(f)
      BY <1>1, <2>1
    <3>. QED  BY <2>1, <3>1, ElementOfSeq DEF Shaped
  <2>2. CASE ~(k <= Len(f))
    <3>1. h + k - Len(f) - 1 \in 1..Len(b)
      BY <1>1, <2>2
    <3>. QED  BY <2>2, <3>1, ElementOfSeq DEF Shaped
  <2>. QED  BY <2>1, <2>2
<1>3. w = [k \in 1..n |-> E(k)]
  BY DEF Joined
<1>4. \A k \in 1..n : w[k] = E(k)
  BY <1>3
<1>5. w \in Seq(Values) /\ Len(w) = n
  <2>. HIDE DEF n, E
  <2>1. w \in [1..n -> Values]
    BY <1>2, <1>3
  <2>. QED  BY <1>1, <2>1, SeqDef, LenProperties
<1>6. ASSUME NEW k \in 1..Len(f) PROVE w[k] = f[Len(f) - k + 1]
  <2>1. k \in 1..n
    BY <1>1, Lengths
  <2>. QED  BY <1>4, <2>1
<1>7. ASSUME NEW k \in 1..(Len(b) - h + 1) PROVE w[Len(f) + k] = b[h + k - 1]
  <2>1. Len(f) + k \in 1..n /\ ~(Len(f) + k <= Len(f)) /\ h + (Len(f) + k) - Len(f) - 1 = h + k - 1
    BY <1>1
  <2>. QED  BY <1>4, <2>1
<1>. QED  BY <1>5, <1>6, <1>7 DEF Stands

(* There is one such sequence.                                             *)
LEMMA OneSequence ==
  ASSUME NEW f, NEW b, NEW h, Shaped(f, b, h), NEW w, Stands(w, f, b, h)
  PROVE  Joined(f, b, h) = w
<1>1. PICK x : x = Joined(f, b, h)
  OBVIOUS
<1>2. Stands(x, f, b, h)
  BY <1>1, JoinedStands
<1>3. Len(x) = Len(w) /\ x \in Seq(Values) /\ w \in Seq(Values)
  BY <1>2 DEF Stands
<1>4. ASSUME NEW k \in 1..Len(x) PROVE x[k] = w[k]
  <2>1. CASE k <= Len(f)
    <3>1. k \in 1..Len(f)
      BY <2>1, Lengths
    <3>. QED  BY <1>2, <3>1 DEF Stands
  <2>2. CASE ~(k <= Len(f))
    <3>1. k - Len(f) \in 1..(Len(b) - h + 1) /\ Len(f) + (k - Len(f)) = k
      BY <1>2, <2>2, Lengths DEF Stands
    <3>2. x[Len(f) + (k - Len(f))] = w[Len(f) + (k - Len(f))]
      BY <1>2, <3>1 DEF Stands
    <3>. QED  BY <3>1, <3>2
  <2>. QED  BY <2>1, <2>2
<1>5. x = w
  BY <1>3, <1>4, SeqEqual
<1>. QED  BY <1>1, <1>5

(* append() appends.                                                       *)
LEMMA JoinedAppend ==
  ASSUME NEW f, NEW b, NEW h, Shaped(f, b, h), NEW v \in Values
  PROVE  /\ Shaped(f, Append(b, v), h) /\ Len(Append(b, v)) = Len(b) + 1
         /\ Joined(f, Append(b, v), h) = Append(Joined(f, b, h), v)
<1>1. PICK w : w = Joined(f, b, h)
  OBVIOUS
<1>2. Stands(w, f, b, h) /\ Len(f) \in Nat /\ Len(b) \in Nat /\ h \in Nat \ {0} /\ h <= Len(b) + 1
  BY <1>1, JoinedStands, Lengths
<1>3. PICK c : c = Append(b, v)
  OBVIOUS
<1>4. PICK y : y = Append(w, v)
  OBVIOUS
<1>5. /\ c \in Seq(Values) /\ Len(c) = Len(b) + 1
      /\ \A k \in 1..Len(b) : c[k] = b[k]
      /\ c[Len(b) + 1] = v
  BY <1>3, AppendProperties DEF Shaped
<1>6. /\ y \in Seq(Values) /\ Len(y) = Len(w) + 1
      /\ \A k \in 1..Len(w) : y[k] = w[k]
      /\ y[Len(w) + 1] = v
  BY <1>2, <1>4, AppendProperties DEF Stands
<1>7. Shaped(f, c, h)
  BY <1>2, <1>5 DEF Shaped
<1>8. Stands(y, f, c, h)
  <2>1. Len(w) = Len(f) + Len(b) - h + 1 /\ Len(y) = Len(f) + Len(c) - h + 1
    BY <1>2, <1>5, <1>6 DEF Stands
  <2>2. ASSUME NEW k \in 1..Len(f) PROVE y[k] = f[Len(f) - k + 1]
    <3>1. k \in 1..Len(w)
      BY <1>2, <2>1
    <3>. QED  BY <1>2, <1>6, <3>1 DEF Stands
  <2>3. ASSUME NEW k \in 1..(Len(c) - h + 1) PROVE y[Len(f) + k] = c[h + k - 1]
    <3>1. CASE k = Len(b) - h + 2
      <4>1. Len(f) + k = Len(w) + 1 /\ h + k - 1 = Len(b) + 1
        BY <1>2, <2>1, <3>1
      <4>. QED  BY <1>5, <1>6, <4>1
    <3>2. CASE k # Len(b) - h + 2
      <4>1. k \in 1..(Len(b) - h + 1)
        BY <1>2, <1>5, <3>2
      <4>2. Len(f) + k \in 1..Len(w) /\ h + k - 1 \in 1..Len(b)
        BY <1>2, <2>1, <4>1
      <4>. QED  BY <1>2, <1>5, <1>6, <4>1, <4>2 DEF Stands
    <3>. QED  BY <3>1, <3>2
  <2>. QED  BY <1>6, <2>1, <2>2, <2>3 DEF Stands
<1>9. Joined(f, c, h) = y
  BY <1>7, <1>8, OneSequence
<1>. QED  BY <1>1, <1>3, <1>4, <1>5, <1>7, <1>9

(* prepend() puts the value at position 1.                                 *)
LEMMA JoinedPrepend ==
  ASSUME NEW f, NEW b, NEW h, Shaped(f, b, h), NEW v \in Values
  PROVE  /\ Shaped(Append(f, v), b, h)
         /\ Joined(Append(f, v), b, h) = <<v>> \o Joined(f, b, h)
<1>1. PICK w : w = Joined(f, b, h)
  OBVIOUS
<1>2. Stands(w, f, b, h) /\ Len(f) \in Nat /\ Len(b) \in Nat /\ h \in Nat \ {0} /\ h <= Len(b) + 1
  BY <1>1, JoinedStands, Lengths
<1>3. PICK g : g = Append(f, v)
  OBVIOUS
<1>4. PICK y : y = <<v>> \o w
  OBVIOUS
<1>5. /\ g \in Seq(Values) /\ Len(g) = Len(f) + 1
      /\ \A k \in 1..Len(f) : g[k] = f[k]
      /\ g[Len(f) + 1] = v
  BY <1>3, AppendProperties DEF Shaped
<1>6. /\ y \in Seq(Values) /\ Len(y) = 1 + Len(w)
      /\ \A k \in 1..(1 + Len(w)) : y[k] = IF k <= 1 THEN v ELSE w[k - 1]
  <2>1. <<v>> \in Seq(Values) /\ Len(<<v>>) = 1 /\ <<v>>[1] = v
    OBVIOUS
  <2>2. w \in Seq(Values)
    BY <1>2 DEF Stands
  <2>3. /\ y \in Seq(Values) /\ Len(y) = Len(<<v>>) + Len(w)
        /\ \A k \in 1..(Len(<<v>>) + Len(w)) :
             y[k] = IF k <= Len(<<v>>) THEN <<v>>[k] ELSE w[k - Len(<<v>>)]
    BY <1>4, <2>1, <2>2, ConcatProperties, Zenon
  <2>4. \A k \in 1..(1 + Len(w)) : k <= 1 => k = 1
    OBVIOUS
  <2>. QED  BY <2>1, <2>3, <2>4
<1>7. Shaped(g, b, h)
  BY <1>2, <1>5 DEF Shaped
<1>8. Stands(y, g, b, h)
  <2>1. Len(w) = Len(f) + Len(b) - h + 1 /\ Len(y) = Len(g) + Len(b) - h + 1
    BY <1>2, <1>5, <1>6 DEF Stands
  <2>2. ASSUME NEW k \in 1..Len(g) PROVE y[k] = g[Len(g) - k + 1]
    <3>1. CASE k = 1
      <4>1. k \in 1..(1 + Len(w)) /\ k <= 1 /\ Len(g) - k + 1 = Len(f) + 1
        BY <1>2, <1>5, <2>1, <3>1
      <4>. QED  BY <1>5, <1>6, <4>1
    <3>2. CASE k # 1
      <4>1. /\ k \in 1..(1 + Len(w)) /\ ~(k <= 1) /\ k - 1 \in 1..Len(f)
            /\ Len(g) - k + 1 = Len(f) - (k - 1) + 1 /\ Len(f) - (k - 1) + 1 \in 1..Len(f)
        BY <1>2, <1>5, <2>1, <3>2
      <4>2. w[k - 1] = f[Len(f) - (k - 1) + 1]
        BY <1>2, <4>1 DEF Stands
      <4>. QED  BY <1>5, <1>6, <4>1, <4>2
    <3>. QED  BY <3>1, <3>2
  <2>3. ASSUME NEW k \in 1..(Len(b) - h + 1) PROVE y[Len(g) + k] = b[h + k - 1]
    <3>1. /\ Len(g) + k \in 1..(1 + Len(w)) /\ ~(Len(g) + k <= 1)
          /\ Len(g) + k - 1 = Len(f) + k
      BY <1>2, <1>5, <2>1
    <3>2. w[Len(f) + k] = b[h + k - 1]
      BY <1>2 DEF Stands
    <3>. QED  BY <1>6, <3>1, <3>2
  <2>. QED  BY <1>6, <2>1, <2>2, <2>3 DEF Stands
<1>9. Joined(g, b, h) = y
  BY <1>7, <1>8, OneSequence
<1>. QED  BY <1>1, <1>3, <1>4, <1>7, <1>9

(* The last of the prepended values is the first of the list.              *)
LEMMA JoinedPopFront ==
  ASSUME NEW f, NEW b, NEW h, Shaped(f, b, h), f # << >>
  PROVE  /\ Shaped(SubSeq(f, 1, Len(f) - 1), b, h)
         /\ Joined(f, b, h) # << >> /\ Head(Joined(f, b, h)) = f[Len(f)]
         /\ Joined(SubSeq(f, 1, Len(f) - 1), b, h) = Tail(Joined(f, b, h))
<1>1. PICK w : w = Joined(f, b, h)
  OBVIOUS
<1>2. Stands(w, f, b, h) /\ Len(b) \in Nat /\ h \in Nat \ {0} /\ h <= Len(b) + 1
  BY <1>1, JoinedStands, Lengths
<1>3. Len(f) \in Nat \ {0}
  BY Lengths, EmptySeq DEF Shaped
<1>4. PICK g : g = SubSeq(f, 1, Len(f) - 1)
  OBVIOUS
<1>5. /\ g \in Seq(Values) /\ Len(g) = Len(f) - 1
      /\ \A k \in 1..(Len(f) - 1) : g[k] = f[k]
  <2>1. Len(f) - 1 \in Nat /\ Len(f) - 1 <= Len(f) /\ f \in Seq(Values)
    BY <1>3 DEF Shaped
  <2>. QED  BY <1>4, <2>1, PrefixProperties
<1>6. /\ w \in Seq(Values) /\ Len(w) \in Nat \ {0} /\ w # << >>
      /\ Len(w) = Len(f) + Len(b) - h + 1
  BY <1>2, <1>3, EmptySeq DEF Stands
<1>7. PICK y : y = Tail(w)
  OBVIOUS
<1>8. /\ y \in Seq(Values) /\ Len(y) = Len(w) - 1
      /\ \A k \in 1..(Len(w) - 1) : y[k] = w[k + 1]
  BY <1>6, <1>7, HeadTailProperties
<1>9. Head(w) = f[Len(f)]
  <2>1. 1 \in 1..Len(f) /\ Len(f) - 1 + 1 = Len(f)
    BY <1>3
  <2>2. w[1] = f[Len(f) - 1 + 1]
    BY <1>2, <2>1 DEF Stands
  <2>. QED  BY <1>6, <2>1, <2>2
<1>10. Shaped(g, b, h)
  BY <1>2, <1>5 DEF Shaped
<1>11. Stands(y, g, b, h)
  <2>1. Len(y) = Len(g) + Len(b) - h + 1
    BY <1>2, <1>3, <1>5, <1>6, <1>8
  <2>2. ASSUME NEW k \in 1..Len(g) PROVE y[k] = g[Len(g) - k + 1]
    <3>1. /\ k + 1 \in 1..Len(f) /\ k \in 1..(Len(w) - 1)
          /\ Len(f) - (k + 1) + 1 = Len(g) - k + 1 /\ Len(g) - k + 1 \in 1..(Len(f) - 1)
      BY <1>2, <1>3, <1>5, <1>6
    <3>2. w[k + 1] = f[Len(f) - (k + 1) + 1]
      BY <1>2, <3>1 DEF Stands
    <3>. QED  BY <1>5, <1>8, <3>1, <3>2
  <2>3. ASSUME NEW k \in 1..(Len(b) - h + 1) PROVE y[Len(g) + k] = b[h + k - 1]
    <3>1. Len(g) + k \in 1..(Len(w) - 1) /\ Len(g) + k + 1 = Len(f) + k
      BY <1>2, <1>3, <1>5, <1>6
    <3>2. w[Len(f) + k] = b[h + k - 1]
      BY <1>2 DEF Stands
    <3>. QED  BY <1>8, <3>1, <3>2
  <2>. QED  BY <1>8, <2>1, <2>2, <2>3 DEF Stands
<1>12. Joined(g, b, h) = y
  BY <1>10, <1>11, OneSequence
<1>. QED  BY <1>1, <1>4, <1>6, <1>7, <1>9, <1>10, <1>12

(* With nothing prepended the element at head is the first; compact()      *)
(* keeps the others.                                                       *)
LEMMA JoinedPopBack ==
  ASSUME NEW f, f = << >>, NEW b, NEW h, Shaped(f, b, h), h <= Len(b),
         NEW c, c = Compacted(b, h + 1)
  PROVE  /\ Shaped(f, c.data, c.head)
         /\ Modest(c.data, c.head)
         /\ Joined(f, b, h) # << >> /\ Head(Joined(f, b, h)) = b[h]
         /\ Joined(f, c.data, c.head) = Tail(Joined(f, b, h))
<1>1. PICK w : w = Joined(<< >>, b, h)
  OBVIOUS
<1>2. /\ Stands(w, << >>, b, h) /\ Len(b) \in Nat /\ h \in Nat \ {0} /\ b \in Seq(Values)
      /\ << >> \in Seq(Values) /\ Len(<< >>) = 0
  BY <1>1, JoinedStands, Lengths, EmptySeq DEF Shaped
<1>3. /\ c.data \in Seq(Values) /\ c.head \in Nat \ {0}
      /\ Len(c.data) - c.head = Len(b) - (h + 1)
      /\ \A k \in 1..(Len(b) - (h + 1) + 1) : c.data[c.head + k - 1] = b[(h + 1) + k - 1]
      /\ Modest(c.data, c.head)
  <2>1. PICK g : g = h + 1
    OBVIOUS
  <2>2. g \in Nat \ {0} /\ g <= Len(b) + 1
    BY <1>2, <2>1
  <2>3. c = Compacted(b, g)
    BY <2>1
  <2>4. b \in Seq(Values)
    BY <1>2
  <2>5. /\ c.data \in Seq(Values) /\ c.head \in Nat \ {0}
        /\ Len(c.data) - c.head = Len(b) - g
        /\ \A k \in 1..(Len(b) - g + 1) : c.data[c.head + k - 1] = b[g + k - 1]
        /\ Modest(c.data, c.head)
    BY <2>2, <2>3, <2>4, CompactedKeeps
  <2>. QED  BY <2>1, <2>5
<1>4. Len(c.data) \in Nat
  BY <1>3, LenProperties
<1>5. /\ w \in Seq(Values) /\ Len(w) \in Nat \ {0} /\ w # << >>
      /\ Len(w) = Len(b) - h + 1
      /\ \A k \in 1..(Len(b) - h + 1) : w[k] = b[h + k - 1]
  <2>1. w \in Seq(Values) /\ Len(w) = Len(b) - h + 1
    BY <1>2 DEF Stands
  <2>2. ASSUME NEW k \in 1..(Len(b) - h + 1) PROVE w[k] = b[h + k - 1]
    <3>1. w[Len(<< >>) + k] = b[h + k - 1]
      BY <1>2 DEF Stands
    <3>2. Len(<< >>) + k = k
      BY <1>2
    <3>. QED  BY <3>1, <3>2
  <2>. QED  BY <1>2, <2>1, <2>2, EmptySeq
<1>6. PICK y : y = Tail(w)
  OBVIOUS
<1>7. /\ y \in Seq(Values) /\ Len(y) = Len(w) - 1
      /\ \A k \in 1..(Len(w) - 1) : y[k] = w[k + 1]
  BY <1>5, <1>6, HeadTailProperties
<1>8. Head(w) = b[h]
  <2>1. 1 \in 1..(Len(b) - h + 1) /\ h + 1 - 1 = h
    BY <1>2
  <2>2. w[1] = b[h + 1 - 1]
    BY <1>5, <2>1
  <2>. QED  BY <1>5, <2>1, <2>2
<1>9. Shaped(<< >>, c.data, c.head)
  BY <1>2, <1>3, <1>4 DEF Shaped
<1>10. Stands(y, << >>, c.data, c.head)
  <2>1. Len(y) = Len(<< >>) + Len(c.data) - c.head + 1
    BY <1>2, <1>3, <1>4, <1>5, <1>7
  <2>2. ASSUME NEW k \in 1..(Len(c.data) - c.head + 1)
        PROVE  y[Len(<< >>) + k] = c.data[c.head + k - 1]
    <3>1. /\ k \in 1..(Len(w) - 1) /\ k + 1 \in 1..(Len(b) - h + 1)
          /\ k \in 1..(Len(b) - (h + 1) + 1)
          /\ h + (k + 1) - 1 = (h + 1) + k - 1 /\ Len(<< >>) + k = k
      BY <1>2, <1>3, <1>4, <1>5
    <3>2. y[k] = w[k + 1]
      BY <1>7, <3>1
    <3>3. w[k + 1] = b[h + (k + 1) - 1]
      BY <1>5, <3>1
    <3>4. c.data[c.head + k - 1] = b[(h + 1) + k - 1]
      BY <1>3, <3>1
    <3>. QED  BY <3>1, <3>2, <3>3, <3>4
  <2>3. \A k \in 1..Len(<< >>) : FALSE
    BY <1>2
  <2>. QED  BY <1>7, <2>1, <2>2, <2>3 DEF Stands
<1>11. Joined(<< >>, c.data, c.head) = y
  BY <1>9, <1>10, OneSequence
<1>. QED  BY <1>1, <1>3, <1>5, <1>6, <1>8, <1>9, <1>11

(* An assignment changes one element, or none when it is out of range.     *)
LEMMA AssignedElements ==
  ASSUME NEW S, NEW s \in Seq(S), NEW i \in Int, NEW v \in S, NEW t, t = Assigned(s, i, v)
  PROVE  /\ t \in Seq(S) /\ Len(t) = Len(s)
         /\ \A k \in 1..Len(s) : t[k] = IF k = i THEN v ELSE s[k]
<1>1. Len(s) \in Nat /\ \A k \in 1..Len(s) : s[k] \in S
  BY LenProperties, ElementOfSeq
<1>2. t = [k \in 1..Len(s) |-> IF k = i THEN v ELSE s[k]]
  BY DEF Assigned
<1>3. t \in [1..Len(s) -> S]
  BY <1>1, <1>2
<1>4. t \in Seq(S) /\ Len(t) = Len(s)
  BY <1>1, <1>3, SeqDef, LenProperties
<1>. QED  BY <1>2, <1>4

(* set() of a prepended value.                                             *)
LEMMA JoinedPutFront ==
  ASSUME NEW f, NEW b, NEW h, Shaped(f, b, h), NEW i \in Int, i <= Len(f), NEW v \in Values
  PROVE  /\ Shaped(Assigned(f, Len(f) - i + 1, v), b, h)
         /\ Joined(Assigned(f, Len(f) - i + 1, v), b, h) = Assigned(Joined(f, b, h), i, v)
<1>1. PICK w : w = Joined(f, b, h)
  OBVIOUS
<1>2. Stands(w, f, b, h) /\ Len(f) \in Nat /\ Len(b) \in Nat /\ h \in Nat \ {0} /\ h <= Len(b) + 1
  BY <1>1, JoinedStands, Lengths
<1>3. PICK j : j = Len(f) - i + 1
  OBVIOUS
<1>4. PICK g : g = Assigned(f, j, v)
  OBVIOUS
<1>5. PICK y : y = Assigned(w, i, v)
  OBVIOUS
<1>6. j \in Int /\ f \in Seq(Values) /\ w \in Seq(Values)
  BY <1>2, <1>3 DEF Shaped, Stands
<1>7. g \in Seq(Values) /\ Len(g) = Len(f) /\ \A k \in 1..Len(f) : g[k] = IF k = j THEN v ELSE f[k]
  BY <1>4, <1>6, AssignedElements
<1>8. y \in Seq(Values) /\ Len(y) = Len(w) /\ \A k \in 1..Len(w) : y[k] = IF k = i THEN v ELSE w[k]
  BY <1>5, <1>6, AssignedElements
<1>9. Shaped(g, b, h)
  BY <1>2, <1>7 DEF Shaped
<1>10. Stands(y, g, b, h)
  <2>1. Len(w) = Len(f) + Len(b) - h + 1
    BY <1>2 DEF Stands
  <2>2. ASSUME NEW k \in 1..Len(f) PROVE y[k] = g[Len(f) - k + 1]
    <3>1. /\ k \in 1..Len(w) /\ Len(f) - k + 1 \in 1..Len(f)
          /\ k = i <=> Len(f) - k + 1 = j
      BY <1>2, <1>3, <2>1
    <3>2. w[k] = f[Len(f) - k + 1]
      BY <1>2 DEF Stands
    <3>. QED  BY <1>7, <1>8, <3>1, <3>2
  <2>3. ASSUME NEW k \in 1..(Len(b) - h + 1) PROVE y[Len(f) + k] = b[h + k - 1]
    <3>1. Len(f) + k \in 1..Len(w) /\ Len(f) + k # i
      BY <1>2, <2>1
    <3>2. w[Len(f) + k] = b[h + k - 1]
      BY <1>2 DEF Stands
    <3>. QED  BY <1>8, <3>1, <3>2
  <2>. QED  BY <1>7, <1>8, <2>1, <2>2, <2>3 DEF Stands
<1>11. Joined(g, b, h) = y
  BY <1>9, <1>10, OneSequence
<1>. QED  BY <1>1, <1>3, <1>4, <1>5, <1>9, <1>11

(* set() of an appended value; one before head is not reached.             *)
LEMMA JoinedPutBack ==
  ASSUME NEW f, NEW b, NEW h, Shaped(f, b, h), NEW i \in Int, ~(i <= Len(f)), NEW v \in Values
  PROVE  /\ Shaped(f, Assigned(b, h + i - Len(f) - 1, v), h)
         /\ Len(Assigned(b, h + i - Len(f) - 1, v)) = Len(b)
         /\ Joined(f, Assigned(b, h + i - Len(f) - 1, v), h) = Assigned(Joined(f, b, h), i, v)
<1>1. PICK w : w = Joined(f, b, h)
  OBVIOUS
<1>2. Stands(w, f, b, h) /\ Len(f) \in Nat /\ Len(b) \in Nat /\ h \in Nat \ {0} /\ h <= Len(b) + 1
  BY <1>1, JoinedStands, Lengths
<1>3. PICK j : j = h + i - Len(f) - 1
  OBVIOUS
<1>4. PICK c : c = Assigned(b, j, v)
  OBVIOUS
<1>5. PICK y : y = Assigned(w, i, v)
  OBVIOUS
<1>6. j \in Int /\ b \in Seq(Values) /\ w \in Seq(Values)
  BY <1>2, <1>3 DEF Shaped, Stands
<1>7. c \in Seq(Values) /\ Len(c) = Len(b) /\ \A k \in 1..Len(b) : c[k] = IF k = j THEN v ELSE b[k]
  BY <1>4, <1>6, AssignedElements
<1>8. y \in Seq(Values) /\ Len(y) = Len(w) /\ \A k \in 1..Len(w) : y[k] = IF k = i THEN v ELSE w[k]
  BY <1>5, <1>6, AssignedElements
<1>9. Shaped(f, c, h)
  BY <1>2, <1>7 DEF Shaped
<1>10. Stands(y, f, c, h)
  <2>1. Len(w) = Len(f) + Len(b) - h + 1
    BY <1>2 DEF Stands
  <2>2. ASSUME NEW k \in 1..Len(f) PROVE y[k] = f[Len(f) - k + 1]
    <3>1. k \in 1..Len(w) /\ k # i
      BY <1>2, <2>1
    <3>2. w[k] = f[Len(f) - k + 1]
      BY <1>2 DEF Stands
    <3>. QED  BY <1>8, <3>1, <3>2
  <2>3. ASSUME NEW k \in 1..(Len(b) - h + 1) PROVE y[Len(f) + k] = c[h + k - 1]
    <3>1. /\ Len(f) + k \in 1..Len(w) /\ h + k - 1 \in 1..Len(b)
          /\ Len(f) + k = i <=> h + k - 1 = j
      BY <1>2, <1>3, <2>1
    <3>2. w[Len(f) + k] = b[h + k - 1]
      BY <1>2 DEF Stands
    <3>. QED  BY <1>7, <1>8, <3>1, <3>2
  <2>. QED  BY <1>7, <1>8, <2>1, <2>2, <2>3 DEF Stands
<1>11. Joined(f, c, h) = y
  BY <1>9, <1>10, OneSequence
<1>. QED  BY <1>1, <1>3, <1>4, <1>5, <1>7, <1>9, <1>11

-----------------------------------------------------------------------------
ListInv == Shaped(front, back, head) /\ WasteBounded

LEMMA ListInitInv == Init => ListInv /\ List!Init
<1>. SUFFICES ASSUME Init PROVE ListInv /\ List!Init
  OBVIOUS
<1>1. front = << >> /\ back = << >> /\ head = 1 /\ Len(back) = 0 /\ Len(front) = 0
  BY EmptySeq DEF Init
<1>2. ListInv
  BY <1>1, EmptySeq, ThresholdAssumption DEF ListInv, Shaped, WasteBounded, Modest
<1>3. PICK w : w = Joined(front, back, head)
  OBVIOUS
<1>4. w \in Seq(Values) /\ Len(w) = 0
  BY <1>1, <1>2, <1>3, JoinedStands DEF ListInv, Stands
<1>5. w = << >>
  BY <1>4, EmptySeq
<1>. QED  BY <1>2, <1>3, <1>5 DEF Init, List!Init

LEMMA AddLastStep ==
  ASSUME ListInv, NEW v \in Values, AddLast(v)
  PROVE  ListInv' /\ List!Add(v)
<1>1. back' = Append(back, v) /\ List!Returns(<<"add", v>>, v) /\ front' = front /\ head' = head
  BY DEF AddLast, Returns, List!Returns
<1>2. /\ Shaped(front', back', head') /\ Len(back') = Len(back) + 1
      /\ Joined(front', back', head') = Append(Joined(front, back, head), v)
  BY <1>1, JoinedAppend DEF ListInv
<1>3. WasteBounded'
  BY <1>1, <1>2, Lengths, ThresholdAssumption DEF ListInv, WasteBounded, Modest
<1>. QED  BY <1>1, <1>2, <1>3 DEF ListInv, List!Add

LEMMA PrependStep ==
  ASSUME ListInv, NEW v \in Values, Prepend(v)
  PROVE  ListInv' /\ List!AddFront(v)
<1>1. front' = Append(front, v) /\ List!Returns(<<"add front", v>>, v) /\ back' = back /\ head' = head
  BY DEF Prepend, Returns, List!Returns
<1>2. /\ Shaped(front', back', head')
      /\ Joined(front', back', head') = <<v>> \o Joined(front, back, head)
  BY <1>1, JoinedPrepend DEF ListInv
<1>3. WasteBounded'
  BY <1>1 DEF ListInv, WasteBounded
<1>. QED  BY <1>1, <1>2, <1>3 DEF ListInv, List!AddFront

LEMMA PopStep ==
  ASSUME ListInv, PopFront
  PROVE  ListInv' /\ List!Take
<1>1. CASE PopFromFront
  <2>1. /\ front # << >> /\ List!Returns(<<"take">>, front[Len(front)])
        /\ front' = SubSeq(front, 1, Len(front) - 1) /\ back' = back /\ head' = head
    BY <1>1 DEF PopFromFront, Returns, List!Returns
  <2>2. /\ Shaped(front', back', head')
        /\ Joined(front, back, head) # << >>
        /\ Head(Joined(front, back, head)) = front[Len(front)]
        /\ Joined(front', back', head') = Tail(Joined(front, back, head))
    BY <2>1, JoinedPopFront DEF ListInv
  <2>3. WasteBounded'
    BY <2>1 DEF ListInv, WasteBounded
  <2>. QED  BY <2>1, <2>2, <2>3 DEF ListInv, List!Take
<1>2. CASE PopFromBack
  <2>1. PICK c : c = Compacted(back, head + 1)
    OBVIOUS
  <2>2. /\ front = << >> /\ front' = << >> /\ head <= Len(back)
        /\ List!Returns(<<"take">>, back[head])
        /\ back' = c.data /\ head' = c.head
    BY <1>2, <2>1 DEF PopFromBack, Returns, List!Returns
  <2>3. Shaped(front, back, head) /\ head <= Len(back)
    BY <2>2 DEF ListInv
  <2>4. /\ Shaped(front, c.data, c.head)
        /\ Modest(c.data, c.head)
        /\ Joined(front, back, head) # << >> /\ Head(Joined(front, back, head)) = back[head]
        /\ Joined(front, c.data, c.head) = Tail(Joined(front, back, head))
    BY <2>1, <2>2, <2>3, JoinedPopBack
  <2>5. ListInv'
    BY <2>2, <2>4 DEF ListInv, WasteBounded
  <2>. QED  BY <2>2, <2>4, <2>5 DEF List!Take
<1>3. CASE PopNothing
  <2>1. /\ front = << >> /\ head > Len(back) /\ List!Returns(<<"take">>, None)
        /\ front' = front /\ back' = back /\ head' = head
    BY <1>3 DEF PopNothing, Returns, List!Returns
  <2>2. ListInv'
    BY <2>1 DEF ListInv, WasteBounded
  <2>3. PICK w : w = Joined(front, back, head)
    OBVIOUS
  <2>4. w \in Seq(Values) /\ Len(w) = Len(front) + Len(back) - head + 1
    BY <2>3, JoinedStands DEF ListInv, Stands
  <2>5. Len(w) \in Nat /\ Len(front) = 0
    BY <2>1, <2>4, LenProperties, EmptySeq
  <2>6. Len(w) = 0
    BY <2>1, <2>4, <2>5, Lengths DEF ListInv
  <2>7. w = << >>
    BY <2>4, <2>6, EmptySeq
  <2>. QED  BY <2>1, <2>2, <2>3, <2>7 DEF List!Take
<1>. QED  BY <1>1, <1>2, <1>3 DEF PopFront

LEMMA PutStep ==
  ASSUME ListInv, NEW i \in Int, NEW v \in Values, Put(i, v)
  PROVE  ListInv' /\ List!Put(i, v)
<1>1. List!Returns(<<"put", i, v>>, v) /\ head' = head
  BY DEF Put, Returns, List!Returns
<1>2. CASE i <= Len(front)
  <2>1. front' = Assigned(front, Len(front) - i + 1, v) /\ back' = back
    BY <1>2 DEF Put
  <2>2. /\ Shaped(front', back', head')
        /\ Joined(front', back', head') = Assigned(Joined(front, back, head), i, v)
    BY <1>1, <1>2, <2>1, JoinedPutFront DEF ListInv
  <2>3. WasteBounded'
    BY <1>1, <2>1 DEF ListInv, WasteBounded
  <2>. QED  BY <1>1, <2>2, <2>3 DEF ListInv, List!Put, List!Positions, Assigned
<1>3. CASE ~(i <= Len(front))
  <2>1. back' = Assigned(back, head + i - Len(front) - 1, v) /\ front' = front
    BY <1>3 DEF Put
  <2>2. /\ Shaped(front', back', head') /\ Len(back') = Len(back)
        /\ Joined(front', back', head') = Assigned(Joined(front, back, head), i, v)
    BY <1>1, <1>3, <2>1, JoinedPutBack DEF ListInv
  <2>3. WasteBounded'
    BY <1>1, <2>2 DEF ListInv, WasteBounded, Modest
  <2>. QED  BY <1>1, <2>2, <2>3 DEF ListInv, List!Put, List!Positions, Assigned
<1>. QED  BY <1>2, <1>3

(* The operations that only look change neither the arrays nor the list.   *)
LEMMA LookStep ==
  ASSUME ListInv, front' = front, back' = back, head' = head
  PROVE  ListInv' /\ Joined(front', back', head') = Joined(front, back, head)
BY DEF ListInv, WasteBounded

LEMMA GetStep ==
  ASSUME ListInv, NEW i \in Int, Get(i)
  PROVE  List!Get(i)
<1>1. PICK w : w = Joined(front, back, head)
  OBVIOUS
<1>2. /\ Stands(w, front, back, head)
      /\ Len(front) \in Nat /\ Len(back) \in Nat /\ head \in Nat \ {0} /\ head <= Len(back) + 1
  BY <1>1, JoinedStands, Lengths DEF ListInv
<1>3. Len(w) = Len(front) + Len(back) - head + 1
  BY <1>2 DEF Stands
<1>4. result' = IF i \in 1..Len(w) THEN w[i] ELSE Error
  <2>1. CASE i <= Len(front)
    <3>1. result' = At(front, Len(front) - i + 1)
      BY <2>1 DEF Get, Returns
    <3>2. CASE i \in 1..Len(front)
      <4>1. Len(front) - i + 1 \in 1..Len(front) /\ i \in 1..Len(w)
        BY <1>2, <1>3, <3>2
      <4>2. w[i] = front[Len(front) - i + 1]
        BY <1>2, <3>2 DEF Stands
      <4>. QED  BY <3>1, <4>1, <4>2 DEF At
    <3>3. CASE i \notin 1..Len(front)
      <4>1. Len(front) - i + 1 \notin 1..Len(front) /\ i \notin 1..Len(w)
        BY <1>2, <2>1, <3>3
      <4>. QED  BY <3>1, <4>1 DEF At
    <3>. QED  BY <3>2, <3>3
  <2>2. CASE ~(i <= Len(front))
    <3>1. result' = At(back, head + i - Len(front) - 1)
      BY <2>2 DEF Get, Returns
    <3>2. CASE i \in 1..Len(w)
      <4>1. /\ i - Len(front) \in 1..(Len(back) - head + 1)
            /\ head + i - Len(front) - 1 \in 1..Len(back)
            /\ Len(front) + (i - Len(front)) = i
            /\ head + (i - Len(front)) - 1 = head + i - Len(front) - 1
        BY <1>2, <1>3, <2>2, <3>2
      <4>2. w[Len(front) + (i - Len(front))] = back[head + (i - Len(front)) - 1]
        BY <1>2, <4>1 DEF Stands
      <4>. QED  BY <3>1, <3>2, <4>1, <4>2 DEF At
    <3>3. CASE i \notin 1..Len(w)
      <4>1. head + i - Len(front) - 1 \notin 1..Len(back)
        BY <1>2, <1>3, <2>2, <3>3
      <4>. QED  BY <3>1, <3>3, <4>1 DEF At
    <3>. QED  BY <3>2, <3>3
  <2>. QED  BY <2>1, <2>2
<1>5. call' = <<"get", i>> /\ Joined(front', back', head') = Joined(front, back, head)
  BY LookStep DEF Get, Returns
<1>. QED  BY <1>1, <1>4, <1>5 DEF List!Get, List!Positions, List!Returns

LEMMA ContainsStep ==
  ASSUME ListInv, NEW v \in Values, Contains(v)
  PROVE  List!Contains(v)
<1>1. PICK w : w = Joined(front, back, head)
  OBVIOUS
<1>2. /\ Stands(w, front, back, head)
      /\ Len(front) \in Nat /\ Len(back) \in Nat /\ head \in Nat \ {0} /\ head <= Len(back) + 1
  BY <1>1, JoinedStands, Lengths DEF ListInv
<1>3. Len(w) = Len(front) + Len(back) - head + 1
  BY <1>2 DEF Stands
<1>4. ASSUME NEW i \in 1..Len(front), front[i] = v PROVE \E k \in 1..Len(w) : w[k] = v
  <2>1. /\ Len(front) - i + 1 \in 1..Len(front) /\ Len(front) - i + 1 \in 1..Len(w)
        /\ Len(front) - (Len(front) - i + 1) + 1 = i
    BY <1>2, <1>3
  <2>2. w[Len(front) - i + 1] = front[Len(front) - (Len(front) - i + 1) + 1]
    BY <1>2, <2>1 DEF Stands
  <2>. QED  BY <1>4, <2>1, <2>2
<1>5. ASSUME NEW i \in head..Len(back), back[i] = v PROVE \E k \in 1..Len(w) : w[k] = v
  <2>1. /\ i - head + 1 \in 1..(Len(back) - head + 1)
        /\ Len(front) + (i - head + 1) \in 1..Len(w)
        /\ head + (i - head + 1) - 1 = i
    BY <1>2, <1>3
  <2>2. w[Len(front) + (i - head + 1)] = back[head + (i - head + 1) - 1]
    BY <1>2, <2>1 DEF Stands
  <2>. QED  BY <1>5, <2>1, <2>2
<1>6. ASSUME NEW k \in 1..Len(w), w[k] = v
      PROVE  (\E i \in 1..Len(front) : front[i] = v) \/ (\E i \in head..Len(back) : back[i] = v)
  <2>1. CASE k <= Len(front)
    <3>1. k \in 1..Len(front) /\ Len(front) - k + 1 \in 1..Len(front)
      BY <1>2, <2>1
    <3>2. w[k] = front[Len(front) - k + 1]
      BY <1>2, <3>1 DEF Stands
    <3>. QED  BY <1>6, <3>1, <3>2
  <2>2. CASE ~(k <= Len(front))
    <3>1. /\ k - Len(front) \in 1..(Len(back) - head + 1)
          /\ head + (k - Len(front)) - 1 \in head..Len(back)
          /\ Len(front) + (k - Len(front)) = k
      BY <1>2, <1>3, <2>2
    <3>2. w[Len(front) + (k - Len(front))] = back[head + (k - Len(front)) - 1]
      BY <1>2, <3>1 DEF Stands
    <3>. QED  BY <1>6, <3>1, <3>2
  <2>. QED  BY <2>1, <2>2
<1>7. result' = IF \E k \in 1..Len(w) : w[k] = v THEN 1 ELSE 0
  BY <1>4, <1>5, <1>6 DEF Contains, Returns
<1>8. call' = <<"contains", v>> /\ Joined(front', back', head') = Joined(front, back, head)
  BY LookStep DEF Contains, Returns
<1>. QED  BY <1>1, <1>7, <1>8 DEF List!Contains, List!Positions, List!Returns

LEMMA SizeStep ==
  ASSUME ListInv, Size
  PROVE  List!Size
<1>1. PICK w : w = Joined(front, back, head)
  OBVIOUS
<1>2. /\ Stands(w, front, back, head)
      /\ Len(front) \in Nat /\ Len(back) \in Nat /\ head \in Nat \ {0} /\ head <= Len(back) + 1
  BY <1>1, JoinedStands, Lengths DEF ListInv
<1>3. Len(w) = Len(front) + Len(back) - head + 1
  BY <1>2 DEF Stands
<1>4. result' = Len(w)
  BY <1>2, <1>3 DEF Size, BackSize, Returns
<1>5. call' = <<"size">> /\ Joined(front', back', head') = Joined(front, back, head)
  BY LookStep DEF Size, Returns
<1>. QED  BY <1>1, <1>4, <1>5 DEF List!Size, List!Returns

LEMMA ListStepInv ==
  ASSUME ListInv, [Next]_vars
  PROVE  ListInv' /\ [List!Next]_List!vars
<1>1. ASSUME NEW v \in Values, AddLast(v) PROVE ListInv' /\ List!Next
  BY <1>1, AddLastStep DEF List!Next
<1>2. ASSUME NEW v \in Values, Prepend(v) PROVE ListInv' /\ List!Next
  BY <1>2, PrependStep DEF List!Next
<1>3. CASE PopFront
  BY <1>3, PopStep DEF List!Next
<1>4. ASSUME NEW i \in Indices, NEW v \in Values, Put(i, v) PROVE ListInv' /\ List!Next
  BY <1>4, PutStep, IndicesAssumption DEF List!Next
<1>5. ASSUME NEW i \in Indices, Get(i) PROVE ListInv' /\ List!Next
  BY <1>5, GetStep, LookStep, IndicesAssumption DEF List!Next, Get
<1>6. ASSUME NEW v \in Values, Contains(v) PROVE ListInv' /\ List!Next
  BY <1>6, ContainsStep, LookStep DEF List!Next, Contains
<1>7. CASE Size
  BY <1>7, SizeStep, LookStep DEF List!Next, Size
<1>8. CASE UNCHANGED vars
  BY <1>8, LookStep DEF vars, List!vars
<1>. QED  BY <1>1, <1>2, <1>3, <1>4, <1>5, <1>6, <1>7, <1>8 DEF Next

(* Every behaviour of a LinkedList is one of a Deque, whatever the         *)
(* threshold: compact() is never seen, and no operation miscounts where    *)
(* the prepended values end and the appended ones begin.                   *)
THEOREM Refinement == Spec => ImplementsDeque
<1>1. Init => ListInv /\ List!Init
  BY ListInitInv
<1>2. ListInv /\ [Next]_vars => ListInv' /\ [List!Next]_List!vars
  BY ListStepInv
<1>. QED  BY <1>1, <1>2, PTL DEF Spec, ImplementsDeque, List!Spec

(* The dead elements never outgrow Threshold and half the array.           *)
THEOREM Bounded == Spec => []WasteBounded
<1>1. Init => ListInv
  BY ListInitInv
<1>2. ListInv /\ [Next]_vars => ListInv'
  BY ListStepInv
<1>3. ListInv => WasteBounded
  BY DEF ListInv
<1>. QED  BY <1>1, <1>2, <1>3, PTL DEF Spec

(* compact() drops nothing alive and copies no more than it drops, so what *)
(* one pop_front() copies was paid for by those before it.                 *)
LEMMA CompactedPaid ==
  ASSUME NEW S, NEW data \in Seq(S), NEW h \in Nat \ {0}, h <= Len(data),
         Len(Compacted(data, h + 1).data) < Len(data)
  PROVE  Len(Compacted(data, h + 1).data) <= h + 1
<1> DEFINE c == Compacted(data, h + 1)
           n == Len(data)
<1>1. /\ c.data \in Seq(S) /\ Len(c.data) - c.head = n - (h + 1)
  BY CompactedKeeps
<1>2. n \in Nat /\ Len(c.data) \in Nat /\ h + 1 \in Nat
  BY <1>1, LenProperties
<1>3. CASE h + 1 > n
  <2>1. c.data = << >>
    BY <1>3 DEF Compacted
  <2>. QED  BY <1>2, <2>1, EmptySeq
<1>4. CASE ~(h + 1 > n) /\ (h + 1 <= Threshold \/ h + 1 <= n \div 2)
  <2>1. c.data = data
    BY <1>4 DEF Compacted
  <2>. QED  BY <1>2, <2>1
<1>5. CASE ~(h + 1 > n) /\ ~(h + 1 <= Threshold \/ h + 1 <= n \div 2)
  <2>1. c.head = 1
    BY <1>5 DEF Compacted
  <2>2. h + 1 > n \div 2
    BY <1>2, <1>5
  <2>. HIDE DEF c, n
  <2>3. n < 2 * (h + 1)
    BY <1>2, <2>2
  <2>4. Len(c.data) <= h + 1
    BY <1>1, <1>2, <2>1, <2>3
  <2>. QED  BY <2>4 DEF c
<1>. QED  BY <1>3, <1>4, <1>5

LEMMA StepPaid ==
  ASSUME ListInv, [Next]_vars, Len(back') < Len(back)
  PROVE  Len(back') <= head + 1
<1>1. back \in Seq(Values) /\ head \in Nat \ {0} /\ Len(back) \in Nat
  BY LenProperties DEF ListInv, Shaped
<1>2. CASE PopFromBack
  BY <1>1, <1>2, CompactedPaid DEF PopFromBack
<1>3. ASSUME NEW v \in Values, AddLast(v) PROVE FALSE
  <2>1. Len(back') = Len(back) + 1
    BY <1>1, <1>3, AppendProperties DEF AddLast
  <2>. QED  BY <1>1, <2>1
<1>4. ASSUME NEW i \in Indices, NEW v \in Values, Put(i, v) PROVE FALSE
  <2>1. Len(back') = Len(back)
    BY <1>1, <1>4, LenProperties DEF Put, Assigned
  <2>. QED  BY <1>1, <2>1
<1>5. ASSUME back' = back PROVE FALSE
  BY <1>1, <1>5
<1>6. CASE UNCHANGED vars \/ Size \/ PopFromFront \/ PopNothing
  BY <1>5, <1>6 DEF vars, Size, PopFromFront, PopNothing
<1>7. ASSUME NEW v \in Values, Prepend(v) \/ Contains(v) PROVE FALSE
  BY <1>5, <1>7 DEF Prepend, Contains
<1>8. ASSUME NEW i \in Indices, Get(i) PROVE FALSE
  BY <1>5, <1>8 DEF Get
<1>. QED  BY <1>2, <1>3, <1>4, <1>6, <1>7, <1>8 DEF Next, PopFront

(* When compact() copies, it copies at most one element more than were     *)
(* taken since it last did.                                                *)
THEOREM PaidFor == Spec => CopiesPaidFor
<1>1. ListInv /\ [Next]_vars => [Len(back') < Len(back) => Len(back') <= head + 1]_vars
  BY StepPaid
<1>2. ListInv /\ [Next]_vars => ListInv'
  BY ListStepInv
<1>. QED  BY <1>1, <1>2, ListInitInv, PTL DEF Spec, CopiesPaidFor

-----------------------------------------------------------------------------
(* A queue is a list to which nothing is prepended: each of its steps is   *)
(* one of the list's, but for front(), which a list has not.               *)
Q == INSTANCE Queue WITH data <- back

LEMMA QueueStep ==
  ASSUME ListInv, front = << >>, front' = << >>, Q!Next
  PROVE  \/ Next
         \/ List!First /\ ListInv' /\ back' = back
<1>1. front' = front /\ Len(front) = 0
  BY EmptySeq
<1>2. ASSUME NEW v \in Values, Q!Enqueue(v) PROVE Next
  BY <1>1, <1>2 DEF Q!Enqueue, Q!Returns, AddLast, Returns, Next
<1>3. CASE Q!DequeueNothing
  BY <1>1, <1>3 DEF Q!DequeueNothing, Q!Returns, PopNothing, PopFront, Returns, Next
<1>4. CASE Q!DequeueFirst
  <2>1. Q!Compacted(back, head + 1) = Compacted(back, head + 1)
    BY DEF Q!Compacted, Compacted, Q!Live, Live
  <2>. QED  BY <1>1, <1>4, <2>1 DEF Q!DequeueFirst, Q!Returns, PopFromBack, PopFront, Returns, Next
<1>5. CASE Q!Size
  <2>1. BackSize \in Nat
    BY LenProperties DEF ListInv, Shaped, BackSize
  <2>2. result' = Len(front) + BackSize /\ call' = <<"size">> /\ UNCHANGED <<front, back, head>>
    BY <1>1, <1>5, <2>1 DEF Q!Size, Q!Returns, BackSize
  <2>. QED  BY <2>2 DEF Size, Returns, Next
<1>6. CASE Q!Front
  <2>1. back' = back /\ head' = head /\ call' = <<"first">>
        /\ result' = IF head > Len(back) THEN None ELSE back[head]
    BY <1>6 DEF Q!Front, Q!Returns
  <2>2. ListInv' /\ Joined(front', back', head') = Joined(front, back, head)
    BY <1>1, <2>1, LookStep
  <2>3. PICK w : w = Joined(front, back, head)
    OBVIOUS
  <2>4. /\ w \in Seq(Values) /\ Len(w) = Len(front) + Len(back) - head + 1
        /\ \A k \in 1..(Len(back) - head + 1) : w[Len(front) + k] = back[head + k - 1]
    BY <2>3, JoinedStands DEF ListInv, Stands
  <2>5. Len(back) \in Nat /\ head \in Nat \ {0} /\ head <= Len(back) + 1
    BY Lengths DEF ListInv
  <2>6. result' = IF w = << >> THEN None ELSE Head(w)
    <3>1. CASE head > Len(back)
      <4>1. Len(w) = 0
        BY <1>1, <2>4, <2>5, <3>1
      <4>. QED  BY <2>1, <2>4, <3>1, <4>1, EmptySeq
    <3>2. CASE ~(head > Len(back))
      <4>1. 1 \in 1..(Len(back) - head + 1) /\ head + 1 - 1 = head /\ Len(front) + 1 = 1
        BY <1>1, <2>5, <3>2
      <4>2. w[Len(front) + 1] = back[head + 1 - 1]
        BY <2>4, <4>1
      <4>3. w[1] = back[head] /\ w # << >>
        <5>1. Len(w) # 0
          BY <1>1, <2>4, <2>5, <3>2
        <5>. QED  BY <4>1, <4>2, <5>1, EmptySeq
      <4>4. Head(w) = w[1]
        BY <2>4, <4>3, HeadTailProperties
      <4>. QED  BY <2>1, <3>2, <4>3, <4>4
    <3>. QED  BY <3>1, <3>2
  <2>. QED  BY <2>1, <2>2, <2>3, <2>6 DEF List!First, List!Returns
<1>. QED  BY <1>2, <1>3, <1>4, <1>5, <1>6 DEF Q!Next, Q!Dequeue

LEMMA QueueStays ==
  ASSUME ListInv, front = << >>, front' = << >>, [Q!Next]_Q!vars
  PROVE  /\ ListInv' /\ [List!Next]_List!vars
         /\ Len(back') < Len(back) => Len(back') <= head + 1
<1>1. CASE Q!Next /\ Next
  BY <1>1, ListStepInv, StepPaid
<1>2. CASE Q!Next /\ List!First /\ ListInv' /\ back' = back
  <2>1. Len(back) \in Nat
    BY Lengths DEF ListInv
  <2>. QED  BY <1>2, <2>1 DEF List!Next
<1>3. CASE UNCHANGED Q!vars
  <2>1. UNCHANGED vars
    BY <1>3 DEF Q!vars, vars
  <2>. QED  BY <2>1, ListStepInv, StepPaid
<1>. QED  BY <1>1, <1>2, <1>3, QueueStep

(* Every behaviour of a Queue is one of a Deque, of which it only uses the *)
(* end to add to and the front to take from; its dead elements are bounded *)
(* and its copies are paid for as a list's are.  Q is the queue of the     *)
(* runs: its array is in the place of `back', and `front' is not used.     *)
THEOREM QueueRefinement ==
  Q!Spec /\ [](front = << >>) => ImplementsDeque /\ []WasteBounded /\ CopiesPaidFor
<1>1. Q!Init /\ front = << >> => ListInv /\ List!Init
  BY ListInitInv DEF Q!Init, Init
<1>2. ListInv /\ front = << >> /\ (front = << >>)' /\ [Q!Next]_Q!vars
        => /\ ListInv' /\ [List!Next]_List!vars
           /\ [Len(back') < Len(back) => Len(back') <= head + 1]_vars
  BY QueueStays
<1>3. ListInv => WasteBounded
  BY DEF ListInv
<1>. QED  BY <1>1, <1>2, <1>3, PTL DEF Q!Spec, ImplementsDeque, List!Spec, CopiesPaidFor
=============================================================================
