------------------------------- MODULE BTree -------------------------------
(***************************************************************************)
(* The B-tree of lib/dsa.ps.  A step is one level of a search, or one call *)
(* of insert_nonfull(), which splits the child it goes down to when that   *)
(* is full.                                                                *)
(***************************************************************************)
EXTENDS Naturals, SequencesExt, Ordering

CONSTANTS
  BValues,  \* the values a program inserts
  BLooked,  \* the values it looks for with contains()
  BAsked,   \* which of "min", "max" and "height" it calls
  Order     \* the argument of the constructor

ASSUME BUseAssumption ==
  BLooked \subseteq BValues /\ BAsked \subseteq {"min", "max", "height"} /\ Order \in Nat

VARIABLES
  bnodes,  \* the nodes made, in order: [keys, children, leaf]
  broot,   \* 0 while root_exists is false
  bcount,  \* node_count
  bdoing,  \* "none", "insert", "contains", "place" in insert_nonfull(), or a walk
  bkey,    \* the value inserted or looked for
  bat,     \* the node the operation is at
  levels,  \* the local `height` of height()
  bresult  \* what the last operation that has ended returned

bvars == <<bnodes, broot, bcount, bdoing, bkey, bat, levels, bresult>>

T == IF Order < 2 THEN 2 ELSE Order
MaxKeys == 2 * T - 1
BIds == 1..Len(bnodes)
Full(h, n) == Len(h[n].keys) = MaxKeys

BInit ==
  /\ bnodes = << >> /\ broot = 0 /\ bcount = 0
  /\ bdoing = "none" /\ bkey = None /\ bat = 0 /\ levels = 0 /\ bresult = None

BIdle == bdoing = "none"
BEnd(r) ==
  /\ bdoing' = "none" /\ bkey' = None /\ bat' = 0 /\ levels' = 0
  /\ bresult' = r

-----------------------------------------------------------------------------
(* insert() looks for the value first.                                     *)
BBegin(what, v) ==
  /\ BIdle
  /\ bdoing' = what /\ bkey' = v /\ bat' = broot
  /\ UNCHANGED <<bnodes, broot, bcount, levels, bresult>>

BInsertFirst ==
  /\ bdoing = "insert" /\ broot = 0
  /\ bnodes' = <<[keys |-> <<bkey>>, children |-> << >>, leaf |-> TRUE]>>
  /\ broot' = 1 /\ bcount' = 1
  /\ BEnd(bkey)

ContainsEmpty ==
  /\ bdoing = "contains" /\ broot = 0
  /\ BEnd(0)
  /\ UNCHANGED <<bnodes, broot, bcount>>

BSearching == bdoing \in {"insert", "contains"} /\ broot # 0

(* contains_node() stops at the first key that is not below the value.     *)
Place(n) ==
  LET notBelow == { i \in DOMAIN bnodes[n].keys : ~Less(bnodes[n].keys[i], bkey) }
  IN  IF notBelow = {} THEN Len(bnodes[n].keys) + 1 ELSE Min(notBelow)
Hit(n) == Place(n) <= Len(bnodes[n].keys) /\ Same(bkey, bnodes[n].keys[Place(n)])

BFound ==
  /\ BSearching /\ Hit(bat)
  /\ IF bdoing = "insert" THEN BEnd(bkey) ELSE BEnd(1)
  /\ UNCHANGED <<bnodes, broot, bcount>>

BDescend ==
  /\ BSearching /\ ~Hit(bat) /\ ~bnodes[bat].leaf
  /\ bat' = bnodes[bat].children[Place(bat)]
  /\ UNCHANGED <<bnodes, broot, bcount, bdoing, bkey, levels, bresult>>

BNotFound ==
  /\ bdoing = "contains" /\ broot # 0 /\ ~Hit(bat) /\ bnodes[bat].leaf
  /\ BEnd(0)
  /\ UNCHANGED <<bnodes, broot, bcount>>

-----------------------------------------------------------------------------
(* split_child(): the upper half of the child goes to a new node right of  *)
(* it, and the key in the middle up to the parent.                         *)
SplitInto(h, p, i, leaf) ==
  LET c == h[p].children[i]
      child == h[c]
      Lower(s, n) == SubSeq(s, 1, n)
      Upper(s) == SubSeq(s, T + 1, Len(s))
      left == [keys |-> Lower(child.keys, T - 1), leaf |-> child.leaf,
               children |-> IF child.leaf THEN child.children ELSE Lower(child.children, T)]
      right == [keys |-> Upper(child.keys), leaf |-> leaf,
                children |-> IF child.leaf THEN << >> ELSE Upper(child.children)]
      parent == [keys |-> InsertAt(h[p].keys, i, child.keys[T]), leaf |-> h[p].leaf,
                 children |-> InsertAt(h[p].children, i + 1, Len(h) + 1)]
  IN  Append([h EXCEPT ![c] = left, ![p] = parent], right)

(* Mutant: the new node is always a leaf.                                  *)
SplitLeaf(h, p, i) == SplitInto(h, p, i, TRUE)

Split(h, p, i) == SplitInto(h, p, i, h[h[p].children[i]].leaf)

(* The value is new: a full root is split under a new one first.           *)
StartPlacing ==
  /\ bdoing = "insert" /\ broot # 0 /\ ~Hit(bat) /\ bnodes[bat].leaf
  /\ bdoing' = "place"
  /\ IF Full(bnodes, broot)
     THEN LET top == Len(bnodes) + 1
              grown == Append(bnodes, [keys |-> << >>, children |-> <<broot>>, leaf |-> FALSE])
          IN  bnodes' = Split(grown, top, 1) /\ broot' = top /\ bat' = top
     ELSE bat' = broot /\ UNCHANGED <<bnodes, broot>>
  /\ UNCHANGED <<bcount, bkey, levels, bresult>>

(* insert_nonfull() looks from the right for a key that is not above.      *)
After(h, n) ==
  LET notAbove == { i \in DOMAIN h[n].keys : ~Less(bkey, h[n].keys[i]) }
  IN  IF notAbove = {} THEN 1 ELSE Max(notAbove) + 1

(* Mutant: a full child is not split.                                      *)
PlaceDeeperUnsplit ==
  /\ bdoing = "place" /\ ~bnodes[bat].leaf
  /\ bat' = bnodes[bat].children[After(bnodes, bat)]
  /\ UNCHANGED <<bnodes, broot, bcount, bdoing, bkey, levels, bresult>>

PlaceDeeper ==
  /\ bdoing = "place" /\ ~bnodes[bat].leaf
  /\ LET i == After(bnodes, bat)
     IN  IF Full(bnodes, bnodes[bat].children[i])
         THEN LET h == Split(bnodes, bat, i)
              IN  /\ bnodes' = h
                  /\ bat' = h[bat].children[IF Less(h[bat].keys[i], bkey) THEN i + 1 ELSE i]
         ELSE bat' = bnodes[bat].children[i] /\ UNCHANGED bnodes
  /\ UNCHANGED <<broot, bcount, bdoing, bkey, levels, bresult>>

PlaceHere ==
  /\ bdoing = "place" /\ bnodes[bat].leaf
  /\ bnodes' = [bnodes EXCEPT ![bat].keys = InsertAt(@, After(bnodes, bat), bkey)]
  /\ bcount' = bcount + 1
  /\ BEnd(bkey)
  /\ UNCHANGED broot

-----------------------------------------------------------------------------
(* min() and height() walk down the first children, max() the last.        *)
BWalkFrom(what) ==
  /\ BIdle
  /\ bdoing' = what /\ bat' = broot /\ levels' = 1
  /\ UNCHANGED <<bnodes, broot, bcount, bkey, bresult>>

BWalking == bdoing \in {"min", "max", "height"}

BWalkEmpty ==
  /\ BWalking /\ broot = 0
  /\ BEnd(IF bdoing = "height" THEN 0 ELSE None)
  /\ UNCHANGED <<bnodes, broot, bcount>>

BWalk ==
  /\ BWalking /\ broot # 0 /\ ~bnodes[bat].leaf
  /\ bat' = IF bdoing = "max" THEN Last(bnodes[bat].children) ELSE Head(bnodes[bat].children)
  /\ levels' = levels + 1
  /\ UNCHANGED <<bnodes, broot, bcount, bdoing, bkey, bresult>>

BArrive ==
  /\ BWalking /\ broot # 0 /\ bnodes[bat].leaf
  /\ BEnd(CASE bdoing = "min" -> Head(bnodes[bat].keys)
           [] bdoing = "max" -> Last(bnodes[bat].keys)
           [] bdoing = "height" -> levels)
  /\ UNCHANGED <<bnodes, broot, bcount>>

BSteps ==
  \/ BInsertFirst \/ ContainsEmpty \/ BFound \/ BDescend \/ BNotFound
  \/ StartPlacing \/ PlaceDeeper \/ PlaceHere \/ BWalkEmpty \/ BWalk \/ BArrive

BNext ==
  \/ \E v \in BValues : BBegin("insert", v)
  \/ \E v \in BLooked : BBegin("contains", v)
  \/ \E what \in BAsked : BWalkFrom(what)
  \/ BSteps

(* An operation that has begun goes on: it is a loop of one program.       *)
BSpec == BInit /\ [][BNext]_bvars /\ WF_bvars(BSteps)

-----------------------------------------------------------------------------
BNodeType == [keys : Seq(BValues), children : Seq(BIds), leaf : BOOLEAN]

BTypeOK ==
  /\ bnodes \in Seq(BNodeType)
  /\ broot \in 0..Len(bnodes) /\ bcount \in Nat /\ levels \in Nat
  /\ bdoing \in {"none", "insert", "contains", "place", "min", "max", "height"}
  /\ bkey \in BValues \union {None} /\ bat \in 0..Len(bnodes)
  /\ bresult \in BValues \union {None, 0, 1} \union Nat

(* Every node but the root has from T - 1 to 2T - 1 keys, an inner node one*)
(* child more than keys, and insert_nonfull() is never at a full node.     *)
Filled ==
  /\ \A n \in BIds :
       /\ Len(bnodes[n].keys) <= MaxKeys
       /\ n # broot => Len(bnodes[n].keys) >= T - 1
       /\ ~bnodes[n].leaf => Len(bnodes[n].children) = Len(bnodes[n].keys) + 1
  /\ bdoing = "place" => ~Full(bnodes, bat)

(* The nodes at a number of levels below the root.                         *)
Level(k) ==
  LET level[i \in 0..Len(bnodes)] ==
        IF i = 0 THEN {broot} \ {0}
        ELSE UNION { ToSet(bnodes[n].children) : n \in level[i - 1] }
  IN  level[k]

(* height() counts the levels of every leaf, not only of the first.        *)
HeightOfAll ==
  bdoing = "height" /\ BIdle' =>
    \A k \in 0..Len(bnodes) : \A n \in Level(k) : bnodes[n].leaf <=> k + 1 = bresult'

(* The nodes are as they should be, at every step.                         *)
Filling == BTypeOK /\ Filled

(* The set that the tree is, and what it is asked.                         *)
BPending ==
  CASE bdoing \in {"insert", "place"} -> <<"insert", bkey>>
    [] bdoing = "contains" -> <<"contains", bkey>>
    [] BWalking -> <<bdoing>>
    [] OTHER -> << >>
BMembers == UNION { ToSet(bnodes[n].keys) : n \in BIds }
BSize == bcount

BSet == INSTANCE OrderedSet WITH
  Values <- BValues, pending <- BPending, members <- BMembers, size <- BSize, result <- bresult

(* The tree is the set of the values inserted: what min(), max(),          *)
(* contains() and size() say is said of that set, whatever was split.      *)
(* height() walks along the first children only, and is the height of all  *)
(* the leaves.                                                             *)
BTreeAnswers == BSet!Spec /\ [][HeightOfAll]_bvars
=============================================================================
