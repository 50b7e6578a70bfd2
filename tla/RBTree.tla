------------------------------- MODULE RBTree -------------------------------
(***************************************************************************)
(* The red-black tree of lib/dsa.ps: nodes with a parent pointer, 0 for no *)
(* node.  A step is one round of the loop an operation is in: a search     *)
(* goes one level down, fix_insert() repairs one violation.  A node's      *)
(* children are a function of the side, so that one definition stands for  *)
(* a rotation and its mirror image.                                        *)
(***************************************************************************)
EXTENDS Naturals, Sequences, FiniteSets, Ordering

CONSTANTS
  Values,      \* the values a program inserts
  Looked,      \* the values it looks for with contains()
  Asked        \* which of "min" and "max" it calls

ASSUME UseAssumption == Looked \subseteq Values /\ Asked \subseteq {"left", "right"}

VARIABLES
  nodes,   \* the nodes made, in order: [value, color, kid, parent]
  root,    \* 0 while root_exists is false
  count,   \* node_count
  doing,   \* "none", "insert", "contains", "fix", or the side min() or max() walks to
  key,     \* the value inserted or looked for
  at,      \* the local `current`, or `node` in fix_insert()
  above,   \* the local `parent` of insert()
  result   \* what the last operation that has ended returned

vars == <<nodes, root, count, doing, key, at, above, result>>

Ids == 1..Len(nodes)
Other(side) == IF side = "left" THEN "right" ELSE "left"
Node(v, color, parent) ==
  [value |-> v, color |-> color, kid |-> [side \in {"left", "right"} |-> 0], parent |-> parent]

Init ==
  /\ nodes = << >> /\ root = 0 /\ count = 0
  /\ doing = "none" /\ key = None /\ at = 0 /\ above = 0 /\ result = None

Idle == doing = "none"
End(r) ==
  /\ doing' = "none" /\ key' = None /\ at' = 0 /\ above' = 0
  /\ result' = r

-----------------------------------------------------------------------------
(* insert() and contains() go down from the root.                          *)
Begin(what, v) ==
  /\ Idle
  /\ doing' = what /\ key' = v /\ at' = root
  /\ UNCHANGED <<nodes, root, count, above, result>>

InsertFirst ==
  /\ doing = "insert" /\ root = 0
  /\ nodes' = <<Node(key, "black", 0)>>
  /\ root' = 1 /\ count' = 1
  /\ End(key)

Searching == doing \in {"insert", "contains"}
SideOf(n) == IF Less(key, nodes[n].value) THEN "left" ELSE "right"

(* Mutant: the search stays where it is.                                   *)
DescendStuck ==
  /\ Searching /\ at # 0 /\ ~Same(key, nodes[at].value)
  /\ above' = at
  /\ UNCHANGED <<nodes, root, count, doing, key, at, result>>

Descend ==
  /\ Searching /\ at # 0 /\ ~Same(key, nodes[at].value)
  /\ above' = at
  /\ at' = nodes[at].kid[SideOf(at)]
  /\ UNCHANGED <<nodes, root, count, doing, key, result>>

Found ==
  /\ Searching /\ at # 0 /\ Same(key, nodes[at].value)
  /\ IF doing = "insert" THEN End(key) ELSE End(1)
  /\ UNCHANGED <<nodes, root, count>>

NotFound ==
  /\ doing = "contains" /\ at = 0
  /\ End(0)
  /\ UNCHANGED <<nodes, root, count>>

(* Mutant: the new node is not counted.                                    *)
LinkUncounted ==
  /\ doing = "insert" /\ root # 0 /\ at = 0
  /\ nodes' = Append([nodes EXCEPT ![above].kid[SideOf(above)] = Len(nodes) + 1],
                     Node(key, "red", above))
  /\ doing' = "fix" /\ at' = Len(nodes) + 1
  /\ UNCHANGED <<root, count, key, above, result>>

Link ==
  /\ doing = "insert" /\ root # 0 /\ at = 0
  /\ nodes' = Append([nodes EXCEPT ![above].kid[SideOf(above)] = Len(nodes) + 1],
                     Node(key, "red", above))
  /\ count' = count + 1
  /\ doing' = "fix" /\ at' = Len(nodes) + 1
  /\ UNCHANGED <<root, key, above, result>>

-----------------------------------------------------------------------------
IsRed(t, n) == n # 0 /\ t.nodes[n].color = "red"

Painted(t, black, red) ==
  LET color(n) == CASE n \in black -> "black" [] n \in red -> "red" [] OTHER -> t.nodes[n].color
  IN  [t EXCEPT !.nodes = [n \in DOMAIN t.nodes |-> [t.nodes[n] EXCEPT !.color = color(n)]]]

(* rotate_left(x) is towards "left": x goes down on that side and its      *)
(* child on the other side takes its place.                                *)
Rotated(t, x, side) ==
  LET h == t.nodes
      y == h[x].kid[Other(side)]
      inner == h[y].kid[side]
      p == h[x].parent
  IN  [nodes |-> [n \in DOMAIN h |->
         CASE n = x -> [h[n] EXCEPT !.kid[Other(side)] = inner, !.parent = y]
           [] n = y -> [h[n] EXCEPT !.kid[side] = x, !.parent = p]
           [] n = inner -> [h[n] EXCEPT !.parent = x]
           [] n = p -> [h[n] EXCEPT !.kid[IF h[p].kid[side] = x THEN side ELSE Other(side)] = y]
           [] OTHER -> h[n]],
       root |-> IF p = 0 THEN y ELSE t.root]

Tree == [nodes |-> nodes, root |-> root]
Become(t) == nodes' = t.nodes /\ root' = t.root

Parent == nodes[at].parent
Grand == nodes[Parent].parent
Side == IF Parent = nodes[Grand].kid["left"] THEN "left" ELSE "right"
Uncle == nodes[Grand].kid[Other(Side)]
RedRed == Parent # 0 /\ IsRed(Tree, Parent)

Recolor ==
  /\ doing = "fix" /\ RedRed /\ IsRed(Tree, Uncle)
  /\ Become(Painted(Tree, {Parent, Uncle}, {Grand}))
  /\ at' = Grand
  /\ UNCHANGED <<count, doing, key, above, result>>

(* A node on the inner side is first rotated to the outer side.            *)
Inner == at = nodes[Parent].kid[Other(Side)]

Rotate ==
  /\ doing = "fix" /\ RedRed /\ ~IsRed(Tree, Uncle)
  /\ LET outer == IF Inner THEN Rotated(Tree, Parent, Side) ELSE Tree
         low == IF Inner THEN Parent ELSE at
         p == outer.nodes[low].parent
         g == outer.nodes[p].parent
     IN  /\ Become(Rotated(Painted(outer, {p}, {g}), g, Other(Side)))
         /\ at' = low
  /\ UNCHANGED <<count, doing, key, above, result>>

(* Mutant: the root is left red.                                           *)
FixedRedRoot ==
  /\ doing = "fix" /\ ~RedRed
  /\ End(key)
  /\ UNCHANGED <<nodes, root, count>>

Fixed ==
  /\ doing = "fix" /\ ~RedRed
  /\ Become(Painted(Tree, {root}, {}))
  /\ End(key)
  /\ UNCHANGED count

-----------------------------------------------------------------------------
(* min() walks to the left and max() to the right.                         *)
WalkFrom(side) ==
  /\ Idle
  /\ doing' = side /\ at' = root
  /\ UNCHANGED <<nodes, root, count, key, above, result>>

Walking == doing \in {"left", "right"}

WalkEmpty ==
  /\ Walking /\ root = 0
  /\ End(None)
  /\ UNCHANGED <<nodes, root, count>>

Walk ==
  /\ Walking /\ root # 0 /\ nodes[at].kid[doing] # 0
  /\ at' = nodes[at].kid[doing]
  /\ UNCHANGED <<nodes, root, count, doing, key, above, result>>

Arrive ==
  /\ Walking /\ root # 0 /\ nodes[at].kid[doing] = 0
  /\ End(nodes[at].value)
  /\ UNCHANGED <<nodes, root, count>>

Steps ==
  \/ InsertFirst \/ Descend \/ Found \/ NotFound \/ Link \/ Recolor \/ Rotate \/ Fixed
  \/ WalkEmpty \/ Walk \/ Arrive

Next ==
  \/ \E v \in Values : Begin("insert", v)
  \/ \E v \in Looked : Begin("contains", v)
  \/ \E side \in Asked : WalkFrom(side)
  \/ Steps

(* An operation that has begun goes on: it is a loop of one program.       *)
Spec == Init /\ [][Next]_vars /\ WF_vars(Steps)

-----------------------------------------------------------------------------
NodeType ==
  [value : Values, color : {"red", "black"},
   kid : [{"left", "right"} -> 0..Len(nodes)], parent : 0..Len(nodes)]

TypeOK ==
  /\ nodes \in Seq(NodeType)
  /\ root \in 0..Len(nodes) /\ count \in Nat
  /\ doing \in {"none", "insert", "contains", "fix", "left", "right"}
  /\ key \in Values \union {None}
  /\ at \in 0..Len(nodes) /\ above \in 0..Len(nodes)
  /\ result \in Values \union {None, 0, 1}

(* The parent pointers the repairs go by are the inverse of the children's,*)
(* and the root is the only node without one.                              *)
Linked ==
  \A n \in Ids :
    /\ nodes[n].parent = 0 <=> n = root
    /\ \A side \in {"left", "right"} :
         nodes[n].kid[side] # 0 => nodes[nodes[n].kid[side]].parent = n
    /\ nodes[n].parent # 0 => \E side \in {"left", "right"} : nodes[nodes[n].parent].kid[side] = n

(* Between two operations the root is black.  A red node has a red parent  *)
(* nowhere but at the node fix_insert() is about to repair.                *)
NoRedRed ==
  /\ Idle /\ root # 0 => nodes[root].color = "black"
  /\ \A n \in Ids :
       nodes[n].color = "red" /\ nodes[n].parent # 0 /\ nodes[nodes[n].parent].color = "red"
         => doing = "fix" /\ at = n

(* At every step, a repair's included, every way from the root to a        *)
(* missing child passes the same number of black nodes.                    *)
BlackBalanced ==
  LET blacks[n \in Ids] ==
        (IF nodes[n].color = "black" THEN 1 ELSE 0)
          + (IF nodes[n].parent = 0 THEN 0 ELSE blacks[nodes[n].parent])
  IN  Cardinality({ blacks[n] : n \in { m \in Ids : \E side \in {"left", "right"} :
                                                   nodes[m].kid[side] = 0 } }) <= 1

(* The tree is linked both ways, has no red node below a red one but where *)
(* it is repaired, and as many black nodes on every way down.              *)
RedBlack == TypeOK /\ Linked /\ NoRedRed /\ BlackBalanced

(* The set that the tree is, and what it is asked; an insertion counts     *)
(* when it returns.                                                        *)
Stored == { nodes[n].value : n \in Ids }
Pending ==
  CASE doing \in {"insert", "fix"} -> <<"insert", key>>
    [] doing = "contains" -> <<"contains", key>>
    [] doing = "left" -> <<"min">>
    [] doing = "right" -> <<"max">>
    [] OTHER -> << >>
Members == IF doing = "fix" THEN Stored \ {key} ELSE Stored
Size == IF doing = "fix" THEN count - 1 ELSE count

(* The tree is the set of the values inserted: what min(), max(),          *)
(* contains() and size() say is said of that set, whatever was rotated.    *)
Set == INSTANCE OrderedSet WITH pending <- Pending, members <- Members, size <- Size
IsSet == Set!Spec
=============================================================================
