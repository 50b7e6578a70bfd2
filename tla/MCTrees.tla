------------------------------ MODULE MCTrees ------------------------------
(***************************************************************************)
(* A program that uses one of the two sorted sets, a red-black tree or a   *)
(* B-tree, and inserts integers.                                           *)
(***************************************************************************)
EXTENDS RBTree, BTree

CONSTANTS Few, Many  \* bounds on the number of values, below

VARIABLE which  \* "red-black" or "B"

(* The values a program inserts are integers.                              *)
IntLess(a, b) == a < b
IntSame(a, b) == a = b

ASSUME ComparableAssumption == Comparable(Values) /\ Comparable(BValues)

MCInit == Init /\ BInit /\ which \in {"red-black", "B"}

RedBlackNext == which = "red-black" /\ Next /\ UNCHANGED bvars
BTreeNext == which = "B" /\ BNext /\ UNCHANGED vars
MCNext == (RedBlackNext \/ BTreeNext) /\ UNCHANGED which

MCSteps ==
  /\ (Steps /\ UNCHANGED bvars) \/ (BSteps /\ UNCHANGED vars)
  /\ UNCHANGED which

(* An operation that has begun goes on: it is a loop of one program.       *)
MCSpec ==
  MCInit /\ [][MCNext]_<<vars, bvars, which>> /\ WF_<<vars, bvars, which>>(MCSteps)

(* Bounds: a tree of more than a few values is asked nothing but its       *)
(* height and gets no value twice, one of many gets values at its end.     *)
Within(members, method, value) ==
  /\ Cardinality(members) > Few =>
       /\ method \in {"none", "insert", "fix", "place", "height"}
       /\ method = "insert" => value \notin members
  /\ Cardinality(members) > Many /\ method = "insert" => \A m \in members : m < value

Bounded == Within(Members, doing, key) /\ Within(BMembers, bdoing, bkey)

-----------------------------------------------------------------------------
(* Every operation ends.                                                   *)
Ends == doing # "none" \/ bdoing # "none" ~> doing = "none" /\ bdoing = "none"
=============================================================================
