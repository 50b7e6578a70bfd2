---------------------------- MODULE MCStructures ----------------------------
(***************************************************************************)
(* A program that uses one of three: a linked list, a queue, whose array   *)
(* is in the place of the list's `back' and which has no `front', or       *)
(* disjoint sets.  What LinkedList says of its arrays is then said of the  *)
(* queue's.                                                                *)
(***************************************************************************)
EXTENDS LinkedList, DSU, TLC

VARIABLE which  \* "list", "queue" or "sets"

Q == INSTANCE Queue WITH data <- back

MCInit == Init /\ DSUInit /\ which \in {"list", "queue", "sets"}

ListNext == which = "list" /\ Next
QueueNext == which = "queue" /\ Q!Next /\ UNCHANGED front
SetsNext == which = "sets" /\ DSUNext

MCNext ==
  /\ \/ (ListNext \/ QueueNext) /\ UNCHANGED dsuVars
     \/ SetsNext /\ UNCHANGED vars
  /\ UNCHANGED which

MCSpec == MCInit /\ [][MCNext]_<<vars, dsuVars, which>>

(* A position before the list, those in it and those behind it.            *)
Asked == -1..6

(* Bounds on the arrays.                                                   *)
Bounded == IF which = "list" THEN Len(front) <= 2 /\ Len(back) <= 5 ELSE Len(back) <= 9

(* No operation of the sets orders the elements: they are only compared    *)
(* for equality.                                                           *)
Interchangeable == Permutations(Members)
=============================================================================
