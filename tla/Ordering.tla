------------------------------ MODULE Ordering ------------------------------
(***************************************************************************)
(* How the search trees of lib/dsa.ps compare values, and what they return *)
(* when there is none.                                                     *)
(***************************************************************************)
CONSTANTS
  Less(_, _),  \* the interpreter's <
  Same(_, _),  \* the interpreter's =
  None         \* what a query of an empty tree returns

(* Of values of one kind, all numbers or all texts, < is an order, and two *)
(* that are = are those that it does not tell apart.                       *)
Comparable(S) ==
  /\ \A v, w \in S : Less(v, w) => ~Less(w, v)
  /\ \A v, w, x \in S : Less(v, w) => Less(v, x) \/ Less(x, w)
  /\ \A v, w \in S : Same(v, w) <=> ~Less(v, w) /\ ~Less(w, v)
=============================================================================
