----------------------------- MODULE OrderedSet -----------------------------
(***************************************************************************)
(* What the search trees of lib/dsa.ps promise: a set of values that are   *)
(* pairwise different, its least and its greatest, and its size.  A call   *)
(* takes effect in one step between its start and its return.              *)
(***************************************************************************)
EXTENDS Naturals, Sequences, FiniteSets

CONSTANTS
  Values,      \* the values a program uses
  Less(_, _),  \* the interpreter's <
  Same(_, _),  \* the interpreter's =
  None         \* what a query of an empty tree returns

VARIABLES
  members,     \* the values in the tree
  size,        \* what size() returns
  pending,     \* the method in progress and its argument, << >> for none
  result       \* what the last operation that has ended returned

vars == <<members, size, pending, result>>

Init == members = {} /\ size = 0 /\ pending = << >> /\ result = None

Call(method) ==
  /\ pending = << >>
  /\ pending' = method
  /\ UNCHANGED <<members, size, result>>

Returns(value) == pending' = << >> /\ result' = value

Has(v) == \E m \in members : Same(m, v)

(* A value that is the same as a member is not inserted again.             *)
Insert(v) ==
  /\ pending = <<"insert", v>>
  /\ members' = IF Has(v) THEN members ELSE members \union {v}
  /\ size' = Cardinality(members')
  /\ Returns(v)

(* true and false are 1 and 0.                                             *)
Contains(v) ==
  /\ pending = <<"contains", v>>
  /\ Returns(IF Has(v) THEN 1 ELSE 0)
  /\ UNCHANGED <<members, size>>

Ends(Before(_, _)) == { m \in members : \A n \in members : n # m => Before(m, n) }
More(m, n) == Less(n, m)

Extreme(method, Before(_, _)) ==
  /\ pending = <<method>>
  /\ \/ members = {} /\ Returns(None)
     \/ \E m \in Ends(Before) : Returns(m)
  /\ UNCHANGED <<members, size>>

(* How deep the tree is, is its own affair.                                *)
Height == pending = <<"height">> /\ pending' = << >> /\ result' \in Nat /\ UNCHANGED <<members, size>>

Next ==
  \/ \E v \in Values : \/ Call(<<"insert", v>>) \/ Insert(v)
                       \/ Call(<<"contains", v>>) \/ Contains(v)
  \/ Call(<<"min">>) \/ Extreme("min", Less)
  \/ Call(<<"max">>) \/ Extreme("max", More)
  \/ Call(<<"height">>) \/ Height

Spec == Init /\ [][Next]_vars
=============================================================================
