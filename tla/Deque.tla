------------------------------- MODULE Deque -------------------------------
(***************************************************************************)
(* What LinkedList and Queue of lib/dsa.ps promise: a sequence of values   *)
(* that is read and assigned by position, grows at both ends and is taken  *)
(* from at the front.                                                      *)
(***************************************************************************)
EXTENDS Integers, Sequences

CONSTANTS
  Values,   \* the values a program keeps in it
  Indices,  \* the positions a program asks for
  None,     \* what an empty list answers
  Error     \* what a position outside the list answers

VARIABLES
  list,     \* the values, front first
  call,     \* the last operation, with its arguments
  result    \* what it returned

vars == <<list, call, result>>

Init == list = << >> /\ call = << >> /\ result = None

Returns(c, r) == call' = c /\ result' = r

Positions == 1..Len(list)

Add(v) == list' = Append(list, v) /\ Returns(<<"add", v>>, v)

AddFront(v) == list' = <<v>> \o list /\ Returns(<<"add front", v>>, v)

Take ==
  \/ list = << >> /\ list' = list /\ Returns(<<"take">>, None)
  \/ list # << >> /\ list' = Tail(list) /\ Returns(<<"take">>, Head(list))

First == list' = list /\ Returns(<<"first">>, IF list = << >> THEN None ELSE Head(list))

Get(i) == list' = list /\ Returns(<<"get", i>>, IF i \in Positions THEN list[i] ELSE Error)

(* An assignment outside the list is ignored.                              *)
Put(i, v) ==
  /\ list' = [k \in Positions |-> IF k = i THEN v ELSE list[k]]
  /\ Returns(<<"put", i, v>>, v)

Contains(v) ==
  /\ list' = list
  /\ Returns(<<"contains", v>>, IF \E k \in Positions : list[k] = v THEN 1 ELSE 0)

Size == list' = list /\ Returns(<<"size">>, Len(list))

Next ==
  \/ Take \/ First \/ Size
  \/ \E v \in Values : Add(v) \/ AddFront(v) \/ Contains(v)
  \/ \E i \in Indices : Get(i) \/ \E v \in Values : Put(i, v)

Spec == Init /\ [][Next]_vars
=============================================================================
