------------------------------- MODULE Queue -------------------------------
(***************************************************************************)
(* The queue of lib/dsa.ps: an array of which the elements before `head`   *)
(* have been taken.                                                        *)
(***************************************************************************)
EXTENDS Compaction

CONSTANTS
  Values,  \* the values a program enqueues
  None     \* `none`

VARIABLES
  data, head,
  call,    \* the last method called, as a Deque names it, with its arguments
  result   \* what it returned

vars == <<data, head, call, result>>

Init == data = << >> /\ head = 1 /\ call = << >> /\ result = None

Returns(c, r) == call' = c /\ result' = r

Enqueue(v) == data' = Append(data, v) /\ UNCHANGED head /\ Returns(<<"add", v>>, v)

DequeueNothing ==
  /\ head > Len(data)
  /\ UNCHANGED <<data, head>>
  /\ Returns(<<"take">>, None)

DequeueFirst ==
  /\ head <= Len(data)
  /\ data' = Compacted(data, head + 1).data
  /\ head' = Compacted(data, head + 1).head
  /\ Returns(<<"take">>, data[head])

(* dequeue().                                                              *)
Dequeue == DequeueNothing \/ DequeueFirst

Front ==
  /\ UNCHANGED <<data, head>>
  /\ Returns(<<"first">>, IF head > Len(data) THEN None ELSE data[head])

Size ==
  /\ UNCHANGED <<data, head>>
  /\ Returns(<<"size">>, IF Len(data) - head + 1 < 0 THEN 0 ELSE Len(data) - head + 1)

Next == Dequeue \/ Front \/ Size \/ \E v \in Values : Enqueue(v)

Spec == Init /\ [][Next]_vars
=============================================================================
