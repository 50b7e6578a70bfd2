---------------------------- MODULE LinkedList ----------------------------
(***************************************************************************)
(* The linked list of lib/dsa.ps: two arrays, `front` with the values      *)
(* prepended, the last of them first, and `back` with the values appended, *)
(* of which the elements before `head` have been taken.                    *)
(***************************************************************************)
EXTENDS Compaction

CONSTANTS
  Values,   \* the values a program keeps in it
  Indices,  \* the positions a program asks for
  None,     \* `none`
  Error     \* an index out of range

ASSUME IndicesAssumption == Indices \subseteq Int

VARIABLES
  front, back, head,
  call,     \* the last method called, as a Deque names it, with its arguments
  result    \* what it returned

vars == <<front, back, head, call, result>>

Init == front = << >> /\ back = << >> /\ head = 1 /\ call = << >> /\ result = None

Returns(c, r) == call' = c /\ result' = r

(* append().                                                               *)
AddLast(v) ==
  /\ back' = Append(back, v)
  /\ UNCHANGED <<front, head>>
  /\ Returns(<<"add", v>>, v)

Prepend(v) ==
  /\ front' = Append(front, v)
  /\ UNCHANGED <<back, head>>
  /\ Returns(<<"add front", v>>, v)

PopFromFront ==
  /\ front # << >>
  /\ Returns(<<"take">>, front[Len(front)])
  /\ front' = SubSeq(front, 1, Len(front) - 1)
  /\ UNCHANGED <<back, head>>

PopFromBack ==
  /\ front = << >> /\ head <= Len(back)
  /\ Returns(<<"take">>, back[head])
  /\ back' = Compacted(back, head + 1).data
  /\ head' = Compacted(back, head + 1).head
  /\ UNCHANGED front

PopNothing ==
  /\ front = << >> /\ head > Len(back)
  /\ Returns(<<"take">>, None)
  /\ UNCHANGED <<front, back, head>>

(* pop_front().                                                            *)
PopFront == PopFromFront \/ PopFromBack \/ PopNothing

At(array, i) == IF i \in 1..Len(array) THEN array[i] ELSE Error

Get(i) ==
  /\ Returns(<<"get", i>>, IF i <= Len(front) THEN At(front, Len(front) - i + 1)
                                             ELSE At(back, head + i - Len(front) - 1))
  /\ UNCHANGED <<front, back, head>>

(* src/interpreter.cpp:304: an assignment out of range goes nowhere.       *)
Assigned(array, i, v) == [k \in 1..Len(array) |-> IF k = i THEN v ELSE array[k]]

(* Mutant: set() counts `front` from its other end.                        *)
PutReversed(i, v) ==
  /\ IF i <= Len(front)
     THEN front' = Assigned(front, i, v) /\ back' = back
     ELSE back' = Assigned(back, head + i - Len(front) - 1, v) /\ front' = front
  /\ UNCHANGED head
  /\ Returns(<<"put", i, v>>, v)

(* set().                                                                  *)
Put(i, v) ==
  /\ IF i <= Len(front)
     THEN front' = Assigned(front, Len(front) - i + 1, v) /\ back' = back
     ELSE back' = Assigned(back, head + i - Len(front) - 1, v) /\ front' = front
  /\ UNCHANGED head
  /\ Returns(<<"put", i, v>>, v)

Contains(v) ==
  /\ Returns(<<"contains", v>>, IF \/ \E i \in 1..Len(front) : front[i] = v
                                  \/ \E i \in head..Len(back) : back[i] = v
                               THEN 1 ELSE 0)
  /\ UNCHANGED <<front, back, head>>

BackSize == IF Len(back) - head + 1 < 0 THEN 0 ELSE Len(back) - head + 1

Size == Returns(<<"size">>, Len(front) + BackSize) /\ UNCHANGED <<front, back, head>>

Next ==
  \/ PopFront \/ Size
  \/ \E v \in Values : AddLast(v) \/ Prepend(v) \/ Contains(v)
  \/ \E i \in Indices : Get(i) \/ \E v \in Values : Put(i, v)

Spec == Init /\ [][Next]_vars

-----------------------------------------------------------------------------
(* compact() keeps up with pop_front(), and append() and set() leave it so.*)
WasteBounded == Modest(back, head)

(* compact() copies at most one element more than have been taken since it *)
(* last did: taking one costs a constant on average.                       *)
CopiesPaidFor == [][Len(back') < Len(back) => Len(back') <= head + 1]_vars

Joined(f, b, h) ==
  [k \in 1..(Len(f) + Len(b) - h + 1) |->
     IF k <= Len(f) THEN f[Len(f) - k + 1] ELSE b[h + k - Len(f) - 1]]

(* `front` backwards and then what is alive of `back` is one list: get(),  *)
(* set(), contains(), size() and pop_front() agree on where it begins.     *)
List == INSTANCE Deque WITH list <- Joined(front, back, head)
ImplementsDeque == List!Spec
=============================================================================
