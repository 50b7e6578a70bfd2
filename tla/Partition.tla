----------------------------- MODULE Partition -----------------------------
(***************************************************************************)
(* What the DSU of lib/dsa.ps promises: values in disjoint sets, each with *)
(* a leader that find() returns; merge() joins two sets and keeps one of   *)
(* their leaders.  A call takes effect in one step between its start and   *)
(* its return.                                                             *)
(***************************************************************************)
EXTENDS Naturals, Sequences, SequencesExt

CONSTANTS
  Values,  \* the values a program may use
  None     \* the result before the first operation

VARIABLES
  leader,  \* the leader of each value that has been added
  size,    \* what size() returns
  pending, \* the method in progress and its arguments, << >> for none
  result   \* what the last operation that has ended returned

vars == <<leader, size, pending, result>>

Init == leader = [v \in {} |-> v] /\ size = 0 /\ pending = << >> /\ result = None

Added == DOMAIN leader

Call(method) ==
  /\ pending = << >>
  /\ pending' = method
  /\ UNCHANGED <<leader, size, result>>

Returns(value) == pending' = << >> /\ result' = value

Alone(v) ==
  /\ leader' = [w \in Added \union {v} |-> IF w = v THEN v ELSE leader[w]]
  /\ size' = size + 1

MakeSet(v) ==
  /\ pending = <<"make_set", v>>
  /\ IF v \in Added THEN UNCHANGED <<leader, size>> ELSE Alone(v)
  /\ Returns(v)

(* The first mention of a value makes a set of it.                         *)
Mention(v) ==
  /\ v \notin Added /\ v \in ToSet(pending)
  /\ Alone(v)
  /\ UNCHANGED <<pending, result>>

Find(v) ==
  /\ pending = <<"find", v>>
  /\ v \in Added
  /\ Returns(leader[v])
  /\ UNCHANGED <<leader, size>>

(* true and false are 1 and 0.                                             *)
Connected(v, w) ==
  /\ pending = <<"connected", v, w>>
  /\ {v, w} \subseteq Added
  /\ Returns(IF leader[v] = leader[w] THEN 1 ELSE 0)
  /\ UNCHANGED <<leader, size>>

Merge(v, w) ==
  /\ pending = <<"merge", v, w>>
  /\ {v, w} \subseteq Added
  /\ \E l \in {leader[v], leader[w]} :
       /\ Returns(l)
       /\ leader' = [u \in Added |-> IF leader[u] \in {leader[v], leader[w]} THEN l ELSE leader[u]]
  /\ size' = IF leader[v] = leader[w] THEN size ELSE size - 1

Next ==
  \E v \in Values :
    \/ Call(<<"make_set", v>>) \/ MakeSet(v) \/ Call(<<"find", v>>) \/ Find(v)
    \/ Mention(v)
    \/ \E w \in Values : \/ Call(<<"connected", v, w>>) \/ Connected(v, w)
                         \/ Call(<<"merge", v, w>>) \/ Merge(v, w)

Spec == Init /\ [][Next]_vars
=============================================================================
