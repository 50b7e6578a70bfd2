-------------------------------- MODULE DSU --------------------------------
(***************************************************************************)
(* The disjoint sets of lib/dsa.ps: three arrays indexed alike, union by   *)
(* rank and path compression.  find_index() is recursive; its calls are    *)
(* the stack of their local `index`.  A caller takes a reference to the    *)
(* element of `parent` it will assign before it makes the recursive call,  *)
(* and assigns it afterwards.                                              *)
(***************************************************************************)
EXTENDS Integers, Sequences, FiniteSetsExt

CONSTANTS
  Members,   \* the values a program uses
  Nothing    \* the result before the first operation

VARIABLES
  values,  \* the values added, in order
  parent,  \* the index of the parent of each; a root is its own
  rank,
  count,
  op,      \* "none", "make_set", "find", "connected" or "merge"
  args,    \* its arguments
  roots,   \* what find_index() has returned for the first of them
  stack,   \* the calls of find_index() in progress
  above,   \* what the call above the last of them returned; 0 on the way down
  answer   \* what the last operation that has ended returned

arrays == <<values, parent, rank, count>>
dsuVars == <<arrays, op, args, roots, stack, above, answer>>

Ids == 1..Len(values)

DSUInit ==
  /\ values = << >> /\ parent = << >> /\ rank = << >> /\ count = 0
  /\ op = "none" /\ args = << >> /\ roots = << >> /\ stack = << >> /\ above = 0
  /\ answer = Nothing

(* Mutant: the search starts at the second index.                          *)
IndexOfFromTwo(v) ==
  LET holds == { i \in Ids : i > 1 /\ values[i] = v }
  IN  IF holds = {} THEN 0 ELSE Min(holds)

(* index_of(): the first index that holds the value, or 0.                 *)
IndexOf(v) ==
  LET holds == { i \in Ids : values[i] = v }
  IN  IF holds = {} THEN 0 ELSE Min(holds)

(* The part of make_set() that a new value gets to.                        *)
Add(v) ==
  /\ values' = Append(values, v)
  /\ parent' = Append(parent, Len(values) + 1)
  /\ rank' = Append(rank, 0)
  /\ count' = count + 1

Begin(what, vs) ==
  /\ op = "none"
  /\ op' = what /\ args' = vs
  /\ UNCHANGED <<arrays, roots, stack, above, answer>>

End(r) ==
  /\ op' = "none" /\ args' = << >> /\ roots' = << >>
  /\ answer' = r
  /\ UNCHANGED <<stack, above>>

MakeSetEnds ==
  /\ op = "make_set"
  /\ IF IndexOf(args[1]) # 0 THEN UNCHANGED arrays ELSE Add(args[1])
  /\ End(args[1])

-----------------------------------------------------------------------------
(* A call of find_index(v): a value nobody has mentioned is added.         *)
Call(v) ==
  /\ IF IndexOf(v) # 0
     THEN UNCHANGED arrays /\ stack' = Append(stack, IndexOf(v))
     ELSE Add(v) /\ stack' = Append(stack, Len(values) + 1)
  /\ UNCHANGED <<op, args, roots, above, answer>>

FindNext ==
  /\ op \in {"find", "connected", "merge"} /\ stack = << >> /\ above = 0 /\ Len(roots) < Len(args)
  /\ Call(args[Len(roots) + 1])

Top == stack[Len(stack)]

FindParent ==
  /\ stack # << >> /\ above = 0 /\ parent[Top] # Top
  /\ Call(values[parent[Top]])

Pop == stack' = SubSeq(stack, 1, Len(stack) - 1)

AtRoot ==
  /\ stack # << >> /\ above = 0 /\ parent[Top] = Top
  /\ above' = Top
  /\ Pop
  /\ UNCHANGED <<arrays, op, args, roots, answer>>

(* Mutant: the parent becomes the caller's own index.                      *)
CompressSelf ==
  /\ stack # << >> /\ above # 0
  /\ parent' = [parent EXCEPT ![Top] = Top]
  /\ Pop
  /\ UNCHANGED <<values, rank, count, op, args, roots, above, answer>>

Compress ==
  /\ stack # << >> /\ above # 0
  /\ parent' = [parent EXCEPT ![Top] = above]
  /\ Pop
  /\ UNCHANGED <<values, rank, count, op, args, roots, above, answer>>

Found ==
  /\ stack = << >> /\ above # 0
  /\ roots' = Append(roots, above)
  /\ above' = 0
  /\ UNCHANGED <<arrays, op, args, stack, answer>>

-----------------------------------------------------------------------------
AllFound(what) == op = what /\ Len(roots) = Len(args)

FindEnds == AllFound("find") /\ End(values[roots[1]]) /\ UNCHANGED arrays

ConnectedEnds ==
  /\ AllFound("connected")
  /\ End(IF roots[1] = roots[2] THEN 1 ELSE 0)
  /\ UNCHANGED arrays

MergeSame ==
  /\ AllFound("merge") /\ roots[1] = roots[2]
  /\ End(values[roots[1]])
  /\ UNCHANGED arrays

(* Mutant: two sets have become one and the count is the same.             *)
HangUncounted(low, high) ==
  /\ parent' = [parent EXCEPT ![low] = high]
  /\ End(values[high])
  /\ UNCHANGED <<values, count>>

(* The root `low` goes below the root `high`.                              *)
Hang(low, high) ==
  /\ parent' = [parent EXCEPT ![low] = high]
  /\ count' = count - 1
  /\ End(values[high])
  /\ UNCHANGED values

(* Mutant: the rank grows with every merge.                                *)
MergeRankedHigher ==
  /\ AllFound("merge") /\ rank[roots[1]] # rank[roots[2]]
  /\ IF rank[roots[1]] < rank[roots[2]]
     THEN Hang(roots[1], roots[2])
     ELSE Hang(roots[2], roots[1])
  /\ rank' = [rank EXCEPT ![roots[1]] = @ + 1]

MergeRanked ==
  /\ AllFound("merge") /\ rank[roots[1]] # rank[roots[2]]
  /\ IF rank[roots[1]] < rank[roots[2]]
     THEN Hang(roots[1], roots[2])
     ELSE Hang(roots[2], roots[1])
  /\ UNCHANGED rank

(* Mutant: the rank of the root stays.                                     *)
MergeEqualUnranked ==
  /\ AllFound("merge") /\ roots[1] # roots[2] /\ rank[roots[1]] = rank[roots[2]]
  /\ Hang(roots[2], roots[1])
  /\ UNCHANGED rank

MergeEqual ==
  /\ AllFound("merge") /\ roots[1] # roots[2] /\ rank[roots[1]] = rank[roots[2]]
  /\ Hang(roots[2], roots[1])
  /\ rank' = [rank EXCEPT ![roots[1]] = @ + 1]

Steps ==
  \/ FindNext \/ FindParent \/ AtRoot \/ Compress \/ Found
  \/ MakeSetEnds \/ FindEnds \/ ConnectedEnds \/ MergeSame \/ MergeRanked \/ MergeEqual

DSUNext ==
  \/ \E v \in Members, what \in {"make_set", "find"} : Begin(what, <<v>>)
  \/ \E v, w \in Members, what \in {"connected", "merge"} : Begin(what, <<v, w>>)
  \/ Steps

(* An operation that has begun goes on.                                    *)
DSUSpec == DSUInit /\ [][DSUNext]_dsuVars /\ WF_dsuVars(Steps)

-----------------------------------------------------------------------------
TypeOK ==
  /\ values \in Seq(Members)
  /\ parent \in Seq(Ids) /\ Len(parent) = Len(values)
  /\ rank \in Seq(Nat) /\ Len(rank) = Len(values)
  /\ count \in Int
  /\ op \in {"none", "make_set", "find", "connected", "merge"}
  /\ args \in Seq(Members)
  /\ Len(args) = (CASE op = "none" -> 0 [] op \in {"make_set", "find"} -> 1 [] OTHER -> 2)
  /\ roots \in Seq(Ids) /\ Len(roots) <= Len(args)
  /\ stack \in Seq(Ids) /\ above \in 0..Len(values)

Roots == { i \in Ids : parent[i] = i }

(* A parent ranks above its child, in the middle of a compression too: the *)
(* parents have no cycle and find_index() ends.                            *)
RankRises == \A i \in Ids : parent[i] # i => rank[i] < rank[parent[i]]

(* size() is the number of sets.                                           *)
CountsRoots == count = Cardinality(Roots)

(* src/interpreter.cpp:303: while a caller of find_index() holds a         *)
(* reference into `parent`, no call above it adds an element to it.        *)
NeverGrowsBelow == [][Len(stack) > 0 => Len(parent') = Len(parent)]_dsuVars

(* The root of an index.                                                   *)
RootOf(i) ==
  LET up[n \in 0..Len(values)] == IF n = 0 THEN i ELSE parent[up[n - 1]]
  IN  up[Len(values)]

TwoTo[k \in Nat] == IF k = 0 THEN 1 ELSE 2 * TwoTo[k - 1]

(* A root of rank r has at least 2^r values: the recursion of find_index() *)
(* is no deeper than the logarithm of their number.                        *)
RankLogarithmic ==
  \A r \in Roots : Cardinality({ i \in Ids : RootOf(i) = r }) >= TwoTo[rank[r]]

(* The leader of each value, and the operation in progress with its        *)
(* arguments.                                                              *)
Leader == [v \in { values[i] : i \in Ids } |-> values[RootOf(IndexOf(v))]]
Pending == IF op = "none" THEN << >> ELSE <<op>> \o args

(* The roots are the leaders of a partition: find() returns a value's, and *)
(* only merge() changes it.                                                *)
Sets == INSTANCE Partition WITH
  Values <- Members, None <- Nothing, result <- answer,
  pending <- Pending, leader <- Leader, size <- count
ImplementsPartition == Sets!Spec
=============================================================================
