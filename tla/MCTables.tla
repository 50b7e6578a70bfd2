------------------------------ MODULE MCTables ------------------------------
(***************************************************************************)
(* The two kinds of table whose keys are identities, made from the type    *)
(* and the printed form of a value: a program uses a hash table, in the    *)
(* state `which` = "hash", or calls algorithms whose results are kept by   *)
(* argument, "memo".                                                       *)
(***************************************************************************)
EXTENDS HashTable, Memo

CONSTANTS k1, k2, k3, k4, i1, i2, i3

VARIABLE which

(* Four keys, two of which have one identity: 0.1234567 and 0.12345671     *)
(* print alike.                                                            *)
MCKeys == {k1, k2, k3, k4}
MCKeyId == [k \in MCKeys |-> CASE k = k1 -> i1 [] k = k2 -> i2 [] OTHER -> i3]

(* A program of five definitions: f calls itself, g calls f, h is defined  *)
(* twice, k has a float literal; f has further names.                      *)
Programs == {"f", "g", "h1", "h2", "k"}
ProgramNames == {"f", "g", "h", "k", "x"}
NameOf == [f |-> "f", g |-> "g", h1 |-> "h", h2 |-> "h", k |-> "k"]
CalleeOf == [NameOf EXCEPT !.g = "f"]
BaseOf == [f |-> 1, g |-> 5, h1 |-> 2, h2 |-> 7, k |-> 4]
StepOf == [f |-> 1, g |-> 0, h1 |-> 3, h2 |-> 0, k |-> 2]

MCInit == Init /\ MemoInit /\ which \in {"hash", "memo"}

HashNext == which = "hash" /\ Next /\ UNCHANGED memoVars
AlgorithmNext == which = "memo" /\ MemoNext /\ UNCHANGED vars
MCNext == (HashNext \/ AlgorithmNext) /\ UNCHANGED which

MCSpec == MCInit /\ [][MCNext]_<<which, vars, memoVars>>

(* Bound: any three of the definitions run.                                *)
ThreeDefinitions == Cardinality(ran) <= 3 /\ Cardinality(DOMAIN bound) <= 3
=============================================================================
