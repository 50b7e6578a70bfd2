------------------------------ MODULE MCScopes ------------------------------
(* A program looked at in one of two ways: the bindings of its calls, and  *)
(* the objects that its variables hold.                                    *)
EXTENDS MCCalls, MCHolders

VARIABLE view

MCInit ==
  /\ Init /\ HoldersStart
  /\ view \in {"bindings", "objects"}
  /\ view = "bindings" => program = TextProgram  \* any of the three

MCNext ==
  /\ \/ view = "bindings" /\ Next /\ UNCHANGED <<holderVars, steps>>
     \/ view = "objects" /\ HoldersStep /\ UNCHANGED vars
  /\ UNCHANGED view

MCSpec == MCInit /\ [][MCNext]_<<vars, holderVars, steps, view>>
=============================================================================
