----------------------------- MODULE MCCompiled -----------------------------
(***************************************************************************)
(* What a compiled program may lose, one at a time: its values, which the  *)
(* arena keeps, in the state `which` = "arena"; or its integers, which are *)
(* kept in slots beside the variables, "native".                           *)
(***************************************************************************)
EXTENDS Arena, Native

VARIABLE which

(* A variable is only ever compared with another.                          *)
Interchangeable == Permutations(Variables)

MCInit == Init /\ NativeInit /\ which \in {"arena", "native"}

ArenaNext == which = "arena" /\ Next /\ UNCHANGED nativeVars
SlotsNext == which = "native" /\ NativeNext /\ UNCHANGED vars
MCNext == (ArenaNext \/ SlotsNext) /\ UNCHANGED which

MCSpec == MCInit /\ [][MCNext]_<<which, vars, nativeVars>>
=============================================================================
