------------------------------- MODULE Arena -------------------------------
(***************************************************************************)
(* The memory of a compiled program.  Generated code holds plain pointers; *)
(* a value lives while a frame of the arena or a variable holds it.  Loops *)
(* and calls push frames and release them down to a mark, and a `break`, a *)
(* `continue` or a `return` leaves in the middle.                          *)
(*                                                                         *)
(* The program is any: what it makes, reads, assigns, and which way its    *)
(* control goes, is open.  Errors end the process and are left out, and so *)
(* are destructors.                                                        *)
(***************************************************************************)
EXTENDS Naturals, Sequences, FiniteSetsExt

CONSTANTS
  Names,     \* the variables of a scope, parameters and loop variables included
  MaxValue,  \* bound: the values in use or held at a time
  MaxCode    \* bound: the nesting of loops and calls

ASSUME ArenaAssumption == MaxValue \in Nat /\ MaxCode \in Nat

VARIABLES
  frames,  \* the values each frame holds
  scopes,  \* the value of each variable, 0 for none; the last is the current scope
  code     \* the loops and calls in progress, innermost last

vars == <<frames, scopes, code>>

Values == 1..MaxValue
Unbound == [n \in Names |-> 0]
Depth == Len(code)
Top == code[Depth]

(* kind, the part of the loop that runs, the frames to release to, the     *)
(* pointer that lasts from one iteration to the next and its variable, and *)
(* the pointers the rest of the statement in progress may still use.       *)
Enter(kind, part, mark, slot, var) ==
  [kind |-> kind, part |-> part, mark |-> mark, slot |-> slot, var |-> var, uses |-> {}]

Loops == {"while", "repeat", "for"}

Init ==
  /\ frames = <<{}>>
  /\ scopes = <<Unbound>>
  /\ code = << [kind |-> "main", part |-> "body", mark |-> 0, slot |-> 0,
                var |-> "none", uses |-> {}] >>

Held == UNION { frames[k] : k \in DOMAIN frames }
          \union { scopes[k][n] : k \in DOMAIN scopes, n \in Names }
Used == (UNION { code[k].uses \union {code[k].slot} : k \in 1..Depth }) \ {0}

Free == Values \ (Held \union Used)

(* track(): the frame on top holds the value.                              *)
Tracked(v) ==
  /\ frames' = [frames EXCEPT ![Len(frames)] = @ \union {v}]
  /\ code' = [code EXCEPT ![Depth].uses = @ \union {v}]

Push(f) == Append(f, {})
Release(f, mark) == SubSeq(f, 1, mark)

(* The condition of a for-loop makes no value; every other part does.      *)
Evaluating == Top.kind = "for" => Top.part = "body"
InBody == Top.part = "body"

-----------------------------------------------------------------------------
(* Literals, operators, elements: any rt_ function that returns a new value.*)
Make ==
  /\ Evaluating /\ Free # {}
  /\ Tracked(Min(Free))
  /\ UNCHANGED scopes

(* rt_get_var(): the nearest scope that has the variable.                  *)
Read(n) ==
  /\ Evaluating
  /\ LET has == { k \in DOMAIN scopes : scopes[k][n] # 0 }
     IN  has # {} /\ Tracked(scopes[Max(has)][n])
  /\ UNCHANGED scopes

(* rt_set_var()                                                            *)
Assign(n, v) ==
  /\ InBody
  /\ scopes' = [scopes EXCEPT ![Len(scopes)][n] = v]
  /\ Tracked(v)

(* The statement ends: nothing uses what it made.                          *)
EndStatement ==
  /\ InBody
  /\ code' = [code EXCEPT ![Depth].uses = {}]
  /\ UNCHANGED <<frames, scopes>>

-----------------------------------------------------------------------------
EnterLoop(kind, part, mark, slot, var) ==
  /\ InBody /\ Depth < MaxCode
  /\ code' = Append(code, Enter(kind, part, mark, slot, var))

WhileEnter ==
  /\ EnterLoop("while", "test", Len(frames), 0, "none")
  /\ frames' = Push(frames)
  /\ UNCHANGED scopes

In(kind, part) == Top.kind = kind /\ Top.part = part
Goes(part) == code' = [code EXCEPT ![Depth].part = part, ![Depth].uses = {}]
Leaves == code' = SubSeq(code, 1, Depth - 1)

WhileBody ==
  /\ In("while", "test")
  /\ Goes("body")
  /\ UNCHANGED <<frames, scopes>>

(* The end of the body, or a `continue`.                                   *)
WhileAgain ==
  /\ In("while", "body")
  /\ Goes("test")
  /\ frames' = Push(Release(frames, Top.mark))
  /\ UNCHANGED scopes

RepeatEnter ==
  /\ EnterLoop("repeat", "body", Len(frames), 0, "none")
  /\ frames' = Push(frames)
  /\ UNCHANGED scopes

(* The end of the body, or a `continue`.                                   *)
RepeatTest ==
  /\ In("repeat", "body")
  /\ Goes("test")
  /\ UNCHANGED <<frames, scopes>>

RepeatAgain ==
  /\ In("repeat", "test")
  /\ Goes("body")
  /\ frames' = Push(Release(frames, Top.mark))
  /\ UNCHANGED scopes

LoopEnds ==
  /\ Top.kind \in {"while", "repeat"} /\ Top.part = "test"
  /\ Leaves
  /\ frames' = Release(frames, Top.mark)
  /\ UNCHANGED scopes

(* The start value is assigned to the variable; the end and the step stay  *)
(* in use outside the loop.  A frame of the loop's own holds the variable. *)
ForEnter(n, v) ==
  /\ EnterLoop("for", "test", Len(frames) + 1, v, n)
  /\ scopes' = [scopes EXCEPT ![Len(scopes)][n] = v]
  /\ frames' = Push(frames)

ForBody ==
  /\ In("for", "test")
  /\ Goes("body")
  /\ frames' = Push(frames)
  /\ UNCHANGED scopes

(* Mutant: rt_loop_keep() does not clear the frame first.                  *)
KeepAll(f, mark, v) == [f EXCEPT ![mark] = @ \union {v}]

(* rt_loop_keep()                                                          *)
Keep(f, mark, v) == [f EXCEPT ![mark] = {v}]

(* Mutant: the next value is left to the variable.                         *)
ForLatchUnkept ==
  /\ In("for", "body") /\ Free # {}
  /\ LET next == Min(Free)
     IN  /\ scopes' = [scopes EXCEPT ![Len(scopes)][Top.var] = next]
         /\ frames' = Release(frames, Top.mark)
         /\ code' = [code EXCEPT ![Depth].part = "test", ![Depth].uses = {},
                                 ![Depth].slot = next]

(* The end of the body, or a `continue`: the next value is made in the     *)
(* iteration's frame, assigned, and kept.                                  *)
ForLatch ==
  /\ In("for", "body") /\ Free # {}
  /\ LET next == Min(Free)
     IN  /\ scopes' = [scopes EXCEPT ![Len(scopes)][Top.var] = next]
         /\ frames' = Release(Keep(frames, Top.mark, next), Top.mark)
         /\ code' = [code EXCEPT ![Depth].part = "test", ![Depth].uses = {},
                                 ![Depth].slot = next]

ForEnds ==
  /\ In("for", "test")
  /\ Leaves
  /\ frames' = Release(frames, Top.mark - 1)
  /\ UNCHANGED scopes

(* `break` releases the iteration and goes where the loop ends.            *)
Break ==
  /\ Top.kind \in Loops /\ InBody
  /\ Leaves
  /\ frames' = Release(frames, IF Top.kind = "for" THEN Top.mark - 1 ELSE Top.mark)
  /\ UNCHANGED scopes

-----------------------------------------------------------------------------
(* call_compiled(): a frame, and a scope with the arguments.               *)
Call(args) ==
  /\ Evaluating /\ Depth < MaxCode
  /\ frames' = Push(frames)
  /\ scopes' = Append(scopes, args)
  /\ code' = Append(code, Enter("call", "body", Len(frames), 0, "none"))

(* Mutant: only the frame on top is released.                              *)
ReturnPopsOne(v) ==
  LET callee == Max({ k \in 1..Depth : code[k].kind = "call" })
      outer == SubSeq(frames, 1, Len(frames) - 1)
  IN  /\ frames' = [outer EXCEPT ![Len(outer)] = @ \union {v}]
      /\ scopes' = SubSeq(scopes, 1, Len(scopes) - 1)
      /\ code' = [SubSeq(code, 1, callee - 1) EXCEPT ![callee - 1].uses = @ \union {v}]

(* A return ends the loops it is in.  The value is held by the runtime     *)
(* while the frames of the call go, and then by the caller's frame.        *)
ReturnTo(v) ==
  LET callee == Max({ k \in 1..Depth : code[k].kind = "call" })
      mark == code[callee].mark
  IN  /\ frames' = [Release(frames, mark) EXCEPT ![mark] = @ \union {v}]
      /\ scopes' = SubSeq(scopes, 1, Len(scopes) - 1)
      /\ code' = [SubSeq(code, 1, callee - 1) EXCEPT ![callee - 1].uses = @ \union {v}]

Return ==
  /\ InBody
  /\ \E k \in 1..Depth : code[k].kind = "call"
  /\ \E v \in Top.uses : ReturnTo(v)

Next ==
  \/ Make
  \/ \E n \in Names : Read(n) \/ \E v \in Top.uses : Assign(n, v) \/ ForEnter(n, v)
  \/ EndStatement
  \/ WhileEnter \/ WhileBody \/ WhileAgain
  \/ RepeatEnter \/ RepeatTest \/ RepeatAgain \/ LoopEnds
  \/ ForBody \/ ForLatch \/ ForEnds \/ Break
  \/ \E args \in [Names -> Top.uses \union {0}] : Call(args)
  \/ Return

Spec == Init /\ [][Next]_vars

-----------------------------------------------------------------------------
TypeOK ==
  /\ frames \in Seq(SUBSET Values)
  /\ scopes \in Seq([Names -> Values \union {0}])
  /\ \A k \in 1..Depth :
       /\ code[k].kind \in {"main", "call"} \union Loops
       /\ code[k].part \in {"test", "body"}
       /\ code[k].mark \in 0..Len(frames)
       /\ code[k].slot \in Values \union {0}
       /\ code[k].var \in Names \union {"none"}
       /\ code[k].uses \subseteq Values

(* No pointer dangles: whatever the code in progress may still use, at any *)
(* depth, a frame or a variable holds.                                     *)
UsedIsHeld == Used \subseteq Held

(* No frame leaks: in a part of a loop or in a call there is exactly its   *)
(* own frame above the mark, whatever ended inside it and however.         *)
Balanced == Len(frames) = IF In("for", "test") THEN Top.mark ELSE Top.mark + 1

(* Between two iterations a loop holds one value: the frame of its own has *)
(* the variable's only.                                                    *)
KeepsOne == In("for", "test") => frames[Top.mark] \subseteq {Top.slot}
=============================================================================
