------------------------------ MODULE Imports ------------------------------
(***************************************************************************)
(* expand_imports(): the text of a program with its import lines replaced  *)
(* by the files they name, depth first.  A file is in `loading` while its  *)
(* own lines are being expanded and in `loaded` afterwards.  The file the  *)
(* program starts from is in neither: it is expanded, not imported.        *)
(*                                                                         *)
(* A line is Text, a file, or Missing, an import that resolve_import()     *)
(* cannot find.  The recursion is the stack; `out` holds the text lines a  *)
(* frame has produced, as pairs of a file and a line of it.                *)
(***************************************************************************)
EXTENDS Naturals, Sequences, FiniteSets

CONSTANTS
  Files,    \* the canonical paths of the files
  Root,     \* the file that is run
  Text,     \* a line of program text
  Missing,  \* an import line whose target cannot be resolved
  Sources   \* the contents the files may have: functions from Files to lines

ASSUME ImportsAssumption ==
  /\ Root \in Files
  /\ Text \notin Files /\ Missing \notin Files /\ Text # Missing
  /\ Sources \subseteq [Files -> Seq(Files \union {Text, Missing})]

VARIABLES
  lines,    \* what the files hold; it does not change during a run
  readable, \* the files that can be read
  stack,    \* the calls of expand_imports(): [file, at, out]
  loading,  \* ImportState::loading
  loaded,   \* ImportState::loaded
  status    \* "run", "done" or the error

importVars == <<lines, readable, stack, loading, loaded, status>>
disk == <<lines, readable>>

Frame(f) == [file |-> f, at |-> 1, out |-> << >>]

ImportInit ==
  /\ lines \in Sources
  /\ readable \in SUBSET Files /\ Root \in readable
  /\ stack = <<Frame(Root)>>
  /\ loading = {} /\ loaded = {}
  /\ status = "run"

Depth == Len(stack)
Top == stack[Depth]
AtEnd == Top.at > Len(lines[Top.file])
Line == lines[Top.file][Top.at]

(* The frame on top goes on to its next line with some text added.         *)
Advance(s, added) ==
  [s EXCEPT ![Len(s)] = [file |-> @.file, at |-> @.at + 1, out |-> @.out \o added]]

-----------------------------------------------------------------------------
CopyText ==
  /\ ~AtEnd /\ Line = Text
  /\ stack' = Advance(stack, <<[file |-> Top.file, line |-> Top.at]>>)
  /\ UNCHANGED <<disk, loading, loaded, status>>

Fail(error) ==
  /\ status' = error
  /\ UNCHANGED <<disk, stack, loading, loaded>>

Unresolved == ~AtEnd /\ Line = Missing /\ Fail("unresolved")

Importing(f) == ~AtEnd /\ Line = f

SkipLoaded(f) ==
  /\ Importing(f) /\ f \in loaded
  /\ stack' = Advance(stack, << >>)
  /\ UNCHANGED <<disk, loading, loaded, status>>

Circular(f) == Importing(f) /\ f \notin loaded /\ f \in loading /\ Fail("circular")

Unreadable(f) ==
  /\ Importing(f) /\ f \notin loaded \union loading /\ f \notin readable
  /\ Fail("unreadable")

(* Mutant: the file counts as loaded from the start.                       *)
EnterLoaded(f) ==
  /\ Importing(f) /\ f \notin loaded \union loading /\ f \in readable
  /\ loaded' = loaded \union {f}
  /\ stack' = Append(stack, Frame(f))
  /\ UNCHANGED <<disk, loading, status>>

(* Mutant: the file is not entered in loading.                             *)
EnterUnmarked(f) ==
  /\ Importing(f) /\ f \notin loaded \union loading /\ f \in readable
  /\ Depth < Cardinality(Files)
  /\ stack' = Append(stack, Frame(f))
  /\ UNCHANGED <<disk, loading, loaded, status>>

Enter(f) ==
  /\ Importing(f) /\ f \notin loaded \union loading /\ f \in readable
  /\ loading' = loading \union {f}
  /\ stack' = Append(stack, Frame(f))
  /\ UNCHANGED <<disk, loaded, status>>

Popped == Advance(SubSeq(stack, 1, Depth - 1), Top.out)

(* Mutant: the file is not entered in loaded.                              *)
LeaveForgotten ==
  /\ AtEnd /\ Depth > 1
  /\ loading' = loading \ {Top.file}
  /\ stack' = Popped
  /\ UNCHANGED <<disk, loaded, status>>

(* Mutant: the file stays in loading, and is not entered in loaded.        *)
LeaveNothing ==
  /\ AtEnd /\ Depth > 1
  /\ stack' = Popped
  /\ UNCHANGED <<disk, loading, loaded, status>>

(* Mutant: the file stays in loading.                                      *)
LeaveLoading ==
  /\ AtEnd /\ Depth > 1
  /\ loaded' = loaded \union {Top.file}
  /\ stack' = Popped
  /\ UNCHANGED <<disk, loading, status>>

Leave ==
  /\ AtEnd /\ Depth > 1
  /\ loading' = loading \ {Top.file}
  /\ loaded' = loaded \union {Top.file}
  /\ stack' = Popped
  /\ UNCHANGED <<disk, status>>

Finish ==
  /\ AtEnd /\ Depth = 1
  /\ status' = "done"
  /\ UNCHANGED <<disk, stack, loading, loaded>>

ImportNext ==
  /\ status = "run"
  /\ \/ CopyText
     \/ Unresolved
     \/ \E f \in Files : SkipLoaded(f) \/ Circular(f) \/ Unreadable(f) \/ Enter(f)
     \/ Leave
     \/ Finish

ImportSpec == ImportInit /\ [][ImportNext]_importVars /\ WF_importVars(ImportNext)

-----------------------------------------------------------------------------
Imported(f) == { lines[f][i] : i \in DOMAIN lines[f] } \ {Text, Missing}

FrameType == [file : Files, at : Nat \ {0}, out : Seq([file : Files, line : Nat])]

ImportsTypeOK ==
  /\ lines \in [Files -> Seq(Files \union {Text, Missing})]
  /\ readable \subseteq Files
  /\ stack \in Seq(FrameType)
  /\ loading \subseteq Files /\ loaded \subseteq Files
  /\ status \in {"run", "done", "unresolved", "unreadable", "circular"}
  /\ Depth > 0 /\ stack[1].file = Root
  /\ \A k \in 1..Depth : stack[k].at <= Len(lines[stack[k].file]) + 1

(* `loading` is the recursion itself: the files being expanded, each once. *)
LoadingIsStack ==
  /\ loading = { stack[k].file : k \in 2..Depth }
  /\ \A j, k \in 2..Depth : stack[j].file = stack[k].file => j = k
  /\ loading \intersect loaded = {}

(* README.md:78: a file is imported once, and only after everything it     *)
(* imports; so the file itself is not among those.                         *)
ImportsFirst == [][\A f \in loaded' \ loaded : Imported(f) \subseteq loaded]_importVars

(* The file that is run is expanded once too: though it is not in          *)
(* `loading`, a program that imports it back never gets it imported.       *)
RootNeverImported == Root \notin loaded

(* A circular import is reported only where there is one: the file on the  *)
(* import line imports, by way of the calls above it, itself.              *)
CycleIsReal ==
  status = "circular" =>
    \E j \in 1..Depth : /\ stack[j].file = Line
                        /\ Line \in Imported(Top.file)
                        /\ \A k \in j..(Depth - 1) : stack[k + 1].file \in Imported(stack[k].file)

(* A finished expansion has loaded everything the program reaches.         *)
Complete ==
  status = "done" => \A f \in loaded \union {Root} : Imported(f) \subseteq loaded

(* Every expansion ends, cycles and all.                                   *)
Terminates == <>(status # "run")
=============================================================================
