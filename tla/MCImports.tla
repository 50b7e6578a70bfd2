----------------------------- MODULE MCImports -----------------------------
EXTENDS Imports, SequencesExt

CONSTANT Small  \* three of the files

SeqsUpTo(S, n) == UNION { [1..k -> S] : k \in 0..n }

(* Every program of three files of up to two lines.                        *)
Programs ==
  { [ f \in Files |-> IF f \in DOMAIN p THEN p[f] ELSE << >> ] :
      p \in [Small -> SeqsUpTo(Small \union {Text, Missing}, 2)] }

(* Every import graph of four files that import up to two others or        *)
(* themselves; each ends with a line of text.  Two that the file run       *)
(* imports are in Small, which the names make no difference to.            *)
Lists(S) == { Append(SetToSeq(T), Text) : T \in { U \in SUBSET S : Cardinality(U) <= 2 } }
Graphs == { g \in [Files -> Lists(Files)] : g[Root] \in Lists(Small) }

ProgramsAndGraphs == Programs \union Graphs

(* What the expansion should be, by recursion on the files still to be     *)
(* loaded: the text and the files loaded.  Failed where a file imports     *)
(* itself, by way of others or not, or an import cannot be resolved or     *)
(* read.                                                                   *)
RECURSIVE Expand(_, _, _)
Expand(f, above, done) ==
  LET Step(acc, i) ==
        LET line == lines[f][i] IN
        CASE ~acc.ok -> acc
          [] line = Text -> [acc EXCEPT !.text = Append(@, [file |-> f, line |-> i])]
          [] line = Missing -> [acc EXCEPT !.ok = FALSE]
          [] line \in acc.done -> acc
          [] line \in above \union {f} \/ line \notin readable -> [acc EXCEPT !.ok = FALSE]
          [] OTHER -> LET r == Expand(line, above \union {f}, acc.done)
                      IN  [ok |-> r.ok, text |-> acc.text \o r.text,
                           done |-> r.done \union {line}]
  IN  FoldLeft(Step, [ok |-> TRUE, text |-> << >>, done |-> done],
               [i \in DOMAIN lines[f] |-> i])

(* src/imports.h:17: the import lines are replaced with the contents of    *)
(* the files, and an import that is circular, the file run included, or    *)
(* cannot be resolved or read is an error.                                 *)
ExpandsAsSpecified ==
  status # "run" =>
    LET r == Expand(Root, {}, {})
    IN  /\ (status = "done") = r.ok
        /\ status = "done" => stack[1].out = r.text /\ loaded = r.done
=============================================================================
