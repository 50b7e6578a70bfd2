----------------------------- MODULE MCReaders -----------------------------
(***************************************************************************)
(* The two that read a program without running it: the parser, in the      *)
(* state `which` = "parser", and the language server, "server", which      *)
(* parses every text that it is sent for its diagnostics.  What the server *)
(* finds in a text is given by Diagnosis and Hover.                        *)
(***************************************************************************)
EXTENDS MCParser, Lsp

VARIABLE which

MCTexts == {"fine", "broken", "huge"}
MCDiagnosis == [t \in MCTexts |-> IF t = "broken" THEN "one error" ELSE Clean]
MCHover == [t \in MCTexts |-> IF t = "fine" THEN "about Stack" ELSE "null"]

(* A parser that has nothing to read, as one that has finished.            *)
NoParsing == tokens = <<>> /\ at = 1 /\ calls = <<>> /\ result = Nothing

MCInit ==
    /\ LspInit
    /\ \/ which = "parser" /\ Init
       \/ which = "server" /\ NoParsing

ParserNext == which = "parser" /\ Next /\ UNCHANGED <<lspVars, which>>
SessionNext == which = "server" /\ LspNext /\ UNCHANGED <<vars, which>>

(* The parser goes on, and the server and the editor read what there is.   *)
MCSpec ==
    /\ MCInit
    /\ [][ParserNext \/ SessionNext]_<<which, vars, lspVars>>
    /\ WF_vars(ParserNext)
    /\ WF_lspVars(which = "server" /\ ServerNext /\ UNCHANGED <<vars, which>>)
    /\ WF_lspVars(which = "server" /\ Receive /\ UNCHANGED <<vars, which>>)
=============================================================================
