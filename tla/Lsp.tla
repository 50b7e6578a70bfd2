--------------------------------- MODULE Lsp ---------------------------------
(***************************************************************************)
(* The language server and the editor it talks to.  The server reads one   *)
(* message after the other from its input, keeps the text of every open    *)
(* document, publishes the diagnostics of a text when it is opened or      *)
(* changed, and answers requests from the texts it has.  Both directions   *)
(* are pipes: nothing is lost or reordered, and each side is behind the    *)
(* other by what is in them, while the user goes on editing and asking.    *)
(*                                                                         *)
(* What is published for a text and what is answered over it are functions *)
(* of the text (Diagnosis, Hover): the lexer and parser, and the table of  *)
(* documentation.  The editor is not this repository's: it is modelled as  *)
(* a client of the capabilities the server announces.                      *)
(***************************************************************************)
EXTENDS Integers, Sequences

CONSTANTS
    Uris,        \* the documents of the editor
    Texts,       \* what can stand in one
    Crashing,    \* the texts with a number too large for an integer
    Diagnosis,   \* the diagnostics of each text
    Hover,       \* what is found to say in each text, or "null"
    MaxId,       \* requests are numbered up to here
    Exact,       \* numbers from here on are not printed with all digits
    Spacing,     \* but rounded to a multiple of this
    Window       \* messages that fit in each pipe

Closed == "closed"      \* stands for the text of a document that is not open
Clean == "no diagnostics"

ASSUME CrashingTexts == Crashing \subseteq Texts
ASSUME TextsOfOpen == Closed \notin Texts
ASSUME Numbers == MaxId \in Nat /\ Exact \in Nat /\ Spacing \in Nat \ {0}

VARIABLES
    text,        \* the editor: the text of each document
    whole,       \* whether its last change was sent as one text
    shown,       \* the diagnostics shown for each document
    asked,       \* what each request, by its number, ought to be answered
    answers,     \* the answers received
    session,     \* starting, open, shut or left
    toServer,
    toClient,
    documents,   \* the server: the texts it has
    serving      \* running, stopped or crashed

editor == <<text, whole, shown, asked, answers, session>>
server == <<documents, serving>>
lspVars == <<editor, toServer, toClient, server>>

Message(method, id, uri, texts) ==
    [method |-> method, id |-> id, uri |-> uri, texts |-> texts]
Published(uri, value) ==
    [kind |-> "diagnostics", uri |-> uri, id |-> 0, value |-> value]
Response(id, value) ==
    [kind |-> "response", uri |-> "", id |-> id, value |-> value]

LspInit ==
    /\ text = [u \in Uris |-> Closed]
    /\ whole = [u \in Uris |-> TRUE]
    /\ shown = [u \in Uris |-> Clean]
    /\ asked = <<>>
    /\ answers = <<>>
    /\ session = "starting"
    /\ toServer = <<>>
    /\ toClient = <<>>
    /\ documents = [u \in Uris |-> Closed]
    /\ serving = "running"

-----------------------------------------------------------------------------
(* The editor.  It stops when it finds the server gone.                    *)

Send(message) ==
    /\ Len(toServer) < Window /\ serving = "running"
    /\ toServer' = Append(toServer, message)
    /\ UNCHANGED <<toClient, server, shown, answers>>

Ask(method, uri, expected) ==
    /\ Len(asked) < MaxId
    /\ asked' = Append(asked, expected)
    /\ Send(Message(method, Len(asked) + 1, uri, <<>>))
    /\ UNCHANGED <<text, whole>>

Initialize ==
    /\ session = "starting" /\ asked = <<>>
    /\ Ask("initialize", "", "capabilities")
    /\ UNCHANGED session

Initialized ==
    /\ session = "starting" /\ answers # <<>>
    /\ session' = "open"
    /\ Send(Message("initialized", 0, "", <<>>))
    /\ UNCHANGED <<text, whole, asked>>

EditorOpens(u, t) ==
    /\ session = "open" /\ text[u] = Closed
    /\ text' = [text EXCEPT ![u] = t]
    /\ whole' = [whole EXCEPT ![u] = TRUE]
    /\ Send(Message("didOpen", 0, u, <<t>>))
    /\ UNCHANGED <<asked, session>>

(* A change is sent as the texts it leads through, one or two of them.     *)
EditorChanges(u, texts) ==
    /\ session = "open" /\ text[u] # Closed
    /\ text' = [text EXCEPT ![u] = texts[Len(texts)]]
    /\ whole' = [whole EXCEPT ![u] = (Len(texts) = 1)]
    /\ Send(Message("didChange", 0, u, texts))
    /\ UNCHANGED <<asked, session>>

EditorCloses(u) ==
    /\ session = "open" /\ text[u] # Closed
    /\ text' = [text EXCEPT ![u] = Closed]
    /\ whole' = [whole EXCEPT ![u] = TRUE]
    /\ Send(Message("didClose", 0, u, <<>>))
    /\ UNCHANGED <<asked, session>>

(* A hover is about the text the user sees.  Of one that was not sent as   *)
(* a whole the editor does not ask.                                        *)
AskHover(u) ==
    /\ session = "open" /\ whole[u]
    /\ Ask("hover", u, IF text[u] = Closed THEN "null" ELSE Hover[text[u]])
    /\ UNCHANGED session

AskCompletion(u) ==
    session = "open" /\ Ask("completion", u, "items") /\ UNCHANGED session

AskOther == session = "open" /\ Ask("rename", "", "not implemented") /\ UNCHANGED session

Shutdown ==
    /\ session = "open" /\ Ask("shutdown", "", "null")
    /\ session' = "shut"

Exit ==
    /\ session = "shut" /\ session' = "left"
    /\ Send(Message("exit", 0, "", <<>>))
    /\ UNCHANGED <<text, whole, asked>>

(* The editor is gone without a word: the pipe ends after what is in it.   *)
Vanish ==
    /\ session \in {"open", "shut"} /\ session' = "left"
    /\ UNCHANGED <<text, whole, shown, asked, answers, toServer, toClient, server>>

Receive ==
    /\ toClient # <<>>
    /\ toClient' = Tail(toClient)
    /\ LET m == Head(toClient)
       IN IF m.kind = "diagnostics"
          THEN shown' = [shown EXCEPT ![m.uri] = m.value] /\ UNCHANGED answers
          ELSE /\ answers' = Append(answers, [id |-> m.id, value |-> m.value])
               /\ UNCHANGED shown
    /\ UNCHANGED <<text, whole, asked, session, toServer, server>>

-----------------------------------------------------------------------------
(* The server: main, one action for each branch on the method.             *)

(* A number is read into a double and written with six digits.             *)
SixDigits(n) ==
    LET low == n \div Spacing
        rest == n % Spacing
    IN IF n < Exact THEN n
       ELSE Spacing * (IF 2 * rest > Spacing \/ (2 * rest = Spacing /\ low % 2 = 1)
                       THEN low + 1 ELSE low)

Reads(method) ==
    /\ serving = "running" /\ toServer # <<>>
    /\ Head(toServer).method = method
    /\ toServer' = Tail(toServer)
    /\ UNCHANGED editor

Replies(m) == Len(toClient) < Window /\ toClient' = Append(toClient, m)

Responds(value) ==
    /\ Replies(Response(SixDigits(Head(toServer).id), value))
    /\ UNCHANGED server

OnInitialize == Reads("initialize") /\ Responds("capabilities")

OnInitialized == Reads("initialized") /\ UNCHANGED <<toClient, server>>

OnShutdown == Reads("shutdown") /\ Responds("null")

OnExit ==
    /\ Reads("exit") /\ serving' = "stopped"
    /\ UNCHANGED <<toClient, documents>>

(* The text is stored and then its diagnostics are made: the lexer throws  *)
(* at a number out of range, and nothing catches it.                       *)
Diagnose(u, t) ==
    /\ documents' = [documents EXCEPT ![u] = t]
    /\ IF t \in Crashing
       THEN serving' = "crashed" /\ UNCHANGED toClient
       ELSE Replies(Published(u, Diagnosis[t])) /\ UNCHANGED serving

OnOpen ==
    Reads("didOpen") /\ Diagnose(Head(toServer).uri, Head(toServer).texts[1])

(* Of the changes of one notification the first is taken for the text.     *)
OnChange ==
    Reads("didChange") /\ Diagnose(Head(toServer).uri, Head(toServer).texts[1])

(* Slips: closing without forgetting the text, or without telling so.      *)
OnCloseKeeps ==
    /\ Reads("didClose")
    /\ Replies(Published(Head(toServer).uri, Clean))
    /\ UNCHANGED server

OnCloseSilently ==
    /\ Reads("didClose")
    /\ documents' = [documents EXCEPT ![Head(toServer).uri] = Closed]
    /\ UNCHANGED <<toClient, serving>>

OnClose ==
    /\ Reads("didClose")
    /\ documents' = [documents EXCEPT ![Head(toServer).uri] = Closed]
    /\ Replies(Published(Head(toServer).uri, Clean))
    /\ UNCHANGED serving

OnCompletion == Reads("completion") /\ Responds("items")

HoverFor(u) == IF documents[u] = Closed THEN "null" ELSE Hover[documents[u]]

OnHover == Reads("hover") /\ Responds(HoverFor(Head(toServer).uri))

(* A slip: a request nobody knows is passed over.                          *)
OnOtherSilently == Reads("rename") /\ UNCHANGED <<toClient, server>>

OnOther == Reads("rename") /\ Responds("not implemented")

(* The input ends: read_message has nothing and the loop is left.          *)
OnEnd ==
    /\ serving = "running" /\ toServer = <<>> /\ session = "left"
    /\ serving' = "stopped"
    /\ UNCHANGED <<editor, toServer, toClient, documents>>

EditorNext ==
    \/ Initialize \/ Initialized \/ AskOther \/ Shutdown \/ Exit \/ Vanish
    \/ \E u \in Uris :
         \/ EditorCloses(u) \/ AskHover(u) \/ AskCompletion(u)
         \/ \E t \in Texts : EditorOpens(u, t) \/ EditorChanges(u, <<t>>)
         \/ \E t, t2 \in Texts : EditorChanges(u, <<t, t2>>)

ServerNext ==
    \/ OnInitialize \/ OnInitialized \/ OnShutdown \/ OnExit \/ OnOpen \/ OnChange
    \/ OnClose \/ OnCompletion \/ OnHover \/ OnOther \/ OnEnd

LspNext == EditorNext \/ Receive \/ ServerNext

(* Both sides read what there is; the user need not do anything.           *)
Fairness == WF_lspVars(ServerNext) /\ WF_lspVars(Receive)

LspSpec == LspInit /\ [][LspNext]_lspVars /\ Fairness

-----------------------------------------------------------------------------
(* The answers come in the order of the requests, one for each, under its  *)
(* number as far as numbers are printed exactly, and a hover is answered   *)
(* from the text the user saw when asking, whatever was typed since.       *)
AnswersFit ==
    \A i \in 1..Len(answers) :
        /\ i <= Len(asked)
        /\ answers[i].value = asked[i]
        /\ i < Exact => answers[i].id = i

(* Once both pipes are empty the diagnostics shown for a document are      *)
(* those of its text, and none if it is closed: nothing that was published *)
(* for an earlier text stays.  A document whose last change was sent in    *)
(* several texts is excepted.                                              *)
ShownIsCurrent ==
    (toServer = <<>> /\ toClient = <<>> /\ serving = "running") =>
        \A u \in Uris : whole[u] =>
            shown[u] = (IF text[u] = Closed THEN Clean ELSE Diagnosis[text[u]])

(* Every request is answered, also one that was sent before the editor     *)
(* shut the server down or went away, unless the server crashes.           *)
EveryRequestAnswered ==
    Len(answers) < Len(asked)
        ~> (Len(answers) = Len(asked) \/ serving = "crashed")

=============================================================================
