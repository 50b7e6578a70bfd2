------------------------------- MODULE Parser -------------------------------
(***************************************************************************)
(* The parser: recursive descent over the tokens of the lexer, as the      *)
(* machine the recursion is.  `calls' is the stack of the parser functions *)
(* in progress, the innermost first; each frame keeps the function, the    *)
(* tab_expect it was called with and what it has parsed so far.  `result'  *)
(* is the node a function has just returned, or Nothing while the          *)
(* innermost function is still to read.  One action is one function, or    *)
(* the part of one between two calls it makes.                             *)
(*                                                                         *)
(* A program is indented with TAB tokens and its lines start at NEWLINE    *)
(* tokens; a function that reads one NEWLINE too far moves `at' back, so   *)
(* what belongs to which block, and that the parser stops at all, depend   *)
(* on every caller moving back by the right number of tokens.              *)
(***************************************************************************)
EXTENDS Integers, Sequences, SequencesExt

CONSTANTS
    Programs,   \* the programs that are read, each a sequence of lines
    Names,      \* identifiers
    Literals,   \* numbers, strings and builtin constants
    Builtins,   \* names of builtin algorithms, and self
    ReadAs      \* per level, the tokens taken for an operator of it by what they
                \* say: an identifier ADD, a string "and"

VARIABLES
    tokens,     \* what the lexer made of the program
    at,         \* tok_index, counted from 1
    calls,      \* the functions in progress
    result      \* the node just returned

vars == <<tokens, at, calls, result>>

NL == "NEWLINE"
Tab == "TAB"
Semicolon == ";"

(***************************************************************************)
(* The lexer's part in the block structure.  A line of the source is its   *)
(* indentation in spaces and its tokens; the tokens of a blank line, or    *)
(* of one that holds only a comment, are none.  Each line but the first    *)
(* yields a NEWLINE, one TAB for four spaces, and its tokens.              *)
(***************************************************************************)
Line(indent, toks) == [indent |-> indent, toks |-> toks]

TabSize == 4

Aligned(line) == line.toks = <<>> \/ line.indent % TabSize = 0

LineTokens(line) ==
    <<NL>> \o (IF line.toks = <<>> THEN <<>>
               ELSE [i \in 1..(line.indent \div TabSize) |-> Tab] \o line.toks)

Tokens(lines) ==
    IF \A i \in 2..Len(lines) : Aligned(lines[i])
    THEN lines[1].toks
         \o FlattenSeq([i \in 1..(Len(lines) - 1) |-> LineTokens(lines[i + 1])])
    ELSE <<"ERROR">>

(***************************************************************************)
(* Trees.  A node has its class, the word it carries and its children; the *)
(* statements of a body are the children of one "block" node.              *)
(***************************************************************************)
Node(class, word, kids) == [class |-> class, word |-> word, kids |-> kids]

Nothing == Node("nothing", "", <<>>)
Error == Node("error", "", <<>>)
Var(name) == Node("var", name, <<>>)
Block(statements) == Node("block", "", statements)
AsBlock(n) == IF n.class = "block" THEN n ELSE Block(<<n>>)

Value(tok) == Node("value", tok, <<>>)
Un(op, n) == Node("un", op, <<n>>)
Bin(op, l, r) == Node("bin", op, <<l, r>>)
Assign(name, n) == Node("assign", name, <<n>>)
ArrayAssign(target, n) == Node("store", "<-", <<target, n>>)
Member(n, name) == Node("member", name, <<n>>)
ArrayAccess(n, i) == Node("index", "[", <<n, i>>)
AlgorithmCall(f, args) == Node("call", "(", <<f>> \o args)
Array(items) == Node("array", "{", items)
If(cond, then, els) == Node("if", "if", <<cond, then, els>>)
For(name, from, to, step, body) == Node("for", name, <<from, to, step, body>>)
While(cond, body) == Node("while", "while", <<cond, body>>)
Repeat(body, cond) == Node("repeat", "repeat", <<body, cond>>)
Return(n) == Node("return", "return", <<n>>)
AlgorithmDef(name, args, body) ==
    Node("algorithm", name, <<Node("args", "", args), body>>)
StructDef(name, members, methods) ==
    Node("struct", name, <<Node("members", "", members),
                           Node("methods", "", methods)>>)

-----------------------------------------------------------------------------
(* Reading: the current token, and the tokens of a line.  Outside the      *)
(* tokens there is a token of type NONE.                                   *)

Tok(p) == IF p \in 1..Len(tokens) THEN tokens[p] ELSE "NONE"

(* The first position from p on whose token is not tok. *)
Past(p, tok) ==
    CHOOSE q \in p..(Len(tokens) + p) :
        Tok(q) # tok /\ \A r \in p..(q - 1) : Tok(r) = tok

(* A slip: not moving back at all. *)
NotBackToLine(p) == p

(* Moving back to the last NEWLINE that is not after p. *)
BackToLine(p) ==
    CHOOSE q \in 1..p : Tok(q) = NL /\ \A r \in (q + 1)..p : Tok(r) # NL

(* The stack.  A function starts with nothing parsed; it calls another     *)
(* one, turns into the one whose value it returns, or returns a node.      *)
Frame(fn, tab) == [fn |-> fn, tab |-> tab, word |-> "", got |-> <<>>]

Top == Head(calls)
Entered(fn) == calls # <<>> /\ Top.fn = fn /\ result = Nothing
Returned(fn) ==
    calls # <<>> /\ Top.fn = fn /\ result # Nothing /\ result # Error

Call(frame, fn, tab) ==
    /\ calls' = <<Frame(fn, tab), frame>> \o Tail(calls)
    /\ result' = Nothing

Become(fn) ==
    /\ calls' = <<Frame(fn, Top.tab)>> \o Tail(calls)
    /\ result' = Nothing

Yield(n) == calls' = Tail(calls) /\ result' = n

Fail == Yield(Error)

Keeping(n) == [Top EXCEPT !.got = Append(@, n)]
Naming(fn, word) == [Frame(fn, Top.tab) EXCEPT !.word = word]

Step(n) == at' = at + n /\ UNCHANGED tokens
Goto(p) == at' = p /\ UNCHANGED tokens

Init ==
    /\ \E lines \in Programs : tokens = Tokens(lines)
    /\ at = 1
    /\ calls = <<Frame("block", 0)>>
    /\ result = Nothing

-----------------------------------------------------------------------------
(* Expressions. *)

Operators == [expr  |-> {"and", "or"},
              comp  |-> {"=", "!=", "<", ">", "<=", ">="},
              arith |-> {"+", "-"},
              term  |-> {"*", "/", "%"},
              power |-> {"^"}]

Lower == [expr |-> "comp", comp |-> "arith", arith |-> "term",
          term |-> "factor", power |-> "call"]

RightOperand == [Lower EXCEPT !.power = "factor"]

(* bin_op: the left operand is what was parsed so far, and an operator of  *)
(* the level, or a token that reads like one, makes a call for the right   *)
(* one.                                                                    *)
BinOpEnter ==
    \E level \in DOMAIN Operators :
        /\ Entered(level)
        /\ level = "comp" => Tok(at) # "not"
        /\ Call(Top, Lower[level], Top.tab)
        /\ Step(0)

BinOp ==
    \E level \in DOMAIN Operators :
        /\ Returned(level)
        /\ LET left == IF Top.got = <<>> THEN result
                       ELSE Bin(Top.word, Top.got[1], result)
           IN IF Tok(at) \in Operators[level] \cup ReadAs[level]
              THEN /\ Call([Top EXCEPT !.got = <<left>>, !.word = Tok(at)],
                           RightOperand[level], Top.tab)
                   /\ Step(1)
              ELSE Yield(left) /\ Step(0)

(* comp_expr on `not', and factor on a sign: the sign does not look at     *)
(* what its operand is, so it returns a node even over an error.           *)
NotEnter ==
    /\ Entered("comp") /\ Tok(at) = "not"
    /\ Call(Frame("not", Top.tab), "comp", Top.tab)
    /\ Step(1)

Not == Returned("not") /\ Yield(Un("not", result)) /\ Step(0)

Factor ==
    /\ Entered("factor")
    /\ IF Tok(at) \in {"+", "-"}
       THEN Call(Naming("sign", Tok(at)), "factor", Top.tab) /\ Step(1)
       ELSE Become("power") /\ Step(0)

Sign ==
    /\ calls # <<>> /\ Top.fn = "sign" /\ result # Nothing
    /\ Yield(Un(Top.word, result))
    /\ Step(0)

-----------------------------------------------------------------------------
(* atom *)

AtomLeaf ==
    /\ Entered("atom")
    /\ \/ Tok(at) \in Literals /\ Yield(Value(Tok(at)))
       \/ Tok(at) \in Builtins /\ Yield(Var(Tok(at)))
       \/ Tok(at) \in Names /\ Tok(at + 1) # "<-" /\ Yield(Var(Tok(at)))
       \/ Tok(at) \in {"break", "continue"} /\ Yield(Node(Tok(at), "", <<>>))
       \/ /\ Tok(at) = "return" /\ Tok(at + 1) \in {NL, Semicolon}
          /\ Yield(Return(Nothing))
    /\ Step(1)

AtomAssign ==
    /\ Entered("atom") /\ Tok(at) \in Names /\ Tok(at + 1) = "<-"
    /\ Call(Naming("assign", Tok(at)), "expr", Top.tab)
    /\ Step(2)

Assigned == Returned("assign") /\ Yield(Assign(Top.word, result)) /\ Step(0)

AtomReturn ==
    /\ Entered("atom") /\ Tok(at) = "return" /\ Tok(at + 1) \notin {NL, Semicolon}
    /\ Call(Frame("return", Top.tab), "expr", Top.tab)
    /\ Step(1)

ReturnValue == Returned("return") /\ Yield(Return(result)) /\ Step(0)

Compound == {"if", "for", "while", "repeat", "Algorithm", "Struct"}

AtomKeyword ==
    /\ Entered("atom") /\ Tok(at) \in Compound
    /\ Become(Tok(at)) /\ Step(1)

GroupEnter ==
    /\ Entered("atom") /\ Tok(at) = "("
    /\ Call(Frame("group", Top.tab), "expr", Top.tab)
    /\ Step(1)

(* After the expression in parentheses, whatever it is. *)
Group ==
    /\ calls # <<>> /\ Top.fn = "group" /\ result # Nothing
    /\ IF Tok(at) = ")" THEN Yield(result) /\ Step(1) ELSE Fail /\ Step(0)

Opening == {"{", "["}
Closing == ("{" :> "}") @@ ("[" :> "]") @@ ("(" :> ")")

ArrayEnter ==
    /\ Entered("atom") /\ Tok(at) \in Opening
    /\ IF Tok(at + 1) = Closing[Tok(at)]
       THEN Yield(Array(<<>>)) /\ Step(2)
       ELSE Call(Naming("array", Closing[Tok(at)]), "expr", Top.tab) /\ Step(1)

(* The list of an array or of the arguments of a call: an expression was   *)
(* read; a comma, the closing bracket, or an error.                        *)
ListItem(fn, made) ==
    /\ Returned(fn)
    /\ CASE Tok(at) = ","      -> Call(Keeping(result), "expr", Top.tab) /\ Step(1)
         [] Tok(at) = Top.word -> Yield(made) /\ Step(1)
         [] OTHER              -> Fail /\ Step(0)

ArrayItem == ListItem("array", Array(Append(Top.got, result)))

NotAnAtom ==
    /\ Entered("atom")
    /\ Tok(at) \notin Literals \cup Builtins \cup Names \cup Compound \cup Opening
                      \cup {"break", "continue", "return", "("}
    /\ Fail /\ Step(0)

-----------------------------------------------------------------------------
(* call: an atom and what follows it. *)

CallEnter == Entered("call") /\ Call(Top, "atom", Top.tab) /\ Step(0)

PostfixMember ==
    /\ Returned("call") /\ Tok(at) = "."
    /\ IF Tok(at + 1) \in (Names \cup Builtins) \ {"self"}
       THEN result' = Member(result, Tok(at + 1)) /\ UNCHANGED calls /\ Step(2)
       ELSE Fail /\ Step(1)

PostfixCall ==
    /\ Returned("call") /\ Tok(at) = "("
    /\ IF Tok(at + 1) = ")"
       THEN result' = AlgorithmCall(result, <<>>) /\ UNCHANGED calls /\ Step(2)
       ELSE /\ calls' = <<Frame("expr", Top.tab),
                          [Naming("args", ")") EXCEPT !.got = <<result>>]>> \o calls
            /\ result' = Nothing
            /\ Step(1)

Arguments ==
    ListItem("args", AlgorithmCall(Top.got[1], Append(Tail(Top.got), result)))

PostfixIndex ==
    /\ Returned("call") /\ Tok(at) = "["
    /\ calls' = <<Frame("expr", Top.tab),
                  [Naming("index", "]") EXCEPT !.got = <<result>>]>> \o calls
    /\ result' = Nothing
    /\ Step(1)

Index ==
    /\ Returned("index")
    /\ IF Tok(at) = "]"
       THEN Yield(ArrayAccess(Top.got[1], result)) /\ Step(1)
       ELSE Fail /\ Step(0)

PostfixAssign ==
    /\ Returned("call") /\ Tok(at) = "<-"
    /\ Call([Frame("store", Top.tab) EXCEPT !.got = <<result>>], "expr", Top.tab)
    /\ Step(1)

Stored ==
    Returned("store") /\ Yield(ArrayAssign(Top.got[1], result)) /\ Step(0)

CallEnd ==
    /\ Returned("call") /\ Tok(at) \notin {".", "(", "[", "<-"}
    /\ Yield(result) /\ Step(0)

-----------------------------------------------------------------------------
(* statement: the statements of a block indented by the frame's tabs. *)

Separators == {NL, Semicolon}

(* A slip: moving back in front of a shallower line and going on there. *)
BlockLineStays ==
    /\ Entered("block") /\ Tok(at) = NL
    /\ LET text == Past(at + 1, Tab)
           tabs == text - at - 1
       IN IF Tok(text) = NL \/ tabs >= Top.tab
          THEN Goto(text) /\ UNCHANGED <<calls, result>>
          ELSE Step(0) /\ UNCHANGED <<calls, result>>

(* At a NEWLINE: count the tabs.  A blank line is skipped, a shallower one *)
(* ends the block in front of its NEWLINE, a deeper one is an error.       *)
BlockLine ==
    /\ Entered("block") /\ Tok(at) = NL
    /\ LET text == Past(at + 1, Tab)
           tabs == text - at - 1
       IN CASE Tok(text) = NL \/ tabs = Top.tab
                 -> Goto(text) /\ UNCHANGED <<calls, result>>
            [] Tok(text) # NL /\ tabs < Top.tab
                 -> Yield(Block(Top.got)) /\ Step(0)
            [] Tok(text) # NL /\ tabs > Top.tab
                 -> Fail /\ Goto(text)

(* On a line: semicolons are skipped and a statement is read. *)
BlockItem ==
    /\ Entered("block") /\ Tok(at) # NL
    /\ LET text == Past(at, Semicolon)
       IN /\ Goto(text)
          /\ CASE Tok(text) = "NONE" -> Yield(Block(Top.got))
               [] Tok(text) = NL     -> UNCHANGED <<calls, result>>
               [] OTHER              -> Call(Top, "expr", Top.tab)

(* After a statement the block goes on at a separator, and ends otherwise. *)
BlockNext ==
    /\ Returned("block")
    /\ IF Tok(at) \in Separators
       THEN calls' = <<Keeping(result)>> \o Tail(calls) /\ result' = Nothing
       ELSE Yield(Block(Append(Top.got, result)))
    /\ Step(0)

-----------------------------------------------------------------------------
(* if, for, while and repeat: the parts between their keywords.  Part(fn,  *)
(* n) says that n parts are read and one more has been returned.           *)

Part(fn, n) == Returned(fn) /\ Len(Top.got) = n

(* A keyword and then the next part; without the keyword an error.         *)
Expect(keyword, fn, tab) ==
    IF Tok(at) = keyword
    THEN Call(Keeping(result), fn, tab) /\ Step(1)
    ELSE Fail /\ Step(0)

IfEnter == Entered("if") /\ Call(Top, "expr", Top.tab) /\ Step(0)

(* A newline after `then' makes it a block, one level deeper.              *)
IfThen ==
    /\ Part("if", 0)
    /\ IF Tok(at + 1) = NL
       THEN Expect("then", "block", Top.tab + 1)
       ELSE Expect("then", "expr", Top.tab)

(* A slip: `else' is looked for without its indentation. *)
ElsePositionFlush == IF Tok(at) = NL THEN at + 1 ELSE at

(* `else' is looked for where it stands if the next line belongs to the    *)
(* block of the if: a newline and that many tabs further, whatever the     *)
(* tokens in between are.                                                  *)
ElsePosition == IF Tok(at) = NL THEN at + 1 + Top.tab ELSE at

IfElse ==
    /\ Part("if", 1)
    /\ LET p == ElsePosition
       IN /\ Tok(p) = "else"
          /\ IF Tok(p + 1) = "if"
             THEN Call(Keeping(AsBlock(result)), "if", Top.tab) /\ Goto(p + 2)
             ELSE Call(Keeping(AsBlock(result)), "block", Top.tab + 1) /\ Goto(p + 1)

(* Without one the parser returns to the newline it came over last.        *)
IfNoElse ==
    /\ Part("if", 1)
    /\ Tok(ElsePosition) # "else"
    /\ Yield(If(Top.got[1], AsBlock(result), Block(<<>>)))
    /\ Goto(IF Tok(at) = NL THEN BackToLine(ElsePosition) ELSE at)

IfEnd ==
    /\ Part("if", 2)
    /\ Yield(If(Top.got[1], Top.got[2], AsBlock(result)))
    /\ Step(0)

ForEnter ==
    /\ Entered("for")
    /\ IF Tok(at) \in Names /\ Tok(at + 1) = "<-"
       THEN Call([Top EXCEPT !.word = Tok(at)], "expr", Top.tab) /\ Step(2)
       ELSE Fail /\ Step(IF Tok(at) \in Names THEN 1 ELSE 0)

ForTo == Part("for", 0) /\ Expect("to", "expr", Top.tab)

ForStep == Part("for", 1) /\ Tok(at) = "step" /\ Expect("step", "expr", Top.tab)

ForDo ==
    /\ Part("for", 1) /\ Tok(at) # "step"
    /\ IF Tok(at) = "do"
       THEN /\ Call([Top EXCEPT !.got = @ \o <<result, Nothing>>], "block", Top.tab + 1)
            /\ Step(1)
       ELSE Fail /\ Step(0)

ForStepDo == Part("for", 2) /\ Expect("do", "block", Top.tab + 1)

ForEnd ==
    /\ Part("for", 3)
    /\ Yield(For(Top.word, Top.got[1], Top.got[2], Top.got[3], result))
    /\ Step(0)

WhileEnter == Entered("while") /\ Call(Top, "expr", Top.tab) /\ Step(0)
WhileDo == Part("while", 0) /\ Expect("do", "block", Top.tab + 1)
WhileEnd == Part("while", 1) /\ Yield(While(Top.got[1], result)) /\ Step(0)

RepeatEnter == Entered("repeat") /\ Call(Top, "block", Top.tab + 1) /\ Step(0)
RepeatUntil == Part("repeat", 0) /\ Expect("until", "expr", Top.tab)
RepeatEnd == Part("repeat", 1) /\ Yield(Repeat(Top.got[1], result)) /\ Step(0)

-----------------------------------------------------------------------------
(* algo_def and struct_def.                                                *)

Keywords == Compound \cup {"and", "or", "not", "then", "else", "to", "step", "do",
                           "until", "return", "break", "continue", "self", "operator"}

(* The tokens that carry a value.                                          *)
Valued == Names \cup Literals \cup Builtins \cup Keywords

(* The name of an algorithm and how many tokens it takes; the empty name   *)
(* is an error, found after so many tokens.  A method is named             *)
(* Owner::method or Owner method, an operator by the value of the token    *)
(* that follows the word: a sign has none.                                 *)
AlgoName ==
    LET Named(word, size) == [word |-> word, size |-> size]
        next == Tok(at + 1)
    IN CASE Tok(at) \in Names /\ next = "::" ->
              (IF Tok(at + 2) \in Names \cup Keywords
               THEN Named(Tok(at) \o "::" \o Tok(at + 2), 3) ELSE Named("", 2))
         [] Tok(at) \in Names /\ next \in Names -> Named(next, 2)
         [] Tok(at) \in Names /\ next = "(" -> Named(Tok(at), 1)
         [] Tok(at) \in Names /\ next \notin Names \cup {"::", "("} -> Named("", 1)
         [] Tok(at) = "operator" ->
              Named("operator " \o (IF next \in Valued THEN next ELSE ""), 2)
         [] Tok(at) = "(" -> Named("", 0)
         [] OTHER -> Named("Anonymous", 0)

(* The positions of the parameters from p on, each after a comma but the   *)
(* first, up to the last that is followed by none.                         *)
ArgNames(p) ==
    IF Tok(p) \notin Names THEN <<>>
    ELSE LET more == CHOOSE n \in 0..Len(tokens) :
                        /\ \A i \in 1..n : Tok(p + 2 * i - 1) = ","
                        /\ \A i \in 1..n : Tok(p + 2 * i) \in Names
                        /\ Tok(p + 2 * n + 1) # "," \/ Tok(p + 2 * n + 2) \notin Names
         IN [i \in 1..(more + 1) |-> Var(Tok(p + 2 * i - 2))]

(* After the name one token is passed over as the opening parenthesis.  An *)
(* error is found at the token that does not fit.                          *)
AlgoHeader ==
    /\ Entered("Algorithm")
    /\ LET first == at + AlgoName.size + 1
           args == ArgNames(first)
           after == IF args = <<>> THEN first ELSE first + 2 * Len(args) - 1
       IN CASE AlgoName.word = "" -> Fail /\ Step(AlgoName.size)
            [] AlgoName.word # "" /\ Tok(after) = ")" /\ Tok(after + 1) = ":"
                 -> /\ Call([Top EXCEPT !.word = AlgoName.word, !.got = args],
                            "block", Top.tab + 1)
                    /\ Goto(after + 2)
            [] OTHER
                 -> /\ Fail
                    /\ Goto(IF Tok(after) = ")" \/ (args # <<>> /\ Tok(after) = ",")
                            THEN after + 1 ELSE after)

AlgoEnd ==
    /\ Returned("Algorithm")
    /\ Yield(AlgorithmDef(Top.word, Top.got, result))
    /\ Step(0)

StructEnter ==
    /\ Entered("Struct")
    /\ IF Tok(at) \in Names /\ Tok(at + 1) = ":"
       THEN calls' = <<Naming("fields", Tok(at))>> \o Tail(calls)
            /\ Step(2) /\ UNCHANGED result
       ELSE Fail /\ Step(0)

FieldsSoFar ==
    StructDef(Top.word, SelectSeq(Top.got, LAMBDA n : n.class = "var"),
                        SelectSeq(Top.got, LAMBDA n : n.class = "algorithm"))

(* A line of a struct: a member or an algorithm, one level deeper.         *)
FieldLine ==
    /\ Entered("fields") /\ Tok(at) = NL
    /\ LET text == Past(at + 1, Tab)
           tabs == text - at - 1
           depth == Top.tab + 1
           here == Tok(text) # NL /\ tabs = depth
       IN CASE Tok(text) = NL
                 -> Goto(text) /\ UNCHANGED <<calls, result>>
            [] Tok(text) # NL /\ tabs < depth
                 -> Yield(FieldsSoFar) /\ Step(0)
            [] here /\ Tok(text) \in Names
                 -> /\ calls' = <<Keeping(Var(Tok(text)))>> \o Tail(calls)
                    /\ Goto(text + 1) /\ UNCHANGED result
            [] here /\ Tok(text) = "Algorithm"
                 -> Call(Top, "Algorithm", depth) /\ Goto(text + 1)
            [] here /\ Tok(text) = "NONE"
                 -> Goto(text) /\ UNCHANGED <<calls, result>>
            [] OTHER -> Fail /\ Goto(text)

FieldNext ==
    /\ Returned("fields")
    /\ calls' = <<Keeping(result)>> \o Tail(calls)
    /\ result' = Nothing /\ Step(0)

FieldsEnd == Entered("fields") /\ Tok(at) # NL /\ Yield(FieldsSoFar) /\ Step(0)

-----------------------------------------------------------------------------
(* An error is returned by every function but the two that return a node   *)
(* of their own over it.                                                   *)
Propagate ==
    /\ calls # <<>> /\ Top.fn \notin {"sign", "group"} /\ result = Error
    /\ Fail /\ Step(0)

Next ==
    \/ BinOpEnter \/ BinOp \/ NotEnter \/ Not \/ Factor \/ Sign
    \/ AtomLeaf \/ AtomAssign \/ Assigned \/ AtomReturn \/ ReturnValue
    \/ AtomKeyword \/ GroupEnter \/ Group \/ ArrayEnter \/ ArrayItem \/ NotAnAtom
    \/ CallEnter \/ PostfixMember \/ PostfixCall \/ Arguments \/ PostfixIndex
    \/ Index \/ PostfixAssign \/ Stored \/ CallEnd
    \/ BlockLine \/ BlockItem \/ BlockNext
    \/ IfEnter \/ IfThen \/ IfElse \/ IfNoElse \/ IfEnd
    \/ ForEnter \/ ForTo \/ ForStep \/ ForDo \/ ForStepDo \/ ForEnd
    \/ WhileEnter \/ WhileDo \/ WhileEnd
    \/ RepeatEnter \/ RepeatUntil \/ RepeatEnd
    \/ AlgoHeader \/ AlgoEnd \/ StructEnter \/ FieldLine \/ FieldNext \/ FieldsEnd
    \/ Propagate

Spec == Init /\ [][Next]_vars /\ WF_vars(Next)

Finished == calls = <<>>

=============================================================================
