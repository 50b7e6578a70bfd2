------------------------------ MODULE MCParser ------------------------------
EXTENDS Parser, FiniteSets
RECURSIVE ExprToks(_, _), Listed(_, _), BodyLines(_, _, _), StatementLines(_, _, _),
          Words(_), Sound(_)

(***************************************************************************)
(* The reference: how a tree is written down.  An operand is put in        *)
(* parentheses only when it binds more loosely than its place asks for; a  *)
(* body is indented by one level, or stands on the line of its head.       *)
(***************************************************************************)
Binds(n) ==
    CASE n.class = "un" /\ n.word = "not"       -> 2
      [] n.class = "un" /\ n.word # "not"       -> 6
      [] n.class = "bin" ->
           (CASE n.word \in Operators.expr  -> 1
              [] n.word \in Operators.comp  -> 3
              [] n.word \in Operators.arith -> 4
              [] n.word \in Operators.term  -> 5
              [] n.word \in Operators.power -> 7)
      [] OTHER -> 8

LeftPlace(n) == IF Binds(n) = 7 THEN 8 ELSE Binds(n)
RightPlace(n) == CASE Binds(n) = 7 -> 6 [] Binds(n) = 1 -> 2 [] OTHER -> Binds(n) + 1

(* Expressions with a separator between them. *)
Listed(items, sep) ==
    CASE items = <<>>   -> <<>>
      [] Len(items) = 1 -> ExprToks(items[1], 1)
      [] OTHER -> ExprToks(items[1], 1) \o <<sep>> \o Listed(Tail(items), sep)

ExprToks(n, place) ==
    CASE Binds(n) < place  -> <<"(">> \o ExprToks(n, 1) \o <<")">>
      [] n.class \in {"value", "var", "break"} /\ Binds(n) >= place ->
           <<IF n.class = "break" THEN "break" ELSE n.word>>
      [] n.class = "un" /\ Binds(n) >= place ->
           <<n.word>> \o ExprToks(n.kids[1], Binds(n))
      [] n.class = "bin" /\ Binds(n) >= place ->
           ExprToks(n.kids[1], LeftPlace(n)) \o <<n.word>>
               \o ExprToks(n.kids[2], RightPlace(n))
      [] n.class = "member" -> ExprToks(n.kids[1], 8) \o <<".", n.word>>
      [] n.class = "index" ->
           ExprToks(n.kids[1], 8) \o <<"[">> \o ExprToks(n.kids[2], 1) \o <<"]">>
      [] n.class = "call" ->
           ExprToks(n.kids[1], 8) \o <<"(">> \o Listed(Tail(n.kids), ",") \o <<")">>
      [] n.class = "array" -> <<"{">> \o Listed(n.kids, ",") \o <<"}">>
      [] n.class = "assign" -> <<n.word, "<-">> \o ExprToks(n.kids[1], 1)
      [] n.class = "store" ->
           ExprToks(n.kids[1], 8) \o <<"<-">> \o ExprToks(n.kids[2], 1)
      [] n.class = "return" ->
           <<"return">> \o (IF n.kids[1] = Nothing THEN <<>>
                            ELSE ExprToks(n.kids[1], 1))

(* The names of algorithms that are several tokens.  An operator that is   *)
(* named by a sign loses it: here the sign is a plus.                      *)
NameToks(name) ==
    CASE name = "f::m"       -> <<"f", "::", "m">>
      [] name = "operator "  -> <<"operator", "+">>
      [] name = "operator m" -> <<"operator", "m">>
      [] OTHER               -> <<name>>

CompoundClasses == {"if", "while", "for", "repeat", "algorithm", "struct"}

(* A line whose tokens begin on the last of the lines so far.              *)
Join(lines, more) ==
    SubSeq(lines, 1, Len(lines) - 1)
      \o <<Line(lines[Len(lines)].indent, lines[Len(lines)].toks \o more[1].toks)>>
      \o Tail(more)

(***************************************************************************)
(* style.inline has the depths at which a body of simple statements stands *)
(* on the line of its head, with semicolons, after `then' only one;        *)
(* style.gap is the lines before each line of an indented body: none, or a *)
(* blank one, or a comment of any indentation.                             *)
(***************************************************************************)
OnLine(head, body, depth, style) ==
    /\ depth \in style.inline
    /\ Len(body.kids) = 1 \/ Last(head) # "then"
    /\ \A i \in 1..Len(body.kids) : body.kids[i].class \notin CompoundClasses

WithBody(head, body, depth, style) ==
    IF OnLine(head, body, depth, style)
    THEN <<Line(4 * depth, head \o Listed(body.kids, ";"))>>
    ELSE <<Line(4 * depth, head)>> \o BodyLines(body, depth + 1, style)

BodyLines(body, depth, style) ==
    FlattenSeq([i \in 1..Len(body.kids) |->
        style.gap \o StatementLines(body.kids[i], depth, style)])

StatementLines(n, depth, style) ==
    CASE n.class = "if" ->
           LET then == WithBody(<<"if">> \o ExprToks(n.kids[1], 1) \o <<"then">>,
                                n.kids[2], depth, style)
               els == n.kids[3]
           IN CASE els.kids = <<>> -> then
                [] els.kids # <<>> /\ els.kids[1].class = "if" /\ Len(els.kids) = 1 ->
                     then \o Join(<<Line(4 * depth, <<"else">>)>>,
                                  StatementLines(els.kids[1], depth, style))
                [] OTHER -> then \o WithBody(<<"else">>, els, depth, style)
      [] n.class = "while" ->
           WithBody(<<"while">> \o ExprToks(n.kids[1], 1) \o <<"do">>,
                    n.kids[2], depth, style)
      [] n.class = "for" ->
           WithBody(<<"for", n.word, "<-">> \o ExprToks(n.kids[1], 1) \o <<"to">>
                      \o ExprToks(n.kids[2], 1)
                      \o (IF n.kids[3] = Nothing THEN <<>>
                          ELSE <<"step">> \o ExprToks(n.kids[3], 1)) \o <<"do">>,
                    n.kids[4], depth, style)
      [] n.class = "repeat" ->
           <<Line(4 * depth, <<"repeat">> \o Listed(n.kids[1].kids, ";")
                               \o <<"until">> \o ExprToks(n.kids[2], 1))>>
      [] n.class = "algorithm" ->
           WithBody(<<"Algorithm">> \o NameToks(n.word) \o <<"(">> \o Listed(n.kids[1].kids, ",")
                      \o <<")", ":">>, n.kids[2], depth, style)
      [] n.class = "struct" ->
           <<Line(4 * depth, <<"Struct", n.word, ":">>)>>
             \o [i \in 1..Len(n.kids[1].kids) |->
                   Line(4 * (depth + 1), <<n.kids[1].kids[i].word>>)]
             \o BodyLines(n.kids[2], depth + 1, style)
      [] OTHER -> <<Line(4 * depth, ExprToks(n, 1))>>

ProgramLines(program, style) == BodyLines(program, 0, [style EXCEPT !.gap = <<>>])

-----------------------------------------------------------------------------
(* The programs: expressions of two operators, *)
Atoms == {Var("a"), Value("1")}

Pairs(base) ==
    {Bin(op, l, r) : op \in {"and", "=", "-", "*", "^"}, l \in base, r \in base}
        \cup {Un(op, n) : op \in {"not", "-"}, n \in base}
        \cup {Member(n, "m") : n \in base}
        \cup {ArrayAccess(l, r) : l \in base, r \in base}
        \cup {AlgorithmCall(n, <<>>) : n \in base}
        \cup {AlgorithmCall(Var("f"), <<n, Var("a")>>) : n \in base}
        \cup {Array(<<n>>) : n \in base}

Expressions == LET one == {Var("a")} \cup Pairs({Var("a")}) IN one \cup Pairs(one)

(* statements with one body in another, *)
Simple == {Assign("a", Value("1")), Node("break", "", <<>>)}

Bodies(statements) == {Block(<<n>>) : n \in statements}

WithBodies(bodies, others) ==
    {If(Var("c"), b, Block(<<>>)) : b \in bodies}
        \cup {If(Var("c"), b, e) : b \in bodies, e \in others}
        \cup {While(Var("c"), b) : b \in bodies}

Twos == {Block(<<Assign("a", Value("1")), ArrayAssign(ArrayAccess(Var("a"), Value("1")), Var("a"))>>)}

Inner == WithBodies(Bodies(Simple) \cup Twos, Bodies(Simple))

Outer ==
    WithBodies(Bodies(Inner) \cup {Block(<<n, Assign("a", Value("1"))>>) : n \in Inner},
               Bodies(Simple) \cup Bodies(Inner))

(* and the other statements, with each kind of body. *)
Others ==
    UNION {{For("a", Value("1"), Var("c"), Nothing, b),
            For("a", Value("1"), Var("c"), Un("-", Value("1")), b),
            AlgorithmDef("f", <<>>, b),
            AlgorithmDef("f", <<Var("a"), Var("c")>>, b),
            StructDef("f", <<Var("a"), Var("c")>>,
                      <<AlgorithmDef("m", <<Var("a")>>, b),
                        AlgorithmDef("f", <<>>, b)>>)} :
           b \in Bodies(Inner \cup Simple) \cup Twos}
    \cup {AlgorithmDef(name, <<Var("a")>>, b) :
             name \in {"f::m", "operator m", "operator "}, b \in Bodies(Simple)}
    \cup {Repeat(b, Var("c")) : b \in Bodies(Simple) \cup Twos}
    \cup {AlgorithmDef("f", <<>>, Block(<<Return(n)>>)) : n \in {Nothing, Var("a")}}

Styles == [inline : SUBSET {0, 1}, gap : {<<>>, <<Line(0, <<>>)>>, <<Line(7, <<>>)>>}]
Plain == [inline |-> {}, gap |-> <<>>]

(* Each is followed by one more line. *)
Program(n) == Block(<<n, AlgorithmCall(Var("f"), <<>>)>>)

Written ==
    {<<Program(n), Plain>> : n \in Expressions}
        \cup {<<Program(n), style>> : n \in Inner \cup Others, style \in Styles}
        \cup {<<Program(n), Plain>> : n \in Outer}

WrittenLines == {ProgramLines(w[1], w[2]) : w \in Written}

-----------------------------------------------------------------------------
(* An identifier with the name of a token type.                            *)
MCReadAs == [level \in DOMAIN Operators |-> IF level = "arith" THEN {"ADD"} ELSE {}]

(* Lines and tokens in any order. *)
LineSoup ==
    {Line(4 * d, toks) : d \in 0..2,
        toks \in {<<"a">>, <<"else">>, <<"if", "c", "then">>, <<"a", ";">>,
                  <<"until", "c">>, <<"a", "<-", "1">>, <<"Struct", "f", ":">>}}

SoupPrograms ==
    {<<Line(0, <<"if", "c", "then">>), l1, l2>> : l1 \in LineSoup, l2 \in LineSoup}

TokenSoup ==
    {<<Line(0, toks)>> :
        toks \in BoundedSeq({"a", "-", "^", "not", "(", ")"}, 4) \ {<<>>}}

Started(head, toks, n) ==
    {<<Line(0, head \o more), Line(4, <<"a">>)>> : more \in BoundedSeq(toks, n)}

HeadSoup ==
    Started(<<"for">>, {"a", "<-", "1"}, 3)
        \cup Started(<<"for", "a", "<-", "1">>, {"to", "step", "do", "1"}, 4)
        \cup Started(<<"a">>, {"a", "(", ")", "[", "]", ",", ".", "<-"}, 3)
        \cup Started(<<"a">>, {"ADD", "a", "-"}, 3)
        \cup Started(<<"{">>, {"a", ",", "}"}, 3)
        \cup Started(<<"while">>, {"a", "do", ";"}, 3)
        \cup Started(<<"repeat">>, {"a", "until", ";"}, 4)
        \cup Started(<<"Algorithm", "f", "(">>, {"a", ",", ")", ":"}, 4)

MCPrograms == HeadSoup \cup WrittenLines \cup SoupPrograms \cup TokenSoup

-----------------------------------------------------------------------------
(* An if without an else, at t tabs, whose block is ended by a line of m   *)
(* tabs, m < t, and no more than t - m tokens: the lines where the parser  *)
(* moves over what it has not looked at (ElsePosition).                    *)
Depth(line) == line.indent \div TabSize

OpensIf(line) ==
    \/ line.toks[1] = "if" /\ \A i \in 2..Len(line.toks) : line.toks[i] # "else"
    \/ /\ Len(line.toks) > 1 /\ line.toks[1] = "else" /\ line.toks[2] = "if"
       /\ \A i \in 2..Len(line.toks) : line.toks[i] # "else"

ShortDedent(all) ==
    LET lines == SelectSeq(all, LAMBDA l : l.toks # <<>>)
    IN \E i, j \in 1..Len(lines) :
         /\ i < j /\ OpensIf(lines[i])
         /\ \A k \in (i + 1)..(j - 1) : Depth(lines[k]) > Depth(lines[i])
         /\ Depth(lines[j]) < Depth(lines[i])
         /\ Len(lines[j].toks) <= Depth(lines[i]) - Depth(lines[j])

Misread == {Tokens(lines) : lines \in {l \in MCPrograms : ShortDedent(l)}}

(* The trees with the tokens they are written down as, by their number. *)
Shown == {<<Tokens(ProgramLines(w[1], w[2])), w[1]>> : w \in Written}

MaxTokens == Max({Len(pair[1]) : pair \in Shown})

ShownOfLength == [n \in 1..MaxTokens |-> {pair \in Shown : Len(pair[1]) = n}]

ReadRight ==
    \A n \in {Len(tokens)} \cap 1..MaxTokens :
        \A pair \in ShownOfLength[n] :
            pair[1] = tokens => result = pair[2] /\ at = n + 1

(* A program written down from its tree is read as that tree, to its end:  *)
(* precedence and association, which block each line belongs to, which if  *)
(* each else; except where a line dedents under an if without an else by   *)
(* as many levels as it has tokens.                                        *)
ReadsProgram == Finished /\ tokens \notin Misread => ReadRight

(* The same without the exception, as the grammar of the README and the    *)
(* comment on the dedent say: a line with less indentation belongs to the  *)
(* outer block.                                                            *)
ReadsEveryProgram == Finished => ReadRight

WordTokens ==
    Names \cup Literals \cup UNION {Operators[level] : level \in DOMAIN Operators}
        \cup {"not", "<-"} \cup Compound \cup {"return", "break", "continue"}

(* The words of a tree in the order of the source, and of the tokens.      *)
Words(n) ==
    LET all == FlattenSeq([i \in 1..Len(n.kids) |-> Words(n.kids[i])])
    IN CASE n.class \in {"value", "var"} -> <<n.word>>
         [] n.class \in {"un"} -> <<n.word>> \o all
         [] n.class = "bin" -> Words(n.kids[1]) \o <<n.word>> \o Words(n.kids[2])
         [] n.class = "store" -> Words(n.kids[1]) \o <<"<-">> \o Words(n.kids[2])
         [] n.class = "assign" -> <<n.word, "<-">> \o all
         [] n.class = "for" -> <<"for", n.word, "<-">> \o all
         [] n.class = "member" -> all \o <<n.word>>
         [] n.class = "algorithm" ->
              <<"Algorithm">> \o SelectSeq(NameToks(n.word), LAMBDA t : t \in WordTokens) \o all
         [] n.class = "struct" -> <<"Struct", n.word>> \o all
         [] n.class \in {"if", "while", "repeat", "return", "break", "continue"} ->
              <<n.class>> \o all
         [] OTHER -> all

Sound(n) == n # Error /\ \A i \in 1..Len(n.kids) : Sound(n.kids[i])

(* Whatever the tokens are, a parser that returns a tree without an error  *)
(* has put every word it moved over into it, once and in order: moving     *)
(* back to a newline never reads a statement twice or leaves one out.      *)
KeepsWords ==
    Finished /\ tokens \notin Misread /\ Sound(result) =>
        Words(result) = SelectSeq(SubSeq(tokens, 1, at - 1), LAMBDA t : t \in WordTokens)

(* The parser always stops, however the lines are indented: no function    *)
(* that moves back is entered again at the newline it moved back to.       *)
Stops == <>Finished
=============================================================================
