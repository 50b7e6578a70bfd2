------------------------------- MODULE Loops -------------------------------
(***************************************************************************)
(* Statements and loops over the tiered expressions of Jit.  A for-loop of *)
(* a program (not of the REPL, nor of an algorithm) whose body is a single *)
(* `x <- e`, `x <- f(args)` or `a[i] <- e` may run it on one of three fast *)
(* paths, on code compiled before the first turn, which the first value    *)
(* that the code cannot handle turns off for good.  The fast path of a     *)
(* call needs no scope: it binds the parameters beside the loop's own      *)
(* variables and puts back what they hid.                                  *)
(*                                                                         *)
(* One step is a test or a body, taken by both tiers at once; refLoop      *)
(* is loop under an interpreter without the JIT and without fast paths.    *)
(* `for` keeps its variable, step and end: what the body does to the       *)
(* variable is overwritten.                                                *)
(***************************************************************************)
EXTENDS Jit

CONSTANTS
  Stmt,      \* Stmt[k]: the statements that can be in a loop's body
  Loop,      \* Loop[id]: the loops
  Programs,  \* the programs, as their expression statements and their loops
  MaxTwice   \* bound: a loop begins with numbers whose double is no larger

(* A block is a sequence of statements that come before the one it is in.  *)
FormedStatement(k, n) ==
  \/ n.kind \in {"break", "continue"}
  \/ n.kind = "evaluate" /\ n.e \in Ids
  \/ n.kind = "assign" /\ n.name \in Names /\ n.e \in Ids
  \/ n.kind = "store" /\ n.name \in Names /\ n.i \in Ids /\ n.e \in Ids
  \/ n.kind = "if" /\ n.cond \in Ids
                  /\ n.then \in Seq(1..(k - 1)) /\ n.else \in Seq(1..(k - 1))

FormedLoop(n) ==
  /\ n.body \in Seq(DOMAIN Stmt)
  /\ \/ /\ n.kind = "for" /\ n.name \in Names /\ n.start \in DOMAIN Stmt
        /\ Stmt[n.start].kind = "assign" /\ n.end \in Ids /\ n.step \in Ids \union {0}
     \/ n.kind \in {"while", "repeat"} /\ n.cond \in Ids

ASSUME ProgramsAssumption ==
  /\ Len(Stmt) \in Nat /\ DOMAIN Stmt = 1..Len(Stmt)
  /\ \A k \in DOMAIN Stmt : FormedStatement(k, Stmt[k])
  /\ \A id \in DOMAIN Loop : FormedLoop(Loop[id])
  /\ Programs \subseteq [roots : SUBSET Roots, loops : SUBSET DOMAIN Loop]

VARIABLES
  program,  \* the program that runs
  loop,     \* the loop under way, or Idle
  refLoop   \* loop without the JIT

allVars == <<vars, program, loop, refLoop>>

Idle == [kind |-> "none"]

(* Without the JIT and the fast paths.                                     *)
Plain(s) == s.cache = NeverHot

-----------------------------------------------------------------------------
(* Statements.  A state has the value of the last one, [sym, cache, val].  *)
Break == [t |-> "break"]
Continue == [t |-> "continue"]

Ends(a) == Fails(a) \/ a \in {Break, Continue}

Done(D, k, s) == D[k][[sym |-> s.sym, cache |-> s.cache]]

(* The statements of a block, up to one that ends it.                      *)
Block(D, b, s) ==
  LET After[i \in 0..Len(b)] ==
        IF i = 0 THEN Result(s, None)
        ELSE IF Ends(After[i - 1].val) THEN After[i - 1] ELSE Done(D, b[i], After[i - 1])
  IN  After[Len(b)]

(* visit_if(): the condition must be exactly 1.                            *)
Branch(n, c) == IF IntOf(c.val) = 1 THEN n.then ELSE n.else

TakeBranch(D, n, c) ==
  IF ~IsNumber(c.val) THEN Result(c, Throw)
  ELSE IF Branch(n, c) = << >> THEN Result(c, Int1(0)) ELSE Block(D, Branch(n, c), c)

(* The element a[p] of an array takes a value; a position outside it, and  *)
(* a name that holds no array, take it without a trace.                    *)
Store(symbols, name, p, a) ==
  IF symbols[name].t = "array" /\ IntOf(p) \in DOMAIN symbols[name].e
  THEN [symbols EXCEPT ![name].e[IntOf(p)] = a] ELSE symbols

(* visit_array_assign(): the index, then the value, which is stored even   *)
(* when it is an error.                                                    *)
StoreAt(n, i, v) ==
  IF v.val \in {Throw, Nested} THEN v
  ELSE IF v.val.t = "array" THEN Result(v, Nested)
  ELSE [v EXCEPT !.sym = Store(@, n.name, i.val, v.val)]

StoreValue(n, i) ==
  IF i.val \in {Throw, Nested} THEN i
  ELSE IF i.sym[n.name].t \in {"array", "string"} /\ ~IsNumber(i.val) THEN Result(i, Throw)
  ELSE StoreAt(n, i, Visit(n.e, i))

(* The expression that a statement evaluates first, and what it does then. *)
(* An assignment and an if end with an error of theirs.  No two names and  *)
(* elements share a text that is appended to in place.                     *)
Operand(n) ==
  CASE n.kind = "store" -> n.i
    [] n.kind = "if" -> n.cond
    [] OTHER -> n.e

Finish(D, n, r) ==
  CASE n.kind = "store" -> StoreValue(n, r)
    [] n.kind = "assign" /\ ~Fails(r.val) -> [r EXCEPT !.sym[n.name] = r.val]
    [] n.kind = "if" /\ ~Fails(r.val) -> TakeBranch(D, n, r)
    [] OTHER -> r

DoStatement(D, n, s) ==
  CASE n.kind = "break" -> Result(s, Break)
    [] n.kind = "continue" -> Result(s, Continue)
    [] OTHER -> Finish(D, n, Visit(Operand(n), s))

DoneUpTo[k \in 0..Len(Stmt)] ==
  IF k = 0 THEN << >>
  ELSE LET D == DoneUpTo[k - 1] IN Append(D, [s \in States |-> DoStatement(D, Stmt[k], s)])

Doings == DoneUpTo[Len(Stmt)]

Do(k, s) == Done(Doings, k, s)

-----------------------------------------------------------------------------
(* The fast paths of a for-loop.                                           *)
CallCompiles(n) ==
  n.kind = "call" /\ Compiles(n.ret) /\ \A i \in DOMAIN n.args : Compiles(n.args[i])

Path(n, s) ==
  LET b == Stmt[n.body[1]] IN
  IF Plain(s) \/ Len(n.body) # 1 THEN "general" ELSE
  CASE b.kind = "assign" -> IF Compiles(b.e) THEN "assign"
                            ELSE IF CallCompiles(Node[b.e]) THEN "call" ELSE "general"
    [] b.kind = "store" -> IF s.sym[b.name].t = "array" /\ Compiles(b.i) /\ Compiles(b.e)
                           THEN "array" ELSE "general"
    [] OTHER -> "general"

(* What a turn's body leaves: the state, and the path of the next turn.    *)
Took(s, path) == [s |-> s, path |-> path]

(* The interpreter takes over, from what the code left behind.             *)
FallBack(s, symbols) == Took([s EXCEPT !.sym = symbols, !.val = Bail], "general")

(* The fast path goes on, and what the body assigned is in its table.      *)
GoOn(s, r, symbols, path) ==
  Took([s EXCEPT !.sym = IF Fails(r.val) THEN r.sym ELSE symbols, !.val = r.val], path)

AfterAssign(k, s, r) ==
  IF r.val = Bail THEN FallBack(s, r.sym)
  ELSE GoOn(s, r, [r.sym EXCEPT ![Stmt[k].name] = r.val], "assign")

TurnAssign(k, s) == AfterAssign(k, s, Execute(CodeOf[Stmt[k].e], s.sym))

(* The argument programs, each bound before the next is run.               *)
FastArg(n, i, r) ==
  IF r.val # Going THEN r
  ELSE LET a == Execute(CodeOf[n.args[i]], r.sym)
       IN  IF a.val = Bail \/ Fails(a.val) THEN a
           ELSE [sym |-> [a.sym EXCEPT ![n.params[i]] = a.val], val |-> Going]

FastArgs(n, symbols) ==
  LET Bound[i \in 0..Len(n.args)] ==
        IF i = 0 THEN [sym |-> symbols, val |-> Going] ELSE FastArg(n, i, Bound[i - 1])
  IN  Bound[Len(n.args)]

FastReturn(n, args) ==
  IF args.val = Going THEN Execute(CodeOf[n.ret], args.sym) ELSE args

(* The parameters get back what they hid.                                  *)
(* Mutant: they do not.                                                    *)
PutBackNothing(n, old, new) == new

PutBack(n, old, new) == [x \in Names |-> IF x \in Range(n.params) THEN old[x] ELSE new[x]]

(* The target is assigned while the parameters are still bound.            *)
AfterCall(k, n, s, r) ==
  IF r.val = Bail THEN FallBack(s, PutBack(n, s.sym, r.sym))
  ELSE GoOn(s, r, PutBack(n, s.sym, [r.sym EXCEPT ![Stmt[k].name] = r.val]), "call")

TurnCall(k, s) ==
  AfterCall(k, Node[Stmt[k].e], s,
            FastReturn(Node[Stmt[k].e], FastArgs(Node[Stmt[k].e], s.sym)))

(* Both programs are run before either is found to have given up.          *)
AfterArray(k, s, i, v) ==
  IF Bail \in {i.val, v.val} THEN FallBack(s, v.sym)
  ELSE IF Fails(i.val) THEN GoOn(s, [v EXCEPT !.val = i.val], v.sym, "array")
  ELSE GoOn(s, v, Store(v.sym, Stmt[k].name, i.val, v.val), "array")

ArrayValue(k, s, i) == AfterArray(k, s, i, Execute(CodeOf[Stmt[k].e], i.sym))

TurnArray(k, s) == ArrayValue(k, s, Execute(CodeOf[Stmt[k].i], s.sym))

FastTurn(n, path, s) ==
  CASE path = "assign" -> TurnAssign(n.body[1], s)
    [] path = "call" -> TurnCall(n.body[1], s)
    [] path = "array" -> TurnArray(n.body[1], s)
    [] path = "general" -> FallBack(s, s.sym)

OrInterpret(n, t) == IF t.s.val = Bail THEN Took(Block(Doings, n.body, t.s), "general") ELSE t

Turn(n, path, s) == OrInterpret(n, FastTurn(n, path, s))

-----------------------------------------------------------------------------
(* A tier's state with its loop, [sym, cache, val, loop].                  *)
With(s, a, l) == [sym |-> s.sym, cache |-> s.cache, val |-> a, loop |-> l]
Ended(s, a) == With(s, a, Idle)

(* visit_for(), up to the first turn: start, step and end in this order.   *)
First(id, i, step, end) ==
  IF ~IsNumber(step) THEN Ended(end, Throw)
  ELSE IF Twice(step) = 0 THEN Ended(end, Error)
  ELSE With(end, None, [kind |-> "for", id |-> id, phase |-> "test",
                        path |-> Path(Loop[id], end), i |-> i, step |-> step, end |-> end.val])

OrEnded(r, k(_)) == IF Fails(r.val) THEN Ended(r, r.val) ELSE k(r)

Step(n, s) == IF n.step = 0 THEN Result(s, Int1(1)) ELSE Visit(n.step, s)

BeginFor(id, n, s) ==
  OrEnded(Do(n.start, s),
          LAMBDA i : OrEnded(Step(n, i),
                             LAMBDA step : OrEnded(Visit(n.end, step),
                                                   LAMBDA end : First(id, i.val, step.val, end))))

Begin(id, s) ==
  LET Enter(phase) == With(s, None, [kind |-> Loop[id].kind, id |-> id, phase |-> phase,
                                     path |-> "general"])
  IN  CASE Loop[id].kind = "for" -> BeginFor(id, Loop[id], s)
        [] Loop[id].kind = "while" -> Enter("test")
        [] Loop[id].kind = "repeat" -> Enter("body")

InRange(l) ==
  IF Twice(l.step) > 0 THEN Twice(l.i) <= Twice(l.end) ELSE Twice(l.i) >= Twice(l.end)

(* next_for_iteration: the variable is set from the loop's own i.          *)
(* Mutant: it is set from what the body left in the variable.              *)
NextFromSymbol(l, s, path) ==
  LET x == Loop[l.id].name
      i == Sum(s.sym[x], l.step)
  IN  With([s EXCEPT !.sym[x] = i], s.val,
           [l EXCEPT !.i = i, !.path = path, !.phase = "test"])

NextIteration(l, s, path) ==
  LET x == Loop[l.id].name
      i == Sum(l.i, l.step)
  IN  With([s EXCEPT !.sym[x] = i], s.val,
           [l EXCEPT !.i = i, !.path = path, !.phase = "test"])

(* The conditions: for, while, which wants exactly 1, repeat, until not 0. *)
Enters(l, holds, s) ==
  IF holds THEN With(s, None, [l EXCEPT !.phase = "body"]) ELSE Ended(s, None)

ForTest(l, s) ==
  IF IsNumber(l.i) /\ IsNumber(l.end) THEN Enters(l, InRange(l), s) ELSE Ended(s, Throw)

Test(l, c) ==
  IF ~IsNumber(c.val) THEN Ended(c, Throw)
  ELSE Enters(l, IntOf(c.val) = (IF l.kind = "while" THEN 1 ELSE 0), c)

(* continue goes on to the next test.                                      *)
AfterBody(l, r) ==
  IF Fails(r.s.val) THEN Ended(r.s, r.s.val)
  ELSE IF r.s.val = Break THEN Ended(r.s, None)
  ELSE IF l.kind = "for" THEN NextIteration(l, r.s, r.path)
  ELSE With(r.s, r.s.val, [l EXCEPT !.phase = "test"])

(* The loop's next test, or its next body.                                 *)
Advance(l, s) ==
  IF l.kind = "none" THEN Ended(s, None)
  ELSE IF l.phase = "body" THEN AfterBody(l, Turn(Loop[l.id], l.path, s))
  ELSE IF l.kind = "for" THEN ForTest(l, s)
  ELSE Test(l, Visit(Loop[l.id].cond, s))

-----------------------------------------------------------------------------
LoopInit ==
  /\ Init
  /\ program \in Programs
  /\ loop = Idle /\ refLoop = Idle

AtRest == loop = Idle /\ refLoop = Idle

(* Both tiers move.                                                        *)
Move(hots, colds) ==
  \E hot \in hots, cold \in colds :
    /\ Fits(hot) /\ Fits(cold)
    /\ sym' = hot.sym /\ cache' = hot.cache /\ val' = hot.val /\ loop' = hot.loop
    /\ refSym' = cold.sym /\ refVal' = cold.val /\ refLoop' = cold.loop
    /\ UNCHANGED program

Small(symbols) ==
  \A x \in Names : IsNumber(symbols[x]) => Twice(symbols[x]) \in (-MaxTwice)..MaxTwice

BeginLoop(id) ==
  /\ Running /\ AtRest
  /\ Small(sym)
  /\ Move({Begin(id, [sym |-> sym, cache |-> cache])},
          {Begin(id, [sym |-> refSym, cache |-> NeverHot])})

TakeTurn ==
  /\ Running /\ ~AtRest
  /\ Move({Advance(loop, [sym |-> sym, cache |-> cache, val |-> None])},
          {Advance(refLoop, [sym |-> refSym, cache |-> NeverHot, val |-> None])})

(* A statement that is not a loop.                                         *)
Statement ==
  /\ AtRest
  /\ \/ \E id \in program.roots : Evaluate(id)
     \/ \E x \in Names : Assign(x)
  /\ UNCHANGED <<program, loop, refLoop>>

LoopNext ==
  \/ \E id \in program.loops : BeginLoop(id)
  \/ TakeTurn
  \/ Statement

(* The interpreter goes on with a loop until it ends: weak fairness of     *)
(* TakeTurn, which Running /\ ~AtRest enables, written out.                *)
GoesOn == []<>(AtRest \/ ~Running) \/ []<><<TakeTurn>>_allVars

LoopSpec == LoopInit /\ [][LoopNext]_allVars /\ GoesOn

-----------------------------------------------------------------------------
(* The JIT and the fast paths change neither the values, nor the turns of  *)
(* a loop, nor where it ends.                                              *)
LoopsAgree ==
  /\ TiersAgree
  /\ ~Fails(val) =>
       /\ loop.kind = refLoop.kind
       /\ loop.kind = "for" => loop.i = refLoop.i /\ loop.end = refLoop.end

(* A for-loop ends whatever its body does, also when it assigns the loop's *)
(* own variable.                                                           *)
ForLoopsEnd == (loop.kind = "for") ~> (loop.kind = "none")
=============================================================================
