-------------------------------- MODULE Jit --------------------------------
(***************************************************************************)
(* Tiered evaluation of expressions.  A node that can be the root of a     *)
(* compiled expression counts its visits; at the HotThreshold-th it is     *)
(* compiled to stack code, or marked disabled.  From then on a visit runs  *)
(* the code, which may give up in the middle (std::nullopt) and leave the  *)
(* whole expression to the interpreter.  Inner nodes have counters of      *)
(* their own, which move only while the outer node is interpreted.         *)
(*                                                                         *)
(* What a node does to a state is an entry of a sequence, made from the    *)
(* entries of the nodes before it, its children among them.                *)
(*                                                                         *)
(* refSym and refVal follow the same program under an interpreter without  *)
(* the JIT.  A float is a multiple of a half and is kept doubled, so that  *)
(* 0.5 is [t |-> "float", v |-> 1].  Two names never share one array here, *)
(* and an array is never put into another.                                 *)
(***************************************************************************)
EXTENDS Integers, Sequences, SequencesExt, TLC

CONSTANTS
  Node,          \* Node[id]: the expressions, children by their ids
  Roots,         \* the expression statements the program executes
  Guarded,       \* the roots that run under `if xs.size() > 0`
  Names,         \* the variables
  Assignable,    \* Assignable[x]: the values the program assigns to x
  Start,         \* the symbol table at the start
  HotThreshold,  \* JIT_HOT_THRESHOLD, 8 in the code
  MaxLen         \* bound: the longest array the program builds

ASSUME ThresholdAssumption == HotThreshold \in Nat \ {0}

Ids == DOMAIN Node

Int1(n) == [t |-> "int", v |-> n]
Float2(n) == [t |-> "float", v |-> n]
Text(n) == [t |-> "string", n |-> n]   \* a word over one letter is its length
Array(s) == [t |-> "array", e |-> s]
None == [t |-> "none"]
Error == [t |-> "error"]
Throw == [t |-> "throw"]      \* the end of the process: an uncaught C++
                              \* exception, or an int divided by 0
Nested == [t |-> "nested"]    \* bound: an array would be put into an array

Numbers == [t : {"int", "float"}, v : Int]
Scalars == Numbers \union [t : {"string"}, n : Nat] \union {None, Error}
Values == Scalars \union [t : {"array"}, e : Seq(Scalars)]

(* The parser makes a node after its children, and so its id (Node() of    *)
(* node.h) is greater than theirs.  An algorithm is defined before it is   *)
(* called.                                                                 *)
Formed(id, n) ==
  \/ n.kind = "value" /\ n.v \in Scalars \ {None, Error}
  \/ n.kind \in {"var", "pop"} /\ n.name \in Names
  \/ n.kind \in {"index", "push"} /\ n.name \in Names /\ n.e \in 1..(id - 1)
  \/ n.kind = "un" /\ n.op \in {"-", "not"} /\ n.e \in 1..(id - 1)
  \/ n.kind = "bin" /\ n.op \in {"+", "-", "%", "<", "and", "or"}
                   /\ n.l \in 1..(id - 1) /\ n.r \in 1..(id - 1)
  \/ n.kind = "call" /\ n.params \in Seq(Names) /\ n.args \in Seq(1..(id - 1))
                    /\ Len(n.args) = Len(n.params) /\ n.ret \in 1..(id - 1)

ASSUME NodeAssumption ==
  /\ Len(Node) \in Nat /\ Ids = 1..Len(Node)
  /\ \A id \in Ids : Formed(id, Node[id])

ASSUME StartAssumption ==
  /\ Start \in [Names -> Values]
  /\ \A x \in Names : Assignable[x] \subseteq Values \ {Error}
  /\ Roots \subseteq Ids

VARIABLES
  sym,      \* the symbol table
  cache,    \* jit_cache: an entry per node id
  val,      \* the value of the last statement
  refSym,   \* sym without the JIT
  refVal    \* val without the JIT

vars == <<sym, cache, val, refSym, refVal>>

IsNumber(a) == a.t \in {"int", "float"}
Twice(a) == IF a.t = "int" THEN 2 * a.v ELSE a.v
Truth(b) == Int1(IF b THEN 1 ELSE 0)

Quotient(a, b) ==
  IF (a < 0) = (b < 0) THEN (IF a < 0 THEN -a ELSE a) \div (IF b < 0 THEN -b ELSE b)
                       ELSE -((IF a < 0 THEN -a ELSE a) \div (IF b < 0 THEN -b ELSE b))

(* as_int() of a value: floats are truncated, anything else is parsed.     *)
IntOf(a) == IF a.t = "int" THEN a.v ELSE Quotient(a.v, 2)

-----------------------------------------------------------------------------
(* The operators on values, which the interpreter applies.                 *)
Sum(a, b) ==
  CASE "float" \in {a.t, b.t} ->
         IF IsNumber(a) /\ IsNumber(b) THEN Float2(Twice(a) + Twice(b)) ELSE Throw
    [] a.t = "int" /\ b.t = "int" -> Int1(a.v + b.v)
    [] a.t = "string" /\ b.t = "string" -> Text(a.n + b.n)
    [] OTHER -> Error

Difference(a, b) ==
  CASE "float" \in {a.t, b.t} ->
         IF IsNumber(a) /\ IsNumber(b) THEN Float2(Twice(a) - Twice(b)) ELSE Throw
    [] a.t = "int" /\ b.t = "int" -> Int1(a.v - b.v)
    [] OTHER -> Error

Remainder(a, b) ==
  IF a.t # "int" \/ b.t # "int" THEN Error
  ELSE IF b.v = 0 THEN Throw ELSE Int1(a.v - b.v * Quotient(a.v, b.v))

(* The letter of texts comes after the digits: two values that are not     *)
(* both numbers are compared as they are printed.                          *)
Less(a, b) ==
  IF IsNumber(a) /\ IsNumber(b) THEN Truth(Twice(a) < Twice(b))
  ELSE IF "float" \in {a.t, b.t} THEN Throw
  ELSE IF a.t = "string" /\ b.t = "string" THEN Truth(a.n < b.n)
  ELSE Truth(a.t = "int")

Apply(op, a, b) ==
  CASE op = "+" -> Sum(a, b)
    [] op = "-" -> Difference(a, b)
    [] op = "%" -> Remainder(a, b)
    [] OTHER -> Less(a, b)

Negated(a) ==
  CASE a.t = "float" -> Float2(-a.v)
    [] a.t = "int" -> Int1(-a.v)
    [] OTHER -> Throw

Inverted(a) ==
  CASE a.t = "float" -> Float2(IF a.v = 0 THEN 2 ELSE 0)
    [] a.t = "int" -> Truth(a.v = 0)
    [] OTHER -> Throw

(* ArrayValue::operator[]: positions count from 1.                         *)
At(s, p) == IF p \in DOMAIN s THEN s[p] ELSE Error

-----------------------------------------------------------------------------
(* compile_node(): the stack code of an expression.  A node that has no    *)
(* code makes the whole compilation fail.                                  *)
CodeOfNode(C, n) ==
  CASE n.kind = "value" -> IF IsNumber(n.v) THEN <<[op |-> "const", v |-> n.v]>>
                                            ELSE <<[op |-> "fail"]>>
    [] n.kind = "var" -> <<[op |-> "load", name |-> n.name]>>
    [] n.kind = "index" -> Append(C[n.e], [op |-> "loadarray", name |-> n.name])
    [] n.kind = "push" -> Append(C[n.e], [op |-> "push", name |-> n.name])
    [] n.kind = "pop" -> <<[op |-> "pop", name |-> n.name]>>
    [] n.kind = "bin" -> Append(C[n.l] \o C[n.r], [op |-> n.op])
    [] n.kind = "un" -> Append(C[n.e], [op |-> IF n.op = "-" THEN "neg" ELSE "not"])
    [] OTHER -> <<[op |-> "fail"]>>

CodesUpTo[k \in 0..Len(Node)] ==
  IF k = 0 THEN << >>
  ELSE LET C == CodesUpTo[k - 1] IN Append(C, CodeOfNode(C, Node[k]))

CodeOf == CodesUpTo[Len(Node)]

Compiles(id) == \A i \in DOMAIN CodeOf[id] : CodeOf[id][i].op # "fail"

(* A machine state: the operand stack of numbers, the symbol table, and    *)
(* the outcome, "run" while the code goes on.  "bail" is std::nullopt.     *)
Going == [t |-> "run"]
Bail == [t |-> "bail"]

Stop(m, outcome) == [m EXCEPT !.val = outcome]
Drop(m, k) == SubSeq(m.stack, 1, Len(m.stack) - k)
Top(m, k) == m.stack[Len(m.stack) - k]

(* A value read into the stack must be a number; an error ends the code    *)
(* with that error.                                                        *)
PushNumber(m, a) ==
  CASE a.t = "error" -> Stop(m, Error)
    [] IsNumber(a) -> [m EXCEPT !.stack = Append(@, a)]
    [] OTHER -> Stop(m, Bail)

WithArray(m, name, k(_)) ==
  CASE m.sym[name].t = "error" -> Stop(m, Error)
    [] m.sym[name].t = "array" -> k(m.sym[name].e)
    [] OTHER -> Stop(m, Bail)

LoadArray(m, name) ==
  IF m.stack = << >> \/ Top(m, 0).t = "float" THEN Stop(m, Bail)
  ELSE LET popped == [m EXCEPT !.stack = Drop(m, 1)]
           Read(s) == PushNumber(popped, At(s, Top(m, 0).v))
       IN  WithArray(m, name, Read)

(* Mutant: push leaves nothing on the operand stack.                       *)
PushArrayNoResult(m, name) ==
  IF m.stack = << >> THEN Stop(m, Bail)
  ELSE LET Grow(s) == [m EXCEPT !.sym[name] = Array(Append(s, Top(m, 0))),
                                !.stack = Drop(m, 1)]
       IN  WithArray(m, name, Grow)

PushArray(m, name) ==
  IF m.stack = << >> THEN Stop(m, Bail)
  ELSE LET Grow(s) == [m EXCEPT !.sym[name] = Array(Append(s, Top(m, 0)))]
       IN  WithArray(m, name, Grow)

(* The element is taken off the array before its type is looked at.        *)
PopArray(m, name) ==
  LET Shrink(s) == IF s = << >> THEN Stop(m, Error)
                   ELSE PushNumber([m EXCEPT !.sym[name] = Array(Front(s))], Last(s))
  IN  WithArray(m, name, Shrink)

(* Mutant: or is compiled like and.                                        *)
ArithmeticOrAsAnd(op, a, b) ==
  IF op \in {"and", "or"} THEN Truth(Twice(a) # 0 /\ Twice(b) # 0)
  ELSE IF op = "%" /\ "float" \in {a.t, b.t} THEN Bail ELSE Apply(op, a, b)

(* And and Or are strict here: both operands have been computed.           *)
Arithmetic(op, a, b) ==
  CASE op = "and" -> Truth(Twice(a) # 0 /\ Twice(b) # 0)
    [] op = "or" -> Truth(Twice(a) # 0 \/ Twice(b) # 0)
    [] op = "%" -> IF "float" \in {a.t, b.t} THEN Bail ELSE Remainder(a, b)
    [] OTHER -> Apply(op, a, b)

Binary(m, op) ==
  IF Len(m.stack) < 2 THEN Stop(m, Bail)
  ELSE LET r == Arithmetic(op, Top(m, 1), Top(m, 0))
       IN  IF IsNumber(r) THEN [m EXCEPT !.stack = Append(Drop(m, 2), r)] ELSE Stop(m, r)

Unary(m, f(_)) ==
  IF m.stack = << >> THEN Stop(m, Bail)
  ELSE [m EXCEPT !.stack = Append(Drop(m, 1), f(Top(m, 0)))]

Instruction(m, i) ==
  IF m.val # Going THEN m
  ELSE CASE i.op = "const" -> [m EXCEPT !.stack = Append(@, i.v)]
         [] i.op = "load" -> PushNumber(m, m.sym[i.name])
         [] i.op = "loadarray" -> LoadArray(m, i.name)
         [] i.op = "push" -> PushArray(m, i.name)
         [] i.op = "pop" -> PopArray(m, i.name)
         [] i.op = "neg" -> Unary(m, Negated)
         [] i.op = "not" -> Unary(m, Inverted)
         [] OTHER -> Binary(m, i.op)

(* JitProgram::execute().                                                  *)
Machine(code, symbols) ==
  LET Ran[i \in 0..Len(code)] ==
        IF i = 0 THEN [stack |-> << >>, sym |-> symbols, val |-> Going]
        ELSE Instruction(Ran[i - 1], code[i])
  IN  Ran[Len(code)]

Outcome(m) ==
  [sym |-> m.sym,
   val |-> IF m.val # Going THEN m.val ELSE IF Len(m.stack) = 1 THEN m.stack[1] ELSE Bail]

Execute(code, symbols) == Outcome(Machine(code, symbols))

-----------------------------------------------------------------------------
(* The interpreter.  Every operator takes a state [sym, cache] and returns *)
(* one with the value computed, [sym, cache, val].  V holds what the nodes *)
(* before this one do to a state.                                          *)
Entries == [hits : Nat, program : BOOLEAN, disabled : BOOLEAN]
States == [sym : [Names -> Values], cache : [Ids -> Entries]]

Fails(a) == a.t \in {"error", "throw", "nested"}

Result(s, a) == [sym |-> s.sym, cache |-> s.cache, val |-> a]

Cold == [hits |-> 0, program |-> FALSE, disabled |-> FALSE]

(* The entry of a node of an interpreter without the JIT.                  *)
Off == [Cold EXCEPT !.disabled = TRUE]

Visited(V, id, s) == V[id][[sym |-> s.sym, cache |-> s.cache]]

(* What follows a value, unless it is an error.                            *)
Then(r, k(_)) == IF Fails(r.val) THEN r ELSE k(r)

(* visit_bin_op(): and, or stop at a left operand that decides.  as_int()  *)
(* of a value that is no number throws.                                    *)
Decide(V, n, a) ==
  LET other(b) == Result(b, IF IsNumber(b.val) THEN Truth(IntOf(b.val) # 0) ELSE Throw)
  IN  IF ~IsNumber(a.val) THEN Result(a, Throw)
      ELSE IF (IntOf(a.val) # 0) = (n.op = "or") THEN Result(a, Truth(n.op = "or"))
      ELSE Then(Visited(V, n.r, a), other)

VisitLogic(V, n, s) ==
  Then(Visited(V, n.l, s), LAMBDA a : Decide(V, n, a))

VisitBinary(V, n, s) ==
  Then(Visited(V, n.l, s),
       LAMBDA a : Then(Visited(V, n.r, a), LAMBDA b : Result(b, Apply(n.op, a.val, b.val))))

VisitUnary(V, n, s) ==
  Then(Visited(V, n.e, s),
       LAMBDA a : Result(a, IF n.op = "-" THEN Negated(a.val) ELSE Inverted(a.val)))

(* visit_array_access(): an index that is an error is not looked at before *)
(* as_int() is asked of it.                                                *)
Element(n, i) ==
  LET a == i.sym[n.name]
  IN  IF a.t \notin {"array", "string"} THEN Result(i, Error)
      ELSE IF ~IsNumber(i.val) THEN Result(i, Throw)
      ELSE IF a.t = "array" THEN Result(i, At(a.e, IntOf(i.val)))
      ELSE Result(i, IF IntOf(i.val) \in 1..a.n THEN Text(1) ELSE Error)

VisitIndex(V, n, s) ==
  LET i == Visited(V, n.e, s)
  IN  IF i.val \in {Throw, Nested} THEN i ELSE Element(n, i)

(* try_visit_array_method_call(): the array is looked up before the        *)
(* argument is visited, and grows after it.                                *)
Grown(n, a) ==
  IF a.val.t = "array" THEN Result(a, Nested) ELSE [a EXCEPT !.sym[n.name].e = Append(@, a.val)]

VisitPush(V, n, s) ==
  IF s.sym[n.name].t # "array" THEN Result(s, Error)
  ELSE Then(Visited(V, n.e, s), LAMBDA a : Grown(n, a))

VisitPop(n, s) ==
  IF s.sym[n.name].t # "array" THEN Result(s, Error)
  ELSE IF s.sym[n.name].e = << >> THEN Result(s, None)
  ELSE Result([s EXCEPT !.sym[n.name].e = Front(@)], Last(s.sym[n.name].e))

(* SymbolTable: the names of a callee's scope hide those of the caller     *)
(* until it is gone.                                                       *)
Unbind(n, s, r) ==
  [r EXCEPT !.sym = [x \in Names |-> IF x \in Range(n.params) THEN s.sym[x] ELSE @[x]]]

(* set_args(): each argument is visited in the callee's scope and bound    *)
(* before the next one.                                                    *)
BindArg(V, n, i, r) ==
  Then(r, LAMBDA c : Then(Visited(V, n.args[i], c),
                          LAMBDA a : [a EXCEPT !.sym[n.params[i]] = a.val]))

BindArgs(V, n, s) ==
  LET Bound[i \in 0..Len(n.args)] ==
        IF i = 0 THEN Result(s, None) ELSE BindArg(V, n, i, Bound[i - 1])
  IN  Bound[Len(n.args)]

(* is_pure_numeric_node(), of a compiled expression.                       *)
PureNumeric(id, params) ==
  Compiles(id) /\ \A i \in DOMAIN CodeOf[id] :
    LET c == CodeOf[id][i]
    IN  c.op \notin {"loadarray", "push", "pop"} /\ (c.op = "load" => c.name \in params)

(* Where compiled code gives up, there is no value, and the interpreter    *)
(* starts from the symbol table that the code left behind.                 *)
OrElse(r, k(_)) == IF r.val = Bail THEN k(r) ELSE r

(* AlgoValue::execute() of an algorithm whose body is `return e`: code of  *)
(* its own, from the first call on, where e is made of the parameters.     *)
QuickReturn(n, s) ==
  IF s.cache[n.ret] # Off /\ PureNumeric(n.ret, Range(n.params))
  THEN Result(s, Execute(CodeOf[n.ret], s.sym).val) ELSE Result(s, Bail)

VisitCall(V, n, s) ==
  Unbind(n, s, Then(BindArgs(V, n, s),
                    LAMBDA b : OrElse(QuickReturn(n, b), LAMBDA r : Visited(V, n.ret, r))))

(* The interpreter's own rule for a node, after try_visit_jit() declined.  *)
Interpret(V, n, s) ==
  CASE n.kind = "value" -> Result(s, n.v)
    [] n.kind = "var" -> Result(s, s.sym[n.name])
    [] n.kind = "call" -> VisitCall(V, n, s)
    [] n.kind = "index" -> VisitIndex(V, n, s)
    [] n.kind = "push" -> VisitPush(V, n, s)
    [] n.kind = "pop" -> VisitPop(n, s)
    [] n.kind = "un" -> VisitUnary(V, n, s)
    [] n.kind = "bin" -> IF n.op \in {"and", "or"} THEN VisitLogic(V, n, s)
                                                   ELSE VisitBinary(V, n, s)

(* is_jit_root()                                                           *)
JitRoot(id) == Node[id].kind \in {"bin", "un", "push", "pop", "call"}

(* The entry of a node after a visit: settled at the threshold, one way or *)
(* the other.                                                              *)
Counted(id, e) ==
  LET hot == e.hits + 1 = HotThreshold
  IN  IF e.program \/ e.disabled THEN e
      ELSE [hits |-> e.hits + 1, program |-> hot /\ Compiles(id),
            disabled |-> hot /\ ~Compiles(id)]

(* A compiled node runs its code; otherwise there is no value.             *)
RunCode(s, r) == [s EXCEPT !.sym = r.sym, !.val = r.val]

RunIfCompiled(id, s) ==
  IF s.cache[id].program THEN RunCode(s, Execute(CodeOf[id], s.sym)) ELSE s

TryJit(id, s) ==
  IF ~JitRoot(id) THEN Result(s, Bail)
  ELSE RunIfCompiled(id, Result([s EXCEPT !.cache[id] = Counted(id, @)], Bail))

VisitNode(V, id, s) == OrElse(TryJit(id, s), LAMBDA r : Interpret(V, Node[id], r))

VisitsUpTo[k \in 0..Len(Node)] ==
  IF k = 0 THEN << >>
  ELSE LET V == VisitsUpTo[k - 1] IN Append(V, [s \in States |-> VisitNode(V, k, s)])

Visits == VisitsUpTo[Len(Node)]

Visit(id, s) == Visited(Visits, id, s)

-----------------------------------------------------------------------------
NeverHot == [id \in Ids |-> Off]

Init ==
  /\ sym = Start
  /\ cache = [id \in Ids |-> Cold]
  /\ val = None
  /\ refSym = Start
  /\ refVal = None

Running == ~Fails(val) /\ ~Fails(refVal)

Short(symbols) == \A x \in Names : symbols[x].t = "array" => Len(symbols[x].e) <= MaxLen

Fits(r) == r.val # Nested /\ Short(r.sym)

NonEmpty(symbols) == \A x \in Names : symbols[x].t = "array" => symbols[x].e # << >>

(* The program evaluates an expression statement.                          *)
Evaluate(id) ==
  /\ Running
  /\ id \in Guarded => NonEmpty(sym)
  /\ \E hot \in {Visit(id, [sym |-> sym, cache |-> cache])},
        cold \in {Visit(id, [sym |-> refSym, cache |-> NeverHot])} :
       /\ Fits(hot) /\ Fits(cold)
       /\ sym' = hot.sym /\ cache' = hot.cache /\ val' = hot.val
       /\ refSym' = cold.sym /\ refVal' = cold.val

(* The program assigns a variable: x <- a literal.                         *)
Assign(x) ==
  /\ Running
  /\ \E a \in Assignable[x] :
       /\ sym' = [sym EXCEPT ![x] = a] /\ val' = a
       /\ refSym' = [refSym EXCEPT ![x] = a] /\ refVal' = a
  /\ UNCHANGED cache

Next ==
  \/ \E id \in Roots : Evaluate(id)
  \/ \E x \in Names : Assign(x)

Spec == Init /\ [][Next]_vars

-----------------------------------------------------------------------------
(* Counters stop at the threshold, where an entry is settled one way; the  *)
(* symbol table holds values.                                              *)
TypeOK ==
  /\ sym \in [Names -> Values] /\ refSym \in [Names -> Values]
  /\ \A id \in Ids :
       /\ cache[id].hits \in 0..HotThreshold
       /\ cache[id].hits = HotThreshold <=> cache[id].program \/ cache[id].disabled
       /\ ~(cache[id].program /\ cache[id].disabled)

(* A program computes the same values and leaves the same variables and    *)
(* arrays as it would without the JIT, whichever of its nested expressions *)
(* are hot at the time, and whatever types its variables take meanwhile.   *)
(* It ends with its first error, and nothing reads the variables then.     *)
TiersAgree == val = refVal /\ (~Fails(val) => sym = refSym)

(* The compiler and the machine agree on the operand stack: code that runs *)
(* to its end leaves exactly one number, and no instruction finds fewer    *)
(* operands than it needs, whatever the symbol table holds.                *)
StackBalanced ==
  \A id \in Roots :
    Compiles(id) => LET m == Machine(CodeOf[id], sym)
                    IN  m.val = Going => Len(m.stack) = 1

(* Counters and entries are settled, and the code that the entries hold is *)
(* balanced in every symbol table the program reaches.                     *)
MachineSound == TypeOK /\ StackBalanced

(* src/lsp.cpp:473: pop() removes and returns the last item of an array.   *)
PopTakesOne ==
  [][\A id \in Roots :
       Evaluate(id) /\ Node[id].kind = "pop" /\ sym[Node[id].name].e # << >>
         => /\ val' = Last(sym[Node[id].name].e)
            /\ sym'[Node[id].name].e = Front(sym[Node[id].name].e)]_vars
=============================================================================
