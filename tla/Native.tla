------------------------------- MODULE Native -------------------------------
(***************************************************************************)
(* The variables that the compiler keeps in registers.  While it walks the *)
(* program it remembers which variables have a native slot, which slots    *)
(* are newer than the variable of the scope, and which variables hold      *)
(* arrays it may read as integers.  What it emits for a statement depends  *)
(* on that memory; control structures and calls make it flush or forget.   *)
(*                                                                         *)
(* The compiler and the program that it emits move together, one statement *)
(* at a time, beside an interpreter that runs the same statements: the     *)
(* model follows one path through the program.  Branches that are not      *)
(* taken, and the bodies of algorithms, are compiled and not run.          *)
(***************************************************************************)
EXTENDS Naturals, Sequences, SequencesExt

CONSTANTS
  Variables,       \* the variables of the program
  MaxInt,      \* bound: the integers
  MaxArrays,   \* bound: the arrays that variables hold at a time
  MaxSize,     \* bound: the length of an array
  Floats,      \* may an array get a float once it is there
  EmptyLoops,  \* may a for-loop run no iteration
  Algorithms,  \* where the program defines algorithms: "plain" where the compiler
               \* remembers nothing, with a body that has nothing to remember
  Effects      \* may the right operand of and, or write: a slot back, or an array

ASSUME NativeAssumption ==
  /\ MaxInt \in Nat \ {0} /\ MaxArrays \in Nat /\ MaxSize \in Nat
  /\ Floats \in BOOLEAN /\ EmptyLoops \in BOOLEAN
  /\ Algorithms \in {"plain", "anywhere"} /\ Effects \in BOOLEAN

VARIABLES
  owner,    \* the function that has the slot of a variable, "none" for no slot
  dirty,    \* the slots newer than the variable of the scope
  known,    \* known_arrays
  numeric,  \* numeric_arrays
  fn,       \* the function the compiler is in
  enabled,  \* native_i64_enabled: false in a control structure
  foreign,  \* code was emitted that touches a slot of another function
  slot, scope, heap,  \* the compiled program: slots, the scope, arrays
  var, objs,          \* the interpreter: the scope, arrays
  loop,     \* the native for-loop that runs
  calling   \* an algorithm runs that was compiled before

compiler == <<owner, dirty, known, numeric, fn, enabled, foreign>>
program == <<slot, scope, heap>>
interpreter == <<var, objs>>
nativeVars == <<compiler, program, interpreter, loop, calling>>

(* Values.  The tags keep integers, floats, arrays and nothing apart.      *)
Integer(k) == <<"int", k>>
Half == <<"float", 0>>
Undefined == <<"undefined", 0>>
Array(id) == <<"array", id>>
Ids == 1..MaxArrays
Elements == { Integer(k) : k \in 0..MaxInt } \union {Half}
ScopeValues == Elements \union {Undefined} \union { Array(id) : id \in Ids }

(* as_int(): a float loses its fraction.                                   *)
AsInt(v) == IF v[1] = "int" THEN v[2] ELSE 0

(* Expressions: a literal, a variable, its successor, its first element,   *)
(* and what pop() takes off it.                                            *)
Expr(op, name, k) == [op |-> op, name |-> name, k |-> k]
Exprs ==
  { Expr("int", "none", k) : k \in 0..1 } \union {Expr("half", "none", 0)}
    \union { Expr(op, n, 0) : op \in {"var", "inc", "elem", "pop"}, n \in Variables }

NoLoop == [var |-> "none", to |-> 0, op |-> "none", name |-> "none",
           expr |-> Expr("int", "none", 0)]

NativeInit ==
  /\ owner = [n \in Variables |-> "none"]
  /\ dirty = {} /\ known = {} /\ numeric = {}
  /\ fn = "main" /\ enabled = TRUE /\ foreign = FALSE
  /\ slot = [n \in Variables |-> 0]
  /\ scope = [n \in Variables |-> Undefined] /\ heap = [id \in Ids |-> << >>]
  /\ var = [n \in Variables |-> Undefined] /\ objs = [id \in Ids |-> << >>]
  /\ loop = NoLoop /\ calling = FALSE

Native == { n \in Variables : owner[n] # "none" }

-----------------------------------------------------------------------------
(* What the compiler can emit as integer code.                             *)
(* Mutant: a variable that holds a known array is read as integers.        *)
AnyKnownArray(e) ==
  /\ enabled
  /\ \/ e.op = "int"
     \/ e.op \in {"var", "inc"} /\ e.name \in Native
     \/ e.op \in {"elem", "pop"} /\ e.name \in known

can_i64_expr(e) ==
  /\ enabled
  /\ \/ e.op = "int"
     \/ e.op \in {"var", "inc"} /\ e.name \in Native
     \/ e.op = "elem" /\ e.name \in numeric
     \/ e.op = "pop" /\ e.name \in numeric \intersect known

(* The variables whose slots, if they have one, the code of an expression  *)
(* loads: integer code looks an array up in the scope, other code (gen())  *)
(* loads the slot of any variable.                                         *)
Loads(e) == IF e.op \in {"var", "inc"} THEN {e.name} ELSE {}
Reads(e) == IF e.op = "pop" /\ can_i64_expr(e) THEN {} ELSE {e.name}

(* Code that touches these slots is emitted in the current function.       *)
Emits(names) ==
  foreign' = (foreign \/ \E n \in names \intersect Native : owner[n] # fn)

(* The slot of a variable, a new one in the current function if it has none*)
Ensured(n) == [owner EXCEPT ![n] = IF @ = "none" THEN fn ELSE @]

-----------------------------------------------------------------------------
(* What an expression is: in the interpreter, and as the code emitted for  *)
(* it computes it.  elem and pop read the array of a variable of the scope.*)
Value(e, env, arrays) ==
  CASE e.op = "int"  -> Integer(e.k)
    [] e.op = "half" -> Half
    [] e.op = "var"  -> env[e.name]
    [] e.op = "inc"  -> Integer(env[e.name][2] + 1)
    [] e.op = "elem" -> Head(arrays[env[e.name][2]])
    [] e.op = "pop"  -> Last(arrays[env[e.name][2]])

(* What a variable is to the code emitted now.                             *)
View == [n \in Variables |-> IF n \in Native THEN Integer(slot[n]) ELSE scope[n]]

(* Integer code: it looks an array up in the scope, and what it reads from *)
(* an array becomes an integer.                                            *)
NativeValue(e) == AsInt(Value(e, IF e.op \in {"elem", "pop"} THEN scope ELSE View, heap))

(* pop() shortens the array.                                               *)
After(e, env, arrays) ==
  IF e.op = "pop" THEN [arrays EXCEPT ![env[e.name][2]] = Front(@)] ELSE arrays

(* pop() is a call, but for integer code: the slots are written back.      *)
Calls(e) == e.op = "pop" /\ ~can_i64_expr(e)

(* flush_native_vars()                                                     *)
Flushed == [n \in Variables |-> IF n \in dirty THEN Integer(slot[n]) ELSE scope[n]]

HasArray(n, env) == env[n][1] = "array"

(* The program is right, and the integers it makes are in the bound.       *)
Right(e) ==
  CASE e.op \in {"int", "half"} -> TRUE
    [] e.op = "var" -> var[e.name] # Undefined
    [] e.op = "inc" -> var[e.name][1] = "int" /\ var[e.name][2] < MaxInt
    [] OTHER -> HasArray(e.name, var) /\ objs[var[e.name][2]] # << >>

(* An element of an array, and one that an array may get later.            *)
Element(e) == Right(e) /\ Value(e, var, objs) \in Elements
Stored(e) == Element(e) /\ (~Floats => Value(e, var, objs) # Half)

(* Statements of main run; in a control structure they may be skipped.     *)
Runs == IF fn # "main" THEN {FALSE} ELSE IF enabled THEN {TRUE} ELSE BOOLEAN

Between == loop = NoLoop /\ ~calling

(* A statement that the compiler remembers something of.                   *)
Memorable == Between /\ (Algorithms = "plain" => fn = "main" \/ ~enabled)

-----------------------------------------------------------------------------
(* gen_var_assign() with an integer expression.                            *)
AssignNative(n, e) ==
  /\ Memorable /\ can_i64_expr(e)
  /\ owner' = Ensured(n) /\ dirty' = dirty \union {n}
  /\ known' = known \ {n} /\ numeric' = numeric \ {n}
  /\ Emits(Loads(e) \union {n})
  /\ \E runs \in Runs :
       IF runs
       THEN /\ Right(e)
            /\ slot' = [slot EXCEPT ![n] = NativeValue(e)]
            /\ heap' = After(e, scope, heap)
            /\ var' = [var EXCEPT ![n] = Value(e, var, objs)]
            /\ objs' = After(e, var, objs)
       ELSE UNCHANGED <<slot, heap, interpreter>>
  /\ UNCHANGED <<fn, enabled, scope, loop, calling>>

(* gen_var_assign() with any other: rt_set_var().                          *)
AssignGeneric(n, e) ==
  /\ Between /\ ~can_i64_expr(e)
  /\ owner' = [owner EXCEPT ![n] = "none"]
  /\ dirty' = (IF Calls(e) THEN {} ELSE dirty) \ {n}
  /\ known' = known \ {n} /\ numeric' = numeric \ {n}
  /\ Emits(Reads(e) \union IF Calls(e) THEN dirty ELSE {})
  /\ \E runs \in Runs :
       IF runs
       THEN /\ Right(e)
            /\ scope' = [(IF Calls(e) THEN Flushed ELSE scope) EXCEPT ![n] = Value(e, View, heap)]
            /\ heap' = After(e, View, heap)
            /\ var' = [var EXCEPT ![n] = Value(e, var, objs)]
            /\ objs' = After(e, var, objs)
       ELSE UNCHANGED <<scope, heap, interpreter>>
  /\ slot' = [slot EXCEPT ![n] = 0]
  /\ UNCHANGED <<fn, enabled, loop, calling>>

(* n <- l op r, where op is and, or: 0 or 1.                               *)
LeftOperands == { e \in Exprs : e.op \in {"int", "var"} }
RightOperands == { e \in Exprs : e.op \in {"var", "pop"} }

Logical(op, v, w) ==
  LET Holds(x) == AsInt(x) # 0
  IN  Integer(IF (op = "and" /\ Holds(v) /\ Holds(w)) \/ (op = "or" /\ (Holds(v) \/ Holds(w)))
              THEN 1 ELSE 0)

(* The left operand decides, and the right one is not asked for.           *)
Decided(op, v) == (op = "or") = (AsInt(v) # 0)

(* What the interpreter makes of it.                                       *)
RightLogical(op, l, r) ==
  Element(l) /\ (Decided(op, Value(l, var, objs)) \/ Element(r))

Interpreted(n, op, l, r) ==
  LET v == Value(l, var, objs)
  IN  /\ var' = [var EXCEPT ![n] = Logical(op, v, Value(r, var, objs))]
      /\ objs' = IF Decided(op, v) THEN objs ELSE After(r, var, objs)

(* Integer code has no jump: it evaluates both, and both have to be right. *)
AssignLogical(n, op, l, r) ==
  /\ Memorable /\ can_i64_expr(l) /\ can_i64_expr(r)
  /\ Effects \/ r.op # "pop"
  /\ owner' = Ensured(n) /\ dirty' = dirty \union {n}
  /\ known' = known \ {n} /\ numeric' = numeric \ {n}
  /\ Emits(Loads(l) \union Loads(r) \union {n})
  /\ \E runs \in Runs :
       IF runs
       THEN /\ Right(l) /\ Right(r)
            /\ slot' = [slot EXCEPT ![n] =
                 Logical(op, Integer(NativeValue(l)), Integer(NativeValue(r)))[2]]
            /\ heap' = After(r, scope, heap)
            /\ Interpreted(n, op, l, r)
       ELSE UNCHANGED <<slot, heap, interpreter>>
  /\ UNCHANGED <<fn, enabled, scope, loop, calling>>

(* gen_short_circuit(): the right operand has a block of its own, and what *)
(* is written back there, is on that path only; the compiler takes it for  *)
(* written on both.                                                        *)
ShortCircuit(n, op, l, r) ==
  /\ Between /\ ~(can_i64_expr(l) /\ can_i64_expr(r))
  /\ Effects \/ ~Calls(r) \/ dirty = {}
  /\ owner' = [owner EXCEPT ![n] = "none"]
  /\ dirty' = (IF Calls(r) THEN {} ELSE dirty) \ {n}
  /\ known' = known \ {n} /\ numeric' = numeric \ {n}
  /\ Emits(Reads(l) \union Reads(r) \union IF Calls(r) THEN dirty ELSE {})
  /\ \E runs \in Runs :
       IF runs
       THEN LET v == Value(l, View, heap)
                written == Calls(r) /\ ~Decided(op, v)
            IN  /\ RightLogical(op, l, r)
                /\ scope' = [(IF written THEN Flushed ELSE scope)
                               EXCEPT ![n] = Logical(op, v, Value(r, View, heap))]
                /\ heap' = IF Decided(op, v) THEN heap ELSE After(r, View, heap)
                /\ Interpreted(n, op, l, r)
       ELSE UNCHANGED <<scope, heap, interpreter>>
  /\ slot' = [slot EXCEPT ![n] = 0]
  /\ UNCHANGED <<fn, enabled, loop, calling>>

(* An array literal: the empty one, or one element.  It is judged when the *)
(* slot of the variable that gets it is gone.                              *)
Unused == { id \in Ids : \A n \in Variables : var[n] # Array(id) }
Made(es, env, arrays) == [k \in DOMAIN es |-> Value(es[k], env, arrays)]

AssignArray(n, es) ==
  /\ Memorable
  /\ owner' = [owner EXCEPT ![n] = "none"] /\ dirty' = dirty \ {n}
  /\ known' = known \union {n}
  /\ numeric' = IF \A k \in DOMAIN es : can_i64_expr(es[k]) /\ n \notin Loads(es[k])
                THEN numeric \union {n} ELSE numeric \ {n}
  /\ Emits(UNION { Reads(es[k]) : k \in DOMAIN es })
  /\ \E runs \in Runs :
       IF runs
       THEN /\ \A k \in DOMAIN es : Element(es[k])
            /\ \E id \in Unused :
                 /\ scope' = [scope EXCEPT ![n] = Array(id)]
                 /\ heap' = [heap EXCEPT ![id] = Made(es, View, heap)]
                 /\ var' = [var EXCEPT ![n] = Array(id)]
                 /\ objs' = [objs EXCEPT ![id] = Made(es, var, objs)]
       ELSE UNCHANGED <<scope, heap, interpreter>>
  /\ slot' = [slot EXCEPT ![n] = 0]
  /\ UNCHANGED <<fn, enabled, loop, calling>>

(* a[1] <- e.  The compiler does not look at what is stored.               *)
Store(a, e) ==
  /\ Between /\ e.op # "pop"
  /\ Emits(Reads(e) \union {a})
  /\ \E runs \in Runs :
       IF runs
       THEN /\ HasArray(a, var) /\ objs[var[a][2]] # << >> /\ Stored(e)
            /\ heap' = [heap EXCEPT ![View[a][2]][1] = Value(e, View, heap)]
            /\ objs' = [objs EXCEPT ![var[a][2]][1] = Value(e, var, objs)]
       ELSE UNCHANGED <<heap, objs>>
  /\ UNCHANGED <<owner, dirty, known, numeric, fn, enabled, slot, scope, var, loop, calling>>

Pushed(a, env, arrays, v) == [arrays EXCEPT ![env[a][2]] = Append(@, v)]
Room(a) == HasArray(a, var) /\ Len(objs[var[a][2]]) < MaxSize

(* a.push(e) on a known array with an integer: rt_array_push_i64().        *)
PushNative(a, e) ==
  /\ Between /\ a \in known /\ can_i64_expr(e) /\ e.op # "pop"
  /\ Emits(Loads(e))
  /\ \E runs \in Runs :
       IF runs
       THEN /\ Room(a) /\ Stored(e)
            /\ heap' = Pushed(a, scope, heap, Integer(NativeValue(e)))
            /\ objs' = Pushed(a, var, objs, Value(e, var, objs))
       ELSE UNCHANGED <<heap, objs>>
  /\ UNCHANGED <<owner, dirty, known, numeric, fn, enabled, slot, scope, var, loop, calling>>

(* Any other push: a call of the runtime.                                  *)
PushGeneric(a, e) ==
  /\ Between /\ ~(a \in known /\ can_i64_expr(e)) /\ e.op # "pop"
  /\ numeric' = IF a \in known /\ ~can_i64_expr(e) THEN numeric \ {a} ELSE numeric
  /\ dirty' = {}
  /\ Emits(dirty \union Reads(e) \union {a})
  /\ \E runs \in Runs :
       IF runs
       THEN /\ Room(a) /\ Stored(e)
            /\ scope' = Flushed
            /\ heap' = Pushed(a, View, heap, Value(e, View, heap))
            /\ objs' = Pushed(a, var, objs, Value(e, var, objs))
       ELSE UNCHANGED <<scope, heap, objs>>
  /\ UNCHANGED <<owner, known, fn, enabled, slot, var, loop, calling>>

-----------------------------------------------------------------------------
(* Mutant: a call does not flush.                                          *)
CallUnflushed ==
  /\ Between /\ fn = "main"
  /\ calling' = TRUE
  /\ UNCHANGED <<compiler, program, interpreter, loop>>

(* A call of an algorithm.  What it reads of its caller's variables, it    *)
(* reads in the scope.                                                     *)
CallAlgorithm ==
  /\ Between /\ fn = "main"
  /\ dirty' = {} /\ Emits(dirty) /\ scope' = Flushed
  /\ calling' = TRUE
  /\ UNCHANGED <<owner, known, numeric, fn, enabled, slot, heap, interpreter, loop>>

(* The algorithm gets an array and pushes on it.                           *)
CalleePush(a, v) ==
  /\ calling /\ Room(a) /\ (~Floats => v # Half)
  /\ heap' = Pushed(a, scope, heap, v)
  /\ objs' = Pushed(a, var, objs, v)
  /\ UNCHANGED <<compiler, slot, scope, var, loop, calling>>

AlgorithmReturns ==
  /\ calling /\ calling' = FALSE
  /\ UNCHANGED <<compiler, program, interpreter, loop>>

-----------------------------------------------------------------------------
Forgets ==
  /\ owner' = [n \in Variables |-> "none"] /\ dirty' = {}
  /\ known' = {} /\ numeric' = {}
  /\ slot' = [n \in Variables |-> 0]

(* Mutant: a control structure flushes and forgets nothing.                *)
EnterRemembers ==
  /\ Between /\ enabled
  /\ dirty' = {} /\ Emits(dirty)
  /\ scope' = IF fn = "main" THEN Flushed ELSE scope
  /\ enabled' = FALSE
  /\ UNCHANGED <<owner, known, numeric, fn, slot, heap, interpreter, loop, calling>>

(* An if, a loop that has no native form: everything is in the scope.      *)
EnterControl ==
  /\ Between /\ enabled
  /\ Forgets /\ Emits(dirty)
  /\ scope' = IF fn = "main" THEN Flushed ELSE scope
  /\ enabled' = FALSE
  /\ UNCHANGED <<fn, heap, interpreter, loop, calling>>

LeaveControl ==
  /\ Between /\ ~enabled
  /\ Forgets
  /\ enabled' = TRUE
  /\ UNCHANGED <<fn, foreign, scope, heap, interpreter, loop, calling>>

-----------------------------------------------------------------------------
(* for i <- 1 to k with one statement in the body.  The loop variable is   *)
(* native when the body is looked at.                                      *)
ReadsLoopVariable(i, e) == e.op \in {"var", "inc"} /\ e.name = i

can_native_for(i, op, name, e) ==
  /\ enabled /\ (can_i64_expr(e) \/ ReadsLoopVariable(i, e))
  /\ CASE op = "assign" -> name # i
       [] op = "push"   -> name \in known
       [] op = "store"  -> name \in known

(* gen_native_for().  A variable that only the body assigns gets a slot    *)
(* that nothing has set.  known_arrays forgets it, numeric_arrays does not.*)
For(i, k, op, name, e) ==
  /\ Between /\ fn = "main" /\ can_native_for(i, op, name, e) /\ e.op # "pop"
  /\ \E any \in 0..MaxInt :
       slot' = [n \in Variables |-> IF n = i THEN 1
                                ELSE IF op = "assign" /\ n = name /\ n \notin Native THEN any
                                ELSE slot[n]]
  /\ owner' = [n \in Variables |-> IF (n = i \/ (op = "assign" /\ n = name)) /\ owner[n] = "none"
                               THEN fn ELSE owner[n]]
  /\ dirty' = dirty \union {i} \union (IF op = "assign" THEN {name} ELSE {})
  /\ known' = IF op = "assign" THEN known \ {name} ELSE known
  /\ Emits({i} \union Loads(e) \union IF op = "assign" THEN {name} ELSE {})
  /\ var' = [var EXCEPT ![i] = Integer(1)]
  /\ loop' = [var |-> i, to |-> k, op |-> op, name |-> name, expr |-> e]
  /\ UNCHANGED <<numeric, fn, enabled, scope, heap, objs, calling>>

(* One iteration, of the code as it was emitted.                           *)
Iterate ==
  /\ loop # NoLoop /\ slot[loop.var] <= loop.to
  /\ LET e == loop.expr
         i == loop.var
         next == Integer(slot[i] + 1)
     IN  /\ Right(e)
         /\ CASE loop.op = "assign" ->
                   /\ slot' = [slot EXCEPT ![loop.name] = NativeValue(e), ![i] = @ + 1]
                   /\ var' = [var EXCEPT ![loop.name] = Value(e, var, objs), ![i] = next]
                   /\ UNCHANGED <<heap, objs>>
              [] loop.op = "push" ->
                   /\ Room(loop.name)
                   /\ slot' = [slot EXCEPT ![i] = @ + 1]
                   /\ heap' = Pushed(loop.name, scope, heap, Integer(NativeValue(e)))
                   /\ var' = [var EXCEPT ![i] = next]
                   /\ objs' = Pushed(loop.name, var, objs, Value(e, var, objs))
              [] loop.op = "store" ->
                   /\ HasArray(loop.name, var) /\ objs[var[loop.name][2]] # << >>
                   /\ slot' = [slot EXCEPT ![i] = @ + 1]
                   /\ heap' = [heap EXCEPT ![scope[loop.name][2]][1] = Integer(NativeValue(e))]
                   /\ var' = [var EXCEPT ![i] = next]
                   /\ objs' = [objs EXCEPT ![var[loop.name][2]][1] = Value(e, var, objs)]
  /\ UNCHANGED <<compiler, scope, loop, calling>>

NativeForEnds ==
  /\ loop # NoLoop /\ slot[loop.var] > loop.to
  /\ loop' = NoLoop
  /\ UNCHANGED <<compiler, program, interpreter, calling>>

-----------------------------------------------------------------------------
(* emit_algo_function(): the body is compiled where the algorithm is       *)
(* defined, with what the compiler remembers.  (A definition inside a      *)
(* control structure is compiled as everything there is, and left out.)    *)
Define ==
  /\ Between /\ fn = "main" /\ enabled
  /\ Algorithms = "plain" => Native = {} /\ known = {} /\ numeric = {}
  /\ fn' = "algo"
  /\ UNCHANGED <<owner, dirty, known, numeric, enabled, foreign,
                 program, interpreter, loop, calling>>

Defined ==
  /\ Between /\ fn = "algo" /\ enabled
  /\ fn' = "main"
  /\ UNCHANGED <<owner, dirty, known, numeric, enabled, foreign,
                 program, interpreter, loop, calling>>

NativeNext ==
  \/ \E n \in Variables, e \in Exprs :
       AssignNative(n, e) \/ AssignGeneric(n, e) \/ Store(n, e) \/ PushNative(n, e) \/ PushGeneric(n, e)
  \/ \E n \in Variables, es \in { << >> } \union { <<e>> : e \in Exprs \ { x \in Exprs : x.op = "pop" } } :
       AssignArray(n, es)
  \/ \E n \in Variables, op \in {"and", "or"}, l \in LeftOperands, r \in RightOperands :
       AssignLogical(n, op, l, r) \/ ShortCircuit(n, op, l, r)
  \/ CallAlgorithm \/ AlgorithmReturns
  \/ \E n \in Variables, v \in Elements : CalleePush(n, v)
  \/ EnterControl \/ LeaveControl
  \/ \E i, n \in Variables, k \in (IF EmptyLoops THEN 0 ELSE 1)..(MaxInt - 1),
        op \in {"assign", "push", "store"}, e \in Exprs : For(i, k, op, n, e)
  \/ Iterate \/ NativeForEnds
  \/ Define \/ Defined

NativeSpec == NativeInit /\ [][NativeNext]_nativeVars

-----------------------------------------------------------------------------
NativeTypeOK ==
  /\ owner \in [Variables -> {"none", "main", "algo"}]
  /\ dirty \subseteq Native
  /\ known \subseteq Variables /\ numeric \subseteq Variables
  /\ slot \in [Variables -> 0..MaxInt]
  /\ scope \in [Variables -> ScopeValues] /\ var \in [Variables -> ScopeValues]
  /\ heap \in [Ids -> Seq(Elements)] /\ objs \in [Ids -> Seq(Elements)]

(* Between two statements the compiled program's variables and arrays are  *)
(* the interpreter's, and an algorithm that is called finds in the scope   *)
(* what the interpreter's finds there.                                     *)
SameValues ==
  /\ Between => View = var /\ heap = objs
  /\ calling => scope = var

(* No function touches a slot of another.                                  *)
OwnSlots == ~foreign

(* What is emitted does not depend on the path that leads there: in a      *)
(* control structure no variable has a slot, and a slot that is taken for  *)
(* written back is, whether or not the operand was evaluated whose call    *)
(* wrote it.  No function touches a slot of another: a program that        *)
(* defines algorithms anywhere can break that.                             *)
PathFree ==
  /\ NativeTypeOK /\ OwnSlots
  /\ ~enabled => Native = {}
  /\ \A n \in Native \ dirty : scope[n] = Integer(slot[n])
=============================================================================
