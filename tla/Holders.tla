------------------------------- MODULE Holders -------------------------------
(***************************************************************************)
(* Who holds an object.  Texts and instances are shared: variables,        *)
(* members, values on their way from one statement to another and, in a    *)
(* compiled program, the frames of the arena hold them.  Two things depend *)
(* on the number of holders, the use count: s <- s + t appends to the text *)
(* itself when the variable is the only one, and a scope that ends calls   *)
(* the destructor of an instance that nobody else holds.                   *)
(*                                                                         *)
(* One program is run by the interpreter and compiled, in lock step.  They *)
(* hold objects for different times, so the use counts differ, and the     *)
(* appending in place exists only in the interpreter.  A destructor reads  *)
(* its object and assigns nothing.                                         *)
(***************************************************************************)
EXTENDS Integers, Sequences, FiniteSetsExt, SequencesExt, TLC

CONSTANTS
  Idents,      \* variables; the parameter of every algorithm is Parameter
  Parameter,
  Programs,    \* sets of statements, run in any order
  MaxObjects,  \* bound: objects alive at a time, in either run
  MaxMade,     \* bound: instances made
  MaxText,     \* bound: length of a text
  MaxLevels,   \* bound: calls in progress, main included
  Guarded      \* a text is appended to in place only by the algorithm whose
               \* variable it is, and not while the other operand stores it

Scope == Idents \union {"self"}

(* Expressions and statements.  The second operand of an append is a text, *)
(* y <- s or y.m <- s; a call may be made for nobody, and a return, an     *)
(* append and a loop are told by their other parts.                        *)
Nobody == ""
Sources ==
  [k : {"text", "instance", "plain"}, x : {Nobody}] \union [k : {"var", "member"}, x : Scope]

Commands ==
  [op : {"assign", "store"}, x : Scope, e : Sources]
    \union [op : {"append"}, x : Scope, k : {"text", "assign", "store"}, y : Scope]
    \union [op : {"algo", "construct"}, x : Scope \union {Nobody}, e : Sources]
    \union [op : {"method"}, x : Scope \union {Nobody}, y : Scope, e : Sources]
    \union [op : {"return"}, e : Sources]
    \union [op : {"loop"}, k : {"one", "several"}]

ASSUME HoldersAssumption ==
  /\ IsFiniteSet(Idents) /\ Parameter \in Idents
  /\ Programs \subseteq SUBSET Commands
  /\ {MaxObjects, MaxMade, MaxText, MaxLevels} \subseteq Nat

VARIABLES
  program, \* the statements of the program
  interp,  \* the objects and scopes of the interpreter
  comp,    \* those of the compiled program
  control, \* per call in progress: what its value is for, and its loop
  made     \* instances made so far

holderVars == <<program, interp, comp, control, made>>

(* Values: an object is known by a number.                                 *)
Unbound == 0
Plain == -1      \* a number, NONE
Collection == -2 \* the value of a loop, for which the two differ

TextOf(n) == [kind |-> "text", length |-> n]
InstanceOf(n) == [kind |-> "instance", born |-> n, member |-> Plain]

Level(self, argument) ==
  [vars |-> [x \in Scope |-> IF x = "self" THEN self
                             ELSE IF x = Parameter THEN argument ELSE Unbound],
   bound |-> self,    \* the object whose method is called
   last |-> Plain,    \* the value of the last statement
   held |-> {},       \* objects held until the next statement, or the end
   inner |-> {}]      \* objects held by the loop

NoObjects == [heap |-> << >>, levels |-> <<Level(Unbound, Unbound)>>, destroyed |-> {}]

HoldersInit ==
  /\ program \in Programs
  /\ interp = NoObjects /\ comp = NoObjects
  /\ control = <<[target |-> Nobody, makes |-> FALSE, loop |-> "none"]>>
  /\ made = 0

Innermost(t) == t.levels[Len(t.levels)]
IsObject(v) == v > 0
IsText(t, v) == IsObject(v) /\ t.heap[v].kind = "text"
IsInstance(t, v) == IsObject(v) /\ t.heap[v].kind = "instance"

-----------------------------------------------------------------------------
(* Scopes and use counts.                                                  *)

(* SymbolTable::get: through the scopes of the callers.                    *)
Binding(t, x) ==
  LET ks == {k \in DOMAIN t.levels : t.levels[k].vars[x] # Unbound}
  IN  IF ks = {} THEN Unbound ELSE t.levels[Max(ks)].vars[x]

(* SymbolTable::set: in the scope of the algorithm itself.                 *)
BindName(t, x, v) == [t EXCEPT !.levels[Len(t.levels)].vars[x] = v]

NamesOf(t, o) ==
  {b \in (DOMAIN t.levels) \X Scope : t.levels[b[1]].vars[b[2]] = o}
MembersWith(t, o) == {p \in DOMAIN t.heap : IsInstance(t, p) /\ t.heap[p].member = o}
Passing(t, o) ==
  {k \in DOMAIN t.levels :
     o \in {t.levels[k].last} \union t.levels[k].held \union t.levels[k].inner}
Callers(t, o) == {k \in DOMAIN t.levels : t.levels[k].bound = o}

(* Not counted: the copy that asks.                                        *)
UseCount(t, o) ==
  Cardinality(NamesOf(t, o)) + Cardinality(MembersWith(t, o))
    + Cardinality(Passing(t, o)) + Cardinality(Callers(t, o))

(* What nobody holds goes, and then what only that held; a cycle stays.    *)
(* What is kept is held from a scope or by an object that is kept itself.  *)
HeldByScopes(t) ==
  UNION {Range(l.vars) \union l.held \union l.inner \union {l.last, l.bound} : l \in Range(t.levels)}
HeldByObjects(t, K) == {t.heap[p].member : p \in {q \in K : IsInstance(t, q)}}

Kept(t) ==
  UNION {K \in SUBSET DOMAIN t.heap : K \subseteq HeldByScopes(t) \union HeldByObjects(t, K)}

Collected(t) == [t EXCEPT !.heap = [o \in Kept(t) |-> t.heap[o]]]

HasRoom(t, n) == Cardinality(DOMAIN t.heap) + n <= MaxObjects
Fresh(t) == Min((1..MaxObjects) \ DOMAIN t.heap)
Make(t, object) ==
  [t EXCEPT !.heap = [o \in DOMAIN @ \union {Fresh(t)} |-> IF o = Fresh(t) THEN object ELSE @[o]]]

-----------------------------------------------------------------------------
(* Expressions, evaluated to [t, v, seen]: seen are the values that pass   *)
(* through the arena.                                                      *)
Source(k, x) == [k |-> k, x |-> x]
Evaluates(t, e) ==
  CASE e.k = "var" -> Binding(t, e.x) # Unbound
    [] e.k = "member" -> IsInstance(t, Binding(t, e.x))
    [] e.k = "plain" -> TRUE
    [] OTHER -> HasRoom(t, 1)

Eval(t, e) ==
  CASE e.k = "text" -> [t |-> Make(t, TextOf(1)), v |-> Fresh(t), seen |-> {}]
    [] e.k = "instance" ->
         [t |-> Make(t, InstanceOf(made + 1)), v |-> Fresh(t), seen |-> {Fresh(t)}]
    [] e.k = "plain" -> [t |-> t, v |-> Plain, seen |-> {}]
    [] e.k = "var" -> [t |-> t, v |-> Binding(t, e.x), seen |-> {Binding(t, e.x)}]
    [] e.k = "member" ->
         LET o == Binding(t, e.x) IN [t |-> t, v |-> t.heap[o].member, seen |-> {o, t.heap[o].member}]

Counts(e) == IF e.k = "instance" THEN 1 ELSE 0
MayMake(e) == made + Counts(e) <= MaxMade

-----------------------------------------------------------------------------
(* Statements, in the same form.                                           *)
AssignTo(t, x, e) ==
  LET r == Eval(t, e) IN [r EXCEPT !.t = BindName(r.t, x, r.v)]

StoreIn(t, y, e) ==
  LET r == Eval(t, e)
      o == Binding(t, y)
  IN  [r EXCEPT !.t.heap[o].member = r.v, !.seen = @ \union {o}]

(* The right operand of s <- s + t: a text, y <- s or y.m <- s.            *)
Operand(t, s, k, y) ==
  CASE k = "text" -> [t |-> t, length |-> 1]
    [] k = "assign" -> [t |-> BindName(t, y, Binding(t, s)), length |-> t.heap[Binding(t, s)].length]
    [] k = "store" -> [t |-> [t EXCEPT !.heap[Binding(t, y)].member = Binding(t, s)],
                       length |-> t.heap[Binding(t, s)].length]

(* Mutant: two may hold the text.                                          *)
SoleOrShared(t, s) == UseCount(t, Binding(t, s)) <= 2

(* The count is read before the operand is evaluated.                      *)
Sole(t, s) == UseCount(t, Binding(t, s)) = 1

Appended(how, t, s, k, y) ==
  LET o == Binding(t, s)
      r == Operand(t, s, k, y)
      n == t.heap[o].length + r.length
  IN  IF how = "interpreted" /\ Sole(t, s)
      THEN [t |-> [r.t EXCEPT !.heap[o].length = n], v |-> o, seen |-> {}]
      ELSE [t |-> BindName(Make(r.t, TextOf(n)), s, Fresh(r.t)), v |-> Fresh(r.t), seen |-> {}]

Appends(t, s, k, y) ==
  /\ IsText(t, Binding(t, s)) /\ HasRoom(t, 1)
  /\ t.heap[Binding(t, s)].length * 2 <= MaxText
  /\ k = "store" => IsInstance(t, Binding(t, y))

(* Where the two are known to differ.                                      *)
InPlaceIsLocal(s, k) ==
  Sole(interp, s) => k = "text" /\ Innermost(interp).vars[s] # Unbound

-----------------------------------------------------------------------------
(* After a statement.  The interpreter holds its value: main those of all  *)
(* its statements, an algorithm that of its last, a loop whose body is one *)
(* statement those of all turns; main has no use for those of a loop.      *)
(* Compiled code holds what it has seen until it releases its frame.       *)
Holding(how, t, v, seen) ==
  LET objects == {o \in DOMAIN t.heap : o = v}
      instances == {o \in seen \union objects : IsInstance(t, o)}
      loop == control[Len(t.levels)].loop
      level == Innermost(t)
      InMain == Len(t.levels) = 1
      new == CASE how = "compiled" /\ loop = "none" -> [level EXCEPT !.held = @ \union instances]
               [] how = "compiled" /\ loop # "none" -> [level EXCEPT !.inner = @ \union instances]
               [] how = "interpreted" /\ loop = "none" ->
                    [level EXCEPT !.held = objects \union (IF InMain THEN @ ELSE {})]
               [] how = "interpreted" /\ loop = "one" /\ ~InMain ->
                    [level EXCEPT !.inner = @ \union objects]
               [] OTHER -> level
  IN  [t EXCEPT !.levels[Len(t.levels)] =
         [new EXCEPT !.last = IF loop = "none" THEN v ELSE @]]

Done(how, r) == Collected(Holding(how, r.t, r.v, r.seen))

AssignVariable(x, e) ==
  /\ MayMake(e) /\ Evaluates(interp, e) /\ Evaluates(comp, e)
  /\ interp' = Done("interpreted", AssignTo(interp, x, e))
  /\ comp' = Done("compiled", AssignTo(comp, x, e))
  /\ made' = made + Counts(e)
  /\ UNCHANGED control

AssignMember(y, e) ==
  /\ MayMake(e) /\ Evaluates(interp, e) /\ Evaluates(comp, e)
  /\ IsInstance(interp, Binding(interp, y)) /\ IsInstance(comp, Binding(comp, y))
  /\ interp' = Done("interpreted", StoreIn(interp, y, e))
  /\ comp' = Done("compiled", StoreIn(comp, y, e))
  /\ made' = made + Counts(e)
  /\ UNCHANGED control

AppendText(s, k, y) ==
  /\ Appends(interp, s, k, y) /\ Appends(comp, s, k, y)
  /\ Guarded => InPlaceIsLocal(s, k)
  /\ interp' = Done("interpreted", Appended("interpreted", interp, s, k, y))
  /\ comp' = Done("compiled", Appended("compiled", comp, s, k, y))
  /\ UNCHANGED <<made, control>>

-----------------------------------------------------------------------------
(* Loops.                                                                  *)
InLoop == control[Len(control)].loop # "none"

EnterLoop(loop) ==
  /\ ~InLoop
  /\ control' = [control EXCEPT ![Len(control)].loop = loop]
  /\ UNCHANGED <<interp, comp, made>>

(* The compiled loop releases the frame of a turn.                         *)
Released(t) == Collected([t EXCEPT !.levels[Len(t.levels)].inner = {}])

NextTurn == InLoop /\ comp' = Released(comp) /\ UNCHANGED <<interp, control, made>>

(* The values collected are the value of the loop.                         *)
LoopEnds(how, t) ==
  LET Ended(level) ==
        [level EXCEPT !.last = Collection, !.inner = {},
                      !.held = IF how = "interpreted" /\ Len(t.levels) > 1
                               THEN level.inner ELSE @]
  IN  Collected([t EXCEPT !.levels[Len(t.levels)] = Ended(@)])

LeaveLoop ==
  /\ InLoop
  /\ interp' = LoopEnds("interpreted", interp)
  /\ comp' = LoopEnds("compiled", comp)
  /\ control' = [control EXCEPT ![Len(control)].loop = "none"]
  /\ UNCHANGED made

-----------------------------------------------------------------------------
(* Calls: x <- f(e), x <- y.f(e), x <- Struct(e), or without the x.        *)
Entered(t, self, argument) == [t EXCEPT !.levels = Append(@, Level(self, argument))]

(* The frame of the caller holds what the compiled call has seen.          *)
Passed(how, t, e, objects) ==
  LET r == Eval(t, e)
      seen == {o \in r.seen \union objects : IsInstance(r.t, o)}
      level == Innermost(t)
      holding == IF InLoop THEN [level EXCEPT !.inner = @ \union seen]
                 ELSE [level EXCEPT !.held = @ \union seen]
  IN  IF how = "interpreted" THEN r
      ELSE [r EXCEPT !.t.levels[Len(t.levels)] = holding]

Calling(how, t, e) ==
  LET r == Passed(how, t, e, {}) IN Entered(r.t, Unbound, r.v)

CallingMethod(how, t, y, e) ==
  LET o == Binding(t, y)
      r == Passed(how, t, e, {o})
  IN  Entered(r.t, o, r.v)

Constructing(how, t, e) ==
  LET r == Passed(how, t, e, {})
      o == Fresh(r.t)
  IN  Entered(Make(r.t, InstanceOf(made + Counts(e) + 1)), o, r.v)

MayCall(e) ==
  /\ Len(control) < MaxLevels
  /\ MayMake(e) /\ Evaluates(interp, e) /\ Evaluates(comp, e)

Enters(target, makes) ==
  control' = Append(control, [target |-> target, makes |-> makes, loop |-> "none"])

CallAlgo(target, e) ==
  /\ MayCall(e) /\ Enters(target, FALSE)
  /\ interp' = Calling("interpreted", interp, e)
  /\ comp' = Calling("compiled", comp, e)
  /\ made' = made + Counts(e)

CallMethod(target, y, e) ==
  /\ MayCall(e) /\ Enters(target, FALSE)
  /\ IsInstance(interp, Binding(interp, y)) /\ IsInstance(comp, Binding(comp, y))
  /\ interp' = CallingMethod("interpreted", interp, y, e)
  /\ comp' = CallingMethod("compiled", comp, y, e)
  /\ made' = made + Counts(e)

Construct(target, e) ==
  /\ MayCall(e) /\ Enters(target, TRUE)
  /\ made + Counts(e) < MaxMade /\ HasRoom(interp, 2) /\ HasRoom(comp, 2)
  /\ interp' = Constructing("interpreted", interp, e)
  /\ comp' = Constructing("compiled", comp, e)
  /\ made' = made + Counts(e) + 1

-----------------------------------------------------------------------------
(* The end of a call.  Its value is on its way to the caller, and nothing  *)
(* else of the call is left but its scope.  In a compiled program self is  *)
(* in a scope of its own, for which no destructor is called.               *)
Cleaned(how) == IF how = "interpreted" THEN Scope ELSE Idents

(* The state in which the destructors are called, with the value v held.   *)
(* Mutant: it is not.                                                      *)
LeavingUnheld(t, v) ==
  [t EXCEPT !.levels[Len(t.levels)] = [@ EXCEPT !.last = Plain, !.held = {}, !.inner = {}]]

Leaving(t, v) ==
  [t EXCEPT !.levels[Len(t.levels)] = [@ EXCEPT !.last = v, !.held = {}, !.inner = {}]]

Dying(how, t) ==
  {o \in DOMAIN t.heap :
     /\ IsInstance(t, o)
     /\ \E x \in Cleaned(how) : Innermost(t).vars[x] = o
     /\ UseCount(t, o) = 1}

(* Every scope but main's calls the destructors, in no particular order.   *)
Left(how, t, v) ==
  LET s == Leaving(t, v) IN
  [s EXCEPT !.destroyed = @ \union {t.heap[o].born : o \in Dying(how, s)},
            !.levels = Front(@)]

(* What the call is for.                                                   *)
Received(t, target, v) ==
  [t |-> IF target = Nobody THEN t ELSE BindName(t, target, v), v |-> v, seen |-> {v}]

Ended(how, t, v) ==
  LET c == control[Len(control)]
      r == IF c.makes THEN Innermost(t).bound ELSE v
  IN  Done(how, Received(Left(how, t, r), c.target, r))

(* `return e` with a variable, a member or a number.                       *)
ReturnValue(e) ==
  /\ Len(control) > 1 /\ e.k \in {"var", "member", "plain"}
  /\ Evaluates(interp, e) /\ Evaluates(comp, e)
  /\ interp' = Ended("interpreted", interp, Eval(interp, e).v)
  /\ comp' = Ended("compiled", comp, Eval(comp, e).v)
  /\ control' = Front(control)
  /\ UNCHANGED made

(* The value of the last statement.                                        *)
FallOff ==
  /\ Len(control) > 1 /\ ~InLoop
  /\ Innermost(interp).last # Collection
  /\ interp' = Ended("interpreted", interp, Innermost(interp).last)
  /\ comp' = Ended("compiled", comp, Innermost(comp).last)
  /\ control' = Front(control)
  /\ UNCHANGED made

Performs(s) ==
  \/ s.op = "assign" /\ AssignVariable(s.x, s.e)
  \/ s.op = "store" /\ AssignMember(s.x, s.e)
  \/ s.op = "append" /\ AppendText(s.x, s.k, s.y)
  \/ s.op = "algo" /\ CallAlgo(s.x, s.e)
  \/ s.op = "method" /\ CallMethod(s.x, s.y, s.e)
  \/ s.op = "construct" /\ Construct(s.x, s.e)
  \/ s.op = "return" /\ ReturnValue(s.e)
  \/ s.op = "loop" /\ EnterLoop(s.k)

HoldersNext ==
  /\ \/ \E s \in program : Performs(s)
     \/ NextTurn \/ LeaveLoop \/ FallOff
  /\ UNCHANGED program

HoldersSpec == HoldersInit /\ [][HoldersNext]_holderVars

-----------------------------------------------------------------------------
(* What a program can tell of a value.                                     *)
Appearance(t, v) ==
  CASE IsText(t, v) -> [kind |-> "text", n |-> t.heap[v].length]
    [] IsInstance(t, v) -> [kind |-> "instance", n |-> t.heap[v].born]
    [] OTHER -> [kind |-> "plain", n |-> v]

SameAppearance(v, w) == Appearance(interp, v) = Appearance(comp, w)

SameScopes ==
  /\ DOMAIN interp.levels = DOMAIN comp.levels
  /\ \A k \in DOMAIN interp.levels, x \in Scope :
       SameAppearance(interp.levels[k].vars[x], comp.levels[k].vars[x])

SameMembers ==
  \A o \in DOMAIN interp.heap, p \in DOMAIN comp.heap :
    /\ IsInstance(interp, o) /\ IsInstance(comp, p)
    /\ interp.heap[o].born = comp.heap[p].born
    => SameAppearance(interp.heap[o].member, comp.heap[p].member)

(* The README promises that compiled behavior matches the interpreter: the *)
(* variables of the two have the same texts and instances at every point,  *)
(* and so has the member of an instance that exists in both, though the    *)
(* interpreter appends to a text in place.  A text that another name,      *)
(* member, argument or pending value shares is never changed.              *)
SameTexts == SameScopes /\ SameMembers

(* An instance whose destructor has been called is gone: no scope, member, *)
(* value on its way or object still holds it, so that nothing can use it   *)
(* and its destructor is not called again.                                 *)
DestroyedIsGone ==
  \A t \in {interp, comp} : \A o \in DOMAIN t.heap :
    IsInstance(t, o) => t.heap[o].born \notin t.destroyed
=============================================================================
