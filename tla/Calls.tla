------------------------------- MODULE Calls -------------------------------
(***************************************************************************)
(* Calls, argument binding and scopes, interpreted and compiled, in lock   *)
(* step.  A name is looked up through the scopes of the callers.  The      *)
(* interpreter makes the callee's scope first and visits each argument in  *)
(* it, binding as it goes; only a memoized algorithm gets its arguments    *)
(* evaluated before any is bound.  A compiled program evaluates them all   *)
(* in the caller's scope and pushes the callee's scope afterwards.         *)
(*                                                                         *)
(* The program is a set of call expressions; which of them run, and what   *)
(* is assigned and returned between them, is left open, so that the runs   *)
(* are those of every program made of these calls.  `self` is bound in the *)
(* scope of the method's parameters.  An operand that ends in an error     *)
(* ends the compiled program; the interpreter hands the error to the       *)
(* caller, whose body goes on if it is a plain algorithm's.                *)
(***************************************************************************)
EXTENDS Naturals, Sequences, FiniteSetsExt

CONSTANTS
  Params,     \* Params[f]: the parameter names of algorithm f
  Methods,    \* the algorithms that are methods
  Memoized,   \* the algorithms is_memoizable_numeric_algo() accepts
  Sites,      \* Sites[c]: a call, [f, args] and, for a method, obj
  Statements, \* the calls that are statements of their own
  Locals,     \* the names the program assigns
  Vals,       \* the values
  Start,      \* the globals at the start
  Error,      \* what an undefined name evaluates to
  Self,       \* the name "self"
  MaxDepth    \* bound: the deepest nesting of calls

Algos == DOMAIN Params
SiteIds == DOMAIN Sites
Args(c) == Sites[c].args
Callee(c) == Sites[c].f
Names == DOMAIN Start \union Locals \union {Self}
           \union UNION { {Params[f][i] : i \in DOMAIN Params[f]} : f \in Algos }

(* An argument is a name, a literal or a call.                             *)
Expr == [k : {"var"}, x : Names] \union [k : {"lit"}, v : Vals]
          \union [k : {"call"}, c : SiteIds]

ASSUME CallsAssumption ==
  /\ Methods \subseteq Algos /\ Memoized \subseteq Algos \ Methods
  /\ Statements \subseteq SiteIds
  /\ Error \notin Vals
  /\ MaxDepth \in Nat
  /\ Start \in [DOMAIN Start -> Vals]
  /\ \A f \in Algos : Params[f] \in Seq(Names)
  /\ \A c \in SiteIds :
       /\ Callee(c) \in Algos
       /\ Callee(c) \in Methods => Sites[c].obj \in Vals
       /\ Args(c) \in Seq(Expr)
       /\ Len(Args(c)) = Len(Params[Callee(c)])

VARIABLES
  calls,   \* the calls under way: [site, n], n arguments evaluated
  iscope,  \* the interpreter's symbol tables, the globals first
  cscope,  \* the runtime's; a call's arguments are kept in it from the first
  over     \* "no"; then who met an error: "both", or only one, or "caught",
           \* both, where a body of the interpreter went on

vars == <<calls, iscope, cscope, over>>

Depth == Len(calls)
Complete(j) == calls[j].n = Len(Args(calls[j].site))

(* The scopes a lookup goes through.  Scope j + 1 belongs to call j.       *)
ISeen == { j \in 1..Len(iscope) :
             j = 1 \/ Complete(j - 1) \/ Callee(calls[j - 1].site) \notin Memoized }
(* Mutant: a compiled algorithm's scope hangs below the globals.           *)
CSeenStatic == { j \in 1..Len(cscope) : j = 1 \/ (j = Len(cscope) /\ Complete(j - 1)) }

CSeen == { j \in 1..Len(cscope) : j = 1 \/ Complete(j - 1) }

(* SymbolTable::get().                                                     *)
Lookup(scopes, seen, x) ==
  LET holders == { j \in seen : x \in DOMAIN scopes[j] }
  IN  IF holders = {} THEN Error ELSE scopes[Max(holders)][x]

IEval(e) == IF e.k = "var" THEN Lookup(iscope, ISeen, e.x) ELSE e.v
CEval(e) == IF e.k = "var" THEN Lookup(cscope, CSeen, e.x) ELSE e.v

(* SymbolTable::set().                                                     *)
Bind(scope, x, v) ==
  [y \in DOMAIN scope \union {x} |-> IF y = x THEN v ELSE scope[y]]

Init ==
  /\ calls = << >>
  /\ iscope = <<Start>> /\ cscope = <<Start>>
  /\ over = "no"

-----------------------------------------------------------------------------
Given(c) == IF Callee(c) \in Methods THEN {Self} ELSE {}
NewScope(c) == [x \in Given(c) |-> Sites[c].obj]

(* A call begins: nothing is bound but self.                               *)
Enter(c) ==
  /\ Depth < MaxDepth
  /\ calls' = Append(calls, [site |-> c, n |-> 0])
  /\ iscope' = Append(iscope, NewScope(c))
  /\ cscope' = Append(cscope, NewScope(c))
  /\ UNCHANGED over

Top == calls[Depth]
Pending == Depth > 0 /\ ~Complete(Depth)
NextArg == Args(Top.site)[Top.n + 1]

(* The value of the next argument of call j arrives, and call j is on top. *)
Deliver(j, iv, cv) ==
  LET x == Params[Callee(calls[j].site)][calls[j].n + 1]
  IN  /\ calls' = Append(SubSeq(calls, 1, j - 1), [calls[j] EXCEPT !.n = @ + 1])
      /\ iscope' = Append(SubSeq(iscope, 1, j), Bind(iscope[j + 1], x, iv))
      /\ cscope' = Append(SubSeq(cscope, 1, j), Bind(cscope[j + 1], x, cv))
      /\ UNCHANGED over

(* An operand cannot be evaluated.  A body of a plain algorithm among the  *)
(* callers takes the error for the value of a statement and goes on,       *)
(* unless it was its last statement.                                       *)
Caught == \E j \in 1..Depth : Complete(j) /\ Callee(calls[j].site) \notin Methods

Fail(iv, cv) ==
  /\ CASE iv # Error -> over' = "compiled"
       [] cv # Error -> over' = "interpreter"
       [] OTHER -> over' = "both" \/ (Caught /\ over' = "caught")
  /\ UNCHANGED <<calls, iscope, cscope>>

(* The next argument of the call on top is a name, a literal or a call.    *)
Argument ==
  /\ Pending
  /\ NextArg.k # "call"
  /\ LET iv == IEval(NextArg)
         cv == CEval(NextArg)
     IN  IF Error \in {iv, cv} THEN Fail(iv, cv) ELSE Deliver(Depth, iv, cv)

NestedCall ==
  /\ Pending
  /\ NextArg.k = "call"
  /\ Enter(NextArg.c)

(* A statement of the body on top, or of the program itself.               *)
InBody == ~Pending

Call(c) == InBody /\ Enter(c)

(* visit_var_assign(): the innermost scope.  The values are no texts: the   *)
(* append in place of `s <- s + t` is left out.                            *)
Assign(x, v) ==
  /\ InBody
  /\ iscope' = [iscope EXCEPT ![Depth + 1] = Bind(@, x, v)]
  /\ cscope' = [cscope EXCEPT ![Depth + 1] = Bind(@, x, v)]
  /\ UNCHANGED <<calls, over>>

Leave ==
  /\ calls' = SubSeq(calls, 1, Depth - 1)
  /\ iscope' = SubSeq(iscope, 1, Depth)
  /\ cscope' = SubSeq(cscope, 1, Depth)
  /\ UNCHANGED over

(* The algorithm on top returns: its value is an argument of the call      *)
(* below, or the value of a statement, which nobody looks at.              *)
Return(e) ==
  /\ InBody /\ Depth > 0
  /\ LET iv == IEval(e)
         cv == CEval(e)
     IN  IF Error \in {iv, cv} THEN Fail(iv, cv)
         ELSE IF Depth > 1 /\ ~Complete(Depth - 1) THEN Deliver(Depth - 1, iv, cv)
         ELSE Leave

Results == [k : {"var"}, x : Names] \union [k : {"lit"}, v : Vals]

Next ==
  /\ over = "no"
  /\ \/ Argument
     \/ NestedCall
     \/ \E c \in Statements : Call(c)
     \/ \E x \in Locals, v \in Vals : Assign(x, v)
     \/ \E e \in Results : Return(e)

Spec == Init /\ [][Next]_vars

-----------------------------------------------------------------------------
Bindings == UNION { [D -> Vals] : D \in SUBSET Names }

(* The names in a scope when n arguments have been bound in it.            *)
Bound(c, n) == Given(c) \union { Params[Callee(c)][i] : i \in 1..n }

Shape(j) ==
  /\ calls[j].n <= Len(Args(calls[j].site))
  /\ ~Complete(j) => DOMAIN iscope[j + 1] = Bound(calls[j].site, calls[j].n)

(* One scope per call and one for the globals; the scope of a call whose   *)
(* arguments are being evaluated holds those it has, and no other name.    *)
TypeOK ==
  /\ calls \in Seq([site : SiteIds, n : Nat])
  /\ iscope \in Seq(Bindings) /\ cscope \in Seq(Bindings)
  /\ Len(iscope) = Depth + 1 /\ Len(cscope) = Depth + 1
  /\ over \in {"no", "both", "caught", "compiled", "interpreter"}
  /\ \A j \in 1..Depth : Shape(j)

(* A program none of whose arguments can tell the order of binding: an     *)
(* argument names no parameter bound before it, nor, in the call of a      *)
(* method, self, and only the first argument is itself a call.             *)
CaptureFree ==
  \A c \in SiteIds : Callee(c) \notin Memoized =>
    \A i \in DOMAIN Args(c) :
      LET e == Args(c)[i] IN
      /\ e.k = "var" => /\ \A p \in 1..(i - 1) : e.x # Params[Callee(c)][p]
                        /\ Callee(c) \in Methods => e.x # Self
      /\ e.k = "call" => i = 1 /\ Callee(c) \notin Methods

(* README.md:27: compiled behavior matches the interpreter.  At every      *)
(* point of every call both have bound the same values to the same names,  *)
(* and none of them meets an error that the other does not.                *)
BindingsAgree ==
  /\ over \notin {"compiled", "interpreter"}
  /\ over = "no" => iscope = cscope
=============================================================================
