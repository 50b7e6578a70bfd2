---------------------------- MODULE ScopesProofs ----------------------------
(***************************************************************************)
(* Of the calls of a program: the two symbol-table stacks keep the shape   *)
(* of the call stack; and in a capture-free program the interpreter, which *)
(* binds as it evaluates, and the compiled program, which evaluates before *)
(* it binds, give every parameter the same value.                          *)
(*                                                                         *)
(* Of the objects that its variables hold: an instance whose destructor    *)
(* has been called is gone, and a program cannot tell where the            *)
(* interpreter appends to a text in place.  What a run consists of is      *)
(* Sound and Gone; what a program can see of two runs is that they Agree.  *)
(*                                                                         *)
(* All of it for any algorithms, statements and calls.                     *)
(***************************************************************************)
EXTENDS Calls, Holders, SequenceLemmas, FiniteSetTheorems

-----------------------------------------------------------------------------
(* The bindings of the calls.                                              *)

Call0 == [site : SiteIds, n : Nat]

LEMMA BindingsElement ==
  ASSUME NEW b \in Bindings
  PROVE  /\ DOMAIN b \in SUBSET Names
         /\ \A y \in DOMAIN b : b[y] \in Vals
BY DEF Bindings

LEMMA BindType ==
  ASSUME NEW b \in Bindings, NEW x \in Names, NEW v \in Vals
  PROVE  /\ Bind(b, x, v) \in Bindings
         /\ DOMAIN Bind(b, x, v) = DOMAIN b \union {x}
<1>1. DOMAIN Bind(b, x, v) = DOMAIN b \union {x}
  BY DEF Bind
<1>2. DOMAIN Bind(b, x, v) \in SUBSET Names
  BY <1>1, BindingsElement
<1>3. Bind(b, x, v) \in [DOMAIN Bind(b, x, v) -> Vals]
  BY BindingsElement DEF Bind
<1>. QED  BY <1>1, <1>2, <1>3, Zenon DEF Bindings

LEMMA LookupType ==
  ASSUME NEW s \in Seq(Bindings), NEW seen \in SUBSET (1..Len(s)), NEW x
  PROVE  Lookup(s, seen, x) \in Vals \union {Error}
<1> DEFINE holders == { j \in seen : x \in DOMAIN s[j] }
<1>1. CASE holders = {}
  BY <1>1 DEF Lookup
<1>2. CASE holders # {}
  <2>1. holders \in SUBSET (0..Len(s)) /\ Len(s) \in Nat
    <3>1. holders \subseteq 1..Len(s)
      BY Zenon
    <3>2. Len(s) \in Nat /\ 1..Len(s) \subseteq 0..Len(s)
      OBVIOUS
    <3>. QED  BY <3>1, <3>2
  <2>2. Max(holders) \in holders
    <3> HIDE DEF holders
    <3>. QED  BY <1>2, <2>1, GreatestElement
  <2>3. s[Max(holders)] \in Bindings /\ x \in DOMAIN s[Max(holders)]
    BY <2>2, ElementOfSeq
  <2>4. s[Max(holders)][x] \in Vals
    BY <2>3, BindingsElement
  <2>. QED  BY <1>2, <2>4 DEF Lookup
<1>. QED  BY <1>1, <1>2

LEMMA ScopeType ==
  ASSUME CallsAssumption, NEW c \in SiteIds
  PROVE  NewScope(c) \in Bindings /\ DOMAIN NewScope(c) = Given(c)
<1>1. DOMAIN NewScope(c) = Given(c)
  BY DEF NewScope
<1>2. Given(c) \in SUBSET Names
  BY DEF Given, Names
<1>3. NewScope(c) \in [Given(c) -> Vals]
  BY CallsAssumption DEF NewScope, Given
<1>. QED  BY <1>1, <1>2, <1>3, Zenon DEF Bindings

-----------------------------------------------------------------------------
(* The type invariant, one lemma for each effect an action can have.       *)
LEMMA InitType == Init => TypeOK
<1> SUFFICES ASSUME Init  PROVE TypeOK
  OBVIOUS
<1>1. DOMAIN Start \in SUBSET Names
  BY DEF Names
<1>2. Start \in [DOMAIN Start -> Vals]
  BY CallsAssumption
<1>3. Start \in Bindings
  BY <1>1, <1>2, Zenon DEF Bindings
<1>. QED  BY <1>3 DEF Init, TypeOK, Depth

LEMMA ParameterType ==
  ASSUME TypeOK, NEW j \in 1..Depth, ~Complete(j)
  PROVE  /\ calls[j].site \in SiteIds
         /\ calls[j].n \in Nat
         /\ calls[j].n + 1 \in 1..Len(Args(calls[j].site))
         /\ Params[Callee(calls[j].site)][calls[j].n + 1] \in Names
<1>1. calls[j] \in [site : SiteIds, n : Nat]
  BY ElementOfSeq DEF TypeOK, Depth
<1>2. /\ calls[j].site \in SiteIds /\ calls[j].n \in Nat
      /\ calls[j].n <= Len(Args(calls[j].site))
      /\ calls[j].n # Len(Args(calls[j].site))
  BY <1>1 DEF TypeOK, Shape, Complete
<1>3. /\ Params[Callee(calls[j].site)] \in Seq(Names)
      /\ Args(calls[j].site) \in Seq(Expr)
      /\ Len(Params[Callee(calls[j].site)]) = Len(Args(calls[j].site))
  BY <1>2, CallsAssumption, Zenon
<1>4. calls[j].n + 1 \in 1..Len(Args(calls[j].site))
  BY <1>2, <1>3, LenProperties
<1>. QED  BY <1>2, <1>3, <1>4, ElementOfSeq

LEMMA BoundByOneMore ==
  ASSUME NEW c, NEW n \in Nat
  PROVE  /\ Bound(c, 0) = Given(c)
         /\ Bound(c, n + 1) = Bound(c, n) \union {Params[Callee(c)][n + 1]}
<1>1. 1..0 = {} /\ 1..(n + 1) = 1..n \union {n + 1}
  OBVIOUS
<1>. QED  BY <1>1, Zenon DEF Bound

LEMMA SameShape ==
  ASSUME NEW j, NEW i, Shape(j), calls'[i] = calls[j], iscope'[i + 1] = iscope[j + 1]
  PROVE  Shape(i)'
BY DEF Shape, Complete

LEMMA EnterType ==
  ASSUME TypeOK, NEW c \in SiteIds, Enter(c)
  PROVE  TypeOK'
<1>1. NewScope(c) \in Bindings /\ DOMAIN NewScope(c) = Given(c)
  BY CallsAssumption, ScopeType
<1>2. /\ calls \in Seq(Call0) /\ [site |-> c, n |-> 0] \in Call0
      /\ iscope \in Seq(Bindings) /\ cscope \in Seq(Bindings)
      /\ Len(iscope) = Len(calls) + 1 /\ Len(cscope) = Len(calls) + 1
      /\ Len(calls) \in Nat
      /\ \A j \in 1..Len(calls) : Shape(j)
  BY DEF TypeOK, Call0, Depth
<1>3. /\ calls' \in Seq(Call0) /\ Len(calls') = Len(calls) + 1
      /\ calls'[Len(calls) + 1] = [site |-> c, n |-> 0]
      /\ \A j \in 1..Len(calls) : calls'[j] = calls[j]
  BY <1>2 DEF Enter
<1>4. /\ iscope' \in Seq(Bindings) /\ Len(iscope') = Len(calls) + 2
      /\ cscope' \in Seq(Bindings) /\ Len(cscope') = Len(calls) + 2
      /\ iscope'[Len(calls) + 2] = NewScope(c)
      /\ \A j \in 1..(Len(calls) + 1) : iscope'[j] = iscope[j]
  BY <1>1, <1>2 DEF Enter
<1>5. Args(c) \in Seq(Expr) /\ Len(Args(c)) \in Nat
  BY CallsAssumption, LenProperties
<1>6. ASSUME NEW j \in 1..Len(calls')
      PROVE  Shape(j)'
  <2>1. CASE j = Len(calls) + 1
    <3>1. calls'[j].n = 0 /\ calls'[j].site = c /\ iscope'[j + 1] = NewScope(c)
      BY <2>1, <1>2, <1>3, <1>4
    <3>2. Bound(c, 0) = Given(c)
      BY BoundByOneMore
    <3>. QED  BY <3>1, <3>2, <1>1, <1>5 DEF Shape
  <2>2. CASE j \in 1..Len(calls)
    <3>1. j + 1 \in 1..(Len(calls) + 1)
      BY <2>2, <1>2
    <3>2. calls'[j] = calls[j] /\ iscope'[j + 1] = iscope[j + 1]
      BY <2>2, <3>1, <1>3, <1>4
    <3>. QED  BY <2>2, <3>2, <1>2, SameShape
  <2>. QED  BY <2>1, <2>2, <1>2, <1>3
<1>7. over' \in {"no", "both", "caught", "compiled", "interpreter"}
  BY DEF Enter, TypeOK
<1>8. Len(iscope') = Len(calls') + 1 /\ Len(cscope') = Len(calls') + 1
  BY <1>2, <1>3, <1>4
<1>. QED  BY <1>3, <1>4, <1>6, <1>7, <1>8 DEF TypeOK, Call0, Depth

LEMMA DeliverType ==
  ASSUME TypeOK, NEW j \in 1..Depth, ~Complete(j),
         NEW iv \in Vals, NEW cv \in Vals, Deliver(j, iv, cv)
  PROVE  /\ TypeOK'
         /\ Len(calls') = j
         /\ calls'[j] = [site |-> calls[j].site, n |-> calls[j].n + 1]
         /\ \A m \in 1..(j - 1) : calls'[m] = calls[m]
<1>1. /\ calls \in Seq(Call0)
      /\ iscope \in Seq(Bindings) /\ cscope \in Seq(Bindings)
      /\ Len(calls) \in Nat
      /\ Len(iscope) = Len(calls) + 1 /\ Len(cscope) = Len(calls) + 1
      /\ \A m \in 1..Len(calls) : Shape(m)
  BY DEF TypeOK, Call0, Depth
<1>2. j \in 1..Len(calls)
  BY DEF Depth
<1>3. /\ calls[j].site \in SiteIds /\ calls[j].n \in Nat
      /\ calls[j].n + 1 \in 1..Len(Args(calls[j].site))
      /\ Params[Callee(calls[j].site)][calls[j].n + 1] \in Names
  BY ParameterType
<1>4. calls[j] \in Call0
  BY <1>1, <1>2, ElementOfSeq
<1> DEFINE frame == [calls[j] EXCEPT !.n = @ + 1]
           x == Params[Callee(calls[j].site)][calls[j].n + 1]
           low == SubSeq(calls, 1, j - 1)
<1>5. frame = [site |-> calls[j].site, n |-> calls[j].n + 1] /\ frame \in Call0
  BY <1>3, <1>4 DEF Call0
<1>6. /\ low \in Seq(Call0) /\ Len(low) = j - 1
      /\ \A m \in 1..(j - 1) : low[m] = calls[m]
  <2>1. j - 1 \in Nat /\ j - 1 <= Len(calls)
    BY <1>1, <1>2
  <2>. QED  BY <1>1, <2>1, PrefixProperties
<1>7. /\ SubSeq(iscope, 1, j) \in Seq(Bindings) /\ Len(SubSeq(iscope, 1, j)) = j
      /\ \A m \in 1..j : SubSeq(iscope, 1, j)[m] = iscope[m]
      /\ SubSeq(cscope, 1, j) \in Seq(Bindings) /\ Len(SubSeq(cscope, 1, j)) = j
  <2>1. j \in Nat /\ j <= Len(iscope) /\ j <= Len(cscope)
    BY <1>1, <1>2
  <2>. QED  BY <1>1, <2>1, PrefixProperties
<1>8. /\ Bind(iscope[j + 1], x, iv) \in Bindings
      /\ DOMAIN Bind(iscope[j + 1], x, iv) = DOMAIN iscope[j + 1] \union {x}
      /\ Bind(cscope[j + 1], x, cv) \in Bindings
  <2>1. j + 1 \in 1..Len(iscope) /\ j + 1 \in 1..Len(cscope)
    BY <1>1, <1>2
  <2>2. iscope[j + 1] \in Bindings /\ cscope[j + 1] \in Bindings
    BY <1>1, <2>1, ElementOfSeq
  <2>. QED  BY <1>3, <2>2, BindType
<1>9. /\ calls' = Append(low, frame)
      /\ iscope' = Append(SubSeq(iscope, 1, j), Bind(iscope[j + 1], x, iv))
      /\ cscope' = Append(SubSeq(cscope, 1, j), Bind(cscope[j + 1], x, cv))
      /\ over' = over
  BY DEF Deliver
<1>10. j \in Nat /\ j - 1 \in Nat /\ (j - 1) + 1 = j
  BY <1>2
<1> HIDE DEF frame, x, low
<1>11. /\ calls' \in Seq(Call0) /\ Len(calls') = j
       /\ calls'[j] = frame
       /\ \A m \in 1..(j - 1) : calls'[m] = calls[m]
  BY <1>5, <1>6, <1>9, <1>10
<1>12. /\ iscope' \in Seq(Bindings) /\ Len(iscope') = j + 1
       /\ iscope'[j + 1] = Bind(iscope[j + 1], x, iv)
       /\ \A m \in 1..j : iscope'[m] = iscope[m]
  BY <1>7, <1>8, <1>9, <1>10
<1>13. cscope' \in Seq(Bindings) /\ Len(cscope') = j + 1
  BY <1>7, <1>8, <1>9, <1>10
<1>14. ASSUME NEW m \in 1..j
       PROVE  Shape(m)'
  <2>1. CASE m = j
    <3>1. ~Complete(j) /\ Shape(j)
      BY <1>1, <1>2
    <3>2. DOMAIN iscope'[j + 1] = Bound(calls[j].site, calls[j].n) \union {x}
      BY <3>1, <1>8, <1>12 DEF Shape
    <3>3. DOMAIN iscope'[j + 1] = Bound(calls[j].site, calls[j].n + 1)
      BY <3>2, <1>3, BoundByOneMore DEF x
    <3>4. calls'[j].n = calls[j].n + 1 /\ calls'[j].site = calls[j].site
      BY <1>5, <1>11
    <3>. QED  BY <2>1, <3>3, <3>4, <1>3 DEF Shape
  <2>2. CASE m # j
    <3>1. m \in 1..(j - 1) /\ m \in 1..Len(calls) /\ m + 1 \in 1..j
      BY <2>2, <1>2, <1>10, <1>1
    <3>2. calls'[m] = calls[m] /\ iscope'[m + 1] = iscope[m + 1]
      BY <3>1, <1>11, <1>12
    <3>. QED  BY <3>1, <3>2, <1>1, SameShape
  <2>. QED  BY <2>1, <2>2
<1>15. over' \in {"no", "both", "caught", "compiled", "interpreter"}
  BY <1>9 DEF TypeOK
<1>16. TypeOK'
  BY <1>11, <1>12, <1>13, <1>14, <1>15 DEF TypeOK, Call0, Depth
<1>. QED  BY <1>5, <1>11, <1>16

LEMMA AssignType ==
  ASSUME TypeOK, NEW x \in Locals, NEW v \in Vals, Assign(x, v)
  PROVE  TypeOK'
<1>1. /\ calls \in Seq(Call0) /\ Len(calls) \in Nat
      /\ iscope \in Seq(Bindings) /\ cscope \in Seq(Bindings)
      /\ Len(iscope) = Len(calls) + 1 /\ Len(cscope) = Len(calls) + 1
      /\ Depth = Len(calls)
      /\ \A m \in 1..Len(calls) : Shape(m)
  BY DEF TypeOK, Call0, Depth
<1>2. Depth + 1 \in 1..Len(iscope) /\ Depth + 1 \in 1..Len(cscope)
  BY <1>1
<1>3. iscope[Depth + 1] \in Bindings /\ cscope[Depth + 1] \in Bindings
  BY <1>1, <1>2, ElementOfSeq
<1>4. x \in Names
  BY DEF Names
<1>5. /\ Bind(iscope[Depth + 1], x, v) \in Bindings
      /\ Bind(cscope[Depth + 1], x, v) \in Bindings
  BY <1>3, <1>4, BindType
<1>6. /\ iscope' \in Seq(Bindings) /\ Len(iscope') = Len(iscope)
      /\ \A m \in 1..Len(iscope) : m # Depth + 1 => iscope'[m] = iscope[m]
      /\ cscope' \in Seq(Bindings) /\ Len(cscope') = Len(cscope)
  BY <1>1, <1>2, <1>5, ExceptSeq DEF Assign
<1>7. calls' = calls /\ over' = over
  BY DEF Assign
<1>8. ASSUME NEW m \in 1..Len(calls)
      PROVE  Shape(m)'
  <2>1. CASE m = Depth
    <3>1. Complete(m) /\ Shape(m)
      BY <2>1, <1>1 DEF Assign, InBody, Pending
    <3>. QED  BY <3>1, <1>7 DEF Shape, Complete
  <2>2. CASE m # Depth
    <3>1. m + 1 \in 1..Len(iscope) /\ m + 1 # Depth + 1
      BY <2>2, <1>1
    <3>2. iscope'[m + 1] = iscope[m + 1]
      BY <3>1, <1>6
    <3>. QED  BY <3>2, <1>1, <1>7, SameShape
  <2>. QED  BY <2>1, <2>2
<1>. QED  BY <1>1, <1>6, <1>7, <1>8 DEF TypeOK, Call0, Depth

LEMMA LeaveType ==
  ASSUME TypeOK, Depth > 0, Leave
  PROVE  /\ TypeOK'
         /\ Len(calls') = Depth - 1
         /\ \A m \in 1..(Depth - 1) : calls'[m] = calls[m]
<1>1. /\ calls \in Seq(Call0) /\ Len(calls) \in Nat
      /\ iscope \in Seq(Bindings) /\ cscope \in Seq(Bindings)
      /\ Len(iscope) = Len(calls) + 1 /\ Len(cscope) = Len(calls) + 1
      /\ Depth = Len(calls)
      /\ \A m \in 1..Len(calls) : Shape(m)
  BY DEF TypeOK, Call0, Depth
<1>2. /\ Depth - 1 \in Nat /\ Depth - 1 <= Len(calls)
      /\ Depth \in Nat /\ Depth <= Len(iscope) /\ Depth <= Len(cscope)
  BY <1>1
<1>3. /\ calls' \in Seq(Call0) /\ Len(calls') = Depth - 1
      /\ \A m \in 1..(Depth - 1) : calls'[m] = calls[m]
  BY <1>1, <1>2, PrefixProperties DEF Leave
<1>4. /\ iscope' \in Seq(Bindings) /\ Len(iscope') = Depth
      /\ \A m \in 1..Depth : iscope'[m] = iscope[m]
      /\ cscope' \in Seq(Bindings) /\ Len(cscope') = Depth
  BY <1>1, <1>2, PrefixProperties DEF Leave
<1>5. ASSUME NEW m \in 1..(Depth - 1)
      PROVE  Shape(m)'
  <2>1. m \in 1..Len(calls) /\ m + 1 \in 1..Depth
    BY <1>1, <1>2
  <2>2. calls'[m] = calls[m] /\ iscope'[m + 1] = iscope[m + 1]
    BY <2>1, <1>3, <1>4
  <2>. QED  BY <2>1, <2>2, <1>1, SameShape
<1>6. Len(iscope') = Len(calls') + 1 /\ Len(cscope') = Len(calls') + 1
  BY <1>1, <1>2, <1>3, <1>4
<1>7. over' \in {"no", "both", "caught", "compiled", "interpreter"}
  BY DEF Leave, TypeOK
<1>. QED  BY <1>3, <1>4, <1>5, <1>6, <1>7 DEF TypeOK, Call0, Depth

LEMMA FailType ==
  ASSUME TypeOK, NEW iv, NEW cv, Fail(iv, cv)
  PROVE  TypeOK'
<1>1. over' \in {"no", "both", "caught", "compiled", "interpreter"}
  BY DEF Fail
<1>2. \A m : Shape(m) => Shape(m)'
  BY DEF Fail, Shape, Complete
<1>. QED  BY <1>1, <1>2 DEF Fail, TypeOK, Depth

(* Both machines evaluate an operand to a value or to Error.               *)
LEMMA EvalType ==
  ASSUME TypeOK, NEW e \in Expr, e.k # "call"
  PROVE  IEval(e) \in Vals \union {Error} /\ CEval(e) \in Vals \union {Error}
<1>1. ISeen \in SUBSET (1..Len(iscope)) /\ CSeen \in SUBSET (1..Len(cscope))
  BY DEF ISeen, CSeen
<1>2. iscope \in Seq(Bindings) /\ cscope \in Seq(Bindings)
  BY DEF TypeOK
<1>3. CASE e.k = "var"
  BY <1>1, <1>2, <1>3, LookupType DEF IEval, CEval
<1>4. CASE e.k = "lit"
  <2>1. e.v \in Vals
    BY <1>4 DEF Expr
  <2>. QED  BY <1>4, <2>1 DEF IEval, CEval
<1>. QED  BY <1>3, <1>4 DEF Expr

LEMMA NextArgType ==
  ASSUME TypeOK, Pending
  PROVE  /\ Depth \in 1..Depth /\ ~Complete(Depth)
         /\ Top.site \in SiteIds /\ Top.n \in Nat
         /\ Top.n + 1 \in DOMAIN Args(Top.site)
         /\ NextArg \in Expr
<1>1. Depth \in 1..Depth /\ ~Complete(Depth)
  BY DEF Pending, Depth, TypeOK
<1>2. /\ Top.site \in SiteIds /\ Top.n \in Nat
      /\ Top.n + 1 \in 1..Len(Args(Top.site))
  BY <1>1, ParameterType DEF Top
<1>3. Args(Top.site) \in Seq(Expr)
  BY <1>2, CallsAssumption
<1>4. NextArg \in Expr /\ DOMAIN Args(Top.site) = 1..Len(Args(Top.site))
  BY <1>2, <1>3, ElementOfSeq, LenProperties DEF NextArg
<1>. QED  BY <1>1, <1>2, <1>4

LEMMA ArgumentEffect ==
  ASSUME TypeOK, Argument
  PROVE  /\ NextArg \in Expr /\ NextArg.k # "call"
         /\ \/ Error \in {IEval(NextArg), CEval(NextArg)} /\ Fail(IEval(NextArg), CEval(NextArg))
            \/ /\ IEval(NextArg) \in Vals /\ CEval(NextArg) \in Vals
               /\ Deliver(Depth, IEval(NextArg), CEval(NextArg))
<1>1. NextArg \in Expr /\ NextArg.k # "call"
  BY NextArgType DEF Argument
<1>2. IEval(NextArg) \in Vals \union {Error} /\ CEval(NextArg) \in Vals \union {Error}
  BY <1>1, EvalType
<1>. QED  BY <1>1, <1>2 DEF Argument

LEMMA ReturnEffect ==
  ASSUME TypeOK, NEW e \in Results, Return(e)
  PROVE  /\ e \in Expr /\ e.k # "call"
         /\ \/ Error \in {IEval(e), CEval(e)} /\ Fail(IEval(e), CEval(e))
            \/ /\ IEval(e) \in Vals /\ CEval(e) \in Vals
               /\ Depth - 1 \in 1..Depth /\ ~Complete(Depth - 1)
               /\ Deliver(Depth - 1, IEval(e), CEval(e))
            \/ Depth > 0 /\ Leave
<1>1. e \in Expr /\ e.k # "call"
  BY DEF Results, Expr
<1>2. IEval(e) \in Vals \union {Error} /\ CEval(e) \in Vals \union {Error}
  BY <1>1, EvalType
<1>3. Depth \in Nat
  BY DEF TypeOK, Depth
<1>4. CASE Error \in {IEval(e), CEval(e)}
  BY <1>1, <1>4 DEF Return
<1>5. CASE Error \notin {IEval(e), CEval(e)} /\ Depth > 1 /\ ~Complete(Depth - 1)
  <2>1. Deliver(Depth - 1, IEval(e), CEval(e))
    BY <1>5 DEF Return
  <2>2. Depth - 1 \in 1..Depth
    BY <1>3, <1>5
  <2>. QED  BY <1>1, <1>2, <1>5, <2>1, <2>2
<1>6. CASE Error \notin {IEval(e), CEval(e)} /\ ~(Depth > 1 /\ ~Complete(Depth - 1))
  <2>1. Depth > 0 /\ Leave
    BY <1>6 DEF Return
  <2>. QED  BY <1>1, <2>1
<1>. QED  BY <1>4, <1>5, <1>6

LEMMA StepType ==
  ASSUME TypeOK, [Next]_vars
  PROVE  TypeOK'
<1>1. CASE Argument
  <2>1. Depth \in 1..Depth /\ ~Complete(Depth)
    BY <1>1, NextArgType DEF Argument
  <2>. QED  BY <1>1, <2>1, ArgumentEffect, FailType, DeliverType
<1>2. CASE NestedCall
  <2>1. NextArg \in Expr /\ NextArg.k = "call"
    BY <1>2, NextArgType DEF NestedCall
  <2>2. NextArg.c \in SiteIds
    BY <2>1 DEF Expr
  <2>. QED  BY <1>2, <2>2, EnterType DEF NestedCall
<1>3. ASSUME NEW c \in Statements, Call(c)
      PROVE  TypeOK'
  <2>1. c \in SiteIds
    BY CallsAssumption
  <2>. QED  BY <1>3, <2>1, EnterType DEF Call
<1>4. ASSUME NEW x \in Locals, NEW v \in Vals, Assign(x, v)
      PROVE  TypeOK'
  BY <1>4, AssignType
<1>5. ASSUME NEW e \in Results, Return(e)
      PROVE  TypeOK'
  BY <1>5, ReturnEffect, FailType, DeliverType, LeaveType
<1>6. CASE UNCHANGED vars
  <2>1. \A m : Shape(m) => Shape(m)'
    BY <1>6 DEF vars, Shape, Complete
  <2>. QED  BY <1>6, <2>1 DEF vars, TypeOK, Depth
<1>. QED  BY <1>1, <1>2, <1>3, <1>4, <1>5, <1>6 DEF Next

(* The stacks of symbol tables follow the stack of calls, and a pending    *)
(* call's scope holds the arguments it has and nothing else.               *)
THEOREM TypeCorrect == Spec => []TypeOK
<1>1. Init => TypeOK
  BY InitType
<1>2. TypeOK /\ [Next]_vars => TypeOK'
  BY StepType
<1>. QED  BY <1>1, <1>2, PTL DEF Spec

-----------------------------------------------------------------------------
(* Agreement.  A call that waits for a nested call has bound nothing, so   *)
(* that its scope, which only the interpreter looks at, hides no name.     *)
HidesNothing(j) ==
  ~Complete(j) /\ Callee(calls[j].site) \notin Memoized => Bound(calls[j].site, calls[j].n) = {}

Agreeing ==
  /\ BindingsAgree
  /\ over = "no" => \A j \in 1..(Depth - 1) : HidesNothing(j)

LEMMA SameHides ==
  ASSUME NEW j, HidesNothing(j), calls'[j] = calls[j]
  PROVE  HidesNothing(j)'
BY DEF HidesNothing, Complete

(* Where no pending scope holds x, both machines find the same x.          *)
LEMMA SameLookup ==
  ASSUME TypeOK, iscope = cscope, NEW x,
         \A j \in 1..Depth : ~Complete(j) /\ Callee(calls[j].site) \notin Memoized
                             => x \notin DOMAIN iscope[j + 1]
  PROVE  Lookup(iscope, ISeen, x) = Lookup(cscope, CSeen, x)
<1>1. /\ Len(iscope) = Depth + 1 /\ Depth \in Nat
  BY DEF TypeOK, Depth
<1>2. ASSUME NEW j \in 1..Len(iscope), j # 1, x \in DOMAIN iscope[j],
             Callee(calls[j - 1].site) \notin Memoized
      PROVE  Complete(j - 1)
  <2>1. j - 1 \in 1..Depth /\ (j - 1) + 1 = j
    BY <1>1, <1>2
  <2>. QED  BY <1>2, <2>1
<1>3. { j \in ISeen : x \in DOMAIN iscope[j] } = { j \in CSeen : x \in DOMAIN cscope[j] }
  BY <1>2 DEF ISeen, CSeen
<1>. QED  BY <1>3 DEF Lookup

LEMMA SameEval ==
  ASSUME TypeOK, iscope = cscope, NEW e,
         e.k = "var" =>
           \A j \in 1..Depth : ~Complete(j) /\ Callee(calls[j].site) \notin Memoized
                                 => e.x \notin DOMAIN iscope[j + 1]
  PROVE  IEval(e) = CEval(e)
BY SameLookup DEF IEval, CEval

(* The calls below the top hide nothing, by the invariant.                 *)
LEMMA LowScopesEmpty ==
  ASSUME TypeOK, Agreeing, over = "no"
  PROVE  \A j \in 1..(Depth - 1) : ~Complete(j) /\ Callee(calls[j].site) \notin Memoized
            => DOMAIN iscope[j + 1] = {}
<1>. SUFFICES ASSUME NEW j \in 1..(Depth - 1), ~Complete(j),
                     Callee(calls[j].site) \notin Memoized
              PROVE  DOMAIN iscope[j + 1] = {}
  OBVIOUS
<1>1. j \in 1..Depth
  BY DEF TypeOK, Depth
<1>2. Shape(j)
  BY <1>1 DEF TypeOK
<1>3. HidesNothing(j)
  BY DEF Agreeing
<1>. QED  BY <1>2, <1>3 DEF HidesNothing, Shape

LEMMA SameArgument ==
  ASSUME TypeOK, Agreeing, over = "no", CaptureFree, Argument
  PROVE  IEval(NextArg) = CEval(NextArg)
<1>1. /\ Depth \in 1..Depth /\ ~Complete(Depth)
      /\ Top.site \in SiteIds /\ Top.n \in Nat
      /\ Top.n + 1 \in DOMAIN Args(Top.site)
  BY NextArgType DEF Argument
<1>2. iscope = cscope
  BY DEF Agreeing, BindingsAgree
<1>3. ASSUME NextArg.k = "var", NEW j \in 1..Depth, ~Complete(j),
             Callee(calls[j].site) \notin Memoized
      PROVE  NextArg.x \notin DOMAIN iscope[j + 1]
  <2>1. CASE j = Depth
    <3>1. Callee(Top.site) \notin Memoized
      BY <1>3, <2>1 DEF Top
    <3>2. /\ \A p \in 1..((Top.n + 1) - 1) : NextArg.x # Params[Callee(Top.site)][p]
          /\ Callee(Top.site) \in Methods => NextArg.x # Self
      BY <1>1, <1>3, <3>1 DEF CaptureFree, NextArg
    <3>3. (Top.n + 1) - 1 = Top.n
      BY <1>1
    <3>4. NextArg.x \notin Bound(Top.site, Top.n)
      BY <3>2, <3>3 DEF Bound, Given
    <3>5. Shape(Depth)
      BY <1>1 DEF TypeOK
    <3>. QED  BY <1>1, <2>1, <3>4, <3>5 DEF Shape, Top
  <2>2. CASE j # Depth
    <3>1. j \in 1..(Depth - 1)
      BY <1>1, <2>2
    <3>. QED  BY <1>3, <3>1, LowScopesEmpty
  <2>. QED  BY <2>1, <2>2
<1>. QED  BY <1>2, <1>3, SameEval

LEMMA SameReturn ==
  ASSUME TypeOK, Agreeing, over = "no", NEW e, Return(e)
  PROVE  IEval(e) = CEval(e)
<1>1. iscope = cscope
  BY DEF Agreeing, BindingsAgree
<1>2. Depth \in Nat /\ Complete(Depth)
  BY DEF TypeOK, Depth, Return, InBody, Pending
<1>3. ASSUME NEW j \in 1..Depth, ~Complete(j), Callee(calls[j].site) \notin Memoized
      PROVE  DOMAIN iscope[j + 1] = {}
  <2>1. j # Depth
    BY <1>2, <1>3
  <2>2. j \in 1..(Depth - 1)
    BY <1>2, <2>1
  <2>. QED  BY <1>3, <2>2, LowScopesEmpty
<1>. QED  BY <1>1, <1>3, SameEval

LEMMA DeliverAgree ==
  ASSUME TypeOK, Agreeing, over = "no", NEW j \in 1..Depth, ~Complete(j),
         NEW v \in Vals, Deliver(j, v, v)
  PROVE  Agreeing'
<1>1. /\ Len(calls') = j /\ \A m \in 1..(j - 1) : calls'[m] = calls[m]
  BY DeliverType
<1>2. iscope' = cscope' /\ over' = over
  BY DEF Deliver, Agreeing, BindingsAgree
<1>3. ASSUME NEW m \in 1..(j - 1)
      PROVE  HidesNothing(m)'
  <2>1. m \in 1..(Depth - 1)
    BY DEF TypeOK, Depth
  <2>. QED  BY <1>1, <2>1, SameHides DEF Agreeing
<1>. QED  BY <1>1, <1>2, <1>3 DEF Agreeing, BindingsAgree, Depth

LEMMA LeaveAgree ==
  ASSUME TypeOK, Agreeing, over = "no", Depth > 0, Leave
  PROVE  Agreeing'
<1>1. /\ Len(calls') = Depth - 1 /\ Depth \in Nat
      /\ \A m \in 1..(Depth - 1) : calls'[m] = calls[m]
  BY LeaveType DEF TypeOK, Depth
<1>2. iscope' = cscope' /\ over' = over
  BY DEF Leave, Agreeing, BindingsAgree
<1>3. ASSUME NEW m \in 1..(Len(calls') - 1)
      PROVE  HidesNothing(m)'
  <2>1. m \in 1..(Depth - 1)
    BY <1>1
  <2>. QED  BY <1>1, <2>1, SameHides DEF Agreeing
<1>. QED  BY <1>1, <1>2, <1>3 DEF Agreeing, BindingsAgree, Depth

LEMMA EnterAgree ==
  ASSUME TypeOK, Agreeing, over = "no", NEW c \in SiteIds, Enter(c),
         Depth > 0 => HidesNothing(Depth)
  PROVE  Agreeing'
<1>1. /\ calls \in Seq(Call0) /\ Depth = Len(calls) /\ Depth \in Nat
  BY DEF TypeOK, Depth, Call0
<1>2. /\ Len(calls') = Depth + 1
      /\ \A m \in 1..Depth : calls'[m] = calls[m]
  BY <1>1 DEF Enter, Call0
<1>3. iscope' = cscope' /\ over' = over
  BY DEF Enter, Agreeing, BindingsAgree
<1>4. ASSUME NEW m \in 1..(Len(calls') - 1)
      PROVE  HidesNothing(m)'
  <2>1. m \in 1..Depth
    BY <1>1, <1>2
  <2>2. HidesNothing(m)
    BY <1>1, <2>1 DEF Agreeing
  <2>. QED  BY <1>2, <2>1, <2>2, SameHides
<1>. QED  BY <1>2, <1>3, <1>4 DEF Agreeing, BindingsAgree, Depth

LEMMA FailAgree ==
  ASSUME NEW v, Error = v, Fail(v, v)
  PROVE  Agreeing'
BY DEF Fail, Agreeing, BindingsAgree

LEMMA StepAgree ==
  ASSUME CaptureFree, TypeOK, Agreeing, [Next]_vars
  PROVE  Agreeing'
<1>1. CASE Argument /\ over = "no"
  <2>1. IEval(NextArg) = CEval(NextArg)
    BY <1>1, SameArgument
  <2>2. Depth \in 1..Depth /\ ~Complete(Depth)
    BY <1>1, NextArgType DEF Argument
  <2>. QED  BY <1>1, <2>1, <2>2, ArgumentEffect, FailAgree, DeliverAgree
<1>2. CASE NestedCall /\ over = "no"
  <2>1. /\ Depth \in 1..Depth /\ ~Complete(Depth)
        /\ Top.site \in SiteIds /\ Top.n \in Nat
        /\ Top.n + 1 \in DOMAIN Args(Top.site)
        /\ NextArg \in Expr /\ NextArg.k = "call"
    BY <1>2, NextArgType DEF NestedCall
  <2>2. NextArg.c \in SiteIds
    BY <2>1 DEF Expr
  <2>3. HidesNothing(Depth)
    <3>1. SUFFICES ASSUME Callee(Top.site) \notin Memoized
                   PROVE  Bound(Top.site, Top.n) = {}
      BY DEF HidesNothing, Top
    <3>2. Top.n + 1 = 1 /\ Callee(Top.site) \notin Methods
      BY <2>1, <3>1 DEF CaptureFree, NextArg
    <3>3. Top.n = 0
      BY <2>1, <3>2
    <3>. QED  BY <3>2, <3>3, BoundByOneMore DEF Given
  <2>. QED  BY <1>2, <2>2, <2>3, EnterAgree DEF NestedCall
<1>3. ASSUME NEW c \in Statements, Call(c), over = "no"
      PROVE  Agreeing'
  <2>1. c \in SiteIds
    BY CallsAssumption
  <2>2. Depth > 0 => HidesNothing(Depth)
    BY <1>3 DEF Call, InBody, Pending, HidesNothing
  <2>. QED  BY <1>3, <2>1, <2>2, EnterAgree DEF Call
<1>4. ASSUME NEW x \in Locals, NEW v \in Vals, Assign(x, v), over = "no"
      PROVE  Agreeing'
  <2>1. iscope' = cscope' /\ calls' = calls /\ over' = over
    BY <1>4 DEF Assign, Agreeing, BindingsAgree
  <2>2. \A m : HidesNothing(m) => HidesNothing(m)'
    BY <2>1, SameHides
  <2>. QED  BY <2>1, <2>2, <1>4 DEF Agreeing, BindingsAgree, Depth
<1>5. ASSUME NEW e \in Results, Return(e), over = "no"
      PROVE  Agreeing'
  <2>1. IEval(e) = CEval(e)
    BY <1>5, SameReturn
  <2>. QED  BY <1>5, <2>1, ReturnEffect, FailAgree, DeliverAgree, LeaveAgree
<1>6. CASE UNCHANGED vars
  <2>1. \A m : HidesNothing(m) => HidesNothing(m)'
    BY <1>6 DEF vars, HidesNothing, Complete
  <2>. QED  BY <1>6, <2>1 DEF vars, Agreeing, BindingsAgree, Depth
<1>. QED  BY <1>1, <1>2, <1>3, <1>4, <1>5, <1>6 DEF Next

(* In a program none of whose arguments can tell the order of binding, the *)
(* interpreter and the compiled program bind the same values all the way.  *)
THEOREM Agreement == CaptureFree /\ Spec => []BindingsAgree
<1>. SUFFICES ASSUME CaptureFree  PROVE Spec => []BindingsAgree
  OBVIOUS
<1>1. Init => TypeOK /\ Agreeing
  <2>1. Init => Agreeing
    BY DEF Init, Agreeing, BindingsAgree, Depth
  <2>. QED  BY <2>1, InitType
<1>2. TypeOK /\ Agreeing /\ [Next]_vars => (TypeOK /\ Agreeing)'
  BY StepType, StepAgree
<1>3. Agreeing => BindingsAgree
  BY DEF Agreeing
<1>. QED  BY <1>1, <1>2, <1>3, PTL DEF Spec

-----------------------------------------------------------------------------
(* The objects that variables hold: what a run consists of.                *)

Objects ==
  [kind : {"text"}, length : Nat] \union [kind : {"instance"}, born : Nat, member : Int]
Levels == [vars : [Scope -> Int], bound : Int, last : Int, held : SUBSET Nat, inner : SUBSET Nat]

Shaped(t) ==
  /\ t \in [heap : UNION {[D -> Objects] : D \in SUBSET (1..MaxObjects)},
            levels : Seq(Levels), destroyed : SUBSET Nat]
  /\ Len(t.levels) # 0

(* An object, or what is none.                                             *)
Known(t, v) == v \in Int /\ (v > 0 => v \in DOMAIN t.heap)

KnownLevel(t, l) ==
  /\ l \in Levels
  /\ \A x \in Scope : Known(t, l.vars[x])
  /\ Known(t, l.bound) /\ Known(t, l.last)
  /\ l.held \subseteq DOMAIN t.heap /\ l.inner \subseteq DOMAIN t.heap

Sound(t, m) ==
  /\ Shaped(t)
  /\ \A k \in DOMAIN t.levels : KnownLevel(t, t.levels[k])
  /\ \A o \in DOMAIN t.heap :
       IsInstance(t, o) => t.heap[o].born \in 1..m /\ Known(t, t.heap[o].member)
  /\ \A o, p \in DOMAIN t.heap :
       IsInstance(t, o) /\ IsInstance(t, p) /\ t.heap[o].born = t.heap[p].born => o = p
  /\ t.destroyed \subseteq 1..m

Gone(t) ==
  \A o \in DOMAIN t.heap : IsInstance(t, o) => t.heap[o].born \notin t.destroyed

-----------------------------------------------------------------------------
(* What is kept.                                                           *)

LEMMA KeptObjects ==
  ASSUME NEW t
  PROVE  /\ Kept(t) \subseteq DOMAIN t.heap
         /\ Kept(t) \subseteq HeldByScopes(t) \union HeldByObjects(t, Kept(t))
         /\ HeldByScopes(t) \intersect DOMAIN t.heap \subseteq Kept(t)
         /\ HeldByObjects(t, Kept(t)) \intersect DOMAIN t.heap \subseteq Kept(t)
<1> DEFINE Roots == HeldByScopes(t)
           Of(K) == HeldByObjects(t, K)
           Good == {K \in SUBSET DOMAIN t.heap : K \subseteq Roots \union Of(K)}
<1>0. Kept(t) = UNION Good
  BY DEF Kept
<1>1. \A K, L : K \subseteq L => Of(K) \subseteq Of(L)
  BY DEF HeldByObjects
<1> HIDE DEF Roots, Of
<1>2. Kept(t) \subseteq DOMAIN t.heap
  BY <1>0
<1>3. Kept(t) \subseteq Roots \union Of(Kept(t))
  <2> SUFFICES ASSUME NEW o \in Kept(t) PROVE o \in Roots \union Of(Kept(t))
    OBVIOUS
  <2>1. PICK K \in Good : o \in K
    BY <1>0
  <2>2. K \subseteq Kept(t)
    BY <1>0
  <2>. QED  BY <2>1, <2>2, <1>1
<1>4. Roots \intersect DOMAIN t.heap \subseteq Kept(t)
  <2>1. Roots \intersect DOMAIN t.heap \in Good
    OBVIOUS
  <2>. QED  BY <2>1, <1>0
<1>5. Of(Kept(t)) \intersect DOMAIN t.heap \subseteq Kept(t)
  <2> DEFINE L == Kept(t) \union (Of(Kept(t)) \intersect DOMAIN t.heap)
  <2>1. Of(Kept(t)) \subseteq Of(L)
    BY <1>1
  <2>2. L \in Good
    BY <2>1, <1>2, <1>3
  <2>3. L \subseteq UNION Good
    BY <2>2
  <2>. QED  BY <2>3, <1>0
<1>. QED  BY <1>2, <1>3, <1>4, <1>5 DEF Roots, Of

(* What a scope and what an object hold.                                   *)
LEMMA ScopesHold ==
  ASSUME NEW t, NEW k \in DOMAIN t.levels
  PROVE  /\ \A x \in DOMAIN t.levels[k].vars : t.levels[k].vars[x] \in HeldByScopes(t)
         /\ t.levels[k].bound \in HeldByScopes(t) /\ t.levels[k].last \in HeldByScopes(t)
         /\ t.levels[k].held \subseteq HeldByScopes(t)
         /\ t.levels[k].inner \subseteq HeldByScopes(t)
<1> DEFINE l == t.levels[k]
           S == Range(l.vars) \union l.held \union l.inner \union {l.last, l.bound}
<1>1. l \in Range(t.levels)
  BY DEF Range
<1>2. S \subseteq HeldByScopes(t)
  <2> HIDE DEF l
  <2>. QED  BY <1>1 DEF HeldByScopes, l
<1>3. \A x \in DOMAIN l.vars : l.vars[x] \in Range(l.vars)
  BY DEF Range
<1>. QED  BY <1>2, <1>3

LEMMA HeldByScope ==
  ASSUME NEW t, NEW v \in HeldByScopes(t)
  PROVE  \E k \in DOMAIN t.levels :
           \/ \E x \in DOMAIN t.levels[k].vars : v = t.levels[k].vars[x]
           \/ v = t.levels[k].bound \/ v = t.levels[k].last
           \/ v \in t.levels[k].held \/ v \in t.levels[k].inner
BY DEF HeldByScopes, Range

LEMMA CollectedParts ==
  ASSUME NEW t, NEW m, Sound(t, m)
  PROVE  /\ Collected(t).levels = t.levels /\ Collected(t).destroyed = t.destroyed
         /\ Collected(t).heap = [o \in Kept(t) |-> t.heap[o]]
         /\ Collected(t) = [heap |-> [o \in Kept(t) |-> t.heap[o]], levels |-> t.levels,
                            destroyed |-> t.destroyed]
BY DEF Collected, Sound, Shaped

LEMMA CollectedSound ==
  ASSUME NEW t, NEW m, Sound(t, m)
  PROVE  /\ Sound(Collected(t), m)
         /\ \A v : Known(Collected(t), v) => Known(t, v)
         /\ \A v \in HeldByScopes(t) : Known(t, v) => Known(Collected(t), v)
<1> DEFINE c == Collected(t)
<1>1. /\ c = [heap |-> [o \in Kept(t) |-> t.heap[o]], levels |-> t.levels, destroyed |-> t.destroyed]
      /\ c.levels = t.levels /\ c.destroyed = t.destroyed /\ c.heap = [o \in Kept(t) |-> t.heap[o]]
  BY CollectedParts
<1>2. Kept(t) \subseteq DOMAIN t.heap
  BY KeptObjects
<1>3. DOMAIN c.heap = Kept(t) /\ \A o \in Kept(t) : c.heap[o] = t.heap[o]
  BY <1>1
<1>4. \A o \in Kept(t) : IsInstance(c, o) <=> IsInstance(t, o)
  BY <1>3 DEF IsInstance
<1>5. \A v \in HeldByScopes(t) : Known(t, v) => Known(c, v)
  BY KeptObjects, <1>3 DEF Known
<1>6. \A k \in DOMAIN c.levels : KnownLevel(c, c.levels[k])
  <2> SUFFICES ASSUME NEW k \in DOMAIN t.levels PROVE KnownLevel(c, t.levels[k])
    BY <1>1
  <2>1. KnownLevel(t, t.levels[k]) /\ DOMAIN t.levels[k].vars = Scope
    BY DEF Sound, KnownLevel, Levels
  <2> HIDE DEF c
  <2>2. \A v \in HeldByScopes(t) \intersect DOMAIN t.heap : v \in DOMAIN c.heap
    BY KeptObjects, <1>3
  <2>. QED  BY <1>5, <2>1, <2>2, ScopesHold DEF KnownLevel
<1>7. \A o \in Kept(t) : IsInstance(t, o) => Known(c, t.heap[o].member)
  <2> SUFFICES ASSUME NEW o \in Kept(t), IsInstance(t, o) PROVE Known(c, t.heap[o].member)
    OBVIOUS
  <2>1. Known(t, t.heap[o].member)
    BY <1>2 DEF Sound
  <2>2. t.heap[o].member \in HeldByObjects(t, Kept(t))
    BY DEF HeldByObjects
  <2> HIDE DEF c
  <2>. QED  BY <2>1, <2>2, KeptObjects, <1>3 DEF Known
<1>8. Shaped(c)
  <2>1. \A o \in DOMAIN t.heap : t.heap[o] \in Objects
    BY DEF Sound, Shaped
  <2>2. c.heap \in [Kept(t) -> Objects]
    BY <1>1, <1>2, <2>1
  <2>3. Kept(t) \in SUBSET (1..MaxObjects)
    BY <1>2 DEF Sound, Shaped
  <2>. QED  BY <1>1, <2>2, <2>3 DEF Sound, Shaped
<1>9. \A v : Known(c, v) => Known(t, v)
  BY <1>2, <1>3 DEF Known
<1> HIDE DEF c
<1>. QED  BY <1>1, <1>2, <1>3, <1>4, <1>5, <1>6, <1>7, <1>8, <1>9 DEF Sound, c

-----------------------------------------------------------------------------
(* The ways a run changes.                                                 *)

(* The innermost level becomes l.                                          *)
WithLevel(t, l) == [t EXCEPT !.levels = [@ EXCEPT ![Len(t.levels)] = l]]

LEMMA LevelSet ==
  ASSUME NEW t, NEW m, Sound(t, m), NEW l, KnownLevel(t, l)
  PROVE  /\ Sound(WithLevel(t, l), m)
         /\ WithLevel(t, l).heap = t.heap /\ WithLevel(t, l).destroyed = t.destroyed
         /\ Len(WithLevel(t, l).levels) = Len(t.levels)
         /\ DOMAIN WithLevel(t, l).levels = DOMAIN t.levels
         /\ Len(t.levels) \in DOMAIN t.levels
         /\ \A k \in DOMAIN t.levels :
              WithLevel(t, l).levels[k] = IF k = Len(t.levels) THEN l ELSE t.levels[k]
         /\ Innermost(WithLevel(t, l)) = l
<1> DEFINE w == WithLevel(t, l)
           n == Len(t.levels)
<1>1. /\ t.levels \in Seq(Levels) /\ n \in Nat \ {0} /\ DOMAIN t.levels = 1..n
  BY LenProperties DEF Sound, Shaped
<1>2. /\ w = [heap |-> t.heap, levels |-> [t.levels EXCEPT ![n] = l], destroyed |-> t.destroyed]
  BY DEF WithLevel, Sound, Shaped
<1>3. /\ w.heap = t.heap /\ w.destroyed = t.destroyed /\ w.levels = [t.levels EXCEPT ![n] = l]
  BY <1>2
<1>4. l \in Levels
  BY DEF KnownLevel
<1>5. w.levels \in Seq(Levels) /\ Len(w.levels) = n
  <2> HIDE DEF w
  <2>. QED  BY <1>1, <1>3, <1>4, ExceptSeq
<1>6. \A k \in 1..n : w.levels[k] = IF k = n THEN l ELSE t.levels[k]
  <2> HIDE DEF w
  <2>. QED  BY <1>1, <1>3
<1>7. Shaped(w)
  BY <1>2, <1>3, <1>5, <1>1 DEF Sound, Shaped
<1>8. /\ \A v : Known(w, v) <=> Known(t, v)
      /\ \A x : KnownLevel(w, x) <=> KnownLevel(t, x)
      /\ \A o : IsInstance(w, o) <=> IsInstance(t, o)
  BY <1>3 DEF Known, KnownLevel, IsInstance
<1>9. DOMAIN w.levels = 1..n
  BY <1>3, <1>1
<1> HIDE DEF w
<1>. QED  BY <1>1, <1>3, <1>5, <1>6, <1>7, <1>8, <1>9 DEF Sound, Innermost, w

LEMMA InnermostKnown ==
  ASSUME NEW t, NEW m, Sound(t, m)
  PROVE  /\ Len(t.levels) \in Nat \ {0} /\ DOMAIN t.levels = 1..Len(t.levels)
         /\ KnownLevel(t, Innermost(t))
BY LenProperties DEF Sound, Shaped, Innermost

LEMMA Binds ==
  ASSUME NEW t, NEW m, Sound(t, m), NEW x \in Scope, NEW v, Known(t, v)
  PROVE  LET l == [Innermost(t) EXCEPT !.vars = [@ EXCEPT ![x] = v]]
         IN  /\ KnownLevel(t, l)
             /\ \A y \in Scope : l.vars[y] = IF y = x THEN v ELSE Innermost(t).vars[y]
             /\ l.bound = Innermost(t).bound /\ l.last = Innermost(t).last
             /\ l.held = Innermost(t).held /\ l.inner = Innermost(t).inner
             /\ BindName(t, x, v) = WithLevel(t, l)
<1> DEFINE i == Innermost(t)
           f == [i.vars EXCEPT ![x] = v]
           l == [i EXCEPT !.vars = [@ EXCEPT ![x] = v]]
<1>1. KnownLevel(t, i) /\ i \in Levels /\ v \in Int
  BY InnermostKnown DEF KnownLevel, Known
<1> HIDE DEF i
<1>2. f \in [Scope -> Int] /\ \A y \in Scope : f[y] = IF y = x THEN v ELSE i.vars[y]
  BY <1>1 DEF Levels
<1>3. l = [vars |-> f, bound |-> i.bound, last |-> i.last, held |-> i.held, inner |-> i.inner]
  BY <1>1 DEF Levels
<1>4. /\ l.vars = f /\ l.bound = i.bound /\ l.last = i.last /\ l.held = i.held /\ l.inner = i.inner
  BY <1>3
<1>5. l \in Levels
  <2> HIDE DEF f
  <2>. QED  BY <1>1, <1>2, <1>3 DEF Levels
<1>6. BindName(t, x, v) = WithLevel(t, l)
  BY DEF BindName, WithLevel, Innermost, i
<1> HIDE DEF l, f
<1>7. KnownLevel(t, l)
  BY <1>1, <1>2, <1>4, <1>5 DEF KnownLevel
<1>. QED  BY <1>2, <1>4, <1>6, <1>7 DEF l, i

(* A new object.                                                           *)
LEMMA RoomIsFree ==
  ASSUME NEW t, NEW m, Sound(t, m), HasRoom(t, 1)
  PROVE  /\ Fresh(t) \in 1..MaxObjects /\ Fresh(t) \notin DOMAIN t.heap
         /\ Cardinality(DOMAIN t.heap \union {Fresh(t)}) = Cardinality(DOMAIN t.heap) + 1
         /\ Cardinality(DOMAIN t.heap) \in Nat
<1> DEFINE D == DOMAIN t.heap
           F == (1..MaxObjects) \ D
<1>1. MaxObjects \in Nat /\ D \subseteq 1..MaxObjects
  BY HoldersAssumption DEF Sound, Shaped
<1>2. IsFiniteSet(1..MaxObjects) /\ Cardinality(1..MaxObjects) = MaxObjects
  <2>1. /\ IsFiniteSet(1..MaxObjects)
        /\ Cardinality(1..MaxObjects) = IF 1 > MaxObjects THEN 0 ELSE MaxObjects - 1 + 1
    BY <1>1, FS_Interval
  <2>. QED  BY <1>1, <2>1
<1>3. IsFiniteSet(D) /\ Cardinality(D) \in Nat
  <2> HIDE DEF D
  <2>. QED  BY <1>1, <1>2, FS_Subset, FS_CardinalityType
<1>4. F # {}
  <2>1. SUFFICES ASSUME F = {} PROVE FALSE
    OBVIOUS
  <2>2. D = 1..MaxObjects
    BY <1>1, <2>1
  <2>. QED  BY <1>1, <1>2, <1>3, <2>2 DEF HasRoom
<1>5. Min(F) \in F
  <2>1. F \in SUBSET Nat
    BY <1>1
  <2>2. \E x \in F : \A y \in F : x <= y
    <3> HIDE DEF F
    <3>. QED  BY <1>4, <2>1, LeastElement
  <2>. QED  BY <2>2 DEF Min
<1>6. Fresh(t) \in F
  BY <1>5 DEF Fresh
<1>7. Cardinality(D \union {Fresh(t)}) = Cardinality(D) + 1
  <2>1. Fresh(t) \notin D
    BY <1>6
  <2> HIDE DEF D
  <2>. QED  BY <1>3, <2>1, FS_AddElement
<1>. QED  BY <1>1, <1>3, <1>6, <1>7

LEMMA Makes ==
  ASSUME NEW t, NEW m \in Nat, Sound(t, m), HasRoom(t, 1), NEW object,
         NEW n \in Nat, object = TextOf(n) \/ (object = InstanceOf(m + 1) /\ n = m + 1),
         NEW k \in Nat, k = IF object = TextOf(n) THEN m ELSE m + 1
  PROVE  /\ Sound(Make(t, object), k)
         /\ DOMAIN Make(t, object).heap = DOMAIN t.heap \union {Fresh(t)}
         /\ Make(t, object).heap[Fresh(t)] = object
         /\ \A o \in DOMAIN t.heap : Make(t, object).heap[o] = t.heap[o]
         /\ Make(t, object).levels = t.levels /\ Make(t, object).destroyed = t.destroyed
         /\ Fresh(t) \notin DOMAIN t.heap /\ Fresh(t) \in Nat \ {0}
         /\ Known(Make(t, object), Fresh(t))
         /\ Gone(t) => Gone(Make(t, object))
<1> DEFINE w == Make(t, object)
           a == Fresh(t)
           D == DOMAIN t.heap
           h == [o \in D \union {a} |-> IF o = a THEN object ELSE t.heap[o]]
<1>1. a \in 1..MaxObjects /\ a \notin D /\ MaxObjects \in Nat /\ D \subseteq 1..MaxObjects
  BY RoomIsFree, HoldersAssumption DEF Sound, Shaped
<1>2. w = [heap |-> h, levels |-> t.levels, destroyed |-> t.destroyed]
  <2>2. t = [heap |-> t.heap, levels |-> t.levels, destroyed |-> t.destroyed]
    BY DEF Sound, Shaped
  <2>. QED  BY <2>2 DEF Make
<1>3. w.heap = h /\ w.levels = t.levels /\ w.destroyed = t.destroyed
  BY <1>2
<1>4. DOMAIN h = D \union {a} /\ h[a] = object /\ \A o \in D : h[o] = t.heap[o]
  BY <1>1
<1>5. object \in Objects
  BY DEF TextOf, InstanceOf, Objects, Plain
<1>6. \A o \in D : t.heap[o] \in Objects
  BY DEF Sound, Shaped
<1>7. h \in [D \union {a} -> Objects]
  BY <1>5, <1>6
<1> HIDE DEF w, h
<1>8. Shaped(w)
  <2>1. D \union {a} \in SUBSET (1..MaxObjects)
    BY <1>1
  <2>. QED  BY <1>2, <1>7, <2>1 DEF Sound, Shaped
<1>9. /\ \A v : Known(t, v) => Known(w, v)
      /\ \A x : KnownLevel(t, x) => KnownLevel(w, x)
      /\ \A o \in D : IsInstance(w, o) <=> IsInstance(t, o)
      /\ Known(w, a)
  BY <1>1, <1>3, <1>4 DEF Known, KnownLevel, IsInstance
<1>10. IsInstance(w, a) => object = InstanceOf(m + 1) /\ k = m + 1 /\ object.born = m + 1 /\ object.member = Plain
  BY <1>3, <1>4 DEF IsInstance, TextOf, InstanceOf
<1>11. k \in {m, m + 1}
  OBVIOUS
<1>12. \A o \in D : IsInstance(t, o) => t.heap[o].born \in 1..m /\ Known(t, t.heap[o].member)
  BY DEF Sound
<1>13. Known(w, Plain)
  BY DEF Known, Plain
<1>14. \A k1 \in DOMAIN w.levels : KnownLevel(w, w.levels[k1])
  BY <1>3, <1>9 DEF Sound
<1>15. \A o \in DOMAIN w.heap :
       IsInstance(w, o) => w.heap[o].born \in 1..k /\ Known(w, w.heap[o].member)
  BY <1>3, <1>4, <1>9, <1>10, <1>11, <1>12, <1>13
<1>16. \A o, p \in DOMAIN w.heap :
       IsInstance(w, o) /\ IsInstance(w, p) /\ w.heap[o].born = w.heap[p].born => o = p
  BY <1>3, <1>4, <1>9, <1>10, <1>12 DEF Sound
<1>17. w.destroyed \subseteq 1..k
  BY <1>3, <1>11 DEF Sound
<1>18. Sound(w, k)
  BY <1>8, <1>14, <1>15, <1>16, <1>17 DEF Sound
<1>19. Gone(t) => Gone(w)
  <2>1. m + 1 \notin t.destroyed
    BY DEF Sound
  <2>. QED  BY <1>3, <1>4, <1>9, <1>10, <2>1 DEF Gone
<1>. QED  BY <1>1, <1>3, <1>4, <1>9, <1>18, <1>19 DEF w

(* An object becomes `object`: a member is assigned, a text appended to.   *)
WithObject(t, o, object) == [t EXCEPT !.heap = [@ EXCEPT ![o] = object]]

LEMMA ObjectSet ==
  ASSUME NEW t, NEW m, Sound(t, m), NEW o \in DOMAIN t.heap, NEW object \in Objects,
         \/ ~IsInstance(t, o) /\ object.kind = "text"
         \/ /\ IsInstance(t, o) /\ object.kind = "instance"
            /\ object.born = t.heap[o].born /\ Known(t, object.member)
  PROVE  LET w == WithObject(t, o, object)
         IN  /\ Sound(w, m)
             /\ DOMAIN w.heap = DOMAIN t.heap /\ w.heap[o] = object
             /\ \A p \in DOMAIN t.heap : p # o => w.heap[p] = t.heap[p]
             /\ w.levels = t.levels /\ w.destroyed = t.destroyed
             /\ \A p \in DOMAIN t.heap : IsInstance(w, p) <=> IsInstance(t, p)
             /\ \A v : Known(w, v) <=> Known(t, v)
<1> DEFINE w == WithObject(t, o, object)
           h == [t.heap EXCEPT ![o] = object]
           D == DOMAIN t.heap
<1>1. w = [heap |-> h, levels |-> t.levels, destroyed |-> t.destroyed]
  <2>1. t = [heap |-> t.heap, levels |-> t.levels, destroyed |-> t.destroyed]
    BY DEF Sound, Shaped
  <2>2. w = [t EXCEPT !.heap = h]
    BY DEF WithObject
  <2> HIDE DEF h, w
  <2>. QED  BY <2>1, <2>2
<1>2. w.heap = h /\ w.levels = t.levels /\ w.destroyed = t.destroyed
  BY <1>1
<1>3. D \subseteq 1..MaxObjects /\ t.heap \in [D -> Objects] /\ o > 0
  BY HoldersAssumption DEF Sound, Shaped
<1>4. h \in [D -> Objects] /\ h[o] = object /\ \A p \in D : p # o => h[p] = t.heap[p]
  BY <1>3
<1> HIDE DEF w, h
<1>5. Shaped(w)
  <2>1. D \in SUBSET (1..MaxObjects)
    BY <1>3
  <2>. QED  BY <1>1, <1>4, <2>1 DEF Sound, Shaped
<1>6. \A p \in D : IsInstance(w, p) <=> IsInstance(t, p)
  <2>1. IsInstance(w, o) <=> IsInstance(t, o)
    BY <1>2, <1>3, <1>4 DEF IsInstance, IsObject
  <2>. QED  BY <1>2, <1>4, <2>1 DEF IsInstance
<1>7. /\ \A v : Known(w, v) <=> Known(t, v)
      /\ \A l : KnownLevel(w, l) <=> KnownLevel(t, l)
  <2>1. DOMAIN w.heap = D
    BY <1>2, <1>4
  <2>. QED  BY <2>1 DEF Known, KnownLevel
<1>8. \A p \in D : IsInstance(t, p) => w.heap[p].born = t.heap[p].born /\ Known(t, w.heap[p].member)
  <2>1. \A p \in D : IsInstance(t, p) => Known(t, t.heap[p].member)
    BY DEF Sound
  <2>2. IsInstance(t, o) => object.born = t.heap[o].born /\ Known(t, object.member)
    OBVIOUS
  <2>. QED  BY <2>1, <2>2, <1>2, <1>4
<1>9. DOMAIN w.heap = D
  BY <1>2, <1>4
<1>. QED  BY <1>2, <1>4, <1>5, <1>6, <1>7, <1>8, <1>9 DEF Sound, w

LEMMA EntersLevel ==
  ASSUME NEW t, NEW m, Sound(t, m), NEW self, Known(t, self), NEW argument, Known(t, argument)
  PROVE  LET w == Entered(t, self, argument)
             l == Level(self, argument)
         IN  /\ Sound(w, m)
             /\ w.heap = t.heap /\ w.destroyed = t.destroyed
             /\ Len(w.levels) = Len(t.levels) + 1
             /\ DOMAIN w.levels = 1..Len(t.levels) + 1
             /\ \A k \in DOMAIN t.levels : w.levels[k] = t.levels[k]
             /\ w.levels[Len(t.levels) + 1] = l
             /\ \A x \in Scope : l.vars[x] \in {Unbound, self, argument}
             /\ l.bound = self /\ l.last = Plain
<1> DEFINE w == Entered(t, self, argument)
           l == Level(self, argument)
           n == Len(t.levels)
<1>1. /\ w = [heap |-> t.heap, levels |-> Append(t.levels, l), destroyed |-> t.destroyed]
      /\ t.levels \in Seq(Levels) /\ n \in Nat
  <2>1. t = [heap |-> t.heap, levels |-> t.levels, destroyed |-> t.destroyed]
    BY DEF Sound, Shaped
  <2>2. t.levels \in Seq(Levels) /\ n \in Nat
    BY LenProperties DEF Sound, Shaped
  <2> DEFINE levels == Append(t.levels, l)
  <2>3. w = [t EXCEPT !.levels = levels]
    BY DEF Entered
  <2> HIDE DEF l, w, levels
  <2>4. w = [heap |-> t.heap, levels |-> levels, destroyed |-> t.destroyed]
    BY <2>1, <2>3
  <2>. QED  BY <2>2, <2>4 DEF levels
<1>2. w.heap = t.heap /\ w.destroyed = t.destroyed /\ w.levels = Append(t.levels, l)
  BY <1>1
<1>3. Known(t, Unbound) /\ Known(t, Plain) /\ self \in Int /\ argument \in Int
  BY DEF Known, Unbound, Plain
<1>4. /\ l.vars = [x \in Scope |-> IF x = "self" THEN self
                                   ELSE IF x = Parameter THEN argument ELSE Unbound]
      /\ l.bound = self /\ l.last = Plain /\ l.held = {} /\ l.inner = {}
      /\ l = [vars |-> l.vars, bound |-> self, last |-> Plain, held |-> {}, inner |-> {}]
  BY DEF Level
<1>5. \A x \in Scope : l.vars[x] \in {Unbound, self, argument}
  BY <1>4
<1>6. l.vars \in [Scope -> Int]
  BY <1>3, <1>4 DEF Unbound
<1>7. l \in Levels
  <2>1. Plain \in Int
    BY DEF Plain
  <2> HIDE DEF l
  <2>. QED  BY <1>3, <1>4, <1>6, <2>1 DEF Levels
<1> HIDE DEF l, w
<1>8. KnownLevel(t, l)
  BY <1>3, <1>4, <1>5, <1>7 DEF KnownLevel
<1>9. /\ w.levels \in Seq(Levels) /\ Len(w.levels) = n + 1
      /\ \A k \in 1..n : w.levels[k] = t.levels[k]
      /\ w.levels[n + 1] = l
  BY <1>1, <1>2, <1>7, AppendProperties
<1>10. DOMAIN w.levels = 1..n + 1 /\ DOMAIN t.levels = 1..n
  BY <1>1, <1>9, LenProperties
<1>11. /\ \A v : Known(w, v) <=> Known(t, v)
       /\ \A x : KnownLevel(w, x) <=> KnownLevel(t, x)
       /\ \A o : IsInstance(w, o) <=> IsInstance(t, o)
  BY <1>2 DEF Known, KnownLevel, IsInstance
<1>12. Shaped(w)
  BY <1>1, <1>2, <1>9 DEF Sound, Shaped
<1>13. \A k \in DOMAIN w.levels : KnownLevel(w, w.levels[k])
  <2>1. \A k \in 1..n : KnownLevel(w, w.levels[k])
    BY <1>9, <1>10, <1>11 DEF Sound
  <2>2. KnownLevel(w, w.levels[n + 1])
    BY <1>8, <1>9, <1>11
  <2>3. \A k \in DOMAIN w.levels : k \in 1..n \/ k = n + 1
    BY <1>1, <1>10
  <2>. QED  BY <2>1, <2>2, <2>3
<1>14. Sound(w, m)
  BY <1>2, <1>11, <1>12, <1>13 DEF Sound
<1>. QED  BY <1>1, <1>2, <1>4, <1>5, <1>9, <1>10, <1>14 DEF w, l

(* The innermost scope is left, the objects stay as they are.              *)
Leaves(t, destroyed) == [heap |-> t.heap, levels |-> Front(t.levels), destroyed |-> destroyed]

LEMMA LeavesLevel ==
  ASSUME NEW t, NEW m, Sound(t, m), Len(t.levels) > 1, NEW destroyed \in SUBSET (1..m)
  PROVE  LET w == Leaves(t, destroyed)
             n == Len(t.levels) - 1
         IN  /\ Sound(w, m)
             /\ Len(w.levels) = n /\ DOMAIN w.levels = 1..n
             /\ \A k \in 1..n : w.levels[k] = t.levels[k]
             /\ w.heap = t.heap /\ w.destroyed = destroyed
<1> DEFINE w == Leaves(t, destroyed)
           n == Len(t.levels) - 1
<1>1. /\ t.levels \in Seq(Levels) /\ Len(t.levels) \in Nat
      /\ w.heap = t.heap /\ w.levels = Front(t.levels) /\ w.destroyed = destroyed
      /\ w = [heap |-> t.heap, levels |-> w.levels, destroyed |-> destroyed]
  BY LenProperties DEF Leaves, Sound, Shaped
<1>2. Front(t.levels) = SubSeq(t.levels, 1, n)
  BY DEF Front
<1> HIDE DEF w
<1>3. n \in Nat /\ n <= Len(t.levels) /\ n # 0
  <2>1. Len(t.levels) \in Nat
    BY <1>1, Zenon
  <2>2. \A i \in Nat : i > 1 => i - 1 \in Nat /\ i - 1 <= i /\ i - 1 # 0
    OBVIOUS
  <2>. QED  BY <2>1, <2>2, Zenon
<1> HIDE DEF n
<1>4. /\ w.levels \in Seq(Levels) /\ Len(w.levels) = n
      /\ \A k \in 1..n : w.levels[k] = t.levels[k]
  <2> HIDE DEF Levels
  <2>1. /\ SubSeq(t.levels, 1, n) \in Seq(Levels) /\ Len(SubSeq(t.levels, 1, n)) = n
        /\ \A k \in 1..n : SubSeq(t.levels, 1, n)[k] = t.levels[k]
    BY <1>1, <1>3, PrefixProperties
  <2>. QED  BY <1>1, <1>2, <2>1
<1>5. DOMAIN w.levels = 1..n /\ 1..n \subseteq DOMAIN t.levels
  BY <1>1, <1>3, <1>4, LenProperties
<1>6. /\ \A v : Known(w, v) <=> Known(t, v)
      /\ \A x : KnownLevel(w, x) <=> KnownLevel(t, x)
      /\ \A o : IsInstance(w, o) <=> IsInstance(t, o)
  BY <1>1 DEF Known, KnownLevel, IsInstance
<1>7. Shaped(w)
  <2>1. destroyed \in SUBSET Nat
    <3>1. m \in Nat \/ 1..m \subseteq Nat
      OBVIOUS
    <3>. QED  BY <3>1
  <2>. QED  BY <1>1, <1>3, <1>4, <2>1 DEF Sound, Shaped
<1>8. Sound(w, m)
  BY <1>1, <1>4, <1>5, <1>6, <1>7 DEF Sound
<1>. QED  BY <1>1, <1>4, <1>5, <1>8 DEF w, n

-----------------------------------------------------------------------------
(* What the code asks of a run.                                            *)

(* An object with a use count of one and a name is held by that name only. *)
LEMMA SoleHolder ==
  ASSUME NEW t, NEW m, Sound(t, m), NEW o, UseCount(t, o) = 1,
         NEW j \in DOMAIN t.levels, NEW y \in Scope, t.levels[j].vars[y] = o
  PROVE  /\ \A k \in DOMAIN t.levels, x \in Scope : t.levels[k].vars[x] = o => k = j /\ x = y
         /\ \A p \in DOMAIN t.heap : IsInstance(t, p) => t.heap[p].member # o
         /\ \A k \in DOMAIN t.levels :
              /\ o # t.levels[k].last /\ o # t.levels[k].bound
              /\ o \notin t.levels[k].held /\ o \notin t.levels[k].inner
<1> DEFINE A == NamesOf(t, o)
           B == MembersWith(t, o)
           C == Passing(t, o)
           D == Callers(t, o)
           L == DOMAIN t.levels
<1>1. IsFiniteSet(Scope)
  <2>1. IsFiniteSet(Idents \union {"self"})
    BY HoldersAssumption, FS_AddElement
  <2>. QED  BY <2>1 DEF Scope
<1>2. IsFiniteSet(L)
  <2>1. L = 1..Len(t.levels) /\ Len(t.levels) \in Int
    BY InnermostKnown
  <2>2. 1 \in Int
    OBVIOUS
  <2> HIDE DEF L
  <2>. QED  BY <2>1, <2>2, FS_Interval
<1>3. IsFiniteSet(DOMAIN t.heap)
  <2>1. DOMAIN t.heap \in SUBSET (1..MaxObjects) /\ MaxObjects \in Int /\ 1 \in Int
    BY HoldersAssumption DEF Sound, Shaped
  <2>2. IsFiniteSet(1..MaxObjects)
    BY <2>1, FS_Interval
  <2>. QED  BY <2>1, <2>2, FS_Subset
<1>4. IsFiniteSet(L \X Scope)
  <2> HIDE DEF L
  <2>. QED  BY <1>1, <1>2, FS_Product
<1>5. A \in SUBSET (L \X Scope) /\ B \in SUBSET (DOMAIN t.heap) /\ C \in SUBSET L /\ D \in SUBSET L
  BY DEF NamesOf, MembersWith, Passing, Callers
<1>6. <<j, y>> \in A
  BY DEF NamesOf
<1>7. Cardinality(A) + Cardinality(B) + Cardinality(C) + Cardinality(D) = 1
  BY DEF UseCount
<1> HIDE DEF A, B, C, D, L
<1>8. IsFiniteSet(A) /\ IsFiniteSet(B) /\ IsFiniteSet(C) /\ IsFiniteSet(D)
  BY <1>2, <1>3, <1>4, <1>5, FS_Subset
<1>9. /\ Cardinality(A) \in Nat /\ Cardinality(B) \in Nat
      /\ Cardinality(C) \in Nat /\ Cardinality(D) \in Nat
  BY <1>8, FS_CardinalityType
<1>10. Cardinality(A) # 0
  BY <1>6, <1>8, FS_EmptySet
<1>11. Cardinality(A) = 1 /\ Cardinality(B) = 0 /\ Cardinality(C) = 0 /\ Cardinality(D) = 0
  BY <1>7, <1>9, <1>10
<1>12. B = {} /\ C = {} /\ D = {}
  BY <1>8, <1>11, FS_EmptySet
<1>13. A = {<<j, y>>}
  <2>1. \E b : A = {b}
    BY <1>8, <1>11, FS_Singleton
  <2>. QED  BY <2>1, <1>6
<1>14. \A k \in L, x \in Scope : t.levels[k].vars[x] = o => k = j /\ x = y
  <2> SUFFICES ASSUME NEW k \in L, NEW x \in Scope, t.levels[k].vars[x] = o PROVE k = j /\ x = y
    OBVIOUS
  <2>1. <<k, x>> \in A
    BY DEF A, L, NamesOf
  <2>2. <<k, x>> = <<j, y>>
    BY <2>1, <1>13
  <2>. QED  BY <2>2
<1>. QED  BY <1>12, <1>14 DEF B, C, D, L, MembersWith, Passing, Callers

LEMMA BindingKnown ==
  ASSUME NEW t, NEW m, Sound(t, m), NEW x \in Scope
  PROVE  /\ Known(t, Binding(t, x))
         /\ Binding(t, x) # Unbound => \E k \in DOMAIN t.levels : Binding(t, x) = t.levels[k].vars[x]
         /\ Innermost(t).vars[x] # Unbound => Binding(t, x) = Innermost(t).vars[x]
<1> DEFINE ks == {k \in DOMAIN t.levels : t.levels[k].vars[x] # Unbound}
           n == Len(t.levels)
<1>1. n \in Nat \ {0} /\ DOMAIN t.levels = 1..n
  BY InnermostKnown
<1>2. Binding(t, x) = IF ks = {} THEN Unbound ELSE t.levels[Max(ks)].vars[x]
  BY DEF Binding
<1>3. Known(t, Unbound)
  BY DEF Known, Unbound
<1>4. ASSUME ks # {} PROVE Max(ks) \in ks /\ \A k \in ks : k <= Max(ks)
  <2>1. ks \in SUBSET (0..n)
    BY <1>1
  <2>2. n \in Nat
    BY <1>1
  <2> HIDE DEF ks, n
  <2>. QED  BY <1>4, <2>1, <2>2, GreatestElement
<1>5. \A k \in DOMAIN t.levels : Known(t, t.levels[k].vars[x])
  BY DEF Sound, KnownLevel
<1>6. n \in DOMAIN t.levels /\ Innermost(t) = t.levels[n]
  BY <1>1 DEF Innermost
<1>7. ASSUME t.levels[n].vars[x] # Unbound PROVE Binding(t, x) = t.levels[n].vars[x]
  <2>1. n \in ks
    BY <1>6, <1>7
  <2>2. Max(ks) \in ks /\ n <= Max(ks) /\ ks # {}
    BY <1>4, <2>1
  <2>3. Max(ks) = n
    BY <2>2, <1>1
  <2>. QED  BY <2>2, <2>3, <1>2
<1>. QED  BY <1>2, <1>3, <1>4, <1>5, <1>6, <1>7

(* The run w is t with no more than one object added.                      *)
Grown(t, w) ==
  /\ w.levels = t.levels /\ w.destroyed = t.destroyed
  /\ DOMAIN t.heap \subseteq DOMAIN w.heap
  /\ \A o \in DOMAIN t.heap : w.heap[o] = t.heap[o]
  /\ HasRoom(t, 2) => HasRoom(w, 1)

LEMMA MakesRoom ==
  ASSUME NEW t, NEW m \in Nat, Sound(t, m), HasRoom(t, 1), NEW object,
         NEW n \in Nat, object = TextOf(n) \/ (object = InstanceOf(m + 1) /\ n = m + 1),
         NEW k \in Nat, k = IF object = TextOf(n) THEN m ELSE m + 1
  PROVE  Grown(t, Make(t, object))
<1> DEFINE c == Cardinality(DOMAIN t.heap)
<1>1. /\ DOMAIN Make(t, object).heap = DOMAIN t.heap \union {Fresh(t)}
      /\ \A o \in DOMAIN t.heap : Make(t, object).heap[o] = t.heap[o]
      /\ Make(t, object).levels = t.levels /\ Make(t, object).destroyed = t.destroyed
  BY Makes
<1>2. Cardinality(DOMAIN t.heap \union {Fresh(t)}) = c + 1 /\ c \in Nat
  BY RoomIsFree
<1>3. c + 2 <= MaxObjects => (c + 1) + 1 <= MaxObjects
  BY <1>2, HoldersAssumption
<1>. QED  BY <1>1, <1>2, <1>3 DEF Grown, HasRoom

LEMMA EvalSound ==
  ASSUME NEW t, made \in Nat, Sound(t, made), NEW e \in Sources, Evaluates(t, e)
  PROVE  /\ made + Counts(e) \in Nat /\ Sound(Eval(t, e).t, made + Counts(e))
         /\ Known(Eval(t, e).t, Eval(t, e).v)
         /\ \A v \in Eval(t, e).seen : Known(Eval(t, e).t, v)
         /\ Grown(t, Eval(t, e).t)
         /\ Gone(t) => Gone(Eval(t, e).t)
<1>0. Grown(t, t)
  <2>0. MaxObjects \in Nat /\ MaxObjects \in Int /\ 1 \in Int
    BY HoldersAssumption
  <2>1. /\ DOMAIN t.heap \in SUBSET (1..MaxObjects) /\ MaxObjects \in Nat
        /\ IsFiniteSet(1..MaxObjects)
    <3>1. IsFiniteSet(1..MaxObjects)
      BY <2>0, FS_Interval
    <3>. QED  BY <2>0, <3>1 DEF Sound, Shaped
  <2>2. Cardinality(DOMAIN t.heap) \in Nat
    BY <2>1, FS_Subset, FS_CardinalityType
  <2>. QED  BY <2>1, <2>2 DEF Grown, HasRoom
<1>1. CASE e.k = "text"
  <2> DEFINE w == Make(t, TextOf(1))
  <2>1. Eval(t, e) = [t |-> w, v |-> Fresh(t), seen |-> {}] /\ Counts(e) = 0 /\ HasRoom(t, 1)
    BY <1>1 DEF Eval, Counts, Evaluates
  <2>2. Sound(w, made) /\ Known(w, Fresh(t)) /\ Grown(t, w) /\ (Gone(t) => Gone(w))
    BY <2>1, Makes, MakesRoom
  <2> HIDE DEF w
  <2>. QED  BY <2>1, <2>2
<1>2. CASE e.k = "instance"
  <2> DEFINE w == Make(t, InstanceOf(made + 1))
  <2>1. Eval(t, e) = [t |-> w, v |-> Fresh(t), seen |-> {Fresh(t)}] /\ Counts(e) = 1 /\ HasRoom(t, 1)
    BY <1>2 DEF Eval, Counts, Evaluates
  <2>2. made + 1 \in Nat /\ InstanceOf(made + 1) # TextOf(made + 1)
    BY DEF InstanceOf, TextOf
  <2>3. Sound(w, made + 1) /\ Known(w, Fresh(t)) /\ Grown(t, w) /\ (Gone(t) => Gone(w))
    BY <2>1, <2>2, Makes, MakesRoom
  <2> HIDE DEF w
  <2>. QED  BY <2>1, <2>2, <2>3
<1>3. CASE e.k = "plain"
  <2>1. Eval(t, e) = [t |-> t, v |-> Plain, seen |-> {}] /\ Counts(e) = 0
    BY <1>3 DEF Eval, Counts
  <2>2. Known(t, Plain)
    BY DEF Known, Plain
  <2>. QED  BY <1>0, <2>1, <2>2
<1>4. CASE e.k = "var"
  <2>1. /\ Eval(t, e) = [t |-> t, v |-> Binding(t, e.x), seen |-> {Binding(t, e.x)}]
        /\ Counts(e) = 0 /\ e.x \in Scope
    BY <1>4 DEF Eval, Counts, Sources
  <2>2. Known(t, Binding(t, e.x))
    BY <2>1, BindingKnown
  <2>. QED  BY <1>0, <2>1, <2>2
<1>5. CASE e.k = "member"
  <2> DEFINE b == Binding(t, e.x)
  <2>1. /\ Eval(t, e) = [t |-> t, v |-> t.heap[b].member, seen |-> {b, t.heap[b].member}]
        /\ Counts(e) = 0 /\ e.x \in Scope /\ IsInstance(t, b)
    BY <1>5 DEF Eval, Counts, Sources, Evaluates
  <2>2. Known(t, b)
    BY <2>1, BindingKnown
  <2> HIDE DEF b
  <2>3. Known(t, t.heap[b].member)
    BY <2>1, <2>2 DEF Known, IsInstance, IsObject, Sound
  <2>. QED  BY <1>0, <2>1, <2>2, <2>3
<1>. QED  BY <1>1, <1>2, <1>3, <1>4, <1>5 DEF Sources

-----------------------------------------------------------------------------
(* Two runs that a program cannot tell apart.                              *)
Same(s, v, t, w) == Appearance(s, v) = Appearance(t, w)

AgreeLevel(s, l, t, k) ==
  /\ \A x \in Scope : Same(s, l.vars[x], t, k.vars[x])
  /\ Same(s, l.bound, t, k.bound) /\ Same(s, l.last, t, k.last)

Agree(s, t) ==
  /\ Len(s.levels) = Len(t.levels)
  /\ \A k \in DOMAIN s.levels : AgreeLevel(s, s.levels[k], t, t.levels[k])
  /\ \A o \in DOMAIN s.heap, p \in DOMAIN t.heap :
       IsInstance(s, o) /\ IsInstance(t, p) /\ s.heap[o].born = t.heap[p].born
         => Same(s, s.heap[o].member, t, t.heap[p].member)

LEMMA AppearanceOf ==
  ASSUME NEW t, NEW m, Sound(t, m), NEW v, Known(t, v)
  PROVE  /\ v \in Int
         /\ v > 0 => \/ IsText(t, v) /\ ~IsInstance(t, v) /\ t.heap[v].length \in Nat
                     \/ IsInstance(t, v) /\ ~IsText(t, v)
         /\ IsText(t, v) => v > 0 /\ Appearance(t, v) = [kind |-> "text", n |-> t.heap[v].length]
         /\ IsInstance(t, v) => v > 0 /\ Appearance(t, v) = [kind |-> "instance", n |-> t.heap[v].born]
         /\ ~(v > 0) => Appearance(t, v) = [kind |-> "plain", n |-> v]
<1>1. v \in Int /\ (v > 0 => v \in DOMAIN t.heap /\ t.heap[v] \in Objects)
  BY DEF Known, Sound, Shaped
<1>2. v > 0 => \/ IsText(t, v) /\ ~IsInstance(t, v) /\ t.heap[v].length \in Nat
               \/ IsInstance(t, v) /\ ~IsText(t, v)
  BY <1>1 DEF IsText, IsInstance, IsObject, Objects
<1>3. (IsText(t, v) => v > 0) /\ (IsInstance(t, v) => v > 0)
  BY DEF IsText, IsInstance, IsObject
<1>. QED  BY <1>1, <1>2, <1>3 DEF Appearance

LEMMA SameLooks ==
  ASSUME NEW s, NEW m, Sound(s, m), NEW v, Known(s, v),
         NEW t, NEW j, Sound(t, j), NEW w, Known(t, w), Same(s, v, t, w)
  PROVE  /\ IsInstance(s, v) <=> IsInstance(t, w)
         /\ IsText(s, v) <=> IsText(t, w)
         /\ IsInstance(s, v) => s.heap[v].born = t.heap[w].born
         /\ IsText(s, v) => s.heap[v].length = t.heap[w].length
         /\ ~(v > 0) \/ ~(w > 0) => v = w
<1> DEFINE A == Appearance(s, v)
<1>1. A = Appearance(t, w)
  BY DEF Same
<1>2. /\ IsText(s, v) => A = [kind |-> "text", n |-> s.heap[v].length]
      /\ IsInstance(s, v) => A = [kind |-> "instance", n |-> s.heap[v].born]
      /\ ~(v > 0) => A = [kind |-> "plain", n |-> v]
      /\ v > 0 => IsText(s, v) \/ IsInstance(s, v)
      /\ (IsText(s, v) \/ IsInstance(s, v)) => v > 0
  BY AppearanceOf
<1>3. /\ IsText(t, w) => A = [kind |-> "text", n |-> t.heap[w].length]
      /\ IsInstance(t, w) => A = [kind |-> "instance", n |-> t.heap[w].born]
      /\ ~(w > 0) => A = [kind |-> "plain", n |-> w]
      /\ w > 0 => IsText(t, w) \/ IsInstance(t, w)
      /\ (IsText(t, w) \/ IsInstance(t, w)) => w > 0
  BY <1>1, AppearanceOf
<1> HIDE DEF A
<1>4. /\ IsText(s, v) => A.kind = "text" /\ A.n = s.heap[v].length
      /\ IsInstance(s, v) => A.kind = "instance" /\ A.n = s.heap[v].born
      /\ ~(v > 0) => A.kind = "plain" /\ A.n = v
  BY <1>2
<1>5. /\ IsText(t, w) => A.kind = "text" /\ A.n = t.heap[w].length
      /\ IsInstance(t, w) => A.kind = "instance" /\ A.n = t.heap[w].born
      /\ ~(w > 0) => A.kind = "plain" /\ A.n = w
  BY <1>3
<1>. QED  BY <1>2, <1>3, <1>4, <1>5

(* Of a value, only its object counts, and of an instance its number.      *)
LEMMA LooksStay ==
  ASSUME NEW s, NEW t, NEW v,
         v > 0 => \/ s.heap[v] = t.heap[v]
                  \/ /\ s.heap[v].kind = "instance" /\ t.heap[v].kind = "instance"
                     /\ s.heap[v].born = t.heap[v].born
  PROVE  /\ Appearance(s, v) = Appearance(t, v)
         /\ IsInstance(s, v) <=> IsInstance(t, v)
         /\ IsText(s, v) <=> IsText(t, v)
BY DEF Appearance, IsInstance, IsText, IsObject

LEMMA TextLooks ==
  ASSUME NEW t, NEW v, v > 0, NEW n, t.heap[v] = TextOf(n)
  PROVE  Appearance(t, v) = [kind |-> "text", n |-> n] /\ IsText(t, v) /\ ~IsInstance(t, v)
<1>1. t.heap[v].kind = "text" /\ t.heap[v].length = n
  BY DEF TextOf
<1>2. IsText(t, v) /\ ~IsInstance(t, v)
  BY <1>1 DEF IsText, IsInstance, IsObject
<1>. QED  BY <1>1, <1>2 DEF Appearance

(* What a pair of runs needs to agree when its objects change: the values  *)
(* of the scopes look as they did, and so do the members.                  *)
LEMMA AgreeWhenAlike ==
  ASSUME NEW s, NEW m, Sound(s, m), NEW t, Sound(t, m), Agree(s, t),
         NEW a, NEW b, a.levels = s.levels, b.levels = t.levels,
         \A v : Known(s, v) => Appearance(a, v) = Appearance(s, v),
         \A w : Known(t, w) => Appearance(b, w) = Appearance(t, w),
         \A o \in DOMAIN a.heap, p \in DOMAIN b.heap :
           IsInstance(a, o) /\ IsInstance(b, p) /\ a.heap[o].born = b.heap[p].born
             => Same(a, a.heap[o].member, b, b.heap[p].member)
  PROVE  Agree(a, b)
<1>1. ASSUME NEW k \in DOMAIN s.levels PROVE AgreeLevel(a, s.levels[k], b, t.levels[k])
  <2>1. /\ KnownLevel(s, s.levels[k]) /\ KnownLevel(t, t.levels[k])
        /\ AgreeLevel(s, s.levels[k], t, t.levels[k])
    BY InnermostKnown DEF Agree, Sound
  <2>. QED  BY <2>1 DEF KnownLevel, AgreeLevel, Same
<1>. QED  BY <1>1 DEF Agree

LEMMA AgreeGrown ==
  ASSUME NEW s, NEW m \in Nat, Sound(s, m), NEW t, Sound(t, m), Agree(s, t),
         NEW a, NEW b, Grown(s, a), Grown(t, b), NEW k, Sound(a, k), Sound(b, k),
         \A o \in DOMAIN a.heap \ DOMAIN s.heap :
           IsInstance(a, o) => a.heap[o].born > m /\ a.heap[o].member = Plain,
         \A p \in DOMAIN b.heap \ DOMAIN t.heap :
           IsInstance(b, p) => b.heap[p].born > m /\ b.heap[p].member = Plain
  PROVE  /\ Agree(a, b)
         /\ \A v : Known(s, v) => Appearance(a, v) = Appearance(s, v)
         /\ \A v : Known(t, v) => Appearance(b, v) = Appearance(t, v)
<1>1. \A v : Known(s, v) => Appearance(a, v) = Appearance(s, v) /\ (IsInstance(a, v) <=> IsInstance(s, v))
  BY LooksStay DEF Grown, Known
<1>2. \A v : Known(t, v) => Appearance(b, v) = Appearance(t, v) /\ (IsInstance(b, v) <=> IsInstance(t, v))
  BY LooksStay DEF Grown, Known
<1>3. /\ \A o \in DOMAIN s.heap : Known(s, o) /\ a.heap[o] = s.heap[o]
      /\ \A p \in DOMAIN t.heap : Known(t, p) /\ b.heap[p] = t.heap[p]
  BY HoldersAssumption DEF Known, Grown, Sound, Shaped
<1>4. ASSUME NEW o \in DOMAIN a.heap, NEW p \in DOMAIN b.heap, IsInstance(a, o), IsInstance(b, p),
             a.heap[o].born = b.heap[p].born
      PROVE  Same(a, a.heap[o].member, b, b.heap[p].member)
  <2>1. CASE o \in DOMAIN s.heap /\ p \in DOMAIN t.heap
    <3>1. IsInstance(s, o) /\ IsInstance(t, p) /\ s.heap[o].born = t.heap[p].born
      BY <1>1, <1>2, <1>3, <1>4, <2>1
    <3>2. /\ Same(s, s.heap[o].member, t, t.heap[p].member)
          /\ Known(s, s.heap[o].member) /\ Known(t, t.heap[p].member)
      BY <2>1, <3>1 DEF Agree, Sound
    <3>. QED  BY <1>1, <1>2, <1>3, <2>1, <3>2 DEF Same
  <2>2. o \in DOMAIN s.heap => IsInstance(s, o) /\ s.heap[o].born \in 1..m /\ a.heap[o].born \in 1..m
    BY <1>1, <1>3, <1>4 DEF Sound
  <2>3. p \in DOMAIN t.heap => IsInstance(t, p) /\ t.heap[p].born \in 1..m /\ b.heap[p].born \in 1..m
    BY <1>2, <1>3, <1>4 DEF Sound
  <2>4. CASE o \notin DOMAIN s.heap /\ p \notin DOMAIN t.heap
    <3>1. a.heap[o].member = Plain /\ b.heap[p].member = Plain
      BY <1>4, <2>4
    <3>2. Appearance(a, Plain) = Appearance(b, Plain)
      BY DEF Appearance, IsText, IsInstance, IsObject, Plain
    <3>. QED  BY <3>1, <3>2 DEF Same
  <2>. QED  BY <1>4, <2>1, <2>2, <2>3, <2>4
<1>5. a.levels = s.levels /\ b.levels = t.levels
  BY DEF Grown
<1>6. Agree(a, b)
  BY <1>1, <1>2, <1>4, <1>5, AgreeWhenAlike
<1>. QED  BY <1>1, <1>2, <1>6

LEMMA BindingsLookSame ==
  ASSUME NEW s, NEW m, Sound(s, m), NEW t, Sound(t, m), Agree(s, t), NEW x \in Scope
  PROVE  Same(s, Binding(s, x), t, Binding(t, x))
<1> DEFINE ks == {k \in DOMAIN s.levels : s.levels[k].vars[x] # Unbound}
           js == {k \in DOMAIN t.levels : t.levels[k].vars[x] # Unbound}
<1>1. DOMAIN s.levels = DOMAIN t.levels
  BY InnermostKnown DEF Agree
<1>2. ASSUME NEW k \in DOMAIN s.levels
      PROVE  /\ Same(s, s.levels[k].vars[x], t, t.levels[k].vars[x])
             /\ s.levels[k].vars[x] = Unbound <=> t.levels[k].vars[x] = Unbound
  <2>1. /\ Same(s, s.levels[k].vars[x], t, t.levels[k].vars[x])
        /\ Known(s, s.levels[k].vars[x]) /\ Known(t, t.levels[k].vars[x])
    BY <1>1 DEF Agree, AgreeLevel, Sound, KnownLevel
  <2>. QED  BY <2>1, SameLooks DEF Unbound
<1>3. ks = js
  BY <1>1, <1>2
<1>4. CASE ks = {}
  <2>1. Binding(s, x) = Unbound /\ Binding(t, x) = Unbound
    BY <1>3, <1>4 DEF Binding
  <2>. QED  BY <2>1 DEF Same, Appearance, IsText, IsInstance, IsObject, Unbound
<1>5. CASE ks # {}
  <2>1. Binding(s, x) = s.levels[Max(ks)].vars[x] /\ Binding(t, x) = t.levels[Max(ks)].vars[x]
    BY <1>3, <1>5 DEF Binding
  <2>2. Max(ks) \in ks
    <3>1. ks \in SUBSET (0..Len(s.levels)) /\ Len(s.levels) \in Nat
      BY InnermostKnown
    <3> HIDE DEF ks
    <3>. QED  BY <1>5, <3>1, GreatestElement
  <2>. QED  BY <1>2, <2>1, <2>2
<1>. QED  BY <1>4, <1>5

(* An expression gives both runs the same.                                 *)
LEMMA EvalAgree ==
  ASSUME NEW s, made \in Nat, Sound(s, made), NEW t, Sound(t, made), Agree(s, t),
         NEW e \in Sources, Evaluates(s, e), Evaluates(t, e)
  PROVE  /\ Agree(Eval(s, e).t, Eval(t, e).t)
         /\ Same(Eval(s, e).t, Eval(s, e).v, Eval(t, e).t, Eval(t, e).v)
         /\ \A v : Known(s, v) => Appearance(Eval(s, e).t, v) = Appearance(s, v)
         /\ \A v : Known(t, v) => Appearance(Eval(t, e).t, v) = Appearance(t, v)
<1>1. CASE e.k = "text"
  <2> DEFINE o == TextOf(1)
             a == Make(s, o)
             b == Make(t, o)
  <2>1. /\ Eval(s, e) = [t |-> a, v |-> Fresh(s), seen |-> {}] /\ HasRoom(s, 1)
        /\ Eval(t, e) = [t |-> b, v |-> Fresh(t), seen |-> {}] /\ HasRoom(t, 1)
    BY <1>1 DEF Eval, Evaluates
  <2> HIDE DEF a, b
  <2>2. /\ Sound(a, made) /\ Grown(s, a) /\ a.heap[Fresh(s)] = o /\ Fresh(s) > 0
        /\ DOMAIN a.heap = DOMAIN s.heap \union {Fresh(s)}
        /\ Sound(b, made) /\ Grown(t, b) /\ b.heap[Fresh(t)] = o /\ Fresh(t) > 0
        /\ DOMAIN b.heap = DOMAIN t.heap \union {Fresh(t)}
    BY <2>1, Makes, MakesRoom DEF a, b
  <2>3. ~IsInstance(a, Fresh(s)) /\ ~IsInstance(b, Fresh(t))
    BY <2>2 DEF IsInstance, TextOf
  <2>4. /\ Agree(a, b)
        /\ \A v : Known(s, v) => Appearance(a, v) = Appearance(s, v)
        /\ \A v : Known(t, v) => Appearance(b, v) = Appearance(t, v)
    BY <2>2, <2>3, AgreeGrown
  <2>5. Same(a, Fresh(s), b, Fresh(t))
    BY <2>2, TextLooks DEF Same
  <2>. QED  BY <2>1, <2>4, <2>5
<1>2. CASE e.k = "instance"
  <2> DEFINE o == InstanceOf(made + 1)
             a == Make(s, o)
             b == Make(t, o)
  <2>1. /\ Eval(s, e) = [t |-> a, v |-> Fresh(s), seen |-> {Fresh(s)}] /\ HasRoom(s, 1)
        /\ Eval(t, e) = [t |-> b, v |-> Fresh(t), seen |-> {Fresh(t)}] /\ HasRoom(t, 1)
    BY <1>2 DEF Eval, Evaluates
  <2>0. made + 1 \in Nat /\ o # TextOf(made + 1)
    BY DEF InstanceOf, TextOf
  <2> HIDE DEF a, b
  <2>2. /\ Sound(a, made + 1) /\ Grown(s, a) /\ a.heap[Fresh(s)] = o /\ Fresh(s) > 0
        /\ DOMAIN a.heap = DOMAIN s.heap \union {Fresh(s)}
        /\ Sound(b, made + 1) /\ Grown(t, b) /\ b.heap[Fresh(t)] = o /\ Fresh(t) > 0
        /\ DOMAIN b.heap = DOMAIN t.heap \union {Fresh(t)}
    BY <2>0, <2>1, Makes, MakesRoom DEF a, b
  <2>3. o.born > made /\ o.member = Plain /\ o.kind = "instance"
    BY DEF InstanceOf
  <2>4. /\ Agree(a, b)
        /\ \A v : Known(s, v) => Appearance(a, v) = Appearance(s, v)
        /\ \A v : Known(t, v) => Appearance(b, v) = Appearance(t, v)
    BY <2>2, <2>3, AgreeGrown
  <2>5. Same(a, Fresh(s), b, Fresh(t))
    BY <2>2, <2>3 DEF Same, Appearance, IsText, IsInstance, IsObject
  <2>. QED  BY <2>1, <2>4, <2>5
<1>3. CASE e.k = "plain"
  <2>1. /\ Eval(s, e) = [t |-> s, v |-> Plain, seen |-> {}]
        /\ Eval(t, e) = [t |-> t, v |-> Plain, seen |-> {}]
    BY <1>3 DEF Eval
  <2>2. Same(s, Plain, t, Plain)
    BY DEF Same, Appearance, IsText, IsInstance, IsObject, Plain
  <2>. QED  BY <2>1, <2>2
<1>4. CASE e.k = "var"
  <2>1. /\ Eval(s, e) = [t |-> s, v |-> Binding(s, e.x), seen |-> {Binding(s, e.x)}]
        /\ Eval(t, e) = [t |-> t, v |-> Binding(t, e.x), seen |-> {Binding(t, e.x)}]
        /\ e.x \in Scope
    BY <1>4 DEF Eval, Sources
  <2>. QED  BY <2>1, BindingsLookSame
<1>5. CASE e.k = "member"
  <2> DEFINE a == Binding(s, e.x)
             b == Binding(t, e.x)
  <2>1. /\ Eval(s, e) = [t |-> s, v |-> s.heap[a].member, seen |-> {a, s.heap[a].member}]
        /\ Eval(t, e) = [t |-> t, v |-> t.heap[b].member, seen |-> {b, t.heap[b].member}]
        /\ e.x \in Scope /\ IsInstance(s, a) /\ IsInstance(t, b)
    BY <1>5 DEF Eval, Sources, Evaluates
  <2>2. Known(s, a) /\ Known(t, b) /\ Same(s, a, t, b)
    BY <2>1, BindingKnown, BindingsLookSame
  <2> HIDE DEF a, b
  <2>3. s.heap[a].born = t.heap[b].born /\ a \in DOMAIN s.heap /\ b \in DOMAIN t.heap
    BY <2>1, <2>2, SameLooks DEF Known, IsInstance, IsObject
  <2>4. Same(s, s.heap[a].member, t, t.heap[b].member)
    BY <2>1, <2>3 DEF Agree
  <2>. QED  BY <2>1, <2>4
<1>. QED  BY <1>1, <1>2, <1>3, <1>4, <1>5 DEF Sources

LEMMA AgreeLevelSet ==
  ASSUME NEW s, NEW m, Sound(s, m), NEW t, Sound(t, m), Agree(s, t),
         NEW l, KnownLevel(s, l), NEW k, KnownLevel(t, k), AgreeLevel(s, l, t, k)
  PROVE  Agree(WithLevel(s, l), WithLevel(t, k))
<1> DEFINE a == WithLevel(s, l)
           b == WithLevel(t, k)
<1>1. /\ a.heap = s.heap /\ b.heap = t.heap /\ Len(a.levels) = Len(s.levels)
      /\ Len(b.levels) = Len(t.levels)
      /\ DOMAIN a.levels = DOMAIN s.levels /\ DOMAIN b.levels = DOMAIN t.levels
      /\ \A j \in DOMAIN s.levels : a.levels[j] = IF j = Len(s.levels) THEN l ELSE s.levels[j]
      /\ \A j \in DOMAIN t.levels : b.levels[j] = IF j = Len(t.levels) THEN k ELSE t.levels[j]
  BY LevelSet
<1>2. DOMAIN s.levels = DOMAIN t.levels
  BY InnermostKnown DEF Agree
<1> HIDE DEF a, b
<1>3. /\ \A v : Appearance(a, v) = Appearance(s, v) /\ (IsInstance(a, v) <=> IsInstance(s, v))
      /\ \A v : Appearance(b, v) = Appearance(t, v) /\ (IsInstance(b, v) <=> IsInstance(t, v))
  BY <1>1, LooksStay
<1>4. ASSUME NEW j \in DOMAIN a.levels PROVE AgreeLevel(a, a.levels[j], b, b.levels[j])
  <2>1. AgreeLevel(s, a.levels[j], t, b.levels[j])
    BY <1>1, <1>2 DEF Agree
  <2>. QED  BY <2>1, <1>3 DEF AgreeLevel, Same
<1>5. Len(a.levels) = Len(b.levels)
  BY <1>1 DEF Agree
<1>. QED  BY <1>1, <1>3, <1>4, <1>5 DEF Agree, Same, a, b

LEMMA AgreeCollected ==
  ASSUME NEW s, NEW m, Sound(s, m), NEW t, Sound(t, m), Agree(s, t)
  PROVE  Agree(Collected(s), Collected(t))
<1> DEFINE a == Collected(s)
           b == Collected(t)
<1>1. /\ a.levels = s.levels /\ b.levels = t.levels
      /\ a.heap = [o \in Kept(s) |-> s.heap[o]] /\ b.heap = [o \in Kept(t) |-> t.heap[o]]
      /\ Kept(s) \subseteq DOMAIN s.heap /\ Kept(t) \subseteq DOMAIN t.heap
  BY CollectedParts, KeptObjects
<1>2. /\ Sound(a, m) /\ Sound(b, m)
      /\ \A k \in DOMAIN s.levels : KnownLevel(a, s.levels[k])
      /\ \A k \in DOMAIN t.levels : KnownLevel(b, t.levels[k])
  BY <1>1, CollectedSound DEF Sound
<1> HIDE DEF a, b
<1>3. DOMAIN a.heap = Kept(s) /\ DOMAIN b.heap = Kept(t) /\ DOMAIN s.levels = DOMAIN t.levels
  BY <1>1, InnermostKnown DEF Agree
<1>4. /\ \A v : Known(a, v) => Appearance(a, v) = Appearance(s, v) /\ (IsInstance(a, v) <=> IsInstance(s, v))
      /\ \A v : Known(b, v) => Appearance(b, v) = Appearance(t, v) /\ (IsInstance(b, v) <=> IsInstance(t, v))
  BY <1>1, <1>3, LooksStay DEF Known
<1>5. ASSUME NEW k \in DOMAIN a.levels PROVE AgreeLevel(a, a.levels[k], b, b.levels[k])
  <2>1. /\ AgreeLevel(s, s.levels[k], t, t.levels[k])
        /\ KnownLevel(a, s.levels[k]) /\ KnownLevel(b, t.levels[k])
    BY <1>1, <1>2, <1>3 DEF Agree
  <2>. QED  BY <2>1, <1>1, <1>4 DEF AgreeLevel, Same, KnownLevel
<1>6. ASSUME NEW o \in DOMAIN a.heap, NEW p \in DOMAIN b.heap, IsInstance(a, o), IsInstance(b, p),
             a.heap[o].born = b.heap[p].born
      PROVE  Same(a, a.heap[o].member, b, b.heap[p].member)
  <2>1. /\ Known(a, o) /\ Known(b, p) /\ Known(a, a.heap[o].member) /\ Known(b, b.heap[p].member)
        /\ a.heap[o] = s.heap[o] /\ b.heap[p] = t.heap[p]
    BY <1>1, <1>2, <1>3, <1>6, HoldersAssumption DEF Known, Sound, Shaped
  <2>2. Same(s, s.heap[o].member, t, t.heap[p].member)
    BY <1>1, <1>3, <1>4, <1>6, <2>1 DEF Agree
  <2>. QED  BY <2>1, <2>2, <1>4 DEF Same
<1>7. Len(a.levels) = Len(b.levels)
  BY <1>1 DEF Agree
<1>. QED  BY <1>5, <1>6, <1>7 DEF Agree, a, b

LEMMA AgreeEntered ==
  ASSUME NEW s, NEW m, Sound(s, m), NEW t, Sound(t, m), Agree(s, t),
         NEW o, Known(s, o), NEW p, Known(t, p), Same(s, o, t, p),
         NEW v, Known(s, v), NEW w, Known(t, w), Same(s, v, t, w)
  PROVE  Agree(Entered(s, o, v), Entered(t, p, w))
<1> DEFINE a == Entered(s, o, v)
           b == Entered(t, p, w)
           n == Len(s.levels)
           l == Level(o, v)
           k == Level(p, w)
<1>1. /\ a.heap = s.heap /\ b.heap = t.heap
      /\ Len(a.levels) = n + 1 /\ Len(b.levels) = Len(t.levels) + 1
      /\ DOMAIN a.levels = 1..n + 1
      /\ \A j \in DOMAIN s.levels : a.levels[j] = s.levels[j]
      /\ \A j \in DOMAIN t.levels : b.levels[j] = t.levels[j]
      /\ a.levels[n + 1] = l /\ b.levels[Len(t.levels) + 1] = k
  BY EntersLevel
<1>2. Len(t.levels) = n /\ DOMAIN s.levels = 1..n /\ DOMAIN t.levels = 1..n /\ n \in Nat
  BY InnermostKnown DEF Agree
<1> HIDE DEF a, b
<1>3. /\ \A x : Appearance(a, x) = Appearance(s, x) /\ (IsInstance(a, x) <=> IsInstance(s, x))
      /\ \A x : Appearance(b, x) = Appearance(t, x) /\ (IsInstance(b, x) <=> IsInstance(t, x))
  BY <1>1, LooksStay
<1>4. Same(s, Unbound, t, Unbound) /\ Same(s, Plain, t, Plain)
  BY DEF Same, Appearance, IsText, IsInstance, IsObject, Unbound, Plain
<1>5. AgreeLevel(s, l, t, k)
  <2>1. ASSUME NEW x \in Scope PROVE Same(s, l.vars[x], t, k.vars[x])
    BY <1>4 DEF Level
  <2>2. l.bound = o /\ k.bound = p /\ l.last = Plain /\ k.last = Plain
    BY DEF Level
  <2>. QED  BY <1>4, <2>1, <2>2 DEF AgreeLevel
<1>6. ASSUME NEW j \in DOMAIN a.levels PROVE AgreeLevel(a, a.levels[j], b, b.levels[j])
  <2>1. j \in 1..n \/ j = n + 1
    BY <1>1, <1>2
  <2>2. AgreeLevel(s, a.levels[j], t, b.levels[j])
    BY <1>1, <1>2, <1>5, <2>1 DEF Agree
  <2>. QED  BY <2>2, <1>3 DEF AgreeLevel, Same
<1>7. Len(a.levels) = Len(b.levels)
  BY <1>1, <1>2
<1>. QED  BY <1>1, <1>3, <1>6, <1>7 DEF Agree, Same, a, b

LEMMA AgreeLeft ==
  ASSUME NEW s, NEW m, Sound(s, m), NEW t, Sound(t, m), Agree(s, t), Len(s.levels) > 1,
         NEW d \in SUBSET (1..m), NEW e \in SUBSET (1..m)
  PROVE  Agree(Leaves(s, d), Leaves(t, e))
<1> DEFINE a == Leaves(s, d)
           b == Leaves(t, e)
           n == Len(s.levels) - 1
<1>0. Len(t.levels) = Len(s.levels)
  BY DEF Agree
<1>1. /\ a.heap = s.heap /\ b.heap = t.heap
      /\ Len(a.levels) = n /\ Len(b.levels) = n /\ DOMAIN a.levels = 1..n
      /\ \A j \in 1..n : a.levels[j] = s.levels[j] /\ b.levels[j] = t.levels[j]
  BY <1>0, LeavesLevel
<1>2. 1..n \subseteq DOMAIN s.levels
  BY InnermostKnown
<1> HIDE DEF a, b, n
<1>3. /\ \A x : Appearance(a, x) = Appearance(s, x) /\ (IsInstance(a, x) <=> IsInstance(s, x))
      /\ \A x : Appearance(b, x) = Appearance(t, x) /\ (IsInstance(b, x) <=> IsInstance(t, x))
  BY <1>1, LooksStay
<1>4. ASSUME NEW j \in 1..n PROVE AgreeLevel(a, a.levels[j], b, b.levels[j])
  <2>1. AgreeLevel(s, a.levels[j], t, b.levels[j])
    BY <1>1, <1>2 DEF Agree
  <2>. QED  BY <2>1, <1>3 DEF AgreeLevel, Same
<1>. QED  BY <1>1, <1>3, <1>4 DEF Agree, Same, a, b

(* Storing the same in the members of the same instance.                   *)
Stored(t, o, v) == WithObject(t, o, [t.heap[o] EXCEPT !.member = v])

LEMMA StoresMember ==
  ASSUME NEW t, NEW m, Sound(t, m), NEW o \in DOMAIN t.heap, IsInstance(t, o), NEW v, Known(t, v)
  PROVE  /\ Sound(Stored(t, o, v), m)
         /\ Stored(t, o, v).levels = t.levels /\ Stored(t, o, v).destroyed = t.destroyed
         /\ DOMAIN Stored(t, o, v).heap = DOMAIN t.heap
         /\ \A p \in DOMAIN t.heap : p # o => Stored(t, o, v).heap[p] = t.heap[p]
         /\ Stored(t, o, v).heap[o].member = v /\ Stored(t, o, v).heap[o].born = t.heap[o].born
         /\ Stored(t, o, v).heap[o].kind = "instance" /\ t.heap[o].kind = "instance"
         /\ \A p \in DOMAIN t.heap : IsInstance(Stored(t, o, v), p) <=> IsInstance(t, p)
         /\ \A x : Known(Stored(t, o, v), x) <=> Known(t, x)
<1> DEFINE i == t.heap[o]
           object == [i EXCEPT !.member = v]
<1>1. i \in Objects /\ i.kind = "instance" /\ v \in Int
  BY DEF Sound, Shaped, IsInstance, Known
<1> HIDE DEF i
<1>2. i \in [kind : {"instance"}, born : Nat, member : Int]
  BY <1>1 DEF Objects
<1>3. object = [kind |-> "instance", born |-> i.born, member |-> v]
  BY <1>2
<1> HIDE DEF object
<1>4. object \in Objects /\ object.kind = "instance" /\ object.born = i.born /\ object.member = v
  BY <1>1, <1>2, <1>3 DEF Objects
<1>5. Stored(t, o, v) = WithObject(t, o, object)
  BY DEF Stored, object, i
<1>6. object.born = t.heap[o].born /\ t.heap[o].kind = "instance" /\ Known(t, object.member)
  BY <1>1, <1>4 DEF i
<1>. QED  BY <1>4, <1>5, <1>6, ObjectSet

LEMMA AgreeStored ==
  ASSUME NEW s, NEW m, Sound(s, m), NEW t, Sound(t, m), Agree(s, t),
         NEW o \in DOMAIN s.heap, IsInstance(s, o), NEW p \in DOMAIN t.heap, IsInstance(t, p),
         s.heap[o].born = t.heap[p].born,
         NEW v, Known(s, v), NEW w, Known(t, w), Same(s, v, t, w)
  PROVE  /\ Agree(Stored(s, o, v), Stored(t, p, w))
         /\ Same(Stored(s, o, v), v, Stored(t, p, w), w)
<1> DEFINE a == Stored(s, o, v)
           b == Stored(t, p, w)
<1>1. /\ a.levels = s.levels /\ DOMAIN a.heap = DOMAIN s.heap
      /\ \A q \in DOMAIN s.heap : q # o => a.heap[q] = s.heap[q]
      /\ a.heap[o].member = v /\ a.heap[o].born = s.heap[o].born
      /\ a.heap[o].kind = "instance" /\ s.heap[o].kind = "instance"
      /\ \A q \in DOMAIN s.heap : IsInstance(a, q) <=> IsInstance(s, q)
  BY StoresMember
<1>2. /\ b.levels = t.levels /\ DOMAIN b.heap = DOMAIN t.heap
      /\ \A q \in DOMAIN t.heap : q # p => b.heap[q] = t.heap[q]
      /\ b.heap[p].member = w /\ b.heap[p].born = t.heap[p].born
      /\ b.heap[p].kind = "instance" /\ t.heap[p].kind = "instance"
      /\ \A q \in DOMAIN t.heap : IsInstance(b, q) <=> IsInstance(t, q)
  BY StoresMember
<1> HIDE DEF a, b
<1>3. \A x : Known(s, x) => Appearance(a, x) = Appearance(s, x)
  BY <1>1, LooksStay DEF Known
<1>4. \A x : Known(t, x) => Appearance(b, x) = Appearance(t, x)
  BY <1>2, LooksStay DEF Known
<1>5. /\ \A q \in DOMAIN s.heap : a.heap[q].born = s.heap[q].born
      /\ \A q \in DOMAIN t.heap : b.heap[q].born = t.heap[q].born
  BY <1>1, <1>2
<1>6. ASSUME NEW q \in DOMAIN a.heap, NEW r \in DOMAIN b.heap, IsInstance(a, q), IsInstance(b, r),
             a.heap[q].born = b.heap[r].born
      PROVE  Same(a, a.heap[q].member, b, b.heap[r].member)
  <2>1. /\ q \in DOMAIN s.heap /\ r \in DOMAIN t.heap /\ IsInstance(s, q) /\ IsInstance(t, r)
        /\ s.heap[q].born = t.heap[r].born
    BY <1>1, <1>2, <1>5, <1>6
  <2>2. q = o <=> r = p
    BY <2>1 DEF Sound
  <2>3. Same(a, v, b, w)
    BY <1>3, <1>4 DEF Same
  <2>4. /\ Known(s, s.heap[q].member) /\ Known(t, t.heap[r].member)
        /\ Same(s, s.heap[q].member, t, t.heap[r].member)
    BY <2>1 DEF Sound, Agree
  <2>5. CASE q = o
    BY <1>1, <1>2, <2>2, <2>3, <2>5
  <2>6. CASE q # o
    BY <1>1, <1>2, <1>3, <1>4, <2>1, <2>2, <2>4, <2>6 DEF Same
  <2>. QED  BY <2>5, <2>6
<1>7. Agree(a, b)
  BY <1>1, <1>2, <1>3, <1>4, <1>6, AgreeWhenAlike
<1>. QED  BY <1>3, <1>4, <1>7 DEF Same, a, b

-----------------------------------------------------------------------------
(* After a statement.                                                      *)
Contexts == [target : Scope \union {Nobody}, makes : BOOLEAN, loop : {"none", "one", "several"}]

LEMMA LevelParts ==
  ASSUME NEW l \in Levels, NEW x
  PROVE  /\ [l EXCEPT !.held = x]
              = [vars |-> l.vars, bound |-> l.bound, last |-> l.last, held |-> x, inner |-> l.inner]
         /\ [l EXCEPT !.inner = x]
              = [vars |-> l.vars, bound |-> l.bound, last |-> l.last, held |-> l.held, inner |-> x]
         /\ [l EXCEPT !.last = x]
              = [vars |-> l.vars, bound |-> l.bound, last |-> x, held |-> l.held, inner |-> l.inner]
         /\ l = [vars |-> l.vars, bound |-> l.bound, last |-> l.last, held |-> l.held,
                 inner |-> l.inner]
BY DEF Levels

(* The level l is what is left of the innermost one by a statement.        *)
LeftBy(t, l, v, seen) ==
  /\ KnownLevel(t, l)
  /\ l.vars = Innermost(t).vars /\ l.bound = Innermost(t).bound
  /\ l.last = IF control[Len(t.levels)].loop = "none" THEN v ELSE Innermost(t).last
  /\ l.held \union l.inner
       \subseteq Innermost(t).held \union Innermost(t).inner \union seen \union {v}

LEMMA HoldingIs ==
  ASSUME NEW t, NEW m, Sound(t, m), NEW how, NEW v, Known(t, v), NEW seen, \A o \in seen : Known(t, o)
  PROVE  \E l : LeftBy(t, l, v, seen) /\ Holding(how, t, v, seen) = WithLevel(t, l)
<1> DEFINE objects == {o \in DOMAIN t.heap : o = v}
           instances == {o \in seen \union objects : IsInstance(t, o)}
           loop == control[Len(t.levels)].loop
           level == Innermost(t)
           InMain == Len(t.levels) = 1
           new == CASE how = "compiled" /\ loop = "none" -> [level EXCEPT !.held = @ \union instances]
                    [] how = "compiled" /\ loop # "none" -> [level EXCEPT !.inner = @ \union instances]
                    [] how = "interpreted" /\ loop = "none" ->
                         [level EXCEPT !.held = objects \union (IF InMain THEN @ ELSE {})]
                    [] how = "interpreted" /\ loop = "one" /\ ~InMain ->
                         [level EXCEPT !.inner = @ \union objects]
                    [] OTHER -> level
           Fits(h, i) == /\ h \subseteq DOMAIN t.heap /\ i \subseteq DOMAIN t.heap
                         /\ h \union i \subseteq level.held \union level.inner \union seen \union {v}
           last == IF loop = "none" THEN v ELSE level.last
           l == [new EXCEPT !.last = last]
<1>1. KnownLevel(t, level) /\ DOMAIN t.heap \subseteq Nat
  <2>1. DOMAIN t.heap \in SUBSET (1..MaxObjects)
    BY DEF Sound, Shaped
  <2>. QED  BY <2>1, InnermostKnown, HoldersAssumption
<1>2. instances \subseteq DOMAIN t.heap /\ objects \subseteq DOMAIN t.heap /\ objects \subseteq {v}
      /\ instances \subseteq seen \union {v}
  BY DEF IsInstance, IsObject, Known
<1> HIDE DEF objects, instances, loop, level, InMain
<1>3. level \in Levels /\ level.held \subseteq DOMAIN t.heap /\ level.inner \subseteq DOMAIN t.heap
  BY <1>1 DEF KnownLevel
<1> DEFINE Made(h, i) ==
             [vars |-> level.vars, bound |-> level.bound, last |-> level.last, held |-> h, inner |-> i]
<1>4. \E h, i : Fits(h, i) /\ new = Made(h, i)
  <2>1. CASE how = "compiled" /\ loop = "none"
    <3>1. new = Made(level.held \union instances, level.inner)
      BY <2>1, <1>3, LevelParts
    <3>2. Fits(level.held \union instances, level.inner)
      BY <1>2, <1>3
    <3>. QED  BY <3>1, <3>2
  <2>2. CASE how = "compiled" /\ loop # "none"
    <3>1. new = Made(level.held, level.inner \union instances)
      BY <2>2, <1>3, LevelParts
    <3>2. Fits(level.held, level.inner \union instances)
      BY <1>2, <1>3
    <3>. QED  BY <3>1, <3>2
  <2>3. CASE how = "interpreted" /\ loop = "none"
    <3> DEFINE h == objects \union (IF InMain THEN level.held ELSE {})
    <3>1. new = Made(h, level.inner)
      BY <2>3, <1>3, LevelParts
    <3>2. Fits(h, level.inner)
      BY <1>2, <1>3
    <3>. QED  BY <3>1, <3>2
  <2>4. CASE how = "interpreted" /\ loop = "one" /\ ~InMain
    <3>1. new = Made(level.held, level.inner \union objects)
      BY <2>4, <1>3, LevelParts
    <3>2. Fits(level.held, level.inner \union objects)
      BY <1>2, <1>3
    <3>. QED  BY <3>1, <3>2
  <2>5. CASE new = level
    <3>1. new = Made(level.held, level.inner)
      BY <2>5, <1>3, LevelParts
    <3>2. Fits(level.held, level.inner)
      BY <1>3
    <3>. QED  BY <3>1, <3>2
  <2>. QED  BY <2>1, <2>2, <2>3, <2>4, <2>5
<1>5. PICK h, i : Fits(h, i) /\ new = Made(h, i)
  BY <1>4
<1>6. Known(t, last)
  BY <1>1 DEF KnownLevel
<1>7. Holding(how, t, v, seen) = WithLevel(t, l)
  BY DEF Holding, WithLevel, Innermost, objects, instances, loop, level, InMain
<1> HIDE DEF new, last
<1>8. l = [vars |-> level.vars, bound |-> level.bound, last |-> last, held |-> h, inner |-> i]
  BY <1>5
<1> HIDE DEF l
<1>9. /\ l.vars = level.vars /\ l.bound = level.bound /\ l.last = last /\ l.held = h /\ l.inner = i
  BY <1>8
<1>10. KnownLevel(t, l)
  <2>1. h \in SUBSET Nat /\ i \in SUBSET Nat /\ last \in Int
    BY <1>1, <1>5, <1>6 DEF Known
  <2>2. l \in Levels
    BY <1>3, <1>8, <2>1 DEF Levels
  <2>. QED  BY <1>1, <1>5, <1>6, <1>9, <2>2 DEF KnownLevel
<1>11. LeftBy(t, l, v, seen)
  BY <1>5, <1>9, <1>10 DEF LeftBy, level, last, loop
<1>. QED  BY <1>7, <1>11

(* No object of a destroyed instance comes back.                           *)
LEMMA CollectedGone ==
  ASSUME NEW t, NEW m, Sound(t, m),
         \A o \in Kept(t) : IsInstance(t, o) => t.heap[o].born \notin t.destroyed
  PROVE  Gone(Collected(t))
<1> DEFINE c == Collected(t)
<1>1. c.destroyed = t.destroyed /\ DOMAIN c.heap = Kept(t) /\ \A o \in Kept(t) : c.heap[o] = t.heap[o]
  BY CollectedParts
<1> HIDE DEF c
<1>2. \A o \in Kept(t) : IsInstance(c, o) <=> IsInstance(t, o)
  BY <1>1 DEF IsInstance
<1>. QED  BY <1>1, <1>2 DEF Gone, c

LEMMA DoneSound ==
  ASSUME NEW r, NEW m, Sound(r.t, m), NEW how, Known(r.t, r.v), \A o \in r.seen : Known(r.t, o)
  PROVE  /\ Sound(Done(how, r), m) /\ Len(Done(how, r).levels) = Len(r.t.levels)
         /\ Gone(r.t) => Gone(Done(how, r))
<1>1. PICK l : LeftBy(r.t, l, r.v, r.seen) /\ Holding(how, r.t, r.v, r.seen) = WithLevel(r.t, l)
  BY HoldingIs
<1> DEFINE w == WithLevel(r.t, l)
<1>2. /\ Sound(w, m) /\ w.heap = r.t.heap /\ w.destroyed = r.t.destroyed
      /\ Len(w.levels) = Len(r.t.levels)
  BY <1>1, LevelSet DEF LeftBy
<1>3. Done(how, r) = Collected(w)
  BY <1>1 DEF Done
<1> HIDE DEF w
<1>4. Sound(Collected(w), m) /\ Collected(w).levels = w.levels /\ Kept(w) \subseteq DOMAIN w.heap
  BY <1>2, CollectedSound, CollectedParts, KeptObjects
<1>5. Gone(r.t) => \A o \in Kept(w) : IsInstance(w, o) => w.heap[o].born \notin w.destroyed
  BY <1>2, <1>4 DEF Gone, IsInstance
<1>. QED  BY <1>2, <1>3, <1>4, <1>5, CollectedGone

LEMMA DoneAgree ==
  ASSUME NEW r, NEW m, Sound(r.t, m), NEW how, Known(r.t, r.v), \A o \in r.seen : Known(r.t, o),
         NEW q, Sound(q.t, m), NEW way, Known(q.t, q.v), \A o \in q.seen : Known(q.t, o),
         Agree(r.t, q.t), Same(r.t, r.v, q.t, q.v)
  PROVE  Agree(Done(how, r), Done(way, q))
<1> DEFINE s == r.t
           t == q.t
<1> HIDE DEF s, t
<1>1. PICK l : LeftBy(s, l, r.v, r.seen) /\ Holding(how, s, r.v, r.seen) = WithLevel(s, l)
  BY HoldingIs DEF s
<1>2. PICK k : LeftBy(t, k, q.v, q.seen) /\ Holding(way, t, q.v, q.seen) = WithLevel(t, k)
  BY HoldingIs DEF t
<1>3. AgreeLevel(s, Innermost(s), t, Innermost(t)) /\ Len(s.levels) = Len(t.levels)
  BY InnermostKnown DEF Agree, Innermost, s, t
<1>4. AgreeLevel(s, l, t, k)
  BY <1>1, <1>2, <1>3 DEF AgreeLevel, LeftBy, s, t
<1>5. /\ Sound(WithLevel(s, l), m) /\ Sound(WithLevel(t, k), m)
      /\ Agree(WithLevel(s, l), WithLevel(t, k))
  BY <1>1, <1>2, <1>4, LevelSet, AgreeLevelSet DEF LeftBy, s, t
<1>6. Done(how, r) = Collected(WithLevel(s, l)) /\ Done(way, q) = Collected(WithLevel(t, k))
  BY <1>1, <1>2 DEF Done, s, t
<1>. QED  BY <1>5, <1>6, AgreeCollected

-----------------------------------------------------------------------------
(* The statements, in one run and in two.                                  *)

LEMMA EvalRecord ==
  ASSUME NEW t, NEW e \in Sources
  PROVE  Eval(t, e) = [t |-> Eval(t, e).t, v |-> Eval(t, e).v, seen |-> Eval(t, e).seen]
<1>1. e.k \in {"text", "instance", "plain", "var", "member"}
  BY DEF Sources
<1>2. \E w, v, seen : Eval(t, e) = [t |-> w, v |-> v, seen |-> seen]
  BY <1>1, Zenon DEF Eval
<1>. QED  BY <1>2

LEMMA AssignParts ==
  ASSUME NEW t, NEW x, NEW e \in Sources
  PROVE  LET r == Eval(t, e)
         IN  /\ AssignTo(t, x, e).t = BindName(r.t, x, r.v)
             /\ AssignTo(t, x, e).v = r.v /\ AssignTo(t, x, e).seen = r.seen
BY EvalRecord DEF AssignTo

LEMMA BindNameSound ==
  ASSUME NEW t, NEW m, Sound(t, m), NEW x \in Scope, NEW v, Known(t, v)
  PROVE  /\ Sound(BindName(t, x, v), m) /\ Len(BindName(t, x, v).levels) = Len(t.levels)
         /\ BindName(t, x, v).heap = t.heap /\ BindName(t, x, v).destroyed = t.destroyed
         /\ \A w : Known(BindName(t, x, v), w) <=> Known(t, w)
         /\ Gone(t) => Gone(BindName(t, x, v))
<1> DEFINE l == [Innermost(t) EXCEPT !.vars = [@ EXCEPT ![x] = v]]
<1>1. KnownLevel(t, l) /\ BindName(t, x, v) = WithLevel(t, l)
  BY Binds
<1> HIDE DEF l
<1>2. /\ Sound(WithLevel(t, l), m) /\ Len(WithLevel(t, l).levels) = Len(t.levels)
      /\ WithLevel(t, l).heap = t.heap /\ WithLevel(t, l).destroyed = t.destroyed
  BY <1>1, LevelSet
<1>. QED  BY <1>1, <1>2 DEF Known, Gone, IsInstance

LEMMA BindNameAgree ==
  ASSUME NEW s, NEW m, Sound(s, m), NEW t, Sound(t, m), Agree(s, t), NEW x \in Scope,
         NEW v, Known(s, v), NEW w, Known(t, w), Same(s, v, t, w)
  PROVE  /\ Agree(BindName(s, x, v), BindName(t, x, w))
         /\ Same(BindName(s, x, v), v, BindName(t, x, w), w)
<1> DEFINE i == Innermost(s)
           j == Innermost(t)
           l == [i EXCEPT !.vars = [@ EXCEPT ![x] = v]]
           k == [j EXCEPT !.vars = [@ EXCEPT ![x] = w]]
<1>1. /\ KnownLevel(s, l) /\ BindName(s, x, v) = WithLevel(s, l)
      /\ \A y \in Scope : l.vars[y] = IF y = x THEN v ELSE i.vars[y]
      /\ l.bound = i.bound /\ l.last = i.last
  BY Binds
<1>2. /\ KnownLevel(t, k) /\ BindName(t, x, w) = WithLevel(t, k)
      /\ \A y \in Scope : k.vars[y] = IF y = x THEN w ELSE j.vars[y]
      /\ k.bound = j.bound /\ k.last = j.last
  BY Binds
<1> HIDE DEF l, k
<1>3. AgreeLevel(s, i, t, j)
  BY InnermostKnown DEF Agree, Innermost
<1> HIDE DEF i, j
<1>4. AgreeLevel(s, l, t, k)
  BY <1>1, <1>2, <1>3 DEF AgreeLevel
<1>5. Agree(WithLevel(s, l), WithLevel(t, k))
  BY <1>1, <1>2, <1>4, AgreeLevelSet
<1>6. BindName(s, x, v).heap = s.heap /\ BindName(t, x, w).heap = t.heap
  BY BindNameSound
<1>7. Same(BindName(s, x, v), v, BindName(t, x, w), w)
  BY <1>6, LooksStay DEF Same
<1>. QED  BY <1>1, <1>2, <1>5, <1>7

LEMMA AssignSound ==
  ASSUME NEW t, made \in Nat, Sound(t, made), Gone(t), NEW how,
         NEW x \in Scope, NEW e \in Sources, Evaluates(t, e)
  PROVE  /\ Sound(Done(how, AssignTo(t, x, e)), made + Counts(e))
         /\ Gone(Done(how, AssignTo(t, x, e)))
         /\ Len(Done(how, AssignTo(t, x, e)).levels) = Len(t.levels)
<1> DEFINE r == Eval(t, e)
           q == AssignTo(t, x, e)
           m == made + Counts(e)
<1>1. /\ Sound(r.t, m) /\ Known(r.t, r.v) /\ \A v \in r.seen : Known(r.t, v)
      /\ Len(r.t.levels) = Len(t.levels) /\ Gone(r.t)
  BY EvalSound DEF Grown
<1>2. q.t = BindName(r.t, x, r.v) /\ q.v = r.v /\ q.seen = r.seen
  BY AssignParts
<1> HIDE DEF r, q, m
<1>3. /\ Sound(q.t, m) /\ Known(q.t, q.v) /\ \A v \in q.seen : Known(q.t, v)
      /\ Len(q.t.levels) = Len(t.levels) /\ Gone(q.t)
  BY <1>1, <1>2, BindNameSound
<1>. QED  BY <1>3, DoneSound DEF q, m

LEMMA AssignAgree ==
  ASSUME NEW s, made \in Nat, Sound(s, made), NEW t, Sound(t, made), Agree(s, t), NEW how, NEW way,
         NEW x \in Scope, NEW e \in Sources, Evaluates(s, e), Evaluates(t, e)
  PROVE  Agree(Done(how, AssignTo(s, x, e)), Done(way, AssignTo(t, x, e)))
<1> DEFINE r == Eval(s, e)
           q == Eval(t, e)
           a == AssignTo(s, x, e)
           b == AssignTo(t, x, e)
           m == made + Counts(e)
<1>1. /\ Sound(r.t, m) /\ Known(r.t, r.v) /\ \A v \in r.seen : Known(r.t, v)
      /\ Sound(q.t, m) /\ Known(q.t, q.v) /\ \A v \in q.seen : Known(q.t, v)
      /\ Agree(r.t, q.t) /\ Same(r.t, r.v, q.t, q.v)
  BY EvalSound, EvalAgree
<1>2. /\ a.t = BindName(r.t, x, r.v) /\ a.v = r.v /\ a.seen = r.seen
      /\ b.t = BindName(q.t, x, q.v) /\ b.v = q.v /\ b.seen = q.seen
  BY AssignParts
<1> HIDE DEF r, q, a, b, m
<1>3. /\ Sound(a.t, m) /\ Known(a.t, a.v) /\ \A v \in a.seen : Known(a.t, v)
      /\ Sound(b.t, m) /\ Known(b.t, b.v) /\ \A v \in b.seen : Known(b.t, v)
      /\ Agree(a.t, b.t) /\ Same(a.t, a.v, b.t, b.v)
  BY <1>1, <1>2, BindNameSound, BindNameAgree
<1>. QED  BY <1>3, DoneAgree DEF a, b

LEMMA StoreParts ==
  ASSUME NEW t, made \in Nat, Sound(t, made), NEW y \in Scope, NEW e \in Sources, Evaluates(t, e),
         IsInstance(t, Binding(t, y))
  PROVE  LET r == Eval(t, e)
             o == Binding(t, y)
         IN  /\ StoreIn(t, y, e).t = Stored(r.t, o, r.v)
             /\ StoreIn(t, y, e).v = r.v /\ StoreIn(t, y, e).seen = r.seen \union {o}
             /\ o \in DOMAIN t.heap /\ o \in DOMAIN r.t.heap /\ IsInstance(r.t, o)
             /\ r.t.heap[o] = t.heap[o] /\ Known(t, o)
<1> DEFINE r == Eval(t, e)
           o == Binding(t, y)
<1>1. r = [t |-> r.t, v |-> r.v, seen |-> r.seen]
  BY EvalRecord
<1>2. Grown(t, r.t)
  BY EvalSound
<1>3. Known(t, o) /\ o > 0 /\ o \in DOMAIN t.heap
  BY BindingKnown DEF Known, IsInstance, IsObject
<1>4. StoreIn(t, y, e) = [r EXCEPT !.t = Stored(r.t, o, r.v), !.seen = @ \union {o}]
  BY DEF StoreIn, Stored, WithObject
<1> HIDE DEF r, o
<1>5. o \in DOMAIN r.t.heap /\ r.t.heap[o] = t.heap[o] /\ IsInstance(r.t, o)
  BY <1>2, <1>3 DEF Grown, IsInstance, o
<1>. QED  BY <1>1, <1>3, <1>4, <1>5 DEF r, o

LEMMA StoreSound ==
  ASSUME NEW t, made \in Nat, Sound(t, made), Gone(t), NEW how,
         NEW y \in Scope, NEW e \in Sources, Evaluates(t, e), IsInstance(t, Binding(t, y))
  PROVE  /\ Sound(Done(how, StoreIn(t, y, e)), made + Counts(e))
         /\ Gone(Done(how, StoreIn(t, y, e)))
         /\ Len(Done(how, StoreIn(t, y, e)).levels) = Len(t.levels)
<1> DEFINE r == Eval(t, e)
           q == StoreIn(t, y, e)
           o == Binding(t, y)
           m == made + Counts(e)
<1>1. /\ Sound(r.t, m) /\ Known(r.t, r.v) /\ \A v \in r.seen : Known(r.t, v)
      /\ Len(r.t.levels) = Len(t.levels) /\ Gone(r.t)
  BY EvalSound DEF Grown
<1>2. /\ q.t = Stored(r.t, o, r.v) /\ q.v = r.v /\ q.seen = r.seen \union {o}
      /\ o \in DOMAIN r.t.heap /\ IsInstance(r.t, o)
  BY StoreParts
<1>3. Known(r.t, o)
  BY <1>2, BindingKnown DEF Known
<1> HIDE DEF r, q, m, o
<1>4. /\ Sound(q.t, m) /\ q.t.levels = r.t.levels /\ q.t.destroyed = r.t.destroyed
      /\ DOMAIN q.t.heap = DOMAIN r.t.heap
      /\ \A p \in DOMAIN r.t.heap : p # o => q.t.heap[p] = r.t.heap[p]
      /\ q.t.heap[o].born = r.t.heap[o].born
      /\ \A p \in DOMAIN r.t.heap : IsInstance(q.t, p) <=> IsInstance(r.t, p)
      /\ \A x : Known(q.t, x) <=> Known(r.t, x)
  BY <1>1, <1>2, StoresMember
<1>5. Gone(q.t)
  BY <1>1, <1>4 DEF Gone
<1>6. Known(q.t, q.v) /\ \A v \in q.seen : Known(q.t, v)
  BY <1>1, <1>2, <1>3, <1>4
<1>. QED  BY <1>1, <1>4, <1>5, <1>6, DoneSound DEF q, m

LEMMA StoreAgree ==
  ASSUME NEW s, made \in Nat, Sound(s, made), NEW t, Sound(t, made), Agree(s, t), NEW how, NEW way,
         NEW y \in Scope, NEW e \in Sources, Evaluates(s, e), Evaluates(t, e),
         IsInstance(s, Binding(s, y)), IsInstance(t, Binding(t, y))
  PROVE  Agree(Done(how, StoreIn(s, y, e)), Done(way, StoreIn(t, y, e)))
<1> DEFINE r == Eval(s, e)
           q == Eval(t, e)
           a == StoreIn(s, y, e)
           b == StoreIn(t, y, e)
           o == Binding(s, y)
           p == Binding(t, y)
           m == made + Counts(e)
<1>1. /\ Sound(r.t, m) /\ Known(r.t, r.v) /\ \A v \in r.seen : Known(r.t, v)
      /\ Sound(q.t, m) /\ Known(q.t, q.v) /\ \A v \in q.seen : Known(q.t, v)
      /\ Agree(r.t, q.t) /\ Same(r.t, r.v, q.t, q.v)
  BY EvalSound, EvalAgree
<1>2. /\ a.t = Stored(r.t, o, r.v) /\ a.v = r.v /\ a.seen = r.seen \union {o}
      /\ o \in DOMAIN r.t.heap /\ IsInstance(r.t, o) /\ r.t.heap[o] = s.heap[o] /\ Known(s, o)
  BY StoreParts
<1>3. /\ b.t = Stored(q.t, p, q.v) /\ b.v = q.v /\ b.seen = q.seen \union {p}
      /\ p \in DOMAIN q.t.heap /\ IsInstance(q.t, p) /\ q.t.heap[p] = t.heap[p] /\ Known(t, p)
  BY StoreParts
<1>4. s.heap[o].born = t.heap[p].born
  BY <1>2, <1>3, BindingsLookSame, SameLooks
<1>5. Known(r.t, o) /\ Known(q.t, p)
  BY <1>2, <1>3 DEF Known
<1> HIDE DEF r, q, a, b, o, p, m
<1>6. Sound(a.t, m) /\ \A x : Known(a.t, x) <=> Known(r.t, x)
  BY <1>1, <1>2, StoresMember
<1>7. Sound(b.t, m) /\ \A x : Known(b.t, x) <=> Known(q.t, x)
  BY <1>1, <1>3, StoresMember
<1>8. Agree(a.t, b.t) /\ Same(a.t, a.v, b.t, b.v)
  BY <1>1, <1>2, <1>3, <1>4, AgreeStored
<1>9. /\ Known(a.t, a.v) /\ \A v \in a.seen : Known(a.t, v)
      /\ Known(b.t, b.v) /\ \A v \in b.seen : Known(b.t, v)
  BY <1>1, <1>2, <1>3, <1>5, <1>6, <1>7
<1>. QED  BY <1>6, <1>7, <1>8, <1>9, DoneAgree DEF a, b

(* The right operand of an append, evaluated before the text is made.      *)
LEMMA OperandSound ==
  ASSUME NEW t, NEW m, Sound(t, m), NEW x \in Scope, NEW y \in Scope,
         NEW k \in {"text", "assign", "store"},
         IsText(t, Binding(t, x)), k = "store" => IsInstance(t, Binding(t, y))
  PROVE  LET r == Operand(t, x, k, y)
             o == Binding(t, x)
         IN  /\ Sound(r.t, m) /\ Len(r.t.levels) = Len(t.levels) /\ r.length \in Nat
             /\ r.length = IF k = "text" THEN 1 ELSE t.heap[o].length
             /\ DOMAIN r.t.heap = DOMAIN t.heap /\ r.t.heap[o] = t.heap[o]
             /\ Gone(t) => Gone(r.t)
             /\ \A v : Known(r.t, v) <=> Known(t, v)
             /\ o \in DOMAIN t.heap /\ t.heap[o].length \in Nat
<1> DEFINE r == Operand(t, x, k, y)
           o == Binding(t, x)
           b == Binding(t, y)
<1>1. Known(t, o) /\ o > 0 /\ o \in DOMAIN t.heap /\ t.heap[o].length \in Nat /\ ~IsInstance(t, o)
  <2>1. Known(t, o) /\ IsText(t, o)
    BY BindingKnown
  <2> HIDE DEF o
  <2>. QED  BY <2>1, AppearanceOf DEF Known, IsText, IsObject
<1>2. CASE k = "text"
  <2>1. r = [t |-> t, length |-> 1]
    BY <1>2 DEF Operand
  <2>. QED  BY <1>1, <1>2, <2>1
<1>3. CASE k = "assign"
  <2>1. r = [t |-> BindName(t, y, o), length |-> t.heap[o].length]
    BY <1>3 DEF Operand
  <2>. QED  BY <1>1, <1>3, <2>1, BindNameSound
<1>4. CASE k = "store"
  <2>1. r = [t |-> Stored(t, b, o), length |-> t.heap[o].length]
    BY <1>4 DEF Operand, Stored, WithObject
  <2>2. IsInstance(t, b) /\ b \in DOMAIN t.heap /\ b # o
    BY <1>1, <1>4, BindingKnown DEF Known, IsInstance, IsObject
  <2> DEFINE w == Stored(t, b, o)
  <2> HIDE DEF o, b
  <2>3. /\ Sound(w, m) /\ w.levels = t.levels /\ w.destroyed = t.destroyed
        /\ DOMAIN w.heap = DOMAIN t.heap /\ w.heap[o] = t.heap[o]
        /\ \A p \in DOMAIN t.heap : p # b => w.heap[p] = t.heap[p]
        /\ w.heap[b].born = t.heap[b].born
        /\ \A p \in DOMAIN t.heap : IsInstance(w, p) <=> IsInstance(t, p)
        /\ \A v : Known(w, v) <=> Known(t, v)
    BY <1>1, <2>2, StoresMember
  <2>4. Gone(t) => Gone(w)
    BY <2>3 DEF Gone
  <2> HIDE DEF w
  <2>5. /\ Sound(r.t, m) /\ Len(r.t.levels) = Len(t.levels) /\ r.length = t.heap[o].length
        /\ DOMAIN r.t.heap = DOMAIN t.heap /\ r.t.heap[o] = t.heap[o]
        /\ Gone(t) => Gone(r.t)
        /\ \A v : Known(r.t, v) <=> Known(t, v)
    BY <2>1, <2>3, <2>4 DEF w
  <2>. QED  BY <1>1, <1>4, <2>5 DEF o
<1>. QED  BY <1>2, <1>3, <1>4

LEMMA OperandAgree ==
  ASSUME NEW s, NEW m, Sound(s, m), NEW t, Sound(t, m), Agree(s, t),
         NEW x \in Scope, NEW y \in Scope, NEW k \in {"text", "assign", "store"},
         IsText(s, Binding(s, x)), k = "store" => IsInstance(s, Binding(s, y)),
         IsText(t, Binding(t, x)), k = "store" => IsInstance(t, Binding(t, y))
  PROVE  /\ Agree(Operand(s, x, k, y).t, Operand(t, x, k, y).t)
         /\ Operand(s, x, k, y).length = Operand(t, x, k, y).length
         /\ s.heap[Binding(s, x)].length = t.heap[Binding(t, x)].length
<1> DEFINE o == Binding(s, x)
           p == Binding(t, x)
           a == Binding(s, y)
           b == Binding(t, y)
<1>1. /\ Known(s, o) /\ Known(t, p) /\ Same(s, o, t, p)
      /\ Known(s, a) /\ Known(t, b) /\ Same(s, a, t, b)
  BY BindingKnown, BindingsLookSame
<1>2. s.heap[o].length = t.heap[p].length
  <2> HIDE DEF o, p, a, b
  <2>. QED  BY <1>1, SameLooks DEF o
<1>3. CASE k = "text"
  <2>1. /\ Operand(s, x, k, y) = [t |-> s, length |-> 1]
        /\ Operand(t, x, k, y) = [t |-> t, length |-> 1]
    BY <1>3 DEF Operand
  <2>. QED  BY <1>2, <2>1
<1>4. CASE k = "assign"
  <2>1. /\ Operand(s, x, k, y) = [t |-> BindName(s, y, o), length |-> s.heap[o].length]
        /\ Operand(t, x, k, y) = [t |-> BindName(t, y, p), length |-> t.heap[p].length]
    BY <1>4 DEF Operand
  <2>. QED  BY <1>1, <1>2, <2>1, BindNameAgree
<1>5. CASE k = "store"
  <2>1. /\ Operand(s, x, k, y) = [t |-> Stored(s, a, o), length |-> s.heap[o].length]
        /\ Operand(t, x, k, y) = [t |-> Stored(t, b, p), length |-> t.heap[p].length]
    BY <1>5 DEF Operand, Stored, WithObject
  <2>2. IsInstance(s, a) /\ a \in DOMAIN s.heap /\ IsInstance(t, b) /\ b \in DOMAIN t.heap
    BY <1>1, <1>5 DEF Known, IsInstance, IsObject
  <2> HIDE DEF o, p, a, b
  <2>3. s.heap[a].born = t.heap[b].born
    BY <1>1, <2>2, SameLooks
  <2>4. Agree(Stored(s, a, o), Stored(t, b, p))
    BY <1>1, <2>2, <2>3, AgreeStored
  <2>. QED  BY <1>2, <2>1, <2>4 DEF o, p
<1>. QED  BY <1>3, <1>4, <1>5

(* The sum is a text of its own.                                           *)
Summed(t, x, n) == BindName(Make(t, TextOf(n)), x, Fresh(t))

LEMMA SummedSound ==
  ASSUME NEW t, NEW m \in Nat, Sound(t, m), HasRoom(t, 1), NEW x \in Scope, NEW n \in Nat
  PROVE  /\ Sound(Summed(t, x, n), m) /\ Len(Summed(t, x, n).levels) = Len(t.levels)
         /\ Known(Summed(t, x, n), Fresh(t))
         /\ Gone(t) => Gone(Summed(t, x, n))
<1> DEFINE w == Make(t, TextOf(n))
<1>1. Sound(w, m) /\ w.levels = t.levels /\ Known(w, Fresh(t)) /\ (Gone(t) => Gone(w))
  BY Makes
<1> HIDE DEF w
<1>. QED  BY <1>1, BindNameSound DEF Summed, w

LEMMA SummedAgree ==
  ASSUME NEW s, NEW m \in Nat, Sound(s, m), HasRoom(s, 1), NEW t, Sound(t, m), HasRoom(t, 1),
         Agree(s, t), NEW x \in Scope, NEW n \in Nat
  PROVE  /\ Agree(Summed(s, x, n), Summed(t, x, n))
         /\ Same(Summed(s, x, n), Fresh(s), Summed(t, x, n), Fresh(t))
<1> DEFINE a == Make(s, TextOf(n))
           b == Make(t, TextOf(n))
<1>1. /\ Sound(a, m) /\ Grown(s, a) /\ a.heap[Fresh(s)] = TextOf(n) /\ Fresh(s) > 0
      /\ DOMAIN a.heap = DOMAIN s.heap \union {Fresh(s)} /\ Known(a, Fresh(s))
  BY Makes, MakesRoom
<1>2. /\ Sound(b, m) /\ Grown(t, b) /\ b.heap[Fresh(t)] = TextOf(n) /\ Fresh(t) > 0
      /\ DOMAIN b.heap = DOMAIN t.heap \union {Fresh(t)} /\ Known(b, Fresh(t))
  BY Makes, MakesRoom
<1> HIDE DEF a, b
<1>3. /\ ~IsInstance(a, Fresh(s)) /\ ~IsInstance(b, Fresh(t)) /\ Same(a, Fresh(s), b, Fresh(t))
  BY <1>1, <1>2, TextLooks DEF Same
<1>4. Agree(a, b)
  BY <1>1, <1>2, <1>3, AgreeGrown
<1>. QED  BY <1>1, <1>2, <1>3, <1>4, BindNameAgree DEF Summed, a, b

(* The sum is the text itself.                                             *)
Extended(t, o, n) == WithObject(t, o, [t.heap[o] EXCEPT !.length = n])

LEMMA ExtendedSound ==
  ASSUME NEW t, NEW m, Sound(t, m), NEW o, Known(t, o), IsText(t, o), NEW n \in Nat
  PROVE  /\ Sound(Extended(t, o, n), m)
         /\ Extended(t, o, n).levels = t.levels /\ Extended(t, o, n).destroyed = t.destroyed
         /\ DOMAIN Extended(t, o, n).heap = DOMAIN t.heap /\ o \in DOMAIN t.heap /\ o > 0
         /\ \A p \in DOMAIN t.heap : p # o => Extended(t, o, n).heap[p] = t.heap[p]
         /\ Extended(t, o, n).heap[o] = TextOf(n)
         /\ \A p \in DOMAIN t.heap : IsInstance(Extended(t, o, n), p) <=> IsInstance(t, p)
         /\ \A x : Known(Extended(t, o, n), x) <=> Known(t, x)
         /\ ~IsInstance(t, o)
         /\ Gone(t) => Gone(Extended(t, o, n))
<1> DEFINE i == t.heap[o]
           w == Extended(t, o, n)
<1>1. o \in DOMAIN t.heap /\ i \in Objects /\ i.kind = "text" /\ o > 0
  BY DEF Sound, Shaped, IsText, IsObject, Known
<1>2. ~IsInstance(t, o)
  BY <1>1 DEF IsInstance
<1> HIDE DEF i
<1>3. [i EXCEPT !.length = n] = TextOf(n)
  BY <1>1 DEF Objects, TextOf
<1>4. TextOf(n) \in Objects /\ TextOf(n).kind = "text"
  BY DEF Objects, TextOf
<1>5. w = WithObject(t, o, TextOf(n))
  BY <1>3 DEF Extended, i
<1> HIDE DEF w
<1>6. /\ Sound(w, m) /\ w.levels = t.levels /\ w.destroyed = t.destroyed
      /\ DOMAIN w.heap = DOMAIN t.heap
      /\ \A p \in DOMAIN t.heap : p # o => w.heap[p] = t.heap[p]
      /\ w.heap[o] = TextOf(n)
      /\ \A p \in DOMAIN t.heap : IsInstance(w, p) <=> IsInstance(t, p)
      /\ \A x : Known(w, x) <=> Known(t, x)
  BY <1>1, <1>2, <1>4, <1>5, ObjectSet
<1>7. Gone(t) => Gone(w)
  BY <1>2, <1>6 DEF Gone
<1>. QED  BY <1>1, <1>2, <1>6, <1>7 DEF w

(* One run appends in place, the other does not: nothing else that a       *)
(* program can see holds the text.                                         *)
LEMMA InPlaceAgree ==
  ASSUME NEW s, NEW m \in Nat, Sound(s, m), NEW t, Sound(t, m), Agree(s, t), HasRoom(t, 1),
         NEW x \in Scope, NEW n \in Nat, IsText(s, Binding(s, x)),
         UseCount(s, Binding(s, x)) = 1, Innermost(s).vars[x] # Unbound
  PROVE  /\ Agree(Extended(s, Binding(s, x), n), Summed(t, x, n))
         /\ Same(Extended(s, Binding(s, x), n), Binding(s, x), Summed(t, x, n), Fresh(t))
<1> DEFINE o == Binding(s, x)
           a == Extended(s, o, n)
           w == Make(t, TextOf(n))
           l == [Innermost(w) EXCEPT !.vars = [@ EXCEPT ![x] = Fresh(t)]]
           b == Summed(t, x, n)
           j == Len(s.levels)
<1>1. /\ Known(s, o) /\ IsText(s, o) /\ s.levels[j].vars[x] = o /\ UseCount(s, o) = 1
      /\ j \in DOMAIN s.levels
  BY BindingKnown, InnermostKnown DEF Innermost
<1>2. /\ \A k \in DOMAIN s.levels, y \in Scope : s.levels[k].vars[y] = o => k = j /\ y = x
      /\ \A p \in DOMAIN s.heap : IsInstance(s, p) => s.heap[p].member # o
      /\ \A k \in DOMAIN s.levels : o # s.levels[k].last /\ o # s.levels[k].bound
  <2> HIDE DEF o, j
  <2>. QED  BY <1>1, SoleHolder
<1>3. /\ Sound(w, m) /\ Grown(t, w) /\ w.heap[Fresh(t)] = TextOf(n) /\ Fresh(t) > 0
      /\ DOMAIN w.heap = DOMAIN t.heap \union {Fresh(t)} /\ Known(w, Fresh(t))
  BY Makes, MakesRoom
<1>4. b = BindName(w, x, Fresh(t))
  BY DEF Summed
<1> HIDE DEF w, a, b, o
<1>5. /\ KnownLevel(w, l) /\ b = WithLevel(w, l)
      /\ \A y \in Scope : l.vars[y] = IF y = x THEN Fresh(t) ELSE Innermost(w).vars[y]
      /\ l.bound = Innermost(w).bound /\ l.last = Innermost(w).last
  BY <1>3, <1>4, Binds
<1> HIDE DEF l
<1>6. /\ b.heap = w.heap /\ Len(b.levels) = Len(w.levels) /\ DOMAIN b.levels = DOMAIN w.levels
      /\ \A k \in DOMAIN w.levels : b.levels[k] = IF k = Len(w.levels) THEN l ELSE w.levels[k]
  BY <1>3, <1>5, LevelSet
<1>7. w.levels = t.levels /\ Len(t.levels) = j /\ DOMAIN t.levels = DOMAIN s.levels
  BY <1>3, InnermostKnown DEF Grown, Agree
<1>8. /\ a.levels = s.levels /\ DOMAIN a.heap = DOMAIN s.heap /\ a.heap[o] = TextOf(n) /\ o > 0
      /\ \A p \in DOMAIN s.heap : p # o => a.heap[p] = s.heap[p]
      /\ \A p \in DOMAIN s.heap : IsInstance(a, p) <=> IsInstance(s, p)
      /\ ~IsInstance(s, o)
  BY <1>1, ExtendedSound DEF a
<1>9. \A v : Known(s, v) /\ v # o => Appearance(a, v) = Appearance(s, v)
  BY <1>8, LooksStay DEF Known
<1>10. \A v : Known(t, v) => Appearance(b, v) = Appearance(t, v) /\ (IsInstance(b, v) <=> IsInstance(t, v))
  BY <1>3, <1>6, LooksStay DEF Known, Grown
<1>11. Same(a, o, b, Fresh(t)) /\ ~IsInstance(b, Fresh(t))
  BY <1>3, <1>6, <1>8, TextLooks DEF Same
<1>12. ASSUME NEW k \in DOMAIN s.levels PROVE AgreeLevel(a, s.levels[k], b, b.levels[k])
  <2>1. /\ KnownLevel(s, s.levels[k]) /\ KnownLevel(t, t.levels[k])
        /\ AgreeLevel(s, s.levels[k], t, t.levels[k])
    BY <1>7 DEF Sound, Agree
  <2>2. /\ b.levels[k].bound = t.levels[k].bound /\ b.levels[k].last = t.levels[k].last
        /\ \A y \in Scope : b.levels[k].vars[y] = IF k = j /\ y = x THEN Fresh(t) ELSE t.levels[k].vars[y]
    BY <1>5, <1>6, <1>7 DEF Innermost
  <2>3. ASSUME NEW y \in Scope PROVE Same(a, s.levels[k].vars[y], b, b.levels[k].vars[y])
    <3>1. CASE k = j /\ y = x
      BY <1>1, <1>11, <2>2, <3>1
    <3>2. CASE ~(k = j /\ y = x)
      <4>1. s.levels[k].vars[y] # o /\ b.levels[k].vars[y] = t.levels[k].vars[y]
        BY <1>2, <2>2, <3>2
      <4>. QED  BY <2>1, <4>1, <1>9, <1>10 DEF Same, KnownLevel, AgreeLevel
    <3>. QED  BY <3>1, <3>2
  <2>. QED  BY <1>2, <1>9, <1>10, <2>1, <2>2, <2>3 DEF Same, KnownLevel, AgreeLevel
<1>13. ASSUME NEW p \in DOMAIN a.heap, NEW q \in DOMAIN b.heap, IsInstance(a, p), IsInstance(b, q),
              a.heap[p].born = b.heap[q].born
       PROVE  Same(a, a.heap[p].member, b, b.heap[q].member)
  <2>1. p \in DOMAIN s.heap /\ p # o /\ IsInstance(s, p) /\ a.heap[p] = s.heap[p]
    BY <1>8, <1>13
  <2>2. q \in DOMAIN t.heap /\ b.heap[q] = t.heap[q]
    BY <1>3, <1>6, <1>11, <1>13 DEF Grown
  <2>3. IsInstance(t, q)
    BY <1>10, <1>13, <2>2, HoldersAssumption DEF Known, Sound, Shaped
  <2>4. /\ Same(s, s.heap[p].member, t, t.heap[q].member) /\ s.heap[p].member # o
        /\ Known(s, s.heap[p].member) /\ Known(t, t.heap[q].member)
    BY <1>2, <1>13, <2>1, <2>2, <2>3 DEF Agree, Sound
  <2>. QED  BY <1>9, <1>10, <2>1, <2>2, <2>4 DEF Same
<1>14. Agree(a, b)
  BY <1>6, <1>7, <1>8, <1>12, <1>13 DEF Agree
<1>. QED  BY <1>11, <1>14 DEF a, b, o


LEMMA AppendedIs ==
  ASSUME NEW t, NEW x, NEW k, NEW y, NEW how
  PROVE  LET o == Binding(t, x)
             r == Operand(t, x, k, y)
             n == t.heap[o].length + r.length
             q == Appended(how, t, x, k, y)
         IN  IF how = "interpreted" /\ Sole(t, x)
             THEN q.t = Extended(r.t, o, n) /\ q.v = o /\ q.seen = {}
             ELSE q.t = Summed(r.t, x, n) /\ q.v = Fresh(r.t) /\ q.seen = {}
BY DEF Appended, Extended, WithObject, Summed

LEMMA AppendSound ==
  ASSUME NEW t, NEW m \in Nat, Sound(t, m), Gone(t), NEW how, NEW x \in Scope, NEW y \in Scope,
         NEW k \in {"text", "assign", "store"}, Appends(t, x, k, y)
  PROVE  /\ Sound(Done(how, Appended(how, t, x, k, y)), m)
         /\ Gone(Done(how, Appended(how, t, x, k, y)))
         /\ Len(Done(how, Appended(how, t, x, k, y)).levels) = Len(t.levels)
<1> DEFINE o == Binding(t, x)
           r == Operand(t, x, k, y)
           n == t.heap[o].length + r.length
           q == Appended(how, t, x, k, y)
<1>1. IsText(t, o) /\ HasRoom(t, 1) /\ (k = "store" => IsInstance(t, Binding(t, y)))
  BY DEF Appends
<1>2. /\ Sound(r.t, m) /\ Len(r.t.levels) = Len(t.levels) /\ r.length \in Nat
      /\ DOMAIN r.t.heap = DOMAIN t.heap /\ r.t.heap[o] = t.heap[o] /\ Gone(r.t)
      /\ \A v : Known(r.t, v) <=> Known(t, v)
      /\ o \in DOMAIN t.heap /\ t.heap[o].length \in Nat
  BY <1>1, OperandSound
<1>3. Known(t, o)
  BY BindingKnown
<1>4. IF how = "interpreted" /\ Sole(t, x)
      THEN q.t = Extended(r.t, o, n) /\ q.v = o /\ q.seen = {}
      ELSE q.t = Summed(r.t, x, n) /\ q.v = Fresh(r.t) /\ q.seen = {}
  BY AppendedIs
<1>5. n \in Nat
  BY <1>2
<1> HIDE DEF o, r, n, q
<1>6. Known(r.t, o) /\ IsText(r.t, o) /\ HasRoom(r.t, 1)
  BY <1>1, <1>2, <1>3 DEF IsText, HasRoom
<1>7. /\ Sound(q.t, m) /\ Known(q.t, q.v) /\ \A v \in q.seen : Known(q.t, v)
      /\ Len(q.t.levels) = Len(t.levels) /\ Gone(q.t)
  <2>1. CASE how = "interpreted" /\ Sole(t, x)
    <3>1. /\ Sound(Extended(r.t, o, n), m) /\ Extended(r.t, o, n).levels = r.t.levels
          /\ Known(Extended(r.t, o, n), o) /\ Gone(Extended(r.t, o, n))
      BY <1>2, <1>5, <1>6, ExtendedSound
    <3>. QED  BY <1>2, <1>4, <2>1, <3>1
  <2>2. CASE ~(how = "interpreted" /\ Sole(t, x))
    <3>1. /\ Sound(Summed(r.t, x, n), m) /\ Len(Summed(r.t, x, n).levels) = Len(r.t.levels)
          /\ Known(Summed(r.t, x, n), Fresh(r.t)) /\ Gone(Summed(r.t, x, n))
      BY <1>2, <1>5, <1>6, SummedSound
    <3>. QED  BY <1>2, <1>4, <2>2, <3>1
  <2>. QED  BY <2>1, <2>2
<1>. QED  BY <1>7, DoneSound DEF q

LEMMA AppendAgree ==
  ASSUME NEW s, NEW m \in Nat, Sound(s, m), NEW t, Sound(t, m), Agree(s, t),
         NEW x \in Scope, NEW y \in Scope, NEW k \in {"text", "assign", "store"},
         Appends(s, x, k, y), Appends(t, x, k, y),
         Sole(s, x) => k = "text" /\ Innermost(s).vars[x] # Unbound
  PROVE  Agree(Done("interpreted", Appended("interpreted", s, x, k, y)),
               Done("compiled", Appended("compiled", t, x, k, y)))
<1> DEFINE o == Binding(s, x)
           p == Binding(t, x)
           f == Operand(s, x, k, y)
           g == Operand(t, x, k, y)
           n == s.heap[o].length + f.length
           a == Appended("interpreted", s, x, k, y)
           b == Appended("compiled", t, x, k, y)
<1>1. /\ IsText(s, o) /\ HasRoom(s, 1) /\ (k = "store" => IsInstance(s, Binding(s, y)))
      /\ IsText(t, p) /\ HasRoom(t, 1) /\ (k = "store" => IsInstance(t, Binding(t, y)))
  BY DEF Appends
<1>2. /\ Sound(f.t, m) /\ f.length \in Nat
      /\ DOMAIN f.t.heap = DOMAIN s.heap /\ f.t.heap[o] = s.heap[o]
      /\ \A v : Known(f.t, v) <=> Known(s, v)
      /\ s.heap[o].length \in Nat
  BY <1>1, OperandSound
<1>3. /\ Sound(g.t, m) /\ DOMAIN g.t.heap = DOMAIN t.heap
      /\ \A v : Known(g.t, v) <=> Known(t, v)
  BY <1>1, OperandSound
<1>4. Agree(f.t, g.t) /\ n = t.heap[p].length + g.length
  BY <1>1, OperandAgree
<1>5. n \in Nat /\ Known(s, o)
  BY <1>2, BindingKnown
<1>6. IF Sole(s, x) THEN a.t = Extended(f.t, o, n) /\ a.v = o /\ a.seen = {}
                    ELSE a.t = Summed(f.t, x, n) /\ a.v = Fresh(f.t) /\ a.seen = {}
  BY AppendedIs
<1>7. b.t = Summed(g.t, x, n) /\ b.v = Fresh(g.t) /\ b.seen = {}
  BY <1>4, AppendedIs
<1>8. k = "text" => f = [t |-> s, length |-> 1]
  BY DEF Operand
<1>9. Sole(s, x) => UseCount(s, o) = 1
  BY DEF Sole
<1>. HIDE DEF f, g, n, a, b
<1>10. /\ Sound(b.t, m) /\ Known(b.t, b.v) /\ \A v \in b.seen : Known(b.t, v)
  BY <1>1, <1>3, <1>5, <1>7, SummedSound DEF HasRoom
<1>11. CASE Sole(s, x)
  <2>1. f.t = s /\ Innermost(s).vars[x] # Unbound
    BY <1>8, <1>11
  <2>2. /\ Agree(Extended(s, o, n), Summed(g.t, x, n))
        /\ Same(Extended(s, o, n), o, Summed(g.t, x, n), Fresh(g.t))
    BY <1>1, <1>3, <1>4, <1>5, <1>9, <1>11, <2>1, InPlaceAgree DEF HasRoom
  <2> HIDE DEF o
  <2>3. Sound(Extended(s, o, n), m) /\ Known(Extended(s, o, n), o)
    BY <1>1, <1>5, ExtendedSound
  <2>. QED  BY <1>6, <1>7, <1>10, <1>11, <2>1, <2>2, <2>3, DoneAgree DEF a, b
<1>12. CASE ~Sole(s, x)
  <2> HIDE DEF o
  <2>1. HasRoom(f.t, 1) /\ HasRoom(g.t, 1)
    BY <1>1, <1>2, <1>3 DEF HasRoom
  <2>2. /\ Sound(a.t, m) /\ Known(a.t, a.v) /\ \A v \in a.seen : Known(a.t, v)
    BY <1>2, <1>5, <1>6, <1>12, <2>1, SummedSound
  <2>3. Agree(a.t, b.t) /\ Same(a.t, a.v, b.t, b.v)
    BY <1>2, <1>3, <1>4, <1>5, <1>6, <1>7, <1>12, <2>1, SummedAgree
  <2>. QED  BY <1>10, <2>2, <2>3, DoneAgree DEF a, b
<1>. QED  BY <1>11, <1>12

-----------------------------------------------------------------------------
(* Loops.                                                                  *)

LEMMA LevelCollected ==
  ASSUME NEW t, NEW m, Sound(t, m), Gone(t), NEW l, KnownLevel(t, l)
  PROVE  /\ Sound(Collected(WithLevel(t, l)), m) /\ Gone(Collected(WithLevel(t, l)))
         /\ Len(Collected(WithLevel(t, l)).levels) = Len(t.levels)
<1> DEFINE w == WithLevel(t, l)
<1>1. /\ Sound(w, m) /\ w.heap = t.heap /\ w.destroyed = t.destroyed
      /\ Len(w.levels) = Len(t.levels)
  BY LevelSet
<1> HIDE DEF w
<1>2. Sound(Collected(w), m) /\ Collected(w).levels = w.levels /\ Kept(w) \subseteq DOMAIN w.heap
  BY <1>1, CollectedSound, CollectedParts, KeptObjects
<1>3. \A o \in Kept(w) : IsInstance(w, o) => w.heap[o].born \notin w.destroyed
  BY <1>1, <1>2 DEF Gone, IsInstance
<1>. QED  BY <1>1, <1>2, <1>3, CollectedGone DEF w

LEMMA LevelCollectedAgree ==
  ASSUME NEW s, NEW m, Sound(s, m), NEW t, Sound(t, m), Agree(s, t),
         NEW l, KnownLevel(s, l), NEW k, KnownLevel(t, k), AgreeLevel(s, l, t, k)
  PROVE  Agree(Collected(WithLevel(s, l)), Collected(WithLevel(t, k)))
BY LevelSet, AgreeLevelSet, AgreeCollected

LEMMA ReleasedIs ==
  ASSUME NEW t, NEW m, Sound(t, m)
  PROVE  \E l : /\ Released(t) = Collected(WithLevel(t, l)) /\ KnownLevel(t, l)
                /\ l.vars = Innermost(t).vars /\ l.bound = Innermost(t).bound
                /\ l.last = Innermost(t).last
<1> DEFINE i == Innermost(t)
           l == [i EXCEPT !.inner = {}]
<1>1. KnownLevel(t, i) /\ i \in Levels
  BY InnermostKnown DEF KnownLevel
<1>2. Released(t) = Collected(WithLevel(t, l))
  BY DEF Released, WithLevel, Innermost
<1> HIDE DEF i
<1>3. l = [vars |-> i.vars, bound |-> i.bound, last |-> i.last, held |-> i.held, inner |-> {}]
  BY <1>1, LevelParts
<1> HIDE DEF l
<1>4. l.vars = i.vars /\ l.bound = i.bound /\ l.last = i.last /\ l.held = i.held /\ l.inner = {}
  BY <1>3
<1>5. l \in Levels
  BY <1>1, <1>3 DEF Levels
<1>6. KnownLevel(t, l)
  BY <1>1, <1>4, <1>5 DEF KnownLevel
<1>. QED  BY <1>2, <1>4, <1>6 DEF i

LEMMA ReleasedSound ==
  ASSUME NEW t, NEW m, Sound(t, m), Gone(t)
  PROVE  Sound(Released(t), m) /\ Gone(Released(t)) /\ Len(Released(t).levels) = Len(t.levels)
<1>1. PICK l : Released(t) = Collected(WithLevel(t, l)) /\ KnownLevel(t, l)
  BY ReleasedIs
<1>. QED  BY <1>1, LevelCollected

(* One run is left as it is: it is collected already, or what it keeps of  *)
(* what nothing holds looks to a program like nothing.                     *)
LEMMA ReleasedAgree ==
  ASSUME NEW s, NEW m, Sound(s, m), NEW t, Sound(t, m), Agree(s, t)
  PROVE  Agree(s, Released(t))
<1>1. PICK l : /\ Released(t) = Collected(WithLevel(t, l)) /\ KnownLevel(t, l)
               /\ l.vars = Innermost(t).vars /\ l.bound = Innermost(t).bound
               /\ l.last = Innermost(t).last
  BY ReleasedIs
<1> DEFINE w == WithLevel(t, l)
           b == Collected(w)
<1>2. /\ Sound(w, m) /\ w.heap = t.heap /\ DOMAIN w.levels = DOMAIN t.levels
      /\ Len(w.levels) = Len(t.levels)
      /\ \A k \in DOMAIN t.levels : w.levels[k] = IF k = Len(t.levels) THEN l ELSE t.levels[k]
  BY <1>1, LevelSet
<1> HIDE DEF w
<1>3. /\ Sound(b, m) /\ b.levels = w.levels /\ b.heap = [o \in Kept(w) |-> w.heap[o]]
      /\ Kept(w) \subseteq DOMAIN w.heap
  BY <1>2, CollectedSound, CollectedParts, KeptObjects
<1> HIDE DEF b
<1>4. DOMAIN b.heap = Kept(w) /\ \A o \in Kept(w) : b.heap[o] = t.heap[o]
  BY <1>2, <1>3
<1>5. \A v : Known(b, v) => Appearance(b, v) = Appearance(t, v) /\ (IsInstance(b, v) <=> IsInstance(t, v))
  BY <1>4, LooksStay DEF Known
<1>6. DOMAIN s.levels = DOMAIN t.levels /\ DOMAIN b.levels = DOMAIN t.levels
      /\ Len(b.levels) = Len(s.levels)
  BY <1>2, <1>3, InnermostKnown DEF Agree
<1>7. ASSUME NEW k \in DOMAIN s.levels PROVE AgreeLevel(s, s.levels[k], b, b.levels[k])
  <2>1. AgreeLevel(s, s.levels[k], t, t.levels[k])
    BY DEF Agree
  <2>2. /\ b.levels[k].vars = t.levels[k].vars /\ b.levels[k].bound = t.levels[k].bound
        /\ b.levels[k].last = t.levels[k].last
    BY <1>1, <1>2, <1>3, <1>6 DEF Innermost
  <2>3. KnownLevel(b, b.levels[k])
    BY <1>3, <1>6 DEF Sound
  <2>. QED  BY <1>5, <2>1, <2>2, <2>3 DEF AgreeLevel, Same, KnownLevel
<1>8. ASSUME NEW o \in DOMAIN s.heap, NEW p \in DOMAIN b.heap, IsInstance(s, o), IsInstance(b, p),
             s.heap[o].born = b.heap[p].born
      PROVE  Same(s, s.heap[o].member, b, b.heap[p].member)
  <2>1. /\ p \in DOMAIN t.heap /\ b.heap[p] = t.heap[p] /\ Known(b, p) /\ Known(b, b.heap[p].member)
    BY <1>2, <1>3, <1>4, <1>8, HoldersAssumption DEF Known, Sound, Shaped
  <2>2. Same(s, s.heap[o].member, t, t.heap[p].member)
    BY <1>5, <1>8, <2>1 DEF Agree
  <2>. QED  BY <2>1, <2>2, <1>5 DEF Same
<1>9. Agree(s, b)
  BY <1>6, <1>7, <1>8 DEF Agree
<1>. QED  BY <1>1, <1>9 DEF b, w

LEMMA LoopEndsIs ==
  ASSUME NEW t, NEW m, Sound(t, m), NEW how
  PROVE  \E l : /\ LoopEnds(how, t) = Collected(WithLevel(t, l)) /\ KnownLevel(t, l)
                /\ l.vars = Innermost(t).vars /\ l.bound = Innermost(t).bound
                /\ l.last = Collection
<1> DEFINE i == Innermost(t)
           h == IF how = "interpreted" /\ Len(t.levels) > 1 THEN i.inner ELSE i.held
           j == [i EXCEPT !.last = Collection, !.inner = {},
                          !.held = IF how = "interpreted" /\ Len(t.levels) > 1 THEN i.inner ELSE @]
<1>1. KnownLevel(t, i) /\ i \in Levels
  BY InnermostKnown DEF KnownLevel
<1>2. LoopEnds(how, t) = Collected(WithLevel(t, j))
  BY DEF LoopEnds, WithLevel, Innermost
<1> HIDE DEF i
<1>3. j = [vars |-> i.vars, bound |-> i.bound, last |-> Collection, held |-> h, inner |-> {}]
  <2>1. i = [vars |-> i.vars, bound |-> i.bound, last |-> i.last, held |-> i.held, inner |-> i.inner]
    BY <1>1, LevelParts
  <2>2. j = [i EXCEPT !.last = Collection, !.inner = {}, !.held = h]
    OBVIOUS
  <2> HIDE DEF j, h
  <2>. QED  BY <2>1, <2>2
<1>4. h \in SUBSET Nat /\ h \subseteq DOMAIN t.heap /\ Collection \in Int /\ Known(t, Collection)
  BY <1>1 DEF Levels, KnownLevel, Known, Collection
<1> HIDE DEF j, h
<1>5. j.vars = i.vars /\ j.bound = i.bound /\ j.last = Collection /\ j.held = h /\ j.inner = {}
  BY <1>3
<1>6. j \in Levels
  BY <1>1, <1>3, <1>4 DEF Levels
<1>7. KnownLevel(t, j)
  BY <1>1, <1>4, <1>5, <1>6 DEF KnownLevel
<1>. QED  BY <1>2, <1>5, <1>7 DEF i

LEMMA LoopEndsSound ==
  ASSUME NEW t, NEW m, Sound(t, m), Gone(t), NEW how
  PROVE  /\ Sound(LoopEnds(how, t), m) /\ Gone(LoopEnds(how, t))
         /\ Len(LoopEnds(how, t).levels) = Len(t.levels)
<1>1. PICK l : LoopEnds(how, t) = Collected(WithLevel(t, l)) /\ KnownLevel(t, l)
  BY LoopEndsIs
<1>. QED  BY <1>1, LevelCollected

LEMMA LoopEndsAgree ==
  ASSUME NEW s, NEW m, Sound(s, m), NEW t, Sound(t, m), Agree(s, t), NEW how, NEW way
  PROVE  Agree(LoopEnds(how, s), LoopEnds(way, t))
<1>1. PICK l : /\ LoopEnds(how, s) = Collected(WithLevel(s, l)) /\ KnownLevel(s, l)
               /\ l.vars = Innermost(s).vars /\ l.bound = Innermost(s).bound
               /\ l.last = Collection
  BY LoopEndsIs
<1>2. PICK k : /\ LoopEnds(way, t) = Collected(WithLevel(t, k)) /\ KnownLevel(t, k)
               /\ k.vars = Innermost(t).vars /\ k.bound = Innermost(t).bound
               /\ k.last = Collection
  BY LoopEndsIs
<1>3. AgreeLevel(s, Innermost(s), t, Innermost(t))
  BY InnermostKnown DEF Agree, Innermost
<1>4. Same(s, Collection, t, Collection)
  BY DEF Same, Appearance, IsText, IsInstance, IsObject, Collection
<1>5. AgreeLevel(s, l, t, k)
  BY <1>1, <1>2, <1>3, <1>4 DEF AgreeLevel
<1>. QED  BY <1>1, <1>2, <1>5, LevelCollectedAgree

-----------------------------------------------------------------------------
(* Calls.                                                                  *)

(* The run w holds other objects than t does, and is the same otherwise.   *)
HoldsOther(t, w) ==
  /\ w.heap = t.heap /\ w.destroyed = t.destroyed
  /\ Len(w.levels) = Len(t.levels) /\ DOMAIN w.levels = DOMAIN t.levels
  /\ \A k \in DOMAIN t.levels :
       /\ w.levels[k].vars = t.levels[k].vars /\ w.levels[k].bound = t.levels[k].bound
       /\ w.levels[k].last = t.levels[k].last

LEMMA AgreeHolding ==
  ASSUME NEW s, NEW m, Sound(s, m), NEW t, Sound(t, m), Agree(s, t),
         NEW a, HoldsOther(s, a), NEW b, HoldsOther(t, b)
  PROVE  /\ Agree(a, b)
         /\ \A v, w : Same(a, v, b, w) <=> Same(s, v, t, w)
<1>1. /\ \A v : Appearance(a, v) = Appearance(s, v) /\ (IsInstance(a, v) <=> IsInstance(s, v))
      /\ \A v : Appearance(b, v) = Appearance(t, v) /\ (IsInstance(b, v) <=> IsInstance(t, v))
  BY LooksStay DEF HoldsOther
<1>2. DOMAIN s.levels = DOMAIN t.levels
  BY InnermostKnown DEF Agree
<1>3. ASSUME NEW k \in DOMAIN a.levels PROVE AgreeLevel(a, a.levels[k], b, b.levels[k])
  <2>1. AgreeLevel(s, s.levels[k], t, t.levels[k]) /\ k \in DOMAIN s.levels /\ k \in DOMAIN t.levels
    BY <1>2 DEF Agree, HoldsOther
  <2>. QED  BY <1>1, <2>1 DEF AgreeLevel, Same, HoldsOther
<1>. QED  BY <1>1, <1>3 DEF Agree, Same, HoldsOther

LEMMA PassedIs ==
  ASSUME NEW t, made \in Nat, Sound(t, made), NEW e \in Sources, Evaluates(t, e), NEW how,
         NEW objects, \A o \in objects : Known(t, o)
  PROVE  LET r == Eval(t, e)
             q == Passed(how, t, e, objects)
         IN  /\ q.v = r.v /\ HoldsOther(r.t, q.t) /\ Sound(q.t, made + Counts(e))
             /\ \A v : Known(q.t, v) <=> Known(r.t, v)
<1> DEFINE r == Eval(t, e)
           q == Passed(how, t, e, objects)
           m == made + Counts(e)
           seen == {o \in r.seen \union objects : IsInstance(r.t, o)}
           level == Innermost(t)
           holding == IF InLoop THEN [level EXCEPT !.inner = @ \union seen]
                      ELSE [level EXCEPT !.held = @ \union seen]
<1>1. /\ Sound(r.t, m) /\ \A v \in r.seen : Known(r.t, v)
      /\ Grown(t, r.t) /\ \A v : Known(t, v) => Known(r.t, v)
  BY EvalSound DEF Grown, Known
<1>2. r = [t |-> r.t, v |-> r.v, seen |-> r.seen]
  BY EvalRecord
<1>3. Innermost(r.t) = level /\ Len(r.t.levels) = Len(t.levels)
  BY <1>1 DEF Grown, Innermost
<1>4. KnownLevel(r.t, level) /\ level \in Levels /\ DOMAIN r.t.heap \subseteq Nat
  <2>1. DOMAIN r.t.heap \in SUBSET (1..MaxObjects)
    BY <1>1 DEF Sound, Shaped
  <2>. QED  BY <1>1, <1>3, <2>1, InnermostKnown, HoldersAssumption DEF KnownLevel
<1>5. seen \subseteq DOMAIN r.t.heap
  BY <1>1 DEF Known, IsInstance, IsObject
<1>6. IF how = "interpreted" THEN q = r ELSE q = [r EXCEPT !.t = WithLevel(r.t, holding)]
  BY <1>3 DEF Passed, WithLevel
<1> HIDE DEF r, q, m, seen, level
<1>7. /\ KnownLevel(r.t, holding) /\ holding.vars = level.vars /\ holding.bound = level.bound
      /\ holding.last = level.last
  <2>1. \E h, i : /\ holding = [vars |-> level.vars, bound |-> level.bound, last |-> level.last,
                                held |-> h, inner |-> i]
                  /\ h \subseteq DOMAIN r.t.heap /\ i \subseteq DOMAIN r.t.heap
    <3>1. CASE InLoop
      <4>1. holding = [vars |-> level.vars, bound |-> level.bound, last |-> level.last,
                       held |-> level.held, inner |-> level.inner \union seen]
        BY <1>4, <3>1, LevelParts
      <4>2. level.inner \union seen \subseteq DOMAIN r.t.heap /\ level.held \subseteq DOMAIN r.t.heap
        BY <1>4, <1>5 DEF KnownLevel
      <4>. QED  BY <4>1, <4>2
    <3>2. CASE ~InLoop
      <4>1. holding = [vars |-> level.vars, bound |-> level.bound, last |-> level.last,
                       held |-> level.held \union seen, inner |-> level.inner]
        BY <1>4, <3>2, LevelParts
      <4>2. level.held \union seen \subseteq DOMAIN r.t.heap /\ level.inner \subseteq DOMAIN r.t.heap
        BY <1>4, <1>5 DEF KnownLevel
      <4>. QED  BY <4>1, <4>2
    <3>. QED  BY <3>1, <3>2
  <2> HIDE DEF holding
  <2>2. PICK h, i : /\ holding = [vars |-> level.vars, bound |-> level.bound, last |-> level.last,
                                  held |-> h, inner |-> i]
                    /\ h \subseteq DOMAIN r.t.heap /\ i \subseteq DOMAIN r.t.heap
    BY <2>1
  <2>3. /\ holding.vars = level.vars /\ holding.bound = level.bound /\ holding.last = level.last
        /\ holding.held = h /\ holding.inner = i
    BY <2>2
  <2>4. h \in SUBSET Nat /\ i \in SUBSET Nat
    BY <1>4, <2>2
  <2>5. holding \in Levels
    BY <1>4, <2>2, <2>4 DEF Levels
  <2>. QED  BY <1>4, <2>2, <2>3, <2>5 DEF KnownLevel
<1> HIDE DEF holding
<1>8. CASE how = "interpreted"
  <2>1. q = r
    BY <1>6, <1>8
  <2>. QED  BY <1>1, <2>1 DEF HoldsOther, q, r, m
<1>9. CASE how # "interpreted"
  <2>1. q.v = r.v /\ q.t = WithLevel(r.t, holding)
    BY <1>2, <1>6, <1>9
  <2>2. /\ Sound(q.t, m) /\ q.t.heap = r.t.heap /\ q.t.destroyed = r.t.destroyed
        /\ Len(q.t.levels) = Len(r.t.levels) /\ DOMAIN q.t.levels = DOMAIN r.t.levels
        /\ \A k \in DOMAIN r.t.levels :
             q.t.levels[k] = IF k = Len(r.t.levels) THEN holding ELSE r.t.levels[k]
    BY <1>1, <1>7, <2>1, LevelSet
  <2>3. HoldsOther(r.t, q.t)
    BY <1>3, <1>7, <2>2 DEF HoldsOther, Innermost
  <2>. QED  BY <2>1, <2>2, <2>3 DEF q, r, m, Known
<1>. QED  BY <1>8, <1>9

(* A call of an algorithm, a method, and a constructor, of which the       *)
(* number of the new instance is n.                                        *)
LEMMA CallSound ==
  ASSUME NEW t, made \in Nat, Sound(t, made), Gone(t), NEW e \in Sources, Evaluates(t, e),
         NEW how, NEW y \in Scope
  PROVE  LET m == made + Counts(e)
         IN  /\ Sound(Calling(how, t, e), m) /\ Gone(Calling(how, t, e))
             /\ Len(Calling(how, t, e).levels) = Len(t.levels) + 1
             /\ IsInstance(t, Binding(t, y)) =>
                  /\ Sound(CallingMethod(how, t, y, e), m) /\ Gone(CallingMethod(how, t, y, e))
                  /\ Len(CallingMethod(how, t, y, e).levels) = Len(t.levels) + 1
             /\ HasRoom(t, 2) =>
                  /\ Sound(Constructing(how, t, e), m + 1) /\ Gone(Constructing(how, t, e))
                  /\ Len(Constructing(how, t, e).levels) = Len(t.levels) + 1
<1> DEFINE m == made + Counts(e)
           r == Eval(t, e)
           o == Binding(t, y)
<1>1. /\ m \in Nat /\ Sound(r.t, m) /\ Known(r.t, r.v) /\ Grown(t, r.t) /\ Gone(r.t)
      /\ \A v : Known(t, v) => Known(r.t, v)
  BY EvalSound DEF Grown, Known
<1>2. Known(t, o)
  BY BindingKnown
<1>3. ASSUME NEW objects, \A p \in objects : Known(t, p)
      PROVE  LET q == Passed(how, t, e, objects)
             IN  /\ q.v = r.v /\ Sound(q.t, m) /\ Gone(q.t) /\ Len(q.t.levels) = Len(t.levels)
                 /\ \A v : Known(r.t, v) => Known(q.t, v)
                 /\ HasRoom(t, 2) => HasRoom(q.t, 1)
  <2> DEFINE q == Passed(how, t, e, objects)
  <2>1. /\ q.v = r.v /\ HoldsOther(r.t, q.t) /\ Sound(q.t, m)
        /\ \A v : Known(q.t, v) <=> Known(r.t, v)
    BY <1>3, PassedIs
  <2> HIDE DEF q, r, m
  <2>. QED  BY <1>1, <2>1 DEF HoldsOther, Grown, Gone, IsInstance, HasRoom, q
<1>4. Known(r.t, Unbound)
  BY DEF Known, Unbound
<1>5. /\ Sound(Calling(how, t, e), m) /\ Gone(Calling(how, t, e))
      /\ Len(Calling(how, t, e).levels) = Len(t.levels) + 1
  <2> DEFINE q == Passed(how, t, e, {})
             w == Entered(q.t, Unbound, q.v)
  <2>1. /\ Sound(q.t, m) /\ Gone(q.t) /\ Len(q.t.levels) = Len(t.levels)
        /\ Known(q.t, Unbound) /\ Known(q.t, q.v)
    BY <1>1, <1>3, <1>4
  <2>2. Calling(how, t, e) = w
    BY DEF Calling
  <2> HIDE DEF q, m
  <2>3. /\ Sound(w, m) /\ w.heap = q.t.heap /\ w.destroyed = q.t.destroyed
        /\ Len(w.levels) = Len(q.t.levels) + 1
    BY <2>1, EntersLevel
  <2>. QED  BY <2>1, <2>2, <2>3 DEF Gone, IsInstance
<1>6. ASSUME IsInstance(t, o)
      PROVE  /\ Sound(CallingMethod(how, t, y, e), m) /\ Gone(CallingMethod(how, t, y, e))
             /\ Len(CallingMethod(how, t, y, e).levels) = Len(t.levels) + 1
  <2> DEFINE q == Passed(how, t, e, {o})
             w == Entered(q.t, o, q.v)
  <2>1. /\ Sound(q.t, m) /\ Gone(q.t) /\ Len(q.t.levels) = Len(t.levels)
        /\ Known(q.t, o) /\ Known(q.t, q.v)
    BY <1>1, <1>2, <1>3
  <2>2. CallingMethod(how, t, y, e) = w
    BY DEF CallingMethod
  <2> HIDE DEF q, m, o
  <2>3. /\ Sound(w, m) /\ w.heap = q.t.heap /\ w.destroyed = q.t.destroyed
        /\ Len(w.levels) = Len(q.t.levels) + 1
    BY <2>1, EntersLevel
  <2>. QED  BY <2>1, <2>2, <2>3 DEF Gone, IsInstance
<1>7. ASSUME HasRoom(t, 2)
      PROVE  /\ Sound(Constructing(how, t, e), m + 1) /\ Gone(Constructing(how, t, e))
             /\ Len(Constructing(how, t, e).levels) = Len(t.levels) + 1
  <2> DEFINE q == Passed(how, t, e, {})
             a == Fresh(q.t)
             object == InstanceOf(m + 1)
             x == Make(q.t, object)
             w == Entered(x, a, q.v)
             j == m + 1
  <2>1. /\ Sound(q.t, m) /\ Gone(q.t) /\ Len(q.t.levels) = Len(t.levels)
        /\ Known(q.t, q.v) /\ HasRoom(q.t, 1)
    BY <1>1, <1>3, <1>7
  <2>2. Constructing(how, t, e) = w
    BY DEF Constructing
  <2>3. object # TextOf(m + 1) /\ m + 1 \in Nat
    BY <1>1 DEF InstanceOf, TextOf
  <2> HIDE DEF q, m
  <2>4. /\ Sound(x, j) /\ Gone(x) /\ x.levels = q.t.levels /\ Known(x, a)
        /\ DOMAIN q.t.heap \subseteq DOMAIN x.heap
    BY <1>1, <2>1, <2>3, Makes
  <2>5. Known(x, q.v)
    BY <2>1, <2>4 DEF Known
  <2> HIDE DEF x, a, object, j
  <2>6. /\ Sound(w, j) /\ w.heap = x.heap /\ w.destroyed = x.destroyed
        /\ Len(w.levels) = Len(x.levels) + 1
    BY <2>4, <2>5, EntersLevel
  <2>. QED  BY <2>1, <2>2, <2>4, <2>6 DEF Gone, IsInstance, j
<1>. QED  BY <1>5, <1>6, <1>7

LEMMA CallAgree ==
  ASSUME NEW s, made \in Nat, Sound(s, made), NEW t, Sound(t, made), Agree(s, t),
         NEW e \in Sources, Evaluates(s, e), Evaluates(t, e), NEW how, NEW way, NEW y \in Scope
  PROVE  /\ Agree(Calling(how, s, e), Calling(way, t, e))
         /\ IsInstance(s, Binding(s, y)) /\ IsInstance(t, Binding(t, y)) =>
              Agree(CallingMethod(how, s, y, e), CallingMethod(way, t, y, e))
         /\ HasRoom(s, 2) /\ HasRoom(t, 2) =>
              Agree(Constructing(how, s, e), Constructing(way, t, e))
<1> DEFINE m == made + Counts(e)
           f == Eval(s, e)
           g == Eval(t, e)
           o == Binding(s, y)
           p == Binding(t, y)
<1>1. /\ m \in Nat /\ Sound(f.t, m) /\ Known(f.t, f.v) /\ Sound(g.t, m) /\ Known(g.t, g.v)
      /\ Agree(f.t, g.t) /\ Same(f.t, f.v, g.t, g.v) /\ Grown(s, f.t) /\ Grown(t, g.t)
      /\ \A v : Known(s, v) => Known(f.t, v) /\ Appearance(f.t, v) = Appearance(s, v)
      /\ \A v : Known(t, v) => Known(g.t, v) /\ Appearance(g.t, v) = Appearance(t, v)
  BY EvalSound, EvalAgree DEF Grown, Known
<1>2. Known(s, o) /\ Known(t, p) /\ Same(s, o, t, p)
  BY BindingKnown, BindingsLookSame
<1>3. Known(f.t, o) /\ Known(g.t, p) /\ Same(f.t, o, g.t, p)
  BY <1>1, <1>2 DEF Same
<1>4. ASSUME NEW S, \A x \in S : Known(s, x), NEW T, \A x \in T : Known(t, x)
      PROVE  LET a == Passed(how, s, e, S)
                 b == Passed(way, t, e, T)
             IN  /\ Sound(a.t, m) /\ Sound(b.t, m) /\ Agree(a.t, b.t)
                 /\ Known(a.t, a.v) /\ Known(b.t, b.v) /\ Same(a.t, a.v, b.t, b.v)
                 /\ \A v : Known(f.t, v) => Known(a.t, v)
                 /\ \A v : Known(g.t, v) => Known(b.t, v)
                 /\ \A v, w : Same(f.t, v, g.t, w) => Same(a.t, v, b.t, w)
                 /\ HasRoom(s, 2) => HasRoom(a.t, 1)
                 /\ HasRoom(t, 2) => HasRoom(b.t, 1)
  <2> DEFINE a == Passed(how, s, e, S)
             b == Passed(way, t, e, T)
  <2>1. /\ a.v = f.v /\ HoldsOther(f.t, a.t) /\ Sound(a.t, m)
        /\ \A v : Known(a.t, v) <=> Known(f.t, v)
    BY <1>4, PassedIs
  <2>2. /\ b.v = g.v /\ HoldsOther(g.t, b.t) /\ Sound(b.t, m)
        /\ \A v : Known(b.t, v) <=> Known(g.t, v)
    BY <1>4, PassedIs
  <2> HIDE DEF a, b, f, g, m
  <2>3. /\ Agree(a.t, b.t)
        /\ \A v, w : Same(a.t, v, b.t, w) <=> Same(f.t, v, g.t, w)
    BY <1>1, <2>1, <2>2, AgreeHolding
  <2>4. /\ HasRoom(s, 2) => HasRoom(a.t, 1)
        /\ HasRoom(t, 2) => HasRoom(b.t, 1)
    BY <1>1, <2>1, <2>2 DEF HoldsOther, Grown, HasRoom
  <2>. QED  BY <1>1, <2>1, <2>2, <2>3, <2>4 DEF a, b
<1>5. /\ Known(f.t, Unbound) /\ Known(g.t, Unbound) /\ Same(f.t, Unbound, g.t, Unbound)
  BY DEF Known, Same, Appearance, IsText, IsInstance, IsObject, Unbound
<1>6. Agree(Calling(how, s, e), Calling(way, t, e))
  <2> DEFINE a == Passed(how, s, e, {})
             b == Passed(way, t, e, {})
  <2>1. /\ Sound(a.t, m) /\ Sound(b.t, m) /\ Agree(a.t, b.t)
        /\ Known(a.t, a.v) /\ Known(b.t, b.v) /\ Same(a.t, a.v, b.t, b.v)
        /\ Known(a.t, Unbound) /\ Known(b.t, Unbound) /\ Same(a.t, Unbound, b.t, Unbound)
    BY <1>4, <1>5
  <2> HIDE DEF a, b, m
  <2>. QED  BY <2>1, AgreeEntered DEF Calling, a, b
<1>7. ASSUME IsInstance(s, o), IsInstance(t, p)
      PROVE  Agree(CallingMethod(how, s, y, e), CallingMethod(way, t, y, e))
  <2> DEFINE a == Passed(how, s, e, {o})
             b == Passed(way, t, e, {p})
  <2>1. /\ Sound(a.t, m) /\ Sound(b.t, m) /\ Agree(a.t, b.t)
        /\ Known(a.t, a.v) /\ Known(b.t, b.v) /\ Same(a.t, a.v, b.t, b.v)
        /\ Known(a.t, o) /\ Known(b.t, p) /\ Same(a.t, o, b.t, p)
    BY <1>2, <1>3, <1>4
  <2> HIDE DEF a, b, m
  <2>. QED  BY <2>1, AgreeEntered DEF CallingMethod, a, b
<1>8. ASSUME HasRoom(s, 2), HasRoom(t, 2)
      PROVE  Agree(Constructing(how, s, e), Constructing(way, t, e))
  <2> DEFINE a == Passed(how, s, e, {})
             b == Passed(way, t, e, {})
             object == InstanceOf(m + 1)
             c == Make(a.t, object)
             d == Make(b.t, object)
             j == m + 1
  <2>1. /\ Sound(a.t, m) /\ Sound(b.t, m) /\ Agree(a.t, b.t)
        /\ Known(a.t, a.v) /\ Known(b.t, b.v) /\ Same(a.t, a.v, b.t, b.v)
        /\ HasRoom(a.t, 1) /\ HasRoom(b.t, 1)
    BY <1>4, <1>8
  <2>2. object # TextOf(m + 1) /\ j \in Nat /\ m \in Nat
    BY <1>1 DEF InstanceOf, TextOf
  <2>3. object.born > m /\ object.member = Plain /\ object.kind = "instance" /\ object.born = j
    BY <1>1 DEF InstanceOf
  <2>4. /\ Constructing(how, s, e) = Entered(c, Fresh(a.t), a.v)
        /\ Constructing(way, t, e) = Entered(d, Fresh(b.t), b.v)
    BY DEF Constructing
  <2> HIDE DEF a, b, m
  <2>5. /\ Sound(c, j) /\ Grown(a.t, c) /\ c.heap[Fresh(a.t)] = object /\ Fresh(a.t) > 0
        /\ DOMAIN c.heap = DOMAIN a.t.heap \union {Fresh(a.t)} /\ Known(c, Fresh(a.t))
    BY <2>1, <2>2, Makes, MakesRoom
  <2>6. /\ Sound(d, j) /\ Grown(b.t, d) /\ d.heap[Fresh(b.t)] = object /\ Fresh(b.t) > 0
        /\ DOMAIN d.heap = DOMAIN b.t.heap \union {Fresh(b.t)} /\ Known(d, Fresh(b.t))
    BY <2>1, <2>2, Makes, MakesRoom
  <2> HIDE DEF c, d, object, j
  <2>7. /\ Agree(c, d)
        /\ \A v : Known(a.t, v) => Appearance(c, v) = Appearance(a.t, v)
        /\ \A v : Known(b.t, v) => Appearance(d, v) = Appearance(b.t, v)
    BY <2>1, <2>2, <2>3, <2>5, <2>6, AgreeGrown
  <2>8. Same(c, Fresh(a.t), d, Fresh(b.t))
    BY <2>3, <2>5, <2>6 DEF Same, Appearance, IsText, IsInstance, IsObject
  <2>9. Known(c, a.v) /\ Known(d, b.v) /\ Same(c, a.v, d, b.v)
    BY <2>1, <2>5, <2>6, <2>7 DEF Known, Grown, Same
  <2>. QED  BY <2>4, <2>5, <2>6, <2>7, <2>8, <2>9, AgreeEntered
<1>. QED  BY <1>6, <1>7, <1>8

-----------------------------------------------------------------------------
(* The end of a call.                                                      *)

(* Nothing holds the object o.                                             *)
Frees(l, o) ==
  /\ \A x \in Scope : l.vars[x] # o
  /\ l.bound # o /\ l.last # o /\ o \notin l.held /\ o \notin l.inner

Unheld(t, o) ==
  /\ \A k \in DOMAIN t.levels : Frees(t.levels[k], o)
  /\ \A p \in DOMAIN t.heap : IsInstance(t, p) => t.heap[p].member # o

LEMMA UnheldGoes ==
  ASSUME NEW t, NEW m, Sound(t, m), NEW o, Unheld(t, o)
  PROVE  o \notin Kept(t)
<1>1. ASSUME o \in HeldByScopes(t) PROVE FALSE
  <2>1. PICK k \in DOMAIN t.levels :
          \/ \E x \in DOMAIN t.levels[k].vars : o = t.levels[k].vars[x]
          \/ o = t.levels[k].bound \/ o = t.levels[k].last
          \/ o \in t.levels[k].held \/ o \in t.levels[k].inner
    BY <1>1, HeldByScope
  <2>2. DOMAIN t.levels[k].vars = Scope
    BY DEF Sound, KnownLevel, Levels
  <2>. QED  BY <2>1, <2>2 DEF Unheld, Frees
<1>2. ASSUME o \in HeldByObjects(t, Kept(t)) PROVE FALSE
  <2>1. PICK p \in Kept(t) : IsInstance(t, p) /\ o = t.heap[p].member
    BY <1>2 DEF HeldByObjects
  <2>2. p \in DOMAIN t.heap
    BY KeptObjects
  <2>. QED  BY <2>1, <2>2 DEF Unheld
<1>. QED  BY <1>1, <1>2, KeptObjects

LEMMA LevelUnheld ==
  ASSUME NEW t, NEW m, Sound(t, m), NEW o, Unheld(t, o), NEW l, KnownLevel(t, l), Frees(l, o)
  PROVE  Unheld(WithLevel(t, l), o)
<1> DEFINE w == WithLevel(t, l)
<1>1. /\ w.heap = t.heap /\ DOMAIN w.levels = DOMAIN t.levels
      /\ \A k \in DOMAIN t.levels : w.levels[k] = IF k = Len(t.levels) THEN l ELSE t.levels[k]
  BY LevelSet
<1> HIDE DEF w
<1>. QED  BY <1>1 DEF Unheld, IsInstance, w

LEMMA BindNameUnheld ==
  ASSUME NEW t, NEW m, Sound(t, m), NEW o, Unheld(t, o), NEW x \in Scope, NEW v, Known(t, v), v # o
  PROVE  Unheld(BindName(t, x, v), o)
<1> DEFINE i == Innermost(t)
           l == [i EXCEPT !.vars = [@ EXCEPT ![x] = v]]
<1>1. /\ KnownLevel(t, l) /\ BindName(t, x, v) = WithLevel(t, l)
      /\ \A y \in Scope : l.vars[y] = IF y = x THEN v ELSE i.vars[y]
      /\ l.bound = i.bound /\ l.last = i.last /\ l.held = i.held /\ l.inner = i.inner
  BY Binds
<1>2. Frees(i, o)
  BY InnermostKnown DEF Innermost, Unheld
<1> HIDE DEF l, i
<1>3. Frees(l, o)
  BY <1>1, <1>2 DEF Frees
<1>. QED  BY <1>1, <1>3, LevelUnheld

(* What is still held after a statement has a destructor that has not been *)
(* called.                                                                 *)
LEMMA DoneGone ==
  ASSUME NEW r, NEW m, Sound(r.t, m), NEW how, Known(r.t, r.v), \A o \in r.seen : Known(r.t, o),
         \A o \in DOMAIN r.t.heap :
           \/ IsInstance(r.t, o) => r.t.heap[o].born \notin r.t.destroyed
           \/ Unheld(r.t, o) /\ o # r.v /\ o \notin r.seen
  PROVE  Gone(Done(how, r))
<1>1. PICK l : LeftBy(r.t, l, r.v, r.seen) /\ Holding(how, r.t, r.v, r.seen) = WithLevel(r.t, l)
  BY HoldingIs
<1> DEFINE w == WithLevel(r.t, l)
<1>2. Sound(w, m) /\ w.heap = r.t.heap /\ w.destroyed = r.t.destroyed
  BY <1>1, LevelSet DEF LeftBy
<1>3. Done(how, r) = Collected(w)
  BY <1>1 DEF Done
<1>4. ASSUME NEW o, Unheld(r.t, o), o # r.v, o \notin r.seen PROVE Unheld(w, o)
  <2>1. Frees(Innermost(r.t), o)
    BY <1>4, InnermostKnown DEF Innermost, Unheld
  <2>2. Frees(l, o)
    BY <1>1, <1>4, <2>1 DEF LeftBy, Frees
  <2>. QED  BY <1>1, <1>4, <2>2, LevelUnheld DEF LeftBy
<1> HIDE DEF w
<1>5. \A o \in Kept(w) : IsInstance(w, o) => w.heap[o].born \notin w.destroyed
  <2> SUFFICES ASSUME NEW o \in Kept(w), IsInstance(w, o) PROVE w.heap[o].born \notin w.destroyed
    OBVIOUS
  <2>1. o \in DOMAIN r.t.heap /\ IsInstance(r.t, o)
    BY <1>2, KeptObjects DEF IsInstance
  <2>2. ~(Unheld(r.t, o) /\ o # r.v /\ o \notin r.seen)
    BY <1>2, <1>4, UnheldGoes
  <2>. QED  BY <1>2, <2>1, <2>2
<1>. QED  BY <1>2, <1>3, <1>5, CollectedGone

LEMMA LeavingIs ==
  ASSUME NEW t, NEW m, Sound(t, m), NEW v, Known(t, v)
  PROVE  \E l : /\ Leaving(t, v) = WithLevel(t, l) /\ KnownLevel(t, l)
                /\ l.vars = Innermost(t).vars /\ l.bound = Innermost(t).bound
                /\ l.last = v
<1> DEFINE i == Innermost(t)
           l == [i EXCEPT !.last = v, !.held = {}, !.inner = {}]
<1>1. KnownLevel(t, i) /\ i \in Levels /\ v \in Int
  BY InnermostKnown DEF KnownLevel, Known
<1>2. Leaving(t, v) = WithLevel(t, l)
  BY DEF Leaving, WithLevel, Innermost
<1> HIDE DEF i
<1>3. l = [vars |-> i.vars, bound |-> i.bound, last |-> v, held |-> {}, inner |-> {}]
  <2>1. i = [vars |-> i.vars, bound |-> i.bound, last |-> i.last, held |-> i.held, inner |-> i.inner]
    BY <1>1, LevelParts
  <2>2. l = [i EXCEPT !.last = v, !.held = {}, !.inner = {}]
    OBVIOUS
  <2> HIDE DEF l
  <2>. QED  BY <2>1, <2>2
<1> HIDE DEF l
<1>4. l.vars = i.vars /\ l.bound = i.bound /\ l.last = v /\ l.held = {} /\ l.inner = {}
  BY <1>3
<1>5. l \in Levels
  BY <1>1, <1>3 DEF Levels
<1>6. KnownLevel(t, l)
  BY <1>1, <1>4, <1>5 DEF KnownLevel
<1>. QED  BY <1>2, <1>4, <1>6 DEF i

(* The scope that ends takes the only name of what dies with it.           *)
LEMMA LeftIs ==
  ASSUME NEW t, NEW m, Sound(t, m), Len(t.levels) > 1, NEW how, NEW v, Known(t, v)
  PROVE  LET w == Left(how, t, v)
             s == Leaving(t, v)
         IN  /\ Sound(s, m) /\ Sound(w, m)
             /\ w = Leaves(s, w.destroyed) /\ w.destroyed \in SUBSET (1..m)
             /\ Len(w.levels) = Len(t.levels) - 1 /\ w.heap = t.heap
             /\ w.destroyed = t.destroyed \union {t.heap[o].born : o \in Dying(how, s)}
             /\ \A o \in Dying(how, s) : o \in DOMAIN t.heap /\ IsInstance(t, o) /\ Unheld(w, o) /\ o # v
<1> DEFINE s == Leaving(t, v)
           w == Left(how, t, v)
           B == {t.heap[o].born : o \in Dying(how, s)}
           d == t.destroyed \union B
           n == Len(t.levels)
<1>1. PICK l : /\ s = WithLevel(t, l) /\ KnownLevel(t, l)
               /\ l.vars = Innermost(t).vars /\ l.bound = Innermost(t).bound
               /\ l.last = v
  BY LeavingIs
<1> HIDE DEF s
<1>2. /\ Sound(s, m) /\ s.heap = t.heap /\ s.destroyed = t.destroyed
      /\ Len(s.levels) = n /\ Innermost(s) = l
  BY <1>1, LevelSet
<1>3. s = [heap |-> s.heap, levels |-> s.levels, destroyed |-> s.destroyed]
  BY <1>2 DEF Sound, Shaped
<1>4. ASSUME NEW o \in Dying(how, s)
      PROVE  /\ o \in DOMAIN t.heap /\ IsInstance(t, o) /\ o # v /\ UseCount(s, o) = 1
             /\ \E x \in Scope : s.levels[n].vars[x] = o
             /\ t.heap[o].born \in 1..m
  <2>1. /\ o \in DOMAIN s.heap /\ IsInstance(s, o) /\ UseCount(s, o) = 1
        /\ \E x \in Cleaned(how) : Innermost(s).vars[x] = o
    BY DEF Dying
  <2>2. Cleaned(how) \subseteq Scope
    BY DEF Cleaned, Scope
  <2>3. \E x \in Scope : s.levels[n].vars[x] = o
    BY <1>2, <2>1, <2>2 DEF Innermost
  <2>4. IsInstance(t, o) /\ o \in DOMAIN t.heap
    BY <1>2, <2>1 DEF IsInstance
  <2>5. n \in DOMAIN s.levels /\ s.levels[n].last = v
    BY <1>1, <1>2, InnermostKnown DEF Innermost
  <2>6. o # v
    BY <1>2, <2>1, <2>3, <2>5, SoleHolder
  <2>. QED  BY <2>1, <2>3, <2>4, <2>6 DEF Sound
<1>5. B \subseteq 1..m
  BY <1>4
<1>6. d \in SUBSET (1..m)
  BY <1>5 DEF Sound
<1>7. w = Leaves(s, d)
  <2> DEFINE D == Dying(how, s)
  <2>1. w = [s EXCEPT !.destroyed = @ \union {t.heap[o].born : o \in D}, !.levels = Front(@)]
    BY DEF Left, s
  <2> HIDE DEF D
  <2>2. w = [heap |-> s.heap, levels |-> Front(s.levels),
             destroyed |-> s.destroyed \union {t.heap[o].born : o \in D}]
    BY <1>3, <2>1
  <2>. QED  BY <1>2, <2>2 DEF Leaves, D
<1> HIDE DEF d, w
<1>8. /\ Sound(w, m) /\ Len(w.levels) = n - 1 /\ DOMAIN w.levels = 1..n - 1
      /\ \A k \in 1..n - 1 : w.levels[k] = s.levels[k]
      /\ w.heap = s.heap /\ w.destroyed = d
  BY <1>2, <1>6, <1>7, LeavesLevel
<1>9. 1..n - 1 \subseteq DOMAIN s.levels /\ n \notin 1..n - 1 /\ n \in DOMAIN s.levels
  BY <1>2, InnermostKnown
<1>10. ASSUME NEW o \in Dying(how, s) PROVE Unheld(w, o)
  <2>1. PICK x \in Scope : s.levels[n].vars[x] = o
    BY <1>4
  <2>2. UseCount(s, o) = 1
    BY <1>4
  <2>3. /\ \A k \in DOMAIN s.levels, y \in Scope : s.levels[k].vars[y] = o => k = n /\ y = x
        /\ \A p \in DOMAIN s.heap : IsInstance(s, p) => s.heap[p].member # o
        /\ \A k \in DOMAIN s.levels :
             /\ o # s.levels[k].last /\ o # s.levels[k].bound
             /\ o \notin s.levels[k].held /\ o \notin s.levels[k].inner
    BY <1>2, <1>9, <2>1, <2>2, SoleHolder
  <2>4. \A k \in DOMAIN w.levels : k \in DOMAIN s.levels /\ k # n /\ w.levels[k] = s.levels[k]
    BY <1>8, <1>9
  <2>. QED  BY <1>8, <2>3, <2>4 DEF Unheld, Frees, IsInstance
<1>. QED  BY <1>2, <1>4, <1>6, <1>7, <1>8, <1>10 DEF d, w, s

LEMMA ReceivedSound ==
  ASSUME NEW t, NEW m, Sound(t, m), NEW target \in Scope \union {Nobody}, NEW v, Known(t, v)
  PROVE  LET q == Received(t, target, v)
         IN  /\ Sound(q.t, m) /\ Len(q.t.levels) = Len(t.levels) /\ q.v = v /\ q.seen = {v}
             /\ q.t.heap = t.heap /\ q.t.destroyed = t.destroyed /\ Known(q.t, v)
             /\ target = Nobody => q.t = t
             /\ target # Nobody => q.t = BindName(t, target, v)
             /\ \A o : Unheld(t, o) /\ o # v => Unheld(q.t, o)
<1> DEFINE q == Received(t, target, v)
<1>1. /\ target = Nobody => q.t = t
      /\ target # Nobody => q.t = BindName(t, target, v)
      /\ q.v = v /\ q.seen = {v}
  BY DEF Received
<1> HIDE DEF q
<1>2. CASE target = Nobody
  BY <1>1, <1>2 DEF q
<1>3. CASE target # Nobody
  <2>1. target \in Scope
    BY <1>3
  <2>2. \A o : Unheld(t, o) /\ o # v => Unheld(BindName(t, target, v), o)
    BY <2>1, BindNameUnheld
  <2>. QED  BY <1>1, <1>3, <2>1, <2>2, BindNameSound DEF q
<1>. QED  BY <1>2, <1>3

(* What a call returns reaches its target.                                 *)
Arrived(how, t, target, v) == Received(Left(how, t, v), target, v)

LEMMA ArrivedSound ==
  ASSUME NEW t, NEW m, Sound(t, m), Gone(t), Len(t.levels) > 1, NEW how, NEW v, Known(t, v),
         NEW target \in Scope \union {Nobody}
  PROVE  LET q == Arrived(how, t, target, v)
         IN  /\ Sound(Done(how, q), m) /\ Gone(Done(how, q))
             /\ Len(Done(how, q).levels) = Len(t.levels) - 1
<1> DEFINE w == Left(how, t, v)
           q == Received(w, target, v)
           D == Dying(how, Leaving(t, v))
<1>0. Sound(w, m)
  BY LeftIs
<1>1. /\ Len(w.levels) = Len(t.levels) - 1 /\ w.heap = t.heap
      /\ w.destroyed = t.destroyed \union {t.heap[o].born : o \in D}
      /\ \A o \in D : o \in DOMAIN t.heap /\ IsInstance(t, o) /\ Unheld(w, o) /\ o # v
  BY LeftIs
<1> HIDE DEF w, D, q
<1>2. Known(w, v)
  BY <1>1 DEF Known
<1>3. /\ Sound(q.t, m) /\ Len(q.t.levels) = Len(w.levels) /\ q.v = v /\ q.seen = {v}
      /\ q.t.heap = w.heap /\ q.t.destroyed = w.destroyed /\ Known(q.t, v)
  BY <1>0, <1>2, ReceivedSound DEF q
<1>7. \A o : Unheld(w, o) /\ o # v => Unheld(q.t, o)
  BY <1>0, <1>2, ReceivedSound DEF q
<1>4. ASSUME NEW o \in DOMAIN q.t.heap
      PROVE  \/ IsInstance(q.t, o) => q.t.heap[o].born \notin q.t.destroyed
             \/ Unheld(q.t, o) /\ o # q.v /\ o \notin q.seen
  <2>1. CASE o \in D
    BY <1>1, <1>3, <1>7, <2>1
  <2>2. CASE o \notin D
    <3>1. IsInstance(q.t, o) => IsInstance(t, o) /\ o \in DOMAIN t.heap
      BY <1>1, <1>3 DEF IsInstance
    <3>2. IsInstance(t, o) => t.heap[o].born \notin t.destroyed
      BY <1>1, <1>3 DEF Gone
    <3>3. IsInstance(t, o) => \A p \in D : t.heap[p].born # t.heap[o].born
      BY <1>1, <1>3, <2>2 DEF Sound
    <3>. QED  BY <1>1, <1>3, <3>1, <3>2, <3>3
  <2>. QED  BY <2>1, <2>2
<1>5. Sound(Done(how, q), m) /\ Len(Done(how, q).levels) = Len(q.t.levels)
  BY <1>3, DoneSound
<1>6. Gone(Done(how, q))
  BY <1>3, <1>4, DoneGone
<1>. QED  BY <1>1, <1>3, <1>5, <1>6 DEF Arrived, q, w

LEMMA ArrivedAgree ==
  ASSUME NEW s, NEW m, Sound(s, m), NEW t, Sound(t, m), Agree(s, t), Len(s.levels) > 1,
         NEW how, NEW way, NEW x, Known(s, x), NEW y, Known(t, y), Same(s, x, t, y),
         NEW target \in Scope \union {Nobody}
  PROVE  Agree(Done(how, Arrived(how, s, target, x)), Done(way, Arrived(way, t, target, y)))
<1> DEFINE a == Left(how, s, x)
           b == Left(way, t, y)
           f == Received(a, target, x)
           g == Received(b, target, y)
<1>1. /\ AgreeLevel(s, Innermost(s), t, Innermost(t)) /\ Len(t.levels) = Len(s.levels)
  BY InnermostKnown DEF Agree, Innermost
<1>2. PICK l : /\ Leaving(s, x) = WithLevel(s, l) /\ KnownLevel(s, l)
               /\ l.vars = Innermost(s).vars /\ l.bound = Innermost(s).bound /\ l.last = x
  BY LeavingIs
<1>3. PICK k : /\ Leaving(t, y) = WithLevel(t, k) /\ KnownLevel(t, k)
               /\ k.vars = Innermost(t).vars /\ k.bound = Innermost(t).bound /\ k.last = y
  BY LeavingIs
<1>4. AgreeLevel(s, l, t, k)
  BY <1>1, <1>2, <1>3 DEF AgreeLevel
<1>5. Agree(Leaving(s, x), Leaving(t, y))
  BY <1>2, <1>3, <1>4, AgreeLevelSet
<1>6. /\ Sound(a, m) /\ a.heap = s.heap /\ Sound(Leaving(s, x), m)
      /\ a = Leaves(Leaving(s, x), a.destroyed) /\ a.destroyed \in SUBSET (1..m)
  BY LeftIs
<1>7. /\ Sound(b, m) /\ b.heap = t.heap /\ Sound(Leaving(t, y), m)
      /\ b = Leaves(Leaving(t, y), b.destroyed) /\ b.destroyed \in SUBSET (1..m)
  BY <1>1, LeftIs
<1> HIDE DEF a, b, f, g
<1>8. Len(Leaving(s, x).levels) > 1
  <2>1. Len(WithLevel(s, l).levels) = Len(s.levels)
    BY <1>2, LevelSet
  <2>. QED  BY <1>2, <2>1
<1>9. Agree(a, b)
  BY <1>5, <1>6, <1>7, <1>8, AgreeLeft
<1>10. Known(a, x) /\ Known(b, y) /\ Same(a, x, b, y)
  BY <1>6, <1>7, LooksStay DEF Known, Same
<1>11. /\ Sound(f.t, m) /\ f.v = x /\ f.seen = {x} /\ Known(f.t, x)
       /\ target = Nobody => f.t = a
       /\ target # Nobody => f.t = BindName(a, target, x)
  BY <1>6, <1>10, ReceivedSound DEF f
<1>12. /\ Sound(g.t, m) /\ g.v = y /\ g.seen = {y} /\ Known(g.t, y)
       /\ target = Nobody => g.t = b
       /\ target # Nobody => g.t = BindName(b, target, y)
  BY <1>7, <1>10, ReceivedSound DEF g
<1>13. Agree(f.t, g.t) /\ Same(f.t, x, g.t, y)
  <2>1. CASE target = Nobody
    BY <1>9, <1>10, <1>11, <1>12, <2>1
  <2>2. CASE target # Nobody
    <3>1. target \in Scope
      BY <2>2
    <3>. QED  BY <1>6, <1>7, <1>9, <1>10, <1>11, <1>12, <2>2, <3>1, BindNameAgree
  <2>. QED  BY <2>1, <2>2
<1>14. Agree(Done(how, f), Done(way, g))
  BY <1>11, <1>12, <1>13, DoneAgree
<1>. QED  BY <1>14 DEF Arrived, a, b, f, g

(* What a call returns.                                                    *)
Returned(t, v) == IF control[Len(control)].makes THEN Innermost(t).bound ELSE v

LEMMA EndedIs ==
  ASSUME NEW t, NEW m, Sound(t, m), NEW v, Known(t, v), NEW how,
         control \in Seq(Contexts), Len(control) = Len(t.levels)
  PROVE  /\ Ended(how, t, v) = Done(how, Arrived(how, t, control[Len(control)].target, Returned(t, v)))
         /\ control[Len(control)].target \in Scope \union {Nobody}
         /\ Known(t, Returned(t, v))
<1>1. control[Len(control)] \in Contexts
  BY LenProperties, InnermostKnown
<1>2. control[Len(control)].target \in Scope \union {Nobody}
  BY <1>1 DEF Contexts
<1>3. Known(t, Returned(t, v))
  BY InnermostKnown DEF KnownLevel, Returned
<1>. QED  BY <1>2, <1>3 DEF Ended, Arrived, Returned

LEMMA EndedSound ==
  ASSUME NEW t, NEW m, Sound(t, m), Gone(t), Len(t.levels) > 1, NEW how, NEW v, Known(t, v),
         control \in Seq(Contexts), Len(control) = Len(t.levels)
  PROVE  /\ Sound(Ended(how, t, v), m) /\ Gone(Ended(how, t, v))
         /\ Len(Ended(how, t, v).levels) = Len(t.levels) - 1
<1> DEFINE target == control[Len(control)].target
           r == Returned(t, v)
<1>1. /\ Ended(how, t, v) = Done(how, Arrived(how, t, target, r))
      /\ target \in Scope \union {Nobody} /\ Known(t, r)
  BY EndedIs
<1> HIDE DEF target, r
<1>. QED  BY <1>1, ArrivedSound

LEMMA EndedAgree ==
  ASSUME NEW s, NEW m, Sound(s, m), NEW t, Sound(t, m), Agree(s, t), Len(s.levels) > 1,
         NEW how, NEW way, NEW v, Known(s, v), NEW w, Known(t, w), Same(s, v, t, w),
         control \in Seq(Contexts), Len(control) = Len(s.levels)
  PROVE  Agree(Ended(how, s, v), Ended(way, t, w))
<1>1. /\ AgreeLevel(s, Innermost(s), t, Innermost(t)) /\ Len(t.levels) = Len(s.levels)
  BY InnermostKnown DEF Agree, Innermost
<1>2. Same(s, Returned(s, v), t, Returned(t, w))
  BY <1>1 DEF Returned, AgreeLevel
<1>3. /\ control[Len(control)].target \in Scope \union {Nobody}
      /\ Known(s, Returned(s, v)) /\ Known(t, Returned(t, w))
      /\ Ended(how, s, v) = Done(how, Arrived(how, s, control[Len(control)].target, Returned(s, v)))
      /\ Ended(way, t, w) = Done(way, Arrived(way, t, control[Len(control)].target, Returned(t, w)))
  BY <1>1, EndedIs
<1>. QED  BY <1>2, <1>3, ArrivedAgree

-----------------------------------------------------------------------------
(* The two runs in every state.                                            *)
Run(t) == Sound(t, made) /\ Gone(t) /\ Len(t.levels) = Len(control)

HoldersInv ==
  /\ program \subseteq Commands /\ made \in Nat /\ control \in Seq(Contexts)
  /\ Run(interp) /\ Run(comp)

(* Where appending in place is kept to what it is meant for, a program     *)
(* cannot tell the two apart.                                              *)
RunsAgree == Guarded => Agree(interp, comp)

LEMMA AssignStep ==
  ASSUME HoldersInv, NEW x \in Scope, NEW e \in Sources, AssignVariable(x, e), UNCHANGED program
  PROVE  HoldersInv' /\ (RunsAgree => RunsAgree')
<1>1. /\ interp' = Done("interpreted", AssignTo(interp, x, e))
      /\ comp' = Done("compiled", AssignTo(comp, x, e))
      /\ made' = made + Counts(e) /\ control' = control /\ program' = program
      /\ Evaluates(interp, e) /\ Evaluates(comp, e)
  BY DEF AssignVariable
<1>2. made' \in Nat
  BY <1>1 DEF HoldersInv, Counts
<1>3. Run(interp)' /\ Run(comp)'
  BY <1>1, AssignSound DEF HoldersInv, Run
<1>4. ASSUME Agree(interp, comp) PROVE Agree(interp', comp')
  BY <1>1, <1>4, AssignAgree DEF HoldersInv, Run
<1>. QED  BY <1>1, <1>2, <1>3, <1>4 DEF HoldersInv, RunsAgree

LEMMA StoreStep ==
  ASSUME HoldersInv, NEW y \in Scope, NEW e \in Sources, AssignMember(y, e), UNCHANGED program
  PROVE  HoldersInv' /\ (RunsAgree => RunsAgree')
<1>1. /\ interp' = Done("interpreted", StoreIn(interp, y, e))
      /\ comp' = Done("compiled", StoreIn(comp, y, e))
      /\ made' = made + Counts(e) /\ control' = control /\ program' = program
      /\ Evaluates(interp, e) /\ Evaluates(comp, e)
      /\ IsInstance(interp, Binding(interp, y)) /\ IsInstance(comp, Binding(comp, y))
  BY DEF AssignMember
<1>2. made' \in Nat
  BY <1>1 DEF HoldersInv, Counts
<1>3. Run(interp)' /\ Run(comp)'
  BY <1>1, StoreSound DEF HoldersInv, Run
<1>4. ASSUME Agree(interp, comp) PROVE Agree(interp', comp')
  BY <1>1, <1>4, StoreAgree DEF HoldersInv, Run
<1>. QED  BY <1>1, <1>2, <1>3, <1>4 DEF HoldersInv, RunsAgree

LEMMA AppendStep ==
  ASSUME HoldersInv, NEW x \in Scope, NEW y \in Scope, NEW k \in {"text", "assign", "store"},
         AppendText(x, k, y), UNCHANGED program
  PROVE  HoldersInv' /\ (RunsAgree => RunsAgree')
<1>1. /\ interp' = Done("interpreted", Appended("interpreted", interp, x, k, y))
      /\ comp' = Done("compiled", Appended("compiled", comp, x, k, y))
      /\ made' = made /\ control' = control /\ program' = program
      /\ Appends(interp, x, k, y) /\ Appends(comp, x, k, y)
      /\ Guarded => InPlaceIsLocal(x, k)
  BY DEF AppendText
<1>2. Run(interp)' /\ Run(comp)'
  BY <1>1, AppendSound DEF HoldersInv, Run
<1>3. ASSUME Guarded, Agree(interp, comp) PROVE Agree(interp', comp')
  <2>1. Sole(interp, x) => k = "text" /\ Innermost(interp).vars[x] # Unbound
    BY <1>1, <1>3 DEF InPlaceIsLocal
  <2>. QED  BY <1>1, <1>3, <2>1, AppendAgree DEF HoldersInv, Run
<1>. QED  BY <1>1, <1>2, <1>3 DEF HoldersInv, RunsAgree

LEMMA LoopStep ==
  ASSUME HoldersInv, NEW k \in {"one", "several"}, UNCHANGED program,
         EnterLoop(k) \/ NextTurn \/ LeaveLoop
  PROVE  HoldersInv' /\ (RunsAgree => RunsAgree')
<1>1. /\ made' = made /\ program' = program
      /\ Len(control) \in Nat \ {0} /\ control[Len(control)] \in Contexts
  BY LenProperties, InnermostKnown DEF EnterLoop, NextTurn, LeaveLoop, HoldersInv, Run
<1>2. ASSUME NEW l \in {"none", "one", "several"}
      PROVE  LET c == [control EXCEPT ![Len(control)].loop = l]
             IN  c \in Seq(Contexts) /\ Len(c) = Len(control)
  <2> DEFINE c == [control[Len(control)] EXCEPT !.loop = l]
  <2>1. c \in Contexts
    BY <1>1 DEF Contexts
  <2>2. [control EXCEPT ![Len(control)].loop = l] = [control EXCEPT ![Len(control)] = c]
    OBVIOUS
  <2> HIDE DEF c
  <2>. QED  BY <1>1, <2>1, <2>2, ExceptSeq DEF HoldersInv
<1>3. CASE EnterLoop(k)
  <2>1. control' \in Seq(Contexts) /\ Len(control') = Len(control)
    BY <1>2, <1>3 DEF EnterLoop
  <2>2. interp' = interp /\ comp' = comp
    BY <1>3 DEF EnterLoop
  <2>. QED  BY <1>1, <2>1, <2>2 DEF HoldersInv, Run, RunsAgree
<1>4. CASE NextTurn
  <2>1. control' = control /\ interp' = interp /\ comp' = Released(comp)
    BY <1>4 DEF NextTurn
  <2>2. Run(comp)'
    BY <1>1, <2>1, ReleasedSound DEF HoldersInv, Run
  <2>3. ASSUME Agree(interp, comp) PROVE Agree(interp', comp')
    BY <2>1, <2>3, ReleasedAgree DEF HoldersInv, Run
  <2>. QED  BY <1>1, <2>1, <2>2, <2>3 DEF HoldersInv, Run, RunsAgree
<1>5. CASE LeaveLoop
  <2>1. control' \in Seq(Contexts) /\ Len(control') = Len(control)
    BY <1>2, <1>5 DEF LeaveLoop
  <2>2. interp' = LoopEnds("interpreted", interp) /\ comp' = LoopEnds("compiled", comp)
    BY <1>5 DEF LeaveLoop
  <2>3. Run(interp)' /\ Run(comp)'
    BY <1>1, <2>1, <2>2, LoopEndsSound DEF HoldersInv, Run
  <2>4. ASSUME Agree(interp, comp) PROVE Agree(interp', comp')
    BY <2>2, <2>4, LoopEndsAgree DEF HoldersInv, Run
  <2>. QED  BY <1>1, <2>1, <2>3, <2>4 DEF HoldersInv, RunsAgree
<1>. QED  BY <1>3, <1>4, <1>5

LEMMA CallStep ==
  ASSUME HoldersInv, NEW target \in Scope \union {Nobody}, NEW y \in Scope, NEW e \in Sources,
         UNCHANGED program,
         CallAlgo(target, e) \/ CallMethod(target, y, e) \/ Construct(target, e)
  PROVE  HoldersInv' /\ (RunsAgree => RunsAgree')
<1>1. /\ program' = program /\ Evaluates(interp, e) /\ Evaluates(comp, e)
      /\ Enters(target, FALSE) \/ Enters(target, TRUE)
  BY DEF CallAlgo, CallMethod, Construct, MayCall
<1>2. control' \in Seq(Contexts) /\ Len(control') = Len(control) + 1
  <2>1. ASSUME NEW b \in BOOLEAN PROVE [target |-> target, makes |-> b, loop |-> "none"] \in Contexts
    BY DEF Contexts
  <2>2. \E c \in Contexts : control' = Append(control, c)
    BY <1>1, <2>1 DEF Enters
  <2>. QED  BY <2>2, AppendProperties DEF HoldersInv
<1>3. made + Counts(e) \in Nat
  BY DEF HoldersInv, Counts
<1>4. CASE CallAlgo(target, e)
  <2>1. /\ interp' = Calling("interpreted", interp, e) /\ comp' = Calling("compiled", comp, e)
        /\ made' = made + Counts(e)
    BY <1>4 DEF CallAlgo
  <2>2. Run(interp)' /\ Run(comp)'
    BY <1>1, <1>2, <2>1, CallSound DEF HoldersInv, Run
  <2>3. ASSUME Agree(interp, comp) PROVE Agree(interp', comp')
    BY <1>1, <2>1, <2>3, CallAgree DEF HoldersInv, Run
  <2>. QED  BY <1>1, <1>2, <1>3, <2>1, <2>2, <2>3 DEF HoldersInv, RunsAgree
<1>5. CASE CallMethod(target, y, e)
  <2>1. /\ interp' = CallingMethod("interpreted", interp, y, e)
        /\ comp' = CallingMethod("compiled", comp, y, e)
        /\ made' = made + Counts(e)
        /\ IsInstance(interp, Binding(interp, y)) /\ IsInstance(comp, Binding(comp, y))
    BY <1>5 DEF CallMethod
  <2>2. Run(interp)' /\ Run(comp)'
    BY <1>1, <1>2, <2>1, CallSound DEF HoldersInv, Run
  <2>3. ASSUME Agree(interp, comp) PROVE Agree(interp', comp')
    BY <1>1, <2>1, <2>3, CallAgree DEF HoldersInv, Run
  <2>. QED  BY <1>1, <1>2, <1>3, <2>1, <2>2, <2>3 DEF HoldersInv, RunsAgree
<1>6. CASE Construct(target, e)
  <2>1. /\ interp' = Constructing("interpreted", interp, e)
        /\ comp' = Constructing("compiled", comp, e)
        /\ made' = made + Counts(e) + 1
        /\ HasRoom(interp, 2) /\ HasRoom(comp, 2)
    BY <1>6 DEF Construct
  <2>2. Run(interp)' /\ Run(comp)'
    BY <1>1, <1>2, <2>1, CallSound DEF HoldersInv, Run
  <2>3. ASSUME Agree(interp, comp) PROVE Agree(interp', comp')
    BY <1>1, <2>1, <2>3, CallAgree DEF HoldersInv, Run
  <2>4. made' \in Nat
    BY <1>3, <2>1
  <2>. QED  BY <1>1, <1>2, <2>2, <2>3, <2>4 DEF HoldersInv, RunsAgree
<1>. QED  BY <1>4, <1>5, <1>6

LEMMA EndStep ==
  ASSUME HoldersInv, Len(control) > 1, UNCHANGED <<program, made>>, control' = Front(control),
         NEW v, NEW w, Known(interp, v), Known(comp, w),
         interp' = Ended("interpreted", interp, v), comp' = Ended("compiled", comp, w)
  PROVE  HoldersInv' /\ (RunsAgree /\ (Guarded => Same(interp, v, comp, w)) => RunsAgree')
<1>1. control' \in Seq(Contexts) /\ Len(control') = Len(control) - 1
  <2>1. \A i \in Nat : i > 1 => i - 1 \in Nat /\ i - 1 <= i
    OBVIOUS
  <2>2. Len(control) \in Nat
    BY LenProperties DEF HoldersInv
  <2>3. Len(control) - 1 \in Nat /\ Len(control) - 1 <= Len(control)
    BY <2>1, <2>2, Zenon
  <2>. QED  BY <2>3, PrefixProperties DEF HoldersInv, Front
<1>2. Run(interp)' /\ Run(comp)'
  BY <1>1, EndedSound DEF HoldersInv, Run
<1>3. ASSUME Agree(interp, comp), Same(interp, v, comp, w) PROVE Agree(interp', comp')
  BY <1>3, EndedAgree DEF HoldersInv, Run
<1>. QED  BY <1>1, <1>2, <1>3 DEF HoldersInv, RunsAgree

LEMMA ReturnStep ==
  ASSUME HoldersInv, NEW e \in Sources, UNCHANGED program, ReturnValue(e)
  PROVE  HoldersInv' /\ (RunsAgree => RunsAgree')
<1>1. /\ Len(control) > 1 /\ e.k \in {"var", "member", "plain"}
      /\ Evaluates(interp, e) /\ Evaluates(comp, e)
      /\ interp' = Ended("interpreted", interp, Eval(interp, e).v)
      /\ comp' = Ended("compiled", comp, Eval(comp, e).v)
      /\ control' = Front(control) /\ made' = made /\ program' = program
  BY DEF ReturnValue
<1>2. Eval(interp, e).t = interp /\ Eval(comp, e).t = comp
  BY <1>1 DEF Eval
<1>3. Known(interp, Eval(interp, e).v) /\ Known(comp, Eval(comp, e).v)
  BY <1>1, <1>2, EvalSound DEF HoldersInv, Run
<1>4. Agree(interp, comp) => Same(interp, Eval(interp, e).v, comp, Eval(comp, e).v)
  BY <1>1, <1>2, EvalAgree DEF HoldersInv, Run
<1>. QED  BY <1>1, <1>3, <1>4, EndStep DEF RunsAgree

LEMMA FallStep ==
  ASSUME HoldersInv, UNCHANGED program, FallOff
  PROVE  HoldersInv' /\ (RunsAgree => RunsAgree')
<1>1. /\ Len(control) > 1
      /\ interp' = Ended("interpreted", interp, Innermost(interp).last)
      /\ comp' = Ended("compiled", comp, Innermost(comp).last)
      /\ control' = Front(control) /\ made' = made /\ program' = program
  BY DEF FallOff
<1>2. /\ Len(interp.levels) \in DOMAIN interp.levels
      /\ KnownLevel(interp, Innermost(interp)) /\ KnownLevel(comp, Innermost(comp))
  BY InnermostKnown DEF HoldersInv, Run
<1>3. Known(interp, Innermost(interp).last) /\ Known(comp, Innermost(comp).last)
  BY <1>2 DEF KnownLevel
<1>4. Agree(interp, comp) => Same(interp, Innermost(interp).last, comp, Innermost(comp).last)
  BY <1>2 DEF Agree, AgreeLevel, Innermost
<1>. QED  BY <1>1, <1>3, <1>4, EndStep DEF RunsAgree

LEMMA CommandParts ==
  ASSUME NEW s \in Commands
  PROVE  /\ s.op \in {"assign", "store"} => s.x \in Scope /\ s.e \in Sources
         /\ s.op = "append" => s.x \in Scope /\ s.y \in Scope /\ s.k \in {"text", "assign", "store"}
         /\ s.op \in {"algo", "construct"} => s.x \in Scope \union {Nobody} /\ s.e \in Sources
         /\ s.op = "method" => s.x \in Scope \union {Nobody} /\ s.y \in Scope /\ s.e \in Sources
         /\ s.op = "return" => s.e \in Sources
         /\ s.op = "loop" => s.k \in {"one", "several"}
BY DEF Commands

LEMMA HoldersBegins ==
  HoldersInit => HoldersInv /\ RunsAgree
<1> SUFFICES ASSUME HoldersInit PROVE HoldersInv /\ RunsAgree
  OBVIOUS
<1> DEFINE l == Level(Unbound, Unbound)
           t == NoObjects
<1>1. /\ interp = t /\ comp = t /\ made = 0 /\ program \subseteq Commands
      /\ control = <<[target |-> Nobody, makes |-> FALSE, loop |-> "none"]>>
  BY HoldersAssumption DEF HoldersInit
<1>2. control \in Seq(Contexts) /\ Len(control) = 1
  BY <1>1 DEF Contexts
<1>3. /\ l.vars \in [Scope -> {Unbound}] /\ l.bound = Unbound /\ l.last = Plain
      /\ l.held = {} /\ l.inner = {}
      /\ l = [vars |-> l.vars, bound |-> Unbound, last |-> Plain, held |-> {}, inner |-> {}]
  BY DEF Level
<1> HIDE DEF l
<1>4. l \in Levels
  BY <1>3 DEF Levels, Unbound, Plain
<1>5. /\ t.heap = << >> /\ t.levels = <<l>> /\ t.destroyed = {}
      /\ t = [heap |-> << >>, levels |-> <<l>>, destroyed |-> {}]
  BY DEF NoObjects, l
<1> HIDE DEF t
<1>6. DOMAIN t.heap = {} /\ t.heap \in [{} -> Objects]
  BY <1>5
<1>7. /\ t.levels \in Seq(Levels) /\ Len(t.levels) = 1 /\ DOMAIN t.levels = {1} /\ t.levels[1] = l
  BY <1>4, <1>5
<1>8. Shaped(t)
  <2>1. t.heap \in UNION {[D -> Objects] : D \in SUBSET (1..MaxObjects)}
    BY <1>6
  <2>. QED  BY <1>5, <1>7, <2>1 DEF Shaped
<1>9. KnownLevel(t, l)
  BY <1>3, <1>4 DEF KnownLevel, Known, Unbound, Plain
<1>10. Sound(t, 0) /\ Gone(t)
  BY <1>5, <1>6, <1>7, <1>8, <1>9 DEF Sound, Gone
<1>11. Agree(t, t)
  BY <1>6, <1>7 DEF Agree, AgreeLevel, Same
<1>. QED  BY <1>1, <1>2, <1>7, <1>10, <1>11 DEF HoldersInv, Run, RunsAgree

LEMMA HoldersSteps ==
  HoldersInv /\ [HoldersNext]_holderVars => HoldersInv' /\ (RunsAgree => RunsAgree')
<1> SUFFICES ASSUME HoldersInv, [HoldersNext]_holderVars
             PROVE  HoldersInv' /\ (RunsAgree => RunsAgree')
  OBVIOUS
<1>1. CASE HoldersNext
  <2>1. program' = program
    BY <1>1 DEF HoldersNext
  <2>2. ASSUME NEW s \in program, Performs(s) PROVE HoldersInv' /\ (RunsAgree => RunsAgree')
    <3>1. s \in Commands
      BY DEF HoldersInv
    <3>2. CASE s.op = "assign" /\ AssignVariable(s.x, s.e)
      BY <2>1, <3>1, <3>2, CommandParts, AssignStep
    <3>3. CASE s.op = "store" /\ AssignMember(s.x, s.e)
      BY <2>1, <3>1, <3>3, CommandParts, StoreStep
    <3>4. CASE s.op = "append" /\ AppendText(s.x, s.k, s.y)
      BY <2>1, <3>1, <3>4, CommandParts, AppendStep
    <3>5. CASE s.op = "algo" /\ CallAlgo(s.x, s.e)
      <4>1. Parameter \in Scope
        BY HoldersAssumption DEF Scope
      <4>. QED  BY <2>1, <3>1, <3>5, <4>1, CommandParts, CallStep
    <3>6. CASE s.op = "method" /\ CallMethod(s.x, s.y, s.e)
      BY <2>1, <3>1, <3>6, CommandParts, CallStep
    <3>7. CASE s.op = "construct" /\ Construct(s.x, s.e)
      <4>1. Parameter \in Scope
        BY HoldersAssumption DEF Scope
      <4>. QED  BY <2>1, <3>1, <3>7, <4>1, CommandParts, CallStep
    <3>8. CASE s.op = "return" /\ ReturnValue(s.e)
      BY <2>1, <3>1, <3>8, CommandParts, ReturnStep
    <3>9. CASE s.op = "loop" /\ EnterLoop(s.k)
      BY <2>1, <3>1, <3>9, CommandParts, LoopStep
    <3>. QED  BY <2>2, <3>2, <3>3, <3>4, <3>5, <3>6, <3>7, <3>8, <3>9 DEF Performs
  <2>3. CASE NextTurn \/ LeaveLoop
    BY <2>1, <2>3, LoopStep
  <2>4. CASE FallOff
    BY <2>1, <2>4, FallStep
  <2>. QED  BY <1>1, <2>2, <2>3, <2>4 DEF HoldersNext
<1>2. CASE UNCHANGED holderVars
  <2>1. /\ program' = program /\ interp' = interp /\ comp' = comp /\ control' = control
        /\ made' = made
    BY <1>2 DEF holderVars
  <2>. QED  BY <2>1 DEF HoldersInv, Run, RunsAgree
<1>. QED  BY <1>1, <1>2

LEMMA AgreementTells ==
  ASSUME HoldersInv, Agree(interp, comp)
  PROVE  SameTexts
<1>1. DOMAIN interp.levels = DOMAIN comp.levels
  BY InnermostKnown DEF HoldersInv, Run, Agree
<1>. QED  BY <1>1 DEF SameTexts, SameScopes, SameMembers, SameAppearance, Agree, AgreeLevel, Same

(* Every instance whose destructor has been called is gone, of programs    *)
(* with any statements: when a scope ends, Interpreter::visit_call calls   *)
(* the destructors of what only that scope names, and nothing else holds   *)
(* it, so that it goes with the scope and its destructor is not called     *)
(* again.                                                                  *)
THEOREM DestroyedOnce ==
  HoldersSpec => []DestroyedIsGone
<1>1. HoldersInv => DestroyedIsGone
  BY DEF HoldersInv, Run, Gone, DestroyedIsGone
<1>. QED  BY HoldersBegins, HoldersSteps, <1>1, PTL DEF HoldersSpec

(* A program cannot tell that the interpreter appends to a text in place   *)
(* and compiled code does not, whatever its statements, as long as a text  *)
(* is appended to by the algorithm whose variable it is and not while the  *)
(* other operand stores it.                                                *)
THEOREM TextsAreSame ==
  ASSUME Guarded
  PROVE  HoldersSpec => []SameTexts
<1>1. RunsAgree /\ HoldersInv => SameTexts
  BY AgreementTells DEF RunsAgree
<1>. QED  BY HoldersBegins, HoldersSteps, <1>1, PTL DEF HoldersSpec
=============================================================================
