------------------------------- MODULE MCJit -------------------------------
(* The syntax trees, one node per line.  The expression statements are     *)
(*   x + (y - 1)      xs.push(x + y)      xs.pop()      xs[y] + x          *)
(*   f(x) + 1           not (z and x) or x                                 *)
(* and the loops                                                           *)
(*   for i <- z to y + 1 do z <- ys[i]                                     *)
(*   for i <- y to 2 step y do z <- g(i, x)                                *)
(*   for i <- 1 to 3 do ys[i - y] <- x                                     *)
(*   for i <- 2 to x step 0 - y do i <- i + 1                              *)
(*   for i <- 0 to 3 do                                                    *)
(*       if i % 2 then continue                                            *)
(*       z <- z + i                                                        *)
(*       if x < z then break else i <- f(i)                                *)
(*   while x < 2 do x <- x + y                                             *)
(*   repeat                                                                *)
(*       if z then break                                                   *)
(*       x <- x - y                                                        *)
(*   until x < y                                                           *)
(* where f(a) returns a - 1 and g(a, b) returns a + b - z.                 *)
EXTENDS Loops

Value(v) == [kind |-> "value", v |-> v]
Var(x) == [kind |-> "var", name |-> x]
Bin(l, op, r) == [kind |-> "bin", op |-> op, l |-> l, r |-> r]
Index(a, e) == [kind |-> "index", name |-> a, e |-> e]
Call(params, args, ret) == [kind |-> "call", params |-> params, args |-> args, ret |-> ret]
Set(x, e) == [kind |-> "assign", name |-> x, e |-> e]
If(c, then, else) == [kind |-> "if", cond |-> c, then |-> then, else |-> else]
For(start, end, step, body) ==
  [kind |-> "for", name |-> "i", start |-> start, end |-> end, step |-> step, body |-> body]

MCNode ==
  << Var("x"),                                 \* 1
     Var("y"),
     Value(Int1(1)),
     Bin(2, "-", 3),
     Bin(1, "+", 4),
     Bin(1, "+", 2),
     [kind |-> "push", name |-> "xs", e |-> 6],
     [kind |-> "pop", name |-> "xs"],
     Index("xs", 2),
     Bin(9, "+", 1),                           \* 10
     Var("z"),
     Bin(11, "and", 1),
     [kind |-> "un", op |-> "not", e |-> 12],
     Bin(13, "or", 1),
     Var("a"),
     Bin(15, "-", 3),
     Call(<<"a">>, <<1>>, 16),
     Bin(17, "+", 3),
     Value(Int1(0)),
     Value(Int1(2)),                           \* 20
     Value(Int1(3)),
     Var("b"),
     Bin(15, "+", 22),
     Bin(23, "-", 11),
     Var("i"),
     Bin(2, "+", 3),
     Index("ys", 25),
     Call(<<"a", "b">>, <<25, 1>>, 24),
     Bin(25, "-", 2),
     Bin(25, "+", 3),                          \* 30
     Bin(19, "-", 2),
     Bin(25, "%", 20),
     Bin(11, "+", 25),
     Bin(1, "<", 11),
     Call(<<"a">>, <<25>>, 16),
     Bin(1, "<", 20),
     Bin(1, "-", 2),
     Bin(1, "<", 2) >>

MCStmt ==
  << Set("i", 11),                             \* 1
     Set("i", 2),
     Set("i", 3),
     Set("i", 20),
     Set("i", 19),
     Set("z", 27),
     Set("z", 28),
     [kind |-> "store", name |-> "ys", i |-> 29, e |-> 1],
     Set("i", 30),
     [kind |-> "continue"],                    \* 10
     If(32, <<10>>, << >>),
     Set("z", 33),
     [kind |-> "break"],
     Set("i", 35),
     If(34, <<13>>, <<14>>),
     Set("x", 6),
     If(11, <<13>>, << >>),
     Set("x", 37) >>

MCLoop ==
  << For(1, 26, 0, <<6>>),                     \* 1
     For(2, 20, 2, <<7>>),
     For(3, 21, 0, <<8>>),
     For(4, 1, 31, <<9>>),
     For(5, 21, 0, <<11, 12, 15>>),
     [kind |-> "while", cond |-> 36, body |-> <<16>>],
     [kind |-> "repeat", cond |-> 38, body |-> <<17, 18>>] >>

MCNames == {"x", "y", "z", "xs", "ys", "i", "a", "b"}

(* Two booleans of the program, and texts and floats where numbers were.   *)
MCAssignable == [n \in MCNames |->
  CASE n = "x" -> {Int1(0), Text(1)} [] n = "y" -> {Float2(1)} [] n = "z" -> {Int1(2)}
    [] OTHER -> {}]

MCStart == [n \in MCNames |->
  CASE n \in {"x", "y"} -> Int1(1) [] n = "z" -> Int1(0) [] n = "xs" -> Array(<< >>)
    [] n = "ys" -> Array(<<Int1(1), Text(1)>>) [] OTHER -> Error]

MCRoots == {5, 7, 8, 10, 14, 18}
MCGuarded == {8}

(* The expression statements together, and each pair of loops.             *)
OnlyLoops(ids) == [roots |-> {}, loops |-> ids]
MCPrograms ==
  {[roots |-> MCRoots, loops |-> {}]} \union { OnlyLoops({k, l}) : k, l \in DOMAIN MCLoop }

(* Bound: any three of the statements are in the loop.                     *)
ThreeStatements == Cardinality({ id \in Roots : cache[id].hits > 0 }) <= 3

(* One statement in a loop, xs.pop(), for the run that compares it with    *)
(* what the hover text says.                                               *)
NoAssignable == [x \in MCNames |-> {}]
PopRoot == {8}
PopProgram == {[roots |-> PopRoot, loops |-> {}]}
TextStart == [MCStart EXCEPT !["y"] = Int1(0), !["xs"] = Array([i \in 1..12 |-> Text(1)])]
=============================================================================
