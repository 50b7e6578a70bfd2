------------------------------ MODULE MCCalls ------------------------------
(* Two plain algorithms f(a, b) and g(a), the method m(v) of an object, the*)
(* memoized h(a, b), and globals x and y.                                  *)
EXTENDS Calls, TLC

Var(x) == [k |-> "var", x |-> x]
Lit(v) == [k |-> "lit", v |-> v]
CallOf(c) == [k |-> "call", c |-> c]

MCParams == "f" :> <<"a", "b">> @@ "g" :> <<"a">> @@ "h" :> <<"a", "b">> @@ "m" :> <<"v">>
MCMethods == {"m"}
MCMemoized == {"h"}
MCVals == {1, 2}
MCStart == "x" :> 1 @@ "y" :> 2
MCLocals == {"x", "b"}

(* f(g(x), y)    g(b)    o.m(a)    h(b, a)    h(a, g(b))    f(v, y)        *)
CleanSites ==
  <<[f |-> "f", args |-> <<CallOf(2), Var("y")>>],
    [f |-> "g", args |-> <<Var("x")>>],
    [f |-> "g", args |-> <<Var("b")>>],
    [f |-> "m", args |-> <<Var("a")>>, obj |-> 1],
    [f |-> "h", args |-> <<Var("b"), Var("a")>>],
    [f |-> "h", args |-> <<Var("a"), CallOf(3)>>]>>
CleanStatements == {1, 2, 4, 5, 6}

(* f(x, y) and, in its body, f(b, a).                                      *)
SwapSites ==
  <<[f |-> "f", args |-> <<Var("x"), Var("y")>>],
    [f |-> "f", args |-> <<Var("b"), Var("a")>>]>>
SwapStatements == {1, 2}
NoLocals == {}

ASSUME CaptureFreeAssumption == Sites = CleanSites => CaptureFree
=============================================================================
