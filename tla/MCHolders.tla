------------------------------ MODULE MCHolders ------------------------------
(***************************************************************************)
(* Three small programs of Holders, each of whose statements may come in   *)
(* any order: one with texts, one that hands an instance around, and one   *)
(* with a constructor and a method.                                        *)
(***************************************************************************)
EXTENDS Holders

CONSTANT MaxSteps  \* bound: statements, calls, returns and turns of loops

VARIABLE steps

Text == Source("text", "")
Instance == Source("instance", "")
Number == Source("plain", "")
Named(x) == Source("var", x)
MemberOf(x) == Source("member", x)

Assigning(x, e) == [op |-> "assign", x |-> x, e |-> e]
Storing(x, e) == [op |-> "store", x |-> x, e |-> e]
Appending(x, k, y) == [op |-> "append", x |-> x, k |-> k, y |-> y]
CallingFor(x, e) == [op |-> "algo", x |-> x, e |-> e]
CallingOn(x, y, e) == [op |-> "method", x |-> x, y |-> y, e |-> e]
ConstructingFor(x, e) == [op |-> "construct", x |-> x, e |-> e]
Returning(e) == [op |-> "return", e |-> e]
Looping(k) == [op |-> "loop", k |-> k]

(* b <- "t"   a <- b   b <- b + "t"   b <- b + (a <- b)   a <- a + "t"     *)
(* b <- f(a)   return a                                                    *)
TextProgram ==
  {Assigning("b", Text), Assigning("a", Named("b")),
   Appending("b", "text", "b"), Appending("b", "assign", "a"), Appending("a", "text", "a"),
   CallingFor("b", Named("a")), Looping("one"), Returning(Named("a"))}

(* b <- S()   b.m <- a   a <- b.m   a <- f(S())   f(b)   return a          *)
InstanceProgram ==
  {Assigning("b", Instance), Storing("b", Named("a")), Assigning("a", MemberOf("b")),
   CallingFor("a", Instance), CallingFor("", Named("b")),
   Looping("several"), Returning(Named("a")), Returning(Number)}

(* b <- S(a)   self.m <- a   a <- "t"   a <- a + "t"                       *)
(* a <- a + (self.m <- a)   a <- b.f(a)   return self.m   return self      *)
MethodProgram ==
  {ConstructingFor("b", Named("a")), Storing("self", Named("a")),
   Assigning("a", Text), Appending("a", "text", "a"), Appending("a", "store", "self"),
   CallingOn("a", "b", Named("a")), Returning(MemberOf("self")), Returning(Named("self"))}

SmallPrograms == {TextProgram, InstanceProgram, MethodProgram}

HoldersStart == HoldersInit /\ steps = 0
HoldersStep == steps < MaxSteps /\ steps' = steps + 1 /\ HoldersNext

HoldersSmall == HoldersStart /\ [][HoldersStep]_<<holderVars, steps>>
=============================================================================
