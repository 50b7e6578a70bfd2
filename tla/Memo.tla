-------------------------------- MODULE Memo --------------------------------
(***************************************************************************)
(* Results remembered by argument.  An algorithm that calls only itself    *)
(* and computes only with numbers keeps its results: the interpreter in a  *)
(* table of its definition, the compiled program in a table of the value,  *)
(* and once more in a table of integers when the algorithm was also        *)
(* compiled to integer code.  What a body calls, it calls by name: the     *)
(* interpreter looks the name up at every call, integer code is linked to  *)
(* what the name meant when it was compiled.                               *)
(*                                                                         *)
(* A definition is                                                         *)
(*    Algorithm Name(n)                                                    *)
(*       if n <= origin then return Base                                   *)
(*       return Callee(n - 1) + Step                                       *)
(* and an argument is its distance from the origin.  A statement of the    *)
(* program, all of them at top level and each run once, is one action.     *)
(***************************************************************************)
EXTENDS Naturals

CONSTANTS
  Definitions,  \* the definition statements of the program
  Names,        \* its names
  Name, Callee, \* of a definition: the name it defines, the name it calls
  Base, Step,   \* and its two numbers
  WithFloat,    \* the definitions with a float among their literals
  MaxArg,       \* bound: the arguments
  Alike,        \* the floats that print the same: six digits are printed
  Redefined,    \* the names that may be defined when they are bound
  Reassigned,   \* the names that may be assigned when they are bound
  Copied        \* the names whose algorithm another name may get

ASSUME MemoAssumption ==
  /\ Name \in [Definitions -> Names] /\ Callee \in [Definitions -> Names]
  /\ Base \in [Definitions -> Nat] /\ Step \in [Definitions -> Nat]
  /\ WithFloat \subseteq Definitions
  /\ MaxArg \in Nat /\ Alike \subseteq 0..MaxArg
  /\ Redefined \subseteq Names /\ Reassigned \subseteq Names /\ Copied \subseteq Names

VARIABLES
  bound,   \* names -> definitions: the algorithm a name holds, in both programs
  ran,     \* the definition statements that ran
  cache,   \* memoized_results of the interpreter
  memo,    \* CompiledAlgoValue::memo of all compiled algorithms
  table,   \* i64_memo_tables
  native,  \* native_i64_algos: what an integer call of a name calls
  linked,  \* what the integer code of a definition calls
  said     \* the last call: by the bodies alone, interpreted, compiled

memoVars == <<bound, ran, cache, memo, table, native, linked, said>>

Arguments == [kind : {"int", "float"}, n : 0..MaxArg]
Quiet == [plain |-> 0, interpreted |-> 0, compiled |-> 0]

With(f, x, y) == [z \in DOMAIN f \union {x} |-> IF z = x THEN y ELSE f[z]]

(* is_memoizable_numeric_algo(): the body calls nothing but its own name.  *)
Memoizable(d) == Callee[d] = Name[d]

(* numeric_cache_key(), numeric_args_key(): the type and the printed form, *)
(* that is the number unless several print like it.  The table is that of  *)
(* the definition.                                                         *)
Printed(a) == IF a.kind = "float" /\ a.n \in Alike THEN CHOOSE n \in Alike : TRUE ELSE a.n

KeyAnyFloat(d, a) == <<d, a.kind, IF a.kind = "float" THEN 0 ELSE a.n>>
KeyOfName(d, a) == <<Name[d], a.kind, a.n>>
Key(d, a) == <<d, a.kind, Printed(a)>>

(* The table number that the compiler gave to the integer code.            *)
NativeKey(d, a) == <<d, a.n>>

(* A call of d: a body that has come to `value`, with the results          *)
(* remembered `after` it.  What is remembered is not evaluated.            *)
Answer(results, d, key, value, after) ==
  IF ~Memoizable(d) THEN [value |-> value, results |-> after]
  ELSE IF key \in DOMAIN results THEN [value |-> results[key], results |-> results]
  ELSE [value |-> value, results |-> With(after, key, value)]

KeyIn(boxed, d, a) == IF boxed THEN Key(d, a) ELSE NativeKey(d, a)

(* All calls, by the argument and the definition, where next[d] is what    *)
(* the callee of d's body is.                                              *)
CallKeeping(results, next, kind, boxed) ==
  LET call[n \in Nat] == [d \in DOMAIN next |->
        LET key == KeyIn(boxed, d, [kind |-> kind, n |-> n])
            inner == call[n - 1][next[d]]
        IN  IF n = 0 THEN Answer(results, d, key, Base[d], results)
            ELSE Answer(results, d, key, inner.value + Step[d], inner.results)]
  IN  call

(* What the bodies say, nothing remembered.                                *)
Plain(next) ==
  LET say[n \in Nat] == [d \in DOMAIN next |->
        IF n = 0 THEN Base[d] ELSE say[n - 1][next[d]] + Step[d]]
  IN  say

(* The definitions whose calls come only to names that are bound.          *)
Callable ==
  UNION {D \in SUBSET Definitions :
           \A d \in D : Callee[d] \in DOMAIN bound /\ bound[Callee[d]] \in D}

ByName == [d \in Callable |-> bound[Callee[d]]]

-----------------------------------------------------------------------------
MemoInit ==
  /\ bound = << >> /\ ran = {} /\ cache = << >> /\ memo = << >> /\ table = << >>
  /\ native = << >> /\ linked = << >> /\ said = Quiet

(* can_native_i64_algo(): integer literals only, and a callee that is the  *)
(* algorithm itself or has integer code already.                           *)
CanNative(d) == d \notin WithFloat /\ (Memoizable(d) \/ Callee[d] \in DOMAIN native)

Code(d) == With(native, Name[d], d)

(* visit_algo_def(), gen_algo_value(): the integer code is linked when it  *)
(* is emitted.  A definition without integer code leaves the one the name  *)
(* had.                                                                    *)
Define(d) ==
  /\ d \notin ran
  /\ Name[d] \in DOMAIN bound => Name[d] \in Redefined
  /\ ran' = ran \union {d}
  /\ bound' = With(bound, Name[d], d)
  /\ IF CanNative(d)
       THEN /\ native' = Code(d)
            /\ linked' = With(linked, d, native'[Callee[d]])
       ELSE UNCHANGED <<native, linked>>
  /\ said' = Quiet
  /\ UNCHANGED <<cache, memo, table>>

(* `x <- y`: both programs bind the value, the compiler's native_i64_algos *)
(* stays as it is.                                                         *)
Assign(x, y) ==
  /\ y \in Copied \cap DOMAIN bound /\ x # y
  /\ x \in DOMAIN bound => x \in Reassigned
  /\ bound' = With(bound, x, bound[y])
  /\ said' = Quiet
  /\ UNCHANGED <<ran, cache, memo, table, native, linked>>

(* `x(a)`, a number.  AlgoValue::execute() in the interpreter.  In the     *)
(* compiled program the integer code that x has where the argument is an   *)
(* integer literal, otherwise call_compiled() on the value of x.           *)
ByNative(x, a) == a.kind = "int" /\ x \in DOMAIN native
Call(x, a) ==
  /\ x \in DOMAIN bound /\ bound[x] \in Callable
  /\ LET interpreted == CallKeeping(cache, ByName, a.kind, TRUE)[a.n][bound[x]]
         compiled == IF ByNative(x, a)
                       THEN CallKeeping(table, linked, "int", FALSE)[a.n][native[x]]
                       ELSE CallKeeping(memo, ByName, a.kind, TRUE)[a.n][bound[x]]
     IN /\ cache' = interpreted.results
        /\ IF ByNative(x, a) THEN table' = compiled.results /\ UNCHANGED memo
                             ELSE memo' = compiled.results /\ UNCHANGED table
        /\ said' = [ plain |-> Plain(ByName)[a.n][bound[x]],
                     interpreted |-> interpreted.value, compiled |-> compiled.value ]
  /\ UNCHANGED <<bound, ran, native, linked>>

(* `x(text)`: there is no key, and the comparison in the body is an error. *)
CallText(x) ==
  /\ x \in DOMAIN bound
  /\ said' = Quiet
  /\ UNCHANGED <<bound, ran, cache, memo, table, native, linked>>

MemoNext ==
  \/ \E d \in Definitions : Define(d)
  \/ \E x, y \in Names : Assign(x, y)
  \/ \E x \in Names, a \in Arguments : Call(x, a)
  \/ \E x \in Names : CallText(x)

MemoSpec == MemoInit /\ [][MemoNext]_memoVars

-----------------------------------------------------------------------------
(* A call says what the bodies say with the names as they are: what was    *)
(* remembered at some earlier call, under the same key, is still right.    *)
(* And the compiled call says the same, whichever of the two compiled      *)
(* bodies runs and whichever table it reads.                               *)
MemoInvisible == said.interpreted = said.plain /\ said.compiled = said.interpreted

MemoTypeOK ==
  /\ DOMAIN bound \subseteq Names /\ \A x \in DOMAIN bound : bound[x] \in ran
  /\ ran \subseteq Definitions
  /\ DOMAIN native \subseteq DOMAIN bound
  /\ DOMAIN linked \subseteq ran \ WithFloat
  /\ \A results \in {cache, memo, table} : \A k \in DOMAIN results : results[k] \in Nat

(* What the three tables remember of a definition that its name still has. *)
Remembered ==
  \A d \in ran : Memoizable(d) /\ bound[Name[d]] = d =>
    \A a \in Arguments :
      /\ \A results \in {cache, memo} :
           Key(d, a) \in DOMAIN results => results[Key(d, a)] = Plain(ByName)[a.n][d]
      /\ NativeKey(d, a) \in DOMAIN table => table[NativeKey(d, a)] = Plain(ByName)[a.n][d]

(* Every result that the three tables remember of a definition that its    *)
(* name still has is what its body says now: of the next call, whatever it *)
(* is, the answer is right before it is asked.                             *)
TablesAgree == MemoTypeOK /\ Remembered
=============================================================================
