# A verification of PseudoCodeInterpreter in TLA+

PseudoCodeInterpreter runs programs in a pseudocode language in three ways that
are meant to agree: a tree-walking interpreter with an adaptive JIT for
expressions, an ahead-of-time compiler `pseudoc` to LLVM with a runtime library,
and, for editors, a language server that parses what is being typed. It brings a
library of data structures, `lib/dsa.ps`, written in the language itself.

The models here follow the source, line by line in `PROJECT.json` ("map"), and
abstract its data. TLC checks them on small instances; TLAPS proves the main
invariants and refinements for every value of the constants.

    tlc -workers 2 -config Structures.cfg MCStructures      one run
    tlapm StructureProofs.tla                               one set of proofs

## Inventory

| Component | State | Operations | What is hard | Where |
|---|---|---|---|---|
| Hash table value | a vector of entries, an index from identities to positions | set, get, has, erase, remove, pop, clear, keys, values, size | a removal moves the last entry into the hole, and two keys may print alike | `HashTable` |
| Adaptive JIT | per expression: hits, program or disabled | visit, compile, run stack code, give up | two semantics of one expression that must agree whenever a tier changes, with effects made before code gives up | `Jit` |
| Interpreter: statements and loops | the loop under way, its variable, step, end and path | for, while, repeat, if, break, continue, assign, store | three fast paths of `visit_for` that must do what the general path does, left in the middle of a turn | `Loops` |
| Calls and scopes | stack of symbol tables, calls in progress | evaluate an argument, call, assign, return, fail | names are looked up through the scopes of callers, and a callee's scope fills while arguments are evaluated | `Calls` |
| Import expansion | recursion, `loading`, `loaded` | copy a line, skip, enter, leave, refuse | cycles, diamonds, the file that is run imported back | `Imports` |
| Memoized algorithms | three tables of results, integer code linked by name | define, assign, call | results and code outlive the definitions they came from | `Memo` |
| Compiler: native variables | what the code generator remembers, and the registers of the code it makes | assign, push, store, for, call, enter, leave, define | memory of straight-line code used on code that runs on several paths | `Native` |
| Runtime: arena | frames of values, scopes | make, read, assign, loops, break, call, return | plain pointers in generated code, released frames, leaving in the middle | `Arena` |
| dsa: RBTree, BTree | nodes with keys, children, colors | insert, contains, min, max, height | repairs that relink several nodes in order | `RBTree`, `BTree` |
| dsa: DSU | arrays of values, parents and ranks | make_set, find, merge, connected | a recursion that assigns the array it walks | `DSU` |
| dsa: LinkedList, Queue | arrays with a head | the methods of a deque | compaction changes array, head and all indices at once | `LinkedList`, `Queue` |
| Lexer, parser | tokens, position, the parser functions in progress with their depth of tabs | one function per construct; advance, back, rewind at a dedent | newlines and tabs read by an inner block, moved back over and read again by an outer one | `Parser` |
| Struct instances, texts | who holds an object, use counts | construct, call, get, set, append, destroy | whether anybody else holds an object is judged by a use count, at a moment at which values are on their way | `Holders` |
| Language server | open documents | open, change, close, complete, hover, shut down | answers and diagnostics of texts that have changed meanwhile | `Lsp` |
| Driver, shell, editors, benchmarks | | | I/O | not modelled |

How they interact: the parser works on what `expand_imports` returns. The
interpreter visits the tree; a visit of an expression goes through the JIT; a
call opens a symbol table (`Calls`) and may be answered by a table of results
(`Memo`). The compiler walks the same tree and emits calls of the runtime, which
holds values in frames (`Arena`) and uses the interpreter's value and symbol
table code; where it knows enough it emits integer code instead (`Native`,
`Memo`). The data structures are programs: they run on either.

There are no threads. What interleaves is nested: an argument is evaluated
between two bindings, a recursive call between taking a reference and assigning
through it, an outer expression's interpretation between the hot visits of its
parts. The actions are therefore the points at which control passes from one to
the other.

## The modules

Abstract specifications: `MapSpec` (an insertion-ordered map), `OrderedSet`,
`Partition`, `Deque`. Each is what callers of a component may rely on.

**HashTable** implements `MapSpec`. `entries` and `index` are the C++ members;
one action per method and branch: `SetPresent`, `SetNew`, `RemoveLast`,
`RemoveSwap`, `Clear` and the queries. A key has an identity (`KeyId`), its
printed form with its type, which is what the index is keyed by. Refinement:
the bindings are read through the index, the order through the entries.

**Jit** has the program as a sequence of nodes, children before the node that
the parser makes of them, so that `cache[id]` is the `jit_cache` of the
interpreter. A tier's state is a record `[sym, cache, val]`, which visiting a
node maps to the next one; `Then` goes on unless there was an error. The code of
a node (`CodesUpTo`) and what visiting it does (`VisitsUpTo`) are recursive
functions over the nodes: each takes those of the nodes before it and appends its
own. `Visit` counts, compiles at `HotThreshold` (8 in the code, 2 in the run),
runs the stack code of `CodeOf[id]`, and interprets the rest, parts of which may
be hot in turn; a call of an algorithm that only returns an expression is a node
with its parameters and the expression. The same program runs beside it without
the JIT (`refSym`, `refVal`). Floats are multiples of a half, enough to see a
truncation. A failure is an error value of the language (`Error`) or the end of
the process (`Throw`: an exception nobody catches, a division by zero); an
array as the element of another is a bound of the model (`Nested`).

**Loops** extends Jit with statements, a sequence like the nodes, blocks after
what is in them. `loop` is the loop under way: a for-loop
keeps the number `i` it counts with apart from the variable, as
`next_for_iteration` does, and the `path` its next turn takes (`assign`, `call`,
`array` or `general`: the branches of `visit_for`); `refLoop` is the same loop
without JIT and fast paths. `TakeTurn` is one test or
one body in both tiers; a turn whose code gives up goes on in the interpreter
with what the code left behind, and the path is `general` from then on.

**Parser** is the recursion of `parser.cpp` as a machine. `calls` is its stack
of C++ calls, with the `tab_expect` of each; `at` is `tok_index`. One action is
one parser function up to the next call it makes. What the lexer contributes is
in `Tokens`: a NEWLINE for each line, a TAB for four spaces. **MCParser** writes
a tree down as lines (`ProgramLines`), in several layouts: bodies indented or on
the line of their head, blank lines and comments in between.

**Lsp** has the server, one action for each branch of its `main`, and an editor,
with a pipe in either direction. The editor is not of this repository: it is a
client that keeps to the capabilities the server announces. Nothing is lost or
reordered on a pipe; what can go wrong is that one side is behind the other, that
the editor goes away, or that the server dies of a text (`Crashing`).

**Calls** has the interpreter's and the compiled program's symbol tables side by
side. `Argument` evaluates one argument on both sides with the scopes each of
them sees at that moment (`ISeen`, `CSeen`): interpreted, the callee's scope is
already there, with the parameters bound so far; compiled, it is made when all
are evaluated; a memoized algorithm's arguments are evaluated before it in both.

**Imports** is the recursion of `expand_imports` with its stack as a variable.
The contents of the files are constants, and so every file system of a given
size is an initial state.

**Memo** has the interpreter's `memoized_results`, the runtime's table per
compiled value and its table of integers, and the integer code with what it is
linked to. A call with all its recursive calls is one step, and what each of them
returns and leaves in the tables is a recursive function of the argument. A definition is a recursion
`if n <= origin then return Base; return Callee(n - 1) + Step`, which is the least
that recurses by name.

**Native** moves the compiler and the program it emits together, one statement
at a time, beside an interpreter. `owner`, `dirty`, `known`, `numeric` and
`enabled` are `native_i64_vars` with its function and dirty flag, `known_arrays`,
`numeric_arrays` and `native_i64_enabled`. Whatever goes through `gen_algo_call()`
writes the slots back, the `pop` of an array that is not known to hold integers
too. `and` and `or` are two statements: `AssignLogical` where both operands are
integer code, which has no jump, and `ShortCircuit`, whose right operand has a
block of its own: what is written back there is written on that path only, and the
compiler takes it for written on both. `PathFree` says that a slot taken for
written back is.

**Arena** leaves the program open: at every point generated code may make a
value, read or assign a variable, enter, repeat or leave a loop, call, return.
What is fixed is the frame code that `compiler.cpp` emits around those.
`uses` are the pointers that the statement in progress may still use.

**RBTree**, **BTree** and **DSU** take a round of a loop, a level, or a call of
`find_index` for a step. **Ordering** has the `<` and `=` that both trees compare
values with. **LinkedList** and **Queue** share **Compaction**, the
method `compact()` that both have.

**Holders** runs one program interpreted (`interp`) and compiled (`comp`). An
object is a text or an instance with one member. What holds it, apart from
variables and members, is kept per call: `last` (the value of the last
statement, `ret` in the code), `held` and `inner` (interpreted, the values of
main's statements and of a loop's turns; compiled, the instances in the frames
of the arena) and `bound` (the object whose method is called). `UseCount` counts
them as `shared_ptr` does; `Appended` asks it before an append in place, `Left`
at the end of a scope, in the order of the C++ destructors: the locals of
`execute` first, then the scope.

**MCTrees**, **MCTables** (hash table and memoized algorithms), **MCCompiled**
(arena and native variables), **MCScopes** (bindings and holders),
**MCStructures** (linked list, queue, disjoint sets) and **MCReaders** (parser
and language server) choose, in the initial state, which of their components
moves; the others stay as they began. Lists and queues share variables, and each
step is a step of one module. **MCImports** also has the reference definition of
an expansion, by recursion on the files; **MCJit** has the syntax trees. The
other `MC` modules only give values to constants.

## Runs

| Run | Module, configuration | Properties |
|---|---|---|
| jit | MCJit, Jit.cfg | LoopsAgree, MachineSound, ForLoopsEnd |
| scopes | MCScopes, Scopes.cfg | BindingsAgree; SameTexts, DestroyedIsGone |
| imports | MCImports, Imports.cfg | ExpandsAsSpecified, LoadingIsStack, CycleIsReal, Complete, ImportsFirst, Terminates |
| trees | MCTrees, Trees.cfg | RedBlack, IsSet; Filling, BTreeAnswers; Ends |
| structures | MCStructures, Structures.cfg | WasteBounded, CopiesPaidFor, ImplementsDeque; RankRises, CountsRoots, RankLogarithmic, NeverGrowsBelow, ImplementsPartition |
| tables | MCTables, Tables.cfg | IndexExact, ImplementsMap; MemoInvisible, TablesAgree |
| compiled | MCCompiled, Compiled.cfg | UsedIsHeld, Balanced, KeepsOne; SameValues, PathFree |
| readers | MCReaders, Readers.cfg | ReadsProgram, KeepsWords, Stops; AnswersFit, ShownIsCurrent, EveryRequestAnswered |
| calls_swap | MCCalls, CallsSwap.cfg | BindingsAgree, violated |
| jit_pop_text | MCJit, JitPopText.cfg | PopTakesOne, violated |
| parser_else | MCParser, ParserElse.cfg | ReadsEveryProgram, violated |
| append_in_place | MCHolders, AppendInPlace.cfg | SameTexts, violated |

What each shows is the "about" of its entry in `PROJECT.json`. Every module has a
type invariant or a part of one of these properties that is one: `TypeOK` of the
hash table, `Imports`, `DSU`, the lists and the arena is proved, or follows from
what is checked (`MachineSound`, `RedBlack`, `Filling`, `PathFree`,
`TablesAgree`).

### Bounds, and why they are enough

- tables, the hash table: four keys with three identities. A removal tells apart the last
  entry, the one before it and the others; two keys of one identity are the case
  in which the stored key and the one asked for differ.
- jit: `HotThreshold = 2` (an expression is seen cold, at the threshold and
  after it), arrays of up to two elements, and three expressions hot at a time
  (`ThreeStatements`): one can be nested in none, one or two others and a
  variable is shared by all of them. Seven loops, one for each path and for each
  way to leave one, run alone and in pairs over two or three turns: a fast path
  is taken, given up in its first or a later turn, and entered with code that an
  earlier loop made hot. In the violated run the threshold is 8 as in the code,
  and the array long enough to get there.
- scopes, calls: three calls in progress, so that an argument is evaluated under two
  pending calls; two values, the least that tells two bindings apart.
- scopes, holders: three calls including main, three objects alive, two
  instances made, texts of up to two characters and nine statements, calls,
  returns and turns. An object can then be held by a variable of each call, by
  another object and by what is on its way; a call that makes an object, stores
  it, returns and is followed by a statement that uses it takes six steps.
- imports: with three files of up to two lines there is every diamond and cycle
  of them and every position of text before and after an import; graphs of four
  files have two ways of different length to one file.
- trees: up to five values come in any order, and beyond that in increasing
  order, at the end of the tree (`Few`, `Many`): five in any order reach each of
  the mirrored repairs, seven in order a repair that climbs, ten a B-tree of
  height three with order 2, whose inner nodes split.
- structures, sets: four values, for a rank of two and a compression of a path of three.
  The values are interchangeable (`SYMMETRY`): they are only ever compared for
  equality.
- structures, lists: the threshold of `compact()` is 1 instead of 32, so that both of its
  conditions are met by arrays of five and nine elements.
- compiled, the arena: one variable, three values, code nested three deep including main:
  loop in loop, loop in call and call in loop, each left in every way.
- compiled, native variables: one array, two variables, integers up to 2 and up to two elements: a
  variable can be newer in its slot, older, absent, an array or an alias of it, and
  the right operand of `and`, `or` a variable or a `pop`. The two variables are
  interchangeable (`SYMMETRY`): a name is only ever compared with another.
- tables, memo: two arguments, so that there is one recursive call to be answered
  by a table, and three of five definitions.
- readers, the parser: every statement and operator below every other, to three
  levels, which is what it takes for a block to end two levels at once; and lines
  and tokens in any order, up to six, which reach the parser's error paths.
- readers, the language server: two messages in each pipe (one behind the one
  being read), three requests, one document, numbers printed inexactly from 3 on
  in steps of 2 where the code has 10^6 and 10.

`CHECK_DEADLOCK FALSE` is in the configurations of programs that end, or that a
bound stops: `jit` and `scopes` (an error or the bound of steps ends the program), `imports` (done or
refused), `tables` and `compiled` (a program may run out of room or of
definitions), `readers` and `parser_else` (the program is read, the editor has
left), `append_in_place` (the bound of steps). The data structures and the arena never stop.

### Fairness

Liveness properties assume that a single thread runs what it has begun to its
end, with nothing it waits for: weak fairness of the steps of one recursion or
loop (`WF` of the next step in Imports and Parser, `WF_vars(Steps)` in MCTrees, and
`GoesOn` in Loops, which is weak fairness of `TakeTurn` written out). Beginning
another operation is never assumed. In Lsp both sides read what there is
(`WF` of the server, a loop on a blocking read, and of the editor's reception);
no fairness is assumed of what the user does. `ForLoopsEnd` is about `for` only:
`while` and `repeat` need not end. That `find_index` ends is not checked as
liveness: it follows from `RankRises`, which is checked and proved, as every call
is of a higher rank.

## Proofs

| Theorem | States | Argument |
|---|---|---|
| TableProofs!Invariance | `Spec => []TypeOK /\ []IndexExact` | their conjunction is inductive; one lemma per method |
| TableProofs!Refinement | `Spec => ImplementsMap` | under the invariant the order enumerates the keys bound, and each method is the one of `MapSpec` |
| TableProofs!RememberingIsUnseen | `MemoSpec => []MemoInvisible`, given `Tame` | every result in a table is what the definition returns, below |
| TableProofs!TablesStayRight | `MemoSpec => []TablesAgree`, given `Tame` | the same invariant, and the integer code linked to a name is that of its definition |
| ScopesProofs!TypeCorrect | `Spec => []TypeOK` (Calls) | inductive by itself: the scopes follow the calls |
| ScopesProofs!Agreement | `Spec => []BindingsAgree`, given `CaptureFree` | strengthened by: below the call on top, no pending call that binds early hides a name |
| ScopesProofs!DestroyedOnce | `HoldersSpec => []DestroyedIsGone` | `HoldersInv`, below, for any statements and whether `Guarded` or not |
| ScopesProofs!TextsAreSame | `HoldersSpec => []SameTexts`, given `Guarded` | `HoldersInv` and `RunsAgree`, below |
| TableProofs!LoadingCorrect | `[]ImportsTypeOK` and `[]LoadingIsStack` | `ImportInv`, below |
| TableProofs!Postorder | `ImportSpec => ImportsFirst` | from `ImportInv`: every import line passed is of a file loaded |
| TableProofs!RootOnce | the file run is never imported, and `[]Complete` | from `ImportInv` |
| TableProofs!CircularIsReal | `ImportSpec => []CycleIsReal` | from `ImportInv`: each frame stands on the line that imports the next |
| StructureProofs!Acyclic | `DSUSpec => []RankRises` | the stack is a path to a root, with ranks that rise, for which the element being assigned stays below what returned |
| StructureProofs!Counted | `DSUSpec => []CountsRoots` | the same invariant; a merge joins two roots that differ |
| StructureProofs!Stable | `DSUSpec => NeverGrowsBelow` | every value a pending call asks for is known |
| StructureProofs!IsPartition | `DSUSpec => ImplementsPartition` | the root of every index through each step, below |
| StructureProofs!Shallow | `DSUSpec => []RankLogarithmic` | a merge joins two trees, and the rank grows only when both weigh as much |
| StructureProofs!Refinement | `Spec => ImplementsDeque` (LinkedList) | compaction and `pop_front` leave what is alive, element by element |
| StructureProofs!Bounded, PaidFor | `Spec => []WasteBounded`, `Spec => CopiesPaidFor` (LinkedList) | with `head \in 1..Len(back) + 1`; what is copied is less than half the array |
| StructureProofs!QueueRefinement | the three of a Queue, which never has a `front` | each step of a queue is one of a list or only looks |
| TreeProofs!AlwaysRedBlack | `Spec => []RedBlack` | `Shape`, below, for any values and any `<` |
| TreeProofs!TreeIsSet | `Spec => IsSet`, given `Comparable(Values)` | `Shape` and `Content`, below |
| JitProofs!CodeIsSound | `LoopSpec => []MachineSound` | `SoundState`, below, for any expressions, statements and programs |
| BTreeProofs!AlwaysFilled | `BSpec => []Filling` | `Fit`, below, for any values, any `<` and any order |
| BTreeProofs!BTreeIsSet | `BSpec => BTreeAnswers`, given `Comparable(BValues)` | `Fit` and `BContent`, below |
| CompiledProofs!TypeCorrect, NoDangling, NoLeak, OneKept | `TypeOK`, `UsedIsHeld`, `Balanced`, `KeepsOne` | an invariant of the marks: they rise with the nesting, each loop's own frame holds its slot, and what a level uses is held at or below its frames |
| TableProofs!LspAnswersFit, LspShownIsCurrent | `LspSpec => []AnswersFit`, `LspSpec => []ShownIsCurrent` | every message on its way has a future, below |
| CompiledProofs!CompiledIsInterpreted, CompiledIsPathFree | `NativeSpec => []SameValues`, `NativeSpec => []PathFree`, given `Plain` | where the value of each variable is, below |

They assume what the modules assume of their constants (`ASSUME`, named, and
evaluated by TLC in a run that extends the module), and nothing of their size.
`SequenceLemmas` has what several of them need of numbers and sequences: a set of
numbers with 0 and each successor is all of them (`InductiveSet`), and a function
defined by recursion on a number exists (`Recursion`).

An invariant is needed beyond the property wherever the property speaks of one
moment and the code relies on what was left behind earlier:

- `Imports`: a frame further down the stack stopped on an import line. `DSU`: a
  caller waiting to compress holds an index of a lower rank than its answer.
  `Arena`: no frame released is one that an enclosing statement counts on.
- `Lsp`: a pipe is read in order, so each message in it has a future, the
  documents the server will have and the number of requests it will have read
  when it comes to it (and for the editor what it will show and how many answers
  it will have). `LspInv` says that there are two such sequences, that they begin
  with the present, that each message fits into its own future, and that they
  end with what the user sees. Whoever writes a message extends its sequence by
  one, whoever reads one drops the first; nothing is said of the length of a pipe.
- `Native`: a variable without a slot has its value in the scope, one with a slot
  has it there, and in the scope too unless the slot is dirty; the exception is a
  variable the body of the running loop is about to set (`Fresh`). The theorems
  are about `Plain` programs, that is those the known disagreements of this
  component (below) are not met by: no floats stored in an array once it is made,
  no for-loop without an iteration, no right operand of `and` or `or` that writes
  a slot back or takes from an array in integer code, algorithms defined where the compiler
  remembers nothing. They are exactly the four constants that the run fixes too.
- `DSU`: the root of an index is where the path of its parents ends. That the
  path exists is `Recursion`; that it ends within as many steps as there are
  values is that ranks rise along it and no index comes twice (`PathEnds`); and
  whatever is the same for an index and its parent is decided by the root
  (`RootUnique`), which is how the roots after a step are found. A compression
  changes none (`CompressRoots`), a merge those of one tree (`HangRoots`). What the
  operation in progress knows is `Sought`: the roots found are those of its
  arguments, and the calls of `find_index` are all below the root of the next.
- `RBTree`: `Shape` says that the nodes are one tree without a recursion on it.
  There is a place on a line for each node and an interval around it for what is
  below it, to the left and to the right of the place (`Placed`). Rotations keep
  the places and only change intervals (`TurnedPlaced`), a new node gets a place
  in the gap it is hung in (`GrownPlaced`), and whatever holds for the root and
  from each node to its children holds for all (`FromTheRoot`). That all ways down
  have as many black nodes is a number for each node that agrees with those of
  its children (`Weighed`), from which `BlackBalanced` follows. During a repair it
  stays as it is: what is wrong then is one red node below a red one, or a red
  root, and it is where the repair looks (`Reds`). `Content` adds that the values
  have the order of their places, that the key of a search belongs into the gap
  between the places it has come to, and that a walk has passed nothing on its
  side. `TreeIsSet` needs `Comparable`, that `<` is an order of the values and `=`
  the pairs it does not tell apart, as it is for numbers alone and texts alone,
  and is not for a mix of them (below); the shape needs no such thing.
- `BTree`: a number for each node, 0 for a leaf and one more than that of each
  child, says that every leaf is as deep (`Levelled`, part of `Fit`). A split gives the new node the number of
  the node it halves; only a new root has a greater one. While a key is on its
  way down the node it has come to is not full, which is why no split finds its
  parent full. `BContent` adds a set for each node, the values that a search
  for them would take there: all for the root, and for a child those between the
  keys around it (`Ranged`). Sets of nodes as deep are disjoint, so a value is
  in one place and a node the child of one other (`OneParent`), and a search that arrives at a leaf has missed nothing. A split
  takes one key out of a set and shares the rest between two nodes (`Shared`).
  `height()` follows first children only; the numbers say that any other
  way is as long.
- `Jit`, `Loops`: a compiled expression leaves one number whatever symbol table
  it meets, so nothing has to be known of the table but that it holds values. The
  proof goes by the nodes in their order, which is what makes an induction over
  expressions one over numbers (`Upward`, `Rising`): if the code of the children
  takes the machine from any stack to the same one with a number on top, or stops
  it, so does that of the node (`CodeLeaves`). `SoundState` says that the
  variables of both tiers hold values, that entries are settled, and that the
  loop under way is one of the program's, on a fast path for which its body has
  the code (`PathFits`), with a number in `i` while it is in its body. A visit of an expression is one step with any
  number of visits in it, some of them compiled, so what one rule of the
  interpreter keeps (`Reaches`: values, settled entries, and arrays stay arrays,
  on which a `push` relies that looked the array up before its argument was
  visited) is proved of every rule (`PushReaches`, `CallReaches`, ...), then of
  all nodes (`VisitReaches`), of statements (`DoLeads`) and of turns (`TurnLeads`).
- `Memo`: the body of a memoizable algorithm only calls by name, so a result is
  right as long as the name it calls has the definition it had. `Tame` says that
  nothing takes that away: floats that print alike are equal, no bound name is
  assigned, a definition replaced is called by its own body only, and all
  algorithms have integer code or none does, and none is copied. Each conjunct is
  one of the known disagreements below, and the run fixes its constants the same
  way. The proof of a call is by induction on the argument.
- `Holders`: objects and levels are well formed and two instances never have the
  same birth (`Sound`); no destroyed instance is in the heap (`Gone`); and, if
  `Guarded`, what the two runs hold looks the same (`RunsAgree`). Objects are freed by
  reachability, a union of sets each held by scopes or by itself (`Kept`), so
  that no step has to count. A use count of one says where the only holder is. A
  scope that ends is the only holder of what it destroys, so nothing keeps that
  past the step; a text appended to in place has one name, so nothing else that
  can be seen changes. `DestroyedOnce` has no hypothesis. `TextsAreSame` needs
  `Guarded`: without it the code does let a second name see a text grow, which is
  what the run append_in_place shows.

TLC checks each of these properties too. The invariants were tried on the same
instances before they were proved, but for those of the trees, which say that
places exist.

### Only model-checked

- All liveness properties (`ForLoopsEnd`, `Terminates`, `Ends`, `Stops`,
  `EveryRequestAnswered`) and with them every use of fairness and ENABLED, which
  the provers do not handle.
- `LoopsAgree`, that both tiers compute the same. It is false of programs that
  meet the known disagreements of the JIT below (`pop` of an empty array, operands
  of `and` and `or` that fail), so a theorem has to name the programs it is true of, by
  what their expressions may contain; the run has a guard and a choice of
  expressions instead.
- What is defined by recursion on a program's tree or on files: `ReadsProgram` and
  `KeepsWords`, `ExpandsAsSpecified` (the reference expansion). They compare a
  machine with a RECURSIVE operator, of which the provers know nothing, and the
  argument is an induction over the data. Numbers are the exception, see
  `InductiveSet`, and so are trees whose nodes are numbered, as in Jit.
- The runs that end in a violation.

## Known disagreements

Found while modelling. Four are runs that TLC refutes and are quoted in
`PROJECT.json` with the sentence they contradict. The others are kept out of the
runs above by a guard or a constant, and can be seen by changing it.

| Where | What | How to see it |
|---|---|---|
| `src/pseudo.cpp:286` | an argument sees the parameters bound before it: `f(b, a)` in `f(a, b)` gets b twice interpreted, and is swapped compiled (README.md:27: "compiled behavior matches the interpreter") | run calls_swap |
| `src/jit.cpp:250` | a hot `xs.pop()` of a text takes two elements (`lsp.cpp:473` promises the last one) | run jit_pop_text |
| `src/parser.cpp:263` | after an `if` without `else` in a block, a line that dedents by as many levels as it has tokens is passed over and lost: `break` after two levels (`parser.cpp:621` says whose line it is) | run parser_else |
| `src/jit.cpp:248` | a hot `pop()` of an empty array is an error, a cold one NONE (`test/unittest.cpp:273`) | Jit.cfg with `Guarded = {}` |
| `src/jit.cpp:119` | hot `and`, `or` evaluate both operands; `test/unittest.cpp:435` expects the second untouched | Jit with `false and xs[1]` as a root |
| `src/pseudo.cpp:550` | interpreted, the statements after one that failed still run; a compiled program exits (`runtime.h:11`) | Calls: `over` is "caught" |
| `src/pseudo.cpp:947` | `<` compares two integers as numbers, an integer and a text as texts, which is no order: an RBTree loses values inserted among them | MCTrees with another `IntLess`, which `ComparableAssumption` refuses |
| `src/compiler.cpp:1433` | an array known to hold integers is still read as integers after a float was stored in it | Compiled.cfg with `Floats = TRUE` |
| `src/compiler.cpp:689` | variables assigned in a native for-loop that runs no iteration are read unset | Compiled.cfg with `EmptyLoops = TRUE` |
| `src/compiler.cpp:594` | a call in the right operand of `and`, `or` writes the registers back where it is evaluated, and the compiler takes them for written on the other path too: after `x <- 0`, `b <- 0 and xs.pop()`, `xs` not known to hold integers, an algorithm that reads `x` finds nothing, or its old value | Compiled.cfg with `Effects = TRUE`: PathFree |
| `src/compiler.cpp:516` | `and`, `or` of integers evaluate both operands: `0 and xs.pop()` shortens `xs` (`test/unittest.cpp:435` expects the second untouched) | Compiled.cfg with `Effects = TRUE`: SameValues |
| `src/compiler.cpp:1272` | a body is compiled with the slots of main: the module is invalid (`pseudoc.cpp:187`) | Compiled.cfg with `Algorithms = "anywhere"` |
| `src/pseudo.cpp:494` | results remembered for an algorithm that calls itself by name outlive the name's assignment | Tables.cfg with `Reassigned = {"f"}`, `Copied = {"f", "g"}` |
| `src/compiler.cpp:1190` | integer code of a name stays when the name is defined again without integer code | Tables.cfg with `Redefined = {"h"}` and `WithFloat = {"h2"}` |
| `src/pseudo.cpp:444` | the key of a result has six digits of a float | Tables.cfg with `Alike = {0, 1}` |
| `src/pseudo.cpp:520` | arguments of a memoizable algorithm are evaluated again when one is no number | not modelled: effects of arguments |
| `src/interpreter.cpp:504` | the fast path of `x <- f(e)` in a for-loop binds the parameters in the loop's scope: a target named like a parameter is put back to its old value, and an error leaves parameters bound | MCJit with the parameters of `g` named `z`, `b` |
| `src/interpreter.cpp:183` | `s <- s + t` appends in place when the use count is one: in a called algorithm the caller's text of the same name grows with it, and `s <- s + xs.push(s)` puts the result into the array; compiled code has no such path (README.md:27) | run append_in_place shows a second name that grows; the caller's text without the `assign` and `store` of its programs |
| `src/pseudo.cpp:301` | a destructor runs only where a scope ends and one variable of it is the last holder: not for an instance with two names in the scope, one overwritten, one in main or one the frames of a compiled program still hold; `f(S())` runs it interpreted and not compiled | Holders: compare `destroyed` of the two |
| `src/interpreter.cpp:567` | an algorithm whose last statement is a loop returns the array of its values interpreted, NONE compiled (`compiler.cpp:941`) | Holders: `Collection`, with which no call ends |
| `src/interpreter.cpp:303` | an element stored outside the array, or in what is no array, is lost without an error | Loops: `Store` |
| `src/parser.cpp:162` | an operator before an operand that is an error hides the error | Parser: `Sign` |
| `src/parser.cpp:452` | `Algorithm operator +(other):` is named `operator ` without the sign: a sign token has no value | Parser: `AlgoName` |
| `src/parser.cpp:584` | an identifier `ADD`, or a text `"and"`, after an operand is taken for the operator | Parser: `ReadAs` |
| `src/parser.cpp:456` | `Algorithm (a):` without a name is refused, though the grammar in README.md allows it, and the token after the name is passed over unseen | Parser: `AlgoName` |
| `src/parser.cpp:617` | what follows a complete statement on a line, and with it the rest of the program, is dropped without an error: `print(3) print(4)` | Parser: `ReadsProgram` speaks of programs only |
| `src/lsp.cpp:354` | the completion of `repeat` inserts a body on lines of its own, which the parser refuses | MCParser: `repeat` is written on one line |
| `src/lsp.cpp:529` | of the changes of one notification only the first is taken | Lsp: drop `whole` from ShownIsCurrent |
| `src/lsp.cpp:204` | the number of a request is printed with six digits: from 10^6 on the answer goes to another | Lsp: drop `i < Exact` from AnswersFit |
| `src/lexer.cpp:139` | a number that does not fit an integer ends the language server | Lsp: `Crashing` |

## Not modelled, and the plan

In the order of what they add:

1. A loop inside a loop and a `return` inside one, in `Loops`.
2. In `Holders`: arrays and hash tables as holders, destructors that store
   their object, errors.

Not planned: how characters make a word, the text of the LLVM instructions,
formatting of numbers and errors, terminal I/O, the driver's files and linking,
builtin `read` and `print`, Stack and Tree of `dsa` (an array with two names for
its ends, and a sorted array), editor support, benchmarks and CI.
