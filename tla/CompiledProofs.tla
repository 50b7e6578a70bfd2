--------------------------- MODULE CompiledProofs ---------------------------
(***************************************************************************)
(* Proofs about what a compiled program may lose: its values, which the    *)
(* arena keeps, for every number of values, nesting and program; and its   *)
(* integers in slots, for any variables, integers and arrays.              *)
(*                                                                         *)
(* Arena.  The invariant relates the frames to the whole nest of loops and *)
(* calls, not to the innermost only: each context has a level, the frames  *)
(* there are while it runs, the base of a context is the level of the one  *)
(* around it, and what a context uses lies in frames up to its level.  A   *)
(* `return` can then leave any number of contexts at once.                 *)
(*                                                                         *)
(* Native.  The code that keeps variables in slots computes what the       *)
(* interpreter computes, in the programs that the compiler is right for:   *)
(* no array gets a float once it is there, every for-loop runs, and        *)
(* algorithms are defined where the compiler remembers nothing.  The       *)
(* invariant says where the value of each variable is.  One without a slot *)
(* has it in the scope, one with a slot has it there, and in the scope too *)
(* unless the slot is dirty.  The exception is a variable that the body of *)
(* the running loop is about to set for the first time.                    *)
(***************************************************************************)
EXTENDS Arena, Native, SequenceLemmas

(* The arena.                                                              *)
Contexts ==
  [kind : {"main", "call"} \union Loops, part : {"test", "body"}, mark : Nat,
   slot : Values \union {0}, var : Names \union {"none"}, uses : SUBSET Values]

(* The frames while a context is the innermost one, and the frames when it *)
(* was entered.                                                            *)
Level(c) == IF c.kind = "for" /\ c.part = "test" THEN c.mark ELSE c.mark + 1
Base(c) == IF c.kind = "for" THEN c.mark - 1 ELSE c.mark

(* Only the innermost context can be a for-loop that tests its condition.  *)
Underway(c) == c.kind = "for" => c.part = "body"

Upto(f, n) == UNION { f[k] : k \in 1..n }

Nested(c) ==
  /\ c \in Seq(Contexts) /\ Len(c) >= 1
  /\ c[1].kind = "main" /\ c[1].mark = 0
  /\ \A k \in 2..Len(c) : c[k].kind # "main"
  /\ \A k \in 2..Len(c) : Base(c[k]) = Level(c[k - 1])
  /\ \A k \in 1..(Len(c) - 1) : Underway(c[k])
  /\ \A j, k \in 1..Len(c) : j < k => Level(c[j]) <= Base(c[k])

Reached(f, c) ==
  /\ f \in Seq(SUBSET Values)
  /\ Level(c[Len(c)]) = Len(f)
  /\ \A k \in 1..Len(c) : c[k].uses \subseteq Upto(f, Level(c[k]))
  /\ \A k \in 1..Len(c) : c[k].slot \in {0} \union Upto(f, c[k].mark)

Chain(f, c) == Nested(c) /\ Reached(f, c)

ScopesOK == scopes \in Seq([Names -> Values \union {0}])

Inv == Chain(frames, code) /\ ScopesOK /\ KeepsOne

-----------------------------------------------------------------------------
(* Frames that hold no less, and more of them.                             *)
LEMMA UptoMonotone ==
  ASSUME NEW f, NEW g, NEW a \in Int, NEW b \in Int, a <= b,
         \A k \in 1..a : f[k] \subseteq g[k]
  PROVE  Upto(f, a) \subseteq Upto(g, b)
BY DEF Upto

LEMMA Levels ==
  ASSUME NEW c \in Contexts
  PROVE  /\ c.mark \in Nat /\ Level(c) \in Nat /\ Base(c) \in Int
         /\ c.mark <= Level(c) /\ Level(c) <= c.mark + 1
         /\ Base(c) <= c.mark
BY DEF Contexts, Level, Base

LEMMA FrameElements ==
  ASSUME NEW c, Nested(c)
  PROVE  /\ Len(c) \in Nat /\ Len(c) >= 1
         /\ \A k \in 1..Len(c) : c[k] \in Contexts
         /\ c[Len(c)] \in Contexts
<1>1. Len(c) \in Nat /\ Len(c) >= 1 /\ c \in Seq(Contexts)
  BY LenProperties DEF Nested
<1>2. \A k \in 1..Len(c) : c[k] \in Contexts
  BY <1>1, ElementOfSeq
<1>. QED  BY <1>1, <1>2

(* The frames there are when a context is entered, are there while it runs.*)
LEMMA Outside ==
  ASSUME NEW c, Nested(c), NEW j \in 1..Len(c), NEW k \in 1..Len(c), j < k
  PROVE  /\ Level(c[j]) <= Base(c[k]) /\ c[j].mark <= Base(c[k])
         /\ 1 <= Base(c[k])
<1>1. c[j] \in Contexts /\ c[k] \in Contexts /\ c[1] \in Contexts /\ 1 \in 1..Len(c) /\ 1 < k
  BY FrameElements
<1>2. Level(c[j]) <= Base(c[k]) /\ Level(c[1]) <= Base(c[k])
  BY <1>1 DEF Nested
<1>3. Level(c[1]) = 1
  BY DEF Nested, Level
<1>. QED  BY <1>1, <1>2, <1>3, Levels

(* The innermost context changes and stays where it is.                    *)
LEMMA ReplaceNested ==
  ASSUME NEW c, Nested(c), NEW n \in Nat, n = Len(c), NEW b \in Seq(Contexts), Len(b) = n,
         b[n].kind = c[n].kind, b[n].mark = c[n].mark, \A k \in 1..(n - 1) : b[k] = c[k]
  PROVE  Nested(b)
<1>1. c \in Seq(Contexts) /\ n \in 1..Len(c) /\ Len(c) \in Nat
  BY FrameElements DEF Nested
<1>2. \A k \in 1..n : k = n \/ k \in 1..(n - 1)
  BY <1>1
<1>3. \A k \in 1..n : b[k].kind = c[k].kind /\ b[k].mark = c[k].mark /\ Base(b[k]) = Base(c[k])
  BY <1>1, <1>2 DEF Base
<1>4. \A k \in 1..(n - 1) : b[k] = c[k] /\ Level(b[k]) = Level(c[k])
  BY <1>1, <1>2
<1>5. Nested(b)
  <2>1. Len(b) >= 1 /\ b[1].kind = "main" /\ b[1].mark = 0
    BY <1>1, <1>2, <1>3 DEF Nested
  <2>2. \A k \in 2..Len(b) : b[k].kind # "main"
    BY <1>1, <1>2, <1>3 DEF Nested
  <2>3. \A k \in 2..Len(b) : Base(b[k]) = Level(b[k - 1])
    BY <1>1, <1>2, <1>3, <1>4 DEF Nested
  <2>4. \A j, k \in 1..Len(b) : j < k => Level(b[j]) <= Base(b[k])
    BY <1>1, <1>2, <1>3, <1>4 DEF Nested
  <2>5. \A k \in 1..(Len(b) - 1) : Underway(b[k])
    BY <1>1, <1>4 DEF Nested
  <2>. QED  BY <1>2, <2>1, <2>2, <2>3, <2>4, <2>5 DEF Nested
<1>. QED  BY <1>5

LEMMA Replace ==
  ASSUME NEW f, NEW c, Chain(f, c), NEW d \in Contexts,
         d.kind = c[Len(c)].kind, d.mark = c[Len(c)].mark,
         NEW g \in Seq(SUBSET Values), Level(d) = Len(g),
         \A k \in 1..Base(d) : f[k] \subseteq g[k],
         d.uses \subseteq Upto(g, Len(g)), d.slot \in {0} \union Upto(g, d.mark)
  PROVE  /\ Chain(g, [c EXCEPT ![Len(c)] = d])
         /\ [c EXCEPT ![Len(c)] = d][Len([c EXCEPT ![Len(c)] = d])] = d
<1>0. PICK n : n = Len(c)
  OBVIOUS
<1>1. PICK b : b = [c EXCEPT ![n] = d]
  OBVIOUS
<1>2. /\ Nested(b) /\ Len(b) = n /\ b[n] = d
      /\ \A k \in 1..(n - 1) : b[k] = c[k]
  <2>1. Nested(c) /\ c \in Seq(Contexts) /\ n \in Nat /\ n \in 1..Len(c)
    BY <1>0, FrameElements DEF Chain, Nested
  <2>2. /\ b \in Seq(Contexts) /\ Len(b) = n
        /\ \A k \in 1..Len(c) : b[k] = IF k = n THEN d ELSE c[k]
    BY <1>0, <1>1, <2>1, ExceptSeq
  <2>3. b[n] = d /\ \A k \in 1..(n - 1) : b[k] = c[k]
    BY <2>1, <2>2
  <2>4. b[n].kind = c[n].kind /\ b[n].mark = c[n].mark
    BY <1>0, <2>3
  <2>5. Nested(b)
    BY <1>0, <2>1, <2>2, <2>3, <2>4, ReplaceNested
  <2>. QED  BY <2>2, <2>3, <2>5
<1>3. n \in Nat /\ n >= 1 /\ \A k \in 1..n : c[k] \in Contexts
  BY <1>0, FrameElements DEF Chain
<1>4. Base(d) = Base(c[n])
  BY <1>0 DEF Base
<1>5. ASSUME NEW k \in 1..(n - 1)
      PROVE  /\ Upto(f, Level(c[k])) \subseteq Upto(g, Level(c[k]))
             /\ Upto(f, c[k].mark) \subseteq Upto(g, c[k].mark)
  <2>0. k \in 1..n /\ n \in 1..n /\ k < n
    BY <1>3
  <2>1. /\ c[k] \in Contexts /\ Base(d) \in Int
        /\ Level(c[k]) <= Base(d) /\ c[k].mark <= Base(d)
    <3>1. c[k] \in Contexts /\ Base(d) \in Int
      BY <1>3, <2>0, Levels
    <3>2. Level(c[k]) <= Base(c[n]) /\ c[k].mark <= Base(c[n])
      BY <1>0, <2>0, Outside DEF Chain
    <3>. QED  BY <1>4, <3>1, <3>2
  <2>2. Level(c[k]) \in Int /\ c[k].mark \in Int
    BY <2>1, Levels
  <2>3. /\ \A i \in 1..Level(c[k]) : f[i] \subseteq g[i]
        /\ \A i \in 1..c[k].mark : f[i] \subseteq g[i]
    BY <2>1, <2>2
  <2>. QED  BY <2>2, <2>3, UptoMonotone
<1>6. \A k \in 1..n : k = n \/ k \in 1..(n - 1)
  BY <1>3
<1>7. \A k \in 1..n : c[k].uses \subseteq Upto(f, Level(c[k])) /\ c[k].slot \in {0} \union Upto(f, c[k].mark)
  BY <1>0 DEF Chain, Reached
<1>8. ASSUME NEW k \in 1..n
      PROVE  b[k].uses \subseteq Upto(g, Level(b[k])) /\ b[k].slot \in {0} \union Upto(g, b[k].mark)
  <2>1. CASE k = n
    BY <1>2, <2>1
  <2>2. CASE k \in 1..(n - 1)
    BY <1>2, <1>5, <1>7, <2>2
  <2>. QED  BY <1>6, <2>1, <2>2
<1>9. Reached(g, b)
  BY <1>2, <1>8 DEF Reached
<1>. QED  BY <1>0, <1>1, <1>2, <1>9 DEF Chain

(* No context is above the frames.                                         *)
LEMMA Below ==
  ASSUME NEW f, NEW c, Chain(f, c), NEW k \in 1..Len(c)
  PROVE  /\ c[k] \in Contexts /\ Len(f) \in Nat
         /\ Level(c[k]) \in Nat /\ c[k].mark \in Nat
         /\ c[k].mark <= Level(c[k]) /\ Level(c[k]) <= Len(f)
<1>1. PICK n \in Nat : n = Len(c) /\ n >= 1
  BY FrameElements DEF Chain
<1>2. c[k] \in Contexts /\ c[n] \in Contexts /\ n \in 1..n /\ k \in 1..n
  BY <1>1, FrameElements DEF Chain
<1>3. /\ Level(c[k]) \in Nat /\ c[k].mark \in Nat /\ c[k].mark <= Level(c[k])
      /\ Level(c[n]) \in Nat
  BY <1>2, Levels
<1>4. Level(c[n]) = Len(f)
  BY <1>1 DEF Chain, Reached
<1>5. CASE k = n
  BY <1>2, <1>3, <1>4, <1>5
<1>6. CASE k # n
  <2>1. Level(c[k]) <= Base(c[n])
    BY <1>1, <1>2, <1>6, Outside DEF Chain
  <2>2. Base(c[n]) <= c[n].mark /\ c[n].mark <= Level(c[n]) /\ Base(c[n]) \in Int /\ c[n].mark \in Nat
    BY <1>2, Levels
  <2>. QED  BY <1>2, <1>3, <1>4, <2>1, <2>2
<1>. QED  BY <1>5, <1>6

(* A loop or a call is entered.                                            *)
LEMMA Extend ==
  ASSUME NEW f, NEW c, Chain(f, c), Underway(c[Len(c)]), NEW d \in Contexts, d.kind # "main", Base(d) = Len(f),
         NEW g \in Seq(SUBSET Values), Level(d) = Len(g),
         \A k \in 1..Len(f) : f[k] \subseteq g[k],
         d.uses = {}, d.slot \in {0} \union Upto(g, d.mark)
  PROVE  /\ Chain(g, Append(c, d))
         /\ Append(c, d)[Len(Append(c, d))] = d
<1>1. PICK b : b = Append(c, d)
  OBVIOUS
<1>2. PICK n \in Nat : n = Len(c) /\ n >= 1
  BY FrameElements DEF Chain
<1>3. c \in Seq(Contexts) /\ \A k \in 1..n : c[k] \in Contexts
  BY <1>2, FrameElements DEF Chain, Nested
<1>4. /\ b \in Seq(Contexts) /\ Len(b) = n + 1 /\ b[n + 1] = d
      /\ \A k \in 1..n : b[k] = c[k]
  BY <1>1, <1>2, <1>3, AppendProperties
<1>5. \A k \in 1..n : Level(c[k]) \in Nat /\ c[k].mark \in Nat /\ c[k].mark <= Level(c[k])
                      /\ Level(c[k]) <= Len(f)
  BY <1>2, Below
<1>6. Level(c[n]) = Len(f) /\ Base(d) = Level(c[n])
  BY <1>2 DEF Chain, Reached
<1>7. Nested(b)
  <2>1. Len(b) >= 1 /\ b[1].kind = "main" /\ b[1].mark = 0
    <3>1. 1 \in 1..n /\ Len(b) >= 1
      BY <1>2, <1>4
    <3>2. c[1].kind = "main" /\ c[1].mark = 0
      BY DEF Chain, Nested
    <3>. QED  BY <1>4, <3>1, <3>2
  <2>2. \A k \in 2..Len(b) : b[k].kind # "main"
    <3>1. \A k \in 2..Len(b) : k = n + 1 \/ (k \in 2..n /\ k \in 1..n)
      <4>1. n \in Nat /\ n >= 1 /\ Len(b) = n + 1
        BY <1>2, <1>4
      <4>2. ASSUME NEW k \in 2..(n + 1), k # n + 1
            PROVE  k \in 2..n /\ k \in 1..n
        BY ONLY <4>2, n \in Nat
      <4>3. 2..Len(b) = 2..(n + 1)
        BY <4>1
      <4>. QED  BY <4>2, <4>3, Zenon
    <3>2. \A k \in 2..n : c[k].kind # "main"
      <4>1. \A k \in 2..Len(c) : c[k].kind # "main"
        BY DEF Chain, Nested
      <4>. QED  BY <1>2, <4>1
    <3>. QED  BY <1>2, <1>4, <3>1, <3>2
  <2>3. \A k \in 2..Len(b) : Base(b[k]) = Level(b[k - 1])
    <3>. TAKE k \in 2..Len(b)
    <3>1. CASE k = n + 1
      BY <1>2, <1>4, <1>6, <3>1
    <3>2. CASE k # n + 1
      <4>1. k \in 2..n /\ k \in 1..n /\ k - 1 \in 1..n
        BY <1>2, <1>4, <3>2
      <4>2. Base(c[k]) = Level(c[k - 1])
        BY <1>2, <4>1 DEF Chain, Nested
      <4>. QED  BY <1>4, <4>1, <4>2
    <3>. QED  BY <3>1, <3>2
  <2>4. \A j, k \in 1..Len(b) : j < k => Level(b[j]) <= Base(b[k])
    <3>. SUFFICES ASSUME NEW j \in 1..Len(b), NEW k \in 1..Len(b), j < k
                  PROVE  Level(b[j]) <= Base(b[k])
      OBVIOUS
    <3>1. j \in 1..n /\ b[j] = c[j]
      BY <1>2, <1>4
    <3>2. CASE k = n + 1
      BY <1>4, <1>5, <3>1, <3>2
    <3>3. CASE k # n + 1
      <4>1. k \in 1..n /\ b[k] = c[k]
        BY <1>2, <1>4, <3>3
      <4>. QED  BY <1>2, <3>1, <4>1 DEF Chain, Nested
    <3>. QED  BY <3>2, <3>3
  <2>5. \A k \in 1..(Len(b) - 1) : Underway(b[k])
    <3>. TAKE k \in 1..(Len(b) - 1)
    <3>1. CASE k = n
      BY <1>2, <1>4, <3>1
    <3>2. CASE k # n
      BY <1>2, <1>4, <3>2 DEF Chain, Nested
    <3>. QED  BY <3>1, <3>2
  <2>. QED  BY <1>4, <2>1, <2>2, <2>3, <2>4, <2>5 DEF Nested
<1>8. ASSUME NEW k \in 1..n
      PROVE  b[k].uses \subseteq Upto(g, Level(b[k])) /\ b[k].slot \in {0} \union Upto(g, b[k].mark)
  <2>1. Len(f) \in Nat
    BY LenProperties DEF Chain, Reached
  <2>2. /\ \A i \in 1..Level(c[k]) : f[i] \subseteq g[i]
        /\ \A i \in 1..c[k].mark : f[i] \subseteq g[i]
    BY <1>5, <2>1
  <2>3. /\ Upto(f, Level(c[k])) \subseteq Upto(g, Level(c[k]))
        /\ Upto(f, c[k].mark) \subseteq Upto(g, c[k].mark)
    <3>1. Level(c[k]) \in Int /\ c[k].mark \in Int
      BY <1>5
    <3>2. Level(c[k]) <= Level(c[k]) /\ c[k].mark <= c[k].mark
      BY <3>1
    <3>3. Upto(f, Level(c[k])) \subseteq Upto(g, Level(c[k]))
      BY ONLY <2>2, <3>1, <3>2, UptoMonotone
    <3>4. Upto(f, c[k].mark) \subseteq Upto(g, c[k].mark)
      BY ONLY <2>2, <3>1, <3>2, UptoMonotone
    <3>. QED  BY <3>3, <3>4
  <2>4. c[k].uses \subseteq Upto(f, Level(c[k])) /\ c[k].slot \in {0} \union Upto(f, c[k].mark)
    BY <1>2 DEF Chain, Reached
  <2>. QED  BY <1>4, <2>3, <2>4
<1>9. Reached(g, b)
  <2>1. \A k \in 1..Len(b) : k = n + 1 \/ k \in 1..n
    BY <1>2, <1>4
  <2>2. b[n + 1].uses \subseteq Upto(g, Level(b[n + 1])) /\ b[n + 1].slot \in {0} \union Upto(g, b[n + 1].mark)
    BY <1>4
  <2>. QED  BY <1>4, <1>8, <2>1, <2>2 DEF Reached
<1>. QED  BY <1>1, <1>7, <1>9 DEF Chain

(* Loops and calls end: m contexts and their frames stay.                  *)
LEMMA Cut ==
  ASSUME NEW f, NEW c, Chain(f, c), NEW m \in 1..(Len(c) - 1)
  PROVE  /\ Base(c[m + 1]) = Level(c[m]) /\ Underway(c[m])
         /\ Chain(SubSeq(f, 1, Level(c[m])), SubSeq(c, 1, m))
         /\ Len(SubSeq(c, 1, m)) = m /\ SubSeq(c, 1, m)[m] = c[m]
<1>1. PICK n \in Nat : n = Len(c) /\ n >= 1 /\ m < n /\ m \in Nat
  BY FrameElements DEF Chain
<1>2. c \in Seq(Contexts) /\ \A k \in 1..n : c[k] \in Contexts
  BY <1>1, FrameElements DEF Chain, Nested
<1>3. PICK b : b = SubSeq(c, 1, m)
  OBVIOUS
<1>4. /\ b \in Seq(Contexts) /\ Len(b) = m
      /\ \A k \in 1..m : b[k] = c[k]
  BY <1>1, <1>2, <1>3, PrefixProperties
<1>5. Base(c[m + 1]) = Level(c[m])
  <2>1. m + 1 \in 2..Len(c) /\ (m + 1) - 1 = m
    BY <1>1
  <2>. QED  BY <2>1 DEF Chain, Nested
<1>13. Underway(c[m])
  BY DEF Chain, Nested
<1>6. Nested(b)
  <2>1. \A k \in 1..m : k \in 1..Len(c)
    BY <1>1
  <2>2. \A k \in 2..m : k \in 2..Len(c) /\ k - 1 \in 1..m /\ k \in 1..m
    BY <1>1
  <2>3. \A k \in 2..m : b[k].kind # "main" /\ Base(b[k]) = Level(b[k - 1])
    BY <1>4, <2>2 DEF Chain, Nested
  <2>4. \A j, k \in 1..m : j < k => Level(b[j]) <= Base(b[k])
    BY <1>4, <2>1 DEF Chain, Nested
  <2>5. b[1].kind = "main" /\ b[1].mark = 0
    BY <1>4 DEF Chain, Nested
  <2>6. \A k \in 1..(m - 1) : Underway(b[k])
    <3>1. \A k \in 1..(m - 1) : k \in 1..(Len(c) - 1) /\ k \in 1..m
      BY <1>1
    <3>. QED  BY <1>4, <3>1 DEF Chain, Nested
  <2>. QED  BY <1>4, <2>3, <2>4, <2>5, <2>6 DEF Nested
<1>7. Level(c[m]) \in Nat /\ Level(c[m]) <= Len(f) /\ Len(f) \in Nat
  <2>1. m \in 1..Len(c)
    BY <1>1
  <2>. QED  BY <2>1, Below
<1>8. PICK g : g = SubSeq(f, 1, Level(c[m]))
  OBVIOUS
<1>9. /\ g \in Seq(SUBSET Values) /\ Len(g) = Level(c[m])
      /\ \A k \in 1..Level(c[m]) : g[k] = f[k]
  BY <1>7, <1>8, PrefixProperties DEF Chain, Reached
<1>10. ASSUME NEW k \in 1..m
       PROVE  b[k].uses \subseteq Upto(g, Level(b[k])) /\ b[k].slot \in {0} \union Upto(g, b[k].mark)
  <2>1. c[k] \in Contexts /\ c[m] \in Contexts /\ k \in 1..n /\ m \in 1..n
    BY <1>1, <1>2
  <2>2. Level(c[k]) \in Nat /\ c[k].mark \in Nat /\ c[k].mark <= Level(c[k]) /\ Level(c[m]) \in Nat
    BY <2>1, Levels
  <2>3. Level(c[k]) <= Level(c[m])
    <3>1. CASE k = m
      BY <2>2, <3>1
    <3>2. CASE k # m
      <4>1. Level(c[k]) <= Base(c[m])
        BY <1>1, <2>1, <3>2, Outside DEF Chain
      <4>2. Base(c[m]) <= c[m].mark /\ c[m].mark <= Level(c[m]) /\ Base(c[m]) \in Int /\ c[m].mark \in Nat
        BY <2>1, Levels
      <4>. QED  BY <2>2, <4>1, <4>2
    <3>. QED  BY <3>1, <3>2
  <2>4. /\ \A i \in 1..Level(c[k]) : f[i] \subseteq g[i]
        /\ \A i \in 1..c[k].mark : f[i] \subseteq g[i]
    BY <1>9, <2>2, <2>3
  <2>5. /\ Upto(f, Level(c[k])) \subseteq Upto(g, Level(c[k]))
        /\ Upto(f, c[k].mark) \subseteq Upto(g, c[k].mark)
    BY <2>2, <2>4, UptoMonotone
  <2>6. c[k].uses \subseteq Upto(f, Level(c[k])) /\ c[k].slot \in {0} \union Upto(f, c[k].mark)
    BY <1>1, <2>1 DEF Chain, Reached
  <2>7. b[k] = c[k]
    BY <1>4
  <2>. QED  BY <2>5, <2>6, <2>7
<1>11. Reached(g, b)
  <2>1. b[m] = c[m]
    BY <1>4
  <2>. QED  BY <1>4, <1>9, <1>10, <2>1 DEF Reached
<1>12. b[m] = c[m]
  BY <1>4
<1>. QED  BY <1>3, <1>4, <1>5, <1>6, <1>8, <1>11, <1>12, <1>13 DEF Chain

-----------------------------------------------------------------------------
(* What the invariant says of the innermost context.                       *)
LEMMA Innermost ==
  ASSUME Inv
  PROVE  /\ Depth \in Nat /\ Depth >= 1 /\ Top \in Contexts
         /\ frames \in Seq(SUBSET Values) /\ Len(frames) \in Nat /\ Len(frames) >= 1
         /\ Len(frames) = Level(Top)
         /\ Top.uses \subseteq Upto(frames, Len(frames)) /\ Top.uses \subseteq Values
         /\ Top.slot \in {0} \union Upto(frames, Top.mark)
         /\ Top.kind # "main" => Depth >= 2 /\ Base(Top) >= 1
<1>1. Depth \in Nat /\ Depth >= 1 /\ Top \in Contexts
  BY FrameElements DEF Inv, Chain, Depth, Top
<1>2. frames \in Seq(SUBSET Values) /\ Len(frames) = Level(Top)
  BY DEF Inv, Chain, Reached, Depth, Top
<1>3. /\ Top.uses \subseteq Upto(frames, Len(frames))
      /\ Top.slot \in {0} \union Upto(frames, Top.mark)
  BY <1>1, <1>2 DEF Inv, Chain, Reached, Depth, Top
<1>4. Top.kind # "main" => Depth >= 2 /\ Base(Top) >= 1
  <2>1. SUFFICES ASSUME Top.kind # "main"  PROVE Depth >= 2 /\ Base(Top) >= 1
    OBVIOUS
  <2>2. Depth >= 2
    BY <1>1, <2>1 DEF Inv, Chain, Nested, Depth, Top
  <2>3. 1 \in 1..Len(code) /\ Depth \in 1..Len(code) /\ 1 < Depth
    BY <1>1, <2>2 DEF Depth
  <2>4. Base(code[Depth]) >= 1
    <3>1. 1 <= Base(code[Depth])
      BY <2>3, Outside DEF Inv, Chain
    <3>2. Base(code[Depth]) \in Int
      BY <1>1, Levels DEF Top
    <3>. QED  BY <3>1, <3>2
  <2>. QED  BY <2>2, <2>4 DEF Top
<1>5. Len(frames) \in Nat /\ Len(frames) >= 1
  <2>1. Len(frames) \in Nat
    BY <1>2, LenProperties
  <2>2. CASE Top.kind = "main"
    <3>1. Depth = 1
      <4>1. \A k \in 2..Len(code) : code[k].kind # "main"
        BY DEF Inv, Chain, Nested
      <4>2. ~(Depth \in 2..Depth)
        BY <2>2, <4>1 DEF Top, Depth
      <4>. QED  BY <1>1, <4>2
    <3>2. Level(Top) = 1
      BY <2>2, <3>1 DEF Inv, Chain, Nested, Level, Top
    <3>. QED  BY <1>2, <2>1, <3>2
  <2>3. CASE Top.kind # "main"
    <3>1. Base(Top) >= 1 /\ Base(Top) <= Top.mark /\ Top.mark <= Level(Top)
          /\ Base(Top) \in Int /\ Top.mark \in Nat /\ Level(Top) \in Nat
      BY <1>1, <1>4, <2>3, Levels
    <3>. QED  BY <1>2, <3>1
  <2>. QED  BY <2>2, <2>3
<1>. QED  BY <1>1, <1>2, <1>3, <1>4, <1>5 DEF Contexts

LEMMA LeastFree ==
  ASSUME Free # {}
  PROVE  Min(Free) \in Values
<1>1. Free \in SUBSET Nat /\ Free \subseteq Values
  BY DEF Free, Values
<1>2. \E x \in Free : \A y \in Free : x <= y
  BY <1>1, LeastElement
<1>3. Min(Free) \in Free
  BY <1>2 DEF Min
<1>. QED  BY <1>1, <1>3

(* A frame is pushed, or some are released.                                *)
LEMMA FramePushed ==
  ASSUME NEW f \in Seq(SUBSET Values), NEW n, n = Len(f)
  PROVE  /\ Push(f) \in Seq(SUBSET Values) /\ Len(Push(f)) = n + 1 /\ n \in Nat
         /\ \A k \in 1..n : Push(f)[k] = f[k]
<1>. QED  BY AppendProperties, LenProperties DEF Push

LEMMA Released ==
  ASSUME NEW f \in Seq(SUBSET Values), NEW n \in Nat, n <= Len(f)
  PROVE  /\ Release(f, n) \in Seq(SUBSET Values) /\ Len(Release(f, n)) = n
         /\ \A k \in 1..n : Release(f, n)[k] = f[k]
BY PrefixProperties DEF Release

(* A variable of the current scope is assigned.                            *)
LEMMA Assigned ==
  ASSUME ScopesOK, NEW n, NEW v \in Values,
         scopes' = [scopes EXCEPT ![Len(scopes)][n] = v]
  PROVE  ScopesOK'
<1> DEFINE S == [Names -> Values \union {0}]
<1>1. scopes \in Seq(S) /\ Len(scopes) \in Nat
  BY LenProperties DEF ScopesOK
<1>2. CASE Len(scopes) >= 1
  <2>1. Len(scopes) \in 1..Len(scopes) /\ scopes[Len(scopes)] \in S
    BY <1>1, <1>2, ElementOfSeq
  <2>2. [scopes[Len(scopes)] EXCEPT ![n] = v] \in S
    BY <2>1
  <2>. QED  BY <1>1, <2>1, <2>2, ExceptSeq DEF ScopesOK
<1>3. CASE Len(scopes) = 0
  <2>1. scopes' = << >>
    BY <1>1, <1>3
  <2>2. << >> \in Seq(S)
    BY EmptySeq
  <2>. QED  BY <2>1, <2>2 DEF ScopesOK
<1>. QED  BY <1>1, <1>2, <1>3

(* The frame on top holds one more value, which the statement uses.        *)
LEMMA TrackedStep ==
  ASSUME Inv, Evaluating, NEW v \in Values, Tracked(v), ScopesOK'
  PROVE  Inv'
<1> DEFINE n == Len(frames)
           g == [frames EXCEPT ![n] = @ \union {v}]
           d == [Top EXCEPT !.uses = @ \union {v}]
<1>1. frames \in Seq(SUBSET Values) /\ n \in 1..n /\ Top \in Contexts /\ n = Level(Top) /\ n \in Nat
  BY Innermost
<1>2. frames[n] \union {v} \in SUBSET Values
  BY <1>1, ElementOfSeq
<1>3. /\ g \in Seq(SUBSET Values) /\ Len(g) = n
      /\ \A k \in 1..n : g[k] = IF k = n THEN frames[n] \union {v} ELSE frames[k]
  BY <1>1, <1>2, ExceptSeq
<1>4. /\ d \in Contexts /\ d.kind = Top.kind /\ d.part = Top.part /\ d.mark = Top.mark
      /\ d.slot = Top.slot /\ d.uses = Top.uses \union {v}
  BY <1>1 DEF Contexts
<1>5. Level(d) = n /\ Base(d) = Base(Top)
  BY <1>1, <1>4 DEF Level, Base
<1>6. frames' = g /\ code' = [code EXCEPT ![Len(code)] = d]
  BY DEF Tracked, Depth, Top
<1>. HIDE DEF g, d
<1>7. Base(Top) \in Int /\ Base(Top) <= n /\ Top.mark \in Nat /\ Top.mark <= n
  <2>1. Base(Top) \in Int /\ Base(Top) <= Top.mark /\ Top.mark <= Level(Top) /\ Top.mark \in Nat
    BY <1>1, Levels
  <2>. QED  BY <1>1, <2>1
<1>8. \A k \in 1..n : frames[k] \subseteq g[k]
  BY <1>3
<1>9. Upto(frames, n) \subseteq Upto(g, n) /\ Upto(frames, Top.mark) \subseteq Upto(g, Top.mark)
  BY <1>7, <1>8 DEF Upto
<1>10. v \in Upto(g, n)
  BY <1>1, <1>3 DEF Upto
<1>11. d.uses \subseteq Upto(g, Len(g)) /\ d.slot \in {0} \union Upto(g, d.mark)
  BY <1>3, <1>4, <1>9, <1>10, Innermost
<1>12. \A k \in 1..Base(d) : frames[k] \subseteq g[k]
  BY <1>5, <1>7, <1>8
<1>13. Chain(frames, code) /\ d.kind = code[Len(code)].kind /\ d.mark = code[Len(code)].mark
  BY <1>4 DEF Inv, Top, Depth
<1>14. Chain(frames', code') /\ code'[Len(code')] = d
  <2>1. Chain(frames, code)
    BY <1>13
  <2>2. d.kind = code[Len(code)].kind
    BY <1>13
  <2>3. d.mark = code[Len(code)].mark
    BY <1>13
  <2>4. d \in Contexts /\ g \in Seq(SUBSET Values) /\ Level(d) = Len(g)
    BY <1>3, <1>4, <1>5
  <2>5. d.uses \subseteq Upto(g, Len(g))
    BY <1>11
  <2>6. d.slot \in {0} \union Upto(g, d.mark)
    BY <1>11
  <2>7. /\ Chain(g, [code EXCEPT ![Len(code)] = d])
        /\ [code EXCEPT ![Len(code)] = d][Len([code EXCEPT ![Len(code)] = d])] = d
    BY <2>1, <2>2, <2>3, <2>4, <2>5, <2>6, <1>12, Replace
  <2>. QED  BY <1>6, <2>7
<1>15. KeepsOne'
  BY <1>4, <1>14 DEF KeepsOne, In, Top, Depth, Evaluating
<1>. QED  BY <1>14, <1>15 DEF Inv

(* The innermost context goes on to another part.                          *)
LEMMA Stays ==
  ASSUME Inv, ScopesOK', NEW d \in Contexts,
         d.kind = Top.kind, d.mark = Top.mark, d.uses = {},
         code' = [code EXCEPT ![Len(code)] = d],
         frames' \in Seq(SUBSET Values), Level(d) = Len(frames'),
         \A k \in 1..Base(Top) : frames[k] \subseteq frames'[k],
         d.slot \in {0} \union Upto(frames', d.mark),
         d.kind = "for" /\ d.part = "test" => frames'[d.mark] \subseteq {d.slot}
  PROVE  Inv'
<1>1. Chain(frames, code)
  BY DEF Inv
<1>2. d.kind = code[Len(code)].kind
  BY DEF Top, Depth
<1>3. d.mark = code[Len(code)].mark
  BY DEF Top, Depth
<1>4. Base(d) = Base(Top)
  BY DEF Base
<1>5. \A k \in 1..Base(d) : frames[k] \subseteq frames'[k]
  BY <1>4
<1>7. PICK g \in Seq(SUBSET Values) : g = frames'
  OBVIOUS
<1>8. Chain(frames', code') /\ code'[Len(code')] = d
  <2>1. Level(d) = Len(g)
    BY <1>7
  <2>2. \A k \in 1..Base(d) : frames[k] \subseteq g[k]
    BY <1>5, <1>7
  <2>3. d.uses \subseteq Upto(g, Len(g))
    OBVIOUS
  <2>4. d.slot \in {0} \union Upto(g, d.mark)
    BY <1>7
  <2>5. /\ Chain(g, [code EXCEPT ![Len(code)] = d])
        /\ [code EXCEPT ![Len(code)] = d][Len([code EXCEPT ![Len(code)] = d])] = d
    BY ONLY <1>1, <1>2, <1>3, <2>1, <2>2, <2>3, <2>4, Replace
  <2>. QED  BY <1>7, <2>5
<1>9. KeepsOne'
  BY <1>8 DEF KeepsOne, In, Top, Depth
<1>. QED  BY <1>8, <1>9 DEF Inv

(* A loop or a call is entered: a frame of its own.                        *)
LEMMA Enters ==
  ASSUME Inv, ScopesOK', Evaluating, NEW d \in Contexts,
         d.kind # "main", d.uses = {}, Base(d) = Len(frames), Level(d) = Len(frames) + 1,
         code' = Append(code, d), frames' = Push(frames),
         d.slot \in {0} \union Upto(frames, Len(frames)), Len(frames) <= d.mark
  PROVE  Inv'
<1>1. Chain(frames, code) /\ Underway(code[Len(code)])
  BY DEF Inv, Evaluating, Underway, Top, Depth
<1>2. PICK n : n = Len(frames)
  OBVIOUS
<1>3. frames \in Seq(SUBSET Values) /\ n \in Nat
  BY <1>2, Innermost
<1>4. /\ frames' \in Seq(SUBSET Values) /\ Len(frames') = n + 1
      /\ \A k \in 1..n : frames'[k] = frames[k]
  BY <1>2, <1>3, FramePushed
<1>5. d.mark \in Nat
  BY DEF Contexts
<1>6. Upto(frames, n) \subseteq Upto(frames', d.mark)
  <2>1. n \in Int /\ d.mark \in Int /\ n <= d.mark
    BY <1>2, <1>3, <1>5
  <2>2. \A k \in 1..n : frames[k] \subseteq frames'[k]
    BY <1>4
  <2>. QED  BY <2>1, <2>2, UptoMonotone
<1>7. d.slot \in {0} \union Upto(frames', d.mark)
  BY <1>2, <1>6
<1>8. \A k \in 1..Len(frames) : frames[k] \subseteq frames'[k]
  BY <1>2, <1>4
<1>9. Level(d) = Len(frames')
  BY <1>2, <1>4
<1>10. PICK g \in Seq(SUBSET Values) : g = frames'
  BY <1>4
<1>11. Chain(frames', code') /\ code'[Len(code')] = d
  <2>1. Chain(frames, code)
    BY <1>1
  <2>2. Underway(code[Len(code)])
    BY <1>1
  <2>3. d.kind # "main" /\ Base(d) = Len(frames) /\ d.uses = {}
    OBVIOUS
  <2>4. Level(d) = Len(g)
    BY <1>9, <1>10
  <2>5. \A k \in 1..Len(frames) : frames[k] \subseteq g[k]
    BY <1>8, <1>10
  <2>6. d.slot \in {0} \union Upto(g, d.mark)
    BY <1>7, <1>10
  <2>7. /\ Chain(g, Append(code, d))
        /\ Append(code, d)[Len(Append(code, d))] = d
    BY ONLY <2>1, <2>2, <2>3, <2>4, <2>5, <2>6, Extend
  <2>. QED  BY <1>10, <2>7
<1>12. KeepsOne'
  <2>1. SUFFICES ASSUME d.kind = "for", d.part = "test"  PROVE frames'[d.mark] = {}
    BY <1>11 DEF KeepsOne, In, Top, Depth
  <2>2. d.mark = n + 1
    BY <1>2, <2>1 DEF Level
  <2>3. frames'[n + 1] = {}
    BY <1>2, <1>3, AppendProperties DEF Push
  <2>. QED  BY <2>2, <2>3
<1>. QED  BY <1>11, <1>12 DEF Inv

(* A loop ends, in whatever part it is.                                    *)
LEMMA Ends ==
  ASSUME Inv, ScopesOK', Top.kind # "main", Leaves, frames' = Release(frames, Base(Top))
  PROVE  Inv'
<1>1. PICK n \in Nat : n = Len(code) /\ n >= 2
  BY Innermost DEF Depth
<1>2. n - 1 \in 1..(Len(code) - 1) /\ (n - 1) + 1 = n /\ n \in 1..Len(code)
  BY <1>1
<1>3. PICK m \in 1..(Len(code) - 1) : m = n - 1 /\ m + 1 = n
  BY <1>2
<1>4. Chain(frames, code)
  BY DEF Inv
<1>5. /\ Base(code[m + 1]) = Level(code[m]) /\ Underway(code[m])
      /\ Chain(SubSeq(frames, 1, Level(code[m])), SubSeq(code, 1, m))
      /\ Len(SubSeq(code, 1, m)) = m /\ SubSeq(code, 1, m)[m] = code[m]
  BY <1>4, Cut
<1>6. code' = SubSeq(code, 1, m) /\ frames' = SubSeq(frames, 1, Level(code[m]))
  BY <1>1, <1>3, <1>5 DEF Leaves, Release, Top, Depth
<1>7. Chain(frames', code') /\ code'[Len(code')] = code[m]
  BY <1>5, <1>6
<1>8. KeepsOne'
  BY <1>5, <1>7 DEF KeepsOne, In, Underway, Top, Depth
<1>. QED  BY <1>7, <1>8 DEF Inv

(* A call ends, with the loops in it.                                      *)
LEMMA CallReturns ==
  ASSUME Inv, ScopesOK', \E k \in 1..Depth : code[k].kind = "call",
         NEW v \in Values, ReturnTo(v)
  PROVE  Inv'
<1> DEFINE K == { k \in 1..Depth : code[k].kind = "call" }
<1>1. Depth \in Nat /\ Depth >= 1 /\ frames \in Seq(SUBSET Values) /\ Chain(frames, code)
  BY Innermost DEF Inv
<1>2. K \in SUBSET (0..Depth) /\ K # {}
  BY <1>1
<1>3. Max(K) \in K
  BY <1>1, <1>2, GreatestElement
<1>4. PICK callee \in 1..Depth : callee = Max(K) /\ code[callee].kind = "call"
  BY <1>3
<1>5. callee # 1
  BY <1>4 DEF Inv, Chain, Nested
<1>6. callee - 1 \in 1..(Len(code) - 1) /\ (callee - 1) + 1 = callee
  BY <1>1, <1>4, <1>5 DEF Depth
<1>7. PICK m \in 1..(Len(code) - 1) : m = callee - 1 /\ m + 1 = callee
  BY <1>6
<1>8. PICK c : c = SubSeq(code, 1, m)
  OBVIOUS
<1>9. PICK f : f = SubSeq(frames, 1, Level(code[m]))
  OBVIOUS
<1>10. /\ Base(code[m + 1]) = Level(code[m]) /\ Underway(code[m])
       /\ Chain(f, c) /\ Len(c) = m /\ c[m] = code[m]
  BY <1>1, <1>8, <1>9, Cut
<1>11. PICK n : n = Level(code[m])
  OBVIOUS
<1>12. n = code[callee].mark
  BY <1>4, <1>7, <1>10, <1>11 DEF Base
<1>13. m \in 1..Len(code) /\ m \in 1..m
  BY <1>1, <1>7 DEF Depth
<1>14. code[m] \in Contexts /\ n \in Nat /\ n <= Len(frames) /\ code[m].mark \in Nat /\ code[m].mark <= n
  <2>1. /\ code[m] \in Contexts /\ Level(code[m]) \in Nat /\ Level(code[m]) <= Len(frames)
        /\ code[m].mark \in Nat /\ code[m].mark <= Level(code[m])
    BY <1>1, <1>13, Below
  <2>. QED  BY <1>11, <2>1
<1>15. n >= 1
  <2>1. n = code[m].mark + 1
    BY <1>10, <1>11 DEF Underway, Level
  <2>. QED  BY <1>14, <2>1
<1>16. f \in Seq(SUBSET Values) /\ Len(f) = n /\ n \in 1..n
  BY <1>1, <1>9, <1>11, <1>14, <1>15, PrefixProperties
<1>17. f[n] \union {v} \in SUBSET Values
  BY <1>16, ElementOfSeq
<1>18. PICK g : g = [f EXCEPT ![n] = f[n] \union {v}]
  OBVIOUS
<1>19. /\ g \in Seq(SUBSET Values) /\ Len(g) = n
       /\ \A k \in 1..n : g[k] = IF k = n THEN f[n] \union {v} ELSE f[k]
  BY <1>16, <1>17, <1>18, ExceptSeq
<1>20. PICK d : d = [code[m] EXCEPT !.uses = code[m].uses \union {v}]
  OBVIOUS
<1>21. /\ d \in Contexts /\ d.kind = code[m].kind /\ d.part = code[m].part
       /\ d.mark = code[m].mark /\ d.slot = code[m].slot /\ d.uses = code[m].uses \union {v}
  BY <1>14, <1>20 DEF Contexts
<1>22. Level(d) = n /\ Base(d) = Base(code[m]) /\ Base(d) <= n /\ Base(d) \in Int
  <2>1. Level(d) = n /\ Base(d) = Base(code[m])
    BY <1>11, <1>21 DEF Level, Base
  <2>2. Base(d) <= d.mark /\ Base(d) \in Int
    BY <1>21, Levels
  <2>. QED  BY <1>14, <1>21, <2>1, <2>2
<1>23. \A k \in 1..n : f[k] \subseteq g[k]
  BY <1>19
<1>24. Upto(f, n) \subseteq Upto(g, n) /\ Upto(f, d.mark) \subseteq Upto(g, d.mark) /\ v \in Upto(g, n)
  BY <1>14, <1>16, <1>19, <1>21, <1>23 DEF Upto
<1>25. code[m].uses \subseteq Upto(f, n) /\ code[m].slot \in {0} \union Upto(f, d.mark)
  BY <1>10, <1>11, <1>13, <1>21 DEF Chain, Reached
<1>26. frames' = g /\ code' = [c EXCEPT ![Len(c)] = d]
  <2>1. frames' = [SubSeq(frames, 1, n) EXCEPT ![n] = @ \union {v}]
    BY <1>4, <1>12 DEF ReturnTo, Release
  <2>2. code' = [SubSeq(code, 1, m) EXCEPT ![m].uses = @ \union {v}]
    BY <1>4, <1>7 DEF ReturnTo
  <2>3. code' = [c EXCEPT ![m] = [c[m] EXCEPT !.uses = c[m].uses \union {v}]]
    BY <1>8, <2>2
  <2>. QED  BY <1>9, <1>10, <1>11, <1>18, <1>20, <2>1, <2>3
<1>27. Chain(frames', code') /\ code'[Len(code')] = d
  <2>1. Chain(f, c)
    BY <1>10
  <2>2. d \in Contexts /\ g \in Seq(SUBSET Values) /\ Level(d) = Len(g)
    BY <1>19, <1>21, <1>22
  <2>3. d.kind = c[Len(c)].kind
    BY <1>10, <1>21
  <2>4. d.mark = c[Len(c)].mark
    BY <1>10, <1>21
  <2>5. \A k \in 1..Base(d) : f[k] \subseteq g[k]
    BY <1>14, <1>22, <1>23
  <2>6. d.uses \subseteq Upto(g, Len(g))
    BY <1>19, <1>21, <1>24, <1>25
  <2>7. d.slot \in {0} \union Upto(g, d.mark)
    BY <1>21, <1>24, <1>25
  <2>8. /\ Chain(g, [c EXCEPT ![Len(c)] = d])
        /\ [c EXCEPT ![Len(c)] = d][Len([c EXCEPT ![Len(c)] = d])] = d
    BY ONLY <2>1, <2>2, <2>3, <2>4, <2>5, <2>6, <2>7, Replace, SMTT(30)
  <2>. QED  BY <1>26, <2>8
<1>28. KeepsOne'
  BY <1>10, <1>21, <1>27 DEF KeepsOne, In, Underway, Top, Depth
<1>. QED  BY <1>27, <1>28 DEF Inv

(* The end of an iteration of a for-loop.                                  *)
LEMMA Latch ==
  ASSUME Inv, ForLatch
  PROVE  Inv'
<1>1. PICK v : v = Min(Free)
  OBVIOUS
<1>2. v \in Values
  BY <1>1, LeastFree DEF ForLatch
<1>3. PICK n : n = Top.mark
  OBVIOUS
<1>4. /\ Top \in Contexts /\ Top.kind = "for" /\ Top.part = "body" /\ n \in Nat
      /\ frames \in Seq(SUBSET Values) /\ Len(frames) = n + 1 /\ n >= 2
  <2>1. Top \in Contexts /\ Top.kind = "for" /\ Top.part = "body" /\ n \in Nat
    BY <1>3, Innermost DEF ForLatch, In, Contexts
  <2>2. Len(frames) = Level(Top) /\ frames \in Seq(SUBSET Values) /\ Base(Top) >= 1
    BY <2>1, Innermost
  <2>. QED  BY <1>3, <2>1, <2>2 DEF Level, Base
<1>5. PICK g : g = Keep(frames, n, v)
  OBVIOUS
<1>6. /\ g \in Seq(SUBSET Values) /\ Len(g) = n + 1
      /\ \A k \in 1..(n + 1) : g[k] = IF k = n THEN {v} ELSE frames[k]
  <2>1. n \in 1..Len(frames)
    BY <1>4
  <2>2. {v} \in SUBSET Values
    BY <1>2
  <2>. QED  BY <1>4, <1>5, <2>1, <2>2, ExceptSeq DEF Keep
<1>7. /\ Release(g, n) \in Seq(SUBSET Values) /\ Len(Release(g, n)) = n
      /\ \A k \in 1..n : Release(g, n)[k] = g[k]
  BY <1>4, <1>6, Released
<1>8. PICK d : d = [[[Top EXCEPT !.part = "test"] EXCEPT !.uses = {}] EXCEPT !.slot = v]
  OBVIOUS
<1>9. /\ d \in Contexts /\ d.kind = Top.kind /\ d.part = "test" /\ d.mark = Top.mark
      /\ d.slot = v /\ d.uses = {}
  BY <1>2, <1>4, <1>8 DEF Contexts
<1>10. frames' = Release(g, n) /\ code' = [code EXCEPT ![Len(code)] = d]
       /\ scopes' = [scopes EXCEPT ![Len(scopes)][Top.var] = v]
  BY <1>1, <1>3, <1>5, <1>8 DEF ForLatch, Top, Depth
<1>11. ScopesOK'
  BY <1>2, <1>10, Assigned DEF Inv
<1>12. frames' \in Seq(SUBSET Values) /\ Level(d) = Len(frames')
  <2>1. frames' \in Seq(SUBSET Values) /\ Len(frames') = n
    BY <1>7, <1>10
  <2>2. Level(d) = n
    BY <1>3, <1>4, <1>9 DEF Level
  <2>. QED  BY <2>1, <2>2
<1>13. frames'[n] = {v}
  <2>1. n \in 1..n /\ n \in 1..(n + 1)
    BY <1>4
  <2>. QED  BY <1>6, <1>7, <1>10, <2>1
<1>14. \A k \in 1..Base(Top) : frames[k] \subseteq frames'[k]
  <2>1. Base(Top) = n - 1
    BY <1>3, <1>4 DEF Base
  <2>2. \A k \in 1..(n - 1) : k \in 1..n /\ k \in 1..(n + 1) /\ k # n
    BY <1>4
  <2>3. \A k \in 1..(n - 1) : frames'[k] = frames[k]
    BY <1>6, <1>7, <1>10, <2>2
  <2>. QED  BY <2>1, <2>3
<1>15. d.slot \in {0} \union Upto(frames', d.mark)
  BY <1>3, <1>4, <1>9, <1>13 DEF Upto
<1>16. d.kind = "for" /\ d.part = "test" => frames'[d.mark] \subseteq {d.slot}
  BY <1>3, <1>9, <1>13
<1>17. code' = [code EXCEPT ![Len(code)] = d]
  BY <1>10
<1>. QED  BY <1>9, <1>11, <1>12, <1>14, <1>15, <1>16, <1>17, Stays

-----------------------------------------------------------------------------
(* The first frame holds nothing and nothing is used.                      *)
LEMMA Initially == Init => Inv
<1> SUFFICES ASSUME Init  PROVE Inv
  OBVIOUS
<1> DEFINE d == [kind |-> "main", part |-> "body", mark |-> 0, slot |-> 0,
                 var |-> "none", uses |-> {}]
<1>1. code = <<d>> /\ frames = <<{}>> /\ scopes = <<Unbound>>
  BY DEF Init
<1>2. d \in Contexts
  BY DEF Contexts
<1>3. Level(d) = 1
  BY DEF Level
<1>. HIDE DEF d
<1>4. code \in Seq(Contexts) /\ Len(code) = 1 /\ code[1] = d
  BY <1>1, <1>2
<1>5. Nested(code)
  <2>1. d.kind = "main" /\ d.mark = 0
    BY DEF d
  <2>. QED  BY <1>4, <2>1 DEF Nested
<1>6. frames \in Seq(SUBSET Values) /\ Len(frames) = 1
  BY <1>1
<1>7. Reached(frames, code)
  <2>1. d.uses = {} /\ d.slot = 0
    BY DEF d
  <2>. QED  BY <1>3, <1>4, <1>6, <2>1 DEF Reached
<1>8. ScopesOK
  BY <1>1 DEF ScopesOK, Unbound
<1>9. KeepsOne
  BY <1>4 DEF KeepsOne, In, Top, Depth, d
<1>. QED  BY <1>5, <1>7, <1>8, <1>9 DEF Inv, Chain

(* The parts of a loop: what the context becomes.                          *)
LEMMA GoesTo ==
  ASSUME Inv, NEW part \in {"test", "body"}, Goes(part)
  PROVE  \E d \in Contexts :
           /\ d.kind = Top.kind /\ d.part = part /\ d.mark = Top.mark
           /\ d.slot = Top.slot /\ d.uses = {}
           /\ code' = [code EXCEPT ![Len(code)] = d]
<1>1. PICK d : d = [[Top EXCEPT !.part = part] EXCEPT !.uses = {}]
  OBVIOUS
<1>2. Top \in Contexts
  BY Innermost
<1>3. /\ d \in Contexts /\ d.kind = Top.kind /\ d.part = part /\ d.mark = Top.mark
      /\ d.slot = Top.slot /\ d.uses = {}
  BY <1>1, <1>2 DEF Contexts
<1>4. code' = [code EXCEPT ![Len(code)] = d]
  BY <1>1 DEF Goes, Top, Depth
<1>. QED  BY <1>3, <1>4

(* The frames of a while- or repeat-loop stay as they are.                 *)
LEMMA SamePlace ==
  ASSUME Inv, NEW part \in {"test", "body"}, Goes(part), UNCHANGED <<frames, scopes>>,
         Top.kind # "for"
  PROVE  Inv'
<1>1. PICK d \in Contexts :
           /\ d.kind = Top.kind /\ d.part = part /\ d.mark = Top.mark
           /\ d.slot = Top.slot /\ d.uses = {}
           /\ code' = [code EXCEPT ![Len(code)] = d]
  BY GoesTo
<1>2. frames' = frames /\ frames' \in Seq(SUBSET Values) /\ ScopesOK'
  BY Innermost DEF Inv, ScopesOK
<1>3. Level(d) = Len(frames')
  BY <1>1, <1>2, Innermost DEF Level
<1>4. d.slot \in {0} \union Upto(frames', d.mark)
  BY <1>1, <1>2, Innermost
<1>5. \A k \in 1..Base(Top) : frames[k] \subseteq frames'[k]
  BY <1>2
<1>. QED  BY <1>1, <1>2, <1>3, <1>4, <1>5, Stays

(* The frame of the iteration is released and one is pushed for the next.  *)
LEMMA NextIteration ==
  ASSUME Inv, NEW part \in {"test", "body"}, Goes(part), UNCHANGED scopes,
         Top.kind # "for", frames' = Push(Release(frames, Top.mark))
  PROVE  Inv'
<1>1. PICK d \in Contexts :
           /\ d.kind = Top.kind /\ d.part = part /\ d.mark = Top.mark
           /\ d.slot = Top.slot /\ d.uses = {}
           /\ code' = [code EXCEPT ![Len(code)] = d]
  BY GoesTo
<1>2. PICK n : n = Top.mark
  OBVIOUS
<1>3. n \in Nat /\ Len(frames) = n + 1 /\ frames \in Seq(SUBSET Values)
  BY <1>2, Innermost DEF Level, Contexts
<1>4. PICK f : f = Release(frames, n)
  OBVIOUS
<1>5. f \in Seq(SUBSET Values) /\ Len(f) = n /\ \A k \in 1..n : f[k] = frames[k]
  BY <1>3, <1>4, Released
<1>6. /\ frames' \in Seq(SUBSET Values) /\ Len(frames') = n + 1
      /\ \A k \in 1..n : frames'[k] = frames[k]
  BY <1>2, <1>4, <1>5, FramePushed
<1>7. Level(d) = Len(frames') /\ Base(Top) = n
  BY <1>1, <1>2, <1>6 DEF Level, Base
<1>8. Upto(frames, n) \subseteq Upto(frames', n)
  BY <1>6 DEF Upto
<1>9. d.slot \in {0} \union Upto(frames', d.mark)
  BY <1>1, <1>2, <1>8, Innermost
<1>10. \A k \in 1..Base(Top) : frames[k] \subseteq frames'[k]
  BY <1>6, <1>7
<1>11. ScopesOK'
  BY DEF Inv, ScopesOK
<1>. QED  BY <1>1, <1>6, <1>7, <1>9, <1>10, <1>11, Stays

LEMMA LoopIterates ==
  ASSUME Inv, ForBody
  PROVE  Inv'
<1>1. Goes("body") /\ Top.kind = "for" /\ Top.part = "test" /\ frames' = Push(frames)
  BY DEF ForBody, In
<1>2. PICK d \in Contexts :
           /\ d.kind = Top.kind /\ d.part = "body" /\ d.mark = Top.mark
           /\ d.slot = Top.slot /\ d.uses = {}
           /\ code' = [code EXCEPT ![Len(code)] = d]
  BY <1>1, GoesTo
<1>3. PICK n : n = Top.mark
  OBVIOUS
<1>4. n \in Nat /\ Len(frames) = n /\ frames \in Seq(SUBSET Values)
  BY <1>1, <1>3, Innermost DEF Level, Contexts
<1>5. /\ frames' \in Seq(SUBSET Values) /\ Len(frames') = n + 1
      /\ \A k \in 1..n : frames'[k] = frames[k]
  BY <1>1, <1>4, FramePushed
<1>6. Level(d) = Len(frames') /\ Base(Top) = n - 1
  BY <1>1, <1>2, <1>3, <1>5 DEF Level, Base
<1>7. Upto(frames, n) \subseteq Upto(frames', n)
  BY <1>5 DEF Upto
<1>8. d.slot \in {0} \union Upto(frames', d.mark)
  BY <1>2, <1>3, <1>7, Innermost
<1>9. \A k \in 1..Base(Top) : frames[k] \subseteq frames'[k]
  BY <1>4, <1>5, <1>6
<1>10. ScopesOK'
  BY DEF ForBody, Inv, ScopesOK
<1>. QED  BY <1>2, <1>5, <1>6, <1>8, <1>9, <1>10, Stays

(* What the statement uses: the variables of a call, and of a for-loop.    *)
LEMMA ScopePushed ==
  ASSUME ScopesOK, NEW args \in [Names -> Values \union {0}], scopes' = Append(scopes, args)
  PROVE  ScopesOK'
BY AppendProperties DEF ScopesOK

LEMMA ScopePopped ==
  ASSUME ScopesOK, scopes' = SubSeq(scopes, 1, Len(scopes) - 1)
  PROVE  ScopesOK'
<1> DEFINE S == [Names -> Values \union {0}]
<1>1. scopes \in Seq(S) /\ Len(scopes) \in Nat
  BY LenProperties DEF ScopesOK
<1>2. CASE Len(scopes) >= 1
  <2>1. Len(scopes) - 1 \in Nat /\ Len(scopes) - 1 <= Len(scopes)
    BY <1>1, <1>2
  <2>2. SubSeq(scopes, 1, Len(scopes) - 1) \in Seq(S)
    BY <1>1, <2>1, PrefixProperties
  <2>. QED  BY <2>2 DEF ScopesOK
<1>3. CASE Len(scopes) = 0
  <2>1. scopes = << >>
    BY <1>1, <1>3
  <2>2. << >> \in Seq(S) /\ SubSeq(<< >>, 1, 0 - 1) = << >>
    BY EmptySeq
  <2>. QED  BY <1>3, <2>1, <2>2 DEF ScopesOK
<1>. QED  BY <1>1, <1>2, <1>3

(* Every step keeps the invariant.                                         *)
LEMMA StepInv == Inv /\ [Next]_vars => Inv'
<1> SUFFICES ASSUME Inv, [Next]_vars  PROVE Inv'
  OBVIOUS
<1>1. Top \in Contexts /\ Top.uses \subseteq Values /\ Top.mark \in Nat
      /\ Len(frames) \in Nat /\ Len(frames) = Level(Top)
  BY Innermost DEF Contexts
<1>2. UNCHANGED scopes => ScopesOK'
  BY DEF Inv, ScopesOK
<1>3. CASE Make
  BY <1>2, <1>3, LeastFree, TrackedStep DEF Make
<1>4. ASSUME NEW n \in Names, Read(n)
      PROVE  Inv'
  <2>1. PICK has : has = { k \in DOMAIN scopes : scopes[k][n] # 0 }
    OBVIOUS
  <2>2. scopes \in Seq([Names -> Values \union {0}]) /\ Len(scopes) \in Nat
        /\ DOMAIN scopes = 1..Len(scopes)
    BY LenProperties DEF Inv, ScopesOK
  <2>3. has \in SUBSET (0..Len(scopes)) /\ has # {}
    BY <1>4, <2>1, <2>2 DEF Read
  <2>4. Max(has) \in has
    BY <2>2, <2>3, GreatestElement
  <2>5. Max(has) \in 1..Len(scopes) /\ scopes[Max(has)][n] # 0
    BY <2>1, <2>2, <2>4
  <2>6. scopes[Max(has)] \in [Names -> Values \union {0}]
    BY <2>2, <2>5, ElementOfSeq
  <2>7. scopes[Max(has)][n] \in Values
    BY <2>5, <2>6
  <2>8. Tracked(scopes[Max(has)][n]) /\ Evaluating /\ UNCHANGED scopes
    BY <1>4, <2>1 DEF Read
  <2>. QED  BY <1>2, <2>7, <2>8, TrackedStep
<1>5. ASSUME NEW n \in Names, NEW v \in Top.uses, Assign(n, v)
      PROVE  Inv'
  <2>1. v \in Values /\ Tracked(v) /\ Evaluating
    BY <1>1, <1>5 DEF Assign, InBody, Evaluating
  <2>2. ScopesOK'
    BY <1>5, <2>1, Assigned DEF Assign, Inv
  <2>. QED  BY <2>1, <2>2, TrackedStep
<1>6. CASE EndStatement
  <2>1. PICK d : d = [Top EXCEPT !.uses = {}]
    OBVIOUS
  <2>2. /\ d \in Contexts /\ d.kind = Top.kind /\ d.part = Top.part /\ d.mark = Top.mark
        /\ d.slot = Top.slot /\ d.uses = {}
    BY <1>1, <2>1 DEF Contexts
  <2>3. code' = [code EXCEPT ![Len(code)] = d]
    BY <1>6, <2>1 DEF EndStatement, Top, Depth
  <2>4. frames' = frames /\ frames' \in Seq(SUBSET Values) /\ ScopesOK'
    BY <1>2, <1>6, Innermost DEF EndStatement
  <2>5. Level(d) = Len(frames')
    BY <2>2, <2>4, Innermost DEF Level
  <2>6. d.slot \in {0} \union Upto(frames', d.mark)
    BY <2>2, <2>4, Innermost
  <2>7. \A k \in 1..Base(Top) : frames[k] \subseteq frames'[k]
    BY <2>4
  <2>8. d.part # "test"
    BY <1>6, <2>2 DEF EndStatement, InBody
  <2>. QED  BY <2>2, <2>3, <2>4, <2>5, <2>6, <2>7, <2>8, Stays
<1>7. CASE WhileEnter \/ RepeatEnter
  <2>1. PICK kind \in {"while", "repeat"}, part \in {"test", "body"} :
          EnterLoop(kind, part, Len(frames), 0, "none") /\ frames' = Push(frames) /\ UNCHANGED scopes
    BY <1>7 DEF WhileEnter, RepeatEnter
  <2>2. PICK d : d = Enter(kind, part, Len(frames), 0, "none")
    OBVIOUS
  <2>3. /\ d \in Contexts /\ d.kind = kind /\ d.part = part /\ d.mark = Len(frames)
        /\ d.slot = 0 /\ d.uses = {}
    BY <1>1, <2>2 DEF Enter, Contexts, Loops
  <2>4. Base(d) = Len(frames) /\ Level(d) = Len(frames) + 1
    BY <2>3 DEF Base, Level
  <2>5. code' = Append(code, d) /\ Evaluating /\ ScopesOK'
    BY <1>2, <2>1, <2>2 DEF EnterLoop, InBody, Evaluating
  <2>6. d.kind # "main" /\ Len(frames) <= d.mark
    BY <1>1, <2>3
  <2>7. d.slot \in {0} \union Upto(frames, Len(frames))
    BY <2>3
  <2>. QED  BY <2>1, <2>3, <2>4, <2>5, <2>6, <2>7, Enters
<1>8. CASE WhileBody \/ RepeatTest
  BY <1>8, SamePlace DEF WhileBody, RepeatTest, In
<1>9. CASE WhileAgain \/ RepeatAgain
  BY <1>9, NextIteration DEF WhileAgain, RepeatAgain, In
<1>10. CASE LoopEnds
  <2>1. Base(Top) = Top.mark /\ Top.kind # "main"
    BY <1>10 DEF LoopEnds, Base
  <2>. QED  BY <1>2, <1>10, <2>1, Ends DEF LoopEnds
<1>11. ASSUME NEW n \in Names, NEW v \in Top.uses, ForEnter(n, v)
       PROVE  Inv'
  <2>1. PICK d : d = Enter("for", "test", Len(frames) + 1, v, n)
    OBVIOUS
  <2>2. v \in Values /\ v \in Upto(frames, Len(frames))
    BY Innermost
  <2>3. /\ d \in Contexts /\ d.kind = "for" /\ d.part = "test" /\ d.mark = Len(frames) + 1
        /\ d.slot = v /\ d.uses = {}
    BY <1>1, <2>1, <2>2 DEF Enter, Contexts, Loops
  <2>4. Base(d) = Len(frames) /\ Level(d) = Len(frames) + 1
    BY <1>1, <2>3 DEF Base, Level
  <2>5. code' = Append(code, d) /\ Evaluating /\ frames' = Push(frames)
    BY <1>11, <2>1 DEF ForEnter, EnterLoop, InBody, Evaluating
  <2>6. ScopesOK'
    BY <1>11, <2>2, Assigned DEF ForEnter, Inv
  <2>7. d.kind # "main" /\ Len(frames) <= d.mark
    BY <1>1, <2>3
  <2>8. d.slot \in {0} \union Upto(frames, Len(frames))
    BY <2>2, <2>3
  <2>. QED  BY <2>3, <2>4, <2>5, <2>6, <2>7, <2>8, Enters
<1>12. CASE ForBody
  BY <1>12, LoopIterates
<1>13. CASE ForLatch
  BY <1>13, Latch
<1>14. CASE ForEnds
  <2>1. Base(Top) = Top.mark - 1 /\ Top.kind # "main"
    BY <1>14 DEF ForEnds, In, Base
  <2>. QED  BY <1>2, <1>14, <2>1, Ends DEF ForEnds
<1>15. CASE Break
  <2>1. Base(Top) = (IF Top.kind = "for" THEN Top.mark - 1 ELSE Top.mark) /\ Top.kind # "main"
    BY <1>15 DEF Break, Loops, Base
  <2>. QED  BY <1>2, <1>15, <2>1, Ends DEF Break
<1>16. ASSUME NEW args \in [Names -> Top.uses \union {0}], Call(args)
       PROVE  Inv'
  <2>1. PICK d : d = Enter("call", "body", Len(frames), 0, "none")
    OBVIOUS
  <2>2. /\ d \in Contexts /\ d.kind = "call" /\ d.part = "body" /\ d.mark = Len(frames)
        /\ d.slot = 0 /\ d.uses = {}
    BY <1>1, <2>1 DEF Enter, Contexts
  <2>3. Base(d) = Len(frames) /\ Level(d) = Len(frames) + 1
    BY <2>2 DEF Base, Level
  <2>4. code' = Append(code, d) /\ Evaluating /\ frames' = Push(frames)
    BY <1>16, <2>1 DEF Call
  <2>5. ScopesOK'
    <3>1. args \in [Names -> Values \union {0}] /\ scopes' = Append(scopes, args)
      BY <1>1, <1>16 DEF Call
    <3>. QED  BY <3>1, ScopePushed DEF Inv
  <2>6. d.kind # "main" /\ Len(frames) <= d.mark
    BY <1>1, <2>2
  <2>7. d.slot \in {0} \union Upto(frames, Len(frames))
    BY <2>2
  <2>. QED  BY <2>2, <2>3, <2>4, <2>5, <2>6, <2>7, Enters
<1>17. CASE Return
  <2>1. PICK v \in Top.uses : ReturnTo(v)
    BY <1>17 DEF Return
  <2>2. v \in Values
    BY <1>1
  <2>3. \E k \in 1..Depth : code[k].kind = "call"
    BY <1>17 DEF Return
  <2>4. scopes' = SubSeq(scopes, 1, Len(scopes) - 1)
    BY <2>1 DEF ReturnTo
  <2>5. ScopesOK'
    BY <2>4, ScopePopped DEF Inv
  <2>. QED  BY <2>1, <2>2, <2>3, <2>5, CallReturns
<1>18. CASE UNCHANGED vars
  BY <1>18 DEF vars, Inv, ScopesOK, KeepsOne, In, Top, Depth
<1>. QED  BY <1>3, <1>4, <1>5, <1>6, <1>7, <1>8, <1>9, <1>10, <1>11, <1>12, <1>13,
             <1>14, <1>15, <1>16, <1>17, <1>18 DEF Next

LEMMA Always == Spec => []Inv
BY Initially, StepInv, PTL DEF Spec

-----------------------------------------------------------------------------
(* Values, frames, scopes and contexts have the types they are given.      *)
THEOREM TypeCorrect == Spec => []TypeOK
<1>1. Inv => TypeOK
  <2> SUFFICES ASSUME Inv  PROVE TypeOK
    OBVIOUS
  <2>1. ASSUME NEW k \in 1..Depth
        PROVE  code[k] \in Contexts /\ code[k].mark \in 0..Len(frames)
    BY Below DEF Inv, Depth
  <2>2. \A k \in 1..Depth :
          /\ code[k].kind \in {"main", "call"} \union Loops
          /\ code[k].part \in {"test", "body"}
          /\ code[k].mark \in 0..Len(frames)
          /\ code[k].slot \in Values \union {0}
          /\ code[k].var \in Names \union {"none"}
          /\ code[k].uses \subseteq Values
    BY <2>1 DEF Contexts
  <2>. QED  BY <2>2, Innermost DEF TypeOK, Inv, ScopesOK
<1>. QED  BY <1>1, Always, PTL

(* No pointer that generated code may still use dangles, however deep the  *)
(* loops and calls and however they are left.                              *)
THEOREM NoDangling == Spec => []UsedIsHeld
<1>1. Inv => UsedIsHeld
  <2> SUFFICES ASSUME Inv, NEW x \in Used  PROVE x \in Held
    BY DEF UsedIsHeld
  <2>1. PICK k \in 1..Depth : x \in code[k].uses \union {code[k].slot} /\ x # 0
    BY DEF Used
  <2>2. /\ Level(code[k]) \in Nat /\ code[k].mark \in Nat /\ Len(frames) \in Nat
        /\ code[k].mark <= Level(code[k]) /\ Level(code[k]) <= Len(frames)
    BY Below DEF Inv, Depth
  <2>3. x \in Upto(frames, Level(code[k])) \/ x \in Upto(frames, code[k].mark)
    BY <2>1 DEF Inv, Chain, Reached, Depth
  <2>4. PICK i \in 1..Len(frames) : x \in frames[i]
    BY <2>2, <2>3 DEF Upto
  <2>5. DOMAIN frames = 1..Len(frames)
    BY Innermost
  <2>. QED  BY <2>4, <2>5 DEF Held
<1>. QED  BY <1>1, Always, PTL

(* No frame leaks: the number of frames is what the innermost loop or call *)
(* says, whatever ended inside it.                                         *)
THEOREM NoLeak == Spec => []Balanced
<1>1. Inv => Balanced
  BY Innermost DEF Balanced, In, Level
<1>. QED  BY <1>1, Always, PTL

(* The frame of a for-loop holds its variable's value only, between two    *)
(* iterations: a loop of any length takes bounded memory.                  *)
THEOREM OneKept == Spec => []KeepsOne
<1>1. Inv => KeepsOne
  BY DEF Inv
<1>. QED  BY <1>1, Always, PTL

-----------------------------------------------------------------------------
(* Variables in slots.                                                     *)
OpsOfLoops == {"assign", "push", "store"}
LoopTypes ==
  [var : Variables, to : 1..MaxInt, op : OpsOfLoops, name : Variables, expr : Exprs]

(* The loop that runs is one the compiler has found native.                *)
LoopOK ==
  loop # NoLoop =>
    /\ loop \in LoopTypes /\ loop.to < MaxInt
    /\ enabled /\ fn = "main" /\ ~calling
    /\ loop.var \in dirty /\ 1 <= slot[loop.var]
    /\ loop.op = "assign" => loop.name \in dirty /\ loop.name # loop.var
    /\ loop.expr.op \in {"int", "var", "inc", "elem"}
    /\ loop.expr.op \in {"var", "inc"} => loop.expr.name \in Native
    /\ loop.expr.op = "elem" => loop.expr.name \in numeric

(* The body has not set the variable yet, and does not read it either.     *)
Fresh(n) ==
  /\ loop # NoLoop /\ loop.op = "assign" /\ loop.name = n
  /\ slot[loop.var] = 1 /\ var[n] = scope[n]
  /\ ~(loop.expr.op \in {"var", "inc"} /\ loop.expr.name = n)

ValuesOK ==
  /\ heap = objs
  /\ \A n \in Variables :
       /\ n \notin Native => scope[n] = var[n]
       /\ n \in Native => var[n] = Integer(slot[n]) \/ Fresh(n)
       /\ n \in Native \ dirty => scope[n] = Integer(slot[n])

(* What the compiler takes for an array of integers is one.                *)
Whole(s) == \A k \in 1..Len(s) : s[k] # Half
NumericOK == enabled => \A n \in numeric : HasArray(n, var) => Whole(objs[var[n][2]])

CompilerOK ==
  /\ fn \in {"main", "algo"} /\ enabled \in BOOLEAN /\ calling \in BOOLEAN
  /\ ~foreign
  /\ \A n \in Native : owner[n] = "main"
  /\ fn = "algo" => Native = {}
  /\ fn = "algo" /\ enabled => known = {} /\ numeric = {}
  /\ ~enabled => Native = {}
  /\ calling => dirty = {} /\ fn = "main"

(* The programs that the theorems are about.                               *)
Plain == ~Floats /\ ~EmptyLoops /\ ~Effects /\ Algorithms = "plain"

NativeInv == NativeTypeOK /\ LoopOK /\ ValuesOK /\ NumericOK /\ CompilerOK

-----------------------------------------------------------------------------
(* Values, expressions and arrays.                                         *)
LEMMA IntegerTags ==
  \A k : /\ Integer(k)[1] = "int" /\ Integer(k)[2] = k /\ AsInt(Integer(k)) = k
         /\ Integer(k) # Half /\ Integer(k) # Undefined
         /\ k \in 0..MaxInt => Integer(k) \in Elements /\ Integer(k) \in ScopeValues
BY DEF Integer, AsInt, Half, Undefined, Elements, ScopeValues

LEMMA ArrayTags ==
  \A id : /\ Array(id)[1] = "array" /\ Array(id)[2] = id
          /\ id \in Ids => Array(id) \in ScopeValues
BY DEF Array, ScopeValues

LEMMA Kinds ==
  ASSUME NEW v \in ScopeValues
  PROVE  /\ v[1] = "int" => v[2] \in 0..MaxInt /\ v = Integer(v[2])
         /\ v[1] = "array" => v[2] \in Ids /\ v = Array(v[2])
         /\ v \in Elements => v[1] # "array"
         /\ v \in Elements /\ v # Half => v[1] = "int"
<1>1. CASE v \in Elements
  BY <1>1 DEF Elements, Integer, Half
<1>2. CASE v = Undefined
  BY <1>2 DEF Undefined, Elements, Integer, Half
<1>3. CASE \E id \in Ids : v = Array(id)
  BY <1>3 DEF Array, Elements, Integer, Half
<1>. QED  BY <1>1, <1>2, <1>3 DEF ScopeValues

LEMMA ElementKinds ==
  ASSUME NEW v \in Elements
  PROVE  v \in ScopeValues /\ v[1] # "array" /\ (v # Half => v[2] \in 0..MaxInt /\ v = Integer(v[2]))
<1>1. v \in ScopeValues
  BY DEF ScopeValues
<1>. QED  BY <1>1, Kinds

LEMMA Operators ==
  ASSUME NEW e \in Exprs
  PROVE  /\ e.op \in {"int", "half", "var", "inc", "elem", "pop"}
         /\ e.op = "int" => e.k \in 0..MaxInt
         /\ e.op \in {"var", "inc", "elem", "pop"} => e.name \in Variables
<1>1. MaxInt \in Nat \ {0}
  BY NativeAssumption
<1>. QED  BY <1>1 DEF Exprs, Expr

LEMMA Fronts ==
  ASSUME NEW s \in Seq(Elements), s # << >>
  PROVE  /\ Front(s) \in Seq(Elements) /\ Last(s) \in Elements /\ Head(s) \in Elements
         /\ Whole(s) => Whole(Front(s)) /\ Last(s) # Half /\ Head(s) # Half
<1>1. Len(s) \in Nat /\ Len(s) # 0
  BY EmptySeq, LenProperties
<1>2. \A k \in 1..Len(s) : s[k] \in Elements
  BY <1>1, ElementOfSeq
<1>3. Head(s) = s[1]
  BY HeadTailProperties
<1>4. Len(s) - 1 \in Nat /\ Len(s) - 1 <= Len(s)
  BY <1>1
<1>5. /\ Front(s) \in Seq(Elements) /\ Len(Front(s)) = Len(s) - 1
      /\ \A i \in 1..(Len(s) - 1) : Front(s)[i] = s[i]
  BY <1>4, PrefixProperties, Zenon DEF Front
<1>. QED  BY <1>1, <1>2, <1>3, <1>5 DEF Last, Whole

LEMMA Appends ==
  ASSUME NEW s \in Seq(Elements), NEW v \in Elements
  PROVE  /\ Append(s, v) \in Seq(Elements)
         /\ Whole(s) /\ v # Half => Whole(Append(s, v))
BY AppendProperties, LenProperties DEF Whole

LEMMA Sets ==
  ASSUME NEW s \in Seq(Elements), s # << >>, NEW v \in Elements
  PROVE  /\ [s EXCEPT ![1] = v] \in Seq(Elements)
         /\ Whole(s) /\ v # Half => Whole([s EXCEPT ![1] = v])
<1>1. Len([s EXCEPT ![1] = v]) = Len(s) /\ Len(s) \in Nat
  BY LenProperties
<1>2. [s EXCEPT ![1] = v] \in Seq(Elements)
  OBVIOUS
<1>3. \A k \in 1..Len(s) : [s EXCEPT ![1] = v][k] = IF k = 1 THEN v ELSE s[k]
  OBVIOUS
<1>. QED  BY <1>1, <1>2, <1>3 DEF Whole

-----------------------------------------------------------------------------
(* What an expression of a program that is right is, and what it leaves of *)
(* the arrays.                                                             *)
Kept(a) == a \in [Ids -> Seq(Elements)] /\ \A id \in Ids : Whole(objs[id]) => Whole(a[id])

LEMMA ArrayOf ==
  ASSUME NativeTypeOK, NEW n \in Variables, HasArray(n, var)
  PROVE  var[n][2] \in Ids /\ var[n] = Array(var[n][2]) /\ objs[var[n][2]] \in Seq(Elements)
BY Kinds DEF NativeTypeOK, HasArray

LEMMA RightValue ==
  ASSUME NativeTypeOK, NEW e \in Exprs, Right(e)
  PROVE  /\ Value(e, var, objs) \in ScopeValues
         /\ e.op \in {"elem", "pop"} =>
              /\ HasArray(e.name, var) /\ Value(e, var, objs) \in Elements
              /\ Whole(objs[var[e.name][2]]) => Value(e, var, objs) # Half
         /\ e.op = "inc" => /\ var[e.name][2] + 1 \in 0..MaxInt
                            /\ Value(e, var, objs) = Integer(var[e.name][2] + 1)
         /\ Kept(After(e, var, objs))
<1>0. MaxInt \in Nat \ {0} /\ var \in [Variables -> ScopeValues] /\ objs \in [Ids -> Seq(Elements)]
  BY NativeAssumption DEF NativeTypeOK
<1>1. CASE e.op = "int"
  BY <1>0, <1>1, Operators, IntegerTags DEF Value, After, Kept
<1>2. CASE e.op = "half"
  BY <1>0, <1>2 DEF Value, After, Kept, ScopeValues, Elements
<1>3. CASE e.op = "var"
  BY <1>0, <1>3, Operators DEF Value, After, Kept
<1>4. CASE e.op = "inc"
  <2>1. e.name \in Variables /\ var[e.name][1] = "int" /\ var[e.name][2] < MaxInt
    BY <1>4, Operators DEF Right
  <2>2. var[e.name][2] \in 0..MaxInt
    BY <1>0, <2>1, Kinds
  <2>3. Value(e, var, objs) = Integer(var[e.name][2] + 1)
    BY <1>4 DEF Value
  <2>. QED  BY <1>0, <1>4, <2>1, <2>2, <2>3, IntegerTags DEF After, Kept
<1>5. CASE e.op \in {"elem", "pop"}
  <2>1. e.name \in Variables /\ HasArray(e.name, var) /\ objs[var[e.name][2]] # << >>
    BY <1>5, Operators DEF Right
  <2>2. var[e.name][2] \in Ids /\ objs[var[e.name][2]] \in Seq(Elements)
    BY <2>1, ArrayOf
  <2>3. PICK id, s : id = var[e.name][2] /\ s = objs[id]
    OBVIOUS
  <2>4. Value(e, var, objs) = IF e.op = "elem" THEN Head(s) ELSE Last(s)
    BY <1>5, <2>3 DEF Value
  <2>5. Value(e, var, objs) \in Elements /\ (Whole(s) => Value(e, var, objs) # Half)
    BY <2>1, <2>2, <2>3, <2>4, Fronts
  <2>6. After(e, var, objs) = IF e.op = "pop" THEN [objs EXCEPT ![id] = Front(s)] ELSE objs
    BY <2>3 DEF After
  <2>7. Kept(After(e, var, objs))
    BY <1>0, <2>1, <2>2, <2>3, <2>6, Fronts DEF Kept
  <2>. QED  BY <1>5, <2>1, <2>3, <2>5, <2>7, ElementKinds
<1>. QED  BY <1>1, <1>2, <1>3, <1>4, <1>5, Operators

(* Between two statements.                                                 *)
LEMMA Calm ==
  ASSUME NativeInv, loop = NoLoop
  PROVE  /\ View = var /\ heap = objs
         /\ \A n \in Variables :
              /\ n \notin Native => scope[n] = var[n]
              /\ n \in Native => var[n] = Integer(slot[n])
              /\ n \in Native \ dirty => scope[n] = Integer(slot[n])
<1>1. /\ heap = objs
      /\ \A n \in Variables :
           /\ n \notin Native => scope[n] = var[n]
           /\ n \in Native => var[n] = Integer(slot[n])
           /\ n \in Native \ dirty => scope[n] = Integer(slot[n])
  BY DEF NativeInv, ValuesOK, Fresh
<1>2. var \in [Variables -> ScopeValues]
  BY DEF NativeInv, NativeTypeOK
<1>. QED  BY <1>1, <1>2 DEF View

(* Integer code computes what the interpreter computes.                    *)
Coded(e) ==
  /\ e.op \in {"int", "var", "inc", "elem", "pop"}
  /\ e.op \in {"var", "inc"} => e.name \in Native /\ ~Fresh(e.name)
  /\ e.op \in {"elem", "pop"} => e.name \in numeric

LEMMA IntegerCode ==
  ASSUME NativeInv, enabled, NEW e \in Exprs, Coded(e), Right(e)
  PROVE  /\ NativeValue(e) \in 0..MaxInt /\ Value(e, var, objs) = Integer(NativeValue(e))
         /\ Value(e, var, objs) \in Elements /\ Value(e, var, objs) # Half
         /\ After(e, scope, heap) = After(e, var, objs)
<1>0. /\ NativeTypeOK /\ heap = objs /\ MaxInt \in Nat \ {0}
      /\ var \in [Variables -> ScopeValues] /\ slot \in [Variables -> 0..MaxInt]
  BY NativeAssumption DEF NativeInv, ValuesOK, NativeTypeOK
<1>1. CASE e.op = "int"
  <2>1. Value(e, View, heap) = Integer(e.k) /\ Value(e, var, objs) = Integer(e.k)
    BY <1>1 DEF Value
  <2>. QED  BY <1>0, <1>1, <2>1, Operators, IntegerTags DEF NativeValue, After
<1>2. CASE e.op \in {"var", "inc"}
  <2>1. e.name \in Variables /\ e.name \in Native /\ var[e.name] = Integer(slot[e.name])
    BY <1>2, Operators DEF Coded, NativeInv, ValuesOK
  <2>2. View[e.name] = var[e.name] /\ var[e.name][2] = slot[e.name]
    BY <2>1, IntegerTags DEF View
  <2>3. Value(e, View, heap) = Value(e, var, objs)
    BY <1>2, <2>2 DEF Value
  <2>4. PICK k \in 0..MaxInt : Value(e, var, objs) = Integer(k)
    <3>1. CASE e.op = "var"
      BY <1>0, <2>1, <3>1 DEF Value
    <3>2. CASE e.op = "inc"
      BY <1>0, <3>2, RightValue
    <3>. QED  BY <1>2, <3>1, <3>2
  <2>. QED  BY <1>0, <1>2, <2>3, <2>4, IntegerTags DEF NativeValue, After
<1>3. CASE e.op \in {"elem", "pop"}
  <2>1. e.name \in Variables /\ e.name \in numeric /\ HasArray(e.name, var)
    BY <1>0, <1>3, Operators, RightValue DEF Coded
  <2>2. var[e.name] = scope[e.name]
    <3>1. var[e.name] # Integer(slot[e.name])
      BY <2>1, IntegerTags DEF HasArray
    <3>. QED  BY <2>1, <3>1 DEF NativeInv, ValuesOK, Fresh
  <2>3. Whole(objs[var[e.name][2]])
    BY <2>1 DEF NativeInv, NumericOK
  <2>4. Value(e, var, objs) \in Elements /\ Value(e, var, objs) # Half
    BY <1>0, <1>3, <2>3, RightValue
  <2>5. Value(e, scope, heap) = Value(e, var, objs) /\ After(e, scope, heap) = After(e, var, objs)
    BY <1>0, <1>3, <2>2 DEF Value, After
  <2>6. PICK k \in 0..MaxInt : Value(e, var, objs) = Integer(k)
    BY <2>4, ElementKinds
  <2>. QED  BY <1>3, <2>4, <2>5, <2>6, IntegerTags DEF NativeValue
<1>. QED  BY <1>1, <1>2, <1>3 DEF Coded

LEMMA CanIsCoded ==
  ASSUME NativeInv, loop = NoLoop, NEW e \in Exprs, can_i64_expr(e)
  PROVE  Coded(e) /\ enabled
BY DEF can_i64_expr, Coded, Fresh, NativeInv

-----------------------------------------------------------------------------
(* The parts of the invariant after a statement.                           *)
LEMMA Settled ==
  ASSUME NativeTypeOK', NumericOK', CompilerOK', loop' = NoLoop, heap' = objs',
         \A n \in Variables :
           /\ n \notin Native' => scope'[n] = var'[n]
           /\ n \in Native' => var'[n] = Integer(slot'[n])
           /\ n \in Native' \ dirty' => scope'[n] = Integer(slot'[n])
  PROVE  NativeInv'
<1>1. LoopOK'
  BY DEF LoopOK
<1>2. ValuesOK'
  BY DEF ValuesOK
<1>. QED  BY <1>1, <1>2 DEF NativeInv

LEMMA NumericKept ==
  ASSUME NativeInv, enabled' => enabled, numeric' \subseteq numeric,
         \A n \in numeric' : var'[n] = var[n] \/ var'[n][1] # "array",
         \A id \in Ids : Whole(objs[id]) => Whole(objs'[id])
  PROVE  NumericOK'
<1>. SUFFICES ASSUME enabled', NEW n \in numeric', HasArray(n, var)'
              PROVE  Whole(objs'[var'[n][2]])
  BY DEF NumericOK, Whole
<1>1. var'[n] = var[n] /\ n \in numeric /\ n \in Variables
  BY DEF HasArray, NativeInv, NativeTypeOK
<1>2. HasArray(n, var)
  BY <1>1 DEF HasArray
<1>3. var[n][2] \in Ids /\ Whole(objs[var[n][2]])
  BY <1>1, <1>2, ArrayOf DEF NativeInv, NumericOK
<1>. QED  BY <1>1, <1>3

LEMMA EmitsOwn ==
  ASSUME NativeInv, NEW names, Emits(names)
  PROVE  ~foreign'
BY DEF NativeInv, CompilerOK, Emits

LEMMA AssignsNative ==
  ASSUME NativeInv, Plain, NEW n \in Variables, NEW e \in Exprs, AssignNative(n, e)
  PROVE  NativeInv'
<1>0. /\ Coded(e) /\ enabled /\ fn = "main" /\ loop = NoLoop /\ ~calling /\ Right(e)
      /\ owner' = Ensured(n) /\ dirty' = dirty \union {n}
      /\ known' = known \ {n} /\ numeric' = numeric \ {n}
      /\ UNCHANGED <<fn, enabled, scope, loop, calling>>
      /\ slot' = [slot EXCEPT ![n] = NativeValue(e)]
      /\ heap' = After(e, scope, heap)
      /\ var' = [var EXCEPT ![n] = Value(e, var, objs)]
      /\ objs' = After(e, var, objs)
  BY CanIsCoded DEF AssignNative, Memorable, Between, Plain, Runs, NativeInv, CompilerOK, can_i64_expr
<1>1. /\ NativeValue(e) \in 0..MaxInt /\ var' = [var EXCEPT ![n] = Integer(NativeValue(e))]
      /\ heap' = objs' /\ Integer(NativeValue(e)) \in ScopeValues
  BY <1>0, IntegerCode, IntegerTags
<1>2. Kept(objs')
  BY <1>0, RightValue DEF NativeInv
<1>3. NativeTypeOK
  BY DEF NativeInv
<1>4. owner' = [owner EXCEPT ![n] = "main"] /\ Native' = Native \union {n}
  BY <1>0, <1>3 DEF Ensured, NativeInv, CompilerOK, NativeTypeOK, Native
<1>5. NativeTypeOK'
  BY <1>0, <1>1, <1>2, <1>3, <1>4 DEF NativeTypeOK, Kept
<1>6. NumericOK'
  <2>1. \A x \in numeric' : var'[x] = var[x]
    BY <1>0, <1>3 DEF NativeTypeOK
  <2>. QED  BY <1>0, <1>2, <2>1, NumericKept DEF Kept
<1>7. CompilerOK'
  <2>1. ~foreign'
    BY EmitsOwn DEF AssignNative
  <2>. QED  BY <1>0, <1>3, <1>4, <2>1 DEF NativeInv, CompilerOK, NativeTypeOK
<1>8. \A x \in Variables :
        /\ x \notin Native' => scope'[x] = var'[x]
        /\ x \in Native' => var'[x] = Integer(slot'[x])
        /\ x \in Native' \ dirty' => scope'[x] = Integer(slot'[x])
  BY <1>0, <1>1, <1>3, <1>4, Calm DEF NativeTypeOK
<1>. QED  BY <1>0, <1>1, <1>5, <1>6, <1>7, <1>8, Settled

(* A variable gets a value in the scope, and the slots may be written back *)
(* there before.                                                           *)
LEMMA Written ==
  ASSUME NativeInv, loop = NoLoop, NEW n \in Variables, NEW calls \in BOOLEAN,
         NEW base, base = scope \/ (calls /\ base = Flushed), calls => base = Flushed,
         NEW v \in ScopeValues,
         ~foreign', owner' = [owner EXCEPT ![n] = "none"],
         dirty' = (IF calls THEN {} ELSE dirty) \ {n},
         known' = known \ {n}, numeric' = numeric \ {n},
         slot' = [slot EXCEPT ![n] = 0],
         UNCHANGED <<fn, enabled, loop, calling>>,
         scope' = [base EXCEPT ![n] = v], var' = [var EXCEPT ![n] = v],
         heap' = objs', Kept(objs')
  PROVE  NativeInv'
<1>1. NativeTypeOK /\ MaxInt \in Nat \ {0}
  BY NativeAssumption DEF NativeInv
<1>2. Native' = Native \ {n}
  BY <1>1 DEF NativeTypeOK, Native
<1>3. CompilerOK'
  BY <1>1, <1>2 DEF NativeInv, CompilerOK, NativeTypeOK
<1>4. base \in [Variables -> ScopeValues]
  <2>1. \A x \in Variables : scope[x] \in ScopeValues /\ Integer(slot[x]) \in ScopeValues
    BY <1>1, IntegerTags DEF NativeTypeOK
  <2>2. CASE base = Flushed
    BY <2>1, <2>2 DEF Flushed
  <2>. QED  BY <1>1, <2>2 DEF NativeTypeOK
<1>5. NativeTypeOK'
  BY <1>1, <1>2, <1>4 DEF NativeTypeOK, Kept
<1>6. NumericOK'
  <2>1. \A x \in numeric' : var'[x] = var[x]
    BY <1>1 DEF NativeTypeOK
  <2>. QED  BY <2>1, NumericKept DEF Kept
<1>7. ASSUME NEW x \in Variables
      PROVE  /\ x \notin Native' => scope'[x] = var'[x]
             /\ x \in Native' => var'[x] = Integer(slot'[x])
             /\ x \in Native' \ dirty' => scope'[x] = Integer(slot'[x])
  <2>1. CASE x = n
    BY <1>1, <1>2, <1>4, <2>1 DEF NativeTypeOK
  <2>2. CASE x # n
    <3>1. /\ scope'[x] = base[x] /\ var'[x] = var[x] /\ slot'[x] = slot[x]
          /\ x \in Native' <=> x \in Native
      BY <1>1, <1>2, <1>4, <2>2 DEF NativeTypeOK
    <3>2. /\ x \notin Native => scope[x] = var[x]
          /\ x \in Native => var[x] = Integer(slot[x])
          /\ x \in Native \ dirty => scope[x] = Integer(slot[x])
      BY Calm
    <3>3. base = Flushed => base[x] = IF x \in dirty THEN Integer(slot[x]) ELSE scope[x]
      BY DEF Flushed
    <3>4. dirty \subseteq Native
      BY <1>1 DEF NativeTypeOK
    <3>. QED  BY <2>2, <3>1, <3>2, <3>3, <3>4
  <2>. QED  BY <2>1, <2>2
<1>. QED  BY <1>3, <1>5, <1>6, <1>7, Settled

(* The statement is compiled and not run: in a control structure, or in    *)
(* the body of an algorithm, where no variable has a slot.                 *)
LEMMA Skipped ==
  ASSUME NativeInv, loop = NoLoop, NEW n \in Variables, fn # "main" \/ ~enabled,
         ~foreign', owner' = [owner EXCEPT ![n] = "none"], dirty' \subseteq dirty,
         known' = known \ {n}, numeric' = numeric \ {n},
         slot' = [slot EXCEPT ![n] = 0],
         UNCHANGED <<fn, enabled, loop, calling, scope, heap, var, objs>>
  PROVE  NativeInv'
<1>1. NativeTypeOK /\ heap = objs /\ Native = {} /\ dirty = {}
  BY Calm DEF NativeInv, CompilerOK, NativeTypeOK
<1>2. Native' = {} /\ dirty' = {}
  BY <1>1 DEF NativeTypeOK, Native
<1>3. CompilerOK'
  BY <1>1, <1>2 DEF NativeInv, CompilerOK, NativeTypeOK
<1>4. NativeTypeOK'
  BY <1>1, <1>2, NativeAssumption DEF NativeTypeOK
<1>5. NumericOK'
  BY NumericKept
<1>6. \A x \in Variables : scope'[x] = var'[x]
  BY <1>1, Calm
<1>. QED  BY <1>1, <1>2, <1>3, <1>4, <1>5, <1>6, Settled

LEMMA AssignsGeneric ==
  ASSUME NativeInv, Plain, NEW n \in Variables, NEW e \in Exprs, AssignGeneric(n, e)
  PROVE  NativeInv'
<1>. PICK calls \in BOOLEAN : calls = Calls(e)
  BY DEF Calls
<1>0. /\ loop = NoLoop /\ ~foreign'
      /\ owner' = [owner EXCEPT ![n] = "none"]
      /\ dirty' = (IF calls THEN {} ELSE dirty) \ {n}
      /\ known' = known \ {n} /\ numeric' = numeric \ {n}
      /\ slot' = [slot EXCEPT ![n] = 0]
      /\ UNCHANGED <<fn, enabled, loop, calling>>
  BY EmitsOwn DEF AssignGeneric, Between
<1>1. NativeTypeOK /\ heap = objs /\ View = var
  BY <1>0, Calm DEF NativeInv
<1>2. PICK runs \in Runs :
        IF runs
        THEN /\ Right(e)
             /\ scope' = [(IF calls THEN Flushed ELSE scope) EXCEPT ![n] = Value(e, var, objs)]
             /\ heap' = After(e, var, objs)
             /\ var' = [var EXCEPT ![n] = Value(e, var, objs)]
             /\ objs' = After(e, var, objs)
        ELSE UNCHANGED <<scope, heap, var, objs>>
  BY <1>1 DEF AssignGeneric, interpreter
<1>3. CASE runs
  <2>1. Kept(objs') /\ Value(e, var, objs) \in ScopeValues
    BY <1>1, <1>2, <1>3, RightValue
  <2>2. PICK base : base = IF calls THEN Flushed ELSE scope
    OBVIOUS
  <2>. QED  BY <1>0, <1>2, <1>3, <2>1, <2>2, Written
<1>4. CASE ~runs
  <2>1. UNCHANGED <<scope, heap, var, objs>> /\ (fn # "main" \/ ~enabled)
    BY <1>2, <1>4 DEF Runs
  <2>. QED  BY <1>0, <2>1, Skipped
<1>. QED  BY <1>3, <1>4

(* What and, or make of two values is 0 or 1.                              *)
LEMMA Truth ==
  ASSUME NEW op, NEW v, NEW w
  PROVE  /\ Logical(op, v, w)[2] \in 0..MaxInt
         /\ Logical(op, v, w) = Integer(Logical(op, v, w)[2])
         /\ Logical(op, v, w) \in ScopeValues
<1>1. PICK k \in 0..1 : Logical(op, v, w) = Integer(k)
  BY DEF Logical
<1>2. k \in 0..MaxInt
  BY NativeAssumption
<1>. QED  BY <1>1, <1>2, IntegerTags

LEMMA AssignsLogical ==
  ASSUME NativeInv, Plain, NEW n \in Variables, NEW op, NEW l \in LeftOperands, NEW r \in RightOperands,
         AssignLogical(n, op, l, r)
  PROVE  NativeInv'
<1>. PICK v, w, z : z = Logical(op, v, w) /\ v = Value(l, var, objs) /\ w = Value(r, var, objs)
  OBVIOUS
<1>0. /\ l \in Exprs /\ r \in Exprs /\ r.op # "pop"
      /\ Coded(l) /\ Coded(r) /\ enabled /\ fn = "main" /\ loop = NoLoop /\ ~calling
      /\ Right(l) /\ Right(r)
      /\ owner' = Ensured(n) /\ dirty' = dirty \union {n}
      /\ known' = known \ {n} /\ numeric' = numeric \ {n}
      /\ UNCHANGED <<fn, enabled, scope, loop, calling>>
      /\ slot' = [slot EXCEPT ![n] =
             Logical(op, Integer(NativeValue(l)), Integer(NativeValue(r)))[2]]
      /\ heap' = After(r, scope, heap)
      /\ Interpreted(n, op, l, r)
  BY CanIsCoded DEF AssignLogical, LeftOperands, RightOperands, Memorable, Between, Plain, Runs,
                    NativeInv, CompilerOK, can_i64_expr
<1>1. /\ z[2] \in 0..MaxInt /\ z = Integer(z[2]) /\ z \in ScopeValues
  BY Truth
<1>2. slot' = [slot EXCEPT ![n] = z[2]]
  BY <1>0, IntegerCode
<1>3. NativeTypeOK /\ heap = objs
  BY <1>0, Calm DEF NativeInv
<1>4. var' = [var EXCEPT ![n] = z] /\ heap' = objs /\ objs' = objs
  BY <1>0, <1>3 DEF Interpreted, After
<1>5. owner' = [owner EXCEPT ![n] = "main"] /\ Native' = Native \union {n}
  BY <1>0, <1>3 DEF Ensured, NativeInv, CompilerOK, NativeTypeOK, Native
<1>6. NativeTypeOK'
  BY <1>0, <1>1, <1>2, <1>3, <1>4, <1>5 DEF NativeTypeOK
<1>7. NumericOK'
  <2>1. \A x \in numeric' : var'[x] = var[x]
    BY <1>0, <1>3, <1>4 DEF NativeTypeOK
  <2>. QED  BY <1>0, <1>4, <2>1, NumericKept
<1>8. CompilerOK'
  <2>1. ~foreign'
    BY EmitsOwn DEF AssignLogical
  <2>. QED  BY <1>0, <1>3, <1>5, <2>1 DEF NativeInv, CompilerOK, NativeTypeOK
<1>9. \A x \in Variables :
        /\ x \notin Native' => scope'[x] = var'[x]
        /\ x \in Native' => var'[x] = Integer(slot'[x])
        /\ x \in Native' \ dirty' => scope'[x] = Integer(slot'[x])
  BY <1>0, <1>1, <1>2, <1>3, <1>4, <1>5, Calm DEF NativeTypeOK
<1>. QED  BY <1>0, <1>3, <1>4, <1>6, <1>7, <1>8, <1>9, Settled

LEMMA AssignsShort ==
  ASSUME NativeInv, Plain, NEW n \in Variables, NEW op, NEW l \in LeftOperands, NEW r \in RightOperands,
         ShortCircuit(n, op, l, r)
  PROVE  NativeInv'
<1>. PICK v, w, z : z = Logical(op, v, w) /\ v = Value(l, var, objs) /\ w = Value(r, var, objs)
  OBVIOUS
<1>. PICK calls \in BOOLEAN : calls = Calls(r)
  BY DEF Calls
<1>0. /\ loop = NoLoop /\ ~foreign' /\ l \in Exprs /\ r \in Exprs
      /\ calls => dirty = {}
      /\ owner' = [owner EXCEPT ![n] = "none"]
      /\ dirty' = (IF calls THEN {} ELSE dirty) \ {n}
      /\ known' = known \ {n} /\ numeric' = numeric \ {n}
      /\ slot' = [slot EXCEPT ![n] = 0]
      /\ UNCHANGED <<fn, enabled, loop, calling>>
  BY EmitsOwn DEF ShortCircuit, Between, LeftOperands, RightOperands, Plain
<1>1. NativeTypeOK /\ heap = objs /\ View = var
  BY <1>0, Calm DEF NativeInv
<1>2. calls => Flushed = scope
  BY <1>0, <1>1 DEF Flushed, NativeTypeOK
<1>3. PICK runs \in Runs :
        IF runs
        THEN /\ RightLogical(op, l, r)
             /\ scope' = [(IF calls /\ ~Decided(op, v) THEN Flushed ELSE scope) EXCEPT ![n] = z]
             /\ heap' = IF Decided(op, v) THEN heap ELSE After(r, var, objs)
             /\ Interpreted(n, op, l, r)
        ELSE UNCHANGED <<scope, heap, var, objs>>
  BY <1>1 DEF ShortCircuit, interpreter
<1>4. CASE runs
  <2>1. var' = [var EXCEPT ![n] = z] /\ scope' = [scope EXCEPT ![n] = z]
    BY <1>2, <1>3, <1>4 DEF Interpreted
  <2>2. heap' = objs' /\ Kept(objs')
    <3>1. CASE Decided(op, v)
      BY <1>1, <1>3, <1>4, <3>1 DEF Interpreted, Kept, NativeTypeOK
    <3>2. CASE ~Decided(op, v)
      BY <1>0, <1>1, <1>3, <1>4, <3>2, RightValue DEF Interpreted, RightLogical, Element
    <3>. QED  BY <3>1, <3>2
  <2>3. z \in ScopeValues
    BY Truth
  <2>. QED  BY <1>0, <1>2, <2>1, <2>2, <2>3, Written
<1>5. CASE ~runs
  <2>1. UNCHANGED <<scope, heap, var, objs>> /\ (fn # "main" \/ ~enabled)
    BY <1>3, <1>5 DEF Runs
  <2>. QED  BY <1>0, <2>1, Skipped
<1>. QED  BY <1>4, <1>5

LEMMA AssignsArray ==
  ASSUME NativeInv, Plain, NEW n \in Variables, NEW es, es = << >> \/ \E e \in Exprs : es = <<e>>,
         AssignArray(n, es)
  PROVE  NativeInv'
<1>0. /\ loop = NoLoop /\ ~calling
      /\ owner' = [owner EXCEPT ![n] = "none"] /\ dirty' = dirty \ {n}
      /\ known' = known \union {n}
      /\ numeric' = IF \A k \in DOMAIN es : can_i64_expr(es[k]) /\ n \notin Loads(es[k])
                    THEN numeric \union {n} ELSE numeric \ {n}
      /\ UNCHANGED <<fn, enabled, loop, calling>>
      /\ slot' = [slot EXCEPT ![n] = 0]
      /\ fn = "main" \/ ~enabled
  BY DEF AssignArray, Memorable, Between, Plain
<1>1. NativeTypeOK /\ heap = objs /\ View = var
  BY <1>0, Calm DEF NativeInv
<1>2. Native' = Native \ {n}
  BY <1>0, <1>1 DEF NativeTypeOK, Native
<1>3. CompilerOK'
  <2>1. ~foreign'
    BY EmitsOwn DEF AssignArray
  <2>. QED  BY <1>0, <1>1, <1>2, <2>1 DEF NativeInv, CompilerOK, NativeTypeOK
<1>4. \A k \in DOMAIN es : es[k] \in Exprs
  OBVIOUS
<1>5. PICK runs \in Runs :
        IF runs
        THEN /\ \A k \in DOMAIN es : Element(es[k])
             /\ \E id \in Unused :
                  /\ scope' = [scope EXCEPT ![n] = Array(id)]
                  /\ heap' = [objs EXCEPT ![id] = Made(es, var, objs)]
                  /\ var' = [var EXCEPT ![n] = Array(id)]
                  /\ objs' = [objs EXCEPT ![id] = Made(es, var, objs)]
        ELSE UNCHANGED <<scope, heap, var, objs>>
  BY <1>1 DEF AssignArray, interpreter
<1>6. CASE runs
  <2>1. PICK id \in Unused :
          /\ scope' = [scope EXCEPT ![n] = Array(id)]
          /\ heap' = [objs EXCEPT ![id] = Made(es, var, objs)]
          /\ var' = [var EXCEPT ![n] = Array(id)]
          /\ objs' = [objs EXCEPT ![id] = Made(es, var, objs)]
    BY <1>5, <1>6
  <2>2. id \in Ids /\ Array(id) \in ScopeValues /\ \A x \in Variables : var[x] # Array(id)
    BY ArrayTags DEF Unused
  <2>3. /\ Made(es, var, objs) \in Seq(Elements)
        /\ enabled /\ (\A k \in DOMAIN es : can_i64_expr(es[k])) => Whole(Made(es, var, objs))
    <3>1. CASE es = << >>
      BY <3>1 DEF Made, Whole
    <3>2. ASSUME NEW e \in Exprs, es = <<e>>
          PROVE  /\ Made(es, var, objs) \in Seq(Elements)
                 /\ enabled /\ (\A k \in DOMAIN es : can_i64_expr(es[k])) => Whole(Made(es, var, objs))
      <4>1. PICK v : v = Value(e, var, objs)
        OBVIOUS
      <4>2. Made(es, var, objs) = <<v>>
        BY <3>2, <4>1 DEF Made
      <4>3. Element(e)
        BY <1>5, <1>6, <3>2
      <4>4. Right(e) /\ v \in Elements
        BY <4>1, <4>3 DEF Element
      <4>5. can_i64_expr(e) => v # Half
        BY <1>0, <4>1, <4>4, CanIsCoded, IntegerCode
      <4>6. (\A k \in DOMAIN es : can_i64_expr(es[k])) => can_i64_expr(e)
        BY <3>2
      <4>. QED  BY <4>2, <4>4, <4>5, <4>6 DEF Whole
    <3>. QED  BY <3>1, <3>2
  <2>4. NativeTypeOK'
    BY <1>0, <1>1, <1>2, <2>1, <2>2, <2>3, NativeAssumption DEF NativeTypeOK
  <2>5. NumericOK'
    <3>. SUFFICES ASSUME enabled', NEW x \in numeric', HasArray(x, var)'
                  PROVE  Whole(objs'[var'[x][2]])
      BY DEF NumericOK, Whole
    <3>1. x \in Variables
      BY <2>4 DEF NativeTypeOK
    <3>2. CASE x = n
      <4>1. \A k \in DOMAIN es : can_i64_expr(es[k])
        BY <1>0, <3>2
      <4>2. var'[x][2] = id
        BY <1>1, <2>1, <3>2, ArrayTags DEF NativeTypeOK
      <4>. QED  BY <1>0, <1>1, <2>1, <2>2, <2>3, <4>1, <4>2 DEF NativeTypeOK
    <3>3. CASE x # n
      <4>1. var'[x] = var[x] /\ x \in numeric
        BY <1>0, <1>1, <2>1, <3>1, <3>3 DEF NativeTypeOK
      <4>2. HasArray(x, var)
        BY <4>1 DEF HasArray
      <4>3. var[x][2] \in Ids /\ var[x][2] # id /\ Whole(objs[var[x][2]])
        BY <1>0, <1>1, <2>2, <3>1, <4>1, <4>2, ArrayOf DEF NativeInv, NumericOK
      <4>. QED  BY <1>1, <2>1, <4>1, <4>3 DEF NativeTypeOK
    <3>. QED  BY <3>2, <3>3
  <2>6. \A x \in Variables :
          /\ x \notin Native' => scope'[x] = var'[x]
          /\ x \in Native' => var'[x] = Integer(slot'[x])
          /\ x \in Native' \ dirty' => scope'[x] = Integer(slot'[x])
    BY <1>0, <1>1, <1>2, <2>1, Calm DEF NativeTypeOK
  <2>. QED  BY <1>0, <1>3, <2>1, <2>4, <2>5, <2>6, Settled
<1>7. CASE ~runs
  <2>1. UNCHANGED <<scope, heap, var, objs>> /\ ~enabled
    BY <1>0, <1>5, <1>7 DEF Runs
  <2>2. scope[n] = var[n]
    BY <1>0, <2>1, Calm DEF NativeInv, CompilerOK
  <2>3. NativeTypeOK'
    BY <1>0, <1>1, <1>2, <2>1, NativeAssumption DEF NativeTypeOK
  <2>4. NumericOK'
    BY <1>0, <2>1 DEF NumericOK
  <2>5. \A x \in Variables :
          /\ x \notin Native' => scope'[x] = var'[x]
          /\ x \in Native' => var'[x] = Integer(slot'[x])
          /\ x \in Native' \ dirty' => scope'[x] = Integer(slot'[x])
    BY <1>0, <1>1, <1>2, <2>1, <2>2, Calm DEF NativeTypeOK
  <2>. QED  BY <1>0, <1>1, <1>3, <2>1, <2>3, <2>4, <2>5, Settled
<1>. QED  BY <1>6, <1>7

(* A statement that changes arrays and not the variables: the arrays stay  *)
(* what they are to the compiler.                                          *)
LEMMA ArraysChange ==
  ASSUME NativeInv, loop = NoLoop, ~foreign', heap' = objs', Kept(objs'),
         UNCHANGED <<owner, known, fn, enabled, slot, var, loop>>, numeric' \subseteq numeric,
         calling' = calling \/ (calling' \in BOOLEAN /\ dirty' = {} /\ fn = "main"),
         \/ UNCHANGED <<dirty, scope>>
         \/ dirty' = {} /\ scope' = Flushed
         \/ dirty' = {} /\ UNCHANGED scope /\ Native = {}
  PROVE  NativeInv'
<1>1. NativeTypeOK /\ Native' = Native
  BY DEF NativeInv, Native
<1>2. NumericOK'
  BY NumericKept DEF Kept
<1>3. CompilerOK'
  BY <1>1 DEF NativeInv, CompilerOK
<1>4. scope' \in [Variables -> ScopeValues]
  BY <1>1, IntegerTags DEF NativeTypeOK, Flushed
<1>5. NativeTypeOK'
  BY <1>1, <1>4 DEF NativeTypeOK, Kept
<1>6. ASSUME NEW x \in Variables
      PROVE  /\ x \notin Native' => scope'[x] = var'[x]
             /\ x \in Native' => var'[x] = Integer(slot'[x])
             /\ x \in Native' \ dirty' => scope'[x] = Integer(slot'[x])
  <2>1. /\ x \notin Native => scope[x] = var[x]
        /\ x \in Native => var[x] = Integer(slot[x])
        /\ x \in Native \ dirty => scope[x] = Integer(slot[x])
    BY Calm
  <2>2. dirty \subseteq Native
    BY <1>1 DEF NativeTypeOK
  <2>3. scope' = Flushed => scope'[x] = IF x \in dirty THEN Integer(slot[x]) ELSE scope[x]
    BY DEF Flushed
  <2>. QED  BY <1>1, <2>1, <2>2, <2>3
<1>. QED  BY <1>2, <1>3, <1>5, <1>6, Settled

(* An array gets a value that is no float.                                 *)
LEMMA Pushes ==
  ASSUME NativeTypeOK, NEW a \in Variables, Room(a), NEW v \in Elements, v # Half
  PROVE  Kept(Pushed(a, var, objs, v))
<1>1. var[a][2] \in Ids /\ objs[var[a][2]] \in Seq(Elements)
  BY ArrayOf DEF Room
<1>. QED  BY <1>1, Appends DEF Kept, Pushed, NativeTypeOK

LEMMA StoresFirst ==
  ASSUME NativeTypeOK, NEW a \in Variables, HasArray(a, var), objs[var[a][2]] # << >>,
         NEW v \in Elements, v # Half
  PROVE  Kept([objs EXCEPT ![var[a][2]][1] = v])
<1>1. var[a][2] \in Ids /\ objs[var[a][2]] \in Seq(Elements)
  BY ArrayOf
<1>2. PICK id : id = var[a][2]
  OBVIOUS
<1>3. [objs EXCEPT ![id][1] = v] = [objs EXCEPT ![id] = [objs[id] EXCEPT ![1] = v]]
  BY <1>1, <1>2 DEF NativeTypeOK
<1>. QED  BY <1>1, <1>2, <1>3, Sets DEF Kept, NativeTypeOK

LEMMA StoredIsElement ==
  ASSUME Plain, NEW e, Stored(e)
  PROVE  Right(e) /\ Value(e, var, objs) \in Elements /\ Value(e, var, objs) # Half
BY DEF Plain, Stored, Element

LEMMA Stores ==
  ASSUME NativeInv, Plain, NEW a \in Variables, NEW e \in Exprs, Store(a, e)
  PROVE  NativeInv'
<1>0. loop = NoLoop /\ ~foreign' /\ NativeTypeOK
  BY EmitsOwn DEF Store, Between, NativeInv
<1>1. View = var /\ heap = objs
  BY <1>0, Calm
<1>2. heap' = objs' /\ Kept(objs')
  <2>1. CASE UNCHANGED <<heap, objs>>
    BY <1>0, <1>1, <2>1 DEF Kept, NativeTypeOK
  <2>2. CASE /\ HasArray(a, var) /\ objs[var[a][2]] # << >> /\ Stored(e)
             /\ heap' = [heap EXCEPT ![View[a][2]][1] = Value(e, View, heap)]
             /\ objs' = [objs EXCEPT ![var[a][2]][1] = Value(e, var, objs)]
    BY <1>0, <1>1, <2>2, StoredIsElement, StoresFirst
  <2>. QED  BY <2>1, <2>2 DEF Store
<1>. QED  BY <1>0, <1>2, ArraysChange DEF Store

LEMMA PushesNative ==
  ASSUME NativeInv, Plain, NEW a \in Variables, NEW e \in Exprs, PushNative(a, e)
  PROVE  NativeInv'
<1>0. loop = NoLoop /\ ~foreign' /\ NativeTypeOK /\ Coded(e) /\ enabled
  BY EmitsOwn, CanIsCoded DEF PushNative, Between, NativeInv
<1>1. heap = objs
  BY <1>0, Calm
<1>2. heap' = objs' /\ Kept(objs')
  <2>1. CASE UNCHANGED <<heap, objs>>
    BY <1>0, <1>1, <2>1 DEF Kept, NativeTypeOK
  <2>2. CASE /\ Room(a) /\ Stored(e)
             /\ heap' = Pushed(a, scope, heap, Integer(NativeValue(e)))
             /\ objs' = Pushed(a, var, objs, Value(e, var, objs))
    <3>1. /\ Value(e, var, objs) \in Elements /\ Value(e, var, objs) # Half
          /\ Value(e, var, objs) = Integer(NativeValue(e))
      BY <1>0, <2>2, StoredIsElement, IntegerCode
    <3>2. scope[a] = var[a]
      BY <1>0, <2>2, Calm, IntegerTags DEF Room, HasArray
    <3>3. heap' = objs'
      BY <1>1, <2>2, <3>1, <3>2 DEF Pushed
    <3>. QED  BY <1>0, <2>2, <3>1, <3>3, Pushes
  <2>. QED  BY <2>1, <2>2 DEF PushNative
<1>. QED  BY <1>0, <1>2, ArraysChange DEF PushNative

LEMMA PushesGeneric ==
  ASSUME NativeInv, Plain, NEW a \in Variables, NEW e \in Exprs, PushGeneric(a, e)
  PROVE  NativeInv'
<1>0. loop = NoLoop /\ ~foreign' /\ NativeTypeOK /\ dirty' = {} /\ numeric' \subseteq numeric
  BY EmitsOwn DEF PushGeneric, Between, NativeInv
<1>1. View = var /\ heap = objs
  BY <1>0, Calm
<1>2. PICK runs \in Runs :
        IF runs
        THEN /\ Room(a) /\ Stored(e)
             /\ scope' = Flushed
             /\ heap' = Pushed(a, var, objs, Value(e, var, objs))
             /\ objs' = Pushed(a, var, objs, Value(e, var, objs))
        ELSE UNCHANGED <<scope, heap, objs>>
  BY <1>1 DEF PushGeneric
<1>3. heap' = objs' /\ Kept(objs') /\ (scope' = Flushed \/ (UNCHANGED scope /\ Native = {}))
  <2>1. CASE runs
    BY <1>0, <1>2, <2>1, StoredIsElement, Pushes
  <2>2. CASE ~runs
    <3>1. fn # "main" \/ ~enabled
      BY <2>2 DEF Runs
    <3>2. Native = {}
      BY <3>1 DEF NativeInv, CompilerOK
    <3>. QED  BY <1>0, <1>1, <1>2, <2>2, <3>2 DEF Kept, NativeTypeOK
  <2>. QED  BY <2>1, <2>2
<1>. QED  BY <1>0, <1>3, ArraysChange DEF PushGeneric

LEMMA CallsAlgorithm == NativeInv /\ CallAlgorithm => NativeInv'
<1>. SUFFICES ASSUME NativeInv, CallAlgorithm PROVE NativeInv'
  OBVIOUS
<1>1. loop = NoLoop /\ ~foreign' /\ NativeTypeOK
  BY EmitsOwn DEF CallAlgorithm, Between, NativeInv
<1>2. heap' = objs' /\ Kept(objs')
  BY <1>1, Calm DEF CallAlgorithm, interpreter, Kept, NativeTypeOK
<1>. QED  BY <1>1, <1>2, ArraysChange DEF CallAlgorithm, interpreter

LEMMA Callee == ASSUME NativeInv, calling PROVE loop = NoLoop /\ scope = var /\ dirty = {} /\ fn = "main"
<1>1. loop = NoLoop /\ dirty = {} /\ fn = "main" /\ NativeTypeOK
  BY DEF NativeInv, LoopOK, CompilerOK
<1>2. \A n \in Variables : scope[n] = var[n]
  BY <1>1, Calm
<1>. QED  BY <1>1, <1>2 DEF NativeTypeOK

LEMMA CalleePushes ==
  ASSUME NativeInv, Plain, NEW a \in Variables, NEW v \in Elements, CalleePush(a, v)
  PROVE  NativeInv'
<1>1. /\ loop = NoLoop /\ scope = var /\ NativeTypeOK /\ heap = objs /\ ~foreign' /\ v # Half
      /\ Room(a)
  BY Callee, Calm DEF CalleePush, NativeInv, compiler, CompilerOK, Plain
<1>2. heap' = objs' /\ Kept(objs')
  BY <1>1, Pushes DEF CalleePush, Pushed
<1>. QED  BY <1>1, <1>2, ArraysChange DEF CalleePush, compiler

LEMMA Returns == NativeInv /\ AlgorithmReturns => NativeInv'
<1>. SUFFICES ASSUME NativeInv, AlgorithmReturns PROVE NativeInv'
  OBVIOUS
<1>1. /\ loop = NoLoop /\ dirty = {} /\ fn = "main" /\ NativeTypeOK /\ heap = objs
      /\ UNCHANGED <<compiler, program, interpreter, loop>> /\ calling' = FALSE
  BY Callee, Calm DEF AlgorithmReturns, NativeInv
<1>2. heap' = objs' /\ Kept(objs') /\ ~foreign'
  BY <1>1 DEF program, interpreter, compiler, Kept, NativeTypeOK, NativeInv, CompilerOK
<1>. QED  BY <1>1, <1>2, ArraysChange DEF program, interpreter, compiler

-----------------------------------------------------------------------------
LEMMA ForgetsAll ==
  ASSUME NativeInv, Forgets, loop = NoLoop, loop' = NoLoop, ~foreign', ~calling,
         UNCHANGED <<fn, heap, var, objs, calling>>, enabled' \in BOOLEAN,
         \/ scope' = Flushed
         \/ UNCHANGED scope /\ Native = {}
  PROVE  NativeInv'
<1>1. NativeTypeOK /\ heap = objs /\ MaxInt \in Nat \ {0}
  BY Calm, NativeAssumption DEF NativeInv
<1>2. Native' = {}
  BY DEF Forgets, Native
<1>3. ASSUME NEW x \in Variables PROVE scope'[x] = var'[x]
  <2>1. scope' = Flushed => scope'[x] = IF x \in dirty THEN Integer(slot[x]) ELSE scope[x]
    BY DEF Flushed
  <2>. QED  BY <1>1, <2>1, Calm DEF NativeTypeOK
<1>4. scope' \in [Variables -> ScopeValues]
  BY <1>1, IntegerTags DEF NativeTypeOK, Flushed
<1>5. NativeTypeOK'
  BY <1>1, <1>2, <1>4 DEF Forgets, NativeTypeOK
<1>6. NumericOK' /\ CompilerOK'
  BY <1>2 DEF Forgets, NumericOK, NativeInv, CompilerOK
<1>. QED  BY <1>1, <1>2, <1>3, <1>5, <1>6, Settled

LEMMA EntersControl == NativeInv /\ EnterControl => NativeInv'
<1>. SUFFICES ASSUME NativeInv, EnterControl PROVE NativeInv'
  OBVIOUS
<1>1. /\ Forgets /\ ~foreign' /\ loop = NoLoop /\ loop' = NoLoop /\ ~calling
      /\ UNCHANGED <<fn, heap, var, objs, calling>> /\ enabled' \in BOOLEAN
  BY EmitsOwn DEF EnterControl, Between, interpreter
<1>2. scope' = Flushed \/ (UNCHANGED scope /\ Native = {})
  BY DEF EnterControl, NativeInv, CompilerOK
<1>. QED  BY <1>1, <1>2, ForgetsAll

LEMMA LeavesControl == NativeInv /\ LeaveControl => NativeInv'
<1>. SUFFICES ASSUME NativeInv, LeaveControl PROVE NativeInv'
  OBVIOUS
<1>1. /\ Forgets /\ loop = NoLoop /\ loop' = NoLoop /\ ~calling
      /\ UNCHANGED <<fn, heap, var, objs, calling, scope, foreign>> /\ enabled' \in BOOLEAN
  BY DEF LeaveControl, Between, interpreter
<1>2. Native = {} /\ ~foreign'
  BY <1>1 DEF LeaveControl, NativeInv, CompilerOK
<1>. QED  BY <1>1, <1>2, ForgetsAll

(* The compiler goes from one function to the other.                       *)
LEMMA Defines == NativeInv /\ Plain /\ (Define \/ Defined) => NativeInv'
<1>. SUFFICES ASSUME NativeInv, Plain, Define \/ Defined PROVE NativeInv'
  OBVIOUS
<1>1. /\ UNCHANGED <<owner, dirty, known, numeric, enabled, foreign, slot, scope, heap, var, objs, loop, calling>>
      /\ loop = NoLoop /\ ~calling
  BY DEF Define, Defined, Between, program, interpreter
<1>2. Native' = Native
  BY <1>1 DEF Native
<1>3. CompilerOK'
  BY <1>1, <1>2 DEF NativeInv, CompilerOK, Define, Defined, Plain
<1>4. NativeTypeOK' /\ NumericOK'
  BY <1>1, <1>2 DEF NativeInv, NativeTypeOK, NumericOK, HasArray
<1>. QED  BY <1>1, <1>2, <1>3, <1>4, Calm, Settled

-----------------------------------------------------------------------------
LEMMA LoopStarts ==
  ASSUME NativeInv, Plain, NEW i \in Variables, NEW k \in 1..(MaxInt - 1), NEW op \in OpsOfLoops,
         NEW n \in Variables, NEW e \in Exprs, For(i, k, op, n, e)
  PROVE  NativeInv'
<1>0. /\ loop = NoLoop /\ ~calling /\ fn = "main" /\ enabled /\ e.op # "pop"
      /\ can_i64_expr(e) \/ ReadsLoopVariable(i, e)
      /\ op = "assign" => n # i
      /\ owner' = [x \in Variables |-> IF (x = i \/ (op = "assign" /\ x = n)) /\ owner[x] = "none"
                                       THEN fn ELSE owner[x]]
      /\ dirty' = dirty \union {i} \union (IF op = "assign" THEN {n} ELSE {})
      /\ known' = IF op = "assign" THEN known \ {n} ELSE known
      /\ var' = [var EXCEPT ![i] = Integer(1)]
      /\ loop' = [var |-> i, to |-> k, op |-> op, name |-> n, expr |-> e]
      /\ UNCHANGED <<numeric, fn, enabled, scope, heap, objs, calling>>
  BY DEF For, Between, can_native_for, OpsOfLoops
<1>1. PICK any \in 0..MaxInt :
        slot' = [x \in Variables |-> IF x = i THEN 1
                                    ELSE IF op = "assign" /\ x = n /\ x \notin Native THEN any
                                    ELSE slot[x]]
  BY DEF For
<1>2. NativeTypeOK /\ heap = objs /\ MaxInt \in Nat \ {0}
  BY <1>0, Calm, NativeAssumption DEF NativeInv
<1>3. Native' = Native \union {i} \union (IF op = "assign" THEN {n} ELSE {})
  BY <1>0, <1>2 DEF Native, NativeTypeOK
<1>4. NativeTypeOK'
  <2>1. owner' \in [Variables -> {"none", "main", "algo"}]
    BY <1>0, <1>2 DEF NativeTypeOK
  <2>2. slot' \in [Variables -> 0..MaxInt]
    BY <1>1, <1>2 DEF NativeTypeOK
  <2>3. var' \in [Variables -> ScopeValues]
    <3>1. Integer(1) \in ScopeValues
      BY <1>2, IntegerTags
    <3>. QED  BY <1>0, <1>2, <3>1 DEF NativeTypeOK
  <2>4. dirty' \subseteq Native' /\ known' \subseteq Variables
    BY <1>0, <1>2, <1>3 DEF NativeTypeOK
  <2>. QED  BY <1>0, <1>2, <2>1, <2>2, <2>3, <2>4 DEF NativeTypeOK
<1>5. loop' # NoLoop
  <2>1. loop'.op # NoLoop.op
    BY <1>0 DEF NoLoop, OpsOfLoops
  <2>. QED  BY <2>1
<1>6. LoopOK'
  <2>1. loop' \in LoopTypes /\ loop'.to < MaxInt
    BY <1>0, <1>2 DEF LoopTypes
  <2>2. slot'[i] = 1
    BY <1>1
  <2>3. e.op \in {"int", "var", "inc", "elem"} /\ (e.op = "elem" => e.name \in numeric)
    BY <1>0 DEF can_i64_expr, ReadsLoopVariable
  <2>4. e.op \in {"var", "inc"} => e.name \in Native'
    BY <1>0, <1>3 DEF can_i64_expr, ReadsLoopVariable
  <2>. QED  BY <1>0, <2>1, <2>2, <2>3, <2>4 DEF LoopOK
<1>7. NumericOK'
  <2>1. \A x \in numeric' : var'[x] = var[x] \/ var'[x][1] # "array"
    BY <1>0, <1>2, IntegerTags DEF NativeTypeOK
  <2>. QED  BY <1>0, <2>1, NumericKept
<1>8. CompilerOK'
  <2>1. ~foreign'
    BY EmitsOwn DEF For
  <2>2. \A x \in Native' : owner'[x] = "main"
    BY <1>0, <1>2, <1>3 DEF NativeInv, CompilerOK, NativeTypeOK, Native
  <2>. QED  BY <1>0, <2>1, <2>2 DEF NativeInv, CompilerOK
<1>9. ValuesOK'
  <2>. SUFFICES ASSUME NEW x \in Variables
                PROVE  /\ x \notin Native' => scope'[x] = var'[x]
                       /\ x \in Native' => var'[x] = Integer(slot'[x]) \/ Fresh(x)'
                       /\ x \in Native' \ dirty' => scope'[x] = Integer(slot'[x])
    BY <1>0, <1>2 DEF ValuesOK
  <2>1. CASE x = i
    BY <1>0, <1>1, <1>2, <1>3, <2>1 DEF NativeTypeOK
  <2>2. CASE x # i /\ op = "assign" /\ x = n /\ x \notin Native
    <3>1. scope'[x] = var'[x] /\ slot'[i] = 1
      BY <1>0, <1>1, <1>2, <2>2, Calm DEF NativeTypeOK
    <3>2. ~(e.op \in {"var", "inc"} /\ e.name = x)
      BY <1>0, <2>2 DEF can_i64_expr, ReadsLoopVariable
    <3>3. Fresh(x)'
      BY <1>0, <1>5, <2>2, <3>1, <3>2 DEF Fresh
    <3>. QED  BY <1>0, <1>3, <2>2, <3>3
  <2>3. CASE x # i /\ ~(op = "assign" /\ x = n /\ x \notin Native)
    <3>1. var'[x] = var[x] /\ slot'[x] = slot[x] /\ scope'[x] = scope[x]
      BY <1>0, <1>1, <1>2, <2>3 DEF NativeTypeOK
    <3>2. (x \in Native <=> x \in Native') /\ (x \in dirty => x \in dirty')
      BY <1>0, <1>3, <2>3
    <3>. QED  BY <1>0, <3>1, <3>2, Calm
  <2>. QED  BY <2>1, <2>2, <2>3
<1>. QED  BY <1>4, <1>6, <1>7, <1>8, <1>9 DEF NativeInv

LEMMA Iterates == NativeInv /\ Iterate => NativeInv'
<1>. SUFFICES ASSUME NativeInv, Iterate PROVE NativeInv'
  OBVIOUS
<1>. PICK e, i, n : e = loop.expr /\ i = loop.var /\ n = loop.name
  OBVIOUS
<1>0. /\ loop # NoLoop /\ slot[i] <= loop.to /\ Right(e)
      /\ UNCHANGED <<compiler, scope, loop, calling>>
  BY DEF Iterate
<1>1. /\ loop \in LoopTypes /\ loop.to < MaxInt /\ enabled /\ i \in dirty /\ 1 <= slot[i]
      /\ loop.op = "assign" => n \in dirty /\ n # i
      /\ e \in Exprs /\ i \in Variables /\ n \in Variables /\ loop.to \in 1..MaxInt
      /\ NativeTypeOK /\ heap = objs /\ MaxInt \in Nat \ {0}
  BY <1>0, NativeAssumption DEF NativeInv, LoopOK, LoopTypes, ValuesOK
<1>2. Coded(e)
  BY <1>0, <1>1 DEF Coded, Fresh, NativeInv, LoopOK
<1>3. /\ NativeValue(e) \in 0..MaxInt /\ Value(e, var, objs) = Integer(NativeValue(e))
      /\ Value(e, var, objs) \in Elements /\ Value(e, var, objs) # Half
  BY <1>0, <1>1, <1>2, IntegerCode
<1>4. Native' = Native /\ dirty' = dirty /\ numeric' = numeric /\ owner' = owner
  BY <1>0 DEF compiler, Native
<1>5. slot[i] + 1 \in 0..MaxInt /\ slot[i] + 1 # 1
  BY <1>0, <1>1 DEF NativeTypeOK
<1>6. PICK v : v = Value(e, var, objs)
  OBVIOUS
<1>7. /\ heap' = objs' /\ Kept(objs')
      /\ slot' = IF loop.op = "assign" THEN [slot EXCEPT ![n] = NativeValue(e), ![i] = @ + 1]
                 ELSE [slot EXCEPT ![i] = @ + 1]
      /\ var' = IF loop.op = "assign" THEN [var EXCEPT ![n] = v, ![i] = Integer(slot[i] + 1)]
                ELSE [var EXCEPT ![i] = Integer(slot[i] + 1)]
  <2>1. CASE loop.op = "assign"
    <3>1. /\ slot' = [slot EXCEPT ![n] = NativeValue(e), ![i] = @ + 1]
          /\ var' = [var EXCEPT ![n] = v, ![i] = Integer(slot[i] + 1)]
          /\ UNCHANGED <<heap, objs>>
      BY <1>6, <2>1 DEF Iterate
    <3>. QED  BY <1>1, <2>1, <3>1 DEF Kept, NativeTypeOK
  <2>2. CASE loop.op = "push"
    <3>1. /\ Room(n) /\ slot' = [slot EXCEPT ![i] = @ + 1]
          /\ heap' = Pushed(n, scope, heap, Integer(NativeValue(e)))
          /\ var' = [var EXCEPT ![i] = Integer(slot[i] + 1)]
          /\ objs' = Pushed(n, var, objs, Value(e, var, objs))
      BY <2>2 DEF Iterate
    <3>2. scope[n] = var[n]
      BY <1>1, <2>2, <3>1, IntegerTags DEF NativeInv, ValuesOK, Fresh, Room, HasArray
    <3>3. heap' = objs'
      BY <1>1, <1>3, <3>1, <3>2 DEF Pushed
    <3>. QED  BY <1>1, <1>3, <2>2, <3>1, <3>3, Pushes
  <2>3. CASE loop.op = "store"
    <3>1. /\ HasArray(n, var) /\ objs[var[n][2]] # << >>
          /\ slot' = [slot EXCEPT ![i] = @ + 1]
          /\ heap' = [heap EXCEPT ![scope[n][2]][1] = Integer(NativeValue(e))]
          /\ var' = [var EXCEPT ![i] = Integer(slot[i] + 1)]
          /\ objs' = [objs EXCEPT ![var[n][2]][1] = Value(e, var, objs)]
      BY <2>3 DEF Iterate
    <3>2. scope[n] = var[n]
      BY <1>1, <2>3, <3>1, IntegerTags DEF NativeInv, ValuesOK, Fresh, HasArray
    <3>3. heap' = objs'
      BY <1>1, <1>3, <3>1, <3>2
    <3>. QED  BY <1>1, <1>3, <2>3, <3>1, <3>3, StoresFirst
  <2>. QED  BY <1>1, <2>1, <2>2, <2>3 DEF LoopTypes, OpsOfLoops
<1>8. slot'[i] = slot[i] + 1
  BY <1>1, <1>7 DEF NativeTypeOK
<1>9. NativeTypeOK'
  <2>1. slot' \in [Variables -> 0..MaxInt]
    BY <1>1, <1>3, <1>5, <1>7 DEF NativeTypeOK
  <2>2. var' \in [Variables -> ScopeValues]
    BY <1>1, <1>3, <1>5, <1>6, <1>7, IntegerTags, ElementKinds DEF NativeTypeOK
  <2>. QED  BY <1>0, <1>1, <1>4, <1>7, <2>1, <2>2 DEF NativeTypeOK, Kept, compiler
<1>10. LoopOK'
  BY <1>0, <1>1, <1>4, <1>5, <1>8 DEF NativeInv, LoopOK, NativeTypeOK, compiler
<1>11. NumericOK'
  <2>1. \A x \in numeric' : var'[x] = var[x] \/ var'[x][1] # "array"
    <3>1. v[1] # "array" /\ Integer(slot[i] + 1)[1] # "array"
      BY <1>3, <1>6, IntegerTags
    <3>. QED  BY <1>1, <1>4, <1>7, <3>1 DEF NativeTypeOK
  <2>. QED  BY <1>0, <1>4, <1>7, <2>1, NumericKept DEF Kept, compiler
<1>12. CompilerOK'
  BY <1>0, <1>4 DEF NativeInv, CompilerOK, compiler
<1>13. ValuesOK'
  <2>. SUFFICES ASSUME NEW x \in Variables
                PROVE  /\ x \notin Native => scope[x] = var'[x]
                       /\ x \in Native => var'[x] = Integer(slot'[x])
                       /\ x \in Native \ dirty => scope[x] = Integer(slot'[x])
    BY <1>0, <1>4, <1>7 DEF ValuesOK
  <2>1. dirty \subseteq Native
    BY <1>1 DEF NativeTypeOK
  <2>2. CASE x = i
    BY <1>1, <1>7, <1>8, <2>1, <2>2 DEF NativeTypeOK
  <2>3. CASE loop.op = "assign" /\ x = n
    <3>1. var'[x] = v /\ slot'[x] = NativeValue(e)
      BY <1>1, <1>7, <2>3 DEF NativeTypeOK
    <3>. QED  BY <1>1, <1>3, <1>6, <2>1, <2>3, <3>1
  <2>4. CASE x # i /\ ~(loop.op = "assign" /\ x = n)
    <3>1. var'[x] = var[x] /\ slot'[x] = slot[x] /\ ~Fresh(x)
      BY <1>1, <1>7, <2>4 DEF NativeTypeOK, Fresh
    <3>. QED  BY <3>1 DEF NativeInv, ValuesOK
  <2>. QED  BY <2>2, <2>3, <2>4
<1>. QED  BY <1>9, <1>10, <1>11, <1>12, <1>13 DEF NativeInv

LEMMA NativeLoopEnds == NativeInv /\ NativeForEnds => NativeInv'
<1>. SUFFICES ASSUME NativeInv, NativeForEnds PROVE NativeInv'
  OBVIOUS
<1>1. /\ slot[loop.var] # 1 /\ loop' = NoLoop
      /\ UNCHANGED <<compiler, program, interpreter, calling>>
  <2>1. loop # NoLoop /\ slot[loop.var] > loop.to /\ loop.to \in 1..MaxInt
    BY DEF NativeForEnds, NativeInv, LoopOK, LoopTypes
  <2>. QED  BY <2>1 DEF NativeForEnds
<1>2. \A x : ~Fresh(x)
  BY <1>1 DEF Fresh
<1>3. Native' = Native
  BY <1>1 DEF Native, compiler
<1>4. NativeTypeOK' /\ NumericOK' /\ CompilerOK'
  BY <1>1, <1>3 DEF NativeInv, NativeTypeOK, NumericOK, HasArray, CompilerOK, compiler, program, interpreter
<1>. QED
  BY <1>1, <1>2, <1>3, <1>4, Settled DEF NativeInv, ValuesOK, compiler, program, interpreter

-----------------------------------------------------------------------------
LEMMA NativeStarts == NativeInit => NativeInv
<1>. SUFFICES ASSUME NativeInit PROVE NativeInv
  OBVIOUS
<1>1. Native = {} /\ MaxInt \in Nat \ {0}
  BY NativeAssumption DEF NativeInit, Native
<1>2. NativeTypeOK
  <2>1. << >> \in Seq(Elements) /\ Undefined \in ScopeValues
    BY DEF ScopeValues
  <2>. QED  BY <1>1, <2>1 DEF NativeInit, NativeTypeOK
<1>. QED  BY <1>1, <1>2 DEF NativeInit, NativeInv, LoopOK, ValuesOK, NumericOK, CompilerOK

LEMMA NativeSteps == Plain /\ NativeInv /\ [NativeNext]_nativeVars => NativeInv'
<1>. SUFFICES ASSUME Plain, NativeInv, [NativeNext]_nativeVars PROVE NativeInv'
  OBVIOUS
<1>1. CASE UNCHANGED nativeVars
  <2>1. Native' = Native
    BY <1>1 DEF nativeVars, compiler, Native
  <2>2. NativeTypeOK' /\ LoopOK' /\ NumericOK' /\ CompilerOK'
    BY <1>1, <2>1 DEF NativeInv, NativeTypeOK, LoopOK, NumericOK, HasArray, CompilerOK,
                      nativeVars, compiler, program, interpreter
  <2>3. ValuesOK'
    BY <1>1, <2>1 DEF NativeInv, ValuesOK, Fresh, nativeVars, compiler, program, interpreter
  <2>. QED  BY <2>2, <2>3 DEF NativeInv
<1>2. ASSUME NEW n \in Variables, NEW e \in Exprs,
             AssignNative(n, e) \/ AssignGeneric(n, e) \/ Store(n, e) \/ PushNative(n, e) \/ PushGeneric(n, e)
      PROVE  NativeInv'
  BY <1>2, AssignsNative, AssignsGeneric, Stores, PushesNative, PushesGeneric
<1>3. ASSUME NEW n \in Variables, NEW es \in { << >> } \union { <<e>> : e \in Exprs \ { x \in Exprs : x.op = "pop" } },
             AssignArray(n, es)
      PROVE  NativeInv'
  BY <1>3, AssignsArray
<1>4. ASSUME NEW n \in Variables, NEW v \in Elements, CalleePush(n, v) PROVE NativeInv'
  BY <1>4, CalleePushes
<1>5. ASSUME NEW i \in Variables, NEW n \in Variables,
             NEW k \in (IF EmptyLoops THEN 0 ELSE 1)..(MaxInt - 1),
             NEW op \in {"assign", "push", "store"}, NEW e \in Exprs, For(i, k, op, n, e)
      PROVE  NativeInv'
  BY <1>5, LoopStarts DEF Plain, OpsOfLoops
<1>6. ASSUME NEW n \in Variables, NEW op \in {"and", "or"}, NEW l \in LeftOperands, NEW r \in RightOperands,
             AssignLogical(n, op, l, r) \/ ShortCircuit(n, op, l, r)
      PROVE  NativeInv'
  BY <1>6, AssignsLogical, AssignsShort
<1>. QED
  BY <1>1, <1>2, <1>3, <1>4, <1>5, <1>6, CallsAlgorithm, Returns, EntersControl, LeavesControl, Iterates, NativeLoopEnds,
     Defines DEF NativeNext

(* In a program where arrays get no floats once they are there, for-loops  *)
(* run, right operands of and, or write nothing and algorithms are defined *)
(* where nothing is remembered, compiled code and interpreter agree on     *)
(* every variable and array between two statements and wherever an         *)
(* algorithm is called.                                                    *)
THEOREM CompiledIsInterpreted ==
  ASSUME Plain
  PROVE  NativeSpec => []SameValues
<1>1. NativeInv => SameValues
  BY Calm, Callee DEF SameValues, Between
<1>2. NativeInv /\ [NativeNext]_nativeVars => NativeInv'
  BY NativeSteps
<1>. QED  BY <1>1, <1>2, NativeStarts, PTL DEF NativeSpec

(* In such a program no function touches a slot of another, what is        *)
(* emitted in a control structure does not depend on the path there, and   *)
(* a slot that the compiler takes for written back is.                     *)
THEOREM CompiledIsPathFree ==
  ASSUME Plain
  PROVE  NativeSpec => []PathFree
<1>1. ASSUME NativeInv PROVE PathFree
  <2>1. NativeTypeOK /\ ~foreign /\ (~enabled => Native = {})
    BY <1>1 DEF NativeInv, CompilerOK
  <2>2. \A n \in Native \ dirty : scope[n] = Integer(slot[n])
    BY <1>1 DEF NativeInv, ValuesOK, Native
  <2>. QED  BY <2>1, <2>2 DEF PathFree, OwnSlots
<1>2. NativeInv /\ [NativeNext]_nativeVars => NativeInv'
  BY NativeSteps
<1>. QED  BY <1>1, <1>2, NativeStarts, PTL DEF NativeSpec

=============================================================================
