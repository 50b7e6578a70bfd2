----------------------------- MODULE Compaction -----------------------------
(***************************************************************************)
(* An array of which the elements before `head` are dead, as the data of a *)
(* Queue and the back of a LinkedList of lib/dsa.ps are kept.  compact()   *)
(* is the same code in both: it drops the dead elements when nothing is    *)
(* alive, or when there are enough of them to pay for copying the rest.    *)
(***************************************************************************)
EXTENDS Integers, Sequences

CONSTANT Threshold  \* 32 in the code

ASSUME ThresholdAssumption == Threshold \in Nat \ {0}

(* The elements alive.                                                     *)
Live(data, head) == [k \in 1..(Len(data) - head + 1) |-> data[head + k - 1]]

(* No more dead elements than Threshold or half the array, and none when   *)
(* nothing is alive.                                                       *)
Modest(data, head) ==
  /\ head <= Len(data) \/ head = 1
  /\ head <= Threshold \/ head <= Len(data) \div 2

(* Mutant: whatever is alive is copied.                                    *)
CompactedEagerly(data, head) ==
  IF head > Len(data) THEN [data |-> << >>, head |-> 1]
  ELSE IF head <= Threshold THEN [data |-> data, head |-> head]
  ELSE [data |-> Live(data, head), head |-> 1]

(* Mutant: nothing is copied.                                              *)
CompactedNever(data, head) ==
  IF head > Len(data) THEN [data |-> << >>, head |-> 1] ELSE [data |-> data, head |-> head]

(* compact().                                                              *)
Compacted(data, head) ==
  IF head > Len(data) THEN [data |-> << >>, head |-> 1]
  ELSE IF head <= Threshold \/ head <= Len(data) \div 2 THEN [data |-> data, head |-> head]
  ELSE [data |-> Live(data, head), head |-> 1]
=============================================================================
