----------------------------- MODULE HashTable -----------------------------
(***************************************************************************)
(* HashTableValue: a vector of entries and an index from a key's identity  *)
(* to its position in the vector.  remove() fills the hole with the last   *)
(* entry and moves that entry's index.                                     *)
(*                                                                         *)
(* KeyId is not injective: identity is the type and the printed form, so   *)
(* two floats that print alike are one key.  A key's identity is fixed     *)
(* while it is stored here.  Positions count from 1, where the vector      *)
(* counts from 0.                                                          *)
(***************************************************************************)
EXTENDS Naturals, Sequences, FiniteSets

CONSTANTS Keys, KeyId, Vals, None, Error, Self

ASSUME KeyIdAssumption == DOMAIN KeyId = Keys

Ids == { KeyId[k] : k \in Keys }

Entry == [key : Keys, value : Vals]

VARIABLES
  entries,  \* std::vector<Entry>
  index,    \* identity -> position in entries
  op,       \* the last method called and its arguments
  ret       \* what it returned

vars == <<entries, index, op, ret>>

Returns(method, value) == op' = method /\ ret' = value

Init ==
  /\ entries = << >>
  /\ index = << >>
  /\ op = <<"HashTable">>
  /\ ret = None

-----------------------------------------------------------------------------
(* Mutant: set() of a present identity assigns the whole entry.            *)
SetPresentNewKey(k, v) ==
  /\ KeyId[k] \in DOMAIN index
  /\ entries' = [entries EXCEPT ![index[KeyId[k]]] = [key |-> k, value |-> v]]
  /\ UNCHANGED index
  /\ Returns(<<"set", k, v>>, v)

(* set(): an identity that is present keeps its entry and its key object.  *)
SetPresent(k, v) ==
  /\ KeyId[k] \in DOMAIN index
  /\ entries' = [entries EXCEPT ![index[KeyId[k]]].value = v]
  /\ UNCHANGED index
  /\ Returns(<<"set", k, v>>, v)

SetNew(k, v) ==
  /\ KeyId[k] \notin DOMAIN index
  /\ index' = [i \in DOMAIN index \union {KeyId[k]} |->
                 IF i = KeyId[k] THEN Len(entries) + 1 ELSE index[i]]
  /\ entries' = Append(entries, [key |-> k, value |-> v])
  /\ Returns(<<"set", k, v>>, v)

Last == entries[Len(entries)]

RemoveAbsent(k) ==
  /\ KeyId[k] \notin DOMAIN index
  /\ UNCHANGED <<entries, index>>
  /\ Returns(<<"remove", k>>, None)

(* remove() of the entry at the back: nothing moves.                       *)
RemoveLast(k) ==
  /\ KeyId[k] \in DOMAIN index
  /\ index[KeyId[k]] = Len(entries)
  /\ index' = [i \in DOMAIN index \ {KeyId[k]} |-> index[i]]
  /\ entries' = SubSeq(entries, 1, Len(entries) - 1)
  /\ Returns(<<"remove", k>>, Last.value)

(* Mutant: remove() forgets to move the index of the entry it moves.       *)
RemoveSwapStaleIndex(k) ==
  /\ KeyId[k] \in DOMAIN index
  /\ index[KeyId[k]] # Len(entries)
  /\ index' = [i \in DOMAIN index \ {KeyId[k]} |-> index[i]]
  /\ entries' = SubSeq([entries EXCEPT ![index[KeyId[k]]] = Last], 1, Len(entries) - 1)
  /\ Returns(<<"remove", k>>, entries[index[KeyId[k]]].value)

(* remove() of any other entry: the last entry moves into its place and    *)
(* index[key_id(moved key)] is assigned the place.                         *)
RemoveSwap(k) ==
  /\ KeyId[k] \in DOMAIN index
  /\ index[KeyId[k]] # Len(entries)
  /\ LET hole   == index[KeyId[k]]
         erased == [i \in DOMAIN index \ {KeyId[k]} |-> index[i]]
     IN  /\ index' = [i \in DOMAIN erased \union {KeyId[Last.key]} |->
                        IF i = KeyId[Last.key] THEN hole ELSE erased[i]]
         /\ entries' = SubSeq([entries EXCEPT ![hole] = Last], 1, Len(entries) - 1)
         /\ Returns(<<"remove", k>>, entries[hole].value)

Clear ==
  /\ entries' = << >>
  /\ index' = << >>
  /\ Returns(<<"clear">>, Self)

Get(k) ==
  /\ UNCHANGED <<entries, index>>
  /\ Returns(<<"get", k>>, IF KeyId[k] \in DOMAIN index
                             THEN entries[index[KeyId[k]]].value ELSE None)

Contains(k) ==
  /\ UNCHANGED <<entries, index>>
  /\ Returns(<<"contains", k>>, IF KeyId[k] \in DOMAIN index THEN 1 ELSE 0)

Size ==
  /\ UNCHANGED <<entries, index>>
  /\ Returns(<<"size">>, Len(entries))

IsEmpty ==
  /\ UNCHANGED <<entries, index>>
  /\ Returns(<<"is_empty">>, IF Len(entries) = 0 THEN 1 ELSE 0)

ListKeys ==
  /\ UNCHANGED <<entries, index>>
  /\ Returns(<<"keys">>, [n \in DOMAIN entries |-> entries[n].key])

ListValues ==
  /\ UNCHANGED <<entries, index>>
  /\ Returns(<<"values">>, [n \in DOMAIN entries |-> entries[n].value])

(* A call with the wrong number of arguments, or whose argument evaluates  *)
(* to an error, returns before it touches the table.                       *)
Reject ==
  /\ UNCHANGED <<entries, index>>
  /\ Returns(<<"error">>, Error)

Next ==
  \/ \E k \in Keys, v \in Vals : SetPresent(k, v) \/ SetNew(k, v)
  \/ \E k \in Keys : \/ RemoveAbsent(k) \/ RemoveLast(k) \/ RemoveSwap(k)
                     \/ Get(k) \/ Contains(k)
  \/ Clear \/ Size \/ IsEmpty \/ ListKeys \/ ListValues \/ Reject

Spec == Init /\ [][Next]_vars

-----------------------------------------------------------------------------
(* The vector holds entries and the index holds positions of the vector.   *)
TypeOK ==
  /\ entries \in Seq(Entry)
  /\ DOMAIN index \subseteq Ids
  /\ \A i \in DOMAIN index : index[i] \in 1..Len(entries)

(* Every entry is found at its own position under its key's identity and   *)
(* the index holds nothing else: after any sequence of set, remove and     *)
(* clear, with the swap in remove(), no entry is lost, doubled or reachable *)
(* under another key.                                                      *)
IndexExact ==
  /\ \A n \in 1..Len(entries) : /\ KeyId[entries[n].key] \in DOMAIN index
                                /\ index[KeyId[entries[n].key]] = n
  /\ \A i \in DOMAIN index : KeyId[entries[index[i]].key] = i

-----------------------------------------------------------------------------
(* The map a table stands for.                                             *)
Bindings == [i \in DOMAIN index |-> entries[index[i]]]
Order == [n \in DOMAIN entries |-> KeyId[entries[n].key]]

Map == INSTANCE MapSpec WITH bind <- Bindings, order <- Order

(* Every method does to the vector and the index what the map specification *)
(* says it does to the map, and returns what the specification returns:    *)
(* keys() and values() list the live bindings once, in the same order, and *)
(* only a remove may change the order of the entries that stay.            *)
ImplementsMap == Map!Spec
=============================================================================
