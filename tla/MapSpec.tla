------------------------------ MODULE MapSpec ------------------------------
(***************************************************************************)
(* What a HashTable promises to a program, without its representation: a   *)
(* map from key identities to bindings, and an iteration order in which    *)
(* keys() and values() report it.  A binding remembers the key object that *)
(* created it: setting a key that is already present replaces the value    *)
(* and keeps the first key object.                                         *)
(***************************************************************************)
EXTENDS Naturals, Sequences, FiniteSets, Functions

CONSTANTS
  Keys,     \* the key values a program uses
  KeyId,    \* KeyId[k]: the identity of key k, type and printed form
  Vals,     \* the values a program stores
  None,     \* the NONE value
  Error,    \* an error value
  Self      \* the table itself, which clear() returns

Ids == { KeyId[k] : k \in Keys }

VARIABLES
  bind,     \* bind[i]: the binding of each live identity
  order,    \* the iteration order, every live identity once
  op,       \* the last method called and its arguments
  ret       \* what it returned

mapVars == <<bind, order, op, ret>>

Live == DOMAIN bind

Returns(method, value) == op' = method /\ ret' = value

Init ==
  /\ bind = << >>
  /\ order = << >>
  /\ op = <<"HashTable">>
  /\ ret = None

Update(k, v) ==
  /\ Returns(<<"set", k, v>>, v)
  /\ KeyId[k] \in Live
  /\ bind' = [bind EXCEPT ![KeyId[k]].value = v]
  /\ UNCHANGED order

Insert(k, v) ==
  /\ Returns(<<"set", k, v>>, v)
  /\ KeyId[k] \notin Live
  /\ bind' = [i \in Live \union {KeyId[k]} |->
                IF i = KeyId[k] THEN [key |-> k, value |-> v] ELSE bind[i]]
  /\ order' = Append(order, KeyId[k])

Delete(k) ==
  /\ op' = <<"remove", k>>
  /\ KeyId[k] \in Live
  /\ ret' = bind[KeyId[k]].value
  /\ bind' = [i \in Live \ {KeyId[k]} |-> bind[i]]
  /\ order' \in Seq(Live)
  /\ IsInjective(order')
  /\ Range(order') = Live \ {KeyId[k]}

DeleteAbsent(k) ==
  /\ Returns(<<"remove", k>>, None)
  /\ KeyId[k] \notin Live
  /\ UNCHANGED <<bind, order>>

Clear ==
  /\ Returns(<<"clear">>, Self)
  /\ bind' = << >>
  /\ order' = << >>

Get(k) ==
  /\ Returns(<<"get", k>>, IF KeyId[k] \in Live THEN bind[KeyId[k]].value ELSE None)
  /\ UNCHANGED <<bind, order>>

Contains(k) ==
  /\ Returns(<<"contains", k>>, IF KeyId[k] \in Live THEN 1 ELSE 0)
  /\ UNCHANGED <<bind, order>>

Size ==
  /\ Returns(<<"size">>, Cardinality(Live))
  /\ UNCHANGED <<bind, order>>

IsEmpty ==
  /\ Returns(<<"is_empty">>, IF Live = {} THEN 1 ELSE 0)
  /\ UNCHANGED <<bind, order>>

ListKeys ==
  /\ Returns(<<"keys">>, [n \in DOMAIN order |-> bind[order[n]].key])
  /\ UNCHANGED <<bind, order>>

ListValues ==
  /\ Returns(<<"values">>, [n \in DOMAIN order |-> bind[order[n]].value])
  /\ UNCHANGED <<bind, order>>

Reject ==
  /\ Returns(<<"error">>, Error)
  /\ UNCHANGED <<bind, order>>

Next ==
  \/ \E k \in Keys, v \in Vals : Update(k, v) \/ Insert(k, v)
  \/ \E k \in Keys : Delete(k) \/ DeleteAbsent(k) \/ Get(k) \/ Contains(k)
  \/ Clear \/ Size \/ IsEmpty \/ ListKeys \/ ListValues \/ Reject

Spec == Init /\ [][Next]_mapVars
=============================================================================
