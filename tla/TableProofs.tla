---------------------------- MODULE TableProofs ----------------------------
(***************************************************************************)
(* Proofs about the tables that have to stay true to what they were filled *)
(* from: the index of a hash table, the results remembered by argument,    *)
(* the files an expansion has loaded, the documents a language server has  *)
(* been sent.  They share no state, and nothing is said of two of them.    *)
(*                                                                         *)
(* HashTable: for any set of keys, however identities coincide, the index  *)
(* is exact and a hash table implements the map specification.  Memo: for  *)
(* any program of tame definitions, the results that are remembered by     *)
(* argument are never seen.                                                *)
(*                                                                         *)
(* Imports: for any files with any contents, `loading` is the recursion    *)
(* itself, a file is loaded once and after all it imports, the file run is *)
(* never imported by a program that expands, and an error "circular" names *)
(* a real cycle.                                                           *)
(*                                                                         *)
(* Lsp, for any documents, texts, numbers and pipes: what is in a pipe     *)
(* will be read in order, and so each message in it has a future: the      *)
(* documents the server will have when it comes to the message, and how    *)
(* many requests it will have read by then; what the editor will show, and *)
(* how many answers it will have.  The invariant says that there are such  *)
(* futures, that they begin with what is there now, that every message     *)
(* fits into its own, and that they end with what the user sees.           *)
(***************************************************************************)
EXTENDS HashTable, Memo, Imports, Lsp, SequenceLemmas, FiniteSetTheorems

(* The hash table.                                                         *)
HashInv == TypeOK /\ IndexExact

(* A sequence without its last element.                                    *)
LEMMA FrontProperties ==
  ASSUME NEW S, NEW s \in Seq(S), Len(s) > 0
  PROVE  /\ SubSeq(s, 1, Len(s) - 1) \in Seq(S)
         /\ Len(SubSeq(s, 1, Len(s) - 1)) = Len(s) - 1
         /\ \A m \in 1..(Len(s) - 1) : SubSeq(s, 1, Len(s) - 1)[m] = s[m]
<1>1. PICK n \in Nat : Len(s) = n + 1
  <2>1. Len(s) \in Nat
    OBVIOUS
  <2>2. Len(s) - 1 \in Nat /\ Len(s) = (Len(s) - 1) + 1
    BY <2>1
  <2>. QED  BY <2>2
<1>2. Len(s) - 1 = n
  BY <1>1
<1>3. \A i \in 1..n : s[i] \in S
  BY <1>1, ElementOfSeq
<1>4. n - 1 + 1 = n /\ (1 <= n \/ n = 0) /\ 1 \in Int /\ n \in Int
  BY <1>1
<1>5. \A m, k \in Int : (\A i \in m..k : s[i] \in S)
         => /\ SubSeq(s, m, k) \in Seq(S)
            /\ m <= k => Len(SubSeq(s, m, k)) = k - m + 1
            /\ ~(m <= k) => Len(SubSeq(s, m, k)) = 0
  BY SubSeqProperties, Zenon
<1>6. /\ SubSeq(s, 1, n) \in Seq(S)
      /\ 1 <= n => Len(SubSeq(s, 1, n)) = n - 1 + 1
      /\ ~(1 <= n) => Len(SubSeq(s, 1, n)) = 0
  BY <1>3, <1>4, <1>5, Zenon
<1>7. \A l : (1 <= n => l = n - 1 + 1) /\ (~(1 <= n) => l = 0) => l = n
  BY <1>4
<1>8. Len(SubSeq(s, 1, n)) = n
  BY <1>6, <1>7, Zenon
<1>9. \A i \in 1..n : SubSeq(s, 1, n)[i] = s[i]
  BY <1>3
<1>. QED  BY <1>2, <1>6, <1>8, <1>9

LEMMA InitInv == Init => HashInv
BY DEF Init, HashInv, TypeOK, IndexExact

LEMMA QueriesInv ==
  ASSUME HashInv, UNCHANGED <<entries, index>>
  PROVE  HashInv'
BY DEF HashInv, TypeOK, IndexExact

LEMMA SetPresentInv ==
  ASSUME HashInv, NEW k \in Keys, NEW v \in Vals, SetPresent(k, v)
  PROVE  HashInv'
<1> DEFINE n == index[KeyId[k]]
           e == [entries[n] EXCEPT !.value = v]
<1>1. /\ entries \in Seq(Entry)
      /\ n \in 1..Len(entries)
  BY DEF HashInv, TypeOK, SetPresent
<1>2. entries[n] \in Entry
  BY <1>1, ElementOfSeq
<1>3. e \in Entry /\ e.key = entries[n].key
  BY <1>2 DEF Entry
<1>4. entries' = [entries EXCEPT ![n] = e]
  BY DEF SetPresent
<1>5. /\ entries' \in Seq(Entry)
      /\ Len(entries') = Len(entries)
      /\ \A m \in 1..Len(entries) : entries'[m] = IF m = n THEN e ELSE entries[m]
  BY <1>1, <1>3, <1>4, ExceptSeq
<1>6. \A m \in 1..Len(entries) : entries'[m].key = entries[m].key
  BY <1>3, <1>5
<1>. QED  BY <1>2, <1>3, <1>4, <1>5, <1>6 DEF HashInv, TypeOK, IndexExact, SetPresent

LEMMA SetNewInv ==
  ASSUME HashInv, NEW k \in Keys, NEW v \in Vals, SetNew(k, v)
  PROVE  HashInv'
BY DEF SetNew, HashInv, TypeOK, IndexExact, Entry, Ids

(* Taking an entry out keeps the invariant and every other binding.        *)
LEMMA RemoveLastEffect ==
  ASSUME HashInv, NEW k \in Keys, RemoveLast(k)
  PROVE  /\ HashInv'
         /\ DOMAIN index' = DOMAIN index \ {KeyId[k]}
         /\ \A i \in DOMAIN index' : entries'[index'[i]] = entries[index[i]]
<1>1. /\ entries \in Seq(Entry)
      /\ Len(entries) \in 1..Len(entries)
      /\ index[KeyId[k]] = Len(entries)
      /\ KeyId[k] = KeyId[entries[Len(entries)].key]
  BY DEF HashInv, TypeOK, IndexExact, RemoveLast
<1>2. /\ entries' \in Seq(Entry)
      /\ Len(entries') = Len(entries) - 1
      /\ \A m \in 1..Len(entries') : entries'[m] = entries[m]
  BY <1>1, FrontProperties DEF RemoveLast
<1>3. /\ DOMAIN index' = DOMAIN index \ {KeyId[k]}
      /\ \A i \in DOMAIN index' : index'[i] = index[i]
  BY DEF RemoveLast
<1>4. \A i \in DOMAIN index' : index[i] \in 1..(Len(entries) - 1)
  BY <1>1, <1>3 DEF HashInv, TypeOK, IndexExact
<1>5. TypeOK'
  BY <1>1, <1>2, <1>3, <1>4 DEF HashInv, TypeOK
<1>6. IndexExact'
  BY <1>1, <1>2, <1>3, <1>4 DEF HashInv, IndexExact
<1>. QED  BY <1>2, <1>3, <1>4, <1>5, <1>6 DEF HashInv

LEMMA RemoveSwapEffect ==
  ASSUME HashInv, NEW k \in Keys, RemoveSwap(k)
  PROVE  /\ HashInv'
         /\ DOMAIN index' = DOMAIN index \ {KeyId[k]}
         /\ \A i \in DOMAIN index' : entries'[index'[i]] = entries[index[i]]
<1> DEFINE hole == index[KeyId[k]]
           filled == [entries EXCEPT ![hole] = Last]
<1>1. /\ entries \in Seq(Entry)
      /\ Len(entries) \in 1..Len(entries)
      /\ hole \in 1..(Len(entries) - 1)
      /\ KeyId[k] = KeyId[entries[hole].key]
  BY DEF HashInv, TypeOK, IndexExact, RemoveSwap
<1>2. Last \in Entry /\ Last = entries[Len(entries)]
  BY <1>1, ElementOfSeq DEF Last
<1>3. /\ filled \in Seq(Entry)
      /\ Len(filled) = Len(entries)
      /\ \A m \in 1..Len(entries) : filled[m] = IF m = hole THEN Last ELSE entries[m]
  BY <1>1, <1>2, ExceptSeq
<1>4. entries' = SubSeq(filled, 1, Len(entries) - 1)
  BY DEF RemoveSwap
<1>5. /\ entries' \in Seq(Entry)
      /\ Len(entries') = Len(entries) - 1
      /\ \A m \in 1..Len(entries') : entries'[m] = filled[m]
  <2>. HIDE DEF filled
  <2>. QED  BY <1>1, <1>3, <1>4, FrontProperties
<1>6. /\ DOMAIN index' = DOMAIN index \ {KeyId[k]}
      /\ \A i \in DOMAIN index' : index'[i] = IF i = KeyId[Last.key] THEN hole ELSE index[i]
  BY <1>1, <1>2, SMTT(30) DEF HashInv, IndexExact, RemoveSwap
<1> HIDE DEF hole, filled
<1>7. KeyId[Last.key] \in DOMAIN index' /\ index[KeyId[Last.key]] = Len(entries)
  BY <1>1, <1>2, <1>6 DEF HashInv, IndexExact
<1>8. \A m \in 1..(Len(entries) - 1) : entries'[m] = IF m = hole THEN Last ELSE entries[m]
  BY <1>1, <1>3, <1>5
<1>9. \A i \in DOMAIN index' :
        IF i = KeyId[Last.key]
          THEN index'[i] = hole
          ELSE index'[i] = index[i] /\ index[i] \in 1..(Len(entries) - 1) /\ index[i] # hole
  <2> SUFFICES ASSUME NEW i \in DOMAIN index', i # KeyId[Last.key]
               PROVE  index[i] \in 1..(Len(entries) - 1) /\ index[i] # hole
    BY <1>6
  <2>1. i \in DOMAIN index /\ i # KeyId[k] /\ index[i] \in 1..Len(entries)
    BY <1>6 DEF HashInv, TypeOK
  <2>2. KeyId[entries[index[i]].key] = i
    BY <2>1 DEF HashInv, IndexExact
  <2>. QED  BY <1>1, <1>2, <2>1, <2>2
<1>10. TypeOK'
  BY <1>1, <1>5, <1>6, <1>9 DEF HashInv, TypeOK
<1>11. ASSUME NEW i \in DOMAIN index' PROVE KeyId[entries'[index'[i]].key] = i
  <2>1. CASE i = KeyId[Last.key]
    BY <2>1, <1>1, <1>8, <1>9
  <2>2. CASE i # KeyId[Last.key]
    BY <2>2, <1>6, <1>8, <1>9 DEF HashInv, IndexExact
  <2>. QED  BY <2>1, <2>2
<1>12. ASSUME NEW m \in 1..Len(entries')
       PROVE  KeyId[entries'[m].key] \in DOMAIN index' /\ index'[KeyId[entries'[m].key]] = m
  <2>1. CASE m = hole
    BY <2>1, <1>1, <1>5, <1>6, <1>7, <1>8
  <2>2. CASE m # hole
    <3>1. /\ entries'[m] = entries[m]
          /\ m \in 1..Len(entries)
          /\ m # Len(entries)
      BY <2>2, <1>1, <1>5, <1>8
    <3>2. KeyId[entries[m].key] \in DOMAIN index /\ index[KeyId[entries[m].key]] = m
      BY <3>1 DEF HashInv, IndexExact
    <3>3. KeyId[entries[m].key] # KeyId[k] /\ KeyId[entries[m].key] # KeyId[Last.key]
      BY <2>2, <3>1, <3>2, <1>7 DEF hole
    <3>. QED  BY <3>1, <3>2, <3>3, <1>6
  <2>. QED  BY <2>1, <2>2
<1>13. \A i \in DOMAIN index' : entries'[index'[i]] = entries[index[i]]
  BY <1>1, <1>2, <1>7, <1>8, <1>9
<1>14. DOMAIN index' = DOMAIN index \ {KeyId[k]}
  BY <1>6
<1>. QED  BY <1>10, <1>11, <1>12, <1>13, <1>14 DEF HashInv, IndexExact

LEMMA NextInv == HashInv /\ [Next]_vars => HashInv'
<1> SUFFICES ASSUME HashInv, [Next]_vars PROVE HashInv'
  OBVIOUS
<1>1. ASSUME NEW k \in Keys, NEW v \in Vals, SetPresent(k, v) PROVE HashInv'
  BY <1>1, SetPresentInv
<1>2. ASSUME NEW k \in Keys, NEW v \in Vals, SetNew(k, v) PROVE HashInv'
  BY <1>2, SetNewInv
<1>3. ASSUME NEW k \in Keys, RemoveLast(k) PROVE HashInv'
  BY <1>3, RemoveLastEffect
<1>4. ASSUME NEW k \in Keys, RemoveSwap(k) PROVE HashInv'
  BY <1>4, RemoveSwapEffect
<1>5. ASSUME NEW k \in Keys, RemoveAbsent(k) \/ Get(k) \/ Contains(k) PROVE HashInv'
  BY <1>5, QueriesInv DEF RemoveAbsent, Get, Contains
<1>6. CASE Clear
  BY <1>6 DEF Clear, HashInv, TypeOK, IndexExact
<1>7. CASE Size \/ IsEmpty \/ ListKeys \/ ListValues \/ Reject
  BY <1>7, QueriesInv DEF Size, IsEmpty, ListKeys, ListValues, Reject
<1>8. CASE UNCHANGED vars
  BY <1>8, QueriesInv DEF vars
<1>. QED  BY <1>1, <1>2, <1>3, <1>4, <1>5, <1>6, <1>7, <1>8 DEF Next

(* The vector and the index stay well formed, and the index maps exactly   *)
(* the identities of the stored keys to their positions.                   *)
THEOREM Invariance == Spec => []TypeOK /\ []IndexExact
<1>1. HashInv => TypeOK /\ IndexExact
  BY DEF HashInv
<1>. QED  BY <1>1, InitInv, NextInv, PTL DEF Spec

-----------------------------------------------------------------------------
(* The positions of the vector enumerate the live identities.              *)
OrderEnumerates ==
  /\ Order \in Seq(DOMAIN Bindings)
  /\ Map!IsInjective(Order)
  /\ Map!Range(Order) = DOMAIN Bindings
  /\ DOMAIN Order = 1..Len(entries)

LEMMA InvOrder == HashInv => OrderEnumerates
<1> SUFFICES ASSUME HashInv PROVE OrderEnumerates
  OBVIOUS
<1>1. /\ DOMAIN Bindings = DOMAIN index
      /\ DOMAIN entries = 1..Len(entries)
      /\ Len(entries) \in Nat
  BY DEF Bindings, HashInv, TypeOK
<1>2. /\ DOMAIN Order = 1..Len(entries)
      /\ \A n \in 1..Len(entries) : Order[n] = KeyId[entries[n].key]
  BY <1>1 DEF Order
<1>3. Order \in [1..Len(entries) -> DOMAIN index]
  BY <1>1 DEF Order, HashInv, IndexExact
<1>4. Map!IsInjective(Order)
  BY <1>2 DEF HashInv, IndexExact, Map!IsInjective
<1>5. \A i \in DOMAIN index : index[i] \in 1..Len(entries) /\ Order[index[i]] = i
  BY <1>2 DEF HashInv, TypeOK, IndexExact
<1>6. Map!Range(Order) = DOMAIN index
  BY <1>2, <1>3, <1>5 DEF Map!Range
<1>. QED  BY <1>1, <1>2, <1>3, <1>4, <1>6 DEF OrderEnumerates

LEMMA InvOrderNext == HashInv' => OrderEnumerates'
BY InvOrder, PTL

LEMMA LiveCount == HashInv => Cardinality(DOMAIN Bindings) = Len(entries)
<1> SUFFICES ASSUME HashInv PROVE Cardinality(DOMAIN Bindings) = Len(entries)
  OBVIOUS
<1>1. Len(entries) \in Nat
  BY DEF HashInv, TypeOK
<1>2. Order \in Bijection(1..Len(entries), DOMAIN Bindings)
  <2>1. /\ Order \in [1..Len(entries) -> DOMAIN Bindings]
        /\ DOMAIN Order = 1..Len(entries)
    BY InvOrder DEF OrderEnumerates
  <2>2. \A i \in DOMAIN Bindings : \E n \in 1..Len(entries) : Order[n] = i
    BY <2>1, InvOrder DEF OrderEnumerates, Map!Range
  <2>3. IsInjective(Order)
    BY InvOrder DEF OrderEnumerates, IsInjective, Map!IsInjective
  <2>. QED  BY <2>1, <2>2, <2>3 DEF Bijection, Injection, Surjection
<1>. QED  BY <1>1, <1>2, FS_CountingElements DEF ExistsBijection

LEMMA UpdateRefines ==
  ASSUME HashInv, NEW k \in Keys, NEW v \in Vals, SetPresent(k, v)
  PROVE  Map!Update(k, v)
<1> DEFINE n == index[KeyId[k]]
           e == [entries[n] EXCEPT !.value = v]
<1>1. /\ entries \in Seq(Entry)
      /\ KeyId[k] \in DOMAIN index
      /\ n \in 1..Len(entries)
      /\ DOMAIN entries = 1..Len(entries)
      /\ index' = index
  BY DEF HashInv, TypeOK, SetPresent
<1>2. e.key = entries[n].key
  <2>1. entries[n] \in Entry
    BY <1>1, ElementOfSeq
  <2>. QED  BY <2>1 DEF Entry
<1>3. /\ DOMAIN entries' = DOMAIN entries
      /\ \A m \in DOMAIN entries : entries'[m] = IF m = n THEN e ELSE entries[m]
  BY <1>1 DEF SetPresent
<1>4. UNCHANGED Order
  <2>1. \A m \in DOMAIN entries : entries'[m].key = entries[m].key
    BY <1>2, <1>3
  <2>. QED  BY <1>3, <2>1 DEF Order
<1>5. \A i \in DOMAIN index : index[i] = n <=> i = KeyId[k]
  BY <1>1 DEF HashInv, IndexExact
<1>6. Bindings' = [Bindings EXCEPT ![KeyId[k]].value = v]
  <2>1. Bindings' = [i \in DOMAIN index |-> entries'[index[i]]]
    BY <1>1 DEF Bindings
  <2>2. [Bindings EXCEPT ![KeyId[k]].value = v]
          = [i \in DOMAIN index |-> IF i = KeyId[k] THEN e ELSE entries[index[i]]]
    BY <1>1 DEF Bindings
  <2>3. \A i \in DOMAIN index :
          entries'[index[i]] = IF i = KeyId[k] THEN e ELSE entries[index[i]]
    BY <1>1, <1>3, <1>5 DEF HashInv, TypeOK
  <2>. QED  BY <2>1, <2>2, <2>3
<1>. QED  BY <1>1, <1>4, <1>6
          DEF SetPresent, Bindings, Returns, Map!Update, Map!Live, Map!Returns

LEMMA InsertRefines ==
  ASSUME HashInv, NEW k \in Keys, NEW v \in Vals, SetNew(k, v)
  PROVE  Map!Insert(k, v)
<1> DEFINE e == [key |-> k, value |-> v]
<1>1. /\ entries \in Seq(Entry) /\ e \in Entry
      /\ Len(entries) \in Nat
      /\ KeyId[k] \notin DOMAIN index
      /\ entries' = Append(entries, e)
  BY DEF HashInv, TypeOK, SetNew, Entry
<1>2. /\ DOMAIN entries = 1..Len(entries)
      /\ DOMAIN entries' = 1..(Len(entries) + 1)
      /\ \A m \in 1..(Len(entries) + 1) :
           entries'[m] = IF m = Len(entries) + 1 THEN e ELSE entries[m]
  BY <1>1
<1>3. Bindings' = [i \in DOMAIN index \union {KeyId[k]} |->
                     IF i = KeyId[k] THEN e ELSE Bindings[i]]
  <2>1. Bindings' = [i \in DOMAIN index \union {KeyId[k]} |-> entries'[index'[i]]]
    BY DEF Bindings, SetNew
  <2>2. \A i \in DOMAIN index \union {KeyId[k]} :
          entries'[index'[i]] = IF i = KeyId[k] THEN e ELSE Bindings[i]
    BY <1>1, <1>2 DEF SetNew, Bindings, HashInv, TypeOK
  <2>. QED  BY <2>1, <2>2
<1>4. Order' = Append(Order, KeyId[k])
  <2>1. Order \in Seq(DOMAIN index) /\ DOMAIN Order = 1..Len(entries)
    BY InvOrder DEF OrderEnumerates, Bindings
  <2>2. Len(Order) = Len(entries)
    BY <1>1, <2>1
  <2>3. /\ DOMAIN Append(Order, KeyId[k]) = 1..(Len(entries) + 1)
        /\ \A m \in 1..(Len(entries) + 1) :
             Append(Order, KeyId[k])[m] = IF m = Len(entries) + 1 THEN KeyId[k] ELSE Order[m]
        /\ Append(Order, KeyId[k]) = [m \in 1..(Len(entries) + 1) |-> Append(Order, KeyId[k])[m]]
    BY <1>1, <2>1, <2>2
  <2>4. Order' = [m \in 1..(Len(entries) + 1) |-> KeyId[entries'[m].key]]
    BY <1>2 DEF Order
  <2>5. \A m \in 1..(Len(entries) + 1) :
          KeyId[entries'[m].key] = IF m = Len(entries) + 1 THEN KeyId[k] ELSE Order[m]
    BY <1>1, <1>2 DEF Order
  <2>. QED  BY <2>3, <2>4, <2>5
<1>. QED  BY <1>1, <1>3, <1>4
          DEF SetNew, Bindings, Returns, Map!Insert, Map!Live, Map!Returns

LEMMA DeleteRefines ==
  ASSUME HashInv, HashInv', NEW k \in Keys, RemoveLast(k) \/ RemoveSwap(k)
  PROVE  Map!Delete(k)
<1> DEFINE n == index[KeyId[k]]
<1>1. /\ entries \in Seq(Entry)
      /\ Len(entries) \in Nat
      /\ KeyId[k] \in DOMAIN index
      /\ n \in 1..Len(entries)
  BY DEF HashInv, TypeOK, RemoveLast, RemoveSwap
<1>2. DOMAIN index' = DOMAIN index \ {KeyId[k]}
  BY RemoveLastEffect, RemoveSwapEffect
<1>3. \A i \in DOMAIN index' : entries'[index'[i]] = entries[index[i]]
  BY RemoveLastEffect, RemoveSwapEffect
<1>4. ret' = Bindings[KeyId[k]].value /\ op' = <<"remove", k>>
  BY <1>1 DEF RemoveLast, RemoveSwap, Last, Bindings, Returns
<1>5. Bindings' = [i \in DOMAIN Bindings \ {KeyId[k]} |-> Bindings[i]]
  BY <1>2, <1>3 DEF Bindings
<1>6. /\ Order' \in Seq(DOMAIN Bindings')
      /\ Map!IsInjective(Order')
      /\ Map!Range(Order') = DOMAIN Bindings'
  BY InvOrderNext DEF OrderEnumerates
<1>. QED  BY <1>1, <1>4, <1>5, <1>6, SeqMonotonic
          DEF Bindings, Map!Delete, Map!Live, Map!Returns

LEMMA InitRefines == Init => Map!Init
BY DEF Init, Map!Init, Bindings, Order

LEMMA StepRefines ==
  ASSUME HashInv, HashInv', [Next]_vars
  PROVE  [Map!Next]_(Map!mapVars)
<1> USE DEF Map!Next
<1>1. ASSUME NEW k \in Keys, NEW v \in Vals, SetPresent(k, v) PROVE Map!Next
  BY <1>1, UpdateRefines
<1>2. ASSUME NEW k \in Keys, NEW v \in Vals, SetNew(k, v) PROVE Map!Next
  BY <1>2, InsertRefines
<1>3. ASSUME NEW k \in Keys, RemoveLast(k) \/ RemoveSwap(k) PROVE Map!Next
  BY <1>3, DeleteRefines
<1>4. ASSUME NEW k \in Keys, RemoveAbsent(k) PROVE Map!DeleteAbsent(k)
  BY <1>4 DEF RemoveAbsent, Map!DeleteAbsent, Map!Live, Map!Returns, Returns, Bindings, Order
<1>5. ASSUME NEW k \in Keys, Get(k) PROVE Map!Get(k)
  BY <1>5 DEF Get, Map!Get, Map!Live, Map!Returns, Returns, Bindings, Order
<1>6. ASSUME NEW k \in Keys, Contains(k) PROVE Map!Contains(k)
  BY <1>6 DEF Contains, Map!Contains, Map!Live, Map!Returns, Returns, Bindings, Order
<1>7. CASE Clear
  BY <1>7 DEF Clear, Map!Clear, Map!Returns, Returns, Bindings, Order
<1>8. CASE Size
  <2>1. Map!Cardinality(DOMAIN Bindings) = Cardinality(DOMAIN Bindings)
    BY DEF Map!Cardinality, Cardinality
  <2>2. UNCHANGED <<Bindings, Order>>
    BY <1>8 DEF Size, Bindings, Order
  <2>. QED  BY <1>8, <2>1, <2>2, LiveCount DEF Size, Map!Size, Map!Live, Map!Returns, Returns
<1>9. CASE IsEmpty
  <2>1. Len(entries) = 0 <=> DOMAIN Bindings = {}
    <3>1. Len(entries) \in Nat
      BY DEF HashInv, TypeOK
    <3>2. CASE Len(entries) = 0
      <4>1. \A n : n \notin 1..Len(entries)
        BY <3>2
      <4>. QED  BY <3>2, <4>1, Zenon DEF Bindings, HashInv, TypeOK
    <3>3. CASE Len(entries) # 0
      <4>1. 1 \in 1..Len(entries)
        BY <3>1, <3>3
      <4>. QED  BY <4>1, <3>3 DEF Bindings, HashInv, IndexExact
    <3>. QED  BY <3>2, <3>3
  <2>. QED  BY <1>9, <2>1
            DEF IsEmpty, Map!IsEmpty, Map!Live, Map!Returns, Returns, Bindings, Order
<1>10. \A n \in DOMAIN entries : /\ Order[n] \in DOMAIN index
                                 /\ Bindings[Order[n]] = entries[n]
  BY DEF Order, Bindings, HashInv, TypeOK, IndexExact
<1>11. DOMAIN Order = DOMAIN entries
  BY DEF Order
<1>12. CASE ListKeys
  BY <1>10, <1>11, <1>12 DEF ListKeys, Map!ListKeys, Map!Returns, Returns, Bindings, Order
<1>13. CASE ListValues
  BY <1>10, <1>11, <1>13 DEF ListValues, Map!ListValues, Map!Returns, Returns, Bindings, Order
<1>14. CASE Reject
  BY <1>14 DEF Reject, Map!Reject, Map!Returns, Returns, Bindings, Order
<1>15. CASE UNCHANGED vars
  BY <1>15 DEF vars, Map!mapVars, Bindings, Order
<1>. QED  BY <1>1, <1>2, <1>3, <1>4, <1>5, <1>6, <1>7, <1>8, <1>9, <1>12, <1>13,
             <1>14, <1>15 DEF Next

(* Every behaviour of a HashTable is one of the map specification: what    *)
(* the methods return never depends on how removals permuted the entries.  *)
THEOREM Refinement == Spec => ImplementsMap
<1>1. HashInv /\ HashInv' /\ [Next]_vars => [Map!Next]_(Map!mapVars)
  BY StepRefines
<1>. QED  BY <1>1, InitInv, NextInv, InitRefines, PTL DEF Spec, ImplementsMap, Map!Spec

-----------------------------------------------------------------------------
(***************************************************************************)
(* Memo.  A call is a recursion on its argument: each fact about it is     *)
(* proved for argument 0 and from n to n + 1.                              *)
(***************************************************************************)

Kinds == {"int", "float"}
KeySet == (Definitions \X Kinds \X Nat) \union (Definitions \X Nat)
Results == UNION {[K -> Nat] : K \in SUBSET KeySet}
Outcomes == [value : Nat, results : Results]
Arg(kind, n) == [kind |-> kind, n |-> n]

(* What a body calls stays among the definitions D.                        *)
ClosedUnder(next, D) == D \subseteq Definitions /\ next \in [D -> D]

LEMMA NaturalNumbers ==
  ASSUME NEW d \in Definitions
  PROVE  Base[d] \in Nat /\ Step[d] \in Nat /\ Name[d] \in Names /\ Callee[d] \in Names
BY MemoAssumption

LEMMA KeyType ==
  ASSUME NEW d \in Definitions, NEW kind \in Kinds, NEW n \in Nat, NEW boxed \in BOOLEAN
  PROVE  /\ KeyIn(boxed, d, Arg(kind, n)) \in KeySet
         /\ KeyIn(boxed, d, Arg(kind, n))[1] = d
<1>1. Printed(Arg(kind, n)) \in Nat
  <2>1. \A m \in Alike : m \in Nat
    BY MemoAssumption
  <2>2. CASE Arg(kind, n).kind = "float" /\ n \in Alike
    <3>1. (CHOOSE m \in Alike : TRUE) \in Alike
      BY <2>2
    <3>. QED  BY <2>1, <2>2, <3>1 DEF Printed, Arg
  <2>3. CASE ~(Arg(kind, n).kind = "float" /\ n \in Alike)
    BY <2>3 DEF Printed, Arg
  <2>. QED  BY <2>2, <2>3
<1>2. Arg(kind, n).kind = kind /\ Arg(kind, n).n = n
  BY DEF Arg
<1>. QED  BY <1>1, <1>2 DEF KeyIn, Key, NativeKey, KeySet

(* One number prints like none but itself.                                 *)
PrintsExactly == \A m, n \in Alike : m = n

LEMMA KeyTells ==
  ASSUME PrintsExactly, NEW d \in Definitions, NEW e \in Definitions,
         NEW k \in Kinds, NEW l \in Kinds, NEW m \in Nat, NEW n \in Nat,
         NEW boxed \in BOOLEAN,
         KeyIn(boxed, d, Arg(k, m)) = KeyIn(boxed, e, Arg(l, n))
  PROVE  d = e /\ m = n
<1>1. /\ Arg(k, m).kind = k /\ Arg(k, m).n = m
      /\ Arg(l, n).kind = l /\ Arg(l, n).n = n
  BY DEF Arg
<1>2. CASE boxed
  <2>1. d = e /\ k = l /\ Printed(Arg(k, m)) = Printed(Arg(l, n))
    BY <1>1, <1>2 DEF KeyIn, Key
  <2>2. \A i \in Alike : (CHOOSE j \in Alike : TRUE) = i
    BY DEF PrintsExactly
  <2>3. Printed(Arg(k, m)) = m /\ Printed(Arg(l, n)) = n
    BY <1>1, <2>2 DEF Printed
  <2>. QED  BY <2>1, <2>3
<1>3. CASE ~boxed
  BY <1>1, <1>3 DEF KeyIn, NativeKey
<1>. QED  BY <1>2, <1>3

LEMMA Remembers ==
  ASSUME NEW r \in Results, NEW key \in KeySet, NEW v \in Nat
  PROVE  /\ With(r, key, v) \in Results
         /\ DOMAIN With(r, key, v) = DOMAIN r \union {key}
         /\ With(r, key, v)[key] = v
         /\ \A k \in DOMAIN r : k # key => With(r, key, v)[k] = r[k]
<1> DEFINE s == [k \in {key} \union DOMAIN r |-> IF k = key THEN v ELSE r[k]]
<1>1. With(r, key, v) = s
  BY DEF With
<1>2. DOMAIN r \in SUBSET KeySet /\ r \in [DOMAIN r -> Nat]
  BY DEF Results
<1>3. s \in [{key} \union DOMAIN r -> Nat] /\ {key} \union DOMAIN r \in SUBSET KeySet
  BY <1>2
<1>4. s \in Results
  BY <1>3 DEF Results
<1>. QED  BY <1>1, <1>4

LEMMA AnswerType ==
  ASSUME NEW r \in Results, NEW d \in Definitions, NEW key \in KeySet, NEW v \in Nat,
         NEW after \in Results
  PROVE  Answer(r, d, key, v, after) \in Outcomes
<1>1. key \in DOMAIN r => r[key] \in Nat
  BY DEF Results
<1>. QED  BY <1>1, Remembers DEF Answer, Outcomes

LEMMA OutcomeParts ==
  ASSUME NEW o \in Outcomes
  PROVE  o.value \in Nat /\ o.results \in Results
BY DEF Outcomes

(* CallKeeping and Plain are what their definitions say.                   *)
LEMMA Calls ==
  ASSUME NEW r \in Results, NEW D, NEW next, ClosedUnder(next, D), NEW kind \in Kinds,
         NEW boxed \in BOOLEAN
  PROVE  LET call == CallKeeping(r, next, kind, boxed)
             key(d, n) == KeyIn(boxed, d, Arg(kind, n))
         IN  /\ \A n \in Nat, d \in D : call[n][d] \in Outcomes
             /\ \A d \in D : call[0][d] = Answer(r, d, key(d, 0), Base[d], r)
             /\ \A n \in Nat, d \in D :
                  call[n + 1][d] = Answer(r, d, key(d, n + 1), call[n][next[d]].value + Step[d],
                                          call[n][next[d]].results)
<1> DEFINE call == CallKeeping(r, next, kind, boxed)
           key(d, n) == KeyIn(boxed, d, Arg(kind, n))
           S == [D -> Outcomes]
           first == [d \in D |-> Answer(r, d, key(d, 0), Base[d], r)]
           Then(n, h) == [d \in D |-> Answer(r, d, key(d, n + 1), h[next[d]].value + Step[d],
                                             h[next[d]].results)]
           F == [n \in Nat |-> [h \in S |-> Then(n, h)]]
<1>1. D \subseteq Definitions /\ next \in [D -> D] /\ DOMAIN next = D
  BY DEF ClosedUnder
<1>2. \A n \in Nat, d \in D : key(d, n) \in KeySet
  BY <1>1, KeyType
<1>3. \A d \in D : Answer(r, d, key(d, 0), Base[d], r) \in Outcomes
  <2> SUFFICES ASSUME NEW d \in D PROVE Answer(r, d, key(d, 0), Base[d], r) \in Outcomes
    OBVIOUS
  <2>1. d \in Definitions /\ key(d, 0) \in KeySet /\ Base[d] \in Nat
    BY <1>1, <1>2, NaturalNumbers
  <2> HIDE DEF key
  <2>. QED  BY <2>1, AnswerType
<1>4. first \in S
  BY <1>3
<1>5. \A n \in Nat, h \in S : Then(n, h) \in S
  <2> SUFFICES ASSUME NEW n \in Nat, NEW h \in S, NEW d \in D
               PROVE  Answer(r, d, key(d, n + 1), h[next[d]].value + Step[d], h[next[d]].results)
                        \in Outcomes
    OBVIOUS
  <2>1. d \in Definitions /\ key(d, n + 1) \in KeySet /\ Step[d] \in Nat
    BY <1>1, <1>2, NaturalNumbers
  <2>2. h[next[d]] \in Outcomes
    BY <1>1
  <2>3. h[next[d]].value + Step[d] \in Nat /\ h[next[d]].results \in Results
    BY <2>1, <2>2, OutcomeParts
  <2> HIDE DEF key
  <2>. QED  BY <2>1, <2>3, AnswerType
<1>6. F \in [Nat -> [S -> S]]
  BY <1>5
<1>7. PICK g : Recurs(g, S, first, F)
  <2> HIDE DEF F, S, first
  <2>. QED  BY <1>4, <1>6, Recursion
<1>8. /\ g \in [Nat -> S] /\ g[0] = first
      /\ \A n \in Nat : g[n] \in S /\ F[n][g[n]] = Then(n, g[n]) /\ g[n + 1] = Then(n, g[n])
  BY <1>7 DEF Recurs
<1> HIDE DEF F, S
<1> DEFINE Body(f, n) ==
             [d \in DOMAIN next |->
                LET ky == KeyIn(boxed, d, [kind |-> kind, n |-> n])
                    inner == f[n - 1][next[d]]
                IN  IF n = 0 THEN Answer(r, d, ky, Base[d], r)
                    ELSE Answer(r, d, ky, inner.value + Step[d], inner.results)]
<1>9. g = [n \in Nat |-> Body(g, n)]
  <2> SUFFICES ASSUME NEW n \in Nat PROVE g[n] = Body(g, n)
    BY <1>8
  <2>1. CASE n = 0
    BY <1>1, <1>8, <2>1 DEF Arg
  <2>2. CASE n # 0
    <3>1. n - 1 \in Nat /\ (n - 1) + 1 = n
      BY <2>2
    <3>2. g[n] = Then(n - 1, g[n - 1])
      BY <1>8, <3>1
    <3>. QED  BY <1>1, <2>2, <3>1, <3>2 DEF Arg
  <2>. QED  BY <2>1, <2>2
<1>10. call = [n \in Nat |-> Body(call, n)]
  BY <1>9 DEF CallKeeping
<1> HIDE DEF call
<1>11. \A n \in Nat : call[n] = Body(call, n)
  BY <1>10
<1>12. \A d \in D : call[0][d] = Answer(r, d, key(d, 0), Base[d], r)
  <2>1. call[0] = Body(call, 0)
    BY <1>11
  <2>. QED  BY <1>1, <2>1 DEF Arg
<1>13. \A n \in Nat, d \in D :
         call[n + 1][d] = Answer(r, d, key(d, n + 1), call[n][next[d]].value + Step[d],
                                 call[n][next[d]].results)
  <2> SUFFICES ASSUME NEW n \in Nat
               PROVE  \A d \in D :
                 call[n + 1][d] = Answer(r, d, key(d, n + 1), call[n][next[d]].value + Step[d],
                                         call[n][next[d]].results)
    OBVIOUS
  <2>1. n + 1 \in Nat /\ n + 1 # 0 /\ (n + 1) - 1 = n
    OBVIOUS
  <2>2. call[n + 1] = Body(call, n + 1)
    BY <1>11, <2>1
  <2>. QED  BY <1>1, <2>1, <2>2 DEF Arg
<1>14. \A n \in Nat : call[n] \in S
  <2> DEFINE P == {n \in Nat : call[n] \in S}
  <2>1. 0 \in P
    <3>1. call[0] = first
      BY <1>1, <1>11 DEF Arg
    <3>. QED  BY <1>4, <3>1
  <2>2. ASSUME NEW n \in P PROVE n + 1 \in P
    <3>1. n \in Nat /\ n + 1 \in Nat /\ n + 1 # 0 /\ (n + 1) - 1 = n /\ call[n] \in S
      OBVIOUS
    <3>2. call[n + 1] = Body(call, n + 1)
      BY <1>11, <3>1
    <3>3. call[n + 1] = Then(n, call[n])
      BY <1>1, <3>1, <3>2 DEF Arg
    <3>. QED  BY <1>5, <3>1, <3>3
  <2>3. P = Nat
    <3>1. P \in SUBSET Nat
      OBVIOUS
    <3> HIDE DEF P
    <3>. QED  BY <2>1, <2>2, <3>1, InductiveSet
  <2>. QED  BY <2>3
<1>15. \A n \in Nat, d \in D : call[n][d] \in Outcomes
  BY <1>14 DEF S
<1> HIDE DEF key, Body
<1>. QED  BY <1>12, <1>13, <1>15 DEF call, key

LEMMA Says ==
  ASSUME NEW D, NEW next, ClosedUnder(next, D)
  PROVE  LET say == Plain(next)
         IN  /\ \A n \in Nat, d \in D : say[n][d] \in Nat
             /\ \A d \in D : say[0][d] = Base[d]
             /\ \A n \in Nat, d \in D : say[n + 1][d] = say[n][next[d]] + Step[d]
<1> DEFINE say == Plain(next)
           S == [D -> Nat]
           first == [d \in D |-> Base[d]]
           Then(h) == [d \in D |-> h[next[d]] + Step[d]]
           F == [n \in Nat |-> [h \in S |-> Then(h)]]
           Body(f, n) == [d \in DOMAIN next |->
                            IF n = 0 THEN Base[d] ELSE f[n - 1][next[d]] + Step[d]]
<1>1. /\ D \subseteq Definitions /\ next \in [D -> D] /\ DOMAIN next = D
      /\ \A d \in D : Base[d] \in Nat /\ Step[d] \in Nat
  BY NaturalNumbers DEF ClosedUnder
<1>2. first \in S /\ F \in [Nat -> [S -> S]]
  BY <1>1
<1>3. PICK g : Recurs(g, S, first, F)
  <2> HIDE DEF F, S, first
  <2>. QED  BY <1>2, Recursion
<1>4. /\ g \in [Nat -> S] /\ g[0] = first
      /\ \A n \in Nat : g[n] \in S /\ g[n + 1] = Then(g[n])
  BY <1>3 DEF Recurs
<1> HIDE DEF F, S
<1>5. \A n \in Nat : g[n] = Body(g, n)
  <2> SUFFICES ASSUME NEW n \in Nat PROVE g[n] = Body(g, n)
    OBVIOUS
  <2>1. CASE n = 0
    BY <1>1, <1>4, <2>1
  <2>2. CASE n # 0
    <3>1. n - 1 \in Nat /\ (n - 1) + 1 = n
      BY <2>2
    <3>2. g[n] = Then(g[n - 1])
      BY <1>4, <3>1
    <3>. QED  BY <1>1, <2>2, <3>1, <3>2
  <2>. QED  BY <2>1, <2>2
<1>6. g = [n \in Nat |-> Body(g, n)]
  BY <1>4, <1>5
<1>7. say = [n \in Nat |-> Body(say, n)]
  BY <1>6 DEF Plain
<1> HIDE DEF say
<1>8. \A n \in Nat : say[n] = Body(say, n)
  BY <1>7
<1>9. say[0] = first
  <2>1. say[0] = Body(say, 0)
    BY <1>8
  <2>. QED  BY <1>1, <2>1
<1>10. \A n \in Nat : say[n + 1] = Then(say[n])
  <2> SUFFICES ASSUME NEW n \in Nat PROVE say[n + 1] = Then(say[n])
    OBVIOUS
  <2>1. n + 1 \in Nat /\ n + 1 # 0 /\ (n + 1) - 1 = n
    OBVIOUS
  <2>2. say[n + 1] = Body(say, n + 1)
    BY <1>8, <2>1
  <2>. QED  BY <1>1, <2>1, <2>2
<1>11. \A n \in Nat : say[n] \in S
  <2> DEFINE P == {n \in Nat : say[n] \in S}
  <2>1. 0 \in P
    BY <1>2, <1>9
  <2>2. ASSUME NEW n \in P PROVE n + 1 \in P
    <3>1. \A h \in S : Then(h) \in S
      BY <1>1 DEF S
    <3> HIDE DEF Then
    <3>. QED  BY <1>10, <3>1
  <2>3. P = Nat
    <3>1. P \in SUBSET Nat
      OBVIOUS
    <3> HIDE DEF P
    <3>. QED  BY <2>1, <2>2, <3>1, InductiveSet
  <2>. QED  BY <2>3
<1>. QED  BY <1>9, <1>10, <1>11 DEF say, S

(* Where the bodies of E call the same definitions, they say the same.     *)
LEMMA SameSays ==
  ASSUME NEW D, NEW next, ClosedUnder(next, D), NEW C, NEW other, ClosedUnder(other, C),
         NEW E \in SUBSET (C \intersect D), \A e \in E : next[e] = other[e] /\ next[e] \in E
  PROVE  \A n \in Nat, e \in E : Plain(next)[n][e] = Plain(other)[n][e]
<1> DEFINE P == {n \in Nat : \A e \in E : Plain(next)[n][e] = Plain(other)[n][e]}
<1>1. 0 \in P
  BY Says
<1>2. ASSUME NEW n \in P PROVE n + 1 \in P
  <2>1. \A e \in E : /\ Plain(next)[n + 1][e] = Plain(next)[n][next[e]] + Step[e]
                     /\ Plain(other)[n + 1][e] = Plain(other)[n][other[e]] + Step[e]
    BY Says
  <2>. QED  BY <2>1
<1>3. P = Nat
  <2>1. P \in SUBSET Nat
    OBVIOUS
  <2> HIDE DEF P
  <2>. QED  BY <1>1, <1>2, <2>1, InductiveSet
<1>. QED  BY <1>3

(* What is remembered of the definitions E is what they say.               *)
Right(r, next, E, boxed) ==
  \A e \in E : Memoizable(e) =>
    \A kind \in Kinds, n \in Nat :
      KeyIn(boxed, e, Arg(kind, n)) \in DOMAIN r => r[KeyIn(boxed, e, Arg(kind, n))] = Plain(next)[n][e]

LEMMA AnswerRight ==
  ASSUME PrintsExactly, NEW D, NEW next, ClosedUnder(next, D), NEW E \in SUBSET D,
         NEW r \in Results, NEW boxed \in BOOLEAN, Right(r, next, E, boxed),
         NEW kind \in Kinds, NEW n \in Nat, NEW e \in E,
         NEW after \in Results, Right(after, next, E, boxed)
  PROVE  LET o == Answer(r, e, KeyIn(boxed, e, Arg(kind, n)), Plain(next)[n][e], after)
         IN  /\ o.value = Plain(next)[n][e] /\ Right(o.results, next, E, boxed)
             /\ DOMAIN o.results \subseteq
                  DOMAIN r \union DOMAIN after \union {KeyIn(boxed, e, Arg(kind, n))}
<1> DEFINE key == KeyIn(boxed, e, Arg(kind, n))
           v == Plain(next)[n][e]
<1>1. e \in Definitions /\ E \subseteq Definitions
  BY DEF ClosedUnder
<1>2. key \in KeySet /\ v \in Nat
  BY <1>1, KeyType, Says
<1>3. CASE ~Memoizable(e)
  BY <1>3 DEF Answer
<1>4. CASE Memoizable(e) /\ key \in DOMAIN r
  <2>1. r[key] = v
    BY <1>4 DEF Right
  <2>. QED  BY <1>4, <2>1 DEF Answer
<1>5. CASE Memoizable(e) /\ key \notin DOMAIN r
  <2> DEFINE s == With(after, key, v)
  <2>1. /\ s \in Results /\ DOMAIN s = DOMAIN after \union {key} /\ s[key] = v
        /\ \A k \in DOMAIN after : k # key => s[k] = after[k]
    <3> HIDE DEF key, v
    <3>. QED  BY <1>2, Remembers
  <2> HIDE DEF s
  <2>2. Right(s, next, E, boxed)
    <3> SUFFICES ASSUME NEW d \in E, Memoizable(d), NEW l \in Kinds, NEW m \in Nat,
                        KeyIn(boxed, d, Arg(l, m)) \in DOMAIN s
                 PROVE  s[KeyIn(boxed, d, Arg(l, m))] = Plain(next)[m][d]
      BY DEF Right
    <3>1. CASE KeyIn(boxed, d, Arg(l, m)) = key
      <4>1. d = e /\ m = n
        BY <1>1, <3>1, KeyTells
      <4>. QED  BY <2>1, <3>1, <4>1
    <3>2. CASE KeyIn(boxed, d, Arg(l, m)) # key
      <4>1. KeyIn(boxed, d, Arg(l, m)) \in DOMAIN after
        BY <2>1, <3>2
      <4>. QED  BY <2>1, <3>2, <4>1 DEF Right
    <3>. QED  BY <3>1, <3>2
  <2>3. Answer(r, e, key, v, after) = [value |-> v, results |-> s]
    BY <1>5 DEF Answer, s
  <2> HIDE DEF key, v
  <2>4. PICK o : o = Answer(r, e, key, v, after)
    OBVIOUS
  <2>5. o.value = v /\ o.results = s
    BY <2>3, <2>4
  <2>. QED  BY <2>1, <2>2, <2>4, <2>5 DEF key, v
<1>. QED  BY <1>3, <1>4, <1>5

(* A call says what the bodies say, and remembers nothing else.            *)
LEMMA CallRight ==
  ASSUME PrintsExactly, NEW D, NEW next, ClosedUnder(next, D), NEW E \in SUBSET D,
         \A e \in E : next[e] \in E,
         NEW r \in Results, NEW boxed \in BOOLEAN, Right(r, next, E, boxed), NEW kind \in Kinds
  PROVE  \A n \in Nat, e \in E :
           LET o == CallKeeping(r, next, kind, boxed)[n][e]
           IN  /\ o.value = Plain(next)[n][e] /\ o.results \in Results
               /\ Right(o.results, next, E, boxed)
               /\ \A k \in DOMAIN o.results : k \in DOMAIN r \/ k[1] \in E
<1> DEFINE call == CallKeeping(r, next, kind, boxed)
           Good(n, e, o) ==
             /\ o.value = Plain(next)[n][e] /\ o.results \in Results
             /\ Right(o.results, next, E, boxed)
             /\ \A k \in DOMAIN o.results : k \in DOMAIN r \/ k[1] \in E
           P == {n \in Nat : \A e \in E : Good(n, e, call[n][e])}
           key(e, n) == KeyIn(boxed, e, Arg(kind, n))
<1>1. /\ \A n \in Nat, d \in D : call[n][d] \in Outcomes
      /\ \A d \in D : call[0][d] = Answer(r, d, key(d, 0), Base[d], r)
      /\ \A n \in Nat, d \in D :
           call[n + 1][d] = Answer(r, d, key(d, n + 1), call[n][next[d]].value + Step[d],
                                   call[n][next[d]].results)
  BY Calls
<1> HIDE DEF call
<1>2. \A n \in Nat, e \in E : key(e, n)[1] = e
  BY KeyType DEF ClosedUnder
<1>3. ASSUME NEW n \in Nat, NEW e \in E, NEW after \in Results, Right(after, next, E, boxed),
             \A k \in DOMAIN after : k \in DOMAIN r \/ k[1] \in E,
             call[n][e] = Answer(r, e, key(e, n), Plain(next)[n][e], after)
      PROVE  Good(n, e, call[n][e])
  <2>1. call[n][e].results \in Results
    BY <1>1, OutcomeParts
  <2>2. /\ call[n][e].value = Plain(next)[n][e] /\ Right(call[n][e].results, next, E, boxed)
        /\ DOMAIN call[n][e].results \subseteq DOMAIN r \union DOMAIN after \union {key(e, n)}
    BY <1>3, AnswerRight
  <2>. QED  BY <1>2, <1>3, <2>1, <2>2
<1>4. 0 \in P
  <2> SUFFICES ASSUME NEW e \in E PROVE Good(0, e, call[0][e])
    OBVIOUS
  <2>1. call[0][e] = Answer(r, e, key(e, 0), Plain(next)[0][e], r)
    BY <1>1, Says
  <2> HIDE DEF Good, key
  <2>. QED  BY <1>3, <2>1
<1>5. ASSUME NEW n \in P PROVE n + 1 \in P
  <2> SUFFICES ASSUME NEW e \in E PROVE Good(n + 1, e, call[n + 1][e])
    OBVIOUS
  <2>1. next[e] \in E /\ Good(n, next[e], call[n][next[e]])
    OBVIOUS
  <2>2. Plain(next)[n + 1][e] = Plain(next)[n][next[e]] + Step[e]
    BY Says
  <2>3. call[n + 1][e] = Answer(r, e, key(e, n + 1), Plain(next)[n + 1][e], call[n][next[e]].results)
    BY <1>1, <2>1, <2>2
  <2>4. n + 1 \in Nat
    OBVIOUS
  <2>. QED  BY <1>3, <2>1, <2>3, <2>4
<1>6. P = Nat
  <2>1. P \in SUBSET Nat
    OBVIOUS
  <2> HIDE DEF P
  <2>. QED  BY <1>4, <1>5, <2>1, InductiveSet
<1>. QED  BY <1>6 DEF call

-----------------------------------------------------------------------------
(* What names mean, for any binding b of them.                             *)
Callees(b) ==
  UNION {D \in SUBSET Definitions :
           \A d \in D : Callee[d] \in DOMAIN b /\ b[Callee[d]] \in D}
NextBy(b) == [d \in Callees(b) |-> b[Callee[d]]]

LEMMA ByNameIs ==
  /\ Callable = Callees(bound) /\ ByName = NextBy(bound)
  /\ Callable' = Callees(bound') /\ ByName' = NextBy(bound')
BY DEF Callable, ByName, Callees, NextBy

LEMMA CalleesClosed ==
  ASSUME NEW b
  PROVE  /\ ClosedUnder(NextBy(b), Callees(b))
         /\ \A d \in Callees(b) : Callee[d] \in DOMAIN b /\ NextBy(b)[d] = b[Callee[d]]
         /\ \A D \in SUBSET Definitions :
              (\A d \in D : Callee[d] \in DOMAIN b /\ b[Callee[d]] \in D) => D \subseteq Callees(b)
<1>1. \A d \in Callees(b) : Callee[d] \in DOMAIN b /\ b[Callee[d]] \in Callees(b)
  BY DEF Callees
<1>2. Callees(b) \subseteq Definitions
  BY DEF Callees
<1>. QED  BY <1>1, <1>2 DEF ClosedUnder, NextBy, Callees

(* A definition that its name has calls itself by its name.                *)
AtHome(b, d) == Name[d] \in DOMAIN b /\ b[Name[d]] = d

LEMMA CallsItself ==
  ASSUME NEW b, NEW d \in Definitions, Memoizable(d), AtHome(b, d)
  PROVE  d \in Callees(b) /\ NextBy(b)[d] = d
<1>1. {d} \subseteq Callees(b)
  <2>1. {d} \in SUBSET Definitions
    OBVIOUS
  <2>2. \A e \in {d} : Callee[e] \in DOMAIN b /\ b[Callee[e]] \in {d}
    BY DEF AtHome, Memoizable
  <2>. QED  BY <2>1, <2>2, CalleesClosed
<1>. QED  BY <1>1, CalleesClosed DEF AtHome, Memoizable

(* Results stay right when names get other meanings, of the definitions    *)
(* that their names have before and after.                                 *)
LEMMA RightStays ==
  ASSUME NEW b, NEW c, NEW r, NEW boxed \in BOOLEAN,
         NEW E \in SUBSET Definitions, NEW F \in SUBSET Definitions,
         Right(r, NextBy(b), E, boxed),
         \A d \in F : /\ AtHome(c, d)
                      /\ \/ d \in E /\ AtHome(b, d)
                         \/ \A k \in DOMAIN r : k[1] # d
  PROVE  Right(r, NextBy(c), F, boxed)
<1> SUFFICES ASSUME NEW d \in F, Memoizable(d), NEW kind \in Kinds, NEW n \in Nat,
                    KeyIn(boxed, d, Arg(kind, n)) \in DOMAIN r
             PROVE  r[KeyIn(boxed, d, Arg(kind, n))] = Plain(NextBy(c))[n][d]
  BY DEF Right
<1>1. KeyIn(boxed, d, Arg(kind, n))[1] = d
  BY KeyType
<1>2. d \in E /\ AtHome(b, d) /\ AtHome(c, d)
  BY <1>1
<1>3. /\ d \in Callees(b) /\ NextBy(b)[d] = d
      /\ d \in Callees(c) /\ NextBy(c)[d] = d
  BY <1>2, CallsItself
<1>4. Plain(NextBy(b))[n][d] = Plain(NextBy(c))[n][d]
  <2>1. ClosedUnder(NextBy(b), Callees(b)) /\ ClosedUnder(NextBy(c), Callees(c))
    BY CalleesClosed
  <2>2. PICK G : G = {d}
    OBVIOUS
  <2>3. /\ G \in SUBSET (Callees(c) \intersect Callees(b)) /\ d \in G
        /\ \A e \in G : NextBy(b)[e] = NextBy(c)[e] /\ NextBy(b)[e] \in G
    BY <1>3, <2>2
  <2>4. \A m \in Nat, e \in G : Plain(NextBy(b))[m][e] = Plain(NextBy(c))[m][e]
    BY ONLY <2>1, <2>3, SameSays
  <2>. QED  BY <2>3, <2>4
<1>. QED  BY <1>2, <1>4 DEF Right

-----------------------------------------------------------------------------
(* The programs the theorems are about: no two floats print alike, no name *)
(* that is bound is assigned, and one that is defined again is called by   *)
(* its own algorithms only, all of which have integer code or none, and    *)
(* none of which another name gets.                                        *)
Tame ==
  /\ PrintsExactly /\ Reassigned = {} /\ Copied \intersect Redefined = {}
  /\ \A d, e \in Definitions :
       Name[d] \in Redefined =>
         /\ Callee[e] = Name[d] => Name[e] = Name[d]
         /\ Name[e] = Name[d] => (d \in WithFloat <=> e \in WithFloat)
         /\ d \in WithFloat \/ Memoizable(d)

(* The algorithms that names have.                                         *)
Live == {bound[x] : x \in DOMAIN bound}

NamesOK ==
  /\ ran \subseteq Definitions /\ DOMAIN bound \subseteq Names
  /\ \A d \in ran : Name[d] \in DOMAIN bound
  /\ \A x \in DOMAIN bound :
       /\ bound[x] \in ran /\ AtHome(bound, bound[x])
       /\ Name[bound[x]] # x => Name[bound[x]] \notin Redefined

CodeOK ==
  /\ \A x \in DOMAIN native :
       /\ x \in DOMAIN bound /\ native[x] = bound[x]
       /\ Name[native[x]] = x /\ native[x] \in DOMAIN linked
  /\ DOMAIN linked \subseteq ran \ WithFloat
  /\ linked \in [DOMAIN linked -> DOMAIN linked]
  /\ \A d \in DOMAIN linked \intersect Live :
       Callee[d] \in DOMAIN bound /\ linked[d] = bound[Callee[d]]

ResultsOK ==
  /\ cache \in Results /\ memo \in Results /\ table \in Results
  /\ \A k \in DOMAIN cache \union DOMAIN memo : k[1] \in ran
  /\ \A k \in DOMAIN table : k[1] \in DOMAIN linked
  /\ Right(cache, ByName, Live, TRUE) /\ Right(memo, ByName, Live, TRUE)
  /\ Right(table, ByName, Live, FALSE)

MemoInv == NamesOK /\ CodeOK /\ ResultsOK /\ MemoInvisible

LEMMA MemoBegins ==
  MemoInit => MemoInv
<1> SUFFICES ASSUME MemoInit PROVE MemoInv
  OBVIOUS
<1>1. DOMAIN << >> = {} /\ << >> \in [{} -> Nat] /\ << >> \in [{} -> {}]
  OBVIOUS
<1>2. << >> \in Results
  <2>1. {} \in SUBSET KeySet
    OBVIOUS
  <2>. QED  BY <1>1, <2>1 DEF Results
<1>3. NamesOK
  BY <1>1 DEF MemoInit, NamesOK
<1>4. CodeOK
  BY <1>1 DEF MemoInit, CodeOK
<1>5. ResultsOK
  BY <1>1, <1>2 DEF MemoInit, ResultsOK, Right
<1>. QED  BY <1>3, <1>4, <1>5 DEF MemoInv, MemoInvisible, MemoInit, Quiet

LEMMA LiveParts ==
  ASSUME NamesOK
  PROVE  /\ Live \subseteq ran /\ Live \subseteq Definitions
         /\ \A d \in Live : AtHome(bound, d)
         /\ \A x \in DOMAIN bound : bound[x] \in Live
         /\ \A d \in Definitions : AtHome(bound, d) => d \in Live
BY DEF NamesOK, Live, AtHome

(* Results stay what they are when statements change names and code.       *)
LEMMA ResultsStay ==
  ASSUME MemoInv, NamesOK', UNCHANGED <<cache, memo, table>>, ran \subseteq ran',
         DOMAIN linked \subseteq DOMAIN linked', said' = Quiet,
         \A d \in Live' : d \in Live \/ d \notin ran
  PROVE  ResultsOK' /\ MemoInvisible'
<1>1. /\ cache' = cache /\ memo' = memo /\ table' = table
      /\ NamesOK /\ ResultsOK /\ CodeOK
  BY DEF MemoInv
<1>2. /\ Live \in SUBSET Definitions /\ \A d \in Live : AtHome(bound, d)
  BY <1>1, LiveParts
<1>3. /\ Live' \in SUBSET Definitions /\ \A d \in Live' : AtHome(bound', d)
  BY DEF NamesOK, Live, AtHome
<1>4. /\ \A k \in DOMAIN cache \union DOMAIN memo : k[1] \in ran
      /\ \A k \in DOMAIN table : k[1] \in ran
  BY <1>1 DEF ResultsOK, CodeOK
<1>5. ASSUME NEW r, \A k \in DOMAIN r : k[1] \in ran, NEW boxed \in BOOLEAN,
             Right(r, ByName, Live, boxed)
      PROVE  Right(r, ByName', Live', boxed)
  <2>1. Right(r, NextBy(bound), Live, boxed)
    BY <1>5, ByNameIs
  <2>2. \A d \in Live' : /\ AtHome(bound', d)
                         /\ \/ d \in Live /\ AtHome(bound, d)
                            \/ \A k \in DOMAIN r : k[1] # d
    BY <1>2, <1>3, <1>5
  <2>3. Right(r, NextBy(bound'), Live', boxed)
    BY <1>2, <1>3, <2>1, <2>2, RightStays
  <2>. QED  BY <2>3, ByNameIs
<1>6. /\ Right(cache, ByName', Live', TRUE) /\ Right(memo, ByName', Live', TRUE)
      /\ Right(table, ByName', Live', FALSE)
  BY <1>1, <1>4, <1>5 DEF ResultsOK
<1>7. ResultsOK'
  BY <1>1, <1>6 DEF ResultsOK
<1>. QED  BY <1>7 DEF MemoInvisible, Quiet

LEMMA DefineStep ==
  ASSUME Tame, MemoInv, NEW d \in Definitions, Define(d)
  PROVE  MemoInv'
<1> DEFINE n == Name[d]
<1>1. /\ NamesOK /\ CodeOK /\ d \notin ran /\ n \in Names
      /\ n \in DOMAIN bound => n \in Redefined
      /\ ran' = ran \union {d} /\ bound' = With(bound, n, d)
      /\ cache' = cache /\ memo' = memo /\ table' = table /\ said' = Quiet
  BY NaturalNumbers DEF MemoInv, Define
<1>2. /\ DOMAIN bound' = DOMAIN bound \union {n} /\ bound'[n] = d
      /\ \A x \in DOMAIN bound : x # n => bound'[x] = bound[x]
  BY <1>1 DEF With
<1>3. ASSUME NEW x \in DOMAIN bound, x # n
      PROVE  /\ bound'[x] = bound[x] /\ Name[bound[x]] # n /\ AtHome(bound', bound[x])
             /\ bound[x] \in ran' /\ (Name[bound[x]] # x => Name[bound[x]] \notin Redefined)
  <2>1. /\ AtHome(bound, bound[x]) /\ bound[x] \in ran
        /\ Name[bound[x]] # x => Name[bound[x]] \notin Redefined
    BY <1>1 DEF NamesOK
  <2>2. Name[bound[x]] # n
    BY <1>1, <1>3, <2>1 DEF AtHome
  <2>. QED  BY <1>1, <1>2, <1>3, <2>1, <2>2 DEF AtHome
<1>4. NamesOK'
  <2>1. AtHome(bound', d)
    BY <1>2 DEF AtHome
  <2>2. ASSUME NEW x \in DOMAIN bound'
        PROVE  /\ bound'[x] \in ran' /\ AtHome(bound', bound'[x])
               /\ Name[bound'[x]] # x => Name[bound'[x]] \notin Redefined
    <3>1. CASE x = n
      BY <1>1, <1>2, <2>1, <3>1
    <3>2. CASE x # n
      BY <1>2, <1>3, <3>2
    <3>. QED  BY <3>1, <3>2
  <2>3. ran' \subseteq Definitions /\ DOMAIN bound' \subseteq Names
        /\ \A e \in ran' : Name[e] \in DOMAIN bound'
    BY <1>1, <1>2 DEF NamesOK
  <2>. QED  BY <2>2, <2>3 DEF NamesOK
<1>5. \A e \in Live' : e = d \/ (e \in Live /\ Name[e] # n)
  BY <1>2, <1>3 DEF Live
<1>6. \A e \in Live' : e \in Live \/ e \notin ran
  BY <1>1, <1>5
<1>7. CASE CanNative(d)
  <2>1. native' = With(native, n, d) /\ linked' = With(linked, d, native'[Callee[d]])
    BY <1>7 DEF Define, Code
  <2>2. /\ DOMAIN native' = DOMAIN native \union {n} /\ native'[n] = d
        /\ \A x \in DOMAIN native : x # n => native'[x] = native[x]
    BY <2>1 DEF With
  <2>3. /\ DOMAIN linked' = DOMAIN linked \union {d} /\ linked'[d] = native'[Callee[d]]
        /\ \A e \in DOMAIN linked : e # d => linked'[e] = linked[e]
    BY <2>1 DEF With
  <2>4. d \notin DOMAIN linked /\ DOMAIN linked \subseteq ran \ WithFloat
    BY <1>1 DEF CodeOK
  <2>5. \A x \in DOMAIN native' :
          /\ x \in DOMAIN bound' /\ native'[x] = bound'[x]
          /\ Name[native'[x]] = x /\ native'[x] \in DOMAIN linked'
    BY <1>1, <1>2, <2>2, <2>3 DEF CodeOK
  <2>6. Callee[d] \in DOMAIN native'
    BY <1>7, <2>2 DEF CanNative, Memoizable
  <2>7. DOMAIN linked' \subseteq ran' \ WithFloat
    BY <1>1, <1>7, <2>3, <2>4 DEF CanNative
  <2>8. linked' \in [DOMAIN linked' -> DOMAIN linked']
    <3>1. \A e \in DOMAIN linked' : linked'[e] \in DOMAIN linked'
      BY <1>1, <2>3, <2>5, <2>6 DEF CodeOK
    <3>2. linked' = [e \in DOMAIN linked' |-> linked'[e]]
      BY <2>1 DEF With
    <3>. QED  BY <3>1, <3>2
  <2>9. ASSUME NEW e \in DOMAIN linked' \intersect Live'
        PROVE  Callee[e] \in DOMAIN bound' /\ linked'[e] = bound'[Callee[e]]
    <3>1. CASE e = d
      BY <2>3, <2>5, <2>6, <3>1
    <3>2. CASE e # d
      <4>1. e \in DOMAIN linked \intersect Live /\ Name[e] # n /\ linked'[e] = linked[e]
        BY <1>5, <2>3, <3>2
      <4>2. Callee[e] \in DOMAIN bound /\ linked[e] = bound[Callee[e]]
        BY <1>1, <4>1 DEF CodeOK
      <4>3. Callee[e] # n
        BY <1>1, <1>5, <4>1, <4>2, LiveParts DEF Tame
      <4>. QED  BY <1>2, <4>1, <4>2, <4>3
    <3>. QED  BY <3>1, <3>2
  <2>10. CodeOK'
    BY <2>5, <2>7, <2>8, <2>9 DEF CodeOK
  <2>11. DOMAIN linked \subseteq DOMAIN linked'
    BY <2>3
  <2>. QED  BY <1>1, <1>4, <1>6, <2>10, <2>11, ResultsStay DEF MemoInv
<1>8. CASE ~CanNative(d)
  <2>1. native' = native /\ linked' = linked
    BY <1>8 DEF Define
  <2>2. n \notin DOMAIN native
    <3>1. SUFFICES ASSUME n \in DOMAIN native PROVE FALSE
      OBVIOUS
    <3>2. /\ n \in DOMAIN bound /\ Name[native[n]] = n /\ native[n] \in Definitions \ WithFloat
      BY <1>1, <3>1 DEF CodeOK, NamesOK
    <3>3. d \notin WithFloat /\ Memoizable(d)
      BY <1>1, <3>2 DEF Tame
    <3>. QED  BY <1>8, <3>3 DEF CanNative
  <2>3. ASSUME NEW e \in DOMAIN linked \intersect Live'
        PROVE  Callee[e] \in DOMAIN bound' /\ linked[e] = bound'[Callee[e]]
    <3>1. e \in Live /\ Name[e] # n
      BY <1>1, <1>5 DEF CodeOK
    <3>2. Callee[e] \in DOMAIN bound /\ linked[e] = bound[Callee[e]]
      BY <1>1, <3>1 DEF CodeOK
    <3>3. Callee[e] # n
      BY <1>1, <3>1, <3>2, LiveParts DEF Tame
    <3>. QED  BY <1>2, <3>2, <3>3
  <2>4. CodeOK'
    BY <1>1, <1>2, <2>1, <2>2, <2>3 DEF CodeOK
  <2>. QED  BY <1>1, <1>4, <1>6, <2>1, <2>4, ResultsStay DEF MemoInv
<1>. QED  BY <1>7, <1>8

LEMMA AssignStep ==
  ASSUME Tame, MemoInv, NEW x \in Names, NEW y \in Names, Assign(x, y)
  PROVE  MemoInv'
<1>1. /\ NamesOK /\ CodeOK /\ y \in DOMAIN bound /\ y \notin Redefined /\ x \notin DOMAIN bound
      /\ bound' = With(bound, x, bound[y])
      /\ UNCHANGED <<ran, cache, memo, table, native, linked>> /\ said' = Quiet
  BY DEF Assign, Tame, MemoInv
<1>2. /\ DOMAIN bound' = DOMAIN bound \union {x} /\ bound'[x] = bound[y]
      /\ \A z \in DOMAIN bound : bound'[z] = bound[z]
  BY <1>1 DEF With
<1>3. ASSUME NEW z \in DOMAIN bound'
      PROVE  /\ bound'[z] \in ran /\ AtHome(bound', bound'[z])
             /\ Name[bound'[z]] # z => Name[bound'[z]] \notin Redefined
  BY <1>1, <1>2 DEF NamesOK, AtHome
<1>4. NamesOK'
  BY <1>1, <1>2, <1>3 DEF NamesOK
<1>5. Live' = Live
  BY <1>1, <1>2 DEF Live
<1>6. CodeOK'
  BY <1>1, <1>2, <1>5 DEF CodeOK
<1>. QED  BY <1>1, <1>4, <1>5, <1>6, ResultsStay DEF MemoInv

(* A call of an algorithm by the names as they are.                        *)
LEMMA CallByName ==
  ASSUME Tame, MemoInv, NEW d \in Live \intersect Callable, NEW a \in Arguments,
         NEW r \in Results, Right(r, ByName, Live, TRUE), \A k \in DOMAIN r : k[1] \in ran
  PROVE  LET o == CallKeeping(r, ByName, a.kind, TRUE)[a.n][d]
         IN  /\ o.value = Plain(ByName)[a.n][d] /\ o.results \in Results
             /\ Right(o.results, ByName, Live, TRUE)
             /\ \A k \in DOMAIN o.results : k[1] \in ran
<1> DEFINE o == CallKeeping(r, ByName, a.kind, TRUE)[a.n][d]
<1>1. PICK E : E = Live \intersect Callable
  OBVIOUS
<1>2. /\ ClosedUnder(ByName, Callable)
      /\ \A e \in Callable : Callee[e] \in DOMAIN bound /\ ByName[e] = bound[Callee[e]]
  BY CalleesClosed, ByNameIs
<1>3. /\ Live \subseteq ran /\ Live \subseteq Definitions /\ \A e \in Live : AtHome(bound, e)
      /\ \A x \in DOMAIN bound : bound[x] \in Live
  BY LiveParts DEF MemoInv
<1>4. E \in SUBSET Callable /\ d \in E /\ \A e \in E : ByName[e] \in E
  BY <1>1, <1>2, <1>3 DEF ClosedUnder
<1>5. a.kind \in Kinds /\ a.n \in Nat /\ TRUE \in BOOLEAN /\ PrintsExactly
  BY MemoAssumption DEF Arguments, Kinds, Tame
<1>6. Right(r, ByName, E, TRUE)
  BY <1>1 DEF Right
<1>7. /\ o.value = Plain(ByName)[a.n][d] /\ o.results \in Results
      /\ Right(o.results, ByName, E, TRUE)
      /\ \A k \in DOMAIN o.results : k \in DOMAIN r \/ k[1] \in E
  BY <1>2, <1>4, <1>5, <1>6, CallRight
<1> HIDE DEF o
<1>8. \A e \in Live : Memoizable(e) => e \in E
  <2> SUFFICES ASSUME NEW e \in Live, Memoizable(e) PROVE e \in Callable
    BY <1>1
  <2>. QED  BY <1>3, CallsItself, ByNameIs
<1>9. Right(o.results, ByName, Live, TRUE)
  BY <1>7, <1>8 DEF Right
<1>10. \A k \in DOMAIN o.results : k[1] \in ran
  BY <1>1, <1>3, <1>7
<1>. QED  BY <1>7, <1>9, <1>10 DEF o

(* A call of integer code, by what it was linked to.                       *)
LEMMA CallOfCode ==
  ASSUME Tame, MemoInv, NEW x \in DOMAIN native, NEW n \in Nat
  PROVE  LET o == CallKeeping(table, linked, "int", FALSE)[n][native[x]]
         IN  /\ o.value = Plain(ByName)[n][bound[x]] /\ o.results \in Results
             /\ Right(o.results, ByName, Live, FALSE)
             /\ \A k \in DOMAIN o.results : k[1] \in DOMAIN linked
<1> DEFINE o == CallKeeping(table, linked, "int", FALSE)[n][native[x]]
           D == DOMAIN linked
<1>1. PICK E : E = Live \intersect D
  OBVIOUS
<1>2. NamesOK /\ CodeOK /\ ResultsOK
  BY DEF MemoInv
<1>3. /\ Live \subseteq ran /\ Live \subseteq Definitions /\ \A e \in Live : AtHome(bound, e)
      /\ \A y \in DOMAIN bound : bound[y] \in Live
  BY <1>2, LiveParts
<1>4. ClosedUnder(linked, D)
  BY <1>2 DEF CodeOK, NamesOK, ClosedUnder
<1>5. native[x] = bound[x] /\ native[x] \in E
  BY <1>1, <1>2, <1>3 DEF CodeOK
<1>6. \A e \in E : /\ Callee[e] \in DOMAIN bound /\ linked[e] = bound[Callee[e]]
                   /\ linked[e] \in E
  BY <1>1, <1>2, <1>3, <1>4 DEF CodeOK, ClosedUnder
<1>7. E \in SUBSET D /\ E \in SUBSET Definitions
  BY <1>1, <1>3
<1>8. /\ ClosedUnder(ByName, Callable) /\ E \subseteq Callable
      /\ \A e \in E : ByName[e] = linked[e]
  <2>1. /\ ClosedUnder(NextBy(bound), Callees(bound)) /\ E \subseteq Callees(bound)
        /\ \A e \in Callees(bound) : NextBy(bound)[e] = bound[Callee[e]]
    BY <1>6, <1>7, CalleesClosed
  <2>. QED  BY <1>6, <2>1, ByNameIs
<1>9. \A m \in Nat, e \in E : Plain(linked)[m][e] = Plain(ByName)[m][e]
  <2>1. E \in SUBSET (Callable \intersect D)
    BY <1>7, <1>8
  <2> HIDE DEF D
  <2>. QED  BY <1>4, <1>6, <1>8, <2>1, SameSays
<1>10. \A e \in Live : AtHome(bound, e)
  BY <1>3
<1>11. Right(table, linked, E, FALSE)
  <2> SUFFICES ASSUME NEW e \in E, Memoizable(e), NEW kind \in Kinds, NEW m \in Nat,
                      KeyIn(FALSE, e, Arg(kind, m)) \in DOMAIN table
               PROVE  table[KeyIn(FALSE, e, Arg(kind, m))] = Plain(linked)[m][e]
    BY DEF Right
  <2>1. e \in Live /\ Right(table, ByName, Live, FALSE)
    BY <1>1, <1>2 DEF ResultsOK
  <2>2. table[KeyIn(FALSE, e, Arg(kind, m))] = Plain(ByName)[m][e]
    BY <2>1, Zenon DEF Right
  <2>. QED  BY <1>9, <2>2
<1>12. /\ o.value = Plain(linked)[n][native[x]] /\ o.results \in Results
       /\ Right(o.results, linked, E, FALSE)
       /\ \A k \in DOMAIN o.results : k \in DOMAIN table \/ k[1] \in E
  <2>1. table \in Results /\ "int" \in Kinds /\ FALSE \in BOOLEAN /\ PrintsExactly
    BY <1>2 DEF ResultsOK, Kinds, Tame
  <2>2. \A e \in E : linked[e] \in E
    BY <1>6
  <2> HIDE DEF D
  <2>. QED  BY <1>4, <1>5, <1>7, <1>11, <2>1, <2>2, CallRight
<1> HIDE DEF o
<1>13. \A k \in DOMAIN o.results : k[1] \in D
  BY <1>2, <1>7, <1>12 DEF ResultsOK
<1>14. Right(o.results, ByName, Live, FALSE)
  <2> SUFFICES ASSUME NEW e \in Live, Memoizable(e), NEW kind \in Kinds, NEW m \in Nat,
                      KeyIn(FALSE, e, Arg(kind, m)) \in DOMAIN o.results
               PROVE  o.results[KeyIn(FALSE, e, Arg(kind, m))] = Plain(ByName)[m][e]
    BY DEF Right
  <2>1. KeyIn(FALSE, e, Arg(kind, m))[1] = e
    BY <1>3, KeyType
  <2>2. e \in E
    BY <1>1, <1>13, <2>1
  <2>3. Right(o.results, linked, E, FALSE)
    BY <1>12
  <2>4. o.results[KeyIn(FALSE, e, Arg(kind, m))] = Plain(linked)[m][e]
    BY <2>2, <2>3, Zenon DEF Right
  <2>. QED  BY <1>9, <2>2, <2>4
<1>. QED  BY <1>5, <1>9, <1>12, <1>13, <1>14 DEF o

LEMMA CallStep ==
  ASSUME Tame, MemoInv, NEW x \in Names, NEW a \in Arguments, Call(x, a)
  PROVE  MemoInv'
<1> DEFINE i == CallKeeping(cache, ByName, a.kind, TRUE)[a.n][bound[x]]
           c == CallKeeping(memo, ByName, a.kind, TRUE)[a.n][bound[x]]
           t == CallKeeping(table, linked, "int", FALSE)[a.n][native[x]]
<1>1. /\ x \in DOMAIN bound /\ bound[x] \in Callable /\ bound[x] \in Live
      /\ bound' = bound /\ ran' = ran /\ native' = native /\ linked' = linked
      /\ NamesOK /\ CodeOK /\ ResultsOK
  BY DEF Call, MemoInv, Live
<1>2. NamesOK' /\ CodeOK' /\ Live' = Live /\ ByName' = ByName
  BY <1>1 DEF NamesOK, CodeOK, Live, ByName, Callable
<1>3. /\ i.value = Plain(ByName)[a.n][bound[x]] /\ i.results \in Results
      /\ Right(i.results, ByName, Live, TRUE) /\ \A k \in DOMAIN i.results : k[1] \in ran
  BY <1>1, CallByName DEF ResultsOK
<1>4. cache' = i.results
  BY DEF Call
<1>5. CASE ByNative(x, a)
  <2>1. x \in DOMAIN native /\ a.n \in Nat
    BY <1>5, MemoAssumption DEF ByNative, Arguments
  <2>2. /\ t.value = Plain(ByName)[a.n][bound[x]] /\ t.results \in Results
        /\ Right(t.results, ByName, Live, FALSE) /\ \A k \in DOMAIN t.results : k[1] \in DOMAIN linked
    BY <2>1, CallOfCode
  <2>3. /\ table' = t.results /\ memo' = memo
        /\ said' = [plain |-> Plain(ByName)[a.n][bound[x]],
                    interpreted |-> i.value, compiled |-> t.value]
    BY <1>5 DEF Call
  <2> HIDE DEF i, t
  <2>4. ResultsOK'
    BY <1>1, <1>2, <1>3, <1>4, <2>2, <2>3 DEF ResultsOK
  <2>. QED  BY <1>2, <1>3, <2>2, <2>3, <2>4 DEF MemoInv, MemoInvisible
<1>6. CASE ~ByNative(x, a)
  <2>1. /\ c.value = Plain(ByName)[a.n][bound[x]] /\ c.results \in Results
        /\ Right(c.results, ByName, Live, TRUE) /\ \A k \in DOMAIN c.results : k[1] \in ran
    BY <1>1, CallByName DEF ResultsOK
  <2>2. /\ memo' = c.results /\ table' = table
        /\ said' = [plain |-> Plain(ByName)[a.n][bound[x]],
                    interpreted |-> i.value, compiled |-> c.value]
    BY <1>6 DEF Call
  <2> HIDE DEF i, c
  <2>3. ResultsOK'
    BY <1>1, <1>2, <1>3, <1>4, <2>1, <2>2 DEF ResultsOK
  <2>. QED  BY <1>2, <1>3, <2>1, <2>2, <2>3 DEF MemoInv, MemoInvisible
<1>. QED  BY <1>5, <1>6

LEMMA MemoSteps ==
  ASSUME Tame
  PROVE  MemoInv /\ [MemoNext]_memoVars => MemoInv'
<1> SUFFICES ASSUME MemoInv, [MemoNext]_memoVars PROVE MemoInv'
  OBVIOUS
<1>1. CASE \E d \in Definitions : Define(d)
  BY <1>1, DefineStep
<1>2. CASE \E x, y \in Names : Assign(x, y)
  BY <1>2, AssignStep
<1>3. CASE \E x \in Names, a \in Arguments : Call(x, a)
  BY <1>3, CallStep
<1>4. ASSUME UNCHANGED <<bound, ran, cache, memo, table, native, linked>>, MemoInvisible'
      PROVE  MemoInv'
  <2>1. /\ bound' = bound /\ ran' = ran /\ native' = native /\ linked' = linked
        /\ cache' = cache /\ memo' = memo /\ table' = table
        /\ NamesOK /\ CodeOK /\ ResultsOK
    BY <1>4 DEF MemoInv
  <2>2. Live' = Live /\ ByName' = ByName
    BY <2>1 DEF Live, ByName, Callable
  <2>. QED  BY <1>4, <2>1, <2>2 DEF MemoInv, NamesOK, CodeOK, ResultsOK
<1>5. CASE \E x \in Names : CallText(x)
  BY <1>4, <1>5 DEF CallText, MemoInvisible, Quiet
<1>6. CASE UNCHANGED memoVars
  <2>1. UNCHANGED <<bound, ran, cache, memo, table, native, linked>> /\ said' = said
    BY <1>6 DEF memoVars
  <2>. QED  BY <1>4, <2>1 DEF MemoInv, MemoInvisible
<1>. QED  BY <1>1, <1>2, <1>3, <1>5, <1>6 DEF MemoNext

LEMMA InvTellsTables ==
  ASSUME MemoInv
  PROVE  TablesAgree
<1>1. NamesOK /\ CodeOK /\ ResultsOK
  BY DEF MemoInv
<1>2. MemoTypeOK
  <2>1. \A r \in Results : \A k \in DOMAIN r : r[k] \in Nat
    BY DEF Results
  <2>. QED  BY <1>1, <2>1 DEF MemoTypeOK, NamesOK, CodeOK, ResultsOK
<1>3. ASSUME NEW d \in ran, Memoizable(d), bound[Name[d]] = d, NEW a \in Arguments
      PROVE  /\ \A results \in {cache, memo} :
                  Key(d, a) \in DOMAIN results => results[Key(d, a)] = Plain(ByName)[a.n][d]
             /\ NativeKey(d, a) \in DOMAIN table => table[NativeKey(d, a)] = Plain(ByName)[a.n][d]
  <2>1. d \in Live
    BY <1>1, <1>3 DEF NamesOK, Live
  <2>2. a = Arg(a.kind, a.n) /\ a.kind \in Kinds /\ a.n \in Nat
    BY MemoAssumption DEF Arguments, Arg, Kinds
  <2>3. /\ Key(d, a) = KeyIn(TRUE, d, Arg(a.kind, a.n))
        /\ NativeKey(d, a) = KeyIn(FALSE, d, Arg(a.kind, a.n))
    BY <2>2 DEF KeyIn
  <2>4. /\ Right(cache, ByName, Live, TRUE) /\ Right(memo, ByName, Live, TRUE)
        /\ Right(table, ByName, Live, FALSE)
    BY <1>1 DEF ResultsOK
  <2>5. KeyIn(TRUE, d, Arg(a.kind, a.n)) \in DOMAIN cache =>
          cache[KeyIn(TRUE, d, Arg(a.kind, a.n))] = Plain(ByName)[a.n][d]
    BY <1>3, <2>1, <2>2, <2>4, Zenon DEF Right
  <2>6. KeyIn(TRUE, d, Arg(a.kind, a.n)) \in DOMAIN memo =>
          memo[KeyIn(TRUE, d, Arg(a.kind, a.n))] = Plain(ByName)[a.n][d]
    BY <1>3, <2>1, <2>2, <2>4, Zenon DEF Right
  <2>7. KeyIn(FALSE, d, Arg(a.kind, a.n)) \in DOMAIN table =>
          table[KeyIn(FALSE, d, Arg(a.kind, a.n))] = Plain(ByName)[a.n][d]
    BY <1>3, <2>1, <2>2, <2>4, Zenon DEF Right
  <2>. QED  BY <2>3, <2>5, <2>6, <2>7
<1>. QED  BY <1>2, <1>3 DEF TablesAgree, Remembered

(* AlgoValue::execute and call_compiled answer from their tables what the  *)
(* bodies would say now, for any definitions and arguments, and the        *)
(* integer code of try_emit_native_i64_algo says the same: remembering is  *)
(* seen by no call.                                                        *)
THEOREM RememberingIsUnseen ==
  ASSUME Tame
  PROVE  MemoSpec => []MemoInvisible
<1>1. MemoInv => MemoInvisible
  BY DEF MemoInv
<1>. QED  BY MemoBegins, MemoSteps, <1>1, PTL DEF MemoSpec

(* Whatever the three tables remember of an algorithm that its name still  *)
(* has, is what its body says with the names as they are.                  *)
THEOREM TablesStayRight ==
  ASSUME Tame
  PROVE  MemoSpec => []TablesAgree
<1>1. MemoInv => TablesAgree
  BY InvTellsTables
<1>. QED  BY MemoBegins, MemoSteps, <1>1, PTL DEF MemoSpec

-----------------------------------------------------------------------------
(* The expansion of imports.                                               *)
OutLine == [file : Files, line : Nat]

(* Each call of the recursion stands at the import of the file above it,   *)
(* and everything imported on the lines before it is loaded.               *)
Chained(k) ==
  /\ stack[k].at <= Len(lines[stack[k].file])
  /\ lines[stack[k].file][stack[k].at] = stack[k + 1].file

Passed(k) ==
  \A i \in 1..(stack[k].at - 1) :
    lines[stack[k].file][i] \in Files => lines[stack[k].file][i] \in loaded

ImportInv ==
  /\ ImportsTypeOK
  /\ LoadingIsStack
  /\ \A k \in 1..(Depth - 1) : Chained(k)
  /\ \A k \in 1..Depth : Passed(k)
  /\ \A f \in loaded : Imported(f) \subseteq loaded
  /\ RootNeverImported
  /\ status = "circular" => ~AtEnd /\ Line \in loading
  /\ status = "done" => AtEnd /\ Depth = 1

LEMMA AdvanceEffect ==
  ASSUME NEW s \in Seq(FrameType), Len(s) > 0, NEW added \in Seq(OutLine)
  PROVE  /\ Advance(s, added) \in Seq(FrameType)
         /\ Len(Advance(s, added)) = Len(s)
         /\ Advance(s, added)[Len(s)].file = s[Len(s)].file
         /\ Advance(s, added)[Len(s)].at = s[Len(s)].at + 1
         /\ \A k \in 1..(Len(s) - 1) : Advance(s, added)[k] = s[k]
<1> DEFINE t == s[Len(s)]
           new == [file |-> t.file, at |-> t.at + 1, out |-> t.out \o added]
<1>1. Len(s) \in 1..Len(s) /\ Len(s) \in Nat
  OBVIOUS
<1>2. t \in FrameType
  BY <1>1, ElementOfSeq
<1>3. t.out \in Seq(OutLine) /\ t.file \in Files /\ t.at \in Nat
  BY <1>2 DEF FrameType, OutLine
<1>4. t.out \o added \in Seq(OutLine)
  BY <1>3, ConcatProperties
<1>5. new \in FrameType
  BY <1>3, <1>4 DEF FrameType, OutLine
<1>6. new.file = t.file /\ new.at = t.at + 1
  OBVIOUS
<1>7. Advance(s, added) = [s EXCEPT ![Len(s)] = new]
  BY DEF Advance
<1> HIDE DEF t, new
<1>8. /\ [s EXCEPT ![Len(s)] = new] \in Seq(FrameType)
      /\ Len([s EXCEPT ![Len(s)] = new]) = Len(s)
      /\ \A k \in 1..Len(s) :
           [s EXCEPT ![Len(s)] = new][k] = IF k = Len(s) THEN new ELSE s[k]
  BY <1>1, <1>5, ExceptSeq
<1>. QED  BY <1>1, <1>6, <1>7, <1>8 DEF t

(* What ImportInv says of the frame on top.                                      *)
LEMMA TopType ==
  ASSUME ImportInv
  PROVE  /\ stack \in Seq(FrameType) /\ Depth \in Nat /\ Depth \in 1..Depth
         /\ Top \in FrameType /\ Top.file \in Files /\ Top.at \in Nat \ {0}
         /\ Top.out \in Seq(OutLine)
         /\ lines[Top.file] \in Seq(Files \union {Text, Missing})
         /\ ~AtEnd => Top.at \in 1..Len(lines[Top.file])
<1>1. stack \in Seq(FrameType) /\ Depth \in Nat /\ Depth \in 1..Depth /\ Depth = Len(stack)
  BY DEF ImportInv, ImportsTypeOK, Depth
<1>2. Top \in FrameType
  BY <1>1, ElementOfSeq DEF Top
<1>3. Top.file \in Files /\ Top.at \in Nat \ {0} /\ Top.out \in Seq(OutLine)
  BY <1>2 DEF FrameType, OutLine
<1>4. lines[Top.file] \in Seq(Files \union {Text, Missing})
  BY <1>3 DEF ImportInv, ImportsTypeOK
<1>5. Len(lines[Top.file]) \in Nat
  BY <1>4, LenProperties
<1>. QED  BY <1>1, <1>2, <1>3, <1>4, <1>5 DEF AtEnd

(* A frame that moves to its next line, past a line that is no import or   *)
(* whose import is loaded.                                                 *)
LEMMA AdvanceInv ==
  ASSUME ImportInv, status = "run", ~AtEnd, NEW added \in Seq(OutLine),
         Line \in Files => Line \in loaded,
         stack' = Advance(stack, added),
         UNCHANGED <<disk, loading, loaded, status>>
  PROVE  ImportInv'
<1>1. /\ stack \in Seq(FrameType) /\ Depth \in Nat /\ Depth \in 1..Depth
      /\ Top.file \in Files /\ Top.at \in 1..Len(lines[Top.file])
      /\ Depth = Len(stack) /\ Top = stack[Depth]
      /\ Len(lines[Top.file]) \in Nat
  BY TopType, LenProperties DEF Depth, Top
<1>2. /\ stack' \in Seq(FrameType) /\ Len(stack') = Depth
      /\ stack'[Depth].file = Top.file /\ stack'[Depth].at = Top.at + 1
      /\ \A k \in 1..(Depth - 1) : stack'[k] = stack[k]
  <2>1. stack \in Seq(FrameType) /\ Len(stack) > 0 /\ added \in Seq(OutLine)
    BY <1>1
  <2>2. /\ Advance(stack, added) \in Seq(FrameType)
        /\ Len(Advance(stack, added)) = Len(stack)
        /\ Advance(stack, added)[Len(stack)].file = stack[Len(stack)].file
        /\ Advance(stack, added)[Len(stack)].at = stack[Len(stack)].at + 1
        /\ \A k \in 1..(Len(stack) - 1) : Advance(stack, added)[k] = stack[k]
    BY ONLY <2>1, AdvanceEffect
  <2>3. stack' = Advance(stack, added)
    OBVIOUS
  <2>. QED  BY <1>1, <2>2, <2>3
<1>3. /\ lines' = lines /\ readable' = readable /\ loading' = loading
      /\ loaded' = loaded /\ status' = status /\ Depth' = Depth
  BY <1>2 DEF disk, Depth
<1>4. \A k \in 1..Depth : stack'[k].file = stack[k].file
  BY <1>1, <1>2
<1>5. ImportsTypeOK'
  <2>1. ASSUME NEW k \in 1..Depth
        PROVE  stack'[k].at <= Len(lines[stack'[k].file]) + 1
    <3>1. CASE k = Depth
      BY <3>1, <1>1, <1>2
    <3>2. CASE k # Depth
      <4>1. stack'[k] = stack[k]
        BY <3>2, <1>1, <1>2
      <4>. QED  BY <4>1 DEF ImportInv, ImportsTypeOK
    <3>. QED  BY <3>1, <3>2
  <2>2. stack'[1].file = Root
    BY <1>1, <1>4 DEF ImportInv, ImportsTypeOK
  <2>. QED  BY <1>1, <1>2, <1>3, <2>1, <2>2 DEF ImportInv, ImportsTypeOK
<1>6. LoadingIsStack'
  <2>1. \A k \in 2..Depth : k \in 1..Depth
    BY <1>1
  <2>2. \A k \in 2..Depth : stack'[k].file = stack[k].file
    BY <1>4, <2>1
  <2>3. LoadingIsStack
    BY DEF ImportInv
  <2>4. loading' = { stack'[k].file : k \in 2..Depth }
    BY <1>3, <2>2, <2>3 DEF LoadingIsStack
  <2>5. \A j, k \in 2..Depth : stack'[j].file = stack'[k].file => j = k
    BY <2>2, <2>3 DEF LoadingIsStack
  <2>6. loading' \intersect loaded' = {}
    BY <1>3, <2>3 DEF LoadingIsStack
  <2>. QED  BY <1>3, <2>4, <2>5, <2>6 DEF LoadingIsStack
<1>7. ASSUME NEW k \in 1..(Depth - 1)
      PROVE  Chained(k)'
  <2>1. k \in 1..Depth /\ k + 1 \in 1..Depth
    BY <1>1
  <2>2. stack'[k] = stack[k] /\ stack'[k + 1].file = stack[k + 1].file
    BY <1>2, <1>4, <2>1
  <2>3. Chained(k)
    BY DEF ImportInv
  <2>. QED  BY <1>3, <2>2, <2>3 DEF Chained
<1>8. ASSUME NEW k \in 1..Depth
      PROVE  Passed(k)'
  <2>1. CASE k = Depth
    <3>1. \A i \in 1..Top.at : lines[Top.file][i] \in Files => lines[Top.file][i] \in loaded
      BY <1>1 DEF ImportInv, Passed, Line
    <3>2. stack'[k].file = Top.file /\ stack'[k].at = Top.at + 1
      BY <2>1, <1>1, <1>2
    <3>3. Top.at \in Nat
      BY <1>1 DEF FrameType
    <3>4. \A i \in 1..(stack'[k].at - 1) : i \in 1..Top.at
      BY <3>2, <3>3
    <3>. QED  BY <1>3, <3>1, <3>2, <3>4 DEF Passed
  <2>2. CASE k # Depth
    <3>1. stack'[k] = stack[k]
      BY <2>2, <1>1, <1>2
    <3>2. Passed(k)
      BY DEF ImportInv
    <3>. QED  BY <1>3, <3>1, <3>2 DEF Passed
  <2>. QED  BY <2>1, <2>2
<1>. QED  BY <1>3, <1>5, <1>6, <1>7, <1>8 DEF ImportInv, RootNeverImported, Imported

LEMMA EnterInv ==
  ASSUME ImportInv, status = "run", NEW f \in Files, Enter(f)
  PROVE  ImportInv'
<1>1. /\ stack \in Seq(FrameType) /\ Depth \in Nat /\ Depth \in 1..Depth
      /\ Top.file \in Files /\ Top.at \in 1..Len(lines[Top.file])
      /\ Depth = Len(stack) /\ Top = stack[Depth]
  BY TopType DEF Enter, Importing, Depth, Top
<1>2. Frame(f) \in FrameType /\ Frame(f).file = f /\ Frame(f).at = 1
  BY DEF Frame, FrameType
<1>3. stack' = Append(stack, Frame(f))
  BY DEF Enter
<1>4. /\ stack' \in Seq(FrameType) /\ Len(stack') = Depth + 1
      /\ stack'[Depth + 1] = Frame(f)
      /\ \A k \in 1..Depth : stack'[k] = stack[k]
  BY <1>1, <1>2, <1>3
<1>5. /\ lines' = lines /\ readable' = readable /\ loaded' = loaded
      /\ status' = status /\ loading' = loading \union {f} /\ Depth' = Depth + 1
      /\ f \notin loading /\ f \notin loaded
  BY <1>4 DEF Enter, disk, Depth
<1>6. ImportsTypeOK'
  <2>1. ASSUME NEW k \in 1..(Depth + 1)
        PROVE  stack'[k].at <= Len(lines[stack'[k].file]) + 1
    <3>1. CASE k = Depth + 1
      <4>1. lines[f] \in Seq(Files \union {Text, Missing})
        BY DEF ImportInv, ImportsTypeOK
      <4>2. Len(lines[f]) \in Nat
        BY <4>1, LenProperties
      <4>. QED  BY <3>1, <4>2, <1>2, <1>4
    <3>2. CASE k # Depth + 1
      <4>1. k \in 1..Depth
        BY <3>2, <1>1
      <4>2. stack'[k] = stack[k]
        BY <4>1, <1>4
      <4>. QED  BY <4>1, <4>2 DEF ImportInv, ImportsTypeOK
    <3>. QED  BY <3>1, <3>2
  <2>2. stack'[1].file = Root
    BY <1>1, <1>4 DEF ImportInv, ImportsTypeOK
  <2>. QED  BY <1>1, <1>4, <1>5, <2>1, <2>2 DEF ImportInv, ImportsTypeOK
<1>7. LoadingIsStack'
  <2>1. \A k \in 2..Depth : stack'[k].file = stack[k].file /\ stack[k].file \in loading
    BY <1>1, <1>4 DEF ImportInv, LoadingIsStack
  <2>2. 2..(Depth + 1) = 2..Depth \union {Depth + 1}
    BY <1>1
  <2>3. stack'[Depth + 1].file = f
    BY <1>2, <1>4
  <2>4. loading \union {f} = { stack'[k].file : k \in 2..(Depth + 1) }
    BY <2>1, <2>2, <2>3 DEF ImportInv, LoadingIsStack
  <2>5. \A j, k \in 2..(Depth + 1) : stack'[j].file = stack'[k].file => j = k
    BY <2>1, <2>2, <2>3, <1>5 DEF ImportInv, LoadingIsStack
  <2>6. (loading \union {f}) \intersect loaded = {}
    BY <1>5 DEF ImportInv, LoadingIsStack
  <2>. QED  BY <2>4, <2>5, <2>6, <1>5 DEF LoadingIsStack
<1>8. ASSUME NEW k \in 1..Depth
      PROVE  Chained(k)'
  <2>1. CASE k = Depth
    BY <2>1, <1>1, <1>2, <1>4, <1>5 DEF Chained, Enter, Importing, Line
  <2>2. CASE k # Depth
    <3>1. k \in 1..(Depth - 1) /\ k + 1 \in 1..Depth
      BY <2>2, <1>1
    <3>2. stack'[k] = stack[k] /\ stack'[k + 1] = stack[k + 1]
      BY <3>1, <1>4
    <3>. QED  BY <3>1, <3>2, <1>5 DEF ImportInv, Chained
  <2>. QED  BY <2>1, <2>2
<1>9. ASSUME NEW k \in 1..(Depth + 1)
      PROVE  Passed(k)'
  <2>1. CASE k = Depth + 1
    BY <2>1, <1>2, <1>4 DEF Passed
  <2>2. CASE k # Depth + 1
    <3>1. k \in 1..Depth
      BY <2>2, <1>1
    <3>2. stack'[k] = stack[k]
      BY <3>1, <1>4
    <3>. QED  BY <3>1, <3>2, <1>5 DEF ImportInv, Passed
  <2>. QED  BY <2>1, <2>2
<1>10. (Depth + 1) - 1 = Depth
  BY <1>1
<1>. QED  BY <1>5, <1>6, <1>7, <1>8, <1>9, <1>10 DEF ImportInv, RootNeverImported, Imported

(* A file that is finished has all its imports loaded, and is not run.     *)
LEMMA FinishedFile ==
  ASSUME ImportInv, AtEnd
  PROVE  Imported(Top.file) \subseteq loaded
<1>1. /\ Depth \in 1..Depth /\ Top.file \in Files /\ Top.at \in Nat \ {0}
      /\ Top = stack[Depth] /\ lines[Top.file] \in Seq(Files \union {Text, Missing})
  BY TopType DEF Top
<1>2. /\ Len(lines[Top.file]) \in Nat /\ DOMAIN lines[Top.file] = 1..Len(lines[Top.file])
  BY <1>1, LenProperties
<1>3. \A i \in DOMAIN lines[Top.file] : i \in 1..(Top.at - 1)
  BY <1>1, <1>2 DEF AtEnd
<1>4. \A i \in DOMAIN lines[Top.file] : lines[Top.file][i] \in Files \union {Text, Missing}
  BY <1>1, <1>2, ElementOfSeq
<1>5. Passed(Depth)
  BY <1>1 DEF ImportInv
<1>. QED  BY <1>1, <1>3, <1>4, <1>5 DEF Passed, Imported

LEMMA NotRunFile ==
  ASSUME ImportInv, AtEnd, Depth > 1
  PROVE  Top.file # Root
<1>1. /\ Depth \in Nat /\ Top = stack[Depth] /\ Imported(Top.file) \subseteq loaded
  BY TopType, FinishedFile DEF Top
<1>2. Chained(1) /\ stack[1].file = Root
  BY <1>1 DEF ImportInv, ImportsTypeOK
<1>3. stack[2].file \in loading /\ stack[2].file \notin loaded
  BY <1>1 DEF ImportInv, LoadingIsStack
<1>4. stack[1] \in FrameType /\ stack[2] \in FrameType
  <2>1. 1 \in 1..Len(stack) /\ 2 \in 1..Len(stack)
    BY <1>1 DEF Depth
  <2>. QED  BY <2>1, ElementOfSeq DEF ImportInv, ImportsTypeOK
<1>5. stack[2].file \in Files /\ stack[1].at \in Nat \ {0}
  BY <1>4 DEF FrameType
<1>6. stack[1].at \in DOMAIN lines[Root]
  <2>1. lines[Root] \in Seq(Files \union {Text, Missing})
    BY ImportsAssumption DEF ImportInv, ImportsTypeOK
  <2>. QED  BY <2>1, <1>2, <1>5, LenProperties DEF Chained
<1>7. stack[2].file \in Imported(Root)
  BY <1>2, <1>5, <1>6, ImportsAssumption DEF Chained, Imported
<1>. QED  BY <1>1, <1>3, <1>7

LEMMA LeaveInv ==
  ASSUME ImportInv, status = "run", Leave
  PROVE  ImportInv'
<1> DEFINE low == SubSeq(stack, 1, Depth - 1)
<1>1. /\ stack \in Seq(FrameType) /\ Depth \in Nat /\ Depth = Len(stack)
      /\ Top = stack[Depth] /\ Top.file \in Files /\ Top.out \in Seq(OutLine)
      /\ Depth - 1 \in Nat /\ Depth - 1 > 0 /\ Depth - 1 \in 1..Depth
  BY TopType DEF Leave, Depth, Top
<1>2. /\ low \in Seq(FrameType) /\ Len(low) = Depth - 1
      /\ \A k \in 1..(Depth - 1) : low[k] = stack[k]
  BY <1>1, PrefixProperties
<1>3. stack' = Advance(low, Top.out)
  BY DEF Leave, Popped
<1>4. /\ stack' \in Seq(FrameType) /\ Len(stack') = Depth - 1
      /\ stack'[Depth - 1].file = stack[Depth - 1].file
      /\ stack'[Depth - 1].at = stack[Depth - 1].at + 1
      /\ \A k \in 1..((Depth - 1) - 1) : stack'[k] = stack[k]
  <2> HIDE DEF low
  <2>1. low[Depth - 1] = stack[Depth - 1]
    BY <1>1, <1>2
  <2>2. \A k \in 1..((Depth - 1) - 1) : low[k] = stack[k]
    BY <1>1, <1>2
  <2>3. /\ Advance(low, Top.out) \in Seq(FrameType)
        /\ Len(Advance(low, Top.out)) = Len(low)
        /\ Advance(low, Top.out)[Len(low)].file = low[Len(low)].file
        /\ Advance(low, Top.out)[Len(low)].at = low[Len(low)].at + 1
        /\ \A k \in 1..(Len(low) - 1) : Advance(low, Top.out)[k] = low[k]
    <3>1. Len(low) > 0
      BY <1>1, <1>2
    <3>. QED  BY <3>1, <1>1, <1>2, AdvanceEffect
  <2>4. Len(low) = Depth - 1
    BY <1>2
  <2>. QED  BY <2>1, <2>2, <2>3, <2>4, <1>3
<1>5. /\ lines' = lines /\ readable' = readable /\ status' = status
      /\ loaded' = loaded \union {Top.file} /\ loading' = loading \ {Top.file}
      /\ Depth' = Depth - 1
  BY <1>4 DEF Leave, disk, Depth
<1>6. \A k \in 1..(Depth - 1) : stack'[k].file = stack[k].file
  <2>1. \A k \in 1..(Depth - 1) : k = Depth - 1 \/ k \in 1..((Depth - 1) - 1)
    BY <1>1
  <2>. QED  BY ONLY <1>4, <2>1
<1>7. Chained(Depth - 1) /\ (Depth - 1) + 1 = Depth
  BY <1>1 DEF ImportInv
<1>8. ImportsTypeOK'
  <2>1. ASSUME NEW k \in 1..(Depth - 1)
        PROVE  stack'[k].at <= Len(lines[stack'[k].file]) + 1
    <3>1. CASE k = Depth - 1
      <4>1. /\ stack[Depth - 1] \in FrameType
        BY <1>1, ElementOfSeq
      <4>2. stack[Depth - 1].at \in Nat /\ stack[Depth - 1].file \in Files
        BY <4>1 DEF FrameType
      <4>3. lines[stack[Depth - 1].file] \in Seq(Files \union {Text, Missing})
        BY <4>2 DEF ImportInv, ImportsTypeOK
      <4>4. Len(lines[stack[Depth - 1].file]) \in Nat
        BY <4>3, LenProperties
      <4>. QED  BY <3>1, <4>2, <4>4, <1>4, <1>7 DEF Chained
    <3>2. CASE k # Depth - 1
      <4>1. stack'[k] = stack[k] /\ k \in 1..Depth
        BY <3>2, <1>1, <1>4
      <4>. QED  BY <4>1 DEF ImportInv, ImportsTypeOK
    <3>. QED  BY <3>1, <3>2
  <2>2. stack'[1].file = Root
    BY <1>1, <1>6 DEF ImportInv, ImportsTypeOK
  <2>. QED  BY <1>1, <1>4, <1>5, <2>1, <2>2 DEF ImportInv, ImportsTypeOK
<1>9. LoadingIsStack'
  <2>1. loading = { stack[k].file : k \in 2..Depth }
    BY DEF ImportInv, LoadingIsStack
  <2>2. \A j, k \in 2..Depth : stack[j].file = stack[k].file => j = k
    BY DEF ImportInv, LoadingIsStack
  <2>3. 2..Depth = 2..(Depth - 1) \union {Depth} /\ Depth \notin 2..(Depth - 1)
    BY <1>1
  <2>4. \A k \in 2..(Depth - 1) : stack'[k].file = stack[k].file /\ stack[k].file # Top.file
    BY <1>1, <1>6, <2>2
  <2>5. loading \ {Top.file} = { stack'[k].file : k \in 2..(Depth - 1) }
    BY <1>1, <2>1, <2>3, <2>4
  <2>6. \A j, k \in 2..(Depth - 1) : stack'[j].file = stack'[k].file => j = k
    BY <2>2, <2>3, <2>4
  <2>7. (loading \ {Top.file}) \intersect (loaded \union {Top.file}) = {}
    BY DEF ImportInv, LoadingIsStack
  <2>. QED  BY <2>5, <2>6, <2>7, <1>5 DEF LoadingIsStack
<1>10. ASSUME NEW k \in 1..((Depth - 1) - 1)
       PROVE  Chained(k)'
  <2>1. k \in 1..(Depth - 1) /\ k + 1 \in 1..(Depth - 1)
    BY <1>1
  <2>2. Chained(k) /\ stack'[k] = stack[k] /\ stack'[k + 1].file = stack[k + 1].file
    BY <2>1, <1>4, <1>6 DEF ImportInv
  <2>. QED  BY <2>2, <1>5 DEF Chained
<1>11. ASSUME NEW k \in 1..(Depth - 1)
       PROVE  Passed(k)'
  <2>0. Passed(k) /\ k \in 1..Depth
    BY <1>1 DEF ImportInv
  <2>1. CASE k = Depth - 1
    <3>1. lines[stack[k].file][stack[k].at] = Top.file
      BY <2>1, <1>1, <1>7 DEF Chained
    <3>2. stack[k] \in FrameType
      BY <2>0, <1>1, ElementOfSeq
    <3>3. stack[k].at \in Nat \ {0}
      BY <3>2 DEF FrameType
    <3>4. \A i \in 1..((stack[k].at + 1) - 1) : i \in 1..(stack[k].at - 1) \/ i = stack[k].at
      BY <3>3
    <3>. QED  BY <2>0, <2>1, <3>1, <3>4, <1>4, <1>5 DEF Passed
  <2>2. CASE k # Depth - 1
    <3>1. stack'[k] = stack[k]
      BY <2>2, <1>1, <1>4
    <3>. QED  BY <2>0, <3>1, <1>5 DEF Passed
  <2>. QED  BY <2>1, <2>2
<1>12. \A f \in loaded' : Imported(f)' \subseteq loaded'
  <2>1. \A f : Imported(f)' = Imported(f)
    BY <1>5 DEF Imported
  <2>2. Imported(Top.file) \subseteq loaded
    BY FinishedFile DEF Leave
  <2>. QED  BY <2>1, <2>2, <1>5 DEF ImportInv
<1>13. RootNeverImported'
  BY <1>5, NotRunFile DEF ImportInv, RootNeverImported, Leave
<1>. QED  BY <1>5, <1>8, <1>9, <1>10, <1>11, <1>12, <1>13 DEF ImportInv

(* A step that changes nothing but the status.                             *)
LEMMA EndInv ==
  ASSUME ImportInv, UNCHANGED <<disk, stack, loading, loaded>>,
         status' \in {"run", "done", "unresolved", "unreadable", "circular"},
         status' = "circular" => ~AtEnd /\ Line \in loading,
         status' = "done" => AtEnd /\ Depth = 1
  PROVE  ImportInv'
<1>1. lines' = lines /\ readable' = readable /\ stack' = stack
      /\ loading' = loading /\ loaded' = loaded
  BY DEF disk
<1>2. ImportsTypeOK' /\ LoadingIsStack' /\ RootNeverImported'
  BY <1>1 DEF ImportInv, ImportsTypeOK, LoadingIsStack, RootNeverImported, Depth
<1>3. Depth' = Depth /\ AtEnd' = AtEnd /\ Line' = Line
  BY <1>1 DEF Depth, AtEnd, Line, Top
<1>4. \A k : (Chained(k) => Chained(k)') /\ (Passed(k) => Passed(k)')
  BY <1>1 DEF Chained, Passed
<1>5. \A f : Imported(f)' = Imported(f)
  BY <1>1 DEF Imported
<1>. QED  BY <1>1, <1>2, <1>3, <1>4, <1>5 DEF ImportInv

LEMMA ImportStarts == ImportInit => ImportInv
<1>. SUFFICES ASSUME ImportInit  PROVE ImportInv
  OBVIOUS
<1>1. Frame(Root) \in FrameType /\ Frame(Root).file = Root /\ Frame(Root).at = 1
  BY ImportsAssumption DEF Frame, FrameType
<1>2. /\ stack \in Seq(FrameType) /\ Depth = 1 /\ stack[1] = Frame(Root)
  BY <1>1 DEF ImportInit, Depth
<1>3. lines \in [Files -> Seq(Files \union {Text, Missing})]
  BY ImportsAssumption DEF ImportInit
<1>4. Len(lines[Root]) \in Nat
  <2>1. lines[Root] \in Seq(Files \union {Text, Missing})
    BY <1>3, ImportsAssumption
  <2>. QED  BY <2>1, LenProperties
<1>5. ImportsTypeOK
  BY <1>1, <1>2, <1>3, <1>4 DEF ImportInit, ImportsTypeOK
<1>6. LoadingIsStack /\ RootNeverImported
  BY <1>2 DEF ImportInit, LoadingIsStack, RootNeverImported
<1>7. Passed(1)
  BY <1>1, <1>2 DEF Passed
<1>. QED  BY <1>2, <1>5, <1>6, <1>7 DEF ImportInit, ImportInv

LEMMA ImportStep ==
  ASSUME ImportInv, [ImportNext]_importVars
  PROVE  ImportInv'
<1>1. CASE CopyText /\ status = "run"
  <2>1. <<[file |-> Top.file, line |-> Top.at]>> \in Seq(OutLine)
    BY TopType DEF OutLine
  <2>2. Line \notin Files
    BY <1>1, ImportsAssumption DEF CopyText
  <2>. QED  BY <1>1, <2>1, <2>2, AdvanceInv DEF CopyText
<1>2. CASE Unresolved
  BY <1>2, EndInv DEF Unresolved, Fail
<1>3. ASSUME NEW f \in Files, SkipLoaded(f), status = "run"
      PROVE  ImportInv'
  <2>1. << >> \in Seq(OutLine)
    OBVIOUS
  <2>. QED  BY <1>3, <2>1, AdvanceInv DEF SkipLoaded, Importing
<1>4. ASSUME NEW f \in Files, Circular(f)
      PROVE  ImportInv'
  BY <1>4, EndInv DEF Circular, Fail, Importing
<1>5. ASSUME NEW f \in Files, Unreadable(f)
      PROVE  ImportInv'
  BY <1>5, EndInv DEF Unreadable, Fail
<1>6. ASSUME NEW f \in Files, Enter(f), status = "run"
      PROVE  ImportInv'
  BY <1>6, EnterInv
<1>7. CASE Leave /\ status = "run"
  BY <1>7, LeaveInv
<1>8. CASE Finish
  BY <1>8, EndInv DEF Finish
<1>9. CASE UNCHANGED importVars
  <2>1. status' = status /\ UNCHANGED <<disk, stack, loading, loaded>>
    BY <1>9 DEF importVars, disk
  <2>. QED  BY <2>1, EndInv DEF ImportInv, ImportsTypeOK
<1>. QED  BY <1>1, <1>2, <1>3, <1>4, <1>5, <1>6, <1>7, <1>8, <1>9 DEF ImportNext

-----------------------------------------------------------------------------
LEMMA AlwaysInv == ImportSpec => []ImportInv
<1>1. ImportInit => ImportInv
  BY ImportStarts
<1>2. ImportInv /\ [ImportNext]_importVars => ImportInv'
  BY ImportStep
<1>. QED  BY <1>1, <1>2, PTL DEF ImportSpec

(* `loading` and `loaded` are what the recursion has open and has done.    *)
THEOREM LoadingCorrect == ImportSpec => []ImportsTypeOK /\ []LoadingIsStack
<1>1. ImportInv => ImportsTypeOK /\ LoadingIsStack
  BY DEF ImportInv
<1>. QED  BY <1>1, AlwaysInv, PTL

(* However the files import each other, a file enters `loaded` after all   *)
(* it imports.                                                             *)
THEOREM Postorder == ImportSpec => ImportsFirst
<1>1. ImportInv /\ [ImportNext]_importVars => [\A f \in loaded' \ loaded : Imported(f) \subseteq loaded]_importVars
  <2>. SUFFICES ASSUME ImportInv, ImportNext
                PROVE  \A f \in loaded' \ loaded : Imported(f) \subseteq loaded
    OBVIOUS
  <2>1. CASE Leave
    BY <2>1, FinishedFile DEF Leave
  <2>2. CASE ~Leave
    <3>1. loaded' = loaded
      BY <2>2 DEF ImportNext, CopyText, Unresolved, Fail, SkipLoaded, Circular, Unreadable,
                  Enter, Finish
    <3>. QED  BY <3>1
  <2>. QED  BY <2>1, <2>2
<1>. QED  BY <1>1, AlwaysInv, PTL DEF ImportSpec, ImportsFirst

(* The file run is expanded once and never imported, and a finished        *)
(* expansion has loaded all it reaches.                                    *)
THEOREM RootOnce == ImportSpec => []RootNeverImported /\ []Complete
<1>1. ImportInv => RootNeverImported
  BY DEF ImportInv
<1>2. ImportInv => Complete
  <2>. SUFFICES ASSUME ImportInv, status = "done"
                PROVE  \A f \in loaded \union {Root} : Imported(f) \subseteq loaded
    BY DEF Complete
  <2>1. AtEnd /\ Top.file = Root
    BY DEF ImportInv, ImportsTypeOK, Top
  <2>. QED  BY <2>1, FinishedFile DEF ImportInv
<1>. QED  BY <1>1, <1>2, AlwaysInv, PTL

(* "circular import" is reported only of a file that imports itself.       *)
THEOREM CircularIsReal == ImportSpec => []CycleIsReal
<1>1. ImportInv => CycleIsReal
  <2>. SUFFICES ASSUME ImportInv, status = "circular"
                PROVE  \E j \in 1..Depth :
                         /\ stack[j].file = Line
                         /\ Line \in Imported(Top.file)
                         /\ \A k \in j..(Depth - 1) :
                              stack[k + 1].file \in Imported(stack[k].file)
    BY DEF CycleIsReal
  <2>1. /\ ~AtEnd /\ Line \in loading /\ Depth \in Nat
        /\ Top.at \in 1..Len(lines[Top.file])
        /\ lines[Top.file] \in Seq(Files \union {Text, Missing})
    BY TopType DEF ImportInv
  <2>2. PICK j \in 2..Depth : stack[j].file = Line
    BY <2>1 DEF ImportInv, LoadingIsStack
  <2>3. Line \in Files
    BY <2>1 DEF ImportInv, ImportsTypeOK
  <2>4. Line \in Imported(Top.file)
    <3>1. Top.at \in DOMAIN lines[Top.file]
      BY <2>1, LenProperties
    <3>. QED  BY <2>3, <3>1, ImportsAssumption DEF Imported, Line
  <2>5. ASSUME NEW k \in 1..(Depth - 1)
        PROVE  stack[k + 1].file \in Imported(stack[k].file)
    <3>1. Chained(k) /\ k \in 1..Len(stack) /\ k + 1 \in 1..Len(stack)
      BY <2>1 DEF ImportInv, Depth
    <3>2. stack[k] \in FrameType /\ stack[k + 1] \in FrameType
      BY <3>1, ElementOfSeq DEF ImportInv, ImportsTypeOK
    <3>3. /\ stack[k].file \in Files /\ stack[k].at \in Nat \ {0}
          /\ stack[k + 1].file \in Files
      BY <3>2 DEF FrameType
    <3>4. lines[stack[k].file] \in Seq(Files \union {Text, Missing})
      BY <3>3 DEF ImportInv, ImportsTypeOK
    <3>5. stack[k].at \in DOMAIN lines[stack[k].file]
      BY <3>1, <3>3, <3>4, LenProperties DEF Chained
    <3>. QED  BY <3>1, <3>3, <3>5, ImportsAssumption DEF Chained, Imported
  <2>6. j \in 1..Depth /\ \A k \in j..(Depth - 1) : k \in 1..(Depth - 1)
    BY <2>1, <2>2
  <2>. QED  BY <2>2, <2>4, <2>5, <2>6
<1>. QED  BY <1>1, AlwaysInv, PTL

-----------------------------------------------------------------------------
(* The language server.                                                    *)
Requests == {"initialize", "hover", "completion", "rename", "shutdown"}
Changes == {"didOpen", "didChange"}
Notifications == Changes \union {"didClose", "initialized", "exit"}

Said == {"capabilities", "null", "items", "not implemented"} \union {Hover[t] : t \in Texts}
Shown == {Clean} \union {Diagnosis[t] : t \in Texts}
Contents == Texts \union {Closed}
Places == Uris \union {""}

Messages ==
  [method : Requests \union Notifications, id : Nat, uri : Places, texts : Seq(Texts)]
Proper(m) ==
  /\ m.method \in Requests <=> m.id # 0
  /\ m.method \in Changes \union {"didClose", "hover"} => m.uri \in Uris
  /\ m.method \in Changes => m.texts # <<>>

Letters ==
  [kind : {"diagnostics"}, uri : Uris, id : {0}, value : Shown]
    \union [kind : {"response"}, uri : Places, id : {SixDigits(n) : n \in Nat}, value : Said]

(* A future of the server, and one of the editor.                          *)
Views == [number : Nat, docs : [Uris -> Contents]]
Sights == [number : Nat, shown : [Uris -> Shown]]

(* After a message has been read.                                          *)
Past(p, m) ==
  [number |-> IF m.method \in Requests THEN p.number + 1 ELSE p.number,
   docs |-> IF m.method \in Changes THEN [p.docs EXCEPT ![m.uri] = m.texts[1]]
            ELSE IF m.method = "didClose" THEN [p.docs EXCEPT ![m.uri] = Closed]
            ELSE p.docs]

Heard(q, m) ==
  [number |-> IF m.kind = "response" THEN q.number + 1 ELSE q.number,
   shown |-> IF m.kind = "diagnostics" THEN [q.shown EXCEPT ![m.uri] = m.value] ELSE q.shown]

(* What a request asks for, and what is shown of a text.                   *)
Expected(m, docs) ==
  CASE m.method = "initialize" -> "capabilities"
    [] m.method = "hover" -> IF docs[m.uri] = Closed THEN "null" ELSE Hover[docs[m.uri]]
    [] m.method = "completion" -> "items"
    [] m.method = "rename" -> "not implemented"
    [] m.method = "shutdown" -> "null"

ShownFor(t) == IF t = Closed THEN Clean ELSE Diagnosis[t]

(* A request is the next one in the future in which it is read, and what   *)
(* it was asked for is what the documents will say then.                   *)
FitsServer(m, p) ==
  m.method \in Requests =>
    m.id = p.number + 1 /\ m.id <= Len(asked) /\ asked[m.id] = Expected(m, p.docs)

FitsEditor(m, q) ==
  m.kind = "response" =>
    /\ q.number + 1 <= Len(asked) /\ m.value = asked[q.number + 1]
    /\ m.id = SixDigits(q.number + 1)

TowardsServer(p) ==
  /\ p \in Seq(Views) /\ Len(p) = Len(toServer) + 1
  /\ p[1].docs = documents
  /\ \A k \in 1..Len(toServer) :
       Proper(toServer[k]) /\ FitsServer(toServer[k], p[k]) /\ p[k + 1] = Past(p[k], toServer[k])
  /\ p[Len(p)].number = Len(asked)
  /\ \A u \in Uris : whole[u] => p[Len(p)].docs[u] = text[u]

TowardsEditor(q) ==
  /\ q \in Seq(Sights) /\ Len(q) = Len(toClient) + 1
  /\ q[1] = [number |-> Len(answers), shown |-> shown]
  /\ \A k \in 1..Len(toClient) :
       FitsEditor(toClient[k], q[k]) /\ q[k + 1] = Heard(q[k], toClient[k])
  /\ serving # "crashed" => \A u \in Uris : q[Len(q)].shown[u] = ShownFor(documents[u])

LspTypeOK ==
  /\ text \in [Uris -> Contents] /\ whole \in [Uris -> BOOLEAN]
  /\ shown \in [Uris -> Shown]
  /\ asked \in Seq(Said) /\ answers \in Seq([id : {SixDigits(n) : n \in Nat}, value : Said])
  /\ toServer \in Seq(Messages) /\ toClient \in Seq(Letters)
  /\ documents \in [Uris -> Contents]

Served(p, q) == p[1].number = q[Len(q)].number

LspInv ==
  /\ LspTypeOK /\ AnswersFit
  /\ \E p, q : TowardsServer(p) /\ TowardsEditor(q) /\ Served(p, q)

-----------------------------------------------------------------------------
(* A pipe and its futures, when a message is written and when one is read. *)
LEMMA Grow ==
  ASSUME NEW S, NEW M, NEW s \in Seq(S), NEW q \in Seq(M), Len(s) = Len(q) + 1,
         NEW e \in S, NEW m \in M
  PROVE  /\ Append(s, e) \in Seq(S) /\ Append(q, m) \in Seq(M)
         /\ Len(q) \in Nat /\ Len(Append(q, m)) = Len(q) + 1
         /\ Len(Append(s, e)) = Len(Append(q, m)) + 1
         /\ Append(s, e)[1] = s[1] /\ Append(s, e)[Len(Append(s, e))] = e
         /\ \A k \in 1..Len(q) : Append(q, m)[k] = q[k]
         /\ \A k \in 1..Len(q) : Append(s, e)[k] = s[k] /\ Append(s, e)[k + 1] = s[k + 1]
         /\ Append(q, m)[Len(q) + 1] = m
         /\ Append(s, e)[Len(q) + 1] = s[Len(s)] /\ Append(s, e)[Len(q) + 2] = e
         /\ s[1] \in S /\ s[Len(s)] \in S
BY AppendProperties, LenProperties, ElementOfSeq

LEMMA Shift ==
  ASSUME NEW S, NEW M, NEW s \in Seq(S), NEW q \in Seq(M), Len(s) = Len(q) + 1, q # <<>>
  PROVE  /\ Tail(s) \in Seq(S) /\ Tail(q) \in Seq(M)
         /\ Len(q) \in Nat /\ 1 \in 1..Len(q)
         /\ Head(q) = q[1] /\ Head(q) \in M
         /\ Len(Tail(q)) = Len(q) - 1 /\ Len(Tail(s)) = Len(Tail(q)) + 1
         /\ Tail(s)[1] = s[2] /\ Tail(s)[Len(Tail(s))] = s[Len(s)]
         /\ \A k \in 1..Len(Tail(q)) :
              k + 1 \in 1..Len(q) /\ Tail(q)[k] = q[k + 1] /\ Tail(s)[k] = s[k + 1] /\ Tail(s)[k + 1] = s[k + 2]
         /\ s[1] \in S /\ s[2] \in S
<1>1. Len(q) \in Nat /\ Len(q) # 0
  BY LenProperties, EmptySeq
<1>2. s # <<>>
  BY <1>1, EmptySeq
<1>. QED  BY <1>1, <1>2, HeadTailProperties, LenProperties, ElementOfSeq
-----------------------------------------------------------------------------
LEMMA PastIsView ==
  ASSUME NEW p \in Views, NEW m \in Messages, Proper(m)
  PROVE  Past(p, m) \in Views
<1>1. p.number \in Nat /\ p.docs \in [Uris -> Contents]
  BY DEF Views
<1>2. m.method \in Changes => m.texts[1] \in Texts
  <2>. SUFFICES ASSUME m.method \in Changes PROVE m.texts[1] \in Texts
    OBVIOUS
  <2>1. m.texts \in Seq(Texts) /\ m.texts # <<>>
    BY DEF Messages, Proper
  <2>2. Len(m.texts) \in Nat \ {0}
    BY <2>1, EmptySeq, LenProperties
  <2>. QED  BY <2>1, <2>2, ElementOfSeq
<1>3. \A t \in Contents : [p.docs EXCEPT ![m.uri] = t] \in [Uris -> Contents]
  BY <1>1
<1>4. Past(p, m).docs \in [Uris -> Contents]
  <2>1. Past(p, m).docs = IF m.method \in Changes THEN [p.docs EXCEPT ![m.uri] = m.texts[1]]
                          ELSE IF m.method = "didClose" THEN [p.docs EXCEPT ![m.uri] = Closed]
                          ELSE p.docs
    BY DEF Past
  <2>. QED  BY <2>1, <1>1, <1>2, <1>3 DEF Contents
<1>5. Past(p, m).number \in Nat
  BY <1>1 DEF Past
<1>. QED  BY <1>4, <1>5 DEF Past, Views

LEMMA HeardIsSight ==
  ASSUME NEW q \in Sights, NEW m \in Letters
  PROVE  Heard(q, m) \in Sights
<1>1. q.number \in Nat /\ q.shown \in [Uris -> Shown]
  BY DEF Sights
<1>2. CASE m.kind = "diagnostics"
  <2>1. m.uri \in Uris /\ m.value \in Shown
    BY <1>2 DEF Letters
  <2>2. Heard(q, m) = [number |-> q.number, shown |-> [q.shown EXCEPT ![m.uri] = m.value]]
    BY <1>2 DEF Heard
  <2>3. [q.shown EXCEPT ![m.uri] = m.value] \in [Uris -> Shown]
    BY <1>1, <2>1
  <2>. QED  BY <1>1, <2>2, <2>3 DEF Sights
<1>3. CASE m.kind # "diagnostics"
  <2>1. Heard(q, m) = [number |-> IF m.kind = "response" THEN q.number + 1 ELSE q.number,
                       shown |-> q.shown]
    BY <1>3 DEF Heard
  <2>. QED  BY <1>1, <2>1 DEF Sights
<1>. QED  BY <1>2, <1>3

(* A message written by the editor, with what it does to its side.         *)
LEMMA Sending ==
  ASSUME LspInv, NEW m \in Messages, Proper(m), Send(m),
         text' \in [Uris -> Contents], whole' \in [Uris -> BOOLEAN], asked' \in Seq(Said),
         Len(asked) <= Len(asked)', \A i \in 1..Len(asked) : asked'[i] = asked[i],
         \A p \in Views :
           p.number = Len(asked) /\ (\A u \in Uris : whole[u] => p.docs[u] = text[u])
             => /\ FitsServer(m, p)' /\ Past(p, m).number = Len(asked)'
                /\ \A u \in Uris : whole'[u] => Past(p, m).docs[u] = text'[u]
  PROVE  LspInv'
<1>0. /\ toServer' = Append(toServer, m)
      /\ UNCHANGED <<toClient, documents, serving, shown, answers>>
  BY DEF Send, server
<1>1. PICK p, q : TowardsServer(p) /\ TowardsEditor(q) /\ Served(p, q)
  BY DEF LspInv
<1>2. /\ toServer \in Seq(Messages) /\ toClient \in Seq(Letters) /\ Len(asked) \in Nat
      /\ Len(asked)' \in Nat /\ Len(toServer) \in Nat /\ Len(toClient) \in Nat /\ Len(answers) \in Nat
  BY LenProperties DEF LspInv, LspTypeOK
<1>3. /\ p \in Seq(Views) /\ Len(p) = Len(toServer) + 1
      /\ q \in Seq(Sights) /\ Len(q) = Len(toClient) + 1
  BY <1>1 DEF TowardsServer, TowardsEditor
<1> DEFINE l == p[Len(p)]
           e == Past(l, m)
           r == Append(p, e)
<1>4. l \in Views /\ e \in Views
  BY <1>2, <1>3, ElementOfSeq, PastIsView
<1>5. /\ FitsServer(m, l)' /\ e.number = Len(asked)'
      /\ \A u \in Uris : whole'[u] => e.docs[u] = text'[u]
  BY <1>1, <1>4 DEF TowardsServer
<1>6. \A x, n : n \in Views /\ FitsServer(x, n) => FitsServer(x, n)'
  BY <1>2 DEF FitsServer, Views
<1>7. \A x, n : n \in Sights /\ FitsEditor(x, n) => FitsEditor(x, n)'
  BY <1>2 DEF FitsEditor, Sights
<1>8. LspTypeOK'
  BY <1>0, <1>2, AppendProperties DEF LspInv, LspTypeOK
<1>9. AnswersFit'
  BY <1>0, <1>2 DEF LspInv, AnswersFit
<1>10. TowardsServer(r)' /\ r[1] = p[1]
  <2> HIDE DEF l, e
  <2>1. /\ r \in Seq(Views) /\ Len(toServer') = Len(toServer) + 1
        /\ Len(r) = Len(toServer') + 1 /\ r[1] = p[1] /\ r[Len(r)] = e
        /\ \A k \in 1..Len(toServer) : toServer'[k] = toServer[k] /\ r[k] = p[k] /\ r[k + 1] = p[k + 1]
        /\ toServer'[Len(toServer) + 1] = m
        /\ r[Len(toServer) + 1] = l /\ r[Len(toServer) + 2] = e
    BY Grow, <1>0, <1>2, <1>3, <1>4 DEF l
  <2>2. ASSUME NEW k \in 1..Len(toServer')
        PROVE  /\ Proper(toServer'[k]) /\ FitsServer(toServer[k], r[k])'
               /\ r[k + 1] = Past(r[k], toServer'[k])
    <3>1. CASE k \in 1..Len(toServer)
      <4>1. Proper(toServer[k]) /\ FitsServer(toServer[k], p[k]) /\ p[k + 1] = Past(p[k], toServer[k])
        BY <1>1, <3>1 DEF TowardsServer
      <4>2. p[k] \in Views
        BY <1>2, <1>3, <3>1, ElementOfSeq
      <4>3. toServer'[k] = toServer[k] /\ r[k] = p[k] /\ r[k + 1] = p[k + 1]
        BY <2>1, <3>1
      <4>4. PICK x : x = toServer[k]
        OBVIOUS
      <4>5. FitsServer(x, p[k])'
        BY <4>1, <4>2, <4>4, <1>6
      <4>. QED  BY <4>1, <4>3, <4>4, <4>5 DEF FitsServer
    <3>2. CASE k = Len(toServer) + 1
      <4>1. toServer'[k] = m /\ r[k] = l /\ r[k + 1] = e
        BY <2>1, <3>2, <1>2
      <4>. QED  BY <4>1, <1>5 DEF e, FitsServer
    <3>. QED  BY <3>1, <3>2, <2>1, <1>2
  <2>3. r[1].docs = documents'
    BY <2>1, <1>0, <1>1 DEF TowardsServer
  <2>. QED  BY <2>1, <2>2, <2>3, <1>5 DEF TowardsServer
<1>11. TowardsEditor(q)'
  <2>1. \A k \in 1..Len(toClient) : q[k] \in Sights
    BY <1>2, <1>3, ElementOfSeq
  <2>. QED  BY <1>0, <1>1, <1>7, <2>1, <1>2 DEF TowardsEditor, FitsEditor, Sights
<1>12. Served(r, q)'
  BY <1>0, <1>10, <1>1 DEF Served
<1>. QED  BY <1>8, <1>9, <1>10, <1>11, <1>12 DEF LspInv

(* A message read by the server and answered by one letter.                *)
LEMMA Replying ==
  ASSUME LspInv, toServer # <<>>, toServer' = Tail(toServer), UNCHANGED editor,
         NEW r \in Letters, toClient' = Append(toClient, r), documents' \in [Uris -> Contents],
         \A p \in Views, q \in Sights :
           /\ p.docs = documents /\ q.number = p.number
           /\ Proper(Head(toServer)) /\ FitsServer(Head(toServer), p)
           /\ serving # "crashed" => \A u \in Uris : q.shown[u] = ShownFor(documents[u])
           => /\ FitsEditor(r, q)
              /\ Past(p, Head(toServer)).docs = documents'
              /\ Past(p, Head(toServer)).number = Heard(q, r).number
              /\ serving' # "crashed" => \A u \in Uris : Heard(q, r).shown[u] = ShownFor(documents'[u])
  PROVE  LspInv'
<1>0. UNCHANGED <<text, whole, shown, asked, answers>>
  BY DEF editor
<1>1. PICK p, q : TowardsServer(p) /\ TowardsEditor(q) /\ Served(p, q)
  BY DEF LspInv
<1>2. /\ toServer \in Seq(Messages) /\ toClient \in Seq(Letters) /\ Len(asked) \in Nat
      /\ Len(toServer) \in Nat /\ Len(toClient) \in Nat
  BY LenProperties DEF LspInv, LspTypeOK
<1>3. /\ p \in Seq(Views) /\ Len(p) = Len(toServer) + 1
      /\ q \in Seq(Sights) /\ Len(q) = Len(toClient) + 1
  BY <1>1 DEF TowardsServer, TowardsEditor
<1> DEFINE m == Head(toServer)
           l == q[Len(q)]
           e == Heard(l, r)
           n == Append(q, e)
<1>4. /\ Tail(p) \in Seq(Views) /\ m = toServer[1] /\ m \in Messages /\ 1 \in 1..Len(toServer)
      /\ Len(toServer') = Len(toServer) - 1 /\ Len(Tail(p)) = Len(toServer') + 1
      /\ Tail(p)[1] = p[2] /\ Tail(p)[Len(Tail(p))] = p[Len(p)]
      /\ \A k \in 1..Len(toServer') :
            k + 1 \in 1..Len(toServer) /\ toServer'[k] = toServer[k + 1]
              /\ Tail(p)[k] = p[k + 1] /\ Tail(p)[k + 1] = p[k + 2]
      /\ p[1] \in Views /\ toServer' \in Seq(Messages)
  <2>1. /\ Tail(p) \in Seq(Views) /\ Tail(toServer) \in Seq(Messages)
        /\ Len(toServer) \in Nat /\ 1 \in 1..Len(toServer)
        /\ Head(toServer) = toServer[1] /\ Head(toServer) \in Messages
        /\ Len(Tail(toServer)) = Len(toServer) - 1 /\ Len(Tail(p)) = Len(Tail(toServer)) + 1
        /\ Tail(p)[1] = p[2] /\ Tail(p)[Len(Tail(p))] = p[Len(p)]
        /\ \A k \in 1..Len(Tail(toServer)) :
             /\ k + 1 \in 1..Len(toServer) /\ Tail(toServer)[k] = toServer[k + 1]
             /\ Tail(p)[k] = p[k + 1] /\ Tail(p)[k + 1] = p[k + 2]
        /\ p[1] \in Views
    BY Shift, <1>2, <1>3
  <2>. QED  BY <2>1, <1>2
<1>5. l \in Sights /\ e \in Sights
  BY <1>2, <1>3, ElementOfSeq, HeardIsSight
<1>6. Proper(m) /\ FitsServer(m, p[1]) /\ p[2] = Past(p[1], m) /\ p[1].docs = documents
  BY <1>1, <1>4 DEF TowardsServer
<1>7. /\ FitsEditor(r, l) /\ p[2].docs = documents' /\ p[2].number = e.number
      /\ serving' # "crashed" => \A u \in Uris : e.shown[u] = ShownFor(documents'[u])
  <2>1. /\ l.number = p[1].number
        /\ serving # "crashed" => \A u \in Uris : l.shown[u] = ShownFor(documents[u])
    BY <1>1 DEF Served, TowardsEditor
  <2>. QED  BY <2>1, <1>4, <1>5, <1>6
<1>8. LspTypeOK'
  BY <1>0, <1>2, <1>4, AppendProperties DEF LspInv, LspTypeOK
<1>9. AnswersFit'
  BY <1>0 DEF LspInv, AnswersFit
<1>10. TowardsServer(Tail(p))'
  BY <1>0, <1>1, <1>2, <1>3, <1>4, <1>7 DEF TowardsServer, FitsServer
<1>11. TowardsEditor(n)' /\ n[Len(n)] = e
  <2> HIDE DEF l, e
  <2>1. /\ n \in Seq(Sights) /\ Len(toClient') = Len(toClient) + 1
        /\ Len(n) = Len(toClient') + 1 /\ n[1] = q[1] /\ n[Len(n)] = e
        /\ \A k \in 1..Len(toClient) : toClient'[k] = toClient[k] /\ n[k] = q[k] /\ n[k + 1] = q[k + 1]
        /\ toClient'[Len(toClient) + 1] = r
        /\ n[Len(toClient) + 1] = l /\ n[Len(toClient) + 2] = e
    BY Grow, <1>2, <1>3, <1>5 DEF l
  <2>2. ASSUME NEW k \in 1..Len(toClient')
        PROVE  FitsEditor(toClient[k], n[k])' /\ n[k + 1] = Heard(n[k], toClient'[k])
    <3>1. CASE k \in 1..Len(toClient)
      <4>1. FitsEditor(toClient[k], q[k]) /\ q[k + 1] = Heard(q[k], toClient[k])
        BY <1>1, <3>1 DEF TowardsEditor
      <4>. QED  BY <4>1, <2>1, <3>1, <1>0 DEF FitsEditor
    <3>2. CASE k = Len(toClient) + 1
      <4>1. toClient'[k] = r /\ n[k] = l /\ n[k + 1] = e
        BY <2>1, <3>2, <1>2
      <4>. QED  BY <4>1, <1>7, <1>0 DEF e, FitsEditor
    <3>. QED  BY <3>1, <3>2, <2>1, <1>2
  <2>3. n[1] = [number |-> Len(answers)', shown |-> shown']
    BY <2>1, <1>0, <1>1 DEF TowardsEditor
  <2>. QED  BY <2>1, <2>2, <2>3, <1>7 DEF TowardsEditor
<1>12. Served(Tail(p), n)'
  BY <1>4, <1>7, <1>11 DEF Served
<1>. QED  BY <1>8, <1>9, <1>10, <1>11, <1>12 DEF LspInv

(* A message read by the server without a letter.                          *)
LEMMA Reading ==
  ASSUME LspInv, toServer # <<>>, toServer' = Tail(toServer), UNCHANGED <<editor, toClient>>,
         documents' \in [Uris -> Contents],
         serving' # "crashed" => serving # "crashed" /\ UNCHANGED documents,
         \A p \in Views :
           p.docs = documents /\ Proper(Head(toServer))
           => /\ Past(p, Head(toServer)).docs = documents'
              /\ Past(p, Head(toServer)).number = p.number
  PROVE  LspInv'
<1>0. UNCHANGED <<text, whole, shown, asked, answers, toClient>>
  BY DEF editor
<1>1. PICK p, q : TowardsServer(p) /\ TowardsEditor(q) /\ Served(p, q)
  BY DEF LspInv
<1>2. /\ toServer \in Seq(Messages) /\ toClient \in Seq(Letters) /\ Len(asked) \in Nat
      /\ Len(toServer) \in Nat /\ Len(toClient) \in Nat
  BY LenProperties DEF LspInv, LspTypeOK
<1>3. /\ p \in Seq(Views) /\ Len(p) = Len(toServer) + 1
  BY <1>1 DEF TowardsServer
<1> DEFINE m == Head(toServer)
<1>4. /\ Tail(p) \in Seq(Views) /\ m = toServer[1] /\ m \in Messages /\ 1 \in 1..Len(toServer)
      /\ Len(toServer') = Len(toServer) - 1 /\ Len(Tail(p)) = Len(toServer') + 1
      /\ Tail(p)[1] = p[2] /\ Tail(p)[Len(Tail(p))] = p[Len(p)]
      /\ \A k \in 1..Len(toServer') :
            k + 1 \in 1..Len(toServer) /\ toServer'[k] = toServer[k + 1]
              /\ Tail(p)[k] = p[k + 1] /\ Tail(p)[k + 1] = p[k + 2]
      /\ p[1] \in Views /\ toServer' \in Seq(Messages)
  <2>1. /\ Tail(p) \in Seq(Views) /\ Tail(toServer) \in Seq(Messages)
        /\ Len(toServer) \in Nat /\ 1 \in 1..Len(toServer)
        /\ Head(toServer) = toServer[1] /\ Head(toServer) \in Messages
        /\ Len(Tail(toServer)) = Len(toServer) - 1 /\ Len(Tail(p)) = Len(Tail(toServer)) + 1
        /\ Tail(p)[1] = p[2] /\ Tail(p)[Len(Tail(p))] = p[Len(p)]
        /\ \A k \in 1..Len(Tail(toServer)) :
             /\ k + 1 \in 1..Len(toServer) /\ Tail(toServer)[k] = toServer[k + 1]
             /\ Tail(p)[k] = p[k + 1] /\ Tail(p)[k + 1] = p[k + 2]
        /\ p[1] \in Views
    BY Shift, <1>2, <1>3
  <2>. QED  BY <2>1, <1>2
<1>5. p[2].docs = documents' /\ p[2].number = p[1].number
  <2>1. Proper(m) /\ p[2] = Past(p[1], m) /\ p[1].docs = documents
    BY <1>1, <1>4 DEF TowardsServer
  <2>. QED  BY <2>1, <1>4
<1>6. LspTypeOK'
  BY <1>0, <1>2, <1>4 DEF LspInv, LspTypeOK
<1>7. AnswersFit'
  BY <1>0 DEF LspInv, AnswersFit
<1>8. TowardsServer(Tail(p))'
  <2> HIDE DEF m
  <2>1. ASSUME NEW k \in 1..Len(toServer')
        PROVE  /\ Proper(toServer'[k]) /\ FitsServer(toServer'[k], Tail(p)[k])
               /\ Tail(p)[k + 1] = Past(Tail(p)[k], toServer'[k])
    <3>1. k + 1 \in 1..Len(toServer)
      BY <1>4
    <3>2. /\ Proper(toServer[k + 1]) /\ FitsServer(toServer[k + 1], p[k + 1])
          /\ p[(k + 1) + 1] = Past(p[k + 1], toServer[k + 1])
      BY <1>1, <3>1 DEF TowardsServer
    <3>. QED  BY <3>2, <1>4, <1>2
  <2>2. /\ Tail(p)[Len(Tail(p))].number = Len(asked)
        /\ \A u \in Uris : whole[u] => Tail(p)[Len(Tail(p))].docs[u] = text[u]
    BY <1>1, <1>4 DEF TowardsServer
  <2>. QED  BY <2>1, <2>2, <1>0, <1>4, <1>5 DEF TowardsServer, FitsServer
<1>9. TowardsEditor(q)'
  BY <1>0, <1>1 DEF TowardsEditor, FitsEditor
<1>10. Served(Tail(p), q)'
  BY <1>4, <1>5, <1>1 DEF Served
<1>. QED  BY <1>6, <1>7, <1>8, <1>9, <1>10 DEF LspInv

LEMMA Receiving ==
  ASSUME LspInv, Receive
  PROVE  LspInv'
<1>0. UNCHANGED <<text, whole, asked, toServer, documents, serving>>
  BY DEF Receive, server
<1>1. PICK p, q : TowardsServer(p) /\ TowardsEditor(q) /\ Served(p, q)
  BY DEF LspInv
<1>2. /\ toServer \in Seq(Messages) /\ toClient \in Seq(Letters) /\ Len(asked) \in Nat
      /\ Len(toServer) \in Nat /\ Len(toClient) \in Nat /\ Len(answers) \in Nat
      /\ toClient # <<>> /\ toClient' = Tail(toClient)
  BY LenProperties DEF LspInv, LspTypeOK, Receive
<1>3. q \in Seq(Sights) /\ Len(q) = Len(toClient) + 1
  BY <1>1 DEF TowardsEditor
<1> DEFINE m == Head(toClient)
<1>4. /\ Tail(q) \in Seq(Sights) /\ m = toClient[1] /\ m \in Letters /\ 1 \in 1..Len(toClient)
      /\ Len(toClient') = Len(toClient) - 1 /\ Len(Tail(q)) = Len(toClient') + 1
      /\ Tail(q)[1] = q[2] /\ Tail(q)[Len(Tail(q))] = q[Len(q)]
      /\ \A k \in 1..Len(toClient') :
            k + 1 \in 1..Len(toClient) /\ toClient'[k] = toClient[k + 1]
              /\ Tail(q)[k] = q[k + 1] /\ Tail(q)[k + 1] = q[k + 2]
      /\ q[1] \in Sights /\ q[2] \in Sights /\ toClient' \in Seq(Letters)
  <2>1. /\ Tail(q) \in Seq(Sights) /\ Tail(toClient) \in Seq(Letters)
        /\ Len(toClient) \in Nat /\ 1 \in 1..Len(toClient)
        /\ Head(toClient) = toClient[1] /\ Head(toClient) \in Letters
        /\ Len(Tail(toClient)) = Len(toClient) - 1 /\ Len(Tail(q)) = Len(Tail(toClient)) + 1
        /\ Tail(q)[1] = q[2] /\ Tail(q)[Len(Tail(q))] = q[Len(q)]
        /\ \A k \in 1..Len(Tail(toClient)) :
             /\ k + 1 \in 1..Len(toClient) /\ Tail(toClient)[k] = toClient[k + 1]
             /\ Tail(q)[k] = q[k + 1] /\ Tail(q)[k + 1] = q[k + 2]
        /\ q[1] \in Sights /\ q[2] \in Sights
    BY Shift, <1>2, <1>3
  <2>. QED  BY <2>1, <1>2
<1>5. /\ FitsEditor(m, q[1]) /\ q[2] = Heard(q[1], m)
      /\ q[1] = [number |-> Len(answers), shown |-> shown]
  BY <1>1, <1>4 DEF TowardsEditor
<1>6. /\ q[2] = [number |-> Len(answers)', shown |-> shown']
      /\ answers' \in Seq([id : {SixDigits(n) : n \in Nat}, value : Said])
      /\ AnswersFit'
  <2>0. answers \in Seq([id : {SixDigits(n) : n \in Nat}, value : Said]) /\ AnswersFit
    BY DEF LspInv, LspTypeOK
  <2>1. CASE m.kind = "diagnostics"
    <3>1. shown' = [shown EXCEPT ![m.uri] = m.value] /\ answers' = answers
      BY <2>1 DEF Receive
    <3>. QED  BY <3>1, <2>0, <2>1, <1>0, <1>5 DEF Heard, AnswersFit
  <2>2. CASE m.kind # "diagnostics"
    <3> DEFINE a == [id |-> m.id, value |-> m.value]
    <3>1. shown' = shown /\ answers' = Append(answers, a)
      BY <2>2 DEF Receive
    <3>4. m.kind = "response" /\ m.id \in {SixDigits(i) : i \in Nat} /\ m.value \in Said
      <4> HIDE DEF m
      <4>. QED  BY <1>4, <2>2 DEF Letters
    <3>5. a \in [id : {SixDigits(i) : i \in Nat}, value : Said]
      BY <3>4
    <3>6. /\ Len(answers') = Len(answers) + 1
          /\ answers' \in Seq([id : {SixDigits(i) : i \in Nat}, value : Said])
          /\ \A i \in 1..Len(answers) : answers'[i] = answers[i]
          /\ answers'[Len(answers) + 1] = a
      <4> DEFINE A == [id : {SixDigits(i) : i \in Nat}, value : Said]
      <4>1. answers \in Seq(A) /\ a \in A /\ answers' = Append(answers, a)
        BY <2>0, <3>1, <3>5
      <4> HIDE DEF A, a
      <4>2. /\ Len(answers') = Len(answers) + 1 /\ answers' \in Seq(A)
            /\ \A i \in 1..Len(answers) : answers'[i] = answers[i]
            /\ answers'[Len(answers) + 1] = a
        BY <4>1, AppendProperties, LenProperties
      <4>. QED  BY <4>2 DEF A
    <3>7. /\ Len(answers) + 1 <= Len(asked) /\ a.value = asked[Len(answers) + 1]
          /\ a.id = SixDigits(Len(answers) + 1)
      BY <1>5, <3>4 DEF FitsEditor
    <3>8. Len(answers) + 1 < Exact => SixDigits(Len(answers) + 1) = Len(answers) + 1
      BY DEF SixDigits
    <3>9. AnswersFit'
      <4> HIDE DEF a
      <4>. SUFFICES ASSUME NEW i \in 1..Len(answers')
                    PROVE  /\ i <= Len(asked) /\ answers'[i].value = asked[i]
                           /\ i < Exact => answers'[i].id = i
        BY <1>0 DEF AnswersFit
      <4>1. CASE i \in 1..Len(answers)
        BY <4>1, <3>6, <2>0 DEF AnswersFit
      <4>2. CASE i = Len(answers) + 1
        BY <4>2, <3>6, <3>7, <3>8
      <4>. QED  BY <4>1, <4>2, <3>6, <1>2
    <3>10. q[2] = [number |-> Len(answers)', shown |-> shown']
      BY <1>5, <3>4, <3>6, <3>1 DEF Heard
    <3>. QED  BY <3>6, <3>9, <3>10
  <2>. QED  BY <2>1, <2>2
<1>7. LspTypeOK'
  <2>1. shown' \in [Uris -> Shown]
    BY <1>4, <1>6 DEF Sights
  <2>. QED  BY <2>1, <1>0, <1>4, <1>6 DEF LspInv, LspTypeOK
<1>8. TowardsServer(p)'
  BY <1>0, <1>1 DEF TowardsServer, FitsServer
<1>9. TowardsEditor(Tail(q))'
  BY <1>0, <1>1, <1>2, <1>3, <1>4, <1>6 DEF TowardsEditor, FitsEditor
<1>10. Served(p, Tail(q))'
  BY <1>4, <1>1 DEF Served
<1>. QED  BY <1>6, <1>7, <1>8, <1>9, <1>10 DEF LspInv

(* Nothing is written or read.                                             *)
LEMMA Idling ==
  ASSUME LspInv, UNCHANGED <<text, whole, shown, asked, answers, toServer, toClient, documents>>,
         serving' # "crashed" => serving # "crashed"
  PROVE  LspInv'
<1>1. PICK p, q : TowardsServer(p) /\ TowardsEditor(q) /\ Served(p, q)
  BY DEF LspInv
<1>2. TowardsServer(p)' /\ TowardsEditor(q)' /\ Served(p, q)'
  BY <1>1 DEF TowardsServer, TowardsEditor, Served, FitsServer, FitsEditor
<1>3. LspTypeOK' /\ AnswersFit'
  BY DEF LspInv, LspTypeOK, AnswersFit
<1>. QED  BY <1>2, <1>3 DEF LspInv

-----------------------------------------------------------------------------
LEMMA Starts == LspInit => LspInv
<1>. SUFFICES ASSUME LspInit PROVE LspInv
  OBVIOUS
<1> DEFINE p == <<[number |-> 0, docs |-> documents]>>
           q == <<[number |-> 0, shown |-> shown]>>
<1>1. LspTypeOK
  BY DEF LspInit, LspTypeOK, Contents, Shown
<1>2. AnswersFit
  BY DEF LspInit, AnswersFit
<1>3. TowardsServer(p)
  <2>1. [number |-> 0, docs |-> documents] \in Views
    BY DEF LspInit, Views, Contents
  <2>. QED  BY <2>1 DEF LspInit, TowardsServer
<1>4. TowardsEditor(q)
  <2>1. [number |-> 0, shown |-> shown] \in Sights
    BY DEF LspInit, Sights, Shown
  <2>. QED  BY <2>1 DEF LspInit, TowardsEditor, ShownFor
<1>5. Served(p, q)
  BY DEF Served
<1>. QED  BY <1>1, <1>2, <1>3, <1>4, <1>5 DEF LspInv

(* What the editor does: a request takes the next number, and its answer   *)
(* is what the documents that the user sees will say.                      *)
LEMMA Asking ==
  ASSUME LspInv, NEW a \in Requests, NEW v \in Places, NEW x \in Said,
         Ask(a, v, x), a = "hover" => v \in Uris,
         \A p \in Views : (\A u \in Uris : whole[u] => p.docs[u] = text[u]) =>
                           Expected(Message(a, Len(asked) + 1, v, <<>>), p.docs) = x
  PROVE  LspInv'
<1>. PICK m : m = Message(a, Len(asked) + 1, v, <<>>)
  OBVIOUS
<1>0. asked' = Append(asked, x) /\ Send(m) /\ UNCHANGED <<text, whole>>
  BY DEF Ask
<1>1. asked \in Seq(Said) /\ Len(asked) \in Nat /\ text \in [Uris -> Contents] /\ whole \in [Uris -> BOOLEAN]
  BY LenProperties DEF LspInv, LspTypeOK
<1>2. /\ asked' \in Seq(Said) /\ Len(asked)' = Len(asked) + 1
      /\ \A i \in 1..Len(asked) : asked'[i] = asked[i]
      /\ asked'[Len(asked) + 1] = x
  BY <1>0, <1>1, AppendProperties
<1>3. m \in Messages /\ Proper(m)
  <2>1. <<>> \in Seq(Texts)
    OBVIOUS
  <2>. QED  BY <2>1, <1>1 DEF Messages, Proper, Message, Requests, Changes
<1>4. m.method = a /\ m.id = Len(asked) + 1 /\ a \notin Changes \union {"didClose"}
  BY DEF Message, Requests, Changes
<1>5. ASSUME NEW p \in Views, p.number = Len(asked), \A u \in Uris : whole[u] => p.docs[u] = text[u]
      PROVE  /\ FitsServer(m, p)' /\ Past(p, m).number = Len(asked)'
             /\ \A u \in Uris : whole'[u] => Past(p, m).docs[u] = text'[u]
  <2>1. Expected(m, p.docs) = x
    BY <1>5
  <2>2. Past(p, m).number = Len(asked) + 1 /\ Past(p, m).docs = p.docs
    BY <1>4, <1>5 DEF Past
  <2>3. m.id = p.number + 1 /\ m.id <= Len(asked)' /\ asked'[m.id] = Expected(m, p.docs)
    BY <1>1, <1>2, <1>4, <1>5, <2>1
  <2>4. FitsServer(m, p)'
    BY <2>3 DEF FitsServer
  <2>. QED  BY <2>2, <2>4, <1>0, <1>2, <1>5
<1>6. \A p \in Views :
        p.number = Len(asked) /\ (\A u \in Uris : whole[u] => p.docs[u] = text[u])
          => /\ FitsServer(m, p)' /\ Past(p, m).number = Len(asked)'
             /\ \A u \in Uris : whole'[u] => Past(p, m).docs[u] = text'[u]
  BY <1>5
<1>7. /\ text' \in [Uris -> Contents] /\ whole' \in [Uris -> BOOLEAN] /\ Len(asked) <= Len(asked)'
      /\ Send(m)
  BY <1>0, <1>1, <1>2
<1>. QED  BY <1>2, <1>3, <1>6, <1>7, Sending

(* A notification: what it leaves the documents as is what the user sees,  *)
(* unless it was not sent as a whole.                                      *)
LEMMA Notifying ==
  ASSUME LspInv, NEW m \in Messages, Proper(m), Send(m), m.method \notin Requests, UNCHANGED asked,
         text' \in [Uris -> Contents], whole' \in [Uris -> BOOLEAN],
         \A p \in Views : (\A u \in Uris : whole[u] => p.docs[u] = text[u])
            => \A u \in Uris : whole'[u] => Past(p, m).docs[u] = text'[u]
  PROVE  LspInv'
<1>1. asked \in Seq(Said) /\ Len(asked) \in Nat
  BY LenProperties DEF LspInv, LspTypeOK
<1>2. ASSUME NEW p \in Views, p.number = Len(asked), \A u \in Uris : whole[u] => p.docs[u] = text[u]
      PROVE  /\ FitsServer(m, p)' /\ Past(p, m).number = Len(asked)'
             /\ \A u \in Uris : whole'[u] => Past(p, m).docs[u] = text'[u]
  BY <1>2 DEF FitsServer, Past
<1>. QED  BY <1>1, <1>2, Sending

LEMMA Writing ==
  ASSUME LspInv, NEW u \in Uris, NEW t \in Contents, NEW m \in Messages, Proper(m), Send(m),
         UNCHANGED asked, text' = [text EXCEPT ![u] = t], NEW b \in BOOLEAN, whole' = [whole EXCEPT ![u] = b],
         m.uri = u,
         \/ m.method \in Changes /\ (b => m.texts[1] = t)
         \/ m.method = "didClose" /\ t = Closed
  PROVE  LspInv'
<1>1. text \in [Uris -> Contents] /\ whole \in [Uris -> BOOLEAN]
  BY DEF LspInv, LspTypeOK
<1>2. text' \in [Uris -> Contents] /\ whole' \in [Uris -> BOOLEAN] /\ m.method \notin Requests
  BY <1>1 DEF Requests, Changes
<1>3. ASSUME NEW p \in Views, \A v \in Uris : whole[v] => p.docs[v] = text[v],
             NEW v \in Uris, whole'[v]
      PROVE  Past(p, m).docs[v] = text'[v]
  <2>1. p.docs \in [Uris -> Contents]
    BY DEF Views
  <2>2. \E c : Past(p, m).docs = [p.docs EXCEPT ![u] = c] /\ (b => c = t)
    <3>1. CASE m.method \in Changes
      BY <3>1 DEF Past, Changes
    <3>2. CASE m.method = "didClose"
      BY <3>2 DEF Past, Changes
    <3>. QED  BY <3>1, <3>2
  <2>. QED  BY <2>1, <2>2, <1>1, <1>3
<1>. QED  BY <1>2, <1>3, Notifying

LEMMA EditorSteps == LspInv /\ EditorNext => LspInv'
<1>. SUFFICES ASSUME LspInv, EditorNext PROVE LspInv'
  OBVIOUS
<1>0. /\ text \in [Uris -> Contents] /\ whole \in [Uris -> BOOLEAN] /\ Len(asked) \in Nat
  BY LenProperties DEF LspInv, LspTypeOK
<1>1. PICK no \in Places : no = ""
  BY DEF Places
<1>p. Uris \subseteq Places
  BY DEF Places
<1>2. ASSUME NEW a \in {"initialize", "rename", "shutdown"}, NEW x \in Said, Ask(a, no, x),
             \A i \in Nat : \A docs : Expected(Message(a, i, no, <<>>), docs) = x
      PROVE  LspInv'
  BY <1>0, <1>2, Asking DEF Requests
<1>3. CASE Initialize
  <2>1. Ask("initialize", no, "capabilities") /\ "capabilities" \in Said
    BY <1>1, <1>3 DEF Initialize, Said
  <2>2. \A i \in Nat : \A docs : Expected(Message("initialize", i, no, <<>>), docs) = "capabilities"
    BY DEF Expected, Message
  <2>. QED  BY <1>2, <2>1, <2>2
<1>4. CASE AskOther
  <2>1. Ask("rename", no, "not implemented") /\ "not implemented" \in Said
    BY <1>1, <1>4 DEF AskOther, Said
  <2>2. \A i \in Nat : \A docs : Expected(Message("rename", i, no, <<>>), docs) = "not implemented"
    BY DEF Expected, Message
  <2>. QED  BY <1>2, <2>1, <2>2
<1>5. CASE Shutdown
  <2>1. Ask("shutdown", no, "null") /\ "null" \in Said
    BY <1>1, <1>5 DEF Shutdown, Said
  <2>2. \A i \in Nat : \A docs : Expected(Message("shutdown", i, no, <<>>), docs) = "null"
    BY DEF Expected, Message
  <2>. QED  BY <1>2, <2>1, <2>2
<1>6. ASSUME NEW a \in {"initialized", "exit"}, Send(Message(a, 0, no, <<>>)), UNCHANGED <<text, whole, asked>>
      PROVE  LspInv'
  <2>. PICK m : m = Message(a, 0, no, <<>>)
    OBVIOUS
  <2>1. m \in Messages /\ Proper(m) /\ m.method = a
    <3>1. <<>> \in Seq(Texts)
      OBVIOUS
    <3>. QED  BY <3>1 DEF Messages, Proper, Message, Requests, Changes, Notifications
  <2>2. \A p : Past(p, m).docs = p.docs
    BY <2>1 DEF Past, Changes
  <2>3. m.method \notin Requests
    BY <2>1 DEF Requests
  <2>. QED  BY <1>0, <1>6, <2>1, <2>2, <2>3, Notifying
<1>7. CASE Initialized
  BY <1>1, <1>6, <1>7 DEF Initialized
<1>8. CASE Exit
  BY <1>1, <1>6, <1>8 DEF Exit
<1>9. CASE Vanish
  BY <1>9, Idling DEF Vanish, server
<1>10. ASSUME NEW u \in Uris, EditorCloses(u) PROVE LspInv'
  <2>. PICK m : m = Message("didClose", 0, u, <<>>)
    OBVIOUS
  <2>1. m \in Messages /\ Proper(m) /\ m.method = "didClose" /\ m.uri = u
    <3>1. <<>> \in Seq(Texts) /\ u \in Places
      BY <1>p
    <3>. QED  BY <3>1 DEF Messages, Proper, Message, Requests, Changes, Notifications
  <2>2. Closed \in Contents
    BY DEF Contents
  <2>. QED  BY <1>10, <2>1, <2>2, Writing DEF EditorCloses
<1>11. ASSUME NEW u \in Uris, NEW t \in Texts, EditorOpens(u, t) PROVE LspInv'
  <2>. PICK m : m = Message("didOpen", 0, u, <<t>>)
    OBVIOUS
  <2>1. m \in Messages /\ Proper(m) /\ m.method \in Changes /\ m.uri = u /\ m.texts[1] = t
    <3>1. <<t>> \in Seq(Texts) /\ <<t>> # <<>> /\ u \in Places
      BY <1>p
    <3>. QED  BY <3>1 DEF Messages, Proper, Message, Requests, Changes, Notifications
  <2>2. t \in Contents
    BY DEF Contents
  <2>. QED  BY <1>11, <2>1, <2>2, Writing DEF EditorOpens
<1>12. ASSUME NEW u \in Uris, NEW ts \in Seq(Texts), Len(ts) \in {1, 2}, EditorChanges(u, ts)
       PROVE  LspInv'
  <2>. PICK m : m = Message("didChange", 0, u, ts)
    OBVIOUS
  <2>1. m \in Messages /\ Proper(m) /\ m.method \in Changes /\ m.uri = u /\ m.texts = ts
    <3>1. Len(ts) # 0
      BY <1>12
    <3>2. ts # <<>>
      BY <3>1
    <3>3. u \in Places
      BY <1>p
    <3>. QED  BY <3>2, <3>3 DEF Messages, Proper, Message, Requests, Changes, Notifications
  <2>2. ts[Len(ts)] \in Contents
    BY <1>12, ElementOfSeq DEF Contents
  <2>3. PICK t, b : t = ts[Len(ts)] /\ b = (Len(ts) = 1)
    OBVIOUS
  <2>4. /\ text' = [text EXCEPT ![u] = t] /\ whole' = [whole EXCEPT ![u] = b]
        /\ Send(m) /\ UNCHANGED asked /\ b \in BOOLEAN /\ (b => m.texts[1] = t)
    BY <1>12, <2>1, <2>3 DEF EditorChanges
  <2>. QED  BY <2>1, <2>2, <2>3, <2>4, Writing
<1>13. ASSUME NEW u \in Uris, AskHover(u) PROVE LspInv'
  <2>1. PICK x : x = IF text[u] = Closed THEN "null" ELSE Hover[text[u]]
    OBVIOUS
  <2>2. x \in Said /\ Ask("hover", u, x) /\ whole[u]
    BY <1>0, <1>13, <2>1 DEF AskHover, Said, Contents
  <2>3. \A p \in Views : (\A v \in Uris : whole[v] => p.docs[v] = text[v]) =>
           Expected(Message("hover", Len(asked) + 1, u, <<>>), p.docs) = x
    BY <2>1, <2>2 DEF Expected, Message
  <2>4. u \in Places /\ "hover" \in Requests
    BY DEF Places, Requests
  <2>. QED  BY <2>2, <2>3, <2>4, Asking
<1>14. ASSUME NEW u \in Uris, AskCompletion(u) PROVE LspInv'
  <2>1. Ask("completion", u, "items") /\ "items" \in Said /\ u \in Places /\ "completion" \in Requests
    BY <1>14 DEF AskCompletion, Said, Places, Requests
  <2>2. \A i, docs : Expected(Message("completion", i, u, <<>>), docs) = "items"
    BY DEF Expected, Message
  <2>. QED  BY <2>1, <2>2, Asking
<1>15. \A t, t2 \in Texts : /\ <<t>> \in Seq(Texts) /\ Len(<<t>>) = 1
                            /\ <<t, t2>> \in Seq(Texts) /\ Len(<<t, t2>>) = 2
  OBVIOUS
<1>. QED
  BY <1>3, <1>4, <1>5, <1>7, <1>8, <1>9, <1>10, <1>11, <1>12, <1>13, <1>14, <1>15 DEF EditorNext

-----------------------------------------------------------------------------
(* What is at the head of the input.                                       *)
LEMMA HeadIsProper ==
  ASSUME LspInv, NEW a, Reads(a)
  PROVE  /\ toServer # <<>> /\ toServer' = Tail(toServer) /\ UNCHANGED editor /\ serving = "running"
         /\ Head(toServer) \in Messages /\ Proper(Head(toServer)) /\ Head(toServer).method = a
         /\ documents \in [Uris -> Contents]
<1>1. PICK p : TowardsServer(p)
  BY DEF LspInv
<1>2. toServer \in Seq(Messages) /\ toServer # <<>>
  BY DEF LspInv, LspTypeOK, Reads
<1>3. Head(toServer) = toServer[1] /\ 1 \in 1..Len(toServer) /\ Head(toServer) \in Messages
  BY <1>2, HeadTailProperties, LenProperties, EmptySeq, ElementOfSeq
<1>. QED  BY <1>1, <1>2, <1>3 DEF TowardsServer, Reads, LspInv, LspTypeOK

LEMMA Answering ==
  ASSUME LspInv, NEW a \in Requests, Reads(a), NEW x \in Said, Responds(x),
         x = Expected(Head(toServer), documents)
  PROVE  LspInv'
<1>1. /\ toServer # <<>> /\ toServer' = Tail(toServer) /\ UNCHANGED editor /\ serving = "running"
      /\ Head(toServer) \in Messages /\ Head(toServer).method = a
      /\ documents \in [Uris -> Contents]
  BY HeadIsProper
<1>2. UNCHANGED <<documents, serving>>
  BY DEF Responds, server
<1>3. PICK r : r = Response(SixDigits(Head(toServer).id), x)
  OBVIOUS
<1>4. r \in Letters /\ r.kind = "response" /\ r.value = x /\ r.id = SixDigits(Head(toServer).id)
  <2>1. Head(toServer).id \in Nat
    BY <1>1 DEF Messages
  <2>2. "" \in Places
    BY DEF Places
  <2>. QED  BY <1>3, <2>1, <2>2 DEF Letters, Response
<1>5. toClient' = Append(toClient, r)
  BY <1>3 DEF Responds, Replies
<1>6. ASSUME NEW p \in Views, NEW q \in Sights, p.docs = documents, q.number = p.number,
             FitsServer(Head(toServer), p),
             serving # "crashed" => \A u \in Uris : q.shown[u] = ShownFor(documents[u])
      PROVE  /\ FitsEditor(r, q)
             /\ Past(p, Head(toServer)).docs = documents'
             /\ Past(p, Head(toServer)).number = Heard(q, r).number
             /\ serving' # "crashed" => \A u \in Uris : Heard(q, r).shown[u] = ShownFor(documents'[u])
  <2>1. FitsEditor(r, q)
    BY <1>1, <1>4, <1>6 DEF FitsServer, FitsEditor
  <2>2. Past(p, Head(toServer)).docs = p.docs /\ Past(p, Head(toServer)).number = p.number + 1
    BY <1>1 DEF Past, Requests, Changes
  <2>3. Heard(q, r).number = q.number + 1 /\ Heard(q, r).shown = q.shown
    BY <1>4 DEF Heard
  <2>. QED  BY <1>1, <1>2, <1>6, <2>1, <2>2, <2>3
<1>. QED  BY <1>1, <1>2, <1>4, <1>5, <1>6, Replying

(* A text is stored, or forgotten, and what is to be shown of it is sent.  *)
LEMMA Publishing ==
  ASSUME LspInv, NEW a \in Changes \union {"didClose"}, Reads(a),
         NEW t \in Contents, NEW v \in Shown, v = ShownFor(t),
         documents' = [documents EXCEPT ![Head(toServer).uri] = t],
         IF a = "didClose" THEN t = Closed ELSE t = Head(toServer).texts[1],
         UNCHANGED serving, Replies(Published(Head(toServer).uri, v))
  PROVE  LspInv'
<1>1. /\ toServer # <<>> /\ toServer' = Tail(toServer) /\ UNCHANGED editor /\ serving = "running"
      /\ Head(toServer) \in Messages /\ Proper(Head(toServer)) /\ Head(toServer).method = a
      /\ documents \in [Uris -> Contents]
  BY HeadIsProper
<1>2. Head(toServer).uri \in Uris
  BY <1>1 DEF Proper
<1>3. PICK r : r = Published(Head(toServer).uri, v)
  OBVIOUS
<1>4. r \in Letters /\ r.kind = "diagnostics" /\ r.uri = Head(toServer).uri /\ r.value = v
  BY <1>2, <1>3 DEF Letters, Published
<1>5. toClient' = Append(toClient, r)
  BY <1>3 DEF Replies
<1>6. documents' \in [Uris -> Contents]
  BY <1>1
<1>7. ASSUME NEW p \in Views, NEW q \in Sights, p.docs = documents, q.number = p.number,
             serving # "crashed" => \A u \in Uris : q.shown[u] = ShownFor(documents[u])
      PROVE  /\ FitsEditor(r, q)
             /\ Past(p, Head(toServer)).docs = documents'
             /\ Past(p, Head(toServer)).number = Heard(q, r).number
             /\ \A u \in Uris : Heard(q, r).shown[u] = ShownFor(documents'[u])
  <2>1. FitsEditor(r, q)
    BY <1>4 DEF FitsEditor
  <2>2. Past(p, Head(toServer)).docs = documents' /\ Past(p, Head(toServer)).number = p.number
    BY <1>1, <1>7 DEF Past, Requests, Changes
  <2>3. Heard(q, r).number = q.number /\ Heard(q, r).shown = [q.shown EXCEPT ![Head(toServer).uri] = v]
    BY <1>4 DEF Heard
  <2>4. q.shown \in [Uris -> Shown]
    BY DEF Sights
  <2>. QED  BY <1>1, <1>2, <1>7, <2>1, <2>2, <2>3, <2>4
<1>8. \A p \in Views, q \in Sights :
        /\ p.docs = documents /\ q.number = p.number
        /\ Proper(Head(toServer)) /\ FitsServer(Head(toServer), p)
        /\ serving # "crashed" => \A u \in Uris : q.shown[u] = ShownFor(documents[u])
        => /\ FitsEditor(r, q)
           /\ Past(p, Head(toServer)).docs = documents'
           /\ Past(p, Head(toServer)).number = Heard(q, r).number
           /\ serving' # "crashed" => \A u \in Uris : Heard(q, r).shown[u] = ShownFor(documents'[u])
  BY <1>1, <1>7
<1>. QED  BY <1>1, <1>4, <1>5, <1>6, <1>8, Replying

LEMMA Diagnosing ==
  ASSUME LspInv, NEW a \in Changes, Reads(a), Diagnose(Head(toServer).uri, Head(toServer).texts[1])
  PROVE  LspInv'
<1>1. /\ toServer # <<>> /\ toServer' = Tail(toServer) /\ UNCHANGED editor /\ serving = "running"
      /\ Head(toServer) \in Messages /\ Proper(Head(toServer)) /\ Head(toServer).method = a
      /\ documents \in [Uris -> Contents]
  BY HeadIsProper
<1>2. Head(toServer).uri \in Uris
  BY <1>1 DEF Proper
<1>3. PICK t : t = Head(toServer).texts[1]
  OBVIOUS
<1>4. t \in Texts /\ t # Closed /\ t \in Contents
  <2>1. Head(toServer).texts \in Seq(Texts) /\ Head(toServer).texts # <<>>
    BY <1>1 DEF Messages, Proper
  <2>2. 1 \in 1..Len(Head(toServer).texts)
    BY <2>1, EmptySeq, LenProperties
  <2>. QED  BY <1>3, <2>1, <2>2, ElementOfSeq, TextsOfOpen DEF Contents
<1>5. documents' = [documents EXCEPT ![Head(toServer).uri] = t]
  BY <1>3 DEF Diagnose
<1>6. CASE t \in Crashing
  <2>1. serving' = "crashed" /\ UNCHANGED toClient
    BY <1>3, <1>6 DEF Diagnose
  <2>2. \A p \in Views : p.docs = documents =>
           /\ Past(p, Head(toServer)).docs = documents'
           /\ Past(p, Head(toServer)).number = p.number
    BY <1>1, <1>3, <1>5 DEF Past, Requests, Changes
  <2>3. documents' \in [Uris -> Contents]
    BY <1>1, <1>4, <1>5
  <2>. QED  BY <1>1, <2>1, <2>2, <2>3, Reading
<1>7. CASE t \notin Crashing
  <2>1. UNCHANGED serving /\ Replies(Published(Head(toServer).uri, Diagnosis[t]))
    BY <1>3, <1>7 DEF Diagnose
  <2>2. PICK v \in Shown : v = Diagnosis[t]
    BY <1>4 DEF Shown
  <2>3. v = ShownFor(t) /\ a # "didClose"
    BY <1>4, <2>2 DEF ShownFor, Changes
  <2>. QED  BY <1>3, <1>4, <1>5, <2>1, <2>2, <2>3, Publishing
<1>. QED  BY <1>6, <1>7

LEMMA ServerSteps == LspInv /\ ServerNext => LspInv'
<1>. SUFFICES ASSUME LspInv, ServerNext PROVE LspInv'
  OBVIOUS
<1>1. CASE OnInitialize
  <2>1. Reads("initialize") /\ Responds("capabilities")
    BY <1>1 DEF OnInitialize
  <2>2. Expected(Head(toServer), documents) = "capabilities"
    BY <2>1 DEF Expected, Reads
  <2>. QED  BY <2>1, <2>2, Answering DEF Said, Requests
<1>2. CASE OnShutdown
  <2>1. Reads("shutdown") /\ Responds("null")
    BY <1>2 DEF OnShutdown
  <2>2. Expected(Head(toServer), documents) = "null"
    BY <2>1 DEF Expected, Reads
  <2>. QED  BY <2>1, <2>2, Answering DEF Said, Requests
<1>3. CASE OnCompletion
  <2>1. Reads("completion") /\ Responds("items")
    BY <1>3 DEF OnCompletion
  <2>2. Expected(Head(toServer), documents) = "items"
    BY <2>1 DEF Expected, Reads
  <2>. QED  BY <2>1, <2>2, Answering DEF Said, Requests
<1>4. CASE OnOther
  <2>1. Reads("rename") /\ Responds("not implemented")
    BY <1>4 DEF OnOther
  <2>2. Expected(Head(toServer), documents) = "not implemented"
    BY <2>1 DEF Expected, Reads
  <2>. QED  BY <2>1, <2>2, Answering DEF Said, Requests
<1>5. CASE OnHover
  <2>1. Reads("hover") /\ Responds(HoverFor(Head(toServer).uri))
    BY <1>5 DEF OnHover
  <2>2. PICK x : x = HoverFor(Head(toServer).uri)
    OBVIOUS
  <2>3. x = Expected(Head(toServer), documents)
    BY <2>1, <2>2 DEF Expected, Reads, HoverFor
  <2>4. Head(toServer).uri \in Uris /\ documents \in [Uris -> Contents]
    BY <2>1, HeadIsProper DEF Proper
  <2>5. x \in Said
    BY <2>2, <2>4 DEF HoverFor, Said, Contents
  <2>. QED  BY <2>1, <2>2, <2>3, <2>5, Answering DEF Requests
<1>6. ASSUME NEW a \in {"initialized", "exit"}, Reads(a), UNCHANGED <<toClient, documents>>,
             serving' \in {serving, "stopped"}
      PROVE  LspInv'
  <2>1. /\ toServer # <<>> /\ toServer' = Tail(toServer) /\ UNCHANGED editor /\ serving = "running"
        /\ Head(toServer).method = a /\ documents \in [Uris -> Contents]
    BY <1>6, HeadIsProper
  <2>2. \A p \in Views : p.docs = documents =>
           /\ Past(p, Head(toServer)).docs = documents'
           /\ Past(p, Head(toServer)).number = p.number
    BY <1>6, <2>1 DEF Past, Requests, Changes
  <2>. QED  BY <1>6, <2>1, <2>2, Reading
<1>7. CASE OnInitialized
  BY <1>6, <1>7 DEF OnInitialized, server
<1>8. CASE OnExit
  BY <1>6, <1>8 DEF OnExit
<1>9. CASE OnOpen
  BY <1>9, Diagnosing DEF OnOpen, Changes
<1>10. CASE OnChange
  BY <1>10, Diagnosing DEF OnChange, Changes
<1>11. CASE OnClose
  <2>1. Clean \in Shown /\ Closed \in Contents /\ Clean = ShownFor(Closed)
    BY DEF Shown, Contents, ShownFor
  <2>. QED  BY <1>11, <2>1, Publishing DEF OnClose
<1>12. CASE OnEnd
  BY <1>12, Idling DEF OnEnd, editor
<1>. QED
  BY <1>1, <1>2, <1>3, <1>4, <1>5, <1>7, <1>8, <1>9, <1>10, <1>11, <1>12 DEF ServerNext

LEMMA LspInvInductive == LspInv /\ [LspNext]_lspVars => LspInv'
<1>1. LspInv /\ UNCHANGED lspVars => LspInv'
  BY Idling DEF lspVars, editor, server
<1>. QED  BY <1>1, EditorSteps, ServerSteps, Receiving DEF LspNext

(* Whatever the user does while messages are on their way, the answers     *)
(* come in the order of the requests, one for each, and a hover is         *)
(* answered from the text the user saw when asking.                        *)
THEOREM LspAnswersFit == LspSpec => []AnswersFit
<1>1. LspInv => AnswersFit
  BY DEF LspInv
<1>. QED  BY <1>1, Starts, LspInvInductive, PTL DEF LspSpec

(* When nothing is on its way, the diagnostics shown are those of the      *)
(* texts.                                                                  *)
THEOREM LspShownIsCurrent == LspSpec => []ShownIsCurrent
<1>1. LspInv => ShownIsCurrent
  <2>. SUFFICES ASSUME LspInv, toServer = <<>>, toClient = <<>>, serving = "running",
                       NEW u \in Uris, whole[u]
                PROVE  shown[u] = ShownFor(text[u])
    BY DEF ShownIsCurrent, ShownFor
  <2>1. PICK p, q : TowardsServer(p) /\ TowardsEditor(q)
    BY DEF LspInv
  <2>2. Len(p) = 1 /\ Len(q) = 1
    BY <2>1 DEF TowardsServer, TowardsEditor
  <2>3. documents[u] = text[u] /\ shown[u] = ShownFor(documents[u])
    BY <2>1, <2>2 DEF TowardsServer, TowardsEditor
  <2>. QED  BY <2>3
<1>. QED  BY <1>1, Starts, LspInvInductive, PTL DEF LspSpec
=============================================================================
