---------------------------- MODULE TableOpsProofs ----------------------------
(***************************************************************************)
(* Lemmas about the operations of TableOps, for keys and values from any   *)
(* sets: each keeps keyMap exact, and does to the content what it should.  *)
(***************************************************************************)
EXTENDS TableOps, TLAPS, SequenceTheorems

\* Rows with keys from K and values from V, and a table of them.
Rows(K, V) == [key : K, vals : V]

IsStored(t, K, V) ==
  /\ t = [data |-> t.data, keyMap |-> t.keyMap]
  /\ t.data \in Seq(Rows(K, V))
  /\ t.keyMap \in [DOMAIN t.keyMap -> Nat]
  /\ DOMAIN t.keyMap \subseteq K

Exact(t, K, V) == IsStored(t, K, V) /\ KeyMapExact(t)

\* A table without rows is exact.
LEMMA EmptyExact ==
  ASSUME NEW K, NEW V
  PROVE  Exact(EmptyTable, K, V) /\ Content(EmptyTable) = [k \in {} |-> {}]
BY DEF EmptyTable, Exact, IsStored, KeyMapExact, Size, Has, Content, Rows

\* A row with a new key is added at the end.
LEMMA InsertExact ==
  ASSUME NEW K, NEW V, NEW t, Exact(t, K, V), NEW k \in K, NEW vals \in V, ~Has(t.keyMap, k)
  PROVE  /\ Exact(InsertByIndex(t, k, vals), K, V)
         /\ Content(InsertByIndex(t, k, vals)) = Put(Content(t), k, vals)
<1> DEFINE n == Len(t.data)
           u == InsertByIndex(t, k, vals)
<1>1. n \in Nat /\ t.data \in Seq(Rows(K, V)) /\ Row(k, vals) \in Rows(K, V)
  BY DEF Exact, IsStored, Row, Rows
<1>2. /\ u.data = Append(t.data, Row(k, vals))
      /\ u.keyMap = [x \in DOMAIN t.keyMap \cup {k} |->
                       IF x = k THEN n + 1 ELSE t.keyMap[x]]
      /\ u = [data |-> u.data, keyMap |-> u.keyMap]
  BY DEF InsertByIndex, Emplace, Put, Has, Size
<1> HIDE DEF u
<1>3. /\ u.data \in Seq(Rows(K, V)) /\ Len(u.data) = n + 1
      /\ \A p \in 1..n : u.data[p] = t.data[p]
      /\ u.data[n + 1] = Row(k, vals)
  BY <1>1, <1>2
<1>4. /\ DOMAIN u.keyMap = DOMAIN t.keyMap \cup {k}
      /\ u.keyMap[k] = n + 1
      /\ \A x \in DOMAIN t.keyMap : u.keyMap[x] = t.keyMap[x]
  BY <1>2 DEF Has
<1>5. IsStored(u, K, V)
  BY <1>1, <1>2, <1>3 DEF Exact, IsStored
<1>6. KeyMapExact(u)
  <2>1. ASSUME NEW p \in 1..n+1
        PROVE  Has(u.keyMap, u.data[p].key) /\ u.keyMap[u.data[p].key] = p
    <3>1. CASE p = n + 1
      BY <3>1, <1>3, <1>4 DEF Row, Has
    <3>2. CASE p \in 1..n
      BY <3>2, <1>3, <1>4 DEF Exact, KeyMapExact, Has, Size
    <3> QED BY <3>1, <3>2, <1>1
  <2>2. ASSUME NEW x \in DOMAIN u.keyMap
        PROVE  u.keyMap[x] \in 1..n+1 /\ u.data[u.keyMap[x]].key = x
    <3>1. CASE x = k
      BY <3>1, <1>1, <1>3, <1>4 DEF Row
    <3>2. CASE x \in DOMAIN t.keyMap
      <4>1. t.keyMap[x] \in 1..n /\ t.data[t.keyMap[x]].key = x
        BY <3>2 DEF Exact, KeyMapExact, Size
      <4> QED BY <3>2, <4>1, <1>1, <1>3, <1>4
    <3> QED BY <3>1, <3>2, <1>4
  <2> QED BY <2>1, <2>2, <1>3 DEF KeyMapExact, Size
<1>7. Content(u) = Put(Content(t), k, vals)
  <2>1. \A x \in DOMAIN t.keyMap : t.keyMap[x] \in 1..n
    BY DEF Exact, KeyMapExact, Size
  <2>2. \A x \in DOMAIN t.keyMap : u.data[u.keyMap[x]].vals = t.data[t.keyMap[x]].vals
    BY <2>1, <1>3, <1>4
  <2>3. u.data[u.keyMap[k]].vals = vals
    BY <1>3, <1>4 DEF Row
  <2> QED BY <2>2, <2>3, <1>4 DEF Content, Put, Has
<1> QED BY <1>5, <1>6, <1>7 DEF Exact, u

\* A row is deleted, and the last row takes its position.
LEMMA DeleteExact ==
  ASSUME NEW K, NEW V, NEW t, Exact(t, K, V), NEW k, Has(t.keyMap, k)
  PROVE  /\ Exact(DeleteByIndex(t, k), K, V)
         /\ Content(DeleteByIndex(t, k)) = Erase(Content(t), k)
<1> DEFINE n == Len(t.data)
           index == t.keyMap[k]
           last == t.data[n]
           u == DeleteByIndex(t, k)
<1>1. /\ n \in Nat /\ t.data \in Seq(Rows(K, V))
      /\ index \in 1..n /\ t.data[index].key = k
  BY DEF Exact, IsStored, KeyMapExact, Size, Has
<1>2. last \in Rows(K, V) /\ Has(t.keyMap, last.key) /\ t.keyMap[last.key] = n
  BY <1>1 DEF Exact, KeyMapExact, Size
<1>3. /\ u.data = SubSeq([t.data EXCEPT ![index] = last], 1, n - 1)
      /\ u.keyMap = Erase(Put(t.keyMap, last.key, index), k)
      /\ u = [data |-> u.data, keyMap |-> u.keyMap]
  BY DEF DeleteByIndex, Size
<1> HIDE DEF u, index, last
<1>4. /\ u.data \in Seq(Rows(K, V)) /\ Len(u.data) = n - 1
      /\ \A p \in 1..n-1 : u.data[p] = IF p = index THEN last ELSE t.data[p]
  <2> DEFINE moved == [t.data EXCEPT ![index] = last]
  <2>1. moved \in Seq(Rows(K, V)) /\ Len(moved) = n
    BY <1>1, <1>2
  <2>2. \A p \in 1..n : moved[p] = IF p = index THEN last ELSE t.data[p]
    BY <1>1
  <2> HIDE DEF moved
  <2>3. SubSeq(moved, 1, n - 1) = [p \in 1..n-1 |-> moved[p]]
    BY <1>1, <2>1
  <2>4. \A p \in 1..n-1 : moved[p] \in Rows(K, V)
    BY <1>1, <2>1
  <2>5. [p \in 1..n-1 |-> moved[p]] \in Seq(Rows(K, V))
    BY <1>1, <2>4
  <2> QED BY <1>1, <1>3, <2>2, <2>3, <2>5 DEF moved
<1>5. /\ DOMAIN u.keyMap = DOMAIN t.keyMap \ {k}
      /\ \A x \in DOMAIN u.keyMap :
           u.keyMap[x] = IF x = last.key THEN index ELSE t.keyMap[x]
  BY <1>2, <1>3 DEF Erase, Put, Has
<1>6. IsStored(u, K, V)
  <2>1. \A x \in DOMAIN u.keyMap : u.keyMap[x] \in Nat
    BY <1>1, <1>5 DEF Exact, IsStored
  <2>2. u.keyMap = [x \in DOMAIN u.keyMap |-> u.keyMap[x]]
    BY <1>3 DEF Erase
  <2> QED BY <1>3, <1>4, <1>5, <2>1, <2>2 DEF Exact, IsStored
<1>7. ASSUME NEW x \in DOMAIN u.keyMap
      PROVE  /\ u.keyMap[x] \in 1..n-1
             /\ u.data[u.keyMap[x]] = t.data[t.keyMap[x]]
             /\ t.data[t.keyMap[x]].key = x
  <2>1. t.keyMap[x] \in 1..n /\ t.data[t.keyMap[x]].key = x /\ x # k
    BY <1>5 DEF Exact, KeyMapExact, Size
  <2>2. CASE x = last.key
    <3>1. index # n
      BY <1>1, <2>1, <2>2 DEF last
    <3>2. u.keyMap[x] = index /\ t.keyMap[x] = n
      BY <2>2, <1>2, <1>5
    <3>3. index \in 1..n-1
      BY <3>1, <1>1
    <3>4. u.data[index] = last
      BY <3>3, <1>4
    <3> QED BY <2>1, <3>2, <3>3, <3>4 DEF last
  <2>3. CASE x # last.key
    <3>1. t.keyMap[x] # n /\ t.keyMap[x] # index
      BY <1>1, <2>1, <2>3 DEF last
    <3>2. u.keyMap[x] = t.keyMap[x]
      BY <2>3, <1>5
    <3>3. t.keyMap[x] \in 1..n-1
      BY <3>1, <2>1, <1>1
    <3>4. u.data[t.keyMap[x]] = t.data[t.keyMap[x]]
      BY <3>1, <3>3, <1>4
    <3> QED BY <2>1, <3>2, <3>3, <3>4
  <2> QED BY <2>2, <2>3
<1>8. KeyMapExact(u)
  <2>1. ASSUME NEW p \in 1..n-1
        PROVE  Has(u.keyMap, u.data[p].key) /\ u.keyMap[u.data[p].key] = p
    <3>1. Has(t.keyMap, t.data[p].key) /\ t.keyMap[t.data[p].key] = p
      BY <1>1 DEF Exact, KeyMapExact, Size
    <3>2. CASE p = index
      <4>1. last.key # k
        BY <1>1, <1>2, <3>2 DEF index
      <4> QED BY <4>1, <3>2, <1>2, <1>4, <1>5 DEF Has
    <3>3. CASE p # index
      <4>1. t.data[p].key # k /\ t.data[p].key # last.key
        BY <1>1, <1>2, <3>1, <3>3 DEF index
      <4> QED BY <4>1, <3>1, <3>3, <1>4, <1>5 DEF Has
    <3> QED BY <3>2, <3>3
  <2> QED BY <2>1, <1>4, <1>7 DEF KeyMapExact, Size
<1>9. Content(u) = Erase(Content(t), k)
  BY <1>5, <1>7 DEF Content, Erase
<1> QED BY <1>6, <1>8, <1>9 DEF Exact, u

\* A copy of a row is added at the end.
LEMMA DuplicateExact ==
  ASSUME NEW K, NEW V, NEW t, Exact(t, K, V), NEW k, Has(t.keyMap, k),
         CopyKey(k) \in K, CheckNotDuplicate(t, k)
  PROVE  /\ Exact(DuplicateKey(t, k), K, V)
         /\ Content(DuplicateKey(t, k)) = Put(Content(t), CopyKey(k), Content(t)[k])
<1>1. t.keyMap[k] \in 1..Len(t.data) /\ t.data \in Seq(Rows(K, V))
  BY DEF Exact, IsStored, KeyMapExact, Size, Has
<1>2. t.data[t.keyMap[k]] \in Rows(K, V) /\ t.data[t.keyMap[k]].vals \in V
  <2>1. t.data[t.keyMap[k]] \in Rows(K, V)
    BY <1>1
  <2> QED BY <2>1 DEF Rows
<1>3. Content(t)[k] = t.data[t.keyMap[k]].vals
  BY DEF Content, Has
<1> QED BY <1>2, <1>3, InsertExact DEF DuplicateKey, CheckNotDuplicate

\* A row is given a key that it has already or that no row has.
LEMMA SetKeyExact ==
  ASSUME NEW K, NEW V, NEW t, Exact(t, K, V), NEW p \in 1..Size(t), NEW k \in K,
         k = t.data[p].key \/ ~Has(t.keyMap, k)
  PROVE  /\ Exact(SetKey(t, p, k), K, V)
         /\ Content(SetKey(t, p, k)) =
              Put(Erase(Content(t), t.data[p].key), k, Content(t)[t.data[p].key])
<1> DEFINE n == Len(t.data)
           old == t.data[p].key
           u == SetKey(t, p, k)
<1>1. /\ n \in Nat /\ p \in 1..n /\ t.data \in Seq(Rows(K, V)) /\ t.data[p] \in Rows(K, V)
      /\ Has(t.keyMap, old) /\ t.keyMap[old] = p
  BY DEF Exact, IsStored, KeyMapExact, Size
<1>2. /\ u.data = [t.data EXCEPT ![p].key = k]
      /\ u.keyMap = Emplace(Erase(t.keyMap, old), k, t.keyMap[old])
      /\ u = [data |-> u.data, keyMap |-> u.keyMap]
  BY DEF SetKey
<1> HIDE DEF u, old
<1>3. /\ DOMAIN u.keyMap = (DOMAIN t.keyMap \ {old}) \cup {k}
      /\ u.keyMap = [x \in DOMAIN u.keyMap |-> u.keyMap[x]]
      /\ \A x \in DOMAIN u.keyMap : u.keyMap[x] = IF x = k THEN p ELSE t.keyMap[x]
  <2>1. ~Has(Erase(t.keyMap, old), k)
    BY DEF Has, Erase, old
  <2>2. u.keyMap = Put(Erase(t.keyMap, old), k, p)
    BY <1>1, <1>2, <2>1 DEF Emplace
  <2> QED BY <2>2 DEF Put, Erase
<1>4. /\ u.data \in Seq(Rows(K, V)) /\ Len(u.data) = n
      /\ \A i \in 1..n : u.data[i].vals = t.data[i].vals
      /\ \A i \in 1..n : u.data[i].key = IF i = p THEN k ELSE t.data[i].key
  <2> DEFINE new == [t.data[p] EXCEPT !.key = k]
  <2>1. new \in Rows(K, V) /\ new.key = k /\ new.vals = t.data[p].vals
    BY <1>1 DEF Rows
  <2>2. u.data = [t.data EXCEPT ![p] = new]
    BY <1>2
  <2> HIDE DEF new
  <2> QED BY <1>1, <2>1, <2>2
<1>5. IsStored(u, K, V)
  <2>1. \A x \in DOMAIN u.keyMap : u.keyMap[x] \in Nat
    BY <1>1, <1>3 DEF Exact, IsStored
  <2> QED BY <1>2, <1>3, <1>4, <2>1 DEF Exact, IsStored
<1>6. ASSUME NEW x \in DOMAIN t.keyMap, x # old
      PROVE  /\ t.keyMap[x] \in 1..n /\ t.keyMap[x] # p
             /\ t.data[t.keyMap[x]].key = x
             /\ x # k
  BY <1>1, <1>6 DEF Exact, KeyMapExact, Size, Has, old
<1>7. KeyMapExact(u)
  <2>1. ASSUME NEW i \in 1..n
        PROVE  Has(u.keyMap, u.data[i].key) /\ u.keyMap[u.data[i].key] = i
    <3>1. CASE i = p
      BY <3>1, <1>3, <1>4 DEF Has
    <3>2. CASE i # p
      <4>1. Has(t.keyMap, t.data[i].key) /\ t.keyMap[t.data[i].key] = i
        BY DEF Exact, KeyMapExact, Size
      <4>2. t.data[i].key # old
        BY <4>1, <3>2, <1>1
      <4> QED BY <3>2, <4>1, <4>2, <1>3, <1>4, <1>6 DEF Has
    <3> QED BY <3>1, <3>2
  <2>2. ASSUME NEW x \in DOMAIN u.keyMap
        PROVE  u.keyMap[x] \in 1..n /\ u.data[u.keyMap[x]].key = x
    BY <1>1, <1>3, <1>4, <1>6
  <2> QED BY <2>1, <2>2, <1>4 DEF KeyMapExact, Size
<1>8. Content(u) = Put(Erase(Content(t), old), k, Content(t)[old])
  <2>1. DOMAIN u.keyMap = DOMAIN Erase(Content(t), old) \cup {k}
    BY <1>3 DEF Content, Erase
  <2>2. u.data[u.keyMap[k]].vals = Content(t)[old]
    BY <1>1, <1>3, <1>4 DEF Content, Has
  <2>3. ASSUME NEW x \in DOMAIN u.keyMap, x # k
        PROVE  u.data[u.keyMap[x]].vals = Erase(Content(t), old)[x]
    <3>1. x \in DOMAIN t.keyMap /\ x # old
      BY <1>3, <2>3
    <3>2. u.keyMap[x] = t.keyMap[x]
      BY <1>3, <2>3
    <3>3. u.data[u.keyMap[x]].vals = t.data[t.keyMap[x]].vals
      BY <3>1, <3>2, <1>4, <1>6
    <3> QED BY <3>1, <3>3 DEF Content, Erase
  <2> QED BY <2>1, <2>2, <2>3 DEF Content, Put
<1> QED BY <1>5, <1>7, <1>8 DEF Exact, u, old

\* The values of a row are assigned.
LEMMA SetValsExact ==
  ASSUME NEW K, NEW V, NEW t, Exact(t, K, V), NEW p \in 1..Size(t), NEW vals \in V
  PROVE  /\ Exact(SetVals(t, p, vals), K, V)
         /\ Content(SetVals(t, p, vals)) =
              [Content(t) EXCEPT ![t.data[p].key] = vals]
<1> DEFINE n == Len(t.data)
           new == [t.data[p] EXCEPT !.vals = vals]
           u == SetVals(t, p, vals)
<1>1. /\ n \in Nat /\ p \in 1..n /\ t.data \in Seq(Rows(K, V)) /\ t.data[p] \in Rows(K, V)
      /\ Has(t.keyMap, t.data[p].key) /\ t.keyMap[t.data[p].key] = p
  BY DEF Exact, IsStored, KeyMapExact, Size
<1>2. new \in Rows(K, V) /\ new.key = t.data[p].key /\ new.vals = vals
  BY <1>1 DEF Rows
<1>3. u = [data |-> [t.data EXCEPT ![p] = new], keyMap |-> t.keyMap]
  BY DEF SetVals
<1> HIDE DEF u, new
<1>4. /\ u.data \in Seq(Rows(K, V)) /\ Len(u.data) = n
      /\ \A i \in 1..n : u.data[i] = IF i = p THEN new ELSE t.data[i]
      /\ u.keyMap = t.keyMap
  BY <1>1, <1>2, <1>3
<1>5. IsStored(u, K, V)
  BY <1>3, <1>4 DEF Exact, IsStored
<1>6. \A i \in 1..n : u.data[i].key = t.data[i].key
  BY <1>2, <1>4
<1>7. KeyMapExact(u)
  <2>1. ASSUME NEW i \in 1..n
        PROVE  Has(u.keyMap, u.data[i].key) /\ u.keyMap[u.data[i].key] = i
    <3>1. Has(t.keyMap, t.data[i].key) /\ t.keyMap[t.data[i].key] = i
      BY DEF Exact, KeyMapExact, Size
    <3> QED BY <3>1, <1>4, <1>6
  <2>2. ASSUME NEW x \in DOMAIN u.keyMap
        PROVE  u.keyMap[x] \in 1..n /\ u.data[u.keyMap[x]].key = x
    <3>1. t.keyMap[x] \in 1..n /\ t.data[t.keyMap[x]].key = x
      BY <1>4 DEF Exact, KeyMapExact, Size
    <3> QED BY <3>1, <1>4, <1>6
  <2> QED BY <2>1, <2>2, <1>4 DEF KeyMapExact, Size
<1>8. Content(u) = [Content(t) EXCEPT ![t.data[p].key] = vals]
  <2>1. ASSUME NEW x \in DOMAIN t.keyMap
        PROVE  u.data[u.keyMap[x]].vals =
                 IF x = t.data[p].key THEN vals ELSE t.data[t.keyMap[x]].vals
    <3>1. t.keyMap[x] \in 1..n /\ t.data[t.keyMap[x]].key = x
      BY DEF Exact, KeyMapExact, Size
    <3> QED BY <3>1, <1>1, <1>2, <1>4
  <2> QED BY <2>1, <1>4 DEF Content
<1> QED BY <1>5, <1>7, <1>8 DEF Exact, u

-----------------------------------------------------------------------------
(* The same whatever the keys and values are.                              *)

\* The table is exact for some keys and values.
HasRows(t) == \E K, V : Exact(t, K, V)

\* A table keeps its rows when other keys and values are allowed.
LEMMA ExactGrows ==
  ASSUME NEW K, NEW V, NEW K2, NEW V2, K \subseteq K2, V \subseteq V2,
         NEW t, Exact(t, K, V)
  PROVE  Exact(t, K2, V2)
<1>1. Rows(K, V) \subseteq Rows(K2, V2)
  BY DEF Rows
<1>2. t.data \in Seq(Rows(K2, V2))
  BY <1>1 DEF Exact, IsStored
<1>3. DOMAIN t.keyMap \subseteq K2
  BY DEF Exact, IsStored
<1> QED BY <1>2, <1>3 DEF Exact, IsStored

LEMMA EmptyHasRows == HasRows(EmptyTable)
<1>1. Exact(EmptyTable, {}, {})
  BY EmptyExact
<1> QED BY <1>1, Zenon DEF HasRows

LEMMA InsertHasRows ==
  ASSUME NEW t, HasRows(t), NEW k, NEW vals, ~Has(t.keyMap, k)
  PROVE  HasRows(InsertByIndex(t, k, vals))
<1>1. PICK K, V : Exact(t, K, V)
  BY Zenon DEF HasRows
<1>2. Exact(t, K \cup {k}, V \cup {vals})
  BY <1>1, ExactGrows
<1>3. Exact(InsertByIndex(t, k, vals), K \cup {k}, V \cup {vals})
  BY <1>2, InsertExact
<1> QED BY <1>3, Zenon DEF HasRows

LEMMA DeleteHasRows ==
  ASSUME NEW t, HasRows(t), NEW k, Has(t.keyMap, k)
  PROVE  HasRows(DeleteByIndex(t, k))
<1>1. PICK K, V : Exact(t, K, V)
  BY Zenon DEF HasRows
<1>2. Exact(DeleteByIndex(t, k), K, V)
  BY <1>1, DeleteExact
<1> QED BY <1>2, Zenon DEF HasRows

LEMMA SizeIsNat == ASSUME NEW t, HasRows(t) PROVE Size(t) \in Nat
BY DEF HasRows, Exact, IsStored, Size

LEMMA DuplicateHasRows ==
  ASSUME NEW t, HasRows(t), NEW k, Has(t.keyMap, k), CheckNotDuplicate(t, k)
  PROVE  HasRows(DuplicateKey(t, k))
<1>1. ~Has(t.keyMap, CopyKey(k))
  BY DEF CheckNotDuplicate
<1> QED BY <1>1, InsertHasRows DEF DuplicateKey

LEMMA SetKeyHasRows ==
  ASSUME NEW t, HasRows(t), NEW p \in 1..Size(t), NEW k,
         k = t.data[p].key \/ ~Has(t.keyMap, k)
  PROVE  HasRows(SetKey(t, p, k))
<1>1. PICK K, V : Exact(t, K, V)
  BY Zenon DEF HasRows
<1>2. Exact(t, K \cup {k}, V)
  BY <1>1, ExactGrows
<1>3. Exact(SetKey(t, p, k), K \cup {k}, V)
  BY <1>2, SetKeyExact
<1> QED BY <1>3, Zenon DEF HasRows

LEMMA SetValsHasRows ==
  ASSUME NEW t, HasRows(t), NEW p \in 1..Size(t), NEW vals
  PROVE  HasRows(SetVals(t, p, vals))
<1>1. PICK K, V : Exact(t, K, V)
  BY Zenon DEF HasRows
<1>2. Exact(t, K, V \cup {vals})
  BY <1>1, ExactGrows
<1>3. Exact(SetVals(t, p, vals), K, V \cup {vals})
  BY <1>2, SetValsExact
<1> QED BY <1>3, Zenon DEF HasRows
=============================================================================
