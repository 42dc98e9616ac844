----------------------------- MODULE TableProofs -----------------------------
(***************************************************************************)
(* Proofs about Table for any stems, values and bound on copies, from the  *)
(* lemmas of TableOpsProofs about each operation.                          *)
(***************************************************************************)
EXTENDS Table, TableOpsProofs

\* Inductive when UPDATE KEY keeps keys unique: Exact says more than
\* KeysUnique, that the keys, values and positions are what they should be.
IInv == Exact(table, Keys, Values) /\ fault = FALSE

\* Every key that Delete, Duplicate and Rename read from a row is in keyMap.
LEMMA KeyAtPresent ==
  ASSUME IInv, NEW p \in Positions
  PROVE  /\ KeyAt(p) \in Keys /\ Has(table.keyMap, KeyAt(p))
         /\ table.keyMap[KeyAt(p)] = p
BY DEF IInv, Exact, IsStored, KeyMapExact, Positions, KeyAt, Has

\* The copy of a key below the bound is a key.
LEMMA CopyIsKey ==
  ASSUME NEW k \in Keys, k.copies < CopyBound
  PROVE  CopyKey(k) \in Keys
BY CopyBoundAssumption DEF Keys, CopyKey

LEMMA InitIInv == Init => IInv /\ KeyedRows!RowsInit
BY EmptyExact DEF Init, IInv, KeyedRows!RowsInit, KeyedRows!NoCall

\* The operators on maps that the instance of KeyedRows has of its own.
LEMMA SameMaps ==
  ASSUME NEW map, NEW k, NEW v
  PROVE  /\ KeyedRows!Has(map, k) = Has(map, k)
         /\ KeyedRows!Put(map, k, v) = Put(map, k, v)
         /\ KeyedRows!Erase(map, k) = Erase(map, k)
         /\ KeyedRows!CopyKey(k) = CopyKey(k)
BY DEF KeyedRows!Has, KeyedRows!Put, KeyedRows!Erase, KeyedRows!CopyKey,
       Has, Put, Erase, CopyKey

LEMMA ContentHas ==
  ASSUME NEW t, NEW k
  PROVE  Has(Content(t), k) = Has(t.keyMap, k)
BY DEF Has, Content

\* Each step of Table keeps the invariant and is the same call of KeyedRows.
LEMMA InsertStep ==
  ASSUME IInv, NEW k \in Keys, NEW vals \in Values, Insert(k, vals)
  PROVE  IInv' /\ KeyedRows!Insert(k, vals)
<1>1. /\ Exact(table', Keys, Values) /\ Content(table') = Put(Content(table), k, vals)
      /\ fault' = FALSE
  BY InsertExact DEF IInv, Insert
<1>2. ~Has(Content(table), k)
  BY ContentHas DEF Insert
<1> QED BY <1>1, <1>2, SameMaps DEF IInv, Insert, KeyedRows!Insert

LEMMA DeleteStep ==
  ASSUME IInv, NEW p \in Positions, Delete(p)
  PROVE  IInv' /\ KeyedRows!Delete(KeyAt(p))
<1>1. Has(table.keyMap, KeyAt(p))
  BY KeyAtPresent
<1>2. /\ Exact(table', Keys, Values) /\ Content(table') = Erase(Content(table), KeyAt(p))
      /\ fault' = FALSE
  BY <1>1, DeleteExact DEF IInv, Delete
<1>3. Has(Content(table), KeyAt(p))
  BY <1>1, ContentHas
<1> QED BY <1>2, <1>3, SameMaps DEF IInv, Delete, KeyedRows!Delete

LEMMA DuplicateStep ==
  ASSUME IInv, NEW p \in Positions, Duplicate(p)
  PROVE  IInv' /\ KeyedRows!Duplicate(KeyAt(p))
<1>1. /\ Has(table.keyMap, KeyAt(p)) /\ CopyKey(KeyAt(p)) \in Keys
      /\ CheckNotDuplicate(table, KeyAt(p))
  BY KeyAtPresent, CopyIsKey DEF Duplicate
<1>2. /\ Exact(table', Keys, Values)
      /\ Content(table') =
           Put(Content(table), CopyKey(KeyAt(p)), Content(table)[KeyAt(p)])
      /\ fault' = FALSE
  BY <1>1, DuplicateExact DEF IInv, Duplicate
<1>3. Has(Content(table), KeyAt(p)) /\ ~Has(Content(table), CopyKey(KeyAt(p)))
  BY <1>1, ContentHas DEF CheckNotDuplicate
<1> QED BY <1>2, <1>3, SameMaps DEF IInv, Duplicate, KeyedRows!Duplicate

\* UPDATE KEY to a new key, or to the key that the row has already.
LEMMA RenameStep ==
  ASSUME IInv, UniqueRenames, NEW p \in Positions, NEW k \in Keys, Rename(p, k)
  PROVE  IInv' /\ KeyedRows!Rename(KeyAt(p), k)
<1>1. /\ Has(table.keyMap, KeyAt(p))
      /\ k = KeyAt(p) \/ ~Has(table.keyMap, k)
  BY KeyAtPresent DEF Rename
<1>2. /\ Exact(table', Keys, Values)
      /\ Content(table') =
           Put(Erase(Content(table), KeyAt(p)), k, Content(table)[KeyAt(p)])
      /\ fault' = FALSE
  BY <1>1, SetKeyExact DEF IInv, Rename, Positions, KeyAt
<1>3. Has(Content(table), KeyAt(p)) /\ (Has(Content(table), k) => k = KeyAt(p))
  BY <1>1, ContentHas
<1>4. call' = <<"rename", KeyAt(p), k>>
  BY DEF Rename
<1> QED BY <1>2, <1>3, <1>4, SameMaps DEF IInv, KeyedRows!Rename

LEMMA WriteStep ==
  ASSUME IInv, NEW p \in Positions, NEW vals \in Values, Write(p, vals)
  PROVE  IInv' /\ KeyedRows!Write(KeyAt(p), vals)
<1>1. /\ Exact(table', Keys, Values)
      /\ Content(table') = [Content(table) EXCEPT ![KeyAt(p)] = vals]
      /\ fault' = FALSE
  BY SetValsExact DEF IInv, Write, Positions, KeyAt
<1>2. Has(Content(table), KeyAt(p))
  BY KeyAtPresent, ContentHas
<1> QED BY <1>1, <1>2, SameMaps DEF IInv, Write, KeyedRows!Write

LEMMA ClearStep ==
  ASSUME IInv, Clear
  PROVE  IInv' /\ KeyedRows!Clear
BY EmptyExact DEF IInv, Clear, KeyedRows!Clear

LEMMA NextStep ==
  ASSUME IInv, UniqueRenames, [Next]_vars
  PROVE  IInv' /\ [KeyedRows!RowsNext]_(KeyedRows!rowsVars)
<1>1. CASE UNCHANGED vars
  BY <1>1 DEF vars, IInv, KeyedRows!rowsVars
<1>2. ASSUME NEW k \in Keys, NEW vals \in Values, Insert(k, vals)
      PROVE  IInv' /\ KeyedRows!RowsNext
  BY <1>2, InsertStep DEF KeyedRows!RowsNext, Keys
<1>3. ASSUME NEW p \in Positions, Delete(p) \/ Duplicate(p)
      PROVE  IInv' /\ KeyedRows!RowsNext
  BY <1>3, DeleteStep, DuplicateStep, KeyAtPresent DEF KeyedRows!RowsNext
<1>4. ASSUME NEW p \in Positions, NEW k \in Keys, Rename(p, k)
      PROVE  IInv' /\ KeyedRows!RowsNext
  BY <1>4, RenameStep, KeyAtPresent DEF KeyedRows!RowsNext
<1>5. ASSUME NEW p \in Positions, NEW vals \in Values, Write(p, vals)
      PROVE  IInv' /\ KeyedRows!RowsNext
  BY <1>5, WriteStep, KeyAtPresent DEF KeyedRows!RowsNext
<1>6. CASE Clear
  BY <1>6, ClearStep DEF KeyedRows!RowsNext
<1> QED BY <1>1, <1>2, <1>3, <1>4, <1>5, <1>6 DEF Next

LEMMA IInvHolds ==
  ASSUME UniqueRenames
  PROVE  Spec => []IInv
<1>1. Init => IInv
  BY InitIInv
<1>2. IInv /\ [Next]_vars => IInv'
  BY NextStep
<1> QED BY <1>1, <1>2, PTL DEF Spec

(***************************************************************************)
(* The variables of Table keep their types.                                *)
(***************************************************************************)
THEOREM TypeCorrect ==
  ASSUME UniqueRenames
  PROVE  Spec => []TypeOK
<1>1. IInv => TypeOK
  BY DEF IInv, Exact, IsStored, TypeOK, Rows
<1> QED BY <1>1, IInvHolds, PTL

(***************************************************************************)
(* keyMap leads from the key of each row to that row and nowhere else, for *)
(* any number of rows and any sequence of calls, if UPDATE KEY is asked    *)
(* for keys that no other row has.                                         *)
(***************************************************************************)
THEOREM KeysStayUnique ==
  ASSUME UniqueRenames
  PROVE  Spec => []KeysUnique
<1>1. IInv => KeysUnique
  BY DEF IInv, Exact, KeysUnique
<1> QED BY <1>1, IInvHolds, PTL

(***************************************************************************)
(* No call made with the key of a row dereferences a null pointer.         *)
(***************************************************************************)
THEOREM NeverFaults ==
  ASSUME UniqueRenames
  PROVE  Spec => []NoFault
<1>1. IInv => NoFault
  BY DEF IInv, NoFault
<1> QED BY <1>1, IInvHolds, PTL

(***************************************************************************)
(* A table behaves as a set of rows with distinct keys: each call of it is *)
(* the call of KeyedRows with that name, and with that key and those       *)
(* values, for any number of rows and any sequence of calls.               *)
(***************************************************************************)
THEOREM TableImplementsKeyedRows ==
  ASSUME UniqueRenames
  PROVE  Spec => ImplementsKeyedRows
<1>1. Init => KeyedRows!RowsInit
  BY InitIInv
<1>2. IInv /\ [Next]_vars => [KeyedRows!RowsNext]_(KeyedRows!rowsVars)
  BY NextStep
<1> QED BY <1>1, <1>2, IInvHolds, PTL
      DEF Spec, ImplementsKeyedRows, KeyedRows!RowsSpec
=============================================================================
