-------------------------------- MODULE Table --------------------------------
(***************************************************************************)
(* A table under the calls the queries make: INSERT and LOAD insert,       *)
(* DELETE deletes rows by the keys it saw in them, DUPLICATE copies them,  *)
(* UPDATE KEY renames them, the other mutating queries write their fields, *)
(* TRUNCATE clears.                                                        *)
(***************************************************************************)
EXTENDS TableOps

CONSTANTS
  Stems,           \* the stems of keys
  Values,          \* the values of a row
  CopyBound,       \* how many "_copy" suffixes a key may carry
  UniqueRenames    \* TRUE: UPDATE KEY only takes a key no other row has

ASSUME CopyBoundAssumption == CopyBound \in Nat
ASSUME UniqueRenamesAssumption == UniqueRenames \in BOOLEAN

Keys == [stem : Stems, copies : 0..CopyBound]

VARIABLES
  table,
  fault,   \* a null pointer or an end iterator was dereferenced
  call     \* the last call, with the keys and values it was given

vars == <<table, fault, call>>

Init == table = EmptyTable /\ fault = FALSE /\ call = <<"none">>

Positions == 1..Size(table)
KeyAt(p) == table.data[p].key

\* insertByIndex throws ConflictingKey when the key exists.
Insert(k, vals) ==
  /\ ~Has(table.keyMap, k)
  /\ call' = <<"insert", k, vals>>
  /\ table' = InsertByIndex(table, k, vals)
  /\ UNCHANGED fault

Delete(p) ==
  /\ call' = <<"delete", KeyAt(p)>>
  /\ IF Has(table.keyMap, KeyAt(p))
     THEN table' = DeleteByIndex(table, KeyAt(p)) /\ UNCHANGED fault
     ELSE fault' = TRUE /\ UNCHANGED table

\* DUPLICATE calls duplicateKey for keys that passed checkNotDuplicate.
Duplicate(p) ==
  /\ KeyAt(p).copies < CopyBound
  /\ call' = <<"duplicate", KeyAt(p)>>
  /\ CheckNotDuplicate(table, KeyAt(p))
  /\ IF Has(table.keyMap, KeyAt(p))
     THEN table' = DuplicateKey(table, KeyAt(p)) /\ UNCHANGED fault
     ELSE fault' = TRUE /\ UNCHANGED table

Rename(p, k) ==
  /\ UniqueRenames => k = KeyAt(p) \/ ~Has(table.keyMap, k)
  /\ call' = <<"rename", KeyAt(p), k>>
  /\ IF Has(table.keyMap, KeyAt(p))
     THEN table' = SetKey(table, p, k) /\ UNCHANGED fault
     ELSE fault' = TRUE /\ UNCHANGED table

Write(p, vals) ==
  /\ call' = <<"write", KeyAt(p), vals>>
  /\ table' = SetVals(table, p, vals)
  /\ UNCHANGED fault

Clear == call' = <<"clear">> /\ table' = EmptyTable /\ UNCHANGED fault

Next ==
  /\ ~fault
  /\ \/ \E k \in Keys, vals \in Values : Insert(k, vals)
     \/ \E p \in Positions :
          \/ Delete(p)
          \/ Duplicate(p)
          \/ \E k \in Keys : Rename(p, k)
          \/ \E vals \in Values : Write(p, vals)
     \/ Clear

Spec == Init /\ [][Next]_vars

-----------------------------------------------------------------------------
(* Properties.                                                             *)

TypeOK ==
  /\ table.data \in Seq([key : Keys, vals : Values])
  /\ DOMAIN table.keyMap \subseteq Keys
  /\ fault \in BOOLEAN

(***************************************************************************)
(* "Used to keep the keys unique": after any sequence of calls keyMap      *)
(* leads from the key of each row to that row and has no other entry, so   *)
(* no two rows share a key.  The hard cases are the deletion of the last   *)
(* row, whose own entry is rewritten before it is erased, and the copies.  *)
(***************************************************************************)
KeysUnique == KeyMapExact(table)

\* No call made with the key of a row in the table finds no entry for it.
NoFault == ~fault

KeyedRows == INSTANCE KeyedRows WITH rows <- Content(table)

(***************************************************************************)
(* Seen through operator[], the table is a set of rows with distinct keys, *)
(* and every call does to it what that call, with its key and its values,  *)
(* does to such a set: the row it names is the one that changes, and the   *)
(* row that a deletion moves is not disturbed.                             *)
(***************************************************************************)
ImplementsKeyedRows == KeyedRows!RowsSpec
=============================================================================
