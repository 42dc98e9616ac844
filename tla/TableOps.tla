------------------------------- MODULE TableOps -------------------------------
(***************************************************************************)
(* The storage of one table, src/src/db/Table.h and Table.cpp: the rows in *)
(* a vector, and keyMap from a key to the position of its row.             *)
(*                                                                         *)
(* A key is a stem followed by a number of "_copy" suffixes, the only part *)
(* of a key the code ever looks into.  Positions count from 1, where the   *)
(* code's count from 0.                                                    *)
(***************************************************************************)
EXTENDS Integers, Sequences

Key(stem) == [stem |-> stem, copies |-> 0]

\* key + "_copy"
CopyKey(k) == [k EXCEPT !.copies = @ + 1]

\* The order in which SELECT sorts keys whose stems are single letters.
KeyLess(j, k) ==
  \/ j.stem < k.stem
  \/ j.stem = k.stem /\ j.copies < k.copies

Row(k, vals) == [key |-> k, vals |-> vals]

-----------------------------------------------------------------------------
(* std::unordered_map, as far as Table uses it.                            *)

Has(map, k) == k \in DOMAIN map

\* map[k] = p
Put(map, k, p) ==
  [x \in DOMAIN map \cup {k} |-> IF x = k THEN p ELSE map[x]]

\* emplace leaves an entry that exists alone.
Emplace(map, k, p) == IF Has(map, k) THEN map ELSE Put(map, k, p)

Erase(map, k) == [x \in DOMAIN map \ {k} |-> map[x]]

-----------------------------------------------------------------------------
(* The operations of Table.  What makes the code throw or dereference a    *)
(* null pointer is left to the actions that call them.                     *)

EmptyTable == [data |-> <<>>, keyMap |-> [k \in {} |-> 0]]

Size(t) == Len(t.data)

\* insertByIndex of a key that keyMap does not have.
InsertByIndex(t, k, vals) ==
  [data   |-> Append(t.data, Row(k, vals)),
   keyMap |-> Emplace(t.keyMap, k, Size(t) + 1)]

\* Mutant: the entry of the row that moves is not updated.
DeleteStaleEntry(t, k) ==
  LET index == t.keyMap[k]
  IN [data   |-> SubSeq([t.data EXCEPT ![index] = t.data[Size(t)]], 1, Size(t) - 1),
      keyMap |-> Erase(t.keyMap, k)]

\* Mutant: the last row is deleted, whichever the key names.
DeleteLast(t, k) ==
  [data   |-> SubSeq(t.data, 1, Size(t) - 1),
   keyMap |-> Erase(t.keyMap, t.data[Size(t)].key)]

\* deleteByIndex of a key that keyMap has: the last row moves into the gap.
DeleteByIndex(t, k) ==
  LET index == t.keyMap[k]
      last  == t.data[Size(t)]
  IN [data   |-> SubSeq([t.data EXCEPT ![index] = last], 1, Size(t) - 1),
      keyMap |-> Erase(Put(t.keyMap, last.key, index), k)]

\* Mutant: the suffix is added twice.
DuplicateTwiceNamed(t, k) ==
  InsertByIndex(t, CopyKey(CopyKey(k)), t.data[t.keyMap[k]].vals)

\* duplicateKey of one key that keyMap has, whose copy keyMap does not have.
DuplicateKey(t, k) ==
  InsertByIndex(t, CopyKey(k), t.data[t.keyMap[k]].vals)

CheckNotDuplicate(t, k) == ~Has(t.keyMap, CopyKey(k))

\* Mutant: the entry of the old key stays.
SetKeyKeepOld(t, p, k) ==
  [data   |-> [t.data EXCEPT ![p].key = k],
   keyMap |-> Emplace(t.keyMap, k, t.keyMap[t.data[p].key])]

\* Mutant: the new key gets no entry.
SetKeyNoEntry(t, p, k) ==
  [data   |-> [t.data EXCEPT ![p].key = k],
   keyMap |-> Erase(t.keyMap, t.data[p].key)]

\* setKey of the row at position p, whose own key keyMap has.
SetKey(t, p, k) ==
  LET old == t.data[p].key
  IN [data   |-> [t.data EXCEPT ![p].key = k],
      keyMap |-> Emplace(Erase(t.keyMap, old), k, t.keyMap[old])]

\* Assignment through operator[] or get of a row's fields.
SetVals(t, p, vals) ==
  [data |-> [t.data EXCEPT ![p].vals = vals], keyMap |-> t.keyMap]

-----------------------------------------------------------------------------
\* The fields of Table: rows of a key and values, and positions of keys.
IsStorage(t) ==
  /\ t = [data |-> t.data, keyMap |-> t.keyMap]
  /\ t.data \in Seq([key  : {t.data[p].key : p \in DOMAIN t.data},
                     vals : {t.data[p].vals : p \in DOMAIN t.data}])
  /\ t.keyMap \in [DOMAIN t.keyMap -> Nat]

(* What the two structures have to agree on.                               *)

\* keyMap holds the key of every row, at the position of that row.
KeyMapExact(t) ==
  /\ \A p \in 1..Size(t) :
       Has(t.keyMap, t.data[p].key) /\ t.keyMap[t.data[p].key] = p
  /\ \A k \in DOMAIN t.keyMap :
       t.keyMap[k] \in 1..Size(t) /\ t.data[t.keyMap[k]].key = k

\* The rows by key, without their order.
Content(t) == [k \in DOMAIN t.keyMap |-> t.data[t.keyMap[k]].vals]
=============================================================================
