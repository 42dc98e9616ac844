------------------------------ MODULE KeyedRows ------------------------------
(***************************************************************************)
(* What a table promises: a set of rows with distinct keys, each call      *)
(* addressing one row by its key.  Table implements it.                    *)
(***************************************************************************)
EXTENDS TableOps

CONSTANTS Keys, Values

VARIABLES
  rows,    \* a function from the keys present to their values
  call     \* the last call: its name and what it was given

rowsVars == <<rows, call>>

NoCall == <<"none">>

RowsInit == rows = [k \in {} |-> {}] /\ call = NoCall

Insert(k, vals) ==
  /\ call' = <<"insert", k, vals>>
  /\ ~Has(rows, k) /\ rows' = Put(rows, k, vals)

Delete(k) ==
  /\ call' = <<"delete", k>>
  /\ Has(rows, k) /\ rows' = Erase(rows, k)

Duplicate(k) ==
  /\ call' = <<"duplicate", k>>
  /\ Has(rows, k) /\ ~Has(rows, CopyKey(k))
  /\ rows' = Put(rows, CopyKey(k), rows[k])

\* To a new key, or to the one it has.
Rename(k, new) ==
  /\ call' = <<"rename", k, new>>
  /\ Has(rows, k) /\ (Has(rows, new) => new = k)
  /\ rows' = Put(Erase(rows, k), new, rows[k])

Write(k, vals) ==
  /\ call' = <<"write", k, vals>>
  /\ Has(rows, k) /\ rows' = [rows EXCEPT ![k] = vals]

Clear == call' = <<"clear">> /\ rows' = [k \in {} |-> {}]

RowsNext ==
  \/ \E k \in Keys, vals \in Values : Insert(k, vals) \/ Write(k, vals)
  \/ \E k \in Keys : Delete(k) \/ Duplicate(k)
  \/ \E k, new \in Keys : Rename(k, new)
  \/ Clear

RowsSpec == RowsInit /\ [][RowsNext]_rowsVars
=============================================================================
