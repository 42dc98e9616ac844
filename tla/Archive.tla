------------------------------- MODULE Archive -------------------------------
(***************************************************************************)
(* What the tables and the files promise those who write queries: a table  *)
(* is a set of keyed rows under a name, and LOAD gives back exactly the    *)
(* table that the last DUMP into that file was given.  Each query is bound *)
(* to its answer: none fails but for the reason given here.  Database      *)
(* implements it.                                                          *)
(***************************************************************************)
EXTENDS TableOps

CONSTANTS
  Names, Files, ReadOnly, Keys, Tuples,
  Fits(_),        \* of a table: its rows have a value for each field
  Printable(_)    \* of a table: its text can be read back

VARIABLES
  store,     \* a function from names to tables [fields, rows]
  saved,     \* for each file the set of the table, with its name, that can
             \* be loaded from it: one at most
  call,      \* the last query: its name and what it was given
  answer     \* to that query: its kind, and the table it names

archiveVars == <<store, saved, call, answer>>

NoCall == <<"none">>
NoAnswer == <<"none", "">>
NoRows == [k \in {} |-> {}]
NoTables == [n \in {} |-> NoRows]

Known(n) == Has(store, n)
HasRow(n, k) == Has(store[n].rows, k)
Stored(t) == [fields |-> t.fields, rows |-> t.rows]
Named(n) == [name |-> n, fields |-> store[n].fields, rows |-> store[n].rows]

-----------------------------------------------------------------------------
\* LOAD and DUMP take more than a step; all others are answered at once.
Pending == answer = NoAnswer /\ call # NoCall

Ask(query) == call' = query /\ ~Pending
Go(query) == call = query /\ Pending /\ UNCHANGED call

Reply(kind, value) == answer' = <<kind, value>>
Refuse == Reply("error", "") /\ UNCHANGED <<store, saved>>

Overwriting(f) == Pending /\ \E n \in Names : call = <<"DUMP", n, f>>

ArchiveInit == store = NoTables /\ call = NoCall /\ answer = NoAnswer

-----------------------------------------------------------------------------
BeginLoad(f) ==
  /\ Ask(<<"LOAD", f>>)
  /\ answer' = NoAnswer /\ UNCHANGED <<store, saved>>

\* The name in the answer is left open here (ReportsLoadedTable of Database).
Load(f) ==
  /\ Go(<<"LOAD", f>>)
  /\ answer'[1] = "success"
  /\ \E t \in saved[f] : ~Known(t.name) /\ store' = Put(store, t.name, Stored(t))
  /\ UNCHANGED saved

\* Only when there is no table in the file, or when its name is taken.
LoadNothing(f) ==
  /\ Ask(<<"LOAD", f>>) \/ Go(<<"LOAD", f>>)
  /\ \A t \in saved[f] : Known(t.name)
  /\ Refuse

DumpRefused(n, f) == f \in ReadOnly /\ Ask(<<"DUMP", n, f>>) /\ Refuse

\* DUMP begins with the loss of what the file held, whether or not there is
\* a table to put in its place.
Overwrite(n, f) ==
  /\ f \notin ReadOnly /\ Ask(<<"DUMP", n, f>>)
  /\ IF Known(n) THEN answer' = NoAnswer ELSE Reply("error", "")
  /\ saved' = [saved EXCEPT ![f] = {}]
  /\ UNCHANGED store

\* What is printed of a row that INSERT gave too few values is unknown.
Dump(n, f) ==
  /\ Go(<<"DUMP", n, f>>)
  /\ Reply("success", n)
  /\ Fits(store[n]) =>
       saved'[f] = IF Printable(store[n]) THEN {Named(n)} ELSE {}
  /\ \A g \in Files \ {f} : saved'[g] = saved[g]
  /\ UNCHANGED store

Drop(n) ==
  /\ Ask(<<"DROP", n>>)
  /\ IF Known(n)
     THEN Reply("success", "") /\ store' = Erase(store, n) /\ UNCHANGED saved
     ELSE Refuse

Truncate(n) ==
  /\ Ask(<<"TRUNCATE", n>>)
  /\ IF Known(n)
     THEN /\ Reply("null", "") /\ UNCHANGED saved
          /\ store' = [store EXCEPT ![n].rows = NoRows]
     ELSE Refuse

CopyTable(n, new) ==
  /\ Ask(<<"COPYTABLE", n, new>>)
  /\ IF Known(n) /\ ~Known(new)
     THEN Reply("null", "") /\ store' = Put(store, new, store[n]) /\ UNCHANGED saved
     ELSE Refuse

\* All tables are listed.
List ==
  /\ Ask(<<"LIST">>)
  /\ answer'[1] = "list" /\ DOMAIN answer'[2] = DOMAIN store
  /\ UNCHANGED <<store, saved>>

ShowTable(n) ==
  /\ Ask(<<"SHOWTABLE", n>>)
  /\ IF Known(n) THEN Reply("success", n) /\ UNCHANGED <<store, saved>>
     ELSE Refuse

Insert(n, k, vals) ==
  /\ Ask(<<"INSERT", n, k, vals>>)
  /\ IF Known(n) /\ ~HasRow(n, k)
     THEN /\ Reply("success", n) /\ UNCHANGED saved
          /\ store' = [store EXCEPT ![n].rows = Put(@, k, vals)]
     ELSE Refuse

Delete(n, k) ==
  /\ Ask(<<"DELETE", n, k>>)
  /\ Known(n) /\ HasRow(n, k)
  /\ Reply("count", "") /\ UNCHANGED saved
  /\ store' = [store EXCEPT ![n].rows = Erase(@, k)]

\* The process ends and is started again.  Of the files, only one that was
\* being overwritten may hold something else than before.
Restart ==
  /\ call' = NoCall /\ answer' = NoAnswer /\ store' = NoTables
  /\ \A f \in Files : ~Overwriting(f) => saved'[f] = saved[f]

ArchiveNext ==
  \/ \E f \in Files : BeginLoad(f) \/ Load(f) \/ LoadNothing(f)
  \/ \E n \in Names, f \in Files : DumpRefused(n, f) \/ Overwrite(n, f) \/ Dump(n, f)
  \/ \E n \in Names : Drop(n) \/ Truncate(n) \/ ShowTable(n)
  \/ \E n, new \in Names : CopyTable(n, new)
  \/ List
  \/ \E n \in Names, k \in Keys :
       Delete(n, k) \/ \E vals \in Tuples : Insert(n, k, vals)
  \/ Restart

ArchiveSpec == ArchiveInit /\ [][ArchiveNext]_archiveVars
=============================================================================
