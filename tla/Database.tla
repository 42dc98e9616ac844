------------------------------- MODULE Database -------------------------------
(***************************************************************************)
(* The tables of lemondb by name, the files they are loaded from and       *)
(* dumped to, and fileTableNameMap: src/src/db/Database.cpp with the       *)
(* queries of src/src/query/management and the part of their builders that *)
(* touches the database.  LOAD goes line by line and DUMP opens before it  *)
(* writes, so that the process may be killed on the way; it is then        *)
(* started again on the files that are left.                               *)
(***************************************************************************)
EXTENDS TableText, FiniteSets

CONSTANTS
  Names, Files,
  ReadOnly,       \* the files that cannot be opened for writing
  Keys, Tuples,   \* what INSERT may be given
  Memory,         \* what may be found behind the values of a row
  InitialDisks    \* what the files may hold at first

ASSUME FilesAssumption == ReadOnly \subseteq Files

\* Names and keys are words.
ASSUME WordsAssumption == NoWord \notin Names /\ NoWord \notin Keys

\* The files are texts.  One whose first line is a word and something else
\* than a number is refused like one whose first line is a word alone.
ASSUME DisksAssumption ==
  \A d \in InitialDisks :
    /\ DOMAIN d \subseteq Files
    /\ \A f \in DOMAIN d :
         /\ Len(d[f]) \in Nat /\ DOMAIN d[f] = 1..Len(d[f])
         /\ MetadataReads(d[f]) => NameIn(d[f]) \in Names /\ CountIn(d[f]) \in Nat

\* INSERT converts its operands to int.
ASSUME TuplesAssumption == Tuples \subseteq Seq(IntMin..IntMax)

VARIABLES
  tables,             \* a function from some names to tables
  fileTableNameMap,   \* a function from some files to names
  disk,               \* a function from the files that exist to their texts
  main,               \* what the main thread does: see Phases
  frame,              \* the local variables of LOAD and DUMP
  call,               \* the last query: its name and what it was given
  result              \* of that query: its kind, and the table it names

vars == <<tables, fileTableNameMap, disk, main, frame, call, result>>

\* "loading" is in the loop of loadTableFromStream, "writing" is between
\* the opening of a file and the end of the output into it.
Phases == {"ready", "loading", "writing"}

NoFrame == [file |-> "", name |-> "", line |-> 0,
            table |-> [name |-> "", fields |-> <<>>, rows |-> EmptyTable]]

NoTables == [n \in {} |-> NoFrame.table]

NoNames == [f \in {} |-> ""]

NoCall == <<"none">>

\* Before the first query, and until a query returns.
NoResult == <<"none", "">>

Init ==
  /\ tables = NoTables
  /\ fileTableNameMap = NoNames
  /\ disk \in InitialDisks
  /\ main = "ready" /\ frame = NoFrame
  /\ call = NoCall /\ result = NoResult

-----------------------------------------------------------------------------
(* Helpers of Database.                                                    *)

Return(kind, value) ==
  main' = "ready" /\ frame' = NoFrame /\ result' = <<kind, value>>

Fail == Return("error", "")

Exists(f) == f \in DOMAIN disk

\* getFileTableName: the name it returns, and the map it leaves.
FileTableName(f) ==
  IF Has(fileTableNameMap, f) THEN fileTableNameMap[f]
  ELSE IF Exists(f) THEN FirstWord(disk[f])
  ELSE ""

Remember(f) ==
  IF Exists(f) THEN Emplace(fileTableNameMap, f, FirstWord(disk[f]))
  ELSE fileTableNameMap

\* Mutant: a table takes the place of another one.
RegisterOver(t, kind, value) ==
  /\ tables' = Put(tables, t.name, t)
  /\ Return(kind, value)

\* registerTable, with testDuplicate.
Register(t, kind, value) ==
  IF Has(tables, t.name) THEN Fail /\ UNCHANGED tables
  ELSE /\ tables' = Put(tables, t.name, t)
       /\ Return(kind, value)

-----------------------------------------------------------------------------
(* LOAD.  The builder asks for the name of the table in the file.          *)

StartLoad(f) ==
  LET text == disk[f]
  IN /\ main = "ready" /\ call' = <<"LOAD", f>>
     /\ fileTableNameMap' = Remember(f)
     /\ IF Exists(f) /\ MetadataReads(text) /\ ~Has(tables, NameIn(text)) /\ FieldsRead(text)
        THEN /\ main' = "loading"
             /\ frame' = [file |-> f, name |-> FileTableName(f), line |-> 3,
                          table |-> [name |-> NameIn(text), fields |-> FieldsIn(text),
                                     rows |-> EmptyTable]]
             /\ result' = NoResult
        ELSE Fail
     /\ UNCHANGED <<tables, disk>>

\* Mutant: a row that cannot be read ends the table instead of the query.
LoadRowLenient ==
  LET text == disk[frame.file]
      line == text[frame.line]
      rows == frame.table.rows
  IN /\ main = "loading" /\ ~BodyEnds(text, frame.line)
     /\ IF RowReads(line, CountIn(text)) /\ ~Has(rows.keyMap, line[1])
        THEN /\ frame' = [frame EXCEPT !.line = @ + 1,
                  !.table.rows = InsertByIndex(@, line[1], ValsIn(line, CountIn(text)))]
             /\ UNCHANGED <<tables, main, result>>
        ELSE Register(frame.table, "success", frame.name)
     /\ UNCHANGED <<fileTableNameMap, disk, call>>

\* A row that cannot be read, or a second one with its key, throws the table
\* away.
LoadRow ==
  LET text == disk[frame.file]
      line == text[frame.line]
      rows == frame.table.rows
  IN /\ main = "loading" /\ ~BodyEnds(text, frame.line)
     /\ IF RowReads(line, CountIn(text)) /\ ~Has(rows.keyMap, line[1])
        THEN /\ frame' = [frame EXCEPT !.line = @ + 1,
                  !.table.rows = InsertByIndex(@, line[1], ValsIn(line, CountIn(text)))]
             /\ UNCHANGED <<main, result>>
        ELSE Fail
     /\ UNCHANGED <<tables, fileTableNameMap, disk, call>>

EndLoad ==
  /\ main = "loading" /\ BodyEnds(disk[frame.file], frame.line)
  /\ Register(frame.table, "success", frame.name)
  /\ UNCHANGED <<fileTableNameMap, disk, call>>

-----------------------------------------------------------------------------
(* DUMP.  The builder notes the table's name for the file before anything  *)
(* is known of either.                                                     *)

\* Mutant: the file keeps what it holds until it is written.
StartDumpKeeping(n, f) ==
  /\ main = "ready" /\ call' = <<"DUMP", n, f>>
  /\ fileTableNameMap' = Put(fileTableNameMap, f, n)
  /\ IF f \in ReadOnly \/ ~Has(tables, n) THEN Fail
     ELSE /\ main' = "writing"
          /\ frame' = [NoFrame EXCEPT !.file = f, !.name = n]
          /\ result' = NoResult
  /\ UNCHANGED <<tables, disk>>

\* Mutant: the builder notes the name only for a file it does not know yet.
StartDumpOnce(n, f) ==
  /\ main = "ready" /\ call' = <<"DUMP", n, f>>
  /\ fileTableNameMap' = Emplace(fileTableNameMap, f, n)
  /\ IF f \in ReadOnly THEN Fail /\ UNCHANGED disk
     ELSE /\ disk' = Put(disk, f, <<>>)
          /\ IF Has(tables, n)
             THEN /\ main' = "writing"
                  /\ frame' = [NoFrame EXCEPT !.file = f, !.name = n]
                  /\ result' = NoResult
             ELSE Fail
  /\ UNCHANGED tables

\* Opening the file empties it, then the table is looked up.
StartDump(n, f) ==
  /\ main = "ready" /\ call' = <<"DUMP", n, f>>
  /\ fileTableNameMap' = Put(fileTableNameMap, f, n)
  /\ IF f \in ReadOnly THEN Fail /\ UNCHANGED disk
     ELSE /\ disk' = Put(disk, f, <<>>)
          /\ IF Has(tables, n)
             THEN /\ main' = "writing"
                  /\ frame' = [NoFrame EXCEPT !.file = f, !.name = n]
                  /\ result' = NoResult
             ELSE Fail
  /\ UNCHANGED tables

Output == {Written(tables[frame.name], memory) :
             memory \in [1..Size(tables[frame.name].rows) -> Memory]}

EndDump ==
  /\ main = "writing"
  /\ \E text \in Output : disk' = Put(disk, frame.file, text)
  /\ Return("success", frame.name)
  /\ UNCHANGED <<tables, fileTableNameMap, call>>

-----------------------------------------------------------------------------
(* The other queries.                                                      *)

Query(words) ==
  main = "ready" /\ call' = words /\ UNCHANGED <<fileTableNameMap, disk>>

Drop(n) ==
  /\ Query(<<"DROP", n>>)
  /\ IF Has(tables, n)
     THEN tables' = Erase(tables, n) /\ Return("success", "")
     ELSE Fail /\ UNCHANGED tables

Truncate(n) ==
  /\ Query(<<"TRUNCATE", n>>)
  /\ IF Has(tables, n)
     THEN /\ tables' = [tables EXCEPT ![n].rows = EmptyTable]
          /\ Return("null", "")
     ELSE Fail /\ UNCHANGED tables

Copied(n, new) == [tables[n] EXCEPT !.name = new]

CopyTable(n, new) ==
  /\ Query(<<"COPYTABLE", n, new>>)
  /\ IF Has(tables, n) THEN Register(Copied(n, new), "null", "")
     ELSE Fail /\ UNCHANGED tables

\* LIST: for every table the number of its fields and rows.
List ==
  /\ Query(<<"LIST">>) /\ UNCHANGED tables
  /\ Return("list", [n \in DOMAIN tables |->
                       <<Len(tables[n].fields) + 1, Size(tables[n].rows)>>])

ShowTable(n) ==
  /\ Query(<<"SHOWTABLE", n>>) /\ UNCHANGED tables
  /\ IF Has(tables, n) THEN Return("success", n) ELSE Fail

\* Two of the data queries, to change what a table holds.
Insert(n, k, vals) ==
  /\ Query(<<"INSERT", n, k, vals>>)
  /\ IF Has(tables, n) /\ ~Has(tables[n].rows.keyMap, k)
     THEN /\ tables' = [tables EXCEPT ![n].rows = InsertByIndex(@, k, vals)]
          /\ Return("success", n)
     ELSE Fail /\ UNCHANGED tables

Delete(n, k) ==
  /\ Query(<<"DELETE", n, k>>) /\ Has(tables, n) /\ Has(tables[n].rows.keyMap, k)
  /\ tables' = [tables EXCEPT ![n].rows = DeleteByIndex(@, k)]
  /\ Return("count", "")

-----------------------------------------------------------------------------
(* The end of the process, and the next one.                               *)

\* The beginnings of a text that end after a word, or in the blanks that
\* each line but the first begins with.
LastLines(text, l) ==
  {SubSeq(text[l], 1, w) : w \in 1..Len(text[l])} \cup IF l = 1 THEN {} ELSE {Blanks}

Beginnings(text) ==
  {<<>>} \cup
  UNION {{Append(SubSeq(text, 1, l-1), last) : last \in LastLines(text, l)} :
           l \in 1..Len(text)}

Restart ==
  /\ tables' = NoTables
  /\ fileTableNameMap' = NoNames
  /\ main' = "ready" /\ frame' = NoFrame
  /\ call' = NoCall /\ result' = NoResult

\* QUIT, or the end of the input.
Quit == main = "ready" /\ Restart /\ UNCHANGED disk

Killed ==
  /\ main # "ready" /\ Restart
  /\ IF main = "writing"
     THEN \E text \in Output : \E part \in Beginnings(text) :
            disk' = Put(disk, frame.file, part)
     ELSE UNCHANGED disk

-----------------------------------------------------------------------------
Next ==
  \/ \E f \in Files : StartLoad(f)
  \/ LoadRow \/ EndLoad
  \/ \E n \in Names, f \in Files : StartDump(n, f)
  \/ EndDump
  \/ \E n \in Names : Drop(n) \/ Truncate(n) \/ ShowTable(n)
  \/ \E n, new \in Names : CopyTable(n, new)
  \/ List
  \/ \E n \in Names, k \in Keys : Delete(n, k) \/ \E vals \in Tuples : Insert(n, k, vals)
  \/ Quit \/ Killed

Spec == Init /\ [][Next]_vars

-----------------------------------------------------------------------------
(* Properties.                                                             *)

IsTable(t) == KeyMapExact(t.rows) /\ \A i \in DOMAIN t.fields : t.fields[i] # "KEY"

TypeOK ==
  /\ \A n \in DOMAIN tables : n \in Names /\ tables[n].name = n
  /\ DOMAIN fileTableNameMap \subseteq Files
  /\ DOMAIN disk \subseteq Files
  /\ main \in Phases
  /\ main # "ready" => frame.file \in Files /\ Exists(frame.file)
  /\ main = "loading" => frame.line \in 3..Len(disk[frame.file])+1

(***************************************************************************)
(* In every table, however it came to be, and in the one that is loaded    *)
(* right now, keyMap leads from each key to its row and nowhere else.      *)
(***************************************************************************)
TablesExact ==
  /\ \A n \in DOMAIN tables : IsTable(tables[n])
  /\ main = "loading" => IsTable(frame.table)

(***************************************************************************)
(* "The values in the order of fields" (Datum): every row has one value    *)
(* for every field, which operator<< counts on when it prints.  Only what  *)
(* INSERT is given is not compared with the fields.                        *)
(***************************************************************************)
RowsFitFields ==
  \A n \in DOMAIN tables : \A p \in 1..Size(tables[n].rows) :
    LET vals == tables[n].rows.data[p].vals
    IN Len(vals) = Len(tables[n].fields) \/ vals \in Tuples

(***************************************************************************)
(* What fileTableNameMap remembers of a file is what the file says,        *)
(* although the builder of DUMP writes into the map before the file is     *)
(* open and before the table is found, and LOAD never reads a name twice.  *)
(* Not so of a file that cannot be opened for writing: a DUMP that is      *)
(* refused leaves its table's name in the map.                             *)
(***************************************************************************)
NamesRemembered ==
  \A f \in DOMAIN fileTableNameMap \ ReadOnly :
    Exists(f) /\ FirstWord(disk[f]) # "" => fileTableNameMap[f] = FirstWord(disk[f])

(***************************************************************************)
(* "The map of fileName -> tableName": LOAD reports the table it loaded,   *)
(* with the same exception.                                                *)
(***************************************************************************)
ReportsLoadedTable ==
  [][\A n \in DOMAIN tables' \ DOMAIN tables :
       main = "loading" /\ frame.file \notin ReadOnly => result'[2] = n]_vars

(***************************************************************************)
(* LOAD gives back what DUMP was given: under its name, with its fields    *)
(* and all its rows; it does so until the file is dumped to again, across  *)
(* restarts, whatever becomes of the tables in between; and a LOAD that    *)
(* fails leaves no table behind.  Every query answers what it was asked,   *)
(* of the tables and files it was given, and fails only when it has to.  A *)
(* file from which no table can be had is one that was damaged in the      *)
(* middle of a DUMP, or one whose DUMP found no table or a name or a       *)
(* number too long for its column.                                         *)
(***************************************************************************)
Fits(t) == \A k \in DOMAIN t.rows : Len(t.rows[k]) = Len(t.fields)

Printable(t) ==
  /\ \A i \in DOMAIN t.fields : t.fields[i] \notin LongFields
  /\ \A k \in DOMAIN t.rows : \A i \in DOMAIN t.rows[k] : ~RunsOn(t.rows[k], i)

\* The state of Archive.
Kept(t) == [fields |-> t.fields, rows |-> Content(t.rows)]

Store == [n \in DOMAIN tables |-> Kept(tables[n])]
Saved == [f \in Files |->
            IF Exists(f) /\ Loadable(disk[f]) THEN {Loaded(disk[f])} ELSE {}]

Archived == INSTANCE Archive WITH store <- Store, saved <- Saved, answer <- result

ImplementsArchive == Archived!ArchiveSpec
=============================================================================
