---------------------------- MODULE DatabaseProofs ----------------------------
(***************************************************************************)
(* Proofs about Database for any names, files, texts in them and rows.     *)
(* The inductive invariant is IInv: tables are sound, files hold texts,    *)
(* the local variables of LOAD and DUMP fit the files and tables they are  *)
(* about, and fileTableNameMap remembers what the files say; on top of it  *)
(* Held says what values the rows have, and that LOAD has read what stands *)
(* in the lines behind it; Calling ties the phase to the last query.       *)
(***************************************************************************)
EXTENDS Database, TableOpsProofs

Sound(t) ==
  /\ t = [name |-> t.name, fields |-> t.fields, rows |-> t.rows]
  /\ Len(t.fields) \in Nat
  /\ \A i \in DOMAIN t.fields : t.fields[i] # "KEY"
  /\ HasRows(t.rows)

IsText(text) ==
  /\ Len(text) \in Nat /\ DOMAIN text = 1..Len(text)
  /\ MetadataReads(text) => NameIn(text) \in Names /\ CountIn(text) \in Nat

TablesSound ==
  \A n \in DOMAIN tables : n \in Names /\ tables[n].name = n /\ Sound(tables[n])

DiskHasTexts ==
  /\ DOMAIN disk \subseteq Files
  /\ \A f \in DOMAIN disk : IsText(disk[f])

\* The table that is loaded has the name that will be reported.
Loading ==
  main = "loading" =>
    /\ frame = [file |-> frame.file, name |-> frame.name,
                line |-> frame.line, table |-> frame.table]
    /\ frame.file \in Files /\ Exists(frame.file)
    /\ frame.line \in 3..Len(disk[frame.file])+1
    /\ Sound(frame.table) /\ frame.table.name \in Names
    /\ frame.file \notin ReadOnly => frame.name = frame.table.name

\* The table that will be written is the one that is remembered.
Writing ==
  main = "writing" =>
    /\ frame.file \in Files /\ Exists(frame.file) /\ disk[frame.file] = <<>>
    /\ frame.name \in DOMAIN tables
    /\ fileTableNameMap[frame.file] = frame.name

IInv ==
  /\ TablesSound /\ DiskHasTexts
  /\ DOMAIN fileTableNameMap \subseteq Files /\ NamesRemembered
  /\ main \in Phases /\ Loading /\ Writing

-----------------------------------------------------------------------------
(* Rows and tables.                                                        *)

\* A sound table with other rows, or under another name.
LEMMA OtherRowsSound ==
  ASSUME NEW t, Sound(t), NEW rows, HasRows(rows)
  PROVE  Sound([t EXCEPT !.rows = rows]) /\ [t EXCEPT !.rows = rows].name = t.name
<1>1. [t EXCEPT !.rows = rows] = [name |-> t.name, fields |-> t.fields, rows |-> rows]
  BY DEF Sound
<1> QED BY <1>1 DEF Sound

LEMMA OtherNameSound ==
  ASSUME NEW t, Sound(t), NEW n
  PROVE  Sound([t EXCEPT !.name = n]) /\ [t EXCEPT !.name = n].name = n
<1>1. [t EXCEPT !.name = n] = [name |-> n, fields |-> t.fields, rows |-> t.rows]
  BY DEF Sound
<1> QED BY <1>1 DEF Sound

LEMMA SoundIsTable == ASSUME NEW t, Sound(t) PROVE IsTable(t)
BY DEF Sound, HasRows, Exact, IsTable

-----------------------------------------------------------------------------
(* Texts.                                                                  *)

LEMMA EmptyText == IsText(<<>>) /\ FirstWord(<<>>) = ""
BY DEF IsText, MetadataReads, FirstWord

\* The first line has the first word if it has any.
LEMMA FirstWordOfFirstLine ==
  ASSUME NEW text, DOMAIN text \subseteq Nat \ {0}, 1 \in DOMAIN text, HasWords(text[1])
  PROVE  FirstWord(text) = text[1][1]
<1> DEFINE First(l) == HasWords(text[l]) /\ \A m \in 1..l-1 : ~HasWords(text[m])
<1>1. First(1)
  OBVIOUS
<1>2. ASSUME NEW l \in DOMAIN text, First(l) PROVE l = 1
  <2>1. CASE l > 1
    <3>1. 1 \in 1..l-1
      BY <2>1
    <3> QED BY <1>2, <3>1
  <2> QED BY <2>1
<1>3. (CHOOSE l \in DOMAIN text : First(l)) = 1
  <2> HIDE DEF First
  <2> QED BY <1>1, <1>2
<1> QED BY <1>3, Zenon DEF FirstWord

LEMMA FirstWordIsName ==
  ASSUME NEW text, IsText(text), MetadataReads(text)
  PROVE  FirstWord(text) = NameIn(text)
<1>1. 1 \in DOMAIN text /\ DOMAIN text \subseteq Nat \ {0}
  BY DEF IsText, MetadataReads
<1>2. HasWords(text[1])
  <2>1. text[1] # <<>>
    BY DEF MetadataReads
  <2>2. text[1][1] # NoWord
    BY WordsAssumption DEF IsText, NameIn
  <2> QED BY <2>1, <2>2, Zenon DEF HasWords
<1> QED BY <1>1, <1>2, FirstWordOfFirstLine DEF NameIn

\* operator<< prints a text that begins with the table's name.
LEMMA WrittenIsText ==
  ASSUME NEW t, Sound(t), t.name \in Names, NEW memory
  PROVE  /\ IsText(Written(t, memory)) /\ Len(Written(t, memory)) >= 1
         /\ Written(t, memory)[1] = <<t.name, Len(t.fields) + 1>>
         /\ FirstWord(Written(t, memory)) = t.name
<1> DEFINE n == Size(t.rows) + 2
           text == Written(t, memory)
           Line(l) == text[l]
<1>1. n \in Nat /\ n >= 1 /\ Len(t.fields) \in Nat
  BY SizeIsNat DEF Sound
<1>2. DOMAIN text = 1..n
  BY Zenon DEF Written
<1>3. text = [l \in 1..n |-> text[l]]
  BY Zenon DEF Written
<1>4. text[1] = <<t.name, Len(t.fields) + 1>>
  <2>1. 1 \in 1..n
    BY <1>1
  <2> QED BY <2>1, Zenon DEF Written
<1> HIDE DEF text, n
<1>5. Len(text) = n
  BY <1>1, <1>3
<1>6. NameIn(text) = t.name /\ CountIn(text) \in Nat
  BY <1>1, <1>4 DEF NameIn, CountIn
<1>7. IsText(text)
  BY <1>1, <1>2, <1>5, <1>6 DEF IsText
<1>8. FirstWord(text) = t.name
  <2>1. HasWords(text[1]) /\ text[1][1] = t.name
    <3>1. text[1][1] = t.name /\ text[1] # <<>>
      BY <1>4
    <3>2. t.name # NoWord
      BY WordsAssumption
    <3> QED BY <3>1, <3>2, Zenon DEF HasWords
  <2>2. 1 \in DOMAIN text /\ DOMAIN text \subseteq Nat \ {0}
    BY <1>1, <1>2
  <2> QED BY <2>1, <2>2, FirstWordOfFirstLine
<1> QED BY <1>1, <1>4, <1>5, <1>7, <1>8 DEF text

\* So are its beginnings.
LEMMA BeginningIsText ==
  ASSUME NEW t, Sound(t), t.name \in Names, NEW memory,
         NEW part \in Beginnings(Written(t, memory))
  PROVE  IsText(part)
<1> DEFINE text == Written(t, memory)
           n == Len(text)
           head == <<t.name, Len(t.fields) + 1>>
<1>1. IsText(text) /\ n \in Nat /\ n >= 1 /\ text[1] = head /\ Len(t.fields) \in Nat
  BY WrittenIsText DEF IsText, Sound
<1>2. CASE part = <<>>
  BY <1>2, EmptyText
<1>3. ASSUME NEW l \in 1..n, NEW last, part = Append(SubSeq(text, 1, l-1), last),
             l # 1 \/ \E w \in 1..Len(text[1]) : last = SubSeq(text[1], 1, w)
      PROVE  IsText(part)
  <2>1. text = [i \in 1..n |-> text[i]]
    <3>1. text = [i \in DOMAIN text |-> text[i]]
      BY Zenon DEF Written
    <3> QED BY <1>1, <3>1, Zenon DEF IsText
  <2> HIDE DEF text
  <2> DEFINE S == {text[i] : i \in 1..n} \cup {last}
             before == SubSeq(text, 1, l-1)
  <2>2. text \in Seq(S)
    <3>1. \A i \in 1..n : text[i] \in S
      OBVIOUS
    <3> HIDE DEF S
    <3> QED BY <1>1, <2>1, <3>1
  <2>3. /\ before \in Seq(S) /\ Len(before) = l - 1
        /\ \A i \in 1..l-1 : before[i] = text[i]
    <3> HIDE DEF S
    <3> QED BY <1>1, <2>2
  <2>4. last \in S
    OBVIOUS
  <2>5. /\ Len(part) = l /\ DOMAIN part = 1..l
        /\ \A i \in 1..l-1 : part[i] = text[i]
        /\ part[l] = last
    <3> HIDE DEF S, before
    <3>1. part = Append(before, last)
      BY <1>3 DEF before
    <3> QED BY <1>1, <2>3, <2>4, <3>1
  <2>6. CASE l = 1
    <3>1. PICK w \in 1..2 : part[1] = SubSeq(head, 1, w)
      BY <1>1, <1>3, <2>5, <2>6
    <3>2. Len(part[1]) = w /\ part[1][1] = t.name /\ (w = 2 => part[1][2] = Len(t.fields) + 1)
      BY <3>1
    <3> QED BY <1>1, <2>5, <2>6, <3>1, <3>2 DEF IsText, MetadataReads, NameIn, CountIn
  <2>7. CASE l # 1
    <3>1. part[1] = head
      BY <1>1, <2>5, <2>7
    <3> QED BY <1>1, <2>5, <3>1 DEF IsText, NameIn, CountIn
  <2> QED BY <2>6, <2>7
<1>4. part = <<>> \/ \E l \in 1..n : \E last \in LastLines(text, l) :
         part = Append(SubSeq(text, 1, l-1), last)
  BY Zenon DEF Beginnings
<1>5. ASSUME NEW l \in 1..n, NEW last \in LastLines(text, l)
      PROVE  l # 1 \/ \E w \in 1..Len(text[1]) : last = SubSeq(text[1], 1, w)
  <2> HIDE DEF text
  <2> QED BY DEF LastLines
<1> HIDE DEF text, n
<1> QED BY <1>2, <1>3, <1>4, <1>5, Zenon

-----------------------------------------------------------------------------
(* Types and names at first, and after each step.                          *)

LEMMA InvInit == Init => IInv
<1> SUFFICES ASSUME Init PROVE IInv
  OBVIOUS
<1>1. DiskHasTexts
  BY DisksAssumption DEF Init, DiskHasTexts, Exists, IsText
<1>2. DOMAIN tables = {} /\ DOMAIN fileTableNameMap = {}
  BY DEF Init, NoTables, NoNames
<1> QED BY <1>1, <1>2 DEF Init, IInv, TablesSound, NamesRemembered, Phases, Loading, Writing

\* A query has returned without a change to the files and their names.
LEMMA Returned ==
  ASSUME IInv, TablesSound', main' = "ready", UNCHANGED <<fileTableNameMap, disk>>
  PROVE  IInv'
<1>1. DiskHasTexts'
  BY DEF IInv, DiskHasTexts, Exists
<1>2. NamesRemembered' /\ DOMAIN fileTableNameMap' \subseteq Files
  BY DEF IInv, NamesRemembered, Exists
<1> QED BY <1>1, <1>2 DEF IInv, Phases, Loading, Writing

LEMMA RegisterSound ==
  ASSUME TablesSound, NEW t, Sound(t), t.name \in Names, NEW kind, NEW value,
         Register(t, kind, value)
  PROVE  TablesSound' /\ main' = "ready"
<1>1. CASE Has(tables, t.name) /\ Fail /\ UNCHANGED tables
  BY <1>1 DEF TablesSound, Fail, Return
<1>2. CASE tables' = Put(tables, t.name, t) /\ Return(kind, value)
  <2>1. DOMAIN tables' = DOMAIN tables \cup {t.name}
    BY <1>2 DEF Put
  <2>2. \A n \in DOMAIN tables' : tables'[n] = IF n = t.name THEN t ELSE tables[n]
    BY <1>2, <2>1 DEF Put
  <2>3. ASSUME NEW n \in DOMAIN tables'
        PROVE  n \in Names /\ tables'[n].name = n /\ Sound(tables'[n])
    BY <2>1, <2>2, Zenon DEF TablesSound
  <2> QED BY <1>2, <2>3, Zenon DEF TablesSound, Return
<1> QED BY <1>1, <1>2 DEF Register

\* A table has other rows.
LEMMA RowsSound ==
  ASSUME TablesSound, NEW n \in DOMAIN tables, NEW rows, HasRows(rows),
         tables' = [tables EXCEPT ![n].rows = rows]
  PROVE  TablesSound'
<1> DEFINE t == [tables[n] EXCEPT !.rows = rows]
<1>1. tables' = [tables EXCEPT ![n] = t]
  OBVIOUS
<1>2. n \in Names /\ Sound(t) /\ t.name = n
  BY OtherRowsSound DEF TablesSound
<1> HIDE DEF t
<1>3. /\ DOMAIN tables' = DOMAIN tables
      /\ \A m \in DOMAIN tables' : tables'[m] = IF m = n THEN t ELSE tables[m]
  BY <1>1
<1> QED BY <1>2, <1>3, Zenon DEF TablesSound

-----------------------------------------------------------------------------
(* LOAD and DUMP.                                                          *)

LEMMA FieldsSound ==
  ASSUME NEW text, IsText(text), MetadataReads(text), FieldsRead(text)
  PROVE  /\ Len(FieldsIn(text)) \in Nat
         /\ \A i \in DOMAIN FieldsIn(text) : FieldsIn(text)[i] # "KEY"
<1>1. CountIn(text) \in Nat /\ CountIn(text) >= 1
  BY DEF IsText, FieldsRead
<1> QED BY <1>1 DEF FieldsIn, FieldsRead

\* What is remembered of a file when its table has been asked for.
LEMMA RememberedNames ==
  ASSUME IInv, NEW f \in Files, fileTableNameMap' = Remember(f), UNCHANGED disk
  PROVE  /\ DOMAIN fileTableNameMap' \subseteq Files /\ NamesRemembered'
         /\ Exists(f) => FileTableName(f) = fileTableNameMap'[f]
         /\ Exists(f) => f \in DOMAIN fileTableNameMap'
<1>1. CASE ~Exists(f) \/ Has(fileTableNameMap, f)
  <2>1. fileTableNameMap' = fileTableNameMap
    BY <1>1 DEF Remember, Emplace
  <2> QED BY <1>1, <2>1 DEF IInv, NamesRemembered, Exists, FileTableName, Has
<1>2. CASE Exists(f) /\ ~Has(fileTableNameMap, f)
  <2>1. fileTableNameMap' = Put(fileTableNameMap, f, FirstWord(disk[f]))
    BY <1>2 DEF Remember, Emplace
  <2>2. /\ DOMAIN fileTableNameMap' = DOMAIN fileTableNameMap \cup {f}
        /\ \A g \in DOMAIN fileTableNameMap' :
             fileTableNameMap'[g] = IF g = f THEN FirstWord(disk[f]) ELSE fileTableNameMap[g]
    BY <2>1 DEF Put
  <2>3. NamesRemembered'
    BY <2>2, Zenon DEF IInv, NamesRemembered, Exists
  <2> QED BY <1>2, <2>2, <2>3 DEF IInv, FileTableName
<1> QED BY <1>1, <1>2

LEMMA InvStartLoad == ASSUME IInv, NEW f \in Files, StartLoad(f) PROVE IInv'
<1> DEFINE text == disk[f]
           Reads == /\ Exists(f) /\ MetadataReads(text) /\ ~Has(tables, NameIn(text))
                    /\ FieldsRead(text)
           t == [name |-> NameIn(text), fields |-> FieldsIn(text), rows |-> EmptyTable]
<1>1. /\ DOMAIN fileTableNameMap' \subseteq Files /\ NamesRemembered'
      /\ Exists(f) => FileTableName(f) = fileTableNameMap'[f]
      /\ Exists(f) => f \in DOMAIN fileTableNameMap'
  BY RememberedNames DEF StartLoad
<1>2. TablesSound' /\ DiskHasTexts'
  BY DEF StartLoad, IInv, TablesSound, DiskHasTexts, Exists
<1>3. CASE Reads /\ main' = "loading"
           /\ frame' = [file |-> f, name |-> FileTableName(f), line |-> 3, table |-> t]
  <2>1. IsText(text) /\ disk' = disk
    BY <1>3 DEF IInv, DiskHasTexts, Exists, StartLoad
  <2>2. NameIn(text) \in Names /\ Len(text) \in Nat /\ Len(text) >= 2
    BY <1>3, <2>1 DEF IsText, FieldsRead
  <2>3. Sound(t)
    BY <1>3, <2>1, FieldsSound, EmptyHasRows DEF Sound
  <2>4. f \notin ReadOnly => FileTableName(f) = NameIn(text)
    <3>1. FirstWord(text) = NameIn(text)
      BY <1>3, <2>1, FirstWordIsName
    <3>2. FirstWord(text) # ""
      BY <2>2, <3>1, WordsAssumption DEF NoWord
    <3>3. f \notin ReadOnly => fileTableNameMap'[f] = FirstWord(text)
      BY <1>1, <1>3, <2>1, <3>2 DEF NamesRemembered, Exists
    <3> QED BY <1>1, <1>3, <3>1, <3>3
  <2>5. Loading'
    <3>1. /\ frame'.file = f /\ frame'.name = FileTableName(f) /\ frame'.line = 3
          /\ frame'.table = t /\ t.name = NameIn(text)
      BY <1>3
    <3>2. frame' = [file |-> frame'.file, name |-> frame'.name,
                    line |-> frame'.line, table |-> frame'.table]
      BY <1>3
    <3> HIDE DEF t
    <3>3. frame'.line \in 3..Len(disk'[frame'.file])+1
      BY <2>1, <2>2, <3>1
    <3>4. Exists(frame.file)'
      BY <1>3, <2>1, <3>1 DEF Exists
    <3> QED BY <2>2, <2>3, <2>4, <3>1, <3>2, <3>3, <3>4 DEF Loading
  <2> QED BY <1>1, <1>2, <1>3, <2>5 DEF IInv, Phases, Writing
<1>4. CASE Fail
  BY <1>1, <1>2, <1>4 DEF Fail, Return, IInv, Phases, Loading, Writing
<1> QED BY <1>3, <1>4 DEF StartLoad

LEMMA InvLoadRow == ASSUME IInv, LoadRow PROVE IInv'
<1> DEFINE text == disk[frame.file]
           line == text[frame.line]
           rows == InsertByIndex(frame.table.rows, line[1], ValsIn(line, CountIn(text)))
<1>1. /\ main = "loading" /\ ~BodyEnds(text, frame.line)
      /\ UNCHANGED <<tables, fileTableNameMap, disk>>
  BY DEF LoadRow
<1>2. TablesSound' /\ DiskHasTexts' /\ NamesRemembered' /\ DOMAIN fileTableNameMap' \subseteq Files
  BY <1>1 DEF IInv, TablesSound, DiskHasTexts, NamesRemembered, Exists
<1>3. CASE /\ ~Has(frame.table.rows.keyMap, line[1]) /\ UNCHANGED main
           /\ frame' = [frame EXCEPT !.line = @ + 1, !.table.rows = rows]
  <2>1. /\ frame = [file |-> frame.file, name |-> frame.name,
                    line |-> frame.line, table |-> frame.table]
        /\ frame.file \in Files /\ Exists(frame.file)
        /\ frame.line \in 3..Len(text)+1
        /\ Sound(frame.table) /\ frame.table.name \in Names
        /\ frame.file \notin ReadOnly => frame.name = frame.table.name
    BY <1>1 DEF IInv, Loading
  <2>2. HasRows(rows)
    BY <1>3, <2>1, InsertHasRows DEF Sound
  <2> HIDE DEF rows
  <2> DEFINE t == [frame.table EXCEPT !.rows = rows]
  <2>3. Sound(t) /\ t.name = frame.table.name
    BY <2>1, <2>2, OtherRowsSound
  <2>4. frame' = [file |-> frame.file, name |-> frame.name,
                  line |-> frame.line + 1, table |-> t]
    BY <1>3, <2>1
  <2> HIDE DEF t
  <2>5. IsText(text)
    BY <2>1 DEF IInv, DiskHasTexts, Exists
  <2>6. frame.line + 1 \in 3..Len(text)+1
    <3>1. frame.line \in 1..Len(text) /\ Len(text) \in Nat
      BY <1>1, <2>5 DEF BodyEnds, IsText
    <3> QED BY <2>1, <3>1
  <2>7. Loading'
    <3>1. /\ frame'.file = frame.file /\ frame'.name = frame.name
          /\ frame'.line = frame.line + 1 /\ frame'.table = t
      BY <2>4
    <3>2. frame' = [file |-> frame'.file, name |-> frame'.name,
                    line |-> frame'.line, table |-> frame'.table]
      BY <2>4
    <3>3. Exists(frame.file)' /\ frame'.line \in 3..Len(disk'[frame'.file])+1
      BY <1>1, <2>1, <2>6, <3>1 DEF Exists
    <3> QED BY <2>1, <2>3, <3>1, <3>2, <3>3 DEF Loading
  <2> QED BY <1>1, <1>2, <1>3, <2>7 DEF IInv, Phases, Writing
<1>4. CASE Fail
  BY <1>2, <1>4 DEF Fail, Return, IInv, Phases, Loading, Writing
<1> QED BY <1>3, <1>4 DEF LoadRow

LEMMA InvEndLoad == ASSUME IInv, EndLoad PROVE IInv'
<1>1. /\ main = "loading" /\ Register(frame.table, "success", frame.name)
      /\ UNCHANGED <<fileTableNameMap, disk>>
  BY DEF EndLoad
<1>2. TablesSound /\ Sound(frame.table) /\ frame.table.name \in Names
  BY <1>1 DEF IInv, Loading
<1>3. TablesSound' /\ main' = "ready"
  BY <1>1, <1>2, RegisterSound
<1> QED BY <1>1, <1>3, Returned

LEMMA InvStartDump ==
  ASSUME IInv, NEW n \in Names, NEW f \in Files, StartDump(n, f)
  PROVE  IInv'
<1>1. /\ DOMAIN fileTableNameMap' = DOMAIN fileTableNameMap \cup {f}
      /\ \A g \in DOMAIN fileTableNameMap' :
           fileTableNameMap'[g] = IF g = f THEN n ELSE fileTableNameMap[g]
  BY DEF StartDump, Put
<1>2. TablesSound' /\ DOMAIN fileTableNameMap' \subseteq Files
  BY <1>1 DEF StartDump, IInv, TablesSound
<1>3. CASE f \in ReadOnly /\ Fail /\ UNCHANGED disk
  <2>1. NamesRemembered' /\ DiskHasTexts'
    BY <1>1, <1>3 DEF IInv, NamesRemembered, DiskHasTexts, Exists
  <2> QED BY <1>2, <1>3, <2>1 DEF Fail, Return, IInv, Phases, Loading, Writing
<1>4. CASE /\ disk' = Put(disk, f, <<>>)
           /\ \/ Fail
              \/ /\ Has(tables, n) /\ main' = "writing"
                 /\ frame' = [NoFrame EXCEPT !.file = f, !.name = n]
  <2>1. /\ DOMAIN disk' = DOMAIN disk \cup {f}
        /\ \A g \in DOMAIN disk' : disk'[g] = IF g = f THEN <<>> ELSE disk[g]
    BY <1>4 DEF Put
  <2>2. DiskHasTexts'
    BY <2>1, EmptyText DEF IInv, DiskHasTexts, Exists
  <2>3. NamesRemembered'
    <3>1. ASSUME NEW g \in DOMAIN fileTableNameMap' \ ReadOnly, Exists(g)', FirstWord(disk'[g]) # ""
          PROVE  fileTableNameMap'[g] = FirstWord(disk'[g])
      <4>1. g \in Files
        BY <1>2
      <4>2. g # f
        BY <2>1, <3>1, EmptyText
      <4> QED BY <1>1, <2>1, <3>1, <4>1, <4>2 DEF IInv, NamesRemembered, Exists
    <3> QED BY <3>1 DEF NamesRemembered
  <2>4. CASE Fail
    BY <1>2, <2>2, <2>3, <2>4 DEF Fail, Return, IInv, Phases, Loading, Writing
  <2>5. CASE Has(tables, n) /\ main' = "writing"
             /\ frame' = [NoFrame EXCEPT !.file = f, !.name = n]
    <3>1. frame'.file = f /\ frame'.name = n
      BY <2>5 DEF NoFrame
    <3>2. Writing'
      <4>1. tables' = tables /\ n \in DOMAIN tables /\ disk'[f] = <<>>
            /\ Exists(f)' /\ fileTableNameMap'[f] = n
        BY <1>1, <2>1, <2>5 DEF StartDump, Has, Exists
      <4> QED BY <3>1, <4>1 DEF Writing
    <3> QED BY <1>2, <2>2, <2>3, <2>5, <3>2 DEF IInv, Phases, Loading
  <2> QED BY <1>4, <2>4, <2>5
<1> QED BY <1>3, <1>4 DEF StartDump

LEMMA InvEndDump == ASSUME IInv, EndDump PROVE IInv'
<1>1. /\ frame.file \in Files /\ frame.name \in DOMAIN tables
      /\ fileTableNameMap[frame.file] = frame.name
      /\ tables' = tables /\ fileTableNameMap' = fileTableNameMap
      /\ main' = "ready"
  BY DEF EndDump, IInv, Writing, Return
<1>2. PICK text \in Output : disk' = Put(disk, frame.file, text)
  BY DEF EndDump
<1>3. Sound(tables[frame.name]) /\ tables[frame.name].name = frame.name /\ frame.name \in Names
  BY <1>1 DEF IInv, TablesSound
<1>4. IsText(text) /\ FirstWord(text) = frame.name
  <2>1. \E memory : text = Written(tables[frame.name], memory)
    BY Zenon DEF Output
  <2> QED BY <1>3, <2>1, WrittenIsText
<1>5. /\ DOMAIN disk' = DOMAIN disk \cup {frame.file}
      /\ \A g \in DOMAIN disk' : disk'[g] = IF g = frame.file THEN text ELSE disk[g]
  BY <1>2 DEF Put
<1>6. DiskHasTexts'
  BY <1>1, <1>4, <1>5 DEF IInv, DiskHasTexts, Exists
<1>7. NamesRemembered'
  <2>1. ASSUME NEW g \in DOMAIN fileTableNameMap' \ ReadOnly, Exists(g)', FirstWord(disk'[g]) # ""
        PROVE  fileTableNameMap'[g] = FirstWord(disk'[g])
    <3>1. g \in Files
      BY <1>1 DEF IInv
    <3>2. CASE g = frame.file
      BY <1>1, <1>4, <1>5, <3>1, <3>2
    <3>3. CASE g # frame.file
      BY <1>1, <1>5, <2>1, <3>1, <3>3 DEF IInv, NamesRemembered, Exists
    <3> QED BY <3>2, <3>3
  <2> QED BY <2>1 DEF NamesRemembered
<1>8. TablesSound'
  BY <1>1 DEF IInv, TablesSound
<1> QED BY <1>1, <1>6, <1>7, <1>8 DEF IInv, Phases, Loading, Writing

-----------------------------------------------------------------------------
(* The other queries, and the end of the process.                          *)

LEMMA InvDrop == ASSUME IInv, NEW n \in Names, Drop(n) PROVE IInv'
<1>1. UNCHANGED <<fileTableNameMap, disk>> /\ main' = "ready"
  BY DEF Drop, Query, Fail, Return
<1>2. TablesSound'
  BY DEF Drop, IInv, TablesSound, Erase
<1> QED BY <1>1, <1>2, Returned

LEMMA InvTruncate == ASSUME IInv, NEW n \in Names, Truncate(n) PROVE IInv'
<1>1. UNCHANGED <<fileTableNameMap, disk>> /\ main' = "ready"
  BY DEF Truncate, Query, Fail, Return
<1>2. CASE UNCHANGED tables
  BY <1>1, <1>2, Returned DEF IInv, TablesSound
<1>3. CASE Has(tables, n) /\ tables' = [tables EXCEPT ![n].rows = EmptyTable]
  BY <1>1, <1>3, EmptyHasRows, RowsSound, Returned DEF IInv, Has
<1> QED BY <1>2, <1>3 DEF Truncate

LEMMA InvCopyTable ==
  ASSUME IInv, NEW n \in Names, NEW new \in Names, CopyTable(n, new)
  PROVE  IInv'
<1>1. UNCHANGED <<fileTableNameMap, disk>>
  BY DEF CopyTable, Query
<1>2. CASE Has(tables, n) /\ Register(Copied(n, new), "null", "")
  <2>1. Sound(Copied(n, new)) /\ Copied(n, new).name = new
    BY <1>2, OtherNameSound DEF IInv, TablesSound, Has, Copied
  <2>2. TablesSound' /\ main' = "ready"
    BY <1>2, <2>1, RegisterSound DEF IInv
  <2> QED BY <1>1, <2>2, Returned
<1>3. CASE Fail /\ UNCHANGED tables
  <2>1. TablesSound' /\ main' = "ready"
    BY <1>3 DEF IInv, TablesSound, Fail, Return
  <2> QED BY <1>1, <2>1, Returned
<1> QED BY <1>2, <1>3 DEF CopyTable

\* LIST and SHOWTABLE.
LEMMA InvAsk ==
  ASSUME IInv, List \/ \E n \in Names : ShowTable(n)
  PROVE  IInv'
<1>1. UNCHANGED <<tables, fileTableNameMap, disk>> /\ main' = "ready"
  BY DEF List, ShowTable, Query, Fail, Return
<1>2. TablesSound'
  BY <1>1 DEF IInv, TablesSound
<1> QED BY <1>1, <1>2, Returned

LEMMA InvInsert ==
  ASSUME IInv, NEW n \in Names, NEW k \in Keys, NEW vals \in Tuples, Insert(n, k, vals)
  PROVE  IInv'
<1>1. UNCHANGED <<fileTableNameMap, disk>> /\ main' = "ready"
  BY DEF Insert, Query, Fail, Return
<1>2. CASE UNCHANGED tables
  BY <1>1, <1>2, Returned DEF IInv, TablesSound
<1>3. CASE /\ Has(tables, n) /\ ~Has(tables[n].rows.keyMap, k)
           /\ tables' = [tables EXCEPT ![n].rows = InsertByIndex(@, k, vals)]
  <2> DEFINE rows == InsertByIndex(tables[n].rows, k, vals)
  <2>1. n \in DOMAIN tables /\ Sound(tables[n])
    BY <1>3 DEF IInv, TablesSound, Has
  <2>2. HasRows(rows)
    BY <1>3, <2>1, InsertHasRows DEF Sound
  <2>3. tables' = [tables EXCEPT ![n].rows = rows]
    BY <1>3
  <2> HIDE DEF rows
  <2> QED BY <1>1, <2>1, <2>2, <2>3, RowsSound, Returned DEF IInv
<1> QED BY <1>2, <1>3 DEF Insert

LEMMA InvDelete ==
  ASSUME IInv, NEW n \in Names, NEW k \in Keys, Delete(n, k)
  PROVE  IInv'
<1> DEFINE rows == DeleteByIndex(tables[n].rows, k)
<1>1. /\ UNCHANGED <<fileTableNameMap, disk>> /\ main' = "ready"
      /\ n \in DOMAIN tables /\ Has(tables[n].rows.keyMap, k)
      /\ tables' = [tables EXCEPT ![n].rows = rows]
  BY DEF Delete, Query, Return, Has
<1>2. HasRows(rows)
  BY <1>1, DeleteHasRows DEF IInv, TablesSound, Sound
<1> HIDE DEF rows
<1> QED BY <1>1, <1>2, RowsSound, Returned DEF IInv

LEMMA InvRestarted == ASSUME IInv, Restart, DiskHasTexts' PROVE IInv'
<1>1. DOMAIN tables' = {} /\ DOMAIN fileTableNameMap' = {} /\ main' = "ready"
  BY DEF Restart, NoTables, NoNames
<1> QED BY <1>1 DEF IInv, TablesSound, NamesRemembered, Phases, Loading, Writing

LEMMA InvKilled == ASSUME IInv, Killed PROVE IInv'
<1>1. CASE UNCHANGED disk
  <2>1. DiskHasTexts'
    BY <1>1 DEF IInv, DiskHasTexts, Exists
  <2> QED BY <2>1, InvRestarted DEF Killed
<1>2. CASE main = "writing"
  <2>1. PICK text \in Output : \E part \in Beginnings(text) :
          disk' = Put(disk, frame.file, part)
    BY <1>2 DEF Killed
  <2>2. PICK part \in Beginnings(text) : disk' = Put(disk, frame.file, part)
    BY <2>1
  <2>3. frame.file \in Files /\ frame.name \in DOMAIN tables
    BY <1>2 DEF IInv, Writing
  <2>4. IsText(part)
    <3>1. PICK memory : text = Written(tables[frame.name], memory)
      BY Zenon DEF Output
    <3>2. Sound(tables[frame.name]) /\ tables[frame.name].name \in Names
      BY <2>3 DEF IInv, TablesSound
    <3> QED BY <2>2, <3>1, <3>2, BeginningIsText
  <2>5. /\ DOMAIN disk' = DOMAIN disk \cup {frame.file}
        /\ \A g \in DOMAIN disk' : disk'[g] = IF g = frame.file THEN part ELSE disk[g]
    BY <2>2 DEF Put
  <2>6. DiskHasTexts'
    BY <2>3, <2>4, <2>5 DEF IInv, DiskHasTexts, Exists
  <2> QED BY <2>6, InvRestarted DEF Killed
<1> QED BY <1>1, <1>2 DEF Killed

LEMMA InvStep == ASSUME IInv, [Next]_vars PROVE IInv'
<1>1. CASE UNCHANGED vars
  BY <1>1 DEF vars, IInv, TablesSound, DiskHasTexts, Exists, NamesRemembered, Loading, Writing
<1>2. ASSUME NEW f \in Files, StartLoad(f) PROVE IInv'
  BY <1>2, InvStartLoad
<1>3. ASSUME NEW n \in Names, NEW f \in Files, StartDump(n, f) PROVE IInv'
  BY <1>3, InvStartDump
<1>4. ASSUME NEW n \in Names, Drop(n) \/ Truncate(n) PROVE IInv'
  BY <1>4, InvDrop, InvTruncate
<1>5. ASSUME NEW n \in Names, NEW new \in Names, CopyTable(n, new) PROVE IInv'
  BY <1>5, InvCopyTable
<1>6. ASSUME NEW n \in Names, NEW k \in Keys, Delete(n, k) PROVE IInv'
  BY <1>6, InvDelete
<1>7. ASSUME NEW n \in Names, NEW k \in Keys, NEW vals \in Tuples, Insert(n, k, vals)
      PROVE  IInv'
  BY <1>7, InvInsert
<1>8. CASE List \/ \E n \in Names : ShowTable(n)
  BY <1>8, InvAsk
<1>9. CASE Quit
  <2>1. DiskHasTexts'
    BY <1>9 DEF Quit, IInv, DiskHasTexts, Exists
  <2> QED BY <1>9, <2>1, InvRestarted DEF Quit
<1> QED BY <1>1, <1>2, <1>3, <1>4, <1>5, <1>6, <1>7, <1>8, <1>9,
           InvLoadRow, InvEndLoad, InvEndDump, InvKilled DEF Next

LEMMA InvariantHolds == Spec => []IInv
<1>1. IInv /\ [Next]_vars => IInv'
  BY InvStep
<1> QED BY <1>1, InvInit, PTL DEF Spec

-----------------------------------------------------------------------------
(***************************************************************************)
(* Tables are known by the names they have, and LOAD and DUMP stay inside  *)
(* the file they have opened (loadTableFromStream, DumpTableQuery).        *)
(***************************************************************************)
THEOREM TypeCorrect == Spec => []TypeOK
<1>1. IInv => TypeOK
  <2> SUFFICES ASSUME IInv PROVE TypeOK
    OBVIOUS
  <2>1. \A n \in DOMAIN tables : n \in Names /\ tables[n].name = n
    BY DEF IInv, TablesSound
  <2>2. main # "ready" => frame.file \in Files /\ Exists(frame.file)
    BY FilesAssumption DEF IInv, Phases, Loading, Writing, Exists
  <2>3. main = "loading" => frame.line \in 3..Len(disk[frame.file])+1
    BY DEF IInv, Loading
  <2> QED BY <2>1, <2>2, <2>3 DEF IInv, TypeOK, DiskHasTexts
<1> QED BY <1>1, InvariantHolds, PTL

(***************************************************************************)
(* In every table, and in the one that is loaded, keyMap is exact, however *)
(* many rows there are and wherever they came from: a file, a COPYTABLE,   *)
(* an INSERT, or a DELETE that moved one.                                  *)
(***************************************************************************)
THEOREM TablesStayExact == Spec => []TablesExact
<1>1. IInv => TablesExact
  BY SoundIsTable DEF IInv, TablesSound, Loading, TablesExact
<1> QED BY <1>1, InvariantHolds, PTL

(***************************************************************************)
(* fileTableNameMap says of every file that can be written what the file   *)
(* says, whatever DUMPs failed, and at which point.                        *)
(***************************************************************************)
THEOREM NamesStayRight == Spec => []NamesRemembered
<1>1. IInv => NamesRemembered
  BY DEF IInv
<1> QED BY <1>1, InvariantHolds, PTL

(***************************************************************************)
(* A LOAD that registers a table reports the name of that table, which it  *)
(* has from fileTableNameMap and not from the file it reads.               *)
(***************************************************************************)
THEOREM LoadReportsItsTable == Spec => ReportsLoadedTable
<1> DEFINE Step == \A n \in DOMAIN tables' \ DOMAIN tables :
                     main = "loading" /\ frame.file \notin ReadOnly => result'[2] = n
<1>1. ASSUME IInv, [Next]_vars PROVE [Step]_vars
  <2> SUFFICES ASSUME Next, main = "loading", frame.file \notin ReadOnly,
                      NEW n \in DOMAIN tables' \ DOMAIN tables
               PROVE  result'[2] = n
    BY <1>1
  <2>1. frame.name = frame.table.name
    BY <1>1 DEF IInv, Loading
  <2>2. CASE EndLoad
    <3>1. /\ tables' = Put(tables, frame.table.name, frame.table)
          /\ result' = <<"success", frame.name>>
      BY <2>2 DEF EndLoad, Register, Return, Fail
    <3>2. n = frame.table.name
      BY <3>1 DEF Put
    <3> QED BY <2>1, <3>1, <3>2
  <2>3. CASE LoadRow
    BY <2>3 DEF LoadRow
  <2>4. CASE Killed
    BY <2>4 DEF Killed, Restart, NoTables
  <2> QED BY <2>2, <2>3, <2>4
        DEF Next, StartLoad, StartDump, EndDump, Drop, Truncate, ShowTable, CopyTable, List,
            Insert, Delete, Quit, Query
<1> QED BY <1>1, InvariantHolds, PTL DEF Spec, ReportsLoadedTable

-----------------------------------------------------------------------------
(* The values in the rows.  A row holds integers, and as many as its table *)
(* has fields unless INSERT was given another number of them.  Its key is  *)
(* a word.                                                                 *)

Vals(n) == {v \in Seq(IntMin..IntMax) : v \in Tuples \/ Len(v) = n}

RowsHeld(rows, n) == \E K : NoWord \notin K /\ Exact(rows, K, Vals(n))

TableHeld(t) ==
  /\ t.fields = [i \in 1..Len(t.fields) |-> t.fields[i]]
  /\ RowsHeld(t.rows, Len(t.fields))

\* The table t has what the text says, up to the line with this number.
ReadUpTo(text, t, line) ==
  LET count == CountIn(text)
      content == Content(t.rows)
      done == 3..line-1
  IN /\ MetadataReads(text) /\ FieldsRead(text)
     /\ t.name = NameIn(text) /\ t.fields = FieldsIn(text)
     /\ \A l \in done : ~BodyEnds(text, l) /\ RowReads(text[l], count)
     /\ \A l, m \in done : text[l][1] = text[m][1] => l = m
     /\ DOMAIN content = {text[l][1] : l \in done}
     /\ \A l \in done : content[text[l][1]] = ValsIn(text[l], count)

Reading ==
  main = "loading" =>
    /\ ReadUpTo(disk[frame.file], frame.table, frame.line)
    /\ TableHeld(frame.table) /\ ~Has(tables, frame.table.name)

Held == Reading /\ \A n \in DOMAIN tables : TableHeld(tables[n])

LEMMA EmptyHeld == ASSUME NEW n PROVE RowsHeld(EmptyTable, n)
<1>1. NoWord \notin {} /\ Exact(EmptyTable, {}, Vals(n))
  BY EmptyExact
<1> QED BY <1>1, Zenon DEF RowsHeld

LEMMA InsertHeld ==
  ASSUME NEW rows, NEW n, RowsHeld(rows, n), NEW k, k # NoWord,
         NEW vals \in Vals(n), ~Has(rows.keyMap, k)
  PROVE  /\ RowsHeld(InsertByIndex(rows, k, vals), n)
         /\ Content(InsertByIndex(rows, k, vals)) = Put(Content(rows), k, vals)
<1>1. PICK K : NoWord \notin K /\ Exact(rows, K, Vals(n))
  BY Zenon DEF RowsHeld
<1> HIDE DEF Vals
<1>2. NoWord \notin K \cup {k} /\ Exact(rows, K \cup {k}, Vals(n))
  BY <1>1, ExactGrows
<1>3. /\ Exact(InsertByIndex(rows, k, vals), K \cup {k}, Vals(n))
      /\ Content(InsertByIndex(rows, k, vals)) = Put(Content(rows), k, vals)
  BY <1>2, InsertExact
<1> QED BY <1>2, <1>3, Zenon DEF RowsHeld

LEMMA DeleteHeld ==
  ASSUME NEW rows, NEW n, RowsHeld(rows, n), NEW k, Has(rows.keyMap, k)
  PROVE  /\ RowsHeld(DeleteByIndex(rows, k), n)
         /\ Content(DeleteByIndex(rows, k)) = Erase(Content(rows), k)
<1>1. PICK K : NoWord \notin K /\ Exact(rows, K, Vals(n))
  BY Zenon DEF RowsHeld
<1>2. /\ Exact(DeleteByIndex(rows, k), K, Vals(n))
      /\ Content(DeleteByIndex(rows, k)) = Erase(Content(rows), k)
  BY <1>1, DeleteExact
<1> QED BY <1>1, <1>2, Zenon DEF RowsHeld

LEMMA FunctionIsSeq ==
  ASSUME NEW S, NEW n \in Nat, NEW v \in [1..n -> S]
  PROVE  v \in Seq(S) /\ Len(v) = n
OBVIOUS

\* A line that can be read has the values of a row.
LEMMA LineVals ==
  ASSUME NEW line, NEW count \in Nat \ {0}, RowReads(line, count)
  PROVE  ValsIn(line, count) \in Vals(count - 1)
<1> DEFINE v == ValsIn(line, count)
<1>1. \A i \in 1..count-1 : line[i+1] \in IntMin..IntMax
  BY DEF RowReads
<1>2. v \in [1..count-1 -> IntMin..IntMax] /\ count - 1 \in Nat
  BY <1>1 DEF ValsIn
<1> HIDE DEF v
<1>3. v \in Seq(IntMin..IntMax) /\ Len(v) = count - 1
  BY <1>2, FunctionIsSeq, Zenon
<1> QED BY <1>3 DEF Vals, v

\* A table with other rows, or under another name.
LEMMA OtherRowsHeld ==
  ASSUME NEW t, Sound(t), TableHeld(t), NEW rows, RowsHeld(rows, Len(t.fields))
  PROVE  TableHeld([t EXCEPT !.rows = rows])
<1>1. [t EXCEPT !.rows = rows] = [name |-> t.name, fields |-> t.fields, rows |-> rows]
  BY DEF Sound
<1> QED BY <1>1 DEF TableHeld

LEMMA OtherNameHeld ==
  ASSUME NEW t, Sound(t), TableHeld(t), NEW n
  PROVE  TableHeld([t EXCEPT !.name = n])
<1>1. [t EXCEPT !.name = n] = [name |-> n, fields |-> t.fields, rows |-> t.rows]
  BY DEF Sound
<1> QED BY <1>1 DEF TableHeld

\* The tables after a query.
LEMMA TablesAfter ==
  ASSUME NEW n \in DOMAIN tables, NEW rows, Sound(tables[n]),
         tables' = [tables EXCEPT ![n].rows = rows]
  PROVE  /\ DOMAIN tables' = DOMAIN tables
         /\ tables'[n] = [name |-> tables[n].name, fields |-> tables[n].fields, rows |-> rows]
         /\ \A m \in DOMAIN tables \ {n} : tables'[m] = tables[m]
<1> DEFINE t == [tables[n] EXCEPT !.rows = rows]
<1>1. tables' = [tables EXCEPT ![n] = t]
  OBVIOUS
<1>2. t = [name |-> tables[n].name, fields |-> tables[n].fields, rows |-> rows]
  BY DEF Sound
<1> HIDE DEF t
<1>3. /\ DOMAIN tables' = DOMAIN tables /\ tables'[n] = t
      /\ \A m \in DOMAIN tables \ {n} : tables'[m] = tables[m]
  BY <1>1
<1> QED BY <1>2, <1>3

LEMMA PutTables ==
  ASSUME NEW n, NEW t, tables' = Put(tables, n, t)
  PROVE  /\ DOMAIN tables' = DOMAIN tables \cup {n} /\ tables'[n] = t
         /\ \A m \in DOMAIN tables \ {n} : tables'[m] = tables[m]
BY DEF Put

LEMMA HeldInit == Init => Held
BY DEF Init, Held, Reading, NoTables

\* A query that loads nothing leaves the rows of every table held.
LEMMA HeldReady ==
  ASSUME Held, main' # "loading", \A n \in DOMAIN tables' : TableHeld(tables'[n])
  PROVE  Held'
BY DEF Held, Reading, TableHeld, RowsHeld

LEMMA HeldStartLoad ==
  ASSUME IInv, Held, NEW f \in Files, StartLoad(f)
  PROVE  Held'
<1> DEFINE text == disk[f]
           t == [name |-> NameIn(text), fields |-> FieldsIn(text), rows |-> EmptyTable]
<1>1. tables' = tables /\ disk' = disk /\ \A n \in DOMAIN tables' : TableHeld(tables'[n])
  BY DEF StartLoad, Held
<1>2. CASE Fail
  BY <1>1, <1>2, HeldReady DEF Fail, Return
<1>3. CASE /\ Exists(f) /\ MetadataReads(text) /\ ~Has(tables, NameIn(text)) /\ FieldsRead(text)
           /\ main' = "loading"
           /\ frame' = [file |-> f, name |-> FileTableName(f), line |-> 3, table |-> t]
  <2>1. frame'.file = f /\ frame'.line = 3 /\ frame'.table = t
    BY <1>3
  <2>2. IsText(text) /\ CountIn(text) - 1 \in Nat
    BY <1>3 DEF IInv, DiskHasTexts, Exists, IsText, FieldsRead
  <2>3. TableHeld(t)
    <3>1. Len(FieldsIn(text)) = CountIn(text) - 1
          /\ FieldsIn(text) = [i \in 1..CountIn(text)-1 |-> FieldsIn(text)[i]]
      BY <2>2 DEF FieldsIn
    <3> QED BY <3>1, EmptyHeld DEF TableHeld
  <2>4. ReadUpTo(text, t, 3)
    <3>1. DOMAIN Content(EmptyTable) = {} /\ 3..3-1 = {}
      BY EmptyExact
    <3> QED BY <1>3, <3>1 DEF ReadUpTo
  <2>5. t.name = NameIn(text)
    OBVIOUS
  <2> HIDE DEF t
  <2>7. Reading'
    BY <1>1, <1>3, <2>1, <2>3, <2>4, <2>5 DEF Reading
  <2> QED BY <1>1, <2>7 DEF Held
<1> QED BY <1>2, <1>3 DEF StartLoad

\* The file that is read, and the lines behind the header.
LEMMA LoadingText ==
  ASSUME IInv, Held, main = "loading"
  PROVE  LET text == disk[frame.file]
         IN /\ IsText(text) /\ CountIn(text) \in Nat \ {0}
            /\ frame.line \in 3..Len(text)+1
            /\ Len(frame.table.fields) = CountIn(text) - 1
<1> DEFINE text == disk[frame.file]
<1>1. IsText(text) /\ frame.line \in 3..Len(text)+1
  BY DEF IInv, Loading, DiskHasTexts, Exists
<1>2. CountIn(text) \in Nat \ {0} /\ frame.table.fields = FieldsIn(text)
  BY <1>1 DEF Held, Reading, ReadUpTo, IsText, FieldsRead
<1>3. Len(FieldsIn(text)) = CountIn(text) - 1
  BY <1>2 DEF FieldsIn
<1> QED BY <1>1, <1>2, <1>3

LEMMA HeldLoadRow ==
  ASSUME IInv, Held, LoadRow
  PROVE  Held'
<1> DEFINE text == disk[frame.file]
           count == CountIn(text)
           line == text[frame.line]
           content == Content(frame.table.rows)
           done == 3..frame.line-1
           rows == InsertByIndex(frame.table.rows, line[1], ValsIn(line, count))
<1>1. /\ main = "loading" /\ ~BodyEnds(text, frame.line)
      /\ UNCHANGED <<tables, fileTableNameMap, disk>>
  BY DEF LoadRow
<1>2. \A n \in DOMAIN tables' : TableHeld(tables'[n])
  BY <1>1 DEF Held
<1>3. CASE Fail
  BY <1>2, <1>3, HeldReady DEF Fail, Return
<1>4. CASE /\ RowReads(line, count) /\ ~Has(frame.table.rows.keyMap, line[1])
           /\ UNCHANGED main
           /\ frame' = [frame EXCEPT !.line = @ + 1, !.table.rows = rows]
  <2>1. /\ frame = [file |-> frame.file, name |-> frame.name,
                    line |-> frame.line, table |-> frame.table]
        /\ Sound(frame.table)
    BY <1>1 DEF IInv, Loading
  <2>2. /\ count \in Nat \ {0} /\ frame.line \in Nat \ {0, 1, 2}
        /\ Len(frame.table.fields) = count - 1
    BY <1>1, LoadingText DEF IsText
  <2>3. /\ MetadataReads(text) /\ FieldsRead(text)
        /\ frame.table.name = NameIn(text) /\ frame.table.fields = FieldsIn(text)
        /\ \A l \in done : ~BodyEnds(text, l) /\ RowReads(text[l], count)
        /\ \A l, m \in done : text[l][1] = text[m][1] => l = m
        /\ DOMAIN content = {text[l][1] : l \in done}
        /\ \A l \in done : content[text[l][1]] = ValsIn(text[l], count)
        /\ TableHeld(frame.table) /\ ~Has(tables, frame.table.name)
    BY <1>1 DEF Held, Reading, ReadUpTo
  <2>4. ValsIn(line, count) \in Vals(Len(frame.table.fields)) /\ line[1] # NoWord
    BY <1>4, <2>2, LineVals DEF RowReads, HasWords
  <2>5. /\ RowsHeld(rows, Len(frame.table.fields))
        /\ Content(rows) = Put(content, line[1], ValsIn(line, count))
    BY <1>4, <2>3, <2>4, InsertHeld DEF TableHeld
  <2> DEFINE t == [frame.table EXCEPT !.rows = rows]
  <2>6. TableHeld(t)
    BY <2>1, <2>3, <2>5, OtherRowsHeld
  <2>7. t = [name |-> frame.table.name, fields |-> frame.table.fields, rows |-> rows]
    BY <2>1 DEF Sound
  <2>8. frame' = [file |-> frame.file, name |-> frame.name, line |-> frame.line + 1, table |-> t]
    BY <1>4, <2>1
  <2>9. line[1] \notin DOMAIN content
    BY <1>4 DEF Content, Has
  <2> HIDE DEF t, rows
  <2>10. t.name = NameIn(text) /\ t.fields = FieldsIn(text) /\ t.rows = rows
    BY <2>3, <2>7
  <2> HIDE DEF content
  <2> DEFINE doneNow == 3..frame.line
             now == Content(t.rows)
  <2>11. doneNow = done \cup {frame.line} /\ frame.line \notin done
    BY <2>2
  <2>12. now = Put(content, line[1], ValsIn(line, count))
    BY <2>5, <2>10
  <2>13. /\ DOMAIN now = DOMAIN content \cup {line[1]}
         /\ now[line[1]] = ValsIn(line, count)
         /\ \A k \in DOMAIN content : k # line[1] => now[k] = content[k]
    BY <2>12 DEF Put
  <2> HIDE DEF done, doneNow, now
  <2>14. /\ \A l \in doneNow : ~BodyEnds(text, l) /\ RowReads(text[l], count)
         /\ \A l, m \in doneNow : text[l][1] = text[m][1] => l = m
    BY <1>1, <1>4, <2>3, <2>9, <2>11
  <2> HIDE DEF text, count
  <2>15. DOMAIN now = {text[l][1] : l \in doneNow}
    BY <2>3, <2>11, <2>13
  <2>16. \A l \in doneNow : now[text[l][1]] = ValsIn(text[l], count)
    <3>1. ASSUME NEW l \in done PROVE now[text[l][1]] = ValsIn(text[l], count)
      <4>1. text[l][1] \in DOMAIN content /\ text[l][1] # line[1]
        BY <2>3, <2>9
      <4> QED BY <2>3, <2>13, <4>1
    <3> QED BY <2>11, <2>13, <3>1
  <2>17. ReadUpTo(text, t, frame.line + 1)
    <3> DEFINE next == frame.line + 1
    <3>2. 3..next-1 = doneNow
      BY <2>2 DEF doneNow
    <3> HIDE DEF next
    <3>3. ReadUpTo(text, t, next)
      BY <2>3, <2>10, <2>14, <2>15, <2>16, <3>2, Zenon DEF ReadUpTo, now, count
    <3> QED BY <3>3 DEF next
  <2>18. Reading'
    <3>1. frame'.file = frame.file /\ frame'.line = frame.line + 1 /\ frame'.table = t
      BY <2>8
    <3>2. t.name = frame.table.name
      BY <2>3, <2>10
    <3> QED BY <1>1, <2>3, <2>6, <2>17, <3>1, <3>2 DEF Reading, text
  <2> QED BY <1>2, <2>18 DEF Held
<1> QED BY <1>3, <1>4 DEF LoadRow

LEMMA HeldRegister ==
  ASSUME Held, NEW t, TableHeld(t), NEW kind, NEW value, Register(t, kind, value)
  PROVE  Held'
<1>1. main' # "loading"
  BY DEF Register, Fail, Return
<1>2. \A n \in DOMAIN tables : TableHeld(tables[n])
  BY DEF Held
<1>3. CASE UNCHANGED tables
  BY <1>1, <1>2, <1>3, HeldReady
<1>4. CASE tables' = Put(tables, t.name, t)
  <2>1. /\ DOMAIN tables' = DOMAIN tables \cup {t.name} /\ tables'[t.name] = t
        /\ \A m \in DOMAIN tables \ {t.name} : tables'[m] = tables[m]
    BY <1>4, PutTables
  <2>2. ASSUME NEW n \in DOMAIN tables' PROVE TableHeld(tables'[n])
    <3>1. CASE n = t.name
      BY <2>1, <3>1
    <3>2. CASE n # t.name
      <4>1. n \in DOMAIN tables /\ tables'[n] = tables[n]
        BY <2>1, <3>2
      <4> QED BY <1>2, <4>1
    <3> QED BY <3>1, <3>2
  <2> QED BY <1>1, <2>2, HeldReady
<1> QED BY <1>3, <1>4 DEF Register

LEMMA HeldRows ==
  ASSUME IInv, Held, main' # "loading", NEW n \in DOMAIN tables, NEW rows,
         RowsHeld(rows, Len(tables[n].fields)), tables' = [tables EXCEPT ![n].rows = rows]
  PROVE  Held'
<1>1. Sound(tables[n]) /\ \A m \in DOMAIN tables : TableHeld(tables[m])
  BY DEF IInv, TablesSound, Held
<1>2. /\ DOMAIN tables' = DOMAIN tables
      /\ tables'[n] = [name |-> tables[n].name, fields |-> tables[n].fields, rows |-> rows]
      /\ \A m \in DOMAIN tables \ {n} : tables'[m] = tables[m]
  BY <1>1, TablesAfter
<1>3. tables'[n].fields = tables[n].fields /\ tables'[n].rows = rows
  BY <1>2
<1>4. TableHeld(tables'[n])
  BY <1>1, <1>3 DEF TableHeld
<1>5. \A m \in DOMAIN tables' : TableHeld(tables'[m])
  BY <1>1, <1>2, <1>4
<1> QED BY <1>5, HeldReady

LEMMA HeldInsert ==
  ASSUME IInv, Held, NEW n \in Names, NEW k \in Keys, NEW vals \in Tuples, Insert(n, k, vals)
  PROVE  Held'
<1>1. main' # "loading"
  BY DEF Insert, Fail, Return
<1>2. CASE UNCHANGED tables
  BY <1>1, <1>2, HeldReady DEF Held
<1>3. CASE /\ Has(tables, n) /\ ~Has(tables[n].rows.keyMap, k)
           /\ tables' = [tables EXCEPT ![n].rows = InsertByIndex(@, k, vals)]
  <2> DEFINE rows == InsertByIndex(tables[n].rows, k, vals)
  <2>1. n \in DOMAIN tables /\ vals \in Vals(Len(tables[n].fields))
    BY <1>3, TuplesAssumption DEF Has, Vals
  <2>2. RowsHeld(rows, Len(tables[n].fields))
    BY <1>3, <2>1, InsertHeld, WordsAssumption DEF Held, TableHeld
  <2>3. tables' = [tables EXCEPT ![n].rows = rows]
    BY <1>3
  <2> HIDE DEF rows
  <2> QED BY <1>1, <2>1, <2>2, <2>3, HeldRows
<1> QED BY <1>2, <1>3 DEF Insert

LEMMA HeldDelete ==
  ASSUME IInv, Held, NEW n \in Names, NEW k \in Keys, Delete(n, k)
  PROVE  Held'
<1> DEFINE rows == DeleteByIndex(tables[n].rows, k)
<1>1. /\ main' # "loading" /\ n \in DOMAIN tables /\ Has(tables[n].rows.keyMap, k)
      /\ tables' = [tables EXCEPT ![n].rows = rows]
  BY DEF Delete, Return, Has
<1>2. RowsHeld(rows, Len(tables[n].fields))
  BY <1>1, DeleteHeld DEF Held, TableHeld
<1> HIDE DEF rows
<1> QED BY <1>1, <1>2, HeldRows

LEMMA HeldStep == ASSUME IInv, Held, [Next]_vars PROVE Held'
<1>1. CASE UNCHANGED vars
  BY <1>1 DEF vars, Held, Reading
<1>2. ASSUME UNCHANGED tables, main' # "loading" PROVE Held'
  BY <1>2, HeldReady DEF Held
<1>3. CASE EndLoad
  <2>1. main = "loading" /\ Register(frame.table, "success", frame.name)
    BY <1>3 DEF EndLoad
  <2>2. TableHeld(frame.table)
    BY <2>1 DEF Held, Reading
  <2> QED BY <2>1, <2>2, HeldRegister
<1>4. ASSUME NEW n \in Names, NEW f \in Files, StartDump(n, f) PROVE Held'
  BY <1>2, <1>4 DEF StartDump, Fail, Return
<1>5. CASE EndDump
  BY <1>2, <1>5 DEF EndDump, Return
<1>6. ASSUME NEW n \in Names, Drop(n) PROVE Held'
  <2>1. main' # "loading"
    BY <1>6 DEF Drop, Fail, Return
  <2>2. \A m \in DOMAIN tables' : TableHeld(tables'[m])
    BY <1>6 DEF Drop, Erase, Held
  <2> QED BY <2>1, <2>2, HeldReady
<1>7. ASSUME NEW n \in Names, Truncate(n) PROVE Held'
  <2>1. main' # "loading"
    BY <1>7 DEF Truncate, Fail, Return
  <2> QED BY <1>2, <1>7, <2>1, EmptyHeld, HeldRows DEF Truncate, Has
<1>8. ASSUME NEW n \in Names, NEW new \in Names, CopyTable(n, new) PROVE Held'
  <2>1. CASE Has(tables, n) /\ Register(Copied(n, new), "null", "")
    <3>1. TableHeld(Copied(n, new))
      BY <2>1, OtherNameHeld DEF Copied, Held, IInv, TablesSound, Has
    <3> QED BY <2>1, <3>1, HeldRegister
  <2>2. CASE Fail /\ UNCHANGED tables
    BY <1>2, <2>2 DEF Fail, Return
  <2> QED BY <1>8, <2>1, <2>2 DEF CopyTable
<1>9. CASE List \/ \E n \in Names : ShowTable(n)
  BY <1>2, <1>9 DEF List, ShowTable, Fail, Return
<1>10. CASE Quit \/ Killed
  <2>1. main' # "loading" /\ DOMAIN tables' = {}
    BY <1>10 DEF Quit, Killed, Restart, NoTables
  <2> QED BY <2>1, HeldReady
<1> QED BY <1>1, <1>3, <1>4, <1>5, <1>6, <1>7, <1>8, <1>9, <1>10,
           HeldStartLoad, HeldLoadRow, HeldInsert, HeldDelete DEF Next

LEMMA HeldHolds == Spec => []Held
BY HeldInit, HeldStep, InvariantHolds, PTL DEF Spec

\* The key and the values at a position of a table.
LEMMA ValsAt ==
  ASSUME NEW t, TableHeld(t), NEW p \in 1..Size(t.rows)
  PROVE  t.rows.data[p].vals \in Vals(Len(t.fields)) /\ t.rows.data[p].key # NoWord
<1>1. PICK K : NoWord \notin K /\ Exact(t.rows, K, Vals(Len(t.fields)))
  BY Zenon DEF TableHeld, RowsHeld
<1>2. t.rows.data[p] \in Rows(K, Vals(Len(t.fields)))
  BY <1>1 DEF Exact, IsStored, Size
<1> QED BY <1>1, <1>2 DEF Rows

(***************************************************************************)
(* LOAD, COPYTABLE and the deletion of a row give no row more or fewer     *)
(* values than its table has fields, for files and tables of any size.     *)
(***************************************************************************)
THEOREM RowsAlwaysFit == Spec => []RowsFitFields
<1>1. Held => RowsFitFields
  <2> SUFFICES ASSUME Held, NEW n \in DOMAIN tables, NEW p \in 1..Size(tables[n].rows)
               PROVE  tables[n].rows.data[p].vals \in Vals(Len(tables[n].fields))
    BY DEF RowsFitFields, Vals
  <2>1. TableHeld(tables[n])
    BY DEF Held
  <2> QED BY <2>1, ValsAt
<1> QED BY <1>1, HeldHolds, PTL

-----------------------------------------------------------------------------
(* Archive.  What LOAD makes of a text line by line is what the text as a  *)
(* whole says, and what DUMP prints says what the table holds.             *)

IsLines(text) == Len(text) \in Nat /\ DOMAIN text = 1..Len(text)

\* The lines from the third up to this one are rows.
LEMMA BodyOf ==
  ASSUME NEW text, NEW line \in Nat, line >= 3, \A l \in 3..line-1 : ~BodyEnds(text, l),
         IsLines(text)
  PROVE  /\ 3..line-1 \subseteq Body(text)
         /\ BodyEnds(text, line) => Body(text) = 3..line-1
         /\ ~BodyEnds(text, line) => line \in Body(text)
<1>1. \A l \in 3..line-1 : l <= Len(text)
  BY DEF BodyEnds, IsLines
<1>2. 3..line-1 \subseteq Body(text)
  BY <1>1 DEF Body
<1>3. ASSUME BodyEnds(text, line), NEW l \in Body(text) PROVE l \in 3..line-1
  <2>1. l \in Nat /\ l >= 3 /\ \A m \in 3..l : ~BodyEnds(text, m)
    BY DEF Body
  <2> QED BY <1>3, <2>1
<1>4. ASSUME ~BodyEnds(text, line) PROVE line \in Body(text)
  <2>1. line <= Len(text)
    BY <1>4 DEF BodyEnds, IsLines
  <2>2. \A m \in 3..line : ~BodyEnds(text, m)
    BY <1>4
  <2> QED BY <2>1, <2>2 DEF Body
<1> QED BY <1>2, <1>3, <1>4

LEMMA ReadWhole ==
  ASSUME NEW text, IsLines(text), NEW t, NEW line \in Nat, line >= 3,
         ReadUpTo(text, t, line), BodyEnds(text, line)
  PROVE  /\ Loadable(text)
         /\ Loaded(text) = [name |-> t.name, fields |-> t.fields, rows |-> Content(t.rows)]
<1> DEFINE count == CountIn(text)
           content == Content(t.rows)
           done == 3..line-1
<1>1. /\ MetadataReads(text) /\ FieldsRead(text)
      /\ t.name = NameIn(text) /\ t.fields = FieldsIn(text)
      /\ \A l \in done : ~BodyEnds(text, l) /\ RowReads(text[l], count)
      /\ \A l, m \in done : text[l][1] = text[m][1] => l = m
      /\ DOMAIN content = {text[l][1] : l \in done}
      /\ \A l \in done : content[text[l][1]] = ValsIn(text[l], count)
  BY DEF ReadUpTo
<1>2. Body(text) = done
  BY <1>1, BodyOf
<1>3. Loadable(text)
  BY <1>1, <1>2 DEF Loadable
<1>4. content = [k \in DOMAIN content |-> content[k]]
  BY DEF Content
<1> DEFINE body == Body(text)
<1> HIDE DEF content, count
<1>5. ASSUME NEW k \in DOMAIN content
      PROVE  content[k] = ValsIn(text[CHOOSE l \in body : text[l][1] = k], count)
  <2>1. PICK l \in body : text[l][1] = k
    BY <1>1, <1>2
  <2>2. (CHOOSE m \in body : text[m][1] = k) = l
    BY <1>1, <1>2, <2>1
  <2> QED BY <1>1, <1>2, <2>1, <2>2
<1>6. content = [k \in {text[l][1] : l \in body} |->
                   ValsIn(text[CHOOSE l \in body : text[l][1] = k], count)]
  BY <1>1, <1>2, <1>4, <1>5
<1>7. Loaded(text) = [name |-> t.name, fields |-> t.fields, rows |-> content]
  BY <1>1, <1>6, Zenon DEF Loaded, count, body
<1> QED BY <1>3, <1>7 DEF content

LEMMA ReadInVain ==
  ASSUME NEW text, IsLines(text), NEW t, NEW line \in Nat, line >= 3,
         ReadUpTo(text, t, line), ~BodyEnds(text, line),
         ~RowReads(text[line], CountIn(text)) \/ Has(t.rows.keyMap, text[line][1])
  PROVE  ~Loadable(text)
<1>1. /\ \A l \in 3..line-1 : ~BodyEnds(text, l)
      /\ DOMAIN Content(t.rows) = {text[l][1] : l \in 3..line-1}
  BY DEF ReadUpTo
<1>2. 3..line-1 \subseteq Body(text) /\ line \in Body(text)
  BY <1>1, BodyOf
<1>3. CASE ~RowReads(text[line], CountIn(text))
  BY <1>2, <1>3 DEF Loadable
<1>4. CASE Has(t.rows.keyMap, text[line][1])
  <2>1. PICK l \in 3..line-1 : text[l][1] = text[line][1]
    BY <1>1, <1>4 DEF Content, Has
  <2>2. l # line /\ l \in Body(text)
    BY <1>2
  <2> QED BY <1>2, <2>1, <2>2 DEF Loadable
<1> QED BY <1>3, <1>4

LEMMA SeqIsFunction == ASSUME NEW S, NEW v \in Seq(S) PROVE v \in [1..Len(v) -> S]
OBVIOUS

\* A row with a value for every field is printed as it is.
LEMMA RowPrinted ==
  ASSUME NEW t, Sound(t), TableHeld(t), Fits(Kept(t)), NEW memory,
         NEW p \in 1..Size(t.rows)
  PROVE  LET row == t.rows.data[p]
         IN /\ row.key \in DOMAIN t.rows.keyMap /\ t.rows.keyMap[row.key] = p
            /\ row.key # NoWord
            /\ Content(t.rows)[row.key] = row.vals
            /\ row.vals \in Seq(IntMin..IntMax) /\ Len(row.vals) = Len(t.fields)
            /\ Written(t, memory)[p+2] = RowLine(row.key, row.vals)
<1> DEFINE row == t.rows.data[p]
           n == Len(t.fields)
           shown == Shown(row, n, memory[p])
<1>1. n \in Nat /\ Size(t.rows) \in Nat
  BY SizeIsNat DEF Sound
<1>2. KeyMapExact(t.rows)
  BY DEF Sound, HasRows, Exact
<1>3. row.key \in DOMAIN t.rows.keyMap /\ t.rows.keyMap[row.key] = p
  BY <1>2 DEF KeyMapExact, Has
<1>4. Content(t.rows)[row.key] = row.vals
  BY <1>3 DEF Content
<1>5. row.key \in DOMAIN Content(t.rows)
  BY <1>3 DEF Content
<1>6. Len(row.vals) = n
  BY <1>4, <1>5 DEF Fits, Kept
<1>7. row.vals \in Seq(IntMin..IntMax) /\ row.key # NoWord
  BY ValsAt DEF Vals
<1>8. shown = row.vals
  <2> HIDE DEF row, n
  <2>1. row.vals \in [1..n -> IntMin..IntMax]
    BY <1>6, <1>7, SeqIsFunction, Zenon
  <2> QED BY <2>1 DEF Shown
<1>9. Written(t, memory)[p+2] = RowLine(row.key, shown)
  <2> DEFINE l == p + 2
  <2>1. l \in 1..Size(t.rows)+2 /\ l # 1 /\ l # 2 /\ l - 2 = p
    BY <1>1
  <2> HIDE DEF l
  <2>2. Written(t, memory)[l] =
          RowLine(t.rows.data[l-2].key, Shown(t.rows.data[l-2], n, memory[l-2]))
    BY <2>1, Zenon DEF Written
  <2> QED BY <2>1, <2>2 DEF l
<1> QED BY <1>3, <1>4, <1>6, <1>7, <1>8, <1>9

\* The lines of the text.
LEMMA WrittenLines ==
  ASSUME NEW t, Sound(t), TableHeld(t), Fits(Kept(t)), NEW memory
  PROVE  LET text == Written(t, memory)
             size == Size(t.rows)
         IN /\ size \in Nat /\ Len(text) = size + 2 /\ DOMAIN text = 1..size+2
            /\ text[1] = <<t.name, Len(t.fields) + 1>> /\ text[2] = HeadLine(t.fields)
            /\ MetadataReads(text)
            /\ NameIn(text) = t.name /\ CountIn(text) = Len(t.fields) + 1
            /\ \A l \in 3..size+2 : ~BodyEnds(text, l)
            /\ BodyEnds(text, size + 3)
<1> DEFINE n == Size(t.rows) + 2
           text == Written(t, memory)
<1>1. Size(t.rows) \in Nat /\ n \in Nat /\ 1 \in 1..n /\ 2 \in 1..n
  BY SizeIsNat DEF Sound
<1>2. DOMAIN text = 1..n /\ text = [l \in 1..n |-> text[l]]
  BY Zenon DEF Written
<1>3. text[1] = <<t.name, Len(t.fields) + 1>> /\ text[2] = HeadLine(t.fields)
  <2>1. 2 # 1
    OBVIOUS
  <2> QED BY <1>1, <2>1, Zenon DEF Written
<1>4. ASSUME NEW l \in 3..n PROVE text[l] # <<>>
  <2> DEFINE p == l - 2
             row == t.rows.data[p]
  <2>1. p \in 1..Size(t.rows) /\ p + 2 = l
    BY <1>1
  <2>2. Len(row.vals) \in Nat /\ text[l] = RowLine(row.key, row.vals)
    BY <2>1, RowPrinted DEF Sound
  <2> HIDE DEF text, row
  <2>3. DOMAIN RowLine(row.key, row.vals) # {}
    <3>1. 1 \in 1..Len(row.vals)+1
      BY <2>2
    <3>2. CASE \E i \in DOMAIN row.vals : RunsOn(row.vals, i)
      BY <3>2 DEF RowLine
    <3>3. CASE ~\E i \in DOMAIN row.vals : RunsOn(row.vals, i)
      BY <3>1, <3>3 DEF RowLine
    <3> QED BY <3>2, <3>3
  <2> QED BY <2>2, <2>3
<1> HIDE DEF text
<1>5. Len(text) = n
  BY <1>1, <1>2
<1>6. MetadataReads(text) /\ NameIn(text) = t.name /\ CountIn(text) = Len(t.fields) + 1
  BY <1>1, <1>3, <1>5 DEF MetadataReads, NameIn, CountIn
<1>7. /\ \A l \in 3..n : ~BodyEnds(text, l)
      /\ BodyEnds(text, n + 1)
  BY <1>1, <1>2, <1>4 DEF BodyEnds
<1> QED BY <1>1, <1>2, <1>3, <1>5, <1>6, <1>7 DEF text

\* A line with a row on it that is printed as it is.
LEMMA PlainLine ==
  ASSUME NEW key, key # NoWord, NEW vals \in Seq(IntMin..IntMax),
         \A i \in DOMAIN vals : ~RunsOn(vals, i)
  PROVE  LET line == RowLine(key, vals)
             count == Len(vals) + 1
         IN line[1] = key /\ RowReads(line, count) /\ ValsIn(line, count) = vals
<1> DEFINE n == Len(vals)
           line == RowLine(key, vals)
           count == n + 1
<1>1. n \in Nat /\ vals \in [1..n -> IntMin..IntMax]
  BY SeqIsFunction, Zenon, LenProperties
<1>2. line = [i \in 1..n+1 |-> IF i = 1 THEN key ELSE vals[i-1]]
  BY DEF RowLine
<1> HIDE DEF line, n
<1>3. line[1] = key /\ Len(line) = n + 1
  BY <1>1, <1>2
<1>4. ASSUME NEW i \in 2..n+1 PROVE line[i] \in IntMin..IntMax
  <2>1. i - 1 \in 1..n /\ line[i] = vals[i-1]
    BY <1>1, <1>2
  <2> QED BY <1>1, <2>1
<1>5. ASSUME NEW i \in 1..n PROVE line[i+1] = vals[i]
  <2> DEFINE j == i + 1
  <2>1. j \in 1..n+1 /\ j # 1 /\ j - 1 = i
    BY <1>1
  <2> HIDE DEF j
  <2>2. line[j] = vals[j-1]
    BY <1>2, <2>1
  <2> QED BY <2>1, <2>2 DEF j
<1>6. RowReads(line, count)
  <2>1. HasWords(line)
    <3>1. line # <<>>
      BY <1>1, <1>3
    <3> QED BY <1>3, <3>1, Zenon DEF HasWords
  <2> QED BY <1>3, <1>4, <2>1 DEF RowReads
<1>7. ValsIn(line, count) = vals
  <2>1. count - 1 = n
    BY <1>1
  <2>2. vals = [i \in 1..n |-> vals[i]]
    BY <1>1
  <2> HIDE DEF count
  <2>3. ValsIn(line, count) = [i \in 1..n |-> line[i+1]]
    BY <2>1, Zenon DEF ValsIn
  <2> QED BY <1>5, <2>2, <2>3
<1> QED BY <1>3, <1>6, <1>7 DEF line, n

\* The header of a table whose names of fields are short.
LEMMA PlainHead ==
  ASSUME NEW fields, Len(fields) \in Nat, fields = [i \in 1..Len(fields) |-> fields[i]],
         \A i \in DOMAIN fields : fields[i] # "KEY" /\ fields[i] \notin LongFields
  PROVE  LET line == HeadLine(fields)
             count == Len(fields) + 1
         IN /\ Len(line) = count /\ line[1] = "KEY"
            /\ \A i \in 2..count : line[i] # "KEY"
            /\ fields = [i \in 1..count-1 |-> line[i+1]]
<1> DEFINE n == Len(fields)
           line == HeadLine(fields)
           count == n + 1
<1>1. n \in Nat /\ DOMAIN fields = 1..n
  OBVIOUS
<1>2. line = [i \in 1..n+1 |-> IF i = 1 THEN "KEY" ELSE fields[i-1]]
  BY DEF HeadLine
<1> HIDE DEF line, n
<1>3. line[1] = "KEY" /\ Len(line) = n + 1
  BY <1>1, <1>2
<1>4. ASSUME NEW i \in 2..n+1 PROVE line[i] # "KEY"
  <2>1. i - 1 \in 1..n /\ line[i] = fields[i-1]
    BY <1>1, <1>2
  <2> QED BY <1>1, <2>1
<1>5. ASSUME NEW i \in 1..n PROVE line[i+1] = fields[i]
  <2> DEFINE j == i + 1
  <2>1. j \in 1..n+1 /\ j # 1 /\ j - 1 = i
    BY <1>1
  <2> HIDE DEF j
  <2>2. line[j] = fields[j-1]
    BY <1>2, <2>1
  <2> QED BY <2>1, <2>2 DEF j
<1>6. count - 1 = n
  BY <1>1
<1>7. fields = [i \in 1..n |-> line[i+1]]
  <2>1. fields = [i \in 1..n |-> fields[i]]
    BY DEF n
  <2> QED BY <1>5, <2>1
<1>8. fields = [i \in 1..count-1 |-> line[i+1]]
  BY <1>6, <1>7
<1> QED BY <1>3, <1>4, <1>8 DEF line, n

LEMMA ReadsBack ==
  ASSUME NEW t, Sound(t), TableHeld(t), Fits(Kept(t)), Printable(Kept(t)), NEW memory
  PROVE  /\ Loadable(Written(t, memory))
         /\ Loaded(Written(t, memory)) =
              [name |-> t.name, fields |-> t.fields, rows |-> Content(t.rows)]
<1> DEFINE text == Written(t, memory)
           size == Size(t.rows)
           data == t.rows.data
           count == Len(t.fields) + 1
           content == Content(t.rows)
           done == 3..size+2
<1>1. /\ size \in Nat /\ Len(text) = size + 2 /\ DOMAIN text = 1..size+2
      /\ text[1] = <<t.name, Len(t.fields) + 1>> /\ text[2] = HeadLine(t.fields)
      /\ MetadataReads(text) /\ NameIn(text) = t.name /\ CountIn(text) = count
      /\ \A l \in done : ~BodyEnds(text, l)
      /\ BodyEnds(text, size + 3)
  BY WrittenLines
<1>2. /\ count \in Nat \ {0} /\ KeyMapExact(t.rows)
      /\ t.fields = [i \in 1..Len(t.fields) |-> t.fields[i]]
      /\ \A i \in DOMAIN t.fields : t.fields[i] # "KEY" /\ t.fields[i] \notin LongFields
  BY DEF Sound, HasRows, Exact, TableHeld, Printable, Kept
<1>3. /\ Len(text[2]) = count /\ text[2][1] = "KEY"
      /\ \A i \in 2..count : text[2][i] # "KEY"
      /\ t.fields = [i \in 1..count-1 |-> text[2][i+1]]
  BY <1>1, <1>2, PlainHead DEF Sound
<1>4. FieldsRead(text)
  <2> HIDE DEF text, count
  <2> QED BY <1>1, <1>2, <1>3 DEF FieldsRead
<1>5. FieldsIn(text) = t.fields
  <2> HIDE DEF text, count
  <2> QED BY <1>1, <1>3, Zenon DEF FieldsIn
<1>5a. ASSUME NEW p \in 1..Size(t.rows)
      PROVE  Written(t, memory)[p+2] = RowLine(t.rows.data[p].key, t.rows.data[p].vals)
  BY RowPrinted
<1>6. ASSUME NEW p \in 1..size
      PROVE  /\ data[p].key \in DOMAIN t.rows.keyMap /\ t.rows.keyMap[data[p].key] = p
             /\ text[p+2][1] = data[p].key
             /\ RowReads(text[p+2], count)
             /\ content[data[p].key] = ValsIn(text[p+2], count)
  <2> DEFINE row == data[p]
  <2>1. /\ row.key \in DOMAIN t.rows.keyMap /\ t.rows.keyMap[row.key] = p
        /\ row.key # NoWord
        /\ content[row.key] = row.vals
        /\ row.vals \in Seq(IntMin..IntMax) /\ Len(row.vals) = Len(t.fields)
    BY RowPrinted
  <2>4. text[p+2] = RowLine(row.key, row.vals)
    BY <1>5a
  <2>2. \A i \in DOMAIN row.vals : ~RunsOn(row.vals, i)
    BY <2>1 DEF Printable, Kept, Content
  <2> HIDE DEF row, text, content
  <2>3. /\ RowLine(row.key, row.vals)[1] = row.key
        /\ RowReads(RowLine(row.key, row.vals), Len(row.vals) + 1)
        /\ ValsIn(RowLine(row.key, row.vals), Len(row.vals) + 1) = row.vals
    BY <2>1, <2>2, PlainLine
  <2>5. text[p+2][1] = row.key /\ RowReads(text[p+2], count)
        /\ content[row.key] = ValsIn(text[p+2], count)
    BY <2>1, <2>3, <2>4
  <2> QED BY <2>1, <2>5 DEF row
<1> HIDE DEF text, data, count, content
<1>7. ASSUME NEW l \in done
      PROVE  /\ l - 2 \in 1..size /\ text[l][1] = data[l-2].key
             /\ data[l-2].key \in DOMAIN t.rows.keyMap /\ t.rows.keyMap[data[l-2].key] = l - 2
             /\ RowReads(text[l], count)
             /\ content[text[l][1]] = ValsIn(text[l], count)
  <2> DEFINE p == l - 2
  <2>1. p \in 1..size /\ p + 2 = l
    BY <1>1
  <2> HIDE DEF p
  <2> QED BY <1>6, <2>1 DEF p
<1>8. ASSUME NEW l \in done, NEW m \in done, text[l][1] = text[m][1] PROVE l = m
  <2>1. data[l-2].key = data[m-2].key
    BY <1>7, <1>8
  <2>2. t.rows.keyMap[data[l-2].key] = l - 2 /\ t.rows.keyMap[data[m-2].key] = m - 2
    BY <1>7
  <2>3. l - 2 = m - 2
    BY <2>1, <2>2
  <2>4. l \in Int /\ m \in Int
    BY <1>1
  <2> QED BY <2>3, <2>4
<1>9. DOMAIN content = {text[l][1] : l \in done}
  <2>1. DOMAIN content = DOMAIN t.rows.keyMap
    BY DEF content, Content
  <2>2. ASSUME NEW k \in DOMAIN t.rows.keyMap
        PROVE  \E l \in done : text[l][1] = k
    <3> DEFINE p == t.rows.keyMap[k]
               l == p + 2
    <3>1. p \in 1..size /\ data[p].key = k
      BY <1>2 DEF KeyMapExact, data
    <3>2. l \in done
      BY <1>1, <3>1
    <3>3. text[l][1] = k
      BY <1>6, <3>1
    <3> QED BY <3>2, <3>3
  <2>3. ASSUME NEW l \in done PROVE text[l][1] \in DOMAIN t.rows.keyMap
    BY <1>7
  <2> QED BY <2>1, <2>2, <2>3
<1>10. ReadUpTo(text, t, size + 3)
  <2> DEFINE line == size + 3
  <2>1. 3..line-1 = done
    BY <1>1
  <2> HIDE DEF line, done
  <2>2. ReadUpTo(text, t, line)
    BY <1>1, <1>4, <1>5, <1>7, <1>8, <1>9, <2>1, Zenon DEF ReadUpTo, content
  <2> QED BY <2>2 DEF line
<1>11. IsLines(text)
  BY <1>1 DEF IsLines
<1> QED BY <1>1, <1>10, <1>11, ReadWhole DEF text, content

LEMMA DoesNotReadBack ==
  ASSUME NEW t, Sound(t), TableHeld(t), Fits(Kept(t)), ~Printable(Kept(t)), NEW memory
  PROVE  ~Loadable(Written(t, memory))
<1> DEFINE text == Written(t, memory)
           size == Size(t.rows)
<1>1. /\ size \in Nat /\ Len(text) = size + 2 /\ DOMAIN text = 1..size+2
      /\ text[2] = HeadLine(t.fields)
      /\ CountIn(text) = Len(t.fields) + 1
      /\ \A l \in 3..size+2 : ~BodyEnds(text, l)
  BY WrittenLines
<1>2. Len(t.fields) \in Nat /\ DOMAIN t.fields = 1..Len(t.fields) /\ KeyMapExact(t.rows)
  BY DEF Sound, HasRows, Exact, TableHeld
<1>2a. ASSUME NEW p \in 1..Size(t.rows)
      PROVE  Written(t, memory)[p+2] = RowLine(t.rows.data[p].key, t.rows.data[p].vals)
  BY RowPrinted
<1>3. CASE \E i \in DOMAIN t.fields : t.fields[i] \in LongFields
  <2>1. text[2] = <<"KEY">> /\ Len(t.fields) >= 1
    BY <1>1, <1>2, <1>3 DEF HeadLine
  <2> HIDE DEF text
  <2>2. ~FieldsRead(text)
    BY <1>1, <1>2, <2>1 DEF FieldsRead
  <2> QED BY <2>2 DEF Loadable, text
<1>4. CASE \E k \in DOMAIN Content(t.rows) :
             \E i \in DOMAIN Content(t.rows)[k] : RunsOn(Content(t.rows)[k], i)
  <2>1. PICK k \in DOMAIN Content(t.rows) :
               \E i \in DOMAIN Content(t.rows)[k] : RunsOn(Content(t.rows)[k], i)
    BY <1>4
  <2> DEFINE p == t.rows.keyMap[k]
             vals == t.rows.data[p].vals
             l == p + 2
  <2>2. p \in 1..size /\ Content(t.rows)[k] = vals
    BY <1>2 DEF Content, KeyMapExact
  <2>3. /\ vals \in Seq(IntMin..IntMax) /\ Len(vals) = Len(t.fields)
        /\ text[l] = RowLine(t.rows.data[p].key, vals)
    <3>1. p \in 1..Size(t.rows)
      BY <2>2
    <3>2. vals \in Seq(IntMin..IntMax) /\ Len(vals) = Len(t.fields)
      BY <3>1, RowPrinted
    <3>3. text[l] = RowLine(t.rows.data[p].key, vals)
      BY <1>2a, <3>1
    <3> QED BY <3>2, <3>3
  <2> HIDE DEF p, text, vals
  <2>4. \E i \in DOMAIN vals : RunsOn(vals, i)
    BY <2>1, <2>2
  <2>5. Len(text[l]) = 1 /\ Len(vals) >= 1
    BY <2>3, <2>4 DEF RowLine
  <2>6. ~RowReads(text[l], CountIn(text))
    BY <1>1, <1>2, <2>3, <2>5 DEF RowReads
  <2>7. l \in Body(text)
    BY <1>1, <2>2 DEF Body
  <2> QED BY <2>6, <2>7 DEF Loadable, text
<1> QED BY <1>3, <1>4 DEF Printable, Kept

-----------------------------------------------------------------------------
(* The call and the answer.  Of LOAD and DUMP the one is there and the     *)
(* other not yet, as long as they go on.                                   *)

Calling ==
  /\ main = "ready" => (result = NoResult => call = NoCall)
  /\ main = "loading" => result = NoResult /\ call = <<"LOAD", frame.file>>
  /\ main = "writing" => result = NoResult /\ call = <<"DUMP", frame.name, frame.file>>

\* What a query answers is an answer.
LEMMA Answered ==
  ASSUME NEW kind, NEW value, kind # "none", Return(kind, value)
  PROVE  main' = "ready" /\ result' # NoResult
<1>1. <<kind, value>>[1] # NoResult[1]
  BY DEF NoResult
<1> QED BY <1>1 DEF Return

LEMMA FailureAnswered == Fail => main' = "ready" /\ result' # NoResult
BY Answered DEF Fail

LEMMA RegisterAnswered ==
  ASSUME NEW t, NEW kind, NEW value, kind # "none", Register(t, kind, value)
  PROVE  main' = "ready" /\ result' # NoResult
BY Answered, FailureAnswered DEF Register

LEMMA CallingStep == ASSUME IInv, Calling, [Next]_vars PROVE Calling'
<1>1. CASE UNCHANGED vars
  BY <1>1 DEF vars, Calling
<1>2. ASSUME main' = "ready", result' # NoResult PROVE Calling'
  BY <1>2 DEF Calling, NoResult
<1>3. ASSUME NEW f \in Files, StartLoad(f) PROVE Calling'
  <2>1. CASE Fail
    BY <1>2, <2>1, FailureAnswered
  <2>2. CASE /\ main' = "loading" /\ result' = NoResult
             /\ frame' = [file |-> f, name |-> FileTableName(f), line |-> 3,
                          table |-> [name |-> NameIn(disk[f]), fields |-> FieldsIn(disk[f]),
                                     rows |-> EmptyTable]]
    <3>1. frame'.file = f /\ call' = <<"LOAD", f>>
      BY <1>3, <2>2 DEF StartLoad
    <3> QED BY <2>2, <3>1 DEF Calling, NoResult
  <2> QED BY <1>3, <2>1, <2>2 DEF StartLoad
<1>4. CASE LoadRow
  <2>1. CASE Fail
    BY <1>2, <2>1, FailureAnswered
  <2>2. CASE UNCHANGED <<main, result>> /\ frame'.file = frame.file
    BY <1>4, <2>2 DEF Calling, LoadRow
  <2>3. ASSUME NEW rows, frame' = [frame EXCEPT !.line = @ + 1, !.table.rows = rows]
        PROVE  frame'.file = frame.file
    BY <1>4, <2>3 DEF LoadRow, IInv, Loading
  <2> QED BY <1>4, <2>1, <2>2, <2>3 DEF LoadRow
<1>5. CASE EndLoad
  BY <1>2, <1>5, RegisterAnswered DEF EndLoad
<1>6. ASSUME NEW n \in Names, NEW f \in Files, StartDump(n, f) PROVE Calling'
  <2>1. CASE Fail
    BY <1>2, <2>1, FailureAnswered
  <2>2. CASE /\ main' = "writing" /\ result' = NoResult
             /\ frame' = [NoFrame EXCEPT !.file = f, !.name = n]
    <3>1. frame'.file = f /\ frame'.name = n /\ call' = <<"DUMP", n, f>>
      BY <1>6, <2>2 DEF StartDump, NoFrame
    <3> QED BY <2>2, <3>1 DEF Calling, NoResult
  <2> QED BY <1>6, <2>1, <2>2 DEF StartDump
<1>7. CASE EndDump
  BY <1>2, <1>7, Answered DEF EndDump
<1>8. ASSUME NEW n \in Names, Drop(n) \/ Truncate(n) \/ ShowTable(n) PROVE Calling'
  BY <1>2, <1>8, Answered, FailureAnswered DEF Drop, Truncate, ShowTable
<1>9. ASSUME NEW n \in Names, NEW new \in Names, CopyTable(n, new) PROVE Calling'
  BY <1>2, <1>9, RegisterAnswered, FailureAnswered DEF CopyTable
<1>10. CASE List
  BY <1>2, <1>10, Answered DEF List
<1>11. ASSUME NEW n \in Names, NEW k \in Keys, Delete(n, k) PROVE Calling'
  BY <1>2, <1>11, Answered DEF Delete
<1>12. ASSUME NEW n \in Names, NEW k \in Keys, NEW vals \in Tuples, Insert(n, k, vals)
       PROVE  Calling'
  BY <1>2, <1>12, Answered, FailureAnswered DEF Insert
<1>13. CASE Quit \/ Killed
  BY <1>13 DEF Quit, Killed, Restart, Calling
<1> QED BY <1>1, <1>3, <1>4, <1>5, <1>6, <1>7, <1>8, <1>9, <1>10, <1>11, <1>12, <1>13 DEF Next

LEMMA CallingHolds == Spec => []Calling
<1>1. Init => Calling
  BY DEF Init, Calling
<1> QED BY <1>1, CallingStep, InvariantHolds, PTL DEF Spec

-----------------------------------------------------------------------------
(* The steps of Archive.                                                   *)

LEMMA StoreOf ==
  /\ DOMAIN Store = DOMAIN tables
  /\ \A n \in DOMAIN tables : Store[n] = Kept(tables[n])
  /\ Store' = [n \in DOMAIN tables' |-> Kept(tables'[n])]
BY DEF Store, Kept, Content

LEMMA SavedOf ==
  ASSUME NEW f \in Files
  PROVE  /\ Saved[f] = IF Exists(f) /\ Loadable(disk[f]) THEN {Loaded(disk[f])} ELSE {}
         /\ Saved'[f] = IF Exists(f)' /\ Loadable(disk'[f]) THEN {Loaded(disk'[f])} ELSE {}
BY DEF Saved

\* The maps of Archive are those of Table.
LEMMA SameMaps ==
  ASSUME NEW map, NEW k, NEW v
  PROVE  /\ Archived!Has(map, k) = Has(map, k)
         /\ Archived!Put(map, k, v) = Put(map, k, v)
         /\ Archived!Erase(map, k) = Erase(map, k)
BY DEF Archived!Has, Archived!Put, Archived!Erase, Has, Put, Erase

LEMMA KnownIsThere == ASSUME NEW n PROVE Archived!Known(n) = Has(tables, n)
BY StoreOf DEF Archived!Known, Archived!Has, Has

\* Queries that leave the files alone.
LEMMA DiskKept ==
  ASSUME UNCHANGED disk
  PROVE  Saved' = Saved
BY DEF Saved, Exists

LEMMA StoreKept ==
  ASSUME UNCHANGED tables
  PROVE  Store' = Store
BY DEF Store, Kept, Content

\* The queries that are asked, and the two that go on.
LEMMA Asked ==
  ASSUME Calling, main = "ready", NEW words, call' = words
  PROVE  Archived!Ask(words)
BY DEF Calling, NoResult, NoCall, Archived!Ask, Archived!Pending, Archived!NoAnswer, Archived!NoCall

LEMMA WordsOfCalls ==
  ASSUME NEW n, NEW f
  PROVE  <<"LOAD", f>> # Archived!NoCall /\ <<"DUMP", n, f>> # Archived!NoCall
<1>1. <<"LOAD", f>>[1] # Archived!NoCall[1] /\ <<"DUMP", n, f>>[1] # Archived!NoCall[1]
  BY DEF Archived!NoCall
<1> QED BY <1>1

LEMMA LoadGoes ==
  ASSUME Calling, main = "loading", UNCHANGED call
  PROVE  Archived!Go(<<"LOAD", frame.file>>)
BY WordsOfCalls DEF Calling, NoResult, Archived!Go, Archived!Pending, Archived!NoAnswer

LEMMA DumpGoes ==
  ASSUME Calling, main = "writing"
  PROVE  /\ Archived!Pending /\ call = <<"DUMP", frame.name, frame.file>>
         /\ UNCHANGED call => Archived!Go(<<"DUMP", frame.name, frame.file>>)
BY WordsOfCalls DEF Calling, NoResult, Archived!Go, Archived!Pending, Archived!NoAnswer

\* A query that fails.
LEMMA Failed ==
  ASSUME Fail, UNCHANGED <<tables, disk>>
  PROVE  Archived!Refuse
BY DiskKept, StoreKept DEF Fail, Return, Archived!Refuse, Archived!Reply

LEMMA LoadStarts ==
  ASSUME IInv, Calling, NEW f \in Files, StartLoad(f)
  PROVE  Archived!BeginLoad(f) \/ Archived!LoadNothing(f)
<1> DEFINE text == disk[f]
<1>1. UNCHANGED <<tables, disk>> /\ Archived!Ask(<<"LOAD", f>>)
  BY Asked DEF StartLoad
<1>2. CASE result' = NoResult
  BY <1>1, <1>2, DiskKept, StoreKept DEF Archived!BeginLoad, NoResult, Archived!NoAnswer
<1>3. CASE /\ ~(Exists(f) /\ MetadataReads(text) /\ ~Has(tables, NameIn(text)) /\ FieldsRead(text))
           /\ Fail
  <2>1. ASSUME NEW t \in Saved[f] PROVE Archived!Known(t.name)
    <3>1. Exists(f) /\ Loadable(text) /\ t = Loaded(text)
      BY SavedOf
    <3>2. Has(tables, NameIn(text))
      BY <1>3, <3>1 DEF Loadable
    <3>3. t.name = NameIn(text)
      BY <3>1 DEF Loaded
    <3> QED BY <3>2, <3>3, KnownIsThere
  <2>2. Archived!Refuse
    BY <1>1, <1>3, Failed
  <2> QED BY <1>1, <2>1, <2>2 DEF Archived!LoadNothing
<1> QED BY <1>2, <1>3 DEF StartLoad

LEMMA RowLoads ==
  ASSUME IInv, Held, Calling, LoadRow
  PROVE  Archived!LoadNothing(frame.file) \/ UNCHANGED Archived!archiveVars
<1> DEFINE text == disk[frame.file]
           line == text[frame.line]
<1>1. /\ main = "loading" /\ ~BodyEnds(text, frame.line) /\ UNCHANGED <<tables, disk, call>>
      /\ frame.file \in Files
  BY DEF LoadRow, IInv, Loading
<1>2. CASE UNCHANGED <<main, result>>
  BY <1>1, <1>2, DiskKept, StoreKept DEF Archived!archiveVars
<1>3. CASE ~(RowReads(line, CountIn(text)) /\ ~Has(frame.table.rows.keyMap, line[1])) /\ Fail
  <2>1. IsLines(text) /\ frame.line \in Nat /\ frame.line >= 3
    BY <1>1, LoadingText DEF IsText, IsLines
  <2>2. ReadUpTo(text, frame.table, frame.line)
    BY <1>1 DEF Held, Reading
  <2>3. ~Loadable(text)
    <3> HIDE DEF text
    <3> QED BY <1>1, <1>3, <2>1, <2>2, ReadInVain
  <2>4. Saved[frame.file] = {}
    BY <1>1, <2>3, SavedOf
  <2>5. Archived!Refuse /\ Archived!Go(<<"LOAD", frame.file>>)
    BY <1>1, <1>3, Failed, LoadGoes
  <2> QED BY <2>4, <2>5 DEF Archived!LoadNothing
<1> QED BY <1>2, <1>3 DEF LoadRow

\* A table that is registered.
LEMMA Registered ==
  ASSUME NEW n, NEW t, tables' = Put(tables, n, t)
  PROVE  Store' = Archived!Put(Store, n, Kept(t))
<1>1. /\ DOMAIN tables' = DOMAIN tables \cup {n} /\ tables'[n] = t
      /\ \A m \in DOMAIN tables \ {n} : tables'[m] = tables[m]
  BY PutTables
<1>2. Store' = [m \in DOMAIN tables \cup {n} |-> Kept(tables'[m])]
  BY <1>1, StoreOf
<1>3. ASSUME NEW m \in DOMAIN tables \cup {n}
      PROVE  Kept(tables'[m]) = IF m = n THEN Kept(t) ELSE Store[m]
  BY <1>1, StoreOf
<1>4. Archived!Put(Store, n, Kept(t)) =
        [m \in DOMAIN tables \cup {n} |-> IF m = n THEN Kept(t) ELSE Store[m]]
  BY StoreOf DEF Archived!Put
<1> QED BY <1>2, <1>3, <1>4

LEMMA LoadEnds ==
  ASSUME IInv, Held, Calling, EndLoad
  PROVE  Archived!Load(frame.file)
<1> DEFINE text == disk[frame.file]
           t == frame.table
           u == Loaded(text)
<1>1. /\ main = "loading" /\ BodyEnds(text, frame.line)
      /\ Register(t, "success", frame.name) /\ UNCHANGED <<disk, call>>
      /\ frame.file \in Files /\ Exists(frame.file)
  BY DEF EndLoad, IInv, Loading
<1>2. ReadUpTo(text, t, frame.line) /\ ~Has(tables, t.name)
  BY <1>1 DEF Held, Reading
<1>3. IsLines(text) /\ frame.line \in Nat /\ frame.line >= 3
  BY <1>1, LoadingText DEF IsText, IsLines
<1>4. /\ Loadable(text)
      /\ u = [name |-> t.name, fields |-> t.fields, rows |-> Content(t.rows)]
  <2> HIDE DEF text, t
  <2> QED BY <1>1, <1>2, <1>3, ReadWhole
<1>5. tables' = Put(tables, t.name, t) /\ result'[1] = "success"
  BY <1>1, <1>2 DEF Register, Return
<1>6. u \in Saved[frame.file]
  BY <1>1, <1>4, SavedOf
<1> HIDE DEF text, t, u
<1>7. u.name = t.name /\ Archived!Stored(u) = Kept(t)
  BY <1>4 DEF Archived!Stored, Kept
<1>8. Store' = Archived!Put(Store, u.name, Archived!Stored(u))
  BY <1>5, <1>7, Registered
<1>9. ~Archived!Known(u.name)
  BY <1>2, <1>7, KnownIsThere
<1>10. Saved' = Saved /\ Archived!Go(<<"LOAD", frame.file>>)
  BY <1>1, DiskKept, LoadGoes
<1> QED BY <1>5, <1>6, <1>8, <1>9, <1>10 DEF Archived!Load

LEMMA DumpStarts ==
  ASSUME IInv, Calling, NEW n \in Names, NEW f \in Files, StartDump(n, f)
  PROVE  Archived!DumpRefused(n, f) \/ Archived!Overwrite(n, f)
<1>1. UNCHANGED tables /\ Archived!Ask(<<"DUMP", n, f>>)
  BY Asked DEF StartDump
<1>2. CASE f \in ReadOnly /\ Fail /\ UNCHANGED disk
  BY <1>1, <1>2, Failed DEF Archived!DumpRefused
<1>3. CASE /\ f \notin ReadOnly
           /\ disk' = Put(disk, f, <<>>)
           /\ IF Has(tables, n)
              THEN /\ main' = "writing"
                   /\ frame' = [NoFrame EXCEPT !.file = f, !.name = n]
                   /\ result' = NoResult
              ELSE Fail
  <2>1. ~Loadable(<<>>)
    BY DEF Loadable, MetadataReads
  <2>2. /\ DOMAIN disk' = DOMAIN disk \cup {f}
        /\ \A g \in DOMAIN disk' : disk'[g] = IF g = f THEN <<>> ELSE disk[g]
    BY <1>3 DEF Put
  <2>3. Saved' = [Saved EXCEPT ![f] = {}]
    <3>1. Saved = [g \in Files |-> Saved[g]] /\ Saved' = [g \in Files |-> Saved'[g]]
      BY DEF Saved
    <3>2. ASSUME NEW g \in Files PROVE Saved'[g] = IF g = f THEN {} ELSE Saved[g]
      BY <2>1, <2>2, SavedOf DEF Exists
    <3> QED BY <3>1, <3>2
  <2>4. Store' = Store
    BY <1>1, StoreKept
  <2>5. IF Archived!Known(n) THEN result' = Archived!NoAnswer ELSE Archived!Reply("error", "")
    BY <1>3, KnownIsThere DEF Fail, Return, NoResult, Archived!NoAnswer, Archived!Reply
  <2> QED BY <1>1, <1>3, <2>3, <2>4, <2>5 DEF Archived!Overwrite
<1> QED BY <1>2, <1>3 DEF StartDump

LEMMA DumpEnds ==
  ASSUME IInv, Held, Calling, EndDump
  PROVE  Archived!Dump(frame.name, frame.file)
<1> DEFINE n == frame.name
           t == tables[n]
           f == frame.file
<1>1. /\ main = "writing" /\ result' = <<"success", n>> /\ UNCHANGED <<tables, call>>
      /\ f \in Files /\ n \in DOMAIN tables
  BY DEF EndDump, Return, IInv, Writing
<1>2. Sound(t) /\ t.name = n /\ TableHeld(t)
  BY <1>1 DEF IInv, TablesSound, Held
<1>3. PICK text \in Output : disk' = Put(disk, f, text)
  BY DEF EndDump
<1>4. PICK memory : text = Written(t, memory)
  BY Zenon DEF Output
<1>5. /\ DOMAIN disk' = DOMAIN disk \cup {f}
      /\ \A g \in DOMAIN disk' : disk'[g] = IF g = f THEN text ELSE disk[g]
  BY <1>3 DEF Put
<1>6. \A g \in Files \ {f} : Saved'[g] = Saved[g]
  BY <1>5, SavedOf DEF Exists
<1>7. Saved'[f] = IF Loadable(text) THEN {Loaded(text)} ELSE {}
  BY <1>1, <1>5, SavedOf DEF Exists
<1>8. Store[n] = Kept(t) /\ Store' = Store
  BY <1>1, StoreOf, StoreKept
<1>9. Archived!Named(n) = [name |-> t.name, fields |-> t.fields, rows |-> Content(t.rows)]
  BY <1>2, <1>8 DEF Archived!Named, Kept
<1>10. Fits(Store[n]) => Saved'[f] = IF Printable(Store[n]) THEN {Archived!Named(n)} ELSE {}
  <2> SUFFICES ASSUME Fits(Kept(t))
               PROVE  Saved'[f] = IF Printable(Kept(t)) THEN {Archived!Named(n)} ELSE {}
    BY <1>8
  <2> HIDE DEF t
  <2>1. CASE Printable(Kept(t))
    BY <1>2, <1>4, <1>7, <1>9, <2>1, ReadsBack
  <2>2. CASE ~Printable(Kept(t))
    BY <1>2, <1>4, <1>7, <2>2, DoesNotReadBack
  <2> QED BY <2>1, <2>2
<1>11. Archived!Go(<<"DUMP", n, f>>) /\ Archived!Reply("success", n)
  BY <1>1, DumpGoes DEF Archived!Reply
<1> QED BY <1>6, <1>8, <1>10, <1>11 DEF Archived!Dump

\* What a query sees of a table with other rows.
LEMMA StoreRows ==
  ASSUME IInv, NEW n \in DOMAIN tables, NEW rows, tables' = [tables EXCEPT ![n].rows = rows]
  PROVE  Store' = [Store EXCEPT ![n].rows = Content(rows)]
<1>1. /\ DOMAIN tables' = DOMAIN tables
      /\ tables'[n] = [name |-> tables[n].name, fields |-> tables[n].fields, rows |-> rows]
      /\ \A m \in DOMAIN tables \ {n} : tables'[m] = tables[m]
  BY TablesAfter DEF IInv, TablesSound
<1>2. Kept(tables'[n]) = [fields |-> tables[n].fields, rows |-> Content(rows)]
  BY <1>1 DEF Kept
<1>3. Store[n] = [fields |-> tables[n].fields, rows |-> Content(tables[n].rows)]
  BY StoreOf, Zenon DEF Kept
<1>4. [Store[n] EXCEPT !.rows = Content(rows)] = Store'[n]
  BY <1>1, <1>2, <1>3, StoreOf
<1>5. \A m \in DOMAIN tables \ {n} : Store'[m] = Store[m]
  BY <1>1, StoreOf
<1>6. Store = [m \in DOMAIN tables |-> Store[m]] /\ Store' = [m \in DOMAIN tables' |-> Store'[m]]
  BY DEF Store
<1> QED BY <1>1, <1>4, <1>5, <1>6

LEMMA Drops ==
  ASSUME IInv, Calling, NEW n \in Names, Drop(n)
  PROVE  Archived!Drop(n)
<1>1. Saved' = Saved /\ Archived!Ask(<<"DROP", n>>)
  BY DiskKept, Asked DEF Drop, Query
<1>2. CASE Has(tables, n)
  <2>1. tables' = Erase(tables, n) /\ result' = <<"success", "">>
    BY <1>2 DEF Drop, Return
  <2>2. Store' = Archived!Erase(Store, n)
    BY <2>1, StoreOf DEF Erase, Archived!Erase
  <2> QED BY <1>1, <1>2, <2>1, <2>2, KnownIsThere DEF Archived!Drop, Archived!Reply
<1>3. CASE ~Has(tables, n)
  BY <1>1, <1>3, Failed, KnownIsThere DEF Drop, Query, Archived!Drop
<1> QED BY <1>2, <1>3

LEMMA Truncates ==
  ASSUME IInv, Calling, NEW n \in Names, Truncate(n)
  PROVE  Archived!Truncate(n)
<1>1. Saved' = Saved /\ Archived!Ask(<<"TRUNCATE", n>>)
  BY DiskKept, Asked DEF Truncate, Query
<1>2. CASE Has(tables, n)
  <2>1. /\ tables' = [tables EXCEPT ![n].rows = EmptyTable] /\ result' = <<"null", "">>
        /\ n \in DOMAIN tables
    BY <1>2 DEF Truncate, Return, Has
  <2>2. Content(EmptyTable) = Archived!NoRows
    BY EmptyExact DEF Archived!NoRows
  <2>3. Store' = [Store EXCEPT ![n].rows = Archived!NoRows]
    BY <2>1, <2>2, StoreRows
  <2> QED BY <1>1, <1>2, <2>1, <2>3, KnownIsThere DEF Archived!Truncate, Archived!Reply
<1>3. CASE ~Has(tables, n)
  BY <1>1, <1>3, Failed, KnownIsThere DEF Truncate, Query, Archived!Truncate
<1> QED BY <1>2, <1>3

LEMMA Copies ==
  ASSUME IInv, Calling, NEW n \in Names, NEW new \in Names, CopyTable(n, new)
  PROVE  Archived!CopyTable(n, new)
<1>1. Saved' = Saved /\ Archived!Ask(<<"COPYTABLE", n, new>>)
  BY DiskKept, Asked DEF CopyTable, Query
<1>2. CASE Has(tables, n) /\ Register(Copied(n, new), "null", "")
  <2> DEFINE t == Copied(n, new)
  <2>0. n \in DOMAIN tables
    BY <1>2, Zenon DEF Has
  <2>1. /\ t = [name |-> new, fields |-> tables[n].fields, rows |-> tables[n].rows]
        /\ Store[n] = Kept(tables[n])
    BY <2>0, StoreOf DEF Copied, IInv, TablesSound, Sound
  <2>2. t.name = new /\ Kept(t) = Store[n]
    BY <2>1 DEF Kept
  <2>3. CASE ~Has(tables, new)
    <3>1. tables' = Put(tables, new, t) /\ result' = <<"null", "">>
      BY <1>2, <2>2, <2>3 DEF Register, Return
    <3>2. Store' = Archived!Put(Store, new, Store[n])
      <4> HIDE DEF t
      <4> QED BY <2>2, <3>1, Registered
    <3> QED BY <1>1, <1>2, <2>3, <3>1, <3>2, KnownIsThere
            DEF Archived!CopyTable, Archived!Reply
  <2>4. CASE Has(tables, new)
    <3>1. Fail /\ UNCHANGED <<tables, disk>>
      BY <1>2, <2>2, <2>4 DEF CopyTable, Query, Register
    <3> QED BY <1>1, <2>4, <3>1, Failed, KnownIsThere DEF Archived!CopyTable
  <2> QED BY <2>3, <2>4
<1>3. CASE ~Has(tables, n)
  BY <1>1, <1>3, Failed, KnownIsThere DEF CopyTable, Query, Archived!CopyTable
<1> QED BY <1>2, <1>3 DEF CopyTable

LEMMA Lists ==
  ASSUME IInv, Calling, List
  PROVE  Archived!List
<1>1. Store' = Store /\ Saved' = Saved /\ Archived!Ask(<<"LIST">>)
  BY StoreKept, DiskKept, Asked DEF List, Query
<1>2. result'[1] = "list" /\ DOMAIN result'[2] = DOMAIN tables
  BY DEF List, Return
<1> QED BY <1>1, <1>2, StoreOf DEF Archived!List

LEMMA Shows ==
  ASSUME IInv, Calling, NEW n \in Names, ShowTable(n)
  PROVE  Archived!ShowTable(n)
<1>1. Store' = Store /\ Saved' = Saved /\ Archived!Ask(<<"SHOWTABLE", n>>)
  BY StoreKept, DiskKept, Asked DEF ShowTable, Query
<1>2. IF Has(tables, n) THEN result' = <<"success", n>> ELSE Archived!Refuse
  BY Failed DEF ShowTable, Query, Return
<1> QED BY <1>1, <1>2, KnownIsThere DEF Archived!ShowTable, Archived!Reply

\* The rows that a table of Archive has.
LEMMA RowsKept ==
  ASSUME NEW n \in DOMAIN tables
  PROVE  /\ Store[n].rows = Content(tables[n].rows)
         /\ \A k : Archived!HasRow(n, k) = Has(tables[n].rows.keyMap, k)
<1>1. Store[n] = [fields |-> tables[n].fields, rows |-> Content(tables[n].rows)]
  BY StoreOf, Zenon DEF Kept
<1>2. Store[n].rows = Content(tables[n].rows)
  BY <1>1
<1> QED BY <1>2 DEF Archived!HasRow, Archived!Has, Has, Content

LEMMA Inserts ==
  ASSUME IInv, Held, Calling, NEW n \in Names, NEW k \in Keys, NEW vals \in Tuples,
         Insert(n, k, vals)
  PROVE  Archived!Insert(n, k, vals)
<1>1. Saved' = Saved /\ Archived!Ask(<<"INSERT", n, k, vals>>)
  BY DiskKept, Asked DEF Insert, Query
<1>2. CASE Has(tables, n) /\ ~Has(tables[n].rows.keyMap, k)
  <2> DEFINE rows == InsertByIndex(tables[n].rows, k, vals)
  <2>1. /\ tables' = [tables EXCEPT ![n].rows = rows] /\ n \in DOMAIN tables
        /\ result' = <<"success", n>>
    BY <1>2 DEF Insert, Return, Has
  <2>2. vals \in Vals(Len(tables[n].fields)) /\ k # NoWord
    BY TuplesAssumption, WordsAssumption DEF Vals
  <2>3. Content(rows) = Put(Content(tables[n].rows), k, vals)
    <3>1. RowsHeld(tables[n].rows, Len(tables[n].fields))
      BY <2>1 DEF Held, TableHeld
    <3>2. ~Has(tables[n].rows.keyMap, k)
      BY <1>2
    <3> QED BY <2>2, <3>1, <3>2, InsertHeld
  <2>4. Content(rows) = Archived!Put(Store[n].rows, k, vals)
    BY <2>1, <2>3, RowsKept, SameMaps
  <2> HIDE DEF rows
  <2>5. Store' = [Store EXCEPT ![n].rows = Archived!Put(@, k, vals)]
    BY <2>1, <2>4, StoreRows
  <2> QED BY <1>1, <1>2, <2>1, <2>5, KnownIsThere, RowsKept DEF Archived!Insert, Archived!Reply
<1>3. CASE ~(Has(tables, n) /\ ~Has(tables[n].rows.keyMap, k))
  <2>1. Archived!Refuse
    BY <1>3, Failed DEF Insert, Query
  <2>2. ~(Archived!Known(n) /\ ~Archived!HasRow(n, k))
    BY <1>3, KnownIsThere, RowsKept DEF Has
  <2> QED BY <1>1, <2>1, <2>2 DEF Archived!Insert
<1> QED BY <1>2, <1>3

LEMMA Deletes ==
  ASSUME IInv, Held, Calling, NEW n \in Names, NEW k \in Keys, Delete(n, k)
  PROVE  Archived!Delete(n, k)
<1> DEFINE rows == DeleteByIndex(tables[n].rows, k)
<1>1. Saved' = Saved /\ Archived!Ask(<<"DELETE", n, k>>)
  BY DiskKept, Asked DEF Delete, Query
<1>2. /\ tables' = [tables EXCEPT ![n].rows = rows] /\ n \in DOMAIN tables
      /\ Has(tables, n) /\ Has(tables[n].rows.keyMap, k) /\ result' = <<"count", "">>
  BY DEF Delete, Return, Has
<1>3. Content(rows) = Erase(Content(tables[n].rows), k)
  BY <1>2, DeleteHeld DEF Held, TableHeld
<1>4. Content(rows) = Archived!Erase(Store[n].rows, k)
  BY <1>2, <1>3, RowsKept, SameMaps
<1> HIDE DEF rows
<1>5. Store' = [Store EXCEPT ![n].rows = Archived!Erase(@, k)]
  BY <1>2, <1>4, StoreRows
<1> QED BY <1>1, <1>2, <1>5, KnownIsThere, RowsKept DEF Archived!Delete, Archived!Reply

LEMMA Restarts ==
  ASSUME IInv, Calling, Quit \/ Killed
  PROVE  Archived!Restart
<1>1. tables' = NoTables /\ call' = NoCall /\ result' = NoResult
  BY DEF Quit, Killed, Restart
<1>2. Store' = Archived!NoTables
  <2>1. DOMAIN tables' = {}
    BY <1>1 DEF NoTables
  <2> QED BY <2>1, StoreOf DEF Archived!NoTables
<1>3. ASSUME NEW f \in Files, ~Archived!Overwriting(f) PROVE Saved'[f] = Saved[f]
  <2>1. CASE UNCHANGED disk
    BY <2>1, DiskKept
  <2>2. CASE main = "writing" /\ \E part : disk' = Put(disk, frame.file, part)
    <3>1. PICK part : disk' = Put(disk, frame.file, part)
      BY <2>2
    <3>2. frame.name \in Names
      BY <2>2 DEF IInv, Writing, TablesSound
    <3>3. Archived!Overwriting(frame.file)
      BY <2>2, <3>2, DumpGoes DEF Archived!Overwriting
    <3>4. (Exists(f)' <=> Exists(f)) /\ (Exists(f) => disk'[f] = disk[f])
      BY <1>3, <3>1, <3>3 DEF Put, Exists
    <3> QED BY <3>4, SavedOf
  <2> QED BY <2>1, <2>2 DEF Quit, Killed
<1> QED BY <1>1, <1>2, <1>3
        DEF Archived!Restart, NoCall, NoResult, Archived!NoCall, Archived!NoAnswer

LEMMA ArchiveStarts == Init => Archived!ArchiveInit
<1> SUFFICES ASSUME Init PROVE Archived!ArchiveInit
  OBVIOUS
<1>1. DOMAIN tables = {}
  BY DEF Init, NoTables
<1>2. Store = Archived!NoTables
  BY <1>1 DEF Store, Archived!NoTables
<1> QED BY <1>2 DEF Init, Archived!ArchiveInit, NoCall, NoResult, Archived!NoCall, Archived!NoAnswer

LEMMA ArchiveSteps ==
  ASSUME IInv, Held, Calling, [Next]_vars
  PROVE  [Archived!ArchiveNext]_(Archived!archiveVars)
<1> DEFINE Step == Archived!ArchiveNext \/ UNCHANGED Archived!archiveVars
<1>1. CASE UNCHANGED vars
  BY <1>1, StoreKept, DiskKept DEF vars, Archived!archiveVars
<1>2. ASSUME NEW f \in Files, StartLoad(f) PROVE Step
  BY <1>2, LoadStarts DEF Archived!ArchiveNext
<1>3. CASE LoadRow
  BY <1>3, RowLoads DEF Archived!ArchiveNext, IInv, Loading, LoadRow
<1>4. CASE EndLoad
  BY <1>4, LoadEnds DEF Archived!ArchiveNext, IInv, Loading, EndLoad
<1>5. ASSUME NEW n \in Names, NEW f \in Files, StartDump(n, f) PROVE Step
  BY <1>5, DumpStarts DEF Archived!ArchiveNext
<1>6. CASE EndDump
  <2>1. frame.name \in Names /\ frame.file \in Files
    BY <1>6 DEF EndDump, IInv, Writing, TablesSound
  <2> QED BY <1>6, <2>1, DumpEnds DEF Archived!ArchiveNext
<1>7. ASSUME NEW n \in Names, Drop(n) PROVE Step
  BY <1>7, Drops DEF Archived!ArchiveNext
<1>8. ASSUME NEW n \in Names, Truncate(n) PROVE Step
  BY <1>8, Truncates DEF Archived!ArchiveNext
<1>9. ASSUME NEW n \in Names, NEW new \in Names, CopyTable(n, new) PROVE Step
  BY <1>9, Copies DEF Archived!ArchiveNext
<1>10. CASE List
  BY <1>10, Lists DEF Archived!ArchiveNext
<1>11. ASSUME NEW n \in Names, ShowTable(n) PROVE Step
  BY <1>11, Shows DEF Archived!ArchiveNext
<1>12. ASSUME NEW n \in Names, NEW k \in Keys, NEW vals \in Tuples, Insert(n, k, vals) PROVE Step
  BY <1>12, Inserts DEF Archived!ArchiveNext
<1>13. ASSUME NEW n \in Names, NEW k \in Keys, Delete(n, k) PROVE Step
  BY <1>13, Deletes DEF Archived!ArchiveNext
<1>14. CASE Quit \/ Killed
  BY <1>14, Restarts DEF Archived!ArchiveNext
<1> QED BY <1>1, <1>2, <1>3, <1>4, <1>5, <1>6, <1>7, <1>8, <1>9, <1>10, <1>11, <1>12, <1>13, <1>14
        DEF Next

(***************************************************************************)
(* Database implements Archive, for all names, files, texts in them and    *)
(* rows, and wherever the process is killed: each query is the query of    *)
(* Archive that its name and words call for, with the answer and the       *)
(* effect that Archive gives it.  So LOAD, which reads line by line, gives *)
(* back what DUMP was given when the last DUMP into the file got to its    *)
(* end and what it printed can be read, and else nothing; and no query is  *)
(* refused but for the reason that Archive names.                          *)
(***************************************************************************)
THEOREM DatabaseImplementsArchive == Spec => ImplementsArchive
<1>1. IInv /\ Held /\ Calling /\ [Next]_vars => [Archived!ArchiveNext]_(Archived!archiveVars)
  BY ArchiveSteps
<1> QED BY <1>1, ArchiveStarts, InvariantHolds, HeldHolds, CallingHolds, PTL
        DEF Spec, ImplementsArchive, Archived!ArchiveSpec

=============================================================================
