------------------------------ MODULE TableText ------------------------------
(***************************************************************************)
(* A table as a text: what operator<< of Table.cpp prints, and what        *)
(* loadTableFromStream of Database.cpp takes a text to say.                *)
(*                                                                         *)
(* A text is a sequence of lines, a line the sequence of the words that >> *)
(* finds in it.  Of the lines without a word, an empty one is the empty    *)
(* sequence, and one that has blanks the sequence of the empty word, which *)
(* no other line begins with.  A table has a name, the fields besides KEY, *)
(* and its rows, which are a table of TableOps.                            *)
(***************************************************************************)
EXTENDS TableOps

CONSTANTS
  LongFields,      \* the field names of ten characters or more
  LongValues,      \* the numbers of ten characters or more
  IntMin, IntMax   \* the range of int

ASSUME IntAssumption ==
  IntMin \in Int /\ IntMax \in Int /\ LongValues \subseteq Int

NoWord == ""
Blanks == <<NoWord>>
HasWords(line) == line # <<>> /\ line[1] # NoWord

-----------------------------------------------------------------------------
(* Printing.                                                               *)

(***************************************************************************)
(* setw(10) pads a short word, and puts nothing in front of a longer one,  *)
(* which then continues the word before it.  Only a minus sign keeps two   *)
(* numbers apart.                                                          *)
(***************************************************************************)
RunsOn(vals, i) == vals[i] \in LongValues /\ (i = 1 \/ vals[i] >= 0)

\* Words that run on leave the line with too few of them, or with a number
\* that is no int; such a line is given as its first word alone.
HeadLine(fields) ==
  IF \E i \in DOMAIN fields : fields[i] \in LongFields THEN <<"KEY">>
  ELSE [i \in 1..Len(fields)+1 |-> IF i = 1 THEN "KEY" ELSE fields[i-1]]

\* As many values as the table has fields.  In the place of those a row
\* does not have, the line shows what the memory behind them holds.
Shown(row, fieldCount, memory) ==
  [i \in 1..fieldCount |-> IF i \in DOMAIN row.vals THEN row.vals[i] ELSE memory]

RowLine(key, vals) ==
  IF \E i \in DOMAIN vals : RunsOn(vals, i) THEN <<key>>
  ELSE [i \in 1..Len(vals)+1 |-> IF i = 1 THEN key ELSE vals[i-1]]

\* operator<<
Written(t, memory) ==
  [l \in 1..Size(t.rows)+2 |->
     IF l = 1 THEN <<t.name, Len(t.fields) + 1>>
     ELSE IF l = 2 THEN HeadLine(t.fields)
     ELSE LET row == t.rows.data[l-2]
          IN RowLine(row.key, Shown(row, Len(t.fields), memory[l-2]))]

-----------------------------------------------------------------------------
(* Reading.                                                                *)

\* What getFileTableName reads: a word, on whichever line it is.
FirstWord(text) ==
  IF \E l \in DOMAIN text : HasWords(text[l])
  THEN LET l == CHOOSE l \in DOMAIN text :
                  HasWords(text[l]) /\ \A m \in 1..l-1 : ~HasWords(text[m])
       IN text[l][1]
  ELSE ""

MetadataReads(text) == Len(text) >= 1 /\ Len(text[1]) >= 2

NameIn(text) == text[1][1]
CountIn(text) == text[1][2]    \* of fields, with KEY

\* Without any field the code looks at the first of none.
FieldsRead(text) ==
  /\ Len(text) >= 2
  /\ CountIn(text) >= 1 /\ Len(text[2]) >= CountIn(text)
  /\ text[2][1] = "KEY"
  /\ \A i \in 2..CountIn(text) : text[2][i] # "KEY"

FieldsIn(text) == [i \in 1..CountIn(text)-1 |-> text[2][i+1]]

RowReads(line, count) ==
  /\ HasWords(line) /\ Len(line) >= count
  /\ \A i \in 2..count : line[i] \in IntMin..IntMax

\* Mutant: the last value is not read.
ValsInShort(line, count) == [i \in 1..count-2 |-> line[i+1]]

\* Words behind the last value are not read.
ValsIn(line, count) == [i \in 1..count-1 |-> line[i+1]]

\* The rows end at the end of the text or at an empty line.
BodyEnds(text, l) == ~(l \in DOMAIN text /\ text[l] # <<>>)

Body(text) == {l \in 3..Len(text) : \A m \in 3..l : ~BodyEnds(text, m)}

\* The lines of the text give a table, whichever way it is read.
Loadable(text) ==
  /\ MetadataReads(text) /\ FieldsRead(text)
  /\ LET body == Body(text)
     IN /\ \A l \in body : RowReads(text[l], CountIn(text))
        /\ \A l, m \in body : text[l][1] = text[m][1] => l = m

\* The table they give, its rows by key.
Loaded(text) ==
  LET body == Body(text)
  IN [name   |-> NameIn(text),
      fields |-> FieldsIn(text),
      rows   |-> [k \in {text[l][1] : l \in body} |->
                    ValsIn(text[CHOOSE l \in body : text[l][1] = k], CountIn(text))]]
=============================================================================
