--------------------------- MODULE MCQueryExecution ---------------------------
(* Tables and queries for model checking QueryExecution: two value fields, *)
(* tables of a few rows, and for every operation a query with which the    *)
(* rows differ.                                                            *)
EXTENDS QueryExecution

CONSTANTS MaxBatch    \* the most tasks a query may submit

MCTasks == (1..MaxQueries) \X (0..MaxBatch-1)

Where(field, cmp, value) == [field |-> field, cmp |-> cmp, value |-> value]
Query(op, where, fields, arg) ==
  [op |-> op, where |-> where, fields |-> fields, arg |-> arg]

A == Key(1)
B == Key(2)
C == Key(3)

Filled(rows) ==
  [data |-> rows,
   keyMap |-> [k \in {rows[i].key : i \in DOMAIN rows} |->
                 CHOOSE i \in DOMAIN rows : rows[i].key = k]]

ThreeRows ==
  Filled(<<Row(B, <<2, -3>>), Row(A, <<3, 1>>), Row(C, <<1, 3>>)>>)

\* A row and its copy next to a third one.
WithCopy ==
  Filled(<<Row(CopyKey(A), <<1, 2>>), Row(B, <<1, 0>>), Row(A, <<0, 2>>)>>)

FullTables == {ThreeRows, WithCopy}

FourRows ==
  {Filled(<<Row(A, <<1, 2>>), Row(B, <<2, 1>>), Row(C, <<3, 1>>), Row(Key(4), <<1, 3>>)>>)}

\* A row that INSERT gave one value only.
WithShortRow == Filled(<<Row(A, <<1, 2>>), Row(B, <<2>>), Row(C, <<1, 0>>)>>)

Small == <<Where(1, "<", 3)>>
One == <<Where(1, "=", 1)>>

CountSmall == Query("COUNT", Small, <<>>, 0)
SumBoth == Query("SUM", <<>>, <<1, 2>>, 0)
MaxBoth == Query("MAX", Small, <<2, 1>>, 0)
MinNone == Query("MIN", <<Where(KEY, "=", A), Where(KEY, "=", B)>>, <<1>>, 0)
SelectAll == Query("SELECT", <<Where(2, ">=", -3)>>, <<2>>, 0)
AddInto == Query("ADD", Small, <<1, 2, 2>>, 0)
SubInto == Query("SUB", <<>>, <<1, 2, 1>>, 0)
SwapOne == Query("SWAP", <<Where(KEY, "=", A), Where(2, "<=", 2)>>, <<1, 2>>, 0)
UpdateOne == Query("UPDATE", One, <<2>>, 3)
Rename == Query("UPDATE_KEY", <<Where(KEY, "=", B)>>, <<>>, Key(4))
DeleteOne == Query("DELETE", One, <<>>, 0)
DuplicateAll == Query("DUPLICATE", <<>>, <<>>, 0)
InsertB == Query("INSERT", <<>>, <<KEY>>, Row(B, <<1, 1>>))
\* The condition on KEY would be an error in any other query.
InsertAnyway == Query("INSERT", <<Where(KEY, ">", A)>>, <<KEY>>, Row(B, <<1, 1>>))
InsertNothing == Query("INSERT", <<>>, <<>>, 0)
InsertShort == Query("INSERT", <<>>, <<KEY>>, Row(Key(4), <<1>>))
NoField == Query("MAX", <<>>, <<3>>, 0)
BadField == Query("SUM", <<Where(3, "=", 0)>>, <<1>>, 0)
DeleteByShort == Query("DELETE", <<Where(2, "=", 2)>>, <<>>, 0)
BadKeyTest == Query("COUNT", <<Where(KEY, ">", A)>>, <<>>, 0)

ReadQueries == <<CountSmall, SumBoth, MaxBoth, MinNone>>
WriteQueries == <<AddInto, SubInto, SwapOne, UpdateOne, Rename>>
CollectQueries == <<SelectAll, DeleteOne, DuplicateAll>>

AllQueries == ReadQueries \o WriteQueries \o CollectQueries \o
              <<InsertAnyway, InsertNothing, BadKeyTest>>

\* The queries that run inline unless two threads are idle.
GuardedQueries == ReadQueries \o WriteQueries \o <<InsertB>>

ShortTables == {WithShortRow}
RaisingQueries ==
  <<CountSmall, SumBoth, NoField, BadField, AddInto, SubInto, SelectAll,
    DeleteOne, DuplicateAll, InsertShort, DeleteByShort>>
=============================================================================
