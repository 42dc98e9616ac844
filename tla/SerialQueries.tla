---------------------------- MODULE SerialQueries ----------------------------
(***************************************************************************)
(* What the data queries promise whoever writes them: one after the other, *)
(* each takes the content of the table and gives the next content and an   *)
(* answer, both functions of the rows alone.  Threads, regions and the     *)
(* order of the rows do not show.  QueryExecution implements this module.  *)
(***************************************************************************)
EXTENDS Queries

CONSTANT Requests    \* the queries that may be asked, as a sequence

VARIABLES
  content,    \* the values of each key present
  result      \* <<number of the query, operation, kind of its result, value>>

serialVars == <<content, result>>

RowOf(k) == Row(k, content[k])

Raising(q) ==
  IF AlwaysFalse(q) THEN {}
  ELSE {k \in DOMAIN content : VisitRaises(q, RowOf(k))}

Hits(q) ==
  IF AlwaysFalse(q) THEN {}
  ELSE {k \in DOMAIN content \ Raising(q) : EvalCondition(q, RowOf(k))}

\* UPDATE KEY is asked for one row at most, and for a key no other row has.
KeepsKeysUnique(q) ==
  q.op = "UPDATE_KEY" =>
    /\ \A j, k \in Hits(q) : j = k
    /\ Has(content, q.arg) => q.arg \in Hits(q)

Originals(q, keys) == {k \in keys : ~Has(content, CopyKey(k))}

\* The content after q has taken effect on some of the rows it hits.
After(q, keys) ==
  CASE q.op \in FieldOps ->
         [k \in DOMAIN content |->
            IF k \in keys THEN NewVals(q, content[k]) ELSE content[k]]
    [] q.op = "DELETE" -> [k \in DOMAIN content \ keys |-> content[k]]
    [] q.op = "DUPLICATE" ->
         LET copies == {CopyKey(k) : k \in Originals(q, keys)}
         IN [k \in DOMAIN content \cup copies |->
               IF k \in copies
               THEN content[CHOOSE j \in keys : CopyKey(j) = k]
               ELSE content[k]]
    [] q.op = "UPDATE_KEY" ->
         LET Renamed(k) == IF k \in keys THEN q.arg ELSE k
         IN [k \in {Renamed(j) : j \in DOMAIN content} |->
               content[CHOOSE j \in DOMAIN content : Renamed(j) = k]]
    [] OTHER -> content

Column(q, i) == [k \in Hits(q) |-> content[k][q.fields[i]]]

Extreme(op, column) ==
  CHOOSE x \in {column[k] : k \in DOMAIN column} :
    \A k \in DOMAIN column : IF op = "MAX" THEN column[k] <= x ELSE column[k] >= x

\* The rows in the order of their keys: a row comes after as many rows as
\* have a smaller key.
Sorted(rows) ==
  [p \in 1..Cardinality(rows) |->
     CHOOSE r \in rows : Cardinality({s \in rows : RowLess(s, r)}) = p - 1]

ExpectedAnswer(q) ==
  CASE q.op = "SUM" ->
         <<"success", [i \in DOMAIN q.fields |->
            Wrap(MapThenSumSet(LAMBDA k : Column(q, i)[k], Hits(q)))]>>
    [] q.op \in {"MAX", "MIN"} ->
         IF Hits(q) = {} THEN <<"null", 0>>
         ELSE <<"success", [i \in DOMAIN q.fields |-> Extreme(q.op, Column(q, i))]>>
    [] q.op = "SELECT" ->
         <<"success", Sorted(
            {Row(k, [i \in DOMAIN q.fields |-> Column(q, i)[k]]) : k \in Hits(q)})>>
    [] q.op = "DUPLICATE" -> <<"success", Cardinality(Originals(q, Hits(q)))>>
    [] OTHER -> <<"success", Cardinality(Hits(q))>>

Answered(q, answer) == result' = <<result[1] + 1, q.op>> \o answer

-----------------------------------------------------------------------------
\* Any content to start with.
SerialInit == result = <<0, "none", "none", 0>>

\* INSERT never takes the place of a row that has its key.
InsertRow(q) ==
  /\ q.op = "INSERT" /\ ~Refused(q)
  /\ IF Has(content, q.arg.key)
     THEN Answered(q, Error) /\ UNCHANGED content
     ELSE /\ Answered(q, <<"success", 1>>)
          /\ content' = Put(content, q.arg.key, q.arg.vals)

Succeed(q) ==
  /\ q.op # "INSERT" /\ KeepsKeysUnique(q)
  /\ ~Refused(q) /\ Raising(q) = {}
  /\ Answered(q, ExpectedAnswer(q))
  /\ content' = After(q, Hits(q))

Refuse(q) ==
  /\ Refused(q)
  /\ Answered(q, Error)
  /\ UNCHANGED content

\* A query that meets a row without the fields it names may have changed
\* some rows already, each of them completely; DUPLICATE has changed none.
Fail(q) ==
  /\ q.op # "INSERT" /\ ~Refused(q) /\ Raising(q) # {}
  /\ Answered(q, Error)
  /\ \E keys \in IF q.op = "DUPLICATE" THEN {{}} ELSE SUBSET Hits(q) :
       content' = After(q, keys)

SerialNext ==
  \E i \in DOMAIN Requests :
    \/ InsertRow(Requests[i])
    \/ Succeed(Requests[i])
    \/ Refuse(Requests[i])
    \/ Fail(Requests[i])

SerialSpec == SerialInit /\ [][SerialNext]_serialVars
=============================================================================
