------------------------- MODULE QueryEffectsProofs -------------------------
(***************************************************************************)
(* Proofs about what the queries of QueryExecution do to the table, for    *)
(* any requests, initial tables, number of threads, number of queries and  *)
(* region size.                                                            *)
(***************************************************************************)
EXTENDS QueryExecutionProofs

-----------------------------------------------------------------------------
(* Keys.  A row is given another key by UPDATE KEY only, which is asked    *)
(* for one row at most and for a key no other row has.                     *)

NoRenames == \A i \in DOMAIN Requests : Requests[i].op # "UPDATE_KEY"

\* No task raised, or none of the queries could rename a row twice.
Renaming == NoRenames \/ raised = {}

\* The row at position p is one the current query acts on.
Hit(p) ==
  /\ ~AlwaysFalse(frame.q) /\ ~VisitRaises(frame.q, table.data[p])
  /\ EvalCondition(frame.q, table.data[p])

\* The rows that execute, or a task of the batch, has yet to visit.
AheadOfTask(t, p) ==
  /\ p \in Region(Size(table), frame.n, t[2])
  /\ t \notin ready
  /\ t \in running => p >= job[t].pos

Ahead(p) ==
  \/ main = "inline" /\ p \in frame.i..Size(table)
  \/ /\ main \in {"submit", "await"}
     /\ \E i \in 0..frame.n-1 : AheadOfTask(<<num, i>>, p)

RenameSafe ==
  /\ \A p, r \in 1..Size(table) : Ahead(p) /\ Ahead(r) /\ Hit(p) /\ Hit(r) => p = r
  /\ \A p \in 1..Size(table) :
       Ahead(p) /\ Hit(p) /\ Has(table.keyMap, frame.q.arg) =>
         table.data[p].key = frame.q.arg

Keyed ==
  /\ main = "inline" => frame.i # 0
  /\ \A t \in Tasks : Asked(job[t].q) \/ job[t].q = NoFrame.q
  /\ Renaming => HasRows(table)
  /\ raised = {} /\ main \in {"inline", "submit", "await"} /\ frame.q.op = "UPDATE_KEY"
       => RenameSafe

LEMMA SeqGrows ==
  ASSUME NEW S, NEW T, S \subseteq T, NEW s \in Seq(S)
  PROVE  s \in Seq(T)
OBVIOUS

\* A table as lemondb starts with it.
LEMMA StorageExact ==
  ASSUME NEW t, IsStorage(t), KeyMapExact(t)
  PROVE  \E K : Exact(t, K, {t.data[p].vals : p \in DOMAIN t.data})
<1> DEFINE V == {t.data[p].vals : p \in DOMAIN t.data}
           K == {t.data[p].key : p \in DOMAIN t.data}
<1>1. t.data \in Seq(Rows(K, V))
  BY DEF IsStorage, Rows
<1> HIDE DEF K, V
<1>2. Rows(K, V) \subseteq Rows(K \cup DOMAIN t.keyMap, V)
  BY DEF Rows
<1>4. t.data \in Seq(Rows(K \cup DOMAIN t.keyMap, V))
  BY <1>1, <1>2, SeqGrows, Zenon
<1>3. Exact(t, K \cup DOMAIN t.keyMap, V)
  BY <1>4 DEF IsStorage, Exact, IsStored
<1> QED BY <1>3, Zenon DEF V

LEMMA StorageHasRows ==
  ASSUME NEW t, IsStorage(t), KeyMapExact(t)
  PROVE  HasRows(t)
BY StorageExact, Zenon DEF HasRows

LEMMA HasRowsData ==
  ASSUME NEW t, HasRows(t)
  PROVE  /\ Size(t) \in Nat /\ KeyMapExact(t)
         /\ \A p \in 1..Size(t) :
              /\ t.data[p] = Row(t.data[p].key, t.data[p].vals)
              /\ Has(t.keyMap, t.data[p].key) /\ t.keyMap[t.data[p].key] = p
<1>1. PICK K, V : Exact(t, K, V)
  BY Zenon DEF HasRows
<1>2. Size(t) \in Nat /\ KeyMapExact(t)
  BY <1>1, SizeIsNat DEF Exact
<1>3. ASSUME NEW p \in 1..Size(t) PROVE t.data[p] = Row(t.data[p].key, t.data[p].vals)
  <2>1. t.data[p] \in Rows(K, V)
    BY <1>1 DEF Exact, IsStored, Size
  <2> QED BY <2>1 DEF Rows, Row
<1> QED BY <1>2, <1>3 DEF KeyMapExact

\* What a visit does to a row keeps keyMap exact.
LEMMA AffectedHasRows ==
  ASSUME NEW t, HasRows(t), NEW q, NEW p \in 1..Size(t),
         q.op = "UPDATE_KEY" => q.arg = t.data[p].key \/ ~Has(t.keyMap, q.arg)
  PROVE  HasRows(Affected(t, q, p))
<1>1. HasRows(SetVals(t, p, NewVals(q, t.data[p].vals)))
  BY SetValsHasRows
<1>2. q.op = "UPDATE_KEY" => HasRows(SetKey(t, p, q.arg))
  BY SetKeyHasRows
<1> QED BY <1>1, <1>2 DEF Affected

\* The positions of the rows that are left alone.
LEMMA AffectedElsewhere ==
  ASSUME NEW t, HasRows(t), NEW q, NEW p \in 1..Size(t)
  PROVE  \A r \in 1..Size(t) \ {p} : Affected(t, q, p).data[r] = t.data[r]
<1>1. t.data \in Seq({t.data[i] : i \in 1..Size(t)})
  <2>1. PICK K, V : Exact(t, K, V)
    BY Zenon DEF HasRows
  <2> QED BY <2>1 DEF Exact, IsStored, Size
<1> DEFINE v == [t.data[p] EXCEPT !.vals = NewVals(q, t.data[p].vals)]
           k == [t.data[p] EXCEPT !.key = q.arg]
<1>2. \/ Affected(t, q, p).data = t.data
      \/ Affected(t, q, p).data = [t.data EXCEPT ![p] = v]
      \/ Affected(t, q, p).data = [t.data EXCEPT ![p] = k]
  BY DEF Affected, SetVals, SetKey
<1> HIDE DEF v, k
<1>3. DOMAIN t.data = 1..Size(t)
  BY <1>1 DEF Size
<1> QED BY <1>2, <1>3

LEMMA KeyedInit == Init => Keyed
<1> SUFFICES ASSUME Init PROVE Keyed
  OBVIOUS
<1>1. HasRows(table)
  BY InitialTablesAssumption, StorageHasRows DEF Init
<1>2. \A t \in Tasks : job[t].q = NoFrame.q
  BY DEF Init, NoJob
<1>3. main \notin Executing
  BY DEF Init, Executing
<1> QED BY <1>1, <1>2, <1>3 DEF Keyed, Executing

\* The next row of a task that execute waits for is one of its region.
LEMMA RowOfTask ==
  ASSUME Types, Failures, InRegions, NEW t \in Tasks, MoreRows(t)
  PROVE  /\ job[t].pos \in Region(Size(table), frame.n, t[2])
         /\ job[t].pos \in 1..Size(table)
         /\ t = <<num, t[2]>> /\ t[2] \in 0..frame.n-1 /\ frame.n \in Nat \ {0}
         /\ AheadOfTask(t, job[t].pos)
<1> DEFINE head == RegionHead(Size(table), frame.n, t[2])
           tail == RegionTail(Size(table), frame.n, t[2])
           p == job[t].pos
<1>1. t \in running /\ Alive(t) /\ p <= job[t].tail
  BY DEF MoreRows
<1>2. t = <<num, t[2]>> /\ t[2] \in 0..frame.n-1 /\ frame.n \in Nat \ {0}
  BY <1>1, TaskOfBatch DEF Submitted
<1>3. p > head /\ p <= tail /\ p \in Int
  BY <1>1 DEF InRegions, Types, IsJob
<1>4. Size(table) \in Nat
  BY DataSize DEF Types
<1>5. head \in Nat /\ tail \in Nat
  <2>1. t[2] \in Nat
    BY <1>2
  <2> QED BY <1>2, <1>4, <2>1, RegionNumbers, Zenon
<1>6. Region(Size(table), frame.n, t[2]) = head + 1 .. tail
  BY DEF Region
<1>7. Region(Size(table), frame.n, t[2]) \subseteq 1..Size(table)
  BY <1>2, <1>4, RegionsInside DEF Inside
<1>8. t \notin ready
  BY <1>1 DEF Types, PoolInv, OncePerTask
<1> HIDE DEF head, tail
<1>9. p \in Region(Size(table), frame.n, t[2])
  BY <1>3, <1>5, <1>6
<1>10. p \in 1..Size(table)
  BY <1>7, <1>9
<1>11. p >= job[t].pos
  BY <1>3
<1> QED BY <1>2, <1>8, <1>9, <1>10, <1>11 DEF AheadOfTask

\* SerialQueries reads conditions as Queries does.
LEMMA NowHolds ==
  ASSUME NEW q, NEW row
  PROVE  /\ Now!EvalCondition(q, row) = EvalCondition(q, row)
         /\ Now!EvalConditionRaises(q, row) = EvalConditionRaises(q, row)
<1>1. \A cond : Now!OnKey(cond) = OnKey(cond)
  BY DEF Now!OnKey, OnKey, Now!KEY, KEY
<1>2. \A x, cmp, y : Now!Compare(x, cmp, y) = Compare(x, cmp, y)
  BY DEF Now!Compare, Compare
<1>3. \A cond : Now!Holds(cond, row) = Holds(cond, row)
  BY <1>1, <1>2, Zenon DEF Now!Holds, Holds
<1>4. Now!EvalCondition(q, row) = EvalCondition(q, row)
  BY <1>3, Zenon DEF Now!EvalCondition, EvalCondition
<1>5. Now!EvalConditionRaises(q, row) = EvalConditionRaises(q, row)
  BY <1>1, <1>3, Zenon DEF Now!EvalConditionRaises, EvalConditionRaises
<1> QED BY <1>4, <1>5

LEMMA NowReads ==
  ASSUME NEW q, NEW row
  PROVE  /\ Now!AlwaysFalse(q) = AlwaysFalse(q)
         /\ Now!VisitRaises(q, row) = VisitRaises(q, row)
<1>1. \A cond : Now!OnKey(cond) = OnKey(cond)
  BY DEF Now!OnKey, OnKey, Now!KEY, KEY
<1>2. \A i : Now!Conflicts(q, i) = Conflicts(q, i)
  BY <1>1, Zenon DEF Now!Conflicts, Conflicts
<1>3. Now!AlwaysFalse(q) = AlwaysFalse(q)
  BY <1>2, Zenon DEF Now!AlwaysFalse, AlwaysFalse
<1>4. Now!Fields = Fields
  BY DEF Now!Fields, Fields
<1>5. Now!Execution(q.op) = Execution(q.op)
  BY Zenon DEF Now!Execution, Execution, Now!AddExecute, AddExecute, Now!SubExecute, SubExecute, Now!SwapExecute, SwapExecute, Now!UpdateExecute, UpdateExecute, Now!UpdateKeyExecute, UpdateKeyExecute, Now!InsertExecute, InsertExecute, Now!CountExecute, CountExecute, Now!SumExecute, SumExecute, Now!MaxExecute, MaxExecute, Now!MinExecute, MinExecute, Now!SelectExecute, SelectExecute, Now!DeleteExecute, DeleteExecute, Now!DuplicateExecute, DuplicateExecute, Now!Looping, Looping, Now!Collecting,
       Collecting, Now!Nothing, Nothing
<1>6. Now!ToSet(q.fields) = ToSet(q.fields)
  BY DEF Now!ToSet, ToSet
<1>7. Now!VisitRaises(q, row) = VisitRaises(q, row)
  BY <1>4, <1>5, <1>6, NowHolds, Zenon DEF Now!VisitRaises, VisitRaises
<1> QED BY <1>3, <1>7

\* Rows that are still ahead after a step were ahead before it.
LEMMA SafeWhenLess ==
  ASSUME RenameSafe, table' = table, frame'.q = frame.q,
         \A p \in 1..Size(table) : Ahead(p)' => Ahead(p)
  PROVE  RenameSafe'
<1>1. \A p : Hit(p)' = Hit(p)
  BY DEF Hit
<1> QED BY <1>1 DEF RenameSafe

\* The row that is renamed was the last to be.
LEMMA SafeAfterHit ==
  ASSUME HasRows(table), RenameSafe, NEW p \in 1..Size(table), Ahead(p), Hit(p),
         table' = Affected(table, frame.q, p), Size(table') = Size(table),
         frame'.q = frame.q,
         \A r \in 1..Size(table) : Ahead(r)' => Ahead(r) /\ r # p
  PROVE  RenameSafe'
<1>1. ASSUME NEW r \in 1..Size(table), Ahead(r)', Hit(r)' PROVE FALSE
  <2>1. Ahead(r) /\ r # p
    BY <1>1
  <2>2. table'.data[r] = table.data[r]
    BY <2>1, AffectedElsewhere
  <2>3. Hit(r)
    BY <1>1, <2>2 DEF Hit
  <2> QED BY <2>1, <2>3 DEF RenameSafe
<1> QED BY <1>1 DEF RenameSafe

\* What UPDATE KEY is asked for makes its first row, and so every row, safe.
LEMMA StartSafe ==
  ASSUME HasRows(table), NEW i \in DOMAIN Requests, Start(Requests[i]),
         Requests[i].op = "UPDATE_KEY"
  PROVE  RenameSafe'
<1> DEFINE q == Requests[i]
<1>1. /\ Now!KeepsKeysUnique(q) /\ table' = table /\ frame'.q = q
  BY DEF Start
<1>2. /\ \A j, k \in Now!Hits(q) : j = k
      /\ Has(table.keyMap, q.arg) => q.arg \in Now!Hits(q)
  BY <1>1 DEF Now!KeepsKeysUnique, Now!Has, Has, Content
<1>3. ASSUME NEW p \in 1..Size(table), Hit(p)'
      PROVE  table.data[p].key \in Now!Hits(q)
  <2> DEFINE k == table.data[p].key
  <2>1. /\ table.data[p] = Row(k, table.data[p].vals)
        /\ Has(table.keyMap, k) /\ table.keyMap[k] = p
    BY HasRowsData
  <2>2. k \in DOMAIN Content(table) /\ Now!RowOf(k) = table.data[p]
    BY <2>1 DEF Now!RowOf, Now!Row, Row, Content, Has
  <2>3. /\ ~AlwaysFalse(q) /\ ~VisitRaises(q, table.data[p])
        /\ EvalCondition(q, table.data[p])
    BY <1>1, <1>3 DEF Hit
  <2>4. /\ ~Now!AlwaysFalse(q) /\ ~Now!VisitRaises(q, Now!RowOf(k))
        /\ Now!EvalCondition(q, Now!RowOf(k))
    BY <2>2, <2>3, NowHolds, NowReads
  <2> QED BY <2>2, <2>4, Zenon DEF Now!Hits, Now!Raising
<1>4. ASSUME NEW p \in 1..Size(table), NEW r \in 1..Size(table),
             table.data[p].key = table.data[r].key
      PROVE  p = r
  <2>1. table.keyMap[table.data[p].key] = p /\ table.keyMap[table.data[r].key] = r
    BY HasRowsData
  <2> QED BY <1>4, <2>1
<1>5. \A p, r \in 1..Size(table) : Hit(p)' /\ Hit(r)' => p = r
  BY <1>2, <1>3, <1>4
<1>6. \A p \in 1..Size(table) :
        Hit(p)' /\ Has(table.keyMap, q.arg) => table.data[p].key = q.arg
  BY <1>2, <1>3
<1> HIDE DEF q
<1> QED BY <1>1, <1>5, <1>6 DEF RenameSafe

\* A query that is asked renames no row, or is safe to.
LEMMA RenameAllowed ==
  ASSUME Keyed, Renaming, main \in {"inline", "submit", "await"}, Asked(frame.q),
         NEW p \in 1..Size(table), Ahead(p), Hit(p), frame.q.op = "UPDATE_KEY"
  PROVE  frame.q.arg = table.data[p].key \/ ~Has(table.keyMap, frame.q.arg)
<1>1. ~NoRenames
  BY DEF NoRenames, Asked
<1>2. RenameSafe
  BY <1>1 DEF Keyed, Renaming
<1> QED BY <1>2 DEF RenameSafe

LEMMA InlineKeyed ==
  ASSUME Types, Keyed, InlineRow
  PROVE  /\ main' = "inline" => frame'.i # 0
         /\ Renaming => HasRows(table')
         /\ raised = {} /\ main' = "inline" /\ frame'.q.op = "UPDATE_KEY" => RenameSafe'
<1> DEFINE q == frame.q
           p == frame.i
           row == table.data[p]
<1>1. /\ main = "inline" /\ ~AlwaysFalse(q) /\ p <= Size(table) /\ p # 0
      /\ Asked(q) /\ p \in Nat /\ Size(table) \in Nat
  BY DataSize DEF InlineRow, Keyed, Types, TypeOK, Executing
<1>2. p \in 1..Size(table)
  BY <1>1
<1>3. Ahead(p)
  BY <1>1 DEF Ahead
<1>4. CASE VisitRaises(q, row)
  BY <1>4, ReturnError DEF InlineRow, Keyed
<1>5. CASE ~VisitRaises(q, row) /\ ~EvalCondition(q, row)
  <2>1. frame' = [frame EXCEPT !.i = p + 1] /\ table' = table /\ main' = "inline"
    BY <1>5 DEF InlineRow
  <2>2. frame'.i = p + 1 /\ frame'.q = q
    BY <1>1, <2>1, p + 1 \in Nat, CountedFrame DEF Types
  <2>3. \A r \in 1..Size(table) : Ahead(r)' => Ahead(r)
    BY <1>1, <2>1, <2>2 DEF Ahead
  <2>4. RenameSafe => RenameSafe'
    BY <2>1, <2>2, <2>3, SafeWhenLess
  <2> QED BY <1>1, <2>1, <2>2, <2>4 DEF Keyed
<1>6. CASE ~VisitRaises(q, row) /\ EvalCondition(q, row)
  <2>1. Hit(p)
    BY <1>1, <1>6 DEF Hit
  <2>2. /\ main' = "inline"
        /\ frame' = [frame EXCEPT !.acc = Visit(table, q, frame.acc, row),
                                  !.i = IF q.op = "DELETE" THEN p ELSE p + 1]
        /\ table' = IF q.op = "DELETE" THEN DeleteByIndex(table, row.key)
                    ELSE Affected(table, q, p)
    BY <1>6 DEF InlineRow
  <2>3. (IF q.op = "DELETE" THEN p ELSE p + 1) \in Nat \ {0}
    BY <1>1
  <2>4. frame'.i = (IF q.op = "DELETE" THEN p ELSE p + 1) /\ frame'.q = q
    BY <2>2, <2>3, VisitedFrame DEF Types
  <2>5. ASSUME Renaming PROVE HasRows(table')
    <3>1. HasRows(table) /\ Has(table.keyMap, row.key)
      BY <1>2, <2>5, HasRowsData DEF Keyed
    <3>2. q.op = "UPDATE_KEY" => q.arg = row.key \/ ~Has(table.keyMap, q.arg)
      BY <1>1, <1>2, <1>3, <2>1, <2>5, RenameAllowed
    <3>3. q.op # "DELETE" => HasRows(Affected(table, q, p))
      BY <1>2, <3>1, <3>2, AffectedHasRows
    <3> QED BY <2>2, <3>1, <3>3, DeleteHasRows
  <2>6. ASSUME raised = {}, q.op = "UPDATE_KEY" PROVE RenameSafe'
    <3>1. HasRows(table) /\ RenameSafe
      BY <1>1, <2>6 DEF Keyed, Renaming
    <3>2. table' = Affected(table, q, p) /\ frame'.i = p + 1
      BY <2>2, <2>4, <2>6
    <3>3. Size(table') = Size(table)
      BY <3>2, AffectedSize DEF Types
    <3>4. \A r \in 1..Size(table) : Ahead(r)' => Ahead(r) /\ r # p
      BY <1>1, <2>2, <3>2, <3>3 DEF Ahead
    <3> QED BY <1>2, <1>3, <2>1, <2>4, <3>1, <3>2, <3>3, <3>4, SafeAfterHit
  <2> QED BY <2>3, <2>4, <2>5, <2>6
<1> QED BY <1>4, <1>5, <1>6

\* A row that is ahead of a batch was ahead of it before a step of the pool
\* or of its tasks.
LEMMA StaysBehind ==
  ASSUME Types, Failures, [Next]_vars, main \in {"submit", "await"},
         num' = num, frame'.n = frame.n, Size(table') = Size(table),
         NEW i \in 0..frame.n-1, NEW p, AheadOfTask(<<num, i>>, p)'
  PROVE  AheadOfTask(<<num, i>>, p)
<1> DEFINE t == <<num, i>>
<1>1. t[1] = num /\ t[2] = i
  OBVIOUS
<1>2. p \in Region(Size(table), frame.n, i) /\ t \notin ready'
      /\ (t \in running' => p >= job'[t].pos)
  BY <1>1 DEF AheadOfTask
<1> HIDE DEF t
<1>3. /\ ready \subseteq ready' /\ running \subseteq running' \cup ready'
  BY PoolUse DEF Configure, SetThread, BeginTask, EndTask, AddTask, TakeTask, Close, Discard,
                 FinishTask, poolVars
<1>4. p \in Int
  BY <1>2 DEF Region
<1>5. ASSUME t \in running PROVE p >= job[t].pos
  <2>1. t \in running' /\ Alive(t)
    BY <1>1, <1>2, <1>3, <1>5 DEF Alive
  <2>2. job'[t] = job[t] \/ job'[t].pos = job[t].pos + 1
    BY <1>5, <2>1, JobsKept
  <2>3. job[t].pos \in Int
    BY <1>5 DEF Types, PoolInv, PoolTypes, IsJob
  <2> QED BY <1>2, <1>4, <2>1, <2>2, <2>3
<1> QED BY <1>1, <1>2, <1>3, <1>5 DEF AheadOfTask, t

\* A row a task has visited is ahead of no task.
LEMMA VisitedBehind ==
  ASSUME Types, Failures, InRegions, NEW t \in Tasks, TaskRow(t), [Next]_vars,
         NEW r, Ahead(r)'
  PROVE  Ahead(r) /\ r # job[t].pos
<1> DEFINE p == job[t].pos
<1>1. /\ MoreRows(t) /\ main \in {"submit", "await"}
      /\ UNCHANGED <<main, num, frame, poolVars>> /\ t \in running
  BY DEF TaskRow, MoreRows, Alive, mainVars
<1>2. /\ p \in Region(Size(table), frame.n, t[2])
      /\ t = <<num, t[2]>> /\ t[2] \in 0..frame.n-1 /\ frame.n \in Nat \ {0}
  BY <1>1, RowOfTask
<1>3. Size(table') = Size(table) /\ Size(table) \in Nat
  BY <1>1, SizeKept, DataSize DEF Types
<1>4. PICK i \in 0..frame.n-1 : AheadOfTask(<<num, i>>, r)'
  BY <1>1 DEF Ahead
<1>5. AheadOfTask(<<num, i>>, r)
  BY <1>1, <1>3, <1>4, StaysBehind
<1>6. r # p
  <2> SUFFICES ASSUME r = p PROVE FALSE
    OBVIOUS
  <2>1. p \in Region(Size(table), frame.n, i)
    BY <1>5 DEF AheadOfTask
  <2>2. i = t[2]
    BY <1>2, <1>3, <2>1, RegionsDisjoint DEF Disjoint
  <2>3. <<num, i>> = t /\ t \in running'
    BY <1>1, <1>2, <2>2 DEF poolVars
  <2>4. p >= job'[t].pos
    BY <1>1, <1>4, <2>3 DEF AheadOfTask
  <2>5. job'[t].pos = p + 1 /\ p \in Int
    BY TaskRowJob DEF Types, IsJob
  <2> QED BY <2>4, <2>5
<1> QED BY <1>1, <1>5, <1>6 DEF Ahead

LEMMA TaskKeyed ==
  ASSUME Types, Failures, InRegions, Keyed, NEW t \in Tasks, TaskRow(t), [Next]_vars
  PROVE  /\ Renaming => HasRows(table')
         /\ raised = {} /\ frame.q.op = "UPDATE_KEY" => RenameSafe'
<1> DEFINE q == frame.q
           p == job[t].pos
           row == table.data[p]
<1>1. /\ MoreRows(t) /\ ~AlwaysFalse(q) /\ ~VisitRaises(q, row)
      /\ main \in {"submit", "await"} /\ UNCHANGED <<main, num, frame, raised>>
  BY DEF TaskRow, MoreRows, Alive, mainVars
<1>2. p \in 1..Size(table) /\ AheadOfTask(t, p) /\ t = <<num, t[2]>> /\ t[2] \in 0..frame.n-1
  BY <1>1, RowOfTask
<1>3. Ahead(p) /\ Asked(q)
  BY <1>1, <1>2 DEF Ahead, Types, Executing
<1>4. \A r \in 1..Size(table) : Ahead(r)' => Ahead(r) /\ r # p
  BY VisitedBehind
<1>5. CASE EvalCondition(q, row)
  <2>1. Hit(p) /\ table' = Affected(table, q, p)
    BY <1>1, <1>5 DEF Hit, TaskRow
  <2>2. ASSUME Renaming PROVE HasRows(table')
    <3>1. HasRows(table)
      BY <2>2 DEF Keyed
    <3>2. q.op = "UPDATE_KEY" => q.arg = row.key \/ ~Has(table.keyMap, q.arg)
      BY <1>1, <1>2, <1>3, <2>1, <2>2, RenameAllowed
    <3> QED BY <1>2, <2>1, <3>1, <3>2, AffectedHasRows
  <2>3. ASSUME raised = {}, q.op = "UPDATE_KEY" PROVE RenameSafe'
    <3>1. HasRows(table) /\ RenameSafe
      BY <1>1, <2>3 DEF Keyed, Renaming
    <3>2. Size(table') = Size(table)
      BY <2>1, AffectedSize DEF Types
    <3> QED BY <1>1, <1>2, <1>3, <1>4, <2>1, <3>1, <3>2, SafeAfterHit
  <2> QED BY <2>2, <2>3
<1>6. CASE ~EvalCondition(q, row)
  <2>1. table' = table
    BY <1>6 DEF TaskRow
  <2> QED BY <1>1, <1>4, <2>1, SafeWhenLess DEF Keyed
<1> QED BY <1>5, <1>6

\* A task whose execute has returned renames nothing when none is asked to.
LEMMA StrayKeyed ==
  ASSUME Keyed, NEW t \in Tasks, StrayRow(t), NoRenames, HasRows(table)
  PROVE  HasRows(table')
<1>1. job[t].q.op # "UPDATE_KEY"
  BY DEF Keyed, NoRenames, Asked, NoFrame
<1>2. job[t].pos \in 1..Size(table)
  BY HasRowsData DEF StrayRow
<1>3. table' = table \/ table' = Affected(table, job[t].q, job[t].pos)
  BY DEF StrayRow
<1> QED BY <1>1, <1>2, <1>3, AffectedHasRows

\* The queries that the tasks were given.
LEMMA JobsAsked ==
  ASSUME Types, Keyed, [Next]_vars
  PROVE  \A t \in Tasks : Asked(job'[t].q) \/ job'[t].q = NoFrame.q
<1>1. \A t \in Tasks : Asked(job[t].q) \/ job[t].q = NoFrame.q
  BY DEF Keyed
<1>2. CASE job' = job
  BY <1>1, <1>2
<1>3. ASSUME NEW u \in Tasks, BeginRegion(u), Alive(u)
      PROVE  \A t \in Tasks : Asked(job'[t].q) \/ job'[t].q = NoFrame.q
  <2>1. Asked(frame.q)
    BY <1>3 DEF Alive, Types, Executing
  <2> DEFINE pos == RegionHead(Size(table), frame.n, u[2]) + 1
             tail == RegionTail(Size(table), frame.n, u[2])
             acc == Neutral(frame.q)
  <2>3. /\ job'[u] = [q |-> frame.q, pos |-> pos, tail |-> tail, acc |-> acc]
        /\ \A t \in Tasks \ {u} : job'[t] = job[t]
    BY <1>3, BeginRegionJob
  <2> HIDE DEF pos, tail, acc
  <2>2. job'[u].q = frame.q /\ \A t \in Tasks \ {u} : job'[t] = job[t]
    BY <2>3
  <2> QED BY <1>1, <2>1, <2>2
<1>4. ASSUME NEW u \in Tasks, TaskRow(u) \/ StrayRow(u)
      PROVE  \A t \in Tasks : Asked(job'[t].q) \/ job'[t].q = NoFrame.q
  <2>1. job'[u].q = job[u].q /\ \A t \in Tasks \ {u} : job'[t] = job[t]
    BY <1>4, TaskRowJob
  <2> QED BY <1>1, <2>1
<1>5. ASSUME NEW u \in Tasks, TaskRaise(u) \/ TaskMerge(u) \/ StrayEnd(u)
      PROVE  \A t \in Tasks : Asked(job'[t].q) \/ job'[t].q = NoFrame.q
  <2>1. job' = [job EXCEPT ![u] = NoJob]
    BY <1>5 DEF TaskRaise, TaskMerge, StrayEnd
  <2>2. job'[u] = NoJob /\ \A t \in Tasks \ {u} : job'[t] = job[t]
    BY <2>1, NoJobIsJob, JobReplaced
  <2> QED BY <1>1, <2>2 DEF NoJob
<1>6. CASE UNCHANGED vars
  BY <1>2, <1>6 DEF vars
<1>7. ASSUME NEW i \in DOMAIN Requests,
             Insert(Requests[i]) \/ Refuse(Requests[i]) \/ Start(Requests[i])
      PROVE  job' = job
  BY <1>7 DEF Insert, Refuse, Start, Receive
<1>8. CASE Execute \/ Configure \/ Exit \/ Join \/ TakeNext
  BY <1>2, <1>8 DEF Execute, InlineRow, InlineEnd, Submit, Await, AwaitEnd, DeleteCollected,
       CopyCollected, Configure, Exit, Join, TakeNext
<1>9. ASSUME NEW u \in Tasks,
             StrayCrash(u) \/ EndRegion(u) \/ (BeginRegion(u) /\ ~Alive(u))
      PROVE  job' = job
  BY <1>9 DEF StrayCrash, EndRegion, BeginRegion
<1> QED BY <1>2, <1>3, <1>4, <1>5, <1>6, <1>7, <1>8, <1>9 DEF Next, TaskStep

LEMMA CollectedHasRows ==
  ASSUME HasRows(table), DeleteCollected \/ CopyCollected
  PROVE  HasRows(table')
<1> DEFINE k == frame.acc[frame.i]
<1>1. \/ table' = table
      \/ Has(table.keyMap, k) /\ table' = DeleteByIndex(table, k)
      \/ /\ Has(table.keyMap, k) /\ CheckNotDuplicate(table, k)
         /\ table' = DuplicateKey(table, k)
  BY DEF DeleteCollected, CopyCollected
<1> HIDE DEF k
<1> QED BY <1>1, DeleteHasRows, DuplicateHasRows

LEMMA KeyedStep ==
  ASSUME Types, Failures, InRegions, Calm, Keyed, [Next]_vars
  PROVE  Keyed'
<1> DEFINE Loops == {"inline", "submit", "await"}
<1>1. \A t \in Tasks : Asked(job'[t].q) \/ job'[t].q = NoFrame.q
  BY JobsAsked
<1>2. Renaming' => Renaming
  BY RaisedStays DEF Renaming
<1>3. SUFFICES /\ main' = "inline" => frame'.i # 0
               /\ Renaming' => HasRows(table')
               /\ raised' = {} /\ main' \in Loops /\ frame'.q.op = "UPDATE_KEY"
                    => RenameSafe'
  BY <1>1 DEF Keyed
<1>4. CASE UNCHANGED vars
  BY <1>4 DEF vars, mainVars, poolVars, Keyed, Renaming, RenameSafe, Ahead, AheadOfTask, Hit
<1>5. ASSUME NEW i \in DOMAIN Requests, Insert(Requests[i]) \/ Refuse(Requests[i])
      PROVE  <1>3!1
  <2>1. main' = "ready"
    BY <1>5, ReturnTypes DEF Insert, Refuse
  <2>2. Renaming => HasRows(table')
    BY <1>5, InsertHasRows DEF Insert, Refuse, Keyed
  <2> QED BY <1>2, <2>1, <2>2
<1>6. ASSUME NEW i \in DOMAIN Requests, Start(Requests[i])
      PROVE  <1>3!1
  <2> DEFINE q == Requests[i]
             n == ThreadCount(idle_thread_num, Size(table))
  <2>1. table' = table /\ raised' = raised /\ frame'.q = q
    BY <1>6 DEF Start, Receive
  <2>2. main' = "inline" => frame'.i = 1
    BY <1>6 DEF Start
  <2>3. raised = {} /\ q.op = "UPDATE_KEY" => RenameSafe'
    BY <1>6, StartSafe DEF Keyed, Renaming
  <2> QED BY <1>2, <2>1, <2>2, <2>3 DEF Keyed
<1>7. CASE InlineRow
  <2>1. raised' = raised /\ main' \in {"ready", "inline"}
    BY <1>7, InlineRowFrame DEF InlineRow
  <2> QED BY <1>2, <1>7, <2>1, InlineKeyed
<1>8. CASE InlineEnd \/ AwaitEnd
  <2>1. table' = table /\ main' \notin Loops
    BY <1>8, ProceedTypes DEF InlineEnd, AwaitEnd
  <2> QED BY <1>2, <2>1 DEF Keyed
<1>9. CASE DeleteCollected \/ CopyCollected
  <2>1. main' \notin Loops
    BY <1>9, CollectedStep DEF DeleteCollected, CopyCollected
  <2> QED BY <1>2, <1>9, <2>1, CollectedHasRows DEF Keyed
<1>10. ASSUME NEW t \in Tasks, TaskRow(t)
       PROVE  <1>3!1
  <2>1. UNCHANGED <<main, num, frame, raised>> /\ main # "inline"
    BY <1>10 DEF TaskRow, MoreRows, Alive, mainVars
  <2> QED BY <1>2, <1>10, <2>1, TaskKeyed
<1>11. ASSUME NEW t \in Tasks, StrayRow(t)
       PROVE  <1>3!1
  <2>1. raised # {} /\ raised' = raised /\ UNCHANGED <<main, frame>>
    BY <1>11 DEF StrayRow, Stray, mainVars, Calm, NoStrayTask, Outstanding
  <2>2. Renaming => HasRows(table')
    BY <1>11, <2>1, StrayKeyed DEF Renaming, Keyed
  <2> QED BY <1>2, <2>1, <2>2 DEF Keyed
<1>12. ASSUME table' = table, num' = num, main \in Loops => frame'.q = frame.q,
              main' = main \/ main' \notin Loops \/ (main = "submit" /\ main' = "await"),
              main = "inline" => frame'.i = frame.i, frame'.n = frame.n
       PROVE  <1>3!1
  <2> SUFFICES ASSUME raised' = {}, main' \in Loops, frame'.q.op = "UPDATE_KEY"
               PROVE  RenameSafe'
    BY <1>2, <1>12 DEF Keyed
  <2>1. raised = {} /\ main \in Loops /\ frame'.q = frame.q /\ RenameSafe
    BY <1>12, RaisedStays DEF Keyed
  <2>2. \A p \in 1..Size(table) : Ahead(p)' => Ahead(p)
    <3>1. CASE main = "inline"
      BY <1>12, <3>1 DEF Ahead
    <3>2. CASE main \in {"submit", "await"}
      <4> SUFFICES ASSUME NEW p, Ahead(p)' PROVE Ahead(p)
        OBVIOUS
      <4>1. PICK i \in 0..frame.n-1 : AheadOfTask(<<num, i>>, p)'
        BY <1>12, <3>2 DEF Ahead
      <4> QED BY <1>12, <3>2, <4>1, StaysBehind DEF Ahead
    <3> QED BY <2>1, <3>1, <3>2
  <2> QED BY <1>12, <2>1, <2>2, SafeWhenLess
<1>13. CASE Configure \/ Exit \/ Join \/ TakeNext
  BY <1>12, <1>13 DEF Configure, Exit, Join, TakeNext, mainVars
<1>14. CASE Submit
  BY <1>12, <1>14, SubmitFrame DEF Submit
<1>15. CASE Await
  <2>1. CASE main' = "ready"
    BY <1>2, <1>15, <2>1 DEF Await, Keyed
  <2>2. CASE main' # "ready"
    BY <1>12, <1>15, <2>2, AwaitFrame DEF Await
  <2> QED BY <2>1, <2>2
<1>16. ASSUME NEW t \in Tasks,
              \/ BeginRegion(t) \/ TaskRaise(t) \/ TaskMerge(t)
              \/ StrayEnd(t) \/ StrayCrash(t) \/ EndRegion(t)
       PROVE  <1>3!1
  <2>1. table' = table /\ num' = num /\ main' \in {main, "crashed"}
    BY <1>16 DEF BeginRegion, TaskRaise, TaskMerge, StrayEnd, StrayCrash, EndRegion, mainVars
  <2>2. frame' = frame \/ \E acc : frame' = [frame EXCEPT !.acc = acc]
    BY <1>16 DEF BeginRegion, TaskRaise, TaskMerge, StrayEnd, StrayCrash, EndRegion, mainVars
  <2>3. frame'.q = frame.q /\ frame'.n = frame.n /\ frame'.i = frame.i
    BY <2>2, MergedFrame DEF Types
  <2> QED BY <1>12, <2>1, <2>3
<1> QED BY <1>4, <1>5, <1>6, <1>7, <1>8, <1>9, <1>10, <1>11, <1>13, <1>14, <1>15, <1>16
        DEF Next, Execute, TaskStep

LEMMA KeyedHolds == Spec => []Keyed
BY KeyedInit, KeyedStep, TypesHold, FailuresHold, RegionsHold, CalmHolds, PTL DEF Spec

(***************************************************************************)
(* keyMap leads from every key to its row and nowhere else after every row *)
(* of every query, inline or in tasks, with tasks that outlive their query *)
(* as well if no query renames a row, and otherwise as long as none throws.*)
(***************************************************************************)
THEOREM KeysStayUnique == Spec => [](NoRenames \/ raised = {} => KeysUnique)
<1>1. Keyed => (NoRenames \/ raised = {} => KeysUnique)
  BY HasRowsData DEF Keyed, Renaming, KeysUnique
<1> QED BY <1>1, KeyedHolds, PTL

-----------------------------------------------------------------------------
(* Crashes.  The keys that the tasks of DELETE and DUPLICATE collect are   *)
(* those of rows in their regions, each once, so that the loops over them  *)
(* find every key.                                                         *)

\* acc is a sequence of distinct keys of rows at positions from P.
KeysAt(map, acc, P) ==
  /\ \E S : acc \in Seq(S)
  /\ \A j, k \in 1..Len(acc) : acc[j] = acc[k] => j = k
  /\ \A j \in 1..Len(acc) : Has(map, acc[j]) /\ map[acc[j]] \in P

\* The rows of a task that it has visited, and those of the tasks that ended.
VisitedRows(t) == {p \in Region(Size(table), frame.n, t[2]) : p < job[t].pos}
MergedRows ==
  UNION {Region(Size(table), frame.n, i) : i \in {k \in 0..frame.n-1 : <<num, k>> \in ready}}

KeyOps == {"DELETE", "DUPLICATE"}

Collected ==
  /\ main \in {"submit", "await"} /\ frame.q.op \in KeyOps =>
       /\ KeysAt(table.keyMap, frame.acc, MergedRows)
       /\ \A t \in running : KeysAt(table.keyMap, job[t].acc, VisitedRows(t))
  /\ main = "inline" /\ frame.q.op = "DUPLICATE" =>
       KeysAt(table.keyMap, frame.acc, 1..frame.i-1)
  /\ main = "delete" =>
       /\ frame.i # 0 /\ \E S : frame.acc \in Seq(S)
       /\ \A j, k \in 1..Len(frame.acc) : frame.acc[j] = frame.acc[k] => j = k
       /\ \A j \in 1..Len(frame.acc) : j >= frame.i => Has(table.keyMap, frame.acc[j])
  /\ main = "copy" =>
       /\ frame.i # 0 /\ \E S : frame.acc \in Seq(S)
       /\ \A j \in 1..Len(frame.acc) : Has(table.keyMap, frame.acc[j])

\* A query that is to be split between no threads divides by their number.
NoThreads == Asked(frame.q) /\ frame.q.op \in CollectOps /\ frame.n = 0

Harmless == raised = {} => Collected /\ (main = "crashed" => NoThreads)

LEMMA NoKeys ==
  ASSUME NEW map, NEW P
  PROVE  KeysAt(map, <<>>, P)
<1>1. <<>> \in Seq({}) /\ 1..Len(<<>>) = {}
  OBVIOUS
<1>2. \E S : <<>> \in Seq(S)
  BY <1>1, Zenon
<1> QED BY <1>1, <1>2, Zenon DEF KeysAt

LEMMA MoreRowsKeys ==
  ASSUME NEW map, NEW acc, NEW P, NEW Q, KeysAt(map, acc, P), P \subseteq Q
  PROVE  KeysAt(map, acc, Q)
BY DEF KeysAt

LEMMA JoinKeys ==
  ASSUME NEW map, NEW a, NEW b, NEW P, NEW Q,
         KeysAt(map, a, P), KeysAt(map, b, Q), P \cap Q = {}
  PROVE  KeysAt(map, a \o b, P \cup Q)
<1>1. PICK S : a \in Seq(S)
  BY DEF KeysAt
<1>2. PICK T : b \in Seq(T)
  BY DEF KeysAt
<1>3. a \in Seq(S \cup T) /\ b \in Seq(S \cup T)
  BY <1>1, <1>2
<1> DEFINE c == a \o b
<1>4. c \in Seq(S \cup T) /\ Len(c) = Len(a) + Len(b) /\ Len(a) \in Nat /\ Len(b) \in Nat
  BY <1>3
<1>5. \A j \in 1..Len(c) :
        \/ j \in 1..Len(a) /\ c[j] = a[j]
        \/ j > Len(a) /\ j - Len(a) \in 1..Len(b) /\ c[j] = b[j - Len(a)]
  BY <1>3
<1> HIDE DEF c
<1>6. ASSUME NEW j \in 1..Len(c) PROVE Has(map, c[j]) /\ map[c[j]] \in P \cup Q
  BY <1>5 DEF KeysAt
<1>7. ASSUME NEW j \in 1..Len(c), NEW k \in 1..Len(c), c[j] = c[k] PROVE j = k
  <2>1. CASE j \in 1..Len(a) /\ c[j] = a[j] /\ k \in 1..Len(a) /\ c[k] = a[k]
    BY <1>7, <2>1 DEF KeysAt
  <2>2. CASE /\ j - Len(a) \in 1..Len(b) /\ c[j] = b[j - Len(a)]
             /\ k - Len(a) \in 1..Len(b) /\ c[k] = b[k - Len(a)]
    <3>1. j - Len(a) = k - Len(a)
      BY <1>7, <2>2 DEF KeysAt
    <3> QED BY <1>4, <3>1
  <2>3. CASE \/ /\ j \in 1..Len(a) /\ c[j] = a[j]
                /\ k - Len(a) \in 1..Len(b) /\ c[k] = b[k - Len(a)]
             \/ /\ k \in 1..Len(a) /\ c[k] = a[k]
                /\ j - Len(a) \in 1..Len(b) /\ c[j] = b[j - Len(a)]
    <3>1. map[c[j]] \in P \cap Q
      BY <1>7, <2>3 DEF KeysAt
    <3> QED BY <3>1
  <2> QED BY <1>5, <2>1, <2>2, <2>3
<1>8. \E U : c \in Seq(U)
  BY <1>4
<1> QED BY <1>6, <1>7, <1>8 DEF KeysAt, c

LEMMA OneKey ==
  ASSUME NEW map, NEW k, Has(map, k)
  PROVE  KeysAt(map, <<k>>, {map[k]})
<1> DEFINE c == <<k>>
<1>1. c \in Seq({k}) /\ 1..Len(c) = {1} /\ c[1] = k
  OBVIOUS
<1> HIDE DEF c
<1>2. \E S : c \in Seq(S)
  BY <1>1, Zenon
<1>3. KeysAt(map, c, {map[k]})
  BY <1>1, <1>2, Zenon DEF KeysAt
<1> QED BY <1>3 DEF c

\* A visit adds the key of the row, or nothing.
LEMMA VisitKeys ==
  ASSUME NEW t, NEW q, q.op \in KeyOps, NEW acc, NEW row, NEW P,
         KeysAt(t.keyMap, acc, P), Has(t.keyMap, row.key), t.keyMap[row.key] \notin P
  PROVE  KeysAt(t.keyMap, Visit(t, q, acc, row), P \cup {t.keyMap[row.key]})
<1> DEFINE p == t.keyMap[row.key]
<1>1. \/ Visit(t, q, acc, row) = acc \o <<row.key>>
      \/ Visit(t, q, acc, row) = acc \o <<>>
  <2>1. Found(t, q, row) = <<row.key>> \/ Found(t, q, row) = <<>>
    BY DEF Found, KeyOps, DeleteRow, DuplicateRow
  <2>2. Merge(q, acc, Found(t, q, row)) = acc \o Found(t, q, row)
    BY DEF Merge, KeyOps, CollectOps
  <2> QED BY <2>1, <2>2 DEF Visit
<1>2. KeysAt(t.keyMap, <<row.key>>, {p}) /\ KeysAt(t.keyMap, <<>>, {p})
  BY OneKey, NoKeys
<1>3. P \cap {p} = {}
  OBVIOUS
<1> HIDE DEF p
<1>4. KeysAt(t.keyMap, acc \o <<row.key>>, P \cup {p})
      /\ KeysAt(t.keyMap, acc \o <<>>, P \cup {p})
  BY <1>2, <1>3, JoinKeys
<1>5. KeysAt(t.keyMap, Visit(t, q, acc, row), P \cup {p})
  BY <1>1, <1>4, Zenon
<1> QED BY <1>5 DEF p

\* The queries that collect keys change no row before they have all of them.
LEMMA NothingAffected ==
  ASSUME NEW t, NEW q, q.op \in KeyOps, NEW p
  PROVE  Affected(t, q, p) = t /\ Neutral(q) = <<>>
BY DEF Affected, Neutral, KeyOps, CollectOps, FieldOps

\* The keys of a batch after a step that keeps the batch and its results.
LEMMA BatchCollected ==
  ASSUME main \in {"submit", "await"}, main' \in {"submit", "await"},
         table' = table, num' = num, frame'.n = frame.n, frame'.q = frame.q,
         frame'.acc = frame.acc, ready \subseteq ready', Collected,
         \A t \in running' : frame.q.op \in KeyOps =>
           KeysAt(table.keyMap, job'[t].acc, VisitedRows(t)')
  PROVE  Collected'
<1>1. MergedRows \subseteq MergedRows'
  BY DEF MergedRows
<1>2. frame.q.op \in KeyOps => KeysAt(table.keyMap, frame.acc, MergedRows')
  BY <1>1, MoreRowsKeys DEF Collected
<1> QED BY <1>2 DEF Collected

LEMMA VisitedKept ==
  ASSUME table' = table, frame'.n = frame.n, NEW t, job'[t] = job[t]
  PROVE  VisitedRows(t)' = VisitedRows(t)
BY DEF VisitedRows

\* The same for the steps that leave the jobs alone, or begin or end one.
LEMMA JobsCollected ==
  ASSUME Types, main \in {"submit", "await"}, main' \in {"submit", "await"},
         table' = table, num' = num, frame'.n = frame.n, frame'.q = frame.q,
         frame'.acc = frame.acc, ready \subseteq ready', Collected,
         \A t \in running' :
           \/ t \in running /\ job'[t] = job[t]
           \/ frame.q.op \in KeyOps => job'[t].acc = <<>>
  PROVE  Collected'
<1>1. ASSUME NEW t \in running', frame.q.op \in KeyOps
      PROVE  KeysAt(table.keyMap, job'[t].acc, VisitedRows(t)')
  <2>1. CASE t \in running /\ job'[t] = job[t]
    <3>1. VisitedRows(t)' = VisitedRows(t)
      BY <2>1, VisitedKept
    <3>2. KeysAt(table.keyMap, job[t].acc, VisitedRows(t))
      BY <1>1, <2>1 DEF Collected
    <3> QED BY <2>1, <3>1, <3>2
  <2>2. CASE job'[t].acc = <<>>
    BY <2>2, NoKeys
  <2> QED BY <1>1, <2>1, <2>2
<1> QED BY <1>1, BatchCollected

LEMMA StartCollected ==
  ASSUME Types, Failures, Calm, raised = {}, NEW i \in DOMAIN Requests, Start(Requests[i])
  PROVE  Collected' /\ (main' = "crashed" => NoThreads')
<1> DEFINE q == Requests[i]
           n == ThreadCount(idle_thread_num, Size(table))
<1>1. running' = {}
  <2>1. main = "ready" /\ running' = running
    BY DEF Start, Receive, poolVars
  <2>2. Outstanding = {}
    BY <2>1, NoneOutstanding DEF Calm
  <2> QED BY <2>1, <2>2 DEF Outstanding
<1>2. frame'.q = q /\ frame'.acc = Neutral(q) /\ main' \in {"inline", "submit", "crashed"}
  BY DEF Start
<1>3. q.op \in KeyOps => frame'.acc = <<>>
  BY <1>2, NothingAffected
<1>4. \A P : KeysAt(table'.keyMap, <<>>, P)
  BY NoKeys
<1>5. Collected'
  BY <1>1, <1>2, <1>3, <1>4 DEF Collected, KeyOps
<1>6. ASSUME main' = "crashed" PROVE NoThreads'
  <2>1. /\ ~RunsInline(Execution(q.op).alone, idle_thread_num, Size(table))
        /\ n = 0 /\ frame'.n = n
    BY <1>6 DEF Start
  <2>2. Asked(q) /\ idle_thread_num \in Int /\ Size(table) \in Nat
    BY DataSize DEF Asked, Types, PoolInv, PoolTypes
  <2>3. Execution(q.op).alone # {0, 1}
    BY <2>1, <2>2, BatchesFit
  <2>4. q.op \in CollectOps
    BY <2>2, <2>3, RestOfQuery
  <2> QED BY <1>2, <2>1, <2>2, <2>4 DEF NoThreads
<1> QED BY <1>5, <1>6

LEMMA InlineCollected ==
  ASSUME Types, Keyed, raised = {}, Collected, InlineRow
  PROVE  Collected'
<1> DEFINE q == frame.q
           p == frame.i
           row == table.data[p]
<1>1. main = "inline" /\ main' \in {"ready", "inline"}
  BY InlineRowFrame DEF InlineRow
<1>2. SUFFICES ASSUME main' = "inline", frame'.q.op = "DUPLICATE"
               PROVE  KeysAt(table'.keyMap, frame'.acc, 1..frame'.i-1)
  BY <1>1 DEF Collected
<1>3. /\ frame'.q = q /\ p \in 1..Size(table) /\ HasRows(table) /\ p \in Nat
  BY <1>1, <1>2, InlineRowFrame, DataSize DEF InlineRow, Keyed, Types, TypeOK, Renaming
<1>4. q.op \in KeyOps /\ KeysAt(table.keyMap, frame.acc, 1..p-1)
  BY <1>1, <1>2, <1>3 DEF Collected, KeyOps
<1>5. ~VisitRaises(q, row)
  BY <1>2, ReturnError DEF InlineRow
<1>6. CASE ~EvalCondition(q, row)
  <2>1. frame' = [frame EXCEPT !.i = p + 1] /\ table' = table
    BY <1>5, <1>6 DEF InlineRow
  <2>2. frame'.i = p + 1 /\ frame'.acc = frame.acc
    BY <1>3, <2>1, p + 1 \in Nat, CountedFrame DEF Types
  <2>3. 1..p-1 \subseteq 1..frame'.i-1
    BY <1>3, <2>2
  <2>4. KeysAt(table.keyMap, frame.acc, 1..frame'.i-1)
    BY <1>4, <2>3, MoreRowsKeys, Zenon
  <2> QED BY <2>1, <2>2, <2>4
<1>7. CASE EvalCondition(q, row)
  <2> DEFINE acc == Visit(table, q, frame.acc, row)
  <2>1. frame' = [frame EXCEPT !.acc = acc, !.i = p + 1] /\ table' = Affected(table, q, p)
    BY <1>2, <1>3, <1>5, <1>7 DEF InlineRow
  <2>2. Has(table.keyMap, row.key) /\ table.keyMap[row.key] = p
    BY <1>3, HasRowsData
  <2>3. KeysAt(table.keyMap, acc, (1..p-1) \cup {p})
    BY <1>3, <1>4, <2>2, p \notin 1..p-1, VisitKeys
  <2> HIDE DEF acc
  <2>4. frame'.i = p + 1 /\ frame'.acc = acc /\ table' = table
    BY <1>3, <1>4, <2>1, p + 1 \in Nat, VisitedFrame, NothingAffected DEF Types
  <2>5. (1..p-1) \cup {p} \subseteq 1..frame'.i-1
    BY <1>3, <2>4
  <2>6. KeysAt(table.keyMap, acc, 1..frame'.i-1)
    BY <2>3, <2>5, MoreRowsKeys, Zenon
  <2> QED BY <2>4, <2>6
<1> QED BY <1>6, <1>7

LEMMA TaskCollected ==
  ASSUME Types, Failures, InRegions, Keyed, raised = {}, Collected,
         NEW t \in Tasks, TaskRow(t)
  PROVE  Collected'
<1> DEFINE q == frame.q
           p == job[t].pos
           row == table.data[p]
<1>1. /\ MoreRows(t) /\ main \in {"submit", "await"} /\ t \in running
      /\ UNCHANGED <<main, num, frame, ready, running>>
  BY DEF TaskRow, MoreRows, Alive, mainVars, poolVars
<1>2. SUFFICES ASSUME q.op \in KeyOps PROVE Collected'
  BY <1>1 DEF Collected
<1>3. table' = table
  BY <1>2, NothingAffected DEF TaskRow
<1>4. p \in 1..Size(table) /\ p \in Region(Size(table), frame.n, t[2]) /\ p \in Int
  BY <1>1, RowOfTask
<1>5. job'[t].pos = p + 1 /\ \A u \in Tasks \ {t} : job'[u] = job[u]
  BY TaskRowJob
<1>6. KeysAt(table.keyMap, job'[t].acc, VisitedRows(t)')
  <2>1. VisitedRows(t) \cup {p} \subseteq VisitedRows(t)' /\ p \notin VisitedRows(t)
    BY <1>1, <1>3, <1>4, <1>5 DEF VisitedRows, Region
  <2>2. KeysAt(table.keyMap, job[t].acc, VisitedRows(t))
    BY <1>1, <1>2 DEF Collected
  <2>3. CASE EvalCondition(q, row)
    <3>1. job'[t].acc = Visit(table, q, job[t].acc, row)
      BY <2>3, TaskRowJob
    <3>2. Has(table.keyMap, row.key) /\ table.keyMap[row.key] = p
      BY <1>4, HasRowsData DEF Keyed, Renaming
    <3>3. KeysAt(table.keyMap, job'[t].acc, VisitedRows(t) \cup {p})
      BY <1>2, <2>1, <2>2, <3>1, <3>2, VisitKeys
    <3> QED BY <2>1, <3>3, MoreRowsKeys
  <2>4. CASE ~EvalCondition(q, row)
    <3>1. job'[t].acc = job[t].acc
      BY <2>4, TaskRowJob
    <3> QED BY <2>1, <2>2, <3>1, MoreRowsKeys
  <2> QED BY <2>3, <2>4
<1>7. ASSUME NEW u \in running', u # t
      PROVE  KeysAt(table.keyMap, job'[u].acc, VisitedRows(u)')
  <2>1. u \in running /\ u \in Tasks
    BY <1>1, <1>7 DEF Types, PoolInv, PoolTypes
  <2>2. job'[u] = job[u] /\ VisitedRows(u)' = VisitedRows(u)
    BY <1>1, <1>3, <1>5, <1>7, <2>1, VisitedKept
  <2> QED BY <1>1, <1>2, <2>1, <2>2 DEF Collected
<1> QED BY <1>1, <1>3, <1>6, <1>7, BatchCollected

LEMMA MergeCollected ==
  ASSUME Types, Failures, Collected, NEW t \in Tasks, TaskMerge(t)
  PROVE  Collected'
<1> DEFINE q == frame.q
           acc == Merge(q, frame.acc, job[t].acc)
<1>1. /\ t \in running /\ Alive(t) /\ main \in {"submit", "await"}
      /\ UNCHANGED <<main, num, table>> /\ frame' = [frame EXCEPT !.acc = acc]
      /\ running' = running \ {t} /\ ready' = ready \cup {t}
      /\ job' = [job EXCEPT ![t] = NoJob]
  BY DEF TaskMerge, Alive, FinishTask
<1>2. frame'.q = q /\ frame'.n = frame.n /\ frame'.acc = acc
  BY <1>1, MergedFrame DEF Types
<1>3. SUFFICES ASSUME q.op \in KeyOps PROVE Collected'
  BY <1>1, <1>2 DEF Collected
<1>4. t = <<num, t[2]>> /\ t[2] \in 0..frame.n-1 /\ frame.n \in Nat \ {0} /\ t \notin ready
  BY <1>1, TaskOfBatch DEF Submitted, Types, PoolInv, OncePerTask
<1>5. acc = frame.acc \o job[t].acc
  BY <1>3 DEF Merge, KeyOps, CollectOps
<1>6. MergedRows \cap VisitedRows(t) = {}
  <2> SUFFICES ASSUME NEW k \in 0..frame.n-1, <<num, k>> \in ready
               PROVE  Region(Size(table), frame.n, k) \cap Region(Size(table), frame.n, t[2]) = {}
    BY DEF MergedRows, VisitedRows
  <2>1. k # t[2] /\ Size(table) \in Nat
    BY <1>4, DataSize DEF Types
  <2> QED BY <1>4, <2>1, RegionsDisjoint DEF Disjoint
<1>7. MergedRows \cup VisitedRows(t) \subseteq MergedRows'
  BY <1>1, <1>2, <1>4 DEF MergedRows, VisitedRows
<1>8. KeysAt(table.keyMap, frame.acc, MergedRows) /\ KeysAt(table.keyMap, job[t].acc, VisitedRows(t))
  BY <1>1, <1>3 DEF Collected
<1>9. KeysAt(table.keyMap, acc, MergedRows')
  BY <1>5, <1>6, <1>7, <1>8, JoinKeys, MoreRowsKeys
<1>10. ASSUME NEW u \in running'
       PROVE  KeysAt(table.keyMap, job'[u].acc, VisitedRows(u)')
  <2>1. u \in running /\ u # t /\ u \in Tasks
    BY <1>1, <1>10 DEF Types, PoolInv, PoolTypes
  <2>2. job'[u] = job[u]
    BY <1>1, <2>1, JobEnded
  <2>3. VisitedRows(u)' = VisitedRows(u)
    BY <1>1, <1>2, <2>2, VisitedKept
  <2> QED BY <1>1, <1>3, <2>1, <2>2, <2>3 DEF Collected
<1> HIDE DEF acc
<1> QED BY <1>1, <1>2, <1>9, <1>10 DEF Collected

LEMMA DeleteKeeps ==
  ASSUME NEW t, NEW k, NEW other, Has(t.keyMap, other), other # k
  PROVE  Has(DeleteByIndex(t, k).keyMap, other)
BY DEF DeleteByIndex, Has, Erase, Put

LEMMA DuplicateKeeps ==
  ASSUME NEW t, NEW k, NEW other, Has(t.keyMap, other)
  PROVE  Has(DuplicateKey(t, k).keyMap, other)
BY DEF DuplicateKey, InsertByIndex, Has, Emplace, Put

LEMMA ProceedCollected ==
  ASSUME Types, Collected, InlineEnd \/ AwaitEnd
  PROVE  Collected' /\ main' # "crashed"
<1> DEFINE q == frame.q
<1>1. main \in {"inline", "await"} /\ Proceed /\ table' = table /\ Asked(q)
  BY DEF InlineEnd, AwaitEnd, Types, Executing
<1>2. main' \in {"ready", "delete", "copy"}
  BY <1>1, ProceedTypes
<1>3. CASE main' = "ready"
  BY <1>3 DEF Collected
<1>4. CASE main' \in {"delete", "copy"}
  <2>1. /\ main' = Execution(q.op).rest[main] /\ Execution(q.op).rest[main] # "none"
        /\ frame' = [frame EXCEPT !.i = 1]
    BY <1>1, <1>4 DEF Proceed, Return
  <2>2. frame'.i = 1 /\ frame'.acc = frame.acc
    BY <2>1, CountedFrame DEF Types
  <2>3. \/ main = "await" /\ q.op \in KeyOps
        \/ main = "inline" /\ q.op = "DUPLICATE" /\ main' = "copy"
    BY <1>1, <2>1, RestOfQuery DEF KeyOps
  <2>4. \E P : KeysAt(table.keyMap, frame.acc, P)
    BY <2>3 DEF Collected
  <2>5. /\ \E S : frame.acc \in Seq(S)
        /\ \A j, k \in 1..Len(frame.acc) : frame.acc[j] = frame.acc[k] => j = k
        /\ \A j \in 1..Len(frame.acc) : Has(table.keyMap, frame.acc[j])
    BY <2>4 DEF KeysAt
  <2> QED BY <1>1, <1>4, <2>2, <2>5 DEF Collected
<1> QED BY <1>2, <1>3, <1>4

LEMMA DeleteCollectedKeys ==
  ASSUME Types, Collected, DeleteCollected
  PROVE  Collected' /\ main' # "crashed"
<1> DEFINE acc == frame.acc
           i == frame.i
           k == acc[i]
<1>1. /\ main = "delete" /\ i # 0 /\ i \in Nat
      /\ \A j, l \in 1..Len(acc) : acc[j] = acc[l] => j = l
      /\ \A j \in 1..Len(acc) : j >= i => Has(table.keyMap, acc[j])
  BY DEF DeleteCollected, Collected, Types, IsFrame
<1>2. PICK S : acc \in Seq(S)
  BY <1>1 DEF Collected
<1>3. CASE i > Len(acc)
  BY <1>3, ReturnAnswer DEF DeleteCollected, Collected
<1>4. CASE ~(i > Len(acc))
  <2>1. i \in 1..Len(acc) /\ Has(table.keyMap, k)
    BY <1>1, <1>2, <1>4
  <2>2. table' = DeleteByIndex(table, k) /\ main' = "delete" /\ frame' = [frame EXCEPT !.i = i + 1]
    BY <1>1, <1>4, <2>1 DEF DeleteCollected
  <2>3. frame'.i = i + 1 /\ frame'.acc = acc
    BY <1>1, <2>2, i + 1 \in Nat, CountedFrame DEF Types
  <2>4. ASSUME NEW j \in 1..Len(acc), j >= i + 1
        PROVE  Has(table'.keyMap, acc[j])
    <3>1. Has(table.keyMap, acc[j]) /\ acc[j] # k
      BY <1>1, <2>1, <2>4
    <3> QED BY <2>2, <3>1, DeleteKeeps
  <2>5. frame'.i # 0
    BY <1>1, <2>3
  <2> QED BY <1>1, <1>2, <2>2, <2>3, <2>4, <2>5 DEF Collected
<1> QED BY <1>3, <1>4

LEMMA CopyCollectedKeys ==
  ASSUME Types, Collected, CopyCollected
  PROVE  Collected' /\ main' # "crashed"
<1> DEFINE acc == frame.acc
           i == frame.i
           k == acc[i]
<1>1. /\ main = "copy" /\ i # 0 /\ i \in Nat
      /\ \A j \in 1..Len(acc) : Has(table.keyMap, acc[j])
  BY DEF CopyCollected, Collected, Types, IsFrame
<1>2. PICK S : acc \in Seq(S)
  BY <1>1 DEF Collected
<1>3. CASE i > Len(acc)
  BY <1>3, ReturnAnswer DEF CopyCollected, Collected
<1>4. CASE ~(i > Len(acc))
  <2>1. Has(table.keyMap, k)
    BY <1>1, <1>2, <1>4
  <2>2. CASE ~CheckNotDuplicate(table, k)
    BY <1>4, <2>1, <2>2, ReturnError DEF CopyCollected, Collected
  <2>3. CASE CheckNotDuplicate(table, k)
    <3>1. table' = DuplicateKey(table, k) /\ main' = "copy" /\ frame' = [frame EXCEPT !.i = i + 1]
      BY <1>1, <1>4, <2>1, <2>3 DEF CopyCollected
    <3>2. frame'.i = i + 1 /\ frame'.acc = acc /\ frame'.i # 0
      BY <1>1, <3>1, i + 1 \in Nat, CountedFrame DEF Types
    <3>3. \A j \in 1..Len(acc) : Has(table'.keyMap, acc[j])
      BY <1>1, <3>1, DuplicateKeeps
    <3> QED BY <1>2, <3>1, <3>2, <3>3 DEF Collected
  <2> QED BY <2>2, <2>3
<1> QED BY <1>3, <1>4

LEMMA HarmlessStep ==
  ASSUME Types, Failures, InRegions, Calm, Keyed, Harmless, [Next]_vars
  PROVE  Harmless'
<1> DEFINE Kept == Collected' /\ (main' = "crashed" => NoThreads')
<1>1. SUFFICES ASSUME raised' = {} PROVE Kept
  BY DEF Harmless
<1>2. /\ raised = {} /\ Collected /\ (main = "crashed" => NoThreads)
      /\ NoStrayTask
  BY <1>1, RaisedStays DEF Harmless, Calm
<1>3. CASE UNCHANGED vars
  BY <1>2, <1>3 DEF vars, mainVars, poolVars, Collected, VisitedRows, MergedRows, NoThreads, Asked
<1>4. ASSUME NEW i \in DOMAIN Requests, Insert(Requests[i]) \/ Refuse(Requests[i])
      PROVE  Kept
  <2>1. main' = "ready"
    BY <1>4, ReturnTypes DEF Insert, Refuse
  <2> QED BY <2>1 DEF Collected
<1>5. ASSUME NEW i \in DOMAIN Requests, Start(Requests[i])
      PROVE  Kept
  BY <1>2, <1>5, StartCollected
<1>6. CASE InlineRow
  <2>1. main' # "crashed"
    BY <1>6, InlineRowFrame
  <2> QED BY <1>2, <1>6, <2>1, InlineCollected
<1>7. CASE InlineEnd \/ AwaitEnd
  BY <1>2, <1>7, ProceedCollected
<1>8. CASE DeleteCollected \/ CopyCollected
  BY <1>2, <1>8, DeleteCollectedKeys, CopyCollectedKeys
<1>9. CASE Submit
  <2>1. /\ main = "submit" /\ main' \in {"submit", "await"} /\ table' = table /\ num' = num
        /\ frame'.n = frame.n /\ frame'.q = frame.q /\ frame'.acc = frame.acc
        /\ UNCHANGED <<ready, running, job>>
    BY <1>9, SubmitFrame DEF Submit, AddTask
  <2> QED BY <1>2, <2>1, JobsCollected
<1>10. CASE Await
  <2>1. /\ main = "await" /\ main' = "await" /\ table' = table /\ num' = num
        /\ frame'.n = frame.n /\ frame'.q = frame.q /\ frame'.acc = frame.acc
        /\ UNCHANGED <<ready, running, job>>
    BY <1>2, <1>10, AwaitFrame DEF Await, poolVars
  <2> QED BY <1>2, <2>1, JobsCollected
<1>11. CASE Configure \/ Exit \/ Join
  BY <1>11 DEF Configure, Exit, Join, Collected
<1>12. CASE TakeNext
  <2>1. UNCHANGED <<main, num, frame, table, job, running, ready>>
    BY <1>12 DEF TakeNext, TakeTask, mainVars
  <2> QED BY <1>2, <2>1 DEF Collected, VisitedRows, MergedRows, NoThreads, Asked
<1>13. ASSUME NEW t \in Tasks, BeginRegion(t)
       PROVE  Kept
  <2>1. /\ UNCHANGED <<main, num, frame, table, ready>> /\ running' = running \cup {t}
        /\ main # "crashed"
    BY <1>13 DEF BeginRegion, BeginTask, mainVars
  <2>2. Alive(t)
    BY <1>2, <1>13 DEF BeginRegion, BeginTask, NoStrayTask, Outstanding
  <2> DEFINE pos == RegionHead(Size(table), frame.n, t[2]) + 1
             tail == RegionTail(Size(table), frame.n, t[2])
  <2>3. /\ job'[t] = [q |-> frame.q, pos |-> pos, tail |-> tail, acc |-> Neutral(frame.q)]
        /\ \A u \in Tasks \ {t} : job'[u] = job[u]
    BY <1>13, <2>2, BeginRegionJob
  <2> HIDE DEF pos, tail
  <2>4. frame.q.op \in KeyOps => job'[t].acc = <<>>
    BY <2>3, NothingAffected
  <2>5. \A u \in running' : u = t \/ (u \in running /\ job'[u] = job[u])
    BY <2>1, <2>3 DEF Types, PoolInv, PoolTypes
  <2> QED BY <1>2, <2>1, <2>2, <2>4, <2>5, JobsCollected DEF Alive
<1>14. ASSUME NEW t \in Tasks, TaskRow(t)
       PROVE  Kept
  BY <1>2, <1>14, TaskCollected DEF TaskRow, MoreRows, Alive, mainVars
<1>15. ASSUME NEW t \in Tasks, TaskMerge(t)
       PROVE  Kept
  BY <1>2, <1>15, MergeCollected DEF TaskMerge, Alive
<1>16. ASSUME NEW t \in Tasks, TaskRaise(t) \/ StrayRow(t) \/ StrayEnd(t) \/ StrayCrash(t)
       PROVE  FALSE
  BY <1>1, <1>2, <1>16 DEF TaskRaise, StrayRow, StrayEnd, StrayCrash, Stray, NoStrayTask,
                           Outstanding
<1>17. ASSUME NEW t \in Tasks, EndRegion(t)
       PROVE  Kept
  <2>1. UNCHANGED <<main, num, frame, table, job, running, ready>>
    BY <1>17 DEF EndRegion, EndTask, mainVars
  <2> QED BY <1>2, <2>1 DEF Collected, VisitedRows, MergedRows, NoThreads, Asked
<1> QED BY <1>3, <1>4, <1>5, <1>6, <1>7, <1>8, <1>9, <1>10, <1>11, <1>12, <1>13, <1>14,
           <1>15, <1>16, <1>17 DEF Next, Execute, TaskStep

LEMMA HarmlessHolds == Spec => []Harmless
<1>1. Init => Harmless
  BY DEF Init, Harmless, Collected
<1> QED BY <1>1, HarmlessStep, TypesHold, FailuresHold, RegionsHold, CalmHolds, KeyedHolds,
           PTL DEF Spec

(***************************************************************************)
(* As long as no task has thrown, the process is killed in one way only: a *)
(* SELECT, DELETE or DUPLICATE is split between no threads.  Whatever keys *)
(* DELETE and DUPLICATE collect, they find all of them.                    *)
(***************************************************************************)
THEOREM CrashesWithoutThreads ==
  Spec => [](raised = {} /\ main = "crashed" => frame.q.op \in CollectOps /\ frame.n = 0)
<1>1. Harmless => (raised = {} /\ main = "crashed" => frame.q.op \in CollectOps /\ frame.n = 0)
  BY DEF Harmless, NoThreads
<1> QED BY <1>1, HarmlessHolds, PTL

NoneCollect == \A i \in DOMAIN Requests : Requests[i].op \notin CollectOps

\* The other queries test for no idle thread too.
LEMMA SafeUntilThrown ==
  ASSUME NoneCollect
  PROVE  Spec => [](raised = {} => NeverCrashes)
<1>1. Harmless => (raised = {} => NeverCrashes)
  BY DEF Harmless, NoThreads, NeverCrashes, NoneCollect, Asked
<1> QED BY <1>1, HarmlessHolds, PTL

\* With one thread every query runs by itself.
Alone == Submitted = {} /\ main \notin {"submit", "await", "crashed"}

LEMMA AloneStep ==
  ASSUME ThreadNum = 1, UIntModulus # 1,
         Types, Failures, IdleCounted, Harmless, Alone, [Next]_vars
  PROVE  Alone'
<1>1. raised = {} /\ Submitted = {} /\ Collected /\ main \notin {"submit", "await", "crashed"}
  BY DEF Alone, Harmless, Submitted, Types, TypeOK
<1>2. CASE UNCHANGED vars
  BY <1>1, <1>2 DEF vars, mainVars, poolVars, Alone, Submitted, QueuedTasks
<1>3. \A t \in Tasks : ~TaskStep(t)
  BY <1>1 DEF TaskStep, BeginRegion, BeginTask, TaskRow, MoreRows, TaskRaise, TaskMerge,
       StrayRow, Stray, StrayEnd, StrayCrash, EndRegion, EndTask, Submitted, Types, PoolInv,
       PoolTypes
<1>4. ~TakeNext
  BY <1>1, TakeTaskStep DEF TakeNext, Types, Submitted
<1>5. ASSUME UNCHANGED poolVars, main' \notin {"submit", "await", "crashed"}
      PROVE  Alone'
  BY <1>1, <1>5 DEF poolVars, Alone, Submitted, QueuedTasks
<1>6. ASSUME NEW i \in DOMAIN Requests,
             Insert(Requests[i]) \/ Refuse(Requests[i])
      PROVE  Alone'
  BY <1>5, <1>6, ReturnTypes DEF Insert, Refuse, Receive
<1>7. ASSUME NEW i \in DOMAIN Requests, Start(Requests[i])
      PROVE  Alone'
  <2> DEFINE q == Requests[i]
  <2>1. Asked(q)
    BY DEF Asked
  <2>2. 1 \in Execution(q.op).alone
    BY <2>1, RestOfQuery
  <2>3. idle_thread_num = 1
    <3>1. main = "ready" /\ lagging = {} /\ running = {}
      BY <1>1, <1>7 DEF Start, Receive, Submitted, Types, PoolInv, PoolTypes
    <3> QED BY <3>1, FS_EmptySet DEF IdleCounted, Busy
  <2>4. Unsigned(idle_thread_num) = 1
    BY <2>3, UIntModulusAssumption DEF Unsigned
  <2>5. RunsInline(Execution(q.op).alone, idle_thread_num, Size(table))
    BY <2>2, <2>4 DEF RunsInline
  <2>6. main' = "inline" /\ UNCHANGED poolVars
    BY <1>7, <2>5 DEF Start, Receive
  <2> QED BY <1>5, <2>6
<1>8. CASE InlineRow
  BY <1>5, <1>8, InlineRowFrame DEF InlineRow
<1>9. CASE InlineEnd \/ AwaitEnd
  BY <1>1, <1>5, <1>9, ProceedTypes DEF InlineEnd, AwaitEnd
<1>10. CASE DeleteCollected \/ CopyCollected
  <2>1. main' \notin {"submit", "await"}
    BY <1>1, <1>10, CollectedStep
  <2>2. main' # "crashed"
    BY <1>1, <1>10, DeleteCollectedKeys, CopyCollectedKeys
  <2> QED BY <1>5, <1>10, <2>1, <2>2 DEF DeleteCollected, CopyCollected
<1>11. ~Submit /\ ~Await
  BY <1>1 DEF Submit, Await
<1>12. CASE Configure \/ Exit \/ Join
  <2>1. main' \notin {"submit", "await", "crashed"}
    BY <1>12 DEF Configure, Exit, Join
  <2>2. Submitted' = {}
    BY <1>1, <1>12 DEF Configure, Exit, Join, SetThread, Close, Discard, Submitted, QueuedTasks
  <2> QED BY <2>1, <2>2 DEF Alone
<1> QED BY <1>2, <1>3, <1>4, <1>6, <1>7, <1>8, <1>9, <1>10, <1>11, <1>12 DEF Next, Execute

(***************************************************************************)
(* With a single thread lemondb never kills itself, whatever it is asked.  *)
(***************************************************************************)
THEOREM SingleThreadNeverCrashes ==
  ASSUME ThreadNum = 1, UIntModulus # 1
  PROVE  Spec => []NeverCrashes
<1>1. Init => Alone
  BY DEF Init, PoolInit, Alone, Submitted, QueuedTasks
<1>2. Alone => NeverCrashes
  BY DEF Alone, NeverCrashes
<1>3. Types /\ Failures /\ IdleCounted /\ Harmless /\ Alone /\ [Next]_vars => Alone'
  BY AloneStep
<1> QED BY <1>1, <1>2, <1>3, TypesHold, FailuresHold, IdleCountedHolds, HarmlessHolds,
           PTL DEF Spec

-----------------------------------------------------------------------------
(* Tasks that throw.  A row may be too short for a field, and SUM, MAX and *)
(* MIN look their fields up row by row; nothing else makes a task throw.   *)

Complete(vals) == vals = [i \in Fields |-> vals[i]]

\* Tables and INSERTs give every row a value for each field, and SUM, MAX and
\* MIN are asked for fields that the table has.
AllComplete ==
  /\ \A t \in InitialTables : \A p \in DOMAIN t.data : Complete(t.data[p].vals)
  /\ \A i \in DOMAIN Requests :
       LET q == Requests[i]
       IN /\ q.op = "INSERT" /\ ~Refused(q) => Complete(q.arg.vals)
          /\ q.op \in {"SUM", "MAX", "MIN"} => ToSet(q.fields) \subseteq Fields

HasCompleteRows(t) == \E K, V : Exact(t, K, V) /\ \A v \in V : Complete(v)

Unbroken ==
  /\ raised = {} /\ HasCompleteRows(table)
  /\ main \in Executing => ~Refused(frame.q) /\ frame.q.op # "INSERT"

LEMMA CompleteLength ==
  ASSUME NEW vals, Complete(vals)
  PROVE  DOMAIN vals = Fields /\ Len(vals) = FieldCount
<1>1. DOMAIN vals = 1..FieldCount
  BY DEF Complete, Fields
<1>2. vals \in Seq({vals[i] : i \in 1..FieldCount})
  BY <1>1, FieldCountAssumption DEF Complete, Fields
<1> QED BY <1>1, <1>2, FieldCountAssumption DEF Fields

LEMMA CompleteReplaced ==
  ASSUME NEW vals, Complete(vals), NEW i, NEW x
  PROVE  Complete([vals EXCEPT ![i] = x])
BY DEF Complete

LEMMA NewValsComplete ==
  ASSUME NEW vals, Complete(vals), NEW q, q.op \in FieldOps
  PROVE  Complete(NewVals(q, vals))
<1>1. Complete(AddRow(q, vals)) /\ Complete(SubRow(q, vals)) /\ Complete(UpdateRow(q, vals))
  BY CompleteReplaced, Zenon DEF AddRow, SubRow, UpdateRow
<1>2. Complete(SwapRow(q, vals))
  BY CompleteReplaced, Zenon DEF SwapRow
<1> QED BY <1>1, <1>2 DEF NewVals, FieldOps

LEMMA CompleteTable ==
  ASSUME NEW t, HasCompleteRows(t)
  PROVE  HasRows(t) /\ \A p \in 1..Size(t) : Complete(t.data[p].vals)
<1>1. PICK K, V : Exact(t, K, V) /\ \A v \in V : Complete(v)
  BY Zenon DEF HasCompleteRows
<1>2. ASSUME NEW p \in 1..Size(t) PROVE t.data[p].vals \in V
  <2>1. t.data[p] \in Rows(K, V)
    BY <1>1 DEF Exact, IsStored, Size
  <2> QED BY <2>1 DEF Rows
<1> QED BY <1>1, <1>2, Zenon DEF HasRows

\* A query that was not refused reads no field behind the end of a full row.
LEMMA CompleteVisit ==
  ASSUME AllComplete, NEW q, Asked(q), ~Refused(q), q.op # "INSERT", ~AlwaysFalse(q),
         NEW row, Complete(row.vals)
  PROVE  ~VisitRaises(q, row)
<1>1. PICK i \in DOMAIN Requests : q = Requests[i]
  BY DEF Asked
<1>2. q.where \in Seq(ToSet(q.where)) /\ q.op \in Operations
  BY <1>1, RequestsAssumption
<1>3. ASSUME NEW j \in DOMAIN q.where PROVE ~IllFormed(q.where[j])
  <2>1. \A k \in 1..j-1 : k \in DOMAIN q.where
    BY <1>2, <1>3
  <2> QED BY <2>1 DEF Refused, InitConditionRaises, AlwaysFalse
<1>4. ~EvalConditionRaises(q, row)
  <2> SUFFICES ASSUME NEW j \in DOMAIN q.where, ~OnKey(q.where[j]),
                      q.where[j].field > Len(row.vals)
               PROVE  FALSE
    BY DEF EvalConditionRaises
  <2>1. q.where[j].field \in 1..FieldCount
    BY <1>3 DEF IllFormed, Fields
  <2> QED BY <2>1, CompleteLength, FieldCountAssumption
<1>5. Execution(q.op).lookup # "never" => ToSet(q.fields) \subseteq Fields
  <2>1. q.op \in {"SUM", "MAX", "MIN"} => ToSet(q.fields) \subseteq Fields
    BY <1>1 DEF AllComplete
  <2>2. q.op \notin {"SUM", "MAX", "MIN"} => Execution(q.op).lookup \in {"first", "never"}
    BY <1>2 DEF Operations, Execution, AddExecute, SubExecute, SwapExecute, UpdateExecute,
         UpdateKeyExecute, InsertExecute, CountExecute, SelectExecute, DeleteExecute,
         DuplicateExecute, Looping, Collecting
  <2> QED BY <2>1, <2>2 DEF Refused
<1>6. DOMAIN row.vals = Fields
  BY CompleteLength
<1> QED BY <1>4, <1>5, <1>6 DEF VisitRaises

LEMMA InsertComplete ==
  ASSUME NEW t, HasCompleteRows(t), NEW k, NEW vals, Complete(vals), ~Has(t.keyMap, k)
  PROVE  HasCompleteRows(InsertByIndex(t, k, vals))
<1>1. PICK K, V : Exact(t, K, V) /\ \A v \in V : Complete(v)
  BY Zenon DEF HasCompleteRows
<1>2. Exact(t, K \cup {k}, V \cup {vals})
  BY <1>1, ExactGrows
<1>3. Exact(InsertByIndex(t, k, vals), K \cup {k}, V \cup {vals})
  BY <1>2, InsertExact
<1>4. \A v \in V \cup {vals} : Complete(v)
  BY <1>1
<1> QED BY <1>3, <1>4, Zenon DEF HasCompleteRows

LEMMA DeleteComplete ==
  ASSUME NEW t, HasCompleteRows(t), NEW k, Has(t.keyMap, k)
  PROVE  HasCompleteRows(DeleteByIndex(t, k))
<1>1. PICK K, V : Exact(t, K, V) /\ \A v \in V : Complete(v)
  BY Zenon DEF HasCompleteRows
<1>2. Exact(DeleteByIndex(t, k), K, V)
  BY <1>1, DeleteExact
<1> QED BY <1>1, <1>2, Zenon DEF HasCompleteRows

LEMMA DuplicateComplete ==
  ASSUME NEW t, HasCompleteRows(t), NEW k, Has(t.keyMap, k), CheckNotDuplicate(t, k)
  PROVE  HasCompleteRows(DuplicateKey(t, k))
<1>1. PICK K, V : Exact(t, K, V) /\ \A v \in V : Complete(v)
  BY Zenon DEF HasCompleteRows
<1>2. Exact(t, K \cup {CopyKey(k)}, V)
  BY <1>1, ExactGrows
<1>3. Exact(DuplicateKey(t, k), K \cup {CopyKey(k)}, V)
  BY <1>2, DuplicateExact
<1> QED BY <1>1, <1>3, Zenon DEF HasCompleteRows

\* What a visit does to a row leaves it all its values.
LEMMA AffectedComplete ==
  ASSUME NEW t, HasCompleteRows(t), NEW q, NEW p \in 1..Size(t),
         q.op = "UPDATE_KEY" => q.arg = t.data[p].key \/ ~Has(t.keyMap, q.arg)
  PROVE  HasCompleteRows(Affected(t, q, p))
<1>1. PICK K, V : Exact(t, K, V) /\ \A v \in V : Complete(v)
  BY Zenon DEF HasCompleteRows
<1>2. CASE q.op \in FieldOps
  <2> DEFINE vals == NewVals(q, t.data[p].vals)
  <2>1. Complete(vals)
    BY <1>2, CompleteTable, NewValsComplete
  <2>2. Affected(t, q, p) = SetVals(t, p, vals)
    BY <1>2 DEF Affected, FieldOps
  <2> HIDE DEF vals
  <2>3. Exact(t, K, V \cup {vals})
    BY <1>1, ExactGrows
  <2>4. Exact(SetVals(t, p, vals), K, V \cup {vals})
    BY <2>3, SetValsExact
  <2>5. \A v \in V \cup {vals} : Complete(v)
    BY <1>1, <2>1
  <2> QED BY <2>2, <2>4, <2>5, Zenon DEF HasCompleteRows
<1>3. CASE q.op = "UPDATE_KEY"
  <2>1. Exact(t, K \cup {q.arg}, V)
    BY <1>1, ExactGrows
  <2>2. Exact(SetKey(t, p, q.arg), K \cup {q.arg}, V)
    BY <1>3, <2>1, SetKeyExact
  <2>3. Affected(t, q, p) = SetKey(t, p, q.arg)
    BY <1>3 DEF Affected, FieldOps
  <2> QED BY <1>1, <2>2, <2>3, Zenon DEF HasCompleteRows
<1>4. CASE q.op \notin FieldOps \cup {"UPDATE_KEY"}
  BY <1>4 DEF Affected
<1> QED BY <1>2, <1>3, <1>4

\* A row that is visited is as long as it should be.
LEMMA VisitsComplete ==
  ASSUME AllComplete, Types, Failures, InRegions, Keyed, Unbroken
  PROVE  /\ \A t \in Tasks : MoreRows(t) =>
              ~VisitRaises(frame.q, table.data[job[t].pos])
         /\ \A t \in Tasks : ~TaskRaise(t)
<1>1. ASSUME NEW t \in Tasks, MoreRows(t)
      PROVE  ~VisitRaises(frame.q, table.data[job[t].pos])
  <2>1. job[t].pos \in 1..Size(table)
    BY <1>1, RowOfTask
  <2>2. Complete(table.data[job[t].pos].vals)
    BY <2>1, CompleteTable DEF Unbroken
  <2>3. /\ Asked(frame.q) /\ ~Refused(frame.q) /\ frame.q.op # "INSERT"
        /\ ~AlwaysFalse(frame.q)
    BY <1>1 DEF MoreRows, Alive, Types, Unbroken, Executing
  <2> QED BY <2>2, <2>3, CompleteVisit
<1> QED BY <1>1 DEF TaskRaise

LEMMA InlineComplete ==
  ASSUME Types, Keyed, Unbroken, InlineRow
  PROVE  HasCompleteRows(table')
<1> DEFINE q == frame.q
           p == frame.i
           row == table.data[p]
<1>1. /\ main = "inline" /\ ~AlwaysFalse(q) /\ p <= Size(table) /\ p # 0
      /\ Asked(q) /\ p \in Nat /\ Size(table) \in Nat
  BY DataSize DEF InlineRow, Keyed, Types, TypeOK, Executing
<1>2. p \in 1..Size(table) /\ HasCompleteRows(table) /\ HasRows(table)
  BY <1>1, CompleteTable DEF Unbroken
<1>3. Ahead(p) /\ Has(table.keyMap, row.key)
  BY <1>1, <1>2, HasRowsData DEF Ahead
<1>4. CASE VisitRaises(q, row) \/ ~EvalCondition(q, row)
  BY <1>2, <1>4 DEF InlineRow
<1>5. CASE ~VisitRaises(q, row) /\ EvalCondition(q, row)
  <2>1. Hit(p)
    BY <1>1, <1>5 DEF Hit
  <2>2. table' = IF q.op = "DELETE" THEN DeleteByIndex(table, row.key)
                 ELSE Affected(table, q, p)
    BY <1>5 DEF InlineRow
  <2>3. q.op = "UPDATE_KEY" => q.arg = row.key \/ ~Has(table.keyMap, q.arg)
    BY <1>1, <1>2, <1>3, <2>1, RenameAllowed DEF Unbroken, Renaming
  <2>4. HasCompleteRows(Affected(table, q, p))
    BY <1>2, <2>3, AffectedComplete
  <2> QED BY <1>2, <1>3, <2>2, <2>4, DeleteComplete
<1> QED BY <1>4, <1>5

LEMMA TaskComplete ==
  ASSUME Types, Failures, InRegions, Keyed, Unbroken, NEW t \in Tasks, TaskRow(t)
  PROVE  HasCompleteRows(table')
<1> DEFINE q == frame.q
           p == job[t].pos
           row == table.data[p]
<1>1. /\ MoreRows(t) /\ ~AlwaysFalse(q) /\ ~VisitRaises(q, row)
      /\ main \in {"submit", "await"}
  BY DEF TaskRow, MoreRows, Alive
<1>2. p \in 1..Size(table) /\ AheadOfTask(t, p) /\ t = <<num, t[2]>> /\ t[2] \in 0..frame.n-1
  BY <1>1, RowOfTask
<1>3. Ahead(p) /\ Asked(q) /\ HasCompleteRows(table)
  BY <1>1, <1>2 DEF Ahead, Types, Executing, Unbroken
<1>4. CASE EvalCondition(q, row)
  <2>1. Hit(p) /\ table' = Affected(table, q, p)
    BY <1>1, <1>4 DEF Hit, TaskRow
  <2>2. q.op = "UPDATE_KEY" => q.arg = row.key \/ ~Has(table.keyMap, q.arg)
    BY <1>1, <1>2, <1>3, <2>1, RenameAllowed DEF Unbroken, Renaming
  <2> QED BY <1>2, <1>3, <2>1, <2>2, AffectedComplete
<1>5. CASE ~EvalCondition(q, row)
  BY <1>3, <1>5 DEF TaskRow
<1> QED BY <1>4, <1>5

LEMMA CollectedComplete ==
  ASSUME HasCompleteRows(table), DeleteCollected \/ CopyCollected
  PROVE  HasCompleteRows(table')
<1> DEFINE k == frame.acc[frame.i]
<1>1. \/ table' = table
      \/ Has(table.keyMap, k) /\ table' = DeleteByIndex(table, k)
      \/ /\ Has(table.keyMap, k) /\ CheckNotDuplicate(table, k)
         /\ table' = DuplicateKey(table, k)
  BY DEF DeleteCollected, CopyCollected
<1> HIDE DEF k
<1> QED BY <1>1, DeleteComplete, DuplicateComplete

LEMMA UnbrokenStep ==
  ASSUME AllComplete, Types, Failures, InRegions, Calm, Keyed, Unbroken, [Next]_vars
  PROVE  Unbroken'
<1>1. /\ raised = {} /\ HasCompleteRows(table)
      /\ main \in Executing => ~Refused(frame.q) /\ frame.q.op # "INSERT"
  BY DEF Unbroken
<1>2. \A t \in Tasks : ~TaskRaise(t) /\ ~StrayRow(t) /\ ~StrayEnd(t) /\ ~StrayCrash(t)
  BY <1>1, VisitsComplete
     DEF StrayRow, StrayEnd, StrayCrash, Stray, Calm, NoStrayTask, Outstanding
<1>3. ASSUME raised' = raised, HasCompleteRows(table'),
             main' \in Executing => main \in Executing /\ frame'.q = frame.q
      PROVE  Unbroken'
  BY <1>1, <1>3 DEF Unbroken
<1>4. CASE UNCHANGED vars
  BY <1>1, <1>3, <1>4 DEF vars, mainVars
<1>5. ASSUME NEW i \in DOMAIN Requests, Insert(Requests[i])
      PROVE  Unbroken'
  <2> DEFINE q == Requests[i]
  <2>1. Complete(q.arg.vals) /\ main' \notin Executing /\ raised' = raised
    BY <1>5, ReturnTypes DEF AllComplete, Insert, Receive, Executing
  <2>2. HasCompleteRows(table')
    BY <1>1, <1>5, <2>1, InsertComplete DEF Insert
  <2> QED BY <1>3, <2>1, <2>2
<1>6. ASSUME NEW i \in DOMAIN Requests, Refuse(Requests[i])
      PROVE  Unbroken'
  BY <1>1, <1>3, <1>6, ReturnTypes DEF Refuse, Receive, Executing
<1>7. ASSUME NEW i \in DOMAIN Requests, Start(Requests[i])
      PROVE  Unbroken'
  <2>1. /\ raised' = raised /\ table' = table /\ frame'.q = Requests[i]
        /\ ~Refused(Requests[i]) /\ Requests[i].op # "INSERT"
    BY <1>7 DEF Start, Receive
  <2> QED BY <1>1, <2>1 DEF Unbroken
<1>8. CASE InlineRow
  <2>1. raised' = raised /\ main = "inline"
    BY <1>8 DEF InlineRow
  <2> QED BY <1>3, <1>8, <2>1, InlineRowFrame, InlineComplete DEF Executing
<1>9. CASE InlineEnd \/ AwaitEnd
  <2>1. raised' = raised /\ table' = table /\ main \in {"inline", "await"} /\ Proceed
    BY <1>9 DEF InlineEnd, AwaitEnd
  <2> QED BY <1>1, <1>3, <2>1, ProceedTypes DEF Executing
<1>10. CASE Submit
  BY <1>1, <1>3, <1>10, SubmitFrame DEF Submit, Executing
<1>11. CASE Await
  <2>1. raised' = raised /\ table' = table /\ main = "await"
    BY <1>11 DEF Await
  <2> QED BY <1>1, <1>3, <1>11, <2>1, AwaitFrame DEF Executing
<1>12. CASE DeleteCollected \/ CopyCollected
  <2>1. raised' = raised /\ main \in Executing
    BY <1>12 DEF DeleteCollected, CopyCollected, Executing
  <2> QED BY <1>1, <1>3, <1>12, <2>1, CollectedStep, CollectedComplete DEF Executing
<1>13. CASE Configure \/ Exit \/ Join \/ TakeNext
  BY <1>1, <1>3, <1>13 DEF Configure, Exit, Join, TakeNext, mainVars, Executing
<1>14. ASSUME NEW t \in Tasks, TaskRow(t)
       PROVE  Unbroken'
  BY <1>3, <1>14, TaskComplete DEF TaskRow, mainVars
<1>15. ASSUME NEW t \in Tasks, BeginRegion(t) \/ EndRegion(t)
       PROVE  Unbroken'
  BY <1>1, <1>3, <1>15 DEF BeginRegion, EndRegion, mainVars
<1>16. ASSUME NEW t \in Tasks, TaskMerge(t)
       PROVE  Unbroken'
  <2>1. frame'.q = frame.q
    BY <1>16, MergedFrame DEF TaskMerge, Types
  <2> QED BY <1>1, <1>3, <1>16, <2>1 DEF TaskMerge
<1> QED BY <1>2, <1>4, <1>5, <1>6, <1>7, <1>8, <1>9, <1>10, <1>11, <1>12, <1>13, <1>14, <1>15,
           <1>16 DEF Next, Execute, TaskStep

LEMMA UnbrokenInit ==
  ASSUME AllComplete, Init
  PROVE  Unbroken
<1>1. table \in InitialTables /\ raised = {} /\ main = "start"
  BY DEF Init
<1> DEFINE V == {table.data[p].vals : p \in DOMAIN table.data}
<1>2. PICK K : Exact(table, K, V)
  BY <1>1, InitialTablesAssumption, StorageExact, Zenon
<1>3. \A v \in V : Complete(v)
  BY <1>1 DEF AllComplete
<1> HIDE DEF V
<1>4. HasCompleteRows(table)
  BY <1>2, <1>3, Zenon DEF HasCompleteRows
<1> QED BY <1>1, <1>4 DEF Unbroken, Executing

LEMMA UnbrokenHolds ==
  ASSUME AllComplete
  PROVE  Spec => []Unbroken
<1>1. Init => Unbroken
  BY UnbrokenInit
<1>2. Types /\ Failures /\ InRegions /\ Calm /\ Keyed /\ Unbroken /\ [Next]_vars => Unbroken'
  BY UnbrokenStep
<1> QED BY <1>1, <1>2, TypesHold, FailuresHold, RegionsHold, CalmHolds, KeyedHolds, PTL DEF Spec

(***************************************************************************)
(* When every row has a value for each field, and SUM, MAX and MIN name    *)
(* fields of the table, no task ever throws.                               *)
(***************************************************************************)
THEOREM NothingThrown ==
  ASSUME AllComplete
  PROVE  Spec => [](raised = {})
<1>1. Unbroken => raised = {}
  BY DEF Unbroken
<1> QED BY <1>1, UnbrokenHolds, PTL

(***************************************************************************)
(* So with such tables and queries execute always outlives its tasks, they *)
(* find a thread each, visit different rows, and leave keyMap exact.       *)
(***************************************************************************)
THEOREM CompleteRowsAreSafe ==
  ASSUME AllComplete
  PROVE  Spec => [](NoStrayTask /\ BatchHasThreads /\ RegionsApart /\ KeysUnique)
BY NothingThrown, TasksOutlived, ThreadsSuffice, TasksApart, KeysStayUnique, PTL

(***************************************************************************)
(* And no step adds or removes a row while a task may use its iterators.   *)
(***************************************************************************)
THEOREM CompleteRowsKeepIterators ==
  ASSUME AllComplete
  PROVE  Spec => IteratorsStayValid
BY NothingThrown, IteratorsValid, PTL

(***************************************************************************)
(* With such tables, the queries that test for no idle thread as well as   *)
(* for one never kill the process, at whichever point they read            *)
(* idle_thread_num: neither by a division by zero nor by what a task does  *)
(* after its query.                                                        *)
(***************************************************************************)
THEOREM GuardedNeverCrash ==
  ASSUME NoneCollect, AllComplete
  PROVE  Spec => []NeverCrashes
BY SafeUntilThrown, NothingThrown, PTL

=============================================================================
