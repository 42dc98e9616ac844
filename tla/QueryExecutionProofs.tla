------------------------ MODULE QueryExecutionProofs ------------------------
(***************************************************************************)
(* Proofs about QueryExecution for any requests, initial tables, number of *)
(* threads, number of queries and region size.                             *)
(***************************************************************************)
EXTENDS QueryExecution, RegionsProofs, TableOpsProofs, FiniteSetTheorems

-----------------------------------------------------------------------------
(* The pool.  Whatever its user does, a task is in one place.              *)

PoolTypes ==
  /\ idle_thread_num \in Int
  /\ task_queue \in Seq(Tasks)
  /\ taken \subseteq Tasks /\ running \subseteq Tasks
  /\ lagging \subseteq ready /\ ready \subseteq Tasks

OncePerTask ==
  /\ \A i, j \in DOMAIN task_queue : task_queue[i] = task_queue[j] => i = j
  /\ QueuedTasks \cap (taken \cup running \cup ready) = {}
  /\ taken \cap (running \cup ready) = {}
  /\ running \cap ready = {}

PoolInv == PoolTypes /\ OncePerTask

\* What Append and Tail do to the tasks of a queue.
LEMMA AppendQueued ==
  ASSUME NEW q \in Seq(Tasks), NEW t \in Tasks
  PROVE  /\ Append(q, t) \in Seq(Tasks)
         /\ DOMAIN Append(q, t) = DOMAIN q \cup {Len(q) + 1}
         /\ \A i \in DOMAIN q : Append(q, t)[i] = q[i]
         /\ Append(q, t)[Len(q) + 1] = t
         /\ Len(q) + 1 \notin DOMAIN q
OBVIOUS

LEMMA TailQueued ==
  ASSUME NEW q \in Seq(Tasks), q # <<>>
  PROVE  /\ Tail(q) \in Seq(Tasks) /\ Head(q) \in Tasks
         /\ 1 \in DOMAIN q /\ Head(q) = q[1]
         /\ \A i \in DOMAIN Tail(q) : i + 1 \in DOMAIN q /\ i # 0 /\ Tail(q)[i] = q[i + 1]
         /\ \A i \in DOMAIN q \ {1} : i - 1 \in DOMAIN Tail(q) /\ q[i] = Tail(q)[i - 1]
OBVIOUS

LEMMA AddTaskStep ==
  ASSUME PoolInv, NEW t \in Tasks, AddTask(t)
  PROVE  PoolInv' /\ QueuedTasks' = QueuedTasks \cup {t} /\ t \notin Submitted
<1>1. /\ task_queue \in Seq(Tasks) /\ task_queue' = Append(task_queue, t)
      /\ UNCHANGED <<idle_thread_num, taken, running, lagging, ready>>
      /\ t \notin Submitted
  BY DEF PoolInv, PoolTypes, AddTask
<1>2. QueuedTasks' = QueuedTasks \cup {t}
  BY <1>1, AppendQueued DEF QueuedTasks
<1>3. \A i, j \in DOMAIN task_queue' : task_queue'[i] = task_queue'[j] => i = j
  BY <1>1, AppendQueued DEF PoolInv, OncePerTask, Submitted, QueuedTasks
<1>4. OncePerTask'
  BY <1>1, <1>2, <1>3 DEF PoolInv, OncePerTask, Submitted
<1> QED BY <1>1, <1>2, <1>4, AppendQueued DEF PoolInv, PoolTypes

LEMMA TakeTaskStep ==
  ASSUME PoolInv, TakeTask
  PROVE  /\ PoolInv'
         /\ \E t \in QueuedTasks : QueuedTasks' = QueuedTasks \ {t} /\ taken' = taken \cup {t}
         /\ UNCHANGED <<running, lagging, ready, idle_thread_num>>
<1> DEFINE t == Head(task_queue)
<1>1. /\ task_queue \in Seq(Tasks) /\ task_queue # <<>> /\ task_queue' = Tail(task_queue)
      /\ taken' = taken \cup {t}
      /\ UNCHANGED <<idle_thread_num, running, lagging, ready>>
  BY DEF PoolInv, PoolTypes, TakeTask
<1>2. t \in Tasks /\ 1 \in DOMAIN task_queue /\ t = task_queue[1] /\ task_queue' \in Seq(Tasks)
  BY <1>1, TailQueued
<1> HIDE DEF t
<1>3. t \in QueuedTasks
  BY <1>2 DEF QueuedTasks
<1>4. \A i, j \in DOMAIN task_queue' : task_queue'[i] = task_queue'[j] => i = j
  <2> SUFFICES ASSUME NEW i \in DOMAIN task_queue', NEW j \in DOMAIN task_queue',
                      task_queue'[i] = task_queue'[j]
               PROVE  i = j
    OBVIOUS
  <2>1. i + 1 = j + 1
    BY <1>1, TailQueued DEF PoolInv, OncePerTask
  <2> QED BY <1>2, <2>1
<1>5. QueuedTasks' = QueuedTasks \ {t}
  <2>1. ASSUME NEW u \in QueuedTasks' PROVE u \in QueuedTasks \ {t}
    <3>1. PICK i \in DOMAIN task_queue' : u = task_queue'[i]
      BY DEF QueuedTasks
    <3>2. i + 1 \in DOMAIN task_queue /\ u = task_queue[i + 1] /\ i # 0 /\ i \in Nat
      BY <1>1, <1>2, <3>1, TailQueued
    <3>3. i + 1 # 1
      BY <3>2
    <3>4. u # t
      BY <1>2, <3>2, <3>3 DEF PoolInv, OncePerTask
    <3> QED BY <3>2, <3>4 DEF QueuedTasks
  <2>2. ASSUME NEW u \in QueuedTasks \ {t} PROVE u \in QueuedTasks'
    <3>1. PICK i \in DOMAIN task_queue : u = task_queue[i]
      BY DEF QueuedTasks
    <3>2. i # 1
      BY <1>2, <3>1
    <3> QED BY <1>1, <3>1, <3>2, TailQueued DEF QueuedTasks
  <2> QED BY <2>1, <2>2
<1>6. OncePerTask'
  BY <1>1, <1>3, <1>4, <1>5 DEF PoolInv, OncePerTask
<1>7. PoolTypes'
  BY <1>1, <1>2 DEF PoolInv, PoolTypes
<1> QED BY <1>1, <1>3, <1>5, <1>6, <1>7 DEF PoolInv

\* The steps of a task that was taken.
LEMMA BeginTaskStep ==
  ASSUME PoolInv, NEW t \in Tasks, BeginTask(t)
  PROVE  PoolInv' /\ QueuedTasks' = QueuedTasks
BY DEF PoolInv, PoolTypes, OncePerTask, BeginTask, QueuedTasks

LEMMA FinishTaskStep ==
  ASSUME PoolInv, NEW t \in Tasks, FinishTask(t)
  PROVE  PoolInv' /\ QueuedTasks' = QueuedTasks
BY DEF PoolInv, PoolTypes, OncePerTask, FinishTask, QueuedTasks

LEMMA EndTaskStep ==
  ASSUME PoolInv, NEW t \in Tasks, EndTask(t)
  PROVE  PoolInv' /\ QueuedTasks' = QueuedTasks
BY DEF PoolInv, PoolTypes, OncePerTask, EndTask, QueuedTasks

LEMMA PoolStep ==
  ASSUME PoolInv, [PoolNext]_poolVars
  PROVE  PoolInv'
<1>1. CASE UNCHANGED poolVars
  BY <1>1 DEF poolVars, PoolInv, PoolTypes, OncePerTask, QueuedTasks
<1>2. CASE SetThread
  BY <1>2, ThreadNumAssumption DEF SetThread, PoolInv, PoolTypes, OncePerTask, QueuedTasks
<1>3. CASE Close
  BY <1>3 DEF Close, PoolInv, PoolTypes, OncePerTask, QueuedTasks
<1>4. CASE Discard
  BY <1>4 DEF Discard, PoolInv, PoolTypes, OncePerTask, QueuedTasks
<1> QED BY <1>1, <1>2, <1>3, <1>4, AddTaskStep, TakeTaskStep, BeginTaskStep,
           FinishTaskStep, EndTaskStep DEF PoolNext

\* QueryExecution uses the pool in no other way than TaskPool allows.
LEMMA UsesPool ==
  ASSUME [Next]_vars
  PROVE  [PoolNext]_poolVars
<1>1. CASE UNCHANGED vars
  BY <1>1 DEF vars
<1>2. CASE Configure \/ Exit \/ Join \/ TakeNext
  BY <1>2 DEF Configure, Exit, Join, TakeNext, PoolNext
<1>3. ASSUME NEW i \in DOMAIN Requests,
             Insert(Requests[i]) \/ Refuse(Requests[i]) \/ Start(Requests[i])
      PROVE  UNCHANGED poolVars
  BY <1>3 DEF Insert, Refuse, Start, Receive
<1>4. CASE Execute
  BY <1>4 DEF Execute, InlineRow, InlineEnd, Submit, Await, AwaitEnd, DeleteCollected,
              CopyCollected, PoolNext
<1>5. ASSUME NEW t \in Tasks, TaskStep(t)
      PROVE  [PoolNext]_poolVars
  BY <1>5 DEF TaskStep, BeginRegion, TaskRow, TaskRaise, TaskMerge, StrayRow, StrayEnd,
              StrayCrash, EndRegion, PoolNext
<1> QED BY <1>1, <1>2, <1>3, <1>4, <1>5 DEF Next

-----------------------------------------------------------------------------
(* Types.                                                                  *)

IsFrame(f) ==
  /\ f = [q |-> f.q, n |-> f.n, i |-> f.i, acc |-> f.acc]
  /\ f.n \in Nat /\ f.i \in Nat

IsJob(j) ==
  /\ j = [q |-> j.q, pos |-> j.pos, tail |-> j.tail, acc |-> j.acc]
  /\ j.pos \in Int /\ j.tail \in Int

HasData(t) == \E S : t.data \in Seq(S)

\* q is one of the queries that are asked.
Asked(q) == \E i \in DOMAIN Requests : q = Requests[i]

Types ==
  /\ TypeOK /\ PoolInv
  /\ IsFrame(frame)
  /\ main \in Executing => Asked(frame.q)
  /\ main \in {"submit", "await"} => frame.n # 0
  /\ \A t \in Tasks : IsJob(job[t])
  /\ HasData(table)

LEMMA TaskNames ==
  ASSUME NEW t \in Tasks
  PROVE  t = <<t[1], t[2]>> /\ t[1] \in Nat /\ t[2] \in Nat
BY TaskNamesAssumption, MaxQueriesAssumption

\* The records after an assignment to one or two of their fields.
LEMMA FrameAssigned ==
  ASSUME NEW f, IsFrame(f), NEW i, NEW acc
  PROVE  /\ [f EXCEPT !.i = i] = [q |-> f.q, n |-> f.n, i |-> i, acc |-> f.acc]
         /\ [f EXCEPT !.acc = acc] = [q |-> f.q, n |-> f.n, i |-> f.i, acc |-> acc]
         /\ [f EXCEPT !.acc = acc, !.i = i] = [q |-> f.q, n |-> f.n, i |-> i, acc |-> acc]
<1> DEFINE g == [f EXCEPT !.acc = acc]
<1>1. [f EXCEPT !.i = i] = [q |-> f.q, n |-> f.n, i |-> i, acc |-> f.acc]
  BY DEF IsFrame
<1>2. g = [q |-> f.q, n |-> f.n, i |-> f.i, acc |-> acc]
  BY DEF IsFrame
<1>3. [f EXCEPT !.acc = acc, !.i = i] = [g EXCEPT !.i = i]
  BY DEF IsFrame
<1> HIDE DEF g
<1>4. [g EXCEPT !.i = i] = [q |-> f.q, n |-> f.n, i |-> i, acc |-> acc]
  BY <1>2
<1> QED BY <1>1, <1>2, <1>3, <1>4 DEF g

LEMMA JobAssigned ==
  ASSUME NEW j, IsJob(j), NEW pos, NEW acc
  PROVE  /\ [j EXCEPT !.pos = pos] = [q |-> j.q, pos |-> pos, tail |-> j.tail, acc |-> j.acc]
         /\ [j EXCEPT !.pos = pos, !.acc = acc] =
              [q |-> j.q, pos |-> pos, tail |-> j.tail, acc |-> acc]
<1> DEFINE g == [j EXCEPT !.pos = pos]
<1>1. g = [q |-> j.q, pos |-> pos, tail |-> j.tail, acc |-> j.acc]
  BY DEF IsJob
<1>2. [j EXCEPT !.pos = pos, !.acc = acc] = [g EXCEPT !.acc = acc]
  BY DEF IsJob
<1> HIDE DEF g
<1>3. [g EXCEPT !.acc = acc] = [q |-> j.q, pos |-> pos, tail |-> j.tail, acc |-> acc]
  BY <1>1
<1> QED BY <1>1, <1>2, <1>3 DEF g

\* The job of one task is replaced.
LEMMA JobsAfter ==
  ASSUME NEW jobs, DOMAIN jobs = Tasks, \A u \in Tasks : IsJob(jobs[u]),
         NEW t \in Tasks, NEW j, IsJob(j)
  PROVE  /\ DOMAIN [jobs EXCEPT ![t] = j] = Tasks
         /\ [jobs EXCEPT ![t] = j][t] = j
         /\ \A u \in Tasks \ {t} : [jobs EXCEPT ![t] = j][u] = jobs[u]
         /\ \A u \in Tasks : IsJob([jobs EXCEPT ![t] = j][u])
OBVIOUS

LEMMA NoJobIsJob == IsJob(NoJob)
BY DEF IsJob, NoJob

LEMMA NoFrameIsFrame == IsFrame(NoFrame)
BY DEF IsFrame, NoFrame

\* The rows stay a sequence, exact or not.
LEMMA InsertHasData ==
  ASSUME NEW t, HasData(t), NEW k, NEW vals
  PROVE  HasData(InsertByIndex(t, k, vals))
<1>1. PICK S : t.data \in Seq(S)
  BY DEF HasData
<1>2. Append(t.data, Row(k, vals)) \in Seq(S \cup {Row(k, vals)})
  BY <1>1
<1>3. InsertByIndex(t, k, vals).data \in Seq(S \cup {Row(k, vals)})
  BY <1>2 DEF InsertByIndex
<1> QED BY <1>3 DEF HasData

LEMMA ReplaceHasData ==
  ASSUME NEW data, NEW S, data \in Seq(S), NEW p, NEW row
  PROVE  /\ [data EXCEPT ![p] = row] \in Seq(S \cup {row})
         /\ Len([data EXCEPT ![p] = row]) = Len(data)
<1>1. data \in Seq(S \cup {row})
  OBVIOUS
<1>2. CASE p \in 1..Len(data)
  BY <1>1, <1>2, ExceptSeq
<1>3. CASE p \notin 1..Len(data)
  <2>1. [data EXCEPT ![p] = row] = data
    BY <1>3
  <2> QED BY <1>1, <2>1
<1> QED BY <1>2, <1>3

LEMMA SetHasData ==
  ASSUME NEW t, HasData(t), NEW p, NEW x
  PROVE  HasData(SetVals(t, p, x)) /\ HasData(SetKey(t, p, x))
<1>1. PICK S : t.data \in Seq(S)
  BY DEF HasData
<1> DEFINE v == [t.data[p] EXCEPT !.vals = x]
           k == [t.data[p] EXCEPT !.key = x]
<1>2. SetVals(t, p, x).data = [t.data EXCEPT ![p] = v]
  BY DEF SetVals
<1>3. SetKey(t, p, x).data = [t.data EXCEPT ![p] = k]
  BY DEF SetKey
<1> HIDE DEF v, k
<1>4. [t.data EXCEPT ![p] = v] \in Seq(S \cup {v})
  BY <1>1, ReplaceHasData, Zenon
<1>5. [t.data EXCEPT ![p] = k] \in Seq(S \cup {k})
  BY <1>1, ReplaceHasData, Zenon
<1> QED BY <1>2, <1>3, <1>4, <1>5, Zenon DEF HasData

LEMMA DeleteHasData ==
  ASSUME NEW t, HasData(t), NEW k
  PROVE  HasData(DeleteByIndex(t, k))
<1>1. PICK S : t.data \in Seq(S)
  BY DEF HasData
<1> DEFINE n == Len(t.data)
           last == t.data[n]
           moved == [t.data EXCEPT ![t.keyMap[k]] = last]
<1>2. DeleteByIndex(t, k).data = SubSeq(moved, 1, n - 1)
  BY DEF DeleteByIndex, Size
<1> HIDE DEF last
<1>3. moved \in Seq(S \cup {last}) /\ Len(moved) = n
  BY <1>1, ReplaceHasData, Zenon
<1>5. n \in Nat
  BY <1>1
<1> HIDE DEF moved, n
<1>4. SubSeq(moved, 1, n - 1) \in Seq(S \cup {last})
  BY <1>3, <1>5, \A i \in 1..n-1 : moved[i] \in S \cup {last}, SubSeqProperties
<1> QED BY <1>2, <1>4 DEF HasData

LEMMA AffectedHasData ==
  ASSUME NEW t, HasData(t), NEW q, NEW p
  PROVE  HasData(Affected(t, q, p))
<1>1. HasData(SetVals(t, p, NewVals(q, t.data[p].vals))) /\ HasData(SetKey(t, p, q.arg))
  BY SetHasData
<1> QED BY <1>1 DEF Affected

LEMMA DuplicateHasData ==
  ASSUME NEW t, HasData(t), NEW k
  PROVE  HasData(DuplicateKey(t, k))
BY InsertHasData DEF DuplicateKey

LEMMA DataSize == ASSUME NEW t, HasData(t) PROVE Size(t) \in Nat
BY DEF HasData, Size

\* What is left to do after the loop and after the last future.
LEMMA RestOfQuery ==
  ASSUME NEW q, Asked(q)
  PROVE  /\ q.op \in Operations
         /\ Execution(q.op).rest["inline"] = IF q.op = "DUPLICATE" THEN "copy" ELSE "none"
         /\ Execution(q.op).rest["await"] =
              IF q.op = "DELETE" THEN "delete"
              ELSE IF q.op = "DUPLICATE" THEN "copy" ELSE "none"
         /\ Execution(q.op).alone = IF q.op \in CollectOps THEN {1} ELSE {0, 1}
<1>1. q.op \in Operations
  BY RequestsAssumption DEF Asked
<1> QED BY <1>1
        DEF Operations, CollectOps, Execution, AddExecute, SubExecute, SwapExecute,
            UpdateExecute, UpdateKeyExecute, InsertExecute, CountExecute, SumExecute,
            MaxExecute, MinExecute, SelectExecute, DeleteExecute, DuplicateExecute,
            Looping, Collecting, Nothing

LEMMA TypesInit == Init => Types
<1> SUFFICES ASSUME Init PROVE Types
  OBVIOUS
<1>1. PoolInv
  BY DEF Init, PoolInit, PoolInv, PoolTypes, OncePerTask, QueuedTasks
<1>2. HasData(table)
  BY InitialTablesAssumption DEF Init, IsStorage, HasData
<1>3. \A t \in Tasks : IsJob(job[t])
  BY NoJobIsJob DEF Init
<1> QED BY <1>1, <1>2, <1>3, NoFrameIsFrame, MaxQueriesAssumption
        DEF Init, PoolInit, Types, TypeOK, Executing, NoFrame

\* The main thread returns, or goes on to another place with its frame.
LEMMA ReturnTypes ==
  ASSUME NEW n, NEW q, NEW answer, Return(n, q, answer)
  PROVE  main' = "ready" /\ IsFrame(frame')
BY NoFrameIsFrame DEF Return

LEMMA ProceedTypes ==
  ASSUME Types, main \in {"inline", "await"}, Proceed
  PROVE  /\ main' \in {"ready", "delete", "copy"}
         /\ IsFrame(frame')
         /\ main' # "ready" => frame'.q = frame.q
<1>1. Asked(frame.q) /\ IsFrame(frame)
  BY DEF Types, Executing
<1>2. [frame EXCEPT !.i = 1] = [q |-> frame.q, n |-> frame.n, i |-> 1, acc |-> frame.acc]
  BY <1>1, FrameAssigned
<1>3. CASE Execution(frame.q.op).rest[main] = "none"
  BY <1>3, NoFrameIsFrame DEF Proceed, Return
<1>4. CASE Execution(frame.q.op).rest[main] # "none"
  <2>1. main' \in {"delete", "copy"}
    BY <1>1, <1>4, RestOfQuery DEF Proceed
  <2>2. frame' = [q |-> frame.q, n |-> frame.n, i |-> 1, acc |-> frame.acc]
    BY <1>2, <1>4 DEF Proceed
  <2> QED BY <1>1, <2>1, <2>2 DEF IsFrame
<1> QED BY <1>3, <1>4

\* The frame after an assignment to its counter.
LEMMA CountedFrame ==
  ASSUME IsFrame(frame), NEW i \in Nat, frame' = [frame EXCEPT !.i = i]
  PROVE  IsFrame(frame') /\ frame'.q = frame.q /\ frame'.n = frame.n
         /\ frame'.i = i /\ frame'.acc = frame.acc
<1>1. frame' = [q |-> frame.q, n |-> frame.n, i |-> i, acc |-> frame.acc]
  BY FrameAssigned
<1> QED BY <1>1 DEF IsFrame

LEMMA MergedFrame ==
  ASSUME IsFrame(frame), NEW acc, frame' = [frame EXCEPT !.acc = acc]
  PROVE  IsFrame(frame') /\ frame'.q = frame.q /\ frame'.n = frame.n
         /\ frame'.i = frame.i /\ frame'.acc = acc
<1>1. frame' = [q |-> frame.q, n |-> frame.n, i |-> frame.i, acc |-> acc]
  BY FrameAssigned
<1> QED BY <1>1 DEF IsFrame

LEMMA VisitedFrame ==
  ASSUME IsFrame(frame), NEW i \in Nat, NEW acc, frame' = [frame EXCEPT !.acc = acc, !.i = i]
  PROVE  IsFrame(frame') /\ frame'.q = frame.q /\ frame'.n = frame.n
         /\ frame'.i = i /\ frame'.acc = acc
<1>1. frame' = [q |-> frame.q, n |-> frame.n, i |-> i, acc |-> acc]
  BY FrameAssigned
<1> QED BY <1>1 DEF IsFrame

\* A visited row leaves the rows a sequence.
LEMMA InlineRowData ==
  ASSUME Types, InlineRow
  PROVE  HasData(table')
<1>1. HasData(table)
  BY DEF Types
<1> DEFINE row == table.data[frame.i]
<1>2. \/ table' = table
      \/ table' = DeleteByIndex(table, row.key)
      \/ table' = Affected(table, frame.q, frame.i)
  BY DEF InlineRow
<1> HIDE DEF row
<1> QED BY <1>1, <1>2, DeleteHasData, AffectedHasData

LEMMA InlineRowFrame ==
  ASSUME Types, InlineRow
  PROVE  /\ main' \in {"ready", "inline"} /\ IsFrame(frame')
         /\ main' = "inline" => frame'.q = frame.q /\ frame'.n = frame.n
<1> DEFINE row == table.data[frame.i]
<1>1. IsFrame(frame) /\ frame.i \in Nat
  BY DEF Types, IsFrame
<1>2. CASE VisitRaises(frame.q, row)
  BY <1>2, ReturnTypes DEF InlineRow, Error
<1>3. CASE ~VisitRaises(frame.q, row) /\ ~EvalCondition(frame.q, row)
  <2>1. frame' = [frame EXCEPT !.i = frame.i + 1] /\ main' = "inline"
    BY <1>3 DEF InlineRow
  <2> QED BY <1>1, <2>1, frame.i + 1 \in Nat, CountedFrame
<1>4. CASE ~VisitRaises(frame.q, row) /\ EvalCondition(frame.q, row)
  <2> DEFINE i == IF frame.q.op = "DELETE" THEN frame.i ELSE frame.i + 1
             acc == Visit(table, frame.q, frame.acc, row)
  <2>1. frame' = [frame EXCEPT !.acc = acc, !.i = i] /\ main' = "inline"
    BY <1>4 DEF InlineRow
  <2>2. i \in Nat
    BY <1>1
  <2> HIDE DEF i, acc
  <2> QED BY <1>1, <2>1, <2>2, VisitedFrame
<1> QED BY <1>2, <1>3, <1>4

LEMMA SubmitFrame ==
  ASSUME Types, Submit
  PROVE  /\ IsFrame(frame') /\ frame'.q = frame.q /\ frame'.n = frame.n
         /\ frame'.acc = frame.acc
         /\ \/ frame.i + 1 < frame.n /\ main' = "submit" /\ frame'.i = frame.i + 1
            \/ frame.i + 1 >= frame.n /\ main' = "await" /\ frame'.i = 0
<1>1. IsFrame(frame) /\ frame.i \in Nat /\ frame.n \in Nat
  BY DEF Types, IsFrame
<1>2. CASE frame.i + 1 < frame.n
  <2>1. frame' = [frame EXCEPT !.i = frame.i + 1] /\ main' = "submit"
    BY <1>2 DEF Submit
  <2> QED BY <1>1, <1>2, <2>1, frame.i + 1 \in Nat, CountedFrame
<1>3. CASE ~(frame.i + 1 < frame.n)
  <2>1. frame' = [frame EXCEPT !.i = 0] /\ main' = "await"
    BY <1>3 DEF Submit
  <2> QED BY <1>1, <1>3, <2>1, CountedFrame
<1> QED BY <1>2, <1>3

LEMMA AwaitFrame ==
  ASSUME Types, Await
  PROVE  /\ IsFrame(frame')
         /\ \/ <<num, frame.i>> \in raised /\ main' = "ready"
            \/ /\ <<num, frame.i>> \notin raised /\ main' = "await"
               /\ frame'.q = frame.q /\ frame'.n = frame.n
               /\ frame'.i = frame.i + 1 /\ frame'.acc = frame.acc
<1>1. IsFrame(frame) /\ frame.i \in Nat
  BY DEF Types, IsFrame
<1>2. CASE <<num, frame.i>> \in raised
  BY <1>2, ReturnTypes DEF Await, Error
<1>3. CASE <<num, frame.i>> \notin raised
  <2>1. frame' = [frame EXCEPT !.i = frame.i + 1] /\ main' = "await"
    BY <1>3 DEF Await
  <2> QED BY <1>1, <1>3, <2>1, frame.i + 1 \in Nat, CountedFrame
<1> QED BY <1>2, <1>3

\* The loops over collected keys.
LEMMA CollectedStep ==
  ASSUME Types, DeleteCollected \/ CopyCollected
  PROVE  /\ HasData(table') /\ IsFrame(frame')
         /\ \/ main' = "ready"
            \/ main' = "crashed" /\ frame' = frame
            \/ /\ main' = main /\ frame'.q = frame.q /\ frame'.n = frame.n
               /\ frame'.i = frame.i + 1 /\ frame'.acc = frame.acc
<1>1. IsFrame(frame) /\ frame.i \in Nat /\ HasData(table)
  BY DEF Types, IsFrame
<1>2. CASE main' = "ready"
  <2>1. IsFrame(frame')
    BY <1>2, ReturnTypes DEF DeleteCollected, CopyCollected, Return, NoFrame, IsFrame
  <2>2. table' = table
    BY <1>2 DEF DeleteCollected, CopyCollected
  <2> QED BY <1>1, <1>2, <2>1, <2>2
<1>3. CASE main' = "crashed"
  BY <1>1, <1>3 DEF DeleteCollected, CopyCollected, Return
<1>4. CASE main' \notin {"ready", "crashed"}
  <2>1. /\ frame' = [frame EXCEPT !.i = frame.i + 1] /\ main' = main
        /\ \E k : table' = DeleteByIndex(table, k) \/ table' = DuplicateKey(table, k)
    BY <1>4 DEF DeleteCollected, CopyCollected, Return
  <2>2. HasData(table')
    BY <1>1, <2>1, DeleteHasData, DuplicateHasData
  <2> QED BY <1>1, <2>1, <2>2, frame.i + 1 \in Nat, CountedFrame
<1> QED BY <1>2, <1>3, <1>4

LEMMA RegionNumbers ==
  ASSUME NEW rows \in Nat, NEW n \in Nat \ {0}, NEW i \in Nat
  PROVE  RegionHead(rows, n, i) \in Nat /\ RegionTail(rows, n, i) \in Nat
<1>1. RegionSize(rows, n) \in Nat
  BY DivisionBounds
<1>2. i * RegionSize(rows, n) \in Nat
  BY <1>1
<1> QED BY <1>1, <1>2 DEF RegionHead, RegionTail

\* The jobs after one of them was replaced.
LEMMA JobReplaced ==
  ASSUME Types, NEW t \in Tasks, NEW j, IsJob(j), job' = [job EXCEPT ![t] = j]
  PROVE  /\ DOMAIN job' = Tasks /\ \A u \in Tasks : IsJob(job'[u])
         /\ job'[t] = j /\ \A u \in Tasks \ {t} : job'[u] = job[u]
BY JobsAfter DEF Types, TypeOK

LEMMA BeginRegionJob ==
  ASSUME Types, NEW t \in Tasks, BeginRegion(t)
  PROVE  /\ DOMAIN job' = Tasks /\ \A u \in Tasks : IsJob(job'[u])
         /\ Alive(t) =>
              job'[t] = [q    |-> frame.q,
                         pos  |-> RegionHead(Size(table), frame.n, t[2]) + 1,
                         tail |-> RegionTail(Size(table), frame.n, t[2]),
                         acc  |-> Neutral(frame.q)]
         /\ \A u \in Tasks \ {t} : job'[u] = job[u]
<1> DEFINE j == [q    |-> frame.q,
                 pos  |-> RegionHead(Size(table), frame.n, t[2]) + 1,
                 tail |-> RegionTail(Size(table), frame.n, t[2]),
                 acc  |-> Neutral(frame.q)]
<1>1. CASE Alive(t)
  <2>1. frame.n \in Nat \ {0} /\ Size(table) \in Nat /\ t[2] \in Nat
    BY <1>1, TaskNames, DataSize DEF Types, IsFrame, Alive
  <2>2. /\ RegionHead(Size(table), frame.n, t[2]) \in Nat
        /\ RegionTail(Size(table), frame.n, t[2]) \in Nat
    BY <2>1, RegionNumbers, Zenon
  <2>3. IsJob(j)
    BY <2>2 DEF IsJob
  <2>4. job' = [job EXCEPT ![t] = j]
    BY <1>1 DEF BeginRegion
  <2> HIDE DEF j
  <2>5. /\ DOMAIN job' = Tasks /\ \A u \in Tasks : IsJob(job'[u])
        /\ job'[t] = j /\ \A u \in Tasks \ {t} : job'[u] = job[u]
    BY <2>3, <2>4, JobReplaced
  <2> QED BY <2>5 DEF j
<1>2. CASE ~Alive(t)
  BY <1>2 DEF BeginRegion, Types, TypeOK
<1> QED BY <1>1, <1>2

\* A visit moves a task to its next row.
LEMMA TaskRowJob ==
  ASSUME Types, NEW t \in Tasks, TaskRow(t) \/ StrayRow(t)
  PROVE  /\ DOMAIN job' = Tasks /\ \A u \in Tasks : IsJob(job'[u])
         /\ job'[t].q = job[t].q
         /\ job'[t].pos = job[t].pos + 1 /\ job'[t].tail = job[t].tail
         /\ job'[t].acc = IF TaskRow(t) /\ EvalCondition(frame.q, table.data[job[t].pos])
                          THEN Visit(table, frame.q, job[t].acc, table.data[job[t].pos])
                          ELSE job[t].acc
         /\ \A u \in Tasks \ {t} : job'[u] = job[u]
<1> DEFINE q == frame.q
           row == table.data[job[t].pos]
           acc == Visit(table, q, job[t].acc, row)
           visited == [job[t] EXCEPT !.pos = job[t].pos + 1, !.acc = acc]
           passed == [job[t] EXCEPT !.pos = job[t].pos + 1]
<1>1. IsJob(job[t]) /\ DOMAIN job = Tasks /\ job[t].pos + 1 \in Int
  BY DEF Types, TypeOK, IsJob
<1>2. CASE TaskRow(t) /\ EvalCondition(q, row)
  <2>1. job' = [job EXCEPT ![t] = visited]
    BY <1>1, <1>2 DEF TaskRow
  <2>2. visited = [q |-> job[t].q, pos |-> job[t].pos + 1, tail |-> job[t].tail, acc |-> acc]
    BY <1>1, JobAssigned, Zenon
  <2> HIDE DEF visited, acc
  <2>3. IsJob(visited)
    BY <1>1, <2>2 DEF IsJob
  <2>4. /\ DOMAIN job' = Tasks /\ \A u \in Tasks : IsJob(job'[u])
        /\ job'[t] = visited /\ \A u \in Tasks \ {t} : job'[u] = job[u]
    BY <2>1, <2>3, JobReplaced
  <2> QED BY <1>2, <2>2, <2>4 DEF acc
<1>3. CASE ~(TaskRow(t) /\ EvalCondition(q, row))
  <2>1. job' = [job EXCEPT ![t] = passed]
    BY <1>1, <1>3 DEF TaskRow, StrayRow
  <2>2. passed = [q |-> job[t].q, pos |-> job[t].pos + 1, tail |-> job[t].tail,
                  acc |-> job[t].acc]
    BY <1>1, JobAssigned, Zenon
  <2> HIDE DEF passed
  <2>3. IsJob(passed)
    BY <1>1, <2>2 DEF IsJob
  <2>4. /\ DOMAIN job' = Tasks /\ \A u \in Tasks : IsJob(job'[u])
        /\ job'[t] = passed /\ \A u \in Tasks \ {t} : job'[u] = job[u]
    BY <2>1, <2>3, JobReplaced
  <2> QED BY <1>3, <2>2, <2>4
<1> QED BY <1>2, <1>3

LEMMA JobEnded ==
  ASSUME Types, NEW t \in Tasks, job' = [job EXCEPT ![t] = NoJob]
  PROVE  /\ DOMAIN job' = Tasks /\ \A u \in Tasks : IsJob(job'[u])
         /\ \A u \in Tasks \ {t} : job'[u] = job[u]
BY NoJobIsJob, JobReplaced

LEMMA TypesStep ==
  ASSUME Types, [Next]_vars
  PROVE  Types'
<1>1. PoolInv'
  BY UsesPool, PoolStep DEF Types
<1>2. /\ main \in Executing \cup {"start", "ready", "crashed", "exit", "joined"}
      /\ num \in 0..MaxQueries /\ IsFrame(frame) /\ frame.n \in Nat /\ frame.i \in Nat
      /\ DOMAIN job = Tasks /\ raised \subseteq ready
      /\ main \in {"submit", "await"} => frame.n # 0
      /\ main \in Executing => Asked(frame.q)
      /\ \A t \in Tasks : IsJob(job[t])
      /\ HasData(table) /\ PoolInv
  BY DEF Types, TypeOK
<1>3. SUFFICES /\ main' \in Executing \cup {"start", "ready", "crashed", "exit", "joined"}
               /\ num' \in 0..MaxQueries /\ IsFrame(frame')
               /\ DOMAIN job' = Tasks /\ raised' \subseteq ready'
               /\ main' \in {"submit", "await"} => frame'.n # 0
               /\ main' \in Executing => Asked(frame'.q)
               /\ \A t \in Tasks : IsJob(job'[t])
               /\ HasData(table')
  BY <1>1 DEF Types, TypeOK, IsFrame, PoolInv, PoolTypes
<1>4. CASE UNCHANGED vars
  BY <1>2, <1>4 DEF vars, mainVars, poolVars
<1>5. CASE Configure
  BY <1>2, <1>5 DEF Configure, SetThread, Executing
<1>6. CASE Exit \/ Join
  BY <1>2, <1>6 DEF Exit, Join, Close, Discard, Executing
<1>7. ASSUME NEW i \in DOMAIN Requests, Insert(Requests[i]) \/ Refuse(Requests[i])
      PROVE  <1>3!1
  <2>1. main' = "ready" /\ IsFrame(frame')
    BY <1>7, ReturnTypes DEF Insert, Refuse
  <2>2. HasData(table')
    BY <1>2, <1>7, InsertHasData DEF Insert, Refuse
  <2>3. num' \in 0..MaxQueries /\ UNCHANGED <<job, raised, ready>>
    BY <1>2, <1>7, MaxQueriesAssumption DEF Insert, Refuse, Receive, poolVars
  <2> QED BY <1>2, <2>1, <2>2, <2>3 DEF Executing
<1>8. ASSUME NEW i \in DOMAIN Requests, Start(Requests[i])
      PROVE  <1>3!1
  <2> DEFINE q == Requests[i]
             n == ThreadCount(idle_thread_num, Size(table))
  <2>1. num' \in 0..MaxQueries /\ UNCHANGED <<job, raised, ready, table>>
    BY <1>2, <1>8, MaxQueriesAssumption DEF Start, Receive, poolVars
  <2>2. Asked(q)
    BY DEF Asked
  <2>3. CASE RunsInline(Execution(q.op).alone, idle_thread_num, Size(table))
    <3>1. main' = "inline" /\ frame' = [q |-> q, n |-> 0, i |-> 1, acc |-> Neutral(q)]
      BY <1>8, <2>3 DEF Start
    <3> QED BY <1>2, <2>1, <2>2, <3>1 DEF IsFrame, Executing
  <2>4. CASE ~RunsInline(Execution(q.op).alone, idle_thread_num, Size(table))
    <3>1. /\ main' = IF n = 0 THEN "crashed" ELSE "submit"
          /\ frame' = [q |-> q, n |-> n, i |-> 0, acc |-> Neutral(q)]
      BY <1>8, <2>4 DEF Start
    <3>2. n \in Nat
      BY <1>2, <2>4, CountBelowSize, DataSize DEF PoolInv, PoolTypes
    <3> QED BY <1>2, <2>1, <2>2, <3>1, <3>2 DEF IsFrame, Executing
  <2> QED BY <2>3, <2>4
<1>9. CASE InlineRow
  <2>1. UNCHANGED <<num, job, raised, ready>> /\ main = "inline"
    BY <1>9 DEF InlineRow, poolVars
  <2> QED BY <1>2, <1>9, <2>1, InlineRowData, InlineRowFrame DEF Executing
<1>10. CASE InlineEnd \/ AwaitEnd
  <2>1. UNCHANGED <<num, job, raised, ready, table>> /\ main \in {"inline", "await"} /\ Proceed
    BY <1>10 DEF InlineEnd, AwaitEnd, poolVars
  <2> QED BY <1>2, <2>1, ProceedTypes DEF Executing
<1>11. CASE Submit
  <2>1. UNCHANGED <<num, job, raised, ready, table>> /\ main = "submit"
    BY <1>11 DEF Submit, AddTask
  <2> QED BY <1>2, <1>11, <2>1, SubmitFrame DEF Executing
<1>12. CASE Await
  <2>1. UNCHANGED <<num, job, raised, ready, table>> /\ main = "await"
    BY <1>12 DEF Await, poolVars
  <2> QED BY <1>2, <1>12, <2>1, AwaitFrame DEF Executing
<1>13. CASE DeleteCollected \/ CopyCollected
  <2>1. UNCHANGED <<num, job, raised, ready>> /\ main \in {"delete", "copy"}
    BY <1>13 DEF DeleteCollected, CopyCollected, poolVars
  <2> QED BY <1>2, <1>13, <2>1, CollectedStep DEF Executing
<1>14. CASE TakeNext
  BY <1>2, <1>14 DEF TakeNext, TakeTask, mainVars
<1>15. ASSUME NEW t \in Tasks, BeginRegion(t)
       PROVE  <1>3!1
  <2>1. UNCHANGED <<main, num, frame, raised, ready, table>>
    BY <1>15 DEF BeginRegion, BeginTask, mainVars
  <2> QED BY <1>2, <1>15, <2>1, BeginRegionJob
<1>16. ASSUME NEW t \in Tasks, TaskRow(t) \/ StrayRow(t)
       PROVE  <1>3!1
  <2>1. UNCHANGED <<main, num, frame, raised, ready>>
    BY <1>16 DEF TaskRow, StrayRow, mainVars, poolVars
  <2>2. \/ table' = table
        \/ table' = Affected(table, frame.q, job[t].pos)
        \/ table' = Affected(table, job[t].q, job[t].pos)
    BY <1>16 DEF TaskRow, StrayRow
  <2>3. HasData(table')
    BY <1>2, <2>2, AffectedHasData
  <2> QED BY <1>2, <1>16, <2>1, <2>3, TaskRowJob
<1>17. ASSUME NEW t \in Tasks, TaskRaise(t)
       PROVE  <1>3!1
  <2>1. UNCHANGED <<main, num, frame, table>> /\ raised' = raised \cup {t}
        /\ ready' = ready \cup {t} /\ job' = [job EXCEPT ![t] = NoJob]
    BY <1>17 DEF TaskRaise, FinishTask, mainVars
  <2> QED BY <1>2, <2>1, JobEnded
<1>18. ASSUME NEW t \in Tasks, TaskMerge(t) \/ StrayEnd(t)
       PROVE  <1>3!1
  <2>1. UNCHANGED <<main, num, raised, table>>
        /\ ready' = ready \cup {t} /\ job' = [job EXCEPT ![t] = NoJob]
    BY <1>18 DEF TaskMerge, StrayEnd, FinishTask
  <2>2. frame' = frame \/ \E acc : frame' = [frame EXCEPT !.acc = acc]
    BY <1>18 DEF TaskMerge, StrayEnd
  <2>3. IsFrame(frame') /\ frame'.q = frame.q /\ frame'.n = frame.n
    BY <1>2, <2>2, MergedFrame
  <2> QED BY <1>2, <2>1, <2>3, JobEnded
<1>19. ASSUME NEW t \in Tasks, StrayCrash(t) \/ EndRegion(t)
       PROVE  <1>3!1
  BY <1>2, <1>19 DEF StrayCrash, EndRegion, EndTask, mainVars, poolVars, Executing
<1> QED BY <1>4, <1>5, <1>6, <1>7, <1>8, <1>9, <1>10, <1>11, <1>12, <1>13, <1>14,
           <1>15, <1>16, <1>17, <1>18, <1>19 DEF Next, Execute, TaskStep

LEMMA TypesHold == Spec => []Types
BY TypesInit, TypesStep, PTL DEF Spec

(***************************************************************************)
(* The variables keep their types, however the queries, the tasks and the  *)
(* threads interleave, and with tasks that throw as well.                  *)
(***************************************************************************)
THEOREM TypeCorrect == Spec => []TypeOK
<1>1. Types => TypeOK
  BY DEF Types
<1> QED BY <1>1, TypesHold, PTL

-----------------------------------------------------------------------------
(* Failures.  What is known of the numbers in the names of tasks, of the   *)
(* futures that were awaited and of the last result.                       *)

TasksNumbered ==
  \A t \in Submitted :
    /\ t[1] <= num
    /\ t[1] = num =>
         /\ main # "inline"
         /\ main = "submit" => t[2] < frame.i
         /\ main = "await" => t[2] < frame.n

AwaitedReady == main = "await" => \A k \in 0..frame.i-1 : <<num, k>> \in ready

\* An exception of the current query is still to be met.
RaisedAhead ==
  \A t \in raised : t[1] = num =>
    /\ main \notin {"delete", "copy"}
    /\ main = "await" => t[2] >= frame.i

ResultNumbered ==
  /\ result[1] \in Nat /\ result[1] <= num
  /\ main \in Executing => result[1] < num

Failures ==
  /\ TasksNumbered /\ AwaitedReady /\ RaisedAhead /\ ResultNumbered
  /\ main = "submit" => frame.i < frame.n
  /\ NoSilentFailure

\* No step but AddTask brings a task in.
LEMMA SubmittedAfter ==
  ASSUME PoolInv, NEW t \in Tasks,
         \/ UNCHANGED poolVars \/ SetThread \/ TakeTask \/ Close \/ Discard
         \/ BeginTask(t) \/ FinishTask(t) \/ EndTask(t)
  PROVE  Submitted' \subseteq Submitted /\ ready \subseteq ready'
<1>1. CASE UNCHANGED poolVars
  BY <1>1 DEF poolVars, Submitted, QueuedTasks
<1>2. CASE SetThread \/ Close
  BY <1>2 DEF SetThread, Close, Submitted, QueuedTasks
<1>3. CASE TakeTask
  BY <1>3, TakeTaskStep DEF Submitted
<1>4. CASE Discard
  BY <1>4 DEF Discard, Submitted, QueuedTasks
<1>5. CASE BeginTask(t)
  BY <1>5 DEF BeginTask, Submitted, QueuedTasks
<1>6. CASE FinishTask(t)
  BY <1>6 DEF FinishTask, Submitted, QueuedTasks
<1>7. CASE EndTask(t)
  BY <1>7 DEF EndTask, Submitted, QueuedTasks
<1> QED BY <1>1, <1>2, <1>3, <1>4, <1>5, <1>6, <1>7

\* The number and the kind of a result.
LEMMA ResultOf ==
  ASSUME NEW n, NEW op, NEW kind, NEW value
  PROVE  /\ (<<n, op>> \o <<kind, value>>)[1] = n
         /\ (<<n, op>> \o <<kind, value>>)[3] = kind
OBVIOUS

LEMMA ReturnError ==
  ASSUME NEW n, NEW q, Return(n, q, Error)
  PROVE  main' = "ready" /\ result'[1] = n /\ result'[3] = "error"
BY ResultOf DEF Return, Error

LEMMA ReturnNumbered ==
  ASSUME NEW n, NEW q, NEW kind, NEW value, Return(n, q, <<kind, value>>)
  PROVE  main' = "ready" /\ result'[1] = n
BY ResultOf DEF Return

LEMMA ReturnAnswer ==
  ASSUME NEW n, NEW q, NEW acc, Return(n, q, Answer(q, acc))
  PROVE  main' = "ready" /\ result'[1] = n
<1>1. PICK kind, value : Answer(q, acc) = <<kind, value>>
  BY DEF Answer
<1> QED BY <1>1, ResultOf DEF Return

LEMMA FailuresInit == Init => Failures
BY DEF Init, PoolInit, Failures, TasksNumbered, AwaitedReady, RaisedAhead, ResultNumbered,
       NoSilentFailure, Submitted, QueuedTasks, Executing

\* A step of the pool or of a task, which does not throw.
LEMMA QuietStep ==
  ASSUME Failures, Submitted' \subseteq Submitted, ready \subseteq ready',
         UNCHANGED <<main, num, result, raised>>, frame'.n = frame.n, frame'.i = frame.i
  PROVE  Failures'
BY DEF Failures, TasksNumbered, AwaitedReady, RaisedAhead, ResultNumbered, NoSilentFailure

\* A step of the main thread that leaves the pool alone and does not throw.
LEMMA ReceiveStep ==
  ASSUME Types, Failures, NEW i \in DOMAIN Requests,
         Insert(Requests[i]) \/ Refuse(Requests[i]) \/ Start(Requests[i])
  PROVE  Failures'
<1> DEFINE q == Requests[i]
<1>1. /\ num \in Nat /\ num' = num + 1 /\ main = "ready"
      /\ UNCHANGED <<poolVars, raised, ready>>
      /\ result[1] \in Nat /\ result[1] <= num
  BY DEF Insert, Refuse, Start, Receive, poolVars, Types, TypeOK, Failures, ResultNumbered
<1>2. Submitted' = Submitted /\ ready' = ready
  BY <1>1 DEF poolVars, Submitted, QueuedTasks
<1>3. \A t \in Submitted : t[1] \in Nat /\ t[1] <= num
  BY TaskNames DEF Failures, TasksNumbered, Types, TypeOK, Submitted, PoolInv, PoolTypes, QueuedTasks
<1>4. \A t \in raised : t[1] \in Nat /\ t[1] <= num
  BY <1>3 DEF Types, TypeOK, Submitted
<1>5. /\ main' = "await" => frame'.i = 0
      /\ main' = "submit" => frame'.i < frame'.n
      /\ \/ main' = "ready" /\ result'[1] = num + 1
         \/ result' = result
  <2>1. CASE Insert(q) \/ Refuse(q)
    BY <2>1, ReturnError, ReturnNumbered DEF Insert, Refuse
  <2>2. CASE Start(q)
    <3> DEFINE n == ThreadCount(idle_thread_num, Size(table))
    <3>1. CASE RunsInline(Execution(q.op).alone, idle_thread_num, Size(table))
      BY <2>2, <3>1 DEF Start
    <3>2. CASE ~RunsInline(Execution(q.op).alone, idle_thread_num, Size(table))
      <4>1. n \in Nat
        BY <3>2, CountBelowSize, DataSize DEF Types, PoolInv, PoolTypes
      <4>2. /\ main' = IF n = 0 THEN "crashed" ELSE "submit"
            /\ frame' = [q |-> q, n |-> n, i |-> 0, acc |-> Neutral(q)]
            /\ result' = result
        BY <2>2, <3>2 DEF Start
      <4> QED BY <4>1, <4>2
    <3> QED BY <3>1, <3>2
  <2> QED BY <2>1, <2>2
<1>6. /\ \A t \in Submitted' : t[1] # num' /\ t[1] <= num'
      /\ \A t \in raised' : t[1] # num'
  BY <1>1, <1>2, <1>3, <1>4
<1>7. TasksNumbered' /\ AwaitedReady' /\ RaisedAhead'
  BY <1>5, <1>6 DEF TasksNumbered, AwaitedReady, RaisedAhead
<1>8. ResultNumbered' /\ NoSilentFailure'
  BY <1>1, <1>5, <1>6 DEF ResultNumbered, NoSilentFailure, Failures, Executing
<1> QED BY <1>5, <1>7, <1>8 DEF Failures

\* The main thread goes on, returns an answer, or returns an error.
LEMMA ProceedAnswer ==
  ASSUME Types, main \in {"inline", "await"}, Proceed
  PROVE  \/ main' = "ready" /\ result'[1] = num
         \/ main' \in {"delete", "copy"} /\ result' = result
<1>1. CASE Execution(frame.q.op).rest[main] = "none"
  BY <1>1, ReturnAnswer DEF Proceed
<1>2. CASE Execution(frame.q.op).rest[main] # "none"
  BY <1>2, RestOfQuery DEF Proceed, Types, Executing
<1> QED BY <1>1, <1>2

LEMMA InlineRowResult ==
  ASSUME Types, InlineRow
  PROVE  \/ main' = "ready" /\ result'[1] = num
         \/ main' = "inline" /\ result' = result
<1>1. CASE VisitRaises(frame.q, table.data[frame.i])
  BY <1>1, ReturnError DEF InlineRow
<1>2. CASE ~VisitRaises(frame.q, table.data[frame.i])
  BY <1>2 DEF InlineRow
<1> QED BY <1>1, <1>2

LEMMA CollectedResult ==
  ASSUME Types, DeleteCollected \/ CopyCollected
  PROVE  \/ main' = "ready" /\ result'[1] = num
         \/ main' \in {main, "crashed"} /\ result' = result
<1>1. CASE frame.i > Len(frame.acc)
  BY <1>1, ReturnAnswer DEF DeleteCollected, CopyCollected
<1>2. CASE ~(frame.i > Len(frame.acc)) /\ Return(num, frame.q, Error)
  BY <1>2, ReturnError
<1>3. CASE ~(frame.i > Len(frame.acc)) /\ ~Return(num, frame.q, Error)
  BY <1>3 DEF DeleteCollected, CopyCollected
<1> QED BY <1>1, <1>2, <1>3

\* A query that returns, or goes on to its last loop, has no exception left.
LEMMA NothingRaised ==
  ASSUME Types, Failures,
         main \in {"inline", "delete", "copy"} \/ (main = "await" /\ frame.i = frame.n)
  PROVE  \A t \in raised : t[1] # num
<1> SUFFICES ASSUME NEW t \in raised, t[1] = num PROVE FALSE
  OBVIOUS
<1>1. t \in Submitted /\ t \in Tasks
  BY DEF Types, TypeOK, Submitted
<1>2. main = "await" /\ frame.i = frame.n
  BY <1>1 DEF Failures, RaisedAhead, TasksNumbered
<1>3. t[2] < frame.n /\ t[2] >= frame.i
  BY <1>1, <1>2 DEF Failures, RaisedAhead, TasksNumbered
<1> QED BY <1>1, <1>2, <1>3, TaskNames DEF Types, IsFrame

\* The steps of the main thread in a query that leave the pool alone.
LEMMA ExecuteStep ==
  ASSUME Types, Failures,
         InlineRow \/ InlineEnd \/ AwaitEnd \/ DeleteCollected \/ CopyCollected
  PROVE  Failures'
<1>1. /\ UNCHANGED <<poolVars, num, raised, ready>>
      /\ main \in Executing
      /\ main \in {"inline", "delete", "copy"} \/ (main = "await" /\ frame.i = frame.n)
  BY DEF InlineRow, InlineEnd, AwaitEnd, DeleteCollected, CopyCollected, poolVars, Executing
<1>2. Submitted' = Submitted
  BY <1>1 DEF poolVars, Submitted, QueuedTasks
<1>3. \A t \in raised : t[1] # num
  BY <1>1, NothingRaised
<1>4. /\ main' # "submit" /\ main' # "await"
      /\ main' = "inline" => main = "inline"
      /\ \/ main' = "ready" /\ result'[1] = num
         \/ result' = result
  <2>1. CASE InlineRow
    BY <2>1, InlineRowResult DEF InlineRow
  <2>2. CASE InlineEnd \/ AwaitEnd
    BY <2>2, ProceedAnswer DEF InlineEnd, AwaitEnd
  <2>3. CASE DeleteCollected \/ CopyCollected
    BY <2>3, CollectedResult DEF DeleteCollected, CopyCollected
  <2> QED BY <2>1, <2>2, <2>3
<1>5. num \in Nat
  BY DEF Types, TypeOK
<1>6. TasksNumbered' /\ AwaitedReady' /\ RaisedAhead'
  BY <1>1, <1>2, <1>3, <1>4 DEF TasksNumbered, AwaitedReady, RaisedAhead, Failures
<1>7. ResultNumbered' /\ NoSilentFailure'
  BY <1>1, <1>3, <1>4, <1>5
  DEF ResultNumbered, NoSilentFailure, Failures, Executing
<1> QED BY <1>4, <1>6, <1>7 DEF Failures

LEMMA SubmitStep ==
  ASSUME Types, Failures, Submit
  PROVE  Failures'
<1> DEFINE t == <<num, frame.i>>
<1>1. /\ main = "submit" /\ t \in Tasks /\ AddTask(t)
      /\ UNCHANGED <<num, result, raised, ready>>
  BY DEF Submit, AddTask
<1>2. /\ frame.i \in Nat /\ frame.n \in Nat /\ frame.i < frame.n /\ num \in Nat
      /\ frame'.n = frame.n
      /\ \/ frame.i + 1 < frame.n /\ main' = "submit" /\ frame'.i = frame.i + 1
         \/ frame.i + 1 >= frame.n /\ main' = "await" /\ frame'.i = 0
  BY <1>1, SubmitFrame DEF Types, TypeOK, Failures
<1>3. Submitted' = Submitted \cup {t}
  <2>1. QueuedTasks' = QueuedTasks \cup {t} /\ UNCHANGED <<taken, running, ready>>
    BY <1>1, AddTaskStep DEF Types, AddTask
  <2> QED BY <2>1 DEF Submitted
<1>4. \A u \in Submitted : u \in Tasks
  BY DEF Submitted, QueuedTasks, Types, PoolInv, PoolTypes
<1>5. TasksNumbered'
  <2> SUFFICES ASSUME NEW u \in Submitted'
               PROVE  /\ u[1] <= num
                      /\ u[1] = num => u[2] < frame.n /\ (main' = "submit" => u[2] < frame'.i)
    BY <1>1, <1>2 DEF TasksNumbered
  <2>1. CASE u = t
    BY <2>1, <1>2
  <2>2. CASE u \in Submitted
    <3>1. u[1] <= num /\ (u[1] = num => u[2] < frame.i)
      BY <1>1, <2>2 DEF Failures, TasksNumbered
    <3>2. u[2] \in Nat
      BY <1>4, <2>2, TaskNames
    <3> QED BY <1>2, <3>1, <3>2
  <2> QED BY <1>3, <2>1, <2>2
<1>6. AwaitedReady'
  BY <1>2 DEF AwaitedReady
<1>7. RaisedAhead'
  <2>1. \A u \in raised : u[2] \in Nat
    BY TaskNames DEF Types, TypeOK
  <2> QED BY <1>1, <1>2, <2>1 DEF RaisedAhead, Failures
<1>8. ResultNumbered' /\ NoSilentFailure'
  BY <1>1, <1>2 DEF ResultNumbered, NoSilentFailure, Failures, Executing
<1> QED BY <1>2, <1>5, <1>6, <1>7, <1>8 DEF Failures

LEMMA AwaitStep ==
  ASSUME Types, Failures, Await
  PROVE  Failures'
<1>1. /\ main = "await" /\ frame.i \in Nat /\ frame.n \in Nat /\ num \in Nat
      /\ <<num, frame.i>> \in ready
      /\ UNCHANGED <<poolVars, num, raised, ready>>
  BY DEF Await, poolVars, Types, TypeOK
<1>2. Submitted' = Submitted
  BY <1>1 DEF poolVars, Submitted, QueuedTasks
<1>3. CASE <<num, frame.i>> \in raised
  <2>1. main' = "ready" /\ result'[1] = num /\ result'[3] = "error"
    BY <1>3, ReturnError DEF Await
  <2> QED BY <1>1, <1>2, <2>1
       DEF Failures, TasksNumbered, AwaitedReady, RaisedAhead, ResultNumbered,
           NoSilentFailure, Executing
<1>4. CASE <<num, frame.i>> \notin raised
  <2>1. /\ main' = "await" /\ frame'.n = frame.n /\ frame'.i = frame.i + 1
        /\ result' = result
    BY <1>4, AwaitFrame DEF Await
  <2>2. AwaitedReady'
    BY <1>1, <2>1 DEF Failures, AwaitedReady
  <2>3. RaisedAhead'
    <3> SUFFICES ASSUME NEW t \in raised, t[1] = num PROVE t[2] >= frame.i + 1
      BY <1>1, <2>1 DEF RaisedAhead
    <3>1. t = <<num, t[2]>> /\ t[2] \in Nat
      BY TaskNames DEF Types, TypeOK
    <3>2. t[2] >= frame.i /\ t[2] # frame.i
      BY <1>1, <1>4, <3>1 DEF Failures, RaisedAhead
    <3> QED BY <1>1, <3>1, <3>2
  <2> QED BY <1>1, <1>2, <2>1, <2>2, <2>3
       DEF Failures, TasksNumbered, ResultNumbered, NoSilentFailure, Executing
<1> QED BY <1>3, <1>4

LEMMA RaiseStep ==
  ASSUME Types, Failures, NEW t \in Tasks, TaskRaise(t)
  PROVE  Failures'
<1>1. /\ t \in running /\ t[1] = num /\ main \in {"submit", "await"}
      /\ UNCHANGED <<main, num, frame, result>>
      /\ raised' = raised \cup {t} /\ FinishTask(t)
  BY DEF TaskRaise, MoreRows, Alive, mainVars
<1>2. Submitted' \subseteq Submitted /\ ready \subseteq ready'
  BY <1>1, SubmittedAfter DEF Types
<1>3. t = <<num, t[2]>> /\ t[2] \in Nat /\ frame.i \in Nat
  BY <1>1, TaskNames DEF Types, TypeOK
<1>4. main = "await" => t[2] >= frame.i
  <2> SUFFICES ASSUME main = "await", t[2] < frame.i PROVE FALSE
    BY <1>3
  <2>1. t \in ready
    BY <1>3 DEF Failures, AwaitedReady
  <2> QED BY <1>1, <2>1 DEF Types, PoolInv, OncePerTask
<1>5. TasksNumbered' /\ AwaitedReady' /\ ResultNumbered'
  BY <1>1, <1>2 DEF Failures, TasksNumbered, AwaitedReady, ResultNumbered
<1>6. RaisedAhead'
  BY <1>1, <1>4 DEF Failures, RaisedAhead
<1>7. NoSilentFailure'
  <2>1. result[1] \in Nat /\ result[1] < num /\ num \in Nat
    BY <1>1 DEF Failures, ResultNumbered, Executing, Types, TypeOK
  <2> QED BY <1>1, <2>1 DEF Failures, NoSilentFailure
<1> QED BY <1>1, <1>5, <1>6, <1>7 DEF Failures

LEMMA FailuresStep ==
  ASSUME Types, Failures, [Next]_vars
  PROVE  Failures'
<1>1. CASE UNCHANGED vars
  <2>1. Submitted' = Submitted
    BY <1>1 DEF vars, poolVars, Submitted, QueuedTasks
  <2> QED BY <1>1, <2>1, QuietStep DEF vars, mainVars, poolVars
<1>2. CASE Configure \/ Exit \/ Join
  <2>1. /\ UNCHANGED <<num, result, raised>> /\ main' \notin Executing
        /\ SetThread \/ Close \/ Discard
    BY <1>2 DEF Configure, Exit, Join, Executing
  <2>2. Submitted' \subseteq Submitted
    BY <2>1 DEF SetThread, Close, Discard, Submitted, QueuedTasks
  <2> QED BY <2>1, <2>2
       DEF Failures, TasksNumbered, AwaitedReady, RaisedAhead, ResultNumbered,
           NoSilentFailure, Executing
<1>3. CASE TakeNext
  <2>1. Submitted' \subseteq Submitted /\ ready' = ready
    BY <1>3, TakeTaskStep DEF TakeNext, Types, Submitted
  <2> QED BY <1>3, <2>1, QuietStep DEF TakeNext, mainVars
<1>4. ASSUME NEW t \in Tasks,
             \/ BeginRegion(t) \/ TaskRow(t) \/ TaskMerge(t)
             \/ StrayRow(t) \/ StrayEnd(t) \/ EndRegion(t)
      PROVE  Failures'
  <2>1. UNCHANGED <<main, num, result, raised>>
    BY <1>4 DEF BeginRegion, TaskRow, TaskMerge, StrayRow, StrayEnd, EndRegion, mainVars
  <2>2. \/ UNCHANGED poolVars \/ BeginTask(t) \/ FinishTask(t) \/ EndTask(t)
    BY <1>4 DEF BeginRegion, TaskRow, TaskMerge, StrayRow, StrayEnd, EndRegion
  <2>3. Submitted' \subseteq Submitted /\ ready \subseteq ready'
    BY <2>2, SubmittedAfter DEF Types
  <2>4. frame' = frame \/ \E acc : frame' = [frame EXCEPT !.acc = acc]
    BY <1>4 DEF BeginRegion, TaskRow, TaskMerge, StrayRow, StrayEnd, EndRegion, mainVars
  <2>5. frame'.n = frame.n /\ frame'.i = frame.i
    BY <2>4, MergedFrame DEF Types
  <2> QED BY <2>1, <2>3, <2>5, QuietStep
<1>5. ASSUME NEW t \in Tasks, StrayCrash(t)
      PROVE  Failures'
  <2>1. UNCHANGED <<poolVars, num, result, raised>> /\ main' = "crashed"
    BY <1>5 DEF StrayCrash
  <2>2. Submitted' = Submitted
    BY <2>1 DEF poolVars, Submitted, QueuedTasks
  <2> QED BY <2>1, <2>2
       DEF Failures, TasksNumbered, AwaitedReady, RaisedAhead, ResultNumbered,
           NoSilentFailure, Executing
<1> QED BY <1>1, <1>2, <1>3, <1>4, <1>5, ReceiveStep, ExecuteStep, SubmitStep, AwaitStep,
           RaiseStep DEF Next, Execute, TaskStep

LEMMA FailuresHold == Spec => []Failures
BY TypesHold, FailuresInit, FailuresStep, PTL DEF Spec

(***************************************************************************)
(* A query one of whose tasks threw reports an error, whichever future     *)
(* holds the exception and whatever the other tasks do afterwards.         *)
(***************************************************************************)
THEOREM FailuresReported == Spec => []NoSilentFailure
<1>1. Failures => NoSilentFailure
  BY DEF Failures
<1> QED BY <1>1, FailuresHold, PTL

-----------------------------------------------------------------------------
(* Regions.  Every task that execute still waits for is where its region   *)
(* says, even when other tasks have thrown.                                *)

InRegions ==
  \A t \in running : Alive(t) =>
    /\ job[t].pos > RegionHead(Size(table), frame.n, t[2])
    /\ job[t].tail = RegionTail(Size(table), frame.n, t[2])

\* The number of the region of a task of the current batch.
LEMMA TaskOfBatch ==
  ASSUME Types, Failures, NEW t \in Submitted, Alive(t)
  PROVE  /\ t \in Tasks /\ t = <<num, t[2]>>
         /\ frame.n \in Nat \ {0} /\ t[2] \in 0..frame.n-1
<1>1. t \in Tasks
  BY DEF Submitted, QueuedTasks, Types, PoolInv, PoolTypes
<1>2. t[1] = num /\ main \in {"submit", "await"}
  BY DEF Alive
<1>3. frame.n \in Nat \ {0} /\ frame.i \in Nat
  BY <1>2 DEF Types, TypeOK
<1>4. t[2] < frame.n
  BY <1>1, <1>2, <1>3, TaskNames DEF Failures, TasksNumbered
<1> QED BY <1>1, <1>2, <1>3, <1>4, TaskNames

LEMMA ReplacedSize ==
  ASSUME NEW t, HasData(t), NEW p, NEW x
  PROVE  Size(SetVals(t, p, x)) = Size(t) /\ Size(SetKey(t, p, x)) = Size(t)
<1>1. PICK S : t.data \in Seq(S)
  BY DEF HasData
<1> DEFINE v == [t.data[p] EXCEPT !.vals = x]
           k == [t.data[p] EXCEPT !.key = x]
<1>2. SetVals(t, p, x).data = [t.data EXCEPT ![p] = v]
  BY DEF SetVals
<1>3. SetKey(t, p, x).data = [t.data EXCEPT ![p] = k]
  BY DEF SetKey
<1> HIDE DEF v, k
<1>4. Len([t.data EXCEPT ![p] = v]) = Len(t.data)
  BY <1>1, ReplaceHasData, Zenon
<1>5. Len([t.data EXCEPT ![p] = k]) = Len(t.data)
  BY <1>1, ReplaceHasData, Zenon
<1> QED BY <1>2, <1>3, <1>4, <1>5, Zenon DEF Size

\* What a visit does to a row adds and removes none.
LEMMA AffectedSize ==
  ASSUME NEW t, HasData(t), NEW q, NEW p
  PROVE  Size(Affected(t, q, p)) = Size(t)
<1>1. /\ Size(SetVals(t, p, NewVals(q, t.data[p].vals))) = Size(t)
      /\ Size(SetKey(t, p, q.arg)) = Size(t)
  BY ReplacedSize
<1> QED BY <1>1 DEF Affected

\* The number of rows changes while no task is waited for only.
LEMMA SizeKept ==
  ASSUME Types, [Next]_vars, main \in {"submit", "await"}
  PROVE  Size(table') = Size(table)
<1>1. CASE table' = table
  BY <1>1
<1>2. ASSUME NEW t \in Tasks, TaskRow(t) \/ StrayRow(t)
      PROVE  Size(table') = Size(table)
  <2>1. \/ table' = table
        \/ table' = Affected(table, frame.q, job[t].pos)
        \/ table' = Affected(table, job[t].q, job[t].pos)
    BY <1>2 DEF TaskRow, StrayRow
  <2> QED BY <2>1, AffectedSize DEF Types
<1>3. CASE UNCHANGED vars
  BY <1>3 DEF vars
<1>4. ASSUME NEW i \in DOMAIN Requests
      PROVE  ~Insert(Requests[i]) /\ ~Refuse(Requests[i]) /\ ~Start(Requests[i])
  BY DEF Insert, Refuse, Start, Receive
<1>5. CASE Execute \/ Configure \/ Exit \/ Join \/ TakeNext
  BY <1>1, <1>5 DEF Execute, InlineRow, InlineEnd, Submit, Await, AwaitEnd, DeleteCollected,
       CopyCollected, Configure, Exit, Join, TakeNext
<1>6. ASSUME NEW t \in Tasks,
             \/ BeginRegion(t) \/ TaskRaise(t) \/ TaskMerge(t)
             \/ StrayEnd(t) \/ StrayCrash(t) \/ EndRegion(t)
      PROVE  Size(table') = Size(table)
  BY <1>1, <1>6 DEF BeginRegion, TaskRaise, TaskMerge, StrayEnd, StrayCrash, EndRegion
<1> QED BY <1>2, <1>3, <1>4, <1>5, <1>6 DEF Next, TaskStep

\* A step that starts no query keeps the batch of the tasks it waits for.
LEMMA BatchKept ==
  ASSUME Types, Failures, [Next]_vars, main' \in {"submit", "await"}
  PROVE  \/ /\ main \in {"submit", "await"} /\ num' = num /\ frame'.n = frame.n
            /\ frame'.q = frame.q /\ Size(table') = Size(table)
            /\ frame'.i \in Nat
         \/ /\ main = "ready" /\ num' = num + 1 /\ UNCHANGED <<poolVars, job, table, raised>>
            /\ \E i \in DOMAIN Requests : Start(Requests[i])
<1>1. CASE UNCHANGED vars
  BY <1>1 DEF vars, mainVars, Types, TypeOK
<1>2. ASSUME NEW i \in DOMAIN Requests,
             Insert(Requests[i]) \/ Refuse(Requests[i]) \/ Start(Requests[i])
      PROVE  /\ main = "ready" /\ num' = num + 1 /\ UNCHANGED <<poolVars, job, table, raised>>
             /\ Start(Requests[i])
  <2>1. ~Insert(Requests[i]) /\ ~Refuse(Requests[i])
    BY ReturnTypes DEF Insert, Refuse
  <2> QED BY <1>2, <2>1 DEF Start, Receive
<1>3. CASE InlineRow
  BY <1>3, InlineRowFrame
<1>4. CASE InlineEnd \/ AwaitEnd
  BY <1>4, ProceedTypes DEF InlineEnd, AwaitEnd
<1>5. CASE DeleteCollected \/ CopyCollected
  BY <1>5, CollectedStep DEF DeleteCollected, CopyCollected
<1>6. CASE Submit
  BY <1>6, SubmitFrame, SizeKept DEF Submit, IsFrame
<1>7. CASE Await
  BY <1>7, AwaitFrame, SizeKept DEF Await, IsFrame
<1>8. CASE Configure \/ Exit \/ Join \/ TakeNext
  BY <1>8, SizeKept DEF Configure, Exit, Join, TakeNext, mainVars, Types, TypeOK
<1>9. ASSUME NEW t \in Tasks, TaskStep(t)
      PROVE  /\ main \in {"submit", "await"} /\ num' = num /\ frame'.n = frame.n
             /\ frame'.q = frame.q /\ Size(table') = Size(table)
             /\ frame'.i \in Nat
  <2>1. main' = main /\ num' = num
    BY <1>9 DEF TaskStep, BeginRegion, TaskRow, TaskRaise, TaskMerge, StrayRow, StrayEnd,
                StrayCrash, EndRegion, mainVars
  <2>2. frame' = frame \/ \E acc : frame' = [frame EXCEPT !.acc = acc]
    BY <1>9 DEF TaskStep, BeginRegion, TaskRow, TaskRaise, TaskMerge, StrayRow, StrayEnd,
                StrayCrash, EndRegion, mainVars
  <2>3. IsFrame(frame') /\ frame'.q = frame.q /\ frame'.n = frame.n
    BY <2>2, MergedFrame DEF Types
  <2> QED BY <2>1, <2>3, SizeKept DEF IsFrame
<1> QED BY <1>1, <1>2, <1>3, <1>4, <1>5, <1>6, <1>7, <1>8, <1>9 DEF Next, Execute

\* The jobs of the tasks that a step leaves running.
LEMMA JobsKept ==
  ASSUME Types, [Next]_vars, NEW t \in running, t \in running',
         Alive(t) \/ job' = job
  PROVE  /\ job'[t].tail = job[t].tail
         /\ \/ job'[t] = job[t]
            \/ TaskRow(t) /\ job'[t].pos = job[t].pos + 1
<1>1. t \in Tasks
  BY DEF Types, PoolInv, PoolTypes
<1>2. CASE job' = job
  BY <1>2
<1>3. ASSUME NEW u \in Tasks, BeginRegion(u)
      PROVE  job'[t] = job[t]
  <2>1. u # t
    BY <1>3 DEF BeginRegion, BeginTask, Types, PoolInv, OncePerTask
  <2> QED BY <1>1, <1>3, <2>1, BeginRegionJob
<1>4. ASSUME NEW u \in Tasks, TaskRow(u)
      PROVE  /\ job'[t].tail = job[t].tail
             /\ \/ job'[t] = job[t]
                \/ TaskRow(t) /\ job'[t].pos = job[t].pos + 1
  BY <1>1, <1>4, TaskRowJob
<1>5. ASSUME NEW u \in Tasks, Alive(t), StrayRow(u)
      PROVE  job'[t] = job[t]
  <2>1. u # t
    BY <1>5 DEF StrayRow, Stray
  <2> QED BY <1>1, <1>5, <2>1, TaskRowJob
<1>6. ASSUME NEW u \in Tasks, TaskRaise(u) \/ TaskMerge(u) \/ StrayEnd(u)
      PROVE  job'[t] = job[t]
  <2>1. u # t /\ job' = [job EXCEPT ![u] = NoJob]
    BY <1>6 DEF TaskRaise, TaskMerge, StrayEnd, FinishTask
  <2> QED BY <1>1, <2>1, JobEnded
<1>7. CASE UNCHANGED vars
  BY <1>7 DEF vars
<1>8. ASSUME NEW i \in DOMAIN Requests,
             Insert(Requests[i]) \/ Refuse(Requests[i]) \/ Start(Requests[i])
      PROVE  job' = job
  BY <1>8 DEF Insert, Refuse, Start, Receive
<1>9. CASE Execute \/ Configure \/ Exit \/ Join \/ TakeNext
  BY <1>2, <1>9 DEF Execute, InlineRow, InlineEnd, Submit, Await, AwaitEnd, DeleteCollected,
       CopyCollected, Configure, Exit, Join, TakeNext
<1>10. ASSUME NEW u \in Tasks, StrayCrash(u) \/ EndRegion(u)
       PROVE  job' = job
  BY <1>10 DEF StrayCrash, EndRegion
<1> QED BY <1>2, <1>3, <1>4, <1>5, <1>6, <1>7, <1>8, <1>9, <1>10 DEF Next, TaskStep

\* Only BeginRegion makes a task run.
LEMMA Beginning ==
  ASSUME PoolInv, [Next]_vars, NEW t \in running', t \notin running
  PROVE  t \in Tasks /\ BeginRegion(t)
<1>1. CASE UNCHANGED vars
  BY <1>1 DEF vars, poolVars
<1>2. CASE Configure \/ Exit \/ Join \/ TakeNext
  BY <1>2 DEF Configure, Exit, Join, TakeNext, SetThread, Close, Discard, TakeTask
<1>3. ASSUME NEW i \in DOMAIN Requests,
             Insert(Requests[i]) \/ Refuse(Requests[i]) \/ Start(Requests[i])
      PROVE  FALSE
  BY <1>3 DEF Insert, Refuse, Start, Receive, poolVars
<1>4. CASE Execute
  BY <1>4 DEF Execute, InlineRow, InlineEnd, Submit, AddTask, Await, AwaitEnd,
              DeleteCollected, CopyCollected, poolVars
<1>5. ASSUME NEW u \in Tasks, BeginRegion(u)
      PROVE  t = u
  BY <1>5 DEF BeginRegion, BeginTask
<1>6. ASSUME NEW u \in Tasks,
             \/ TaskRow(u) \/ TaskRaise(u) \/ TaskMerge(u) \/ StrayRow(u)
             \/ StrayEnd(u) \/ StrayCrash(u) \/ EndRegion(u)
      PROVE  FALSE
  BY <1>6 DEF TaskRow, TaskRaise, TaskMerge, StrayRow, StrayEnd, StrayCrash, EndRegion,
              FinishTask, EndTask, poolVars
<1> QED BY <1>1, <1>2, <1>3, <1>4, <1>5, <1>6 DEF Next, TaskStep

LEMMA InRegionsStep ==
  ASSUME Types, Failures, InRegions, [Next]_vars
  PROVE  InRegions'
<1> SUFFICES ASSUME NEW t \in running', t[1] = num', main' \in {"submit", "await"}
             PROVE  /\ job'[t].pos > RegionHead(Size(table'), frame'.n, t[2])
                    /\ job'[t].tail = RegionTail(Size(table'), frame'.n, t[2])
  BY DEF InRegions, Alive
<1>1. CASE main = "ready" /\ num' = num + 1 /\ UNCHANGED poolVars
  <2>1. t[1] <= num /\ num \in Nat
    BY <1>1 DEF Failures, TasksNumbered, Submitted, poolVars, Types, TypeOK
  <2> QED BY <1>1, <2>1
<1>2. CASE /\ main \in {"submit", "await"} /\ num' = num /\ frame'.n = frame.n
           /\ Size(table') = Size(table)
  <2>1. Alive(t)
    BY <1>2 DEF Alive
  <2> DEFINE head == RegionHead(Size(table), frame.n, t[2])
             tail == RegionTail(Size(table), frame.n, t[2])
  <2>2. RegionHead(Size(table'), frame'.n, t[2]) = head
        /\ RegionTail(Size(table'), frame'.n, t[2]) = tail
    BY <1>2
  <2>3. head \in Nat
    <3>1. t \in Tasks
      BY <1>2, UsesPool, PoolStep DEF Types, PoolInv, PoolTypes
    <3>2. t[2] \in Nat /\ frame.n \in Nat \ {0} /\ Size(table) \in Nat
      BY <1>2, <3>1, TaskNames, DataSize DEF Types, IsFrame
    <3> QED BY <3>2, RegionNumbers, Zenon
  <2> HIDE DEF head, tail
  <2>4. job'[t].pos > head /\ job'[t].tail = tail
    <3>1. CASE t \in running
      <4>1. job[t].pos > head /\ job[t].tail = tail
        BY <2>1, <3>1 DEF InRegions, head, tail
      <4>2. job[t].pos \in Int
        BY <3>1 DEF Types, IsJob, PoolInv, PoolTypes
      <4> QED BY <2>1, <2>3, <3>1, <4>1, <4>2, JobsKept
    <3>2. CASE t \notin running
      <4>1. t \in Tasks /\ BeginRegion(t)
        BY <3>2, Beginning DEF Types
      <4>2. job'[t].pos = head + 1 /\ job'[t].tail = tail
        <5>1. job'[t] = [q |-> frame.q, pos |-> head + 1, tail |-> tail,
                         acc |-> Neutral(frame.q)]
          BY <2>1, <4>1, BeginRegionJob DEF head, tail
        <5> QED BY <5>1
      <4> QED BY <2>3, <4>2
    <3> QED BY <3>1, <3>2
  <2> QED BY <2>2, <2>4
<1> QED BY <1>1, <1>2, BatchKept

LEMMA RegionsHold == Spec => []InRegions
<1>1. Init => InRegions
  BY DEF Init, PoolInit, InRegions
<1> QED BY <1>1, InRegionsStep, TypesHold, FailuresHold, PTL DEF Spec

-----------------------------------------------------------------------------
(* Threads.  The counter, whatever the tasks do.                           *)

\* The tasks whose thread is counted busy.
Busy == running \cup lagging

IdleCounted ==
  IF main = "start" THEN Submitted = {}
  ELSE idle_thread_num = ThreadNum - Cardinality(Busy)

LEMMA TaskSetFinite ==
  ASSUME NEW S \in SUBSET Tasks
  PROVE  IsFiniteSet(S) /\ Cardinality(S) \in Nat
BY TasksAssumption, FS_Subset, FS_CardinalityType

\* The steps that do not count a thread busy or idle.
LEMMA BusyKept ==
  ASSUME PoolInv, NEW t \in Tasks,
         UNCHANGED poolVars \/ AddTask(t) \/ TakeTask \/ FinishTask(t) \/ Close \/ Discard
  PROVE  Busy' = Busy /\ idle_thread_num' = idle_thread_num
BY DEF poolVars, AddTask, TakeTask, FinishTask, Close, Discard, Busy

LEMMA BusyBegins ==
  ASSUME PoolInv, NEW t \in Tasks, BeginTask(t)
  PROVE  /\ Cardinality(Busy') = Cardinality(Busy) + 1
         /\ idle_thread_num' = idle_thread_num - 1
<1>1. Busy' = Busy \cup {t} /\ t \notin Busy /\ Busy \in SUBSET Tasks
  BY DEF BeginTask, Busy, PoolInv, PoolTypes, OncePerTask
<1> QED BY <1>1, TaskSetFinite, FS_AddElement DEF BeginTask

LEMMA BusyEnds ==
  ASSUME PoolInv, NEW t \in Tasks, EndTask(t)
  PROVE  /\ Cardinality(Busy') = Cardinality(Busy) - 1
         /\ idle_thread_num' = idle_thread_num + 1
<1>1. Busy' = Busy \ {t} /\ t \in Busy /\ Busy \in SUBSET Tasks
  BY DEF EndTask, Busy, PoolInv, PoolTypes, OncePerTask
<1> QED BY <1>1, TaskSetFinite, FS_RemoveElement DEF EndTask

\* What a step does to the pool, as far as threads are counted.
LEMMA PoolUse ==
  ASSUME [Next]_vars
  PROVE  \/ Configure
         \/ \E t \in Tasks : BeginRegion(t) /\ BeginTask(t)
         \/ \E t \in Tasks : EndRegion(t) /\ EndTask(t)
         \/ Submit /\ AddTask(<<num, frame.i>>) /\ <<num, frame.i>> \in Tasks
         \/ TakeNext /\ TakeTask
         \/ Exit /\ Close
         \/ Join /\ Discard
         \/ \E t \in Tasks : (TaskRaise(t) \/ TaskMerge(t) \/ StrayEnd(t)) /\ FinishTask(t)
         \/ UNCHANGED poolVars
<1>1. CASE UNCHANGED vars
  BY <1>1 DEF vars
<1>2. CASE Configure \/ Exit \/ Join \/ TakeNext
  BY <1>2 DEF Exit, Join, TakeNext
<1>3. ASSUME NEW i \in DOMAIN Requests,
             Insert(Requests[i]) \/ Refuse(Requests[i]) \/ Start(Requests[i])
      PROVE  UNCHANGED poolVars
  BY <1>3 DEF Insert, Refuse, Start, Receive
<1>4. CASE Execute
  BY <1>4 DEF Execute, InlineRow, InlineEnd, Submit, Await, AwaitEnd, DeleteCollected,
              CopyCollected
<1>5. ASSUME NEW t \in Tasks, TaskStep(t)
      PROVE  \/ BeginRegion(t) /\ BeginTask(t)
             \/ EndRegion(t) /\ EndTask(t)
             \/ (TaskRaise(t) \/ TaskMerge(t) \/ StrayEnd(t)) /\ FinishTask(t)
             \/ UNCHANGED poolVars
  BY <1>5 DEF TaskStep, BeginRegion, TaskRow, TaskRaise, TaskMerge, StrayRow, StrayEnd,
              StrayCrash, EndRegion
<1> QED BY <1>1, <1>2, <1>3, <1>4, <1>5 DEF Next

\* Before set_thread there are no tasks and no queries.
LEMMA OnlyConfigureStarts ==
  ASSUME Types, main = "start", Submitted = {}, [Next]_vars
  PROVE  Configure \/ (UNCHANGED poolVars /\ main' = "start")
<1>1. \A t \in Tasks : ~TaskStep(t)
  BY DEF TaskStep, BeginRegion, BeginTask, TaskRow, MoreRows, TaskRaise, TaskMerge, StrayRow,
         Stray, StrayEnd, StrayCrash, EndRegion, EndTask, Submitted, Types, PoolInv, PoolTypes
<1>2. ~Execute /\ ~Exit /\ ~Join
  BY DEF Execute, InlineRow, InlineEnd, Submit, Await, AwaitEnd, DeleteCollected,
         CopyCollected, Exit, Join
<1>3. ~TakeNext
  BY TakeTaskStep DEF TakeNext, Types, Submitted
<1>4. \A i \in DOMAIN Requests :
        ~Insert(Requests[i]) /\ ~Refuse(Requests[i]) /\ ~Start(Requests[i])
  BY DEF Insert, Refuse, Start, Receive
<1> QED BY <1>1, <1>2, <1>3, <1>4 DEF Next, vars, mainVars

LEMMA StaysStarted ==
  ASSUME Types, main # "start", [Next]_vars
  PROVE  main' # "start" /\ ~Configure
<1>2. ~Configure
  BY DEF Configure
<1> SUFFICES main' # "start"
  BY <1>2
<1>1. CASE UNCHANGED vars
  BY <1>1 DEF vars, mainVars
<1>3. CASE Execute
  <2>1. CASE InlineEnd \/ AwaitEnd
    BY <2>1, ProceedTypes DEF InlineEnd, AwaitEnd
  <2>2. CASE InlineRow \/ Submit \/ Await
    BY <2>2, InlineRowFrame, SubmitFrame, AwaitFrame
  <2>3. CASE DeleteCollected \/ CopyCollected
    BY <2>3, CollectedStep
  <2> QED BY <1>3, <2>1, <2>2, <2>3 DEF Execute
<1>4. ASSUME NEW i \in DOMAIN Requests,
             Insert(Requests[i]) \/ Refuse(Requests[i]) \/ Start(Requests[i])
      PROVE  main' # "start"
  BY <1>4, ReturnTypes DEF Insert, Refuse, Start
<1>5. CASE Exit \/ Join \/ TakeNext
  BY <1>5 DEF Exit, Join, TakeNext, mainVars
<1>6. ASSUME NEW t \in Tasks, TaskStep(t)
      PROVE  main' # "start"
  BY <1>6 DEF TaskStep, BeginRegion, TaskRow, TaskRaise, TaskMerge, StrayRow, StrayEnd,
              StrayCrash, EndRegion, mainVars
<1> QED BY <1>1, <1>2, <1>3, <1>4, <1>5, <1>6 DEF Next

LEMMA IdleCountedStep ==
  ASSUME Types, IdleCounted, [Next]_vars
  PROVE  IdleCounted'
<1> DEFINE b == Cardinality(Busy)
<1>1. idle_thread_num \in Int /\ ThreadNum \in Nat
  BY ThreadNumAssumption DEF Types, PoolInv, PoolTypes
<1>2. b \in Nat
  BY TaskSetFinite DEF Busy, Types, PoolInv, PoolTypes
<1>3. CASE Configure
  <2>1. Busy' = {} /\ idle_thread_num' = ThreadNum /\ main' = "ready"
    BY <1>3 DEF Configure, SetThread, Busy, Submitted, Types, PoolInv, PoolTypes
  <2> QED BY <1>1, <2>1, FS_EmptySet DEF IdleCounted
<1>4. CASE main = "start" /\ ~Configure
  <2>1. UNCHANGED poolVars /\ main' = "start"
    BY <1>4, OnlyConfigureStarts DEF IdleCounted
  <2> QED BY <1>4, <2>1 DEF IdleCounted, Submitted, QueuedTasks, poolVars
<1>5. CASE main # "start"
  <2>1. idle_thread_num = ThreadNum - b /\ main' # "start" /\ ~Configure
    BY <1>5, StaysStarted DEF IdleCounted
  <2> SUFFICES idle_thread_num' = ThreadNum - Cardinality(Busy')
    BY <2>1 DEF IdleCounted
  <2>2. \/ Busy' = Busy /\ idle_thread_num' = idle_thread_num
        \/ Cardinality(Busy') = b + 1 /\ idle_thread_num' = idle_thread_num - 1
        \/ Cardinality(Busy') = b - 1 /\ idle_thread_num' = idle_thread_num + 1
    <3>1. ASSUME UNCHANGED poolVars \/ TakeTask \/ Close \/ Discard
          PROVE  Busy' = Busy /\ idle_thread_num' = idle_thread_num
      BY <3>1 DEF poolVars, TakeTask, Close, Discard, Busy
    <3> QED BY <2>1, <3>1, PoolUse, BusyKept, BusyBegins, BusyEnds DEF Types
  <2> QED BY <1>1, <1>2, <2>1, <2>2
<1> QED BY <1>3, <1>4, <1>5

LEMMA IdleCountedHolds == Spec => []IdleCounted
<1>1. Init => IdleCounted
  BY DEF Init, PoolInit, IdleCounted, Submitted, QueuedTasks
<1> QED BY <1>1, IdleCountedStep, TypesHold, PTL DEF Spec

-----------------------------------------------------------------------------
(* Batches.  As long as no task has thrown, execute outlives its tasks, so *)
(* a batch begins when the tasks of the one before have made their futures *)
(* ready, and finds the threads it counted.                                *)

\* What holds a thread, or will, without the tasks still to be submitted.
Load == Outstanding \cup lagging

ToSubmit == IF main = "submit" THEN frame.n - frame.i ELSE 0

BatchFits == main # "start" => Cardinality(Load) + ToSubmit <= ThreadNum

Calm == raised = {} => NoStrayTask /\ BatchFits

LEMMA LoadFinite ==
  ASSUME PoolInv
  PROVE  /\ Load \in SUBSET Tasks /\ Busy \in SUBSET Load /\ lagging \in SUBSET Load
         /\ Cardinality(Load) \in Nat /\ Cardinality(Busy) \in Nat
         /\ Cardinality(Busy) <= Cardinality(Load)
<1>1. Load \in SUBSET Tasks /\ Busy \in SUBSET Load /\ lagging \in SUBSET Load
  BY DEF Load, Busy, Outstanding, QueuedTasks, PoolInv, PoolTypes
<1>2. IsFiniteSet(Load) /\ Cardinality(Load) \in Nat
  BY <1>1, TaskSetFinite
<1>3. Cardinality(Busy) <= Cardinality(Load)
  BY <1>1, <1>2, FS_Subset
<1>4. Cardinality(Busy) \in Nat
  BY <1>1, TaskSetFinite
<1> QED BY <1>1, <1>2, <1>3, <1>4

\* A future that raised keeps its exception.
LEMMA RaisedStays ==
  ASSUME [Next]_vars
  PROVE  raised \subseteq raised'
<1>1. CASE UNCHANGED vars
  BY <1>1 DEF vars
<1>2. CASE Configure \/ Exit \/ Join \/ TakeNext \/ Execute
  BY <1>2 DEF Configure, Exit, Join, TakeNext, Execute, InlineRow, InlineEnd, Submit, Await,
              AwaitEnd, DeleteCollected, CopyCollected
<1>3. ASSUME NEW i \in DOMAIN Requests,
             Insert(Requests[i]) \/ Refuse(Requests[i]) \/ Start(Requests[i])
      PROVE  raised \subseteq raised'
  BY <1>3 DEF Insert, Refuse, Start, Receive
<1>4. ASSUME NEW t \in Tasks, TaskStep(t)
      PROVE  raised \subseteq raised'
  BY <1>4 DEF TaskStep, BeginRegion, TaskRow, TaskRaise, TaskMerge, StrayRow, StrayEnd,
              StrayCrash, EndRegion
<1> QED BY <1>1, <1>2, <1>3, <1>4 DEF Next

\* Tasks that wait for a thread or run are those of the current batch.
LEMMA NoneOutstanding ==
  ASSUME Types, Failures, NoStrayTask,
         main \notin {"submit", "await"} \/ (main = "await" /\ frame.i = frame.n)
  PROVE  Outstanding = {}
<1> SUFFICES ASSUME NEW t \in Outstanding PROVE FALSE
  OBVIOUS
<1>1. Alive(t) /\ t \in Submitted
  BY DEF NoStrayTask, Outstanding, Submitted
<1>2. main = "await" /\ frame.i = frame.n
  BY <1>1 DEF Alive
<1>3. t = <<num, t[2]>> /\ t[2] \in 0..frame.n-1
  BY <1>1, TaskOfBatch
<1>4. t \in ready
  BY <1>2, <1>3 DEF Failures, AwaitedReady
<1> QED BY <1>4 DEF Outstanding, Types, PoolInv, OncePerTask

\* The steps of the pool on a task that was submitted.
LEMMA LoadAfter ==
  ASSUME PoolInv,
         \/ UNCHANGED poolVars \/ TakeTask \/ Close \/ Discard
         \/ \E t \in Tasks : BeginTask(t) \/ FinishTask(t) \/ EndTask(t)
  PROVE  /\ Outstanding' \subseteq Outstanding
         /\ Cardinality(Load') <= Cardinality(Load) /\ Cardinality(Load') \in Nat
<1>1. Outstanding' \subseteq Outstanding /\ Load' \subseteq Load
  <2>1. CASE UNCHANGED poolVars
    BY <2>1 DEF poolVars, Load, Outstanding, QueuedTasks
  <2>2. CASE TakeTask
    BY <2>2, TakeTaskStep DEF Load, Outstanding
  <2>3. CASE Close
    BY <2>3 DEF Close, Load, Outstanding, QueuedTasks
  <2>4. CASE Discard
    BY <2>4 DEF Discard, Load, Outstanding, QueuedTasks
  <2>5. ASSUME NEW t \in Tasks, BeginTask(t)
        PROVE  Outstanding' \subseteq Outstanding /\ Load' \subseteq Load
    BY <2>5 DEF BeginTask, Load, Outstanding, QueuedTasks
  <2>6. ASSUME NEW t \in Tasks, FinishTask(t)
        PROVE  Outstanding' \subseteq Outstanding /\ Load' \subseteq Load
    BY <2>6 DEF FinishTask, Load, Outstanding, QueuedTasks
  <2>7. ASSUME NEW t \in Tasks, EndTask(t)
        PROVE  Outstanding' \subseteq Outstanding /\ Load' \subseteq Load
    BY <2>7 DEF EndTask, Load, Outstanding, QueuedTasks
  <2> QED BY <2>1, <2>2, <2>3, <2>4, <2>5, <2>6, <2>7
<1>2. IsFiniteSet(Load)
  BY LoadFinite, TaskSetFinite
<1> QED BY <1>1, <1>2, FS_Subset, FS_CardinalityType

LEMMA StartCalm ==
  ASSUME Types, Failures, IdleCounted, NoStrayTask, BatchFits,
         NEW i \in DOMAIN Requests, Start(Requests[i])
  PROVE  NoStrayTask' /\ BatchFits'
<1> DEFINE q == Requests[i]
           n == ThreadCount(idle_thread_num, Size(table))
           c == Cardinality(Load)
<1>1. main = "ready" /\ UNCHANGED poolVars
  BY DEF Start, Receive
<1>2. Outstanding = {}
  BY <1>1, NoneOutstanding
<1>3. Outstanding' = {} /\ Load' = Load
  BY <1>1, <1>2 DEF Outstanding, Load, QueuedTasks, poolVars
<1>4. c \in Nat /\ c <= ThreadNum /\ idle_thread_num = ThreadNum - c /\ ThreadNum \in Nat
  <2>1. Load = Busy
    BY <1>2 DEF Load, Busy, Outstanding
  <2> QED BY <1>1, <2>1, LoadFinite, ThreadNumAssumption
          DEF IdleCounted, BatchFits, ToSubmit, Types
<1> HIDE DEF c
<1>5. ToSubmit' + c <= ThreadNum
  <2>1. CASE RunsInline(Execution(q.op).alone, idle_thread_num, Size(table))
    <3>1. main' = "inline"
      BY <2>1 DEF Start
    <3> QED BY <1>4, <3>1 DEF ToSubmit
  <2>2. CASE ~RunsInline(Execution(q.op).alone, idle_thread_num, Size(table))
    <3>1. /\ main' \in {"crashed", "submit"}
          /\ frame' = [q |-> q, n |-> n, i |-> 0, acc |-> Neutral(q)]
      BY <2>2 DEF Start
    <3>2. idle_thread_num \in Nat /\ Size(table) \in Nat
      BY <1>4, DataSize DEF Types
    <3>3. n \in Nat /\ n <= Unsigned(idle_thread_num)
      BY <2>2, <3>2, CountBelowSize
    <3>4. Unsigned(idle_thread_num) <= idle_thread_num /\ Unsigned(idle_thread_num) \in Nat
      BY <3>2, UIntModulusAssumption DEF Unsigned
    <3> HIDE DEF n
    <3>5. frame'.n = n /\ frame'.i = 0
      BY <3>1
    <3> QED BY <1>4, <3>1, <3>3, <3>4, <3>5 DEF ToSubmit
  <2> QED BY <2>1, <2>2
<1>6. ToSubmit' \in Int
  <2>1. Types'
    BY TypesStep DEF Next
  <2> QED BY <2>1 DEF ToSubmit, Types, TypeOK
<1> QED BY <1>3, <1>4, <1>5, <1>6 DEF c, NoStrayTask, BatchFits

LEMMA SubmitCalm ==
  ASSUME Types, Failures, NoStrayTask, BatchFits, Submit
  PROVE  NoStrayTask' /\ BatchFits'
<1> DEFINE t == <<num, frame.i>>
           c == Cardinality(Load)
<1>1. /\ main = "submit" /\ t \in Tasks /\ AddTask(t) /\ num' = num
      /\ UNCHANGED <<idle_thread_num, taken, running, lagging, ready>>
  BY DEF Submit, AddTask
<1>2. main' \in {"submit", "await"}
  BY SubmitFrame
<1>3. QueuedTasks' = QueuedTasks \cup {t}
  BY <1>1, AddTaskStep DEF Types
<1>4. Outstanding' = Outstanding \cup {t} /\ Load' = Load \cup {t}
  BY <1>1, <1>3 DEF Outstanding, Load
<1>5. NoStrayTask'
  BY <1>1, <1>2, <1>4 DEF NoStrayTask, Alive
<1>6. /\ frame.i \in Nat /\ frame.n \in Nat /\ frame.i < frame.n
      /\ c + (frame.n - frame.i) <= ThreadNum /\ ThreadNum \in Nat
  BY <1>1, ThreadNumAssumption DEF BatchFits, ToSubmit, Types, TypeOK, Failures
<1>7. c \in Nat /\ Cardinality(Load') \in Nat /\ Cardinality(Load') <= c + 1
  <2>1. IsFiniteSet(Load) /\ c \in Nat
    BY LoadFinite, TaskSetFinite DEF Types
  <2>2. /\ IsFiniteSet(Load \cup {t})
        /\ Cardinality(Load \cup {t}) = IF t \in Load THEN c ELSE c + 1
    BY <2>1, FS_AddElement
  <2> HIDE DEF c, t
  <2> QED BY <1>4, <2>1, <2>2
<1>8. \/ main' = "submit" /\ frame'.n = frame.n /\ frame'.i = frame.i + 1
      \/ main' = "await"
  BY SubmitFrame
<1> HIDE DEF c
<1>9. Cardinality(Load') + ToSubmit' <= ThreadNum
  BY <1>6, <1>7, <1>8 DEF ToSubmit
<1> QED BY <1>5, <1>9 DEF BatchFits

\* The steps that submit nothing, and end no query that has tasks.
LEMMA QuietCalm ==
  ASSUME Types, NoStrayTask, BatchFits, main # "start",
         Outstanding' \subseteq Outstanding,
         Cardinality(Load') <= Cardinality(Load), Cardinality(Load') \in Nat,
         \/ UNCHANGED <<main, num>> /\ (main = "submit" => UNCHANGED <<frame.n, frame.i>>)
         \/ Outstanding' = {} /\ main # "submit" /\ main' # "submit"
  PROVE  NoStrayTask' /\ BatchFits'
<1>1. NoStrayTask'
  BY DEF NoStrayTask, Alive
<1>2. Cardinality(Load) \in Nat /\ ThreadNum \in Nat /\ ToSubmit \in Int
  BY LoadFinite, ThreadNumAssumption DEF Types, ToSubmit, TypeOK
<1>3. ToSubmit' = ToSubmit
  BY DEF ToSubmit
<1>4. Cardinality(Load) + ToSubmit <= ThreadNum
  BY DEF BatchFits
<1>5. Cardinality(Load') + ToSubmit' <= ThreadNum
  BY <1>2, <1>3, <1>4
<1> QED BY <1>1, <1>5 DEF BatchFits

LEMMA CalmStep ==
  ASSUME Types, Failures, IdleCounted, Calm, [Next]_vars
  PROVE  Calm'
<1> SUFFICES ASSUME raised' = {}
             PROVE  NoStrayTask' /\ BatchFits'
  BY DEF Calm
<1>1. raised = {} /\ NoStrayTask /\ BatchFits /\ PoolInv
  BY RaisedStays DEF Calm, Types
<1>2. CASE Configure
  <2>1. main = "start" /\ main' = "ready" /\ Load' = {} /\ Outstanding' = {}
    BY <1>2 DEF Configure, SetThread, Load, Outstanding, Submitted, QueuedTasks, Types,
                PoolInv, PoolTypes
  <2> QED BY <2>1, FS_EmptySet, ThreadNumAssumption DEF NoStrayTask, BatchFits, ToSubmit
<1>3. CASE main = "start" /\ ~Configure
  <2>1. UNCHANGED poolVars /\ main' = "start"
    BY <1>3, OnlyConfigureStarts DEF IdleCounted
  <2>2. Outstanding' = {}
    BY <1>3, <2>1 DEF IdleCounted, Submitted, Outstanding, QueuedTasks, poolVars
  <2> QED BY <2>1, <2>2 DEF NoStrayTask, BatchFits
<1>4. ASSUME NEW i \in DOMAIN Requests, Start(Requests[i])
      PROVE  NoStrayTask' /\ BatchFits'
  BY <1>1, <1>4, StartCalm
<1>5. CASE Submit
  BY <1>1, <1>5, SubmitCalm
<1>6. ASSUME main # "start",
             \/ UNCHANGED poolVars \/ TakeTask \/ Close \/ Discard
             \/ \E t \in Tasks : BeginTask(t) \/ FinishTask(t) \/ EndTask(t),
             \/ UNCHANGED <<main, num>> /\ (main = "submit" => UNCHANGED <<frame.n, frame.i>>)
             \/ /\ main \notin {"submit", "await"} \/ (main = "await" /\ frame.i = frame.n)
                /\ main' # "submit"
      PROVE  NoStrayTask' /\ BatchFits'
  <2>1. /\ Outstanding' \subseteq Outstanding
        /\ Cardinality(Load') <= Cardinality(Load) /\ Cardinality(Load') \in Nat
    BY <1>1, <1>6, LoadAfter
  <2>2. CASE UNCHANGED <<main, num>> /\ (main = "submit" => UNCHANGED <<frame.n, frame.i>>)
    BY <1>1, <1>6, <2>1, <2>2, QuietCalm
  <2>3. CASE /\ main \notin {"submit", "await"} \/ (main = "await" /\ frame.i = frame.n)
             /\ main' # "submit"
    <3>1. Outstanding' = {} /\ main # "submit"
      BY <1>1, <2>1, <2>3, NoneOutstanding
    <3> QED BY <1>1, <1>6, <2>1, <2>3, <3>1, QuietCalm
  <2> QED BY <1>6, <2>2, <2>3
<1>7. CASE UNCHANGED vars /\ main # "start"
  BY <1>6, <1>7 DEF vars, mainVars
<1>8. ASSUME NEW i \in DOMAIN Requests, Insert(Requests[i]) \/ Refuse(Requests[i])
      PROVE  NoStrayTask' /\ BatchFits'
  <2>1. main' = "ready"
    BY <1>8, ReturnTypes DEF Insert, Refuse
  <2> QED BY <1>6, <1>8, <2>1 DEF Insert, Refuse, Receive
<1>9. CASE Exit \/ Join \/ TakeNext
  <2>1. CASE Exit \/ Join
    BY <1>6, <2>1 DEF Exit, Join
  <2>2. CASE TakeNext /\ main # "start"
    BY <1>6, <2>2 DEF TakeNext, mainVars
  <2>3. CASE TakeNext /\ main = "start"
    BY <1>3, <2>3 DEF Configure, TakeNext, mainVars
  <2> QED BY <1>9, <2>1, <2>2, <2>3
<1>10. CASE InlineRow \/ InlineEnd \/ AwaitEnd \/ DeleteCollected \/ CopyCollected
  <2>1. main' # "submit"
    BY <1>10, InlineRowFrame, ProceedTypes, CollectedStep
    DEF InlineEnd, AwaitEnd, DeleteCollected, CopyCollected
  <2> QED BY <1>6, <1>10, <2>1
          DEF InlineRow, InlineEnd, AwaitEnd, DeleteCollected, CopyCollected
<1>11. CASE Await
  <2>1. main' = "await" /\ UNCHANGED <<poolVars, main, num>> /\ main = "await"
    BY <1>1, <1>11, AwaitFrame DEF Await
  <2> QED BY <1>6, <2>1
<1>12. ASSUME NEW t \in Tasks, TaskStep(t), main # "start"
       PROVE  NoStrayTask' /\ BatchFits'
  <2>1. ~StrayCrash(t)
    BY <1>1 DEF StrayCrash, Stray, NoStrayTask, Outstanding
  <2>2. /\ UNCHANGED <<main, num>>
        /\ UNCHANGED poolVars \/ BeginTask(t) \/ FinishTask(t) \/ EndTask(t)
        /\ frame' = frame \/ \E acc : frame' = [frame EXCEPT !.acc = acc]
    BY <1>12, <2>1 DEF TaskStep, BeginRegion, TaskRow, TaskRaise, TaskMerge, StrayRow,
                       StrayEnd, EndRegion, mainVars
  <2>3. frame'.n = frame.n /\ frame'.i = frame.i
    BY <2>2, MergedFrame DEF Types
  <2> QED BY <1>6, <1>12, <2>2, <2>3
<1> QED BY <1>2, <1>3, <1>4, <1>5, <1>7, <1>8, <1>9, <1>10, <1>11, <1>12
        DEF Next, Execute

LEMMA CalmHolds == Spec => []Calm
<1>1. Init => Calm
  BY DEF Init, PoolInit, Calm, NoStrayTask, BatchFits, Outstanding, QueuedTasks
<1> QED BY <1>1, CalmStep, TypesHold, FailuresHold, IdleCountedHolds, PTL DEF Spec

(***************************************************************************)
(* As long as no task has thrown, no task is queued or runs after execute  *)
(* has returned: every future is awaited before the frame goes away.       *)
(***************************************************************************)
THEOREM TasksOutlived == Spec => [](raised = {} => NoStrayTask)
<1>1. Calm => (raised = {} => NoStrayTask)
  BY DEF Calm
<1> QED BY <1>1, CalmHolds, PTL

(***************************************************************************)
(* As long as no task has thrown, the tasks that are queued, run or are    *)
(* not yet counted out fit the threads, and the counter is in its range.   *)
(***************************************************************************)
THEOREM ThreadsSuffice == Spec => [](raised = {} => BatchHasThreads)
<1>1. Types /\ Failures /\ IdleCounted /\ Calm => (raised = {} => BatchHasThreads)
  <2> SUFFICES ASSUME Types, Failures, IdleCounted, Calm, raised = {}, main # "start"
               PROVE  /\ idle_thread_num \in 0..ThreadNum
                      /\ Cardinality(Outstanding \cup lagging) <= ThreadNum
    BY DEF BatchHasThreads
  <2>1. /\ Cardinality(Load) \in Nat /\ Cardinality(Busy) \in Nat
        /\ Cardinality(Busy) <= Cardinality(Load)
    BY LoadFinite DEF Types
  <2>2. Cardinality(Load) + ToSubmit <= ThreadNum
    BY DEF Calm, BatchFits
  <2>3. ToSubmit \in Nat
    BY DEF ToSubmit, Types, TypeOK, Failures
  <2>4. Cardinality(Load) <= ThreadNum /\ ThreadNum \in Nat
    BY <2>1, <2>2, <2>3, ThreadNumAssumption
  <2>5. idle_thread_num = ThreadNum - Cardinality(Busy)
    BY DEF IdleCounted
  <2>6. idle_thread_num \in 0..ThreadNum
    BY <2>1, <2>4, <2>5
  <2> QED BY <2>4, <2>6 DEF Load
<1> QED BY <1>1, CalmHolds, TypesHold, FailuresHold, IdleCountedHolds, PTL

(***************************************************************************)
(* As long as no task has thrown, two tasks never have a row in common     *)
(* that both have yet to visit.                                            *)
(***************************************************************************)
THEOREM TasksApart == Spec => [](raised = {} => RegionsApart)
<1>1. Types /\ Failures /\ InRegions /\ Calm => (raised = {} => RegionsApart)
  <2> SUFFICES ASSUME Types, Failures, InRegions, Calm, raised = {},
                      NEW t \in running, NEW u \in running, t # u
               PROVE  (job[t].pos..job[t].tail) \cap (job[u].pos..job[u].tail) = {}
    BY DEF RegionsApart
  <2> DEFINE rows == Size(table)
  <2>1. /\ Alive(t) /\ Alive(u) /\ t \in Submitted /\ u \in Submitted
    BY DEF Calm, NoStrayTask, Outstanding, Submitted
  <2>2. /\ frame.n \in Nat \ {0} /\ t[2] \in 0..frame.n-1 /\ u[2] \in 0..frame.n-1
        /\ t = <<num, t[2]>> /\ u = <<num, u[2]>>
    BY <2>1, TaskOfBatch
  <2>3. t[2] # u[2]
    BY <2>2
  <2>4. rows \in Nat
    BY DataSize DEF Types
  <2>5. Region(rows, frame.n, t[2]) \cap Region(rows, frame.n, u[2]) = {}
    BY <2>2, <2>3, <2>4, RegionsDisjoint DEF Disjoint
  <2>6. \A v \in {t, u} : job[v].pos..job[v].tail \subseteq Region(rows, frame.n, v[2])
    <3> SUFFICES ASSUME NEW v \in {t, u}
                 PROVE  job[v].pos..job[v].tail \subseteq Region(rows, frame.n, v[2])
      OBVIOUS
    <3> DEFINE head == RegionHead(rows, frame.n, v[2])
               tail == RegionTail(rows, frame.n, v[2])
    <3>1. job[v].pos > head /\ job[v].tail = tail
      BY <2>1 DEF InRegions
    <3>2. job[v].pos \in Int
      BY DEF Types, IsJob, PoolInv, PoolTypes
    <3>3. head \in Nat /\ tail \in Nat
      <4>1. v[2] \in Nat
        BY <2>2
      <4> QED BY <2>2, <2>4, <4>1, RegionNumbers, Zenon
    <3>4. Region(rows, frame.n, v[2]) = head + 1 .. tail
      BY DEF Region
    <3> HIDE DEF head, tail
    <3> QED BY <3>1, <3>2, <3>3, <3>4
  <2> QED BY <2>5, <2>6
<1> QED BY <1>1, CalmHolds, TypesHold, FailuresHold, RegionsHold, PTL

\* Rows come and go only while no task is waited for.
LEMMA SizeKeptBusy ==
  ASSUME Types, Failures, Calm, raised = {}, [Next]_vars, Outstanding # {}
  PROVE  Size(table') = Size(table)
BY NoneOutstanding, SizeKept DEF Calm

(***************************************************************************)
(* In a run in which no task throws, no row is added or removed while a    *)
(* task may use its iterators.                                             *)
(***************************************************************************)
THEOREM IteratorsValid == Spec /\ [](raised = {}) => IteratorsStayValid
<1>1. Types /\ Failures /\ Calm /\ raised = {} /\ [Next]_vars
        => [Outstanding # {} => Size(table') = Size(table)]_vars
  BY SizeKeptBusy
<1> QED BY <1>1, TypesHold, FailuresHold, CalmHolds, PTL DEF Spec, IteratorsStayValid

=============================================================================
