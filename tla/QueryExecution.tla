---------------------------- MODULE QueryExecution ----------------------------
(***************************************************************************)
(* The main thread of lemondb executes one data query after the other on a *)
(* table, each by itself or split into tasks for the thread pool.  This    *)
(* module composes the pool (TaskPool), the split into regions (Regions),  *)
(* the storage of the table (TableOps) and the row loops (Queries).        *)
(*                                                                         *)
(* A task is <<num, i>>: region i of the query with number num.            *)
(***************************************************************************)
EXTENDS TaskPool, Regions, Queries

CONSTANTS
  Requests,        \* the queries that may be asked, as a sequence
  InitialTables,   \* the tables lemondb may start with
  MaxQueries       \* how many queries are executed before the input ends

ASSUME MaxQueriesAssumption == MaxQueries \in Nat
ASSUME RequestsAssumption ==
  \A i \in DOMAIN Requests :
    /\ Requests[i].op \in Operations
    /\ Requests[i].where \in Seq(ToSet(Requests[i].where))
ASSUME TaskNamesAssumption == Tasks \subseteq (1..MaxQueries) \X Nat
ASSUME InitialTablesAssumption ==
  \A t \in InitialTables : IsStorage(t) /\ KeyMapExact(t)

VARIABLES
  table,
  main,      \* where the main thread is
  num,       \* the number of the current or last query
  frame,     \* the local variables of execute
  job,       \* the local variables of each task that runs
  raised,    \* the tasks whose future holds an exception
  result,    \* <<num, operation, kind, value>> of the last query that returned
  before     \* history: the content when the current query began

mainVars == <<main, num, frame, result, before>>
vars == <<poolVars, table, mainVars, job, raised>>

(***************************************************************************)
(* "start"   before set_thread                                             *)
(* "ready"   in the loop of main, between queries                          *)
(* "inline"  in the row loop of execute                                    *)
(* "submit"  adding tasks                                                  *)
(* "await"   in future.get()                                               *)
(* "delete"  deleting the rows that DELETE's tasks collected               *)
(* "copy"    inserting the rows that DUPLICATE collected                   *)
(* "crashed" the process was killed                                        *)
(* "exit"    the destructor of the pool has begun, "joined" it has ended   *)
(***************************************************************************)
Executing == {"inline", "submit", "await", "delete", "copy"}

NoFrame == [q |-> [op |-> "none"], n |-> 0, i |-> 0, acc |-> 0]
NoJob == [q |-> NoFrame.q, pos |-> 0, tail |-> 0, acc |-> 0]

Init ==
  /\ PoolInit
  /\ table \in InitialTables
  /\ main = "start" /\ num = 0 /\ frame = NoFrame
  /\ job = [t \in Tasks |-> NoJob]
  /\ raised = {}
  /\ result = <<0, "none", "none", 0>>
  /\ before = Content(table)

\* SerialQueries over the table as it is now.
Now == INSTANCE SerialQueries WITH content <- Content(table)

-----------------------------------------------------------------------------
(* The main thread.                                                        *)

Configure ==
  /\ main = "start"
  /\ main' = "ready"
  /\ SetThread
  /\ UNCHANGED <<table, num, frame, job, raised, result, before>>

Receive(q) ==
  /\ main = "ready" /\ num < MaxQueries
  /\ num' = num + 1
  /\ before' = Content(table)
  /\ UNCHANGED <<poolVars, job, raised>>

Return(n, q, answer) ==
  /\ main' = "ready"
  /\ frame' = NoFrame
  /\ result' = <<n, q.op>> \o answer

\* INSERT never uses the pool.
Insert(q) ==
  /\ Receive(q) /\ q.op = "INSERT" /\ ~Refused(q)
  /\ IF Has(table.keyMap, q.arg.key)
     THEN Return(num + 1, q, Error) /\ UNCHANGED table
     ELSE /\ table' = InsertByIndex(table, q.arg.key, q.arg.vals)
          /\ Return(num + 1, q, <<"success", 1>>)

Refuse(q) ==
  /\ Receive(q) /\ Refused(q)
  /\ Return(num + 1, q, Error)
  /\ UNCHANGED table

\* The query reads idle_thread_num and decides how to run.
Start(q) ==
  /\ Receive(q) /\ q.op # "INSERT" /\ ~Refused(q) /\ Now!KeepsKeysUnique(q)
  /\ IF RunsInline(Execution(q.op).alone, idle_thread_num, Size(table))
     THEN /\ main' = "inline"
          /\ frame' = [q |-> q, n |-> 0, i |-> 1, acc |-> Neutral(q)]
     ELSE LET n == ThreadCount(idle_thread_num, Size(table))
          IN /\ main' = IF n = 0 THEN "crashed" ELSE "submit"
             /\ frame' = [q |-> q, n |-> n, i |-> 0, acc |-> Neutral(q)]
  /\ UNCHANGED <<table, result>>

\* Mutant: a task of DELETE deletes the rows it finds at once.
AffectedDeleting(t, q, p) ==
  CASE q.op \in FieldOps -> SetVals(t, p, NewVals(q, t.data[p].vals))
    [] q.op = "UPDATE_KEY" -> SetKey(t, p, q.arg)
    [] q.op = "DELETE" -> DeleteByIndex(t, t.data[p].key)
    [] OTHER -> t

\* What a matching row becomes, in the loop of execute or of a task.
Affected(t, q, p) ==
  CASE q.op \in FieldOps -> SetVals(t, p, NewVals(q, t.data[p].vals))
    [] q.op = "UPDATE_KEY" -> SetKey(t, p, q.arg)
    [] OTHER -> t

\* Mutant: the iterator moves on after a deletion as well.
InlineRowSkipping ==
  LET q == frame.q
      row == table.data[frame.i]
  IN /\ main = "inline" /\ ~AlwaysFalse(q) /\ frame.i <= Size(table)
     /\ IF VisitRaises(q, row) THEN Return(num, frame.q, Error) /\ UNCHANGED table
        ELSE /\ frame' = [frame EXCEPT !.i = @ + 1,
                  !.acc = IF EvalCondition(q, row) THEN Visit(table, q, @, row) ELSE @]
             /\ table' = IF ~EvalCondition(q, row) THEN table
                         ELSE IF q.op = "DELETE" THEN DeleteByIndex(table, row.key)
                         ELSE Affected(table, q, frame.i)
             /\ UNCHANGED <<main, result>>
     /\ UNCHANGED <<poolVars, num, job, raised, before>>

InlineRow ==
  LET q == frame.q
      row == table.data[frame.i]
  IN /\ main = "inline" /\ ~AlwaysFalse(q) /\ frame.i <= Size(table)
     /\ IF VisitRaises(q, row) THEN Return(num, frame.q, Error) /\ UNCHANGED table
        ELSE IF ~EvalCondition(q, row)
        THEN frame' = [frame EXCEPT !.i = @ + 1] /\ UNCHANGED <<main, result, table>>
        ELSE /\ frame' = [frame EXCEPT
                  !.acc = Visit(table, q, @, row),
                  !.i = IF q.op = "DELETE" THEN @ ELSE @ + 1]
             /\ table' = IF q.op = "DELETE" THEN DeleteByIndex(table, row.key)
                         ELSE Affected(table, q, frame.i)
             /\ UNCHANGED <<main, result>>
     /\ UNCHANGED <<poolVars, num, job, raised, before>>

\* The loop, or the last future, is done: DUPLICATE, and DELETE after its
\* tasks, have the collected keys left to deal with.
Proceed ==
  LET rest == Execution(frame.q.op).rest[main]
  IN IF rest = "none" THEN Return(num, frame.q, Answer(frame.q, frame.acc))
     ELSE /\ main' = rest
          /\ frame' = [frame EXCEPT !.i = 1]
          /\ UNCHANGED result

InlineEnd ==
  /\ main = "inline"
  /\ AlwaysFalse(frame.q) \/ frame.i > Size(table)
  /\ Proceed
  /\ UNCHANGED <<poolVars, table, num, job, raised, before>>

\* Mutant: one task too many.
SubmitOneMore ==
  /\ main = "submit"
  /\ AddTask(<<num, frame.i>>)
  /\ IF frame.i < frame.n
     THEN frame' = [frame EXCEPT !.i = @ + 1] /\ UNCHANGED main
     ELSE frame' = [frame EXCEPT !.i = 0] /\ main' = "await"
  /\ UNCHANGED <<table, num, job, raised, result, before>>

\* Mutant: one task too few.
SubmitOneLess ==
  /\ main = "submit"
  /\ AddTask(<<num, frame.i>>)
  /\ IF frame.i + 2 < frame.n
     THEN frame' = [frame EXCEPT !.i = @ + 1] /\ UNCHANGED main
     ELSE frame' = [frame EXCEPT !.i = 0] /\ main' = "await"
  /\ UNCHANGED <<table, num, job, raised, result, before>>

\* Tasks bounds the number of tasks of a query.
Submit ==
  /\ main = "submit"
  /\ <<num, frame.i>> \in Tasks
  /\ AddTask(<<num, frame.i>>)
  /\ IF frame.i + 1 < frame.n
     THEN frame' = [frame EXCEPT !.i = @ + 1] /\ UNCHANGED main
     ELSE frame' = [frame EXCEPT !.i = 0] /\ main' = "await"
  /\ UNCHANGED <<table, num, job, raised, result, before>>

\* Mutant: nothing waits for the futures.
AwaitNothing ==
  /\ main = "await"
  /\ frame.i < frame.n
  /\ frame' = [frame EXCEPT !.i = @ + 1]
  /\ UNCHANGED <<poolVars, table, main, num, job, raised, result, before>>

\* Mutant: the exceptions of the futures are swallowed.
AwaitSwallowing ==
  /\ main = "await"
  /\ frame.i < frame.n
  /\ <<num, frame.i>> \in ready
  /\ frame' = [frame EXCEPT !.i = @ + 1]
  /\ UNCHANGED <<poolVars, table, main, num, job, raised, result, before>>

\* future.get() throws what the task threw, and execute returns at once.
Await ==
  /\ main = "await"
  /\ frame.i < frame.n
  /\ <<num, frame.i>> \in ready
  /\ IF <<num, frame.i>> \in raised THEN Return(num, frame.q, Error)
     ELSE frame' = [frame EXCEPT !.i = @ + 1] /\ UNCHANGED <<main, result>>
  /\ UNCHANGED <<poolVars, table, num, job, raised, before>>

AwaitEnd ==
  /\ main = "await" /\ frame.i = frame.n
  /\ Proceed
  /\ UNCHANGED <<poolVars, table, num, job, raised, before>>

DeleteCollected ==
  /\ main = "delete"
  /\ IF frame.i > Len(frame.acc)
     THEN Return(num, frame.q, Answer(frame.q, frame.acc)) /\ UNCHANGED table
     ELSE LET k == frame.acc[frame.i]
          IN IF Has(table.keyMap, k)
             THEN /\ table' = DeleteByIndex(table, k)
                  /\ frame' = [frame EXCEPT !.i = @ + 1]
                  /\ UNCHANGED <<main, result>>
             ELSE main' = "crashed" /\ UNCHANGED <<table, frame, result>>
  /\ UNCHANGED <<poolVars, num, job, raised, before>>

CopyCollected ==
  /\ main = "copy"
  /\ IF frame.i > Len(frame.acc)
     THEN Return(num, frame.q, Answer(frame.q, frame.acc)) /\ UNCHANGED table
     ELSE LET k == frame.acc[frame.i]
          IN IF ~Has(table.keyMap, k)
             THEN main' = "crashed" /\ UNCHANGED <<table, frame, result>>
             ELSE IF ~CheckNotDuplicate(table, k)
             THEN Return(num, frame.q, Error) /\ UNCHANGED table
             ELSE /\ table' = DuplicateKey(table, k)
                  /\ frame' = [frame EXCEPT !.i = @ + 1]
                  /\ UNCHANGED <<main, result>>
  /\ UNCHANGED <<poolVars, num, job, raised, before>>

\* QUIT or the end of the input: the pool is destroyed.
Exit ==
  /\ main = "ready" /\ Close
  /\ main' = "exit"
  /\ UNCHANGED <<table, num, frame, job, raised, result, before>>

Join ==
  /\ main = "exit" /\ Discard
  /\ main' = "joined"
  /\ UNCHANGED <<table, num, frame, job, raised, result, before>>

-----------------------------------------------------------------------------
(* The tasks.                                                              *)

\* The call of execute that submitted t has not returned.
Alive(t) == t[1] = num /\ main \in {"submit", "await"}

TakeNext ==
  /\ main # "crashed" /\ TakeTask
  /\ UNCHANGED <<table, mainVars, job, raised>>

\* The thread counts itself busy, and the task computes its head and tail.
BeginRegion(t) ==
  /\ main # "crashed" /\ BeginTask(t)
  /\ job' = IF Alive(t)
            THEN [job EXCEPT ![t] =
                    [q    |-> frame.q,
                     pos  |-> RegionHead(Size(table), frame.n, t[2]) + 1,
                     tail |-> RegionTail(Size(table), frame.n, t[2]),
                     acc  |-> Neutral(frame.q)]]
            ELSE job
  /\ UNCHANGED <<table, mainVars, raised>>

MoreRows(t) ==
  t \in running /\ Alive(t) /\ ~AlwaysFalse(frame.q) /\ job[t].pos <= job[t].tail

TaskRow(t) ==
  LET q == frame.q
      row == table.data[job[t].pos]
  IN /\ MoreRows(t) /\ ~VisitRaises(q, row)
     /\ IF EvalCondition(q, row)
        THEN /\ job' = [job EXCEPT ![t].pos = @ + 1,
                                   ![t].acc = Visit(table, q, @, row)]
             /\ table' = Affected(table, q, job[t].pos)
        ELSE job' = [job EXCEPT ![t].pos = @ + 1] /\ UNCHANGED table
     /\ UNCHANGED <<poolVars, mainVars, raised>>

\* Mutant: the exception does not reach the future.
TaskRaiseUnheard(t) ==
  /\ MoreRows(t) /\ VisitRaises(frame.q, table.data[job[t].pos])
  /\ raised' = raised \cup {t}
  /\ UNCHANGED <<poolVars, table, mainVars, job>>

\* The packaged task stores the exception in its future.
TaskRaise(t) ==
  /\ MoreRows(t) /\ VisitRaises(frame.q, table.data[job[t].pos])
  /\ FinishTask(t)
  /\ raised' = raised \cup {t}
  /\ job' = [job EXCEPT ![t] = NoJob]
  /\ UNCHANGED <<table, mainVars>>

\* Merge the local results into those of execute, under the query's mutex.
TaskMerge(t) ==
  /\ t \in running /\ Alive(t) /\ ~MoreRows(t)
  /\ FinishTask(t)
  /\ frame' = [frame EXCEPT !.acc = Merge(frame.q, @, job[t].acc)]
  /\ job' = [job EXCEPT ![t] = NoJob]
  /\ UNCHANGED <<table, main, num, result, before, raised>>

(***************************************************************************)
(* A task whose execute has returned works on a query, a condition and a   *)
(* mutex that no longer exist.  If their memory still holds them it visits *)
(* its rows as if nothing had happened; it may also end without a trace,   *)
(* kill the process, or merge into the frame that a later call of the same *)
(* function has in the place of the one it was given.                      *)
(***************************************************************************)
Stray(t) == t \in running /\ ~Alive(t) /\ main # "crashed"

StrayRow(t) ==
  LET q == job[t].q
      row == table.data[job[t].pos]
  IN /\ Stray(t)
     /\ job[t].pos \in 1..job[t].tail /\ job[t].pos <= Size(table)
     /\ ~VisitRaises(q, row)
     /\ job' = [job EXCEPT ![t].pos = @ + 1]
     /\ table' = IF EvalCondition(q, row) THEN Affected(table, q, job[t].pos)
                 ELSE table
     /\ UNCHANGED <<poolVars, mainVars, raised>>

StrayEnd(t) ==
  /\ Stray(t) /\ FinishTask(t)
  /\ job' = [job EXCEPT ![t] = NoJob]
  /\ \/ UNCHANGED frame
     \/ /\ main \in Executing /\ job[t].q.op = frame.q.op
        /\ frame' = [frame EXCEPT !.acc = Merge(frame.q, @, job[t].acc)]
  /\ UNCHANGED <<table, main, num, result, before, raised>>

StrayCrash(t) ==
  /\ Stray(t)
  /\ main' = "crashed"
  /\ UNCHANGED <<poolVars, table, num, frame, job, raised, result, before>>

EndRegion(t) ==
  /\ main # "crashed" /\ EndTask(t)
  /\ UNCHANGED <<table, mainVars, job, raised>>
-----------------------------------------------------------------------------
Execute ==
  InlineRow \/ InlineEnd \/ Submit \/ Await \/ AwaitEnd
    \/ DeleteCollected \/ CopyCollected

TaskStep(t) ==
  \/ BeginRegion(t)
  \/ TaskRow(t)
  \/ TaskRaise(t)
  \/ TaskMerge(t)
  \/ StrayRow(t)
  \/ StrayEnd(t)
  \/ StrayCrash(t)
  \/ EndRegion(t)

Next ==
  \/ Configure
  \/ \E i \in DOMAIN Requests :
       Insert(Requests[i]) \/ Refuse(Requests[i]) \/ Start(Requests[i])
  \/ Execute
  \/ Exit
  \/ Join
  \/ TakeNext
  \/ \E t \in Tasks : TaskStep(t)

Spec == Init /\ [][Next]_vars

(***************************************************************************)
(* The main thread and the threads that hold a task run on, and a queued   *)
(* task is taken when a thread is free, which ThreadPool shows of the pool *)
(* (TasksComplete).  Another query, or the end, need not come.             *)
(***************************************************************************)
Fairness ==
  /\ WF_vars(Execute)
  /\ WF_vars(TakeNext)
  /\ \A t \in Tasks : WF_vars(TaskStep(t))

FairSpec == Spec /\ Fairness

-----------------------------------------------------------------------------
(* Properties.                                                             *)

TypeOK ==
  /\ main \in Executing \cup {"start", "ready", "crashed", "exit", "joined"}
  /\ num \in 0..MaxQueries
  /\ frame.n \in Nat /\ frame.i \in Nat
  /\ DOMAIN job = Tasks
  /\ raised \subseteq ready
  /\ taken \cup running \cup ready \subseteq Tasks

(***************************************************************************)
(* Answers and effects are those of the queries executed one by one on the *)
(* rows alone: however the rows are split and the tasks interleave, no row *)
(* is missed or visited twice, the merge loses nothing, and a query starts *)
(* from everything the one before it did.                                  *)
(***************************************************************************)
Serial == INSTANCE SerialQueries WITH
  content <- IF main \in Executing \cup {"crashed"} THEN before ELSE Content(table)

ImplementsSerialQueries == Serial!SerialSpec

(***************************************************************************)
(* keyMap leads from every key to its row and nowhere else, in the middle  *)
(* of a query as well, where the tasks of DUPLICATE look keys up in it.    *)
(***************************************************************************)
KeysUnique == KeyMapExact(table)

\* Tasks that have not made their future ready.
Outstanding == QueuedTasks \cup taken \cup running

(***************************************************************************)
(* execute does not return while a task that points into its frame is      *)
(* queued or runs.                                                         *)
(***************************************************************************)
NoStrayTask == \A t \in Outstanding : Alive(t)

(***************************************************************************)
(* While a task may still use its iterators no step adds or removes a row: *)
(* DELETE and DUPLICATE touch the rows only after their last task.         *)
(***************************************************************************)
IteratorsStayValid ==
  [][Outstanding # {} => Size(table') = Size(table)]_vars

(***************************************************************************)
(* The rows that two tasks have yet to visit are different ones, so the    *)
(* loops, which hold no lock, never touch the same row.                    *)
(***************************************************************************)
RegionsApart ==
  \A t, u \in running :
    t # u => (job[t].pos..job[t].tail) \cap (job[u].pos..job[u].tail) = {}

(***************************************************************************)
(* Every task of a batch has a thread at once: the tasks that are queued,  *)
(* running or not yet counted out never exceed ThreadNum, although         *)
(* idle_thread_num is read well before they are taken.  So the counter     *)
(* never becomes negative, which the conversion to unsigned would turn     *)
(* into billions of idle threads.                                          *)
(***************************************************************************)
BatchHasThreads ==
  main # "start" =>
    /\ idle_thread_num \in 0..ThreadNum
    /\ Cardinality(Outstanding \cup lagging) <= ThreadNum

(***************************************************************************)
(* "Single-thread fallback", "Single-threaded execution": when no thread   *)
(* is free a query runs by itself.  Nothing a query does kills the process.*)
(***************************************************************************)
NeverCrashes == main # "crashed"

(***************************************************************************)
(* A query one of whose tasks threw never reports success, whichever of    *)
(* the futures are awaited before the one that holds the exception.        *)
(***************************************************************************)
NoSilentFailure ==
  \A t \in raised : t[1] = result[1] => result[3] = "error"

(***************************************************************************)
(* Every query returns, unless the process is killed: the futures it waits *)
(* for become ready, with or without an exception, and the loops over rows *)
(* and collected keys end, those that remove rows on the way too.          *)
(***************************************************************************)
QueryReturns == main \in Executing ~> main \in {"ready", "crashed"}
=============================================================================
