# LemonDB in TLA+

This directory holds TLA+ specifications of LemonDB (`src/`, a C++ in-memory
table database with a small query language), the TLC configurations that check
them on small instances, and proofs checked by TLAPS. It documents what the
program relies on and where it goes wrong: the parser between a statement and
the query it spells, the multi-threaded execution of queries, the storage of
tables, and the files they are dumped to and loaded from.

## 1. The system

`lemondb` reads queries separated by `;` and executes them one after the other
on the main thread. A data query may split the rows of its table between the
threads of a pool and wait for them.

| Component | State | Operations | Hard behaviour | What makes it correct |
|---|---|---|---|---|
| Thread pool (`query/Multithread.h`) | `mut`, `task_queue`, `condition_vari`, atomics `is_closed` and `idle_thread_num`, the workers and where they are | constructor, `set_thread`, `add_task`, `get_task`, `init_thread`, destructor | lost and spurious wakeups; a counter changed outside the mutex; closing without the mutex | every task runs once, in order, and makes its future ready; no sleeping worker while a task waits; the counter says what it should; shutdown ends |
| Regions (repeated in every file of `query/data`) | none | test for running inline, thread count, region size, head and tail of a task | stale idle count, division by zero, remainder | regions partition the rows; a batch fits the threads |
| Table (`db/Table.h`, `Table.cpp`) | `data`, a vector of rows, and `keyMap`, key to position | `insertByIndex`, `deleteByIndex`, `duplicateKey`, `setKey`, `operator[]`, `clear` | two structures kept in step; deletion moves the last row | keys are unique and `keyMap` leads to the right row; each call changes one row |
| Data queries (`query/Query.cpp`, `query/data/*`) | operands and conditions; locals of `execute` and of each task | `initCondition`, `evalCondition`, twelve `execute`s and eleven task functions | tasks of one query interleave; one of them throws; keys collected and used later; int overflow | same answer and same rows as one query after the other in one thread |
| Main loop (`main.cpp`) | the pool, the parser, the counter of queries | configure, read, parse, execute, print | the next query starts while threads of the last one still finish; errors between two numbered results | a query starts from all the effects of the one before; every statement gets its own answer |
| Database (`db/Database.cpp`) | `tables`, `fileTableNameMap` | register, look up, drop, load | a load that fails half-way; a stale map of files; the process killed while it writes | all or nothing; names agree |
| Management queries (`query/management/*`) | files | LOAD, DUMP, DROP, TRUNCATE, COPYTABLE, LIST, SHOWTABLE, QUIT | DUMP truncates the file before it looks the table up; columns of fixed width | what was dumped can be loaded, and is loaded as it was |
| Parser and builders (`QueryParser.cpp`, `QueryBuilders.cpp`) | the chain of builders, the tokens kept by `ComplexQueryBuilder` | tokenise, `clear`, `tryExtractQuery` | tokens left over from a query that was ill-formed; an iterator at the end of the words | a query is built from its own tokens, from all of them, and nothing else is executed |
| Results (`QueryResult.h`) | none | printing | none | modelled as a kind and a value |
| Formatter, exceptions | none | formatting of messages | none | not modelled |

Interactions. The main thread calls `execute` of a query, which calls
`pool.add_task` with pointers to the table, to the query, to the result of
`initCondition` and to local accumulators with their mutex; the workers run the
task function, take that mutex once to merge, and make a future ready; the main
thread blocks in `future.get()`. Queries read `idle_thread_num` to decide how to
run. The table is shared without a lock: tasks are to touch different rows, and
rows are added or removed by the main thread only, after the last future.
Before any of that the main thread asks the builders, one after the other, for a
query; those of LOAD and DUMP already change `fileTableNameMap`, whatever becomes
of their query. LOAD and DUMP run on the main thread and share the tables with
nobody. Files are all that outlives the process.

The file `PROJECT.json` lists every component, the hazards at their lines, the
runs, and for every definition the lines of code it stands for.

## 2. The modules

| Module | Models | Extends / instantiates |
|---|---|---|
| `TaskPool` | what the pool promises: a queue, tasks that are taken, run, make their future ready and are counted out | |
| `ThreadPool` | the pool as written, one step per access another thread can observe | refines `TaskPool` |
| `ThreadPoolProofs` | proofs for any number of threads and tasks | `ThreadPool` |
| `Regions` | the arithmetic of a split | |
| `RegionsProofs` | proofs for any size and idle count | `Regions` |
| `TableOps` | the storage as a value, and one operator per method | |
| `KeyedRows` | what a table promises: rows with distinct keys | |
| `Table` | a table under any sequence of calls | refines `KeyedRows` |
| `TableOpsProofs` | one lemma per operation, for any keys and values | `TableOps` |
| `TableProofs` | proofs for tables of any size | `Table`, `TableOpsProofs` |
| `Queries` | conditions, one record per `execute`, what a query does to a row and what it accumulates | `TableOps` |
| `SerialQueries` | what the queries promise: each takes a content and gives the next one and an answer | `Queries` |
| `QueryExecution` | the main thread and the tasks on one table | composes `TaskPool`, `Regions`, `TableOps`, `Queries`; refines `SerialQueries` |
| `TableText` | a table as text: what `operator<<` prints, what `loadTableFromStream` reads | `TableOps` |
| `Archive` | what tables and files promise: LOAD gives back what DUMP was given, and each query the answer it asked for | `TableOps` |
| `Database` | tables by name, files, `fileTableNameMap`, the management queries, a process that is killed and started again | `TableText`; refines `Archive` |
| `Statements` | the language: which words are a query | |
| `Dialogue` | what the query loop promises: each statement answered in turn | `Statements` |
| `Repl` | input, parser, chain of builders, numbering of results | `Statements`; refines `Dialogue` |
| `ReplProofs` | proofs for any input, the refinement of `Dialogue` among them | `Repl` |
| `QueryExecutionProofs` | proofs about the tasks: types, failures, regions, the idle count | `QueryExecution`, `RegionsProofs`, `TableOpsProofs` |
| `QueryEffectsProofs` | proofs about what queries and tasks do to the rows, and what kills the process | `QueryExecutionProofs` |
| `DatabaseProofs` | proofs for any names, files and texts | `Database`, `TableOpsProofs` |
| `MC*` | constants for TLC | |

### ThreadPool

`pc[w]` is the place of worker `w` in `init_thread` and `get_task`; its values
are listed in the module. `mut` is the worker that holds the mutex from the
test of the loop in `get_task` (line 39) until `wait` releases it. Those two are
separate steps because the destructor stores `is_closed` and notifies without
the mutex; every other critical section is one step. `notify_one` awakens any
waiter; `SpuriousWakeup` lets `wait` return at any time. `AddTask` is `add_task`
with `push_task`. `BeginTask`, `FinishTask` and `EndTask` are the decrement, the
end of the packaged task (its future becomes ready) and the increment.
`Workers` is `0..ThreadNum`: the constructor starts one thread and `set_thread`
adds `ThreadNum` more, while `idle_thread_num` is set to `ThreadNum`.

`TaskPool` forgets the mutex, the condition variable and which worker does
what. `ThreadPool` implements it (checked and proved), so that `QueryExecution`
can be written on it and stays small.

### Regions

`RunsInline`, `ThreadCount`, `RegionSize`, `RegionHead` and `RegionTail` are the
expressions every data query contains, with the conversion of the counter to
`unsigned int` as a remainder by `UIntModulus`. `alone` is the set of idle
counts for which a query uses no thread: `{0, 1}`, or `{1}` in SELECT, DELETE
and DUPLICATE.

### TableOps, Table, KeyedRows

A table is a record of `data` and `keyMap`. A key is a stem and a number of
`_copy` suffixes, the only part of a key the code looks into. `Table` makes any
sequence of calls, with the arguments the queries give: DELETE, DUPLICATE and
UPDATE KEY take keys they saw in a row. `fault` becomes true where the code
would dereference a null pointer or an end iterator. `call` is no state of the
code: it records the last call, its name, key and values, in `Table` and in
`KeyedRows`, so that a step of `Table` can only be the step of `KeyedRows` that
was called for. A `deleteByIndex` that deleted some other row would not do.

### Queries, SerialQueries, QueryExecution

A query is a record of its operation, conditions, operand fields and argument.
`Refused` are the tests before the first row. INSERT has no use for conditions
and does not test them: one with a condition that is an error in any other query
inserts its row.
`UPDATE_KEY` is UPDATE with the operand KEY. Strings that are converted to int
are ints already; values wrap at `IntLimit`. For each `execute` a record such
as `AddExecute` says how many operands it takes, when it looks their fields up,
with how many idle threads it visits the rows itself, and what is left to do
with collected keys. For each task function an operator such as `AddRow`,
`AddSums`, `MaxOf` or `DuplicateRow` says what it does to a row or
adds to the accumulator.

`QueryExecution` has one action per step of the main thread (configure, refuse,
start, a row of the inline loop, submit a task, get a future, delete or copy a
collected key, return, exit) and per step of a task (begin, a row, throw, merge,
end). A task is `<<num, i>>`: region `i` of query number `num`; the finite set
`Tasks` and `MaxQueries` bound how many there are. When `execute`
has returned although a task still runs, its pointers dangle: the `Stray`
actions let it visit its rows as if nothing had happened, end without a trace,
merge into the accumulator of a later call of the same function, or kill the
process. Division by zero kills the process.

A row visit is one step. Two tasks never visit the same row (`RegionsApart`),
and what a visit reads besides its row is written by no task, so a finer grain
would show nothing more.

`SerialQueries` has one step per query: the content and the answer are
functions of the content before. The refinement keeps the content as it was
while a query executes and steps when it returns.

### TableText, Database, Archive

A text is a sequence of lines of words, which is what `>>` sees of it. Two kinds
of line have no word: an empty one, which ends the rows (`BodyEnds`), and one of
blanks, which is a row without a key and refused (`HasWords`). The first is the
empty sequence, the second the sequence of `NoWord`; no name or key is `NoWord`
(`WordsAssumption`). DUMP writes neither, but its output may break off behind the
blanks that a line begins with. `Written`
is `operator<<`: `setw(10)` separates words only while they are shorter than
their column, so a longer field name or number runs on from the word before and
the line is read as fewer words. `MetadataReads`, `FieldsRead`, `RowReads` and
`BodyEnds` are the tests of `loadTableFromStream` in their order, `Loadable` and
`Loaded` what they amount to for a whole text.

`Database` has an action for each management query, with what its builder does
to the database first, and two data queries (INSERT and the deletion of a row)
so that tables change between dumps, also by rows that are too short. LOAD is `StartLoad` (builder, stream,
first two lines), a `LoadRow` for each line and `EndLoad` (`registerTable`);
DUMP is `StartDump` (builder, opening the file, looking up the table) and
`EndDump` (the output). `Killed` ends the process between any two of these, a
DUMP with any beginning of its text in the file (`Beginnings`, to the end of a
word or of the blanks before the first), and the next process starts on the files
that are left.

`Archive` has tables and, for each file, the table that can be had from it. In
the refinement that is what `Loaded` makes of the text on disk, so every step of
`Database` is compared with "LOAD gives back what the last DUMP was given". Both
modules record the last query in `call`, its name and words; `Archive` has one
action for each query, which asks for that `call` (`Ask`) and determines the
answer and the effect. LOAD and DUMP take more than a step: they go on under the
call they began with (`Go`) until there is an answer. A refusal has to have the
reason the action names: LOAD only when no table can be had from the file or its
name is taken, DUMP when the file cannot be written or there is no such table,
the others when a table or a key is missing or taken.

### Statements, Repl, Dialogue

`Statements` defines the language without an algorithm: a query spells a
sequence of words (`Spells`, from the comment in `parseToken`), and `Meanings`
are the queries that some words spell. `Repl` is the code: `Read` is
`extractQueryString` and the start of `parseQuery`, `Dispatch` the two builders
that match by the number of words, and `ScanOperation` to `Build` are the turns
of the loops in `parseToken`, with the iterator `it` and the members `builder`
that outlive the query. An exception leaves both as they are. `Answer` executes
the query and prints its number and result.

`Dialogue` answers the statements in turn: as the query they spell, with the
next number, or with a refusal. `Repl` implements it. It has one exception,
`Undefined`: behind `SELECT (` the code looks for a first operand past the last
word, and what it finds there decides (`Overrun`: refusal or a crash).

`Repl` and `Database` are not composed in one module. They share nothing but the
query: what the builders of LOAD and DUMP do to the database is in `Database`'s
`StartLoad` and `StartDump`, and what `Repl` calls a result of some kind is any
of `Database`'s or `QueryExecution`'s.

## 3. Runs

Each run finishes in at most about three minutes. "Deadlock" is off where the
modelled process ends (end of input, pool joined, process killed).

| Run | Instance | Checks |
|---|---|---|
| `MCThreadPool` | 3 workers, 3 tasks | `TypeOK`, `TaskInOnePlace`, `NoLostWakeup`, `IdleCount`, `ImplementsTaskPool`, `TasksComplete` |
| `MCThreadPoolShutdown` | 2 workers, 1 task | `ShutdownCompletes` is violated |
| `MCTable` | 2 stems, one `_copy`, 2 values | `TypeOK`, `KeysUnique`, `NoFault`, `ImplementsKeyedRows` |
| `MCTableRename` | the same, renames to any key | `KeysUnique` is violated |
| `MCQueryExecution` | 2 threads, two tables of 3 rows, any 2 of 15 queries | `TypeOK`, `KeysUnique`, `NoStrayTask`, `RegionsApart`, `BatchHasThreads`, `IteratorsStayValid`, `ImplementsSerialQueries` |
| `MCQuerySerial` | 1 thread, any 3 of 11 queries, a row without all fields | `NeverCrashes`, `ImplementsSerialQueries` |
| `MCQueryRaise` | 2 threads, any 2 of 11 queries, tasks that throw | `NoSilentFailure`, `QueryReturns` |
| `MCQueryThree` | 3 threads, 4 rows, batches of 2 or 3, the queries that test for at most one idle thread | `RegionsApart`, `BatchHasThreads`, `NeverCrashes`, `ImplementsSerialQueries`, `QueryReturns` |
| `MCQueryStray` | as `MCQueryRaise` | `NoStrayTask` is violated |
| `MCQueryIdle` | as `MCQueryExecution` | `NeverCrashes` is violated |
| `MCDatabase` | 2 tables, a file that can be written and one that cannot, 14 texts in them | `TypeOK`, `TablesExact`, `RowsFitFields`, `NamesRemembered`, `ReportsLoadedTable`, `ImplementsArchive` |
| `MCRepl` | every one-word change of three data queries, all management queries and malformed ones, after five kinds of statement | `TypeOK`, `MembersOfThisStatement`, `ExecutesWhatIsSpelled`, `ImplementsDialogue`, `InputEnds` |

Why the bounds are enough. Three workers and three tasks give a sleeping, a
running and an awake worker at once, and a queue longer than the workers that
are free. The minimal region size is 2 or 3 rows instead of 2000, so that three
or four rows make a batch of two or three tasks with a remainder; the proofs of
`RegionsProofs` cover all sizes and idle counts. Four keys, two of them copies, give deletion of the
first, middle, last and only row and copies of copies that are refused. Two
queries in a row are what the stale idle count needs; the third of
`MCQuerySerial` sees what a failed one and the one after it left. `IntLimit` is
4, so sums of three rows overflow.

In `MCDatabase` two names are what a file that changes its table, a COPYTABLE
and a duplicate table need; of the two files one cannot be opened for writing,
which is the only difference the code makes between files. The texts are a good
table, one with an empty line behind its first row, one with a field name as
wide as its column, and one for each test that LOAD makes, a line of blanks
among them. Two of the numbers
are as wide as their column, one of them negative, which does not run on. Of the
rows that are inserted one is as long as it should be and one is too short. In
`MCRepl` every place of a full INSERT, SELECT and DELETE is cut off, left out,
doubled or replaced by each keyword, and what the statement before leaves in the
members is nothing, operands, a condition or all of them.

### What the violated runs show

* `MCThreadPoolShutdown`: a worker finds the queue empty and the pool open
  (`Multithread.h:39`); the destructor sets `is_closed` and notifies (94-95),
  neither with the mutex; the worker then waits and nothing wakes it, so `join`
  (98) does not return. QUIT and the end of input both run this destructor.
* `MCTableRename`: UPDATE KEY to the key of another row (`Table.h:142`).
  `emplace` leaves the other row's entry, and two rows have one key.
* `MCQueryStray`: MAX of a field that does not exist. The first future throws,
  `execute` returns (`MaxQuery.cpp:123`), its locals are gone, the other task
  still uses them.
* `MCQueryIdle`: two queries in a row; the threads of the first have made their
  futures ready and not yet incremented `idle_thread_num`, so DELETE reads 0,
  which is not 1 (`DeleteQuery.cpp:61`), and divides by it (77).

`MCQueryExecution` still holds with such a DELETE among its queries: the
process is killed before the query does anything.

### Fairness

`ThreadPool!Fairness`: a worker that can take a step eventually does, and so
does the destructor once begun. This is what an operating system's scheduler
gives to threads that are runnable. `mut` is acquired under weak fairness only,
so a stream of spurious wakeups could starve a worker; `TasksComplete` therefore
assumes that from some point on there are none. Nothing makes the main thread
add a task or exit. `QueryExecution!Fairness` is that of the main thread while
it executes a query, of the threads that hold a task, and of taking a queued
task, which is what `TasksComplete` shows of the pool. `Repl!FairSpec` is that
the main thread runs on, where the execution of a query is one step, which
`QueryReturns` justifies.

`NoLostWakeup` holds because `push_task` notifies once for every task; the
`notify_one` in `get_task` (line 45) is modelled, and is not needed for it.

## 4. Proofs

TLAPS proves, for all values of the constants under the assumptions stated in
the modules (`ThreadNum` a natural number, `Tasks` finite, `None` neither a task
nor a worker; `MinRegion` at least 2; `CopyBound` a natural number; requests of
the operations there are, with a sequence of conditions; tables whose `keyMap`
is exact at first):

* `ThreadPoolProofs`. `TypeCorrect`, `TasksStayInOnePlace`, `IdleCountCorrect`,
  `NoWakeupLost` and `PoolImplementsTaskPool`. The properties are not inductive
  alone. `Control` adds to the types which worker holds `mut` (exactly the one
  at "test" or "sleep", and at "sleep" the queue is empty) and what the phase of
  the main thread says about the rest. `TaskInOnePlace` is inductive relative to
  `Control`; the idle count needs in addition the cardinality of the sets of
  workers, one element at a time; `NoLostWakeup` needs that a step which sends a
  worker to sleep finds the queue empty. The refinement is proved action by
  action: six actions map to a step of `TaskPool`, the others to a stutter,
  because the workers that hold a task, and the tasks, are unchanged.
* `RegionsProofs`. `RegionsDisjoint`, `RegionsInside`, `RegionsCover`,
  `RegionsNonEmpty` for any numbers of rows and regions, and from them
  `SplitsAreExact` and `BatchesFit`, for any table size and any idle count,
  negative ones included.
* `TableProofs`. One lemma per operation of `TableOps` (`TableOpsProofs`): it keeps
  `keyMap` exact and changes the content as `KeyedRows` says. From these, with the inductive
  invariant "the table is exact and nothing was dereferenced in vain":
  `TypeCorrect`, `KeysStayUnique`, `NeverFaults`, and `TableImplementsKeyedRows`:
  each call has the effect of the same call (`call`) of `KeyedRows`.
  They assume `UniqueRenames`, without which they are false (`MCTableRename`).
* `ReplProofs`. `TypeCorrect`, `MembersCorrect`, `SpellingCorrect` and
  `ReplImplementsDialogue`, for any inputs that are sequences of strings.
  `MembersOfThisStatement` says of every place in `parseToken` what the members
  hold; with the place of the iterator (`Basic`) it is inductive. `ExecutesWhatIsSpelled` follows at the step that
  builds the query: there the iterator is at the last word, so the words are the
  operation, the operands in parentheses, FROM, the table, and five words for
  each condition (`ClausePart`, `TablePart`). The refinement needs the converse:
  a statement that is refused spells no query at all. `QueryShape` says where
  the words of a query have FROM, the parentheses and WHERE, and `OneTable` that
  the scan can only find the same FROM; then at each place where `parseToken`
  throws no shape is left (`RefusedOperation` to `RefusedBuild`), and where it
  looks past the last word the statement is one without a defined effect. The
  rest is that reading up to a semicolon takes the first of the `Statements` of
  the input and leaves the others (`FirstAndRest`), and `Understood`: what is
  executed is a meaning of the words, and `counter` is the number of replies
  that are not refusals.
* `QueryExecutionProofs`, for any tables, any sequence of queries and any number
  of threads. `TypeCorrect`: `Types`, an invariant of its own, gives the values
  every local variable of `execute` and of a task can have at each place.
  `FailuresReported`: `Failures` says where an exception is before the main
  thread sees it, in the job of a task that has ended its loop or in the future
  it made ready, and that the main thread has not yet taken that future.
  `TasksOutlived`, `ThreadsSuffice` and `TasksApart` hold as long as no task has
  thrown. `Calm` is why: without an exception the main thread leaves `execute`
  through every `get`, so all tasks outstanding belong to the query that is
  executed. Then the tasks are some of the regions of one split (`InRegions`,
  with `RegionsDisjoint`), and `IdleCounted` counts them: the idle count and the
  threads that have a task, from the decrement at its beginning to the increment
  after its future is ready, add up to `ThreadNum`, so a batch of as many tasks as the count said
  finds as many threads, and the count never falls below zero.
  `IteratorsValid` is the action property from the same invariant.
* `QueryEffectsProofs`. `KeysStayUnique`: `Keyed` says that the table is exact
  for some keys and values, and that a query that renames was admitted with at
  most one row to rename (`RenameSafe`); it holds across stray tasks too unless
  one of them may rename. `CrashesWithoutThreads`: as long as no task has
  thrown, what kills the process is a SELECT, DELETE or DUPLICATE that divides
  by an idle count of zero, and nothing else. `Harmless` and `Collected` rule
  out the rest: the keys a DELETE or DUPLICATE collects are keys of the table,
  each collected once, and still in `keyMap` when their turn comes.
  `SafeUntilThrown` (no such query is asked, and no task has thrown) and
  `SingleThreadNeverCrashes` (`Alone`: with one thread there are no tasks at all)
  follow.
  `NothingThrown` discharges the hypothesis about exceptions from one about the
  input, `AllComplete`: rows have a value for every field, at first and when
  inserted, and SUM, MAX and MIN name fields of the table. `Unbroken` is its
  invariant. With it `CompleteRowsAreSafe`, `CompleteRowsKeepIterators` and
  `GuardedNeverCrash` (the queries that test for no idle thread too) state
  the properties without the reservation about exceptions. It cannot be dropped
  altogether: a SUM of a missing field throws in its tasks, and the one that
  outlives it may kill the process (`StrayCrash`). The instances of `MCQueryExecution` and
  `MCQueryThree` satisfy `AllComplete`; those of `MCQueryRaise` and
  `MCQueryStray` do not, and the latter shows that the hypothesis is needed.
* `DatabaseProofs`. `TypeCorrect`, `TablesStayExact`, `NamesStayRight`,
  `LoadReportsItsTable`, `RowsAlwaysFit` and `DatabaseImplementsArchive`, for any
  names, files, rows and initial texts. They assume that the files are texts
  (`DisksAssumption`), that names and keys are words (`WordsAssumption`) and that
  INSERT is given ints (`TuplesAssumption`). `IInv` adds to the properties what LOAD and DUMP have in
  their local variables: the name that LOAD will report is the one in the file's
  first line, and the file that DUMP writes is empty and remembered under the
  table's name. `WrittenIsText` and `BeginningIsText` are about `operator<<`:
  whatever it prints, and wherever the output breaks off, begins with the table's
  name or not at all. The rows are those of `TableOpsProofs`, whose keys and
  values may come from any sets; a table grows into larger ones (`ExactGrows`).
  `Held`, inductive on top of `IInv`, says that the table being loaded has just
  what stands in the lines that are read (`ReadUpTo`), and that each row has as
  many ints as its table has fields or is one that INSERT was given. The
  refinement rests on three facts about texts: what is read line by line to the
  end is what `Loaded` makes of the whole (`ReadWhole`); a line that LOAD refuses
  makes the whole not `Loadable` (`ReadInVain`); and `Written` is read back as
  the table that was printed if its rows fit and no word is too wide
  (`ReadsBack`), and else is refused (`DoesNotReadBack`). `Calling` ties the
  phase to the call: LOAD and DUMP have no answer as long as they go on, and their
  call names the file and the table that `frame` has. Then there is one lemma
  per action, `LoadStarts` to `Restarts`.

Of the invariants that the runs check all are proved, with these reservations:
`NeverCrashes` is false in general (`MCQueryIdle`) and is proved in the two cases
above; `NoStrayTask`, `BatchHasThreads` and `RegionsApart` are false or unknown
after a task has thrown, and are proved up to then; `KeysUnique` is open for
queries that rename after a task has thrown.

Only model-checked: the liveness properties (`TasksComplete`, `QueryReturns`,
`InputEnds`), which the prover cannot handle under fairness;
`ImplementsSerialQueries`, whose proof is planned below. What the folds in
`Queries` compute is checked on the instances only.

## 5. Not modelled

* A write that fails in the middle of a DUMP (the code does not look), and torn
  files that end inside a word. A torn file of whole words is modelled.
* A header that counts no fields at all: the code looks at the first of an empty
  sequence, and the model refuses the file.
* What DUMP and SHOWTABLE find behind a row that INSERT gave fewer operands than
  the table has fields: they read past its end, and any value of `Memory` may
  stand there. `Archive` promises nothing about such a table.
* The text of results, the stream they go to, and the wording of exceptions.
* UPDATE KEY for several matching rows or towards the key of another row in
  `QueryExecution`: the action is not enabled (`KeepsKeysUnique`). In one thread
  `MCTableRename` shows the result; on several threads the tasks would race on
  `keyMap` (the lock in `UpdateQuery.cpp:29` is commented out), which is
  undefined behaviour.
* SELECT without operands, which dereferences past the end of an empty vector
  before anything else happens.
* Allocation failures, and the reading of arguments.

## 6. Plan

1. Done: pool, regions, table, data queries and their composition, the database
   with its files, the query loop and its parser; proofs of all of them, but for
   the refinement in 2.
2. The refinement of `SerialQueries` by `QueryExecution` when no task throws:
   that the rows the tasks have visited, whatever their order, are as the serial
   query leaves them, and that the accumulators merge to the same sum, minimum or
   list. The folds that `SerialQueries` uses are what makes it hard.
3. UPDATE KEY on several threads, as far as a race on `keyMap` has outcomes that
   can be listed.
