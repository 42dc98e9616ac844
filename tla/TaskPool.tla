------------------------------- MODULE TaskPool -------------------------------
(***************************************************************************)
(* What Thread_pool (src/src/query/Multithread.h) promises the queries     *)
(* that use it, with the mutex, the condition variable and the identity of *)
(* the worker threads left out: a submitted task is taken off the queue in *)
(* order, runs once, makes its future ready, and only afterwards gives its *)
(* thread back to idle_thread_num.  ThreadPool implements this module, and *)
(* QueryExecution is written on top of it.                                 *)
(***************************************************************************)
EXTENDS Integers, Sequences, FiniteSets

CONSTANTS
  ThreadNum,   \* the argument of set_thread
  Tasks        \* the packaged tasks that may be submitted

ASSUME ThreadNumAssumption == ThreadNum \in Nat
ASSUME TasksAssumption == IsFiniteSet(Tasks)

VARIABLES
  threads,          \* thread_vector.size()
  idle_thread_num,  \* the counter queries read to decide how to run
  is_closed,        \* the destructor has begun
  task_queue,       \* submitted and not yet taken
  taken,            \* popped by a thread that has not counted itself busy yet
  running,          \* executing, its thread counted busy
  lagging,          \* finished, its future ready, its thread still counted busy
  ready             \* the futures that are ready

poolVars == <<threads, idle_thread_num, is_closed, task_queue,
              taken, running, lagging, ready>>

QueuedTasks == {task_queue[i] : i \in DOMAIN task_queue}

\* Every task that was submitted, in whatever stage it is.
Submitted == QueuedTasks \cup taken \cup running \cup ready

\* The tasks that hold a thread.
Occupying == taken \cup running \cup lagging

PoolInit ==
  /\ threads = 1
  /\ idle_thread_num = 1
  /\ is_closed = FALSE
  /\ task_queue = <<>>
  /\ taken = {} /\ running = {} /\ lagging = {} /\ ready = {}

SetThread ==
  /\ threads = 1 /\ ~is_closed /\ Submitted = {}
  /\ threads' = 1 + ThreadNum
  /\ idle_thread_num' = ThreadNum
  /\ UNCHANGED <<is_closed, task_queue, taken, running, lagging, ready>>

AddTask(t) ==
  /\ ~is_closed /\ t \notin Submitted
  /\ task_queue' = Append(task_queue, t)
  /\ UNCHANGED <<threads, idle_thread_num, is_closed,
                 taken, running, lagging, ready>>

TakeTask ==
  /\ task_queue # <<>>
  /\ Cardinality(Occupying) < threads
  /\ taken' = taken \cup {Head(task_queue)}
  /\ task_queue' = Tail(task_queue)
  /\ UNCHANGED <<threads, idle_thread_num, is_closed, running, lagging, ready>>

\* Mutant: idle_thread_num-- is missing.
BeginTaskUncounted(t) ==
  /\ t \in taken
  /\ taken' = taken \ {t}
  /\ running' = running \cup {t}
  /\ UNCHANGED <<threads, idle_thread_num, is_closed, task_queue, lagging, ready>>

BeginTask(t) ==
  /\ t \in taken
  /\ taken' = taken \ {t}
  /\ running' = running \cup {t}
  /\ idle_thread_num' = idle_thread_num - 1
  /\ UNCHANGED <<threads, is_closed, task_queue, lagging, ready>>

FinishTask(t) ==
  /\ t \in running
  /\ running' = running \ {t}
  /\ lagging' = lagging \cup {t}
  /\ ready' = ready \cup {t}
  /\ UNCHANGED <<threads, idle_thread_num, is_closed, task_queue, taken>>

EndTask(t) ==
  /\ t \in lagging
  /\ lagging' = lagging \ {t}
  /\ idle_thread_num' = idle_thread_num + 1
  /\ UNCHANGED <<threads, is_closed, task_queue, taken, running, ready>>

Close ==
  /\ ~is_closed
  /\ is_closed' = TRUE
  /\ UNCHANGED <<threads, idle_thread_num, task_queue,
                 taken, running, lagging, ready>>

\* The destructor drops what is still queued once every thread has ended.
Discard ==
  /\ is_closed /\ Occupying = {}
  /\ task_queue' = <<>>
  /\ UNCHANGED <<threads, idle_thread_num, is_closed,
                 taken, running, lagging, ready>>

PoolNext ==
  \/ SetThread
  \/ \E t \in Tasks : AddTask(t)
  \/ TakeTask
  \/ \E t \in Tasks : BeginTask(t) \/ FinishTask(t) \/ EndTask(t)
  \/ Close
  \/ Discard

PoolSpec == PoolInit /\ [][PoolNext]_poolVars
=============================================================================
