------------------------------ MODULE ThreadPool ------------------------------
(***************************************************************************)
(* Thread_pool of src/src/query/Multithread.h: worker threads that sleep   *)
(* on one condition variable, a task queue behind one mutex, an atomic     *)
(* is_closed and an atomic idle_thread_num.  The main thread constructs    *)
(* the pool, resizes it with set_thread, adds tasks and, when the process  *)
(* ends, destroys it.                                                      *)
(*                                                                         *)
(* A step is what a thread does between two accesses another thread can    *)
(* observe.  A critical section of mut is one step, except in get_task:    *)
(* there the destructor's store to is_closed, which does not take mut, may *)
(* come between the test of the loop and the wait.                         *)
(***************************************************************************)
EXTENDS Integers, Sequences, FiniteSets

CONSTANTS
  ThreadNum,   \* the argument of set_thread
  Tasks,       \* the packaged tasks the main thread may add
  None         \* no thread, no task

ASSUME ThreadNumAssumption == ThreadNum \in Nat
ASSUME TasksAssumption == IsFiniteSet(Tasks)

\* thread_vector: the constructor's thread and the ThreadNum of set_thread.
Workers == 0..ThreadNum

ASSUME NoneAssumption == None \notin Tasks /\ None \notin Workers

VARIABLES
  mut,               \* the thread that holds the mutex across steps, or None
  task_queue,
  is_closed,
  idle_thread_num,
  pc,                \* where each worker is in init_thread and get_task
  task,              \* init_thread's local: the task the worker holds
  future,            \* the shared state of each task's future
  main               \* the main thread, as far as the pool sees it

vars == <<mut, task_queue, is_closed, idle_thread_num, pc, task, future, main>>

(***************************************************************************)
(* "unborn"  not yet in thread_vector                                      *)
(* "loop"    at the test of init_thread's loop                             *)
(* "lock"    in get_task, about to lock mut                                *)
(* "test"    in get_task with mut, about to evaluate the loop condition    *)
(* "sleep"   the condition held: about to call wait, still with mut        *)
(* "wait"    blocked in wait, without mut                                  *)
(* "wake"    awakened, wait is re-acquiring mut                            *)
(* "take"    get_task returned a task, not yet counted busy                *)
(* "run"     executing the task                                            *)
(* "done"    the task returned, the thread is still counted busy           *)
(* "exit"    init_thread returned                                          *)
(***************************************************************************)
Places == {"unborn", "loop", "lock", "test", "sleep", "wait", "wake",
           "take", "run", "done", "exit"}

Init ==
  /\ mut = None
  /\ task_queue = <<>>
  /\ is_closed = FALSE
  /\ idle_thread_num = 1
  /\ pc = [w \in Workers |-> IF w = 0 THEN "loop" ELSE "unborn"]
  /\ task = [w \in Workers |-> None]
  /\ future = [t \in Tasks |-> "none"]
  /\ main = "start"

-----------------------------------------------------------------------------
(* The condition variable.                                                 *)

Waiters(places) == {w \in Workers : places[w] = "wait"}

\* The outcomes of notify_one: one waiter, any, is awakened, if there is one.
NotifyOne(places) ==
  IF Waiters(places) = {} THEN {places}
  ELSE {[places EXCEPT ![w] = "wake"] : w \in Waiters(places)}

NotifyAll(places) ==
  [w \in Workers |-> IF places[w] = "wait" THEN "wake" ELSE places[w]]

-----------------------------------------------------------------------------
(* The main thread.                                                        *)

SetThread ==
  /\ main = "start"
  /\ main' = "serve"
  /\ idle_thread_num' = ThreadNum
  /\ pc' = [w \in Workers |-> IF w = 0 THEN pc[w] ELSE "loop"]
  /\ UNCHANGED <<mut, task_queue, is_closed, task, future>>

\* Mutant: the lambda that is queued captures task after it was moved from.
AddTaskMovedFrom(t) ==
  /\ main = "serve"
  /\ future[t] = "none"
  /\ mut = None
  /\ future' = [future EXCEPT ![t] = "pending"]
  /\ task_queue' = Append(task_queue, None)
  /\ pc' \in NotifyOne(pc)
  /\ UNCHANGED <<mut, is_closed, idle_thread_num, task, main>>

\* Mutant: push_task notifies only when the queue was empty.
AddTaskNotifyOnce(t) ==
  /\ main = "serve"
  /\ future[t] = "none"
  /\ mut = None
  /\ future' = [future EXCEPT ![t] = "pending"]
  /\ task_queue' = Append(task_queue, t)
  /\ pc' \in IF task_queue = <<>> THEN NotifyOne(pc) ELSE {pc}
  /\ UNCHANGED <<mut, is_closed, idle_thread_num, task, main>>

\* Mutant: push_task does not notify.
AddTaskSilent(t) ==
  /\ main = "serve"
  /\ future[t] = "none"
  /\ mut = None
  /\ future' = [future EXCEPT ![t] = "pending"]
  /\ task_queue' = Append(task_queue, t)
  /\ UNCHANGED <<mut, is_closed, idle_thread_num, pc, task, main>>

AddTask(t) ==
  /\ main = "serve"
  /\ future[t] = "none"
  /\ mut = None
  /\ future' = [future EXCEPT ![t] = "pending"]
  /\ task_queue' = Append(task_queue, t)
  /\ pc' \in NotifyOne(pc)
  /\ UNCHANGED <<mut, is_closed, idle_thread_num, task, main>>

\* ~Thread_pool stores is_closed without taking mut.  main can also exit
\* before set_thread, when the arguments are wrong.
StoreClosed ==
  /\ main \in {"start", "serve"}
  /\ main' = "closing"
  /\ is_closed' = TRUE
  /\ UNCHANGED <<mut, task_queue, idle_thread_num, pc, task, future>>

NotifyClosed ==
  /\ main = "closing"
  /\ main' = "joining"
  /\ pc' = NotifyAll(pc)
  /\ UNCHANGED <<mut, task_queue, is_closed, idle_thread_num, task, future>>

\* Every join has returned; the tasks that were never taken are dropped.
Join ==
  /\ main = "joining"
  /\ \A w \in Workers : pc[w] \in {"unborn", "exit"}
  /\ main' = "joined"
  /\ task_queue' = <<>>
  /\ UNCHANGED <<mut, is_closed, idle_thread_num, pc, task, future>>

-----------------------------------------------------------------------------
(* A worker: init_thread and get_task.                                     *)

Move(w, from, to) ==
  /\ pc[w] = from
  /\ pc' = [pc EXCEPT ![w] = to]

TestLoop(w) ==
  /\ Move(w, "loop", IF is_closed THEN "exit" ELSE "lock")
  /\ UNCHANGED <<mut, task_queue, is_closed, idle_thread_num, task, future, main>>

\* Lock mut; a closed pool hands out an empty function at once.
EnterGetTask(w) ==
  /\ mut = None
  /\ Move(w, "lock", IF is_closed THEN "loop" ELSE "test")
  /\ mut' = IF is_closed THEN None ELSE w
  /\ UNCHANGED <<task_queue, is_closed, idle_thread_num, task, future, main>>

FindNothing(w) ==
  /\ task_queue = <<>> /\ ~is_closed
  /\ Move(w, "test", "sleep")
  /\ UNCHANGED <<mut, task_queue, is_closed, idle_thread_num, task, future, main>>

\* wait releases mut and blocks in one step.
Wait(w) ==
  /\ Move(w, "sleep", "wait")
  /\ mut' = None
  /\ UNCHANGED <<task_queue, is_closed, idle_thread_num, task, future, main>>

SpuriousWakeup(w) ==
  /\ Move(w, "wait", "wake")
  /\ UNCHANGED <<mut, task_queue, is_closed, idle_thread_num, task, future, main>>

Relock(w) ==
  /\ mut = None
  /\ Move(w, "wake", "test")
  /\ mut' = w
  /\ UNCHANGED <<task_queue, is_closed, idle_thread_num, task, future, main>>

\* The loop ended because the pool is closed, with nothing to take.
GiveUp(w) ==
  /\ task_queue = <<>> /\ is_closed
  /\ Move(w, "test", "loop")
  /\ mut' = None
  /\ UNCHANGED <<task_queue, is_closed, idle_thread_num, task, future, main>>

\* Mutant: get_task copies the front and forgets to pop it.
PopTaskKeep(w) ==
  /\ pc[w] = "test"
  /\ task_queue # <<>>
  /\ task' = [task EXCEPT ![w] = Head(task_queue)]
  /\ pc' \in NotifyOne([pc EXCEPT ![w] = "take"])
  /\ mut' = None
  /\ UNCHANGED <<task_queue, is_closed, idle_thread_num, future, main>>

\* Mutant: get_task takes the task that was added last.
PopTaskLast(w) ==
  /\ pc[w] = "test"
  /\ task_queue # <<>>
  /\ task' = [task EXCEPT ![w] = task_queue[Len(task_queue)]]
  /\ task_queue' = SubSeq(task_queue, 1, Len(task_queue) - 1)
  /\ pc' \in NotifyOne([pc EXCEPT ![w] = "take"])
  /\ mut' = None
  /\ UNCHANGED <<is_closed, idle_thread_num, future, main>>

\* Pop the front, pass the notification on, release mut.
PopTask(w) ==
  /\ pc[w] = "test"
  /\ task_queue # <<>>
  /\ task' = [task EXCEPT ![w] = Head(task_queue)]
  /\ task_queue' = Tail(task_queue)
  /\ pc' \in NotifyOne([pc EXCEPT ![w] = "take"])
  /\ mut' = None
  /\ UNCHANGED <<is_closed, idle_thread_num, future, main>>

\* Mutant: idle_thread_num-- is missing.
BeginTaskUncounted(w) ==
  /\ Move(w, "take", "run")
  /\ UNCHANGED <<mut, task_queue, is_closed, idle_thread_num, task, future, main>>

BeginTask(w) ==
  /\ Move(w, "take", "run")
  /\ idle_thread_num' = idle_thread_num - 1
  /\ UNCHANGED <<mut, task_queue, is_closed, task, future, main>>

\* The packaged task returns: its future is ready before idle_thread_num++.
FinishTask(w) ==
  /\ Move(w, "run", "done")
  /\ future' = [future EXCEPT ![task[w]] = "ready"]
  /\ UNCHANGED <<mut, task_queue, is_closed, idle_thread_num, task, main>>

EndTask(w) ==
  /\ Move(w, "done", "loop")
  /\ idle_thread_num' = idle_thread_num + 1
  /\ task' = [task EXCEPT ![w] = None]
  /\ UNCHANGED <<mut, task_queue, is_closed, future, main>>

-----------------------------------------------------------------------------
Worker(w) ==
  \/ TestLoop(w)
  \/ EnterGetTask(w)
  \/ FindNothing(w)
  \/ Wait(w)
  \/ Relock(w)
  \/ GiveUp(w)
  \/ PopTask(w)
  \/ BeginTask(w)
  \/ FinishTask(w)
  \/ EndTask(w)

Destructor == NotifyClosed \/ Join

Next ==
  \/ SetThread
  \/ \E t \in Tasks : AddTask(t)
  \/ StoreClosed
  \/ Destructor
  \/ \E w \in Workers : Worker(w)
  \/ \E w \in Workers : SpuriousWakeup(w)

Spec == Init /\ [][Next]_vars

(***************************************************************************)
(* A thread that can run eventually runs, and the destructor goes on.  The *)
(* main thread need not add a task or exit, and nothing is assumed of      *)
(* spurious wakeups.                                                       *)
(***************************************************************************)
Fairness ==
  /\ \A w \in Workers : WF_vars(Worker(w))
  /\ WF_vars(Destructor)

FairSpec == Spec /\ Fairness

-----------------------------------------------------------------------------
(* Properties.                                                             *)

Queued == {task_queue[i] : i \in DOMAIN task_queue}

\* The workers that hold a task, by how far they are with it.
Taking == {w \in Workers : pc[w] = "take"}
Running == {w \in Workers : pc[w] = "run"}
Lagging == {w \in Workers : pc[w] = "done"}
Holding == Taking \cup Running \cup Lagging

TypeOK ==
  /\ mut \in Workers \cup {None}
  /\ task_queue \in Seq(Tasks)
  /\ is_closed \in BOOLEAN
  /\ idle_thread_num \in Int
  /\ pc \in [Workers -> Places]
  /\ task \in [Workers -> Tasks \cup {None}]
  /\ future \in [Tasks -> {"none", "pending", "ready"}]
  /\ main \in {"start", "serve", "closing", "joining", "joined"}

(***************************************************************************)
(* A task is in one place only: queued once, or held by one worker, and    *)
(* its future is ready exactly when it has run.  No interleaving of        *)
(* get_task loses a task, hands it to two threads or runs it twice.        *)
(***************************************************************************)
TaskInOnePlace ==
  /\ \A i, j \in DOMAIN task_queue : task_queue[i] = task_queue[j] => i = j
  /\ \A v, w \in Holding : task[v] = task[w] => v = w
  /\ \A w \in Holding : task[w] \in Tasks \ Queued
  /\ \A t \in Queued : future[t] = "pending"
  /\ \A w \in Taking \cup Running : future[task[w]] = "pending"
  /\ \A w \in Lagging : future[task[w]] = "ready"
  /\ \A t \in Tasks : future[t] = "pending" /\ main # "joined" =>
       t \in Queued \/ \E w \in Taking \cup Running : task[w] = t

\* The workers that will look at the queue without being notified again.
Looking == {w \in Workers : pc[w] \in {"loop", "lock", "test", "wake", "done"}}

(***************************************************************************)
(* No notification is lost: while a worker sleeps in wait, every queued    *)
(* task has an awake worker of its own on the way to the queue, so a task  *)
(* never waits behind a running one while a thread has nothing to do.      *)
(***************************************************************************)
NoLostWakeup ==
  ~is_closed /\ Waiters(pc) # {} =>
    Len(task_queue) <= Cardinality(Looking)

(***************************************************************************)
(* idle_thread_num is ThreadNum less the threads between its decrement and *)
(* its increment, although ThreadNum + 1 threads take tasks: a thread that *)
(* has taken a task is still counted idle, and one whose future is already *)
(* ready is still counted busy.                                            *)
(***************************************************************************)
IdleCount ==
  main = "serve" =>
    idle_thread_num = ThreadNum - Cardinality(Running \cup Lagging)

\* What the pool promises its callers, with the workers hidden.
Promise == INSTANCE TaskPool WITH
  threads <- Cardinality({w \in Workers : pc[w] # "unborn"}),
  taken <- {task[w] : w \in Taking},
  running <- {task[w] : w \in Running},
  lagging <- {task[w] : w \in Lagging},
  ready <- {t \in Tasks : future[t] = "ready"}

\* The pool implements TaskPool: tasks are taken in order, each once, by no
\* more threads than there are, and a future is ready before its thread is
\* idle again.
ImplementsTaskPool == Promise!PoolSpec

(***************************************************************************)
(* Every task added to an open pool is executed, provided wakeups are      *)
(* spurious only finitely often (each of them takes the mutex).            *)
(***************************************************************************)
TasksComplete ==
  <>[][~\E w \in Workers : SpuriousWakeup(w)]_vars =>
    \A t \in Tasks : future[t] = "pending" ~> future[t] = "ready" \/ is_closed

(***************************************************************************)
(* The destructor ends: a closed pool wakes its workers, they return from  *)
(* get_task and are joined.                                                *)
(***************************************************************************)
ShutdownCompletes == is_closed ~> main = "joined"
=============================================================================
