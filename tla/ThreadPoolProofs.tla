--------------------------- MODULE ThreadPoolProofs ---------------------------
(***************************************************************************)
(* Proofs about ThreadPool for any number of threads and tasks.            *)
(***************************************************************************)
EXTENDS ThreadPool, FiniteSetTheorems, TLAPS

(***************************************************************************)
(* The inductive invariant: what is known of the lock and of the phases of *)
(* the main thread, on which the checked invariants depend.                *)
(***************************************************************************)

\* mut is held across steps by the worker between its test and its wait.
LockInv ==
  /\ \A w \in Workers : mut = w <=> pc[w] \in {"test", "sleep"}
  /\ \A w \in Workers : pc[w] = "sleep" => task_queue = <<>>

\* Before set_thread nothing was added; afterwards the pool is open until
\* the destructor begins.
MainInv ==
  /\ main \in {"start", "serve"} <=> ~is_closed
  /\ pc[0] # "unborn"
  /\ main = "start" =>
       /\ task_queue = <<>> /\ Holding = {}
       /\ \A t \in Tasks : future[t] = "none"
       /\ \A w \in Workers \ {0} : pc[w] = "unborn"

Control == TypeOK /\ LockInv /\ MainInv

-----------------------------------------------------------------------------
LEMMA WorkersFinite == 0 \in Workers /\ IsFiniteSet(Workers) /\ None \notin Workers
BY ThreadNumAssumption, NoneAssumption, FS_Interval DEF Workers

\* What notify_one may do: awaken a waiter, or nothing if there is none.
LEMMA NotifyOneOutcome ==
  ASSUME NEW places \in [Workers -> Places], NEW new \in NotifyOne(places)
  PROVE  /\ new \in [Workers -> Places]
         /\ \A w \in Workers : \/ new[w] = places[w]
                               \/ places[w] = "wait" /\ new[w] = "wake"
         /\ \/ Waiters(places) = {} /\ new = places
            \/ \E w \in Waiters(places) : new = [places EXCEPT ![w] = "wake"]
BY DEF NotifyOne, Waiters, Places

\* What notify_all does.
LEMMA NotifyAllOutcome ==
  ASSUME NEW places \in [Workers -> Places]
  PROVE  /\ NotifyAll(places) \in [Workers -> Places]
         /\ \A w \in Workers : NotifyAll(places)[w] =
              IF places[w] = "wait" THEN "wake" ELSE places[w]
BY DEF NotifyAll, Places

LEMMA InitControl == Init => Control
BY WorkersFinite
DEF Init, Control, TypeOK, LockInv, MainInv, Holding, Taking, Running, Lagging, Places

LEMMA ControlStep ==
  ASSUME Control, [Next]_vars
  PROVE  Control'
<1> USE WorkersFinite DEF Control
<1>1. CASE UNCHANGED vars
  BY <1>1 DEF vars, TypeOK, LockInv, MainInv, Holding, Taking, Running, Lagging
<1>2. CASE SetThread
  BY <1>2 DEF SetThread, TypeOK, LockInv, MainInv, Places
<1>3. ASSUME NEW t \in Tasks, AddTask(t)
      PROVE  Control'
  <2>1. /\ pc' \in [Workers -> Places]
        /\ \A w \in Workers : \/ pc'[w] = pc[w]
                              \/ pc[w] = "wait" /\ pc'[w] = "wake"
    BY <1>3, NotifyOneOutcome DEF AddTask, TypeOK
  <2> QED BY <1>3, <2>1 DEF AddTask, TypeOK, LockInv, MainInv
<1>4. CASE StoreClosed
  BY <1>4 DEF StoreClosed, TypeOK, LockInv, MainInv
<1>5. CASE NotifyClosed
  <2>1. /\ pc' \in [Workers -> Places]
        /\ \A w \in Workers :
             pc'[w] = IF pc[w] = "wait" THEN "wake" ELSE pc[w]
    BY <1>5, NotifyAllOutcome DEF NotifyClosed, TypeOK
  <2> QED BY <1>5, <2>1 DEF NotifyClosed, TypeOK, LockInv, MainInv
<1>6. CASE Join
  BY <1>6 DEF Join, TypeOK, LockInv, MainInv
<1>7. ASSUME NEW w \in Workers,
             \/ TestLoop(w) \/ EnterGetTask(w) \/ FindNothing(w) \/ Wait(w)
             \/ Relock(w) \/ GiveUp(w) \/ SpuriousWakeup(w)
      PROVE  Control'
  <2> USE DEF Move, TypeOK, LockInv, MainInv, Holding, Taking, Running, Lagging, Places
  <2>1. CASE TestLoop(w)
    BY <2>1 DEF TestLoop
  <2>2. CASE EnterGetTask(w)
    BY <2>2 DEF EnterGetTask
  <2>3. CASE FindNothing(w)
    BY <2>3 DEF FindNothing
  <2>4. CASE Wait(w)
    BY <2>4 DEF Wait
  <2>5. CASE Relock(w)
    BY <2>5 DEF Relock
  <2>6. CASE GiveUp(w)
    BY <2>6 DEF GiveUp
  <2>7. CASE SpuriousWakeup(w)
    BY <2>7 DEF SpuriousWakeup
  <2> QED BY <1>7, <2>1, <2>2, <2>3, <2>4, <2>5, <2>6, <2>7
<1>8. ASSUME NEW w \in Workers, PopTask(w)
      PROVE  Control'
  <2> DEFINE popped == [pc EXCEPT ![w] = "take"]
  <2>1. popped \in [Workers -> Places]
    BY DEF TypeOK, Places
  <2>2. /\ pc' \in [Workers -> Places]
        /\ \A v \in Workers : \/ pc'[v] = popped[v]
                              \/ popped[v] = "wait" /\ pc'[v] = "wake"
    BY <1>8, <2>1, NotifyOneOutcome DEF PopTask
  <2>3. /\ main # "start" /\ pc'[w] = "take" /\ mut = w
        /\ Head(task_queue) \in Tasks /\ Tail(task_queue) \in Seq(Tasks)
    BY <1>8, <2>2 DEF PopTask, TypeOK, MainInv, LockInv
  <2>4. \A v \in Workers \ {w} : \/ pc'[v] = pc[v]
                                 \/ pc[v] = "wait" /\ pc'[v] = "wake"
    BY <2>2
  <2> HIDE DEF popped
  <2>5. TypeOK'
    BY <1>8, <2>2, <2>3 DEF PopTask, TypeOK
  <2>6. LockInv'
    BY <1>8, <2>3, <2>4 DEF PopTask, LockInv, TypeOK
  <2>7. MainInv'
    BY <1>8, <2>3, <2>4 DEF PopTask, MainInv
  <2> QED BY <2>5, <2>6, <2>7
<1>9. ASSUME NEW w \in Workers, BeginTask(w) \/ FinishTask(w) \/ EndTask(w)
      PROVE  Control'
  <2>1. main # "start"
    BY <1>9 DEF BeginTask, FinishTask, EndTask, Move, MainInv, Holding, Taking, Running, Lagging
  <2>2. CASE BeginTask(w)
    BY <2>1, <2>2 DEF BeginTask, Move, TypeOK, LockInv, MainInv, Places
  <2>3. CASE FinishTask(w)
    BY <2>1, <2>3 DEF FinishTask, Move, TypeOK, LockInv, MainInv, Places
  <2>4. CASE EndTask(w)
    BY <2>1, <2>4 DEF EndTask, Move, TypeOK, LockInv, MainInv, Places
  <2> QED BY <1>9, <2>2, <2>3, <2>4
<1> QED BY <1>1, <1>2, <1>3, <1>4, <1>5, <1>6, <1>7, <1>8, <1>9
        DEF Next, Destructor, Worker

-----------------------------------------------------------------------------
(* Tasks.                                                                  *)

\* Steps that move workers only between places where they hold no task.
Idling == {"unborn", "loop", "lock", "test", "sleep", "wait", "wake", "exit"}

LEMMA HoldersUnchanged ==
  ASSUME \A w \in Workers :
           pc'[w] = pc[w] \/ (pc[w] \in Idling /\ pc'[w] \in Idling)
  PROVE  /\ Taking' = Taking /\ Running' = Running /\ Lagging' = Lagging
         /\ Holding' = Holding
<1>1. Taking' = Taking
  BY DEF Idling, Taking
<1>2. Running' = Running
  BY DEF Idling, Running
<1>3. Lagging' = Lagging
  BY DEF Idling, Lagging
<1> QED BY <1>1, <1>2, <1>3 DEF Holding

\* The steps of the main thread and of workers that hold no task, other
\* than AddTask and PopTask.
Bystander ==
  \/ SetThread \/ StoreClosed \/ NotifyClosed
  \/ \E w \in Workers :
       \/ TestLoop(w) \/ EnterGetTask(w) \/ FindNothing(w) \/ Wait(w)
       \/ Relock(w) \/ GiveUp(w) \/ SpuriousWakeup(w)

LEMMA BystanderStep ==
  ASSUME Control, Bystander
  PROVE  /\ UNCHANGED <<Taking, Running, Lagging, Holding>>
         /\ UNCHANGED <<task, task_queue, future>>
         /\ main' # "joined" => main # "joined"
<1> DEFINE Idle(w) == pc'[w] = pc[w] \/ (pc[w] \in Idling /\ pc'[w] \in Idling)
<1>1. CASE SetThread
  <2>1. \A w \in Workers : Idle(w)
    BY <1>1 DEF SetThread, Control, MainInv, TypeOK, Idling
  <2> QED BY <1>1, <2>1, HoldersUnchanged DEF SetThread
<1>2. CASE StoreClosed
  <2>1. \A w \in Workers : Idle(w)
    BY <1>2 DEF StoreClosed
  <2> QED BY <1>2, <2>1, HoldersUnchanged DEF StoreClosed
<1>3. CASE NotifyClosed
  <2>1. \A w \in Workers : pc'[w] = IF pc[w] = "wait" THEN "wake" ELSE pc[w]
    BY <1>3, NotifyAllOutcome DEF NotifyClosed, Control, TypeOK
  <2>2. \A w \in Workers : Idle(w)
    BY <2>1 DEF Idling
  <2> QED BY <1>3, <2>2, HoldersUnchanged DEF NotifyClosed
<1>4. ASSUME NEW w \in Workers,
             \/ TestLoop(w) \/ EnterGetTask(w) \/ FindNothing(w) \/ Wait(w)
             \/ Relock(w) \/ GiveUp(w) \/ SpuriousWakeup(w)
      PROVE  UNCHANGED <<Taking, Running, Lagging, Holding,
                         task, task_queue, future, main>>
  <2>1. PICK from \in Idling, to \in Idling : Move(w, from, to)
    BY <1>4 DEF TestLoop, EnterGetTask, FindNothing, Wait, Relock, GiveUp,
                SpuriousWakeup, Idling
  <2>2. \A v \in Workers : Idle(v)
    BY <2>1 DEF Move, Control, TypeOK
  <2>3. UNCHANGED <<task, task_queue, future, main>>
    BY <1>4 DEF TestLoop, EnterGetTask, FindNothing, Wait, Relock, GiveUp,
                SpuriousWakeup
  <2> QED BY <2>2, <2>3, HoldersUnchanged
<1> QED BY <1>1, <1>2, <1>3, <1>4 DEF Bystander

\* What Append and Tail do to the set of queued tasks.
LEMMA AppendQueued ==
  ASSUME NEW q \in Seq(Tasks), NEW t \in Tasks
  PROVE  /\ DOMAIN Append(q, t) = DOMAIN q \cup {Len(q) + 1}
         /\ \A i \in DOMAIN q : Append(q, t)[i] = q[i]
         /\ Append(q, t)[Len(q) + 1] = t
         /\ Len(q) + 1 \notin DOMAIN q
OBVIOUS

LEMMA TailQueued ==
  ASSUME NEW q \in Seq(Tasks), q # <<>>
  PROVE  /\ 1 \in DOMAIN q /\ Head(q) = q[1]
         /\ \A i \in DOMAIN Tail(q) : i + 1 \in DOMAIN q /\ i # 0 /\ Tail(q)[i] = q[i + 1]
         /\ \A i \in DOMAIN q \ {1} : i - 1 \in DOMAIN Tail(q) /\ q[i] = Tail(q)[i - 1]
OBVIOUS

LEMMA TaskStep ==
  ASSUME Control, TaskInOnePlace, [Next]_vars
  PROVE  TaskInOnePlace'
<1>1. CASE UNCHANGED vars
  BY <1>1 DEF vars, TaskInOnePlace, Holding, Taking, Running, Lagging, Queued
<1>2. CASE Bystander
  BY <1>2, BystanderStep DEF TaskInOnePlace, Queued
<1>3. ASSUME NEW t \in Tasks, AddTask(t)
      PROVE  TaskInOnePlace'
  <2>1. /\ Taking' = Taking /\ Running' = Running /\ Lagging' = Lagging
        /\ Holding' = Holding
    <3>1. \A w \in Workers : pc'[w] = pc[w] \/ (pc[w] = "wait" /\ pc'[w] = "wake")
      BY <1>3, NotifyOneOutcome DEF AddTask, Control, TypeOK
    <3>2. \A w \in Workers : pc'[w] = pc[w] \/ (pc[w] \in Idling /\ pc'[w] \in Idling)
      BY <3>1 DEF Idling
    <3> QED BY <3>2, HoldersUnchanged
  <2>2. /\ task_queue \in Seq(Tasks) /\ task_queue' = Append(task_queue, t)
        /\ task' = task /\ future[t] = "none" /\ main = "serve" /\ main' = main
        /\ future' = [future EXCEPT ![t] = "pending"]
        /\ future \in [Tasks -> {"none", "pending", "ready"}]
    BY <1>3 DEF AddTask, Control, TypeOK
  <2>3. Queued' = Queued \cup {t} /\ t \notin Queued
    BY <2>2, AppendQueued DEF Queued, TaskInOnePlace
  <2>4. \A i, j \in DOMAIN task_queue' : task_queue'[i] = task_queue'[j] => i = j
    BY <2>2, <2>3, AppendQueued DEF Queued, TaskInOnePlace
  <2>5. \A w \in Holding : task[w] # t
    BY <2>2 DEF TaskInOnePlace, Holding
  <2> QED BY <2>1, <2>2, <2>3, <2>4, <2>5 DEF TaskInOnePlace, Holding
<1>4. CASE Join
  <2>1. Taking = {} /\ Running = {} /\ Lagging = {} /\ Holding = {}
    BY <1>4 DEF Join, Taking, Running, Lagging, Holding
  <2>2. Taking' = {} /\ Running' = {} /\ Lagging' = {} /\ Holding' = {}
    BY <1>4 DEF Join, Taking, Running, Lagging, Holding
  <2> QED BY <1>4, <2>2 DEF Join, TaskInOnePlace, Queued
<1>5. ASSUME NEW w \in Workers, PopTask(w)
      PROVE  TaskInOnePlace'
  <2> DEFINE t == Head(task_queue)
  <2>1. /\ Taking' = Taking \cup {w} /\ Running' = Running /\ Lagging' = Lagging
        /\ Holding' = Holding \cup {w} /\ w \notin Holding
    <3> DEFINE popped == [pc EXCEPT ![w] = "take"]
    <3>1. popped \in [Workers -> Places] /\ pc[w] = "test"
      BY <1>5 DEF PopTask, Control, TypeOK, Places
    <3>2. \A v \in Workers : \/ pc'[v] = popped[v]
                             \/ popped[v] = "wait" /\ pc'[v] = "wake"
      BY <1>5, <3>1, NotifyOneOutcome DEF PopTask
    <3>3. /\ pc'[w] = "take"
          /\ \A v \in Workers \ {w} : \/ pc'[v] = pc[v]
                                      \/ pc[v] = "wait" /\ pc'[v] = "wake"
      BY <3>1, <3>2
    <3>4. Taking' = Taking \cup {w} /\ w \notin Taking
      BY <3>1, <3>3 DEF Taking
    <3>5. Running' = Running /\ w \notin Running
      BY <3>1, <3>3 DEF Running
    <3>6. Lagging' = Lagging /\ w \notin Lagging
      BY <3>1, <3>3 DEF Lagging
    <3> QED BY <3>4, <3>5, <3>6 DEF Holding
  <2>2. /\ task_queue \in Seq(Tasks) /\ task_queue # <<>>
        /\ task_queue' = Tail(task_queue)
        /\ task' = [task EXCEPT ![w] = t]
        /\ task \in [Workers -> Tasks \cup {None}]
        /\ future' = future /\ main' = main
    BY <1>5 DEF PopTask, Control, TypeOK
  <2>3. t \in Queued /\ Queued' = Queued \ {t}
    <3> DEFINE q == task_queue
    <3>1. 1 \in DOMAIN q /\ t = q[1]
      BY <2>2, TailQueued
    <3>2. \A i \in DOMAIN Tail(q) : Tail(q)[i] \in Queued /\ Tail(q)[i] # t
      <4> SUFFICES ASSUME NEW i \in DOMAIN Tail(q)
                   PROVE  Tail(q)[i] \in Queued /\ Tail(q)[i] # t
        OBVIOUS
      <4>1. i + 1 \in DOMAIN q /\ i + 1 # 1 /\ Tail(q)[i] = q[i + 1]
        BY <2>2, TailQueued
      <4> QED BY <3>1, <4>1 DEF Queued, TaskInOnePlace
    <3>3. \A i \in DOMAIN q \ {1} : q[i] \in Queued'
      BY <2>2, TailQueued DEF Queued
    <3>4. Queued' = {Tail(q)[i] : i \in DOMAIN Tail(q)}
      BY <2>2 DEF Queued
    <3> QED BY <3>1, <3>2, <3>3, <3>4 DEF Queued
  <2>4. \A i, j \in DOMAIN task_queue' : task_queue'[i] = task_queue'[j] => i = j
    <3> SUFFICES ASSUME NEW i \in DOMAIN Tail(task_queue), NEW j \in DOMAIN Tail(task_queue),
                        Tail(task_queue)[i] = Tail(task_queue)[j]
                 PROVE  i = j
      BY <2>2
    <3>1. i + 1 = j + 1
      BY <2>2, TailQueued DEF TaskInOnePlace
    <3> QED BY <2>2, <3>1
  <2>5. t \in Tasks /\ Queued \subseteq Tasks
    BY <2>2, <2>3 DEF Queued
  <2>6. task'[w] = t /\ \A v \in Holding : task'[v] = task[v] /\ v # w
    BY <2>1, <2>2 DEF Holding, Taking, Running, Lagging
  <2> HIDE DEF t
  <2> QED BY <2>1, <2>2, <2>3, <2>4, <2>5, <2>6 DEF TaskInOnePlace, Holding
<1>6. ASSUME NEW w \in Workers, BeginTask(w)
      PROVE  TaskInOnePlace'
  <2>1. /\ w \in Taking /\ Taking' = Taking \ {w} /\ Running' = Running \cup {w}
        /\ Lagging' = Lagging /\ Holding' = Holding
    BY <1>6 DEF BeginTask, Move, Control, TypeOK, Taking, Running, Lagging, Holding
  <2>2. UNCHANGED <<task_queue, task, future, main>>
    BY <1>6 DEF BeginTask
  <2> QED BY <2>1, <2>2 DEF TaskInOnePlace, Queued
<1>7. ASSUME NEW w \in Workers, FinishTask(w)
      PROVE  TaskInOnePlace'
  <2>1. /\ w \in Running /\ Running' = Running \ {w} /\ Lagging' = Lagging \cup {w}
        /\ Taking' = Taking /\ Holding' = Holding /\ w \notin Taking
    BY <1>7 DEF FinishTask, Move, Control, TypeOK, Taking, Running, Lagging, Holding
  <2>2. /\ UNCHANGED <<task_queue, task, main>>
        /\ future' = [future EXCEPT ![task[w]] = "ready"]
        /\ future \in [Tasks -> {"none", "pending", "ready"}]
    BY <1>7 DEF FinishTask, Control, TypeOK
  <2>3. task[w] \in Tasks \ Queued /\ w \in Holding
    BY <2>1 DEF TaskInOnePlace, Holding
  <2>4. \A v \in Holding : task[v] = task[w] => v = w
    BY <2>3 DEF TaskInOnePlace
  <2> QED BY <2>1, <2>2, <2>3, <2>4 DEF TaskInOnePlace, Queued, Holding
<1>8. ASSUME NEW w \in Workers, EndTask(w)
      PROVE  TaskInOnePlace'
  <2>1. /\ w \in Lagging /\ Lagging' = Lagging \ {w} /\ Taking' = Taking
        /\ Running' = Running /\ Holding' = Holding \ {w}
    BY <1>8 DEF EndTask, Move, Control, TypeOK, Taking, Running, Lagging, Holding
  <2>2. /\ UNCHANGED <<task_queue, future, main>>
        /\ task' = [task EXCEPT ![w] = None] /\ task \in [Workers -> Tasks \cup {None}]
    BY <1>8 DEF EndTask, Control, TypeOK
  <2>3. \A v \in Holding' : task'[v] = task[v]
    BY <2>1, <2>2 DEF Holding, Taking, Running, Lagging
  <2>4. w \notin Taking \cup Running
    BY <2>1 DEF Taking, Running, Lagging
  <2> QED BY <2>1, <2>2, <2>3, <2>4 DEF TaskInOnePlace, Queued, Holding
<1> QED BY <1>1, <1>2, <1>3, <1>4, <1>5, <1>6, <1>7, <1>8
        DEF Next, Destructor, Worker, Bystander

-----------------------------------------------------------------------------
(* Counting.                                                               *)

\* The size of a set of workers when one joins or leaves it.
LEMMA CountWorkers ==
  ASSUME NEW S \in SUBSET Workers, NEW w \in Workers
  PROVE  /\ Cardinality(S) \in Nat
         /\ Cardinality(S \cup {w}) =
              IF w \in S THEN Cardinality(S) ELSE Cardinality(S) + 1
         /\ Cardinality(S \ {w}) =
              IF w \in S THEN Cardinality(S) - 1 ELSE Cardinality(S)
<1>1. IsFiniteSet(S)
  BY WorkersFinite, FS_Subset
<1> QED BY <1>1, FS_CardinalityType, FS_AddElement, FS_RemoveElement

LEMMA IdleStep ==
  ASSUME Control, IdleCount, [Next]_vars
  PROVE  IdleCount'
<1> DEFINE Busy == Running \cup Lagging
<1>1. Busy \in SUBSET Workers
  BY DEF Running, Lagging
<1>2. CASE UNCHANGED vars
  BY <1>2 DEF vars, IdleCount, Running, Lagging
<1>3. CASE SetThread
  <2>1. Running' \cup Lagging' = {}
    BY <1>3, BystanderStep DEF Bystander, SetThread, Control, MainInv, Holding
  <2> QED BY <1>3, <2>1, FS_EmptySet, ThreadNumAssumption DEF SetThread, IdleCount
<1>4. CASE Bystander /\ ~SetThread
  <2>1. UNCHANGED <<Running, Lagging>>
    BY <1>4, BystanderStep
  <2>2. idle_thread_num' = idle_thread_num /\ (main' = "serve" => main = "serve")
    BY <1>4 DEF Bystander, StoreClosed, NotifyClosed, TestLoop, EnterGetTask,
                FindNothing, Wait, Relock, GiveUp, SpuriousWakeup
  <2> QED BY <2>1, <2>2 DEF IdleCount
<1>5. ASSUME NEW t \in Tasks, AddTask(t)
      PROVE  IdleCount'
  <2>1. \A w \in Workers : pc'[w] = pc[w] \/ (pc[w] = "wait" /\ pc'[w] = "wake")
    BY <1>5, NotifyOneOutcome DEF AddTask, Control, TypeOK
  <2>2. UNCHANGED <<Running, Lagging>>
    BY <2>1 DEF Running, Lagging
  <2> QED BY <1>5, <2>2 DEF AddTask, IdleCount
<1>6. CASE Join
  BY <1>6 DEF Join, IdleCount
<1>7. ASSUME NEW w \in Workers, PopTask(w)
      PROVE  IdleCount'
  <2> DEFINE popped == [pc EXCEPT ![w] = "take"]
  <2>1. popped \in [Workers -> Places] /\ pc[w] = "test"
    BY <1>7 DEF PopTask, Control, TypeOK, Places
  <2>2. \A v \in Workers : \/ pc'[v] = popped[v]
                           \/ popped[v] = "wait" /\ pc'[v] = "wake"
    BY <1>7, <2>1, NotifyOneOutcome DEF PopTask
  <2>3. UNCHANGED <<Running, Lagging>>
    BY <2>1, <2>2 DEF Running, Lagging
  <2> QED BY <1>7, <2>3 DEF PopTask, IdleCount
<1>8. ASSUME NEW w \in Workers, BeginTask(w)
      PROVE  IdleCount'
  <2>1. w \notin Busy /\ Running' \cup Lagging' = Busy \cup {w}
    BY <1>8 DEF BeginTask, Move, Control, TypeOK, Running, Lagging
  <2> QED BY <1>1, <1>8, <2>1, CountWorkers, ThreadNumAssumption DEF BeginTask, IdleCount
<1>9. ASSUME NEW w \in Workers, FinishTask(w)
      PROVE  IdleCount'
  <2>1. Running' \cup Lagging' = Busy
    BY <1>9 DEF FinishTask, Move, Control, TypeOK, Running, Lagging
  <2> QED BY <1>9, <2>1 DEF FinishTask, IdleCount
<1>10. ASSUME NEW w \in Workers, EndTask(w)
       PROVE  IdleCount'
  <2>1. w \in Busy /\ Running' \cup Lagging' = Busy \ {w}
    BY <1>10 DEF EndTask, Move, Control, TypeOK, Running, Lagging
  <2> QED BY <1>1, <1>10, <2>1, CountWorkers, ThreadNumAssumption DEF EndTask, IdleCount
<1> QED BY <1>2, <1>3, <1>4, <1>5, <1>6, <1>7, <1>8, <1>9, <1>10
        DEF Next, Destructor, Worker, Bystander

(***************************************************************************)
(* While the pool is open, a step either leaves at least as many workers   *)
(* looking and no more tasks queued, or wakes a worker for the task that   *)
(* it adds, or takes a task and wakes a worker in exchange.                *)
(***************************************************************************)
LEMMA WakeupStep ==
  ASSUME Control, NoLostWakeup, [Next]_vars
  PROVE  NoLostWakeup'
<1> DEFINE n == Cardinality(Looking)
<1>1. Looking \in SUBSET Workers /\ n \in Nat /\ Len(task_queue) \in Nat
  BY CountWorkers, WorkersFinite DEF Looking, Control, TypeOK
<1>2. CASE UNCHANGED vars
  BY <1>2 DEF vars, NoLostWakeup, Waiters, Looking
<1>3. CASE SetThread
  <2>1. task_queue' = <<>> /\ Cardinality(Looking') \in Nat
    BY <1>3, CountWorkers, WorkersFinite DEF SetThread, Control, MainInv, Looking
  <2> QED BY <2>1 DEF NoLostWakeup
<1>4. CASE StoreClosed \/ NotifyClosed \/ Join
  <2>1. is_closed'
    BY <1>4 DEF StoreClosed, NotifyClosed, Join, Control, MainInv
  <2> QED BY <2>1 DEF NoLostWakeup
<1>5. ASSUME NEW t \in Tasks, AddTask(t), ~is_closed, Waiters(pc') # {}
      PROVE  Len(task_queue') <= Cardinality(Looking')
  <2>1. pc \in [Workers -> Places] /\ pc' \in NotifyOne(pc)
    BY <1>5 DEF AddTask, Control, TypeOK
  <2>2. PICK w \in Waiters(pc) : pc' = [pc EXCEPT ![w] = "wake"]
    BY <1>5, <2>1, NotifyOneOutcome
  <2>3. w \in Workers \ Looking /\ Looking' = Looking \cup {w}
    BY <2>1, <2>2 DEF Waiters, Looking
  <2>4. Len(task_queue) <= n
    BY <1>5, <2>2 DEF NoLostWakeup
  <2>5. Len(task_queue') = Len(task_queue) + 1
    BY <1>5 DEF AddTask, Control, TypeOK
  <2> QED BY <1>1, <2>3, <2>4, <2>5, CountWorkers
<1>6. ASSUME NEW w \in Workers, PopTask(w), ~is_closed, Waiters(pc') # {}
      PROVE  Len(task_queue') <= Cardinality(Looking')
  <2> DEFINE popped == [pc EXCEPT ![w] = "take"]
  <2>1. pc \in [Workers -> Places] /\ popped \in [Workers -> Places] /\ pc[w] = "test"
    BY <1>6 DEF PopTask, Control, TypeOK, Places
  <2>2. PICK v \in Waiters(popped) : pc' = [popped EXCEPT ![v] = "wake"]
    BY <1>6, <2>1, NotifyOneOutcome DEF PopTask
  <2>3. v \in Workers /\ v # w /\ pc[v] = "wait"
    BY <2>1, <2>2 DEF Waiters
  <2>4. /\ v \notin Looking \ {w} /\ w \in Looking
        /\ Looking' = (Looking \ {w}) \cup {v}
    BY <2>1, <2>2, <2>3 DEF Looking
  <2>5. Cardinality(Looking') = n
    <3> DEFINE L == Looking \ {w}
    <3>1. L \in SUBSET Workers /\ v \notin L /\ Looking' = L \cup {v}
      BY <1>1, <2>4
    <3>2. Cardinality(L) = n - 1
      BY <1>1, <2>4, CountWorkers
    <3> HIDE DEF L
    <3>3. Cardinality(L \cup {v}) = Cardinality(L) + 1
      BY <2>3, <3>1, CountWorkers
    <3> QED BY <1>1, <3>1, <3>2, <3>3
  <2>6. Len(task_queue) <= n
    BY <1>6, <2>3 DEF NoLostWakeup, Waiters
  <2>7. Len(task_queue') = Len(task_queue) - 1
    BY <1>6 DEF PopTask, Control, TypeOK
  <2> QED BY <1>1, <2>5, <2>6, <2>7
<1>7. ASSUME NEW w \in Workers, Wait(w)
      PROVE  NoLostWakeup'
  <2>1. task_queue' = <<>> /\ Looking' \in SUBSET Workers
    BY <1>7 DEF Wait, Move, Control, LockInv, Looking
  <2>2. Len(task_queue') = 0 /\ Cardinality(Looking') \in Nat
    BY <2>1, CountWorkers
  <2> QED BY <2>2 DEF NoLostWakeup
<1>8. ASSUME NEW w \in Workers, FindNothing(w)
      PROVE  NoLostWakeup'
  <2>1. task_queue' = <<>> /\ Looking' \in SUBSET Workers
    BY <1>8 DEF FindNothing, Looking
  <2>2. Len(task_queue') = 0 /\ Cardinality(Looking') \in Nat
    BY <2>1, CountWorkers
  <2> QED BY <2>2 DEF NoLostWakeup
<1>9. ASSUME NEW w \in Workers, ~is_closed,
             \/ TestLoop(w) \/ EnterGetTask(w) \/ Relock(w) \/ GiveUp(w)
             \/ BeginTask(w) \/ FinishTask(w) \/ EndTask(w) \/ SpuriousWakeup(w)
      PROVE  NoLostWakeup'
  <2>1. PICK from, to \in Places :
          /\ Move(w, from, to)
          /\ to \notin {"wait", "sleep"}
          /\ \/ from \notin {"loop", "lock", "test", "wake", "done"}
             \/ to \in {"loop", "lock", "test", "wake", "done"}
    BY <1>9 DEF TestLoop, EnterGetTask, Relock, GiveUp, BeginTask, FinishTask,
                EndTask, SpuriousWakeup, Places
  <2>2. Waiters(pc') \subseteq Waiters(pc)
    BY <2>1 DEF Move, Control, TypeOK, Waiters
  <2>3. Looking' = Looking \/ Looking' = Looking \cup {w}
    BY <2>1 DEF Move, Control, TypeOK, Looking
  <2>4. Cardinality(Looking') >= n /\ Cardinality(Looking') \in Nat
    <3>1. Cardinality(Looking \cup {w}) = IF w \in Looking THEN n ELSE n + 1
      BY <1>1, CountWorkers
    <3>2. Cardinality(Looking') \in {n, n + 1}
      BY <2>3, <3>1
    <3> HIDE DEF n
    <3> QED BY <1>1, <3>2
  <2>5. task_queue' = task_queue /\ is_closed' = is_closed
    BY <1>9 DEF TestLoop, EnterGetTask, Relock, GiveUp, BeginTask, FinishTask,
                EndTask, SpuriousWakeup
  <2>6. Waiters(pc') # {} => Len(task_queue) <= n
    BY <1>9, <2>2 DEF NoLostWakeup
  <2> QED BY <1>1, <2>4, <2>5, <2>6 DEF NoLostWakeup
<1>10. CASE is_closed
  <2>1. is_closed'
    BY <1>10 DEF Next, vars, Destructor, Worker, SetThread, AddTask, StoreClosed,
         NotifyClosed, Join, TestLoop, EnterGetTask, FindNothing, Wait, Relock,
         GiveUp, PopTask, BeginTask, FinishTask, EndTask, SpuriousWakeup
  <2> QED BY <2>1 DEF NoLostWakeup
<1>11. CASE ~is_closed
  <2>1. ASSUME NEW t \in Tasks, AddTask(t)
        PROVE  NoLostWakeup'
    BY <1>5, <1>11, <2>1 DEF NoLostWakeup
  <2>2. ASSUME NEW w \in Workers, PopTask(w)
        PROVE  NoLostWakeup'
    BY <1>6, <1>11, <2>2 DEF NoLostWakeup
  <2> QED BY <1>2, <1>3, <1>4, <1>7, <1>8, <1>9, <1>11, <2>1, <2>2
          DEF Next, Destructor, Worker
<1> QED BY <1>10, <1>11

-----------------------------------------------------------------------------
IInv == Control /\ TaskInOnePlace /\ IdleCount /\ NoLostWakeup

LEMMA InitIInv == Init => IInv
<1> SUFFICES ASSUME Init
             PROVE  IInv
  OBVIOUS
<1>1. Control
  BY InitControl
<1>2. Taking = {} /\ Running = {} /\ Lagging = {} /\ Holding = {} /\ Queued = {}
  BY DEF Init, Taking, Running, Lagging, Holding, Queued
<1>3. TaskInOnePlace
  BY <1>2 DEF Init, TaskInOnePlace
<1>4. IdleCount
  BY DEF Init, IdleCount
<1>5. NoLostWakeup
  BY DEF Init, NoLostWakeup, Waiters
<1> QED BY <1>1, <1>3, <1>4, <1>5 DEF IInv

LEMMA IInvHolds == Spec => []IInv
<1>1. Init => IInv
  BY InitIInv
<1>2. IInv /\ [Next]_vars => IInv'
  BY ControlStep, TaskStep, IdleStep, WakeupStep DEF IInv
<1> QED BY <1>1, <1>2, PTL DEF Spec

(***************************************************************************)
(* The variables of the pool keep their types.                             *)
(***************************************************************************)
THEOREM TypeCorrect == Spec => []TypeOK
<1>1. IInv => TypeOK
  BY DEF IInv, Control
<1> QED BY <1>1, IInvHolds, PTL

(***************************************************************************)
(* Whatever the threads do, a task that was added is in the queue once or  *)
(* with one thread, until it has run and its future is ready.              *)
(***************************************************************************)
THEOREM TasksStayInOnePlace == Spec => []TaskInOnePlace
<1>1. IInv => TaskInOnePlace
  BY DEF IInv
<1> QED BY <1>1, IInvHolds, PTL

(***************************************************************************)
(* idle_thread_num counts the threads of set_thread less the busy ones.    *)
(***************************************************************************)
THEOREM IdleCountCorrect == Spec => []IdleCount
<1>1. IInv => IdleCount
  BY DEF IInv
<1> QED BY <1>1, IInvHolds, PTL

(***************************************************************************)
(* With any number of threads one notify_one for each task added and one   *)
(* for each task taken suffice: while a thread sleeps no task is left      *)
(* without a thread that will look at the queue.                           *)
(***************************************************************************)
THEOREM NoWakeupLost == Spec => []NoLostWakeup
<1>1. IInv => NoLostWakeup
  BY DEF IInv
<1> QED BY <1>1, IInvHolds, PTL

-----------------------------------------------------------------------------
(* ThreadPool implements TaskPool.                                         *)

\* The values that ThreadPool gives to the variables of TaskPool.
Born == {w \in Workers : pc[w] # "unborn"}
Held(ws) == {task[w] : w \in ws}
Ready == {t \in Tasks : future[t] = "ready"}

LEMMA Mapping ==
  /\ Promise!poolVars = <<Cardinality(Born), idle_thread_num, is_closed, task_queue,
                          Held(Taking), Held(Running), Held(Lagging), Ready>>
  /\ Promise!QueuedTasks = Queued
  /\ Promise!Submitted = Queued \cup Held(Taking) \cup Held(Running) \cup Ready
  /\ Promise!Occupying = Held(Holding)
BY DEF Promise!poolVars, Promise!QueuedTasks, Promise!Submitted, Promise!Occupying,
       Queued, Born, Held, Ready, Holding

\* The instance of TaskPool has an operator of this name of its own.
LEMMA SameCardinality == \A S : Promise!Cardinality(S) = Cardinality(S)
BY DEF Promise!Cardinality, Cardinality

LEMMA MapInit == Init => Promise!PoolInit
<1> SUFFICES ASSUME Init
             PROVE  Promise!PoolInit
  OBVIOUS
<1>1. Born = {0}
  BY WorkersFinite DEF Init, Born
<1>2. Taking = {} /\ Running = {} /\ Lagging = {} /\ Ready = {}
  BY DEF Init, Taking, Running, Lagging, Ready
<1> QED BY <1>1, <1>2, FS_Singleton DEF Init, Promise!PoolInit, Born, Ready

\* Once set_thread was called no thread is added, and none before it.
LEMMA BornUnchanged ==
  ASSUME Control, [Next]_vars, ~SetThread
  PROVE  Born' = Born
<1>1. CASE UNCHANGED vars
  BY <1>1 DEF vars, Born
<1>2. ASSUME NEW t \in Tasks, AddTask(t)
      PROVE  Born' = Born
  <2>1. \A w \in Workers : pc'[w] = pc[w] \/ (pc[w] = "wait" /\ pc'[w] = "wake")
    BY <1>2, NotifyOneOutcome DEF AddTask, Control, TypeOK
  <2> QED BY <2>1 DEF Born
<1>3. CASE NotifyClosed
  <2>1. \A w \in Workers : pc'[w] = IF pc[w] = "wait" THEN "wake" ELSE pc[w]
    BY <1>3, NotifyAllOutcome DEF NotifyClosed, Control, TypeOK
  <2> QED BY <2>1 DEF Born
<1>4. CASE StoreClosed \/ Join
  BY <1>4 DEF StoreClosed, Join, Born
<1>5. ASSUME NEW w \in Workers, PopTask(w)
      PROVE  Born' = Born
  <2> DEFINE popped == [pc EXCEPT ![w] = "take"]
  <2>1. popped \in [Workers -> Places] /\ pc[w] = "test"
    BY <1>5 DEF PopTask, Control, TypeOK, Places
  <2>2. \A v \in Workers : \/ pc'[v] = popped[v]
                           \/ popped[v] = "wait" /\ pc'[v] = "wake"
    BY <1>5, <2>1, NotifyOneOutcome DEF PopTask
  <2> QED BY <2>1, <2>2 DEF Born
<1>6. ASSUME NEW w \in Workers, Worker(w) \/ SpuriousWakeup(w), ~PopTask(w)
      PROVE  Born' = Born
  <2>1. PICK from, to \in Places \ {"unborn"} : Move(w, from, to)
    BY <1>6 DEF Worker, TestLoop, EnterGetTask, FindNothing, Wait, Relock, GiveUp,
                BeginTask, FinishTask, EndTask, SpuriousWakeup, Places
  <2> QED BY <2>1 DEF Move, Control, TypeOK, Born
<1> QED BY <1>1, <1>2, <1>3, <1>4, <1>5, <1>6 DEF Next, Destructor, Worker

\* A step that changes nothing TaskPool sees is a stuttering step of it.
LEMMA MapStutter ==
  ASSUME UNCHANGED <<Born, Taking, Running, Lagging, task, future,
                     idle_thread_num, is_closed, task_queue>>
  PROVE  UNCHANGED Promise!poolVars
<1>1. Promise!poolVars =
        <<Cardinality(Born), idle_thread_num, is_closed, task_queue, Held(Taking),
          Held(Running), Held(Lagging), Ready>>
  BY Mapping
<1>2. Promise!poolVars' =
        <<Cardinality(Born'), idle_thread_num', is_closed', task_queue',
          {task'[w] : w \in Taking'}, {task'[w] : w \in Running'},
          {task'[w] : w \in Lagging'}, {t \in Tasks : future'[t] = "ready"}>>
  BY DEF Promise!poolVars, Born
<1> QED BY <1>1, <1>2 DEF Held, Ready

LEMMA MapStep ==
  ASSUME IInv, [Next]_vars
  PROVE  [Promise!PoolNext]_(Promise!poolVars)
<1> USE DEF IInv
<1>1. CASE UNCHANGED vars
  BY <1>1, MapStutter DEF vars, Born, Taking, Running, Lagging
<1>2. CASE SetThread
  <2>1. /\ UNCHANGED <<Taking, Running, Lagging, task, task_queue, future>>
        /\ Taking = {} /\ Running = {} /\ Lagging = {} /\ Queued = {} /\ Ready = {}
    BY <1>2, BystanderStep
       DEF Bystander, SetThread, Control, MainInv, Holding, Queued, Ready
  <2>2. Cardinality(Born) = 1
    <3>1. Born = {0}
      BY <1>2, WorkersFinite DEF SetThread, Control, MainInv, Born
    <3> QED BY <3>1, FS_Singleton
  <2>3. Cardinality(Born') = 1 + ThreadNum
    <3>1. Born' = 0..ThreadNum
      BY <1>2 DEF SetThread, Control, MainInv, Born, Workers
    <3>2. Cardinality(0..ThreadNum) = ThreadNum - 0 + 1
      BY FS_Interval, ThreadNumAssumption
    <3> QED BY <3>1, <3>2, ThreadNumAssumption
  <2>4. Promise!Submitted = {}
    BY <2>1, Mapping DEF Held
  <2>5. Promise!SetThread
    BY <1>2, <2>1, <2>2, <2>3, <2>4
       DEF Promise!SetThread, SetThread, Control, MainInv, Born, Ready
  <2> QED BY <2>5 DEF Promise!PoolNext
<1>3. ASSUME NEW t \in Tasks, AddTask(t)
      PROVE  Promise!PoolNext
  <2>1. UNCHANGED <<Born, Taking, Running, Lagging, Ready>>
    <3>1. \A w \in Workers : pc'[w] = pc[w] \/ (pc[w] = "wait" /\ pc'[w] = "wake")
      BY <1>3, NotifyOneOutcome DEF AddTask, Control, TypeOK
    <3>2. Ready' = Ready
      BY <1>3 DEF AddTask, Ready, Control, TypeOK
    <3> QED BY <3>1, <3>2 DEF Born, Taking, Running, Lagging
  <2>2. t \notin Queued \cup Held(Taking) \cup Held(Running) \cup Ready
    BY <1>3 DEF AddTask, TaskInOnePlace, Held, Ready
  <2>3. Promise!AddTask(t)
    BY <1>3, <2>1, <2>2, Mapping
       DEF AddTask, Promise!AddTask, Control, MainInv, Born, Ready
  <2> QED BY <2>3 DEF Promise!PoolNext
<1>4. CASE StoreClosed
  <2>1. Promise!Close
    BY <1>4 DEF StoreClosed, Promise!Close, Control, MainInv, Taking, Running, Lagging
  <2> QED BY <2>1 DEF Promise!PoolNext
<1>5. CASE Join
  <2>1. Taking = {} /\ Running = {} /\ Lagging = {} /\ Holding = {}
    BY <1>5 DEF Join, Taking, Running, Lagging, Holding
  <2>2. UNCHANGED <<Taking, Running, Lagging>>
    BY <1>5 DEF Join, Taking, Running, Lagging
  <2>3. is_closed
    BY <1>5 DEF Join, Control, MainInv
  <2>4. Promise!Discard
    BY <1>5, <2>1, <2>2, <2>3, Mapping DEF Join, Promise!Discard, Held
  <2> QED BY <2>4 DEF Promise!PoolNext
<1>6. CASE Bystander /\ ~SetThread /\ ~StoreClosed
  <2>1. UNCHANGED <<Taking, Running, Lagging, task, task_queue, future>>
    BY <1>6, BystanderStep
  <2>2. ~SetThread /\ Born' = Born
    BY <1>6, BornUnchanged DEF Bystander
  <2>3. UNCHANGED <<is_closed, idle_thread_num>>
    BY <1>6 DEF Bystander, NotifyClosed, TestLoop, EnterGetTask, FindNothing,
                Wait, Relock, GiveUp, SpuriousWakeup
  <2> QED BY <2>1, <2>2, <2>3, MapStutter
<1>7. ASSUME NEW w \in Workers, PopTask(w)
      PROVE  Promise!PoolNext
  <2> DEFINE popped == [pc EXCEPT ![w] = "take"]
             t == Head(task_queue)
  <2>1. popped \in [Workers -> Places] /\ pc[w] = "test"
    BY <1>7 DEF PopTask, Control, TypeOK, Places
  <2>2. \A v \in Workers : \/ pc'[v] = popped[v]
                           \/ popped[v] = "wait" /\ pc'[v] = "wake"
    BY <1>7, <2>1, NotifyOneOutcome DEF PopTask
  <2>3. /\ Taking' = Taking \cup {w}
        /\ UNCHANGED <<Running, Lagging>>
        /\ w \in Born \ Holding
    BY <2>1, <2>2 DEF Taking, Running, Lagging, Holding, Born
  <2>4. /\ task_queue # <<>> /\ task_queue' = Tail(task_queue)
        /\ task' = [task EXCEPT ![w] = t]
        /\ task \in [Workers -> Tasks \cup {None}]
        /\ UNCHANGED <<is_closed, idle_thread_num, future>>
    BY <1>7 DEF PopTask, Control, TypeOK
  <2>5. Born' = Born
    BY <1>7, BornUnchanged DEF PopTask, SetThread, Control, MainInv
  <2>6. /\ {task'[v] : v \in Taking'} = Held(Taking) \cup {t}
        /\ {task'[v] : v \in Running'} = Held(Running)
        /\ {task'[v] : v \in Lagging'} = Held(Lagging)
    BY <2>3, <2>4 DEF Held, Holding, Taking, Running, Lagging
  <2>7. Cardinality(Held(Holding)) < Cardinality(Born)
    <3>1. Holding \in SUBSET Born /\ Born \in SUBSET Workers
      BY DEF Holding, Taking, Running, Lagging, Born
    <3>2. IsFiniteSet(Holding) /\ IsFiniteSet(Born)
      BY <3>1, WorkersFinite, FS_Subset
    <3>3. /\ IsFiniteSet(Held(Holding))
          /\ Cardinality(Held(Holding)) <= Cardinality(Holding)
      <4> DEFINE f == [v \in Holding |-> task[v]]
      <4>1. f \in Surjection(Holding, Held(Holding))
        BY DEF Surjection, Held
      <4> QED BY <3>2, <4>1, FS_Surjection
    <3>4. Cardinality(Holding \cup {w}) = Cardinality(Holding) + 1
      BY <2>3, <3>1, CountWorkers
    <3>5. Cardinality(Holding \cup {w}) <= Cardinality(Born)
      BY <2>3, <3>1, <3>2, FS_Subset
    <3>6. /\ Cardinality(Holding) \in Nat /\ Cardinality(Born) \in Nat
          /\ Cardinality(Held(Holding)) \in Nat
      BY <3>2, <3>3, FS_CardinalityType
    <3> QED BY <3>3, <3>4, <3>5, <3>6
  <2> HIDE DEF t, popped
  <2>8. Promise!TakeTask
    BY <2>3, <2>4, <2>5, <2>6, <2>7, Mapping, SameCardinality
       DEF Promise!TakeTask, Born, Held, t
  <2> QED BY <2>8 DEF Promise!PoolNext
<1>8. ASSUME NEW w \in Workers, BeginTask(w)
      PROVE  Promise!PoolNext
  <2>1. /\ w \in Taking /\ Taking' = Taking \ {w} /\ Running' = Running \cup {w}
        /\ Lagging' = Lagging /\ w \in Holding /\ Taking \subseteq Holding
    BY <1>8 DEF BeginTask, Move, Control, TypeOK, Taking, Running, Lagging, Holding
  <2>2. /\ UNCHANGED <<task_queue, is_closed, task, future>>
        /\ idle_thread_num' = idle_thread_num - 1
    BY <1>8 DEF BeginTask
  <2>3. Born' = Born
    BY <1>8, BornUnchanged
       DEF BeginTask, Move, SetThread, Control, MainInv, Holding, Taking
  <2>4. task[w] \in Tasks /\ \A v \in Taking \ {w} : task[v] # task[w]
    BY <2>1 DEF TaskInOnePlace
  <2>5. PICK t \in Tasks : t = task[w]
    BY <2>4
  <2>6. Promise!BeginTask(t)
    BY <2>5, <2>1, <2>2, <2>3, <2>4 DEF Promise!BeginTask, Born, Held, Ready
  <2> QED BY <2>6 DEF Promise!PoolNext
<1>9. ASSUME NEW w \in Workers, FinishTask(w)
      PROVE  Promise!PoolNext
  <2>1. /\ w \in Running /\ Running' = Running \ {w} /\ Lagging' = Lagging \cup {w}
        /\ Taking' = Taking /\ w \in Holding /\ Running \subseteq Holding
    BY <1>9 DEF FinishTask, Move, Control, TypeOK, Taking, Running, Lagging, Holding
  <2>2. /\ UNCHANGED <<task_queue, is_closed, task, idle_thread_num>>
        /\ future' = [future EXCEPT ![task[w]] = "ready"]
        /\ future \in [Tasks -> {"none", "pending", "ready"}]
    BY <1>9 DEF FinishTask, Control, TypeOK
  <2>3. Born' = Born
    BY <1>9, BornUnchanged
       DEF FinishTask, Move, SetThread, Control, MainInv, Holding, Running
  <2>4. task[w] \in Tasks /\ \A v \in Running \ {w} : task[v] # task[w]
    BY <2>1 DEF TaskInOnePlace
  <2>5. {t \in Tasks : future'[t] = "ready"} = Ready \cup {task[w]}
    BY <2>2, <2>4 DEF Ready
  <2>6. PICK t \in Tasks : t = task[w]
    BY <2>4
  <2>7. Promise!FinishTask(t)
    BY <2>6, <2>1, <2>2, <2>3, <2>4, <2>5 DEF Promise!FinishTask, Born, Held, Ready
  <2> QED BY <2>7 DEF Promise!PoolNext
<1>10. ASSUME NEW w \in Workers, EndTask(w)
       PROVE  Promise!PoolNext
  <2>1. /\ w \in Lagging /\ Lagging' = Lagging \ {w} /\ Running' = Running
        /\ Taking' = Taking /\ w \in Holding /\ Lagging \subseteq Holding
        /\ w \notin Taking \cup Running
    BY <1>10 DEF EndTask, Move, Control, TypeOK, Taking, Running, Lagging, Holding
  <2>2. /\ UNCHANGED <<task_queue, is_closed, future>>
        /\ idle_thread_num' = idle_thread_num + 1
        /\ task' = [task EXCEPT ![w] = None]
        /\ task \in [Workers -> Tasks \cup {None}]
    BY <1>10 DEF EndTask, Control, TypeOK
  <2>3. Born' = Born
    BY <1>10, BornUnchanged
       DEF EndTask, Move, SetThread, Control, MainInv, Holding, Lagging
  <2>4. task[w] \in Tasks /\ \A v \in Lagging \ {w} : task[v] # task[w]
    BY <2>1 DEF TaskInOnePlace
  <2>5. /\ {task'[v] : v \in Taking'} = Held(Taking)
        /\ {task'[v] : v \in Running'} = Held(Running)
        /\ {task'[v] : v \in Lagging'} = Held(Lagging) \ {task[w]}
        /\ task[w] \in Held(Lagging)
    BY <2>1, <2>2, <2>4 DEF Held, Taking, Running, Lagging
  <2>6. PICK t \in Tasks : t = task[w]
    BY <2>4
  <2>7. Promise!EndTask(t)
    BY <2>6, <2>2, <2>3, <2>5 DEF Promise!EndTask, Born, Held, Ready
  <2> QED BY <2>7 DEF Promise!PoolNext
<1> QED BY <1>1, <1>2, <1>3, <1>4, <1>5, <1>6, <1>7, <1>8, <1>9, <1>10
        DEF Next, Destructor, Worker, Bystander

(***************************************************************************)
(* The pool with its mutex and its condition variable keeps the promises   *)
(* of TaskPool, on which the model of the queries is built.                *)
(***************************************************************************)
THEOREM PoolImplementsTaskPool == Spec => ImplementsTaskPool
<1>1. Init => Promise!PoolInit
  BY MapInit
<1>2. IInv /\ [Next]_vars => [Promise!PoolNext]_(Promise!poolVars)
  BY MapStep
<1> QED BY <1>1, <1>2, IInvHolds, PTL DEF Spec, ImplementsTaskPool, Promise!PoolSpec
=============================================================================
