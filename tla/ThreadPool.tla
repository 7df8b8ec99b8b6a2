------------------------------ MODULE ThreadPool ------------------------------
(***************************************************************************)
(* The optional thread pool of the C++ runtime (thread-pool.cc).  Every    *)
(* pump and every thread-based coroutine context asks it for a thread with *)
(* std_async and later waits for the future it got.                        *)
(*                                                                         *)
(* Two kinds of thread run here: callers of std_async, and one worker      *)
(* thread per pool task.  They share the pool's mutex (idle_tasks_,        *)
(* tasks_) and one mutex per task (work_, promise_, running_).  async      *)
(* takes the pool's mutex and then a task's; worker takes its task's mutex *)
(* and then, in idle, the pool's: the opposite order.                      *)
(*                                                                         *)
(* An action is a stretch of code between two points where the thread has  *)
(* to acquire a mutex or where it calls out.                               *)
(***************************************************************************)
EXTENDS Naturals, Sequences, FiniteSets

CONSTANTS
  Caller,   \* threads that call std_async: application, pump and pool threads
  Task,     \* the task objects the pool may allocate
  Job,      \* units of work, each submitted at most once
  None      \* an empty work_, an unheld mutex

ASSUME ThreadPoolAssumption ==
  /\ None \notin Caller \cup Task \cup Job
  /\ Caller \cap Task = {}

VARIABLES
  poolMut,     \* pool::mut_: the thread that holds it
  idle_tasks,  \* pool::idle_tasks_
  tasks,       \* pool::tasks_, as a set
  taskMut,     \* task::mut_: the thread that holds it, per task
  work,        \* task::work_
  promise,     \* task::promise_, as the job whose future it feeds
  running,     \* task::running_
  waiting,     \* the worker is in con_.wait and has not been notified
  wpc,         \* program counter of task::worker
  current,     \* the local variable work of task::worker
  cpc,         \* program counter of a caller inside pool::async
  arg,         \* the job a caller is submitting
  target,      \* the task a caller has selected in pool::async
  futures,     \* futures a caller holds and has not waited for
  submitted,   \* jobs passed to std_async
  returned,    \* jobs whose function has returned, history
  ready,       \* jobs whose future is ready
  teardown     \* progress of ~pool

poolVars == <<poolMut, idle_tasks, tasks>>
taskVars == <<taskMut, work, promise, running, waiting, wpc, current>>
callerVars == <<cpc, arg, target, futures>>
history == <<submitted, returned, ready>>
vars == <<poolVars, taskVars, callerVars, history, teardown>>

Thread == Caller \cup Task

Init ==
  /\ poolMut = None
  /\ idle_tasks = << >>
  /\ tasks = {}
  /\ taskMut = [t \in Task |-> None]
  /\ work = [t \in Task |-> None]
  /\ promise = [t \in Task |-> None]
  /\ running = [t \in Task |-> FALSE]
  /\ waiting = [t \in Task |-> FALSE]
  /\ wpc = [t \in Task |-> "none"]
  /\ current = [t \in Task |-> None]
  /\ cpc = [c \in Caller |-> "idle"]
  /\ arg = [c \in Caller |-> None]
  /\ target = [c \in Caller |-> None]
  /\ futures = [c \in Caller |-> {}]
  /\ submitted = {}
  /\ returned = {}
  /\ ready = {}
  /\ teardown = "alive"

-------------------------------------------------------------------------------
(***************************************************************************)
(* pool::async, task::task and task::assign, run by a caller.              *)
(***************************************************************************)

\* A caller enters std_async with a job and waits for pool::mut_.
CallAsync(c, j) ==
  /\ teardown = "alive"
  /\ cpc[c] = "idle"
  /\ j \notin submitted
  /\ cpc' = [cpc EXCEPT ![c] = "lock_pool"]
  /\ arg' = [arg EXCEPT ![c] = j]
  /\ submitted' = submitted \cup {j}
  /\ UNCHANGED <<poolVars, taskVars, target, futures, returned, ready, teardown>>

\* idle_tasks_ is empty: allocate a task, whose thread starts at once.
AsyncNewTask(c, t) ==
  /\ cpc[c] = "lock_pool"
  /\ poolMut = None
  /\ idle_tasks = << >>
  /\ t \in Task \ tasks
  /\ poolMut' = c
  /\ tasks' = tasks \cup {t}
  /\ running' = [running EXCEPT ![t] = TRUE]
  /\ wpc' = [wpc EXCEPT ![t] = "enter"]
  /\ target' = [target EXCEPT ![c] = t]
  /\ cpc' = [cpc EXCEPT ![c] = "assign_new"]
  /\ UNCHANGED <<idle_tasks, taskMut, work, promise, waiting, current, arg,
                 futures, history, teardown>>

\* Otherwise take the task at the front, which stays in the queue for now.
AsyncIdleTask(c) ==
  /\ cpc[c] = "lock_pool"
  /\ poolMut = None
  /\ idle_tasks # << >>
  /\ poolMut' = c
  /\ target' = [target EXCEPT ![c] = Head(idle_tasks)]
  /\ cpc' = [cpc EXCEPT ![c] = "assign_idle"]
  /\ UNCHANGED <<idle_tasks, tasks, taskVars, arg, futures, history, teardown>>

\* Mutant: task::assign forgets con_.notify_one ().
AssignNoNotify(c) ==
  LET t == target[c] IN
  /\ cpc[c] \in {"assign_new", "assign_idle"}
  /\ taskMut[t] = None
  /\ work' = [work EXCEPT ![t] = arg[c]]
  /\ promise' = [promise EXCEPT ![t] = arg[c]]
  /\ cpc' = [cpc EXCEPT ![c] = IF cpc[c] = "assign_new" THEN "leave" ELSE "pop"]
  /\ UNCHANGED <<poolVars, taskMut, running, waiting, wpc, current, arg, target,
                 futures, history, teardown>>

\* task::assign, under the task's mutex; the caller still holds the pool's.
Assign(c) ==
  LET t == target[c] IN
  /\ cpc[c] \in {"assign_new", "assign_idle"}
  /\ taskMut[t] = None
  /\ work' = [work EXCEPT ![t] = arg[c]]
  /\ promise' = [promise EXCEPT ![t] = arg[c]]
  /\ waiting' = [waiting EXCEPT ![t] = FALSE]
  /\ cpc' = [cpc EXCEPT ![c] = IF cpc[c] = "assign_new" THEN "leave" ELSE "pop"]
  /\ UNCHANGED <<poolVars, taskMut, running, wpc, current, arg, target, futures,
                 history, teardown>>

\* Mutant: the task that was assigned stays in idle_tasks_.
PopForgotten(c) ==
  /\ cpc[c] = "pop"
  /\ cpc' = [cpc EXCEPT ![c] = "leave"]
  /\ UNCHANGED <<poolVars, taskVars, arg, target, futures, history, teardown>>

\* idle_tasks_.pop, only on the path that took an idle task.
Pop(c) ==
  /\ cpc[c] = "pop"
  /\ idle_tasks' = Tail(idle_tasks)
  /\ cpc' = [cpc EXCEPT ![c] = "leave"]
  /\ UNCHANGED <<poolMut, tasks, taskVars, arg, target, futures, history, teardown>>

\* The lock goes out of scope and the caller holds the future.
LeaveAsync(c) ==
  /\ cpc[c] = "leave"
  /\ poolMut' = None
  /\ futures' = [futures EXCEPT ![c] = @ \cup {arg[c]}]
  /\ cpc' = [cpc EXCEPT ![c] = "idle"]
  /\ arg' = [arg EXCEPT ![c] = None]
  /\ target' = [target EXCEPT ![c] = None]
  /\ UNCHANGED <<idle_tasks, tasks, taskVars, history, teardown>>

\* future::wait returns, in pump::stop and in context::do_finish.
WaitFuture(c, j) ==
  /\ cpc[c] = "idle"
  /\ j \in futures[c] \cap ready
  /\ futures' = [futures EXCEPT ![c] = @ \ {j}]
  /\ UNCHANGED <<poolVars, taskVars, cpc, arg, target, history, teardown>>

-------------------------------------------------------------------------------
(***************************************************************************)
(* task::worker, run by the task's own thread.                             *)
(***************************************************************************)

\* The worker gets its mutex at the start, after con_.wait, or after the job.
WorkerLock(t) ==
  /\ wpc[t] \in {"enter", "wait", "relock"}
  /\ wpc[t] = "wait" => ~waiting[t]
  /\ taskMut[t] = None
  /\ taskMut' = [taskMut EXCEPT ![t] = t]
  /\ wpc' = [wpc EXCEPT ![t] = IF wpc[t] = "relock" THEN "idle" ELSE "test"]
  /\ UNCHANGED <<poolVars, work, promise, running, waiting, current, callerVars,
                 history, teardown>>

\* while (running_ && !work_) con_.wait (lock)
WorkerWait(t) ==
  /\ wpc[t] = "test"
  /\ running[t] /\ work[t] = None
  /\ taskMut' = [taskMut EXCEPT ![t] = None]
  /\ waiting' = [waiting EXCEPT ![t] = TRUE]
  /\ wpc' = [wpc EXCEPT ![t] = "wait"]
  /\ UNCHANGED <<poolVars, work, promise, running, current, callerVars, history,
                 teardown>>

\* con_.wait may also return without a notification.
WorkerSpurious(t) ==
  /\ wpc[t] = "wait" /\ waiting[t]
  /\ waiting' = [waiting EXCEPT ![t] = FALSE]
  /\ UNCHANGED <<poolVars, taskMut, work, promise, running, wpc, current,
                 callerVars, history, teardown>>

\* Mutant: the test if (work_) is missing when running_ has been cleared.
WorkerTakeUntested(t) ==
  /\ wpc[t] = "test"
  /\ work[t] # None \/ ~running[t]
  /\ current' = [current EXCEPT ![t] = work[t]]
  /\ work' = [work EXCEPT ![t] = None]
  /\ taskMut' = [taskMut EXCEPT ![t] = None]
  /\ wpc' = [wpc EXCEPT ![t] = "run"]
  /\ UNCHANGED <<poolVars, promise, running, waiting, callerVars, history, teardown>>

\* Mutant: work_ is copied instead of swapped out.
WorkerTakeCopy(t) ==
  /\ wpc[t] = "test"
  /\ work[t] # None
  /\ current' = [current EXCEPT ![t] = work[t]]
  /\ taskMut' = [taskMut EXCEPT ![t] = None]
  /\ wpc' = [wpc EXCEPT ![t] = "run"]
  /\ UNCHANGED <<poolVars, work, promise, running, waiting, callerVars, history,
                 teardown>>

\* work_.swap (work); lock.unlock (): the job runs without any mutex.
WorkerTake(t) ==
  /\ wpc[t] = "test"
  /\ work[t] # None
  /\ current' = [current EXCEPT ![t] = work[t]]
  /\ work' = [work EXCEPT ![t] = None]
  /\ taskMut' = [taskMut EXCEPT ![t] = None]
  /\ wpc' = [wpc EXCEPT ![t] = "run"]
  /\ UNCHANGED <<poolVars, promise, running, waiting, callerVars, history, teardown>>

\* Mutant: the promise is set as soon as the work returns, before pool_.idle.
WorkerReturnSetValue(t) ==
  /\ wpc[t] = "run"
  /\ returned' = returned \cup {current[t]}
  /\ ready' = ready \cup {promise[t]}
  /\ wpc' = [wpc EXCEPT ![t] = "relock"]
  /\ UNCHANGED <<poolVars, taskMut, work, promise, running, waiting, current,
                 callerVars, submitted, teardown>>

\* The job returns; the worker goes on to lock.lock ().
WorkerReturn(t) ==
  /\ wpc[t] = "run"
  /\ returned' = returned \cup {current[t]}
  /\ wpc' = [wpc EXCEPT ![t] = "relock"]
  /\ UNCHANGED <<poolVars, taskMut, work, promise, running, waiting, current,
                 callerVars, submitted, ready, teardown>>

\* pool_.idle (this), holding the task's mutex.
WorkerIdle(t) ==
  /\ wpc[t] = "idle"
  /\ poolMut = None
  /\ idle_tasks' = Append(idle_tasks, t)
  /\ wpc' = [wpc EXCEPT ![t] = "set_value"]
  /\ UNCHANGED <<poolMut, tasks, taskMut, work, promise, running, waiting, current,
                 callerVars, history, teardown>>

\* promise_.set_value () and the end of work's scope.  The mutex is kept and
\* work_ is empty, so while (running_) is the test that ends the inner loop.
WorkerSetValue(t) ==
  /\ wpc[t] = "set_value"
  /\ ready' = ready \cup {promise[t]}
  /\ current' = [current EXCEPT ![t] = None]
  /\ wpc' = [wpc EXCEPT ![t] = "test"]
  /\ UNCHANGED <<poolVars, taskMut, work, promise, running, waiting, callerVars,
                 submitted, returned, teardown>>

\* ~task has cleared running_ and there is no work: the thread ends.
WorkerExit(t) ==
  /\ wpc[t] = "test"
  /\ ~running[t] /\ work[t] = None
  /\ taskMut' = [taskMut EXCEPT ![t] = None]
  /\ wpc' = [wpc EXCEPT ![t] = "exit"]
  /\ UNCHANGED <<poolVars, work, promise, running, waiting, current, callerVars,
                 history, teardown>>

-------------------------------------------------------------------------------
(***************************************************************************)
(* ~pool runs when the process exits, on a thread that has waited for every *)
(* future: pump::stop and context::do_finish wait before they return.      *)
(***************************************************************************)
AllWaitedFor ==
  \A c \in Caller : cpc[c] = "idle" /\ futures[c] = {}

\* The test of ~pool; the mutex is not taken.
PoolDestructor ==
  /\ teardown = "alive"
  /\ AllWaitedFor
  /\ teardown' = IF Len(idle_tasks) # Cardinality(tasks) THEN "abort" ELSE "tasks"
  /\ UNCHANGED <<poolVars, taskVars, callerVars, history>>

\* Mutant: ~task clears running_ without con_.notify_one ().
TaskDestructorNoNotify(t) ==
  /\ teardown = "tasks"
  /\ t \in tasks /\ running[t]
  /\ \A u \in tasks \ {t} : running[u] \/ wpc[u] = "exit"
  /\ taskMut[t] = None
  /\ running' = [running EXCEPT ![t] = FALSE]
  /\ UNCHANGED <<poolVars, taskMut, work, promise, waiting, wpc, current,
                 callerVars, history, teardown>>

\* ~task of one element of tasks_: clear running_, notify.
TaskDestructor(t) ==
  /\ teardown = "tasks"
  /\ t \in tasks /\ running[t]
  /\ \A u \in tasks \ {t} : running[u] \/ wpc[u] = "exit"
  /\ taskMut[t] = None
  /\ running' = [running EXCEPT ![t] = FALSE]
  /\ waiting' = [waiting EXCEPT ![t] = FALSE]
  /\ UNCHANGED <<poolVars, taskMut, work, promise, wpc, current, callerVars,
                 history, teardown>>

\* The last thread_.join () has returned.
PoolDestroyed ==
  /\ teardown = "tasks"
  /\ \A t \in tasks : wpc[t] = "exit"
  /\ teardown' = "destroyed"
  /\ UNCHANGED <<poolVars, taskVars, callerVars, history>>

\* The process is gone.
Terminated ==
  /\ teardown \in {"abort", "destroyed"}
  /\ UNCHANGED vars

-------------------------------------------------------------------------------
CallerNext(c) ==
  \/ \E j \in Job : CallAsync(c, j) \/ WaitFuture(c, j)
  \/ \E t \in Task : AsyncNewTask(c, t)
  \/ AsyncIdleTask(c)
  \/ Assign(c)
  \/ Pop(c)
  \/ LeaveAsync(c)

WorkerNext(t) ==
  \/ WorkerLock(t)
  \/ WorkerWait(t)
  \/ WorkerSpurious(t)
  \/ WorkerTake(t)
  \/ WorkerReturn(t)
  \/ WorkerIdle(t)
  \/ WorkerSetValue(t)
  \/ WorkerExit(t)

DestructorNext ==
  \/ PoolDestructor
  \/ \E t \in Task : TaskDestructor(t)
  \/ PoolDestroyed

Next ==
  \/ \E c \in Caller : CallerNext(c)
  \/ \E t \in Task : WorkerNext(t)
  \/ DestructorNext
  \/ Terminated

Spec == Init /\ [][Next]_vars

(***************************************************************************)
(* Fairness.  A thread that can go on does (weak fairness); a thread that   *)
(* wants a mutex which is free again and again gets it (strong fairness:   *)
(* spurious wake-ups let a worker take and drop its mutex for ever).  The  *)
(* work a task runs returns, as the pump's and the contexts' functions do. *)
(* No caller has to call std_async and no wake-up has to be spurious.      *)
(***************************************************************************)
Fairness ==
  /\ \A c \in Caller :
       /\ WF_vars((\E t \in Task : AsyncNewTask(c, t)) \/ AsyncIdleTask(c))
       /\ SF_vars(Assign(c))
       /\ WF_vars(Pop(c) \/ LeaveAsync(c))
       /\ WF_vars(\E j \in Job : WaitFuture(c, j))
  /\ \A t \in Task :
       /\ WF_vars(WorkerLock(t) \/ WorkerWait(t) \/ WorkerTake(t) \/ WorkerExit(t))
       /\ WF_vars(WorkerReturn(t) \/ WorkerSetValue(t))
       /\ SF_vars(WorkerIdle(t))
       /\ SF_vars(TaskDestructor(t))
  /\ WF_vars(PoolDestroyed)

FairSpec == Spec /\ Fairness

-------------------------------------------------------------------------------
(***************************************************************************)
(* Properties.                                                             *)
(***************************************************************************)

HoldsPool(c) == cpc[c] \in {"assign_new", "assign_idle", "pop", "leave"}

IsIdle(t) == \E i \in 1..Len(idle_tasks) : idle_tasks[i] = t

\* t is at the front of idle_tasks_, has been assigned, and is not yet popped.
BeingPopped(t) == \E c \in Caller : cpc[c] = "pop" /\ target[c] = t

\* The type of every variable; a mutex is only held by a thread that uses it.
TypeOK ==
  /\ poolMut \in Caller \cup {None}
  /\ idle_tasks \in Seq(Task)
  /\ tasks \in SUBSET Task
  /\ taskMut \in [Task -> Task \cup {None}]
  /\ work \in [Task -> Job \cup {None}]
  /\ promise \in [Task -> Job \cup {None}]
  /\ running \in [Task -> BOOLEAN]
  /\ waiting \in [Task -> BOOLEAN]
  /\ wpc \in [Task -> {"none", "enter", "test", "wait", "run", "relock", "idle",
                       "set_value", "exit"}]
  /\ current \in [Task -> Job \cup {None}]
  /\ cpc \in [Caller -> {"idle", "lock_pool", "assign_new", "assign_idle", "pop",
                         "leave"}]
  /\ arg \in [Caller -> Job \cup {None}]
  /\ target \in [Caller -> Task \cup {None}]
  /\ futures \in [Caller -> SUBSET Job]
  /\ submitted \in SUBSET Job
  /\ returned \in SUBSET Job
  /\ ready \in SUBSET Job
  /\ teardown \in {"alive", "tasks", "abort", "destroyed"}

\* The assertion in task::assign never fails: a caller that has selected a
\* task, new or idle, finds its work_ empty, whatever the worker has done since.
AssignSafe ==
  \A c \in Caller :
    cpc[c] \in {"assign_new", "assign_idle"} => work[target[c]] = None

\* async locks pool then task and worker locks task then pool, yet no caller
\* that holds the pool's mutex waits for the mutex of a task whose worker holds
\* it and waits for the pool's.
NoCircularWait ==
  \A c \in Caller :
    cpc[c] \in {"assign_new", "assign_idle"} => wpc[target[c]] # "idle"

\* idle_tasks_ lists no task twice, and none that has or executes work; the
\* task async has just assigned is the one exception, until it is popped.
IdleSound ==
  /\ \A i, j \in 1..Len(idle_tasks) : idle_tasks[i] = idle_tasks[j] => i = j
  /\ \A t \in Task :
       IsIdle(t) /\ ~BeingPopped(t) =>
         /\ t \in tasks
         /\ work[t] = None
         /\ wpc[t] \in {"set_value", "test", "wait", "exit"}

\* ~pool never aborts: once every future has been waited for, every task is
\* back in idle_tasks_.  It needs worker to call pool_.idle before set_value.
PoolNeverAborts == teardown # "abort"

\* A future that std_async returned becomes ready: no notification is lost
\* between assign and the worker's test of work_.
FutureReady == \A j \in Job : j \in submitted ~> j \in ready

\* ~pool returns once it has started: every thread_.join () does.
DestructorReturns == teardown = "tasks" ~> teardown = "destroyed"

-------------------------------------------------------------------------------
(***************************************************************************)
(* The pool implements StdAsync: work is executed once and its future is   *)
(* ready only after it returned.  A job executes while a worker is in it.  *)
(***************************************************************************)
executing == {current[t] : t \in {u \in Task : wpc[u] = "run"}}

Async == INSTANCE StdAsync WITH executing <- executing, returned <- returned, ready <- ready

\* Every step of the pool is a step of StdAsync or leaves it unchanged.
ImplementsStdAsync == Async!Spec
===============================================================================
