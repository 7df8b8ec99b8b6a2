---------------------------------- MODULE Pump ----------------------------------
(***************************************************************************)
(* The event loop of the C++ runtime (pump.cc) and the threads around it.  *)
(* Application threads post events, wait until the pump is idle, pause it, *)
(* and stop it.  The pump's own code runs on several threads (its main     *)
(* loop and one thread per coroutine) but on one at a time, by the         *)
(* contract of module Context: it has a single program counter here.       *)
(*                                                                         *)
(* What an event does is left open within what the code allows: it may     *)
(* defer an event, arm or remove a timer, block, release a blocked event,  *)
(* and change what the predicates of deferred events depend on.  Which     *)
(* ports and components are involved in blocking is the subject of module  *)
(* Blocking.                                                               *)
(*                                                                         *)
(* The pump's mutex is taken and dropped within one action by application  *)
(* threads; locked says whether the pump's side holds it.                  *)
(***************************************************************************)
EXTENDS Naturals, Sequences, Lists

CONSTANTS
  App,              \* application threads
  Event,            \* events the application posts, each at most once
  Deferred,         \* events that are deferred, each at most once
  Timer,            \* timers, each armed at most once
  Blocker,          \* the events that may block, each at most once
  Ops,              \* what application threads do besides posting
  Promises,         \* what the application promises, see Post, Stop and Return
  WaitForTimeouts,  \* pump::wait_for_timeouts
  None

ASSUME PumpAssumption ==
  /\ Blocker \subseteq Event
  /\ Ops \subseteq {"wait", "stop", "pause"}
  /\ Promises \subseteq {"posts_precede_stop", "waits_end_before_stop", "cancelling_is_pruned"}
  /\ WaitForTimeouts \in BOOLEAN
  /\ None \notin Event \cup Deferred \cup Timer
  /\ Event \cap Deferred = {} /\ Event \cap Timer = {} /\ Deferred \cap Timer = {}

VARIABLES
  running, paused, executing,   \* pump::running, paused, executing
  queue, deferred,              \* pump::queue, pump::deferred
  stale,       \* the events of deferred whose predicate is false
  timers,      \* pump::timers, in the order of their deadlines
  due,         \* how many deadlines, from the front, have passed
  locked,      \* the pump's side holds pump::mutex
  cwait,       \* the pump's side waits on pump::condition, not notified
  pc,          \* where the pump's side is
  seen,        \* running as it was when the pump's side last had the mutex
  now,         \* the timers that had expired at the last look at the clock
  cur,         \* the event being executed
  site,        \* where worker executes it: "queue", "deferred" or "timer"
  suspended,   \* blocked events, each with its site
  switch,      \* pump::switch_context: released events to go on with
  parked,      \* the coroutine that exited blocks in its context again
  apc,         \* program counter of each application thread
  posted, returned, fresh  \* events posted, events done, ids not used yet

pumpVars == <<running, paused, executing, queue, deferred, stale>>
timerVars == <<timers, due, now>>
loopVars == <<locked, cwait, pc, seen, cur, site, parked>>
blockVars == <<suspended, switch>>
history == <<posted, returned, fresh>>
vars == <<pumpVars, timerVars, loopVars, blockVars, apc, history>>

Init ==
  /\ running = TRUE /\ paused = FALSE /\ executing = FALSE
  /\ queue = << >> /\ deferred = << >> /\ stale = {}
  /\ timers = << >> /\ due = 0 /\ now = {}
  /\ locked = FALSE /\ cwait = FALSE
  /\ pc = "main" /\ seen = TRUE
  /\ cur = None /\ site = None /\ parked = TRUE
  /\ suspended = << >> /\ switch = << >>
  /\ apc = [a \in App |-> "idle"]
  /\ posted = {} /\ returned = {} /\ fresh = Deferred \cup Timer \cup Blocker

\* The timers whose deadline has passed.
Expired == {timers[k] : k \in 1..due}

\* Leave the mutex.
Unlock == locked' = FALSE /\ seen' = running

-------------------------------------------------------------------------------
(***************************************************************************)
(* The application's side.  Each action takes and drops the mutex.         *)
(***************************************************************************)

\* Mutant: operator () (event) does not notify the condition.
PostNoNotify(a, e) ==
  /\ apc[a] = "idle" /\ ~locked
  /\ e \notin posted
  /\ "posts_precede_stop" \in Promises => running
  /\ queue' = Append(queue, e)
  /\ posted' = posted \cup {e}
  /\ UNCHANGED <<running, paused, executing, deferred, stale, timerVars, loopVars, blockVars,
                 apc, returned, fresh>>

\* operator () (event)
Post(a, e) ==
  /\ apc[a] = "idle" /\ ~locked
  /\ e \notin posted
  /\ "posts_precede_stop" \in Promises => running
  /\ queue' = Append(queue, e)
  /\ cwait' = FALSE
  /\ posted' = posted \cup {e}
  /\ UNCHANGED <<running, paused, executing, deferred, stale, timerVars, locked, pc, seen, cur,
                 site, parked, blockVars, apc, returned, fresh>>

\* The predicate of pump::wait.
Idle ==
  /\ ~executing
  /\ queue = << >>
  /\ deferred = << >>
  /\ WaitForTimeouts => timers = << >>

\* wait returns at once, or blocks on idle.
Wait(a) ==
  /\ "wait" \in Ops
  /\ "waits_end_before_stop" \in Promises => running
  /\ apc[a] = "idle" /\ ~locked
  /\ apc' = [apc EXCEPT ![a] = IF Idle THEN "waited" ELSE "waiting"]
  /\ UNCHANGED <<pumpVars, timerVars, loopVars, blockVars, history>>

\* Notified: test the predicate again.
WaitAgain(a) ==
  /\ apc[a] = "notified" /\ ~locked
  /\ apc' = [apc EXCEPT ![a] = IF Idle THEN "waited" ELSE "waiting"]
  /\ UNCHANGED <<pumpVars, timerVars, loopVars, blockVars, history>>

\* The caller of wait goes on.
WaitReturn(a) ==
  /\ apc[a] = "waited"
  /\ apc' = [apc EXCEPT ![a] = "idle"]
  /\ UNCHANGED <<pumpVars, timerVars, loopVars, blockVars, history>>

\* Mutant: stop does not notify the condition.
StopNoNotify(a) ==
  /\ "stop" \in Ops
  /\ "waits_end_before_stop" \in Promises =>
       \A b \in App : apc[b] \notin {"waiting", "notified", "waited"}
  /\ apc[a] = "idle" /\ ~locked /\ running
  /\ running' = FALSE
  /\ apc' = [apc EXCEPT ![a] = "stopping"]
  /\ UNCHANGED <<paused, executing, queue, deferred, stale, timerVars, loopVars, blockVars,
                 history>>

\* stop: only the first call waits for the task.
Stop(a) ==
  /\ "stop" \in Ops
  /\ "waits_end_before_stop" \in Promises =>
       \A b \in App : apc[b] \notin {"waiting", "notified", "waited"}
  /\ apc[a] = "idle" /\ ~locked /\ running
  /\ running' = FALSE
  /\ cwait' = FALSE
  /\ apc' = [apc EXCEPT ![a] = "stopping"]
  /\ UNCHANGED <<paused, executing, queue, deferred, stale, timerVars, locked, pc, seen, cur,
                 site, parked, blockVars, history>>

\* task.wait () returns.
StopReturn(a) ==
  /\ apc[a] = "stopping" /\ pc = "ended"
  /\ apc' = [apc EXCEPT ![a] = "stopped"]
  /\ UNCHANGED <<pumpVars, timerVars, loopVars, blockVars, history>>

Pause(a) ==
  /\ "pause" \in Ops
  /\ apc[a] = "idle" /\ ~locked /\ ~paused
  /\ paused' = TRUE
  /\ UNCHANGED <<running, executing, queue, deferred, stale, timerVars, loopVars, blockVars, apc,
                 history>>

Resume(a) ==
  /\ "pause" \in Ops
  /\ apc[a] = "idle" /\ ~locked /\ paused
  /\ paused' = FALSE
  /\ cwait' = FALSE
  /\ UNCHANGED <<running, executing, queue, deferred, stale, timerVars, locked, pc, seen, cur,
                 site, parked, blockVars, apc, history>>

-------------------------------------------------------------------------------
(***************************************************************************)
(* operator () (): the main loop, which calls the coroutine and is back    *)
(* when a coroutine exits.                                                 *)
(***************************************************************************)

\* Mutant: the main loop does not look at the queue.
MainTestNoQueue ==
  /\ pc = "main" /\ ~locked
  /\ locked' = TRUE
  /\ pc' = IF running THEN "gate" ELSE "finish"
  /\ UNCHANGED <<pumpVars, timerVars, cwait, seen, cur, site, parked, blockVars, apc,
                 history>>

\* while (running || queue.size () || collateral_blocked.size ())
MainTest ==
  /\ pc = "main" /\ ~locked
  /\ locked' = TRUE
  /\ pc' = IF running \/ queue # << >> THEN "gate" ELSE "finish"
  /\ UNCHANGED <<pumpVars, timerVars, cwait, seen, cur, site, parked, blockVars, apc,
                 history>>

\* condition.wait (lock, [this] {return !paused;})
GateWait ==
  /\ pc = "gate" /\ locked /\ paused
  /\ Unlock
  /\ cwait' = TRUE
  /\ UNCHANGED <<pumpVars, timerVars, pc, cur, site, parked, blockVars, apc, history>>

GateWake ==
  /\ pc = "gate" /\ ~locked /\ ~cwait
  /\ locked' = TRUE
  /\ UNCHANGED <<pumpVars, timerVars, cwait, pc, seen, cur, site, parked, blockVars, apc,
                 history>>

\* coroutines.back ().call (zero): see Release in module Context.  A coroutine
\* that exited and is not back in do_block cannot be released: it throws.
GateCall ==
  /\ pc = "gate" /\ locked /\ ~paused
  /\ Unlock
  /\ pc' = IF parked THEN "switch" ELSE "terminate"
  /\ UNCHANGED <<pumpVars, timerVars, cwait, cur, site, parked, blockVars, apc, history>>

\* The assertions at the end: the queue is empty and one coroutine is left.
MainFinish ==
  /\ pc = "finish"
  /\ Unlock
  /\ pc' = IF queue = << >> /\ DOMAIN suspended = {} THEN "ended" ELSE "assert"
  /\ UNCHANGED <<pumpVars, timerVars, cwait, cur, site, parked, blockVars, apc, history>>

\* The thread of the coroutine that exited gets back to do_block.
Park ==
  /\ ~parked
  /\ parked' = TRUE
  /\ UNCHANGED <<pumpVars, timerVars, locked, cwait, pc, seen, cur, site, blockVars, apc,
                 history>>

-------------------------------------------------------------------------------
(***************************************************************************)
(* The function of a coroutine (create_context).                           *)
(***************************************************************************)

\* context_switch with something to switch to: the released event goes on in
\* its own coroutine, and the coroutine that switched is finished.
ContextSwitch ==
  /\ pc = "switch" /\ switch # << >>
  /\ pc' = "exec"
  /\ cur' = Head(switch)
  /\ site' = suspended[Head(switch)]
  /\ switch' = Tail(switch)
  /\ suspended' = [e \in DOMAIN suspended \ {Head(switch)} |-> suspended[e]]
  /\ UNCHANGED <<pumpVars, timerVars, locked, cwait, seen, parked, apc, history>>

\* while (running || queue.size () || timers_expired (now)) is evaluated without
\* the mutex: running may be the value seen before stop changed it.
\* exit () releases zero: the main loop goes on, the coroutine's thread as well.
LoopTest ==
  /\ pc = "switch" /\ switch = << >>
  /\ \E r \in {running, seen} :
       IF r \/ queue # << >> \/ due > 0
       THEN pc' = "worker" /\ UNCHANGED parked
       ELSE pc' = "main" /\ parked' = FALSE
  /\ UNCHANGED <<pumpVars, timerVars, locked, cwait, seen, cur, site, blockVars, apc,
                 history>>

-------------------------------------------------------------------------------
(***************************************************************************)
(* The worker function.                                                    *)
(***************************************************************************)
WorkP == queue # << >> \/ deferred # << >> \/ ~running

\* Mutant: idle.notify_one wakes one of the callers of wait only.
WorkerLockNotifyOne ==
  /\ pc = "worker" /\ ~locked
  /\ LET nothing == queue = << >> /\ deferred = << >>
         waiting == {a \in App : apc[a] = "waiting"} IN
     /\ IF nothing /\ waiting # {}
        THEN \E a \in waiting : apc' = [apc EXCEPT ![a] = "notified"]
        ELSE UNCHANGED apc
     /\ IF nothing /\ running
        THEN pc' = "condition" /\ Unlock /\ cwait' = TRUE
        ELSE pc' = "pop" /\ locked' = TRUE /\ UNCHANGED <<cwait, seen>>
  /\ UNCHANGED <<pumpVars, timerVars, cur, site, parked, blockVars, history>>

\* Take the mutex; with nothing to do, wake the callers of wait and wait.
WorkerLock ==
  /\ pc = "worker" /\ ~locked
  /\ LET nothing == queue = << >> /\ deferred = << >> IN
     /\ apc' = [a \in App |-> IF nothing /\ apc[a] = "waiting" THEN "notified" ELSE apc[a]]
     /\ IF nothing /\ running
        THEN pc' = "condition" /\ Unlock /\ cwait' = TRUE
        ELSE pc' = "pop" /\ locked' = TRUE /\ UNCHANGED <<cwait, seen>>
  /\ UNCHANGED <<pumpVars, timerVars, cur, site, parked, blockVars, history>>

\* condition.wait or wait_until returns when there is work or a timer expired.
WorkerWake ==
  /\ pc = "condition" /\ ~locked
  /\ ~cwait \/ due > 0
  /\ IF WorkP \/ due > 0
     THEN pc' = "pop" /\ locked' = TRUE /\ cwait' = FALSE
     ELSE pc' = "condition" /\ locked' = FALSE /\ cwait' = TRUE
  /\ UNCHANGED <<pumpVars, timerVars, seen, cur, site, parked, blockVars, apc, history>>

\* A wake-up of the condition that nobody asked for.
Spurious ==
  /\ cwait
  /\ cwait' = FALSE
  /\ UNCHANGED <<pumpVars, timerVars, locked, pc, seen, cur, site, parked, blockVars, apc,
                 history>>

\* Mutant: execute does not say that it is executing.
ExecuteSilently(e, where) ==
  /\ executing' = FALSE
  /\ Unlock
  /\ pc' = "exec"
  /\ cur' = e
  /\ site' = where

\* Mutant: execute keeps the mutex during the call of f.
ExecuteLocked(e, where) ==
  /\ executing' = TRUE
  /\ UNCHANGED <<locked, seen>>
  /\ pc' = "exec"
  /\ cur' = e
  /\ site' = where

\* execute (f, lock): up to the call of f.
Execute(e, where) ==
  /\ executing' = TRUE
  /\ Unlock
  /\ pc' = "exec"
  /\ cur' = e
  /\ site' = where

\* Mutant: once stopped, worker discards what is left in the queue.
WorkerPopDiscard ==
  /\ pc = "pop"
  /\ IF queue # << >> /\ running
     THEN Execute(Head(queue), "queue") /\ queue' = Tail(queue)
     ELSE pc' = "defer" /\ queue' = << >> /\ UNCHANGED <<executing, locked, seen, cur, site>>
  /\ UNCHANGED <<running, paused, deferred, stale, timerVars, cwait, parked, blockVars, apc, history>>

\* The front of the queue is executed.
WorkerPop ==
  /\ pc = "pop"
  /\ IF queue # << >>
     THEN Execute(Head(queue), "queue") /\ queue' = Tail(queue)
     ELSE pc' = "defer" /\ UNCHANGED <<executing, locked, seen, cur, site, queue>>
  /\ UNCHANGED <<running, paused, deferred, stale, timerVars, cwait, parked, blockVars, apc, history>>

\* The front of deferred runs when the queue is empty and its predicate holds; one
\* whose predicate does not hold stays where it is.  Then look at the clock.
WorkerDefer ==
  /\ pc = "defer"
  /\ IF queue = << >> /\ deferred # << >> /\ Head(deferred) \notin stale
     THEN Execute(Head(deferred), "deferred") /\ deferred' = Tail(deferred)
          /\ UNCHANGED now
     ELSE /\ pc' = "timers"
          /\ now' = Expired
          /\ UNCHANGED <<executing, locked, seen, cur, site, deferred>>
  /\ UNCHANGED <<running, paused, queue, stale, timers, due, cwait, parked, blockVars, apc,
                 history>>

\* while (timers_expired (now))
WorkerTimers ==
  /\ pc = "timers"
  /\ IF timers # << >> /\ Head(timers) \in now
     THEN /\ Execute(Head(timers), "timer")
          /\ timers' = Tail(timers)
          /\ due' = due - 1
     ELSE pc' = "switch" /\ Unlock /\ UNCHANGED <<executing, cur, site, timers, due>>
  /\ UNCHANGED <<running, paused, queue, deferred, stale, now, cwait, parked, blockVars, apc, history>>

-------------------------------------------------------------------------------
(***************************************************************************)
(* What the event that is being executed does, without the mutex.          *)
(***************************************************************************)

\* pump::defer
Defer(d) ==
  /\ pc = "exec" /\ d \in fresh \cap Deferred
  /\ deferred' = Append(deferred, d)
  /\ fresh' = fresh \ {d}
  /\ UNCHANGED <<running, paused, executing, queue, stale, timerVars, loopVars, blockVars, apc,
                 posted, returned>>

\* pump::handle: the deadline is not before one that has passed already.
Handle(i) ==
  /\ pc = "exec" /\ i \in fresh \cap Timer
  /\ \E k \in due..Len(timers) : timers' = InsertAfter(timers, k, i)
  /\ fresh' = fresh \ {i}
  /\ UNCHANGED <<pumpVars, due, now, loopVars, blockVars, apc, posted, returned>>

\* pump::remove
Remove(i) ==
  /\ pc = "exec"
  /\ \E k \in 1..Len(timers) :
       /\ timers[k] = i
       /\ timers' = EraseAt(timers, k)
       /\ due' = IF k <= due THEN due - 1 ELSE due
  /\ UNCHANGED <<pumpVars, now, loopVars, blockVars, apc, history>>

\* Mutant: a coroutine that starts does not begin with context_switch.
BlockNoSwitch(unmet) ==
  /\ pc = "exec" /\ cur \in fresh \cap Blocker
  /\ suspended' = [e \in DOMAIN suspended \cup {cur} |->
                     IF e = cur THEN site ELSE suspended[e]]
  /\ pc' = "worker"
  /\ cur' = None /\ site' = None
  /\ unmet \subseteq Elements(deferred) /\ stale' = unmet
  /\ fresh' = fresh \ {cur}
  /\ UNCHANGED <<running, paused, executing, queue, deferred, timerVars, locked, cwait, seen, parked, switch,
                 apc, posted, returned>>

\* pump::block: a new coroutine starts; executing stays as it is, and so does
\* deferred, whatever the event has done to the predicates (unmet).
Block(unmet) ==
  /\ pc = "exec" /\ cur \in fresh \cap Blocker
  /\ suspended' = [e \in DOMAIN suspended \cup {cur} |->
                     IF e = cur THEN site ELSE suspended[e]]
  /\ pc' = "switch"
  /\ cur' = None /\ site' = None
  /\ unmet \subseteq Elements(deferred) /\ stale' = unmet
  /\ fresh' = fresh \ {cur}
  /\ UNCHANGED <<running, paused, executing, queue, deferred, timerVars, locked, cwait, seen, parked, switch,
                 apc, posted, returned>>

\* pump::release of a blocked event
ReleaseEvent(b) ==
  /\ pc = "exec" /\ b \in DOMAIN suspended \ Elements(switch)
  /\ switch' = Append(switch, b)
  /\ UNCHANGED <<pumpVars, timerVars, loopVars, suspended, apc, history>>

\* prune_deferred removes the events whose predicate is false.
Prune(gone) == Keep(deferred, Deferred \ gone)

\* Mutant: the wrapper of a port's event does not call prune_deferred.
LeftStaleNoPrune(unmet) == unmet \subseteq Elements(deferred)

\* What is false when an event returns.  The wrapper of a port's event ends with
\* prune_deferred, but a deferred statement need not end in one: it may change
\* the state after the last call of a port, or call none.
LeftStale(unmet) ==
  /\ unmet \subseteq Elements(deferred)
  /\ site # "deferred" \/ "cancelling_is_pruned" \in Promises => unmet = {}

\* The event has pruned what it cancelled (gone), but for what it cancelled last
\* (unmet), and returns to execute, which takes the mutex.
Return(gone, unmet) ==
  /\ pc = "exec" /\ ~locked
  /\ gone \subseteq Elements(deferred) /\ gone \cap unmet = {}
  /\ LeftStale(unmet)
  /\ deferred' = Prune(gone)
  /\ stale' = unmet
  /\ locked' = TRUE
  /\ executing' = FALSE
  /\ returned' = returned \cup {cur}
  /\ cur' = None /\ site' = None
  /\ IF site = "queue"
     THEN pc' = "defer" /\ UNCHANGED now
     ELSE /\ pc' = "timers"
          /\ now' = IF site = "timer" THEN now ELSE Expired
  /\ UNCHANGED <<running, paused, queue, timers, due, cwait, seen, parked, blockVars, apc,
                 posted, fresh>>

\* Time passes: the next deadline is reached.
Tick ==
  /\ due < Len(timers)
  /\ due' = due + 1
  /\ UNCHANGED <<pumpVars, timers, now, loopVars, blockVars, apc, history>>

\* Everything has been done.
Terminated ==
  /\ pc \in {"ended", "terminate", "assert"}
  /\ UNCHANGED vars

-------------------------------------------------------------------------------
AppNext(a) ==
  \/ \E e \in Event : Post(a, e)
  \/ Wait(a) \/ WaitAgain(a) \/ WaitReturn(a)
  \/ Stop(a) \/ StopReturn(a)
  \/ Pause(a) \/ Resume(a)

LoopNext ==
  \/ MainTest \/ GateWait \/ GateWake \/ GateCall \/ MainFinish
  \/ ContextSwitch \/ LoopTest
  \/ WorkerLock \/ WorkerWake \/ WorkerPop \/ WorkerDefer \/ WorkerTimers

EventNext ==
  \/ \E d \in Deferred : Defer(d)
  \/ \E i \in Timer : Handle(i) \/ Remove(i)
  \/ \E unmet \in SUBSET Deferred : Block(unmet)
  \/ \E b \in Blocker : ReleaseEvent(b)

Next ==
  \/ \E a \in App : AppNext(a)
  \/ LoopNext
  \/ EventNext
  \/ \E gone, unmet \in SUBSET Deferred : Return(gone, unmet)
  \/ Park \/ Spurious \/ Tick
  \/ Terminated

Spec == Init /\ [][Next]_vars

(***************************************************************************)
(* Fairness: the pump's threads go on when they can, an event's code ends, *)
(* time passes, and an application thread inside wait or stop goes on when *)
(* it can.  Nobody has to post, wait, stop or resume.                      *)
(***************************************************************************)
Fairness ==
  /\ WF_vars(LoopNext)
  /\ WF_vars(\E gone, unmet \in SUBSET Deferred : Return(gone, unmet))
  /\ WF_vars(Park)
  /\ WF_vars(Tick)
  /\ \A a \in App : SF_vars(WaitAgain(a)) /\ WF_vars(WaitReturn(a) \/ StopReturn(a))

FairSpec == Spec /\ Fairness

-------------------------------------------------------------------------------
(***************************************************************************)
(* Properties.                                                             *)
(***************************************************************************)

\* The type of every variable; the mutex is held where the code holds it.
TypeOK ==
  /\ {running, paused, executing, locked, cwait, seen, parked} \subseteq BOOLEAN
  /\ queue \in Seq(Event) /\ deferred \in Seq(Deferred) /\ timers \in Seq(Timer)
  /\ stale \subseteq Elements(deferred)
  /\ due \in 0..Len(timers) /\ now \subseteq Timer
  /\ pc \in {"main", "gate", "finish", "ended", "assert", "terminate", "switch", "worker",
             "condition", "pop", "defer", "timers", "exec"}
  /\ cur \in Event \cup Deferred \cup Timer \cup {None}
  /\ site \in {"queue", "deferred", "timer", None}
  /\ DOMAIN suspended \subseteq Blocker /\ Elements(switch) \subseteq DOMAIN suspended
  /\ apc \in [App -> {"idle", "waiting", "notified", "waited", "stopping", "stopped"}]
  /\ posted \subseteq Event
  /\ pc # "gate" => (locked <=> pc \in {"finish", "pop", "defer", "timers"})

\* The assertions at the end of operator () () hold, and the main loop never
\* releases a coroutine that is not blocked, which ends in std::terminate.
AssertionsHold == pc \notin {"assert", "terminate"}

\* stop drains the queue: when the task is done, so is every event posted.
StopDrains == pc = "ended" => posted \subseteq returned

\* A caller of wait is let go only while the pump does not execute an event.
WaitMeansIdle ==
  [][\A a \in App : apc[a] # "waited" /\ apc'[a] = "waited" => pc # "exec"]_vars

\* No wake-up of the pump is lost: an event that is posted is executed, if need
\* be up to where it blocks, whatever other events are blocked.
EventExecuted ==
  \A e \in Event : e \in posted ~> e \in returned \cup DOMAIN suspended \/ paused

\* A blocked event that is released goes on, also when the event that releases it
\* releases others or blocks itself.
ReleasedGoesOn == \A b \in Blocker : b \in Elements(switch) ~> cur = b

\* An event that is deferred is executed or, once its predicate is false, removed
\* from the queue, unless the pump is paused or stopped.
DeferredSettles ==
  \A d \in Deferred :
    d \in Elements(deferred) ~> d \notin Elements(deferred) \/ paused \/ ~running

\* No wake-up of a waiter is lost: every caller of wait returns.
WaitReturns == \A a \in App : apc[a] = "waiting" ~> apc[a] = "waited" \/ paused

\* stop returns, unless the pump was paused before it ran.
StopReturns == \A a \in App : apc[a] = "stopping" ~> apc[a] = "stopped" \/ paused
===============================================================================
