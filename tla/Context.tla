-------------------------------- MODULE Context --------------------------------
(***************************************************************************)
(* The thread-based coroutines of the C++ runtime (dzn/context.hh, used    *)
(* when boost's coroutines are not available).  Every context has a thread *)
(* of its own, a mutex, a condition variable and a state.  Control is      *)
(* handed from one thread to another: the one that yields releases its     *)
(* successor and blocks.  The pump keeps its lists of coroutines without a *)
(* lock, so it depends on one context running at a time.                   *)
(*                                                                         *)
(* Zero is the context without a thread that the pump's main thread uses:  *)
(* the main thread calls a context and waits on Zero until a context exits *)
(* by releasing Zero.  A thread is named by its context, the main thread   *)
(* by Zero.                                                                *)
(*                                                                         *)
(* An action is the code between two points where a thread acquires a      *)
(* mutex or waits.  Which operation the running thread performs next is    *)
(* the pump's business and is left open.                                   *)
(***************************************************************************)
EXTENDS Naturals, FiniteSets

CONSTANTS
  Ctx,    \* contexts with a thread
  Zero,   \* the context of the pump's main thread
  None    \* an unheld mutex, no context

ASSUME ContextAssumption == Zero \notin Ctx /\ None \notin Ctx \cup {Zero}

VARIABLES
  state,   \* context::state
  mutex,   \* context::mutex: the thread that holds it
  waits,   \* the context in whose condition a thread waits, not notified
  pc,      \* program counter of each thread
  arg,     \* the context the thread's current operation is about
  active   \* the context that control was handed to last

vars == <<state, mutex, waits, pc, arg, active>>

Thread == Ctx \cup {Zero}

Init ==
  /\ state = [x \in Thread |-> "INITIAL"]
  /\ mutex = [x \in Thread |-> None]
  /\ waits = [h \in Thread |-> None]
  /\ pc = [h \in Thread |-> IF h = Zero THEN "run" ELSE "none"]
  /\ arg = [h \in Thread |-> None]
  /\ active = Zero

Waiters(x) == {h \in Thread : waits[h] = x}

\* condition.notify_one (): what waits may become.
NotifyOne(x) ==
  IF Waiters(x) = {} THEN {waits}
  ELSE {[waits EXCEPT ![h] = None] : h \in Waiters(x)}

Goto(h, label) == pc' = [pc EXCEPT ![h] = label]

-------------------------------------------------------------------------------
(***************************************************************************)
(* Construction: std_async starts the thread, the creator waits until it   *)
(* is blocked.                                                             *)
(***************************************************************************)
Create(h, y) ==
  /\ pc[h] = "run" /\ pc[y] = "none"
  /\ pc' = [pc EXCEPT ![h] = "ctor", ![y] = "start"]
  /\ arg' = [arg EXCEPT ![h] = y]
  /\ UNCHANGED <<state, mutex, waits, active>>

\* while (state != BLOCKED) condition.wait (lock)
CtorWait(h) ==
  /\ pc[h] = "ctor" /\ waits[h] = None
  /\ mutex[arg[h]] = None
  /\ state[arg[h]] # "BLOCKED"
  /\ waits' = [waits EXCEPT ![h] = arg[h]]
  /\ UNCHANGED <<state, mutex, pc, arg, active>>

CtorReturn(h) ==
  /\ pc[h] = "ctor" /\ waits[h] = None
  /\ mutex[arg[h]] = None
  /\ state[arg[h]] = "BLOCKED"
  /\ Goto(h, "run")
  /\ UNCHANGED <<state, mutex, waits, arg, active>>

-------------------------------------------------------------------------------
(***************************************************************************)
(* The function of the thread: block until released, run the work, again.  *)
(***************************************************************************)

\* Mutant: do_block forgets to set the state.
ParkKeepState(x) ==
  /\ pc[x] \in {"start", "relock"}
  /\ mutex[x] = None
  /\ state[x] # "FINAL"
  /\ \E w \in NotifyOne(x) : waits' = [w EXCEPT ![x] = x]
  /\ Goto(x, "parked")
  /\ UNCHANGED <<state, mutex, arg, active>>

\* Take the mutex, find the state not FINAL, do_block.
Park(x) ==
  /\ pc[x] \in {"start", "relock"}
  /\ mutex[x] = None
  /\ state[x] # "FINAL"
  /\ state' = [state EXCEPT ![x] = "BLOCKED"]
  /\ \E w \in NotifyOne(x) : waits' = [w EXCEPT ![x] = x]
  /\ Goto(x, "parked")
  /\ UNCHANGED <<mutex, arg, active>>

\* The work has returned and the state is FINAL: leave the loop.
ThreadEnd(x) ==
  /\ pc[x] = "relock"
  /\ mutex[x] = None
  /\ state[x] = "FINAL"
  /\ Goto(x, "done")
  /\ UNCHANGED <<state, mutex, waits, arg, active>>

\* do { condition.wait (lock); } while (state == BLOCKED)
WakeBlocked(x) ==
  /\ pc[x] \in {"parked", "yielded", "called"} /\ waits[x] = None
  /\ mutex[x] = None
  /\ state[x] = "BLOCKED"
  /\ waits' = [waits EXCEPT ![x] = x]
  /\ UNCHANGED <<state, mutex, pc, arg, active>>

\* Mutant: a thread that is woken takes it that it has been released.
WakeUntested(x) ==
  /\ pc[x] \in {"parked", "yielded", "called"} /\ waits[x] = None
  /\ mutex[x] = None
  /\ Goto(x, "run")
  /\ UNCHANGED <<state, mutex, waits, arg, active>>

\* Released: the thread starts the work, or yield or call returns.
WakeReleased(x) ==
  /\ pc[x] \in {"parked", "yielded", "called"} /\ waits[x] = None
  /\ mutex[x] = None
  /\ state[x] = "RELEASED"
  /\ Goto(x, "run")
  /\ UNCHANGED <<state, mutex, waits, arg, active>>

\* FINAL: forced_unwind ends the thread, or unwinds the work up to relock.
WakeFinal(x) ==
  /\ pc[x] \in {"parked", "yielded"} /\ waits[x] = None
  /\ mutex[x] = None
  /\ state[x] = "FINAL"
  /\ Goto(x, IF pc[x] = "parked" THEN "done" ELSE "relock")
  /\ UNCHANGED <<state, mutex, waits, arg, active>>

Spurious(h) ==
  /\ waits[h] # None
  /\ waits' = [waits EXCEPT ![h] = None]
  /\ UNCHANGED <<state, mutex, pc, arg, active>>

-------------------------------------------------------------------------------
(***************************************************************************)
(* context::yield, called by the running context.                          *)
(***************************************************************************)

\* A context that exists and has not ended.
Exists(y) == pc[y] \notin {"none", "done"}

\* What yield and call ask of the context they are given: it did not just
\* exit.  The pump's main loop may break this; module Pump shows how.
Resumable(y) == Exists(y) /\ pc[y] # "relock"

Yield(x, y) ==
  /\ x \in Ctx /\ y # x
  /\ pc[x] = "run" /\ Resumable(y)
  /\ arg' = [arg EXCEPT ![x] = y]
  /\ Goto(x, "yield")
  /\ UNCHANGED <<state, mutex, waits, active>>

\* Mutant: yield releases its successor before it takes its own mutex.
YieldLockLate(x) ==
  /\ pc[x] = "yield"
  /\ Goto(x, "yield_release")
  /\ UNCHANGED <<state, mutex, waits, arg, active>>

YieldLock(x) ==
  /\ pc[x] = "yield"
  /\ mutex[x] = None
  /\ mutex' = [mutex EXCEPT ![x] = x]
  /\ Goto(x, "yield_release")
  /\ UNCHANGED <<state, waits, arg, active>>

\* Mutant: do_release does not notify.
ReleaseNoNotify(h, y, next) ==
  LET ok == state[y] = "BLOCKED" IN
  /\ state' = IF ok THEN [state EXCEPT ![y] = "RELEASED"] ELSE state
  /\ waits' = waits
  /\ active' = IF ok THEN y ELSE active
  /\ Goto(h, IF ok THEN next ELSE "terminate")

\* do_release of y by thread h, which goes on at label next; it throws unless
\* y is BLOCKED, and the pump's handler then calls std::terminate.
Release(h, y, next) ==
  LET ok == state[y] = "BLOCKED" IN
  /\ state' = IF ok THEN [state EXCEPT ![y] = "RELEASED"] ELSE state
  /\ waits' \in IF ok THEN NotifyOne(y) ELSE {waits}
  /\ active' = IF ok THEN y ELSE active
  /\ Goto(h, IF ok THEN next ELSE "terminate")

YieldRelease(x) ==
  /\ pc[x] = "yield_release"
  /\ mutex[arg[x]] = None
  /\ Release(x, arg[x], "yield_block")
  /\ UNCHANGED <<mutex, arg>>

\* do_block, still under the mutex taken before to.release ().
YieldBlock(x) ==
  /\ pc[x] = "yield_block"
  /\ state' = [state EXCEPT ![x] = "BLOCKED"]
  /\ \E w \in NotifyOne(x) : waits' = [w EXCEPT ![x] = x]
  /\ mutex' = [mutex EXCEPT ![x] = None]
  /\ Goto(x, "yielded")
  /\ UNCHANGED <<arg, active>>

-------------------------------------------------------------------------------
(***************************************************************************)
(* context::call, by the main thread, and the exit of a context: it        *)
(* releases Zero, after which its work returns.                            *)
(***************************************************************************)

Call(y) ==
  /\ y \in Ctx
  /\ pc[Zero] = "run" /\ Resumable(y)
  /\ arg' = [arg EXCEPT ![Zero] = y]
  /\ Goto(Zero, "call")
  /\ UNCHANGED <<state, mutex, waits, active>>

\* Mutant: call unlocks the context it released before it blocks Zero.
CallReleaseUnlock ==
  /\ pc[Zero] = "call"
  /\ mutex[arg[Zero]] = None
  /\ Release(Zero, arg[Zero], "call_block")
  /\ UNCHANGED <<mutex, arg>>

\* do_release (lock), keeping the lock.
CallRelease ==
  /\ pc[Zero] = "call"
  /\ mutex[arg[Zero]] = None
  /\ Release(Zero, arg[Zero], "call_block")
  /\ mutex' = [mutex EXCEPT ![arg[Zero]] = Zero]
  /\ UNCHANGED arg

\* c.state = BLOCKED; lock.unlock (); c.condition.wait (c_lock)
CallBlock ==
  /\ pc[Zero] = "call_block"
  /\ mutex[Zero] = None
  /\ state' = [state EXCEPT ![Zero] = "BLOCKED"]
  /\ mutex' = [mutex EXCEPT ![arg[Zero]] = None]
  /\ waits' = [waits EXCEPT ![Zero] = Zero]
  /\ Goto(Zero, "called")
  /\ UNCHANGED <<arg, active>>

Exit(x) ==
  /\ x \in Ctx
  /\ pc[x] = "run"
  /\ mutex[Zero] = None
  /\ Release(x, Zero, "relock")
  /\ UNCHANGED <<mutex, arg>>

-------------------------------------------------------------------------------
(***************************************************************************)
(* ~context, by whichever thread runs: remove_finished_coroutines and      *)
(* ~pump destroy contexts other than the one they run in.                  *)
(***************************************************************************)
Destroy(h, y) ==
  /\ y \in Ctx \ {h}
  /\ pc[h] = "run" /\ Exists(y)
  /\ arg' = [arg EXCEPT ![h] = y]
  /\ Goto(h, "finish")
  /\ UNCHANGED <<state, mutex, waits, active>>

\* state = FINAL; lock.unlock ()
Finish(h) ==
  /\ pc[h] = "finish"
  /\ mutex[arg[h]] = None
  /\ state' = [state EXCEPT ![arg[h]] = "FINAL"]
  /\ Goto(h, "notify")
  /\ UNCHANGED <<mutex, waits, arg, active>>

\* Mutant: do_finish does not notify.
FinishNotifyNone(h) ==
  /\ pc[h] = "notify"
  /\ Goto(h, "join")
  /\ UNCHANGED <<state, mutex, waits, arg, active>>

\* condition.notify_all (), after the unlock.
FinishNotify(h) ==
  /\ pc[h] = "notify"
  /\ waits' = [g \in Thread |-> IF waits[g] = arg[h] THEN None ELSE waits[g]]
  /\ Goto(h, "join")
  /\ UNCHANGED <<state, mutex, arg, active>>

\* future.wait ()
Join(h) ==
  /\ pc[h] = "join"
  /\ pc[arg[h]] = "done"
  /\ Goto(h, "run")
  /\ UNCHANGED <<state, mutex, waits, arg, active>>

\* operator () returns: every context has been destroyed.
End ==
  /\ pc[Zero] = "run"
  /\ \A x \in Ctx : pc[x] \in {"none", "done"}
  /\ Goto(Zero, "end")
  /\ UNCHANGED <<state, mutex, waits, arg, active>>

\* Nothing is left to do, or std::terminate has been called.
Terminated ==
  /\ pc[Zero] = "end" \/ \E h \in Thread : pc[h] = "terminate"
  /\ UNCHANGED vars

-------------------------------------------------------------------------------
\* What the running thread chooses to do.
Operation(h) ==
  \/ \E y \in Ctx : Create(h, y) \/ Yield(h, y) \/ Destroy(h, y)
  \/ Exit(h)

\* What a thread inside an operation, or blocked, does next.
Step(h) ==
  \/ CtorWait(h) \/ CtorReturn(h)
  \/ Park(h) \/ ThreadEnd(h)
  \/ WakeBlocked(h) \/ WakeReleased(h) \/ WakeFinal(h)
  \/ YieldLock(h) \/ YieldRelease(h) \/ YieldBlock(h)
  \/ Finish(h) \/ FinishNotify(h) \/ Join(h)

MainStep == CallRelease \/ CallBlock

Next ==
  \/ \E h \in Thread : Operation(h) \/ Step(h) \/ Spurious(h)
  \/ \E y \in Ctx : Call(y)
  \/ MainStep
  \/ End
  \/ Terminated

Spec == Init /\ [][Next]_vars

(***************************************************************************)
(* Fairness: a thread inside an operation goes on when it can, and a mutex *)
(* that becomes free over and over is obtained (a blocked thread that is   *)
(* woken spuriously for ever takes and drops its mutex again and again).   *)
(***************************************************************************)
Fairness ==
  /\ \A h \in Thread : SF_vars(Step(h))
  /\ SF_vars(MainStep)

FairSpec == Spec /\ Fairness

-------------------------------------------------------------------------------
(***************************************************************************)
(* Properties.                                                             *)
(***************************************************************************)

\* The type of every variable; a context leaves INITIAL when it first blocks.
TypeOK ==
  /\ state \in [Thread -> {"INITIAL", "RELEASED", "BLOCKED", "FINAL"}]
  /\ mutex \in [Thread -> Thread \cup {None}]
  /\ waits \in [Thread -> Thread \cup {None}]
  /\ pc \in [Thread -> {"none", "start", "parked", "relock", "done", "run", "ctor",
                        "yield", "yield_release", "yield_block", "yielded", "call",
                        "call_block", "called", "finish", "notify", "join", "end",
                        "terminate"}]
  /\ arg \in [Thread -> Ctx \cup {None}]
  /\ active \in Thread
  /\ \A x \in Ctx : state[x] = "INITIAL" <=> pc[x] \in {"none", "start"}

\* Only the context that control was handed to last executes the pump's and
\* the application's code, so the pump's unlocked lists are never raced for.
OnlyActiveRuns == \A h \in Thread : pc[h] = "run" => h = active

\* "not allowed to release a call which is ...": do_release finds the context
\* it releases BLOCKED, although that context's thread may not yet wait.
ReleaseFindsBlocked == \A h \in Thread : pc[h] # "terminate"

\* A context that ~context has made FINAL never becomes BLOCKED again by its
\* own thread's do_block, which would make ~context wait for ever.
FinalIsFinal == [][\A x \in Ctx : state[x] = "FINAL" => state'[x] = "FINAL"]_vars

\* Control that is handed over arrives: no notification is lost.
ControlArrives ==
  \A h \in Thread :
    active = h /\ pc[h] \in {"parked", "yielded", "called"} ~> pc[h] = "run"

\* The constructor and ~context return: the constructor does not miss the first BLOCKED,
\* and the thread that the destructor waits for ends.
LifetimeReturns == \A h \in Thread : pc[h] \in {"ctor", "join"} ~> pc[h] = "run"
===============================================================================
