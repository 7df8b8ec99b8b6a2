------------------------------- MODULE PumpProofs -------------------------------
(***************************************************************************)
(* Proofs about module Pump, for any application threads, events, timers   *)
(* and promises: its types, what the assertions at the end of the main     *)
(* loop rest on, that stop drains the queue, that no event runs twice and  *)
(* that wait lets nobody go while an event is being executed.              *)
(***************************************************************************)
EXTENDS Pump, ListProofs

\* What worker executes, and where.
Item == Event \cup Deferred \cup Timer
Site == {"queue", "deferred", "timer", None}

-------------------------------------------------------------------------------
(***************************************************************************)
(* The inductive invariant.                                                *)
(***************************************************************************)

\* Blocked events: each is released once, and remembers where it was executed.
BlockInv ==
  /\ switch \in Seq(Blocker) /\ Distinct(switch)
  /\ \A b \in DOMAIN suspended : suspended[b] \in Site
  /\ DOMAIN suspended \cap fresh = {}

\* A timer that had expired when worker looked at the clock is among those
\* whose deadline has passed, or is gone.
TimerInv ==
  /\ Distinct(timers)
  /\ Elements(timers) \cap fresh = {} /\ now \cap fresh = {}
  /\ \A k \in 1..Len(timers) : timers[k] \in now => k <= due

\* executing is true during an event, unless the event was blocked before.
ExecInv ==
  pc = "exec" => /\ cur \in Item
                 /\ executing \/ cur \in Blocker \ fresh

\* running stays false once it is; the main loop ends with an empty queue and,
\* when its second assertion fails, with an event that is blocked.
StopInv ==
  /\ running => seen
  /\ pc \in {"finish", "ended", "assert"} => ~running
  /\ pc = "finish" => queue = << >>
  /\ pc = "assert" => DOMAIN suspended # {}
  /\ pc = "ended" => DOMAIN suspended = {}

\* When nobody posts after stop, a coroutine that exits is never called again.
PromiseInv ==
  "posts_precede_stop" \in Promises =>
    /\ pc # "terminate"
    /\ pc \in {"ended", "assert"} => queue = << >>
    /\ ~parked => /\ ~running /\ queue = << >>
                  /\ pc \in {"main", "finish", "ended", "assert"}

\* The event that is being executed.
Current == IF pc = "exec" THEN {cur} ELSE {}

\* No event is lost.
AccountInv == posted \subseteq Elements(queue) \cup Current \cup DOMAIN suspended \cup returned

\* The places of an item exclude each other.
OnceInv ==
  /\ Distinct(queue) /\ Distinct(deferred)
  /\ Elements(queue) \cup DOMAIN suspended \subseteq posted
  /\ Event \cap (Current \cup returned) \subseteq posted
  /\ (Elements(deferred) \cup Current \cup returned) \cap fresh \subseteq Event
  /\ Elements(queue) \cap (DOMAIN suspended \cup Current \cup returned) = {}
  /\ DOMAIN suspended \cap (Current \cup returned) = {}
  /\ (Elements(deferred) \cup Elements(timers)) \cap (Current \cup returned) = {}
  /\ Current \cap returned = {}
  /\ fresh \subseteq Item

IInv ==
  /\ TypeOK /\ BlockInv /\ TimerInv /\ ExecInv /\ StopInv /\ PromiseInv
  /\ AccountInv /\ OnceInv


\* What is in the lists of the pump.
LEMMA RangeFacts ==
  ASSUME TypeOK
  PROVE  /\ Elements(queue) \subseteq Event /\ Elements(deferred) \subseteq Deferred
         /\ Elements(timers) \subseteq Timer
BY EmptyFacts DEF TypeOK

\* The timers that have expired are at the front.
LEMMA ExpiredFacts ==
  ASSUME TypeOK, TimerInv
  PROVE  /\ Expired \subseteq Timer /\ Expired \cap fresh = {}
         /\ \A k \in 1..Len(timers) : timers[k] \in Expired => k <= due
<1>1. /\ Len(timers) \in Nat /\ due \in Nat /\ due <= Len(timers)
      /\ \A k \in 1..Len(timers) : timers[k] \in Timer
  BY DEF TypeOK
<1>2. Expired \subseteq Elements(timers)
  BY <1>1 DEF Expired, Elements
<1>3. ASSUME NEW k \in 1..Len(timers), timers[k] \in Expired
      PROVE  k <= due
  BY <1>1, <1>3 DEF Expired, TimerInv, Distinct
<1> QED  BY <1>2, <1>3, RangeFacts DEF TimerInv

\* A step of a caller that changes nothing of the pump keeps the invariant.
LEMMA CallerStep ==
  ASSUME IInv, UNCHANGED <<pumpVars, timerVars, loopVars, blockVars, history>>,
         apc' \in [App -> {"idle", "waiting", "notified", "waited", "stopping", "stopped"}]
  PROVE  IInv'
<1> USE DEF IInv, pumpVars, timerVars, loopVars, blockVars, history
<1>1. TypeOK' /\ BlockInv' /\ TimerInv' /\ ExecInv'
  BY DEF TypeOK, BlockInv, TimerInv, ExecInv
<1>2. StopInv' /\ PromiseInv' /\ AccountInv' /\ OnceInv'
  BY DEF StopInv, PromiseInv, AccountInv, OnceInv, Current
<1> QED  BY <1>1, <1>2

\* Posting puts a new event behind the others and is not allowed once stopped.
LEMMA PostStep ==
  ASSUME IInv, NEW a \in App, NEW e \in Event, Post(a, e)
  PROVE  IInv'
<1> USE DEF IInv, Post, pumpVars, timerVars, loopVars, blockVars, history
<1>1. /\ queue' \in Seq(Event) /\ Elements(queue') = Elements(queue) \cup {e}
      /\ Distinct(queue) /\ e \notin Elements(queue) => Distinct(queue')
      /\ queue' # << >>
  BY AppendFacts DEF TypeOK
<1>2. TypeOK'
  BY <1>1 DEF TypeOK
<1>3. BlockInv'
  BY <1>1 DEF TypeOK, BlockInv
<1>4. TimerInv'
  BY <1>1 DEF TypeOK, TimerInv
<1>5. ExecInv'
  BY <1>1 DEF TypeOK, ExecInv
<1>6. StopInv'
  BY <1>1 DEF TypeOK, StopInv
<1>7. PromiseInv'
  BY <1>1 DEF TypeOK, PromiseInv, StopInv
<1>8. AccountInv'
  BY <1>1 DEF TypeOK, AccountInv, Current
<1>9. OnceInv'
  BY <1>1 DEF TypeOK, OnceInv, Current
<1> QED  BY <1>2, <1>3, <1>4, <1>5, <1>6, <1>7, <1>8, <1>9

\* Entering wait changes the caller only.
LEMMA WaitStep ==
  ASSUME IInv, NEW a \in App, Wait(a)
  PROVE  IInv'
<1>1. apc' \in [App -> {"idle", "waiting", "notified", "waited", "stopping", "stopped"}]
  BY DEF Wait, IInv, TypeOK
<1> QED  BY <1>1, CallerStep DEF Wait

\* A caller of wait that was notified changes itself only.
LEMMA WaitAgainStep ==
  ASSUME IInv, NEW a \in App, WaitAgain(a)
  PROVE  IInv'
<1>1. apc' \in [App -> {"idle", "waiting", "notified", "waited", "stopping", "stopped"}]
  BY DEF WaitAgain, IInv, TypeOK
<1> QED  BY <1>1, CallerStep DEF WaitAgain

\* Leaving wait changes the caller only.
LEMMA WaitReturnStep ==
  ASSUME IInv, NEW a \in App, WaitReturn(a)
  PROVE  IInv'
<1>1. apc' \in [App -> {"idle", "waiting", "notified", "waited", "stopping", "stopped"}]
  BY DEF WaitReturn, IInv, TypeOK
<1> QED  BY <1>1, CallerStep DEF WaitReturn

\* stop makes running false for good; seen may stay true.
LEMMA StopStep ==
  ASSUME IInv, NEW a \in App, Stop(a)
  PROVE  IInv'
<1> USE DEF IInv, Stop, pumpVars, timerVars, loopVars, blockVars, history
<1>1. TypeOK'
  BY DEF TypeOK
<1>2. BlockInv'
  BY DEF TypeOK, BlockInv
<1>3. TimerInv'
  BY DEF TypeOK, TimerInv
<1>4. ExecInv'
  BY DEF TypeOK, ExecInv
<1>5. StopInv'
  BY DEF TypeOK, StopInv
<1>6. PromiseInv'
  BY DEF TypeOK, PromiseInv
<1>7. AccountInv'
  BY DEF TypeOK, AccountInv, Current
<1>8. OnceInv'
  BY DEF TypeOK, OnceInv, Current
<1> QED  BY <1>1, <1>2, <1>3, <1>4, <1>5, <1>6, <1>7, <1>8

\* The end of stop changes the caller only.
LEMMA StopReturnStep ==
  ASSUME IInv, NEW a \in App, StopReturn(a)
  PROVE  IInv'
<1>1. apc' \in [App -> {"idle", "waiting", "notified", "waited", "stopping", "stopped"}]
  BY DEF StopReturn, IInv, TypeOK
<1> QED  BY <1>1, CallerStep DEF StopReturn

\* pause changes the flag only.
LEMMA PauseStep ==
  ASSUME IInv, NEW a \in App, Pause(a)
  PROVE  IInv'
<1> USE DEF IInv, Pause, pumpVars, timerVars, loopVars, blockVars, history
<1>1. TypeOK'
  BY DEF TypeOK
<1>2. BlockInv'
  BY DEF TypeOK, BlockInv
<1>3. TimerInv'
  BY DEF TypeOK, TimerInv
<1>4. ExecInv'
  BY DEF TypeOK, ExecInv
<1>5. StopInv'
  BY DEF TypeOK, StopInv
<1>6. PromiseInv'
  BY DEF TypeOK, PromiseInv
<1>7. AccountInv'
  BY DEF TypeOK, AccountInv, Current
<1>8. OnceInv'
  BY DEF TypeOK, OnceInv, Current
<1> QED  BY <1>1, <1>2, <1>3, <1>4, <1>5, <1>6, <1>7, <1>8

\* resume changes the flag and notifies the pump.
LEMMA ResumeStep ==
  ASSUME IInv, NEW a \in App, Resume(a)
  PROVE  IInv'
<1> USE DEF IInv, Resume, pumpVars, timerVars, loopVars, blockVars, history
<1>1. TypeOK'
  BY DEF TypeOK
<1>2. BlockInv'
  BY DEF TypeOK, BlockInv
<1>3. TimerInv'
  BY DEF TypeOK, TimerInv
<1>4. ExecInv'
  BY DEF TypeOK, ExecInv
<1>5. StopInv'
  BY DEF TypeOK, StopInv
<1>6. PromiseInv'
  BY DEF TypeOK, PromiseInv
<1>7. AccountInv'
  BY DEF TypeOK, AccountInv, Current
<1>8. OnceInv'
  BY DEF TypeOK, OnceInv, Current
<1> QED  BY <1>1, <1>2, <1>3, <1>4, <1>5, <1>6, <1>7, <1>8

\* The main loop ends when it is stopped and the queue is empty.
LEMMA MainTestStep ==
  ASSUME IInv, MainTest
  PROVE  IInv'
<1> USE DEF IInv, MainTest, pumpVars, timerVars, loopVars, blockVars, history
<1>1. TypeOK'
  BY DEF TypeOK
<1>2. BlockInv'
  BY DEF TypeOK, BlockInv
<1>3. TimerInv'
  BY DEF TypeOK, TimerInv
<1>4. ExecInv'
  BY DEF TypeOK, ExecInv
<1>5. StopInv'
  BY DEF TypeOK, StopInv
<1>6. PromiseInv'
  BY DEF TypeOK, PromiseInv
<1>7. AccountInv'
  BY DEF TypeOK, AccountInv, Current
<1>8. OnceInv'
  BY DEF TypeOK, OnceInv, Current
<1> QED  BY <1>1, <1>2, <1>3, <1>4, <1>5, <1>6, <1>7, <1>8

\* The main loop gives the mutex up while it is paused.
LEMMA GateWaitStep ==
  ASSUME IInv, GateWait
  PROVE  IInv'
<1> USE DEF IInv, GateWait, Unlock, pumpVars, timerVars, loopVars, blockVars, history
<1>1. TypeOK'
  BY DEF TypeOK
<1>2. BlockInv'
  BY DEF TypeOK, BlockInv
<1>3. TimerInv'
  BY DEF TypeOK, TimerInv
<1>4. ExecInv'
  BY DEF TypeOK, ExecInv
<1>5. StopInv'
  BY DEF TypeOK, StopInv
<1>6. PromiseInv'
  BY DEF TypeOK, PromiseInv
<1>7. AccountInv'
  BY DEF TypeOK, AccountInv, Current
<1>8. OnceInv'
  BY DEF TypeOK, OnceInv, Current
<1> QED  BY <1>1, <1>2, <1>3, <1>4, <1>5, <1>6, <1>7, <1>8

\* The main loop has the mutex again.
LEMMA GateWakeStep ==
  ASSUME IInv, GateWake
  PROVE  IInv'
<1> USE DEF IInv, GateWake, pumpVars, timerVars, loopVars, blockVars, history
<1>1. TypeOK'
  BY DEF TypeOK
<1>2. BlockInv'
  BY DEF TypeOK, BlockInv
<1>3. TimerInv'
  BY DEF TypeOK, TimerInv
<1>4. ExecInv'
  BY DEF TypeOK, ExecInv
<1>5. StopInv'
  BY DEF TypeOK, StopInv
<1>6. PromiseInv'
  BY DEF TypeOK, PromiseInv
<1>7. AccountInv'
  BY DEF TypeOK, AccountInv, Current
<1>8. OnceInv'
  BY DEF TypeOK, OnceInv, Current
<1> QED  BY <1>1, <1>2, <1>3, <1>4, <1>5, <1>6, <1>7, <1>8

\* The coroutine that is called is parked: the queue was not empty or running true.
LEMMA GateCallStep ==
  ASSUME IInv, GateCall
  PROVE  IInv'
<1> USE DEF IInv, GateCall, Unlock, pumpVars, timerVars, loopVars, blockVars, history
<1>1. TypeOK'
  BY DEF TypeOK
<1>2. BlockInv'
  BY DEF TypeOK, BlockInv
<1>3. TimerInv'
  BY DEF TypeOK, TimerInv
<1>4. ExecInv'
  BY DEF TypeOK, ExecInv
<1>5. StopInv'
  BY DEF TypeOK, StopInv
<1>6. PromiseInv'
  BY DEF TypeOK, PromiseInv
<1>7. AccountInv'
  BY DEF TypeOK, AccountInv, Current
<1>8. OnceInv'
  BY DEF TypeOK, OnceInv, Current
<1> QED  BY <1>1, <1>2, <1>3, <1>4, <1>5, <1>6, <1>7, <1>8

\* The queue is empty at the end; only a blocked event makes an assertion fail.
LEMMA MainFinishStep ==
  ASSUME IInv, MainFinish
  PROVE  IInv'
<1> USE DEF IInv, MainFinish, Unlock, pumpVars, timerVars, loopVars, blockVars, history
<1>1. TypeOK'
  BY DEF TypeOK
<1>2. BlockInv'
  BY DEF TypeOK, BlockInv
<1>3. TimerInv'
  BY DEF TypeOK, TimerInv
<1>4. ExecInv'
  BY DEF TypeOK, ExecInv
<1>5. StopInv'
  BY DEF TypeOK, StopInv
<1>6. PromiseInv'
  BY DEF TypeOK, PromiseInv, StopInv
<1>7. AccountInv'
  BY DEF TypeOK, AccountInv, Current
<1>8. OnceInv'
  BY DEF TypeOK, OnceInv, Current
<1> QED  BY <1>1, <1>2, <1>3, <1>4, <1>5, <1>6, <1>7, <1>8

\* A coroutine that exited is back in its context.
LEMMA ParkStep ==
  ASSUME IInv, Park
  PROVE  IInv'
<1> USE DEF IInv, Park, pumpVars, timerVars, loopVars, blockVars, history
<1>1. TypeOK'
  BY DEF TypeOK
<1>2. BlockInv'
  BY DEF TypeOK, BlockInv
<1>3. TimerInv'
  BY DEF TypeOK, TimerInv
<1>4. ExecInv'
  BY DEF TypeOK, ExecInv
<1>5. StopInv'
  BY DEF TypeOK, StopInv
<1>6. PromiseInv'
  BY DEF TypeOK, PromiseInv
<1>7. AccountInv'
  BY DEF TypeOK, AccountInv, Current
<1>8. OnceInv'
  BY DEF TypeOK, OnceInv, Current
<1> QED  BY <1>1, <1>2, <1>3, <1>4, <1>5, <1>6, <1>7, <1>8

\* The released event leaves the list and the blocked events together.
LEMMA ContextSwitchStep ==
  ASSUME IInv, ContextSwitch
  PROVE  IInv'
<1> USE DEF IInv, ContextSwitch, pumpVars, timerVars, loopVars, blockVars, history
<1>1. /\ Head(switch) \in Blocker /\ switch' \in Seq(Blocker) /\ Distinct(switch')
      /\ Head(switch) \in DOMAIN suspended
      /\ Elements(switch') \subseteq DOMAIN suspended \ {Head(switch)}
      /\ DOMAIN suspended' = DOMAIN suspended \ {Head(switch)}
      /\ \A b \in DOMAIN suspended' : suspended'[b] = suspended[b]
      /\ site' \in Site /\ cur' = Head(switch)
  BY TailFacts DEF TypeOK, BlockInv, Site
<1>2. TypeOK'
  BY <1>1, PumpAssumption DEF TypeOK, Site
<1>3. BlockInv'
  BY <1>1 DEF TypeOK, BlockInv
<1>4. TimerInv'
  BY <1>1 DEF TypeOK, TimerInv
<1>5. ExecInv'
  BY <1>1, PumpAssumption DEF TypeOK, ExecInv, Item, BlockInv
<1>6. StopInv'
  BY <1>1 DEF TypeOK, StopInv
<1>7. PromiseInv'
  BY <1>1 DEF TypeOK, PromiseInv
<1>8. AccountInv'
  BY <1>1 DEF TypeOK, AccountInv, Current
<1>9. OnceInv'
  BY <1>1, PumpAssumption, RangeFacts DEF TypeOK, OnceInv, Current, Item
<1> QED  BY <1>2, <1>3, <1>4, <1>5, <1>6, <1>7, <1>8, <1>9

\* A coroutine exits only when stop was called, also if it reads an old running.
LEMMA LoopTestStep ==
  ASSUME IInv, LoopTest
  PROVE  IInv'
<1> USE DEF IInv, LoopTest, pumpVars, timerVars, loopVars, blockVars, history
<1>1. TypeOK'
  BY DEF TypeOK
<1>2. BlockInv'
  BY DEF TypeOK, BlockInv
<1>3. TimerInv'
  BY DEF TypeOK, TimerInv
<1>4. ExecInv'
  BY DEF TypeOK, ExecInv
<1>5. StopInv'
  BY DEF TypeOK, StopInv
<1>6. PromiseInv'
  BY DEF TypeOK, PromiseInv, StopInv
<1>7. AccountInv'
  BY DEF TypeOK, AccountInv, Current
<1>8. OnceInv'
  BY DEF TypeOK, OnceInv, Current
<1> QED  BY <1>1, <1>2, <1>3, <1>4, <1>5, <1>6, <1>7, <1>8

\* worker takes the mutex, and waits with nothing to do.
LEMMA WorkerLockStep ==
  ASSUME IInv, WorkerLock
  PROVE  IInv'
<1> USE DEF IInv, WorkerLock, Unlock, pumpVars, timerVars, loopVars, blockVars, history
<1>1. TypeOK'
  BY DEF TypeOK
<1>2. BlockInv'
  BY DEF TypeOK, BlockInv
<1>3. TimerInv'
  BY DEF TypeOK, TimerInv
<1>4. ExecInv'
  BY DEF TypeOK, ExecInv
<1>5. StopInv'
  BY DEF TypeOK, StopInv
<1>6. PromiseInv'
  BY DEF TypeOK, PromiseInv
<1>7. AccountInv'
  BY DEF TypeOK, AccountInv, Current
<1>8. OnceInv'
  BY DEF TypeOK, OnceInv, Current
<1> QED  BY <1>1, <1>2, <1>3, <1>4, <1>5, <1>6, <1>7, <1>8

\* worker wakes up to work, or waits again.
LEMMA WorkerWakeStep ==
  ASSUME IInv, WorkerWake
  PROVE  IInv'
<1> USE DEF IInv, WorkerWake, pumpVars, timerVars, loopVars, blockVars, history
<1>1. TypeOK'
  BY DEF TypeOK
<1>2. BlockInv'
  BY DEF TypeOK, BlockInv
<1>3. TimerInv'
  BY DEF TypeOK, TimerInv
<1>4. ExecInv'
  BY DEF TypeOK, ExecInv
<1>5. StopInv'
  BY DEF TypeOK, StopInv
<1>6. PromiseInv'
  BY DEF TypeOK, PromiseInv
<1>7. AccountInv'
  BY DEF TypeOK, AccountInv, Current
<1>8. OnceInv'
  BY DEF TypeOK, OnceInv, Current
<1> QED  BY <1>1, <1>2, <1>3, <1>4, <1>5, <1>6, <1>7, <1>8

\* A spurious wake-up changes nothing but the wait.
LEMMA SpuriousStep ==
  ASSUME IInv, Spurious
  PROVE  IInv'
<1> USE DEF IInv, Spurious, pumpVars, timerVars, loopVars, blockVars, history
<1>1. TypeOK'
  BY DEF TypeOK
<1>2. BlockInv'
  BY DEF TypeOK, BlockInv
<1>3. TimerInv'
  BY DEF TypeOK, TimerInv
<1>4. ExecInv'
  BY DEF TypeOK, ExecInv
<1>5. StopInv'
  BY DEF TypeOK, StopInv
<1>6. PromiseInv'
  BY DEF TypeOK, PromiseInv
<1>7. AccountInv'
  BY DEF TypeOK, AccountInv, Current
<1>8. OnceInv'
  BY DEF TypeOK, OnceInv, Current
<1> QED  BY <1>1, <1>2, <1>3, <1>4, <1>5, <1>6, <1>7, <1>8

\* The front of the queue leaves it and is executed.
LEMMA WorkerPopStep ==
  ASSUME IInv, WorkerPop
  PROVE  IInv'
<1> USE DEF IInv, WorkerPop, Unlock, Execute, pumpVars, timerVars, loopVars, blockVars,
   history
<1>1. queue # << >> =>
        /\ Head(queue) \in Event /\ Tail(queue) \in Seq(Event)
        /\ Len(Tail(queue)) = Len(queue) - 1
        /\ Elements(queue) = {Head(queue)} \cup Elements(Tail(queue))
        /\ Distinct(queue) => Distinct(Tail(queue)) /\ Head(queue) \notin Elements(Tail(queue))
        /\ Head(queue) = queue[1]
        /\ \A k \in 1..Len(queue) - 1 : Tail(queue)[k] = queue[k + 1]
  <2>1. queue \in Seq(Event)
    BY DEF TypeOK, BlockInv
  <2> QED  BY ONLY <2>1, TailFacts
<1>2. TypeOK'
  BY <1>1, PumpAssumption, ZenonT(30) DEF TypeOK
<1>3. BlockInv'
  BY <1>1 DEF TypeOK, BlockInv
<1>4. TimerInv'
  BY <1>1 DEF TypeOK, TimerInv
<1>5. ExecInv'
  BY <1>1, PumpAssumption DEF TypeOK, ExecInv, Item
<1>6. StopInv'
  BY <1>1 DEF TypeOK, StopInv
<1>7. PromiseInv'
  BY <1>1 DEF TypeOK, PromiseInv
<1>8. AccountInv'
  BY <1>1 DEF TypeOK, AccountInv, Current
<1>9. OnceInv'
  <2>1. CASE queue # << >>
    <3>1. /\ Current = {} /\ Current' = {Head(queue)} /\ queue' = Tail(queue)
          /\ UNCHANGED <<deferred, timers, suspended, history>>
      BY <2>1 DEF Current
    <3> QED  BY <1>1, <2>1, <3>1, PumpAssumption, RangeFacts DEF OnceInv, TypeOK,
                TimerInv, Item, history
  <2>2. CASE ~(queue # << >>)
    <3>1. Current = {} /\ Current' = {} /\ UNCHANGED <<queue, deferred, timers, suspended, history>>
      BY <2>2 DEF Current
    <3> QED  BY <3>1 DEF OnceInv, history
  <2> QED  BY <2>1, <2>2
<1> QED  BY <1>2, <1>3, <1>4, <1>5, <1>6, <1>7, <1>8, <1>9

\* The front of deferred leaves it and is executed, or the clock is read.
LEMMA WorkerDeferStep ==
  ASSUME IInv, WorkerDefer
  PROVE  IInv'
<1> USE DEF IInv, WorkerDefer, Unlock, Execute, pumpVars, timerVars, loopVars, blockVars,
   history
<1>1. /\ Expired \subseteq Timer /\ Expired \cap fresh = {}
      /\ \A k \in 1..Len(timers) : timers[k] \in Expired => k <= due
  BY ExpiredFacts
<1>2. deferred # << >> =>
        /\ Head(deferred) \in Deferred /\ Tail(deferred) \in Seq(Deferred)
        /\ Len(Tail(deferred)) = Len(deferred) - 1
        /\ Elements(deferred) = {Head(deferred)} \cup Elements(Tail(deferred))
        /\ Distinct(deferred) => Distinct(Tail(deferred)) /\ Head(deferred) \notin Elements(Tail(deferred))
        /\ Head(deferred) = deferred[1]
        /\ \A k \in 1..Len(deferred) - 1 : Tail(deferred)[k] = deferred[k + 1]
  <2>1. deferred \in Seq(Deferred)
    BY DEF TypeOK, BlockInv
  <2> QED  BY ONLY <2>1, TailFacts
<1>3. TypeOK'
  BY <1>1, <1>2, PumpAssumption, ZenonT(30) DEF TypeOK
<1>4. BlockInv'
  BY <1>1, <1>2 DEF TypeOK, BlockInv
<1>5. TimerInv'
  BY <1>1, <1>2 DEF TypeOK, TimerInv
<1>6. ExecInv'
  BY <1>1, <1>2, PumpAssumption DEF TypeOK, ExecInv, Item
<1>7. StopInv'
  BY <1>1, <1>2 DEF TypeOK, StopInv
<1>8. PromiseInv'
  BY <1>1, <1>2 DEF TypeOK, PromiseInv
<1>9. AccountInv'
  BY <1>1, <1>2 DEF TypeOK, AccountInv, Current
<1>10. OnceInv'
  <2>1. CASE queue = << >> /\ deferred # << >> /\ Head(deferred) \notin stale
    <3>1. /\ Current = {} /\ Current' = {Head(deferred)} /\ deferred' = Tail(deferred)
          /\ UNCHANGED <<queue, timers, suspended, history>>
      BY <2>1 DEF Current
    <3> QED  BY <1>2, <2>1, <3>1, PumpAssumption, RangeFacts DEF OnceInv, TypeOK,
                TimerInv, Item, history
  <2>2. CASE ~(queue = << >> /\ deferred # << >> /\ Head(deferred) \notin stale)
    <3>1. Current = {} /\ Current' = {} /\ UNCHANGED <<queue, deferred, timers, suspended, history>>
      BY <2>2 DEF Current
    <3> QED  BY <3>1 DEF OnceInv, history
  <2> QED  BY <2>1, <2>2
<1> QED  BY <1>3, <1>4, <1>5, <1>6, <1>7, <1>8, <1>9, <1>10

\* An expired timer leaves the list; the deadlines that passed are still at the front.
LEMMA WorkerTimersStep ==
  ASSUME IInv, WorkerTimers
  PROVE  IInv'
<1> USE DEF IInv, WorkerTimers, Unlock, Execute, pumpVars, timerVars, loopVars, blockVars,
   history
<1>1. timers # << >> =>
        /\ Head(timers) \in Timer /\ Tail(timers) \in Seq(Timer)
        /\ Len(Tail(timers)) = Len(timers) - 1
        /\ Elements(timers) = {Head(timers)} \cup Elements(Tail(timers))
        /\ Distinct(timers) => Distinct(Tail(timers)) /\ Head(timers) \notin Elements(Tail(timers))
        /\ Head(timers) = timers[1]
        /\ \A k \in 1..Len(timers) - 1 : Tail(timers)[k] = timers[k + 1]
  <2>1. timers \in Seq(Timer)
    BY DEF TypeOK, BlockInv
  <2> QED  BY ONLY <2>1, TailFacts
<1>2. timers # << >> /\ Head(timers) \in now => due >= 1
  BY <1>1 DEF TypeOK, TimerInv
<1>3. TypeOK'
  <2>1. CASE timers # << >> /\ Head(timers) \in now
    <3>1. /\ due' = due - 1 /\ timers' = Tail(timers)
          /\ due \in Nat /\ due <= Len(timers) /\ Len(timers) \in Nat
      BY <2>1 DEF TypeOK
    <3>2. due' \in 0..Len(timers') /\ timers' \in Seq(Timer)
      BY <1>1, <1>2, <2>1, <3>1
    <3> QED  BY <1>1, <2>1, <3>2, PumpAssumption DEF TypeOK
  <2>2. CASE ~(timers # << >> /\ Head(timers) \in now)
    BY <2>2 DEF TypeOK
  <2> QED  BY <2>1, <2>2
<1>4. BlockInv'
  BY <1>1, <1>2 DEF TypeOK, BlockInv
<1>5. TimerInv'
  <2>1. CASE timers # << >> /\ Head(timers) \in now
    <3>1. timers' = Tail(timers) /\ due' = due - 1 /\ UNCHANGED <<now, fresh>>
      BY <2>1
    <3>2. due \in Nat /\ Len(timers) \in Nat
      BY DEF TypeOK
    <3>3. ASSUME NEW k \in 1..Len(timers'), timers'[k] \in now'
          PROVE  k <= due'
      <4>1. k + 1 \in 1..Len(timers) /\ timers[k + 1] \in now
        BY <1>1, <2>1, <3>1, <3>2, <3>3
      <4> QED  BY <3>1, <3>2, <4>1 DEF TimerInv
    <3> QED  BY <1>1, <2>1, <3>1, <3>3 DEF TimerInv
  <2>2. CASE ~(timers # << >> /\ Head(timers) \in now)
    BY <2>2 DEF TimerInv
  <2> QED  BY <2>1, <2>2
<1>6. ExecInv'
  BY <1>1, <1>2, PumpAssumption DEF TypeOK, ExecInv, Item
<1>7. StopInv'
  BY <1>1, <1>2 DEF TypeOK, StopInv
<1>8. PromiseInv'
  BY <1>1, <1>2 DEF TypeOK, PromiseInv
<1>9. AccountInv'
  BY <1>1, <1>2 DEF TypeOK, AccountInv, Current
<1>10. OnceInv'
  <2>1. CASE timers # << >> /\ Head(timers) \in now
    <3>1. /\ Current = {} /\ Current' = {Head(timers)} /\ timers' = Tail(timers)
          /\ UNCHANGED <<queue, deferred, suspended, history>>
      BY <2>1 DEF Current
    <3> QED  BY <1>1, <2>1, <3>1, PumpAssumption, RangeFacts DEF OnceInv, TypeOK,
                TimerInv, Item, history
  <2>2. CASE ~(timers # << >> /\ Head(timers) \in now)
    <3>1. Current = {} /\ Current' = {} /\ UNCHANGED <<queue, deferred, timers, suspended, history>>
      BY <2>2 DEF Current
    <3> QED  BY <3>1 DEF OnceInv, history
  <2> QED  BY <2>1, <2>2
<1> QED  BY <1>3, <1>4, <1>5, <1>6, <1>7, <1>8, <1>9, <1>10

\* A deferred event is new to deferred.
LEMMA DeferStep ==
  ASSUME IInv, NEW d \in Deferred, Defer(d)
  PROVE  IInv'
<1> USE DEF IInv, Defer, pumpVars, timerVars, loopVars, blockVars, history
<1>1. /\ deferred' \in Seq(Deferred) /\ Elements(deferred') = Elements(deferred) \cup {d}
      /\ Distinct(deferred) /\ d \notin Elements(deferred) => Distinct(deferred')
  BY AppendFacts DEF TypeOK
<1>2. TypeOK'
  BY <1>1, PumpAssumption DEF TypeOK
<1>3. BlockInv'
  BY <1>1 DEF TypeOK, BlockInv
<1>4. TimerInv'
  BY <1>1 DEF TypeOK, TimerInv
<1>5. ExecInv'
  BY <1>1, PumpAssumption DEF TypeOK, ExecInv, Item
<1>6. StopInv'
  BY <1>1 DEF TypeOK, StopInv
<1>7. PromiseInv'
  BY <1>1 DEF TypeOK, PromiseInv
<1>8. AccountInv'
  BY <1>1 DEF TypeOK, AccountInv, Current
<1>9. OnceInv'
  BY <1>1, PumpAssumption, RangeFacts DEF TypeOK, OnceInv, Current, Item
<1> QED  BY <1>2, <1>3, <1>4, <1>5, <1>6, <1>7, <1>8, <1>9

\* A timer is armed behind the deadlines that have passed.
LEMMA HandleStep ==
  ASSUME IInv, NEW i \in Timer, Handle(i)
  PROVE  IInv'
<1> USE DEF IInv, Handle, pumpVars, timerVars, loopVars, blockVars, history
<1>1. PICK k \in due..Len(timers) : timers' = InsertAfter(timers, k, i)
  BY DEF Handle
<1>2. /\ timers \in Seq(Timer) /\ Len(timers) \in Nat /\ due \in Nat
      /\ k \in 0..Len(timers) /\ k >= due /\ i \in Timer
  BY DEF TypeOK
<1>3. /\ timers' \in Seq(Timer) /\ Len(timers') = Len(timers) + 1
      /\ Elements(timers') = Elements(timers) \cup {i}
      /\ Distinct(timers) /\ i \notin Elements(timers) => Distinct(timers')
      /\ \A j \in 1..k : timers'[j] = timers[j]
  <2>1. /\ InsertAfter(timers, k, i) \in Seq(Timer)
        /\ Len(InsertAfter(timers, k, i)) = Len(timers) + 1
        /\ Elements(InsertAfter(timers, k, i)) = Elements(timers) \cup {i}
        /\ Distinct(timers) /\ i \notin Elements(timers) => Distinct(InsertAfter(timers, k, i))
        /\ \A j \in 1..k : InsertAfter(timers, k, i)[j] = timers[j]
    <3>1. \A s \in Seq(Timer) : \A n \in 0..Len(s) : \A x \in Timer :
            /\ InsertAfter(s, n, x) \in Seq(Timer)
            /\ Len(InsertAfter(s, n, x)) = Len(s) + 1
            /\ Elements(InsertAfter(s, n, x)) = Elements(s) \cup {x}
            /\ Distinct(s) /\ x \notin Elements(s) => Distinct(InsertAfter(s, n, x))
            /\ \A j \in 1..n : InsertAfter(s, n, x)[j] = s[j]
      BY ONLY InsertFacts, ZenonT(30)
    <3> QED  BY <1>2, <3>1
  <2> QED  BY <1>1, <2>1
<1>4. TypeOK'
  BY <1>1, <1>2, <1>3, PumpAssumption DEF TypeOK
<1>5. BlockInv'
  BY <1>1, <1>2, <1>3 DEF TypeOK, BlockInv
<1>6. TimerInv'
  <2>1. now' = now /\ due' = due /\ fresh' = fresh \ {i} /\ i \in fresh
    OBVIOUS
  <2>2. ASSUME NEW j \in 1..Len(timers'), timers'[j] \in now'
        PROVE  j <= due'
    <3>1. j \in Nat /\ timers'[j] # i
      BY <1>2, <1>3, <2>1, <2>2 DEF TimerInv
    <3>2. PICK m \in 1..Len(timers) : timers[m] = timers'[j]
      BY <1>3, <3>1 DEF Elements
    <3>3. m \in Nat /\ m <= due
      BY <1>2, <2>1, <2>2, <3>2 DEF TimerInv
    <3>4. m \in 1..Len(timers') /\ timers'[m] = timers'[j]
      BY <1>2, <1>3, <3>2, <3>3
    <3>5. Distinct(timers')
      BY <1>3, <2>1 DEF TimerInv
    <3>6. m = j
      BY <3>4, <3>5 DEF Distinct
    <3> QED  BY <2>1, <3>3, <3>6
  <2> QED  BY <1>3, <2>1, <2>2 DEF TimerInv
<1>7. ExecInv'
  BY <1>1, <1>2, <1>3, PumpAssumption DEF TypeOK, ExecInv, Item
<1>8. StopInv'
  BY <1>1, <1>2, <1>3 DEF TypeOK, StopInv
<1>9. PromiseInv'
  BY <1>1, <1>2, <1>3 DEF TypeOK, PromiseInv
<1>10. AccountInv'
  BY <1>1, <1>2, <1>3 DEF TypeOK, AccountInv, Current
<1>11. OnceInv'
  BY <1>1, <1>2, <1>3, PumpAssumption, RangeFacts DEF TypeOK, OnceInv, Current, Item
<1> QED  BY <1>4, <1>5, <1>6, <1>7, <1>8, <1>9, <1>10, <1>11

\* A timer that is removed may be one whose deadline has passed.
LEMMA RemoveStep ==
  ASSUME IInv, NEW i \in Timer, Remove(i)
  PROVE  IInv'
<1> USE DEF IInv, Remove, pumpVars, timerVars, loopVars, blockVars, history
<1>1. PICK k \in 1..Len(timers) : /\ timers[k] = i
                                  /\ timers' = EraseAt(timers, k)
                                  /\ due' = IF k <= due THEN due - 1 ELSE due
  BY DEF Remove
<1>2. /\ timers \in Seq(Timer) /\ Len(timers) \in Nat /\ due \in Nat
      /\ due <= Len(timers) /\ k \in 1..Len(timers) /\ k \in Nat
  BY DEF TypeOK
<1>3. /\ timers' \in Seq(Timer) /\ Len(timers') = Len(timers) - 1
      /\ Elements(timers') \subseteq Elements(timers)
      /\ Distinct(timers) => Distinct(timers')
      /\ \A j \in 1..Len(timers) - 1 : timers'[j] = IF j < k THEN timers[j] ELSE timers[j + 1]
  <2>1. /\ EraseAt(timers, k) \in Seq(Timer) /\ Len(EraseAt(timers, k)) = Len(timers) - 1
        /\ Elements(EraseAt(timers, k)) \subseteq Elements(timers)
        /\ Distinct(timers) => Distinct(EraseAt(timers, k))
        /\ \A j \in 1..Len(timers) - 1 : EraseAt(timers, k)[j] =
             IF j < k THEN timers[j] ELSE timers[j + 1]
    BY ONLY <1>2, EraseFacts
  <2> QED  BY <1>1, <2>1
<1>4. TypeOK'
  BY <1>1, <1>2, <1>3, PumpAssumption DEF TypeOK
<1>5. BlockInv'
  BY <1>1, <1>2, <1>3 DEF TypeOK, BlockInv
<1>6. TimerInv'
  <2>1. UNCHANGED <<now, fresh>>
    OBVIOUS
  <2>2. ASSUME NEW j \in 1..Len(timers'), timers'[j] \in now'
        PROVE  j <= due'
    <3>1. j \in Nat /\ j \in 1..Len(timers) - 1
      BY <1>2, <1>3
    <3>2. CASE j < k
      <4>1. j \in 1..Len(timers) /\ timers[j] \in now
        BY <1>2, <1>3, <2>1, <2>2, <3>1, <3>2
      <4>2. j <= due
        BY <4>1 DEF TimerInv
      <4> QED  BY <1>1, <1>2, <3>1, <3>2, <4>2
    <3>3. CASE ~(j < k)
      <4>1. j + 1 \in 1..Len(timers) /\ timers[j + 1] \in now
        BY <1>2, <1>3, <2>1, <2>2, <3>1, <3>3
      <4>2. j + 1 <= due
        BY <4>1 DEF TimerInv
      <4> QED  BY <1>1, <1>2, <3>1, <3>3, <4>2
    <3> QED  BY <3>2, <3>3
  <2> QED  BY <1>3, <2>1, <2>2 DEF TimerInv
<1>7. ExecInv'
  BY <1>1, <1>2, <1>3, PumpAssumption DEF TypeOK, ExecInv, Item
<1>8. StopInv'
  BY <1>1, <1>2, <1>3 DEF TypeOK, StopInv
<1>9. PromiseInv'
  BY <1>1, <1>2, <1>3 DEF TypeOK, PromiseInv
<1>10. AccountInv'
  BY <1>1, <1>2, <1>3 DEF TypeOK, AccountInv, Current
<1>11. OnceInv'
  BY <1>1, <1>2, <1>3, PumpAssumption, RangeFacts DEF TypeOK, OnceInv, Current, Item
<1> QED  BY <1>4, <1>5, <1>6, <1>7, <1>8, <1>9, <1>10, <1>11

\* The event that blocks is suspended, for the first time.
LEMMA BlockStep ==
  ASSUME IInv, NEW unmet \in SUBSET Deferred, Block(unmet)
  PROVE  IInv'
<1> USE DEF IInv, Block, pumpVars, timerVars, loopVars, blockVars, history
<1>1. /\ DOMAIN suspended' = DOMAIN suspended \cup {cur}
      /\ \A b \in DOMAIN suspended' : suspended'[b] = IF b = cur THEN site ELSE suspended[b]
  OBVIOUS
<1>2. TypeOK'
  BY <1>1 DEF TypeOK
<1>3. BlockInv'
  BY <1>1 DEF TypeOK, BlockInv, Site
<1>4. TimerInv'
  BY <1>1 DEF TypeOK, TimerInv
<1>5. ExecInv'
  BY <1>1 DEF TypeOK, ExecInv
<1>6. StopInv'
  BY <1>1 DEF TypeOK, StopInv
<1>7. PromiseInv'
  BY <1>1 DEF TypeOK, PromiseInv
<1>8. AccountInv'
  BY <1>1 DEF TypeOK, AccountInv, Current
<1>9. OnceInv'
  BY <1>1 DEF TypeOK, OnceInv, Current
<1> QED  BY <1>2, <1>3, <1>4, <1>5, <1>6, <1>7, <1>8, <1>9

\* A blocked event is released once.
LEMMA ReleaseEventStep ==
  ASSUME IInv, NEW b \in Blocker, ReleaseEvent(b)
  PROVE  IInv'
<1> USE DEF IInv, ReleaseEvent, pumpVars, timerVars, loopVars, blockVars, history
<1>1. /\ switch' \in Seq(Blocker) /\ Elements(switch') = Elements(switch) \cup {b}
      /\ Distinct(switch')
  BY AppendFacts DEF TypeOK, BlockInv
<1>2. TypeOK'
  BY <1>1 DEF TypeOK
<1>3. BlockInv'
  BY <1>1 DEF TypeOK, BlockInv
<1>4. TimerInv'
  BY <1>1 DEF TypeOK, TimerInv
<1>5. ExecInv'
  BY <1>1 DEF TypeOK, ExecInv
<1>6. StopInv'
  BY <1>1 DEF TypeOK, StopInv
<1>7. PromiseInv'
  BY <1>1 DEF TypeOK, PromiseInv
<1>8. AccountInv'
  BY <1>1 DEF TypeOK, AccountInv, Current
<1>9. OnceInv'
  BY <1>1 DEF TypeOK, OnceInv, Current
<1> QED  BY <1>2, <1>3, <1>4, <1>5, <1>6, <1>7, <1>8, <1>9

\* An event that returns leaves no cancelled event behind but those it names.
LEMMA ReturnStep ==
  ASSUME IInv, NEW gone \in SUBSET Deferred, NEW unmet \in SUBSET Deferred, Return(gone, unmet)
  PROVE  IInv'
<1> USE DEF IInv, Return, LeftStale, pumpVars, timerVars, loopVars, blockVars, history
<1>1. /\ Expired \subseteq Timer /\ Expired \cap fresh = {}
      /\ \A k \in 1..Len(timers) : timers[k] \in Expired => k <= due
  BY ExpiredFacts
<1>2. /\ deferred' \in Seq(Deferred)
      /\ Elements(deferred') = Elements(deferred) \cap (Deferred \ gone)
      /\ Distinct(deferred) => Distinct(deferred')
  BY KeepFacts DEF Return, TypeOK, Prune
<1>3. TypeOK'
  BY <1>1, <1>2, PumpAssumption DEF TypeOK
<1>4. BlockInv'
  BY <1>1, <1>2 DEF TypeOK, BlockInv
<1>5. TimerInv'
  BY <1>1, <1>2 DEF TypeOK, TimerInv
<1>6. ExecInv'
  BY <1>1, <1>2, PumpAssumption DEF TypeOK, ExecInv, Item
<1>7. StopInv'
  BY <1>1, <1>2 DEF TypeOK, StopInv
<1>8. PromiseInv'
  BY <1>1, <1>2 DEF TypeOK, PromiseInv
<1>9. AccountInv'
  BY <1>1, <1>2 DEF TypeOK, AccountInv, Current
<1>10. OnceInv'
  BY <1>1, <1>2, PumpAssumption, RangeFacts DEF TypeOK, OnceInv, Current, Item
<1> QED  BY <1>3, <1>4, <1>5, <1>6, <1>7, <1>8, <1>9, <1>10

\* One more deadline passes.
LEMMA TickStep ==
  ASSUME IInv, Tick
  PROVE  IInv'
<1> USE DEF IInv, Tick, pumpVars, timerVars, loopVars, blockVars, history
<1>1. TypeOK'
  BY DEF TypeOK
<1>2. BlockInv'
  BY DEF TypeOK, BlockInv
<1>3. TimerInv'
  BY DEF TypeOK, TimerInv
<1>4. ExecInv'
  BY DEF TypeOK, ExecInv
<1>5. StopInv'
  BY DEF TypeOK, StopInv
<1>6. PromiseInv'
  BY DEF TypeOK, PromiseInv
<1>7. AccountInv'
  BY DEF TypeOK, AccountInv, Current
<1>8. OnceInv'
  BY DEF TypeOK, OnceInv, Current
<1> QED  BY <1>1, <1>2, <1>3, <1>4, <1>5, <1>6, <1>7, <1>8

-------------------------------------------------------------------------------
(***************************************************************************)
(* The invariant holds.                                                    *)
(***************************************************************************)
LEMMA InitIInv ==
  ASSUME Init
  PROVE  IInv
<1> USE PumpAssumption, EmptyFacts DEF Init
<1>1. TypeOK
  <2>1. DOMAIN suspended = {}
    OBVIOUS
  <2>2. /\ queue \in Seq(Event) /\ deferred \in Seq(Deferred) /\ timers \in Seq(Timer)
        /\ due \in 0..Len(timers) /\ Elements(deferred) = {} /\ Elements(switch) = {}
    OBVIOUS
  <2>3. apc \in [App -> {"idle", "waiting", "notified", "waited", "stopping", "stopped"}]
    OBVIOUS
  <2> QED  BY <2>1, <2>2, <2>3 DEF TypeOK
<1>2. BlockInv /\ TimerInv
  BY DEF BlockInv, TimerInv
<1>3. ExecInv /\ StopInv /\ PromiseInv
  BY DEF ExecInv, StopInv, PromiseInv
<1>4. AccountInv /\ OnceInv
  BY DEF AccountInv, OnceInv, Current, Item
<1> QED  BY <1>1, <1>2, <1>3, <1>4 DEF IInv

LEMMA StutterIInv ==
  ASSUME IInv, UNCHANGED vars
  PROVE  IInv'
<1> USE DEF vars, pumpVars, timerVars, loopVars, blockVars, history
<1>1. TypeOK' /\ BlockInv' /\ TimerInv' /\ ExecInv'
  BY DEF IInv, TypeOK, BlockInv, TimerInv, ExecInv
<1>2. StopInv' /\ PromiseInv' /\ AccountInv' /\ OnceInv'
  BY DEF IInv, StopInv, PromiseInv, AccountInv, OnceInv, Current
<1> QED  BY <1>1, <1>2 DEF IInv

LEMMA NextIInv ==
  ASSUME IInv, [Next]_vars
  PROVE  IInv'
<1>1. ASSUME NEW a \in App, AppNext(a)
      PROVE  IInv'
  BY <1>1, PostStep, WaitStep, WaitAgainStep, WaitReturnStep, StopStep, StopReturnStep,
     PauseStep, ResumeStep DEF AppNext
<1>2. CASE LoopNext
  BY <1>2, MainTestStep, GateWaitStep, GateWakeStep, GateCallStep, MainFinishStep,
     ContextSwitchStep, LoopTestStep, WorkerLockStep, WorkerWakeStep, WorkerPopStep,
     WorkerDeferStep, WorkerTimersStep DEF LoopNext
<1>3. CASE EventNext
  BY <1>3, DeferStep, HandleStep, RemoveStep, BlockStep, ReleaseEventStep DEF EventNext
<1>4. ASSUME NEW gone \in SUBSET Deferred, NEW unmet \in SUBSET Deferred, Return(gone, unmet)
      PROVE  IInv'
  BY <1>4, ReturnStep
<1>5. CASE Park \/ Spurious \/ Tick
  BY <1>5, ParkStep, SpuriousStep, TickStep
<1>6. CASE Terminated \/ UNCHANGED vars
  BY <1>6, StutterIInv DEF Terminated
<1> QED  BY <1>1, <1>2, <1>3, <1>4, <1>5, <1>6 DEF Next

\* The invariant holds in every state of the pump.
THEOREM Invariance == Spec => []IInv
BY InitIInv, NextIInv, PTL DEF Spec

-------------------------------------------------------------------------------
(***************************************************************************)
(* What it gives.                                                          *)
(***************************************************************************)

\* Every variable has its type and the mutex is held where the code holds it.
THEOREM TypeCorrect == Spec => []TypeOK
<1>1. IInv => TypeOK
  BY DEF IInv
<1> QED  BY <1>1, Invariance, PTL

\* When nobody posts after stop, whatever blocks: the main loop never releases a
\* coroutine that is not blocked (std::terminate), and of the two assertions at its
\* end only the one about blocked coroutines can fail, namely when an event is
\* blocked that nobody released.
MainEndsClean ==
  /\ pc # "terminate"
  /\ pc = "assert" => queue = << >> /\ DOMAIN suspended # {}

THEOREM MainLoopEndsClean ==
  ASSUME "posts_precede_stop" \in Promises
  PROVE  Spec => []MainEndsClean
<1>1. IInv => MainEndsClean
  BY DEF IInv, StopInv, PromiseInv, MainEndsClean
<1> QED  BY <1>1, Invariance, PTL

\* When nobody posts after stop and no event blocks, neither assertion at the end of
\* operator () () fails and the coroutine that exited is never called.
THEOREM AssertionsNeverFail ==
  ASSUME "posts_precede_stop" \in Promises, Blocker = {}
  PROVE  Spec => []AssertionsHold
<1>1. IInv => AssertionsHold
  BY DEF IInv, TypeOK, StopInv, PromiseInv, AssertionsHold
<1> QED  BY <1>1, Invariance, PTL

\* When nobody posts after stop, every event that was posted has been executed to
\* its end when the task of the pump ends, however the events block and release each
\* other.
THEOREM StopDrainsQueue ==
  ASSUME "posts_precede_stop" \in Promises
  PROVE  Spec => []StopDrains
<1>1. ASSUME IInv PROVE StopDrains
  <2>1. pc = "ended" => Elements(queue) = {} /\ Current = {} /\ DOMAIN suspended = {}
    BY <1>1, EmptyFacts DEF IInv, StopInv, PromiseInv, Current
  <2> QED  BY <1>1, <2>1 DEF IInv, AccountInv, StopDrains
<1> QED  BY <1>1, Invariance, PTL

\* No event is executed twice: what starts has not returned, and what returns
\* returns for the first time and is in none of the lists of the pump.
RunsOnce ==
  [][/\ cur' # None /\ cur' # cur => cur' \notin returned
     /\ returned' # returned =>
          cur \notin returned \cup Elements(queue) \cup Elements(deferred)
                      \cup Elements(timers)]_vars

THEOREM EventsRunOnce == Spec => RunsOnce
<1>1. ASSUME IInv, IInv', [Next]_vars
      PROVE  [/\ cur' # None /\ cur' # cur => cur' \notin returned
              /\ returned' # returned =>
                   cur \notin returned \cup Elements(queue) \cup Elements(deferred)
                               \cup Elements(timers)]_vars
  <2>1. ASSUME cur' # None, cur' # cur
        PROVE  pc' = "exec" /\ returned' = returned
    BY <1>1, <2>1 DEF Next, AppNext, Post, Wait, WaitAgain, WaitReturn, Stop,
       StopReturn, Pause, Resume, LoopNext, MainTest, GateWait, GateWake, GateCall,
       MainFinish, ContextSwitch, LoopTest, WorkerLock, WorkerWake, WorkerPop,
       WorkerDefer, WorkerTimers, Execute, EventNext, Defer, Handle, Remove, Block,
       ReleaseEvent, Return, Park, Spurious, Tick, Terminated, vars, pumpVars,
       timerVars, loopVars, blockVars, history
  <2>2. ASSUME returned' # returned
        PROVE  pc = "exec"
    BY <1>1, <2>2 DEF Next, AppNext, Post, Wait, WaitAgain, WaitReturn, Stop,
       StopReturn, Pause, Resume, LoopNext, MainTest, GateWait, GateWake, GateCall,
       MainFinish, ContextSwitch, LoopTest, WorkerLock, WorkerWake, WorkerPop,
       WorkerDefer, WorkerTimers, Execute, EventNext, Defer, Handle, Remove, Block,
       ReleaseEvent, Return, Park, Spurious, Tick, Terminated, vars, pumpVars,
       timerVars, loopVars, blockVars, history
  <2> QED  BY <1>1, <2>1, <2>2, PumpAssumption, RangeFacts DEF IInv, OnceInv, Current
<1> QED  BY <1>1, Invariance, PTL DEF Spec, RunsOnce

\* A caller of wait is let go only when no event is being executed, or one that was
\* blocked before: executing is false from the moment such an event goes on.
WaitMeansIdleOrBlocked ==
  [][\A a \in App : apc[a] # "waited" /\ apc'[a] = "waited"
       => pc # "exec" \/ cur \in Blocker \ fresh]_vars

\* The change of a caller of wait to waited tests Idle.
LEMMA WaitedMeansIdle ==
  ASSUME IInv, Next, NEW b \in App, apc[b] # "waited", apc'[b] = "waited"
  PROVE  ~executing
<1>1. ASSUME NEW a \in App, AppNext(a)
      PROVE  ~executing
  BY <1>1 DEF AppNext, Post, Wait, WaitAgain, WaitReturn, Stop, StopReturn, Pause, Resume,
     Idle,
     IInv, TypeOK
<1>2. CASE LoopNext
  BY <1>2 DEF LoopNext, MainTest, GateWait, GateWake, GateCall, MainFinish, ContextSwitch,
     LoopTest,
     WorkerLock, WorkerWake, WorkerPop, WorkerDefer, WorkerTimers
<1>3. CASE EventNext
  BY <1>3 DEF EventNext, Defer, Handle, Remove, Block, ReleaseEvent
<1>4. ASSUME NEW gone \in SUBSET Deferred, NEW unmet \in SUBSET Deferred, Return(gone, unmet)
      PROVE  ~executing
  BY <1>4 DEF Return
<1>5. CASE Park \/ Spurious \/ Tick \/ Terminated
  BY <1>5 DEF Park, Spurious, Tick, Terminated, vars
<1> QED  BY <1>1, <1>2, <1>3, <1>4, <1>5 DEF Next

THEOREM WaitLetsGoWhenIdle == Spec => WaitMeansIdleOrBlocked
<1>1. ASSUME IInv, [Next]_vars
      PROVE  [\A a \in App : apc[a] # "waited" /\ apc'[a] = "waited"
                => pc # "exec" \/ cur \in Blocker \ fresh]_vars
  BY <1>1, WaitedMeansIdle DEF IInv, ExecInv
<1> QED  BY <1>1, Invariance, PTL DEF Spec, WaitMeansIdleOrBlocked

\* When no event blocks, wait lets nobody go while an event is being executed.
THEOREM WaitIsIdle ==
  ASSUME Blocker = {}
  PROVE  Spec => WaitMeansIdle
<1>1. ASSUME IInv, [Next]_vars
      PROVE  [\A a \in App : apc[a] # "waited" /\ apc'[a] = "waited" => pc # "exec"]_vars
  BY <1>1, WaitedMeansIdle DEF IInv, ExecInv
<1> QED  BY <1>1, Invariance, PTL DEF Spec, WaitMeansIdle
===============================================================================
