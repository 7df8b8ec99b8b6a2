----------------------------- MODULE ContextProofs -----------------------------
(***************************************************************************)
(* Proofs about Context, for any set of contexts.                          *)
(*                                                                         *)
(* The properties of Context are not inductive: that do_release finds its  *)
(* context BLOCKED depends on who holds which mutex (MutexInv), on who has *)
(* control and where the others are meanwhile (ControlInv, ZeroInv), and   *)
(* on what the context that an operation is about may do until the         *)
(* operation gets to it (ArgInv).  WaitInv adds that nobody waits for what *)
(* has already happened.                                                   *)
(***************************************************************************)
EXTENDS Context, TLAPS

\* Places where a thread executes the pump's code or an operation of context.
Executing == {"run", "ctor", "yield", "yield_release", "call", "finish", "notify",
              "join", "end"}

\* Places where a thread is in do_block, to be released or finished.
Resting == {"parked", "yielded", "called"}

\* The context is being destroyed by the thread that has control.
Doomed(x) == pc[active] \in {"notify", "join"} /\ arg[active] = x

\* One thread has control.  It executes, or was released and has yet to wake
\* up; every other thread is blocked or on its way to block.
ControlInv ==
  /\ \A h \in Thread : pc[h] \in Executing => h = active
  /\ pc[active] \in Executing \cup Resting
  /\ \A h \in Thread : pc[h] \in Resting =>
       \/ h = active /\ state[h] = "RELEASED"
       \/ h # active /\ state[h] = "BLOCKED"
       \/ h # active /\ state[h] = "FINAL"

\* The state of a context, by the place its thread has reached.
StateInv ==
  \A x \in Ctx :
    /\ pc[x] \notin {"call", "call_block", "called", "end"}
    /\ pc[x] \in Executing \cup {"yield_block"} => state[x] = "RELEASED"
    /\ pc[x] = "relock" => state[x] \in {"RELEASED", "FINAL"}
    /\ pc[x] = "done" => state[x] = "FINAL"
    /\ state[x] = "FINAL" => pc[x] = "done" \/ Doomed(x)

\* The main thread is inside call while a context has control.
ZeroInv ==
  /\ pc[Zero] \in {"run", "ctor", "call", "call_block", "called", "finish", "notify",
                   "join", "end"}
  /\ state[Zero] # "FINAL"
  /\ active # Zero /\ pc[active] \in Executing => pc[Zero] = "called"
  /\ active # Zero => pc[Zero] \in {"call_block", "called"}
  /\ pc[Zero] = "call_block" =>
       arg[Zero] \in Ctx /\ active = arg[Zero] /\ pc[active] \in Resting

\* Who holds a context's mutex while it is not executing a critical section
\* that is one action: yield its own, call that of the context it released.
MutexInv ==
  \A x \in Thread :
    mutex[x] = IF pc[x] \in {"yield_release", "yield_block"} THEN x
               ELSE IF pc[Zero] = "call_block" /\ arg[Zero] = x THEN Zero
               ELSE None

\* Where the context is that the current operation is about.
ArgInv ==
  /\ pc[active] \in Executing \ {"run", "end"} => arg[active] \in Ctx \ {active}
  /\ pc[active] = "ctor" => pc[arg[active]] \in {"start", "parked"}
  /\ pc[active] \in {"yield", "yield_release", "call"} =>
       pc[arg[active]] \in {"parked", "yielded", "yield_block"}
  /\ pc[active] = "finish" =>
       pc[arg[active]] \in {"parked", "yielded", "yield_block", "relock"}
  /\ pc[active] \in {"notify", "join"} =>
       /\ pc[arg[active]] \in {"parked", "yielded", "relock", "done"}
       /\ state[arg[active]] = "FINAL"
  /\ \A x \in Thread : pc[x] = "start" => pc[active] = "ctor" /\ arg[active] = x

\* A thread waits in do_block or in the constructor.
WaitInv ==
  /\ \A h \in Thread : waits[h] # None =>
       \/ pc[h] \in Resting /\ waits[h] = h
       \/ pc[h] = "ctor" /\ waits[h] = arg[h]

\* No notification is lost: a thread that was released, the constructor of a
\* context that has blocked and the thread of a context that was finished do
\* not wait un-notified, whatever woke up spuriously in between.
NoLostWakeup ==
  /\ pc[active] \in Resting => waits[active] = None
  /\ pc[active] = "ctor" /\ state[arg[active]] = "BLOCKED" => waits[active] = None
  /\ pc[active] = "join" => waits[arg[active]] = None

IInv ==
  /\ TypeOK
  /\ ReleaseFindsBlocked
  /\ ControlInv
  /\ StateInv
  /\ ZeroInv
  /\ MutexInv
  /\ ArgInv
  /\ WaitInv
  /\ NoLostWakeup

-------------------------------------------------------------------------------
\* notify_one clears the wait of the one thread that waits, if any does.
LEMMA NotifyOneFacts ==
  ASSUME TypeOK, NEW x \in Thread, NEW w \in NotifyOne(x),
         \A g, k \in Thread : waits[g] = x /\ waits[k] = x => g = k
  PROVE  /\ w \in [Thread -> Thread \cup {None}]
         /\ \A g \in Thread : w[g] = IF waits[g] = x THEN None ELSE waits[g]
<1>1. CASE Waiters(x) = {}
  BY <1>1 DEF NotifyOne, Waiters, TypeOK
<1>2. CASE Waiters(x) # {}
  <2>1. PICK k \in Waiters(x) : w = [waits EXCEPT ![k] = None]
    BY <1>2 DEF NotifyOne
  <2>2. k \in Thread /\ \A g \in Thread : waits[g] = x <=> g = k
    BY <2>1 DEF Waiters
  <2> QED  BY <2>1, <2>2 DEF TypeOK
<1> QED  BY <1>1, <1>2

\* The constructor starts a thread; nobody else can be constructing.
LEMMA CreateStep ==
  ASSUME IInv, NEW h \in Thread, NEW y \in Ctx, Create(h, y)
  PROVE  IInv'
<1> USE ContextAssumption DEF Thread, Executing, Resting, Doomed
<1>1. /\ TypeOK /\ ReleaseFindsBlocked /\ ControlInv /\ StateInv /\ ZeroInv
      /\ MutexInv /\ ArgInv /\ WaitInv /\ NoLostWakeup
      /\ active \in Thread
  BY DEF IInv, TypeOK
<1>2. /\ h = active /\ pc[h] = "run" /\ pc[y] = "none" /\ y # h
      /\ \A g \in Thread : pc[g] # "start"
  BY <1>1 DEF Create, ControlInv, ArgInv
<1>3. /\ \A g \in Thread : /\ pc'[g] = IF g = h THEN "ctor" ELSE IF g = y THEN "start"
                                              ELSE pc[g]
                           /\ arg'[g] = IF g = h THEN y ELSE arg[g]
      /\ UNCHANGED <<state, mutex, waits, active>>
  BY <1>1, <1>2 DEF Create, Goto, TypeOK
<1>4. TypeOK'
  BY <1>1, <1>2, <1>3 DEF TypeOK, Create, Goto
<1>5. ReleaseFindsBlocked'
  BY <1>1, <1>2, <1>3 DEF ReleaseFindsBlocked
<1>6. ControlInv'
  BY <1>1, <1>2, <1>3 DEF ControlInv
<1>7. StateInv'
  BY <1>1, <1>2, <1>3 DEF StateInv
<1>8. ZeroInv'
  BY <1>1, <1>2, <1>3 DEF ZeroInv
<1>9. MutexInv'
  BY <1>1, <1>2, <1>3 DEF MutexInv
<1>10. ArgInv'
  BY <1>1, <1>2, <1>3 DEF ArgInv
<1>11. WaitInv'
  BY <1>1, <1>2, <1>3 DEF WaitInv
<1>12. NoLostWakeup'
  BY <1>1, <1>2, <1>3 DEF NoLostWakeup, WaitInv, ControlInv, ArgInv
<1> QED BY <1>4, <1>5, <1>6, <1>7, <1>8, <1>9, <1>10, <1>11, <1>12 DEF IInv

\* The constructor waits only while its context has not blocked.
LEMMA CtorWaitStep ==
  ASSUME IInv, NEW h \in Thread, CtorWait(h)
  PROVE  IInv'
<1> USE ContextAssumption DEF Thread, Executing, Resting, Doomed
<1>1. /\ TypeOK /\ ReleaseFindsBlocked /\ ControlInv /\ StateInv /\ ZeroInv
      /\ MutexInv /\ ArgInv /\ WaitInv /\ NoLostWakeup
      /\ active \in Thread
  BY DEF IInv, TypeOK
<1>2. h = active /\ pc[h] = "ctor" /\ arg[h] \in Ctx \ {h} /\ state[arg[h]] # "BLOCKED"
  BY <1>1 DEF CtorWait, ControlInv, ArgInv
<1>3. /\ \A g \in Thread : waits'[g] = IF g = h THEN arg[h] ELSE waits[g]
      /\ UNCHANGED <<state, mutex, pc, arg, active>>
  BY <1>1, <1>2 DEF CtorWait, Goto, TypeOK
<1>4. TypeOK'
  BY <1>1, <1>2, <1>3 DEF TypeOK, CtorWait, Goto
<1>5. ReleaseFindsBlocked'
  BY <1>1, <1>2, <1>3 DEF ReleaseFindsBlocked
<1>6. ControlInv'
  BY <1>1, <1>2, <1>3 DEF ControlInv
<1>7. StateInv'
  BY <1>1, <1>2, <1>3 DEF StateInv
<1>8. ZeroInv'
  BY <1>1, <1>2, <1>3 DEF ZeroInv
<1>9. MutexInv'
  BY <1>1, <1>2, <1>3 DEF MutexInv
<1>10. ArgInv'
  BY <1>1, <1>2, <1>3 DEF ArgInv
<1>11. WaitInv'
  BY <1>1, <1>2, <1>3 DEF WaitInv
<1>12. NoLostWakeup'
  BY <1>1, <1>2, <1>3 DEF NoLostWakeup
<1> QED BY <1>4, <1>5, <1>6, <1>7, <1>8, <1>9, <1>10, <1>11, <1>12 DEF IInv

\* The constructor returns when the thread of its context has parked.
LEMMA CtorReturnStep ==
  ASSUME IInv, NEW h \in Thread, CtorReturn(h)
  PROVE  IInv'
<1> USE ContextAssumption DEF Thread, Executing, Resting, Doomed
<1>1. /\ TypeOK /\ ReleaseFindsBlocked /\ ControlInv /\ StateInv /\ ZeroInv
      /\ MutexInv /\ ArgInv /\ WaitInv /\ NoLostWakeup
      /\ active \in Thread
  BY DEF IInv, TypeOK
<1>2. /\ h = active /\ pc[h] = "ctor" /\ arg[h] \in Ctx \ {h} /\ waits[h] = None
      /\ pc[arg[h]] = "parked" /\ \A g \in Thread : pc[g] # "start"
  BY <1>1 DEF CtorReturn, ControlInv, ArgInv, TypeOK
<1>3. /\ \A g \in Thread : pc'[g] = IF g = h THEN "run" ELSE pc[g]
      /\ UNCHANGED <<state, mutex, waits, arg, active>>
  BY <1>1, <1>2 DEF CtorReturn, Goto, TypeOK
<1>4. TypeOK'
  BY <1>1, <1>2, <1>3 DEF TypeOK, CtorReturn, Goto
<1>5. ReleaseFindsBlocked'
  BY <1>1, <1>2, <1>3 DEF ReleaseFindsBlocked
<1>6. ControlInv'
  BY <1>1, <1>2, <1>3 DEF ControlInv
<1>7. StateInv'
  BY <1>1, <1>2, <1>3 DEF StateInv
<1>8. ZeroInv'
  BY <1>1, <1>2, <1>3 DEF ZeroInv
<1>9. MutexInv'
  BY <1>1, <1>2, <1>3 DEF MutexInv
<1>10. ArgInv'
  BY <1>1, <1>2, <1>3 DEF ArgInv
<1>11. WaitInv'
  BY <1>1, <1>2, <1>3 DEF WaitInv
<1>12. NoLostWakeup'
  BY <1>1, <1>2, <1>3 DEF NoLostWakeup
<1> QED BY <1>4, <1>5, <1>6, <1>7, <1>8, <1>9, <1>10, <1>11, <1>12 DEF IInv

\* A thread parks, and wakes up the constructor that may wait for it.
LEMMA ParkStep ==
  ASSUME IInv, NEW x \in Thread, Park(x)
  PROVE  IInv'
<1> USE ContextAssumption DEF Thread, Executing, Resting, Doomed
<1>1. /\ TypeOK /\ ReleaseFindsBlocked /\ ControlInv /\ StateInv /\ ZeroInv
      /\ MutexInv /\ ArgInv /\ WaitInv /\ NoLostWakeup
      /\ active \in Thread
  BY DEF IInv, TypeOK
<1>2. /\ pc[x] \in {"start", "relock"} /\ state[x] # "FINAL"
      /\ x # active /\ x \in Ctx /\ waits[x] = None
  BY <1>1 DEF Park, ControlInv, ZeroInv, WaitInv
<1>3. /\ pc[x] = "start" => pc[active] = "ctor" /\ arg[active] = x
      /\ pc[active] = "ctor" /\ arg[active] = x => pc[x] = "start"
  BY <1>1, <1>2 DEF ArgInv
<1>4. \A g \in Thread : waits[g] = x => g = active /\ pc[x] = "start"
  BY <1>1, <1>2, <1>3 DEF ControlInv, WaitInv
<1>5. /\ waits' \in [Thread -> Thread \cup {None}]
      /\ \A g \in Thread : /\ pc'[g] = IF g = x THEN "parked" ELSE pc[g]
                           /\ state'[g] = IF g = x THEN "BLOCKED" ELSE state[g]
                           /\ waits'[g] = IF g = x THEN x
                                              ELSE IF waits[g] = x THEN None ELSE waits[g]
      /\ UNCHANGED <<mutex, arg, active>>
  <2>1. PICK w \in NotifyOne(x) : waits' = [w EXCEPT ![x] = x]
    BY DEF Park
  <2>2. /\ w \in [Thread -> Thread \cup {None}]
        /\ \A g \in Thread : w[g] = IF waits[g] = x THEN None ELSE waits[g]
    <3>1. TypeOK /\ x \in Thread
      BY <1>1
    <3>2. \A g, k \in Thread : waits[g] = x /\ waits[k] = x => g = k
      BY <1>4
    <3> QED  BY <1>4, <2>1, <3>1, <3>2, NotifyOneFacts
  <2> QED  BY <1>1, <2>1, <2>2 DEF Park, Goto, TypeOK
<1>6. TypeOK'
  BY <1>1, <1>2, <1>3, <1>4, <1>5 DEF TypeOK, Park, Goto
<1>7. ReleaseFindsBlocked'
  BY <1>1, <1>2, <1>3, <1>4, <1>5 DEF ReleaseFindsBlocked
<1>8. ControlInv'
  BY <1>1, <1>2, <1>3, <1>4, <1>5 DEF ControlInv
<1>9. StateInv'
  BY <1>1, <1>2, <1>3, <1>4, <1>5 DEF StateInv
<1>10. ZeroInv'
  BY <1>1, <1>2, <1>3, <1>4, <1>5 DEF ZeroInv
<1>11. MutexInv'
  BY <1>1, <1>2, <1>3, <1>4, <1>5 DEF MutexInv
<1>12. ArgInv'
  BY <1>1, <1>2, <1>3, <1>4, <1>5 DEF ArgInv
<1>13. WaitInv'
  BY <1>1, <1>2, <1>3, <1>4, <1>5 DEF WaitInv
<1>14. NoLostWakeup'
  BY <1>1, <1>2, <1>3, <1>4, <1>5 DEF NoLostWakeup, WaitInv, ControlInv, ArgInv
<1> QED BY <1>6, <1>7, <1>8, <1>9, <1>10, <1>11, <1>12, <1>13, <1>14 DEF IInv

\* Only the thread of a context that is being destroyed ends.
LEMMA ThreadEndStep ==
  ASSUME IInv, NEW x \in Thread, ThreadEnd(x)
  PROVE  IInv'
<1> USE ContextAssumption DEF Thread, Executing, Resting, Doomed
<1>1. /\ TypeOK /\ ReleaseFindsBlocked /\ ControlInv /\ StateInv /\ ZeroInv
      /\ MutexInv /\ ArgInv /\ WaitInv /\ NoLostWakeup
      /\ active \in Thread
  BY DEF IInv, TypeOK
<1>2. /\ x \in Ctx /\ x # active /\ Doomed(x) /\ pc[x] = "relock"
      /\ waits[x] = None /\ state[x] = "FINAL"
  BY <1>1 DEF ThreadEnd, ControlInv, StateInv, ZeroInv, WaitInv
<1>3. /\ \A g \in Thread : pc'[g] = IF g = x THEN "done" ELSE pc[g]
      /\ UNCHANGED <<state, mutex, waits, arg, active>>
  BY <1>1, <1>2 DEF ThreadEnd, Goto, TypeOK
<1>4. TypeOK'
  BY <1>1, <1>2, <1>3 DEF TypeOK, ThreadEnd, Goto
<1>5. ReleaseFindsBlocked'
  BY <1>1, <1>2, <1>3 DEF ReleaseFindsBlocked
<1>6. ControlInv'
  BY <1>1, <1>2, <1>3 DEF ControlInv
<1>7. StateInv'
  BY <1>1, <1>2, <1>3 DEF StateInv
<1>8. ZeroInv'
  BY <1>1, <1>2, <1>3 DEF ZeroInv
<1>9. MutexInv'
  BY <1>1, <1>2, <1>3 DEF MutexInv
<1>10. ArgInv'
  BY <1>1, <1>2, <1>3 DEF ArgInv
<1>11. WaitInv'
  BY <1>1, <1>2, <1>3 DEF WaitInv
<1>12. NoLostWakeup'
  BY <1>1, <1>2, <1>3 DEF NoLostWakeup
<1> QED BY <1>4, <1>5, <1>6, <1>7, <1>8, <1>9, <1>10, <1>11, <1>12 DEF IInv

\* A thread that has not been released goes on waiting.
LEMMA WakeBlockedStep ==
  ASSUME IInv, NEW x \in Thread, WakeBlocked(x)
  PROVE  IInv'
<1> USE ContextAssumption DEF Thread, Executing, Resting, Doomed
<1>1. /\ TypeOK /\ ReleaseFindsBlocked /\ ControlInv /\ StateInv /\ ZeroInv
      /\ MutexInv /\ ArgInv /\ WaitInv /\ NoLostWakeup
      /\ active \in Thread
  BY DEF IInv, TypeOK
<1>2. x # active /\ pc[x] \in Resting /\ state[x] = "BLOCKED"
  BY <1>1 DEF WakeBlocked, ControlInv
<1>3. /\ \A g \in Thread : waits'[g] = IF g = x THEN x ELSE waits[g]
      /\ UNCHANGED <<state, mutex, pc, arg, active>>
  BY <1>1, <1>2 DEF WakeBlocked, Goto, TypeOK
<1>4. TypeOK'
  BY <1>1, <1>2, <1>3 DEF TypeOK, WakeBlocked, Goto
<1>5. ReleaseFindsBlocked'
  BY <1>1, <1>2, <1>3 DEF ReleaseFindsBlocked
<1>6. ControlInv'
  BY <1>1, <1>2, <1>3 DEF ControlInv
<1>7. StateInv'
  BY <1>1, <1>2, <1>3 DEF StateInv
<1>8. ZeroInv'
  BY <1>1, <1>2, <1>3 DEF ZeroInv
<1>9. MutexInv'
  BY <1>1, <1>2, <1>3 DEF MutexInv
<1>10. ArgInv'
  BY <1>1, <1>2, <1>3 DEF ArgInv
<1>11. WaitInv'
  BY <1>1, <1>2, <1>3 DEF WaitInv
<1>12. NoLostWakeup'
  BY <1>1, <1>2, <1>3 DEF NoLostWakeup, ControlInv, StateInv, ArgInv
<1> QED BY <1>4, <1>5, <1>6, <1>7, <1>8, <1>9, <1>10, <1>11, <1>12 DEF IInv

\* The thread that wakes up released is the one that control was handed to.
LEMMA WakeReleasedStep ==
  ASSUME IInv, NEW x \in Thread, WakeReleased(x)
  PROVE  IInv'
<1> USE ContextAssumption DEF Thread, Executing, Resting, Doomed
<1>1. /\ TypeOK /\ ReleaseFindsBlocked /\ ControlInv /\ StateInv /\ ZeroInv
      /\ MutexInv /\ ArgInv /\ WaitInv /\ NoLostWakeup
      /\ active \in Thread
  BY DEF IInv, TypeOK
<1>2. /\ x = active /\ pc[x] \in Resting /\ state[x] = "RELEASED" /\ waits[x] = None
      /\ active # Zero => pc[Zero] = "called"
      /\ \A g \in Thread : pc[g] # "start"
  BY <1>1 DEF WakeReleased, ControlInv, ZeroInv, MutexInv, ArgInv
<1>3. /\ \A g \in Thread : pc'[g] = IF g = x THEN "run" ELSE pc[g]
      /\ UNCHANGED <<state, mutex, waits, arg, active>>
  BY <1>1, <1>2 DEF WakeReleased, Goto, TypeOK
<1>4. TypeOK'
  BY <1>1, <1>2, <1>3 DEF TypeOK, WakeReleased, Goto
<1>5. ReleaseFindsBlocked'
  BY <1>1, <1>2, <1>3 DEF ReleaseFindsBlocked
<1>6. ControlInv'
  BY <1>1, <1>2, <1>3 DEF ControlInv
<1>7. StateInv'
  BY <1>1, <1>2, <1>3 DEF StateInv
<1>8. ZeroInv'
  BY <1>1, <1>2, <1>3 DEF ZeroInv
<1>9. MutexInv'
  BY <1>1, <1>2, <1>3 DEF MutexInv
<1>10. ArgInv'
  BY <1>1, <1>2, <1>3 DEF ArgInv
<1>11. WaitInv'
  BY <1>1, <1>2, <1>3 DEF WaitInv
<1>12. NoLostWakeup'
  BY <1>1, <1>2, <1>3 DEF NoLostWakeup
<1> QED BY <1>4, <1>5, <1>6, <1>7, <1>8, <1>9, <1>10, <1>11, <1>12 DEF IInv

\* forced_unwind: the thread of a context that is being destroyed.
LEMMA WakeFinalStep ==
  ASSUME IInv, NEW x \in Thread, WakeFinal(x)
  PROVE  IInv'
<1> USE ContextAssumption DEF Thread, Executing, Resting, Doomed
<1>1. /\ TypeOK /\ ReleaseFindsBlocked /\ ControlInv /\ StateInv /\ ZeroInv
      /\ MutexInv /\ ArgInv /\ WaitInv /\ NoLostWakeup
      /\ active \in Thread
  BY DEF IInv, TypeOK
<1>2. /\ x \in Ctx /\ x # active /\ Doomed(x) /\ waits[x] = None /\ state[x] = "FINAL"
      /\ pc[x] \in {"parked", "yielded"}
  BY <1>1 DEF WakeFinal, ControlInv, StateInv, ZeroInv
<1>3. /\ \A g \in Thread : pc'[g] = IF g = x THEN IF pc[x] = "parked" THEN "done"
                                                  ELSE "relock"
                                     ELSE pc[g]
      /\ UNCHANGED <<state, mutex, waits, arg, active>>
  BY <1>1, <1>2 DEF WakeFinal, Goto, TypeOK
<1>4. TypeOK'
  BY <1>1, <1>2, <1>3 DEF TypeOK, WakeFinal, Goto
<1>5. ReleaseFindsBlocked'
  BY <1>1, <1>2, <1>3 DEF ReleaseFindsBlocked
<1>6. ControlInv'
  BY <1>1, <1>2, <1>3 DEF ControlInv
<1>7. StateInv'
  BY <1>1, <1>2, <1>3 DEF StateInv
<1>8. ZeroInv'
  BY <1>1, <1>2, <1>3 DEF ZeroInv
<1>9. MutexInv'
  BY <1>1, <1>2, <1>3 DEF MutexInv
<1>10. ArgInv'
  BY <1>1, <1>2, <1>3 DEF ArgInv
<1>11. WaitInv'
  BY <1>1, <1>2, <1>3 DEF WaitInv
<1>12. NoLostWakeup'
  BY <1>1, <1>2, <1>3 DEF NoLostWakeup
<1> QED BY <1>4, <1>5, <1>6, <1>7, <1>8, <1>9, <1>10, <1>11, <1>12 DEF IInv

\* A spurious wake-up ends a wait and changes nothing else.
LEMMA SpuriousStep ==
  ASSUME IInv, NEW h \in Thread, Spurious(h)
  PROVE  IInv'
<1> USE ContextAssumption DEF Thread, Executing, Resting, Doomed
<1>1. /\ TypeOK /\ ReleaseFindsBlocked /\ ControlInv /\ StateInv /\ ZeroInv
      /\ MutexInv /\ ArgInv /\ WaitInv /\ NoLostWakeup
      /\ active \in Thread
  BY DEF IInv, TypeOK
<1>2. /\ \A g \in Thread : waits'[g] = IF g = h THEN None ELSE waits[g]
      /\ UNCHANGED <<state, mutex, pc, arg, active>>
  BY <1>1 DEF Spurious, Goto, TypeOK
<1>3. TypeOK'
  BY <1>1, <1>2 DEF TypeOK, Spurious, Goto
<1>4. ReleaseFindsBlocked'
  BY <1>1, <1>2 DEF ReleaseFindsBlocked
<1>5. ControlInv'
  BY <1>1, <1>2 DEF ControlInv
<1>6. StateInv'
  BY <1>1, <1>2 DEF StateInv
<1>7. ZeroInv'
  BY <1>1, <1>2 DEF ZeroInv
<1>8. MutexInv'
  BY <1>1, <1>2 DEF MutexInv
<1>9. ArgInv'
  BY <1>1, <1>2 DEF ArgInv
<1>10. WaitInv'
  BY <1>1, <1>2 DEF WaitInv
<1>11. NoLostWakeup'
  BY <1>1, <1>2 DEF NoLostWakeup, ControlInv, StateInv, ArgInv
<1> QED BY <1>3, <1>4, <1>5, <1>6, <1>7, <1>8, <1>9, <1>10, <1>11 DEF IInv

\* A context that is not the running one and did not exit is blocked, or about to block.
LEMMA YieldStep ==
  ASSUME IInv, NEW x \in Thread, NEW y \in Ctx, Yield(x, y)
  PROVE  IInv'
<1> USE ContextAssumption DEF Thread, Executing, Resting, Doomed
<1>1. /\ TypeOK /\ ReleaseFindsBlocked /\ ControlInv /\ StateInv /\ ZeroInv
      /\ MutexInv /\ ArgInv /\ WaitInv /\ NoLostWakeup
      /\ active \in Thread
  BY DEF IInv, TypeOK
<1>2. /\ x = active /\ x \in Ctx /\ x # y /\ pc[x] = "run"
      /\ \A g \in Thread : pc[g] # "start"
  BY <1>1 DEF Yield, ControlInv, ArgInv
<1>3. pc[y] \in {"parked", "yielded", "yield_block"}
  BY <1>1, <1>2 DEF Yield, Resumable, Exists, ControlInv, StateInv,
     ReleaseFindsBlocked, TypeOK
<1>4. /\ \A g \in Thread : /\ pc'[g] = IF g = x THEN "yield" ELSE pc[g]
                           /\ arg'[g] = IF g = x THEN y ELSE arg[g]
      /\ UNCHANGED <<state, mutex, waits, active>>
  BY <1>1, <1>2, <1>3 DEF Yield, Goto, TypeOK
<1>5. TypeOK'
  BY <1>1, <1>2, <1>3, <1>4 DEF TypeOK, Yield, Goto
<1>6. ReleaseFindsBlocked'
  BY <1>1, <1>2, <1>3, <1>4 DEF ReleaseFindsBlocked
<1>7. ControlInv'
  BY <1>1, <1>2, <1>3, <1>4 DEF ControlInv
<1>8. StateInv'
  BY <1>1, <1>2, <1>3, <1>4 DEF StateInv
<1>9. ZeroInv'
  BY <1>1, <1>2, <1>3, <1>4 DEF ZeroInv
<1>10. MutexInv'
  BY <1>1, <1>2, <1>3, <1>4 DEF MutexInv
<1>11. ArgInv'
  BY <1>1, <1>2, <1>3, <1>4 DEF ArgInv
<1>12. WaitInv'
  BY <1>1, <1>2, <1>3, <1>4 DEF WaitInv
<1>13. NoLostWakeup'
  BY <1>1, <1>2, <1>3, <1>4 DEF NoLostWakeup
<1> QED BY <1>5, <1>6, <1>7, <1>8, <1>9, <1>10, <1>11, <1>12, <1>13 DEF IInv

\* yield takes its own mutex.
LEMMA YieldLockStep ==
  ASSUME IInv, NEW x \in Thread, YieldLock(x)
  PROVE  IInv'
<1> USE ContextAssumption DEF Thread, Executing, Resting, Doomed
<1>1. /\ TypeOK /\ ReleaseFindsBlocked /\ ControlInv /\ StateInv /\ ZeroInv
      /\ MutexInv /\ ArgInv /\ WaitInv /\ NoLostWakeup
      /\ active \in Thread
  BY DEF IInv, TypeOK
<1>2. /\ x = active /\ x \in Ctx /\ pc[x] = "yield" /\ arg[x] \in Ctx \ {x}
      /\ \A g \in Thread : pc[g] # "start"
  BY <1>1 DEF YieldLock, ControlInv, ZeroInv, ArgInv
<1>3. /\ \A g \in Thread : /\ pc'[g] = IF g = x THEN "yield_release" ELSE pc[g]
                           /\ mutex'[g] = IF g = x THEN x ELSE mutex[g]
      /\ UNCHANGED <<state, waits, arg, active>>
  BY <1>1, <1>2 DEF YieldLock, Goto, TypeOK
<1>4. TypeOK'
  BY <1>1, <1>2, <1>3 DEF TypeOK, YieldLock, Goto
<1>5. ReleaseFindsBlocked'
  BY <1>1, <1>2, <1>3 DEF ReleaseFindsBlocked
<1>6. ControlInv'
  BY <1>1, <1>2, <1>3 DEF ControlInv
<1>7. StateInv'
  BY <1>1, <1>2, <1>3 DEF StateInv
<1>8. ZeroInv'
  BY <1>1, <1>2, <1>3 DEF ZeroInv
<1>9. MutexInv'
  BY <1>1, <1>2, <1>3 DEF MutexInv
<1>10. ArgInv'
  BY <1>1, <1>2, <1>3 DEF ArgInv
<1>11. WaitInv'
  BY <1>1, <1>2, <1>3 DEF WaitInv
<1>12. NoLostWakeup'
  BY <1>1, <1>2, <1>3 DEF NoLostWakeup
<1> QED BY <1>4, <1>5, <1>6, <1>7, <1>8, <1>9, <1>10, <1>11, <1>12 DEF IInv

\* The mutex of the successor is free, so it has blocked: control is handed over.
LEMMA YieldReleaseStep ==
  ASSUME IInv, NEW x \in Thread, YieldRelease(x)
  PROVE  IInv'
<1> USE ContextAssumption DEF Thread, Executing, Resting, Doomed
<1>1. /\ TypeOK /\ ReleaseFindsBlocked /\ ControlInv /\ StateInv /\ ZeroInv
      /\ MutexInv /\ ArgInv /\ WaitInv /\ NoLostWakeup
      /\ active \in Thread
  BY DEF IInv, TypeOK
<1>2. /\ x = active /\ x \in Ctx /\ pc[x] = "yield_release" /\ arg[x] \in Ctx \ {x}
      /\ pc[Zero] = "called" /\ \A g \in Thread : pc[g] # "start"
      /\ pc[arg[x]] \in {"parked", "yielded"} /\ state[arg[x]] = "BLOCKED"
  BY <1>1 DEF YieldRelease, ControlInv, StateInv, ZeroInv, MutexInv, ArgInv
<1>3. /\ waits' \in [Thread -> Thread \cup {None}]
      /\ active' = arg[x]
      /\ \A g \in Thread : /\ pc'[g] = IF g = x THEN "yield_block" ELSE pc[g]
                           /\ state'[g] = IF g = arg[x] THEN "RELEASED" ELSE state[g]
                           /\ waits'[g] = IF g = arg[x] THEN None ELSE waits[g]
      /\ UNCHANGED <<mutex, arg>>
  <2>1. TypeOK /\ arg[x] \in Thread
    BY <1>1, <1>2
  <2>2. \A g \in Thread : waits[g] = arg[x] => g = arg[x]
    BY <1>1, <1>2 DEF WaitInv, ControlInv
  <2>3. waits' \in NotifyOne(arg[x])
    BY <1>2 DEF YieldRelease, Release
  <2>4. /\ waits' \in [Thread -> Thread \cup {None}]
        /\ \A g \in Thread : waits'[g] = IF waits[g] = arg[x] THEN None ELSE waits[g]
    <3>1. PICK y \in Thread : y = arg[x]
      BY <2>1
    <3>2. PICK w \in NotifyOne(y) : w = waits'
      BY <2>3, <3>1
    <3>3. \A g, k \in Thread : waits[g] = y /\ waits[k] = y => g = k
      BY <2>2, <3>1
    <3>4. /\ w \in [Thread -> Thread \cup {None}]
          /\ \A g \in Thread : w[g] = IF waits[g] = y THEN None ELSE waits[g]
      BY <2>1, <3>3, NotifyOneFacts, ZenonT(30)
    <3> QED  BY <3>1, <3>2, <3>4
  <2>5. waits[arg[x]] \in {arg[x], None}
    BY <1>1, <1>2 DEF WaitInv, ControlInv
  <2>6. \A g \in Thread : waits'[g] = IF g = arg[x] THEN None ELSE waits[g]
    BY <2>2, <2>4, <2>5
  <2> QED  BY <1>1, <1>2, <2>4, <2>6 DEF YieldRelease, Release, Goto, TypeOK
<1>4. TypeOK'
  BY <1>1, <1>2, <1>3 DEF TypeOK, YieldRelease, Goto, Release
<1>5. ReleaseFindsBlocked'
  BY <1>1, <1>2, <1>3 DEF ReleaseFindsBlocked
<1>6. ControlInv'
  BY <1>1, <1>2, <1>3 DEF ControlInv
<1>7. StateInv'
  BY <1>1, <1>2, <1>3 DEF StateInv
<1>8. ZeroInv'
  BY <1>1, <1>2, <1>3 DEF ZeroInv
<1>9. MutexInv'
  BY <1>1, <1>2, <1>3 DEF MutexInv
<1>10. ArgInv'
  BY <1>1, <1>2, <1>3 DEF ArgInv
<1>11. WaitInv'
  BY <1>1, <1>2, <1>3 DEF WaitInv
<1>12. NoLostWakeup'
  BY <1>1, <1>2, <1>3 DEF NoLostWakeup
<1> QED BY <1>4, <1>5, <1>6, <1>7, <1>8, <1>9, <1>10, <1>11, <1>12 DEF IInv

\* The thread that yielded blocks and gives its mutex back.
LEMMA YieldBlockStep ==
  ASSUME IInv, NEW x \in Thread, YieldBlock(x)
  PROVE  IInv'
<1> USE ContextAssumption DEF Thread, Executing, Resting, Doomed
<1>1. /\ TypeOK /\ ReleaseFindsBlocked /\ ControlInv /\ StateInv /\ ZeroInv
      /\ MutexInv /\ ArgInv /\ WaitInv /\ NoLostWakeup
      /\ active \in Thread
  BY DEF IInv, TypeOK
<1>2. /\ x # active /\ x \in Ctx /\ pc[x] = "yield_block"
      /\ state[x] = "RELEASED" /\ waits[x] = None
  BY <1>1 DEF YieldBlock, ControlInv, StateInv, ZeroInv, WaitInv
<1>3. \A g \in Thread : waits[g] # x
  BY <1>1, <1>2 DEF ControlInv, ArgInv, WaitInv
<1>4. /\ waits' \in [Thread -> Thread \cup {None}]
      /\ \A g \in Thread : /\ pc'[g] = IF g = x THEN "yielded" ELSE pc[g]
                           /\ state'[g] = IF g = x THEN "BLOCKED" ELSE state[g]
                           /\ mutex'[g] = IF g = x THEN None ELSE mutex[g]
                           /\ waits'[g] = IF g = x THEN x ELSE waits[g]
      /\ UNCHANGED <<arg, active>>
  <2>1. PICK w \in NotifyOne(x) : waits' = [w EXCEPT ![x] = x]
    BY DEF YieldBlock
  <2>2. /\ w \in [Thread -> Thread \cup {None}]
        /\ \A g \in Thread : w[g] = waits[g]
    <3>1. TypeOK /\ x \in Thread
      BY <1>1
    <3>2. \A g, k \in Thread : waits[g] = x /\ waits[k] = x => g = k
      BY <1>3
    <3> QED  BY <1>3, <2>1, <3>1, <3>2, NotifyOneFacts, ZenonT(30)
  <2> QED  BY <1>1, <2>1, <2>2 DEF YieldBlock, Goto, TypeOK
<1>5. TypeOK'
  BY <1>1, <1>2, <1>3, <1>4 DEF TypeOK, YieldBlock, Goto
<1>6. ReleaseFindsBlocked'
  BY <1>1, <1>2, <1>3, <1>4 DEF ReleaseFindsBlocked
<1>7. ControlInv'
  BY <1>1, <1>2, <1>3, <1>4 DEF ControlInv
<1>8. StateInv'
  BY <1>1, <1>2, <1>3, <1>4 DEF StateInv
<1>9. ZeroInv'
  BY <1>1, <1>2, <1>3, <1>4 DEF ZeroInv
<1>10. MutexInv'
  BY <1>1, <1>2, <1>3, <1>4 DEF MutexInv, ControlInv, ArgInv, ZeroInv
<1>11. ArgInv'
  BY <1>1, <1>2, <1>3, <1>4 DEF ArgInv
<1>12. WaitInv'
  BY <1>1, <1>2, <1>3, <1>4 DEF WaitInv
<1>13. NoLostWakeup'
  BY <1>1, <1>2, <1>3, <1>4 DEF NoLostWakeup, ControlInv, StateInv, ArgInv
<1> QED BY <1>5, <1>6, <1>7, <1>8, <1>9, <1>10, <1>11, <1>12, <1>13 DEF IInv

\* The main thread calls a context that is blocked, or about to block.
LEMMA CallStep ==
  ASSUME IInv, NEW y \in Ctx, Call(y)
  PROVE  IInv'
<1> USE ContextAssumption DEF Thread, Executing, Resting, Doomed
<1>1. /\ TypeOK /\ ReleaseFindsBlocked /\ ControlInv /\ StateInv /\ ZeroInv
      /\ MutexInv /\ ArgInv /\ WaitInv /\ NoLostWakeup
      /\ active \in Thread
  BY DEF IInv, TypeOK
<1>2. /\ Zero = active /\ pc[Zero] = "run"
      /\ \A g \in Thread : pc[g] # "start"
  BY <1>1 DEF Call, ControlInv, ArgInv
<1>3. pc[y] \in {"parked", "yielded", "yield_block"}
  BY <1>1, <1>2 DEF Call, Resumable, Exists, ControlInv, StateInv,
     ReleaseFindsBlocked, TypeOK
<1>4. /\ \A g \in Thread : /\ pc'[g] = IF g = Zero THEN "call" ELSE pc[g]
                           /\ arg'[g] = IF g = Zero THEN y ELSE arg[g]
      /\ UNCHANGED <<state, mutex, waits, active>>
  BY <1>1, <1>2, <1>3 DEF Call, Goto, TypeOK
<1>5. TypeOK'
  BY <1>1, <1>2, <1>3, <1>4 DEF TypeOK, Call, Goto
<1>6. ReleaseFindsBlocked'
  BY <1>1, <1>2, <1>3, <1>4 DEF ReleaseFindsBlocked
<1>7. ControlInv'
  BY <1>1, <1>2, <1>3, <1>4 DEF ControlInv
<1>8. StateInv'
  BY <1>1, <1>2, <1>3, <1>4 DEF StateInv
<1>9. ZeroInv'
  BY <1>1, <1>2, <1>3, <1>4 DEF ZeroInv
<1>10. MutexInv'
  BY <1>1, <1>2, <1>3, <1>4 DEF MutexInv
<1>11. ArgInv'
  BY <1>1, <1>2, <1>3, <1>4 DEF ArgInv
<1>12. WaitInv'
  BY <1>1, <1>2, <1>3, <1>4 DEF WaitInv
<1>13. NoLostWakeup'
  BY <1>1, <1>2, <1>3, <1>4 DEF NoLostWakeup
<1> QED BY <1>5, <1>6, <1>7, <1>8, <1>9, <1>10, <1>11, <1>12, <1>13 DEF IInv

\* call releases a context that has blocked and keeps its mutex.
LEMMA CallReleaseStep ==
  ASSUME IInv, CallRelease
  PROVE  IInv'
<1> USE ContextAssumption DEF Thread, Executing, Resting, Doomed
<1>1. /\ TypeOK /\ ReleaseFindsBlocked /\ ControlInv /\ StateInv /\ ZeroInv
      /\ MutexInv /\ ArgInv /\ WaitInv /\ NoLostWakeup
      /\ active \in Thread
  BY DEF IInv, TypeOK
<1>2. /\ active = Zero /\ pc[Zero] = "call" /\ arg[Zero] \in Ctx /\ arg[Zero] # Zero
      /\ \A g \in Thread : pc[g] # "start"
      /\ pc[arg[Zero]] \in {"parked", "yielded"} /\ state[arg[Zero]] = "BLOCKED"
  BY <1>1 DEF CallRelease, ControlInv, StateInv, ZeroInv, MutexInv, ArgInv
<1>3. /\ waits' \in [Thread -> Thread \cup {None}]
      /\ active' = arg[Zero]
      /\ \A g \in Thread : /\ pc'[g] = IF g = Zero THEN "call_block" ELSE pc[g]
                           /\ state'[g] = IF g = arg[Zero] THEN "RELEASED" ELSE state[g]
                           /\ mutex'[g] = IF g = arg[Zero] THEN Zero ELSE mutex[g]
                           /\ waits'[g] = IF g = arg[Zero] THEN None ELSE waits[g]
      /\ UNCHANGED arg
  <2>1. TypeOK /\ arg[Zero] \in Thread
    BY <1>1, <1>2
  <2>2. \A g \in Thread : waits[g] = arg[Zero] => g = arg[Zero]
    BY <1>1, <1>2 DEF WaitInv, ControlInv
  <2>3. waits' \in NotifyOne(arg[Zero])
    BY <1>2 DEF CallRelease, Release
  <2>4. /\ waits' \in [Thread -> Thread \cup {None}]
        /\ \A g \in Thread : waits'[g] = IF waits[g] = arg[Zero] THEN None ELSE waits[g]
    <3>1. PICK y \in Thread : y = arg[Zero]
      BY <2>1
    <3>2. PICK w \in NotifyOne(y) : w = waits'
      BY <2>3, <3>1
    <3>3. \A g, k \in Thread : waits[g] = y /\ waits[k] = y => g = k
      BY <2>2, <3>1
    <3>4. /\ w \in [Thread -> Thread \cup {None}]
          /\ \A g \in Thread : w[g] = IF waits[g] = y THEN None ELSE waits[g]
      BY <2>1, <3>3, NotifyOneFacts
    <3> QED  BY <3>1, <3>2, <3>4
  <2>5. waits[arg[Zero]] \in {arg[Zero], None}
    BY <1>1, <1>2 DEF WaitInv, ControlInv
  <2>6. \A g \in Thread : waits'[g] = IF g = arg[Zero] THEN None ELSE waits[g]
    BY <2>2, <2>4, <2>5
  <2> QED  BY <1>1, <1>2, <2>4, <2>6 DEF CallRelease, Release, Goto, TypeOK
<1>4. TypeOK'
  BY <1>1, <1>2, <1>3 DEF TypeOK, CallRelease, Goto, Release
<1>5. ReleaseFindsBlocked'
  BY <1>1, <1>2, <1>3 DEF ReleaseFindsBlocked
<1>6. ControlInv'
  BY <1>1, <1>2, <1>3 DEF ControlInv
<1>7. StateInv'
  BY <1>1, <1>2, <1>3 DEF StateInv
<1>8. ZeroInv'
  BY <1>1, <1>2, <1>3 DEF ZeroInv
<1>9. MutexInv'
  BY <1>1, <1>2, <1>3 DEF MutexInv
<1>10. ArgInv'
  BY <1>1, <1>2, <1>3 DEF ArgInv
<1>11. WaitInv'
  BY <1>1, <1>2, <1>3 DEF WaitInv
<1>12. NoLostWakeup'
  BY <1>1, <1>2, <1>3 DEF NoLostWakeup
<1> QED BY <1>4, <1>5, <1>6, <1>7, <1>8, <1>9, <1>10, <1>11, <1>12 DEF IInv

\* The context that was called cannot exit before Zero is blocked.
LEMMA CallBlockStep ==
  ASSUME IInv, CallBlock
  PROVE  IInv'
<1> USE ContextAssumption DEF Thread, Executing, Resting, Doomed
<1>1. /\ TypeOK /\ ReleaseFindsBlocked /\ ControlInv /\ StateInv /\ ZeroInv
      /\ MutexInv /\ ArgInv /\ WaitInv /\ NoLostWakeup
      /\ active \in Thread
  BY DEF IInv, TypeOK
<1>2. /\ active # Zero /\ active = arg[Zero] /\ arg[Zero] \in Ctx
      /\ pc[Zero] = "call_block" /\ pc[active] \in Resting /\ waits[Zero] = None
  BY <1>1 DEF CallBlock, ZeroInv, WaitInv
<1>3. /\ \A g \in Thread : /\ pc'[g] = IF g = Zero THEN "called" ELSE pc[g]
                           /\ state'[g] = IF g = Zero THEN "BLOCKED" ELSE state[g]
                           /\ mutex'[g] = IF g = arg[Zero] THEN None ELSE mutex[g]
                           /\ waits'[g] = IF g = Zero THEN Zero ELSE waits[g]
      /\ UNCHANGED <<arg, active>>
  BY <1>1, <1>2 DEF CallBlock, Goto, TypeOK
<1>4. TypeOK'
  BY <1>1, <1>2, <1>3 DEF TypeOK, CallBlock, Goto
<1>5. ReleaseFindsBlocked'
  BY <1>1, <1>2, <1>3 DEF ReleaseFindsBlocked
<1>6. ControlInv'
  BY <1>1, <1>2, <1>3 DEF ControlInv
<1>7. StateInv'
  BY <1>1, <1>2, <1>3 DEF StateInv
<1>8. ZeroInv'
  BY <1>1, <1>2, <1>3 DEF ZeroInv
<1>9. MutexInv'
  BY <1>1, <1>2, <1>3 DEF MutexInv
<1>10. ArgInv'
  BY <1>1, <1>2, <1>3 DEF ArgInv
<1>11. WaitInv'
  BY <1>1, <1>2, <1>3 DEF WaitInv
<1>12. NoLostWakeup'
  BY <1>1, <1>2, <1>3 DEF NoLostWakeup
<1> QED BY <1>4, <1>5, <1>6, <1>7, <1>8, <1>9, <1>10, <1>11, <1>12 DEF IInv

\* A context that runs finds Zero blocked when it exits.
LEMMA ExitStep ==
  ASSUME IInv, NEW x \in Thread, Exit(x)
  PROVE  IInv'
<1> USE ContextAssumption DEF Thread, Executing, Resting, Doomed
<1>1. /\ TypeOK /\ ReleaseFindsBlocked /\ ControlInv /\ StateInv /\ ZeroInv
      /\ MutexInv /\ ArgInv /\ WaitInv /\ NoLostWakeup
      /\ active \in Thread
  BY DEF IInv, TypeOK
<1>2. /\ x = active /\ x \in Ctx /\ pc[x] = "run" /\ state[x] = "RELEASED" /\ waits[x] = None
      /\ pc[Zero] = "called" /\ state[Zero] = "BLOCKED"
      /\ \A g \in Thread : pc[g] # "start"
  BY <1>1 DEF Exit, ControlInv, StateInv, ZeroInv, ArgInv, WaitInv
<1>3. /\ waits' \in [Thread -> Thread \cup {None}]
      /\ active' = Zero
      /\ \A g \in Thread : /\ pc'[g] = IF g = x THEN "relock" ELSE pc[g]
                           /\ state'[g] = IF g = Zero THEN "RELEASED" ELSE state[g]
                           /\ waits'[g] = IF g = Zero THEN None ELSE waits[g]
      /\ UNCHANGED <<mutex, arg>>
  <2>1. TypeOK /\ Zero \in Thread
    BY <1>1, <1>2
  <2>2. \A g \in Thread : waits[g] = Zero => g = Zero
    BY <1>1, <1>2 DEF WaitInv, ControlInv
  <2>3. waits' \in NotifyOne(Zero)
    BY <1>2 DEF Exit, Release
  <2>4. /\ waits' \in [Thread -> Thread \cup {None}]
        /\ \A g \in Thread : waits'[g] = IF waits[g] = Zero THEN None ELSE waits[g]
    <3>1. PICK y \in Thread : y = Zero
      BY <2>1
    <3>2. PICK w \in NotifyOne(y) : w = waits'
      BY <2>3, <3>1
    <3>3. \A g, k \in Thread : waits[g] = y /\ waits[k] = y => g = k
      BY <2>2, <3>1
    <3>4. /\ w \in [Thread -> Thread \cup {None}]
          /\ \A g \in Thread : w[g] = IF waits[g] = y THEN None ELSE waits[g]
      BY <2>1, <3>3, NotifyOneFacts
    <3> QED  BY <3>1, <3>2, <3>4
  <2>5. waits[Zero] \in {Zero, None}
    BY <1>1, <1>2 DEF WaitInv, ControlInv
  <2>6. \A g \in Thread : waits'[g] = IF g = Zero THEN None ELSE waits[g]
    BY <2>2, <2>4, <2>5
  <2> QED  BY <1>1, <1>2, <2>4, <2>6 DEF Exit, Release, Goto, TypeOK
<1>4. TypeOK'
  BY <1>1, <1>2, <1>3 DEF TypeOK, Exit, Goto, Release
<1>5. ReleaseFindsBlocked'
  BY <1>1, <1>2, <1>3 DEF ReleaseFindsBlocked
<1>6. ControlInv'
  BY <1>1, <1>2, <1>3 DEF ControlInv
<1>7. StateInv'
  BY <1>1, <1>2, <1>3 DEF StateInv
<1>8. ZeroInv'
  BY <1>1, <1>2, <1>3 DEF ZeroInv
<1>9. MutexInv'
  BY <1>1, <1>2, <1>3 DEF MutexInv
<1>10. ArgInv'
  BY <1>1, <1>2, <1>3 DEF ArgInv
<1>11. WaitInv'
  BY <1>1, <1>2, <1>3 DEF WaitInv
<1>12. NoLostWakeup'
  BY <1>1, <1>2, <1>3 DEF NoLostWakeup
<1> QED BY <1>4, <1>5, <1>6, <1>7, <1>8, <1>9, <1>10, <1>11, <1>12 DEF IInv

\* ~context is about a context whose thread blocks, is about to, or has left its work.
LEMMA DestroyStep ==
  ASSUME IInv, NEW h \in Thread, NEW y \in Ctx, Destroy(h, y)
  PROVE  IInv'
<1> USE ContextAssumption DEF Thread, Executing, Resting, Doomed
<1>1. /\ TypeOK /\ ReleaseFindsBlocked /\ ControlInv /\ StateInv /\ ZeroInv
      /\ MutexInv /\ ArgInv /\ WaitInv /\ NoLostWakeup
      /\ active \in Thread
  BY DEF IInv, TypeOK
<1>2. /\ h = active /\ h # y /\ pc[h] = "run"
      /\ \A g \in Thread : pc[g] # "start"
  BY <1>1 DEF Destroy, ControlInv, ArgInv
<1>3. pc[y] \in {"parked", "yielded", "yield_block", "relock"}
  BY <1>1, <1>2 DEF Destroy, Exists, ControlInv, StateInv, ReleaseFindsBlocked,
     TypeOK
<1>4. /\ \A g \in Thread : /\ pc'[g] = IF g = h THEN "finish" ELSE pc[g]
                           /\ arg'[g] = IF g = h THEN y ELSE arg[g]
      /\ UNCHANGED <<state, mutex, waits, active>>
  BY <1>1, <1>2, <1>3 DEF Destroy, Goto, TypeOK
<1>5. TypeOK'
  BY <1>1, <1>2, <1>3, <1>4 DEF TypeOK, Destroy, Goto
<1>6. ReleaseFindsBlocked'
  BY <1>1, <1>2, <1>3, <1>4 DEF ReleaseFindsBlocked
<1>7. ControlInv'
  BY <1>1, <1>2, <1>3, <1>4 DEF ControlInv
<1>8. StateInv'
  BY <1>1, <1>2, <1>3, <1>4 DEF StateInv
<1>9. ZeroInv'
  BY <1>1, <1>2, <1>3, <1>4 DEF ZeroInv
<1>10. MutexInv'
  BY <1>1, <1>2, <1>3, <1>4 DEF MutexInv
<1>11. ArgInv'
  BY <1>1, <1>2, <1>3, <1>4 DEF ArgInv
<1>12. WaitInv'
  BY <1>1, <1>2, <1>3, <1>4 DEF WaitInv
<1>13. NoLostWakeup'
  BY <1>1, <1>2, <1>3, <1>4 DEF NoLostWakeup
<1> QED BY <1>5, <1>6, <1>7, <1>8, <1>9, <1>10, <1>11, <1>12, <1>13 DEF IInv

\* The mutex is free, so the context is not on its way to block: FINAL stays.
LEMMA FinishStep ==
  ASSUME IInv, NEW h \in Thread, Finish(h)
  PROVE  IInv'
<1> USE ContextAssumption DEF Thread, Executing, Resting, Doomed
<1>1. /\ TypeOK /\ ReleaseFindsBlocked /\ ControlInv /\ StateInv /\ ZeroInv
      /\ MutexInv /\ ArgInv /\ WaitInv /\ NoLostWakeup
      /\ active \in Thread
  BY DEF IInv, TypeOK
<1>2. /\ h = active /\ pc[h] = "finish" /\ arg[h] \in Ctx \ {h}
      /\ pc[arg[h]] \in {"parked", "yielded", "relock"}
      /\ \A g \in Thread : pc[g] # "start"
  BY <1>1 DEF Finish, ControlInv, MutexInv, ArgInv
<1>3. /\ \A g \in Thread : /\ pc'[g] = IF g = h THEN "notify" ELSE pc[g]
                           /\ state'[g] = IF g = arg[h] THEN "FINAL" ELSE state[g]
      /\ UNCHANGED <<mutex, waits, arg, active>>
  BY <1>1, <1>2 DEF Finish, Goto, TypeOK
<1>4. TypeOK'
  BY <1>1, <1>2, <1>3 DEF TypeOK, Finish, Goto
<1>5. ReleaseFindsBlocked'
  BY <1>1, <1>2, <1>3 DEF ReleaseFindsBlocked
<1>6. ControlInv'
  BY <1>1, <1>2, <1>3 DEF ControlInv
<1>7. StateInv'
  BY <1>1, <1>2, <1>3 DEF StateInv
<1>8. ZeroInv'
  BY <1>1, <1>2, <1>3 DEF ZeroInv
<1>9. MutexInv'
  BY <1>1, <1>2, <1>3 DEF MutexInv
<1>10. ArgInv'
  BY <1>1, <1>2, <1>3 DEF ArgInv
<1>11. WaitInv'
  BY <1>1, <1>2, <1>3 DEF WaitInv
<1>12. NoLostWakeup'
  BY <1>1, <1>2, <1>3 DEF NoLostWakeup
<1> QED BY <1>4, <1>5, <1>6, <1>7, <1>8, <1>9, <1>10, <1>11, <1>12 DEF IInv

\* do_finish notifies everybody who waits for the context.
LEMMA FinishNotifyStep ==
  ASSUME IInv, NEW h \in Thread, FinishNotify(h)
  PROVE  IInv'
<1> USE ContextAssumption DEF Thread, Executing, Resting, Doomed
<1>1. /\ TypeOK /\ ReleaseFindsBlocked /\ ControlInv /\ StateInv /\ ZeroInv
      /\ MutexInv /\ ArgInv /\ WaitInv /\ NoLostWakeup
      /\ active \in Thread
  BY DEF IInv, TypeOK
<1>2. h = active /\ pc[h] = "notify" /\ arg[h] \in Ctx \ {h}
  BY <1>1 DEF FinishNotify, ControlInv, ArgInv
<1>3. /\ \A g \in Thread : /\ pc'[g] = IF g = h THEN "join" ELSE pc[g]
                           /\ waits'[g] = IF waits[g] = arg[h] THEN None ELSE waits[g]
      /\ UNCHANGED <<state, mutex, arg, active>>
  BY <1>1, <1>2 DEF FinishNotify, Goto, TypeOK
<1>4. TypeOK'
  BY <1>1, <1>2, <1>3 DEF TypeOK, FinishNotify, Goto
<1>5. ReleaseFindsBlocked'
  BY <1>1, <1>2, <1>3 DEF ReleaseFindsBlocked
<1>6. ControlInv'
  BY <1>1, <1>2, <1>3 DEF ControlInv
<1>7. StateInv'
  BY <1>1, <1>2, <1>3 DEF StateInv
<1>8. ZeroInv'
  BY <1>1, <1>2, <1>3 DEF ZeroInv
<1>9. MutexInv'
  BY <1>1, <1>2, <1>3 DEF MutexInv
<1>10. ArgInv'
  BY <1>1, <1>2, <1>3 DEF ArgInv
<1>11. WaitInv'
  BY <1>1, <1>2, <1>3 DEF WaitInv
<1>12. NoLostWakeup'
  BY <1>1, <1>2, <1>3 DEF NoLostWakeup, WaitInv, ControlInv, ArgInv
<1> QED BY <1>4, <1>5, <1>6, <1>7, <1>8, <1>9, <1>10, <1>11, <1>12 DEF IInv

\* ~context returns when the thread of its context has ended.
LEMMA JoinStep ==
  ASSUME IInv, NEW h \in Thread, Join(h)
  PROVE  IInv'
<1> USE ContextAssumption DEF Thread, Executing, Resting, Doomed
<1>1. /\ TypeOK /\ ReleaseFindsBlocked /\ ControlInv /\ StateInv /\ ZeroInv
      /\ MutexInv /\ ArgInv /\ WaitInv /\ NoLostWakeup
      /\ active \in Thread
  BY DEF IInv, TypeOK
<1>2. /\ h = active /\ pc[h] = "join" /\ arg[h] \in Ctx \ {h}
      /\ pc[arg[h]] = "done" /\ \A g \in Thread : pc[g] # "start"
  BY <1>1 DEF Join, ControlInv, ArgInv
<1>3. /\ \A g \in Thread : pc'[g] = IF g = h THEN "run" ELSE pc[g]
      /\ UNCHANGED <<state, mutex, waits, arg, active>>
  BY <1>1, <1>2 DEF Join, Goto, TypeOK
<1>4. TypeOK'
  BY <1>1, <1>2, <1>3 DEF TypeOK, Join, Goto
<1>5. ReleaseFindsBlocked'
  BY <1>1, <1>2, <1>3 DEF ReleaseFindsBlocked
<1>6. ControlInv'
  BY <1>1, <1>2, <1>3 DEF ControlInv
<1>7. StateInv'
  BY <1>1, <1>2, <1>3 DEF StateInv
<1>8. ZeroInv'
  BY <1>1, <1>2, <1>3 DEF ZeroInv
<1>9. MutexInv'
  BY <1>1, <1>2, <1>3 DEF MutexInv
<1>10. ArgInv'
  BY <1>1, <1>2, <1>3 DEF ArgInv
<1>11. WaitInv'
  BY <1>1, <1>2, <1>3 DEF WaitInv
<1>12. NoLostWakeup'
  BY <1>1, <1>2, <1>3 DEF NoLostWakeup
<1> QED BY <1>4, <1>5, <1>6, <1>7, <1>8, <1>9, <1>10, <1>11, <1>12 DEF IInv

\* The main thread ends when it has control.
LEMMA EndStep ==
  ASSUME IInv, End
  PROVE  IInv'
<1> USE ContextAssumption DEF Thread, Executing, Resting, Doomed
<1>1. /\ TypeOK /\ ReleaseFindsBlocked /\ ControlInv /\ StateInv /\ ZeroInv
      /\ MutexInv /\ ArgInv /\ WaitInv /\ NoLostWakeup
      /\ active \in Thread
  BY DEF IInv, TypeOK
<1>2. active = Zero /\ pc[Zero] = "run" /\ \A g \in Thread : pc[g] # "start"
  BY <1>1 DEF End, ControlInv, ArgInv
<1>3. /\ \A g \in Thread : pc'[g] = IF g = Zero THEN "end" ELSE pc[g]
      /\ UNCHANGED <<state, mutex, waits, arg, active>>
  BY <1>1, <1>2 DEF End, Goto, TypeOK
<1>4. TypeOK'
  BY <1>1, <1>2, <1>3 DEF TypeOK, End, Goto
<1>5. ReleaseFindsBlocked'
  BY <1>1, <1>2, <1>3 DEF ReleaseFindsBlocked
<1>6. ControlInv'
  BY <1>1, <1>2, <1>3 DEF ControlInv
<1>7. StateInv'
  BY <1>1, <1>2, <1>3 DEF StateInv
<1>8. ZeroInv'
  BY <1>1, <1>2, <1>3 DEF ZeroInv
<1>9. MutexInv'
  BY <1>1, <1>2, <1>3 DEF MutexInv
<1>10. ArgInv'
  BY <1>1, <1>2, <1>3 DEF ArgInv
<1>11. WaitInv'
  BY <1>1, <1>2, <1>3 DEF WaitInv
<1>12. NoLostWakeup'
  BY <1>1, <1>2, <1>3 DEF NoLostWakeup
<1> QED BY <1>4, <1>5, <1>6, <1>7, <1>8, <1>9, <1>10, <1>11, <1>12 DEF IInv

-------------------------------------------------------------------------------
(***************************************************************************)
(* The invariant and what follows from it.                                 *)
(***************************************************************************)
\* Nothing waits, nothing is locked, and the main thread has control.
LEMMA InitIInv == Init => IInv
<1> SUFFICES ASSUME Init PROVE IInv
  OBVIOUS
<1> USE ContextAssumption DEF Init, Thread, Executing, Resting, Doomed
<1>1. TypeOK
  BY DEF TypeOK
<1>2. ReleaseFindsBlocked /\ ControlInv /\ StateInv
  BY DEF ReleaseFindsBlocked, ControlInv, StateInv
<1>3. ZeroInv /\ MutexInv
  BY DEF ZeroInv, MutexInv
<1>4. ArgInv /\ WaitInv /\ NoLostWakeup
  BY DEF ArgInv, WaitInv, NoLostWakeup
<1> QED  BY <1>1, <1>2, <1>3, <1>4 DEF IInv

\* Every step preserves the inductive invariant.
LEMMA NextIInv == IInv /\ [Next]_vars => IInv'
<1> SUFFICES ASSUME IInv, [Next]_vars PROVE IInv'
  OBVIOUS
<1>1. ASSUME NEW h \in Thread, Operation(h)
      PROVE  IInv'
  BY <1>1, CreateStep, YieldStep, DestroyStep, ExitStep DEF Operation
<1>2. ASSUME NEW h \in Thread, Step(h)
      PROVE  IInv'
  BY <1>2, CtorWaitStep, CtorReturnStep, ParkStep, ThreadEndStep, WakeBlockedStep,
     WakeReleasedStep, WakeFinalStep, YieldLockStep, YieldReleaseStep, YieldBlockStep,
     FinishStep, FinishNotifyStep, JoinStep DEF Step
<1>3. ASSUME NEW h \in Thread, Spurious(h)
      PROVE  IInv'
  BY <1>3, SpuriousStep
<1>4. ASSUME (\E y \in Ctx : Call(y)) \/ MainStep \/ End
      PROVE  IInv'
  BY <1>4, CallStep, CallReleaseStep, CallBlockStep, EndStep DEF MainStep
<1>5. ASSUME UNCHANGED vars
      PROVE  IInv'
  BY <1>5 DEF vars, IInv, TypeOK, ReleaseFindsBlocked, ControlInv, StateInv, ZeroInv,
     MutexInv, ArgInv, WaitInv, NoLostWakeup, Doomed
<1> QED  BY <1>1, <1>2, <1>3, <1>4, <1>5 DEF Next, Terminated

\* IInv is an invariant of the specification.
THEOREM Invariance == Spec => []IInv
BY InitIInv, NextIInv, PTL DEF Spec

\* dzn/context.hh keeps its variables in their types, and a context leaves
\* INITIAL when its thread first blocks, for any number of contexts.
THEOREM TypeCorrect == Spec => []TypeOK
BY Invariance, PTL DEF IInv

\* At most one context executes the pump's and the application's code, although
\* each has a thread of its own: the one that control was handed to last.
THEOREM OneContextRuns == Spec => []OnlyActiveRuns
<1>1. IInv => OnlyActiveRuns
  BY DEF IInv, ControlInv, OnlyActiveRuns, Executing
<1> QED  BY <1>1, Invariance, PTL

\* do_release never throws: yield, call and exit find the context that they
\* release BLOCKED, whether or not its thread has reached its wait.
THEOREM ReleaseNeverThrows == Spec => []ReleaseFindsBlocked
BY Invariance, PTL DEF IInv

\* No notification of a condition is lost: whoever was released, the
\* constructor of a context that blocked, and the thread of a context that was
\* finished are not left waiting.
THEOREM NotificationsArrive == Spec => []NoLostWakeup
BY Invariance, PTL DEF IInv

\* Once ~context has set FINAL nothing resets it: do_block cannot follow,
\* because do_finish waits for the mutex that yield holds until it has blocked.
THEOREM FinalStays == Spec => FinalIsFinal
<1> USE ContextAssumption DEF Thread
<1>1. ASSUME IInv, [Next]_vars, NEW x \in Ctx, state[x] = "FINAL"
      PROVE  state'[x] = "FINAL"
  <2>1. /\ TypeOK /\ ControlInv /\ StateInv /\ ZeroInv /\ MutexInv /\ ArgInv
    BY <1>1 DEF IInv
  <2>2. ASSUME NEW h \in Thread, Park(h) \/ YieldBlock(h)
        PROVE  state'[x] = "FINAL"
    <3>1. pc[h] = "yield_block" => h \in Ctx /\ state[h] = "RELEASED"
      BY <2>1 DEF StateInv, ZeroInv
    <3> QED  BY <1>1, <2>1, <2>2, <3>1 DEF Park, YieldBlock, TypeOK
  <2>3. ASSUME NEW h \in Thread, YieldRelease(h) \/ Exit(h)
        PROVE  state'[x] = "FINAL"
    BY <1>1, <2>1, <2>3 DEF YieldRelease, Exit, Release, TypeOK
  <2>4. ASSUME MainStep
        PROVE  state'[x] = "FINAL"
    BY <1>1, <2>1, <2>4 DEF MainStep, CallRelease, CallBlock, Release, TypeOK
  <2>5. ASSUME NEW h \in Thread, Finish(h)
        PROVE  state'[x] = "FINAL"
    BY <1>1, <2>1, <2>5 DEF Finish, TypeOK
  <2>6. ASSUME NEW h \in Thread,
               \/ \E y \in Ctx : Create(h, y) \/ Yield(h, y) \/ Destroy(h, y)
               \/ CtorWait(h) \/ CtorReturn(h) \/ ThreadEnd(h)
               \/ WakeBlocked(h) \/ WakeReleased(h) \/ WakeFinal(h) \/ YieldLock(h)
               \/ FinishNotify(h) \/ Join(h) \/ Spurious(h)
        PROVE  state' = state
    BY <2>6 DEF Create, Yield, Destroy, CtorWait, CtorReturn, ThreadEnd, WakeBlocked,
       WakeReleased, WakeFinal, YieldLock, FinishNotify, Join, Spurious
  <2>7. ASSUME (\E y \in Ctx : Call(y)) \/ End \/ UNCHANGED vars
        PROVE  state' = state
    BY <2>7 DEF Call, End, vars
  <2> QED
    BY <1>1, <2>2, <2>3, <2>4, <2>5, <2>6, <2>7
       DEF Next, Operation, Step, Terminated
<1>2. IInv /\ [Next]_vars => [\A x \in Ctx : state[x] = "FINAL" => state'[x] = "FINAL"]_vars
  BY <1>1
<1> QED  BY <1>2, Invariance, PTL DEF Spec, FinalIsFinal
===============================================================================
