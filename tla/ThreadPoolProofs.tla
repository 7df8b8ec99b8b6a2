--------------------------- MODULE ThreadPoolProofs ---------------------------
(***************************************************************************)
(* Proofs about ThreadPool, for any sets of callers, tasks and jobs.       *)
(*                                                                         *)
(* The inductive invariant adds to the properties of ThreadPool who holds  *)
(* which mutex (PoolLockInv, TaskLockInv), when ~pool may run              *)
(* (TeardownInv), what a caller inside async relies on (CallerInv), where  *)
(* each task is between idle_tasks_ and its work (TaskInv), that a job is  *)
(* known to one caller or to one task (ArgInv, PromiseInv), and that every *)
(* task that is not idle owes somebody a future (AccountInv).              *)
(***************************************************************************)
EXTENDS ThreadPool, FiniteSetTheorems, TLAPS

\* A mutex is held exactly by the thread whose program counter says so.
PoolLockInv == \A c \in Caller : HoldsPool(c) <=> poolMut = c

TaskLockInv ==
  \A t \in Task :
    /\ taskMut[t] \in {t, None}
    /\ taskMut[t] = t <=> wpc[t] \in {"test", "idle", "set_value"}

\* ~pool runs when no caller is left, and only it clears running_.
TeardownInv ==
  /\ teardown # "alive" => \A c \in Caller : cpc[c] = "idle"
  /\ \A t \in tasks : ~ running[t] => teardown # "alive"

\* What a caller between two steps of pool::async may rely on.
CallerInv ==
  \A c \in Caller :
    /\ cpc[c] # "idle" => arg[c] \in submitted
    /\ cpc[c] \in {"assign_new", "assign_idle", "pop", "leave"} => target[c] \in Task
    /\ cpc[c] = "assign_new" =>
         /\ target[c] \in tasks
         /\ ~ IsIdle(target[c])
         /\ work[target[c]] = None
         /\ wpc[target[c]] \in {"enter", "test", "wait"}
    /\ cpc[c] \in {"assign_idle", "pop"} =>
         idle_tasks # << >> /\ target[c] = idle_tasks[1]

\* A task that is new or at work is not listed as idle.
TaskInv ==
  \A t \in Task :
    /\ wpc[t] = "none" <=> t \notin tasks
    /\ wpc[t] = "none" => work[t] = None
    /\ wpc[t] \in {"none", "enter"} => ~ IsIdle(t)
    /\ wpc[t] \in {"run", "relock", "idle"} =>
         work[t] = None /\ (IsIdle(t) => BeingPopped(t))
    /\ wpc[t] = "set_value" => IsIdle(t) /\ ~ BeingPopped(t)

\* The task awaits its first assignment.
Unassigned(t) == \E c \in Caller : cpc[c] = "assign_new" /\ target[c] = t

\* The task has been given a job whose future is still outstanding.
Engaged(t) ==
  /\ promise[t] \notin ready
  /\ \E c \in Caller : \/ promise[t] \in futures[c]
                       \/ cpc[c] \in {"pop", "leave"} /\ arg[c] = promise[t]

\* A job that returned was submitted, and its future is ready only then.
HistoryInv ==
  /\ ready \subseteq returned
  /\ returned \subseteq submitted

\* A job that is being submitted is known to one caller and to no task.
ArgInv ==
  \A c \in Caller : cpc[c] \in {"lock_pool", "assign_new", "assign_idle"} =>
    /\ arg[c] \notin returned
    /\ \A t \in Task : promise[t] # arg[c]
    /\ \A d \in Caller \ {c} : cpc[d] # "idle" => arg[d] # arg[c]

\* Afterwards it belongs to one task, whose program counter tells its progress.
PromiseInv ==
  \A t \in Task :
    /\ promise[t] \in submitted \cup {None}
    /\ promise[t] # None => \A u \in Task \ {t} : promise[u] # promise[t]
    /\ work[t] # None => work[t] = promise[t] /\ promise[t] \notin returned
    /\ wpc[t] = "run" =>
         /\ current[t] = promise[t]
         /\ promise[t] # None
         /\ promise[t] \notin returned
    /\ wpc[t] \in {"relock", "idle", "set_value"} => promise[t] \in returned \ ready

\* Every task is idle, about to get its first job, or owes somebody a future.
AccountInv ==
  \A t \in tasks :
    \/ IsIdle(t) /\ ~ BeingPopped(t)
    \/ Unassigned(t)
    \/ Engaged(t)

IInv ==
  /\ TypeOK
  /\ PoolLockInv
  /\ TaskLockInv
  /\ TeardownInv
  /\ CallerInv
  /\ TaskInv
  /\ IdleSound
  /\ HistoryInv
  /\ ArgInv
  /\ PromiseInv
  /\ AccountInv
  /\ PoolNeverAborts

-------------------------------------------------------------------------------
(***************************************************************************)
(* What the operations on idle_tasks_ do, for any sequence.                *)
(***************************************************************************)
Listed(q, e) == \E i \in 1..Len(q) : q[i] = e

Distinct(q) == \A i, j \in 1..Len(q) : q[i] = q[j] => i = j

\* The front of a queue that is not empty is an element that it lists.
LEMMA FrontFacts ==
  ASSUME NEW S, NEW q \in Seq(S), q # << >>
  PROVE  Head(q) = q[1] /\ q[1] \in S /\ Listed(q, q[1])
<1>1. Len(q) \in Nat /\ Len(q) >= 1
  OBVIOUS
<1> QED  BY <1>1 DEF Listed

\* pop removes the front and nothing else.
LEMMA PopFacts ==
  ASSUME NEW S, NEW q \in Seq(S), q # << >>, Distinct(q)
  PROVE  /\ Tail(q) \in Seq(S)
         /\ Distinct(Tail(q))
         /\ \A e : Listed(Tail(q), e) <=> Listed(q, e) /\ e # q[1]
<1>1. /\ Len(q) \in Nat /\ Len(q) >= 1
      /\ Len(Tail(q)) = Len(q) - 1
      /\ \A i \in 1..Len(Tail(q)) : Tail(q)[i] = q[i + 1]
  OBVIOUS
<1>2. Tail(q) \in Seq(S)
  OBVIOUS
<1>3. Distinct(Tail(q))
  BY <1>1 DEF Distinct
<1>4. ASSUME NEW e, Listed(Tail(q), e)
      PROVE  Listed(q, e) /\ e # q[1]
  BY <1>1, <1>4 DEF Listed, Distinct
<1>5. ASSUME NEW e, Listed(q, e), e # q[1]
      PROVE  Listed(Tail(q), e)
  <2>1. PICK i \in 1..Len(q) : q[i] = e
    BY <1>5 DEF Listed
  <2>2. i - 1 \in 1..Len(Tail(q)) /\ Tail(q)[i - 1] = e
    BY <1>1, <1>5, <2>1
  <2> QED  BY <2>2 DEF Listed
<1> QED  BY <1>2, <1>3, <1>4, <1>5

\* push adds the element at the end and keeps the rest.
LEMMA PushFacts ==
  ASSUME NEW S, NEW q \in Seq(S), NEW x \in S, Distinct(q), ~ Listed(q, x)
  PROVE  /\ Append(q, x) \in Seq(S)
         /\ Distinct(Append(q, x))
         /\ \A e : Listed(Append(q, x), e) <=> Listed(q, e) \/ e = x
<1>1. /\ Len(q) \in Nat
      /\ Len(Append(q, x)) = Len(q) + 1
      /\ \A i \in 1..Len(q) : Append(q, x)[i] = q[i]
      /\ Append(q, x)[Len(q) + 1] = x
  OBVIOUS
<1>2. Append(q, x) \in Seq(S)
  OBVIOUS
<1>3. \A i \in 1..Len(Append(q, x)) : i \in 1..Len(q) \/ i = Len(q) + 1
  BY <1>1
<1>4. Distinct(Append(q, x))
  BY <1>1, <1>3 DEF Distinct, Listed
<1>5. \A e : Listed(Append(q, x), e) <=> Listed(q, e) \/ e = x
  BY <1>1, <1>3 DEF Listed
<1> QED  BY <1>2, <1>4, <1>5

\* The two conjuncts of IdleSound and IsIdle in these terms.
LEMMA IdleTerms ==
  /\ IdleSound => Distinct(idle_tasks)
  /\ \A t : IsIdle(t) <=> Listed(idle_tasks, t)
BY DEF IdleSound, Distinct, IsIdle, Listed

-------------------------------------------------------------------------------

\* WorkerLock preserves the inductive invariant.
LEMMA WorkerLockStep ==
  ASSUME IInv, NEW t \in Task, WorkerLock(t)
  PROVE  IInv'
<1> USE ThreadPoolAssumption
<1>1. /\ TypeOK /\ PoolLockInv /\ TaskLockInv /\ TeardownInv /\ CallerInv /\ TaskInv
      /\ IdleSound /\ HistoryInv /\ ArgInv /\ PromiseInv /\ AccountInv /\ PoolNeverAborts
  BY DEF IInv
<1>2. /\ wpc[t] \in {"enter", "wait", "relock"}
      /\ taskMut[t] = None
  BY DEF WorkerLock
<1>3. \A u \in Task : /\ taskMut'[u] = IF u = t THEN t ELSE taskMut[u]
                      /\ wpc'[u] = IF u = t THEN (IF wpc[t] = "relock" THEN "idle" ELSE "test") ELSE wpc[u]
  BY <1>1 DEF WorkerLock, TypeOK
<1>4. UNCHANGED <<work, promise, running, waiting, current, cpc, arg, target,
                  futures, poolMut, idle_tasks, tasks, submitted, returned, ready, teardown>>
  BY DEF WorkerLock, poolVars, taskVars, callerVars, history
<1>5. \A u \in Task : /\ IsIdle(u)' <=> IsIdle(u)
                      /\ BeingPopped(u)' <=> BeingPopped(u)
                      /\ Unassigned(u)' <=> Unassigned(u)
                      /\ Engaged(u)' <=> Engaged(u)
  BY <1>4 DEF IsIdle, BeingPopped, Unassigned, Engaged
<1>6. TypeOK'
  BY <1>1, <1>4 DEF WorkerLock, TypeOK
<1>7. PoolLockInv'
  BY <1>1, <1>4 DEF PoolLockInv, HoldsPool
<1>8. TaskLockInv'
  BY <1>1, <1>2, <1>3, <1>4 DEF TaskLockInv
<1>9. TeardownInv'
  BY <1>1, <1>2, <1>3, <1>4 DEF TeardownInv
<1>10. CallerInv'
  BY <1>1, <1>2, <1>3, <1>4, <1>5 DEF CallerInv
<1>11. TaskInv'
  BY <1>1, <1>2, <1>3, <1>4, <1>5 DEF TaskInv, IdleSound
<1>12. IdleSound'
  BY <1>1, <1>2, <1>3, <1>4, <1>5 DEF IdleSound, TaskInv
<1>13. HistoryInv'
  BY <1>1, <1>4 DEF HistoryInv
<1>14. ArgInv'
  BY <1>1, <1>4 DEF ArgInv
<1>15. PromiseInv'
  BY <1>1, <1>2, <1>3, <1>4 DEF PromiseInv, HistoryInv, TypeOK
<1>16. AccountInv'
  BY <1>1, <1>4, <1>5 DEF AccountInv, TypeOK
<1>17. PoolNeverAborts'
  BY <1>1, <1>4 DEF PoolNeverAborts
<1> QED  BY <1>6, <1>7, <1>8, <1>9, <1>10, <1>11, <1>12, <1>13, <1>14, <1>15, <1>16,
            <1>17 DEF IInv

\* WorkerWait preserves the inductive invariant.
LEMMA WorkerWaitStep ==
  ASSUME IInv, NEW t \in Task, WorkerWait(t)
  PROVE  IInv'
<1> USE ThreadPoolAssumption
<1>1. /\ TypeOK /\ PoolLockInv /\ TaskLockInv /\ TeardownInv /\ CallerInv /\ TaskInv
      /\ IdleSound /\ HistoryInv /\ ArgInv /\ PromiseInv /\ AccountInv /\ PoolNeverAborts
  BY DEF IInv
<1>2. wpc[t] = "test"
  BY DEF WorkerWait
<1>3. \A u \in Task : /\ taskMut'[u] = IF u = t THEN None ELSE taskMut[u]
                      /\ wpc'[u] = IF u = t THEN "wait" ELSE wpc[u]
  BY <1>1 DEF WorkerWait, TypeOK
<1>4. UNCHANGED <<work, promise, running, current, cpc, arg, target, futures,
                  poolMut, idle_tasks, tasks, submitted, returned, ready, teardown>>
  BY DEF WorkerWait, poolVars, taskVars, callerVars, history
<1>5. \A u \in Task : /\ IsIdle(u)' <=> IsIdle(u)
                      /\ BeingPopped(u)' <=> BeingPopped(u)
                      /\ Unassigned(u)' <=> Unassigned(u)
                      /\ Engaged(u)' <=> Engaged(u)
  BY <1>4 DEF IsIdle, BeingPopped, Unassigned, Engaged
<1>6. TypeOK'
  BY <1>1, <1>4 DEF WorkerWait, TypeOK
<1>7. PoolLockInv'
  BY <1>1, <1>4 DEF PoolLockInv, HoldsPool
<1>8. TaskLockInv'
  BY <1>1, <1>2, <1>3, <1>4 DEF TaskLockInv
<1>9. TeardownInv'
  BY <1>1, <1>2, <1>3, <1>4 DEF TeardownInv
<1>10. CallerInv'
  BY <1>1, <1>2, <1>3, <1>4, <1>5 DEF CallerInv
<1>11. TaskInv'
  BY <1>1, <1>2, <1>3, <1>4, <1>5 DEF TaskInv, IdleSound
<1>12. IdleSound'
  BY <1>1, <1>2, <1>3, <1>4, <1>5 DEF IdleSound, TaskInv
<1>13. HistoryInv'
  BY <1>1, <1>4 DEF HistoryInv
<1>14. ArgInv'
  BY <1>1, <1>4 DEF ArgInv
<1>15. PromiseInv'
  BY <1>1, <1>2, <1>3, <1>4 DEF PromiseInv, HistoryInv, TypeOK
<1>16. AccountInv'
  BY <1>1, <1>4, <1>5 DEF AccountInv, TypeOK
<1>17. PoolNeverAborts'
  BY <1>1, <1>4 DEF PoolNeverAborts
<1> QED  BY <1>6, <1>7, <1>8, <1>9, <1>10, <1>11, <1>12, <1>13, <1>14, <1>15, <1>16,
            <1>17 DEF IInv

\* WorkerSpurious preserves the inductive invariant.
LEMMA WorkerSpuriousStep ==
  ASSUME IInv, NEW t \in Task, WorkerSpurious(t)
  PROVE  IInv'
<1> USE ThreadPoolAssumption
<1>1. /\ TypeOK /\ PoolLockInv /\ TaskLockInv /\ TeardownInv /\ CallerInv /\ TaskInv
      /\ IdleSound /\ HistoryInv /\ ArgInv /\ PromiseInv /\ AccountInv /\ PoolNeverAborts
  BY DEF IInv
<1>2. UNCHANGED <<taskMut, work, promise, running, wpc, current, cpc, arg,
                  target, futures, poolMut, idle_tasks, tasks, submitted, returned, ready, teardown>>
  BY DEF WorkerSpurious, poolVars, taskVars, callerVars, history
<1>3. \A u \in Task : /\ IsIdle(u)' <=> IsIdle(u)
                      /\ BeingPopped(u)' <=> BeingPopped(u)
                      /\ Unassigned(u)' <=> Unassigned(u)
                      /\ Engaged(u)' <=> Engaged(u)
  BY <1>2 DEF IsIdle, BeingPopped, Unassigned, Engaged
<1>4. TypeOK'
  BY <1>1, <1>2 DEF WorkerSpurious, TypeOK
<1>5. PoolLockInv'
  BY <1>1, <1>2 DEF PoolLockInv, HoldsPool
<1>6. TaskLockInv'
  BY <1>1, <1>2 DEF TaskLockInv
<1>7. TeardownInv'
  BY <1>1, <1>2 DEF TeardownInv
<1>8. CallerInv'
  BY <1>1, <1>2, <1>3 DEF CallerInv
<1>9. TaskInv'
  BY <1>1, <1>2, <1>3 DEF TaskInv
<1>10. IdleSound'
  BY <1>1, <1>2, <1>3 DEF IdleSound
<1>11. HistoryInv'
  BY <1>1, <1>2 DEF HistoryInv
<1>12. ArgInv'
  BY <1>1, <1>2 DEF ArgInv
<1>13. PromiseInv'
  BY <1>1, <1>2 DEF PromiseInv
<1>14. AccountInv'
  BY <1>1, <1>2, <1>3 DEF AccountInv, TypeOK
<1>15. PoolNeverAborts'
  BY <1>1, <1>2 DEF PoolNeverAborts
<1> QED  BY <1>4, <1>5, <1>6, <1>7, <1>8, <1>9, <1>10, <1>11, <1>12, <1>13, <1>14,
            <1>15 DEF IInv

\* WorkerTake preserves the inductive invariant.
LEMMA WorkerTakeStep ==
  ASSUME IInv, NEW t \in Task, WorkerTake(t)
  PROVE  IInv'
<1> USE ThreadPoolAssumption
<1>1. /\ TypeOK /\ PoolLockInv /\ TaskLockInv /\ TeardownInv /\ CallerInv /\ TaskInv
      /\ IdleSound /\ HistoryInv /\ ArgInv /\ PromiseInv /\ AccountInv /\ PoolNeverAborts
  BY DEF IInv
<1>2. /\ wpc[t] = "test"
      /\ work[t] # None
  BY DEF WorkerTake
<1>3. \A u \in Task : /\ taskMut'[u] = IF u = t THEN None ELSE taskMut[u]
                      /\ work'[u] = IF u = t THEN None ELSE work[u]
                      /\ current'[u] = IF u = t THEN work[t] ELSE current[u]
                      /\ wpc'[u] = IF u = t THEN "run" ELSE wpc[u]
  BY <1>1 DEF WorkerTake, TypeOK
<1>4. UNCHANGED <<promise, running, waiting, cpc, arg, target, futures,
                  poolMut, idle_tasks, tasks, submitted, returned, ready, teardown>>
  BY DEF WorkerTake, poolVars, taskVars, callerVars, history
<1>5. \A u \in Task : /\ IsIdle(u)' <=> IsIdle(u)
                      /\ BeingPopped(u)' <=> BeingPopped(u)
                      /\ Unassigned(u)' <=> Unassigned(u)
                      /\ Engaged(u)' <=> Engaged(u)
  BY <1>4 DEF IsIdle, BeingPopped, Unassigned, Engaged
<1>6. TypeOK'
  BY <1>1, <1>4 DEF WorkerTake, TypeOK
<1>7. PoolLockInv'
  BY <1>1, <1>4 DEF PoolLockInv, HoldsPool
<1>8. TaskLockInv'
  BY <1>1, <1>2, <1>3, <1>4 DEF TaskLockInv
<1>9. TeardownInv'
  BY <1>1, <1>2, <1>3, <1>4 DEF TeardownInv
<1>10. CallerInv'
  BY <1>1, <1>2, <1>3, <1>4, <1>5 DEF CallerInv
<1>11. TaskInv'
  BY <1>1, <1>2, <1>3, <1>4, <1>5 DEF TaskInv, IdleSound
<1>12. IdleSound'
  BY <1>1, <1>2, <1>3, <1>4, <1>5 DEF IdleSound, TaskInv
<1>13. HistoryInv'
  BY <1>1, <1>4 DEF HistoryInv
<1>14. ArgInv'
  BY <1>1, <1>4 DEF ArgInv
<1>15. PromiseInv'
  BY <1>1, <1>2, <1>3, <1>4 DEF PromiseInv, HistoryInv, TypeOK
<1>16. AccountInv'
  BY <1>1, <1>4, <1>5 DEF AccountInv, TypeOK
<1>17. PoolNeverAborts'
  BY <1>1, <1>4 DEF PoolNeverAborts
<1> QED  BY <1>6, <1>7, <1>8, <1>9, <1>10, <1>11, <1>12, <1>13, <1>14, <1>15, <1>16,
            <1>17 DEF IInv

\* WorkerReturn preserves the inductive invariant.
LEMMA WorkerReturnStep ==
  ASSUME IInv, NEW t \in Task, WorkerReturn(t)
  PROVE  IInv'
<1> USE ThreadPoolAssumption
<1>1. /\ TypeOK /\ PoolLockInv /\ TaskLockInv /\ TeardownInv /\ CallerInv /\ TaskInv
      /\ IdleSound /\ HistoryInv /\ ArgInv /\ PromiseInv /\ AccountInv /\ PoolNeverAborts
  BY DEF IInv
<1>2. /\ wpc[t] = "run"
      /\ returned' = returned \cup {current[t]}
  BY DEF WorkerReturn
<1>3. \A u \in Task : wpc'[u] = IF u = t THEN "relock" ELSE wpc[u]
  BY <1>1 DEF WorkerReturn, TypeOK
<1>4. UNCHANGED <<taskMut, work, promise, running, waiting, current, cpc,
                  arg, target, futures, poolMut, idle_tasks, tasks, submitted, ready, teardown>>
  BY DEF WorkerReturn, poolVars, taskVars, callerVars, history
<1>5. \A u \in Task : /\ IsIdle(u)' <=> IsIdle(u)
                      /\ BeingPopped(u)' <=> BeingPopped(u)
                      /\ Unassigned(u)' <=> Unassigned(u)
                      /\ Engaged(u)' <=> Engaged(u)
  BY <1>4 DEF IsIdle, BeingPopped, Unassigned, Engaged
<1>6. /\ current[t] = promise[t]
      /\ promise[t] \in Job \ returned
      /\ work[t] = None
  BY <1>1, <1>2 DEF PromiseInv, TaskInv, TypeOK
<1>6a. \A u \in Task \ {t} : promise[u] # promise[t]
  BY <1>1, <1>6, ThreadPoolAssumption DEF PromiseInv
<1>6b. TypeOK'
  <2>1. returned' \in SUBSET Job
    BY <1>1, <1>2, <1>6 DEF TypeOK
  <2> QED  BY <1>1, <1>4, <2>1 DEF TypeOK, WorkerReturn
<1>7. PoolLockInv'
  BY <1>1, <1>4 DEF PoolLockInv, HoldsPool
<1>8. TaskLockInv'
  BY <1>1, <1>2, <1>3, <1>4 DEF TaskLockInv
<1>9. TeardownInv'
  BY <1>1, <1>2, <1>3, <1>4 DEF TeardownInv
<1>10. CallerInv'
  BY <1>1, <1>2, <1>3, <1>4, <1>5 DEF CallerInv
<1>11. TaskInv'
  BY <1>1, <1>2, <1>3, <1>4, <1>5 DEF TaskInv, IdleSound
<1>12. IdleSound'
  BY <1>1, <1>2, <1>3, <1>4, <1>5 DEF IdleSound, TaskInv
<1>13. HistoryInv'
  BY <1>1, <1>2, <1>3, <1>4 DEF HistoryInv, PromiseInv
<1>14. ArgInv'
  BY <1>1, <1>2, <1>4, <1>6 DEF ArgInv
<1>15. PromiseInv'
  BY <1>1, <1>2, <1>3, <1>4, <1>6, <1>6a DEF PromiseInv, HistoryInv
<1>16. AccountInv'
  BY <1>1, <1>4, <1>5 DEF AccountInv, TypeOK
<1>17. PoolNeverAborts'
  BY <1>1, <1>4 DEF PoolNeverAborts
<1> QED  BY <1>6b, <1>7, <1>8, <1>9, <1>10, <1>11, <1>12, <1>13, <1>14, <1>15, <1>16,
            <1>17 DEF IInv

\* WorkerSetValue preserves the inductive invariant.
LEMMA WorkerSetValueStep ==
  ASSUME IInv, NEW t \in Task, WorkerSetValue(t)
  PROVE  IInv'
<1> USE ThreadPoolAssumption
<1>1. /\ TypeOK /\ PoolLockInv /\ TaskLockInv /\ TeardownInv /\ CallerInv /\ TaskInv
      /\ IdleSound /\ HistoryInv /\ ArgInv /\ PromiseInv /\ AccountInv /\ PoolNeverAborts
  BY DEF IInv
<1>2. /\ wpc[t] = "set_value"
      /\ ready' = ready \cup {promise[t]}
  BY DEF WorkerSetValue
<1>3. \A u \in Task : /\ current'[u] = IF u = t THEN None ELSE current[u]
                      /\ wpc'[u] = IF u = t THEN "test" ELSE wpc[u]
  BY <1>1 DEF WorkerSetValue, TypeOK
<1>4. UNCHANGED <<taskMut, work, promise, running, waiting, cpc, arg, target,
                  futures, poolMut, idle_tasks, tasks, submitted, returned, teardown>>
  BY DEF WorkerSetValue, poolVars, taskVars, callerVars, history
<1>5. \A u \in Task : /\ IsIdle(u)' <=> IsIdle(u)
                      /\ BeingPopped(u)' <=> BeingPopped(u)
                      /\ Unassigned(u)' <=> Unassigned(u)
                      /\ promise[u] # promise[t] => (Engaged(u)' <=> Engaged(u))
  BY <1>2, <1>4 DEF IsIdle, BeingPopped, Unassigned, Engaged
<1>6. promise[t] \in Job \cap returned
  BY <1>1, <1>2 DEF PromiseInv, TypeOK
<1>6a. \A u \in Task \ {t} : promise[u] # promise[t]
  BY <1>1, <1>6, ThreadPoolAssumption DEF PromiseInv
<1>6b. TypeOK'
  <2>1. ready' \in SUBSET Job
    BY <1>1, <1>2, <1>6 DEF TypeOK
  <2> QED  BY <1>1, <1>4, <2>1 DEF TypeOK, WorkerSetValue
<1>7. PoolLockInv'
  BY <1>1, <1>4 DEF PoolLockInv, HoldsPool
<1>8. TaskLockInv'
  BY <1>1, <1>2, <1>3, <1>4 DEF TaskLockInv
<1>9. TeardownInv'
  BY <1>1, <1>2, <1>3, <1>4 DEF TeardownInv
<1>10. CallerInv'
  BY <1>1, <1>2, <1>3, <1>4, <1>5 DEF CallerInv
<1>11. TaskInv'
  BY <1>1, <1>2, <1>3, <1>4, <1>5 DEF TaskInv, IdleSound
<1>12. IdleSound'
  BY <1>1, <1>2, <1>3, <1>4, <1>5 DEF IdleSound, TaskInv
<1>13. HistoryInv'
  BY <1>1, <1>2, <1>3, <1>4 DEF HistoryInv, PromiseInv
<1>14. ArgInv'
  BY <1>1, <1>4 DEF ArgInv
<1>15. PromiseInv'
  BY <1>1, <1>2, <1>3, <1>4, <1>6, <1>6a DEF PromiseInv
<1>16. AccountInv'
  BY <1>1, <1>2, <1>4, <1>5, <1>6a DEF AccountInv, TaskInv, TypeOK
<1>17. PoolNeverAborts'
  BY <1>1, <1>4 DEF PoolNeverAborts
<1> QED  BY <1>6b, <1>7, <1>8, <1>9, <1>10, <1>11, <1>12, <1>13, <1>14, <1>15, <1>16,
            <1>17 DEF IInv

\* WorkerExit preserves the inductive invariant.
LEMMA WorkerExitStep ==
  ASSUME IInv, NEW t \in Task, WorkerExit(t)
  PROVE  IInv'
<1> USE ThreadPoolAssumption
<1>1. /\ TypeOK /\ PoolLockInv /\ TaskLockInv /\ TeardownInv /\ CallerInv /\ TaskInv
      /\ IdleSound /\ HistoryInv /\ ArgInv /\ PromiseInv /\ AccountInv /\ PoolNeverAborts
  BY DEF IInv
<1>2. /\ wpc[t] = "test"
      /\ ~ running[t]
      /\ work[t] = None
  BY DEF WorkerExit
<1>3. \A u \in Task : /\ taskMut'[u] = IF u = t THEN None ELSE taskMut[u]
                      /\ wpc'[u] = IF u = t THEN "exit" ELSE wpc[u]
  BY <1>1 DEF WorkerExit, TypeOK
<1>4. UNCHANGED <<work, promise, running, waiting, current, cpc, arg, target,
                  futures, poolMut, idle_tasks, tasks, submitted, returned, ready, teardown>>
  BY DEF WorkerExit, poolVars, taskVars, callerVars, history
<1>5. \A u \in Task : /\ IsIdle(u)' <=> IsIdle(u)
                      /\ BeingPopped(u)' <=> BeingPopped(u)
                      /\ Unassigned(u)' <=> Unassigned(u)
                      /\ Engaged(u)' <=> Engaged(u)
  BY <1>4 DEF IsIdle, BeingPopped, Unassigned, Engaged
<1>6. TypeOK'
  BY <1>1, <1>4 DEF WorkerExit, TypeOK
<1>7. PoolLockInv'
  BY <1>1, <1>4 DEF PoolLockInv, HoldsPool
<1>8. TaskLockInv'
  BY <1>1, <1>2, <1>3, <1>4 DEF TaskLockInv
<1>9. TeardownInv'
  BY <1>1, <1>2, <1>3, <1>4 DEF TeardownInv
<1>10. CallerInv'
  BY <1>1, <1>2, <1>3, <1>4, <1>5 DEF CallerInv, TeardownInv
<1>11. TaskInv'
  BY <1>1, <1>2, <1>3, <1>4, <1>5 DEF TaskInv, IdleSound
<1>12. IdleSound'
  BY <1>1, <1>2, <1>3, <1>4, <1>5 DEF IdleSound, TaskInv
<1>13. HistoryInv'
  BY <1>1, <1>4 DEF HistoryInv
<1>14. ArgInv'
  BY <1>1, <1>4 DEF ArgInv
<1>15. PromiseInv'
  BY <1>1, <1>2, <1>3, <1>4 DEF PromiseInv, HistoryInv, TypeOK
<1>16. AccountInv'
  BY <1>1, <1>4, <1>5 DEF AccountInv, TypeOK
<1>17. PoolNeverAborts'
  BY <1>1, <1>4 DEF PoolNeverAborts
<1> QED  BY <1>6, <1>7, <1>8, <1>9, <1>10, <1>11, <1>12, <1>13, <1>14, <1>15, <1>16,
            <1>17 DEF IInv

\* TaskDestructor preserves the inductive invariant.
LEMMA TaskDestructorStep ==
  ASSUME IInv, NEW t \in Task, TaskDestructor(t)
  PROVE  IInv'
<1> USE ThreadPoolAssumption
<1>1. /\ TypeOK /\ PoolLockInv /\ TaskLockInv /\ TeardownInv /\ CallerInv /\ TaskInv
      /\ IdleSound /\ HistoryInv /\ ArgInv /\ PromiseInv /\ AccountInv /\ PoolNeverAborts
  BY DEF IInv
<1>2. /\ teardown = "tasks"
      /\ t \in tasks
  BY DEF TaskDestructor
<1>3. \A u \in Task : running'[u] = IF u = t THEN FALSE ELSE running[u]
  BY <1>1 DEF TaskDestructor, TypeOK
<1>4. UNCHANGED <<taskMut, work, promise, wpc, current, cpc, arg, target,
                  futures, poolMut, idle_tasks, tasks, submitted, returned, ready, teardown>>
  BY DEF TaskDestructor, poolVars, taskVars, callerVars, history
<1>5. \A u \in Task : /\ IsIdle(u)' <=> IsIdle(u)
                      /\ BeingPopped(u)' <=> BeingPopped(u)
                      /\ Unassigned(u)' <=> Unassigned(u)
                      /\ Engaged(u)' <=> Engaged(u)
  BY <1>4 DEF IsIdle, BeingPopped, Unassigned, Engaged
<1>6. TypeOK'
  BY <1>1, <1>4 DEF TaskDestructor, TypeOK
<1>7. PoolLockInv'
  BY <1>1, <1>4 DEF PoolLockInv, HoldsPool
<1>8. TaskLockInv'
  BY <1>1, <1>4 DEF TaskLockInv
<1>9. TeardownInv'
  BY <1>1, <1>2, <1>3, <1>4 DEF TeardownInv
<1>10. CallerInv'
  BY <1>1, <1>2, <1>3, <1>4, <1>5 DEF CallerInv
<1>11. TaskInv'
  BY <1>1, <1>4, <1>5 DEF TaskInv
<1>12. IdleSound'
  BY <1>1, <1>4, <1>5 DEF IdleSound
<1>13. HistoryInv'
  BY <1>1, <1>4 DEF HistoryInv
<1>14. ArgInv'
  BY <1>1, <1>4 DEF ArgInv
<1>15. PromiseInv'
  BY <1>1, <1>4 DEF PromiseInv
<1>16. AccountInv'
  BY <1>1, <1>4, <1>5 DEF AccountInv, TypeOK
<1>17. PoolNeverAborts'
  BY <1>1, <1>4 DEF PoolNeverAborts
<1> QED  BY <1>6, <1>7, <1>8, <1>9, <1>10, <1>11, <1>12, <1>13, <1>14, <1>15, <1>16,
            <1>17 DEF IInv

\* CallAsync preserves the inductive invariant.
LEMMA CallAsyncStep ==
  ASSUME IInv, NEW c \in Caller, NEW j \in Job, CallAsync(c, j)
  PROVE  IInv'
<1> USE ThreadPoolAssumption
<1>1. /\ TypeOK /\ PoolLockInv /\ TaskLockInv /\ TeardownInv /\ CallerInv /\ TaskInv
      /\ IdleSound /\ HistoryInv /\ ArgInv /\ PromiseInv /\ AccountInv /\ PoolNeverAborts
  BY DEF IInv
<1>2. /\ teardown = "alive"
      /\ cpc[c] = "idle"
      /\ j \notin submitted
      /\ submitted' = submitted \cup {j}
  BY DEF CallAsync
<1>3. \A d \in Caller : /\ cpc'[d] = IF d = c THEN "lock_pool" ELSE cpc[d]
                        /\ arg'[d] = IF d = c THEN j ELSE arg[d]
  BY <1>1 DEF CallAsync, TypeOK
<1>4. UNCHANGED <<poolMut, idle_tasks, tasks, taskMut, work, promise, running, waiting,
                  wpc, current, target, futures, returned, ready, teardown>>
  BY DEF CallAsync, poolVars, taskVars
<1>5. \A u \in Task : /\ IsIdle(u)' <=> IsIdle(u)
                      /\ BeingPopped(u)' <=> BeingPopped(u)
                      /\ Unassigned(u)' <=> Unassigned(u)
                      /\ Engaged(u)' <=> Engaged(u)
  BY <1>2, <1>3, <1>4 DEF IsIdle, BeingPopped, Unassigned, Engaged
<1>6. j # None /\ j \notin returned /\ \A u \in Task : promise[u] # j
  BY <1>1, <1>2 DEF HistoryInv, PromiseInv
<1>7. \A d \in Caller : cpc[d] # "idle" => arg[d] # j
  BY <1>1, <1>2 DEF CallerInv
<1>11. TypeOK'
  BY <1>1, <1>4 DEF CallAsync, TypeOK
<1>12. PoolLockInv'
  BY <1>1, <1>2, <1>3, <1>4 DEF PoolLockInv, HoldsPool
<1>13. TaskLockInv'
  BY <1>1, <1>4 DEF TaskLockInv
<1>14. TeardownInv'
  BY <1>1, <1>2, <1>4 DEF TeardownInv
<1>15. CallerInv'
  BY <1>1, <1>2, <1>3, <1>4, <1>5 DEF CallerInv
<1>16. TaskInv'
  BY <1>1, <1>4, <1>5 DEF TaskInv
<1>17. IdleSound'
  BY <1>1, <1>4, <1>5 DEF IdleSound
<1>18. HistoryInv'
  BY <1>1, <1>2, <1>4 DEF HistoryInv
<1>19. ArgInv'
  BY <1>1, <1>2, <1>3, <1>4, <1>6, <1>7 DEF ArgInv
<1>20. PromiseInv'
  BY <1>1, <1>2, <1>4 DEF PromiseInv
<1>21. AccountInv'
  BY <1>1, <1>4, <1>5 DEF AccountInv, TypeOK
<1>22. PoolNeverAborts'
  BY <1>1, <1>4 DEF PoolNeverAborts
<1> QED  BY <1>11, <1>12, <1>13, <1>14, <1>15, <1>16, <1>17, <1>18, <1>19, <1>20,
            <1>21, <1>22 DEF IInv

\* WaitFuture preserves the inductive invariant.
LEMMA WaitFutureStep ==
  ASSUME IInv, NEW c \in Caller, NEW j \in Job, WaitFuture(c, j)
  PROVE  IInv'
<1> USE ThreadPoolAssumption
<1>1. /\ TypeOK /\ PoolLockInv /\ TaskLockInv /\ TeardownInv /\ CallerInv /\ TaskInv
      /\ IdleSound /\ HistoryInv /\ ArgInv /\ PromiseInv /\ AccountInv /\ PoolNeverAborts
  BY DEF IInv
<1>2. j \in ready
  BY DEF WaitFuture
<1>3. \A d \in Caller : futures'[d] = IF d = c THEN futures[c] \ {j} ELSE futures[d]
  BY <1>1 DEF WaitFuture, TypeOK
<1>4. UNCHANGED <<poolMut, idle_tasks, tasks, taskMut, work, promise, running, waiting,
                  wpc, current, cpc, arg, target, submitted, returned, ready, teardown>>
  BY DEF WaitFuture, poolVars, taskVars, history
<1>5. \A u \in Task : /\ IsIdle(u)' <=> IsIdle(u)
                      /\ BeingPopped(u)' <=> BeingPopped(u)
                      /\ Unassigned(u)' <=> Unassigned(u)
                      /\ Engaged(u) => Engaged(u)'
  BY <1>2, <1>3, <1>4 DEF IsIdle, BeingPopped, Unassigned, Engaged
<1>11. TypeOK'
  BY <1>1, <1>4 DEF WaitFuture, TypeOK
<1>12. PoolLockInv'
  BY <1>1, <1>4 DEF PoolLockInv, HoldsPool
<1>13. TaskLockInv'
  BY <1>1, <1>4 DEF TaskLockInv
<1>14. TeardownInv'
  BY <1>1, <1>4 DEF TeardownInv
<1>15. CallerInv'
  BY <1>1, <1>4, <1>5 DEF CallerInv
<1>16. TaskInv'
  BY <1>1, <1>4, <1>5 DEF TaskInv
<1>17. IdleSound'
  BY <1>1, <1>4, <1>5 DEF IdleSound
<1>18. HistoryInv'
  BY <1>1, <1>4 DEF HistoryInv
<1>19. ArgInv'
  BY <1>1, <1>4 DEF ArgInv
<1>20. PromiseInv'
  BY <1>1, <1>4 DEF PromiseInv
<1>21. AccountInv'
  BY <1>1, <1>4, <1>5 DEF AccountInv, TypeOK
<1>22. PoolNeverAborts'
  BY <1>1, <1>4 DEF PoolNeverAborts
<1> QED  BY <1>11, <1>12, <1>13, <1>14, <1>15, <1>16, <1>17, <1>18, <1>19, <1>20,
            <1>21, <1>22 DEF IInv

\* AsyncNewTask preserves the inductive invariant.
LEMMA AsyncNewTaskStep ==
  ASSUME IInv, NEW c \in Caller, NEW t \in Task, AsyncNewTask(c, t)
  PROVE  IInv'
<1> USE ThreadPoolAssumption
<1>1. /\ TypeOK /\ PoolLockInv /\ TaskLockInv /\ TeardownInv /\ CallerInv /\ TaskInv
      /\ IdleSound /\ HistoryInv /\ ArgInv /\ PromiseInv /\ AccountInv /\ PoolNeverAborts
  BY DEF IInv
<1>2. /\ cpc[c] = "lock_pool"
      /\ poolMut = None /\ poolMut' = c
      /\ idle_tasks = << >>
      /\ t \notin tasks
      /\ tasks' = tasks \cup {t}
  BY DEF AsyncNewTask
<1>3. /\ \A u \in Task : /\ wpc'[u] = IF u = t THEN "enter" ELSE wpc[u]
                         /\ running'[u] = IF u = t THEN TRUE ELSE running[u]
      /\ \A d \in Caller : /\ cpc'[d] = IF d = c THEN "assign_new" ELSE cpc[d]
                           /\ target'[d] = IF d = c THEN t ELSE target[d]
  BY <1>1 DEF AsyncNewTask, TypeOK
<1>4. UNCHANGED <<idle_tasks, taskMut, work, promise, waiting, current, arg, futures,
                  submitted, returned, ready, teardown>>
  BY DEF AsyncNewTask, history
<1>5. \A u \in Task : /\ ~ IsIdle(u)
                      /\ ~ IsIdle(u)'
                      /\ Unassigned(u) => Unassigned(u)'
                      /\ Engaged(u)' <=> Engaged(u)
  <2>1. Len(idle_tasks) = 0 /\ Len(idle_tasks') = 0
    BY <1>2, <1>4
  <2>2. \A u \in Task : ~ IsIdle(u) /\ ~ IsIdle(u)'
    BY <2>1 DEF IsIdle
  <2> QED  BY <1>2, <1>3, <1>4, <2>2 DEF Unassigned, Engaged
<1>6. /\ wpc[t] = "none" /\ work[t] = None
      /\ Unassigned(t)'
      /\ \A d \in Caller : ~ HoldsPool(d)
  BY <1>1, <1>2, <1>3 DEF TaskInv, Unassigned, PoolLockInv
<1>11. TypeOK'
  BY <1>1, <1>4 DEF AsyncNewTask, TypeOK
<1>12. PoolLockInv'
  BY <1>1, <1>2, <1>3, <1>4 DEF PoolLockInv, HoldsPool
<1>13. TaskLockInv'
  BY <1>1, <1>3, <1>4, <1>6 DEF TaskLockInv
<1>14. TeardownInv'
  BY <1>1, <1>2, <1>3, <1>4, <1>6 DEF TeardownInv, TypeOK
<1>15. CallerInv'
  BY <1>1, <1>2, <1>3, <1>4, <1>5, <1>6, ZenonT(30) DEF CallerInv, HoldsPool
<1>16. TaskInv'
  BY <1>1, <1>2, <1>3, <1>4, <1>5 DEF TaskInv
<1>17. IdleSound'
  <2>1. Len(idle_tasks') = 0
    BY <1>2, <1>4
  <2> QED  BY <1>5, <2>1 DEF IdleSound
<1>18. HistoryInv'
  BY <1>1, <1>4 DEF HistoryInv
<1>19. ArgInv'
  BY <1>1, <1>2, <1>3, <1>4 DEF ArgInv
<1>20. PromiseInv'
  BY <1>1, <1>3, <1>4 DEF PromiseInv
<1>21. AccountInv'
  BY <1>1, <1>2, <1>4, <1>5, <1>6 DEF AccountInv, TypeOK
<1>22. PoolNeverAborts'
  BY <1>1, <1>4 DEF PoolNeverAborts
<1> QED  BY <1>11, <1>12, <1>13, <1>14, <1>15, <1>16, <1>17, <1>18, <1>19, <1>20,
            <1>21, <1>22 DEF IInv

\* AsyncIdleTask preserves the inductive invariant.
LEMMA AsyncIdleTaskStep ==
  ASSUME IInv, NEW c \in Caller, AsyncIdleTask(c)
  PROVE  IInv'
<1> USE ThreadPoolAssumption
<1>1. /\ TypeOK /\ PoolLockInv /\ TaskLockInv /\ TeardownInv /\ CallerInv /\ TaskInv
      /\ IdleSound /\ HistoryInv /\ ArgInv /\ PromiseInv /\ AccountInv /\ PoolNeverAborts
  BY DEF IInv
<1>2. /\ cpc[c] = "lock_pool"
      /\ poolMut = None /\ poolMut' = c
      /\ idle_tasks # << >>
  BY DEF AsyncIdleTask
<1>3. /\ idle_tasks[1] \in Task
      /\ \A d \in Caller : /\ cpc'[d] = IF d = c THEN "assign_idle" ELSE cpc[d]
                           /\ target'[d] = IF d = c THEN idle_tasks[1] ELSE target[d]
  <2>1. idle_tasks[1] \in Task /\ Head(idle_tasks) = idle_tasks[1]
    <3>1. idle_tasks \in Seq(Task)
      BY <1>1 DEF TypeOK
    <3> QED  BY <1>2, <3>1, FrontFacts
  <2> QED  BY <1>1, <2>1 DEF AsyncIdleTask, TypeOK
<1>4. UNCHANGED <<idle_tasks, tasks, taskMut, work, promise, running, waiting, wpc,
                  current, arg, futures, submitted, returned, ready, teardown>>
  BY DEF AsyncIdleTask, taskVars, history
<1>5. \A u \in Task : /\ IsIdle(u)' <=> IsIdle(u)
                      /\ ~ BeingPopped(u)
                      /\ ~ BeingPopped(u)'
                      /\ Unassigned(u) => Unassigned(u)'
                      /\ Engaged(u)' <=> Engaged(u)
  BY <1>1, <1>2, <1>3, <1>4
     DEF IsIdle, BeingPopped, Unassigned, Engaged, PoolLockInv, HoldsPool
<1>6. \A d \in Caller : ~ HoldsPool(d)
  BY <1>1, <1>2 DEF PoolLockInv
<1>11. TypeOK'
  BY <1>1, <1>3, <1>4 DEF AsyncIdleTask, TypeOK
<1>12. PoolLockInv'
  BY <1>1, <1>2, <1>3, <1>4 DEF PoolLockInv, HoldsPool
<1>13. TaskLockInv'
  BY <1>1, <1>4 DEF TaskLockInv
<1>14. TeardownInv'
  BY <1>1, <1>2, <1>3, <1>4 DEF TeardownInv
<1>15. CallerInv'
  BY <1>1, <1>2, <1>3, <1>4, <1>5, <1>6 DEF CallerInv, HoldsPool
<1>16. TaskInv'
  BY <1>1, <1>4, <1>5 DEF TaskInv
<1>17. IdleSound'
  BY <1>1, <1>4, <1>5 DEF IdleSound
<1>18. HistoryInv'
  BY <1>1, <1>4 DEF HistoryInv
<1>19. ArgInv'
  BY <1>1, <1>2, <1>3, <1>4 DEF ArgInv
<1>20. PromiseInv'
  BY <1>1, <1>4 DEF PromiseInv
<1>21. AccountInv'
  BY <1>1, <1>4, <1>5 DEF AccountInv, TypeOK
<1>22. PoolNeverAborts'
  BY <1>1, <1>4 DEF PoolNeverAborts
<1> QED  BY <1>11, <1>12, <1>13, <1>14, <1>15, <1>16, <1>17, <1>18, <1>19, <1>20,
            <1>21, <1>22 DEF IInv

\* Assign preserves the inductive invariant.
LEMMA AssignStep ==
  ASSUME IInv, NEW c \in Caller, Assign(c)
  PROVE  IInv'
<1> USE ThreadPoolAssumption
<1>1. /\ TypeOK /\ PoolLockInv /\ TaskLockInv /\ TeardownInv /\ CallerInv /\ TaskInv
      /\ IdleSound /\ HistoryInv /\ ArgInv /\ PromiseInv /\ AccountInv /\ PoolNeverAborts
  BY DEF IInv
<1> DEFINE t == target[c]
           j == arg[c]
<1>2. /\ cpc[c] \in {"assign_new", "assign_idle"}
      /\ taskMut[t] = None
  BY DEF Assign
<1>3. t \in Task /\ j \in submitted /\ j \in Job
  BY <1>1, <1>2 DEF CallerInv, TypeOK
<1>4. /\ \A u \in Task : /\ work'[u] = IF u = t THEN j ELSE work[u]
                         /\ promise'[u] = IF u = t THEN j ELSE promise[u]
      /\ \A d \in Caller : cpc'[d] =
           IF d = c THEN (IF cpc[c] = "assign_new" THEN "leave" ELSE "pop") ELSE cpc[d]
  BY <1>1, <1>3 DEF Assign, TypeOK
<1>5. UNCHANGED <<poolMut, idle_tasks, tasks, taskMut, running, wpc, current, arg,
                  target, futures, submitted, returned, ready, teardown>>
  BY DEF Assign, poolVars, history
<1>6. \A d \in Caller \ {c} : ~ HoldsPool(d) /\ ~ HoldsPool(d)'
  BY <1>1, <1>2, <1>4 DEF PoolLockInv, HoldsPool
<1>7. \A u \in Task : /\ IsIdle(u)' <=> IsIdle(u)
                      /\ ~ BeingPopped(u)
                      /\ BeingPopped(u)' <=> u = t /\ cpc[c] = "assign_idle"
                      /\ Unassigned(u) <=> u = t /\ cpc[c] = "assign_new"
                      /\ u # t => (Engaged(u) => Engaged(u)')
  BY <1>2, <1>4, <1>5, <1>6
     DEF IsIdle, BeingPopped, Unassigned, Engaged, HoldsPool
<1>8. /\ j # None /\ j \notin returned
      /\ \A u \in Task : promise[u] # j
      /\ \A d \in Caller \ {c} : cpc[d] # "idle" => arg[d] # j
  BY <1>1, <1>2, <1>3 DEF ArgInv
<1>9. /\ t \in tasks /\ work[t] = None
      /\ cpc[c] = "assign_new" =>
           ~ IsIdle(t) /\ wpc[t] \in {"enter", "wait"}
      /\ cpc[c] = "assign_idle" =>
           IsIdle(t) /\ wpc[t] \in {"wait", "exit"}
  <2>1. wpc[t] \notin {"test", "idle", "set_value"}
    BY <1>1, <1>2, <1>3 DEF TaskLockInv
  <2>2. CASE cpc[c] = "assign_new"
    BY <1>1, <2>1, <2>2 DEF CallerInv
  <2>3. CASE cpc[c] = "assign_idle"
    <3>1. IsIdle(t)
      <4>1. idle_tasks \in Seq(Task) /\ idle_tasks # << >> /\ t = idle_tasks[1]
        BY <1>1, <2>3 DEF CallerInv, TypeOK
      <4> QED  BY <4>1, FrontFacts, IdleTerms
    <3> QED  BY <1>1, <1>3, <1>7, <2>1, <2>3, <3>1 DEF IdleSound
  <2> QED  BY <1>2, <2>2, <2>3
<1>10. Engaged(t)'
  BY <1>1, <1>2, <1>3, <1>4, <1>5, <1>8 DEF Engaged, HistoryInv
<1>11. TypeOK'
  BY <1>1, <1>3, <1>5 DEF Assign, TypeOK
<1>12. PoolLockInv'
  BY <1>1, <1>2, <1>4, <1>5 DEF PoolLockInv, HoldsPool
<1>13. TaskLockInv'
  BY <1>1, <1>5 DEF TaskLockInv
<1>14. TeardownInv'
  BY <1>1, <1>2, <1>4, <1>5 DEF TeardownInv
<1>15. CallerInv'
  <2>1. ASSUME NEW d \in Caller, d # c
        PROVE  /\ cpc'[d] # "idle" => arg'[d] \in submitted'
               /\ cpc'[d] \in {"idle", "lock_pool"}
    <3>1. cpc'[d] = cpc[d] /\ arg'[d] = arg[d]
      BY <1>4, <1>5, <2>1
    <3>2. cpc[d] \in {"idle", "lock_pool"}
      BY <1>1, <1>6, <2>1 DEF HoldsPool, TypeOK
    <3> QED  BY <1>1, <1>5, <3>1, <3>2 DEF CallerInv
  <2>2. /\ arg'[c] \in submitted'
        /\ target'[c] \in Task
        /\ cpc'[c] \in {"pop", "leave"}
        /\ cpc'[c] = "pop" => idle_tasks' # << >> /\ target'[c] = idle_tasks'[1]
    BY <1>1, <1>2, <1>3, <1>4, <1>5 DEF CallerInv
  <2> QED  BY <2>1, <2>2 DEF CallerInv
<1>16. TaskInv'
  BY <1>1, <1>2, <1>4, <1>5, <1>7, <1>9 DEF TaskInv
<1>17. IdleSound'
  <2>1. \A u \in Task :
          IsIdle(u)' /\ ~ BeingPopped(u)' =>
            /\ u \in tasks'
            /\ work'[u] = None
            /\ wpc'[u] \in {"set_value", "test", "wait", "exit"}
    BY <1>1, <1>2, <1>4, <1>5, <1>7, <1>9 DEF IdleSound
  <2>2. \A i, k \in 1..Len(idle_tasks') : idle_tasks'[i] = idle_tasks'[k] => i = k
    BY <1>1, <1>5 DEF IdleSound
  <2> QED  BY <2>1, <2>2 DEF IdleSound
<1>18. HistoryInv'
  BY <1>1, <1>5 DEF HistoryInv
<1>19. ArgInv'
  <2> SUFFICES ASSUME NEW d \in Caller,
                      cpc'[d] \in {"lock_pool", "assign_new", "assign_idle"}
               PROVE  /\ arg'[d] \notin returned'
                      /\ \A u \in Task : promise'[u] # arg'[d]
                      /\ \A e \in Caller \ {d} : cpc'[e] # "idle" => arg'[e] # arg'[d]
    BY DEF ArgInv
  <2>1. d # c /\ cpc[d] = cpc'[d]
    BY <1>2, <1>4
  <2>2. /\ arg[d] \notin returned /\ \A u \in Task : promise[u] # arg[d]
        /\ \A e \in Caller \ {d} : cpc[e] # "idle" => arg[e] # arg[d]
    BY <1>1, <2>1 DEF ArgInv
  <2>3. \A e \in Caller : cpc'[e] # "idle" => cpc[e] # "idle"
    BY <1>2, <1>4
  <2> QED  BY <1>2, <1>4, <1>5, <1>8, <2>1, <2>2, <2>3
<1>20. PromiseInv'
  <2>1. ASSUME NEW u \in Task, u # t
        PROVE  /\ promise'[u] = promise[u] /\ work'[u] = work[u]
               /\ promise'[u] # promise'[t]
    BY <1>3, <1>4, <1>8, <2>1
  <2>2. promise'[t] = j /\ work'[t] = j
    BY <1>3, <1>4
  <2>3. wpc[t] \in {"enter", "wait", "exit"}
    BY <1>2, <1>9
  <2> QED  BY <1>1, <1>3, <1>5, <1>8, <2>1, <2>2, <2>3 DEF PromiseInv
<1>21. AccountInv'
  <2> SUFFICES ASSUME NEW u \in tasks, u # t
               PROVE  \/ IsIdle(u)' /\ ~ BeingPopped(u)'
                      \/ Unassigned(u)'
                      \/ Engaged(u)'
    BY <1>5, <1>10 DEF AccountInv
  <2>1. u \in Task
    BY <1>1 DEF TypeOK
  <2> QED  BY <1>1, <1>7, <2>1 DEF AccountInv
<1>22. PoolNeverAborts'
  BY <1>1, <1>5 DEF PoolNeverAborts
<1> QED  BY <1>11, <1>12, <1>13, <1>14, <1>15, <1>16, <1>17, <1>18, <1>19, <1>20,
            <1>21, <1>22 DEF IInv

\* Pop preserves the inductive invariant.
LEMMA PopStep ==
  ASSUME IInv, NEW c \in Caller, Pop(c)
  PROVE  IInv'
<1> USE ThreadPoolAssumption
<1>1. /\ TypeOK /\ PoolLockInv /\ TaskLockInv /\ TeardownInv /\ CallerInv /\ TaskInv
      /\ IdleSound /\ HistoryInv /\ ArgInv /\ PromiseInv /\ AccountInv /\ PoolNeverAborts
  BY DEF IInv
<1> DEFINE t == target[c]
<1>2. cpc[c] = "pop" /\ idle_tasks' = Tail(idle_tasks)
  BY DEF Pop
<1>3. t \in Task /\ idle_tasks # << >> /\ t = idle_tasks[1]
  BY <1>1, <1>2 DEF CallerInv
<1>4. /\ idle_tasks' \in Seq(Task)
      /\ Distinct(idle_tasks')
      /\ \A u \in Task : IsIdle(u)' <=> IsIdle(u) /\ u # t
      /\ IsIdle(t)
  <2>1. idle_tasks \in Seq(Task) /\ Distinct(idle_tasks)
    BY <1>1, IdleTerms DEF TypeOK
  <2>2. \A u \in Task : IsIdle(u)' <=> Listed(idle_tasks', u)
    BY DEF IsIdle, Listed
  <2> QED  BY <1>2, <1>3, <2>1, <2>2, FrontFacts, PopFacts, IdleTerms
<1>5. \A d \in Caller : cpc'[d] = IF d = c THEN "leave" ELSE cpc[d]
  BY <1>1 DEF Pop, TypeOK
<1>6. UNCHANGED <<poolMut, tasks, taskMut, work, promise, running, waiting, wpc, current,
                  arg, target, futures, submitted, returned, ready, teardown>>
  BY DEF Pop, taskVars, history
<1>7. \A d \in Caller \ {c} : ~ HoldsPool(d) /\ ~ HoldsPool(d)'
  BY <1>1, <1>2, <1>5 DEF PoolLockInv, HoldsPool
<1>9. \A u \in Task : /\ BeingPopped(u) <=> u = t
                      /\ ~ BeingPopped(u)'
                      /\ ~ Unassigned(u)
                      /\ Engaged(u) => Engaged(u)'
  BY <1>2, <1>5, <1>6, <1>7 DEF BeingPopped, Unassigned, Engaged, HoldsPool
<1>10. Engaged(t)
  <2>1. t \in tasks
    BY <1>1, <1>3, <1>4 DEF TaskInv
  <2> QED  BY <1>1, <1>3, <1>9, <2>1 DEF AccountInv
<1>11. TypeOK'
  BY <1>1, <1>4, <1>6 DEF Pop, TypeOK
<1>12. PoolLockInv'
  BY <1>1, <1>2, <1>5, <1>6 DEF PoolLockInv, HoldsPool
<1>13. TaskLockInv'
  BY <1>1, <1>6 DEF TaskLockInv
<1>14. TeardownInv'
  BY <1>1, <1>2, <1>5, <1>6 DEF TeardownInv
<1>15. CallerInv'
  BY <1>1, <1>2, <1>5, <1>6, <1>7 DEF CallerInv, HoldsPool
<1>16. TaskInv'
  BY <1>1, <1>4, <1>6, <1>9 DEF TaskInv
<1>17. IdleSound'
  <2>1. \A i, k \in 1..Len(idle_tasks') : idle_tasks'[i] = idle_tasks'[k] => i = k
    BY <1>4 DEF Distinct
  <2> QED  BY <1>1, <1>4, <1>6, <1>9, <2>1 DEF IdleSound
<1>18. HistoryInv'
  BY <1>1, <1>6 DEF HistoryInv
<1>19. ArgInv'
  BY <1>1, <1>2, <1>5, <1>6 DEF ArgInv
<1>20. PromiseInv'
  BY <1>1, <1>6 DEF PromiseInv
<1>21. AccountInv'
  BY <1>1, <1>4, <1>6, <1>9, <1>10 DEF AccountInv, TypeOK
<1>22. PoolNeverAborts'
  BY <1>1, <1>6 DEF PoolNeverAborts
<1> QED  BY <1>11, <1>12, <1>13, <1>14, <1>15, <1>16, <1>17, <1>18, <1>19, <1>20,
            <1>21, <1>22 DEF IInv

\* LeaveAsync preserves the inductive invariant.
LEMMA LeaveAsyncStep ==
  ASSUME IInv, NEW c \in Caller, LeaveAsync(c)
  PROVE  IInv'
<1> USE ThreadPoolAssumption
<1>1. /\ TypeOK /\ PoolLockInv /\ TaskLockInv /\ TeardownInv /\ CallerInv /\ TaskInv
      /\ IdleSound /\ HistoryInv /\ ArgInv /\ PromiseInv /\ AccountInv /\ PoolNeverAborts
  BY DEF IInv
<1>2. cpc[c] = "leave" /\ poolMut' = None
  BY DEF LeaveAsync
<1>3. \A d \in Caller : /\ cpc'[d] = IF d = c THEN "idle" ELSE cpc[d]
                        /\ arg'[d] = IF d = c THEN None ELSE arg[d]
                        /\ futures'[d] = IF d = c THEN futures[c] \cup {arg[c]} ELSE futures[d]
                        /\ target'[d] = IF d = c THEN None ELSE target[d]
  BY <1>1 DEF LeaveAsync, TypeOK
<1>4. UNCHANGED <<idle_tasks, tasks, taskMut, work, promise, running, waiting, wpc,
                  current, submitted, returned, ready, teardown>>
  BY DEF LeaveAsync, taskVars, history
<1>5. arg[c] \in Job
  BY <1>1, <1>2 DEF CallerInv, TypeOK
<1>6. \A d \in Caller \ {c} : ~ HoldsPool(d) /\ poolMut # d
  BY <1>1, <1>2 DEF PoolLockInv, HoldsPool
<1>7. \A u \in Task : /\ IsIdle(u)' <=> IsIdle(u)
                      /\ BeingPopped(u)' <=> BeingPopped(u)
                      /\ Unassigned(u)' <=> Unassigned(u)
                      /\ Engaged(u) => Engaged(u)'
  BY <1>2, <1>3, <1>4 DEF IsIdle, BeingPopped, Unassigned, Engaged
<1>11. TypeOK'
  BY <1>1, <1>4, <1>5 DEF LeaveAsync, TypeOK
<1>12. PoolLockInv'
  BY <1>1, <1>2, <1>3, <1>6 DEF PoolLockInv, HoldsPool
<1>13. TaskLockInv'
  BY <1>1, <1>4 DEF TaskLockInv
<1>14. TeardownInv'
  BY <1>1, <1>3, <1>4 DEF TeardownInv
<1>15. CallerInv'
  BY <1>1, <1>3, <1>4, <1>7 DEF CallerInv
<1>16. TaskInv'
  BY <1>1, <1>4, <1>7 DEF TaskInv
<1>17. IdleSound'
  BY <1>1, <1>4, <1>7 DEF IdleSound
<1>18. HistoryInv'
  BY <1>1, <1>4 DEF HistoryInv
<1>19. ArgInv'
  BY <1>1, <1>2, <1>3, <1>4 DEF ArgInv
<1>20. PromiseInv'
  BY <1>1, <1>4 DEF PromiseInv
<1>21. AccountInv'
  BY <1>1, <1>4, <1>7 DEF AccountInv, TypeOK
<1>22. PoolNeverAborts'
  BY <1>1, <1>4 DEF PoolNeverAborts
<1> QED  BY <1>11, <1>12, <1>13, <1>14, <1>15, <1>16, <1>17, <1>18, <1>19, <1>20,
            <1>21, <1>22 DEF IInv

\* WorkerIdle preserves the inductive invariant.
LEMMA WorkerIdleStep ==
  ASSUME IInv, NEW t \in Task, WorkerIdle(t)
  PROVE  IInv'
<1> USE ThreadPoolAssumption
<1>1. /\ TypeOK /\ PoolLockInv /\ TaskLockInv /\ TeardownInv /\ CallerInv /\ TaskInv
      /\ IdleSound /\ HistoryInv /\ ArgInv /\ PromiseInv /\ AccountInv /\ PoolNeverAborts
  BY DEF IInv
<1>2. /\ wpc[t] = "idle"
      /\ poolMut = None
      /\ idle_tasks' = Append(idle_tasks, t)
  BY DEF WorkerIdle
<1>3. \A u \in Task : wpc'[u] = IF u = t THEN "set_value" ELSE wpc[u]
  BY <1>1 DEF WorkerIdle, TypeOK
<1>4. UNCHANGED <<poolMut, tasks, taskMut, work, promise, running, waiting, current, cpc,
                  arg, target, futures, submitted, returned, ready, teardown>>
  BY DEF WorkerIdle, callerVars, history
<1>5. \A c \in Caller : ~ HoldsPool(c)
  BY <1>1, <1>2 DEF PoolLockInv
<1>6. \A u \in Task : /\ ~ BeingPopped(u) /\ ~ BeingPopped(u)'
                      /\ Unassigned(u)' <=> Unassigned(u)
                      /\ Engaged(u)' <=> Engaged(u)
  BY <1>4, <1>5 DEF BeingPopped, Unassigned, Engaged, HoldsPool
<1>7. ~ IsIdle(t) /\ work[t] = None /\ t \in tasks
  BY <1>1, <1>2, <1>6 DEF TaskInv
<1>8. /\ idle_tasks' \in Seq(Task)
      /\ Distinct(idle_tasks')
      /\ \A u \in Task : IsIdle(u)' <=> IsIdle(u) \/ u = t
  <2>1. idle_tasks \in Seq(Task) /\ Distinct(idle_tasks) /\ ~ Listed(idle_tasks, t)
    BY <1>1, <1>7, IdleTerms DEF TypeOK
  <2>2. \A u \in Task : IsIdle(u)' <=> Listed(idle_tasks', u)
    BY DEF IsIdle, Listed
  <2> QED  BY <1>2, <2>1, <2>2, PushFacts, IdleTerms
<1>11. TypeOK'
  BY <1>1, <1>4, <1>8 DEF WorkerIdle, TypeOK
<1>12. PoolLockInv'
  BY <1>1, <1>4 DEF PoolLockInv, HoldsPool
<1>13. TaskLockInv'
  BY <1>1, <1>2, <1>3, <1>4 DEF TaskLockInv
<1>14. TeardownInv'
  BY <1>1, <1>4 DEF TeardownInv
<1>15. CallerInv'
  BY <1>1, <1>4, <1>5 DEF CallerInv, HoldsPool
<1>16. TaskInv'
  BY <1>1, <1>2, <1>3, <1>4, <1>6, <1>7, <1>8 DEF TaskInv
<1>17. IdleSound'
  <2>1. \A i, k \in 1..Len(idle_tasks') : idle_tasks'[i] = idle_tasks'[k] => i = k
    BY <1>8 DEF Distinct
  <2> QED  BY <1>1, <1>2, <1>3, <1>4, <1>6, <1>7, <1>8, <2>1 DEF IdleSound
<1>18. HistoryInv'
  BY <1>1, <1>4 DEF HistoryInv
<1>19. ArgInv'
  BY <1>1, <1>4 DEF ArgInv
<1>20. PromiseInv'
  BY <1>1, <1>2, <1>3, <1>4 DEF PromiseInv
<1>21. AccountInv'
  BY <1>1, <1>4, <1>6, <1>8 DEF AccountInv, TypeOK
<1>22. PoolNeverAborts'
  BY <1>1, <1>4 DEF PoolNeverAborts
<1> QED  BY <1>11, <1>12, <1>13, <1>14, <1>15, <1>16, <1>17, <1>18, <1>19, <1>20,
            <1>21, <1>22 DEF IInv

\* The counting argument behind ~pool: a queue that lists every element of a
\* finite set once, and nothing else, is as long as the set is large.
LEMMA QueueCardinality ==
  ASSUME NEW S, NEW q \in Seq(S), Distinct(q), \A e \in S : Listed(q, e)
  PROVE  IsFiniteSet(S) /\ Cardinality(S) = Len(q)
<1>1. Len(q) \in Nat /\ q \in [1..Len(q) -> S]
  OBVIOUS
<1>2. IsFiniteSet(1..Len(q)) /\ Cardinality(1..Len(q)) = Len(q)
  BY <1>1, FS_Interval
<1>3. q \in Bijection(1..Len(q), S)
  BY <1>1 DEF Bijection, Injection, IsInjective, Surjection, Distinct, Listed
<1> QED  BY <1>2, <1>3, FS_Bijection DEF ExistsBijection

\* PoolDestructor preserves the inductive invariant.
LEMMA PoolDestructorStep ==
  ASSUME IInv, PoolDestructor
  PROVE  IInv'
<1> USE ThreadPoolAssumption
<1>1. /\ TypeOK /\ PoolLockInv /\ TaskLockInv /\ TeardownInv /\ CallerInv /\ TaskInv
      /\ IdleSound /\ HistoryInv /\ ArgInv /\ PromiseInv /\ AccountInv /\ PoolNeverAborts
  BY DEF IInv
<1>2. UNCHANGED <<poolMut, idle_tasks, tasks, taskMut, work, promise, running, waiting,
                  wpc, current, cpc, arg, target, futures, submitted, returned, ready>>
  BY DEF PoolDestructor, poolVars, taskVars, callerVars, history
<1>3. \A c \in Caller : cpc[c] = "idle" /\ futures[c] = {}
  BY DEF PoolDestructor, AllWaitedFor
<1>4. \A u \in Task : /\ IsIdle(u)' <=> IsIdle(u)
                      /\ BeingPopped(u)' <=> BeingPopped(u)
                      /\ Unassigned(u)' <=> Unassigned(u)
                      /\ Engaged(u)' <=> Engaged(u)
  BY <1>2 DEF IsIdle, BeingPopped, Unassigned, Engaged
<1>5. \A u \in Task : ~ BeingPopped(u) /\ ~ Unassigned(u) /\ ~ Engaged(u)
  BY <1>3 DEF BeingPopped, Unassigned, Engaged
<1>6. Len(idle_tasks) = Cardinality(tasks)
  <2>1. idle_tasks \in Seq(Task) /\ tasks \subseteq Task
    BY <1>1 DEF TypeOK
  <2>2. \A i \in 1..Len(idle_tasks) : idle_tasks[i] \in tasks
    BY <1>1, <1>5, <2>1 DEF IdleSound, IsIdle
  <2>3. idle_tasks \in Seq(tasks)
    BY <2>1, <2>2
  <2>4. \A u \in tasks : Listed(idle_tasks, u)
    BY <1>1, <1>5, <2>1, IdleTerms DEF AccountInv
  <2> QED  BY <1>1, <2>3, <2>4, QueueCardinality, IdleTerms
<1>7. teardown' = "tasks"
  BY <1>6 DEF PoolDestructor
<1>11. TypeOK'
  BY <1>1, <1>2, <1>7 DEF TypeOK
<1>12. PoolLockInv'
  BY <1>1, <1>2 DEF PoolLockInv, HoldsPool
<1>13. TaskLockInv'
  BY <1>1, <1>2 DEF TaskLockInv
<1>14. TeardownInv'
  BY <1>2, <1>3, <1>7 DEF TeardownInv
<1>15. CallerInv'
  BY <1>2, <1>3 DEF CallerInv
<1>16. TaskInv'
  BY <1>1, <1>2, <1>4 DEF TaskInv
<1>17. IdleSound'
  BY <1>1, <1>2, <1>4 DEF IdleSound
<1>18. HistoryInv'
  BY <1>1, <1>2 DEF HistoryInv
<1>19. ArgInv'
  BY <1>1, <1>2 DEF ArgInv
<1>20. PromiseInv'
  BY <1>1, <1>2 DEF PromiseInv
<1>21. AccountInv'
  BY <1>1, <1>2, <1>4 DEF AccountInv, TypeOK
<1>22. PoolNeverAborts'
  BY <1>7 DEF PoolNeverAborts
<1> QED  BY <1>11, <1>12, <1>13, <1>14, <1>15, <1>16, <1>17, <1>18, <1>19, <1>20,
            <1>21, <1>22 DEF IInv

\* A step that changes at most teardown, and that not to or from "alive".
LEMMA TeardownStep ==
  ASSUME IInv,
         UNCHANGED <<poolVars, taskVars, callerVars, history>>,
         teardown' = teardown \/ (teardown = "tasks" /\ teardown' = "destroyed")
  PROVE  IInv'
<1>1. /\ TypeOK /\ PoolLockInv /\ TaskLockInv /\ TeardownInv /\ CallerInv /\ TaskInv
      /\ IdleSound /\ HistoryInv /\ ArgInv /\ PromiseInv /\ AccountInv /\ PoolNeverAborts
  BY DEF IInv
<1>2. UNCHANGED <<poolMut, idle_tasks, tasks, taskMut, work, promise, running, waiting,
                  wpc, current, cpc, arg, target, futures, submitted, returned, ready>>
  BY DEF poolVars, taskVars, callerVars, history
<1>4. \A u : /\ IsIdle(u)' <=> IsIdle(u)
             /\ BeingPopped(u)' <=> BeingPopped(u)
             /\ Unassigned(u)' <=> Unassigned(u)
             /\ Engaged(u)' <=> Engaged(u)
  BY <1>2 DEF IsIdle, BeingPopped, Unassigned, Engaged
<1>11. TypeOK'
  BY <1>1, <1>2 DEF TypeOK
<1>12. PoolLockInv' /\ TaskLockInv'
  BY <1>1, <1>2 DEF PoolLockInv, HoldsPool, TaskLockInv
<1>13. TeardownInv' /\ PoolNeverAborts'
  BY <1>1, <1>2 DEF TeardownInv, PoolNeverAborts
<1>14. CallerInv' /\ TaskInv'
  BY <1>1, <1>2, <1>4 DEF CallerInv, TaskInv
<1>15. IdleSound' /\ AccountInv'
  BY <1>1, <1>2, <1>4 DEF IdleSound, AccountInv
<1>16. HistoryInv' /\ ArgInv' /\ PromiseInv'
  BY <1>1, <1>2 DEF HistoryInv, ArgInv, PromiseInv
<1> QED  BY <1>11, <1>12, <1>13, <1>14, <1>15, <1>16 DEF IInv

\* The inductive invariant holds before the first std_async.
LEMMA InitIInv == Init => IInv
<1> SUFFICES ASSUME Init PROVE IInv
  OBVIOUS
<1> USE ThreadPoolAssumption
<1>1. Len(idle_tasks) = 0 /\ \A t : ~ IsIdle(t)
  BY DEF Init, IsIdle
<1>2. TypeOK
  BY DEF Init, TypeOK
<1>3. PoolLockInv /\ TaskLockInv /\ TeardownInv
  BY DEF Init, PoolLockInv, TaskLockInv, TeardownInv, HoldsPool
<1>4. CallerInv /\ TaskInv /\ IdleSound
  BY <1>1 DEF Init, CallerInv, TaskInv, IdleSound
<1>5. HistoryInv /\ ArgInv /\ PromiseInv /\ AccountInv /\ PoolNeverAborts
  BY DEF Init, HistoryInv, ArgInv, PromiseInv, AccountInv, PoolNeverAborts
<1> QED  BY <1>2, <1>3, <1>4, <1>5 DEF IInv

\* Every step of every thread preserves the inductive invariant.
LEMMA NextIInv == IInv /\ [Next]_vars => IInv'
<1> SUFFICES ASSUME IInv, [Next]_vars PROVE IInv'
  OBVIOUS
<1>1. ASSUME NEW c \in Caller, CallerNext(c) PROVE IInv'
  BY <1>1, CallAsyncStep, WaitFutureStep, AsyncNewTaskStep, AsyncIdleTaskStep,
     AssignStep, PopStep, LeaveAsyncStep DEF CallerNext
<1>2. ASSUME NEW t \in Task, WorkerNext(t) PROVE IInv'
  BY <1>2, WorkerLockStep, WorkerWaitStep, WorkerSpuriousStep, WorkerTakeStep,
     WorkerReturnStep, WorkerIdleStep, WorkerSetValueStep, WorkerExitStep
     DEF WorkerNext
<1>3. CASE DestructorNext
  <2>1. CASE PoolDestroyed
    BY <2>1, TeardownStep DEF PoolDestroyed
  <2> QED  BY <1>3, <2>1, PoolDestructorStep, TaskDestructorStep DEF DestructorNext
<1>4. CASE UNCHANGED vars
  BY <1>4, TeardownStep DEF vars
<1> QED  BY <1>1, <1>2, <1>3, <1>4 DEF Next, Terminated

\* The task async has selected at the front of idle_tasks_ is idle indeed.
LEMMA IdleTarget ==
  ASSUME IInv, NEW c \in Caller, cpc[c] = "assign_idle"
  PROVE  work[target[c]] = None /\ wpc[target[c]] # "idle"
<1> DEFINE t == target[c]
<1>1. /\ TypeOK /\ PoolLockInv /\ CallerInv /\ IdleSound
  BY DEF IInv
<1>2. t \in Task /\ idle_tasks \in Seq(Task) /\ idle_tasks # << >> /\ t = idle_tasks[1]
  BY <1>1 DEF CallerInv, TypeOK
<1>3. IsIdle(t)
  BY <1>2, FrontFacts, IdleTerms
<1>4. ~ BeingPopped(t)
  BY <1>1 DEF PoolLockInv, HoldsPool, BeingPopped
<1> QED  BY <1>1, <1>2, <1>3, <1>4 DEF IdleSound

-------------------------------------------------------------------------------
\* The pool's inductive invariant holds in every reachable state.
THEOREM Invariance == Spec => []IInv
<1> QED  BY InitIInv, NextIInv, PTL DEF Spec

\* Every variable of the pool keeps its type, for any number of threads.
THEOREM TypeCorrect == Spec => []TypeOK
<1>1. IInv => TypeOK
  BY DEF IInv
<1> QED  BY <1>1, Invariance, PTL

\* idle_tasks_ lists no task twice and none that is at work.
THEOREM IdleIsSound == Spec => []IdleSound
<1>1. IInv => IdleSound
  BY DEF IInv
<1> QED  BY <1>1, Invariance, PTL

\* The assertion assert (!work_) in task::assign never fails.
THEOREM AssignIsSafe == Spec => []AssignSafe
<1>1. ASSUME IInv PROVE AssignSafe
  <2> SUFFICES ASSUME NEW c \in Caller, cpc[c] \in {"assign_new", "assign_idle"}
               PROVE  work[target[c]] = None
    BY DEF AssignSafe
  <2>1. CASE cpc[c] = "assign_new"
    BY <1>1, <2>1 DEF IInv, CallerInv
  <2>2. CASE cpc[c] = "assign_idle"
    BY <1>1, <2>2, IdleTarget
  <2> QED  BY <2>1, <2>2
<1> QED  BY <1>1, Invariance, PTL

\* The opposite lock orders of async and worker never meet.
THEOREM NoLockCycle == Spec => []NoCircularWait
<1>1. ASSUME IInv PROVE NoCircularWait
  <2> SUFFICES ASSUME NEW c \in Caller, cpc[c] \in {"assign_new", "assign_idle"}
               PROVE  wpc[target[c]] # "idle"
    BY DEF NoCircularWait
  <2>1. CASE cpc[c] = "assign_new"
    BY <1>1, <2>1 DEF IInv, CallerInv
  <2>2. CASE cpc[c] = "assign_idle"
    BY <1>1, <2>2, IdleTarget
  <2> QED  BY <2>1, <2>2
<1> QED  BY <1>1, Invariance, PTL

\* ~pool never aborts when every future has been waited for.
THEOREM PoolSurvives == Spec => []PoolNeverAborts
<1>1. IInv => PoolNeverAborts
  BY DEF IInv
<1> QED  BY <1>1, Invariance, PTL

-------------------------------------------------------------------------------
(***************************************************************************)
(* The pool implements StdAsync: taking work out of work_ is the start of  *)
(* a job, and PromiseInv tells the jobs of different workers apart.        *)
(***************************************************************************)
\* A step that moves no worker in or out of a job leaves executing alone.
LEMMA ExecutingUnchanged ==
  ASSUME \A u \in Task : /\ wpc'[u] = "run" <=> wpc[u] = "run"
                         /\ wpc[u] = "run" => current'[u] = current[u]
  PROVE  executing' = executing
BY DEF executing

\* WorkerTake starts a job that was submitted and never started before.
LEMMA StartStep ==
  ASSUME IInv, NEW t \in Task, WorkerTake(t)
  PROVE  Async!Start(work[t])
<1> USE ThreadPoolAssumption
<1>1. TypeOK /\ PromiseInv /\ HistoryInv
  BY DEF IInv
<1>2. wpc[t] = "test" /\ work[t] # None
  BY DEF WorkerTake
<1>3. \A u \in Task : /\ wpc'[u] = IF u = t THEN "run" ELSE wpc[u]
                      /\ current'[u] = IF u = t THEN work[t] ELSE current[u]
  BY <1>1 DEF WorkerTake, TypeOK
<1>4. work[t] \in submitted \ returned
  BY <1>1, <1>2 DEF PromiseInv
<1>5. work[t] \notin executing
  BY <1>1, <1>2 DEF PromiseInv, executing
<1>6. executing' = executing \cup {work[t]}
  BY <1>2, <1>3 DEF executing
<1> QED  BY <1>4, <1>5, <1>6 DEF Async!Start, WorkerTake, history

\* WorkerReturn ends one job and leaves the jobs of other workers executing.
LEMMA ReturnStep ==
  ASSUME IInv, NEW t \in Task, WorkerReturn(t)
  PROVE  Async!Return(current[t])
<1> USE ThreadPoolAssumption
<1>1. TypeOK /\ PromiseInv
  BY DEF IInv
<1>2. wpc[t] = "run"
  BY DEF WorkerReturn
<1>3. /\ \A u \in Task : wpc'[u] = IF u = t THEN "relock" ELSE wpc[u]
      /\ current' = current
  BY <1>1 DEF WorkerReturn, TypeOK
<1>4. \A u \in Task \ {t} : wpc[u] = "run" => current[u] # current[t]
  BY <1>1, <1>2 DEF PromiseInv
<1>5. current[t] \in executing /\ executing' = executing \ {current[t]}
  BY <1>2, <1>3, <1>4 DEF executing
<1> QED  BY <1>5 DEF Async!Return, WorkerReturn

\* Every step of the pool is a step of StdAsync or a stuttering step.
LEMMA StepRefinement ==
  ASSUME IInv, [Next]_vars
  PROVE  [Async!Next]_(Async!vars)
<1> USE ThreadPoolAssumption
<1>1. TypeOK /\ PromiseInv /\ HistoryInv /\ TaskInv
  BY DEF IInv
<1>2. ASSUME NEW c \in Caller, NEW j \in Job, CallAsync(c, j)
      PROVE  Async!Submit(j)
  <2>1. executing' = executing
    BY <1>2, ExecutingUnchanged DEF CallAsync, taskVars
  <2> QED  BY <1>2, <2>1 DEF CallAsync, Async!Submit
<1>3. ASSUME NEW t \in Task, WorkerTake(t)
      PROVE  work[t] \in Job /\ Async!Start(work[t])
  BY <1>1, <1>3, StartStep DEF WorkerTake, TypeOK
<1>4. ASSUME NEW t \in Task, WorkerReturn(t)
      PROVE  current[t] \in Job /\ Async!Return(current[t])
  <2>1. current[t] \in Job
    BY <1>1, <1>4 DEF WorkerReturn, PromiseInv, TypeOK
  <2> QED  BY <1>4, <2>1, ReturnStep
<1>5. ASSUME NEW t \in Task, WorkerSetValue(t)
      PROVE  promise[t] \in Job /\ Async!SetReady(promise[t])
  <2>1. promise[t] \in Job /\ promise[t] \in returned \ ready
    BY <1>1, <1>5 DEF WorkerSetValue, PromiseInv, TypeOK
  <2>2. executing' = executing
    BY <1>1, <1>5, ExecutingUnchanged DEF WorkerSetValue, TypeOK
  <2> QED  BY <1>5, <2>1, <2>2 DEF Async!SetReady, WorkerSetValue
<1>6. ASSUME NEW c \in Caller, NEW t \in Task, AsyncNewTask(c, t)
      PROVE  UNCHANGED Async!vars
  <2>1. wpc[t] = "none"
    BY <1>1, <1>6 DEF AsyncNewTask, TaskInv
  <2>2. executing' = executing
    BY <1>1, <1>6, <2>1, ExecutingUnchanged DEF AsyncNewTask, TypeOK
  <2> QED  BY <1>6, <2>2 DEF AsyncNewTask, history, Async!vars
<1>7. ASSUME NEW c \in Caller,
             \/ \E j \in Job : WaitFuture(c, j)
             \/ AsyncIdleTask(c) \/ Assign(c) \/ Pop(c) \/ LeaveAsync(c)
      PROVE  UNCHANGED Async!vars
  <2>1. UNCHANGED <<wpc, current, submitted, returned, ready>>
    BY <1>7 DEF WaitFuture, AsyncIdleTask, Assign, Pop, LeaveAsync, taskVars, history
  <2> QED  BY <2>1, ExecutingUnchanged DEF Async!vars
<1>8. ASSUME NEW t \in Task,
             \/ WorkerLock(t) \/ WorkerWait(t) \/ WorkerSpurious(t) \/ WorkerIdle(t)
             \/ WorkerExit(t)
      PROVE  UNCHANGED Async!vars
  <2>1. UNCHANGED <<current, submitted, returned, ready>>
    BY <1>8 DEF WorkerLock, WorkerWait, WorkerSpurious, WorkerIdle, WorkerExit, history
  <2>2. \A u \in Task : wpc'[u] = "run" <=> wpc[u] = "run"
    BY <1>1, <1>8
       DEF WorkerLock, WorkerWait, WorkerSpurious, WorkerIdle, WorkerExit, TypeOK
  <2> QED  BY <2>1, <2>2, ExecutingUnchanged DEF Async!vars
<1>9. ASSUME DestructorNext \/ UNCHANGED vars
      PROVE  UNCHANGED Async!vars
  <2>1. UNCHANGED <<wpc, current, submitted, returned, ready>>
    BY <1>9 DEF DestructorNext, PoolDestructor, TaskDestructor, PoolDestroyed, vars,
       taskVars, history
  <2> QED  BY <2>1, ExecutingUnchanged DEF Async!vars
<1> QED
  BY <1>2, <1>3, <1>4, <1>5, <1>6, <1>7, <1>8, <1>9
     DEF Next, CallerNext, WorkerNext, Terminated, Async!Next

\* thread-pool.cc keeps the contract of std_async: each job is executed once
\* and its future is ready only after it returned.
THEOREM Refinement == Spec => ImplementsStdAsync
<1>1. Init => Async!Init
  BY DEF Init, Async!Init, executing
<1> QED
  BY <1>1, Invariance, StepRefinement, PTL DEF ImplementsStdAsync, Spec, Async!Spec
===============================================================================
