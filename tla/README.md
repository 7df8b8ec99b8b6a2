# Dezyne: a verification project for the run-time system

Dezyne is a language for event-driven components, a compiler that turns models
into C++, C, C#, Javascript or Scheme, and a run-time library per target
language that the generated code calls.  The language comes with its own model
checker for the *models*; nothing checks the run-time libraries, which carry
the concurrency: threads, condition variables, coroutines, timers, queues.
This project models those libraries in TLA+, checks them with TLC and proves
theorems about them with TLAPS.

## 1. Inventory

| component | state | operations | interacts with |
|---|---|---|---|
| thread pool (`runtime/c++/thread-pool.cc`) | idle queue, tasks, per task: work, promise, running flag, two kinds of mutex | `async`, `assign`, `idle`, `worker`, `~pool`, `~task` | called by the pump and by every thread-based context through `std_async` |
| std_async (`runtime/c++/std-async.cc`) | none | `std_async` | same interface, implemented by `std::async` |
| context (`runtime/c++/dzn/context.hh`) | per context: state INITIAL / RELEASED / BLOCKED / FINAL, mutex, condition, work, future | constructor, `call`, `yield`, `release`, `do_block`, `do_release`, `do_finish` | the threads behind coroutines; uses `std_async` |
| coroutine (`runtime/c++/coroutine.cc`, `dzn/coroutine.hh`) | id, context, yield function, port, component, finished, released, skip_block | `yield_to`, `call`, `release` | boost coroutines or contexts |
| pump (`runtime/c++/pump.cc`) | event queue, deferred queue, timers, running / paused / executing, coroutines, collateral_blocked, unblocked, switch_context, skip_block | `operator()(event)`, `stop`, `wait`, `pause`, `resume`, `flush`, `handle`, `remove`, `defer`, `prune_deferred`, `worker`, `block`, `release`, `collateral_block`, `collateral_release` | event loop of a system; called by the run-time and by any application thread |
| run-time (`runtime/c++/runtime.cc`, `dzn/runtime.hh`) | per component: handling, blocked, skip, queue, deferred, native, performs_flush; per coroutine: activity; defer | the wrappers of in and out events, `scoped_handling`, `scoped_activity`, `flush`, `defer` | generated code; calls the pump for blocking |
| container (`runtime/c++/dzn/container.hh`) | trace expectations, queue, mutex, condition | `perform`, `match_return`, `operator()`, destructor | test harness around a system |
| locator (`runtime/c++/dzn/locator.hh` and others) | map from type and key to service | `set`, `get`, `try_get`, `clone` | everything |
| C map and locator (`runtime/c/map.c`, `locator.c`) | open-addressed table, its size and number of elements | `dzn_map_put`, `get`, `remove`, `iterate`; `dzn_locator_set`, `get`, `clone` | services of a system, among them the pump |
| C run-time (`runtime/c/runtime.c`, `queue.c`) | per component: handling, queue, deferred target | `call_in`, `start`, `finish`, `enqueue`, `flush` | generated C; calls the C pump |
| C pump (`runtime/c/pump.c`, `list.c`, `coroutine.c`) | lists of events, blocked, released and collaterally blocked coroutines, deferred statements | `run`, `block`, `release`, `collateral_block`, `defer`, `prune_deferred`, `run_defer`, `finalize` | main; GNU Pth |
| C# run-time (`runtime/cs`) | same roles | same roles, with monitors | generated C# |
| Javascript run-time (`runtime/javascript`) | handling, queue, deferred | `call_in`, `call_out`, `flush` | generated Javascript |
| Scheme run-time (`runtime/scheme`) | handling, queue, pump with fibers-like coroutines | `call-in`, `call-out`, `flush`, `pump`, `block` | generated Scheme |
| compiler front end (`dzn/peg`, `dzn/parse`, `dzn/ast`) | the AST | parse, resolve, well-formedness | everything in `dzn/` |
| code generators (`dzn/code`) | none, AST to text | per target language | templates over the AST |
| simulator (`dzn/vm`, `dzn/simulate.scm`) | program counter, per instance state, trail | `run`, `step`, compliance check | AST |
| state-space tools (`dzn/lts.scm`, `dzn/explore.scm`, `dzn/verify`) | labelled transition systems | explore, reduce, check | mCRL2, simulator |
| command line (`dzn/commands`, `dzn/scripts`) | none | sub-commands | everything in `dzn/` |

### What is hard here

* **Thread pool.** `async` locks pool then task; `worker` locks task then, in
  `idle`, pool.  `idle` is called before the promise is set, so a task can be
  handed out again while its worker is still in its loop.  `~pool` aborts
  unless every task is back.  Correct means: no lock cycle, no task with two
  jobs, every future becomes ready after its work and only then, the
  destructor neither aborts nor hangs.
* **Context.** Control is passed between threads by two critical sections on
  two mutexes; the successor may run, and release its predecessor, before the
  predecessor waits.  Creator, owner and destroyer share one condition.
  Correct means: one thread runs at a time, nobody releases a context that is
  not blocked, no notification is lost, destruction ends the thread.
* **Pump.** Application threads post, wait, pause and stop while the loop moves
  between its main thread and its coroutines; part of the loop reads shared
  state without the mutex.  Correct means: every posted event is executed,
  `wait` returns when and only when the pump is idle, `stop` drains the queue
  and returns, the assertions hold.
* **Blocking.** A blocked call leaves the component and lets other calls in;
  calls that reach a busy component wait collaterally and are released in an
  order that several lists encode together.  Correct means: a component handles
  one event at a time, a call returns after its reply and does return, the
  running coroutine can be found, nothing is left behind.
* **Run to completion.**  An out event waits in the queue of its recipient;
  sender, recipient and every component in between decide from `handling`,
  `activity` and one remembered deferred target who empties which queue.
  Correct means: every event is handled exactly once, in order, after the
  handler that is executing and before the trigger is done.
* **C run-time.**  The same roles by hand: lists of heap cells that several
  owners free, coroutine ids that collide, a queue whose size is eight bits, a
  hash map that counts and rehashes.  Correct means: no assertion fails, no call
  or event is forgotten, a service that was set is found.

## 2. Modules

| module | models | abstract / composed with |
|---|---|---|
| `StdAsync` | what `std_async` promises | implemented by `ThreadPool` |
| `ThreadPool` | `thread-pool.cc` | instance of `StdAsync` with a refinement mapping |
| `ThreadPoolProofs` | theorems about `ThreadPool` | extends it |
| `Context` | `dzn/context.hh`, and how `coroutine.cc` and `pump.cc` use it | justifies the single program counter of `Pump` and `Blocking` |
| `ContextProofs` | theorems about `Context` | extends it |
| `Lists` | operations of lists, as recursive functions | used by `Pump`, `Blocking`, `Flush`, `CMap` and `CPump` |
| `ListProofs` | lemmas about `Lists` and sequences | used by the proofs about those modules |
| `Pump` | `pump.cc`, the event loop | its events are opaque |
| `PumpProofs` | theorems about `Pump` | extends it |
| `Blocking` | `pump.cc`, blocking; `runtime.hh` and `runtime.cc` as far as it needs them; `shell` of `pump.hh` | its events are the handlers of a system of components |
| `BlockingProofs` | theorems about `Blocking` in any system | extends it |
| `RunToCompletion` | what the run-time promises about the execution of events | implemented by `Flush` |
| `Flush` | `runtime.hh` and `runtime.cc`: wrappers, scopes, `flush` | one coroutine; instance of `RunToCompletion` |
| `FlushProofs` | theorems about `Flush` in any system; that it implements `RunToCompletion` in every tree of components | extends it |
| `Dictionary` | what a locator promises | implemented by `CMap` |
| `CMap` | `map.c` and `locator.c` of the C run-time | instance of `Dictionary` |
| `CMapProofs` | theorems about `CMap`, among them that it implements `Dictionary` | extends it |
| `CPump` | `runtime.c`, `queue.c`, `pump.c`, `list.c`, `coroutine.c` of the C run-time | composes the C run-time with its pump |
| `CPumpProofs` | theorems about `CPump` in any system | extends it |
| `MC*` | values of the constants for TLC | |

Definitions whose comment starts with *Mutant* are altered copies of a
definition that follows them.  They are not part of any specification: they record which
slip in the code a property is meant to catch.

### ThreadPool and StdAsync

Variables are the members of `pool` and `task` under their own names without
the trailing underscore; `poolMut` and `taskMut` are the two mutexes, `wpc`
and `cpc` program counters of workers and callers, and `submitted`,
`returned`, `ready` what the contract speaks about.  An action runs from one
acquisition of a mutex (or call-out) to the next.  `waiting` says that the
worker is in `con_.wait` and not notified; `WorkerSpurious` clears it at any
time.  `AllWaitedFor` is the one assumption about callers: the pool is a
static object, and its destructor runs when every pump and context that used
it has waited for its future, as `pump::stop` and `context::do_finish` do.

`StdAsync` says: work is started once, returns, and only then is its future
ready.  The mapping takes `executing` as the jobs in the hands of workers that
run; the other variables have the same names.

### Context

`state` is `context::state`, `mutex` the holder of each context's mutex,
`waits[h]` the context in whose condition thread `h` waits un-notified.  A
thread is named by its context, the pump's main thread by `Zero`.  Constructor
= `Create`, `CtorWait`, `CtorReturn`; the thread's function = `Park`,
`WakeBlocked` / `WakeReleased` / `WakeFinal`, `ThreadEnd`; `yield` =
`Yield`, `YieldLock`, `YieldRelease`, `YieldBlock`; `call` = `Call`,
`CallRelease`, `CallBlock`; the pump's exit function = `Exit`; `~context` =
`Destroy`, `Finish`, `FinishNotify`, `Join`.  Which operation the running
thread does next is open, except that it does not yield to or call a context
that has just exited (`Resumable`): `Pump` shows when the pump breaks that.
`Finish` and `FinishNotify` are two actions because `do_finish` notifies after
it has unlocked.  `forced_unwind` is the path of `WakeFinal`.

### Pump

One program counter `pc` for the pump's side, one per application thread.
`locked` says that the pump's side holds `pump::mutex`; application threads
take and drop it inside one action, which loses nothing because each of their
operations is one critical section.  `cwait` is "waits on `condition`, not
notified"; callers of `wait` are `waiting` until `idle.notify_all` makes them
`notified`.  Only the pump's side ever waits on `condition`, so `notify_one`
reaches it; callers of `wait` are on `idle`.

`timers` is a sequence in the order of deadlines, of which the first `due`
have passed (`Tick` is time); `now` is the set that had expired when `worker`
read the clock.  An event may defer, arm and remove timers, block and release
blocked events, and it may change the state that predicates of deferred events
depend on: `stale` is the set of deferred events whose predicate is false.  On
return an event has pruned some of them (`gone`) and left others (`unmet`).
The wrappers of port events end with `prune_deferred`, so they leave none; a
deferred statement runs without a wrapper and may leave some, and so may an
event that blocks half-way.  `Block` leaves `executing` as it is,
as the code does; the return of the resumed event clears it at its own
`site`, that is, its own stack frame of `worker`.  Collateral blocking is left
to `Blocking`, so `collateral_blocked` is empty here.  `parked` says that the
thread of the coroutine that exited is back in `do_block` (thread-based
coroutines).

*Memory model.*  `LoopTest` reads `running`, `queue` and `timers` without the
mutex.  `running` is written by `stop` under the mutex by another thread, so
the model lets the read return the current value or the one the pump's side
saw when it last had the mutex (`seen`).  The reads of `queue` and of the
timers return the current values.

*Promises.*  The constant `Promises` states what the application keeps to:
`"posts_precede_stop"` (nobody posts once `stop` was called) and
`"waits_end_before_stop"` (nobody is inside `wait` when `stop` is called, nor enters it
later) and `"cancelling_is_pruned"` (a deferred statement that cancels others
calls a port afterwards).  The passing runs name the promises they need; the runs without them
are the findings of section 6.

### Blocking

A system is given by constants: components, their ports, the events of the
outside world, who owns each (`Owner`), what each handler does (`Body`: calls,
requests to the world, replies) and which ports block.  `todo[k]` is the
flattened stack of coroutine `k`: what it still has to do.  The pump's four
lists are `coroutines`, `collateral`, `unblocked`, `switch`; `port`,
`component`, `finished` are the fields of a coroutine; `handling`, `blocked`,
`skip`, `pending` those of `runtime::state`.

The wrapper of an in event is `CallFree` or `CollateralBlock`, then `Enter`,
the handler's own frames, `flush` (`Flush`, `Drain`) and `Leave`
(`~scoped_handling`).  `pump::block` is `Block` (with its own flush), then
`SkipBlock`, `ParkRelay` or `Park`, and `Unpark` when it goes on.
`pump::release` is `Release`; the function it leaves in `switch_context` is
run by `ContextSwitch`.  `awaiting` is the generated component's own state: a
reply is given to a call that waits for one.  The exception in
`collateral_block` sets `crashed`.

A handler may also defer a statement (`Defer`).  `WorkerDefer` executes one when
the queue is empty: at once, or in the same pass of the worker as the event before
it, that is, before `collateral_release` and `context_switch` (the frame `deferred`
that `Worker` leaves; `WorkerDeferNone` when there is nothing to execute).  The
statement is called without marking the component as handling an event.  At its
end `FlushAs` flushes the component and marks it with the id that the pump passed,
which is that of the coroutine created last and not that of the one that runs.

A call of a port outside the system goes through the same wrapper, whose
`component` is the caller: `Ask` and `AskSync` mark the caller as handling and,
when the call returns, `Leave` clears that mark although the caller's own
handler goes on.

Time, timers, predicates of deferred events and stopping are `Pump`'s; all
components are native, and deferred targets are `Flush`'s.

### RunToCompletion and Flush

`RunToCompletion` is the chapter *Execution Semantics* of the manual as a state
machine: a stack of executing handlers in which a component occurs at most once,
and a queue per component whose events start, in order, when the component is
not on the stack; a trigger from outside is done when the stack and all queues
are empty.

`Flush` is what the code does with `handling`, `queue`, `deferred` of each
component (and of `nullptr`, the outside world, which has a state too),
`activity` and `defer`.  `todo` is the flattened stack.  The wrapper of an in
event is `InEvent` with the frames it leaves: handler, `done`, flush of the
provider, `~scoped_activity`, `~scoped_handling`; that of an out event is
`OutEvent`; `runtime::flush` is `StartFlush`, `Drain`, `EndFlush`.  `Executing`,
the refinement mapping's stack, is read off `todo`.  `Body` gives several
alternatives per event, so that handlers may raise events or not; they keep the
rules that Dezyne's verification enforces (`doc/dezyne.texi`, V-fork and Y-fork:
handling an in event of one provides port posts nothing on another one, and
handling an event of a requires port posts to one provides port at most).
Blocking needs a second coroutine and is not in this module: a call that would
block is not enabled, and the check for deadlock shows that none occurs.  Tracing, labels
(`port_update`, `deferred_flush`) and `performs_flush`, set only by test mains,
are left out.

### Dictionary and CMap

A map is a record of `table_size`, `size` and `data`, as in the code.
`dzn_map_put` and `dzn_map_rehash` call each other: a rehash puts the old
elements into the new table, and one of these puts may have to double it again.
`todo` is that recursion, flattened: the elements still to be put, innermost
first.  The action `dzn_map_put` is a put that finds a slot; `dzn_map_rehash` is
one that does not, and puts the elements of the table before the others of
`todo`.  `set` starts with one element, `clone` with those that `iterate` visits;
the next operation starts when `todo` is empty.  `born` are the locators that
exist.  `Hash` is the key's hash before the remainder (CRC and mixing are not
modelled), chosen so that chains meet at several table sizes.  `size` counts
every `put`, also one that replaces a value, as the code does; `length` is
`size` modulo 256.

`Dictionary` says what `init`, `set`, `get` and `clone` promise.  The refinement
mapping gives each locator what `get` will return when `todo` is done (`Lookup`),
so that `set` and `clone` take effect when they are called and the puts and
rehashes that follow change nothing.

### CPump

One coroutine runs (`active`), each with its flattened stack (`todo`).
`dzn_pump_run` makes a worker per event.  `entry` is every `port_coroutine` that
was created, `blocked`, `released` and `collateral` are lists of them, `freed`
those that were freed.  The in event of a generated component is `CallIn`,
perhaps `CollateralBlock`, `Start`, its handler, `Finish`, `Prune`; an out event
is `Enqueue` and `HandleEvent`; `dzn_runtime_flush` is `FlushEvent` and
`FlushTarget`; `dzn_pump_block` is `FallThrough`, or `PumpBlock` and `Unblock`.

Assumptions about the build: freed memory keeps its contents (the code reads an
entry after it was freed; `undefined` records that); `dzn_port_blocked_p`, which
lacks a return statement, returns what its last call left, as an unoptimised
build does; queues are dynamic, since `runtime.c` does not compile with static
ones.

## 3. Runs

| run | instance | shows |
|---|---|---|
| `threadpool` | 1 caller, 2 tasks, 3 jobs, fairness | `AssignSafe`, `NoCircularWait`, `PoolNeverAborts`; `ImplementsStdAsync`; `FutureReady`, `DestructorReturns` |
| `context` | 2 contexts and `Zero`, fairness | `OnlyActiveRuns`, `ReleaseFindsBlocked`, `FinalIsFinal`; `ControlArrives`, `LifetimeReturns` |
| `pump` | 2 threads, 2 events, 2 deferred events, a timer; all operations, all promises, fairness | `AssertionsHold`, `StopDrains`, `WaitMeansIdle`; `EventExecuted`, `DeferredSettles`, `WaitReturns`, `StopReturns` |
| `pump_block` | 3 events of which 2 may block, fairness | `ReleasedGoesOn` |
| `blocking` | one of five systems: the manual's mux with 3 clients; a component that blocks above one that blocks, 2 clients; two blocked ports released together, 2 calls each; a deferred call of a blocking component next to a client of it; a poller whose deferred statement asks the world and whose flush makes the call | `SelfIsActive`, `PortFound`, `QuietIsClean`, `NonOverlapping`, `ReturnsAfterReply`; `CallReturns` |
| `flush` | three systems next to each other: T above M above the world, with deferred statements; G above the hand-written F; K and L above H with two provides ports | `AtRest`; `RunsToCompletion` (refinement) |
| `c_map` | 2 locators, 3 keys, 2 values, at most 5 sets, tables from 4 slots, chains of 2 | `OneSlotPerKey`; `IsDictionary` (refinement) |
| `c_pump` | one of three systems: a mux with 2 clients and a tower of components that defers; four clients of ports that block and release; two components that defer, one cancels | `AssertionsHold`, `NothingLeft`, `RestIsClean`; `CallReturns` |
| `pump_stale`, `blocking_overlap`, `blocking_cascade`, `flush_reentry` | the smallest instances that show a finding | violations, section 6 |

**Bounds.**  Three jobs on the pool are enough for a task to be allocated,
reused while its worker is still in its loop, and for another to be allocated
because the idle one was just popped.  One caller makes the run small enough
for liveness and refinement together; that two callers do not meet between
selecting and popping a task is covered by the theorems of section 4, which
hold for any number of callers.  Two contexts and `Zero` are three threads: one
that runs, its successor and one under construction or destruction; the theorems hold
for any number.  `MCPumpInv.cfg`, `MCCMapInv.cfg`, `MCFlushTree.cfg`, `MCBlockingInv.cfg` and
`MCCPumpInv.cfg` check the inductive invariants of `Pump`, `CMap`, `Flush`, `Blocking` and `CPump` (`Flush` in the systems of the run that are trees:
`Shared` is `FALSE`, `Parent` and `Rank` are given); `MCBlockingInv.cfg` and
`MCBlockingClean.cfg` also check the hypotheses of the theorems about `Blocking`.  In the pump each event,
deferred event and timer happens at most once; two posted events suffice for
one to be queued while the other executes, and for the exit races, which need
one event and two threads; two deferred events suffice for one to cancel the
other.  In `Blocking` every client calls at most `Calls` times.  Two clients
show one collaterally blocked call, three show two of them, and that is where
the code's behaviour changes: `NonOverlapping` holds of every component of the
`blocking` run but the mux with three clients (`blocking_overlap`), which
`Guarded` leaves out.  In `flush` every event and statement may be triggered at
any time when the run-time is at rest, without a bound, since it returns to the same state; the
handlers' alternatives give events raised before, after and between calls, twice
in a row, and from the deferred target of the deferred target.  In `c_map` five
sets are enough for a table to double because it is half full, because a chain
is, and a second time inside a rehash; the two values are symmetric, since they are
only stored; a service is not set after another was
removed (`Refill`), because the run-time never removes one: section 6 has what
happens otherwise.  In `c_pump` each client calls once or twice;
`SizeMod = 256` is never reached there.

**Fairness.**  Threads that can go on do (weak fairness); a thread that wants
a mutex which is free again and again gets it (strong fairness, where another
thread may be woken spuriously for ever and take the mutex each time).  An
event's code ends, time passes, the outside world answers what it is asked.
No fairness is assumed of anything the application chooses to do: posting,
waiting, stopping, resuming, releasing a blocked event, spurious wake-ups.
`EventExecuted`, `DeferredSettles`, `WaitReturns` and `StopReturns` exclude a pump that is paused:
nobody has to resume it.

**Deadlock** is checked in every run: each specification has an explicit action
for the states in which the system has really stopped (`Terminated`, `Quiet`,
`Ended`).  `c_map` has no such states to tell apart and does not check it.

## 4. Proofs

`ThreadPoolProofs` proves, for any sets of callers, tasks and jobs, under
`ThreadPoolAssumption` (`None` is not a caller, task or job; no caller is a
task):

| theorem | statement |
|---|---|
| `TypeCorrect` | `Spec => []TypeOK` |
| `AssignIsSafe` | `Spec => []AssignSafe` |
| `NoLockCycle` | `Spec => []NoCircularWait` |
| `IdleIsSound` | `Spec => []IdleSound` |
| `PoolSurvives` | `Spec => []PoolNeverAborts` |
| `Refinement` | `Spec => ImplementsStdAsync` |

None of these is inductive.  The invariant `IInv` adds:

* `PoolLockInv`, `TaskLockInv`: a mutex is held by the thread whose program
  counter says so; otherwise a second caller could be between selecting a task
  and popping it;
* `TeardownInv`: `~pool` runs with no caller inside `async`;
* `CallerInv`: a caller's selected task is new and untouched, or is the front
  of `idle_tasks_` and still there when it is popped;
* `TaskInv`: where the worker is tells whether its task is listed as idle;
  together with `CallerInv` this is why the two lock orders cannot meet: a
  worker that wants the pool's mutex is not listed as idle, and a caller only
  selects from that list;
* `HistoryInv`, `ArgInv`, `PromiseInv`: a job is known to one caller, then to
  one task, and the worker's program counter tells whether it has returned;
  the refinement needs it to show that work is started once;
* `AccountInv`: a task that is not idle owes somebody a future; with all
  futures waited for, all tasks are idle, and `~pool` finds the two counts
  equal (by the cardinality of the set that `idle_tasks_` enumerates).

There is one lemma per action, with one step per conjunct that the action can
disturb, and lemmas about appending to and popping from `idle_tasks_`.

### Context

`ContextProofs`, for any set of contexts:

| theorem | statement |
|---|---|
| `TypeCorrect` | `Spec => []TypeOK` |
| `OneContextRuns` | `Spec => []OnlyActiveRuns` |
| `ReleaseNeverThrows` | `Spec => []ReleaseFindsBlocked` |
| `NotificationsArrive` | `Spec => []NoLostWakeup` |
| `FinalStays` | `Spec => FinalIsFinal` |

That `do_release` finds its context `BLOCKED` depends on who holds which mutex
between the two critical sections of `yield` and `call` (`MutexInv`), on where
every other thread is while one has control (`ControlInv`, and `ZeroInv` for the
main thread, which is inside `call` whenever a context has control), on the
state that goes with each place (`StateInv`), and on what the thread of the
context that an operation is about may do until the operation gets to it
(`ArgInv`: a successor may still be between releasing its own predecessor and
waiting).  `NoLostWakeup` is what liveness rests on, stated as an invariant:
nobody waits un-notified for what has already happened.  Spurious wake-ups are
steps like any other.

### Lists

TLAPS cannot use an induction principle that takes an operator, so `ListProofs`
first proves one that takes a set (`InductionOnNat`) and derives from it what
`Keep` returns, how it distributes over `\o`, and what erasing and inserting
change.  The rest are facts about `Append`, `Tail`, `\o` and `SubSeq` that the
other proofs cite.

### Pump

`PumpProofs`, for any threads, events, deferred events and timers:

| theorem | assumption | statement |
|---|---|---|
| `TypeCorrect` | | `Spec => []TypeOK` |
| `MainLoopEndsClean` | nobody posts after `stop` | the main loop never calls a coroutine that exited, and ends with an empty queue |
| `AssertionsNeverFail` | the same, and no event blocks | `Spec => []AssertionsHold` |
| `StopDrainsQueue` | nobody posts after `stop` | `Spec => []StopDrains`, however events block |
| `EventsRunOnce` | | no event starts again after its return, or returns while a copy of it is left |
| `WaitLetsGoWhenIdle` | | `wait` lets nobody go during an event, unless that event has blocked before |
| `WaitIsIdle` | no event blocks | `Spec => WaitMeansIdle` |

The assumptions are not for convenience: without the first `MCPumpRestart.cfg`
refutes `AssertionsHold`, and with blocking `MCPumpWaitBlocked.cfg` refutes
`WaitMeansIdle`; `MainLoopEndsClean` and `WaitLetsGoWhenIdle` say what is left
without them.  The other promises of the application are not assumed.

`AccountInv` (every posted event is queued, being executed, blocked or done) is
what `StopDrains` follows from; that the queue is empty when the loop ends is
`StopInv` and `PromiseInv`, which follow `running` through the read without the
mutex: `running => seen`, because the value that the pump's side saw last can be
old in one direction only.  `OnceInv` says that the places of an event exclude
each other, `TimerInv` that a timer in `now` is due or gone even when a handler
removes or arms others meanwhile, `ExecInv` where `executing` may be false
during an event.

### Blocking

`BlockingProofs`, for any components, ports, handlers and clients:

| theorem | hypotheses | statement |
|---|---|---|
| `TypeCorrect` | `OneCallPerPort` | `[]TypeOK` |
| `RepliesComeFirst` | `OneCallPerPort` | `[]ReturnsAfterReply` |
| `SelfIsFound` | `OneCallPerPort`, `OneRelayed` | `[]SelfIsActive` |
| `NothingIsLeft` | `OneCallPerPort`, `CallsForClients` | `[]QuietIsClean` |

The first two hypotheses are about behaviours (`Spec /\ []OneCallPerPort => ...`).

* `OneCallPerPort`: no call of a port that blocks begins while another one is
  blocked on that port.  The wrapper of an in event tests this before a call
  that is let in at once (`Busy`), but a call that waited collaterally goes on
  without another test.
* `OneRelayed`: a coroutine that blocks frees at most one call of its component
  (`collateral_release_skip_block` frees all that it finds).

They hold in the systems of the run and in those of findings 2 and 3
(`MCBlockingInv.cfg` and the configurations of section 6), so that the theorems
say what remains true when calls overlap or a port is not found.  They are not
for convenience: in the system of `MCBlockingRelay.cfg` the code breaks both, and there
TLC refutes `ReturnsAfterReply` and `SelfIsActive`.
`CallsForClients` is about the constants: handlers of events of the world and
deferred statements make no calls, so that every call is made for a client.
`MCBlockingClean.cfg` has the systems of the run for which that is so.
A call that nobody waits for may block for ever with every client idle.

The inductive invariant `IInv` has one part per question:

* `StackInv`: only the top frame of a stack can be `unpark` or `worker`, since a
  coroutine gives up control in its top frame;
* `ListInv`: a coroutine is in `coroutines` or `collateral_blocked`, once, and
  once in `switch_context`;
* `ActiveInv`, `ParkedInv`, `CollateralInv`: a coroutine that has a port waits in
  `block` for that very port, or is about to enter the component it is
  collaterally blocked on; the one that runs has none, and neither has a
  finished one;
* `SwitchInv`, `RepliedInv`: the coroutines that `release` left to be resumed are
  blocked on ports whose reply has been given.  This is where `OneCallPerPort`
  is needed: entering the port again makes it owe a reply.

`OthersInv` (every other coroutine is blocked or finished) gives `SelfIsActive`;
only the step of `collateral_release_skip_block` needs `OneRelayed`.

`CleanInv` says what a call leaves behind until it returns: `ShapeInv` (the
frames of a call have the client's `return` below them; below that is only the
end of the coroutine's function), `WaitingInv` (each `return` belongs to one
waiting client), `FinishedInv` (a coroutine in no list is finished, and a
finished one has nothing left to do), `LeftInv` (`switch_context` and `unblocked` are empty
when the worker waits, unless a coroutine is still blocked) and `HandlingInv`
(a component that counts as handling has a frame that ends it).  With every
client idle there is no `return`, hence no call, hence nothing else.

### Flush

`FlushProofs`, for any components, events and handlers, also such as
verification would reject: `TypeCorrect` (`Spec => []TypeOK`, in which an event
waits only in the queue of its recipient) and `RestsBetweenEvents`
(`Spec => []AtRest`).  The invariant: what is set for the time of a scope
(`handling`, `activity`, `defer`) has a frame on the stack that resets it.

`TreesRunToCompletion` is `Spec => RunsToCompletion`, the refinement that the run `flush` checks, for every tree of components.  `Tree`
assumes, of the constants:

* each component has one parent, a component or the outside world (`Parent`,
  `Rank`); a component with several parents needs the rules that verification
  enforces on its states (section 2), which `Flush` does not have, so those
  systems stay with TLC;
* a handler raises events of its own component; the world answers the component
  that calls it and does not call back when it is told something;
* a component written by hand does not defer;
* a component that calls the world is generated and has a component above it:
  without this the theorem is false, which is finding 4.

`RunInv`, the inductive invariant, has one part per question:

* `StackInv`: which frames may be above which (`Above`, `Inside`, `Tame`) and
  what a frame needs below it (`Supported`).  A frame above the end of a handler
  of `c` that a call has reached belongs to a component at or below `c` and
  flushes only in the scope of that call, so nothing starts a second handler of
  `c`;
* `MarkInv`, `FlushInv`: a component whose mark decides whether it is flushed is
  marked while it executes, and one that is marked will be flushed;
* `WorldInv`: the world raises events into a component that is marked, or from
  outside;
* `TargetInv`: the one deferred target that a component remembers can only be
  its parent, so that remembering one is enough.  This is where trees matter;
* `QueueInv`: a queue that is not empty will be emptied, by a flush of its owner
  on the stack or by one of a child whose deferred target it is.

`Stacked` is defined over the sequence of frames, and the lemmas about it say
when frames may be put on a stack, when the top one may be taken off, and that
changing `defer` at the bottom keeps it.  The refinement mapping's stack
`Executing` is `Keep(todo, ...)`; `NextMove` has one step per action, each a
step of `RunToCompletion` or a stutter.

### CMap

`CMapProofs`, for any locators, keys, values, hash function, initial size and
length of chains:

| theorem | statement |
|---|---|
| `TypeCorrect` | `Spec => []TypeOK` |
| `KeysHaveOneSlot` | `Spec => []OneSlotPerKey` |
| `LocatorsAreDictionaries` | `Spec => IsDictionary` |

All three assume `~Refill`: nothing is set once something was removed.  That is
how the run-time uses its map, which never removes; without it they are false
(`MCCMapRefill.cfg`).  The refinement also assumes `MaxSets < LengthMod`: `set`
is called fewer times than `dzn_map_length` can count; without it a clone may be
empty (`MCCMapClone.cfg`).  With `LengthMod` = 256 these are 255 calls.

The inductive invariant `IInv` adds to the type and to `OneSlotPerKey`:

* `InChain`: an element is in one of the `MaxChainLength` slots that `get` probes;
* `NoHole`, until something is removed: the slots probed before that of an
  element are in use.  This is why `put`, which takes the first free slot, comes
  by the key's own slot first, and it is what a remove destroys;
* `TodoInv`: the elements to be put have keys that differ from each other and
  from those in the table, except for the last one, which `set` was called with
  and which may replace a value.  A rehash inside a rehash keeps it, since it
  moves the elements of the table into `todo`;
* `CountInv`: a table's count and what is to be put into it are together at most
  the number of calls of `set`, which bounds the argument of `dzn_map_length`;
* `BornInv`, `RemovedInv`: a locator that does not exist is empty, and nothing is
  to be put after a remove.

That the count is at least the number of elements (`TypeOK`) is shown by the
cardinality of the set that `Entries` enumerates.  The refinement rests on what a
put, a rehash, a set and a remove do to `LookupIn`, the value that the last element to be
put determines, or else the table.

What is not shown is that `put` ends: keys that share their hash double the table
for ever (section 6).

### CPump

`CPumpProofs`, for any components, ports, handlers and clients, and without a
hypothesis on what they do: `TypeCorrect` (`Spec => []TypeOK`) and `MainRests`
(`Spec => []RestIsClean`).  `CPumpAssumption` says of a handler that it is a
sequence of the instructions listed at the top of `CPump`.

`TypeOK` is not inductive by itself: what `worker` takes from `q` must be an
event, and `process` may only go on with a coroutine that exists.  `IInv` adds:

* `WorkerInv`: a worker that has not begun is the coroutine that runs, and `q`
  holds its event and no other.  This is what makes the one list `q` enough for
  any number of workers;
* `MainInv`: while a worker runs, all Main has left to do is `process`, and it
  waits for events only when nothing is released;
* `HandlingInv`: a component that counts as handling an event has a frame that
  ends it, `finish` or `block`;
* `BlockedInv`: for each port there are as many entries in `blocked` as
  coroutines that will delete one.  A coroutine that goes on deletes the first
  entry of its port, not its own; and a reply that comes early takes the entry of
  another call of the port.  Which entry belongs to whom is not an invariant;
  their number is, by the cardinalities of the set of entries and of the set of
  places `<<coroutine, depth>>` at which a frame `unblock` is.

With every worker done there is no such frame, so `blocked` is empty.  That an
assertion may fail, that a call may stay in `collateral`, or an event in a queue
that counts as empty, is not excluded (`MCCPumpTwin.cfg`, `MCCPumpOverlap.cfg`,
`MCCPumpWrap.cfg`): the theorems say what holds also then.

## 5. Only model-checked, not modelled

*Only model-checked.*  All liveness properties: TLAPS 1.4.5 has no support for
fairness and `ENABLED`.  `PortFound` and `NonOverlapping` of `Blocking`, which do not hold in every system
(findings 2 and 3), `AssertionsHold` and `NothingLeft` of `CPump`, which do not
either (section 6), and `RunsToCompletion` in systems with shared components.

*Not modelled.*  The `container` (a test harness over standard input), the C++
locator, the run-times in C#, Javascript and Scheme, and the compiler,
simulator and tools under `dzn/`; the list in section 1 and `PROJECT.json` give
the reasons.  Of the run-times that are modelled: tracing, labels of port
states, `performs_flush`, conversions between values and strings, the unit tests
that `map.c`, `list.c`, `queue.c` and `coroutine.c` contain, and of `mem.c` the
static allocator.  Boost's coroutines and GNU Pth are libraries.

## 6. Findings

Each is a run that TLC refutes, with the text it contradicts.

1. `pump_stale`: a deferred statement that changes the state after its last
   call of a port does not prune.  The next deferred event stays at the front of
   the queue with a false predicate, and the worker spins until another event
   prunes it.  The manual says that it is removed.
2. `blocking_overlap`: with three clients two calls are inside the mux at once,
   because a port stays in `unblocked` after the call on it has blocked again.
3. `blocking_cascade`: a call that has to wait for a call that itself waits
   collaterally at a lower component finds no port: `std::terminate`.
4. `flush_reentry`: `~scoped_handling` of a call that leaves the system clears
   the caller's own mark; when the caller then posts to its client, the flush of
   the outside world goes on with the caller as its deferred target and starts
   its next handler inside the one that is executing.  The manual promises
   "non-reentrant recursive function invocation".

More observations are outside the list of runs; each has a configuration that
reproduces it (`tlc -config <file> <module>`):

* `MCPumpRestart.cfg`, `MCPump` (`AssertionsHold`): an event posted during `stop`
  can make the main loop call a coroutine whose thread has not blocked again:
  `std::terminate`.
* `MCPumpWaitStop.cfg`, `MCPump` (`WaitReturns`): a caller still inside `wait` at
  `stop` may never return, because nothing notifies `idle` any more.
* `MCPumpWaitBlocked.cfg`, `MCPump` (`WaitMeansIdle`): `wait` can return while a
  released event executes, because `executing` was cleared by another event's
  return.
* `MCBlockingRelay.cfg`, `MCBlocking` (`SelfIsActive`):
  `collateral_release_skip_block` resumes several calls, of which `find_self`
  takes the wrong one.
* `MCBlockingLostReply.cfg`, `MCBlocking` (`CallReturns`): a second early reply
  overwrites the first in the one slot `skip`; the first call never returns.
* `MCBlockingReentry.cfg`, `MCBlocking` (`NonOverlapping`): the mark that
  `~scoped_handling` clears (finding 4) also lets a second call into a component
  that has called the world and then a blocking component.
* `MCBlockingDefer.cfg`, `MCBlocking` (`NonOverlapping`): a deferred statement is
  not marked as handling, so that a call is let into its component while it
  blocks.  The commentary of `test/all/defer_collateral_blocking` says that such a
  call must wait; `dzn_pump_run_defer` of the C run-time does mark it.
* `MCCPumpTwin.cfg`, `MCCPump` (`AssertionsHold`): the ids of all workers are
  `id || -1`, which is 1; with two blocked calls in different components a third
  call waits for the wrong port, goes on too early and the assertion "component
  already handling an event" fails.
* `MCCPumpOverlap.cfg`, `MCCPump` (`CallReturns`): with three clients of a mux,
  `dzn_pump_block` finds the entry of a collaterally blocked call in `released`,
  takes it for an early reply and deletes it; that call never goes on.
* `MCCPumpMemory.cfg`, `MCCPump` (`MemorySafe`): `pump_process_released` frees an
  entry that is still in `blocked`; the coroutine finds it there and frees it
  again.
* `MCCPumpDefer.cfg`, `MCCPump` (`MemorySafe`): `dzn_pump_prune_deferred` frees
  the cell before the one it means to remove and unlinks neither.
* `MCCPumpWrap.cfg`, `MCCPump` (`NothingLeft`, with a size modulo 2): a queue
  whose length is a multiple of the range of its size counts as empty.
* `MCCMapRefill.cfg`, `MCCMap` (`OneSlotPerKey`): after a remove, `put` places a
  key that is further on in its chain a second time.
* `MCCMapClone.cfg`, `MCCMap` (`IsDictionary`, with a length modulo 4): when the
  count of `put`s is a multiple of that, of 256 in the code, `iterate` takes the map for empty and a
  clone has no services.

Noticed on the way, without a run: `pump.cc:258` passes
`current_coroutine` to a deferred statement, the id of the coroutine created last,
so that the statement's flush can mark its component with the id of a coroutine
that has finished, and a call that finds it busy then finds no port to wait for
(TLC shows it when `DoubleTwice` lets `Poll` be called twice too); the path of `SkipBlock` leaves
`runtime::blocked` set; deferred events that are left at `stop` are dropped;
`pause` takes effect only in the main loop, that is, before the first event
and after an exit; `NEWS` says of the thread pool that it "no longer joins
threads at destruction, instead it detaches them", and `~task` joins;
`dzn_locator_clone` does not copy `illegal`; the path for a failed allocation in
`dzn_map_put` is never taken, since `dzn_calloc` asserts; nine keys with the same
hash make `dzn_map_put` double its table until memory runs out; the loops over a
table in `map.c` count in a `uint16_t` and do not end once it has 65536 slots; the static
allocator of `mem.c` (line 43) hands out overlapping blocks.

## 7. Plan

1. Proofs: conditions on a system under which `NonOverlapping` and `PortFound` of
   `Blocking`, and `AssertionsHold` and `NothingLeft` of `CPump`, hold.
2. An abstract specification of the pump (a queue whose events are executed in
   order, with blocked ones set aside), implemented by `Pump`.
3. `CsPump`: one monitor and `Pulse`, against the properties of `Pump`.
4. The algorithms of `lts.scm` as operators against reference definitions.
