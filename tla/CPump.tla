--------------------------------- MODULE CPump ---------------------------------
(***************************************************************************)
(* The C run-time: events, queues and flush (runtime.c, queue.c) and the   *)
(* pump with blocking, collateral blocking and defer (pump.c) over the     *)
(* coroutines of GNU Pth (coroutine.c) and singly linked lists (list.c).   *)
(*                                                                         *)
(* Everything is one operating-system thread.  Coroutine Main reads events *)
(* and passes each to dzn_pump_run, which makes a worker coroutine for it; *)
(* a coroutine that yields names its successor, so nothing is left to a    *)
(* scheduler.  The coroutines that dzn_pump_block and                      *)
(* dzn_pump_collateral_block make only yield to Main and are never resumed:*)
(* they are folded into the step that makes them.                          *)
(*                                                                         *)
(* What the handler of a port, an event or a deferred statement does is    *)
(* given by Body, a sequence of                                            *)
(*   <<"call", p>>    call an in event on port p of another component      *)
(*   <<"out", e>>     raise an out event that another component requires   *)
(*   <<"ask", w>>     ask the outside world for event w                    *)
(*   <<"reply", p>>   reply on port p, if its call waits for a reply       *)
(*   <<"defer", s>>   defer statement s                                    *)
(*   <<"change", c>>  assign the state that deferred statements of c need  *)
(* and the handler of a port in Blocks ends in dzn_port_block.             *)
(*                                                                         *)
(* Memory that has been freed keeps its contents in this model, one of the *)
(* things an allocator may do; undefined records such a use.               *)
(***************************************************************************)
EXTENDS Integers, Sequences, Lists

CONSTANTS
  Component, Port,
  Internal,   \* out events between components
  World,      \* out events of the outside world
  Statement,  \* deferred statements
  Source,     \* the component that raises each internal event
  Owner,      \* the component that handles a port, event or statement
  Body, Blocks,
  Client, Entry, Calls,  \* clients, the port each calls and how often
  Together,   \* the sets of clients that may be there at the same time
  SizeMod,    \* the size of a queue is a uint8_t: 2^8
  None

\* What handlers are made of.
Instructions ==
  {"call", "reply"} \X Port \cup {"out"} \X (Internal \cup World) \cup {"ask"} \X World
  \cup {"defer"} \X Statement \cup {"change"} \X Component

ASSUME CPumpAssumption ==
  /\ \A x \in Port \cup Internal \cup World \cup Statement : Body[x] \in Seq(Instructions)
  /\ Owner \in [Port \cup Internal \cup World \cup Statement -> Component]
  /\ Source \in [Internal -> Component]
  /\ Blocks \subseteq Port /\ Entry \in [Client -> Port] /\ Calls \in [Client -> Nat]
  /\ Together \subseteq SUBSET Client
  /\ SizeMod \in Nat \ {0} /\ None \notin Component

VARIABLES
  q, blocked, released, collateral, deferred,  \* dzn_pump; lists of entries
  entry,      \* every port_coroutine that was created
  freed,      \* those that were freed
  handling, queue, target,  \* dzn_runtime_info: handling, q, deferred
  active, todo,             \* the coroutine that runs, what each has to do
  state, awaiting,          \* of the components
  asked, client, calls,     \* of the outside world
  ended,      \* Main has read its last event
  failed,     \* an assertion failed
  undefined   \* an entry was freed twice, or a freed deferred statement was used

pumpVars == <<q, blocked, released, collateral, deferred, entry, freed>>
infoVars == <<handling, queue, target>>
envVars == <<asked, client, calls, ended>>
vars == <<pumpVars, infoVars, active, todo, state, awaiting, envVars, failed, undefined>>

Main == 1

\* memset (self, 0, ...)
dzn_pump_init ==
  /\ q = << >> /\ blocked = << >> /\ released = << >> /\ collateral = << >>
  /\ deferred = << >> /\ entry = << >> /\ freed = {}

\* dzn_runtime_info_init of every component, with dzn_queue_init
dzn_runtime_info_init ==
  /\ handling = [c \in Component |-> 0] /\ queue = [c \in Component |-> << >>]
  /\ target = [c \in Component |-> None]

Init ==
  /\ dzn_pump_init /\ dzn_runtime_info_init
  /\ active = Main /\ todo = <<<< >>>>
  /\ state = [c \in Component |-> 0] /\ awaiting = {}
  /\ asked = {} /\ client = [t \in Client |-> "idle"]
  /\ \E there \in Together : calls = [t \in Client |-> IF t \in there THEN 0 ELSE Calls[t]]
  /\ ended = FALSE /\ failed = FALSE /\ undefined = FALSE

-------------------------------------------------------------------------------
Doing(op) == ~failed /\ todo[active] # << >> /\ Head(todo[active])[1] = op
Arg == Head(todo[active])[2]
Do(frames) == [todo EXCEPT ![active] = frames \o Tail(@)]

\* assert
Fail ==
  /\ failed' = TRUE
  /\ UNCHANGED <<pumpVars, infoVars, active, todo, state, awaiting, envVars, undefined>>

\* dzn_coroutine_id: the id of a worker is (self->id || -1), which is 1.
dzn_coroutine_id(k) == IF k = Main THEN -1 ELSE 1

\* pth_yield: the other coroutine runs.
dzn_coroutine_yield_to(k) == active' = k

\* A new cell at the end of a list, as pump_enqueue does.
dzn_list_append(list, data) == Append(list, data)

\* Mutant: only the first cell of the list is looked at.
dzn_list_delete_front(list, data) ==
  IF list # << >> /\ Head(list) = data THEN Tail(list) ELSE list

\* The list without the first cell that holds data.
dzn_list_delete(list, data) ==
  IF data \in Elements(list)
  THEN EraseAt(list, CHOOSE k \in 1..Len(list) :
                       list[k] = data /\ \A j \in 1..k - 1 : list[j] # data)
  ELSE list

New == Len(entry) + 1

\* Mutant: the port of the new entry is not set.
port_coroutine_create_unset(p, k) ==
  entry' = Append(entry, [port |-> None, coroutine |-> k, id |-> dzn_coroutine_id(k)])

\* port_coroutine_create
port_coroutine_create(p, k) ==
  entry' = Append(entry, [port |-> p, coroutine |-> k, id |-> dzn_coroutine_id(k)])

\* The cells of a list whose data satisfy the predicate, in the order of the list; the
\* first one is what the function of list.c returns.
dzn_list_find_predicate(list, matching) == Keep(list, matching)

\* ... with port_predicate and with id_predicate
OfPort(list, p) == dzn_list_find_predicate(list, {i \in DOMAIN entry : entry[i].port = p})

OfId(list, id) == dzn_list_find_predicate(list, {i \in DOMAIN entry : entry[i].id = id})

\* free (p) of each of a set of entries: a second time is undefined.
Free(entries) ==
  /\ freed' = freed \cup entries
  /\ undefined' = (undefined \/ entries \cap freed # {})

-------------------------------------------------------------------------------
(***************************************************************************)
(* Main and the environment.                                               *)
(***************************************************************************)

\* pump_create_coroutine (worker)
pump_create_coroutine(todo1) == Append(todo1, <<<<"worker">>>>)

\* dzn_pump_run: a worker takes the event; Main goes on with process_released.
dzn_pump_run(event) ==
  /\ active = Main /\ todo[Main] = << >> /\ ~ended /\ ~failed
  /\ q' = dzn_list_append(q, event)
  /\ todo' = pump_create_coroutine([todo EXCEPT ![Main] = <<<<"process">>>>])
  /\ dzn_coroutine_yield_to(Len(todo) + 1)
  /\ UNCHANGED <<blocked, released, collateral, deferred, entry, freed, infoVars, state,
                 awaiting, ended, failed, undefined>>

ClientCall(t) ==
  /\ client[t] = "idle" /\ calls[t] < Calls[t]
  /\ client' = [client EXCEPT ![t] = "waiting"]
  /\ calls' = [calls EXCEPT ![t] = @ + 1]
  /\ dzn_pump_run(<<<<"call", Entry[t]>>, <<"return", t>>>>)
  /\ UNCHANGED asked

Answer(w) ==
  /\ w \in asked
  /\ asked' = asked \ {w}
  /\ dzn_pump_run(<<<<"out", w>>>>)
  /\ UNCHANGED <<client, calls>>

\* The event "<defer>".
RunDefer ==
  /\ deferred # << >>
  /\ dzn_pump_run(<<<<"prune">>, <<"run_defer">>>>)
  /\ UNCHANGED <<asked, client, calls>>

\* No event is left: dzn_pump_finalize.
Finalize ==
  /\ active = Main /\ todo[Main] = << >> /\ ~ended /\ ~failed
  /\ asked = {} /\ \A t \in Client : client[t] = "idle" /\ calls[t] = Calls[t]
  /\ ended' = TRUE
  /\ todo' = [todo EXCEPT ![Main] = <<<<"flush_defer">>>>]
  /\ UNCHANGED <<pumpVars, infoVars, active, state, awaiting, asked, client, calls, failed, undefined>>

Return ==
  /\ Doing("return")
  /\ client' = [client EXCEPT ![Arg] = "idle"]
  /\ todo' = Do(<< >>)
  /\ UNCHANGED <<pumpVars, infoVars, active, state, awaiting, asked, calls, ended, failed, undefined>>

Ask ==
  /\ Doing("ask")
  /\ asked' = asked \cup {Arg}
  /\ todo' = Do(<< >>)
  /\ UNCHANGED <<pumpVars, infoVars, active, state, awaiting, client, calls, ended, failed, undefined>>

\* worker
Worker ==
  /\ Doing("worker")
  /\ q' = Tail(q)
  /\ todo' = Do(Head(q) \o <<<<"process">>>>)
  /\ UNCHANGED <<blocked, released, collateral, deferred, entry, freed, infoVars, active,
                 state, awaiting, envVars, failed, undefined>>

\* Mutant: calls that wait for the port are left where they are.
AlsoReleasedNone(p) == << >>

\* The calls that wait for port p are released with it.
AlsoReleased(p) == OfPort(collateral, p)

\* pump_process_released: the coroutine that was released first goes on; the entry is
\* freed, although that of a blocked coroutine is still in blocked.
ProcessReleased ==
  /\ Doing("process") /\ released # << >>
  /\ LET i == Head(released)
         more == AlsoReleased(entry[i].port) IN
     /\ Free({i})
     /\ released' = Tail(released) \o more
     /\ collateral' = Keep(collateral, Elements(collateral) \ Elements(more))
     /\ dzn_coroutine_yield_to(entry[i].coroutine)
  /\ UNCHANGED <<q, blocked, deferred, entry, infoVars, todo, state, awaiting, envVars, failed>>

\* Nothing is released (any more): handler, which yields to Main.
ProcessDone ==
  /\ Doing("process") /\ released = << >>
  /\ dzn_coroutine_yield_to(Main)
  /\ todo' = Do(<< >>)
  /\ UNCHANGED <<pumpVars, infoVars, state, awaiting, envVars, failed, undefined>>

-------------------------------------------------------------------------------
(***************************************************************************)
(* The run-time: in events, out events, queues and flush.                  *)
(***************************************************************************)

\* Mutant: only the port is looked at, not the component.
BusyPort(p) == OfPort(blocked, p) # << >>

dzn_pump_port_blocked_p(p) == OfPort(blocked, p) # << >>

\* It has no return statement: the model gives it the value that its last call leaves
\* in the register of the result, as an unoptimised build does.
dzn_port_blocked_p(p) == dzn_pump_port_blocked_p(p)

\* The component is handling an event, or the port is blocked.
Busy(p) == handling[Owner[p]] # 0 \/ dzn_port_blocked_p(p)

\* dzn_runtime_call_in
CallIn ==
  /\ Doing("call")
  /\ IF Busy(Arg)
     THEN todo' = Do(<<<<"collateral", Arg>>>>)
     ELSE todo' = Do(<<<<"start", Arg>>>>)
  /\ UNCHANGED <<pumpVars, infoVars, active, state, awaiting, envVars, failed, undefined>>

\* The port that the call waits for: the port of the coroutine that was found.
BusyWith(found) == entry[Head(found)].port

\* dzn_pump_collateral_block
CollateralBlock ==
  /\ Doing("collateral")
  /\ LET id == handling[Owner[Arg]]
         found == OfId(blocked, id) \o OfId(collateral, id) IN
     IF found = << >> THEN Fail
     ELSE /\ port_coroutine_create(BusyWith(found), active)
          /\ collateral' = dzn_list_append(collateral, New)
          /\ todo' = Do(<<<<"start", Arg>>>>)
          /\ dzn_coroutine_yield_to(Main)
          /\ UNCHANGED <<q, blocked, released, deferred, freed, infoVars, state, awaiting,
                         envVars, failed, undefined>>

\* handling becomes (dzn_coroutine_id () || -1), which is 1.
dzn_runtime_start(c) == handling' = [handling EXCEPT ![c] = 1]

\* The assertion of dzn_runtime_start, and the handler: of a port ...
Start ==
  /\ Doing("start")
  /\ LET c == Owner[Arg] IN
     IF handling[c] # 0 THEN Fail
     ELSE /\ dzn_runtime_start(c)
          /\ awaiting' = awaiting \cup (Blocks \cap {Arg})
          /\ todo' = Do(Body[Arg] \o (IF Arg \in Blocks THEN <<<<"block", Arg>>>> ELSE << >>)
                        \o <<<<"finish", c>>, <<"prune">>>>)
          /\ UNCHANGED <<pumpVars, queue, target, active, state, envVars, failed, undefined>>

\* ... or of an out event (dzn_runtime_handle_event)
HandleEvent ==
  /\ Doing("handle")
  /\ LET c == Owner[Arg] IN
     IF handling[c] # 0 THEN Fail
     ELSE /\ dzn_runtime_start(c)
          /\ todo' = Do(Body[Arg] \o <<<<"finish", c>>>>)
          /\ UNCHANGED <<pumpVars, queue, target, active, state, awaiting, envVars, failed, undefined>>

\* dzn_runtime_finish
Finish ==
  /\ Doing("finish")
  /\ handling' = [handling EXCEPT ![Arg] = 0]
  /\ todo' = Do(<<<<"flush", Arg>>>>)
  /\ UNCHANGED <<pumpVars, queue, target, active, state, awaiting, envVars, failed, undefined>>

\* size is a uint8_t.
dzn_queue_empty(c) == Len(queue[c]) % SizeMod = 0

dzn_queue_push(c, e) == queue' = [queue EXCEPT ![c] = Append(@, e)]

dzn_queue_pop(c) == queue' = [queue EXCEPT ![c] = Tail(@)]

\* dzn_runtime_enqueue.  The components are generated: they perform their own flush.
Enqueue ==
  /\ Doing("out")
  /\ LET c == Owner[Arg] IN
     IF Arg \in World /\ handling[c] = 0
     THEN /\ todo' = Do(<<<<"handle", Arg>>, <<"prune">>>>)
          /\ UNCHANGED <<queue, target>>
     ELSE /\ dzn_queue_push(c, Arg)
          /\ target' = IF Arg \in World THEN target ELSE [target EXCEPT ![Source[Arg]] = c]
          /\ todo' = Do(<<<<"prune">>>>)
  /\ UNCHANGED <<pumpVars, handling, active, state, awaiting, envVars, failed, undefined>>

\* dzn_runtime_flush: the next event of the queue ...
FlushEvent ==
  /\ Doing("flush") /\ ~dzn_queue_empty(Arg)
  /\ dzn_queue_pop(Arg)
  /\ todo' = Do(<<<<"handle", Head(queue[Arg])>>, <<"flush", Arg>>>>)
  /\ UNCHANGED <<pumpVars, handling, target, active, state, awaiting, envVars, failed, undefined>>

\* Mutant: the recipient of the last event is not asked to flush.
FlushNextNone(c) == << >>

\* The recipient of the last event that component c raised, unless it is handling an event.
FlushNext(c) == IF handling[target[c]] = 0 THEN <<<<"flush", target[c]>>>> ELSE << >>

\* ... or the component that is left to flush.
FlushTarget ==
  /\ Doing("flush") /\ dzn_queue_empty(Arg)
  /\ target' = [target EXCEPT ![Arg] = None]
  /\ todo' = Do(IF target[Arg] = None THEN << >> ELSE FlushNext(Arg))
  /\ UNCHANGED <<pumpVars, handling, queue, active, state, awaiting, envVars, failed, undefined>>

-------------------------------------------------------------------------------
(***************************************************************************)
(* dzn_port_block and dzn_port_release.                                    *)
(***************************************************************************)
Block ==
  /\ Doing("block")
  /\ handling' = [handling EXCEPT ![Owner[Arg]] = 0]
  /\ todo' = Do(<<<<"flush", Owner[Arg]>>, <<"pump_block", Arg>>>>)
  /\ UNCHANGED <<pumpVars, queue, target, active, state, awaiting, envVars, failed, undefined>>

\* dzn_pump_block: the port was released already.
FallThrough ==
  /\ Doing("pump_block") /\ OfPort(released, Arg) # << >>
  /\ LET i == Head(OfPort(released, Arg)) IN
     /\ released' = dzn_list_delete(released, i)
     /\ Free({i})
  /\ todo' = Do(<< >>)
  /\ UNCHANGED <<q, blocked, collateral, deferred, entry, infoVars, active, state, awaiting,
                 envVars, failed>>

\* dzn_pump_block: Main goes on.
PumpBlock ==
  /\ Doing("pump_block") /\ OfPort(released, Arg) = << >>
  /\ port_coroutine_create(Arg, active)
  /\ blocked' = dzn_list_append(blocked, New)
  /\ todo' = Do(<<<<"unblock", Arg>>>>)
  /\ dzn_coroutine_yield_to(Main)
  /\ UNCHANGED <<q, released, collateral, deferred, freed, infoVars, state, awaiting, envVars,
                 failed, undefined>>

\* dzn_pump_block, after the coroutine goes on: it looks for its entry in blocked.
Unblock ==
  /\ Doing("unblock")
  /\ IF OfPort(blocked, Arg) = << >> THEN UNCHANGED <<blocked, freed, undefined>>
     ELSE LET i == Head(OfPort(blocked, Arg)) IN
          blocked' = dzn_list_delete(blocked, i) /\ Free({i})
  /\ todo' = Do(<< >>)
  /\ UNCHANGED <<q, released, collateral, deferred, entry, infoVars, active, state, awaiting,
                 envVars, failed>>

\* The entry of a blocked call is put in released too; a reply that comes before the
\* call blocks gets an entry of its own.
dzn_pump_release(p) ==
  IF OfPort(blocked, p) # << >>
  THEN released' = dzn_list_append(released, Head(OfPort(blocked, p))) /\ UNCHANGED entry
  ELSE released' = dzn_list_append(released, New) /\ port_coroutine_create(p, active)

\* A reply: dzn_port_release, unless the component owes no reply on the port.
Release ==
  /\ Doing("reply")
  /\ IF Arg \notin awaiting THEN UNCHANGED <<awaiting, released, entry>>
     ELSE awaiting' = awaiting \ {Arg} /\ dzn_pump_release(Arg)
  /\ todo' = Do(<< >>)
  /\ UNCHANGED <<q, blocked, collateral, deferred, freed, infoVars, active, state, envVars,
                 failed, undefined>>

-------------------------------------------------------------------------------
(***************************************************************************)
(* Deferred statements.                                                    *)
(***************************************************************************)
Predicate(d) == state[Owner[d.statement]] = d.state

\* The predicate compares the state with the one of now.
deferred_create(s) == [statement |-> s, state |-> state[Owner[s]], freed |-> FALSE]

\* dzn_pump_defer
Defer ==
  /\ Doing("defer")
  /\ deferred' = dzn_list_append(deferred, deferred_create(Arg))
  /\ undefined' = (undefined \/ \E i \in DOMAIN deferred : deferred[i].freed)
  /\ todo' = Do(<< >>)
  /\ UNCHANGED <<q, blocked, released, collateral, entry, freed, infoVars, active, state,
                 awaiting, envVars, failed>>

Change ==
  /\ Doing("change")
  /\ state' = [state EXCEPT ![Arg] = 1 - @]
  /\ todo' = Do(<< >>)
  /\ UNCHANGED <<pumpVars, infoVars, active, awaiting, envVars, failed, undefined>>

\* dzn_pump_prune_deferred: the statements in front whose predicate is false go; of
\* those behind the first one that stays the memory is freed, and that of the cell
\* before them, but they stay in the list.
Prune ==
  /\ Doing("prune")
  /\ LET kept == {i \in DOMAIN deferred : Predicate(deferred[i])}
         first == IF kept = {} THEN Len(deferred) + 1
                  ELSE CHOOSE i \in kept : \A j \in kept : i <= j
         rest == SubSeq(deferred, first, Len(deferred))
         gone(i) == i \in 2..Len(rest) /\ ~Predicate(rest[i]) IN
     deferred' = [i \in DOMAIN rest |->
                    [rest[i] EXCEPT !.freed = @ \/ gone(i) \/ gone(i + 1)]]
  /\ undefined' = (undefined \/ \E i \in DOMAIN deferred : deferred[i].freed)
  /\ todo' = Do(<< >>)
  /\ UNCHANGED <<q, blocked, released, collateral, entry, freed, infoVars, active, state,
                 awaiting, envVars, failed>>

\* dzn_pump_run_defer, after the prune
RunStatement ==
  /\ Doing("run_defer")
  /\ IF deferred = << >>
     THEN todo' = Do(<< >>) /\ UNCHANGED <<deferred, handling, undefined>>
     ELSE LET s == Head(deferred).statement IN
          /\ deferred' = Tail(deferred)
          /\ undefined' = (undefined \/ Head(deferred).freed)
          /\ handling' = [handling EXCEPT ![Owner[s]] = dzn_coroutine_id(active)]
          /\ todo' = Do(Body[s] \o <<<<"finish", Owner[s]>>>>)
  /\ UNCHANGED <<q, blocked, released, collateral, entry, freed, queue, target, active, state,
                 awaiting, envVars, failed>>

\* pump_flush_defer
FlushDefer ==
  /\ Doing("flush_defer")
  /\ todo' = Do(IF deferred = << >> THEN << >>
                ELSE <<<<"prune">>, <<"run_defer">>, <<"flush_defer">>>>)
  /\ UNCHANGED <<pumpVars, infoVars, active, state, awaiting, envVars, failed, undefined>>

-------------------------------------------------------------------------------
\* The process has ended.
Ended ==
  /\ failed \/ (ended /\ active = Main /\ todo[Main] = << >>)
  /\ UNCHANGED vars

Step ==
  \/ Worker \/ ProcessReleased \/ ProcessDone \/ Return \/ Ask
  \/ CallIn \/ CollateralBlock \/ Start \/ HandleEvent \/ Finish \/ Enqueue
  \/ FlushEvent \/ FlushTarget
  \/ Block \/ FallThrough \/ PumpBlock \/ Unblock \/ Release
  \/ Defer \/ Change \/ Prune \/ RunStatement \/ FlushDefer

Next ==
  \/ Step
  \/ \E t \in Client : ClientCall(t)
  \/ \E w \in World : Answer(w)
  \/ RunDefer \/ Finalize
  \/ Ended

Spec == Init /\ [][Next]_vars

\* The process runs, and the outside world answers what it is asked.
FairSpec == Spec /\ WF_vars(Step) /\ \A w \in World : WF_vars(Answer(w))

-------------------------------------------------------------------------------
(***************************************************************************)
(* Properties.                                                             *)
(***************************************************************************)
Frames ==
  {"call", "collateral", "start", "block", "pump_block", "unblock", "reply"} \X Port
  \cup {"out", "handle"} \X (Internal \cup World) \cup {"ask"} \X World
  \cup {"finish", "flush", "change"} \X Component
  \cup {"defer"} \X Statement \cup {"return"} \X Client
  \cup {<<"worker">>, <<"process">>, <<"prune">>, <<"run_defer">>, <<"flush_defer">>}

\* The type of every variable; the lists of the pump refer to entries of coroutines.
TypeOK ==
  /\ q \in Seq(Seq(Frames)) /\ todo \in Seq(Seq(Frames)) /\ active \in DOMAIN todo
  /\ {blocked, released, collateral} \subseteq Seq(DOMAIN entry)
  /\ entry \in Seq([port : Port, coroutine : DOMAIN todo, id : {-1, 1}])
  /\ freed \subseteq DOMAIN entry
  /\ deferred \in Seq([statement : Statement, state : {0, 1}, freed : BOOLEAN])
  /\ handling \in [Component -> {-1, 0, 1}]
  /\ queue \in [Component -> Seq(Internal \cup World)]
  /\ target \in [Component -> Component \cup {None}]
  /\ state \in [Component -> {0, 1}] /\ awaiting \subseteq Port /\ asked \subseteq World
  /\ client \in [Client -> {"idle", "waiting"}] /\ calls \in [Client -> Nat]
  /\ {ended, failed, undefined} \subseteq BOOLEAN

\* No assertion fails: no component starts an event while it handles another one, and
\* a call that has to wait finds the coroutine it waits for.
AssertionsHold == ~failed

\* When Main has read its last event and every call has returned nothing is left: no
\* queue with an event, no list of the pump with a coroutine.
NothingLeft ==
  (~failed /\ active = Main /\ todo[Main] = << >> /\ \A t \in Client : client[t] = "idle") =>
    /\ blocked = << >> /\ released = << >> /\ collateral = << >> /\ q = << >>
    /\ \A c \in Component : queue[c] = << >> /\ handling[c] = 0

\* Whenever Main waits for an event no coroutine that was released is left, nor an event
\* without a worker; when all workers are done as well no call is left in blocked, also
\* not when a call of the same port goes on first, and no component counts as handling.
RestIsClean ==
  (active = Main /\ todo[Main] = << >>) =>
    /\ q = << >> /\ (~ended => released = << >>)
    /\ (\A k \in DOMAIN todo : todo[k] \in {<< >>, <<<<"process">>>>}) =>
         blocked = << >> /\ \A c \in Component : handling[c] = 0

\* Every call returns.
CallReturns == \A t \in Client : client[t] = "waiting" ~> client[t] = "idle"

\* Memory is not used after it has been freed, and is freed once.
MemorySafe == ~undefined
===============================================================================
