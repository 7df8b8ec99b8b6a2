-------------------------------- MODULE Blocking --------------------------------
(***************************************************************************)
(* Blocking and collateral blocking in the C++ runtime: the coroutines of  *)
(* the pump (pump.cc: block, release, collateral_block, collateral_release *)
(* and context_switch) and the part of the runtime that calls them         *)
(* (runtime.hh: the wrappers of in and out events; runtime.cc: flush).     *)
(*                                                                         *)
(* A system is a set of components.  What the handler of a port or of an   *)
(* event of the outside world does is given by Body, a sequence of         *)
(*   <<"call", p>>   call an in event on port p of another component       *)
(*   <<"ask", w>>    call the outside world, which answers with event w    *)
(*   <<"reply", p>>  reply on port p, if its call waits for a reply        *)
(*   <<"defer", s>>  defer statement s                                     *)
(* and the handler of a port in Blocks ends in port_block.                 *)
(*                                                                         *)
(* Coroutines run one at a time: active is the one that runs, todo[k] is   *)
(* what coroutine k still has to do, its stack of calls flattened.         *)
(***************************************************************************)
EXTENDS Naturals, Sequences, Lists

CONSTANTS
  Component, Port,
  World,    \* events of the outside world (out events of requires ports)
  Statement, \* deferred statements
  Sync,     \* those that may be raised before the call that asks returns
  Owner,    \* the component of each port, event of the world and statement
  Body,     \* what the handler of each of them does
  Blocks,   \* the ports whose handler blocks
  Client,   \* threads outside the pump, each calls a port of the system ...
  Entry,    \* ... this one ...
  Calls,    \* ... at most so many times
  Together, \* the sets of clients that may be there at the same time
  Guarded,  \* the components that NonOverlapping is about
  None

ASSUME BlockingAssumption ==
  /\ Owner \in [Port \cup World \cup Statement -> Component]
  /\ Blocks \subseteq Port /\ Sync \subseteq World
  /\ Entry \in [Client -> Port]
  /\ Calls \in [Client -> Nat] /\ Together \subseteq SUBSET Client
  /\ Guarded \subseteq Component
  /\ None \notin Port /\ None \notin Component
  /\ \A x \in Port \cup World \cup Statement :
       Body[x] \in Seq({"call", "reply"} \X Port \cup {"ask"} \X World \cup {"defer"} \X Statement)

VARIABLES
  queue,       \* pump::queue
  coroutines,  \* pump::coroutines, a list of ids
  collateral,  \* pump::collateral_blocked
  unblocked,   \* pump::unblocked, a list of ports
  switch,      \* pump::switch_context: the blocked coroutines of its functions
  active,      \* the coroutine that runs
  todo, port, component, finished,   \* of each coroutine
  handling, blocked, skip, pending,  \* runtime::states of each component
  awaiting,    \* the component's own state: the ports on which it owes a reply
  asked,       \* the events the outside world will raise, the deferred statements
  client, calls,                     \* of each client: what it does, calls made
  crashed      \* an exception reached the top: std::terminate

pumpVars == <<coroutines, collateral, unblocked, switch, active>>
coroutineVars == <<port, component, finished>>
runtimeVars == <<handling, blocked, skip, pending>>
envVars == <<queue, asked, client, calls>>
vars == <<pumpVars, todo, coroutineVars, runtimeVars, awaiting, envVars, crashed>>

Init ==
  /\ queue = << >>
  /\ coroutines = <<1>> /\ collateral = << >>
  /\ unblocked = << >> /\ switch = << >> /\ active = 1
  /\ todo = <<<<<<"switch">>>>>>
  /\ port = <<None>> /\ component = <<None>> /\ finished = <<FALSE>>
  /\ handling = [c \in Component |-> 0] /\ blocked = [c \in Component |-> 0]
  /\ skip = [c \in Component |-> None] /\ pending = [c \in Component |-> << >>]
  /\ awaiting = {} /\ asked = {}
  /\ client = [t \in Client |-> "idle"]
  /\ \E there \in Together : calls = [t \in Client |-> IF t \in there THEN 0 ELSE Calls[t]]
  /\ crashed = FALSE

-------------------------------------------------------------------------------
\* Coroutine active is about to do op.
Doing(op) == ~crashed /\ todo[active] # << >> /\ Head(todo[active])[1] = op

\* What op is about.
Arg == Head(todo[active])[2]

\* Replace op by frames.
Do(frames) == [todo EXCEPT ![active] = frames \o Tail(@)]

\* coroutines without the finished ones (remove_finished_coroutines)
Unfinished == Keep(coroutines, {k \in Elements(coroutines) : ~finished[k]})

\* find_self: the coroutines that may be the one that runs
SelfCandidates == {k \in Elements(coroutines) : port[k] = None /\ ~finished[k]}

\* find_blocked
BlockedOn(p) == {k \in Elements(coroutines) : port[k] = p}
FindBlocked(p) == Keep(coroutines, BlockedOn(p))

\* The collaterally blocked coroutines whose port has been unblocked.
Releasable == Keep(collateral, {k \in Elements(collateral) : port[k] \in Elements(unblocked)})

\* The list without the elements in S.
Without(list, S) == Keep(list, Elements(list) \ S)

\* create_context: the coroutine's function starts with context_switch.
New == Len(todo) + 1
CreateContext(todo1, port1) ==
  /\ todo' = Append(todo1, <<<<"switch">>>>)
  /\ port' = Append(port1, None)
  /\ finished' = Append(finished, FALSE)

-------------------------------------------------------------------------------
(***************************************************************************)
(* The environment: clients call through the shell, the world answers.     *)
(***************************************************************************)

\* shell: post the call and wait for its promise.
ClientCall(t) ==
  /\ client[t] = "idle" /\ calls[t] < Calls[t]
  /\ client' = [client EXCEPT ![t] = "waiting"]
  /\ calls' = [calls EXCEPT ![t] = @ + 1]
  /\ queue' = Append(queue, <<<<"call", Entry[t]>>, <<"return", t>>>>)
  /\ UNCHANGED <<pumpVars, todo, coroutineVars, runtimeVars, awaiting, asked, crashed>>

\* The outside world raises an event.
Answer(w) ==
  /\ w \in asked
  /\ asked' = asked \ {w}
  /\ queue' = Append(queue, <<<<"out", w>>>>)
  /\ UNCHANGED <<pumpVars, todo, coroutineVars, runtimeVars, awaiting, client, calls, crashed>>

\* p.set_value ()
Return ==
  /\ Doing("return")
  /\ client' = [client EXCEPT ![Arg] = "idle"]
  /\ todo' = Do(<< >>)
  /\ UNCHANGED <<pumpVars, coroutineVars, runtimeVars, awaiting, queue, asked, calls, crashed>>

-------------------------------------------------------------------------------
(***************************************************************************)
(* The function of a coroutine (create_context).                           *)
(***************************************************************************)

\* Mutant: the port of the blocked coroutine is cleared before it is recorded.
UnblocksNone(b) == None

\* The port that goes on when blocked coroutine b does.
Unblocks(b) == port[b]

\* context_switch: the function that release left runs; it never returns.
ContextSwitch ==
  /\ Doing("switch")
  /\ IF switch = << >>
     THEN /\ todo' = Do(<<<<"worker">>, <<"collateral">>, <<"switch">>>>)
          /\ UNCHANGED <<switch, unblocked, port, component, finished, active>>
     ELSE LET b == Head(switch) IN
          /\ switch' = Tail(switch)
          /\ unblocked' = Append(unblocked, Unblocks(b))
          /\ component' = [component EXCEPT ![b] = None]
          /\ port' = [port EXCEPT ![b] = None]
          /\ finished' = [finished EXCEPT ![active] = TRUE]
          /\ active' = b
          /\ todo' = Do(<<<<"never">>>>)
  /\ UNCHANGED <<coroutines, collateral, runtimeVars, awaiting, envVars, crashed>>

\* worker: take an event from the queue, or wait for one.  The deferred statements
\* come in the same pass, when the event has been handled.
Worker ==
  /\ Doing("worker") /\ queue # << >>
  /\ queue' = Tail(queue)
  /\ todo' = Do(Head(queue) \o <<<<"deferred">>>>)
  /\ UNCHANGED <<pumpVars, coroutineVars, runtimeVars, awaiting, asked, client, calls, crashed>>

\* worker: the queue is empty, at first or after the event, execute a deferred
\* statement (which one, by its place and its predicate, is Pump's).  It is not marked
\* as handling: the flush at its end does that, with the id of the coroutine that was
\* created last when the statement started, which need not be the one that runs.
WorkerDefer(s) ==
  /\ Doing("worker") \/ Doing("deferred")
  /\ queue = << >> /\ s \in asked
  /\ asked' = asked \ {s}
  /\ todo' = Do(Body[s] \o <<<<"flush_as", Owner[s], Len(todo)>>>>)
  /\ UNCHANGED <<pumpVars, coroutineVars, runtimeVars, awaiting, queue, client, calls, crashed>>

\* worker: no deferred statement in this pass.
WorkerDeferNone ==
  /\ Doing("deferred")
  /\ queue # << >> \/ asked \cap Statement = {}
  /\ todo' = Do(<< >>)
  /\ UNCHANGED <<pumpVars, coroutineVars, runtimeVars, awaiting, envVars, crashed>>

\* defer
Defer ==
  /\ Doing("defer")
  /\ asked' = asked \cup {Arg}
  /\ todo' = Do(<< >>)
  /\ UNCHANGED <<pumpVars, coroutineVars, runtimeVars, awaiting, queue, client, calls, crashed>>

\* Mutant: the coroutine that released another is not finished.
FinishNobody == finished

\* Mutant: unblocked is never cleared.
ClearNothing == unblocked

\* The coroutine that has released another is finished.
FinishSelf == [finished EXCEPT ![active] = TRUE]

\* Everything is unblocked.
ClearUnblocked == << >>

\* if (unblocked.size ()) collateral_release (self): the first coroutine whose
\* port is unblocked goes on, this one is finished.
CollateralRelease ==
  /\ Doing("collateral")
  /\ IF Releasable # << >>
     THEN LET k == Head(Releasable) IN
          /\ collateral' = Without(collateral, {k})
          /\ coroutines' = Append(coroutines, k)
          /\ port' = [port EXCEPT ![k] = None]
          /\ finished' = FinishSelf
          /\ active' = k
          /\ UNCHANGED <<unblocked, todo>>
     ELSE /\ unblocked' = ClearUnblocked
          /\ todo' = Do(<< >>)
          /\ UNCHANGED <<collateral, coroutines, port, finished, active>>
  /\ UNCHANGED <<switch, component, runtimeVars, awaiting, envVars, crashed>>

-------------------------------------------------------------------------------
(***************************************************************************)
(* The wrapper of an in event (runtime.hh).                                *)
(***************************************************************************)

\* Mutant: a call only looks at its own port, not at the component.
BusyPort(p) == BlockedOn(p) # {}

\* The call has to wait.
Busy(p) == handling[Owner[p]] # 0 \/ BlockedOn(p) # {}

\* The component is free: go on with Enter.
CallFree ==
  /\ Doing("call") /\ ~Busy(Arg)
  /\ todo' = Do(<<<<"enter", Arg>>>>)
  /\ UNCHANGED <<pumpVars, coroutineVars, runtimeVars, awaiting, envVars, crashed>>

\* collateral_block: wait for the port that keeps the component busy.
CollateralBlock ==
  /\ Doing("call") /\ Busy(Arg)
  /\ LET c == Owner[Arg]
         id == IF handling[c] # 0 THEN handling[c] ELSE blocked[c]
         others == Without(coroutines, {active}) IN
     IF id \in Elements(others) /\ port[id] # None
     THEN /\ coroutines' = Append(others, New)
          /\ collateral' = Append(collateral, active)
          /\ component' = Append([component EXCEPT ![active] = c], None)
          /\ CreateContext(Do(<<<<"enter", Arg>>>>), [port EXCEPT ![active] = port[id]])
          /\ active' = New
          /\ UNCHANGED crashed
     ELSE crashed' = TRUE  \* "blocking port not found"
          /\ UNCHANGED <<coroutines, collateral, active, todo, coroutineVars>>
  /\ UNCHANGED <<unblocked, switch, runtimeVars, awaiting, envVars>>

\* The handler of the port starts.
Enter ==
  /\ Doing("enter")
  /\ LET c == Owner[Arg] IN
     /\ skip' = [skip EXCEPT ![c] = None]
     /\ handling' = [handling EXCEPT ![c] = active]
     /\ awaiting' = awaiting \cup (Blocks \cap {Arg})
     /\ todo' = Do(Body[Arg] \o (IF Arg \in Blocks THEN <<<<"block", Arg>>>> ELSE << >>)
                   \o <<<<"flush", c>>, <<"leave", c>>>>)
  /\ UNCHANGED <<pumpVars, coroutineVars, blocked, pending, envVars, crashed>>

\* ~scoped_handling
Leave ==
  /\ Doing("leave")
  /\ handling' = [handling EXCEPT ![Arg] = 0]
  /\ todo' = Do(<< >>)
  /\ UNCHANGED <<pumpVars, coroutineVars, blocked, skip, pending, awaiting, envVars, crashed>>

\* The outside world is called through the wrapper too, whose component is the one
\* that calls: scoped_handling marks that component, and when the call returns the
\* component no longer counts as handling an event.  The world raises the event
\* before it returns ...
AskSync ==
  /\ Doing("ask") /\ Arg \in Sync
  /\ skip' = [skip EXCEPT ![Owner[Arg]] = None]
  /\ handling' = [handling EXCEPT ![Owner[Arg]] = active]
  /\ todo' = Do(<<<<"out", Arg>>, <<"leave", Owner[Arg]>>>>)
  /\ UNCHANGED <<pumpVars, coroutineVars, blocked, pending, awaiting, envVars, crashed>>

\* ... or later.
Ask ==
  /\ Doing("ask")
  /\ skip' = [skip EXCEPT ![Owner[Arg]] = None]
  /\ handling' = [handling EXCEPT ![Owner[Arg]] = active]
  /\ asked' = asked \cup {Arg}
  /\ todo' = Do(<<<<"leave", Owner[Arg]>>>>)
  /\ UNCHANGED <<pumpVars, coroutineVars, blocked, pending, awaiting, queue, client, calls, crashed>>

-------------------------------------------------------------------------------
(***************************************************************************)
(* The wrapper of an out event and flush.                                  *)
(***************************************************************************)

\* An event from outside is queued; it is handled now if the component is free.
Out ==
  /\ Doing("out")
  /\ LET c == Owner[Arg] IN
     /\ pending' = [pending EXCEPT ![c] = Append(@, Arg)]
     /\ todo' = Do(IF handling[c] = 0 THEN <<<<"flush", c>>>> ELSE << >>)
  /\ UNCHANGED <<pumpVars, coroutineVars, handling, blocked, skip, awaiting, envVars, crashed>>

\* runtime::flush
Flush ==
  /\ Doing("flush")
  /\ handling' = [handling EXCEPT ![Arg] = active]
  /\ todo' = Do(<<<<"drain", Arg>>>>)
  /\ UNCHANGED <<pumpVars, coroutineVars, blocked, skip, pending, awaiting, envVars, crashed>>

\* The flush of a deferred statement, with the id it was given.
FlushAs ==
  /\ Doing("flush_as")
  /\ handling' = [handling EXCEPT ![Arg] = Head(todo[active])[3]]
  /\ todo' = Do(<<<<"drain", Arg>>>>)
  /\ UNCHANGED <<pumpVars, coroutineVars, blocked, skip, pending, awaiting, envVars, crashed>>

Drain ==
  /\ Doing("drain")
  /\ IF pending[Arg] = << >>
     THEN /\ handling' = [handling EXCEPT ![Arg] = 0]
          /\ todo' = Do(<< >>)
          /\ UNCHANGED pending
     ELSE /\ pending' = [pending EXCEPT ![Arg] = Tail(@)]
          /\ todo' = Do(Body[Head(pending[Arg])] \o <<<<"drain", Arg>>>>)
          /\ UNCHANGED handling
  /\ UNCHANGED <<pumpVars, coroutineVars, blocked, skip, awaiting, envVars, crashed>>

-------------------------------------------------------------------------------
(***************************************************************************)
(* pump::block and pump::release.                                          *)
(***************************************************************************)

\* block, up to and with runtime.flush
Block ==
  /\ Doing("block")
  /\ LET c == Owner[Arg] IN
     /\ blocked' = [blocked EXCEPT ![c] = active]
     /\ handling' = [handling EXCEPT ![c] = 0]
     /\ todo' = Do(<<<<"flush", c>>, <<"park", Arg>>>>)
  /\ UNCHANGED <<pumpVars, coroutineVars, skip, pending, awaiting, envVars, crashed>>

\* block: the reply was given already.
SkipBlock ==
  /\ Doing("park") /\ skip[Owner[Arg]] = Arg
  /\ skip' = [skip EXCEPT ![Owner[Arg]] = None]
  /\ todo' = Do(<< >>)
  /\ UNCHANGED <<pumpVars, coroutineVars, handling, blocked, pending, awaiting, envVars, crashed>>

Reversed(list) == [i \in 1..Len(list) |-> list[Len(list) + 1 - i]]

\* The calls of the component of port p that can go on.
Relayed(p) == Keep(Releasable, {k \in Elements(Releasable) : component[k] = Owner[p]})

\* collateral_release_skip_block finds calls that waited for this component:
\* they all become coroutines again, the oldest one last, and it goes on.
ParkRelay ==
  /\ Doing("park") /\ skip[Owner[Arg]] # Arg
  /\ LET relayed == Relayed(Arg)
         free == Elements(relayed) IN
     /\ relayed # << >>
     /\ collateral' = Without(collateral, free)
     /\ coroutines' = coroutines \o Reversed(relayed)
     /\ component' = [k \in DOMAIN component |-> IF k \in free THEN None ELSE component[k]]
     /\ port' = [k \in DOMAIN port |->
                   IF k = active THEN Arg ELSE IF k \in free THEN None ELSE port[k]]
     /\ active' = Head(relayed)
  /\ todo' = Do(<<<<"unpark", Arg>>>>)
  /\ UNCHANGED <<unblocked, switch, finished, runtimeVars, awaiting, envVars, crashed>>

\* Mutant: the blocked coroutine does not record its port.
WaitsFirst(first) == first

\* The coroutines that wait for the port from now on: the one that blocks, and the
\* first call that could go on.
Waits(first) == first \cup {active}

\* block: the first call that could go on waits for this port instead, and a new
\* coroutine goes on with the events.
Park ==
  /\ Doing("park") /\ skip[Owner[Arg]] # Arg
  /\ Relayed(Arg) = << >>
  /\ LET first == IF Releasable = << >> THEN {} ELSE {Head(Releasable)} IN
     CreateContext(Do(<<<<"unpark", Arg>>>>),
                   [k \in DOMAIN port |-> IF k \in Waits(first) THEN Arg ELSE port[k]])
  /\ component' = Append(component, None)
  /\ coroutines' = Append(coroutines, New)
  /\ active' = New
  /\ UNCHANGED <<collateral, unblocked, switch, runtimeVars, awaiting, envVars, crashed>>

\* block, after the coroutine goes on.
Unpark ==
  /\ Doing("unpark")
  /\ coroutines' = Unfinished
  /\ skip' = [skip EXCEPT ![Owner[Arg]] = None]
  /\ blocked' = [blocked EXCEPT ![Owner[Arg]] = 0]
  /\ todo' = Do(<< >>)
  /\ UNCHANGED <<collateral, unblocked, switch, active, coroutineVars, handling, pending,
                 awaiting, envVars, crashed>>

\* Mutant: a release replaces one that has not been carried out.
SwitchToOnly(p) == IF BlockedOn(p) = {} THEN switch ELSE <<Head(FindBlocked(p))>>

\* Mutant: release takes the coroutine that is blocked last in the component.
SwitchToLast(p) ==
  IF BlockedOn(p) = {} THEN switch
  ELSE LET S == {k \in Elements(coroutines) \ Elements(switch) : port[k] # None /\ Owner[port[k]] = Owner[p]}
           last == Keep(coroutines, S)
       IN  Append(switch, last[Len(last)])

\* The coroutine that is blocked on the port will go on.
SwitchTo(p) == IF BlockedOn(p) = {} THEN switch ELSE Append(switch, Head(FindBlocked(p)))

\* A reply: release, unless the component owes no reply on the port.
Release ==
  /\ Doing("reply")
  /\ IF Arg \in awaiting
     THEN /\ awaiting' = awaiting \ {Arg}
          /\ skip' = [skip EXCEPT ![Owner[Arg]] = Arg]
          /\ switch' = SwitchTo(Arg)
     ELSE UNCHANGED <<awaiting, skip, switch>>
  /\ todo' = Do(<< >>)
  /\ UNCHANGED <<coroutines, collateral, unblocked, active, coroutineVars, handling, blocked,
                 pending, envVars, crashed>>

-------------------------------------------------------------------------------
\* The process is gone, or the pump waits for events that do not come.
Quiet ==
  /\ \/ crashed
     \/ Doing("worker") /\ queue = << >> /\ asked = {}
        /\ \A t \in Client : client[t] = "idle" => calls[t] = Calls[t]
  /\ UNCHANGED vars

Step ==
  \/ ContextSwitch \/ Worker \/ CollateralRelease \/ Return
  \/ CallFree \/ CollateralBlock \/ Enter \/ Leave \/ AskSync \/ Ask
  \/ Out \/ Flush \/ FlushAs \/ Drain
  \/ Defer \/ WorkerDeferNone \/ \E s \in Statement : WorkerDefer(s)
  \/ Block \/ SkipBlock \/ ParkRelay \/ Park \/ Unpark \/ Release

Next ==
  \/ Step
  \/ \E t \in Client : ClientCall(t)
  \/ \E w \in World : Answer(w)
  \/ Quiet

Spec == Init /\ [][Next]_vars

\* The pump goes on when it can; the outside world answers what it is asked.
FairSpec == Spec /\ WF_vars(Step) /\ \A w \in World : WF_vars(Answer(w))

-------------------------------------------------------------------------------
(***************************************************************************)
(* Properties.                                                             *)
(***************************************************************************)
Frames == {<<"switch">>, <<"worker">>, <<"deferred">>, <<"collateral">>, <<"never">>}
          \cup {"call", "enter", "block", "park", "unpark", "reply"} \X Port
          \cup {"ask", "out"} \X World \cup {"defer"} \X Statement
          \cup {"flush", "drain", "leave"} \X Component \cup {"flush_as"} \X Component \X Nat
          \cup {"return"} \X Client

Id == 1..Len(todo)

PumpTypes ==
  /\ active \in Id
  /\ coroutines \in Seq(Nat) /\ collateral \in Seq(Nat) /\ switch \in Seq(Nat)
  /\ Elements(coroutines) \cup Elements(collateral) \cup Elements(switch) \subseteq Id
  /\ unblocked \in Seq(Port)

CoroutineTypes ==
  /\ todo \in Seq(Seq(Frames))
  /\ port \in Seq(Port \cup {None}) /\ Len(port) = Len(todo)
  /\ component \in Seq(Component \cup {None}) /\ Len(component) = Len(todo)
  /\ finished \in Seq(BOOLEAN) /\ Len(finished) = Len(todo)

RuntimeTypes ==
  /\ handling \in [Component -> Nat] /\ blocked \in [Component -> Id \cup {0}]
  /\ skip \in [Component -> Port \cup {None}] /\ pending \in [Component -> Seq(World)]
  /\ awaiting \subseteq Port

EnvTypes ==
  /\ queue \in Seq(Seq(Frames)) /\ asked \subseteq World \cup Statement
  /\ client \in [Client -> {"idle", "waiting"}]
  /\ calls \in [Client -> Nat] /\ \A t \in Client : calls[t] <= Calls[t]
  /\ crashed \in BOOLEAN

\* The type of every variable.
TypeOK == PumpTypes /\ CoroutineTypes /\ RuntimeTypes /\ EnvTypes

\* The assertions of find_self hold whenever a coroutine runs, and the coroutine
\* that it finds is the one that runs.
SelfIsActive == ~crashed => SelfCandidates = {active}

\* collateral_block finds the coroutine it has to wait for.
PortFound == ~crashed

\* Coroutine k has entered component c and is not blocked there.
Inside(k, c) ==
  /\ \E i \in DOMAIN todo[k] :
       todo[k][i][1] \in {"leave", "drain", "flush", "flush_as"} /\ todo[k][i][2] = c
  /\ ~ \E p \in Port : Owner[p] = c /\ Head(todo[k]) = <<"unpark", p>>

\* A component handles one event at a time: behaviour across it does not overlap.
NonOverlapping ==
  \A c \in Guarded : \A j, k \in DOMAIN todo : Inside(j, c) /\ Inside(k, c) => j = k

\* A blocked call returns only after the component has replied.
ReturnsAfterReply ==
  ~crashed /\ Doing("unpark") => Arg \notin awaiting

\* When every call has returned, the world has answered and the pump waits for events,
\* nothing is left of them: one coroutine, no component that is handling an event.  (runtime::blocked is
\* left as it is by the path of SkipBlock; the next block overwrites it.)
QuietIsClean ==
  (Doing("worker") /\ queue = << >> /\ asked = {} /\ \A t \in Client : client[t] = "idle") =>
    /\ Elements(Unfinished) = {active}
    /\ collateral = << >> /\ unblocked = << >> /\ switch = << >>
    /\ \A c \in Component : handling[c] = 0

\* Every call returns: no blocked call is forgotten.
CallReturns == \A t \in Client : client[t] = "waiting" ~> client[t] = "idle"
===============================================================================
