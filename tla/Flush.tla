--------------------------------- MODULE Flush ---------------------------------
(***************************************************************************)
(* How the C++ run-time executes events: the wrappers of in and out events *)
(* (runtime.hh), runtime::flush and the state it keeps for each component  *)
(* (runtime.cc).  Module RunToCompletion says what they promise.           *)
(*                                                                         *)
(* A system is a set of components and the events between them.  Null is   *)
(* the outside world, nullptr in the code, for which the run-time keeps a  *)
(* state too.  Body gives for each event and each deferred statement what  *)
(* its handler may do: sequences of events that it raises.  The handlers   *)
(* keep the rules that verification enforces (no V-fork, no Y-fork).       *)
(*                                                                         *)
(* One coroutine executes: blocking is the subject of module Blocking, and *)
(* a call that would block is not enabled.  Traces, labels of port state   *)
(* (port_update, deferred_flush) and performs_flush, which only the test   *)
(* harness sets, are left out.                                             *)
(***************************************************************************)
EXTENDS Integers, Sequences, Lists

CONSTANTS
  Component, Null,
  Native,     \* the generated components; the others are written by hand
  In, Out,    \* events
  Provide,    \* the component at the providing side of each event, or Null
  Require,    \* the component at its requiring side, or Null
  Statement,  \* deferred statements ...
  Owner,      \* ... of this component
  Body        \* what each event and statement may do

Event == In \cup Out
Node == Component \cup {Null}

ASSUME FlushAssumption ==
  /\ Null \notin Component /\ Native \subseteq Component
  /\ In \cap Out = {} /\ Statement \cap Event = {}
  /\ Provide \in [Event -> Node] /\ Require \in [Event -> Node]
  /\ \A e \in Event : Provide[e] # Require[e]
  /\ Owner \in [Statement -> Component]
  /\ \A e \in Event \cup Statement : Body[e] # {} /\ Body[e] \subseteq Seq(Event)

VARIABLES
  handling, queue, deferred,  \* runtime::states of each node
  activity,                   \* runtime::activity of the coroutine
  defer,                      \* runtime::defer
  todo                        \* what is left to do, the stack of calls flattened

vars == <<handling, queue, deferred, activity, defer, todo>>

Init ==
  /\ handling = [n \in Node |-> FALSE]
  /\ queue = [n \in Node |-> << >>]
  /\ deferred = [n \in Node |-> Null]
  /\ activity = 0 /\ defer = FALSE
  /\ todo = << >>

-------------------------------------------------------------------------------
Doing(op) == todo # << >> /\ Head(todo)[1] = op
Arg == Head(todo)[2]
Do(frames) == todo' = frames \o Tail(todo)

\* The handler of e raises these events, one after the other.
Raise(body) == [i \in DOMAIN body |-> <<"raise", body[i]>>]

\* event::component, the component that the event was set up by
Comp(e) ==
  IF e \in In THEN (IF Provide[e] # Null THEN Provide[e] ELSE Require[e])
  ELSE (IF Require[e] # Null THEN Require[e] ELSE Provide[e])

\* Mutant: the destructor does not reset the activity.
LeaveActivityAsIs == << >>

\* ~scoped_activity: only the outermost scope resets the activity.
LeaveActivity == IF activity = 0 THEN <<<<"activity", 0>>>> ELSE << >>

\* scoped_activity
EnterActivity(v) == activity' = IF activity = 0 THEN v ELSE activity

ResetActivity ==
  /\ Doing("activity")
  /\ activity' = 0
  /\ Do(<< >>)
  /\ UNCHANGED <<handling, queue, deferred, defer>>

-------------------------------------------------------------------------------
(***************************************************************************)
(* From the outside, one after the other through the pump: a call of a     *)
(* client, an event of the world below or of a hand-written component, a   *)
(* deferred statement.                                                     *)
(***************************************************************************)
Trigger(e) ==
  /\ todo = << >>
  /\ \/ e \in In /\ Require[e] = Null
     \/ e \in Out /\ Provide[e] \notin Native
     \/ e \in Statement
  /\ todo' = <<<<"raise", e>>>>
  /\ UNCHANGED <<handling, queue, deferred, activity, defer>>

\* The function that defer passes to the pump.
Deferred ==
  /\ Doing("raise") /\ Arg \in Statement
  /\ EnterActivity(-1)
  /\ defer' = TRUE
  /\ \E body \in Body[Arg] :
       Do(Raise(body)
          \o <<<<"done", Owner[Arg]>>, <<"flush", Owner[Arg], FALSE>>, <<"undefer", Arg>>>>
          \o LeaveActivity)
  /\ UNCHANGED <<handling, queue, deferred>>

Undefer ==
  /\ Doing("undefer")
  /\ defer' = FALSE
  /\ Do(<< >>)
  /\ UNCHANGED <<handling, queue, deferred, activity>>

-------------------------------------------------------------------------------
\* The wrapper of an in event.  The handler, the flush of the component that provides
\* the event, and the destructors of the scopes follow.
InEvent ==
  /\ Doing("raise") /\ Arg \in In
  /\ ~ (handling[Provide[Arg]] /\ Provide[Arg] \in Native)
  /\ handling' = [handling EXCEPT ![Comp(Arg)] = TRUE]
  /\ EnterActivity(1)
  /\ \E body \in Body[Arg] :
       Do(Raise(body)
          \o (IF Provide[Arg] # Null THEN <<<<"done", Provide[Arg]>>>> ELSE << >>)
          \o <<<<"flush", Provide[Arg], TRUE>>>>
          \o LeaveActivity
          \o <<<<"leave", Comp(Arg)>>>>)
  /\ UNCHANGED <<queue, deferred, defer>>

\* ~scoped_handling
Leave ==
  /\ Doing("leave")
  /\ handling' = [handling EXCEPT ![Arg] = FALSE]
  /\ Do(<< >>)
  /\ UNCHANGED <<queue, deferred, activity, defer>>

\* The sender of out event e asks the recipient to flush at once.
FlushesNow(e) ==
  \/ Require[e] = Null
  \/ Provide[e] = Null /\ ~handling[Comp(e)]
  \/ Provide[e] \in Component \ Native /\ ~handling[Provide[e]]

\* Mutant: the event is put in the queue of its sender.
RecipientSender(e) == Provide[e]

\* The node in whose queue out event e waits.
Recipient(e) == Require[e]

\* The wrapper of an out event.
OutEvent ==
  /\ Doing("raise") /\ Arg \in Out
  /\ EnterActivity(-1)
  /\ deferred' = [deferred EXCEPT ![Provide[Arg]] = Require[Arg]]
  /\ IF Require[Arg] = Null /\ defer
     THEN /\ \E body \in Body[Arg] : Do(Raise(body) \o LeaveActivity)
          /\ UNCHANGED queue
     ELSE /\ queue' = [queue EXCEPT ![Recipient(Arg)] = Append(@, Arg)]
          /\ Do((IF FlushesNow(Arg) THEN <<<<"flush", Require[Arg], activity' = 1>>>> ELSE << >>)
                \o LeaveActivity)
  /\ UNCHANGED <<handling, defer>>

\* A handler returns.
Done ==
  /\ Doing("done")
  /\ Do(<< >>)
  /\ UNCHANGED <<handling, queue, deferred, activity, defer>>

-------------------------------------------------------------------------------
(***************************************************************************)
(* runtime::flush (component, coroutine_id, sync_p)                        *)
(***************************************************************************)
Sync == Head(todo)[3]

StartFlush ==
  /\ Doing("flush")
  /\ handling' = [handling EXCEPT ![Arg] = TRUE]
  /\ Do(<<<<"drain", Arg, Sync>>>>)
  /\ UNCHANGED <<queue, deferred, activity, defer>>

\* The next event of the queue.
Drain ==
  /\ Doing("drain") /\ queue[Arg] # << >>
  /\ queue' = [queue EXCEPT ![Arg] = Tail(@)]
  /\ \E body \in Body[Head(queue[Arg])] :
       todo' = Raise(body) \o <<<<"done", Arg>>>> \o todo
  /\ UNCHANGED <<handling, deferred, activity, defer>>

\* Mutant: the target is not flushed.
FlushTargetNever == << >>

\* The queue is empty: go on with the deferred target.
FlushTarget ==
  IF Sync \/ deferred[Arg] = Null \/ handling[deferred[Arg]]
  THEN << >> ELSE <<<<"flush", deferred[Arg], FALSE>>>>

EndFlush ==
  /\ Doing("drain") /\ queue[Arg] = << >>
  /\ handling' = [handling EXCEPT ![Arg] = FALSE]
  /\ deferred' = IF Sync THEN deferred ELSE [deferred EXCEPT ![Arg] = Null]
  /\ Do(FlushTarget)
  /\ UNCHANGED <<queue, activity, defer>>

-------------------------------------------------------------------------------
Step ==
  \/ InEvent \/ OutEvent \/ Deferred \/ Done \/ Leave \/ ResetActivity \/ Undefer
  \/ StartFlush \/ Drain \/ EndFlush

Next ==
  \/ Step
  \/ \E e \in Event \cup Statement : Trigger(e)

Spec == Init /\ [][Next]_vars

-------------------------------------------------------------------------------
(***************************************************************************)
(* Properties.                                                             *)
(***************************************************************************)
Frames ==
  {"raise"} \X (Event \cup Statement) \cup {"done", "leave"} \X Node \cup {"undefer"} \X Statement
  \cup {<<"activity", 0>>} \cup {"flush", "drain"} \X Node \X BOOLEAN

\* The type of every variable; events are in the queue of their recipient.
TypeOK ==
  /\ handling \in [Node -> BOOLEAN]
  /\ queue \in [Node -> Seq(Out)]
  /\ \A n \in Node : \A e \in Elements(queue[n]) : Require[e] = n
  /\ deferred \in [Node -> Node]
  /\ activity \in {-1, 0, 1} /\ defer \in BOOLEAN
  /\ todo \in Seq(Frames)

\* When an event of the outside world is done the run-time is at rest: no component
\* counts as handling an event and the scopes are closed, so that the next event is
\* not taken for one that was raised during this one.
AtRest ==
  todo = << >> => /\ \A n \in Node : ~handling[n]
                  /\ activity = 0 /\ ~defer

\* The handlers that execute: a handler ends with a frame "done".
Executing ==
  LET ends == Keep(todo, {"done"} \X Node) IN [i \in DOMAIN ends |-> ends[i][2]]

\* "Non-reentrant recursive function invocation": a handler of a component does not
\* start while another one of the same component executes.
NonReentrant == \A i, j \in DOMAIN Executing : Executing[i] = Executing[j] => i = j

Promise == INSTANCE RunToCompletion
             WITH Party <- Node, open <- todo # << >>, executing <- Executing, pending <- queue

\* The run-time implements RunToCompletion: handlers are not re-entered, and no out
\* event is left in a queue.
RunsToCompletion == Promise!Spec
===============================================================================
