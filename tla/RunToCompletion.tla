---------------------------- MODULE RunToCompletion ----------------------------
(***************************************************************************)
(* What the run-time promises about the execution of events: "non-reentrant*)
(* recursive function invocation".  The handlers of events form a stack in *)
(* which a component occurs at most once; an out event waits in the queue  *)
(* of its recipient until no handler of the recipient is executing, queues *)
(* are emptied in order, and an event of the outside world is done only    *)
(* when no event that it led to is left in a queue.                        *)
(***************************************************************************)
EXTENDS Sequences, Lists

CONSTANTS Party, Event

VARIABLES
  open,       \* an event of the outside world is being processed
  executing,  \* the components whose handlers execute, the innermost one first
  pending     \* of each component: the out events that wait for it

vars == <<open, executing, pending>>

Init ==
  /\ open = FALSE
  /\ executing = << >>
  /\ pending = [c \in Party |-> << >>]

Open ==
  /\ ~open
  /\ open' = TRUE
  /\ UNCHANGED <<executing, pending>>

\* A handler starts: of an in event, or a deferred statement.
Begin(c) ==
  /\ open /\ c \notin Elements(executing)
  /\ executing' = <<c>> \o executing
  /\ UNCHANGED <<open, pending>>

Post(c, e) ==
  /\ open
  /\ pending' = [pending EXCEPT ![c] = Append(@, e)]
  /\ UNCHANGED <<open, executing>>

\* The handler of the out event that waits longest starts.
Take(c) ==
  /\ open /\ c \notin Elements(executing) /\ pending[c] # << >>
  /\ pending' = [pending EXCEPT ![c] = Tail(@)]
  /\ executing' = <<c>> \o executing
  /\ UNCHANGED open

End ==
  /\ executing # << >>
  /\ executing' = Tail(executing)
  /\ UNCHANGED <<open, pending>>

Close ==
  /\ open /\ executing = << >> /\ \A c \in Party : pending[c] = << >>
  /\ open' = FALSE
  /\ UNCHANGED <<executing, pending>>

Next ==
  \/ Open \/ End \/ Close
  \/ \E c \in Party : Begin(c) \/ Take(c) \/ \E e \in Event : Post(c, e)

Spec == Init /\ [][Next]_vars
===============================================================================
