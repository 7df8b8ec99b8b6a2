------------------------------ MODULE FlushProofs ------------------------------
(***************************************************************************)
(* Proofs about module Flush.                                              *)
(*                                                                         *)
(* For every system, any components, any events and any handlers, also     *)
(* those that break the rules of verification: events wait in the queue of *)
(* their recipient, and when an event of the outside world is done the     *)
(* run-time is at rest.                                                    *)
(*                                                                         *)
(* In every tree of components the C++ run-time implements RunToCompletion:*)
(* handlers are not re-entered and no event is left in a queue.            *)
(*                                                                         *)
(* A tree is a system in which each component has one component above it,  *)
(* or the outside world.  That a component above which there are several   *)
(* leaves no event behind depends on the rules that verification enforces  *)
(* on its states, which Flush does not have.                               *)
(***************************************************************************)
EXTENDS Flush, ListProofs

CONSTANTS
  Parent,  \* what is above each component: a component, or Null
  Rank     \* grows from a component to its parent: the components form a tree

-------------------------------------------------------------------------------
(***************************************************************************)
(* The inductive invariant: whatever is set for the time of a scope has a  *)
(* frame left on the stack that resets it.                                 *)
(***************************************************************************)

\* A node that counts as handling an event has a wrapper or a flush to end.
HandlingInv ==
  \A n \in Node : handling[n] =>
    \E f \in Elements(todo) : f[1] \in {"leave", "drain"} /\ f[2] = n

\* The outermost scope of the activity is still open.
ActivityInv == activity # 0 => \E f \in Elements(todo) : f[1] = "activity"

\* The deferred statement is not done.
DeferInv == defer => \E f \in Elements(todo) : f[1] = "undefer"

IInv == TypeOK /\ HandlingInv /\ ActivityInv /\ DeferInv

-------------------------------------------------------------------------------
(***************************************************************************)
(* Frames and the stack.                                                   *)
(***************************************************************************)

\* What a frame is about follows from its name.
LEMMA FrameFacts ==
  ASSUME NEW f \in Frames
  PROVE  /\ f[1] = "raise" => f[2] \in Event \cup Statement
         /\ f[1] \in {"done", "leave"} => f[2] \in Node
         /\ f[1] \in {"flush", "drain"} => f[2] \in Node /\ f[3] \in BOOLEAN
         /\ f[1] = "undefer" => f[2] \in Statement
BY DEF Frames

\* The frames that the actions make.
LEMMA MakeFrames ==
  /\ \A e \in Event \cup Statement : <<"raise", e>> \in Frames
  /\ \A n \in Node : <<"done", n>> \in Frames /\ <<"leave", n>> \in Frames
  /\ \A s \in Statement : <<"undefer", s>> \in Frames
  /\ <<"activity", 0>> \in Frames
  /\ \A n \in Node : \A b \in BOOLEAN :
       <<"flush", n, b>> \in Frames /\ <<"drain", n, b>> \in Frames
BY DEF Frames

\* The events that a handler raises become frames.
LEMMA RaiseFacts ==
  ASSUME NEW e \in Event \cup Statement, NEW body \in Body[e]
  PROVE  Raise(body) \in Seq(Frames)
<1>1. body \in Seq(Event)
  BY FlushAssumption
<1>2. DOMAIN body = 1..Len(body) /\ Len(body) \in Nat /\ \A i \in 1..Len(body) : body[i] \in Event
  BY <1>1
<1>3. \A i \in 1..Len(body) : <<"raise", body[i]>> \in Frames
  BY <1>2, MakeFrames
<1> DEFINE f == [i \in 1..Len(body) |-> <<"raise", body[i]>>]
<1>4. f \in [1..Len(body) -> Frames]
  BY <1>3
<1>5. Raise(body) = f
  BY <1>2 DEF Raise
<1> HIDE DEF f
<1> QED  BY <1>2, <1>4, <1>5

\* Lists of frames and their elements.
LEMMA FrameLists ==
  /\ << >> \in Seq(Frames) /\ Elements(<< >>) = {}
  /\ \A x \in Frames : <<x>> \in Seq(Frames) /\ Elements(<<x>>) = {x}
  /\ \A x, y, z \in Frames :
       <<x, y, z>> \in Seq(Frames) /\ Elements(<<x, y, z>>) = {x, y, z}
  /\ \A p, q \in Seq(Frames) :
       p \o q \in Seq(Frames) /\ Elements(p \o q) = Elements(p) \cup Elements(q)
<1>1. \A x, y, z \in Frames :
        <<x, y, z>> \in Seq(Frames) /\ Elements(<<x, y, z>>) = {x, y, z}
  BY DEF Elements
<1>2. \A x \in Frames : <<x>> \in Seq(Frames) /\ Elements(<<x>>) = {x}
  BY ShortFacts
<1> QED  BY <1>1, <1>2, ConcatFacts, EmptyFacts

\* A frame is replaced by others: nothing else leaves the stack.
LEMMA DoFacts ==
  ASSUME TypeOK, todo # << >>, NEW fs \in Seq(Frames), todo' = fs \o Tail(todo)
  PROVE  /\ todo' \in Seq(Frames)
         /\ Elements(fs) \subseteq Elements(todo')
         /\ \A f \in Elements(todo) : f = Head(todo) \/ f \in Elements(todo')
         /\ Head(todo) \in Frames
<1>1. todo \in Seq(Frames)
  BY DEF TypeOK
<1>2. /\ Head(todo) \in Frames /\ Tail(todo) \in Seq(Frames)
      /\ Elements(todo) = {Head(todo)} \cup Elements(Tail(todo))
  BY <1>1, TailFacts
<1>3. /\ fs \o Tail(todo) \in Seq(Frames)
      /\ Elements(fs \o Tail(todo)) = Elements(fs) \cup Elements(Tail(todo))
  <2>1. PICK t \in Seq(Frames) : t = Tail(todo)
    BY <1>2
  <2>2. fs \o t \in Seq(Frames) /\ Elements(fs \o t) = Elements(fs) \cup Elements(t)
    BY ConcatFacts
  <2> QED  BY <2>1, <2>2
<1> QED  BY <1>2, <1>3

\* The frame that resets the activity, when there is one to reset.
LEMMA LeaveFacts ==
  /\ LeaveActivity \in Seq(Frames)
  /\ activity = 0 => <<"activity", 0>> \in Elements(LeaveActivity)
<1>1. <<"activity", 0>> \in Frames
  BY MakeFrames
<1> QED  BY <1>1, ShortFacts DEF LeaveActivity

\* The component that set the event up.
LEMMA CompFacts ==
  ASSUME NEW e \in Event
  PROVE  Comp(e) \in Node /\ Provide[e] \in Node /\ Require[e] \in Node
BY FlushAssumption DEF Comp

\* What the action is about.
LEMMA DoingFacts ==
  ASSUME TypeOK, NEW op, Doing(op)
  PROVE  /\ todo # << >> /\ Head(todo) \in Frames /\ Head(todo)[1] = op /\ Arg = Head(todo)[2]
         /\ op = "raise" => Arg \in Event \cup Statement
         /\ op \in {"done", "leave"} => Arg \in Node
         /\ op \in {"flush", "drain"} => Arg \in Node /\ Sync \in BOOLEAN
         /\ op = "undefer" => Arg \in Statement
<1>1. todo # << >> /\ Head(todo)[1] = op /\ todo \in Seq(Frames)
  BY DEF Doing, TypeOK
<1>2. Head(todo) \in Frames
  BY <1>1
<1> QED  BY <1>1, <1>2, FrameFacts DEF Arg, Sync

\* Some frame of the list has name op and is about n.
Has(list, ops, n) == \E f \in Elements(list) : f[1] \in ops /\ f[2] = n
Named(list, op) == \E f \in Elements(list) : f[1] = op

\* A step that replaces the frame on top keeps the invariant when it resets what that
\* frame is there to reset, and has a frame for what it sets.
LEMMA StackStep ==
  ASSUME IInv, todo # << >>, NEW fs \in Seq(Frames), todo' = fs \o Tail(todo),
         \A n \in Node : handling'[n] =>
           \/ handling[n] /\ ~ (Head(todo)[1] \in {"leave", "drain"} /\ Head(todo)[2] = n)
           \/ Has(fs, {"leave", "drain"}, n),
         activity' # 0 => (activity # 0 /\ Head(todo)[1] # "activity") \/ Named(fs, "activity"),
         defer' => (defer /\ Head(todo)[1] # "undefer") \/ Named(fs, "undefer")
  PROVE  todo' \in Seq(Frames) /\ HandlingInv' /\ ActivityInv' /\ DeferInv'
<1>1. /\ todo' \in Seq(Frames)
      /\ Elements(fs) \subseteq Elements(todo')
      /\ \A f \in Elements(todo) : f = Head(todo) \/ f \in Elements(todo')
  BY DoFacts DEF IInv
<1>2. HandlingInv'
  BY <1>1 DEF IInv, HandlingInv, Has
<1>3. ActivityInv'
  BY <1>1 DEF IInv, ActivityInv, Named
<1>4. DeferInv'
  BY <1>1 DEF IInv, DeferInv, Named
<1> QED  BY <1>1, <1>2, <1>3, <1>4

-------------------------------------------------------------------------------
(***************************************************************************)
(* Every action keeps the invariant.                                       *)
(***************************************************************************)

\* The end of the outermost scope of the activity.
LEMMA ResetActivityStep ==
  ASSUME IInv, ResetActivity
  PROVE  IInv'
<1>1. << >> \in Seq(Frames) /\ todo # << >> /\ Head(todo)[1] = "activity"
  BY DoingFacts DEF ResetActivity, IInv
<1>2. todo' \in Seq(Frames) /\ HandlingInv' /\ ActivityInv' /\ DeferInv'
  BY <1>1, StackStep DEF ResetActivity, Do
<1> QED  BY <1>2 DEF IInv, TypeOK, ResetActivity

\* An event of the outside world starts on an empty stack.
LEMMA TriggerStep ==
  ASSUME IInv, NEW e \in Event \cup Statement, Trigger(e)
  PROVE  IInv'
<1>1. <<"raise", e>> \in Frames
  BY MakeFrames
<1>2. todo' \in Seq(Frames)
  BY <1>1, ShortFacts DEF Trigger
<1>3. Elements(todo) = {}
  BY EmptyFacts DEF Trigger
<1>4. HandlingInv' /\ ActivityInv' /\ DeferInv'
  BY <1>3 DEF IInv, HandlingInv, ActivityInv, DeferInv, Trigger
<1> QED  BY <1>2, <1>4 DEF IInv, TypeOK, Trigger

\* The scope of a deferred statement ends in undefer.
LEMMA DeferredStep ==
  ASSUME IInv, Deferred
  PROVE  IInv'
<1>1. PICK body \in Body[Arg] :
        Do(Raise(body)
           \o <<<<"done", Owner[Arg]>>, <<"flush", Owner[Arg], FALSE>>, <<"undefer", Arg>>>>
           \o LeaveActivity)
  BY DEF Deferred
<1>2. todo # << >> /\ Head(todo)[1] = "raise" /\ Arg \in Statement /\ Owner[Arg] \in Node
  BY DoingFacts, FlushAssumption DEF Deferred, IInv, Node
<1> DEFINE end == <<<<"done", Owner[Arg]>>, <<"flush", Owner[Arg], FALSE>>, <<"undefer", Arg>>>>
           fs == Raise(body) \o end \o LeaveActivity
<1>3. end \in Seq(Frames) /\ <<"undefer", Arg>> \in Elements(end)
  <2>1. /\ <<"done", Owner[Arg]>> \in Frames /\ <<"flush", Owner[Arg], FALSE>> \in Frames
        /\ <<"undefer", Arg>> \in Frames
    BY <1>2, MakeFrames
  <2>2. PICK x \in Frames, y \in Frames, z \in Frames :
          x = <<"done", Owner[Arg]>> /\ y = <<"flush", Owner[Arg], FALSE>> /\ z = <<"undefer", Arg>>
    BY <2>1
  <2>3. <<x, y, z>> \in Seq(Frames) /\ Elements(<<x, y, z>>) = {x, y, z}
    BY FrameLists
  <2> QED  BY <2>2, <2>3
<1>4. todo' = fs \o Tail(todo)
  BY <1>1 DEF Do
<1> HIDE DEF end
<1>5. Raise(body) \in Seq(Frames)
  BY <1>2, RaiseFacts
<1>6. /\ fs \in Seq(Frames) /\ <<"undefer", Arg>> \in Elements(fs)
      /\ activity = 0 => <<"activity", 0>> \in Elements(fs)
  <2>1. PICK r \in Seq(Frames), l \in Seq(Frames) :
          /\ r = Raise(body) /\ l = LeaveActivity
          /\ activity = 0 => <<"activity", 0>> \in Elements(l)
    BY <1>5, LeaveFacts
  <2>2. r \o end \in Seq(Frames) /\ Elements(end) \subseteq Elements(r \o end)
    BY <1>3, FrameLists
  <2>3. /\ r \o end \o l \in Seq(Frames)
        /\ Elements(r \o end \o l) = Elements(r \o end) \cup Elements(l)
    BY <2>2, FrameLists
  <2> QED  BY <1>3, <2>1, <2>2, <2>3
<1> HIDE DEF fs
<1>7. todo' \in Seq(Frames) /\ HandlingInv' /\ ActivityInv' /\ DeferInv'
  BY <1>2, <1>4, <1>6, StackStep DEF Deferred, EnterActivity, Named
<1> QED  BY <1>7 DEF IInv, TypeOK, Deferred, EnterActivity

\* The end of a deferred statement.
LEMMA UndeferStep ==
  ASSUME IInv, Undefer
  PROVE  IInv'
<1>1. << >> \in Seq(Frames) /\ todo # << >> /\ Head(todo)[1] = "undefer"
  BY DoingFacts DEF Undefer, IInv
<1>2. todo' \in Seq(Frames) /\ HandlingInv' /\ ActivityInv' /\ DeferInv'
  BY <1>1, StackStep DEF Undefer, Do
<1> QED  BY <1>2 DEF IInv, TypeOK, Undefer

\* The wrapper of an in event ends in leave.
LEMMA InEventStep ==
  ASSUME IInv, InEvent
  PROVE  IInv'
<1> DEFINE done == IF Provide[Arg] # Null THEN <<<<"done", Provide[Arg]>>>> ELSE << >>
           flush == <<<<"flush", Provide[Arg], TRUE>>>>
           leave == <<<<"leave", Comp(Arg)>>>>
<1>1. PICK body \in Body[Arg] : Do(Raise(body) \o done \o flush \o LeaveActivity \o leave)
  BY DEF InEvent
<1>2. /\ todo # << >> /\ Head(todo)[1] = "raise" /\ Arg \in Event
      /\ Comp(Arg) \in Node /\ Provide[Arg] \in Node
  BY DoingFacts, CompFacts DEF InEvent, IInv, Event
<1>3. /\ done \in Seq(Frames) /\ flush \in Seq(Frames) /\ leave \in Seq(Frames)
      /\ <<"leave", Comp(Arg)>> \in Elements(leave)
  <2>1. /\ <<"done", Provide[Arg]>> \in Frames /\ <<"flush", Provide[Arg], TRUE>> \in Frames
        /\ <<"leave", Comp(Arg)>> \in Frames
    BY <1>2, MakeFrames
  <2> QED  BY <2>1, FrameLists
<1> DEFINE fs == Raise(body) \o done \o flush \o LeaveActivity \o leave
<1>4. todo' = fs \o Tail(todo)
  BY <1>1 DEF Do
<1> HIDE DEF done, flush, leave
<1>5. Raise(body) \in Seq(Frames)
  BY <1>2, RaiseFacts
<1>6. /\ fs \in Seq(Frames) /\ <<"leave", Comp(Arg)>> \in Elements(fs)
      /\ activity = 0 => <<"activity", 0>> \in Elements(fs)
  <2>1. PICK r \in Seq(Frames), l \in Seq(Frames) :
          /\ r = Raise(body) /\ l = LeaveActivity
          /\ activity = 0 => <<"activity", 0>> \in Elements(l)
    BY <1>5, LeaveFacts
  <2>2. r \o done \in Seq(Frames)
    BY <1>3, FrameLists
  <2>3. PICK d \in Seq(Frames) : d = r \o done \o flush
    BY <1>3, <2>2, FrameLists
  <2>4. d \o l \in Seq(Frames) /\ Elements(d \o l) = Elements(d) \cup Elements(l)
    BY FrameLists
  <2>5. /\ d \o l \o leave \in Seq(Frames)
        /\ Elements(d \o l \o leave) = Elements(d \o l) \cup Elements(leave)
    BY <1>3, <2>4, FrameLists
  <2> QED  BY <1>3, <2>1, <2>3, <2>4, <2>5
<1> HIDE DEF fs
<1>7. /\ handling \in [Node -> BOOLEAN] /\ handling' = [handling EXCEPT ![Comp(Arg)] = TRUE]
      /\ Has(fs, {"leave", "drain"}, Comp(Arg))
  BY <1>6 DEF InEvent, IInv, TypeOK, Has
<1>8. todo' \in Seq(Frames) /\ HandlingInv' /\ ActivityInv' /\ DeferInv'
  BY <1>2, <1>4, <1>6, <1>7, StackStep, ZenonT(30) DEF InEvent, EnterActivity, Named
<1> QED  BY <1>7, <1>8, ZenonT(30) DEF IInv, TypeOK, InEvent, EnterActivity

\* The end of a wrapper.
LEMMA LeaveStep ==
  ASSUME IInv, Leave
  PROVE  IInv'
<1>1. /\ << >> \in Seq(Frames) /\ todo # << >> /\ Head(todo)[1] = "leave"
      /\ Arg \in Node /\ Arg = Head(todo)[2]
  BY DoingFacts DEF Leave, IInv
<1>2. handling \in [Node -> BOOLEAN] /\ handling' = [handling EXCEPT ![Arg] = FALSE]
  BY DEF Leave, IInv, TypeOK
<1>3. todo' \in Seq(Frames) /\ HandlingInv' /\ ActivityInv' /\ DeferInv'
  BY <1>1, <1>2, StackStep DEF Leave, Do
<1> QED  BY <1>2, <1>3 DEF IInv, TypeOK, Leave

\* The wrapper of an out event puts it in the queue of its recipient, and may ask for
\* a flush.
LEMMA OutEventStep ==
  ASSUME IInv, OutEvent
  PROVE  IInv'
<1>1. /\ todo # << >> /\ Head(todo)[1] = "raise" /\ Arg \in Event /\ Arg \in Out
      /\ Provide[Arg] \in Node /\ Require[Arg] \in Node
  BY DoingFacts, CompFacts DEF OutEvent, IInv, Event
<1>2. deferred' \in [Node -> Node]
  BY <1>1 DEF OutEvent, IInv, TypeOK
<1>3. activity' \in {-1, 0, 1}
  BY DEF OutEvent, EnterActivity, IInv, TypeOK
<1>4. /\ queue' \in [Node -> Seq(Out)]
      /\ \A n \in Node : \A e \in Elements(queue'[n]) : Require[e] = n
  <2>1. CASE queue' = queue
    BY <2>1 DEF IInv, TypeOK
  <2>2. CASE queue' = [queue EXCEPT ![Require[Arg]] = Append(queue[Require[Arg]], Arg)]
    <3>1. queue \in [Node -> Seq(Out)] /\ queue[Require[Arg]] \in Seq(Out)
      BY <1>1 DEF IInv, TypeOK
    <3>2. /\ Append(queue[Require[Arg]], Arg) \in Seq(Out)
          /\ Elements(Append(queue[Require[Arg]], Arg)) = Elements(queue[Require[Arg]]) \cup {Arg}
      BY <1>1, <3>1, AppendFacts
    <3> QED  BY <1>1, <2>2, <3>1, <3>2 DEF IInv, TypeOK
  <2> QED  BY <2>1, <2>2 DEF OutEvent, Recipient
<1>5. ASSUME NEW r \in Seq(Frames), Do(r \o LeaveActivity)
      PROVE  \E fs \in Seq(Frames) : /\ todo' = fs \o Tail(todo)
                                     /\ activity = 0 => <<"activity", 0>> \in Elements(fs)
  <2>1. PICK fs \in Seq(Frames) : /\ fs = r \o LeaveActivity
                                  /\ Elements(fs) = Elements(r) \cup Elements(LeaveActivity)
    BY LeaveFacts, FrameLists
  <2>2. todo' = fs \o Tail(todo)
    BY <1>5, <2>1 DEF Do
  <2>3. activity = 0 => <<"activity", 0>> \in Elements(fs)
    BY <2>1, LeaveFacts
  <2> QED  BY <2>2, <2>3
<1>6. \E fs \in Seq(Frames) : /\ todo' = fs \o Tail(todo)
                              /\ activity = 0 => <<"activity", 0>> \in Elements(fs)
  <2>1. CASE Require[Arg] = Null /\ defer
    <3>1. PICK body \in Body[Arg] : Do(Raise(body) \o LeaveActivity)
      BY <2>1 DEF OutEvent
    <3>2. Raise(body) \in Seq(Frames)
      BY <1>1, RaiseFacts
    <3> QED  BY <1>5, <3>1, <3>2
  <2>2. CASE ~ (Require[Arg] = Null /\ defer)
    <3>1. PICK b : b = (activity' = 1)
      BY Zenon
    <3>2. b \in BOOLEAN
      BY <3>1, Zenon
    <3>3. <<"flush", Require[Arg], b>> \in Frames
      BY <1>1, <3>2, MakeFrames
    <3>4. PICK r \in Seq(Frames) :
            r = IF FlushesNow(Arg) THEN <<<<"flush", Require[Arg], b>>>> ELSE << >>
      BY <3>3, FrameLists
    <3>5. Do((IF FlushesNow(Arg) THEN <<<<"flush", Require[Arg], activity' = 1>>>> ELSE << >>)
             \o LeaveActivity)
      BY <2>2, Zenon DEF OutEvent
    <3>6. Do(r \o LeaveActivity)
      BY <3>1, <3>4, <3>5, Zenon
    <3> QED  BY <1>5, <3>6
  <2> QED  BY <2>1, <2>2
<1>7. PICK fs \in Seq(Frames) : /\ todo' = fs \o Tail(todo)
                                /\ activity = 0 => <<"activity", 0>> \in Elements(fs)
  BY <1>6
<1>8. /\ handling' = handling /\ defer' = defer
      /\ activity' # 0 => activity # 0 \/ Named(fs, "activity")
  <2>1. handling' = handling /\ defer' = defer
    BY Zenon DEF OutEvent
  <2>2. <<"activity", 0>>[1] = "activity"
    OBVIOUS
  <2>3. ASSUME activity = 0 PROVE Named(fs, "activity")
    <3>1. PICK f \in Elements(fs) : f = <<"activity", 0>>
      BY <1>7, <2>3
    <3> QED  BY <3>1, <2>2 DEF Named
  <2> QED  BY <2>1, <2>3
<1>9. todo' \in Seq(Frames) /\ HandlingInv' /\ ActivityInv' /\ DeferInv'
  BY <1>1, <1>7, <1>8, StackStep
<1> QED  BY <1>2, <1>3, <1>4, <1>9 DEF IInv, TypeOK, OutEvent

\* A handler returns.
LEMMA DoneStep ==
  ASSUME IInv, Done
  PROVE  IInv'
<1>1. << >> \in Seq(Frames) /\ todo # << >> /\ Head(todo)[1] = "done"
  BY DoingFacts DEF Done, IInv
<1>2. todo' \in Seq(Frames) /\ HandlingInv' /\ ActivityInv' /\ DeferInv'
  BY <1>1, StackStep DEF Done, Do
<1> QED  BY <1>2 DEF IInv, TypeOK, Done

\* flush marks its node until the queue is empty.
LEMMA StartFlushStep ==
  ASSUME IInv, StartFlush
  PROVE  IInv'
<1>1. todo # << >> /\ Head(todo)[1] = "flush" /\ Arg \in Node /\ Sync \in BOOLEAN
  BY DoingFacts DEF StartFlush, IInv
<1>2. PICK f \in Frames : f = <<"drain", Arg, Sync>>
  BY <1>1, MakeFrames
<1>3. <<f>> \in Seq(Frames) /\ Elements(<<f>>) = {f}
  BY FrameLists
<1>4. PICK fs \in Seq(Frames) : todo' = fs \o Tail(todo) /\ Has(fs, {"leave", "drain"}, Arg)
  <2>1. PICK fs \in Seq(Frames) : fs = <<f>> /\ Elements(fs) = {f}
    BY <1>3
  <2>2. todo' = fs \o Tail(todo)
    BY <1>2, <2>1 DEF StartFlush, Do
  <2>3. f[1] = "drain" /\ f[2] = Arg
    BY <1>2
  <2> QED  BY <2>1, <2>2, <2>3 DEF Has
<1>5. handling \in [Node -> BOOLEAN] /\ handling' = [handling EXCEPT ![Arg] = TRUE]
  BY DEF StartFlush, IInv, TypeOK
<1>6. todo' \in Seq(Frames) /\ HandlingInv' /\ ActivityInv' /\ DeferInv'
  BY <1>1, <1>4, <1>5, StackStep DEF StartFlush
<1> QED  BY <1>1, <1>5, <1>6 DEF IInv, TypeOK, StartFlush

\* The next event of the queue is handled on top of the flush.
LEMMA DrainStep ==
  ASSUME IInv, Drain
  PROVE  IInv'
<1>1. todo # << >> /\ Arg \in Node /\ queue[Arg] # << >> /\ todo \in Seq(Frames)
  BY DoingFacts DEF Drain, IInv, TypeOK
<1>2. queue \in [Node -> Seq(Out)] /\ queue[Arg] \in Seq(Out)
  BY <1>1 DEF IInv, TypeOK
<1>3. /\ Head(queue[Arg]) \in Out /\ Tail(queue[Arg]) \in Seq(Out)
      /\ Elements(Tail(queue[Arg])) \subseteq Elements(queue[Arg])
  BY <1>1, <1>2, TailFacts
<1>4. /\ queue' \in [Node -> Seq(Out)]
      /\ \A n \in Node : \A e \in Elements(queue'[n]) : Require[e] = n
  BY <1>1, <1>2, <1>3 DEF Drain, IInv, TypeOK
<1>5. PICK body \in Body[Head(queue[Arg])] : todo' = Raise(body) \o <<<<"done", Arg>>>> \o todo
  BY DEF Drain
<1>6. PICK r \in Seq(Frames) : r = Raise(body)
  BY <1>3, RaiseFacts DEF Event
<1>7. PICK f \in Frames : f = <<"done", Arg>>
  BY <1>1, MakeFrames
<1>8. PICK d \in Seq(Frames) : d = r \o <<f>>
  BY FrameLists
<1>9. d \o todo \in Seq(Frames) /\ Elements(d \o todo) = Elements(d) \cup Elements(todo)
  BY <1>1, FrameLists
<1>10. todo' \in Seq(Frames) /\ Elements(todo) \subseteq Elements(todo')
  BY <1>5, <1>6, <1>7, <1>8, <1>9
<1>11. HandlingInv' /\ ActivityInv' /\ DeferInv'
  BY <1>10 DEF IInv, HandlingInv, ActivityInv, DeferInv, Drain
<1> QED  BY <1>4, <1>10, <1>11 DEF IInv, TypeOK, Drain

\* The end of flush, which may go on with the deferred target.
LEMMA EndFlushStep ==
  ASSUME IInv, EndFlush
  PROVE  IInv'
<1>1. /\ todo # << >> /\ Head(todo)[1] = "drain" /\ Arg \in Node /\ Arg = Head(todo)[2]
      /\ Sync \in BOOLEAN
  BY DoingFacts DEF EndFlush, IInv
<1>2. deferred \in [Node -> Node] /\ deferred[Arg] \in Node /\ Null \in Node
  BY <1>1 DEF IInv, TypeOK, Node
<1>3. PICK f \in Frames : f = <<"flush", deferred[Arg], FALSE>>
  BY <1>2, MakeFrames
<1>4. FlushTarget \in Seq(Frames)
  BY <1>3, FrameLists DEF FlushTarget
<1>5. handling \in [Node -> BOOLEAN] /\ handling' = [handling EXCEPT ![Arg] = FALSE]
  BY DEF EndFlush, IInv, TypeOK
<1>6. todo' \in Seq(Frames) /\ HandlingInv' /\ ActivityInv' /\ DeferInv'
  BY <1>1, <1>4, <1>5, StackStep DEF EndFlush, Do
<1>7. deferred' \in [Node -> Node]
  BY <1>1, <1>2 DEF EndFlush
<1> QED  BY <1>1, <1>5, <1>6, <1>7 DEF IInv, TypeOK, EndFlush

-------------------------------------------------------------------------------
LEMMA InitIInv ==
  ASSUME Init
  PROVE  IInv
<1>1. TypeOK
  <2>1. queue \in [Node -> Seq(Out)] /\ todo \in Seq(Frames)
    BY DEF Init
  <2>2. \A n \in Node : Elements(queue[n]) = {}
    BY EmptyFacts DEF Init
  <2>3. handling \in [Node -> BOOLEAN] /\ deferred \in [Node -> Node]
    BY DEF Init, Node
  <2> QED  BY <2>1, <2>2, <2>3 DEF Init, TypeOK
<1> QED  BY <1>1 DEF Init, IInv, HandlingInv, ActivityInv, DeferInv

LEMMA NextIInv ==
  ASSUME IInv, [Next]_vars
  PROVE  IInv'
<1>1. CASE Step
  BY <1>1, InEventStep, OutEventStep, DeferredStep, DoneStep, LeaveStep, ResetActivityStep,
     UndeferStep, StartFlushStep, DrainStep, EndFlushStep DEF Step
<1>2. ASSUME NEW e \in Event \cup Statement, Trigger(e)
      PROVE  IInv'
  BY <1>2, TriggerStep
<1>3. CASE UNCHANGED vars
  BY <1>3 DEF vars, IInv, TypeOK, HandlingInv, ActivityInv, DeferInv
<1> QED  BY <1>1, <1>2, <1>3 DEF Next

\* The invariant holds in every state of every system.
THEOREM Invariance == Spec => []IInv
BY InitIInv, NextIInv, PTL DEF Spec

\* Every variable has its type, and an out event waits in the queue of its recipient
\* and of no other component.
THEOREM TypeCorrect == Spec => []TypeOK
<1>1. IInv => TypeOK
  BY DEF IInv
<1> QED  BY <1>1, Invariance, PTL

\* Between two events of the outside world nothing is left of the first one's scopes:
\* no component counts as handling an event, and activity and defer are reset.  This
\* holds for any handlers.
THEOREM RestsBetweenEvents == Spec => []AtRest
<1>1. ASSUME IInv PROVE AtRest
  <2>1. todo = << >> => Elements(todo) = {}
    BY EmptyFacts
  <2> QED  BY <1>1, <2>1 DEF IInv, TypeOK, HandlingInv, ActivityInv, DeferInv, AtRest
<1> QED  BY <1>1, Invariance, PTL

-------------------------------------------------------------------------------
(***************************************************************************)
(* Trees of components.                                                    *)
(***************************************************************************)

\* The node whose handler event or statement e starts.
Handler(e) == IF e \in In THEN Provide[e] ELSE IF e \in Out THEN Require[e] ELSE Owner[e]

\* b is an event that component c raises: a call of a component, or of the world,
\* below it or an event for its parent.
RaisedBy(b, c) == IF b \in In THEN Require[b] = c ELSE Provide[b] = c

Tree ==
  /\ Parent \in [Component -> Node] /\ Rank \in [Component -> Nat]
  /\ \A c \in Component : Parent[c] \in Component => Rank[c] < Rank[Parent[c]]
  /\ \A e \in Event : Provide[e] \in Component => Require[e] = Parent[Provide[e]]
  \* Handlers raise events of their own component.  The world answers the component
  \* that calls it, and takes note of events without calling back.
  /\ \A e \in Event \cup Statement : \A body \in Body[e] : \A i \in 1..Len(body) :
       IF Handler(e) \in Component THEN RaisedBy(body[i], Handler(e))
       ELSE e \in In /\ body[i] \in Out /\ Provide[body[i]] = Null /\ Require[body[i]] = Require[e]
  \* Components that are written by hand do not defer.
  /\ \A s \in Statement : Owner[s] \in Native
  \* A component that calls the world is generated and has a component above it: after
  \* such a call ~scoped_handling has cleared its mark (see NonReentrant).
  /\ \A e \in In : Provide[e] = Null => Require[e] \in Native /\ Parent[Require[e]] \in Component

-------------------------------------------------------------------------------
(***************************************************************************)
(* The invariant: which frames may be above which, and what a frame needs  *)
(* below it.                                                               *)
(***************************************************************************)

\* The components whose mark decides whether they are flushed at once.
Marked == {c \in Component : Parent[c] = Null \/ c \notin Native}

Holds(frames, ops, n) == \E g \in frames : g[1] \in ops /\ g[2] = n

\* The world raises an out event.
ByWorld(f) == f[1] = "raise" /\ f[2] \in Out /\ Provide[f[2]] = Null

\* An out event that a component written by hand raises of its own accord.
Spontaneous(f) == f[1] = "raise" /\ f[2] \in Out /\ Provide[f[2]] \in Component \ Native

\* Frame f is of a handler at or below component c, which a call has reached: it flushes
\* only what is below c, and only in the scope of calls.
Tame(d, f, c) ==
  /\ f[1] = "raise" /\ f[2] \in In =>
       Require[f[2]] \in Component /\ Rank[Require[f[2]]] <= Rank[c]
  /\ f[1] = "raise" /\ f[2] \in Out /\ Provide[f[2]] # Null =>
       Rank[Provide[f[2]]] <= Rank[c] /\ (Require[f[2]] # Null \/ d)
  /\ f[1] = "done" /\ f[2] # Null => Rank[f[2]] < Rank[c]
  /\ f[1] \in {"flush", "drain"} =>
       f[3] = TRUE /\ (f[2] # Null => Parent[f[2]] \in Component /\ Rank[f[2]] < Rank[c])

\* Frame f may be above frame g, the end of a handler of c or c's flush.
Inside(d, f, g) ==
  LET c == g[2] IN
  /\ c = Null => g[1] = "drain" /\ f[1] = "done" /\ f[2] = Null
  /\ f[2] = c => /\ f[1] \notin {"flush", "drain"}
                 /\ f[1] = "done" => g[1] = "drain"
                 /\ f[1] = "leave" => c \notin Marked
  /\ c \in Component /\ (Parent[c] \in Component \/ d) =>
       Tame(d, f, c) \/ (g[1] = "drain" /\ f[1] = "done" /\ f[2] = c)

\* Frame f may be above frame g, with d = defer.
Above(d, f, g) ==
  /\ g[1] = "raise" => g[2] \notin Statement
  /\ ByWorld(g) => f[1] = "activity" \/ ByWorld(f)
  /\ f[1] = "raise" => f[2] \notin Statement /\ (f[2] \in In => Require[f[2]] # Null)
  /\ f[1] = "undefer" => g[1] = "activity"
  /\ g[1] \in {"done", "drain"} => Inside(d, f, g)

\* The frames below f hold what f needs: who raises an event is executing, a handler
\* ends before a flush of its component, and a flush in the scope of a call ends
\* before the handler that made the call.
Supported(f, below) ==
  /\ f[1] = "raise" /\ f[2] \in In /\ Require[f[2]] # Null =>
       Holds(below, {"done"}, Require[f[2]])
  /\ f[1] = "raise" /\ f[2] \in Out /\ Provide[f[2]] # Null =>
       Holds(below, {"done"}, Provide[f[2]]) \/ (below = {} /\ Spontaneous(f))
  /\ f[1] = "done" => Holds(below, {"flush", "drain"}, f[2])
  /\ f[1] \in {"flush", "drain"} /\ f[3] = TRUE /\ f[2] # Null /\ Parent[f[2]] # Null =>
       Holds(below, {"done"}, Parent[f[2]])

Rests(d, f, below) == Supported(f, below) /\ \A g \in below : Above(d, f, g)

\* The frames of s behind the i-th.
Beyond(s, i) == {s[j] : j \in i+1..Len(s)}

\* The frames s can be on top of the frames in below.
Stacked(d, s, below) == \A i \in 1..Len(s) : Rests(d, s[i], Beyond(s, i) \cup below)

StackInv == Stacked(defer, todo, {})

\* A component that counts as handling an event is going to be flushed.
FlushInv == \A c \in Component : handling[c] => Holds(Elements(todo), {"flush", "drain"}, c)

\* The mark of a component that executes is set where it matters.
MarkInv ==
  \A c \in Marked : Holds(Elements(todo), {"done", "drain"}, c) =>
    handling[c] \/ (defer /\ c \in Native)

\* The world raises events in a call of a component, which is marked, or from outside.
WorldInv ==
  \A f \in Elements(todo) : ByWorld(f) => handling[Require[f[2]]] \/ Tail(todo) = << >>

\* The deferred target of a component is its parent.
TargetInv == \A c \in Component : deferred[c] \in {Null, Parent[c]}

\* A flush of p that goes on with its deferred target.
FlushesOn(p) == \E f \in Elements(todo) : f[1] \in {"flush", "drain"} /\ f[2] = p /\ f[3] = FALSE

\* A node whose queue has an event is going to be flushed.
QueueInv ==
  \A n \in Node : queue[n] # << >> =>
    \/ Holds(Elements(todo), {"flush", "drain"}, n)
    \/ \E p \in Component : Parent[p] = n /\ deferred[p] = n /\ n # Null /\ FlushesOn(p)

RunInv == IInv /\ StackInv /\ FlushInv /\ MarkInv /\ WorldInv /\ TargetInv /\ QueueInv

-------------------------------------------------------------------------------
(***************************************************************************)
(* Stacks of frames.                                                       *)
(***************************************************************************)

LEMMA BeyondConcat ==
  ASSUME NEW p \in Seq(Frames), NEW q \in Seq(Frames)
  PROVE  /\ \A i \in 1..Len(p) : Beyond(p \o q, i) = Beyond(p, i) \cup Elements(q)
         /\ \A i \in 1..Len(q) : Beyond(p \o q, Len(p) + i) = Beyond(q, i)
<1>1. /\ Len(p) \in Nat /\ Len(q) \in Nat /\ Len(p \o q) = Len(p) + Len(q)
      /\ \A i \in 1..Len(p) : (p \o q)[i] = p[i]
      /\ \A i \in 1..Len(q) : (p \o q)[Len(p) + i] = q[i]
  BY ConcatFacts
<1> DEFINE s == p \o q
<1> HIDE DEF s
<1>2. /\ Len(s) = Len(p) + Len(q) /\ Len(p) \in Nat /\ Len(q) \in Nat
      /\ \A i \in 1..Len(p) : s[i] = p[i]
      /\ \A i \in 1..Len(q) : s[Len(p) + i] = q[i]
  BY <1>1 DEF s
<1>5. Len(s) = Len(p) + Len(q) /\ Len(p) \in Nat /\ Len(q) \in Nat
  BY <1>2
<1>3. ASSUME NEW i \in 1..Len(p)
      PROVE  Beyond(s, i) = Beyond(p, i) \cup Elements(q)
  <2>1. ASSUME NEW x \in Beyond(s, i)
        PROVE  x \in Beyond(p, i) \cup Elements(q)
    <3>1. PICK j \in i+1..Len(s) : x = s[j]
      BY DEF Beyond
    <3>2. CASE j <= Len(p)
      BY <1>2, <3>1, <3>2 DEF Beyond
    <3>3. CASE j > Len(p)
      <4>1. PICK k \in 1..Len(q) : k = j - Len(p)
        <5>1. j - Len(p) \in 1..Len(q)
          BY <1>5, <3>3
        <5> QED  BY <5>1
      <4>2. s[Len(p) + k] = q[k] /\ j = Len(p) + k
        BY <1>2, <3>1, <4>1
      <4> QED  BY <3>1, <4>2 DEF Elements
    <3> QED  BY <1>2, <3>1, <3>2, <3>3
  <2>2. ASSUME NEW x \in Beyond(p, i)
        PROVE  x \in Beyond(s, i)
    <3>1. PICK j \in i+1..Len(p) : x = p[j]
      BY DEF Beyond
    <3>2. j \in i+1..Len(s) /\ s[j] = p[j]
      BY <1>2, <3>1
    <3> QED  BY <3>1, <3>2 DEF Beyond
  <2>3. ASSUME NEW x \in Elements(q)
        PROVE  x \in Beyond(s, i)
    <3>1. PICK k \in 1..Len(q) : x = q[k]
      BY DEF Elements
    <3>2. PICK j \in i+1..Len(s) : j = Len(p) + k
      <4>1. Len(p) + k \in i+1..Len(s)
        BY <1>5
      <4> QED  BY <4>1
    <3>3. s[j] = q[k]
      BY <1>2, <3>1, <3>2
    <3> QED  BY <3>1, <3>3 DEF Beyond
  <2> QED  BY <2>1, <2>2, <2>3
<1>4. ASSUME NEW i \in 1..Len(q)
      PROVE  Beyond(s, Len(p) + i) = Beyond(q, i)
  <2>1. ASSUME NEW x \in Beyond(s, Len(p) + i)
        PROVE  x \in Beyond(q, i)
    <3>1. PICK j \in Len(p)+i+1..Len(s) : x = s[j]
      BY DEF Beyond
    <3>2. PICK k \in i+1..Len(q) : k = j - Len(p)
      <4>1. j - Len(p) \in i+1..Len(q)
        BY <1>5
      <4> QED  BY <4>1
    <3>3. s[Len(p) + k] = q[k] /\ j = Len(p) + k
      BY <1>2, <3>1, <3>2
    <3> QED  BY <3>1, <3>2, <3>3 DEF Beyond
  <2>2. ASSUME NEW x \in Beyond(q, i)
        PROVE  x \in Beyond(s, Len(p) + i)
    <3>1. PICK k \in i+1..Len(q) : x = q[k]
      BY DEF Beyond
    <3>2. PICK j \in Len(p)+i+1..Len(s) : j = Len(p) + k
      <4>1. Len(p) + k \in Len(p)+i+1..Len(s)
        BY <1>5
      <4> QED  BY <4>1
    <3>3. s[j] = q[k]
      BY <1>2, <3>1, <3>2
    <3> QED  BY <3>1, <3>3 DEF Beyond
  <2> QED  BY <2>1, <2>2
<1> QED  BY <1>3, <1>4 DEF s

\* Frames on top of frames.
LEMMA StackedConcat ==
  ASSUME NEW d, NEW p \in Seq(Frames), NEW q \in Seq(Frames), NEW below,
         Stacked(d, p, Elements(q) \cup below), Stacked(d, q, below)
  PROVE  Stacked(d, p \o q, below)
<1>1. /\ Len(p) \in Nat /\ Len(q) \in Nat /\ Len(p \o q) = Len(p) + Len(q)
      /\ \A i \in 1..Len(p) : (p \o q)[i] = p[i]
      /\ \A i \in 1..Len(q) : (p \o q)[Len(p) + i] = q[i]
  BY ConcatFacts
<1>4. Len(p) \in Nat /\ Len(q) \in Nat /\ Len(p \o q) = Len(p) + Len(q)
  BY <1>1
<1> SUFFICES ASSUME NEW i \in 1..Len(p \o q)
             PROVE  Rests(d, (p \o q)[i], Beyond(p \o q, i) \cup below)
  BY DEF Stacked
<1>2. CASE i <= Len(p)
  <2>1. /\ i \in 1..Len(p) /\ (p \o q)[i] = p[i]
        /\ Beyond(p \o q, i) = Beyond(p, i) \cup Elements(q)
    BY <1>1, <1>2, BeyondConcat
  <2>2. Beyond(p \o q, i) \cup below = Beyond(p, i) \cup (Elements(q) \cup below)
    BY <2>1
  <2> QED  BY <2>1, <2>2 DEF Stacked
<1>3. CASE i > Len(p)
  <2>1. PICK k \in 1..Len(q) : k = i - Len(p)
    <3>1. i - Len(p) \in 1..Len(q)
      BY <1>3, <1>4
    <3> QED  BY <3>1
  <2>2. i = Len(p) + k
    BY <1>4, <2>1
  <2>3. (p \o q)[i] = q[k] /\ Beyond(p \o q, i) = Beyond(q, k)
    BY <1>1, <2>1, <2>2, BeyondConcat
  <2> QED  BY <2>1, <2>3 DEF Stacked
<1> QED  BY <1>1, <1>2, <1>3

\* One frame, or none.
LEMMA StackedShort ==
  ASSUME NEW d, NEW below
  PROVE  /\ Stacked(d, << >>, below)
         /\ \A f \in Frames : Rests(d, f, below) => Stacked(d, <<f>>, below)
<1>1. Stacked(d, << >>, below)
  BY DEF Stacked
<1>2. ASSUME NEW f \in Frames, Rests(d, f, below)
      PROVE  Stacked(d, <<f>>, below)
  <2>1. Len(<<f>>) = 1 /\ <<f>>[1] = f
    OBVIOUS
  <2>2. Beyond(<<f>>, 1) = {}
    BY <2>1 DEF Beyond
  <2>3. Beyond(<<f>>, 1) \cup below = below
    BY <2>2
  <2>4. \A i \in 1..Len(<<f>>) : i = 1
    BY <2>1
  <2> QED  BY <1>2, <2>1, <2>3, <2>4 DEF Stacked
<1> QED  BY <1>1, <1>2

\* Frames that may be in any order.
LEMMA StackedAll ==
  ASSUME NEW d, NEW r \in Seq(Frames), NEW below,
         \A f \in Elements(r) : \A more \in SUBSET Elements(r) : Rests(d, f, more \cup below)
  PROVE  Stacked(d, r, below)
<1> SUFFICES ASSUME NEW i \in 1..Len(r)
             PROVE  Rests(d, r[i], Beyond(r, i) \cup below)
  BY DEF Stacked
<1>1. r[i] \in Elements(r)
  BY DEF Elements
<1>2. Beyond(r, i) \subseteq Elements(r)
  <2>1. Len(r) \in Nat
    OBVIOUS
  <2>2. \A j \in i+1..Len(r) : j \in 1..Len(r)
    BY <2>1
  <2> QED  BY <2>2 DEF Beyond, Elements
<1> QED  BY <1>1, <1>2

\* What is on top of the stack, and the rest.
LEMMA StackedTail ==
  ASSUME NEW d, NEW s \in Seq(Frames), s # << >>, Stacked(d, s, {})
  PROVE  Stacked(d, Tail(s), {}) /\ Rests(d, Head(s), Elements(Tail(s)))
<1>1. /\ Head(s) = s[1] /\ Head(s) \in Frames /\ Tail(s) \in Seq(Frames)
      /\ Len(Tail(s)) = Len(s) - 1 /\ Len(s) \in Nat /\ Len(s) >= 1
      /\ \A i \in 1..Len(s) - 1 : Tail(s)[i] = s[i + 1]
  BY TailFacts
<1> DEFINE t == Tail(s)
<1> HIDE DEF t
<1>2. Beyond(s, 1) = Elements(t)
  <2>1. ASSUME NEW x \in Beyond(s, 1)
        PROVE  x \in Elements(t)
    <3>1. PICK j \in 1+1..Len(s) : x = s[j]
      BY DEF Beyond
    <3>2. PICK k \in 1..Len(s) - 1 : k = j - 1
      BY <1>1, <3>1
    <3>3. t[k] = s[j] /\ Len(t) = Len(s) - 1
      BY <1>1, <3>1, <3>2 DEF t
    <3> QED  BY <3>1, <3>2, <3>3 DEF Elements
  <2>2. ASSUME NEW x \in Elements(t)
        PROVE  x \in Beyond(s, 1)
    <3>1. PICK k \in 1..Len(t) : x = t[k]
      BY DEF Elements
    <3>2. k \in 1..Len(s) - 1
      BY <1>1, <3>1 DEF t
    <3>3. PICK j \in 1+1..Len(s) : j = k + 1
      BY <1>1, <3>2
    <3>4. t[k] = s[j]
      BY <1>1, <3>2, <3>3 DEF t
    <3> QED  BY <3>1, <3>4 DEF Beyond
  <2> QED  BY <2>1, <2>2
<1>3. ASSUME NEW i \in 1..Len(t)
      PROVE  t[i] = s[i + 1] /\ i + 1 \in 1..Len(s) /\ Beyond(t, i) = Beyond(s, i + 1)
  <2>1. i \in 1..Len(s) - 1 /\ Len(t) = Len(s) - 1
    BY <1>1 DEF t
  <2>2. t[i] = s[i + 1] /\ i + 1 \in 1..Len(s)
    BY <1>1, <2>1 DEF t
  <2>3. ASSUME NEW x \in Beyond(t, i)
        PROVE  x \in Beyond(s, i + 1)
    <3>1. PICK k \in i+1..Len(t) : x = t[k]
      BY DEF Beyond
    <3>2. PICK j \in i+1+1..Len(s) : j = k + 1
      BY <1>1, <2>1, <3>1
    <3>3. t[k] = s[j]
      BY <1>1, <2>1, <3>1, <3>2 DEF t
    <3> QED  BY <3>1, <3>3 DEF Beyond
  <2>4. ASSUME NEW x \in Beyond(s, i + 1)
        PROVE  x \in Beyond(t, i)
    <3>1. PICK j \in i+1+1..Len(s) : x = s[j]
      BY DEF Beyond
    <3>2. PICK k \in i+1..Len(t) : k = j - 1
      BY <1>1, <2>1, <3>1
    <3>3. t[k] = s[j]
      BY <1>1, <2>1, <3>1, <3>2 DEF t
    <3> QED  BY <3>1, <3>2, <3>3 DEF Beyond
  <2> QED  BY <2>2, <2>3, <2>4
<1>4. Stacked(d, t, {})
  BY <1>3 DEF Stacked
<1>5. Rests(d, Head(s), Elements(t))
  <2>1. 1 \in 1..Len(s)
    BY <1>1
  <2>2. Rests(d, s[1], Beyond(s, 1) \cup {})
    BY <2>1 DEF Stacked
  <2>3. Beyond(s, 1) \cup {} = Elements(t)
    BY <1>2
  <2> QED  BY <1>1, <2>2, <2>3
<1> QED  BY <1>4, <1>5 DEF t

-------------------------------------------------------------------------------
(***************************************************************************)
(* The frames of a handler.                                                *)
(***************************************************************************)

\* The frame raises an event of component c.
OwnRaise(f, c) == f[1] = "raise" /\ f[2] \in Event /\ f[2] \notin Statement /\ RaisedBy(f[2], c)

\* The events and statements, and what a tree says of each.
LEMMA TreeFacts ==
  ASSUME Tree
  PROVE  /\ Null \notin Component /\ Native \subseteq Component /\ Node = Component \cup {Null}
         /\ Event = In \cup Out /\ In \cap Out = {} /\ Statement \cap Event = {}
         /\ \A e \in Event : Provide[e] \in Node /\ Require[e] \in Node /\ Provide[e] # Require[e]
         /\ \A c \in Component : Parent[c] \in Node /\ Rank[c] \in Nat
         /\ \A c \in Component : Parent[c] \in Component => Rank[c] < Rank[Parent[c]]
         /\ \A e \in Event : Provide[e] \in Component => Require[e] = Parent[Provide[e]]
         /\ \A s \in Statement : Owner[s] \in Native
         /\ \A e \in In : Provide[e] = Null =>
              Require[e] \in Native /\ Parent[Require[e]] \in Component
BY FlushAssumption DEF Tree, Node, Event

\* What handlers raise.
LEMMA RaisedFacts ==
  ASSUME Tree, NEW e \in Event \cup Statement, NEW body \in Body[e]
  PROVE  /\ Raise(body) \in Seq(Frames)
         /\ Handler(e) \in Component => \A f \in Elements(Raise(body)) : OwnRaise(f, Handler(e))
         /\ Handler(e) \notin Component => e \in In \/ Raise(body) = << >>
         /\ Handler(e) \notin Component =>
              \A f \in Elements(Raise(body)) : ByWorld(f) /\ Require[f[2]] = Require[e]
<1>1. Raise(body) \in Seq(Frames)
  BY RaiseFacts
<1>2. /\ body \in Seq(Event) /\ Len(body) \in Nat /\ DOMAIN body = 1..Len(body)
      /\ \A i \in 1..Len(body) : body[i] \in Event
  BY FlushAssumption
<1>3. \A i \in 1..Len(body) :
        IF Handler(e) \in Component THEN RaisedBy(body[i], Handler(e))
        ELSE e \in In /\ body[i] \in Out /\ Provide[body[i]] = Null /\ Require[body[i]] = Require[e]
  BY DEF Tree
<1> DEFINE r == Raise(body)
<1>4. DOMAIN r = 1..Len(body) /\ \A i \in 1..Len(body) : r[i] = <<"raise", body[i]>>
  BY <1>2 DEF Raise
<1> HIDE DEF r
<1>5. Len(r) = Len(body)
  BY <1>1, <1>2, <1>4 DEF r
<1>6. \A f \in Elements(r) : \E i \in 1..Len(body) : f[1] = "raise" /\ f[2] = body[i]
  <2> SUFFICES ASSUME NEW f \in Elements(r)
               PROVE  \E i \in 1..Len(body) : f[1] = "raise" /\ f[2] = body[i]
    OBVIOUS
  <2>1. PICK i \in 1..Len(body) : f = <<"raise", body[i]>>
    BY <1>4, <1>5 DEF Elements
  <2> QED  BY <2>1
<1>7. Statement \cap Event = {}
  BY FlushAssumption
<1>8. Handler(e) \in Component => \A f \in Elements(r) : OwnRaise(f, Handler(e))
  BY <1>2, <1>3, <1>6, <1>7 DEF OwnRaise
<1>9. Handler(e) \notin Component =>
        \A f \in Elements(r) : ByWorld(f) /\ Require[f[2]] = Require[e]
  BY <1>3, <1>6, ZenonT(30) DEF ByWorld
<1>10. ASSUME Handler(e) \notin Component, e \notin In
       PROVE  r = << >>
  <2>1. Elements(r) = {}
    BY <1>3, <1>6, <1>10
  <2> QED  BY <1>1, <2>1, EmptyFacts DEF r
<1> QED  BY <1>1, <1>8, <1>9, <1>10 DEF r

\* The events that a component raises, one above the other, above the end of their
\* handler.
LEMMA OwnAbove ==
  ASSUME Tree, NEW d \in BOOLEAN, NEW c \in Component, NEW f, OwnRaise(f, c)
  PROVE  /\ \A g : OwnRaise(g, c) => Above(d, f, g)
         /\ \A g : g[1] \in {"done", "drain"} /\ g[2] = c => Above(d, f, g)
         /\ \A g : g[1] \in {"flush", "leave", "activity", "undefer"} => Above(d, f, g)
<1>1. \A g : OwnRaise(g, c) => Above(d, f, g)
  BY TreeFacts DEF OwnRaise, RaisedBy, Above, ByWorld
<1>2. ASSUME NEW g, g[1] \in {"done", "drain"}, g[2] = c
      PROVE  Above(d, f, g)
  <2>1. Tame(d, f, c) \/ ~ (Parent[c] \in Component \/ d)
    BY TreeFacts DEF OwnRaise, RaisedBy, Tame
  <2>2. Inside(d, f, g)
    BY <1>2, <2>1, TreeFacts DEF OwnRaise, Inside
  <2> QED  BY <1>2, <2>2, TreeFacts DEF OwnRaise, RaisedBy, Above, ByWorld
<1>3. \A g : g[1] \in {"flush", "leave", "activity", "undefer"} => Above(d, f, g)
  BY TreeFacts DEF OwnRaise, RaisedBy, Above, ByWorld
<1> QED  BY <1>1, <1>2, <1>3

LEMMA OwnStacked ==
  ASSUME Tree, NEW d \in BOOLEAN, NEW c \in Component, NEW r \in Seq(Frames), NEW below,
         \A f \in Elements(r) : OwnRaise(f, c) /\ \A g \in below : Above(d, f, g),
         Holds(below, {"done"}, c)
  PROVE  Stacked(d, r, below)
<1>1. ASSUME NEW f \in Elements(r), NEW more \in SUBSET Elements(r)
      PROVE  Rests(d, f, more \cup below)
  <2>1. Supported(f, more \cup below)
    BY TreeFacts DEF OwnRaise, RaisedBy, Supported, Holds
  <2>2. \A g \in more : Above(d, f, g)
    BY OwnAbove
  <2> QED  BY <2>1, <2>2 DEF Rests
<1> QED  BY <1>1, StackedAll

\* done and drain are about nodes.
LEMMA FrameFactsDrain ==
  ASSUME NEW g \in Frames, g[1] \in {"done", "drain"}
  PROVE  g[2] \in Node
BY FrameFacts

-------------------------------------------------------------------------------
(***************************************************************************)
(* The frames that an action pushes may be above what the frame that it    *)
(* pops was above.                                                         *)
(***************************************************************************)

\* Frames that nothing needs to be known about.
LEMMA LowAbove ==
  ASSUME NEW d, NEW f, NEW g, f[1] \notin {"raise", "undefer"},
         g[1] \in {"flush", "leave", "activity", "undefer"}
  PROVE  Above(d, f, g)
BY DEF Above, ByWorld

\* The end of the outermost scope of the activity.
LEMMA ActivityAbove ==
  ASSUME Tree, NEW d, NEW h, NEW g, Above(d, h, g), h[1] \notin {"done"}, NEW f, f[1] = "activity"
  PROVE  Above(d, f, g)
BY DEF Above, ByWorld, Inside, Tame

\* A call of component c, from a handler of its parent or from outside.
LEMMA CallAbove ==
  ASSUME Tree, NEW d \in BOOLEAN, NEW h, h[1] = "raise", h[2] \in In,
         NEW c \in Component, c = Provide[h[2]], NEW g \in Frames, Above(d, h, g),
         NEW f,
         \/ OwnRaise(f, c)
         \/ f[1] \in {"done", "leave"} /\ f[2] = c
         \/ f[1] = "flush" /\ f[2] = c /\ f[3] = TRUE
  PROVE  Above(d, f, g)
<1>1. /\ h[2] \in Event /\ Require[h[2]] # Null /\ Require[h[2]] \in Node
      /\ Require[h[2]] = Parent[c] /\ Parent[c] \in Component
      /\ Rank[c] \in Nat /\ Rank[Parent[c]] \in Nat /\ Rank[c] < Rank[Parent[c]]
  BY TreeFacts DEF Above
<1>2. ~ByWorld(g)
  BY TreeFacts DEF Above, ByWorld
<1>3. ASSUME g[1] \in {"done", "drain"}
      PROVE  Inside(d, f, g)
  <2>1. Inside(d, h, g) /\ g[2] # Null /\ g[2] \in Component
    BY <1>3, FrameFactsDrain, TreeFacts DEF Above, Inside
  <2>2. g[2] # c
    BY <1>1, <2>1, TreeFacts DEF Inside, Tame
  <2>3. CASE Parent[g[2]] \in Component \/ d
    <3>1. Rank[Parent[c]] <= Rank[g[2]] /\ Rank[g[2]] \in Nat
      BY <1>1, <2>1, <2>3, TreeFacts DEF Inside, Tame
    <3>2. Rank[c] < Rank[g[2]]
      BY <1>1, <3>1
    <3>3. Tame(d, f, g[2])
      BY <1>1, <3>1, <3>2, TreeFacts DEF Tame, OwnRaise, RaisedBy
    <3> QED  BY <2>1, <2>2, <3>3 DEF Inside, OwnRaise
  <2>4. CASE ~ (Parent[g[2]] \in Component \/ d)
    BY <2>1, <2>2, <2>4 DEF Inside, OwnRaise
  <2> QED  BY <2>3, <2>4
<1> QED  BY <1>1, <1>2, <1>3, TreeFacts DEF Above, OwnRaise, RaisedBy

\* A call of the world.
LEMMA WorldCallAbove ==
  ASSUME Tree, NEW d \in BOOLEAN, NEW h, h[1] = "raise", h[2] \in In,
         Provide[h[2]] = Null, NEW g \in Frames, Above(d, h, g),
         NEW f,
         \/ ByWorld(f)
         \/ f[1] = "leave" /\ f[2] = Require[h[2]]
         \/ f[1] = "flush" /\ f[2] = Null /\ f[3] = TRUE
  PROVE  Above(d, f, g)
<1>1. /\ h[2] \in Event /\ Require[h[2]] \in Native /\ Require[h[2]] \in Component
      /\ Require[h[2]] \notin Marked /\ Null \notin Component
  BY TreeFacts DEF Marked
<1>2. ~ByWorld(g)
  BY TreeFacts DEF Above, ByWorld
<1>3. ASSUME g[1] \in {"done", "drain"}
      PROVE  Inside(d, f, g)
  <2>1. Inside(d, h, g) /\ g[2] # Null /\ g[2] \in Component
    BY <1>3, FrameFactsDrain, TreeFacts DEF Above, Inside
  <2>2. Tame(d, f, g[2])
    BY <1>1, TreeFacts DEF Tame, ByWorld
  <2> QED  BY <1>1, <2>1, <2>2 DEF Inside, ByWorld
<1> QED  BY <1>1, <1>2, <1>3, TreeFacts DEF Above, ByWorld

\* flush begins.
LEMMA DrainAbove ==
  ASSUME NEW d, NEW h, h[1] = "flush", NEW g, Above(d, h, g), NEW f, f[1] = "drain",
         f[2] = h[2], f[3] = h[3]
  PROVE  Above(d, f, g)
BY DEF Above, ByWorld, Inside, Tame

\* The handler of an event that was in the queue.
LEMMA TakeAbove ==
  ASSUME Tree, NEW d \in BOOLEAN, NEW h, h[1] = "drain", NEW n \in Node, h[2] = n,
         NEW g \in Frames, Above(d, h, g), NEW f,
         \/ n # Null /\ OwnRaise(f, n)
         \/ f[1] = "done" /\ f[2] = n
  PROVE  Above(d, f, g)
<1>1. ~ByWorld(g)
  BY DEF Above, ByWorld
<1>2. ASSUME g[1] \in {"done", "drain"}
      PROVE  Inside(d, f, g)
  <2>1. Inside(d, h, g) /\ g[2] # Null /\ g[2] \in Component /\ g[2] # n
    BY <1>2, FrameFactsDrain, TreeFacts DEF Above, Inside
  <2>2. CASE Parent[g[2]] \in Component \/ d
    <3>1. n # Null => /\ n \in Component /\ Parent[n] \in Component
                      /\ Rank[n] \in Nat /\ Rank[n] < Rank[g[2]] /\ Rank[g[2]] \in Nat
      BY <2>1, <2>2, TreeFacts DEF Inside, Tame
    <3>2. Tame(d, f, g[2])
      BY <3>1, TreeFacts DEF Tame, OwnRaise, RaisedBy
    <3> QED  BY <2>1, <3>2 DEF Inside, OwnRaise
  <2>3. CASE ~ (Parent[g[2]] \in Component \/ d)
    BY <2>1, <2>3 DEF Inside, OwnRaise
  <2> QED  BY <2>2, <2>3
<1>3. n # Null => n \in Component
  BY TreeFacts
<1> QED  BY <1>1, <1>2, <1>3, TreeFacts DEF Above, OwnRaise, RaisedBy

-------------------------------------------------------------------------------
(***************************************************************************)
(* The handlers that execute.                                              *)
(***************************************************************************)

\* The nodes whose handlers end in s.
Ends(s) == LET ends == Keep(s, {"done"} \X Node) IN [i \in DOMAIN ends |-> ends[i][2]]

NoneEnds(s) == \A f \in Elements(s) : f[1] # "done"

\* The ends of handlers in a list of frames.
LEMMA KeptEnds ==
  ASSUME NEW s \in Seq(Frames)
  PROVE  /\ Keep(s, {"done"} \X Node) \in Seq({"done"} \X Node)
         /\ Elements(Keep(s, {"done"} \X Node)) = {f \in Elements(s) : f[1] = "done"}
<1> DEFINE D == {"done"} \X Node
           k == Keep(s, D)
<1>1. k \in Seq(Frames) /\ Elements(k) = Elements(s) \cap D
  BY KeepFacts
<1>2. \A f \in Frames : f \in D <=> f[1] = "done"
  BY DEF Frames
<1>3. Elements(s) \subseteq Frames
  BY EmptyFacts
<1> HIDE DEF D, k
<1>4. Elements(k) = {f \in Elements(s) : f[1] = "done"}
  BY <1>1, <1>2, <1>3
<1>5. k \in Seq(D)
  <2>1. Len(k) \in Nat /\ DOMAIN k = 1..Len(k) /\ k \in [1..Len(k) -> Frames]
    BY <1>1
  <2>2. \A i \in 1..Len(k) : k[i] \in D
    BY <1>1 DEF Elements
  <2>3. k \in [1..Len(k) -> D]
    BY <2>1, <2>2
  <2> QED  BY <2>1, <2>3
<1> QED  BY <1>4, <1>5 DEF D, k

LEMMA EndsFacts ==
  ASSUME NEW s \in Seq(Frames)
  PROVE  /\ Ends(s) \in Seq(Node)
         /\ \A n : n \in Elements(Ends(s)) => Holds(Elements(s), {"done"}, n)
         /\ NoneEnds(s) => Ends(s) = << >>
<1> DEFINE k == Keep(s, {"done"} \X Node)
           e == [i \in 1..Len(k) |-> k[i][2]]
<1>1. /\ k \in Seq({"done"} \X Node)
      /\ Elements(k) = {f \in Elements(s) : f[1] = "done"}
  BY KeptEnds
<1> HIDE DEF k
<1>2. /\ Len(k) \in Nat /\ DOMAIN k = 1..Len(k)
      /\ \A i \in 1..Len(k) : k[i] \in {"done"} \X Node /\ k[i] \in Elements(k)
  BY <1>1 DEF Elements
<1>3. Ends(s) = e
  BY <1>2 DEF Ends, k
<1>4. \A i \in 1..Len(k) : k[i][2] \in Node
  BY <1>2
<1>5. e \in [1..Len(k) -> Node]
  BY <1>4
<1>6. e \in Seq(Node) /\ Len(e) = Len(k) /\ \A i \in 1..Len(k) : e[i] = k[i][2]
  BY <1>2, <1>5
<1> HIDE DEF e
<1>7. \A n : n \in Elements(e) => Holds(Elements(s), {"done"}, n)
  <2> SUFFICES ASSUME NEW n \in Elements(e)
               PROVE  Holds(Elements(s), {"done"}, n)
    OBVIOUS
  <2>1. PICK i \in 1..Len(k) : n = k[i][2]
    BY <1>6 DEF Elements
  <2>2. k[i] \in Elements(s) /\ k[i][1] = "done"
    BY <1>1, <1>2
  <2> QED  BY <2>1, <2>2 DEF Holds
<1>8. ASSUME NoneEnds(s)
      PROVE  e = << >>
  <2>1. Elements(e) = {}
    BY <1>7, <1>8 DEF NoneEnds, Holds
  <2> QED  BY <1>6, <2>1, EmptyFacts
<1> QED  BY <1>3, <1>6, <1>7, <1>8

\* One list of frames on top of another.
LEMMA Joined ==
  \A p, q \in Seq(Frames) :
    \E s \in Seq(Frames) : s = p \o q /\ Elements(s) = Elements(p) \cup Elements(q)
BY ConcatFacts, ZenonT(30)

LEMMA EndsConcat ==
  \A p, q \in Seq(Frames) :
    \E e \in Seq(Node) : e = Ends(p \o q) /\ e = Ends(p) \o Ends(q)
<1> SUFFICES ASSUME NEW p \in Seq(Frames), NEW q \in Seq(Frames)
             PROVE  \E e \in Seq(Node) : e = Ends(p \o q) /\ e = Ends(p) \o Ends(q)
  OBVIOUS
<1> DEFINE D == {"done"} \X Node
<1> HIDE DEF D
<1>1. PICK k \in Seq(D) : k = Keep(p, D)
  BY KeptEnds DEF D
<1>2. PICK l \in Seq(D) : l = Keep(q, D)
  BY KeptEnds DEF D
<1>3. PICK m \in Seq(D) : m = Keep(p \o q, D)
  <2>1. PICK s \in Seq(Frames) : s = p \o q
    BY Joined
  <2>2. Keep(s, D) \in Seq(D)
    BY KeptEnds DEF D
  <2> QED  BY <2>1, <2>2
<1>4. m = k \o l
  <2>1. PICK y : y = Keep(p \o q, D) /\ y = Keep(p, D) \o Keep(q, D)
    BY KeepConcat
  <2> QED  BY <1>1, <1>2, <1>3, <2>1
<1>5. /\ Len(k) \in Nat /\ Len(l) \in Nat /\ Len(m) = Len(k) + Len(l)
      /\ DOMAIN k = 1..Len(k) /\ DOMAIN l = 1..Len(l) /\ DOMAIN m = 1..Len(m)
      /\ \A i \in 1..Len(k) : m[i] = k[i]
      /\ \A i \in 1..Len(l) : m[Len(k) + i] = l[i]
  <2>1. /\ Len(k \o l) = Len(k) + Len(l)
        /\ \A i \in 1..Len(k) : (k \o l)[i] = k[i]
        /\ \A i \in 1..Len(l) : (k \o l)[Len(k) + i] = l[i]
    <3>1. k \in Seq(D) /\ l \in Seq(D)
      OBVIOUS
    <3> QED  BY ONLY <3>1, ConcatFacts
  <2> QED  BY <1>4, <2>1
<1>6. PICK a \in Seq(Node) : a = Ends(p) /\ a = [i \in 1..Len(k) |-> k[i][2]]
  BY <1>1, <1>5, EndsFacts DEF Ends, D
<1>7. PICK b \in Seq(Node) : b = Ends(q) /\ b = [i \in 1..Len(l) |-> l[i][2]]
  BY <1>2, <1>5, EndsFacts DEF Ends, D
<1>8. PICK e \in Seq(Node) : e = Ends(p \o q) /\ e = [i \in 1..Len(m) |-> m[i][2]]
  <2>1. PICK s \in Seq(Frames) : s = p \o q
    BY Joined
  <2>2. Ends(s) \in Seq(Node)
    BY EndsFacts
  <2> QED  BY <1>3, <1>5, <2>1, <2>2 DEF Ends, D
<1>9. /\ Len(a) = Len(k) /\ Len(b) = Len(l) /\ Len(e) = Len(a) + Len(b)
      /\ Len(a) \in Nat /\ Len(b) \in Nat
      /\ \A i \in 1..Len(a) : e[i] = a[i]
      /\ \A i \in 1..Len(b) : e[Len(a) + i] = b[i]
  <2>1. Len(a) = Len(k) /\ Len(b) = Len(l) /\ Len(e) = Len(m)
    BY <1>5, <1>6, <1>7, <1>8
  <2>2. \A i \in 1..Len(k) : i \in 1..Len(m) /\ e[i] = a[i]
    BY <1>5, <1>6, <1>8
  <2>3. \A i \in 1..Len(l) : Len(k) + i \in 1..Len(m)
    BY <1>5
  <2>4. \A i \in 1..Len(l) : e[Len(k) + i] = b[i]
    BY <1>5, <1>7, <1>8, <2>3
  <2> QED  BY <1>5, <2>1, <2>2, <2>4
<1>10. e = a \o b
  <2>1. PICK c \in Seq(Node) : c = a \o b
    BY ConcatFacts
  <2>2. /\ Len(c) = Len(a) + Len(b)
        /\ \A i \in 1..Len(a) : c[i] = a[i]
        /\ \A i \in 1..Len(b) : c[Len(a) + i] = b[i]
    <3>1. /\ Len(a \o b) = Len(a) + Len(b)
          /\ \A i \in 1..Len(a) : (a \o b)[i] = a[i]
          /\ \A i \in 1..Len(b) : (a \o b)[Len(a) + i] = b[i]
      BY ConcatFacts
    <3> QED  BY <2>1, <3>1
  <2>3. ASSUME NEW i \in 1..Len(e)
        PROVE  e[i] = c[i]
    <3>1. CASE i <= Len(a)
      BY <1>9, <2>2, <3>1
    <3>2. CASE i > Len(a)
      <4>1. i - Len(a) \in 1..Len(b)
        <5>1. Len(e) = Len(a) + Len(b) /\ Len(a) \in Nat /\ Len(b) \in Nat
          BY <1>9
        <5> QED  BY <3>2, <5>1
      <4>2. PICK j \in 1..Len(b) : j = i - Len(a)
        BY <4>1
      <4>3. i = Len(a) + j
        BY <1>9, <4>2
      <4> QED  BY <1>9, <2>2, <4>3
    <3> QED  BY <1>9, <3>1, <3>2
  <2>4. e = c
    BY <1>9, <2>2, <2>3
  <2> QED  BY <2>1, <2>4
<1> QED  BY <1>6, <1>7, <1>8, <1>10

\* Frames that end no handler may be left out.
LEMMA EndsSkip ==
  \A p, q \in Seq(Frames) : /\ NoneEnds(p) => Ends(p \o q) = Ends(q)
                            /\ NoneEnds(q) => Ends(p \o q) = Ends(p)
<1> SUFFICES ASSUME NEW p \in Seq(Frames), NEW q \in Seq(Frames)
             PROVE  /\ NoneEnds(p) => Ends(p \o q) = Ends(q)
                    /\ NoneEnds(q) => Ends(p \o q) = Ends(p)
  OBVIOUS
<1>1. PICK a \in Seq(Node) : a = Ends(p) /\ (NoneEnds(p) => a = << >>)
  BY EndsFacts
<1>2. PICK b \in Seq(Node) : b = Ends(q) /\ (NoneEnds(q) => b = << >>)
  BY EndsFacts
<1>3. PICK e \in Seq(Node) : e = Ends(p \o q) /\ e = Ends(p) \o Ends(q)
  BY EndsConcat
<1>4. e = a \o b
  BY <1>1, <1>2, <1>3
<1>5. << >> \o b = b /\ a \o << >> = a
  OBVIOUS
<1> QED  BY <1>1, <1>2, <1>3, <1>4, <1>5

\* The end of one handler.
LEMMA EndsOne ==
  \A f \in Frames : f[1] = "done" => Ends(<<f>>) = <<f[2]>>
<1> SUFFICES ASSUME NEW f \in Frames, f[1] = "done"
             PROVE  Ends(<<f>>) = <<f[2]>>
  OBVIOUS
<1>1. f \in {"done"} \X Node
  BY DEF Frames
<1>2. Keep(<<f>>, {"done"} \X Node) = <<f>>
  BY <1>1, KeepShort
<1>3. Ends(<<f>>) = [i \in DOMAIN <<f>> |-> <<f>>[i][2]]
  BY <1>2 DEF Ends
<1> QED  BY <1>3

-------------------------------------------------------------------------------
(***************************************************************************)
(* Every action keeps the invariant: the stack.                            *)
(***************************************************************************)

LEMMA TopFacts ==
  ASSUME RunInv, todo # << >>
  PROVE  /\ todo \in Seq(Frames) /\ Head(todo) \in Frames /\ Tail(todo) \in Seq(Frames)
         /\ Elements(todo) = {Head(todo)} \cup Elements(Tail(todo))
         /\ Elements(Tail(todo)) \subseteq Frames
         /\ Stacked(defer, Tail(todo), {})
         /\ Rests(defer, Head(todo), Elements(Tail(todo)))
         /\ defer \in BOOLEAN
<1>1. todo \in Seq(Frames) /\ defer \in BOOLEAN /\ Stacked(defer, todo, {})
  BY DEF RunInv, IInv, TypeOK, StackInv
<1>2. /\ Head(todo) \in Frames /\ Tail(todo) \in Seq(Frames)
      /\ Elements(todo) = {Head(todo)} \cup Elements(Tail(todo))
  BY <1>1, TailFacts
<1>3. Elements(Tail(todo)) \subseteq Frames
  BY <1>2, EmptyFacts
<1>4. Stacked(defer, Tail(todo), {}) /\ Rests(defer, Head(todo), Elements(Tail(todo)))
  BY <1>1, StackedTail
<1> QED  BY <1>1, <1>2, <1>3, <1>4

\* Frames are put on others.
LEMMA Pushed ==
  ASSUME NEW d, NEW fs \in Seq(Frames), NEW t \in Seq(Frames), Stacked(d, t, {}),
         Stacked(d, fs, Elements(t))
  PROVE  Stacked(d, fs \o t, {}) /\ Elements(fs \o t) = Elements(fs) \cup Elements(t)
<1>1. Elements(t) \cup {} = Elements(t)
  OBVIOUS
<1>2. Stacked(d, fs, Elements(t) \cup {})
  BY <1>1
<1>3. Stacked(d, fs \o t, {})
  BY <1>2, StackedConcat
<1> QED  BY <1>3, ConcatFacts

\* The frame on top is replaced.
LEMMA Replaced ==
  ASSUME RunInv, todo # << >>, defer' = defer, NEW fs \in Seq(Frames), todo' = fs \o Tail(todo),
         Stacked(defer, fs, Elements(Tail(todo)))
  PROVE  StackInv' /\ Elements(todo') = Elements(fs) \cup Elements(Tail(todo))
<1>1. Tail(todo) \in Seq(Frames) /\ Stacked(defer, Tail(todo), {})
  BY TopFacts
<1>2. /\ Stacked(defer, fs \o Tail(todo), {})
      /\ Elements(fs \o Tail(todo)) = Elements(fs) \cup Elements(Tail(todo))
  <2>1. PICK t \in Seq(Frames) : t = Tail(todo)
    BY <1>1
  <2>2. Stacked(defer, t, {}) /\ Stacked(defer, fs, Elements(t))
    BY <1>1, <2>1
  <2>3. Stacked(defer, fs \o t, {}) /\ Elements(fs \o t) = Elements(fs) \cup Elements(t)
    BY <2>2, Pushed
  <2> QED  BY <2>1, <2>3
<1> QED  BY <1>2 DEF StackInv

\* The frame on top is removed.
LEMMA Popped ==
  ASSUME RunInv, todo # << >>, defer' = defer, todo' = << >> \o Tail(todo)
  PROVE  StackInv' /\ Elements(todo') = Elements(Tail(todo)) /\ todo' = Tail(todo)
<1>1. << >> \in Seq(Frames) /\ Elements(<< >>) = {}
  BY EmptyFacts
<1>2. PICK fs \in Seq(Frames) : fs = << >> /\ Elements(fs) = {}
  BY <1>1
<1>3. Stacked(defer, fs, Elements(Tail(todo)))
  BY <1>2, StackedShort
<1>4. StackInv' /\ Elements(todo') = Elements(fs) \cup Elements(Tail(todo))
  BY <1>2, <1>3, Replaced
<1>5. Tail(todo) \in Seq(Frames)
  BY TopFacts
<1> QED  BY <1>2, <1>4, <1>5

\* The frame that resets the activity can be put on anything.
LEMMA LeaveStacked ==
  ASSUME Tree, NEW d, NEW h, h[1] # "done", NEW below, \A g \in below : Above(d, h, g)
  PROVE  /\ LeaveActivity \in Seq(Frames)
         /\ Stacked(d, LeaveActivity, below)
         /\ \A f \in Elements(LeaveActivity) : f[1] = "activity"
<1>1. PICK a \in Frames : a = <<"activity", 0>> /\ a[1] = "activity"
  BY MakeFrames
<1>2. Supported(a, below)
  BY <1>1 DEF Supported
<1>3. \A g \in below : Above(d, a, g)
  BY <1>1, ActivityAbove
<1>4. Stacked(d, <<a>>, below) /\ Stacked(d, << >>, below)
  BY <1>2, <1>3, StackedShort DEF Rests
<1>5. LeaveActivity = <<a>> \/ LeaveActivity = << >>
  BY <1>1 DEF LeaveActivity
<1>6. /\ << >> \in Seq(Frames) /\ Elements(<< >>) = {}
      /\ <<a>> \in Seq(Frames) /\ Elements(<<a>>) = {a}
  BY FrameLists
<1> QED  BY <1>1, <1>4, <1>5, <1>6

\* A call of a component.
LEMMA CallStacked ==
  ASSUME Tree, RunInv, InEvent, NEW c \in Component, c = Provide[Arg]
  PROVE  \E fs \in Seq(Frames) :
           /\ todo' = fs \o Tail(todo)
           /\ Stacked(defer, fs, Elements(Tail(todo)))
           /\ Holds(Elements(fs), {"flush", "drain"}, c)
           /\ Ends(fs) = <<c>> /\ ~Holds(Elements(Tail(todo)), {"done"}, c)
           /\ \A f \in Elements(fs) :
                ~ByWorld(f) /\ (f[1] \in {"done", "drain"} => f[2] = c)
<1> DEFINE h == Head(todo)
           below == Elements(Tail(todo))
<1>1. /\ todo # << >> /\ h[1] = "raise" /\ h[2] = Arg /\ Arg \in In /\ Arg \in Event
      /\ c # Null /\ Comp(Arg) = c /\ c \in Node
  BY DoingFacts, TreeFacts DEF InEvent, RunInv, IInv, Comp
<1>2. h \in Frames /\ Rests(defer, h, below) /\ below \subseteq Frames /\ defer \in BOOLEAN
  BY <1>1, TopFacts
<1>3. Parent[c] # Null => Holds(below, {"done"}, Parent[c])
  BY <1>1, <1>2, TreeFacts DEF Rests, Supported
<1>4. \A g \in below : Above(defer, h, g)
  BY <1>2 DEF Rests
<1>5. PICK body \in Body[Arg] :
        Do(Raise(body) \o <<<<"done", c>>>> \o <<<<"flush", c, TRUE>>>> \o LeaveActivity
           \o <<<<"leave", c>>>>)
  BY <1>1 DEF InEvent
<1>6. Handler(Arg) = c
  BY <1>1 DEF Handler
<1>7. PICK r \in Seq(Frames) : r = Raise(body) /\ \A f \in Elements(r) : OwnRaise(f, c)
  BY <1>1, <1>6, RaisedFacts
<1>8. PICK fd \in Frames, ff \in Frames, fv \in Frames :
        fd = <<"done", c>> /\ ff = <<"flush", c, TRUE>> /\ fv = <<"leave", c>>
  BY <1>1, MakeFrames
<1>9. /\ fd[1] = "done" /\ fd[2] = c /\ ff[1] = "flush" /\ ff[2] = c /\ ff[3] = TRUE
      /\ fv[1] = "leave" /\ fv[2] = c
  BY <1>8
<1>10. PICK d \in Seq(Frames), u \in Seq(Frames), v \in Seq(Frames) :
         /\ d = <<fd>> /\ u = <<ff>> /\ v = <<fv>>
         /\ Elements(d) = {fd} /\ Elements(u) = {ff} /\ Elements(v) = {fv}
  <2>1. PICK d \in Seq(Frames) : d = <<fd>> /\ Elements(d) = {fd}
    BY FrameLists
  <2>2. PICK u \in Seq(Frames) : u = <<ff>> /\ Elements(u) = {ff}
    BY FrameLists
  <2>3. PICK v \in Seq(Frames) : v = <<fv>> /\ Elements(v) = {fv}
    BY FrameLists
  <2> QED  BY <2>1, <2>2, <2>3
<1>11. Elements(d) = {fd} /\ Elements(u) = {ff} /\ Elements(v) = {fv}
  BY <1>10
<1> HIDE DEF h, below
<1>12. \A g \in below : /\ Above(defer, fd, g) /\ Above(defer, ff, g) /\ Above(defer, fv, g)
                        /\ \A f \in Elements(r) : Above(defer, f, g)
  BY <1>1, <1>2, <1>4, <1>7, <1>9, CallAbove
<1>13. Stacked(defer, v, below)
  <2>1. Rests(defer, fv, below)
    BY <1>9, <1>12 DEF Rests, Supported
  <2> QED  BY <1>10, <2>1, StackedShort
<1>14. PICK l \in Seq(Frames) :
         /\ l = LeaveActivity /\ Stacked(defer, l, {fv} \cup below)
         /\ \A f \in Elements(l) : f[1] = "activity"
  <2>1. \A g \in {fv} \cup below : Above(defer, fv, g)
    BY <1>9, <1>12, LowAbove
  <2> QED  BY <1>9, <2>1, LeaveStacked
<1>15. Stacked(defer, u, Elements(l) \cup ({fv} \cup below))
  <2>1. Supported(ff, Elements(l) \cup ({fv} \cup below))
    BY <1>3, <1>9 DEF Supported, Holds
  <2>2. \A g \in Elements(l) \cup ({fv} \cup below) : Above(defer, ff, g)
    BY <1>9, <1>12, <1>14, LowAbove
  <2> QED  BY <1>10, <2>1, <2>2, StackedShort DEF Rests
<1>16. Stacked(defer, d, {ff} \cup (Elements(l) \cup ({fv} \cup below)))
  <2>1. Supported(fd, {ff} \cup (Elements(l) \cup ({fv} \cup below)))
    BY <1>9 DEF Supported, Holds
  <2>2. \A g \in {ff} \cup (Elements(l) \cup ({fv} \cup below)) : Above(defer, fd, g)
    BY <1>9, <1>12, <1>14, LowAbove
  <2> QED  BY <1>10, <2>1, <2>2, StackedShort DEF Rests
<1>17. Stacked(defer, r, {fd} \cup ({ff} \cup (Elements(l) \cup ({fv} \cup below))))
  <2> DEFINE rest == {fd} \cup ({ff} \cup (Elements(l) \cup ({fv} \cup below)))
  <2>1. Holds(rest, {"done"}, c)
    BY <1>9 DEF Holds
  <2>2. \A f \in Elements(r) : \A g \in rest : Above(defer, f, g)
    <3>1. ASSUME NEW f \in Elements(r), NEW g \in Elements(l) \cup {fd, ff, fv}
          PROVE  Above(defer, f, g)
      <4>1. OwnRaise(f, c)
        BY <1>7
      <4>2. \/ g[1] \in {"flush", "leave", "activity", "undefer"}
            \/ g[1] \in {"done", "drain"} /\ g[2] = c
        BY <1>9, <1>14
      <4> QED  BY <1>2, <4>1, <4>2, OwnAbove
    <3> QED  BY <1>12, <3>1
  <2> HIDE DEF rest
  <2>3. Stacked(defer, r, rest)
    BY <1>2, <1>7, <2>1, <2>2, OwnStacked
  <2> QED  BY <2>3 DEF rest
<1>18. /\ r \o d \in Seq(Frames) /\ r \o d \o u \in Seq(Frames) /\ r \o d \o u \o l \in Seq(Frames)
       /\ r \o d \o u \o l \o v \in Seq(Frames)
       /\ Elements(r \o d \o u \o l \o v) = Elements(r) \cup {fd} \cup {ff} \cup Elements(l) \cup {fv}
  <2>1. PICK a \in Seq(Frames) : a = r \o d /\ Elements(a) = Elements(r) \cup Elements(d)
    BY Joined
  <2>2. PICK b \in Seq(Frames) : b = a \o u /\ Elements(b) = Elements(a) \cup Elements(u)
    BY Joined
  <2>3. PICK e \in Seq(Frames) : e = b \o l /\ Elements(e) = Elements(b) \cup Elements(l)
    BY Joined
  <2>4. PICK w \in Seq(Frames) : w = e \o v /\ Elements(w) = Elements(e) \cup Elements(v)
    BY Joined
  <2> QED  BY <1>11, <2>1, <2>2, <2>3, <2>4
<1>19. Stacked(defer, r \o d \o u \o l \o v, below)
  <2>1. Stacked(defer, r \o d, {ff} \cup (Elements(l) \cup ({fv} \cup below)))
    BY <1>10, <1>16, <1>17, StackedConcat
  <2>2. Stacked(defer, r \o d \o u, Elements(l) \cup ({fv} \cup below))
    BY <1>10, <1>15, <1>18, <2>1, StackedConcat
  <2>3. Stacked(defer, r \o d \o u \o l, {fv} \cup below)
    BY <1>14, <1>18, <2>2, StackedConcat
  <2> QED  BY <1>10, <1>13, <1>18, <2>3, StackedConcat
<1>20. todo' = r \o d \o u \o l \o v \o Tail(todo)
  BY <1>5, <1>7, <1>8, <1>10, <1>14 DEF Do
<1>21. \A f \in Elements(r) : f[1] = "raise" /\ ~ByWorld(f)
  BY <1>1, <1>7, TreeFacts DEF OwnRaise, RaisedBy, ByWorld
<1>22. PICK fs \in Seq(Frames) :
         /\ fs = r \o d \o u \o l \o v
         /\ Elements(fs) = Elements(r) \cup {fd} \cup {ff} \cup Elements(l) \cup {fv}
  BY <1>18
<1>23. Holds(Elements(fs), {"flush", "drain"}, c)
  BY <1>9, <1>22 DEF Holds
<1>24. \A f \in Elements(fs) : ~ByWorld(f) /\ (f[1] \in {"done", "drain"} => f[2] = c)
  BY <1>9, <1>14, <1>21, <1>22 DEF ByWorld
<1>25. ~Holds(below, {"done"}, c)
  BY <1>9, <1>12 DEF Holds, Above, Inside
<1>26. Ends(fs) = <<c>>
  <2>1. NoneEnds(r) /\ NoneEnds(u) /\ NoneEnds(l) /\ NoneEnds(v)
    BY <1>9, <1>11, <1>14, <1>21 DEF NoneEnds
  <2>2. Ends(d) = <<c>>
    BY <1>9, <1>10, EndsOne
  <2>3. PICK a \in Seq(Frames) : a = r \o d
    BY Joined
  <2>4. PICK b \in Seq(Frames) : b = a \o u
    BY Joined
  <2>5. PICK e \in Seq(Frames) : e = b \o l
    BY Joined
  <2>6. Ends(a) = <<c>>
    BY <2>1, <2>2, <2>3, EndsSkip
  <2>7. Ends(b) = <<c>>
    BY <2>1, <2>4, <2>6, EndsSkip
  <2>8. Ends(e) = <<c>>
    BY <2>1, <2>5, <2>7, EndsSkip
  <2>9. fs = e \o v
    BY <1>22, <2>3, <2>4, <2>5
  <2> QED  BY <2>1, <2>8, <2>9, EndsSkip
<1> QED  BY <1>19, <1>20, <1>22, <1>23, <1>24, <1>25, <1>26 DEF below

-------------------------------------------------------------------------------
(***************************************************************************)
(* Every action keeps the invariant.                                       *)
(***************************************************************************)

\* A frame that is not a flush goes: what is going to be flushed still is.
LEMMA Kept ==
  ASSUME RunInv, todo # << >>, Head(todo)[1] \notin {"flush", "drain"},
         Elements(Tail(todo)) \subseteq Elements(todo')
  PROVE  /\ \A n : Holds(Elements(todo), {"flush", "drain"}, n) =>
                     Holds(Elements(todo'), {"flush", "drain"}, n)
         /\ \A p : FlushesOn(p) => FlushesOn(p)'
         /\ queue' = queue /\ deferred' = deferred => QueueInv' /\ TargetInv'
<1>1. Elements(todo) = {Head(todo)} \cup Elements(Tail(todo))
  BY TopFacts
<1>2. \A n : Holds(Elements(todo), {"flush", "drain"}, n) =>
               Holds(Elements(todo'), {"flush", "drain"}, n)
  BY <1>1 DEF Holds
<1>3. \A p : FlushesOn(p) => FlushesOn(p)'
  BY <1>1 DEF FlushesOn
<1>4. ASSUME queue' = queue, deferred' = deferred
      PROVE  QueueInv' /\ TargetInv'
  BY <1>2, <1>3, <1>4 DEF RunInv, QueueInv, TargetInv
<1> QED  BY <1>2, <1>3, <1>4

\* Only the world's own events and the end of an activity are above an event that the
\* world raises.
LEMMA AboveWorld ==
  ASSUME RunInv, todo # << >>, NEW f \in Elements(Tail(todo)), ByWorld(f)
  PROVE  /\ Head(todo)[1] = "activity" \/ ByWorld(Head(todo))
         /\ handling[Require[f[2]]]
<1>1. Above(defer, Head(todo), f) /\ f \in Elements(todo)
  BY TopFacts DEF Rests
<1>2. Tail(todo) # << >>
  BY EmptyFacts
<1> QED  BY <1>1, <1>2 DEF Above, RunInv, WorldInv

\* A frame goes that neither resets a mark nor ends a flush.
LEMMA PoppedRun ==
  ASSUME RunInv, IInv', todo # << >>, Head(todo)[1] \in {"done", "activity"},
         todo' = << >> \o Tail(todo), UNCHANGED <<handling, queue, deferred, defer>>
  PROVE  RunInv'
<1>1. StackInv' /\ Elements(todo') = Elements(Tail(todo)) /\ todo' = Tail(todo)
  BY Popped
<1>2. /\ \A n : Holds(Elements(todo), {"flush", "drain"}, n) =>
                  Holds(Elements(todo'), {"flush", "drain"}, n)
      /\ QueueInv' /\ TargetInv'
  BY <1>1, Kept
<1>3. FlushInv'
  BY <1>2 DEF RunInv, FlushInv
<1>4. Elements(todo') \subseteq Elements(todo)
  BY <1>1, TopFacts
<1>5. MarkInv'
  BY <1>4 DEF RunInv, MarkInv, Holds
<1>6. WorldInv'
  BY <1>1, AboveWorld DEF WorldInv
<1> QED  BY <1>1, <1>2, <1>3, <1>5, <1>6 DEF RunInv

LEMMA DoneRun ==
  ASSUME Tree, RunInv, Done
  PROVE  RunInv'
<1>1. IInv'
  BY DoneStep DEF RunInv
<1>2. todo # << >> /\ Head(todo)[1] = "done" /\ todo' = << >> \o Tail(todo)
  BY DEF Done, Doing, Do
<1> QED  BY <1>1, <1>2, PoppedRun DEF Done

LEMMA ResetActivityRun ==
  ASSUME Tree, RunInv, ResetActivity
  PROVE  RunInv'
<1>1. IInv'
  BY ResetActivityStep DEF RunInv
<1>2. todo # << >> /\ Head(todo)[1] = "activity" /\ todo' = << >> \o Tail(todo)
  BY DEF ResetActivity, Doing, Do
<1> QED  BY <1>1, <1>2, PoppedRun DEF ResetActivity

\* ~scoped_handling: no handler of a component in Marked is left whose mark it clears.
LEMMA LeaveRun ==
  ASSUME Tree, RunInv, Leave
  PROVE  RunInv'
<1>1. IInv'
  BY LeaveStep DEF RunInv
<1>2. /\ todo # << >> /\ Head(todo)[1] = "leave" /\ todo' = << >> \o Tail(todo)
      /\ Arg = Head(todo)[2] /\ handling' = [handling EXCEPT ![Arg] = FALSE]
      /\ queue' = queue /\ deferred' = deferred /\ defer' = defer
      /\ handling \in [Node -> BOOLEAN] /\ Arg \in Node
  BY DoingFacts DEF Leave, Doing, Do, RunInv, IInv, TypeOK
<1>3. StackInv' /\ Elements(todo') = Elements(Tail(todo)) /\ todo' = Tail(todo)
  BY <1>2, Popped
<1>4. /\ \A n : Holds(Elements(todo), {"flush", "drain"}, n) =>
                  Holds(Elements(todo'), {"flush", "drain"}, n)
      /\ QueueInv' /\ TargetInv'
  BY <1>2, <1>3, Kept
<1>5. FlushInv'
  BY <1>2, <1>4 DEF RunInv, FlushInv, Node
<1>6. Elements(todo') \subseteq Elements(todo)
  BY <1>2, <1>3, TopFacts
<1>7. ASSUME NEW c \in Marked, Holds(Elements(todo'), {"done", "drain"}, c)
      PROVE  handling'[c] \/ (defer' /\ c \in Native)
  <2>1. PICK g \in Elements(Tail(todo)) : g[1] \in {"done", "drain"} /\ g[2] = c
    BY <1>3, <1>7 DEF Holds
  <2>2. Above(defer, Head(todo), g)
    BY <1>2, <2>1, TopFacts DEF Rests
  <2>3. c # Arg
    BY <1>2, <2>1, <2>2 DEF Above, Inside
  <2>4. handling[c] \/ (defer /\ c \in Native)
    BY <1>6, <1>7 DEF RunInv, MarkInv, Holds
  <2>5. c \in Node
    BY DEF Marked, Node
  <2> QED  BY <1>2, <2>3, <2>4, <2>5
<1>8. WorldInv'
  BY <1>2, <1>3, AboveWorld DEF WorldInv, ByWorld
<1> QED  BY <1>1, <1>3, <1>4, <1>5, <1>7, <1>8 DEF RunInv, MarkInv

\* The end of a deferred statement: no handler executes.
LEMMA UndeferRun ==
  ASSUME Tree, RunInv, Undefer
  PROVE  RunInv'
<1>1. IInv'
  BY UndeferStep DEF RunInv
<1>2. /\ todo # << >> /\ Head(todo)[1] = "undefer" /\ todo' = << >> \o Tail(todo)
      /\ queue' = queue /\ deferred' = deferred /\ handling' = handling /\ defer' = FALSE
  BY DEF Undefer, Doing, Do
<1>3. /\ Tail(todo) \in Seq(Frames)
      /\ \A g \in Elements(Tail(todo)) : g[1] = "activity"
  BY <1>2, TopFacts DEF Rests, Above
<1>4. todo' = Tail(todo)
  BY <1>2, <1>3
<1>5. Stacked(FALSE, Tail(todo), {})
  <2>1. PICK t \in Seq(Frames) : t = Tail(todo)
    BY <1>3
  <2>2. ASSUME NEW f \in Elements(t), NEW more \in SUBSET Elements(t)
        PROVE  Rests(FALSE, f, more \cup {})
    <3>1. f[1] = "activity" /\ \A g \in more \cup {} : g[1] = "activity"
      BY <1>3, <2>1
    <3>2. Supported(f, more \cup {})
      BY <3>1 DEF Supported
    <3>3. \A g \in more \cup {} : Above(FALSE, f, g)
      BY <3>1, LowAbove
    <3> QED  BY <3>2, <3>3 DEF Rests
  <2>3. Stacked(FALSE, t, {})
    BY <2>2, StackedAll
  <2> QED  BY <2>1, <2>3
<1>6. StackInv'
  BY <1>2, <1>4, <1>5 DEF StackInv
<1>7. /\ \A n : Holds(Elements(todo), {"flush", "drain"}, n) =>
                  Holds(Elements(todo'), {"flush", "drain"}, n)
      /\ QueueInv' /\ TargetInv'
  BY <1>2, <1>4, Kept
<1>8. FlushInv'
  BY <1>2, <1>7 DEF RunInv, FlushInv
<1>9. MarkInv' /\ WorldInv'
  BY <1>3, <1>4 DEF MarkInv, WorldInv, Holds, ByWorld
<1> QED  BY <1>1, <1>6, <1>7, <1>8, <1>9 DEF RunInv

\* Where a handler is executing, a flush of its component follows.
LEMMA DoneFlushes ==
  ASSUME RunInv, NEW n, Holds(Elements(todo), {"done"}, n)
  PROVE  Holds(Elements(todo), {"flush", "drain"}, n)
<1>1. todo \in Seq(Frames) /\ Len(todo) \in Nat
  BY DEF RunInv, IInv, TypeOK
<1>2. PICK i \in 1..Len(todo) : todo[i][1] = "done" /\ todo[i][2] = n
  BY DEF Holds, Elements
<1>3. Supported(todo[i], Beyond(todo, i) \cup {})
  BY <1>2 DEF RunInv, StackInv, Stacked, Rests
<1>4. Holds(Beyond(todo, i) \cup {}, {"flush", "drain"}, n)
  BY <1>2, <1>3 DEF Supported
<1>5. Beyond(todo, i) \subseteq Elements(todo)
  <2>1. \A j \in i+1..Len(todo) : j \in 1..Len(todo)
    BY <1>1
  <2> QED  BY <2>1 DEF Beyond, Elements
<1> QED  BY <1>4, <1>5 DEF Holds

\* A call of the world.
LEMMA WorldCallStacked ==
  ASSUME Tree, RunInv, InEvent, Provide[Arg] = Null
  PROVE  \E fs \in Seq(Frames) :
           /\ todo' = fs \o Tail(todo)
           /\ Stacked(defer, fs, Elements(Tail(todo)))
           /\ \A f \in Elements(fs) :
                /\ ByWorld(f) => Require[f[2]] = Require[Arg]
                /\ f[1] \notin {"done", "drain"}
<1> DEFINE h == Head(todo)
           below == Elements(Tail(todo))
           m == Require[Arg]
<1>1. /\ todo # << >> /\ h[1] = "raise" /\ h[2] = Arg /\ Arg \in In /\ Arg \in Event
      /\ Comp(Arg) = m /\ m \in Node /\ Null \in Node
  BY DoingFacts, TreeFacts DEF InEvent, RunInv, IInv, Comp
<1>2. h \in Frames /\ Rests(defer, h, below) /\ below \subseteq Frames /\ defer \in BOOLEAN
  BY <1>1, TopFacts
<1>3. \A g \in below : Above(defer, h, g)
  BY <1>2 DEF Rests
<1>4. PICK body \in Body[Arg] :
        Do(Raise(body) \o << >> \o <<<<"flush", Null, TRUE>>>> \o LeaveActivity
           \o <<<<"leave", m>>>>)
  BY <1>1 DEF InEvent
<1>5. Handler(Arg) \notin Component
  BY <1>1, TreeFacts DEF Handler
<1>6. PICK r \in Seq(Frames) :
        r = Raise(body) /\ \A f \in Elements(r) : ByWorld(f) /\ Require[f[2]] = m
  BY <1>1, <1>5, RaisedFacts
<1>7. PICK ff \in Frames, fv \in Frames : ff = <<"flush", Null, TRUE>> /\ fv = <<"leave", m>>
  BY <1>1, MakeFrames
<1>8. /\ ff[1] = "flush" /\ ff[2] = Null /\ ff[3] = TRUE
      /\ fv[1] = "leave" /\ fv[2] = m
  BY <1>7
<1>9. PICK u \in Seq(Frames) : u = <<ff>> /\ Elements(u) = {ff}
  BY FrameLists
<1>10. PICK v \in Seq(Frames) : v = <<fv>> /\ Elements(v) = {fv}
  BY FrameLists
<1> HIDE DEF h, below, m
<1>11. \A g \in below : /\ Above(defer, ff, g) /\ Above(defer, fv, g)
                        /\ \A f \in Elements(r) : Above(defer, f, g)
  BY <1>1, <1>2, <1>3, <1>6, <1>8, WorldCallAbove DEF m
<1>12. Stacked(defer, v, below)
  <2>1. Rests(defer, fv, below)
    BY <1>8, <1>11 DEF Rests, Supported
  <2> QED  BY <1>10, <2>1, StackedShort
<1>13. PICK l \in Seq(Frames) :
         /\ l = LeaveActivity /\ Stacked(defer, l, {fv} \cup below)
         /\ \A f \in Elements(l) : f[1] = "activity"
  <2>1. \A g \in {fv} \cup below : Above(defer, fv, g)
    BY <1>8, <1>11, LowAbove
  <2> QED  BY <1>8, <2>1, LeaveStacked
<1>14. Stacked(defer, u, Elements(l) \cup ({fv} \cup below))
  <2>1. Supported(ff, Elements(l) \cup ({fv} \cup below))
    BY <1>8 DEF Supported
  <2>2. \A g \in Elements(l) \cup ({fv} \cup below) : Above(defer, ff, g)
    BY <1>8, <1>11, <1>13, LowAbove
  <2> QED  BY <1>9, <2>1, <2>2, StackedShort DEF Rests
<1>15. Stacked(defer, r, {ff} \cup (Elements(l) \cup ({fv} \cup below)))
  <2> DEFINE rest == {ff} \cup (Elements(l) \cup ({fv} \cup below))
  <2>1. ASSUME NEW f \in Elements(r), NEW more \in SUBSET Elements(r)
        PROVE  Rests(defer, f, more \cup rest)
    <3>1. ByWorld(f) /\ \A g \in more : ByWorld(g)
      BY <1>6
    <3>2. Supported(f, more \cup rest)
      BY <3>1, TreeFacts DEF Supported, ByWorld
    <3>3. \A g \in more : Above(defer, f, g)
      BY <3>1, TreeFacts DEF Above, ByWorld
    <3>4. \A g \in Elements(l) \cup {ff, fv} : Above(defer, f, g)
      BY <1>8, <1>13, <3>1, TreeFacts DEF Above, ByWorld
    <3> QED  BY <1>11, <3>2, <3>3, <3>4 DEF Rests
  <2> HIDE DEF rest
  <2>2. Stacked(defer, r, rest)
    BY <2>1, StackedAll
  <2> QED  BY <2>2 DEF rest
<1>16. PICK b \in Seq(Frames) : b = r \o u /\ Elements(b) = Elements(r) \cup Elements(u)
  BY Joined
<1>17. PICK e \in Seq(Frames) : e = b \o l /\ Elements(e) = Elements(b) \cup Elements(l)
  BY Joined
<1>18. PICK w \in Seq(Frames) : w = e \o v /\ Elements(w) = Elements(e) \cup Elements(v)
  BY Joined
<1>19. Stacked(defer, w, below)
  <2>1. Stacked(defer, b, Elements(l) \cup ({fv} \cup below))
    BY <1>9, <1>14, <1>15, <1>16, StackedConcat
  <2>2. Stacked(defer, e, {fv} \cup below)
    BY <1>13, <1>17, <2>1, StackedConcat
  <2> QED  BY <1>10, <1>12, <1>18, <2>2, StackedConcat
<1>20. todo' = w \o Tail(todo)
  <2>1. todo' = Raise(body) \o << >> \o <<<<"flush", Null, TRUE>>>> \o LeaveActivity
                  \o <<<<"leave", m>>>> \o Tail(todo)
    BY <1>4 DEF Do
  <2>2. r \o << >> = r
    OBVIOUS
  <2>3. todo' = r \o u \o l \o v \o Tail(todo)
    BY <1>6, <1>7, <1>9, <1>10, <1>13, <2>1, <2>2
  <2> QED  BY <1>16, <1>17, <1>18, <2>3
<1>21. \A f \in Elements(w) : /\ ByWorld(f) => Require[f[2]] = m
                              /\ f[1] \notin {"done", "drain"}
  BY <1>6, <1>8, <1>9, <1>10, <1>13, <1>16, <1>17, <1>18, ZenonT(30) DEF ByWorld
<1> QED  BY <1>19, <1>20, <1>21 DEF below, m

LEMMA InEventRun ==
  ASSUME Tree, RunInv, InEvent
  PROVE  RunInv'
<1>1. IInv'
  BY InEventStep DEF RunInv
<1>2. /\ todo # << >> /\ Head(todo)[1] = "raise" /\ Arg = Head(todo)[2] /\ Arg \in In
      /\ Arg \in Event /\ Provide[Arg] \in Node /\ Null \notin Component
      /\ handling' = [handling EXCEPT ![Comp(Arg)] = TRUE]
      /\ queue' = queue /\ deferred' = deferred /\ defer' = defer
      /\ handling \in [Node -> BOOLEAN]
      /\ Comp(Arg) = IF Provide[Arg] # Null THEN Provide[Arg] ELSE Require[Arg]
      /\ Comp(Arg) \in Node
  BY DoingFacts, CompFacts, TreeFacts DEF InEvent, RunInv, IInv, TypeOK, Comp
<1>3. \E fs \in Seq(Frames) :
        /\ todo' = fs \o Tail(todo)
        /\ Stacked(defer, fs, Elements(Tail(todo)))
        /\ Provide[Arg] # Null => Holds(Elements(fs), {"flush", "drain"}, Comp(Arg))
        /\ \A f \in Elements(fs) : /\ ByWorld(f) => Require[f[2]] = Comp(Arg)
                                   /\ f[1] \in {"done", "drain"} => f[2] = Comp(Arg)
  <2>1. CASE Provide[Arg] = Null
    BY <1>2, <2>1, WorldCallStacked
  <2>2. CASE Provide[Arg] # Null
    <3>1. PICK c \in Component : c = Provide[Arg] /\ c = Comp(Arg)
      BY <1>2, <2>2 DEF Node
    <3> QED  BY <2>2, <3>1, CallStacked
  <2> QED  BY <2>1, <2>2
<1>4. PICK fs \in Seq(Frames) :
        /\ todo' = fs \o Tail(todo)
        /\ Stacked(defer, fs, Elements(Tail(todo)))
        /\ Provide[Arg] # Null => Holds(Elements(fs), {"flush", "drain"}, Comp(Arg))
        /\ \A f \in Elements(fs) : /\ ByWorld(f) => Require[f[2]] = Comp(Arg)
                                   /\ f[1] \in {"done", "drain"} => f[2] = Comp(Arg)
  BY <1>3
<1>5. StackInv' /\ Elements(todo') = Elements(fs) \cup Elements(Tail(todo))
  BY <1>2, <1>4, Replaced
<1>6. /\ \A n : Holds(Elements(todo), {"flush", "drain"}, n) =>
                  Holds(Elements(todo'), {"flush", "drain"}, n)
      /\ QueueInv' /\ TargetInv'
  BY <1>2, <1>5, Kept
<1>7. Holds(Elements(todo'), {"flush", "drain"}, Comp(Arg))
  <2>1. CASE Provide[Arg] # Null
    BY <1>4, <1>5, <2>1 DEF Holds
  <2>2. CASE Provide[Arg] = Null
    <3>1. Require[Arg] # Null
      BY <1>2, <2>2, TreeFacts
    <3>2. Supported(Head(todo), Elements(Tail(todo)))
      BY <1>2, TopFacts DEF Rests
    <3>3. Holds(Elements(Tail(todo)), {"done"}, Require[Arg])
      BY <1>2, <3>1, <3>2 DEF Supported
    <3>4. Holds(Elements(todo), {"done"}, Require[Arg])
      BY <1>2, <3>3, TopFacts DEF Holds
    <3>5. Holds(Elements(todo), {"flush", "drain"}, Require[Arg])
      BY <3>4, DoneFlushes
    <3> QED  BY <1>2, <1>6, <2>2, <3>5
  <2> QED  BY <2>1, <2>2
<1>8. FlushInv'
  BY <1>2, <1>6, <1>7 DEF RunInv, FlushInv, Node
<1>9. Elements(Tail(todo)) \subseteq Elements(todo)
  BY <1>2, TopFacts
<1>10. \A n \in Node : handling[n] \/ n = Comp(Arg) => handling'[n]
  BY <1>2
<1>11. ASSUME NEW c \in Marked, Holds(Elements(todo'), {"done", "drain"}, c)
       PROVE  handling'[c] \/ (defer' /\ c \in Native)
  <2>1. c \in Node
    BY DEF Marked, Node
  <2>2. c = Comp(Arg) \/ Holds(Elements(todo), {"done", "drain"}, c)
    BY <1>4, <1>5, <1>9, <1>11 DEF Holds
  <2> QED  BY <1>2, <1>10, <2>1, <2>2 DEF RunInv, MarkInv
<1>12. ASSUME NEW f \in Elements(todo'), ByWorld(f)
       PROVE  handling'[Require[f[2]]]
  <2>1. CASE f \in Elements(fs)
    BY <1>2, <1>4, <1>10, <1>12, <2>1
  <2>2. CASE f \in Elements(Tail(todo))
    <3>1. ByWorld(Head(todo))
      BY <1>2, <1>12, <2>2, AboveWorld
    <3> QED  BY <1>2, <3>1, TreeFacts DEF ByWorld
  <2> QED  BY <1>5, <2>1, <2>2
<1> QED  BY <1>1, <1>5, <1>6, <1>8, <1>11, <1>12 DEF RunInv, MarkInv, WorldInv

\* flush begins: its node counts as handling an event.
LEMMA StartFlushRun ==
  ASSUME Tree, RunInv, StartFlush
  PROVE  RunInv'
<1> DEFINE h == Head(todo)
           below == Elements(Tail(todo))
<1>1. IInv'
  BY StartFlushStep DEF RunInv
<1>2. /\ todo # << >> /\ h[1] = "flush" /\ Arg = h[2] /\ Sync = h[3]
      /\ Arg \in Node /\ Sync \in BOOLEAN
      /\ handling' = [handling EXCEPT ![Arg] = TRUE]
      /\ queue' = queue /\ deferred' = deferred /\ defer' = defer
      /\ handling \in [Node -> BOOLEAN]
  BY DoingFacts DEF StartFlush, RunInv, IInv, TypeOK, Sync
<1>3. PICK f \in Frames : f = <<"drain", Arg, Sync>>
  BY <1>2, MakeFrames
<1>4. f[1] = "drain" /\ f[2] = Arg /\ f[3] = Sync
  BY <1>3
<1>5. PICK fs \in Seq(Frames) : fs = <<f>> /\ Elements(fs) = {f}
  BY FrameLists
<1>6. todo' = fs \o Tail(todo)
  BY <1>3, <1>5 DEF StartFlush, Do
<1>7. Stacked(defer, fs, below)
  <2>1. Rests(defer, h, below)
    BY <1>2, TopFacts
  <2>2. Supported(f, below)
    BY <1>2, <1>4, <2>1 DEF Rests, Supported
  <2>3. \A g \in below : Above(defer, f, g)
    BY <1>2, <1>4, <2>1, DrainAbove DEF Rests
  <2> QED  BY <1>5, <2>2, <2>3, StackedShort DEF Rests
<1>8. StackInv' /\ Elements(todo') = Elements(fs) \cup below
  BY <1>2, <1>6, <1>7, Replaced
<1>9. Elements(todo') = {f} \cup below
  BY <1>5, <1>8
<1>10. Elements(todo) = {h} \cup below
  BY <1>2, TopFacts
<1> HIDE DEF h, below
<1>11. \A n : Holds(Elements(todo), {"flush", "drain"}, n) =>
                Holds(Elements(todo'), {"flush", "drain"}, n)
  BY <1>2, <1>4, <1>9, <1>10 DEF Holds
<1>12. \A p : FlushesOn(p) => FlushesOn(p)'
  BY <1>2, <1>4, <1>9, <1>10 DEF FlushesOn
<1>13. QueueInv' /\ TargetInv'
  BY <1>2, <1>11, <1>12 DEF RunInv, QueueInv, TargetInv
<1>14. FlushInv'
  <2>1. Holds(Elements(todo'), {"flush", "drain"}, Arg)
    BY <1>4, <1>9 DEF Holds
  <2> QED  BY <1>2, <1>11, <2>1 DEF RunInv, FlushInv, Node
<1>15. ASSUME NEW c \in Marked, Holds(Elements(todo'), {"done", "drain"}, c)
       PROVE  handling'[c] \/ (defer' /\ c \in Native)
  <2>1. c \in Node
    BY DEF Marked, Node
  <2>2. c = Arg \/ Holds(Elements(todo), {"done", "drain"}, c)
    BY <1>4, <1>9, <1>10, <1>15 DEF Holds
  <2> QED  BY <1>2, <2>1, <2>2 DEF RunInv, MarkInv
<1>16. \A g \in Elements(todo') : ~ByWorld(g)
  <2>1. \A g \in below : ~ByWorld(g)
    BY <1>2, AboveWorld DEF h, below, ByWorld
  <2> QED  BY <1>4, <1>9, <2>1 DEF ByWorld
<1> QED  BY <1>1, <1>8, <1>13, <1>14, <1>15, <1>16 DEF RunInv, MarkInv, WorldInv

\* An event of the outside world starts when nothing is left to do.
LEMMA TriggerRun ==
  ASSUME Tree, RunInv, NEW e \in Event \cup Statement, Trigger(e)
  PROVE  RunInv'
<1>1. IInv'
  BY TriggerStep DEF RunInv
<1>2. /\ Elements(todo) = {}
      /\ queue' = queue /\ deferred' = deferred /\ defer' = defer /\ handling' = handling
  BY EmptyFacts DEF Trigger
<1>3. PICK f \in Frames : f = <<"raise", e>>
  BY MakeFrames
<1>4. f[1] = "raise" /\ f[2] = e
  BY <1>3
<1>5. PICK fs \in Seq(Frames) : fs = <<f>> /\ Elements(fs) = {f}
  BY FrameLists
<1>6. todo' = fs /\ Elements(todo') = {f} /\ Tail(todo') = << >>
  <2>1. todo' = <<f>>
    BY <1>3 DEF Trigger
  <2>2. Tail(<<f>>) = << >>
    OBVIOUS
  <2> QED  BY <1>5, <2>1, <2>2
<1>7. StackInv'
  <2>1. Supported(f, {})
    BY <1>4, TreeFacts DEF Trigger, Supported, Spontaneous
  <2>2. Stacked(defer, fs, {})
    BY <1>5, <2>1, StackedShort DEF Rests
  <2> QED  BY <1>2, <1>6, <2>2 DEF StackInv
<1>8. FlushInv'
  BY <1>2 DEF RunInv, FlushInv, Holds
<1>9. MarkInv'
  BY <1>4, <1>6 DEF MarkInv, Holds
<1>10. WorldInv'
  BY <1>6 DEF WorldInv
<1>11. TargetInv' /\ QueueInv'
  BY <1>2 DEF RunInv, TargetInv, QueueInv, Holds, FlushesOn
<1> QED  BY <1>1, <1>7, <1>8, <1>9, <1>10, <1>11 DEF RunInv

\* Lists of frames that are put together.
LEMMA ThreeMore ==
  ASSUME NEW r \in Seq(Frames), NEW x \in Frames, NEW y \in Frames, NEW z \in Frames
  PROVE  r \o <<x, y, z>> = r \o <<x>> \o <<y>> \o <<z>>
<1> DEFINE s == <<x>> \o <<y>> \o <<z>>
           p == <<x>> \o <<y>>
<1>1. s \in Seq(Frames) /\ Len(s) = 3 /\ s[1] = x /\ s[2] = y /\ s[3] = z
  OBVIOUS
<1>2. <<x, y, z>> \in Seq(Frames) /\ Len(<<x, y, z>>) = 3
  OBVIOUS
<1>3. r \o p = r \o <<x>> \o <<y>>
  OBVIOUS
<1>4. r \o (p \o <<z>>) = r \o p \o <<z>>
  <2>1. p \in Seq(Frames) /\ <<z>> \in Seq(Frames)
    OBVIOUS
  <2> HIDE DEF p
  <2> QED  BY <2>1
<1> HIDE DEF s
<1>5. s = <<x, y, z>>
  BY <1>1, <1>2
<1> QED  BY <1>3, <1>4, <1>5 DEF s

\* A deferred statement starts on its own.
LEMMA AloneFacts ==
  ASSUME Tree, RunInv, Deferred
  PROVE  /\ Tail(todo) = << >>
         /\ \A c \in Component : ~handling[c]
         /\ \A n \in Node : queue[n] = << >>
<1>1. todo # << >> /\ Head(todo)[1] = "raise" /\ Head(todo)[2] \in Statement
  BY DEF Deferred, Doing, Arg
<1>2. /\ Tail(todo) \in Seq(Frames)
      /\ \A g \in Elements(Tail(todo)) : Above(defer, Head(todo), g)
      /\ Elements(todo) = {Head(todo)} \cup Elements(Tail(todo))
  BY <1>1, TopFacts DEF Rests
<1>3. Elements(Tail(todo)) = {}
  BY <1>1, <1>2 DEF Above
<1>4. Tail(todo) = << >>
  BY <1>2, <1>3, EmptyFacts
<1>5. \A f \in Elements(todo) : f[1] = "raise"
  BY <1>1, <1>2, <1>3
<1> QED  BY <1>4, <1>5 DEF RunInv, FlushInv, QueueInv, Holds, FlushesOn

LEMMA DeferredStacked ==
  ASSUME Tree, RunInv, Deferred
  PROVE  /\ todo' \in Seq(Frames) /\ Stacked(TRUE, todo', {})
         /\ Ends(todo') = <<Owner[Arg]>>
         /\ \A f \in Elements(todo') :
              ~ByWorld(f) /\ (f[1] \in {"done", "drain"} => f[2] = Owner[Arg])
<1> DEFINE c == Owner[Arg]
<1>1. /\ todo # << >> /\ Arg \in Statement /\ c \in Component /\ c \in Native /\ c \in Node
      /\ Arg \notin In /\ Arg \notin Out
      /\ queue' = queue /\ deferred' = deferred /\ defer' = TRUE /\ handling' = handling
  BY DoingFacts, TreeFacts DEF Deferred, RunInv, IInv
<1>2. PICK body \in Body[Arg] :
        Do(Raise(body) \o <<<<"done", c>>, <<"flush", c, FALSE>>, <<"undefer", Arg>>>>
           \o LeaveActivity)
  BY DEF Deferred
<1>3. Handler(Arg) = c
  BY <1>1 DEF Handler
<1>4. PICK r \in Seq(Frames) : r = Raise(body) /\ \A f \in Elements(r) : OwnRaise(f, c)
  BY <1>1, <1>3, RaisedFacts
<1>5. PICK fd \in Frames, ff \in Frames, fu \in Frames :
        fd = <<"done", c>> /\ ff = <<"flush", c, FALSE>> /\ fu = <<"undefer", Arg>>
  BY <1>1, MakeFrames
<1>6. /\ fd[1] = "done" /\ fd[2] = c /\ ff[1] = "flush" /\ ff[2] = c /\ ff[3] = FALSE
      /\ fu[1] = "undefer"
  BY <1>5
<1> HIDE DEF c
<1>7. r \o <<fd, ff, fu>> = r \o <<fd>> \o <<ff>> \o <<fu>>
  BY ThreeMore
<1>8. PICK t \in BOOLEAN : t = TRUE
  OBVIOUS
<1>9. PICK d \in Seq(Frames) : d = <<fd>> /\ Elements(d) = {fd}
  BY FrameLists
<1>10. PICK u \in Seq(Frames) : u = <<ff>> /\ Elements(u) = {ff}
  BY FrameLists
<1>11. PICK v \in Seq(Frames) : v = <<fu>> /\ Elements(v) = {fu}
  BY FrameLists
<1>12. PICK l \in Seq(Frames) :
         /\ l = LeaveActivity /\ Stacked(t, l, {}) /\ \A f \in Elements(l) : f[1] = "activity"
  <2>1. PICK none : none = {}
    OBVIOUS
  <2>2. ff[1] # "done" /\ \A g \in none : Above(t, ff, g)
    BY <1>6, <2>1
  <2>3. /\ LeaveActivity \in Seq(Frames) /\ Stacked(t, LeaveActivity, none)
        /\ \A f \in Elements(LeaveActivity) : f[1] = "activity"
    BY <2>2, LeaveStacked
  <2> QED  BY <2>1, <2>3
<1>13. Stacked(t, v, Elements(l))
  <2>1. \A g \in Elements(l) : Above(t, fu, g)
    BY <1>6, <1>12 DEF Above, ByWorld
  <2>2. Supported(fu, Elements(l))
    BY <1>6 DEF Supported
  <2> QED  BY <1>11, <2>1, <2>2, StackedShort DEF Rests
<1>14. Stacked(t, u, {fu} \cup Elements(l))
  <2>1. \A g \in {fu} \cup Elements(l) : Above(t, ff, g)
    BY <1>6, <1>12, LowAbove
  <2>2. Supported(ff, {fu} \cup Elements(l))
    BY <1>6 DEF Supported
  <2> QED  BY <1>10, <2>1, <2>2, StackedShort DEF Rests
<1>15. Stacked(t, d, {ff} \cup ({fu} \cup Elements(l)))
  <2>1. \A g \in {ff} \cup ({fu} \cup Elements(l)) : Above(t, fd, g)
    BY <1>6, <1>12, LowAbove
  <2>2. Supported(fd, {ff} \cup ({fu} \cup Elements(l)))
    BY <1>6 DEF Supported, Holds
  <2> QED  BY <1>9, <2>1, <2>2, StackedShort DEF Rests
<1>16. Stacked(t, r, {fd} \cup ({ff} \cup ({fu} \cup Elements(l))))
  <2> DEFINE rest == {fd} \cup ({ff} \cup ({fu} \cup Elements(l)))
  <2>1. Holds(rest, {"done"}, c)
    BY <1>6 DEF Holds
  <2>2. ASSUME NEW f \in Elements(r), NEW g \in rest
        PROVE  Above(t, f, g)
    <3>1. OwnRaise(f, c)
      BY <1>4
    <3>2. \/ g[1] \in {"flush", "leave", "activity", "undefer"}
          \/ g[1] \in {"done", "drain"} /\ g[2] = c
      BY <1>6, <1>12
    <3> QED  BY <1>1, <3>1, <3>2, OwnAbove
  <2> HIDE DEF rest
  <2>3. Stacked(t, r, rest)
    BY <1>1, <1>4, <2>1, <2>2, OwnStacked
  <2> QED  BY <2>3 DEF rest
<1>17. PICK a \in Seq(Frames) : a = r \o d /\ Elements(a) = Elements(r) \cup Elements(d)
  BY Joined
<1>18. PICK b \in Seq(Frames) : b = a \o u /\ Elements(b) = Elements(a) \cup Elements(u)
  BY Joined
<1>19. PICK e \in Seq(Frames) : e = b \o v /\ Elements(e) = Elements(b) \cup Elements(v)
  BY Joined
<1>20. PICK w \in Seq(Frames) : w = e \o l /\ Elements(w) = Elements(e) \cup Elements(l)
  BY Joined
<1>21. Stacked(t, w, {})
  <2>1. Stacked(t, a, {ff} \cup ({fu} \cup Elements(l)))
    BY <1>9, <1>15, <1>16, <1>17, StackedConcat
  <2>2. Stacked(t, b, {fu} \cup Elements(l))
    BY <1>10, <1>14, <1>18, <2>1, StackedConcat
  <2>3. Stacked(t, e, Elements(l))
    BY <1>11, <1>13, <1>19, <2>2, StackedConcat
  <2>4. Elements(l) \cup {} = Elements(l)
    OBVIOUS
  <2>5. Stacked(t, e, Elements(l) \cup {})
    BY <2>3, <2>4
  <2> QED  BY <1>12, <1>20, <2>5, StackedConcat
<1>22. todo' = w
  <2>1. Tail(todo) = << >>
    BY AloneFacts
  <2>2. todo' = r \o <<fd, ff, fu>> \o l \o << >>
    BY <1>2, <1>4, <1>5, <1>12, <2>1 DEF Do
  <2>3. w \o << >> = w
    OBVIOUS
  <2>4. todo' = r \o d \o u \o v \o l \o << >>
    BY <1>9, <1>10, <1>11, <1>7, <2>2
  <2> QED  BY <1>17, <1>18, <1>19, <1>20, <2>3, <2>4
<1>23. \A f \in Elements(todo') :
         f \in Elements(r) \/ f = fd \/ f = ff \/ f = fu \/ f \in Elements(l)
  BY <1>9, <1>10, <1>11, <1>17, <1>18, <1>19, <1>20, <1>22
<1>24. \A f \in Elements(r) : f[1] = "raise" /\ ~ByWorld(f)
  BY <1>1, <1>4, TreeFacts DEF OwnRaise, RaisedBy, ByWorld
<1>25. \A f \in Elements(todo') : ~ByWorld(f) /\ (f[1] \in {"done", "drain"} => f[2] = c)
  BY <1>6, <1>12, <1>23, <1>24 DEF ByWorld
<1>26. Ends(w) = <<c>>
  <2>1. NoneEnds(r) /\ NoneEnds(u) /\ NoneEnds(v) /\ NoneEnds(l)
    BY <1>6, <1>10, <1>11, <1>12, <1>24 DEF NoneEnds
  <2>2. Ends(d) = <<c>>
    BY <1>6, <1>9, EndsOne
  <2>3. Ends(a) = <<c>>
    BY <1>17, <2>1, <2>2, EndsSkip
  <2>4. Ends(b) = <<c>>
    BY <1>18, <2>1, <2>3, EndsSkip
  <2>5. Ends(e) = <<c>>
    BY <1>19, <2>1, <2>4, EndsSkip
  <2> QED  BY <1>20, <2>1, <2>5, EndsSkip
<1> QED  BY <1>8, <1>21, <1>22, <1>25, <1>26 DEF c

LEMMA DeferredRun ==
  ASSUME Tree, RunInv, Deferred
  PROVE  RunInv'
<1>1. IInv'
  BY DeferredStep DEF RunInv
<1>2. /\ Owner[Arg] \in Native
      /\ queue' = queue /\ deferred' = deferred /\ defer' = TRUE /\ handling' = handling
  BY TreeFacts DEF Deferred
<1>3. StackInv' /\ WorldInv'
  BY <1>2, DeferredStacked DEF StackInv, WorldInv
<1>4. FlushInv' /\ QueueInv'
  BY <1>2, AloneFacts DEF FlushInv, QueueInv
<1>5. MarkInv'
  BY <1>2, DeferredStacked DEF MarkInv, Holds
<1>6. TargetInv'
  BY <1>2 DEF RunInv, TargetInv
<1> QED  BY <1>1, <1>3, <1>4, <1>5, <1>6 DEF RunInv

\* The handler of an event that was in the queue.
LEMMA TakeStacked ==
  ASSUME Tree, RunInv, Drain
  PROVE  \E fs \in Seq(Frames) :
           /\ todo' = fs \o todo
           /\ Stacked(defer, fs, Elements(todo))
           /\ Ends(fs) = <<Arg>> /\ ~Holds(Elements(todo), {"done"}, Arg)
           /\ \A f \in Elements(fs) : ~ByWorld(f) /\ (f[1] \in {"done", "drain"} => f[2] = Arg)
<1> DEFINE h == Head(todo)
           below == Elements(Tail(todo))
           n == Arg
           e == Head(queue[Arg])
<1>1. todo # << >> /\ h[1] = "drain" /\ h[2] = n /\ n \in Node /\ queue[n] # << >>
  BY DoingFacts DEF Drain, RunInv, IInv
<1>2. /\ h \in Frames /\ Rests(defer, h, below) /\ below \subseteq Frames /\ defer \in BOOLEAN
      /\ Elements(todo) = {h} \cup below
  BY <1>1, TopFacts
<1>3. e \in Out /\ Require[e] = n /\ e \in Event /\ e \notin In
  <2>1. queue[n] \in Seq(Out) /\ \A x \in Elements(queue[n]) : Require[x] = n
    BY <1>1 DEF RunInv, IInv, TypeOK
  <2>2. e \in Out /\ e \in Elements(queue[n])
    BY <1>1, <2>1, TailFacts
  <2> QED  BY <2>1, <2>2, TreeFacts
<1>4. PICK body \in Body[e] : todo' = Raise(body) \o <<<<"done", n>>>> \o todo
  BY DEF Drain
<1>5. Handler(e) = n
  BY <1>3 DEF Handler
<1>6. PICK r \in Seq(Frames) :
        /\ r = Raise(body)
        /\ n # Null => n \in Component /\ \A f \in Elements(r) : OwnRaise(f, n)
        /\ n = Null => Elements(r) = {}
  <2>1. n # Null => n \in Component
    BY <1>1, TreeFacts
  <2>2. n = Null => n \notin Component
    BY TreeFacts
  <2>3. n = Null => Raise(body) = << >>
    BY <1>3, <1>5, <2>2, RaisedFacts
  <2>4. /\ Raise(body) \in Seq(Frames)
        /\ n \in Component => \A f \in Elements(Raise(body)) : OwnRaise(f, n)
    BY <1>3, <1>5, RaisedFacts
  <2> QED  BY <2>1, <2>3, <2>4, EmptyFacts
<1>7. PICK fd \in Frames : fd = <<"done", n>>
  BY <1>1, MakeFrames
<1>8. fd[1] = "done" /\ fd[2] = n
  BY <1>7
<1>9. PICK d \in Seq(Frames) : d = <<fd>> /\ Elements(d) = {fd}
  BY FrameLists
<1> HIDE DEF h, below, n, e
<1>10. \A g \in below : /\ Above(defer, fd, g)
                        /\ \A f \in Elements(r) : Above(defer, f, g)
  <2>1. \A g \in below : Above(defer, h, g)
    BY <1>2 DEF Rests
  <2> QED  BY <1>1, <1>2, <1>6, <1>8, <2>1, TakeAbove
<1>11. Stacked(defer, d, Elements(todo))
  <2>1. Supported(fd, Elements(todo))
    BY <1>1, <1>2, <1>8 DEF Supported, Holds
  <2>2. Above(defer, fd, h)
    BY <1>1, <1>8 DEF Above, ByWorld, Inside
  <2> QED  BY <1>2, <1>9, <1>10, <2>1, <2>2, StackedShort DEF Rests
<1>12. Stacked(defer, r, {fd} \cup Elements(todo))
  <2>1. CASE n = Null
    BY <1>6, <2>1, StackedAll
  <2>2. CASE n # Null
    <3> DEFINE rest == {fd} \cup Elements(todo)
    <3>1. Holds(rest, {"done"}, n)
      BY <1>8 DEF Holds
    <3>2. ASSUME NEW f \in Elements(r), NEW g \in rest
          PROVE  Above(defer, f, g)
      <4>1. OwnRaise(f, n) /\ n \in Component
        BY <1>6, <2>2
      <4>2. CASE g \in {fd, h}
        BY <1>1, <1>2, <1>8, <4>1, <4>2, OwnAbove
      <4> QED  BY <1>2, <1>10, <4>2
    <3> HIDE DEF rest
    <3>3. Stacked(defer, r, rest)
      BY <1>2, <1>6, <2>2, <3>1, <3>2, OwnStacked
    <3> QED  BY <3>3 DEF rest
  <2> QED  BY <2>1, <2>2
<1>13. PICK fs \in Seq(Frames) : fs = r \o d /\ Elements(fs) = Elements(r) \cup Elements(d)
  BY Joined
<1>14. Stacked(defer, fs, Elements(todo))
  BY <1>9, <1>11, <1>12, <1>13, StackedConcat
<1>15. todo' = fs \o todo
  BY <1>4, <1>6, <1>7, <1>9, <1>13
<1>16. \A f \in Elements(r) : f[1] = "raise" /\ ~ByWorld(f)
  BY <1>6, TreeFacts DEF OwnRaise, RaisedBy, ByWorld
<1>17. \A f \in Elements(fs) : ~ByWorld(f) /\ (f[1] \in {"done", "drain"} => f[2] = n)
  BY <1>8, <1>9, <1>13, <1>16 DEF ByWorld
<1>18. ~Holds(Elements(todo), {"done"}, n)
  BY <1>1, <1>2, <1>8, <1>10 DEF Holds, Above, Inside
<1>19. Ends(fs) = <<n>>
  <2>1. NoneEnds(r)
    BY <1>16 DEF NoneEnds
  <2>2. Ends(d) = <<n>>
    BY <1>8, <1>9, EndsOne
  <2> QED  BY <1>13, <2>1, <2>2, EndsSkip
<1> QED  BY <1>14, <1>15, <1>17, <1>18, <1>19 DEF n

LEMMA DrainRun ==
  ASSUME Tree, RunInv, Drain
  PROVE  RunInv'
<1>1. IInv'
  BY DrainStep DEF RunInv
<1>2. /\ todo # << >> /\ Head(todo)[1] = "drain" /\ Arg = Head(todo)[2] /\ Arg \in Node
      /\ queue[Arg] # << >> /\ queue \in [Node -> Seq(Out)]
      /\ queue' = [queue EXCEPT ![Arg] = Tail(queue[Arg])]
      /\ deferred' = deferred /\ defer' = defer /\ handling' = handling
      /\ todo \in Seq(Frames) /\ Stacked(defer, todo, {})
  BY DoingFacts DEF Drain, RunInv, IInv, TypeOK, StackInv
<1>3. PICK fs \in Seq(Frames) :
        /\ todo' = fs \o todo
        /\ Stacked(defer, fs, Elements(todo))
        /\ \A f \in Elements(fs) : ~ByWorld(f) /\ (f[1] \in {"done", "drain"} => f[2] = Arg)
  BY TakeStacked
<1>4. StackInv' /\ Elements(todo') = Elements(fs) \cup Elements(todo)
  <2>1. /\ Stacked(defer, fs \o todo, {})
        /\ Elements(fs \o todo) = Elements(fs) \cup Elements(todo)
    <3>1. PICK t \in Seq(Frames) : t = todo
      BY <1>2
    <3>2. Stacked(defer, t, {}) /\ Stacked(defer, fs, Elements(t))
      BY <1>2, <1>3, <3>1
    <3>3. Stacked(defer, fs \o t, {}) /\ Elements(fs \o t) = Elements(fs) \cup Elements(t)
      BY <3>2, Pushed
    <3> QED  BY <3>1, <3>3
  <2> QED  BY <1>2, <1>3, <2>1 DEF StackInv
<1>5. Elements(todo) = {Head(todo)} \cup Elements(Tail(todo))
  BY <1>2, TopFacts
<1>6. FlushInv'
  BY <1>2, <1>4 DEF RunInv, FlushInv, Holds
<1>7. Holds(Elements(todo), {"done", "drain"}, Arg)
  BY <1>2, <1>5 DEF Holds
<1>8. \A c : Holds(Elements(todo'), {"done", "drain"}, c) =>
               Holds(Elements(todo), {"done", "drain"}, c)
  BY <1>3, <1>4, <1>7 DEF Holds
<1>9. MarkInv'
  BY <1>2, <1>8 DEF RunInv, MarkInv
<1>10. \A f \in Elements(todo') : ~ByWorld(f)
  <2>1. \A f \in Elements(Tail(todo)) : ~ByWorld(f)
    BY <1>2, AboveWorld DEF ByWorld
  <2> QED  BY <1>2, <1>3, <1>4, <1>5, <2>1 DEF ByWorld
<1>11. \A n \in Node : queue'[n] # << >> => queue[n] # << >>
  BY <1>2
<1>12. QueueInv' /\ TargetInv'
  <2>1. \A n : Holds(Elements(todo), {"flush", "drain"}, n) =>
                 Holds(Elements(todo'), {"flush", "drain"}, n)
    BY <1>4 DEF Holds
  <2>2. \A p : FlushesOn(p) => FlushesOn(p)'
    BY <1>4 DEF FlushesOn
  <2> QED  BY <1>2, <1>11, <2>1, <2>2 DEF RunInv, QueueInv, TargetInv
<1> QED  BY <1>1, <1>4, <1>6, <1>9, <1>10, <1>12 DEF RunInv, WorldInv

\* The end of flush: its deferred target is flushed next only where no handler is waiting
\* for this flush to end, and not while the target itself is executing.
LEMMA EndFlushRun ==
  ASSUME Tree, RunInv, EndFlush
  PROVE  RunInv'
<1> DEFINE h == Head(todo)
           below == Elements(Tail(todo))
           n == Arg
           t == deferred[Arg]
<1>1. IInv'
  BY EndFlushStep DEF RunInv
<1>2. /\ todo # << >> /\ h[1] = "drain" /\ h[2] = n /\ h[3] = Sync
      /\ n \in Node /\ Sync \in BOOLEAN
      /\ handling' = [handling EXCEPT ![n] = FALSE]
      /\ queue' = queue /\ defer' = defer /\ queue[n] = << >>
      /\ handling \in [Node -> BOOLEAN] /\ deferred \in [Node -> Node] /\ t \in Node
      /\ deferred' = IF Sync THEN deferred ELSE [deferred EXCEPT ![n] = Null]
  BY DoingFacts DEF EndFlush, RunInv, IInv, TypeOK, Sync
<1>3. /\ h \in Frames /\ Rests(defer, h, below) /\ below \subseteq Frames /\ defer \in BOOLEAN
      /\ Elements(todo) = {h} \cup below
  BY <1>2, TopFacts
<1>4. PICK f \in Frames : f = <<"flush", t, FALSE>>
  BY <1>2, MakeFrames
<1>5. f[1] = "flush" /\ f[2] = t /\ f[3] = FALSE
  BY <1>4
<1>6. \A g \in below : Above(defer, h, g)
  BY <1>3 DEF Rests
<1> HIDE DEF h, below
<1>7. ASSUME NEW g \in below, ~handling[t], ~Sync
      PROVE  Above(defer, f, g)
  <2>1. ASSUME g[1] \in {"done", "drain"}
        PROVE  Inside(defer, f, g)
    <3>1. Inside(defer, h, g) /\ g[2] # Null /\ g[2] \in Component
      BY <1>2, <1>3, <1>6, <2>1, FrameFactsDrain, TreeFacts DEF Above, Inside
    <3>2. ~ (Parent[g[2]] \in Component \/ defer)
      BY <1>2, <1>7, <3>1 DEF Inside, Tame
    <3>3. g[2] \in Marked
      BY <3>1, <3>2, TreeFacts DEF Marked
    <3>4. handling[g[2]]
      BY <1>3, <2>1, <3>2, <3>3 DEF RunInv, MarkInv, Holds
    <3> QED  BY <1>5, <1>7, <3>1, <3>2, <3>4 DEF Inside
  <2> QED  BY <1>2, <1>5, <1>6, <1>7, <2>1 DEF Above, ByWorld
<1>8. PICK fs \in Seq(Frames) :
        /\ fs = FlushTarget /\ Stacked(defer, fs, below)
        /\ \A g \in Elements(fs) : g = f
        /\ ~Sync /\ t # Null /\ ~handling[t] => f \in Elements(fs)
  <2>1. CASE Sync \/ t = Null \/ handling[t]
    <3>1. FlushTarget = << >>
      BY <2>1 DEF FlushTarget
    <3> QED  BY <2>1, <3>1, FrameLists, StackedShort
  <2>2. CASE ~ (Sync \/ t = Null \/ handling[t])
    <3>1. FlushTarget = <<f>>
      BY <1>4, <2>2 DEF FlushTarget
    <3>2. Supported(f, below)
      BY <1>5 DEF Supported
    <3>3. Stacked(defer, <<f>>, below)
      BY <1>7, <2>2, <3>2, StackedShort DEF Rests
    <3>4. <<f>> \in Seq(Frames) /\ Elements(<<f>>) = {f}
      BY FrameLists
    <3> QED  BY <3>1, <3>3, <3>4
  <2> QED  BY <2>1, <2>2
<1>9. StackInv' /\ Elements(todo') = Elements(fs) \cup below
  <2>1. todo' = fs \o Tail(todo)
    BY <1>8 DEF EndFlush, Do
  <2>2. Stacked(defer, fs, Elements(Tail(todo)))
    BY <1>8 DEF below
  <2>3. StackInv' /\ Elements(todo') = Elements(fs) \cup Elements(Tail(todo))
    BY <1>2, <2>1, <2>2, Replaced
  <2> QED  BY <2>3 DEF below
<1> HIDE DEF n, t
<1>10. \A m : m # n /\ Holds(Elements(todo), {"flush", "drain"}, m) =>
                Holds(Elements(todo'), {"flush", "drain"}, m)
  BY <1>2, <1>3, <1>9 DEF Holds
<1>11. FlushInv'
  BY <1>2, <1>10 DEF RunInv, FlushInv, Node
<1>12. ASSUME NEW c \in Marked, Holds(Elements(todo'), {"done", "drain"}, c)
       PROVE  handling'[c] \/ (defer' /\ c \in Native)
  <2>1. PICK g \in below : g[1] \in {"done", "drain"} /\ g[2] = c
    BY <1>5, <1>8, <1>9, <1>12 DEF Holds
  <2>2. c # n
    BY <1>2, <1>6, <2>1 DEF Above, Inside
  <2>3. c \in Node
    BY DEF Marked, Node
  <2>4. handling[c] \/ (defer /\ c \in Native)
    BY <1>3, <2>1 DEF RunInv, MarkInv, Holds
  <2> QED  BY <1>2, <2>2, <2>3, <2>4
<1>13. \A g \in Elements(todo') : ~ByWorld(g)
  <2>1. \A g \in below : ~ByWorld(g)
    BY <1>2, AboveWorld DEF h, below, ByWorld
  <2> QED  BY <1>5, <1>8, <1>9, <2>1 DEF ByWorld
<1>14. TargetInv'
  BY <1>2, TreeFacts DEF RunInv, TargetInv
<1>15. ASSUME NEW m \in Node, queue'[m] # << >>
       PROVE  \/ Holds(Elements(todo'), {"flush", "drain"}, m)
              \/ \E p \in Component : /\ Parent[p] = m /\ deferred'[p] = m /\ m # Null
                                      /\ FlushesOn(p)'
  <2>1. m # n
    BY <1>2, <1>15
  <2>2. CASE Holds(Elements(todo), {"flush", "drain"}, m)
    BY <1>10, <2>1, <2>2
  <2>3. ASSUME NEW p \in Component, Parent[p] = m, deferred[p] = m, m # Null, FlushesOn(p)
        PROVE  \/ Holds(Elements(todo'), {"flush", "drain"}, m)
               \/ deferred'[p] = m /\ FlushesOn(p)'
    <3>1. PICK g \in Elements(todo) : g[1] \in {"flush", "drain"} /\ g[2] = p /\ g[3] = FALSE
      BY <2>3 DEF FlushesOn
    <3>2. p \in Node
      BY DEF Node
    <3>3. CASE p # n
      <4>1. g \in below
        BY <1>2, <1>3, <3>1, <3>3
      <4> QED  BY <1>2, <1>9, <2>3, <3>1, <3>2, <3>3, <4>1 DEF FlushesOn
    <3>4. CASE p = n /\ Sync
      <4>1. g \in below
        BY <1>2, <1>3, <3>1, <3>4
      <4> QED  BY <1>2, <1>9, <2>3, <3>1, <3>4, <4>1 DEF FlushesOn
    <3>5. CASE p = n /\ ~Sync
      <4>1. t = m
        BY <2>3, <3>5 DEF t, n
      <4>2. CASE ~handling[m]
        BY <1>5, <1>8, <1>9, <2>3, <3>5, <4>1, <4>2 DEF Holds
      <4>3. CASE handling[m]
        <5>1. m \in Component
          BY <2>3, TreeFacts
        <5>2. Holds(Elements(todo), {"flush", "drain"}, m)
          BY <4>3, <5>1 DEF RunInv, FlushInv
        <5> QED  BY <1>10, <2>1, <5>2
      <4> QED  BY <4>2, <4>3
    <3> QED  BY <1>2, <3>3, <3>4, <3>5
  <2>4. \/ Holds(Elements(todo), {"flush", "drain"}, m)
        \/ \E p \in Component : Parent[p] = m /\ deferred[p] = m /\ m # Null /\ FlushesOn(p)
    BY <1>2, <1>15 DEF RunInv, QueueInv
  <2> QED  BY <2>2, <2>3, <2>4
<1> QED  BY <1>1, <1>9, <1>11, <1>12, <1>13, <1>14, <1>15
         DEF RunInv, MarkInv, WorldInv, QueueInv

\* Where a flush of a component ends in the scope of a call, a flush of its parent follows.
LEMMA FlushesUp ==
  ASSUME RunInv, NEW p \in Component, Parent[p] # Null, Null \notin Component,
         Holds(Elements(todo), {"flush", "drain"}, p)
  PROVE  FlushesOn(p) \/ Holds(Elements(todo), {"flush", "drain"}, Parent[p])
<1>1. todo \in Seq(Frames) /\ Len(todo) \in Nat
  BY DEF RunInv, IInv, TypeOK
<1>2. PICK i \in 1..Len(todo) : todo[i][1] \in {"flush", "drain"} /\ todo[i][2] = p
  BY DEF Holds, Elements
<1>3. todo[i] \in Elements(todo) /\ todo[i] \in Frames
  BY <1>1 DEF Elements
<1>4. todo[i][3] \in BOOLEAN
  BY <1>2, <1>3, FrameFacts
<1>5. CASE todo[i][3] = FALSE
  BY <1>2, <1>3, <1>5 DEF FlushesOn
<1>6. CASE todo[i][3] = TRUE
  <2>1. Supported(todo[i], Beyond(todo, i) \cup {})
    BY <1>2 DEF RunInv, StackInv, Stacked, Rests
  <2>2. Holds(Beyond(todo, i) \cup {}, {"done"}, Parent[p])
    BY <1>2, <1>6, <2>1 DEF Supported
  <2>3. Beyond(todo, i) \subseteq Elements(todo)
    <3>1. \A j \in i+1..Len(todo) : j \in 1..Len(todo)
      BY <1>1
    <3> QED  BY <3>1 DEF Beyond, Elements
  <2>4. Holds(Elements(todo), {"done"}, Parent[p])
    BY <2>2, <2>3 DEF Holds
  <2> QED  BY <2>4, DoneFlushes
<1> QED  BY <1>4, <1>5, <1>6

\* What an out event is about, and what is below it on the stack.
LEMMA OutFacts ==
  ASSUME Tree, RunInv, OutEvent
  PROVE  /\ todo # << >> /\ Head(todo)[1] = "raise" /\ Head(todo)[2] = Arg
         /\ Arg \in Out /\ Arg \in Event /\ Arg \notin In /\ Arg \notin Statement
         /\ Provide[Arg] \in Node /\ Require[Arg] \in Node /\ Provide[Arg] # Require[Arg]
         /\ Provide[Arg] \in Component => Require[Arg] = Parent[Provide[Arg]]
         /\ Comp(Arg) = IF Require[Arg] # Null THEN Require[Arg] ELSE Provide[Arg]
         /\ handling' = handling /\ defer' = defer
         /\ deferred' = [deferred EXCEPT ![Provide[Arg]] = Require[Arg]]
         /\ Rests(defer, Head(todo), Elements(Tail(todo)))
         /\ Elements(Tail(todo)) \subseteq Frames
         /\ Elements(todo) = {Head(todo)} \cup Elements(Tail(todo))
<1>1. /\ todo # << >> /\ Head(todo)[1] = "raise" /\ Head(todo)[2] = Arg /\ Arg \in Out
  BY DoingFacts DEF OutEvent, RunInv, IInv
<1>2. /\ Arg \in Event /\ Arg \notin In /\ Arg \notin Statement
      /\ Provide[Arg] \in Node /\ Require[Arg] \in Node /\ Provide[Arg] # Require[Arg]
      /\ Provide[Arg] \in Component => Require[Arg] = Parent[Provide[Arg]]
  BY <1>1, TreeFacts
<1>3. Comp(Arg) = IF Require[Arg] # Null THEN Require[Arg] ELSE Provide[Arg]
  BY <1>2 DEF Comp
<1>4. /\ handling' = handling /\ defer' = defer
      /\ deferred' = [deferred EXCEPT ![Provide[Arg]] = Require[Arg]]
  BY Zenon DEF OutEvent
<1>5. /\ Rests(defer, Head(todo), Elements(Tail(todo)))
      /\ Elements(Tail(todo)) \subseteq Frames
      /\ Elements(todo) = {Head(todo)} \cup Elements(Tail(todo))
  BY <1>1, TopFacts
<1> QED  BY <1>1, <1>2, <1>3, <1>4, <1>5

\* The sender asks for a flush only of the world, or when nothing else is going on.
LEMMA FlushesNowFacts ==
  ASSUME Tree, RunInv, OutEvent, FlushesNow(Arg), ~ (Require[Arg] = Null /\ defer)
  PROVE  \/ Require[Arg] = Null /\ ~defer
         \/ Tail(todo) = << >> /\ Elements(Tail(todo)) = {} /\ activity' # 1
<1> DEFINE h == Head(todo)
           below == Elements(Tail(todo))
<1> SUFFICES ASSUME Require[Arg] # Null
             PROVE  Tail(todo) = << >> /\ below = {} /\ activity' # 1
  OBVIOUS
<1>1. /\ todo # << >> /\ h[1] = "raise" /\ h[2] = Arg /\ Arg \in Out
      /\ Elements(todo) = {h} \cup below
      /\ Comp(Arg) = Require[Arg] /\ Provide[Arg] \in Node
      /\ Supported(h, below)
  BY OutFacts DEF Rests
<1>2. Tail(todo) \in Seq(Frames)
  BY <1>1, TopFacts
<1>3. ASSUME below = {}
      PROVE  Tail(todo) = << >> /\ below = {} /\ activity' # 1
  <2>1. Tail(todo) = << >>
    BY <1>2, <1>3, EmptyFacts
  <2>2. activity = 0
    BY <1>1, <1>3 DEF RunInv, IInv, ActivityInv
  <2>3. activity' = -1
    BY <2>2 DEF OutEvent, EnterActivity
  <2> QED  BY <1>3, <2>1, <2>3
<1>4. CASE Provide[Arg] = Null /\ ~handling[Require[Arg]]
  <2>1. ByWorld(h) /\ h \in Elements(todo)
    BY <1>1, <1>4 DEF ByWorld
  <2>2. Tail(todo) = << >>
    BY <1>1, <1>4, <2>1 DEF RunInv, WorldInv
  <2>3. below = {}
    BY <2>2, EmptyFacts
  <2> QED  BY <1>3, <2>3
<1>5. CASE Provide[Arg] \in Component \ Native /\ ~handling[Provide[Arg]]
  <2>1. Provide[Arg] \in Marked /\ Provide[Arg] # Null
    BY <1>5, TreeFacts DEF Marked
  <2>2. ~Holds(below, {"done"}, Provide[Arg])
    BY <1>1, <1>5, <2>1 DEF RunInv, MarkInv, Holds
  <2>3. below = {}
    BY <1>1, <2>1, <2>2 DEF Supported
  <2> QED  BY <1>3, <2>3
<1> QED  BY <1>1, <1>4, <1>5 DEF FlushesNow

\* The frames that an out event leaves.
LEMMA OutStacked ==
  ASSUME Tree, RunInv, OutEvent
  PROVE  \E fs \in Seq(Frames) :
           /\ todo' = fs \o Tail(todo)
           /\ Stacked(defer, fs, Elements(Tail(todo)))
           /\ \A f \in Elements(fs) : f[1] \in {"flush", "activity"}
           /\ FlushesNow(Arg) /\ ~ (Require[Arg] = Null /\ defer) =>
                Holds(Elements(fs), {"flush", "drain"}, Require[Arg])
<1> DEFINE h == Head(todo)
           below == Elements(Tail(todo))
           n == Require[Arg]
<1>1. /\ todo # << >> /\ h[1] = "raise" /\ h[2] = Arg /\ Arg \in Out /\ Arg \in Event
      /\ Arg \notin In /\ Arg \notin Statement /\ n \in Node
      /\ Supported(h, below) /\ \A g \in below : Above(defer, h, g)
      /\ below \subseteq Frames
  BY OutFacts DEF Rests
<1>2. PICK l \in Seq(Frames) :
        /\ l = LeaveActivity /\ Stacked(defer, l, below)
        /\ \A f \in Elements(l) : f[1] = "activity"
  BY <1>1, LeaveStacked
<1>3. ASSUME NEW r \in Seq(Frames), Do(r \o LeaveActivity),
             Stacked(defer, r, Elements(l) \cup below), \A f \in Elements(r) : f[1] = "flush",
             FlushesNow(Arg) /\ ~ (Require[Arg] = Null /\ defer) =>
               Holds(Elements(r), {"flush", "drain"}, n)
      PROVE  \E fs \in Seq(Frames) :
               /\ todo' = fs \o Tail(todo)
               /\ Stacked(defer, fs, Elements(Tail(todo)))
               /\ \A f \in Elements(fs) : f[1] \in {"flush", "activity"}
               /\ FlushesNow(Arg) /\ ~ (Require[Arg] = Null /\ defer) =>
                    Holds(Elements(fs), {"flush", "drain"}, Require[Arg])
  <2>1. PICK fs \in Seq(Frames) : fs = r \o l /\ Elements(fs) = Elements(r) \cup Elements(l)
    BY Joined
  <2>2. todo' = fs \o Tail(todo)
    BY <1>2, <1>3, <2>1 DEF Do
  <2>3. Stacked(defer, fs, below)
    BY <1>2, <1>3, <2>1, StackedConcat
  <2>4. \A f \in Elements(fs) : f[1] \in {"flush", "activity"}
    BY <1>2, <1>3, <2>1
  <2>5. FlushesNow(Arg) /\ ~ (Require[Arg] = Null /\ defer) =>
          Holds(Elements(fs), {"flush", "drain"}, Require[Arg])
    BY <1>3, <2>1 DEF Holds
  <2> QED  BY <2>2, <2>3, <2>4, <2>5
<1>4. CASE n = Null /\ defer
  <2>1. PICK body \in Body[Arg] : Do(Raise(body) \o LeaveActivity)
    BY <1>4 DEF OutEvent
  <2>2. Handler(Arg) \notin Component
    BY <1>1, <1>4, TreeFacts DEF Handler
  <2>3. Raise(body) = << >>
    BY <1>1, <2>2, RaisedFacts
  <2>4. PICK r \in Seq(Frames) : r = << >> /\ Elements(r) = {}
    BY FrameLists
  <2>5. Do(r \o LeaveActivity)
    BY <2>1, <2>3, <2>4
  <2>6. Stacked(defer, r, Elements(l) \cup below)
    BY <2>4, StackedShort
  <2> QED  BY <1>3, <1>4, <2>4, <2>5, <2>6
<1>5. CASE ~ (n = Null /\ defer)
  <2>1. PICK b : b = (activity' = 1)
    BY Zenon
  <2>2. b \in BOOLEAN
    BY <2>1, Zenon
  <2>3. PICK f \in Frames : f = <<"flush", n, b>>
    BY <1>1, <2>2, MakeFrames
  <2>4. f[1] = "flush" /\ f[2] = n /\ f[3] = b
    BY <2>3
  <2>5. Do((IF FlushesNow(Arg) THEN <<<<"flush", n, activity' = 1>>>> ELSE << >>)
           \o LeaveActivity)
    BY <1>5, Zenon DEF OutEvent
  <2>6. Do((IF FlushesNow(Arg) THEN <<f>> ELSE << >>) \o LeaveActivity)
    BY <2>1, <2>3, <2>5, Zenon
  <2>7. CASE ~FlushesNow(Arg)
    <3>1. PICK r \in Seq(Frames) : r = << >> /\ Elements(r) = {}
      BY FrameLists
    <3>2. Do(r \o LeaveActivity)
      BY <2>6, <2>7, <3>1
    <3>3. Stacked(defer, r, Elements(l) \cup below)
      BY <3>1, StackedShort
    <3> QED  BY <1>3, <2>7, <3>1, <3>2, <3>3
  <2>8. CASE FlushesNow(Arg)
    <3>1. PICK r \in Seq(Frames) : r = <<f>> /\ Elements(r) = {f}
      BY FrameLists
    <3>2. Do(r \o LeaveActivity)
      BY <2>6, <2>8, <3>1
    <3>3. (n = Null /\ ~defer) \/ (below = {} /\ activity' # 1)
      BY <1>5, <2>8, FlushesNowFacts
    <3>4. b = TRUE => activity' = 1
      BY <2>1, Zenon
    <3>5. Supported(f, Elements(l) \cup below)
      BY <2>4, <3>3, <3>4 DEF Supported
    <3>6. ASSUME NEW g \in below
          PROVE  Above(defer, f, g)
      <4>1. n = Null /\ ~defer
        BY <3>3, <3>6
      <4>2. Above(defer, h, g) /\ g \in Frames
        BY <1>1
      <4>3. ~ByWorld(h) /\ Provide[Arg] # Null
        BY <1>1, <4>1, OutFacts DEF ByWorld
      <4>4. ~ByWorld(g)
        BY <1>1, <4>2, <4>3 DEF Above
      <4>5. ASSUME g[1] \in {"done", "drain"}
            PROVE  Inside(defer, f, g)
        <5>1. Inside(defer, h, g) /\ g[2] # Null /\ g[2] \in Component
          BY <1>1, <4>2, <4>5, FrameFactsDrain, TreeFacts DEF Above, Inside
        <5>2. ~ (Parent[g[2]] \in Component)
          BY <1>1, <4>1, <4>3, <5>1 DEF Inside, Tame
        <5> QED  BY <2>4, <4>1, <5>1, <5>2 DEF Inside
      <4> QED  BY <2>4, <4>2, <4>4, <4>5 DEF Above
    <3>7. \A g \in Elements(l) \cup below : Above(defer, f, g)
      BY <1>2, <2>4, <3>6, LowAbove
    <3>8. Stacked(defer, r, Elements(l) \cup below)
      BY <3>1, <3>5, <3>7, StackedShort DEF Rests
    <3>9. Holds(Elements(r), {"flush", "drain"}, n)
      BY <2>4, <3>1 DEF Holds
    <3>10. \A x \in Elements(r) : x[1] = "flush"
      BY <2>4, <3>1
    <3> QED  BY <1>3, <3>2, <3>8, <3>9, <3>10
  <2> QED  BY <2>7, <2>8
<1> QED  BY <1>4, <1>5

\* An out event: its recipient is flushed, now or by a flush that is still to come.
LEMMA OutEventRun ==
  ASSUME Tree, RunInv, OutEvent
  PROVE  RunInv'
<1> DEFINE p == Provide[Arg]
           n == Require[Arg]
           below == Elements(Tail(todo))
<1>1. IInv'
  BY OutEventStep DEF RunInv
<1>2. /\ todo # << >> /\ Head(todo)[1] = "raise" /\ Head(todo)[2] = Arg
      /\ Arg \in Out
      /\ p \in Node /\ n \in Node /\ p # n /\ (p \in Component => n = Parent[p])
      /\ Comp(Arg) = IF n # Null THEN n ELSE p
      /\ handling' = handling /\ defer' = defer
      /\ deferred' = [deferred EXCEPT ![p] = n] /\ deferred \in [Node -> Node]
      /\ Elements(todo) = {Head(todo)} \cup below
      /\ Supported(Head(todo), below)
      /\ Null \notin Component
  BY OutFacts, TreeFacts DEF Rests, RunInv, IInv, TypeOK
<1>3. PICK fs \in Seq(Frames) :
        /\ todo' = fs \o Tail(todo)
        /\ Stacked(defer, fs, below)
        /\ \A f \in Elements(fs) : f[1] \in {"flush", "activity"}
        /\ FlushesNow(Arg) /\ ~ (n = Null /\ defer) =>
             Holds(Elements(fs), {"flush", "drain"}, n)
  BY OutStacked
<1>4. StackInv' /\ Elements(todo') = Elements(fs) \cup below
  BY <1>2, <1>3, Replaced
<1>5. /\ \A m : Holds(Elements(todo), {"flush", "drain"}, m) =>
                  Holds(Elements(todo'), {"flush", "drain"}, m)
      /\ \A q : FlushesOn(q) => FlushesOn(q)'
  BY <1>2, <1>4, Kept
<1>6. FlushInv'
  BY <1>2, <1>5 DEF RunInv, FlushInv
<1>7. MarkInv'
  BY <1>2, <1>3, <1>4 DEF RunInv, MarkInv, Holds
<1>8. \A f \in Elements(todo') : ByWorld(f) => handling'[Require[f[2]]]
  <2>1. \A f \in Elements(fs) : ~ByWorld(f)
    BY <1>3 DEF ByWorld
  <2> QED  BY <1>2, <1>4, <2>1, AboveWorld
<1>9. TargetInv'
  BY <1>2 DEF RunInv, TargetInv, Node
<1>10. \/ queue' = queue
       \/ ~ (n = Null /\ defer) /\ queue' = [queue EXCEPT ![n] = Append(queue[n], Arg)]
  BY Zenon DEF OutEvent, Recipient
<1> HIDE DEF p, n, below
<1>11. ASSUME NEW m \in Node, queue[m] # << >>
       PROVE  \/ Holds(Elements(todo'), {"flush", "drain"}, m)
              \/ \E q \in Component : /\ Parent[q] = m /\ deferred'[q] = m /\ m # Null
                                      /\ FlushesOn(q)'
  <2>1. \A q \in Component : Parent[q] = m /\ deferred[q] = m => deferred'[q] = m
    BY <1>2 DEF Node
  <2> QED  BY <1>5, <1>11, <2>1 DEF RunInv, QueueInv
<1>12. ASSUME ~ (n = Null /\ defer)
       PROVE  \/ Holds(Elements(todo'), {"flush", "drain"}, n)
              \/ \E q \in Component : /\ Parent[q] = n /\ deferred'[q] = n /\ n # Null
                                      /\ FlushesOn(q)'
  <2>1. CASE FlushesNow(Arg)
    BY <1>3, <1>4, <1>12, <2>1 DEF Holds
  <2>2. CASE ~FlushesNow(Arg)
    <3>1. n # Null /\ n \in Component
      BY <1>2, <2>2 DEF FlushesNow, n, Node
    <3>2. CASE p = Null
      <4>1. handling[n]
        BY <1>2, <2>2, <3>1, <3>2 DEF FlushesNow, n, p
      <4> QED  BY <1>5, <3>1, <4>1 DEF RunInv, FlushInv
    <3>3. CASE p # Null
      <4>1. p \in Component /\ Parent[p] = n
        BY <1>2, <3>3 DEF Node
      <4>2. Holds(Elements(todo), {"flush", "drain"}, p)
        <5>1. CASE p \in Native
          <6>1. Holds(below, {"done"}, p)
            BY <1>2, <3>3, <5>1 DEF Supported, Spontaneous, p
          <6>2. Holds(Elements(todo), {"done"}, p)
            BY <1>2, <6>1 DEF Holds
          <6> QED  BY <6>2, DoneFlushes
        <5>2. CASE p \notin Native
          <6>1. handling[p]
            BY <2>2, <4>1, <5>2 DEF FlushesNow, p
          <6> QED  BY <4>1, <6>1 DEF RunInv, FlushInv
        <5> QED  BY <5>1, <5>2
      <4>3. FlushesOn(p) \/ Holds(Elements(todo), {"flush", "drain"}, n)
        BY <1>2, <3>1, <4>1, <4>2, FlushesUp
      <4>4. deferred'[p] = n
        BY <1>2
      <4> QED  BY <1>5, <3>1, <4>1, <4>3, <4>4
    <3> QED  BY <3>2, <3>3
  <2> QED  BY <2>1, <2>2
<1>13. QueueInv'
  <2>1. CASE queue' = queue
    BY <1>11, <2>1 DEF QueueInv
  <2>2. CASE /\ ~ (n = Null /\ defer)
             /\ queue' = [queue EXCEPT ![n] = Append(queue[n], Arg)]
    <3>1. queue \in [Node -> Seq(Out)]
      BY DEF RunInv, IInv, TypeOK
    <3>2. \A m \in Node : m # n => queue'[m] = queue[m]
      BY <2>2, <3>1
    <3> QED  BY <1>11, <1>12, <2>2, <3>2 DEF QueueInv
  <2> QED  BY <1>10, <2>1, <2>2
<1> QED  BY <1>1, <1>4, <1>6, <1>7, <1>8, <1>9, <1>13 DEF RunInv, WorldInv

-------------------------------------------------------------------------------
LEMMA InitRun ==
  ASSUME Tree, Init
  PROVE  RunInv
<1>1. IInv
  BY InitIInv
<1>2. todo = << >> /\ Elements(todo) = {} /\ Len(todo) = 0
  BY EmptyFacts DEF Init
<1>3. StackInv
  BY <1>2 DEF StackInv, Stacked
<1>4. FlushInv /\ MarkInv /\ WorldInv /\ QueueInv
  BY <1>2 DEF Init, FlushInv, MarkInv, WorldInv, QueueInv, Holds, Node
<1>5. TargetInv
  BY DEF Init, TargetInv, Node
<1> QED  BY <1>1, <1>3, <1>4, <1>5 DEF RunInv

LEMMA NextRun ==
  ASSUME Tree, RunInv, [Next]_vars
  PROVE  RunInv'
<1>1. CASE Step
  BY <1>1, InEventRun, OutEventRun, DeferredRun, DoneRun, LeaveRun, ResetActivityRun,
     UndeferRun, StartFlushRun, DrainRun, EndFlushRun DEF Step
<1>2. ASSUME NEW e \in Event \cup Statement, Trigger(e)
      PROVE  RunInv'
  BY <1>2, TriggerRun
<1>3. CASE UNCHANGED vars
  <2>1. IInv'
    BY <1>3, NextIInv DEF RunInv
  <2>2. /\ handling' = handling /\ queue' = queue /\ deferred' = deferred
        /\ defer' = defer /\ todo' = todo
    BY <1>3 DEF vars
  <2> QED  BY <2>1, <2>2 DEF RunInv, StackInv, FlushInv, MarkInv, WorldInv, TargetInv, QueueInv,
                             FlushesOn
<1> QED  BY <1>1, <1>2, <1>3 DEF Next

\* The invariant holds in every state of every tree.
THEOREM RunInvariance ==
  ASSUME Tree
  PROVE  Spec => []RunInv
BY InitRun, NextRun, PTL DEF Spec

-------------------------------------------------------------------------------
(***************************************************************************)
(* Every step is a step of RunToCompletion, or leaves what it is about     *)
(* unchanged.                                                              *)
(***************************************************************************)

\* The top of the stack may be the end of a handler.
LEMMA ExecutingFacts ==
  ASSUME RunInv, todo # << >>
  PROVE  /\ Executing = Ends(todo) /\ Executing' = Ends(todo')
         /\ Executing \in Seq(Node) /\ Ends(Tail(todo)) \in Seq(Node)
         /\ Head(todo)[1] # "done" => Executing = Ends(Tail(todo))
         /\ Head(todo)[1] = "done" =>
              Executing # << >> /\ Tail(Executing) = Ends(Tail(todo))
<1>1. Executing = Ends(todo) /\ Executing' = Ends(todo')
  BY DEF Executing, Ends
<1>2. PICK f \in Frames, t \in Seq(Frames) : f = Head(todo) /\ t = Tail(todo) /\ todo \in Seq(Frames)
  BY TopFacts
<1>3. PICK h \in Seq(Frames) : h = <<f>> /\ Elements(h) = {f}
  BY FrameLists
<1>4. todo = h \o t
  BY <1>2, <1>3
<1>5. Ends(todo) \in Seq(Node) /\ Ends(t) \in Seq(Node)
  BY <1>2, EndsFacts
<1>6. ASSUME f[1] # "done"
      PROVE  Ends(todo) = Ends(t)
  <2>1. NoneEnds(h)
    BY <1>3, <1>6 DEF NoneEnds
  <2>2. Ends(h \o t) = Ends(t)
    BY <2>1, EndsSkip
  <2> QED  BY <1>4, <2>2
<1>7. ASSUME f[1] = "done"
      PROVE  Ends(todo) # << >> /\ Tail(Ends(todo)) = Ends(t)
  <2>1. Ends(h) = <<f[2]>>
    BY <1>3, <1>7, EndsOne
  <2>2. PICK e \in Seq(Node) : e = Ends(h \o t) /\ e = Ends(h) \o Ends(t)
    BY EndsConcat
  <2>3. PICK b \in Seq(Node) : b = Ends(t)
    BY <1>5
  <2>4. e = <<f[2]>> \o b
    BY <2>1, <2>2, <2>3
  <2>5. <<f[2]>> \o b # << >> /\ Tail(<<f[2]>> \o b) = b
    OBVIOUS
  <2> QED  BY <1>4, <2>2, <2>3, <2>4, <2>5
<1> QED  BY <1>1, <1>2, <1>5, <1>6, <1>7

\* A step that ends no handler and starts none.
LEMMA SameExecuting ==
  ASSUME RunInv, todo # << >>, Head(todo)[1] # "done", NEW fs \in Seq(Frames), NoneEnds(fs),
         todo' = fs \o Tail(todo)
  PROVE  Executing' = Executing
<1>1. PICK t \in Seq(Frames) : t = Tail(todo)
  BY TopFacts
<1>2. Ends(fs \o t) = Ends(t)
  BY EndsSkip
<1> QED  BY <1>1, <1>2, ExecutingFacts

\* A step that starts a handler of c.
LEMMA MoreExecuting ==
  ASSUME RunInv, NEW fs \in Seq(Frames), NEW t \in Seq(Frames), NEW c, Ends(fs) = <<c>>,
         todo' = fs \o t, Ends(t) = Executing
  PROVE  Executing' = <<c>> \o Executing
<1>1. PICK e \in Seq(Node) : e = Ends(fs \o t) /\ e = Ends(fs) \o Ends(t)
  BY EndsConcat
<1>2. Executing' = Ends(todo')
  BY DEF Executing, Ends
<1> QED  BY <1>1, <1>2

\* A node is executing when the end of its handler is on the stack.
LEMMA NotExecuting ==
  ASSUME RunInv, NEW c, ~Holds(Elements(todo), {"done"}, c)
  PROVE  c \notin Elements(Executing)
<1>1. todo \in Seq(Frames)
  BY DEF RunInv, IInv, TypeOK
<1>2. Executing = Ends(todo)
  BY DEF Executing, Ends
<1> QED  BY <1>1, <1>2, EndsFacts

\* The steps of RunToCompletion.
LEMMA OpenStep ==
  ASSUME todo = << >>, todo' # << >>, Executing' = Executing, queue' = queue
  PROVE  Promise!Open
BY Zenon DEF Promise!Open

LEMMA BeginStep ==
  ASSUME todo # << >>, todo' # << >>, queue' = queue,
         NEW c \in Node, c \notin Elements(Executing), Executing' = <<c>> \o Executing
  PROVE  Promise!Begin(c)
<1>1. c \notin Promise!Elements(Executing)
  BY Zenon DEF Elements, Promise!Elements
<1> QED  BY <1>1, Zenon DEF Promise!Begin

LEMMA PostStep ==
  ASSUME todo # << >>, todo' # << >>, Executing' = Executing, NEW c \in Node, NEW e \in Event,
         queue' = [queue EXCEPT ![c] = Append(queue[c], e)]
  PROVE  Promise!Post(c, e)
BY Zenon DEF Promise!Post

LEMMA TakeStep ==
  ASSUME todo # << >>, todo' # << >>, NEW c \in Node, c \notin Elements(Executing),
         queue[c] # << >>, queue' = [queue EXCEPT ![c] = Tail(queue[c])],
         Executing' = <<c>> \o Executing
  PROVE  Promise!Take(c)
<1>1. c \notin Promise!Elements(Executing)
  BY Zenon DEF Elements, Promise!Elements
<1> QED  BY <1>1, Zenon DEF Promise!Take

LEMMA EndStep ==
  ASSUME todo # << >>, todo' # << >>, queue' = queue,
         Executing # << >>, Executing' = Tail(Executing)
  PROVE  Promise!End
BY Zenon DEF Promise!End

LEMMA CloseStep ==
  ASSUME todo # << >>, todo' = << >>, queue' = queue, Executing' = Executing,
         Executing = << >>, \A c \in Node : queue[c] = << >>
  PROVE  Promise!Close
BY Zenon DEF Promise!Close

LEMMA SilentStep ==
  ASSUME todo # << >>, todo' # << >>, queue' = queue, Executing' = Executing
  PROVE  UNCHANGED Promise!vars
BY Zenon DEF Promise!vars

\* A step that neither ends nor starts a handler, nor touches a queue: it may be the last
\* one, and then no event is left in a queue.
LEMMA QuietMove ==
  ASSUME RunInv, RunInv', todo # << >>, Head(todo)[1] # "done",
         NEW fs \in Seq(Frames), NoneEnds(fs), todo' = fs \o Tail(todo), queue' = queue
  PROVE  Promise!Close \/ UNCHANGED Promise!vars
<1>1. Executing' = Executing
  BY SameExecuting
<1>2. CASE todo' # << >>
  BY <1>1, <1>2, SilentStep
<1>3. CASE todo' = << >>
  <2>1. Elements(todo') = {}
    BY <1>3, EmptyFacts
  <2>2. \A c \in Node : queue'[c] = << >>
    BY <2>1 DEF RunInv, QueueInv, Holds, FlushesOn
  <2>3. PICK none \in Seq(Frames) : none = << >> /\ Elements(none) = {}
    BY FrameLists
  <2>4. Ends(none) = << >>
    BY <2>3, EndsFacts DEF NoneEnds
  <2>5. Executing' = << >>
    BY <1>3, <2>3, <2>4 DEF Executing, Ends
  <2> QED  BY <1>1, <1>3, <2>2, <2>5, CloseStep
<1> QED  BY <1>2, <1>3

LEMMA PoppedMove ==
  ASSUME RunInv, RunInv', todo # << >>, Head(todo)[1] # "done",
         todo' = << >> \o Tail(todo), queue' = queue
  PROVE  Promise!Close \/ UNCHANGED Promise!vars
<1>1. PICK fs \in Seq(Frames) : fs = << >> /\ Elements(fs) = {}
  BY FrameLists
<1> QED  BY <1>1, QuietMove DEF NoneEnds

\* A call starts a handler, unless it is a call of the world.
LEMMA InEventMove ==
  ASSUME Tree, RunInv, RunInv', InEvent
  PROVE  \/ \E c \in Node : Promise!Begin(c)
         \/ Promise!Close \/ UNCHANGED Promise!vars
<1>1. /\ todo # << >> /\ Head(todo)[1] = "raise" /\ queue' = queue
      /\ Arg \in Event /\ Provide[Arg] \in Node
  BY DoingFacts, TreeFacts DEF InEvent, RunInv, IInv
<1>2. CASE Provide[Arg] = Null
  <2>1. PICK fs \in Seq(Frames) :
          todo' = fs \o Tail(todo) /\ \A f \in Elements(fs) : f[1] \notin {"done", "drain"}
    BY <1>2, WorldCallStacked
  <2> QED  BY <1>1, <2>1, QuietMove DEF NoneEnds
<1>3. CASE Provide[Arg] # Null
  <2>1. PICK c \in Component : c = Provide[Arg] /\ c \in Node
    BY <1>1, <1>3 DEF Node
  <2>2. PICK fs \in Seq(Frames) :
          /\ todo' = fs \o Tail(todo) /\ Holds(Elements(fs), {"flush", "drain"}, c)
          /\ Ends(fs) = <<c>> /\ ~Holds(Elements(Tail(todo)), {"done"}, c)
    BY <2>1, CallStacked
  <2>3. PICK t \in Seq(Frames) : t = Tail(todo)
    BY <1>1, TopFacts
  <2>4. Executing' = <<c>> \o Executing
    <3>1. Ends(t) = Executing
      BY <1>1, <2>3, ExecutingFacts
    <3> QED  BY <2>2, <2>3, <3>1, MoreExecuting
  <2>5. c \notin Elements(Executing)
    <3>1. ~Holds(Elements(todo), {"done"}, c)
      BY <1>1, <2>2, TopFacts DEF Holds
    <3> QED  BY <3>1, NotExecuting
  <2>6. todo' # << >>
    <3>1. Elements(fs \o t) = Elements(fs) \cup Elements(t)
      BY ConcatFacts
    <3>2. Elements(todo') # {}
      BY <2>2, <2>3, <3>1 DEF Holds
    <3> QED  BY <3>2, EmptyFacts
  <2> QED  BY <1>1, <2>1, <2>4, <2>5, <2>6, BeginStep
<1> QED  BY <1>2, <1>3

\* A deferred statement is a handler of its component.
LEMMA DeferredMove ==
  ASSUME Tree, RunInv, Deferred
  PROVE  \E c \in Node : Promise!Begin(c)
<1>1. PICK c \in Node : c = Owner[Arg]
  BY FlushAssumption DEF Deferred, Node
<1>2. /\ todo # << >> /\ Head(todo)[1] = "raise" /\ queue' = queue /\ Tail(todo) = << >>
  BY DoingFacts, AloneFacts DEF Deferred, RunInv, IInv
<1>3. Ends(todo') = <<c>> /\ todo' \in Seq(Frames)
  BY <1>1, DeferredStacked
<1>4. PICK none \in Seq(Frames) : none = << >> /\ Elements(none) = {}
  BY FrameLists
<1>5. Ends(none) = << >>
  BY <1>4, EndsFacts DEF NoneEnds
<1>6. Executing = << >>
  BY <1>2, <1>4, <1>5, ExecutingFacts
<1>7. Executing' = <<c>> \o Executing
  <2>1. Executing' = Ends(todo')
    BY <1>2, ExecutingFacts
  <2>2. <<c>> \o << >> = <<c>>
    OBVIOUS
  <2> QED  BY <1>3, <1>6, <2>1, <2>2
<1>8. c \notin Elements(Executing)
  BY <1>6, EmptyFacts
<1>9. todo' # << >>
  <2>1. Ends(todo') # << >>
    BY <1>3
  <2> QED  BY <1>4, <1>5, <2>1
<1> QED  BY <1>2, <1>7, <1>8, <1>9, BeginStep

\* An out event is put in the queue of its recipient, or handled by the world at once.
LEMMA OutEventMove ==
  ASSUME Tree, RunInv, RunInv', OutEvent
  PROVE  \/ \E c \in Node : \E e \in Event : Promise!Post(c, e)
         \/ Promise!Close \/ UNCHANGED Promise!vars
<1>1. /\ todo # << >> /\ Head(todo)[1] = "raise" /\ Arg \in Event /\ Require[Arg] \in Node
      /\ Elements(todo) = {Head(todo)} \cup Elements(Tail(todo))
  BY OutFacts
<1>2. PICK fs \in Seq(Frames) :
        todo' = fs \o Tail(todo) /\ \A f \in Elements(fs) : f[1] \in {"flush", "activity"}
  BY OutStacked
<1>3. NoneEnds(fs)
  BY <1>2 DEF NoneEnds
<1>4. CASE queue' = queue
  BY <1>1, <1>2, <1>3, <1>4, QuietMove
<1>5. CASE queue' = [queue EXCEPT ![Require[Arg]] = Append(queue[Require[Arg]], Arg)]
  <2>1. Executing' = Executing
    BY <1>1, <1>2, <1>3, SameExecuting
  <2>2. activity' # 0
    BY DEF OutEvent, EnterActivity
  <2>3. Elements(todo') # {}
    BY <2>2 DEF RunInv, IInv, ActivityInv
  <2>4. todo' # << >>
    BY <2>3, EmptyFacts
  <2> QED  BY <1>1, <1>5, <2>1, <2>4, PostStep
<1>6. \/ queue' = queue
      \/ queue' = [queue EXCEPT ![Require[Arg]] = Append(queue[Require[Arg]], Arg)]
  BY Zenon DEF OutEvent, Recipient
<1> QED  BY <1>4, <1>5, <1>6

\* A handler ends; the flush of its component is still to come.
LEMMA DoneMove ==
  ASSUME Tree, RunInv, Done
  PROVE  Promise!End
<1>1. /\ todo # << >> /\ Head(todo)[1] = "done" /\ todo' = << >> \o Tail(todo)
      /\ queue' = queue /\ defer' = defer
  BY DEF Done, Doing, Do
<1>2. todo' = Tail(todo)
  BY <1>1, Popped
<1>3. Supported(Head(todo), Elements(Tail(todo)))
  BY <1>1, TopFacts DEF Rests
<1>4. Elements(todo') # {}
  BY <1>1, <1>2, <1>3 DEF Supported, Holds
<1>5. todo' # << >>
  BY <1>4, EmptyFacts
<1>6. Executing # << >> /\ Executing' = Tail(Executing)
  BY <1>1, <1>2, ExecutingFacts
<1> QED  BY <1>1, <1>5, <1>6, EndStep

\* The event that waits longest is taken from the queue.
LEMMA DrainMove ==
  ASSUME Tree, RunInv, Drain
  PROVE  \E c \in Node : Promise!Take(c)
<1>1. PICK c \in Node : c = Arg
  BY DoingFacts DEF Drain, RunInv, IInv
<1>2. /\ todo # << >> /\ queue[c] # << >> /\ queue' = [queue EXCEPT ![c] = Tail(queue[c])]
      /\ todo \in Seq(Frames)
  BY <1>1, DoingFacts DEF Drain, RunInv, IInv, TypeOK
<1>3. PICK fs \in Seq(Frames) :
        /\ todo' = fs \o todo /\ Ends(fs) = <<c>> /\ ~Holds(Elements(todo), {"done"}, c)
  BY <1>1, TakeStacked
<1>4. PICK t \in Seq(Frames) : t = todo
  BY <1>2
<1>5. Executing' = <<c>> \o Executing
  <2>1. Ends(t) = Executing
    BY <1>2, <1>4, ExecutingFacts
  <2> QED  BY <1>3, <1>4, <2>1, MoreExecuting
<1>6. c \notin Elements(Executing)
  BY <1>3, NotExecuting
<1>7. todo' # << >>
  <2>1. Elements(fs \o t) = Elements(fs) \cup Elements(t)
    BY ConcatFacts
  <2>2. Head(todo) \in Elements(todo)
    BY <1>2, TopFacts
  <2>3. Elements(todo') # {}
    BY <1>3, <1>4, <2>1, <2>2
  <2> QED  BY <2>3, EmptyFacts
<1> QED  BY <1>2, <1>5, <1>6, <1>7, TakeStep

LEMMA StartFlushMove ==
  ASSUME Tree, RunInv, RunInv', StartFlush
  PROVE  Promise!Close \/ UNCHANGED Promise!vars
<1>1. /\ todo # << >> /\ Head(todo)[1] = "flush" /\ Arg \in Node /\ Sync \in BOOLEAN
      /\ queue' = queue
  BY DoingFacts DEF StartFlush, RunInv, IInv
<1>2. PICK f \in Frames : f = <<"drain", Arg, Sync>> /\ f[1] = "drain"
  BY <1>1, MakeFrames
<1>3. PICK fs \in Seq(Frames) : fs = <<f>> /\ Elements(fs) = {f}
  BY FrameLists
<1>4. todo' = fs \o Tail(todo)
  BY <1>2, <1>3 DEF StartFlush, Do
<1> QED  BY <1>1, <1>2, <1>3, <1>4, QuietMove DEF NoneEnds

LEMMA EndFlushMove ==
  ASSUME Tree, RunInv, RunInv', EndFlush
  PROVE  Promise!Close \/ UNCHANGED Promise!vars
<1>1. /\ todo # << >> /\ Head(todo)[1] = "drain" /\ Arg \in Node /\ deferred[Arg] \in Node
      /\ queue' = queue /\ todo' = FlushTarget \o Tail(todo)
  BY DoingFacts DEF EndFlush, Do, RunInv, IInv, TypeOK
<1>2. PICK f \in Frames : f = <<"flush", deferred[Arg], FALSE>> /\ f[1] = "flush"
  BY <1>1, MakeFrames
<1>3. FlushTarget = << >> \/ FlushTarget = <<f>>
  BY <1>2 DEF FlushTarget
<1>4. /\ << >> \in Seq(Frames) /\ Elements(<< >>) = {}
      /\ <<f>> \in Seq(Frames) /\ Elements(<<f>>) = {f}
  BY FrameLists
<1>5. PICK fs \in Seq(Frames) : fs = FlushTarget /\ NoneEnds(fs)
  BY <1>2, <1>3, <1>4 DEF NoneEnds
<1> QED  BY <1>1, <1>5, QuietMove

LEMMA TriggerMove ==
  ASSUME RunInv, NEW e \in Event \cup Statement, Trigger(e)
  PROVE  Promise!Open
<1>1. PICK f \in Frames : f = <<"raise", e>> /\ f[1] = "raise"
  BY MakeFrames
<1>2. PICK fs \in Seq(Frames) : fs = <<f>> /\ Elements(fs) = {f}
  BY FrameLists
<1>3. PICK none \in Seq(Frames) : none = << >> /\ Elements(none) = {}
  BY FrameLists
<1>4. Ends(fs) = << >> /\ Ends(none) = << >>
  BY <1>1, <1>2, <1>3, EndsFacts DEF NoneEnds
<1>5. todo = none /\ todo' = fs /\ queue' = queue
  BY <1>1, <1>2, <1>3 DEF Trigger
<1>6. Executing' = Executing
  BY <1>4, <1>5 DEF Executing, Ends
<1>7. todo = << >> /\ todo' # << >>
  BY <1>2, <1>3, <1>5
<1> QED  BY <1>5, <1>6, <1>7, OpenStep

LEMMA NextMove ==
  ASSUME Tree, RunInv, [Next]_vars
  PROVE  [Promise!Next]_(Promise!vars)
<1>1. RunInv'
  BY NextRun
<1>2. CASE InEvent
  BY <1>1, <1>2, InEventMove DEF Promise!Next
<1>3. CASE OutEvent
  BY <1>1, <1>3, OutEventMove DEF Promise!Next
<1>4. CASE Deferred
  BY <1>4, DeferredMove DEF Promise!Next
<1>5. CASE Done
  BY <1>5, DoneMove DEF Promise!Next
<1>6. CASE Drain
  BY <1>6, DrainMove DEF Promise!Next
<1>7. CASE StartFlush
  BY <1>1, <1>7, StartFlushMove DEF Promise!Next
<1>8. CASE EndFlush
  BY <1>1, <1>8, EndFlushMove DEF Promise!Next
<1>9. CASE Leave \/ ResetActivity \/ Undefer
  <2>1. /\ todo # << >> /\ Head(todo)[1] # "done" /\ todo' = << >> \o Tail(todo)
        /\ queue' = queue
    BY <1>9 DEF Leave, ResetActivity, Undefer, Doing, Do
  <2>2. Promise!Close \/ UNCHANGED Promise!vars
    BY <1>1, <2>1, PoppedMove
  <2> QED  BY <2>2 DEF Promise!Next
<1>10. ASSUME NEW e \in Event \cup Statement, Trigger(e)
       PROVE  Promise!Next
  BY <1>10, TriggerMove DEF Promise!Next
<1>11. CASE UNCHANGED vars
  <2>1. todo' = todo /\ queue' = queue
    BY <1>11 DEF vars
  <2>2. Executing' = Executing
    BY <2>1 DEF Executing
  <2> QED  BY <2>1, <2>2, Zenon DEF Promise!vars
<1> QED  BY <1>2, <1>3, <1>4, <1>5, <1>6, <1>7, <1>8, <1>9, <1>10, <1>11 DEF Next, Step

LEMMA InitMove ==
  ASSUME Init
  PROVE  Promise!Init
<1>1. PICK none \in Seq(Frames) : none = << >> /\ Elements(none) = {}
  BY FrameLists
<1>2. Ends(none) = << >>
  BY <1>1, EndsFacts DEF NoneEnds
<1>3. Executing = << >>
  BY <1>1, <1>2 DEF Executing, Ends, Init
<1>4. todo = << >> /\ queue = [n \in Node |-> << >>]
  BY DEF Init
<1> QED  BY <1>3, <1>4, Zenon DEF Promise!Init

\* In every tree of components the wrappers of events and runtime::flush implement
\* RunToCompletion: a handler of a component does not start while another one of the
\* same component executes, queues are emptied in order and by the component's own
\* flush, and no out event is left in a queue when the event of the outside world that
\* led to it is done.
THEOREM TreesRunToCompletion ==
  ASSUME Tree
  PROVE  Spec => RunsToCompletion
BY InitMove, NextMove, RunInvariance, PTL DEF Spec, RunsToCompletion, Promise!Spec
===============================================================================
