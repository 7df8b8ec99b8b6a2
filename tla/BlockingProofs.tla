----------------------------- MODULE BlockingProofs -----------------------------
(***************************************************************************)
(* Proofs about module Blocking, for every system of components: any       *)
(* ports, any handlers and any number of clients.                          *)
(*                                                                         *)
(* A call that was blocked collaterally goes on without looking again at   *)
(* the port it calls, and a coroutine that blocks may free more than one   *)
(* of them at once.  MCBlockingRelay.cfg is a system in which both happen: *)
(* ReturnsAfterReply and SelfIsActive fail there.  The theorems say what   *)
(* the pump guarantees otherwise: OneCallPerPort and OneRelayed are their  *)
(* hypotheses.  CallsForClients, the hypothesis of the last one, is about  *)
(* the handlers: when a call that no client waits for blocks for ever, the *)
(* clients cannot tell that it is left.                                    *)
(***************************************************************************)
EXTENDS Blocking, ListProofs

\* No call of a port that blocks begins while another one is blocked on that port.
OneCallPerPort == Doing("enter") /\ Arg \in Blocks => BlockedOn(Arg) = {}

\* A coroutine that blocks frees at most one call of its component.
OneRelayed == Doing("park") /\ skip[Owner[Arg]] # Arg => Len(Relayed(Arg)) <= 1

-------------------------------------------------------------------------------
(***************************************************************************)
(* The inductive invariant.                                                *)
(***************************************************************************)

\* The frames below the top of a stack: a coroutine waits in its top frame.
Plain == {f \in Frames : f[1] \notin {"unpark", "worker"}}

StackInv ==
  /\ queue \in Seq(Seq(Plain))
  /\ \A k \in 1..Len(todo) : todo[k] # << >> => Tail(todo[k]) \in Seq(Plain)

\* Every coroutine is in one list, once.
ListInv ==
  /\ Distinct(coroutines) /\ Distinct(collateral) /\ Distinct(switch)
  /\ Elements(coroutines) \cap Elements(collateral) = {}
  /\ active \in Elements(coroutines)

\* The coroutine that runs is neither blocked nor finished; a finished one has no port.
ActiveInv ==
  /\ port[active] = None /\ ~finished[active]
  /\ \A k \in 1..Len(todo) : finished[k] => port[k] = None

\* A coroutine that has a port waits in block.
ParkedInv ==
  \A k \in Elements(coroutines) : port[k] # None =>
    todo[k] # << >> /\ Head(todo[k]) = <<"unpark", port[k]>>

\* A collaterally blocked coroutine is about to enter the component.
CollateralInv ==
  \A k \in Elements(collateral) :
    ~finished[k] /\ port[k] # None /\ todo[k] # << >> /\ Head(todo[k])[1] = "enter"

\* A coroutine that will go on is blocked on a port that was replied to.
SwitchInv ==
  \A k \in Elements(switch) :
    k \in Elements(coroutines) /\ port[k] # None /\ port[k] \notin awaiting

\* The coroutine that goes on has its reply.
RepliedInv ==
  todo[active] # << >> /\ Head(todo[active])[1] = "unpark" => Head(todo[active])[2] \notin awaiting

IInv ==
  /\ TypeOK /\ StackInv /\ ListInv /\ ActiveInv
  /\ ParkedInv /\ CollateralInv /\ SwitchInv /\ RepliedInv

\* The other coroutines are blocked or finished.
OthersInv ==
  \A k \in Elements(coroutines) \ {active} : finished[k] \/ port[k] # None

-------------------------------------------------------------------------------
\* No handler of an event of the outside world and no deferred statement makes a call:
\* every call is made for a client.
CallsForClients ==
  \A x \in World \cup Statement : \A i \in 1..Len(Body[x]) : Body[x][i][1] # "call"

\* The frames of a call that has not returned, and what is left when it has.
CallOps == {"call", "enter", "block", "park", "unpark"}
EndOps == {"deferred", "collateral", "switch"}

\* What comes below what on a stack s.
Shaped(s) ==
  \A i \in 1..Len(s) :
    /\ s[i][1] \in CallOps => \E j \in i+1..Len(s) : s[j][1] = "return"
    /\ s[i][1] \in {"return", "worker"} \cup EndOps => \A j \in i+1..Len(s) : s[j][1] \in EndOps
    /\ s[i][1] = "switch" /\ i > 1 => s[i-1][1] = "collateral"

Returns(s) == {t \in Client : <<"return", t>> \in Elements(s)}

ShapeInv ==
  /\ \A k \in 1..Len(todo) : Shaped(todo[k])
  /\ \A i \in 1..Len(queue) : Shaped(queue[i]) /\ \A j \in 1..Len(queue[i]) : queue[i][j][1] \notin EndOps

\* A call that has not returned has a client that waits for it, and only it.
WaitingInv ==
  /\ \A k \in 1..Len(todo) : \A t \in Returns(todo[k]) : client[t] = "waiting"
  /\ \A i \in 1..Len(queue) : \A t \in Returns(queue[i]) : client[t] = "waiting"
  /\ \A j, k \in 1..Len(todo) : j # k => Returns(todo[j]) \cap Returns(todo[k]) = {}
  /\ \A i, j \in 1..Len(queue) : i # j => Returns(queue[i]) \cap Returns(queue[j]) = {}
  /\ \A k \in 1..Len(todo) : \A i \in 1..Len(queue) : Returns(todo[k]) \cap Returns(queue[i]) = {}

\* A coroutine in no list is finished, and a finished one has nothing left to do.
FinishedInv ==
  \A k \in 1..Len(todo) :
    /\ k \in Elements(coroutines) \cup Elements(collateral) \/ finished[k]
    /\ finished[k] => \A i \in 1..Len(todo[k]) : todo[k][i][1] \in EndOps \cup {"never"}
    /\ k # active /\ ~finished[k] => todo[k] # << >> /\ Head(todo[k])[1] \in {"unpark", "enter"}

\* What is left to do has been done before the pump waits for events.
LeftInv ==
  todo[active] # << >> =>
    /\ Head(todo[active])[1] = "worker" => switch = << >>
    /\ Head(todo[active])[1] \in {"switch", "worker"} =>
         unblocked = << >> \/ \E k \in 1..Len(todo) : k # active /\ ~finished[k]

\* A component that counts as handling an event has a wrapper or a flush to end.
HandlingInv ==
  \A c \in Component : handling[c] # 0 =>
    \E k \in 1..Len(todo) : \E f \in Elements(todo[k]) : f \in {<<"leave", c>>, <<"drain", c>>}

CleanInv == ShapeInv /\ WaitingInv /\ FinishedInv /\ LeftInv /\ HandlingInv
-------------------------------------------------------------------------------
(***************************************************************************)
(* Lists.                                                                  *)
(***************************************************************************)

\* One place of a list is changed.
LEMMA UpdateFacts ==
  ASSUME NEW A, NEW s \in Seq(A), NEW k \in 1..Len(s), NEW x \in A
  PROVE  /\ [s EXCEPT ![k] = x] \in Seq(A)
         /\ Len([s EXCEPT ![k] = x]) = Len(s)
         /\ [s EXCEPT ![k] = x][k] = x
         /\ \A j \in 1..Len(s) : j # k => [s EXCEPT ![k] = x][j] = s[j]
<1>1. s \in [1..Len(s) -> A] /\ Len(s) \in Nat
  OBVIOUS
<1>2. [s EXCEPT ![k] = x] \in [1..Len(s) -> A]
  BY <1>1
<1>3. [s EXCEPT ![k] = x] \in Seq(A) /\ Len([s EXCEPT ![k] = x]) = Len(s)
  BY <1>1, <1>2
<1> QED  BY <1>1, <1>3

\* Every place of a list is changed.
LEMMA MapFacts ==
  ASSUME NEW A, NEW n \in Nat, NEW f \in [1..n -> A]
  PROVE  f \in Seq(A) /\ Len(f) = n
OBVIOUS

\* An element is put behind a list.
LEMMA BehindFacts ==
  ASSUME NEW A, NEW s \in Seq(A), NEW x \in A
  PROVE  /\ Append(s, x) \in Seq(A) /\ Len(Append(s, x)) = Len(s) + 1
         /\ Append(s, x)[Len(s) + 1] = x
         /\ \A j \in 1..Len(s) : Append(s, x)[j] = s[j]
OBVIOUS

\* The list without the elements in S.
LEMMA WithoutFacts ==
  ASSUME NEW A, NEW s \in Seq(A), NEW S
  PROVE  /\ Without(s, S) \in Seq(A)
         /\ Elements(Without(s, S)) = Elements(s) \ S
         /\ Distinct(s) => Distinct(Without(s, S))
BY KeepFacts DEF Without

\* A list backwards.
LEMMA ReversedFacts ==
  ASSUME NEW A, NEW s \in Seq(A)
  PROVE  /\ Reversed(s) \in Seq(A)
         /\ Elements(Reversed(s)) = Elements(s)
         /\ Distinct(s) => Distinct(Reversed(s))
<1>1. Len(s) \in Nat /\ \A i \in 1..Len(s) : s[i] \in A /\ Len(s) + 1 - i \in 1..Len(s)
  OBVIOUS
<1>2. Reversed(s) \in [1..Len(s) -> A]
  BY <1>1 DEF Reversed
<1>3. Reversed(s) \in Seq(A) /\ Len(Reversed(s)) = Len(s)
  BY <1>1, <1>2, MapFacts
<1>4. \A i \in 1..Len(s) : Reversed(s)[i] = s[Len(s) + 1 - i]
  BY DEF Reversed
<1>5. Elements(Reversed(s)) \subseteq Elements(s)
  BY <1>1, <1>3, <1>4 DEF Elements
<1>6. Elements(s) \subseteq Elements(Reversed(s))
  <2>1. ASSUME NEW i \in 1..Len(s)
        PROVE  s[i] \in Elements(Reversed(s))
    <3>1. PICK j \in 1..Len(s) : j = Len(s) + 1 - i
      BY <1>1
    <3>2. Len(s) + 1 - j = i
      BY <1>1, <3>1
    <3>3. Reversed(s)[j] = s[i]
      BY <1>4, <3>1, <3>2
    <3> QED  BY <1>3, <3>3 DEF Elements
  <2> QED  BY <2>1 DEF Elements
<1>7. ASSUME Distinct(s)
      PROVE  Distinct(Reversed(s))
  <2>1. ASSUME NEW i \in 1..Len(s), NEW j \in 1..Len(s), Reversed(s)[i] = Reversed(s)[j]
        PROVE  i = j
    <3>1. PICK a \in 1..Len(s), b \in 1..Len(s) : a = Len(s) + 1 - i /\ b = Len(s) + 1 - j
      BY <1>1
    <3>2. s[a] = s[b]
      BY <1>4, <2>1, <3>1
    <3>3. a = b
      BY <1>7, <3>2 DEF Distinct
    <3> QED  BY <1>1, <3>1, <3>3
  <2> QED  BY <1>3, <2>1 DEF Distinct
<1> QED  BY <1>3, <1>5, <1>6, <1>7

\* Nothing is in both lists.
Apart(p, q) == Elements(p) \cap Elements(q) = {}

\* One list behind another.
LEMMA ConcatDistinct ==
  ASSUME NEW A, NEW p \in Seq(A), NEW q \in Seq(A), Distinct(p), Distinct(q), Apart(p, q)
  PROVE  Distinct(p \o q)
<1>1. /\ Len(p) \in Nat /\ Len(q) \in Nat
      /\ Len(p \o q) = Len(p) + Len(q)
      /\ \A i \in 1..Len(p) : (p \o q)[i] = p[i]
      /\ \A i \in 1..Len(q) : (p \o q)[Len(p) + i] = q[i]
  BY ConcatFacts
<1>2. PICK s : s = p \o q
  OBVIOUS
<1>3. ASSUME NEW i \in 1..Len(s)
      PROVE  \/ i \in 1..Len(p) /\ s[i] = p[i]
             \/ \E j \in 1..Len(q) : i = Len(p) + j /\ s[i] = q[j]
  <2>1. CASE i <= Len(p)
    BY <1>1, <1>2, <2>1
  <2>2. CASE i > Len(p)
    <3>1. i - Len(p) \in 1..Len(q)
      BY <1>1, <1>2, <2>2
    <3>2. PICK j \in 1..Len(q) : j = i - Len(p)
      BY <3>1
    <3>3. i = Len(p) + j
      BY <1>1, <3>2
    <3> QED  BY <1>1, <1>2, <3>3
  <2> QED  BY <1>1, <2>1, <2>2
<1>4. ASSUME NEW i \in 1..Len(s), NEW j \in 1..Len(s), s[i] = s[j]
      PROVE  i = j
  <2>1. \A a \in 1..Len(p) : \A b \in 1..Len(q) : p[a] # q[b]
    BY DEF Elements, Apart
  <2>2. \/ i \in 1..Len(p) /\ s[i] = p[i]
        \/ \E a \in 1..Len(q) : i = Len(p) + a /\ s[i] = q[a]
    BY <1>3
  <2>3. \/ j \in 1..Len(p) /\ s[j] = p[j]
        \/ \E b \in 1..Len(q) : j = Len(p) + b /\ s[j] = q[b]
    BY <1>3
  <2> QED  BY <1>4, <2>1, <2>2, <2>3 DEF Distinct
<1> QED  BY <1>2, <1>4 DEF Distinct

-------------------------------------------------------------------------------
(***************************************************************************)
(* Frames and stacks.                                                      *)
(***************************************************************************)

\* What a frame is about follows from its name.
LEMMA FrameFacts ==
  ASSUME NEW f \in Frames
  PROVE  /\ f[1] \in {"call", "enter", "block", "park", "unpark", "reply"} =>
              f[2] \in Port /\ f = <<f[1], f[2]>>
         /\ f[1] \in {"ask", "out"} => f[2] \in World
         /\ f[1] = "defer" => f[2] \in Statement
         /\ f[1] \in {"flush", "drain", "leave"} => f[2] \in Component /\ f = <<f[1], f[2]>>
         /\ f[1] = "flush_as" => f[2] \in Component /\ f[3] \in Nat
         /\ f[1] = "return" => f[2] \in Client /\ f = <<f[1], f[2]>>
BY DEF Frames

\* The frames that the actions make.
LEMMA MakeFrames ==
  /\ <<"switch">> \in Plain /\ <<"deferred">> \in Plain
  /\ <<"collateral">> \in Plain /\ <<"never">> \in Plain
  /\ \A p \in Port : /\ <<"call", p>> \in Plain /\ <<"enter", p>> \in Plain /\ <<"block", p>> \in Plain
                     /\ <<"park", p>> \in Plain /\ <<"reply", p>> \in Plain
  /\ \A w \in World : <<"ask", w>> \in Plain /\ <<"out", w>> \in Plain
  /\ \A s \in Statement : <<"defer", s>> \in Plain
  /\ \A c \in Component : /\ <<"flush", c>> \in Plain /\ <<"drain", c>> \in Plain
                          /\ <<"leave", c>> \in Plain
                          /\ \A i \in Nat : <<"flush_as", c, i>> \in Plain
  /\ \A t \in Client : <<"return", t>> \in Plain
BY DEF Frames, Plain

\* What a handler does becomes frames.
LEMMA BodyFacts ==
  ASSUME NEW x \in Port \cup World \cup Statement
  PROVE  Body[x] \in Seq(Plain)
<1> DEFINE Todo == {"call", "reply"} \X Port \cup {"ask"} \X World \cup {"defer"} \X Statement
<1>1. Body[x] \in Seq(Todo)
  BY BlockingAssumption
<1>2. Todo \subseteq Plain
  BY DEF Frames, Plain
<1> HIDE DEF Todo
<1>3. Elements(Body[x]) \subseteq Plain
  BY <1>1, <1>2 DEF Elements
<1> QED  BY <1>1, <1>3, ListOf

\* Lists of frames.
LEMMA PlainLists ==
  /\ << >> \in Seq(Plain)
  /\ \A x \in Plain : <<x>> \in Seq(Plain)
  /\ \A x, y \in Plain : <<x, y>> \in Seq(Plain)
  /\ \A p, q \in Seq(Plain) : p \o q \in Seq(Plain)
OBVIOUS

\* A list of plain frames is one of frames, and so is what is below its top.
LEMMA PlainFacts ==
  ASSUME NEW s \in Seq(Plain)
  PROVE  /\ s \in Seq(Frames)
         /\ s # << >> => /\ Tail(s) \in Seq(Plain) /\ Head(s) \in Plain
                         /\ Head(s)[1] # "unpark" /\ Head(s)[1] # "worker"
<1>1. Plain \subseteq Frames
  BY DEF Plain
<1>2. s \in Seq(Frames)
  BY <1>1, EmptyFacts, ListOf
<1>3. s # << >> => Tail(s) \in Seq(Plain) /\ Head(s) \in Plain
  OBVIOUS
<1> QED  BY <1>2, <1>3 DEF Plain

\* Frames of which only the top one is not plain, on plain ones.
LEMMA TopFacts ==
  ASSUME NEW fs \in Seq(Frames), fs # << >>, Tail(fs) \in Seq(Plain), NEW s \in Seq(Plain)
  PROVE  /\ fs \o s \in Seq(Frames) /\ fs \o s # << >>
         /\ Head(fs \o s) = Head(fs) /\ Tail(fs \o s) \in Seq(Plain)
<1>1. s \in Seq(Frames)
  BY PlainFacts
<1>2. /\ fs \o s \in Seq(Frames) /\ Len(fs \o s) = Len(fs) + Len(s)
      /\ \A i \in 1..Len(fs) : (fs \o s)[i] = fs[i]
      /\ \A i \in 1..Len(s) : (fs \o s)[Len(fs) + i] = s[i]
  BY <1>1, ConcatFacts
<1>3. PICK y \in Seq(Frames) : y = fs \o s
  BY <1>2
<1>4. /\ Len(fs) \in Nat \ {0} /\ Len(s) \in Nat /\ Head(fs) = fs[1]
      /\ Len(Tail(fs)) = Len(fs) - 1 /\ \A i \in 1..Len(fs) - 1 : Tail(fs)[i] = fs[i + 1]
  BY TailFacts
<1>5. /\ Len(y) = Len(fs) + Len(s)
      /\ \A i \in 1..Len(fs) : y[i] = fs[i]
      /\ \A i \in 1..Len(s) : y[Len(fs) + i] = s[i]
  BY <1>2, <1>3
<1>6. y # << >> /\ y[1] = fs[1]
  BY <1>4, <1>5
<1>7. /\ Head(y) = y[1] /\ Tail(y) \in Seq(Frames) /\ Len(Tail(y)) = Len(y) - 1
      /\ \A i \in 1..Len(y) - 1 : Tail(y)[i] = y[i + 1]
  BY <1>6, TailFacts
<1>8. ASSUME NEW i \in 1..Len(y) - 1
      PROVE  Tail(y)[i] \in Plain
  <2>1. i \in Nat /\ Tail(y)[i] = y[i + 1]
    BY <1>7
  <2>2. CASE i < Len(fs)
    <3>1. i \in 1..Len(fs) - 1 /\ i + 1 \in 1..Len(fs)
      BY <1>4, <2>1, <2>2
    <3>2. y[i + 1] = Tail(fs)[i]
      BY <1>4, <1>5, <3>1
    <3>3. Tail(fs)[i] \in Plain
      BY <1>4, <3>1
    <3> QED  BY <2>1, <3>2, <3>3
  <2>3. CASE i >= Len(fs)
    <3>1. i + 1 - Len(fs) \in 1..Len(s)
      BY <1>4, <1>5, <2>1, <2>3
    <3>2. PICK j \in 1..Len(s) : j = i + 1 - Len(fs)
      BY <3>1
    <3>3. Len(fs) + j = i + 1
      BY <1>4, <2>1, <3>2
    <3>4. y[i + 1] = s[j] /\ s[j] \in Plain
      BY <1>5, <3>3
    <3> QED  BY <2>1, <3>4
  <2> QED  BY <1>4, <2>1, <2>2, <2>3
<1>9. Elements(Tail(y)) \subseteq Plain
  BY <1>7, <1>8 DEF Elements
<1> QED  BY <1>3, <1>6, <1>7, <1>9, ListOf

\* One frame on plain ones.
LEMMA OnTopFacts ==
  ASSUME NEW f \in Frames, NEW t \in Seq(Plain)
  PROVE  \E s \in Seq(Frames) : s = <<f>> \o t /\ s # << >> /\ Head(s) = f /\ Tail(s) \in Seq(Plain)
<1>1. <<f>> \in Seq(Frames) /\ <<f>> # << >> /\ Head(<<f>>) = f /\ Tail(<<f>>) = << >>
  OBVIOUS
<1>2. PICK fs \in Seq(Frames) : fs = <<f>> /\ fs # << >> /\ Head(fs) = f /\ Tail(fs) = << >>
  BY <1>1
<1>3. Tail(fs) \in Seq(Plain)
  BY <1>2, PlainLists
<1> QED  BY <1>2, <1>3, TopFacts

-------------------------------------------------------------------------------
(***************************************************************************)
(* A step of the coroutine that runs.                                      *)
(***************************************************************************)

\* What the action is about.
LEMMA DoingFacts ==
  ASSUME IInv, NEW op, Doing(op)
  PROVE  /\ active \in 1..Len(todo) /\ todo[active] \in Seq(Frames) /\ todo[active] # << >>
         /\ Tail(todo[active]) \in Seq(Plain)
         /\ Head(todo[active]) \in Frames /\ Head(todo[active])[1] = op
         /\ Arg = Head(todo[active])[2]
         /\ op \in {"call", "enter", "block", "park", "unpark", "reply"} =>
              /\ Arg \in Port /\ Owner[Arg] \in Component
              /\ Head(todo[active]) = <<op, Arg>>
         /\ op \in {"ask", "out"} => Arg \in World /\ Owner[Arg] \in Component
         /\ op = "defer" => Arg \in Statement
         /\ op \in {"flush", "flush_as", "drain", "leave"} => Arg \in Component
         /\ op = "flush_as" => Head(todo[active])[3] \in Nat
         /\ op = "return" => Arg \in Client
<1>1. active \in 1..Len(todo) /\ todo \in Seq(Seq(Frames))
  BY DEF IInv, TypeOK, PumpTypes, CoroutineTypes, Id
<1>2. todo[active] \in Seq(Frames) /\ todo[active] # << >> /\ Head(todo[active])[1] = op
  BY <1>1 DEF Doing
<1>3. Head(todo[active]) \in Frames
  BY <1>2
<1>4. Tail(todo[active]) \in Seq(Plain)
  BY <1>1, <1>2 DEF IInv, StackInv
<1>5. PICK f \in Frames : f = Head(todo[active])
  BY <1>3
<1>6. Arg = f[2] /\ f[1] = op
  BY <1>2, <1>5 DEF Arg
<1>7. \A x \in Port \cup World \cup Statement : Owner[x] \in Component
  BY BlockingAssumption
<1> QED  BY <1>1, <1>2, <1>3, <1>4, <1>5, <1>6, <1>7, FrameFacts

\* Only the top frame of the stack may be one that is not plain.
PlainBelow(s) == s # << >> => Tail(s) \in Seq(Plain)

\* In td the coroutine that runs has stack s, the others have theirs.
Replaced(td, s) ==
  /\ td \in Seq(Seq(Frames)) /\ Len(td) = Len(todo)
  /\ td[active] = s /\ \A k \in 1..Len(todo) : k # active => td[k] = todo[k]
  /\ \A k \in 1..Len(todo) : td[k] # << >> => Tail(td[k]) \in Seq(Plain)

LEMMA StackFacts ==
  ASSUME IInv, NEW s \in Seq(Frames), PlainBelow(s)
  PROVE  Replaced([todo EXCEPT ![active] = s], s)
<1> DEFINE td == [todo EXCEPT ![active] = s]
<1>1. active \in 1..Len(todo) /\ todo \in Seq(Seq(Frames))
  BY DEF IInv, TypeOK, PumpTypes, CoroutineTypes, Id
<1>2. /\ td \in Seq(Seq(Frames)) /\ Len(td) = Len(todo)
      /\ td[active] = s /\ \A k \in 1..Len(todo) : k # active => td[k] = todo[k]
  BY <1>1, UpdateFacts
<1>3. \A k \in 1..Len(todo) : todo[k] # << >> => Tail(todo[k]) \in Seq(Plain)
  BY DEF IInv, StackInv
<1> HIDE DEF td
<1>4. \A k \in 1..Len(todo) : td[k] # << >> => Tail(td[k]) \in Seq(Plain)
  BY <1>2, <1>3 DEF PlainBelow
<1>5. Replaced(td, s)
  BY <1>2, <1>4 DEF Replaced
<1> QED  BY <1>5 DEF td

\* A frame is replaced by plain ones.
LEMMA DoFacts ==
  ASSUME IInv, NEW op, Doing(op), NEW fs \in Seq(Plain), NEW td, td = Do(fs)
  PROVE  /\ td \in Seq(Seq(Frames)) /\ Len(td) = Len(todo)
         /\ td[active] = fs \o Tail(todo[active]) /\ td[active] \in Seq(Plain)
         /\ \A k \in 1..Len(todo) : k # active => td[k] = todo[k]
         /\ \A k \in 1..Len(todo) : td[k] # << >> => Tail(td[k]) \in Seq(Plain)
<1>1. Tail(todo[active]) \in Seq(Plain)
  BY DoingFacts
<1>2. fs \o Tail(todo[active]) \in Seq(Plain)
  BY <1>1, PlainLists
<1>3. PICK s \in Seq(Plain) : s = fs \o Tail(todo[active])
  BY <1>2
<1>4. s \in Seq(Frames) /\ PlainBelow(s)
  BY PlainFacts DEF PlainBelow
<1>5. td = [todo EXCEPT ![active] = s]
  BY <1>3 DEF Do
<1>6. Replaced(td, s)
  BY <1>4, <1>5, StackFacts
<1> QED  BY <1>3, <1>6 DEF Replaced

\* Lists of stacks.
LEMMA QueueTypes ==
  ASSUME NEW q \in Seq(Seq(Plain))
  PROVE  q \in Seq(Seq(Frames))
<1>1. Seq(Plain) \subseteq Seq(Frames)
  BY PlainFacts
<1> QED  BY <1>1, EmptyFacts, ListOf

\* A step in which the coroutine that runs goes on.
LEMMA StackStep ==
  ASSUME IInv, NEW s \in Seq(Frames),
         s # << >> => Tail(s) \in Seq(Plain) /\ Head(s)[1] # "unpark",
         todo' = [todo EXCEPT ![active] = s],
         UNCHANGED <<active, collateral, port, component, finished>>,
         Elements(coroutines') \subseteq Elements(coroutines),
         queue' \in Seq(Seq(Plain))
  PROVE  /\ CoroutineTypes' /\ StackInv' /\ ActiveInv' /\ ParkedInv' /\ CollateralInv' /\ RepliedInv'
         /\ Id' = Id
<1>0. PlainBelow(s)
  BY DEF PlainBelow
<1>1. Replaced(todo', s)
  BY <1>0, StackFacts
<1>2. CoroutineTypes' /\ StackInv' /\ Id' = Id
  BY <1>1 DEF Replaced, IInv, TypeOK, CoroutineTypes, StackInv, Id
<1>3. ActiveInv'
  BY <1>1 DEF Replaced, IInv, ActiveInv
<1>4. Elements(coroutines) \subseteq 1..Len(todo) /\ Elements(collateral) \subseteq 1..Len(todo)
  BY DEF IInv, TypeOK, PumpTypes, Id
<1>5. ParkedInv'
  BY <1>1, <1>4 DEF Replaced, IInv, ActiveInv, ParkedInv
<1>6. CollateralInv'
  <2>1. active \notin Elements(collateral)
    BY DEF IInv, ListInv
  <2> QED  BY <1>1, <1>4, <2>1 DEF Replaced, IInv, CollateralInv
<1>7. RepliedInv'
  BY <1>1 DEF Replaced, RepliedInv
<1> QED  BY <1>2, <1>3, <1>5, <1>6, <1>7

\* The same, with plain frames.
LEMMA LocalStep ==
  ASSUME IInv, NEW op, Doing(op), NEW fs \in Seq(Plain), todo' = Do(fs),
         UNCHANGED <<active, collateral, port, component, finished>>,
         Elements(coroutines') \subseteq Elements(coroutines),
         queue' \in Seq(Seq(Plain))
  PROVE  /\ CoroutineTypes' /\ StackInv' /\ ActiveInv' /\ ParkedInv' /\ CollateralInv' /\ RepliedInv'
         /\ Id' = Id
<1>1. Tail(todo[active]) \in Seq(Plain)
  BY DoingFacts
<1>2. PICK s \in Seq(Plain) : s = fs \o Tail(todo[active])
  BY <1>1, PlainLists
<1>3. s \in Seq(Frames) /\ (s # << >> => Tail(s) \in Seq(Plain) /\ Head(s)[1] # "unpark")
  BY PlainFacts
<1>4. todo' = [todo EXCEPT ![active] = s]
  BY <1>2 DEF Do
<1> QED  BY <1>3, <1>4, StackStep

\* A step that leaves the lists of the pump as they are.
LEMMA PlainStep ==
  ASSUME IInv, NEW op, Doing(op), NEW fs \in Seq(Plain), todo' = Do(fs),
         UNCHANGED <<coroutines, collateral, switch, active, coroutineVars>>,
         queue' \in Seq(Seq(Plain)), unblocked' \in Seq(Port),
         \A k \in Elements(switch) : port[k] \notin awaiting',
         Id' = Id => RuntimeTypes' /\ EnvTypes'
  PROVE  IInv'
<1>1. /\ CoroutineTypes' /\ StackInv' /\ ActiveInv' /\ ParkedInv' /\ CollateralInv' /\ RepliedInv'
      /\ Id' = Id
  BY LocalStep DEF coroutineVars
<1>2. PumpTypes'
  BY <1>1 DEF IInv, TypeOK, PumpTypes
<1>3. ListInv'
  BY DEF IInv, ListInv
<1>4. SwitchInv'
  BY DEF IInv, SwitchInv, coroutineVars
<1> QED  BY <1>1, <1>2, <1>3, <1>4 DEF IInv, TypeOK

-------------------------------------------------------------------------------
(***************************************************************************)
(* Every action keeps the invariant.                                       *)
(***************************************************************************)

\* What most steps leave alone.
LEMMA UsualFacts ==
  ASSUME IInv
  PROVE  /\ queue \in Seq(Seq(Plain)) /\ unblocked \in Seq(Port)
         /\ \A k \in Elements(switch) : port[k] \notin awaiting
         /\ RuntimeTypes /\ EnvTypes
BY DEF IInv, TypeOK, StackInv, PumpTypes, SwitchInv

LEMMA ReturnStep ==
  ASSUME IInv, Return
  PROVE  IInv'
<1>1. << >> \in Seq(Plain) /\ Arg \in Client
  BY PlainLists, DoingFacts DEF Return
<1>2. EnvTypes'
  BY <1>1, UsualFacts DEF Return, EnvTypes
<1>3. Id' = Id => RuntimeTypes'
  BY UsualFacts DEF Return, RuntimeTypes, runtimeVars
<1> QED  BY <1>1, <1>2, <1>3, UsualFacts, PlainStep DEF Return, pumpVars

LEMMA DeferStep ==
  ASSUME IInv, Defer
  PROVE  IInv'
<1>1. << >> \in Seq(Plain) /\ Arg \in Statement
  BY PlainLists, DoingFacts DEF Defer
<1>2. EnvTypes'
  BY <1>1, UsualFacts DEF Defer, EnvTypes
<1>3. Id' = Id => RuntimeTypes'
  BY UsualFacts DEF Defer, RuntimeTypes, runtimeVars
<1> QED  BY <1>1, <1>2, <1>3, UsualFacts, PlainStep DEF Defer, pumpVars

LEMMA CallFreeStep ==
  ASSUME IInv, CallFree
  PROVE  IInv'
<1>1. Arg \in Port
  BY DoingFacts DEF CallFree
<1>2. PICK fs \in Seq(Plain) : fs = <<<<"enter", Arg>>>>
  BY <1>1, PlainLists, MakeFrames
<1>3. EnvTypes'
  BY UsualFacts DEF CallFree, EnvTypes, envVars
<1>4. Id' = Id => RuntimeTypes'
  BY UsualFacts DEF CallFree, RuntimeTypes, runtimeVars
<1> QED  BY <1>2, <1>3, <1>4, UsualFacts, PlainStep DEF CallFree, pumpVars, envVars

\* The call of a blocking port makes its component owe a reply: nobody else may be
\* blocked on the port.
LEMMA EnterStep ==
  ASSUME IInv, OneCallPerPort, Enter
  PROVE  IInv'
<1>1. Arg \in Port /\ Owner[Arg] \in Component /\ active \in Id /\ active \in Nat
  BY DoingFacts DEF Enter, Id
<1> DEFINE block == IF Arg \in Blocks THEN <<<<"block", Arg>>>> ELSE << >>
           leave == <<<<"flush", Owner[Arg]>>, <<"leave", Owner[Arg]>>>>
<1>2. block \in Seq(Plain)
  BY <1>1, PlainLists, MakeFrames
<1>3. leave \in Seq(Plain)
  BY <1>1, PlainLists, MakeFrames
<1>4. Body[Arg] \in Seq(Plain)
  BY <1>1, BodyFacts
<1> HIDE DEF block, leave
<1>5. PICK b \in Seq(Plain) : b = Body[Arg] \o block
  BY <1>2, <1>4, PlainLists
<1>6. PICK fs \in Seq(Plain) : fs = b \o leave
  BY <1>3, PlainLists
<1>7. todo' = Do(fs)
  BY <1>5, <1>6 DEF Enter, block, leave
<1>8. EnvTypes'
  BY UsualFacts DEF Enter, EnvTypes, envVars
<1>9. Id' = Id => RuntimeTypes'
  BY <1>1, UsualFacts DEF Enter, RuntimeTypes
<1>10. \A k \in Elements(switch) : port[k] \notin awaiting'
  BY DEF IInv, SwitchInv, OneCallPerPort, BlockedOn, Enter
<1> QED  BY <1>7, <1>8, <1>9, <1>10, UsualFacts, PlainStep DEF Enter, pumpVars, envVars

LEMMA LeaveStep ==
  ASSUME IInv, Leave
  PROVE  IInv'
<1>1. << >> \in Seq(Plain) /\ Arg \in Component
  BY PlainLists, DoingFacts DEF Leave
<1>2. EnvTypes'
  BY UsualFacts DEF Leave, EnvTypes, envVars
<1>3. Id' = Id => RuntimeTypes'
  BY <1>1, UsualFacts DEF Leave, RuntimeTypes
<1> QED  BY <1>1, <1>2, <1>3, UsualFacts, PlainStep DEF Leave, pumpVars, envVars

LEMMA AskSyncStep ==
  ASSUME IInv, AskSync
  PROVE  IInv'
<1>1. Arg \in World /\ Owner[Arg] \in Component /\ active \in Id /\ active \in Nat
  BY DoingFacts DEF AskSync, Id
<1>2. PICK fs \in Seq(Plain) : fs = <<<<"out", Arg>>, <<"leave", Owner[Arg]>>>>
  BY <1>1, PlainLists, MakeFrames
<1>3. EnvTypes'
  BY UsualFacts DEF AskSync, EnvTypes, envVars
<1>4. Id' = Id => RuntimeTypes'
  BY <1>1, UsualFacts DEF AskSync, RuntimeTypes
<1> QED  BY <1>2, <1>3, <1>4, UsualFacts, PlainStep DEF AskSync, pumpVars, envVars

LEMMA AskStep ==
  ASSUME IInv, Ask
  PROVE  IInv'
<1>1. Arg \in World /\ Owner[Arg] \in Component /\ active \in Id /\ active \in Nat
  BY DoingFacts DEF Ask, Id
<1>2. PICK fs \in Seq(Plain) : fs = <<<<"leave", Owner[Arg]>>>>
  BY <1>1, PlainLists, MakeFrames
<1>3. EnvTypes'
  BY <1>1, UsualFacts DEF Ask, EnvTypes
<1>4. Id' = Id => RuntimeTypes'
  BY <1>1, UsualFacts DEF Ask, RuntimeTypes
<1> QED  BY <1>2, <1>3, <1>4, UsualFacts, PlainStep DEF Ask, pumpVars

LEMMA OutStep ==
  ASSUME IInv, Out
  PROVE  IInv'
<1>1. Arg \in World /\ Owner[Arg] \in Component
  BY DoingFacts DEF Out
<1>2. PICK fs \in Seq(Plain) : fs = IF handling[Owner[Arg]] = 0 THEN <<<<"flush", Owner[Arg]>>>> ELSE << >>
  BY <1>1, PlainLists, MakeFrames
<1>3. EnvTypes'
  BY UsualFacts DEF Out, EnvTypes, envVars
<1>4. Id' = Id => RuntimeTypes'
  BY <1>1, UsualFacts DEF Out, RuntimeTypes
<1> QED  BY <1>2, <1>3, <1>4, UsualFacts, PlainStep DEF Out, pumpVars, envVars

LEMMA FlushStep ==
  ASSUME IInv, Flush
  PROVE  IInv'
<1>1. Arg \in Component /\ active \in Id /\ active \in Nat
  BY DoingFacts DEF Flush, Id
<1>2. PICK fs \in Seq(Plain) : fs = <<<<"drain", Arg>>>>
  BY <1>1, PlainLists, MakeFrames
<1>3. EnvTypes'
  BY UsualFacts DEF Flush, EnvTypes, envVars
<1>4. Id' = Id => RuntimeTypes'
  BY <1>1, UsualFacts DEF Flush, RuntimeTypes
<1> QED  BY <1>2, <1>3, <1>4, UsualFacts, PlainStep DEF Flush, pumpVars, envVars

LEMMA FlushAsStep ==
  ASSUME IInv, FlushAs
  PROVE  IInv'
<1>1. Arg \in Component /\ Head(todo[active])[3] \in Nat
  BY DoingFacts DEF FlushAs
<1>2. PICK fs \in Seq(Plain) : fs = <<<<"drain", Arg>>>>
  BY <1>1, PlainLists, MakeFrames
<1>3. EnvTypes'
  BY UsualFacts DEF FlushAs, EnvTypes, envVars
<1>4. Id' = Id => RuntimeTypes'
  BY <1>1, UsualFacts DEF FlushAs, RuntimeTypes
<1> QED  BY <1>2, <1>3, <1>4, UsualFacts, PlainStep DEF FlushAs, pumpVars, envVars

LEMMA DrainStep ==
  ASSUME IInv, Drain
  PROVE  IInv'
<1>1. Arg \in Component /\ << >> \in Seq(Plain)
  BY DoingFacts, PlainLists DEF Drain
<1>2. EnvTypes'
  BY UsualFacts DEF Drain, EnvTypes, envVars
<1>3. pending[Arg] \in Seq(World)
  BY <1>1, UsualFacts DEF RuntimeTypes
<1>4. CASE pending[Arg] = << >>
  <2>1. /\ handling' = [handling EXCEPT ![Arg] = 0] /\ 0 \in Nat
        /\ UNCHANGED <<blocked, skip, pending, awaiting>>
    BY <1>4 DEF Drain
  <2>2. Id' = Id => RuntimeTypes'
    BY <1>1, <2>1, UsualFacts DEF RuntimeTypes
  <2> QED  BY <1>1, <1>2, <1>4, <2>2, UsualFacts, PlainStep DEF Drain, pumpVars, envVars
<1>5. CASE pending[Arg] # << >>
  <2>1. Head(pending[Arg]) \in World /\ Tail(pending[Arg]) \in Seq(World)
    BY <1>3, <1>5
  <2>2. Body[Head(pending[Arg])] \in Seq(Plain) /\ <<<<"drain", Arg>>>> \in Seq(Plain)
    BY <1>1, <2>1, BodyFacts, PlainLists, MakeFrames
  <2>3. PICK fs \in Seq(Plain) : fs = Body[Head(pending[Arg])] \o <<<<"drain", Arg>>>>
    BY <2>2, PlainLists
  <2>4. Id' = Id => RuntimeTypes'
    BY <1>1, <1>5, <2>1, UsualFacts DEF Drain, RuntimeTypes
  <2> QED  BY <1>2, <1>5, <2>3, <2>4, UsualFacts, PlainStep DEF Drain, pumpVars, envVars
<1> QED  BY <1>4, <1>5

LEMMA BlockStep ==
  ASSUME IInv, Block
  PROVE  IInv'
<1>1. Arg \in Port /\ Owner[Arg] \in Component /\ active \in Id /\ active \in Nat
  BY DoingFacts DEF Block, Id
<1>2. PICK fs \in Seq(Plain) : fs = <<<<"flush", Owner[Arg]>>, <<"park", Arg>>>>
  BY <1>1, PlainLists, MakeFrames
<1>3. EnvTypes'
  BY UsualFacts DEF Block, EnvTypes, envVars
<1>4. Id' = Id => RuntimeTypes'
  BY <1>1, UsualFacts DEF Block, RuntimeTypes
<1> QED  BY <1>2, <1>3, <1>4, UsualFacts, PlainStep DEF Block, pumpVars, envVars

LEMMA SkipBlockStep ==
  ASSUME IInv, SkipBlock
  PROVE  IInv'
<1>1. << >> \in Seq(Plain) /\ Arg \in Port /\ Owner[Arg] \in Component
  BY PlainLists, DoingFacts DEF SkipBlock
<1>2. EnvTypes'
  BY UsualFacts DEF SkipBlock, EnvTypes, envVars
<1>3. Id' = Id => RuntimeTypes'
  BY <1>1, UsualFacts DEF SkipBlock, RuntimeTypes
<1> QED  BY <1>1, <1>2, <1>3, UsualFacts, PlainStep DEF SkipBlock, pumpVars, envVars

LEMMA WorkerStep ==
  ASSUME IInv, Worker
  PROVE  IInv'
<1>1. queue \in Seq(Seq(Plain)) /\ queue # << >>
  BY UsualFacts DEF Worker
<1>2. Head(queue) \in Seq(Plain) /\ Tail(queue) \in Seq(Seq(Plain))
  BY <1>1
<1>3. <<<<"deferred">>>> \in Seq(Plain)
  BY PlainLists, MakeFrames
<1>4. PICK fs \in Seq(Plain) : fs = Head(queue) \o <<<<"deferred">>>>
  BY <1>2, <1>3, PlainLists
<1>5. queue' \in Seq(Seq(Frames))
  BY <1>2, QueueTypes DEF Worker
<1>6. EnvTypes'
  BY <1>5, UsualFacts DEF Worker, EnvTypes
<1>7. Id' = Id => RuntimeTypes'
  BY UsualFacts DEF Worker, RuntimeTypes, runtimeVars
<1> QED  BY <1>2, <1>4, <1>6, <1>7, UsualFacts, PlainStep DEF Worker, pumpVars

LEMMA WorkerDeferStep ==
  ASSUME IInv, NEW s \in Statement, WorkerDefer(s)
  PROVE  IInv'
<1>1. Owner[s] \in Component /\ Len(todo) \in Nat
  BY BlockingAssumption DEF IInv, TypeOK, CoroutineTypes
<1>2. Body[s] \in Seq(Plain) /\ <<<<"flush_as", Owner[s], Len(todo)>>>> \in Seq(Plain)
  BY <1>1, BodyFacts, PlainLists, MakeFrames
<1>3. PICK fs \in Seq(Plain) : fs = Body[s] \o <<<<"flush_as", Owner[s], Len(todo)>>>>
  BY <1>2, PlainLists
<1>4. EnvTypes'
  BY UsualFacts DEF WorkerDefer, EnvTypes
<1>5. Id' = Id => RuntimeTypes'
  BY UsualFacts DEF WorkerDefer, RuntimeTypes, runtimeVars
<1>6. PICK op : Doing(op)
  BY DEF WorkerDefer
<1> QED  BY <1>3, <1>4, <1>5, <1>6, UsualFacts, PlainStep DEF WorkerDefer, pumpVars

LEMMA WorkerDeferNoneStep ==
  ASSUME IInv, WorkerDeferNone
  PROVE  IInv'
<1>1. << >> \in Seq(Plain)
  BY PlainLists
<1>2. EnvTypes'
  BY UsualFacts DEF WorkerDeferNone, EnvTypes, envVars
<1>3. Id' = Id => RuntimeTypes'
  BY UsualFacts DEF WorkerDeferNone, RuntimeTypes, runtimeVars
<1> QED  BY <1>1, <1>2, <1>3, UsualFacts, PlainStep DEF WorkerDeferNone, pumpVars, envVars

\* The environment adds to the queue.
LEMMA PostStep ==
  ASSUME IInv, NEW post \in Seq(Plain), queue' = Append(queue, post),
         UNCHANGED <<pumpVars, todo, coroutineVars, runtimeVars, awaiting>>,
         queue' \in Seq(Seq(Frames)) => EnvTypes'
  PROVE  IInv'
<1>1. queue' \in Seq(Seq(Plain))
  BY UsualFacts
<1>2. EnvTypes'
  BY <1>1, QueueTypes
<1>3. PumpTypes' /\ CoroutineTypes' /\ RuntimeTypes'
  BY DEF IInv, TypeOK, PumpTypes, CoroutineTypes, RuntimeTypes, Id, pumpVars, coroutineVars, runtimeVars
<1>4. StackInv'
  BY <1>1 DEF IInv, StackInv
<1>5. ListInv' /\ ActiveInv'
  BY DEF IInv, ListInv, ActiveInv, pumpVars, coroutineVars
<1>6. ParkedInv' /\ CollateralInv' /\ SwitchInv' /\ RepliedInv'
  BY DEF IInv, ParkedInv, CollateralInv, SwitchInv, RepliedInv, pumpVars, coroutineVars
<1> QED  BY <1>2, <1>3, <1>4, <1>5, <1>6 DEF IInv, TypeOK

LEMMA ClientCallStep ==
  ASSUME IInv, NEW t \in Client, ClientCall(t)
  PROVE  IInv'
<1>1. Entry[t] \in Port /\ Calls[t] \in Nat
  BY BlockingAssumption
<1>2. PICK post \in Seq(Plain) : post = <<<<"call", Entry[t]>>, <<"return", t>>>>
  BY <1>1, PlainLists, MakeFrames
<1>3. queue' \in Seq(Seq(Frames)) => EnvTypes'
  BY <1>1, UsualFacts DEF ClientCall, EnvTypes
<1> QED  BY <1>2, <1>3, PostStep DEF ClientCall

LEMMA AnswerStep ==
  ASSUME IInv, NEW w \in World, Answer(w)
  PROVE  IInv'
<1>1. PICK post \in Seq(Plain) : post = <<<<"out", w>>>>
  BY PlainLists, MakeFrames
<1>2. queue' \in Seq(Seq(Frames)) => EnvTypes'
  BY UsualFacts DEF Answer, EnvTypes
<1> QED  BY <1>1, <1>2, PostStep DEF Answer

LEMMA QuietStep ==
  ASSUME IInv, UNCHANGED vars
  PROVE  IInv'
<1>1. TypeOK'
  BY DEF IInv, TypeOK, PumpTypes, CoroutineTypes, RuntimeTypes, EnvTypes, Id,
         vars, pumpVars, coroutineVars, runtimeVars, envVars
<1>2. StackInv' /\ ListInv' /\ ActiveInv'
  BY DEF IInv, StackInv, ListInv, ActiveInv, vars, pumpVars, coroutineVars, envVars
<1>3. ParkedInv' /\ CollateralInv' /\ SwitchInv' /\ RepliedInv'
  BY DEF IInv, ParkedInv, CollateralInv, SwitchInv, RepliedInv, vars, pumpVars, coroutineVars
<1> QED  BY <1>1, <1>2, <1>3 DEF IInv

\* The coroutine that goes on removes the finished ones.
LEMMA UnparkStep ==
  ASSUME IInv, Unpark
  PROVE  IInv'
<1>1. << >> \in Seq(Plain) /\ Arg \in Port /\ Owner[Arg] \in Component
  BY PlainLists, DoingFacts DEF Unpark
<1>2. /\ Unfinished \in Seq(Nat) /\ Distinct(Unfinished)
      /\ Elements(Unfinished) = {k \in Elements(coroutines) : ~finished[k]}
  <2>1. coroutines \in Seq(Nat) /\ Distinct(coroutines)
    BY DEF IInv, TypeOK, PumpTypes, ListInv
  <2>2. PICK S : S = {k \in Elements(coroutines) : ~finished[k]}
    OBVIOUS
  <2>3. PICK list : list = Keep(coroutines, S)
    OBVIOUS
  <2>4. list \in Seq(Nat) /\ Distinct(list) /\ Elements(list) = Elements(coroutines) \cap S
    BY <2>1, <2>3, KeepFacts
  <2>5. Unfinished = list
    BY <2>2, <2>3 DEF Unfinished
  <2>6. Elements(coroutines) \cap S = S
    BY <2>2
  <2> QED  BY <2>2, <2>4, <2>5, <2>6
<1>3. /\ CoroutineTypes' /\ StackInv' /\ ActiveInv' /\ ParkedInv' /\ CollateralInv' /\ RepliedInv'
      /\ Id' = Id
  BY <1>1, <1>2, UsualFacts, LocalStep DEF Unpark, coroutineVars, envVars
<1>4. active \in Elements(Unfinished)
  BY <1>2 DEF IInv, ListInv, ActiveInv
<1>5. ListInv'
  BY <1>2, <1>4 DEF IInv, ListInv, Unpark
<1>6. PumpTypes'
  BY <1>2, <1>3 DEF IInv, TypeOK, PumpTypes, Unpark
<1>7. RuntimeTypes' /\ EnvTypes'
  BY <1>1, <1>3, UsualFacts DEF Unpark, RuntimeTypes, EnvTypes, envVars
<1>8. SwitchInv'
  <2>1. \A k \in Elements(switch) : ~finished[k]
    BY DEF IInv, TypeOK, PumpTypes, SwitchInv, ActiveInv, Id
  <2> QED  BY <1>2, <2>1 DEF IInv, SwitchInv, Unpark, coroutineVars
<1> QED  BY <1>3, <1>5, <1>6, <1>7, <1>8 DEF IInv, TypeOK

\* find_blocked finds a coroutine that is blocked on the port.
LEMMA BlockedFacts ==
  ASSUME IInv, NEW p, BlockedOn(p) # {}
  PROVE  /\ FindBlocked(p) \in Seq(Nat) /\ FindBlocked(p) # << >>
         /\ Head(FindBlocked(p)) \in Elements(coroutines) /\ Head(FindBlocked(p)) \in Nat
         /\ port[Head(FindBlocked(p))] = p
<1>1. coroutines \in Seq(Nat)
  BY DEF IInv, TypeOK, PumpTypes
<1>2. FindBlocked(p) \in Seq(Nat) /\ Elements(FindBlocked(p)) = Elements(coroutines) \cap BlockedOn(p)
  BY <1>1, KeepFacts DEF FindBlocked
<1>3. Elements(FindBlocked(p)) = BlockedOn(p)
  BY <1>2 DEF BlockedOn
<1>4. FindBlocked(p) # << >>
  BY <1>3, EmptyFacts
<1>5. Head(FindBlocked(p)) \in Elements(FindBlocked(p)) /\ Head(FindBlocked(p)) \in Nat
  BY <1>2, <1>4, TailFacts
<1> QED  BY <1>2, <1>3, <1>4, <1>5 DEF BlockedOn

\* A reply: the coroutine that will go on was not going to before.
LEMMA ReleaseStep ==
  ASSUME IInv, Release
  PROVE  IInv'
<1>1. << >> \in Seq(Plain) /\ Arg \in Port /\ Owner[Arg] \in Component
  BY PlainLists, DoingFacts DEF Release
<1>2. /\ CoroutineTypes' /\ StackInv' /\ ActiveInv' /\ ParkedInv' /\ CollateralInv' /\ RepliedInv'
      /\ Id' = Id
  BY <1>1, UsualFacts, LocalStep DEF Release, coroutineVars, envVars
<1>3. RuntimeTypes' /\ EnvTypes'
  BY <1>1, <1>2, UsualFacts DEF Release, RuntimeTypes, EnvTypes, envVars
<1>4. switch \in Seq(Nat) /\ Distinct(switch)
  BY DEF IInv, TypeOK, PumpTypes, ListInv
<1>5. switch' \in Seq(Nat) /\ Distinct(switch') /\ SwitchInv'
  <2>1. CASE Arg \notin awaiting \/ BlockedOn(Arg) = {}
    <3>1. switch' = switch /\ awaiting' \subseteq awaiting
      BY <2>1 DEF Release, SwitchTo
    <3> QED  BY <1>4, <3>1 DEF Release, IInv, SwitchInv, coroutineVars
  <2>2. CASE Arg \in awaiting /\ BlockedOn(Arg) # {}
    <3>1. PICK k \in Nat : k = Head(FindBlocked(Arg)) /\ k \in Elements(coroutines) /\ port[k] = Arg
      BY <2>2, BlockedFacts
    <3>2. switch' = Append(switch, k) /\ awaiting' = awaiting \ {Arg}
      BY <2>2, <3>1 DEF Release, SwitchTo
    <3>3. k \notin Elements(switch)
      BY <2>2, <3>1 DEF IInv, SwitchInv
    <3>4. /\ switch' \in Seq(Nat) /\ Distinct(switch')
          /\ Elements(switch') = Elements(switch) \cup {k}
      BY <1>4, <3>2, <3>3, AppendFacts
    <3>5. port[k] # None
      BY <1>1, <3>1, BlockingAssumption
    <3> QED  BY <3>1, <3>2, <3>4, <3>5 DEF Release, IInv, SwitchInv, coroutineVars
  <2> QED  BY <2>1, <2>2
<1>6. ListInv'
  BY <1>5 DEF IInv, ListInv, Release
<1>7. PumpTypes'
  BY <1>2, <1>5 DEF IInv, TypeOK, PumpTypes, SwitchInv, Release
<1> QED  BY <1>2, <1>3, <1>5, <1>6, <1>7 DEF IInv, TypeOK

\* context_switch: the coroutine that waited for a reply goes on, or the worker does.
LEMMA ContextSwitchStep ==
  ASSUME IInv, ContextSwitch
  PROVE  IInv'
<1>1. /\ active \in 1..Len(todo) /\ Tail(todo[active]) \in Seq(Plain)
  BY DoingFacts DEF ContextSwitch
<1>2. CASE switch = << >>
  <2> DEFINE fs == <<<<"worker">>, <<"collateral">>, <<"switch">>>>
  <2>1. /\ fs \in Seq(Frames) /\ fs # << >> /\ Head(fs) = <<"worker">>
        /\ Tail(fs) = <<<<"collateral">>, <<"switch">>>>
    <3>1. <<"worker">> \in Frames /\ <<"collateral">> \in Frames /\ <<"switch">> \in Frames
      BY DEF Frames
    <3> QED  BY <3>1
  <2>2. Tail(fs) \in Seq(Plain)
    <3>1. <<<<"collateral">>, <<"switch">>>> \in Seq(Plain)
      BY PlainLists, MakeFrames
    <3> QED  BY <2>1, <3>1
  <2>3. todo' = Do(fs)
    BY <1>2 DEF ContextSwitch
  <2> HIDE DEF fs
  <2>4. PICK s \in Seq(Frames) : /\ s = fs \o Tail(todo[active]) /\ s # << >>
                                 /\ Head(s) = Head(fs) /\ Tail(s) \in Seq(Plain)
    BY <1>1, <2>1, <2>2, TopFacts
  <2>5. todo' = [todo EXCEPT ![active] = s]
    BY <2>3, <2>4 DEF Do
  <2>6. Head(s)[1] # "unpark"
    <3>1. <<"worker">>[1] = "worker"
      OBVIOUS
    <3> QED  BY <2>1, <2>4, <3>1
  <2>7. UNCHANGED <<active, collateral, coroutines, switch, unblocked, port, component, finished>>
    BY <1>2 DEF ContextSwitch
  <2>8. /\ CoroutineTypes' /\ StackInv' /\ ActiveInv' /\ ParkedInv' /\ CollateralInv' /\ RepliedInv'
        /\ Id' = Id
    BY <2>4, <2>5, <2>6, <2>7, UsualFacts, StackStep DEF ContextSwitch, envVars
  <2>9. RuntimeTypes' /\ EnvTypes' /\ PumpTypes'
    BY <2>7, <2>8 DEF IInv, TypeOK, RuntimeTypes, EnvTypes, PumpTypes, ContextSwitch, runtimeVars, envVars
  <2>10. ListInv' /\ SwitchInv'
    BY <2>7 DEF IInv, ListInv, SwitchInv, ContextSwitch
  <2> QED  BY <2>8, <2>9, <2>10 DEF IInv, TypeOK
<1>3. CASE switch # << >>
  <2>1. switch \in Seq(Nat) /\ Distinct(switch)
    BY DEF IInv, TypeOK, PumpTypes, ListInv
  <2>2. PICK b \in Nat : /\ b = Head(switch) /\ b \in Elements(switch)
                         /\ Tail(switch) \in Seq(Nat) /\ Distinct(Tail(switch))
                         /\ Elements(Tail(switch)) = Elements(switch) \ {b}
    BY <1>3, <2>1, TailFacts
  <2>3. /\ b \in Elements(coroutines) /\ port[b] # None /\ port[b] \notin awaiting
        /\ b \in 1..Len(todo)
    BY <2>2 DEF IInv, SwitchInv, TypeOK, PumpTypes, Id
  <2>4. b # active
    BY <2>3 DEF IInv, ActiveInv
  <2>5. /\ todo[b] # << >> /\ Head(todo[b]) = <<"unpark", port[b]>> /\ ~finished[b]
    BY <2>3 DEF IInv, ParkedInv, ActiveInv
  <2>6. /\ switch' = Tail(switch) /\ unblocked' = Append(unblocked, port[b])
        /\ component' = [component EXCEPT ![b] = None] /\ port' = [port EXCEPT ![b] = None]
        /\ finished' = [finished EXCEPT ![active] = TRUE] /\ active' = b
        /\ todo' = Do(<<<<"never">>>>)
        /\ UNCHANGED <<coroutines, collateral, queue>>
    BY <1>3, <2>2 DEF ContextSwitch, Unblocks, envVars
  <2>7. /\ port \in Seq(Port \cup {None}) /\ Len(port) = Len(todo)
        /\ component \in Seq(Component \cup {None}) /\ Len(component) = Len(todo)
        /\ finished \in Seq(BOOLEAN) /\ Len(finished) = Len(todo)
    BY DEF IInv, TypeOK, CoroutineTypes
  <2>8. /\ port' \in Seq(Port \cup {None}) /\ Len(port') = Len(todo)
        /\ port'[b] = None /\ \A k \in 1..Len(todo) : k # b => port'[k] = port[k]
    BY <2>3, <2>6, <2>7, UpdateFacts
  <2>9. component' \in Seq(Component \cup {None}) /\ Len(component') = Len(todo)
    BY <2>3, <2>6, <2>7, UpdateFacts
  <2>10. /\ finished' \in Seq(BOOLEAN) /\ Len(finished') = Len(todo)
         /\ finished'[active] = TRUE /\ \A k \in 1..Len(todo) : k # active => finished'[k] = finished[k]
    BY <1>1, <2>6, <2>7, UpdateFacts
  <2>11. <<<<"never">>>> \in Seq(Plain)
    BY PlainLists, MakeFrames
  <2>12. /\ todo' \in Seq(Seq(Frames)) /\ Len(todo') = Len(todo)
         /\ \A k \in 1..Len(todo) : k # active => todo'[k] = todo[k]
         /\ \A k \in 1..Len(todo) : todo'[k] # << >> => Tail(todo'[k]) \in Seq(Plain)
    BY <2>6, <2>11, DoFacts DEF ContextSwitch
  <2>13. CoroutineTypes' /\ Id' = Id /\ StackInv'
    BY <2>6, <2>8, <2>9, <2>10, <2>12, UsualFacts DEF CoroutineTypes, Id, StackInv
  <2>14. port[b] \in Port
    BY <2>3, <2>7
  <2>15. PumpTypes'
    <3>1. unblocked' \in Seq(Port)
      BY <2>6, <2>14, UsualFacts
    <3> QED  BY <2>2, <2>3, <2>6, <2>13, <3>1 DEF IInv, TypeOK, PumpTypes, Id
  <2>16. RuntimeTypes' /\ EnvTypes'
    BY <2>13, UsualFacts DEF RuntimeTypes, EnvTypes, ContextSwitch, runtimeVars, envVars
  <2>17. ListInv'
    BY <2>2, <2>3, <2>6 DEF IInv, ListInv
  <2>18. ActiveInv'
    BY <2>4, <2>5, <2>6, <2>3, <2>8, <2>10, <2>12 DEF IInv, ActiveInv
  <2>19. Elements(coroutines) \subseteq 1..Len(todo) /\ Elements(collateral) \subseteq 1..Len(todo)
    BY DEF IInv, TypeOK, PumpTypes, Id
  <2>20. ParkedInv'
    BY <2>6, <2>8, <2>12, <2>19 DEF IInv, ParkedInv, ActiveInv
  <2>21. CollateralInv'
    <3>1. active \notin Elements(collateral) /\ b \notin Elements(collateral)
      BY <2>3 DEF IInv, ListInv
    <3> QED  BY <2>6, <2>8, <2>10, <2>12, <2>19, <3>1, ZenonT(30) DEF IInv, CollateralInv
  <2>22. SwitchInv'
    BY <2>2, <2>6, <2>8, <2>19 DEF IInv, SwitchInv, ContextSwitch
  <2>23. RepliedInv'
    <3>1. todo'[b] = todo[b] /\ Head(todo[b])[2] = port[b]
      BY <2>3, <2>4, <2>5, <2>12
    <3> QED  BY <2>3, <2>6, <3>1 DEF RepliedInv, ContextSwitch
  <2> QED  BY <2>13, <2>15, <2>16, <2>17, <2>18, <2>20, <2>21, <2>22, <2>23 DEF IInv, TypeOK
<1> QED  BY <1>2, <1>3

\* The calls that can go on are blocked collaterally.
LEMMA ReleasableFacts ==
  ASSUME IInv
  PROVE  /\ Releasable \in Seq(Nat) /\ Distinct(Releasable)
         /\ Elements(Releasable) \subseteq Elements(collateral)
         /\ Releasable # << >> => Head(Releasable) \in Elements(collateral)
<1>1. collateral \in Seq(Nat) /\ Distinct(collateral)
  BY DEF IInv, TypeOK, PumpTypes, ListInv
<1>2. PICK S : S = {k \in Elements(collateral) : port[k] \in Elements(unblocked)}
  OBVIOUS
<1>3. PICK list : list = Keep(collateral, S)
  OBVIOUS
<1>4. list \in Seq(Nat) /\ Distinct(list) /\ Elements(list) = Elements(collateral) \cap S
  BY <1>1, <1>3, KeepFacts
<1>5. list # << >> => Head(list) \in Elements(list)
  BY <1>4, TailFacts
<1>6. Releasable = list
  BY <1>2, <1>3 DEF Releasable
<1> QED  BY <1>4, <1>5, <1>6

LEMMA RelayedFacts ==
  ASSUME IInv, NEW p
  PROVE  /\ Relayed(p) \in Seq(Nat) /\ Distinct(Relayed(p))
         /\ Elements(Relayed(p)) \subseteq Elements(collateral)
         /\ Relayed(p) # << >> => Head(Relayed(p)) \in Elements(Relayed(p))
<1>1. PICK S : S = {k \in Elements(Releasable) : component[k] = Owner[p]}
  OBVIOUS
<1>2. PICK list : list = Keep(Releasable, S)
  OBVIOUS
<1>3. list \in Seq(Nat) /\ Distinct(list) /\ Elements(list) = Elements(Releasable) \cap S
  BY <1>2, ReleasableFacts, KeepFacts
<1>4. list # << >> => Head(list) \in Elements(list)
  BY <1>3, TailFacts
<1>5. Relayed(p) = list
  BY <1>1, <1>2 DEF Relayed
<1> QED  BY <1>3, <1>4, <1>5, ReleasableFacts

\* Two coroutines or lists, by their types.
LEMMA ListTypes ==
  ASSUME IInv
  PROVE  /\ coroutines \in Seq(Nat) /\ collateral \in Seq(Nat) /\ switch \in Seq(Nat)
         /\ Elements(coroutines) \subseteq 1..Len(todo) /\ Elements(collateral) \subseteq 1..Len(todo)
         /\ Elements(switch) \subseteq 1..Len(todo) /\ active \in 1..Len(todo) /\ Len(todo) \in Nat
         /\ port \in Seq(Port \cup {None}) /\ Len(port) = Len(todo)
         /\ component \in Seq(Component \cup {None}) /\ Len(component) = Len(todo)
         /\ finished \in Seq(BOOLEAN) /\ Len(finished) = Len(todo)
         /\ todo \in Seq(Seq(Frames))
BY DEF IInv, TypeOK, PumpTypes, CoroutineTypes, Id

\* collateral_release: the call goes on, the coroutine that found it is finished.
LEMMA CollateralReleaseStep ==
  ASSUME IInv, CollateralRelease
  PROVE  IInv'
<1>1. CASE Releasable = << >>
  <2>1. << >> \in Seq(Plain) /\ << >> \in Seq(Port)
    BY PlainLists
  <2>2. EnvTypes'
    BY UsualFacts DEF CollateralRelease, EnvTypes, envVars
  <2>3. Id' = Id => RuntimeTypes'
    BY UsualFacts DEF CollateralRelease, RuntimeTypes, runtimeVars
  <2>4. /\ UNCHANGED <<coroutines, collateral, switch, active, coroutineVars>> /\ unblocked' = << >>
        /\ todo' = Do(<< >>) /\ queue' = queue /\ awaiting' = awaiting /\ Doing("collateral")
    BY <1>1 DEF CollateralRelease, ClearUnblocked, coroutineVars, envVars
  <2> QED  BY <2>1, <2>2, <2>3, <2>4, UsualFacts, PlainStep
<1>2. CASE Releasable # << >>
  <2>1. PICK k \in Nat : k = Head(Releasable) /\ k \in Elements(collateral) /\ k \in 1..Len(todo)
    BY <1>2, ReleasableFacts, ListTypes
  <2>2. k # active /\ k \notin Elements(coroutines)
    BY <2>1 DEF IInv, ListInv
  <2>3. /\ collateral' = Without(collateral, {k}) /\ coroutines' = Append(coroutines, k)
        /\ port' = [port EXCEPT ![k] = None] /\ finished' = [finished EXCEPT ![active] = TRUE]
        /\ active' = k /\ UNCHANGED <<unblocked, todo, switch, component, queue, awaiting>>
    BY <1>2, <2>1 DEF CollateralRelease, FinishSelf, envVars
  <2>4. /\ port' \in Seq(Port \cup {None}) /\ Len(port') = Len(todo)
        /\ port'[k] = None /\ \A j \in 1..Len(todo) : j # k => port'[j] = port[j]
    BY <2>1, <2>3, ListTypes, UpdateFacts
  <2>5. /\ finished' \in Seq(BOOLEAN) /\ Len(finished') = Len(todo)
        /\ finished'[active] = TRUE /\ \A j \in 1..Len(todo) : j # active => finished'[j] = finished[j]
    BY <2>3, ListTypes, UpdateFacts
  <2>6. /\ collateral' \in Seq(Nat) /\ Elements(collateral') = Elements(collateral) \ {k}
        /\ Distinct(collateral')
    BY <2>3, ListTypes, WithoutFacts DEF IInv, ListInv
  <2>7. /\ coroutines' \in Seq(Nat) /\ Elements(coroutines') = Elements(coroutines) \cup {k}
        /\ Distinct(coroutines')
    BY <2>2, <2>3, ListTypes, AppendFacts DEF IInv, ListInv
  <2>8. CoroutineTypes' /\ Id' = Id /\ StackInv'
    BY <2>3, <2>4, <2>5, ListTypes DEF IInv, CoroutineTypes, Id, StackInv
  <2>9. PumpTypes'
    BY <2>1, <2>3, <2>6, <2>7, <2>8 DEF IInv, TypeOK, PumpTypes, Id
  <2>10. RuntimeTypes' /\ EnvTypes'
    BY <2>8, UsualFacts DEF RuntimeTypes, EnvTypes, CollateralRelease, runtimeVars, envVars
  <2>11. ListInv'
    BY <2>3, <2>6, <2>7 DEF IInv, ListInv
  <2>12. ActiveInv'
    <3>1. ~finished[k]
      BY <2>1 DEF IInv, CollateralInv
    <3> QED  BY <2>1, <2>2, <2>3, <2>4, <2>5, <3>1 DEF IInv, ActiveInv
  <2>13. ParkedInv'
    BY <2>3, <2>4, <2>7, ListTypes DEF IInv, ParkedInv
  <2>14. CollateralInv'
    <3>1. active \notin Elements(collateral)
      BY DEF IInv, ListInv
    <3> QED  BY <2>3, <2>4, <2>5, <2>6, <3>1, ListTypes DEF IInv, CollateralInv
  <2>15. SwitchInv'
    BY <2>2, <2>3, <2>4, <2>7, ListTypes DEF IInv, SwitchInv
  <2>16. RepliedInv'
    BY <2>1, <2>3 DEF IInv, CollateralInv, RepliedInv
  <2> QED  BY <2>8, <2>9, <2>10, <2>11, <2>12, <2>13, <2>14, <2>15, <2>16 DEF IInv, TypeOK
<1> QED  BY <1>1, <1>2

\* A coroutine is created behind the others.
LEMMA GrowFacts ==
  ASSUME IInv, NEW s \in Seq(Frames), PlainBelow(s),
         todo' = Append([todo EXCEPT ![active] = s], <<<<"switch">>>>)
  PROVE  /\ todo' \in Seq(Seq(Frames)) /\ Len(todo') = Len(todo) + 1
         /\ todo'[New] = <<<<"switch">>>> /\ todo'[active] = s
         /\ \A k \in 1..Len(todo) : k # active => todo'[k] = todo[k]
         /\ StackInv' \/ queue' # queue
<1>1. PICK td : td = [todo EXCEPT ![active] = s] /\ Replaced(td, s)
  BY StackFacts
<1>2. <<<<"switch">>>> \in Seq(Frames) /\ Tail(<<<<"switch">>>>) \in Seq(Plain)
  <2>1. <<"switch">> \in Frames
    BY DEF Frames
  <2>2. Tail(<<<<"switch">>>>) = << >>
    OBVIOUS
  <2> QED  BY <2>1, <2>2, PlainLists
<1>3. PICK first \in Seq(Frames) : first = <<<<"switch">>>> /\ Tail(first) \in Seq(Plain)
  BY <1>2
<1>4. todo' = Append(td, first)
  BY <1>1, <1>3
<1>5. /\ td \in Seq(Seq(Frames)) /\ Len(td) = Len(todo) /\ Len(todo) \in Nat
      /\ active \in 1..Len(todo)
  BY <1>1, ListTypes DEF Replaced
<1>6. /\ todo' \in Seq(Seq(Frames)) /\ Len(todo') = Len(todo) + 1
      /\ todo'[New] = first /\ \A k \in 1..Len(todo) : todo'[k] = td[k]
  <2>1. PICK y : y = Append(td, first)
    OBVIOUS
  <2>2. /\ y \in Seq(Seq(Frames)) /\ Len(y) = Len(td) + 1 /\ y[Len(td) + 1] = first
        /\ \A k \in 1..Len(td) : y[k] = td[k]
    BY <1>5, <2>1, BehindFacts
  <2>3. y = todo'
    BY <1>4, <2>1
  <2> QED  BY <1>5, <2>2, <2>3 DEF New
<1>7. todo'[active] = s /\ \A k \in 1..Len(todo) : k # active => todo'[k] = todo[k]
  BY <1>1, <1>5, <1>6 DEF Replaced
<1>8. ASSUME NEW k \in 1..Len(todo'), todo'[k] # << >>
      PROVE  Tail(todo'[k]) \in Seq(Plain)
  <2>1. CASE k = New
    <3>1. todo'[k] = first
      BY <1>6, <2>1
    <3> QED  BY <1>3, <3>1
  <2>2. CASE k # New
    <3>1. k \in 1..Len(todo)
      <4>1. PICK n \in Nat : n = Len(todo) /\ Len(todo') = n + 1 /\ New = n + 1
        BY <1>5, <1>6 DEF New
      <4>2. \A j \in 1..n + 1 : j # n + 1 => j \in 1..n
        OBVIOUS
      <4>3. k \in 1..n + 1 /\ k # n + 1
        BY <2>2, <4>1
      <4> QED  BY <4>1, <4>2, <4>3
    <3>2. todo'[k] = td[k]
      BY <1>6, <3>1
    <3>3. td[k] # << >> => Tail(td[k]) \in Seq(Plain)
      BY <1>1, <3>1 DEF Replaced
    <3> QED  BY <1>8, <3>2, <3>3
  <2> QED  BY <2>1, <2>2
<1>9. queue' = queue => StackInv'
  BY <1>8 DEF IInv, StackInv
<1> QED  BY <1>6, <1>7, <1>9, <1>3

\* The identity of the new coroutine.
LEMMA NewFacts ==
  ASSUME IInv
  PROVE  /\ New \in Nat /\ New \notin 1..Len(todo) /\ New # active /\ New \in 1..New
         /\ 1..Len(todo) \subseteq 1..New
         /\ \A k \in 1..New : k = New \/ k \in 1..Len(todo)
<1>1. PICK n \in Nat : n = Len(todo)
  BY ListTypes
<1>2. New = n + 1 /\ active \in 1..n
  BY <1>1, ListTypes DEF New
<1> QED  BY <1>1, <1>2

\* A step after which a new coroutine runs: C are the old ones that stay in coroutines, p1
\* the ports and c1 the components of the old ones, s the stack of the one that ran.
Grows(s, p1, c1, C) ==
  /\ PlainBelow(s) /\ todo' = Append([todo EXCEPT ![active] = s], <<<<"switch">>>>)
  /\ Len(p1) = Len(todo) /\ port' = Append(p1, None)
  /\ Len(c1) = Len(todo) /\ component' = Append(c1, None)
  /\ finished' = Append(finished, FALSE) /\ active' = New
  /\ UNCHANGED <<switch, unblocked, runtimeVars, awaiting, envVars, crashed>>
  /\ coroutines' \in Seq(Nat) /\ Distinct(coroutines') /\ Elements(coroutines') = C \cup {New}
  /\ collateral' \in Seq(Nat) /\ Distinct(collateral')
  /\ Elements(collateral') \subseteq 1..Len(todo) /\ C \cap Elements(collateral') = {}
  /\ \A k \in 1..Len(todo) : finished[k] => p1[k] = None
  /\ \A k \in C \ {active} : p1[k] = port[k]
  /\ active \in C => s # << >> /\ Head(s) = <<"unpark", p1[active]>>
  /\ \A k \in Elements(collateral') : p1[k] # None /\ (k # active => k \in Elements(collateral))
  /\ active \in Elements(collateral') => s # << >> /\ Head(s)[1] = "enter"
  /\ \A k \in Elements(switch) : k \in C /\ p1[k] = port[k]

LEMMA GrowStep ==
  ASSUME IInv, NEW s \in Seq(Frames), NEW p1 \in Seq(Port \cup {None}),
         NEW c1 \in Seq(Component \cup {None}), NEW C \in SUBSET Elements(coroutines),
         Grows(s, p1, c1, C)
  PROVE  IInv'
<1> USE DEF Grows
<1>1. /\ todo' \in Seq(Seq(Frames)) /\ Len(todo') = New
      /\ todo'[New] = <<<<"switch">>>> /\ todo'[active] = s
      /\ \A k \in 1..Len(todo) : k # active => todo'[k] = todo[k]
      /\ StackInv' \/ queue' # queue
  BY GrowFacts DEF New
<1>2. /\ port' \in Seq(Port \cup {None}) /\ Len(port') = New
      /\ port'[New] = None /\ \A k \in 1..Len(todo) : port'[k] = p1[k]
  <2>1. PICK y : y = Append(p1, None)
    OBVIOUS
  <2>2. /\ y \in Seq(Port \cup {None}) /\ Len(y) = Len(p1) + 1 /\ y[Len(p1) + 1] = None
        /\ \A k \in 1..Len(p1) : y[k] = p1[k]
    BY <2>1, BehindFacts
  <2> QED  BY <2>1, <2>2 DEF New
<1>3. component' \in Seq(Component \cup {None}) /\ Len(component') = New
  BY DEF New
<1>4. /\ finished' \in Seq(BOOLEAN) /\ Len(finished') = New
      /\ finished'[New] = FALSE /\ \A k \in 1..Len(todo) : finished'[k] = finished[k]
  <2>1. PICK y : y = Append(finished, FALSE)
    OBVIOUS
  <2>2. /\ y \in Seq(BOOLEAN) /\ Len(y) = Len(finished) + 1 /\ y[Len(finished) + 1] = FALSE
        /\ \A k \in 1..Len(finished) : y[k] = finished[k]
    BY <2>1, ListTypes, BehindFacts
  <2> QED  BY <2>1, <2>2, ListTypes DEF New
<1>5. CoroutineTypes' /\ Id' = 1..New /\ StackInv'
  BY <1>1, <1>2, <1>3, <1>4 DEF CoroutineTypes, Id, envVars
<1>6. Id \subseteq Id' /\ New \in Id'
  BY <1>5, NewFacts DEF Id
<1>7. PumpTypes'
  BY <1>6, ListTypes DEF IInv, TypeOK, PumpTypes, Id
<1>8. RuntimeTypes' /\ EnvTypes'
  BY <1>6, UsualFacts DEF RuntimeTypes, EnvTypes, runtimeVars, envVars
<1>9. ListInv'
  BY NewFacts DEF IInv, ListInv
<1>10. ActiveInv'
  BY <1>1, <1>2, <1>4, NewFacts DEF ActiveInv
<1>11. ParkedInv'
  <2>1. ASSUME NEW k \in C, port'[k] # None
        PROVE  todo'[k] # << >> /\ Head(todo'[k]) = <<"unpark", port'[k]>>
    <3>1. k \in 1..Len(todo) /\ port'[k] = p1[k]
      BY <1>2, ListTypes
    <3>2. CASE k = active
      BY <1>1, <3>1, <3>2
    <3>3. CASE k # active
      <4>1. p1[k] = port[k] /\ todo'[k] = todo[k]
        BY <1>1, <3>1, <3>3
      <4> QED  BY <2>1, <3>1, <4>1 DEF IInv, ParkedInv
    <3> QED  BY <3>2, <3>3
  <2> QED  BY <1>2, <2>1 DEF ParkedInv
<1>12. CollateralInv'
  <2>1. ASSUME NEW k \in Elements(collateral')
        PROVE  ~finished'[k] /\ port'[k] # None /\ todo'[k] # << >> /\ Head(todo'[k])[1] = "enter"
    <3>1. k \in 1..Len(todo) /\ port'[k] = p1[k] /\ finished'[k] = finished[k]
      BY <1>2, <1>4
    <3>2. CASE k = active
      BY <1>1, <3>1, <3>2 DEF IInv, ActiveInv
    <3>3. CASE k # active
      <4>1. k \in Elements(collateral) /\ todo'[k] = todo[k]
        BY <1>1, <3>1, <3>3
      <4> QED  BY <3>1, <4>1 DEF IInv, CollateralInv
    <3> QED  BY <3>2, <3>3
  <2> QED  BY <2>1 DEF CollateralInv
<1>13. SwitchInv'
  BY <1>2, ListTypes DEF IInv, SwitchInv
<1>14. RepliedInv'
  <2>1. Head(<<<<"switch">>>>)[1] = "switch"
    OBVIOUS
  <2> QED  BY <1>1, <2>1 DEF RepliedInv
<1> QED  BY <1>5, <1>7, <1>8, <1>9, <1>10, <1>11, <1>12, <1>13, <1>14 DEF IInv, TypeOK

\* The call waits for the port that keeps its component busy.
LEMMA CollateralBlockStep ==
  ASSUME IInv, CollateralBlock
  PROVE  IInv'
<1> DEFINE c == Owner[Arg]
           id == IF handling[c] # 0 THEN handling[c] ELSE blocked[c]
           others == Without(coroutines, {active})
<1>1. CASE id \in Elements(others) /\ port[id] # None
  <2>1. /\ coroutines' = Append(others, New) /\ collateral' = Append(collateral, active)
        /\ component' = Append([component EXCEPT ![active] = c], None)
        /\ todo' = Append(Do(<<<<"enter", Arg>>>>), <<<<"switch">>>>)
        /\ port' = Append([port EXCEPT ![active] = port[id]], None)
        /\ finished' = Append(finished, FALSE) /\ active' = New
        /\ UNCHANGED <<switch, unblocked, runtimeVars, awaiting, envVars, crashed>>
    BY <1>1 DEF CollateralBlock, CreateContext
  <2>2. /\ Arg \in Port /\ c \in Component /\ Tail(todo[active]) \in Seq(Plain)
    BY DoingFacts DEF CollateralBlock
  <2>3. PICK f \in Plain : f = <<"enter", Arg>> /\ f[1] = "enter"
    BY <2>2, MakeFrames
  <2>4. f \in Frames
    BY DEF Plain
  <2>6. PICK s \in Seq(Frames) : /\ s = <<f>> \o Tail(todo[active]) /\ s # << >>
                                 /\ Head(s) = f /\ Tail(s) \in Seq(Plain)
    BY <2>2, <2>4, OnTopFacts
  <2>7. PlainBelow(s) /\ Head(s)[1] = "enter"
    BY <2>3, <2>6 DEF PlainBelow
  <2>8. todo' = Append([todo EXCEPT ![active] = s], <<<<"switch">>>>)
    BY <2>1, <2>3, <2>6 DEF Do
  <2>9. /\ others \in Seq(Nat) /\ Elements(others) = Elements(coroutines) \ {active}
        /\ Distinct(others)
    BY ListTypes, WithoutFacts DEF IInv, ListInv
  <2> HIDE DEF others
  <2>10. id \in 1..Len(todo)
    BY <1>1, <2>9, ListTypes
  <2>11. port[id] \in Port \cup {None}
    BY <2>10, ListTypes
  <2> HIDE DEF id, c
  <2>12. PICK p1 \in Seq(Port \cup {None}) :
           /\ p1 = [port EXCEPT ![active] = port[id]] /\ Len(p1) = Len(todo)
           /\ p1[active] = port[id] /\ \A k \in 1..Len(todo) : k # active => p1[k] = port[k]
    <3>1. PICK x \in Port \cup {None} : x = port[id]
      BY <2>11
    <3>2. PICK y : y = [port EXCEPT ![active] = x]
      OBVIOUS
    <3>3. /\ y \in Seq(Port \cup {None}) /\ Len(y) = Len(port) /\ y[active] = x
          /\ \A k \in 1..Len(port) : k # active => y[k] = port[k]
      BY <3>2, ListTypes, UpdateFacts
    <3> QED  BY <3>1, <3>2, <3>3, ListTypes
  <2>13. PICK c1 \in Seq(Component \cup {None}) :
           c1 = [component EXCEPT ![active] = c] /\ Len(c1) = Len(todo)
    <3>1. PICK x \in Component \cup {None} : x = c
      BY <2>2
    <3>2. PICK y : y = [component EXCEPT ![active] = x]
      OBVIOUS
    <3>3. y \in Seq(Component \cup {None}) /\ Len(y) = Len(component)
      BY <3>2, ListTypes, UpdateFacts
    <3> QED  BY <3>1, <3>2, <3>3, ListTypes
  <2>14. PICK C \in SUBSET Elements(coroutines) : C = Elements(coroutines) \ {active}
    OBVIOUS
  <2>15. New \notin Elements(others) /\ New \in Nat
    BY <2>9, ListTypes, NewFacts
  <2>16. /\ coroutines' \in Seq(Nat) /\ Distinct(coroutines') /\ Elements(coroutines') = C \cup {New}
    BY <2>1, <2>9, <2>14, <2>15, AppendFacts
  <2>17. active \notin Elements(collateral) /\ active \in Nat
    BY ListTypes DEF IInv, ListInv
  <2>18. /\ collateral' \in Seq(Nat) /\ Distinct(collateral')
         /\ Elements(collateral') = Elements(collateral) \cup {active}
    BY <2>1, <2>17, ListTypes, AppendFacts, SMTT(30) DEF IInv, ListInv
  <2>19. Elements(collateral') \subseteq 1..Len(todo) /\ C \cap Elements(collateral') = {}
    BY <2>14, <2>18, ListTypes DEF IInv, ListInv
  <2>20. \A k \in 1..Len(todo) : finished[k] => p1[k] = None
    BY <2>12 DEF IInv, ActiveInv
  <2>21. (\A k \in C \ {active} : p1[k] = port[k]) /\ active \notin C
    BY <2>12, <2>14, ListTypes
  <2>22. \A k \in Elements(collateral') : p1[k] # None /\ (k # active => k \in Elements(collateral))
    BY <1>1, <2>12, <2>18, ListTypes DEF IInv, CollateralInv
  <2>23. \A k \in Elements(switch) : k \in C /\ p1[k] = port[k]
    BY <2>12, <2>14, ListTypes DEF IInv, SwitchInv, ActiveInv
  <2>24. port' = Append(p1, None) /\ component' = Append(c1, None)
    BY <2>1, <2>12, <2>13
  <2>25. Grows(s, p1, c1, C)
    BY <2>1, <2>6, <2>7, <2>8, <2>12, <2>13, <2>16, <2>18, <2>19, <2>20, <2>21, <2>22, <2>23, <2>24
       DEF Grows
  <2> QED  BY <2>25, GrowStep
<1>2. CASE ~ (id \in Elements(others) /\ port[id] # None)
  <2>1. /\ UNCHANGED <<coroutines, collateral, active, todo, coroutineVars>>
        /\ UNCHANGED <<unblocked, switch, runtimeVars, awaiting, envVars>> /\ crashed' = TRUE
    BY <1>2 DEF CollateralBlock
  <2>2. TypeOK'
    BY <2>1 DEF IInv, TypeOK, PumpTypes, CoroutineTypes, RuntimeTypes, EnvTypes, Id,
                coroutineVars, runtimeVars, envVars
  <2>3. StackInv' /\ ListInv' /\ ActiveInv'
    BY <2>1 DEF IInv, StackInv, ListInv, ActiveInv, coroutineVars, envVars
  <2>4. ParkedInv' /\ CollateralInv' /\ SwitchInv' /\ RepliedInv'
    BY <2>1 DEF IInv, ParkedInv, CollateralInv, SwitchInv, RepliedInv, coroutineVars
  <2> QED  BY <2>2, <2>3, <2>4 DEF IInv
<1> QED  BY <1>1, <1>2

\* The stack of a coroutine that blocks.
LEMMA ParkFacts ==
  ASSUME IInv, Doing("park")
  PROVE  \E s \in Seq(Frames) :
           /\ s # << >> /\ Head(s) = <<"unpark", Arg>> /\ PlainBelow(s)
           /\ Do(<<<<"unpark", Arg>>>>) = [todo EXCEPT ![active] = s]
<1>1. Arg \in Port /\ Tail(todo[active]) \in Seq(Plain)
  BY DoingFacts
<1>2. PICK f \in Frames : f = <<"unpark", Arg>>
  BY <1>1 DEF Frames
<1>3. PICK s \in Seq(Frames) : /\ s = <<f>> \o Tail(todo[active]) /\ s # << >>
                               /\ Head(s) = f /\ Tail(s) \in Seq(Plain)
  BY <1>1, OnTopFacts
<1> QED  BY <1>2, <1>3 DEF PlainBelow, Do

\* A coroutine blocks and a new one goes on.
LEMMA ParkStep ==
  ASSUME IInv, Park
  PROVE  IInv'
<1>1. Arg \in Port /\ Arg # None
  BY DoingFacts, BlockingAssumption DEF Park
<1>2. PICK s \in Seq(Frames) : /\ s # << >> /\ Head(s) = <<"unpark", Arg>> /\ PlainBelow(s)
                               /\ Do(<<<<"unpark", Arg>>>>) = [todo EXCEPT ![active] = s]
  BY ParkFacts DEF Park
<1>3. PICK first \in SUBSET Elements(collateral) :
        first = IF Releasable = << >> THEN {} ELSE {Head(Releasable)}
  BY ReleasableFacts
<1> DEFINE ports == [k \in DOMAIN port |-> IF k \in Waits(first) THEN Arg ELSE port[k]]
<1>4. /\ todo' = Append([todo EXCEPT ![active] = s], <<<<"switch">>>>)
      /\ port' = Append(ports, None) /\ finished' = Append(finished, FALSE)
      /\ component' = Append(component, None)
      /\ coroutines' = Append(coroutines, New) /\ active' = New /\ collateral' = collateral
      /\ UNCHANGED <<switch, unblocked, runtimeVars, awaiting, envVars, crashed>>
  BY <1>2, <1>3 DEF Park, CreateContext
<1>5. PICK p1 \in Seq(Port \cup {None}) :
        /\ p1 = ports /\ Len(p1) = Len(todo)
        /\ \A k \in 1..Len(todo) : p1[k] = IF k \in first \/ k = active THEN Arg ELSE port[k]
  <2>1. DOMAIN port = 1..Len(todo) /\ Len(todo) \in Nat
    BY ListTypes
  <2>2. \A k \in 1..Len(todo) : port[k] \in Port \cup {None}
    BY ListTypes
  <2>3. ports \in [1..Len(todo) -> Port \cup {None}]
    BY <1>1, <2>1, <2>2
  <2>4. \A k \in 1..Len(todo) : ports[k] = IF k \in first \/ k = active THEN Arg ELSE port[k]
    BY <2>1 DEF Waits
  <2> HIDE DEF ports
  <2>5. ports \in Seq(Port \cup {None}) /\ Len(ports) = Len(todo)
    BY <2>1, <2>3, MapFacts
  <2> QED  BY <2>4, <2>5
<1> HIDE DEF ports
<1>6. New \notin Elements(coroutines) /\ New \in Nat
  BY ListTypes, NewFacts
<1>7. PICK C \in SUBSET Elements(coroutines) : C = Elements(coroutines)
  OBVIOUS
<1>8. coroutines' \in Seq(Nat) /\ Distinct(coroutines') /\ Elements(coroutines') = C \cup {New}
  BY <1>4, <1>6, <1>7, ListTypes, AppendFacts, SMTT(30) DEF IInv, ListInv
<1>9. /\ collateral' \in Seq(Nat) /\ Distinct(collateral')
      /\ Elements(collateral') \subseteq 1..Len(todo) /\ C \cap Elements(collateral') = {}
  BY <1>4, <1>7, ListTypes DEF IInv, ListInv
<1>10. \A k \in 1..Len(todo) : finished[k] => p1[k] = None
  BY <1>3, <1>5 DEF IInv, ActiveInv, CollateralInv
<1>11. \A k \in C \ {active} : p1[k] = port[k]
  BY <1>3, <1>5, <1>7, ListTypes DEF IInv, ListInv
<1>12. Head(s) = <<"unpark", p1[active]>>
  BY <1>2, <1>5, ListTypes
<1>13. /\ \A k \in Elements(collateral') : p1[k] # None /\ (k # active => k \in Elements(collateral))
       /\ active \notin Elements(collateral')
  BY <1>1, <1>4, <1>5, ListTypes DEF IInv, CollateralInv, ListInv
<1>14. \A k \in Elements(switch) : k \in C /\ p1[k] = port[k]
  BY <1>7, <1>11 DEF IInv, SwitchInv, ActiveInv
<1>15. port' = Append(p1, None) /\ component \in Seq(Component \cup {None}) /\ Len(component) = Len(todo)
  BY <1>4, <1>5, ListTypes
<1>16. Grows(s, p1, component, C)
  BY <1>2, <1>4, <1>5, <1>8, <1>9, <1>10, <1>11, <1>12, <1>13, <1>14, <1>15 DEF Grows
<1> QED  BY <1>15, <1>16, GrowStep

\* A coroutine blocks and the calls that waited for its component become coroutines again.
LEMMA ParkRelayStep ==
  ASSUME IInv, ParkRelay
  PROVE  IInv'
<1>1. Arg \in Port /\ Arg # None
  BY DoingFacts, BlockingAssumption DEF ParkRelay
<1>2. PICK s \in Seq(Frames) : /\ s # << >> /\ Head(s) = <<"unpark", Arg>> /\ PlainBelow(s)
                               /\ Do(<<<<"unpark", Arg>>>>) = [todo EXCEPT ![active] = s]
  BY ParkFacts DEF ParkRelay
<1>3. PICK relayed \in Seq(Nat) : /\ relayed = Relayed(Arg) /\ Distinct(relayed)
                                  /\ Elements(relayed) \subseteq Elements(collateral)
                                  /\ relayed # << >> => Head(relayed) \in Elements(relayed)
  BY RelayedFacts
<1> DEFINE free == Elements(relayed)
           ports == [k \in DOMAIN port |->
                       IF k = active THEN Arg ELSE IF k \in free THEN None ELSE port[k]]
           components == [k \in DOMAIN component |-> IF k \in free THEN None ELSE component[k]]
<1>4. /\ relayed # << >> /\ collateral' = Without(collateral, free)
      /\ coroutines' = coroutines \o Reversed(relayed) /\ component' = components
      /\ port' = ports /\ active' = Head(relayed)
      /\ todo' = [todo EXCEPT ![active] = s]
      /\ UNCHANGED <<unblocked, switch, finished, runtimeVars, awaiting, envVars, crashed>>
  BY <1>2, <1>3 DEF ParkRelay
<1>5. Replaced(todo', s)
  BY <1>2, <1>4, StackFacts
<1>6. /\ port' \in Seq(Port \cup {None}) /\ Len(port') = Len(todo)
      /\ \A k \in 1..Len(todo) : port'[k] = IF k = active THEN Arg ELSE IF k \in free THEN None ELSE port[k]
  <2>1. DOMAIN port = 1..Len(todo) /\ Len(todo) \in Nat
    BY ListTypes
  <2>2. \A k \in 1..Len(todo) : port[k] \in Port \cup {None}
    BY ListTypes
  <2>3. ports \in [1..Len(todo) -> Port \cup {None}]
    BY <1>1, <2>1, <2>2
  <2>4. \A k \in 1..Len(todo) : ports[k] = IF k = active THEN Arg ELSE IF k \in free THEN None ELSE port[k]
    BY <2>1
  <2> HIDE DEF ports
  <2>5. ports \in Seq(Port \cup {None}) /\ Len(ports) = Len(todo)
    BY <2>1, <2>3, MapFacts
  <2> QED  BY <1>4, <2>4, <2>5
<1>7. component' \in Seq(Component \cup {None}) /\ Len(component') = Len(todo)
  <2>1. DOMAIN component = 1..Len(todo) /\ Len(todo) \in Nat
    BY ListTypes
  <2>2. \A k \in 1..Len(todo) : component[k] \in Component \cup {None}
    BY ListTypes
  <2>3. components \in [1..Len(todo) -> Component \cup {None}]
    BY <2>1, <2>2
  <2> HIDE DEF components
  <2>4. components \in Seq(Component \cup {None}) /\ Len(components) = Len(todo)
    BY <2>1, <2>3, MapFacts
  <2> QED  BY <1>4, <2>4
<1> HIDE DEF ports, components
<1>8. CoroutineTypes' /\ Id' = Id /\ StackInv'
  <2>1. queue' = queue /\ finished' = finished
    BY <1>4 DEF envVars
  <2> QED  BY <1>5, <1>6, <1>7, <2>1, ListTypes DEF Replaced, CoroutineTypes, Id, IInv, StackInv
<1>9. /\ collateral' \in Seq(Nat) /\ Elements(collateral') = Elements(collateral) \ free
      /\ Distinct(collateral')
  BY <1>4, ListTypes, WithoutFacts, SMTT(30) DEF IInv, ListInv
<1>10. /\ coroutines' \in Seq(Nat) /\ Elements(coroutines') = Elements(coroutines) \cup free
       /\ Distinct(coroutines')
  <2>1. PICK r \in Seq(Nat) : r = Reversed(relayed) /\ Elements(r) = free /\ Distinct(r)
    BY <1>3, ReversedFacts
  <2>2. Apart(coroutines, r) /\ Distinct(coroutines)
    BY <1>3, <2>1 DEF IInv, ListInv, Apart
  <2>3. /\ coroutines \o r \in Seq(Nat) /\ Elements(coroutines \o r) = Elements(coroutines) \cup Elements(r)
    BY ListTypes, ConcatFacts
  <2>4. Distinct(coroutines \o r)
    BY <2>1, <2>2, ListTypes, ConcatDistinct
  <2> QED  BY <1>4, <2>1, <2>3, <2>4
<1>11. /\ active' \in free /\ free \subseteq Elements(collateral) /\ free \subseteq 1..Len(todo)
       /\ active \notin Elements(collateral)
  BY <1>3, <1>4, ListTypes DEF IInv, ListInv
<1> HIDE DEF free
<1>12. PumpTypes'
  BY <1>4, <1>8, <1>9, <1>10, <1>11, ListTypes DEF IInv, TypeOK, PumpTypes, Id
<1>13. RuntimeTypes' /\ EnvTypes'
  BY <1>4, <1>8, UsualFacts DEF RuntimeTypes, EnvTypes, runtimeVars, envVars
<1>14. ListInv'
  BY <1>4, <1>9, <1>10, <1>11 DEF IInv, ListInv
<1>15. \A k \in Elements(collateral) : ~finished[k] /\ todo'[k] = todo[k]
  BY <1>5, <1>11, ListTypes DEF IInv, CollateralInv, Replaced
<1>16. ActiveInv'
  <2>1. port'[active'] = None /\ ~finished'[active']
    BY <1>4, <1>6, <1>11, <1>15
  <2>2. ASSUME NEW k \in 1..Len(todo), finished[k]
        PROVE  port'[k] = None
    BY <1>6, <2>2 DEF IInv, ActiveInv
  <2> QED  BY <1>4, <1>5, <2>1, <2>2 DEF ActiveInv, Replaced
<1>17. ParkedInv'
  <2>1. ASSUME NEW k \in Elements(coroutines), port'[k] # None
        PROVE  todo'[k] # << >> /\ Head(todo'[k]) = <<"unpark", port'[k]>>
    <3>1. CASE k = active
      BY <1>2, <1>5, <1>6, <3>1, ListTypes DEF Replaced
    <3>2. CASE k # active
      <4>1. port'[k] = port[k] /\ todo'[k] = todo[k]
        BY <1>5, <1>6, <2>1, <3>2, ListTypes DEF Replaced
      <4> QED  BY <2>1, <4>1 DEF IInv, ParkedInv
    <3> QED  BY <3>1, <3>2
  <2>2. \A k \in free : port'[k] = None
    BY <1>6, <1>11
  <2> QED  BY <1>10, <2>1, <2>2 DEF ParkedInv
<1>18. CollateralInv'
  <2>1. ASSUME NEW k \in Elements(collateral) \ free
        PROVE  port'[k] = port[k]
    BY <1>6, <1>11, ListTypes
  <2> QED  BY <1>4, <1>9, <1>15, <2>1 DEF IInv, CollateralInv
<1>19. SwitchInv'
  <2>1. ASSUME NEW k \in Elements(switch)
        PROVE  port'[k] = port[k]
    <3>1. k \notin free /\ k # active /\ k \in 1..Len(todo)
      BY <1>11, ListTypes DEF IInv, ListInv, SwitchInv, ActiveInv
    <3> QED  BY <1>6, <3>1
  <2> QED  BY <1>4, <1>10, <2>1 DEF IInv, SwitchInv
<1>20. RepliedInv'
  BY <1>11, <1>15 DEF IInv, CollateralInv, RepliedInv
<1> QED  BY <1>8, <1>12, <1>13, <1>14, <1>16, <1>17, <1>18, <1>19, <1>20 DEF IInv, TypeOK

\* The first coroutine.
LEMMA InitStep ==
  ASSUME Init
  PROVE  IInv
<1>1. /\ todo = <<<<<<"switch">>>>>> /\ coroutines = <<1>> /\ collateral = << >> /\ switch = << >>
      /\ active = 1 /\ port = <<None>> /\ component = <<None>> /\ finished = <<FALSE>>
      /\ queue = << >> /\ unblocked = << >>
  BY DEF Init
<1>2. PICK first \in Seq(Frames) : /\ first = <<<<"switch">>>> /\ Tail(first) \in Seq(Plain)
                                   /\ Head(first)[1] = "switch"
  <2>1. <<"switch">> \in Frames
    BY DEF Frames
  <2>2. Tail(<<<<"switch">>>>) = << >> /\ Head(<<<<"switch">>>>)[1] = "switch"
    OBVIOUS
  <2>3. <<<<"switch">>>> \in Seq(Frames)
    BY <2>1
  <2> QED  BY <2>2, <2>3, PlainLists
<1>3. todo = <<first>> /\ todo \in Seq(Seq(Frames)) /\ Len(todo) = 1 /\ todo[1] = first
  BY <1>1, <1>2
<1>4. coroutines \in Seq(Nat) /\ Elements(coroutines) = {1}
  BY <1>1, ShortFacts
<1>5. Elements(collateral) = {} /\ Elements(switch) = {} /\ collateral \in Seq(Nat) /\ switch \in Seq(Nat)
  BY <1>1, EmptyFacts
<1>6. CoroutineTypes /\ Id = {1}
  <2>1. port \in Seq(Port \cup {None}) /\ Len(port) = 1
    BY <1>1
  <2>2. component \in Seq(Component \cup {None}) /\ Len(component) = 1
    BY <1>1
  <2>3. finished \in Seq(BOOLEAN) /\ Len(finished) = 1
    BY <1>1
  <2> QED  BY <1>3, <2>1, <2>2, <2>3 DEF CoroutineTypes, Id
<1>7. PumpTypes
  BY <1>1, <1>4, <1>5, <1>6 DEF PumpTypes
<1>8. RuntimeTypes
  BY DEF Init, RuntimeTypes
<1>9. EnvTypes
  <2>1. PICK there \in Together : calls = [t \in Client |-> IF t \in there THEN 0 ELSE Calls[t]]
    BY DEF Init
  <2>2. \A t \in Client : Calls[t] \in Nat
    BY BlockingAssumption
  <2>3. calls \in [Client -> Nat] /\ \A t \in Client : calls[t] <= Calls[t]
    BY <2>1, <2>2
  <2>4. queue \in Seq(Seq(Frames))
    BY <1>1
  <2>6. asked = {} /\ crashed \in BOOLEAN
    BY DEF Init
  <2>5. client \in [Client -> {"idle", "waiting"}]
    BY DEF Init
  <2> QED  BY <2>3, <2>4, <2>5, <2>6 DEF EnvTypes
<1>10. StackInv
  <2>1. queue \in Seq(Seq(Plain))
    BY <1>1
  <2>2. \A k \in 1..Len(todo) : todo[k] = first
    BY <1>3
  <2> QED  BY <1>2, <2>1, <2>2 DEF StackInv
<1>11. ListInv
  <2>1. Distinct(<<1>>) /\ Distinct(<< >>)
    BY DEF Distinct
  <2> QED  BY <1>1, <1>4, <1>5, <2>1 DEF ListInv
<1>12. ActiveInv
  BY <1>1, <1>3 DEF ActiveInv
<1>13. ParkedInv /\ CollateralInv /\ SwitchInv
  BY <1>1, <1>4, <1>5 DEF ParkedInv, CollateralInv, SwitchInv
<1>14. RepliedInv
  BY <1>1, <1>2, <1>3 DEF RepliedInv
<1> QED  BY <1>6, <1>7, <1>8, <1>9, <1>10, <1>11, <1>12, <1>13, <1>14 DEF IInv, TypeOK

\* A step of the system, while no call of a port begins that another is blocked on.
LEMMA NextStep ==
  ASSUME IInv, OneCallPerPort, [Next]_vars
  PROVE  IInv'
<1>1. CASE Step
  BY <1>1, ContextSwitchStep, WorkerStep, CollateralReleaseStep, ReturnStep, CallFreeStep,
     CollateralBlockStep, EnterStep, LeaveStep, AskSyncStep, AskStep, OutStep, FlushStep, FlushAsStep,
     DrainStep, DeferStep, WorkerDeferStep, WorkerDeferNoneStep, BlockStep, SkipBlockStep, ParkRelayStep,
     ParkStep, UnparkStep, ReleaseStep DEF Step
<1>2. CASE \E t \in Client : ClientCall(t)
  BY <1>2, ClientCallStep
<1>3. CASE \E w \in World : Answer(w)
  BY <1>3, AnswerStep
<1>4. CASE Quiet \/ UNCHANGED vars
  BY <1>4, QuietStep DEF Quiet
<1> QED  BY <1>1, <1>2, <1>3, <1>4 DEF Next

-------------------------------------------------------------------------------
(***************************************************************************)
(* The coroutine that runs is the only one that is neither blocked nor     *)
(* finished, as long as a coroutine that blocks frees one call at a time.  *)
(***************************************************************************)

\* Steps that change neither the coroutines nor what they wait for.
LEMMA OthersKept ==
  ASSUME OthersInv, Elements(coroutines') \subseteq Elements(coroutines),
         UNCHANGED <<active, port, finished>>
  PROVE  OthersInv'
BY DEF OthersInv

\* The new coroutine is not finished, the old ones are as they were.
LEMMA NewUnfinished ==
  ASSUME IInv, finished' = Append(finished, FALSE)
  PROVE  \A k \in 1..Len(todo) : finished'[k] = finished[k]
<1>1. PICK y : y = Append(finished, FALSE)
  OBVIOUS
<1>2. \A k \in 1..Len(finished) : y[k] = finished[k]
  BY <1>1, ListTypes, BehindFacts
<1> QED  BY <1>1, <1>2, ListTypes

LEMMA OneElement ==
  ASSUME NEW A, NEW s \in Seq(A), s # << >>, Len(s) <= 1
  PROVE  Elements(s) = {Head(s)}
<1>1. Len(s) \in Nat /\ Len(s) # 0 /\ Head(s) = s[1]
  OBVIOUS
<1>2. Len(s) = 1
  BY <1>1
<1> QED  BY <1>1, <1>2 DEF Elements

LEMMA OthersContextSwitch ==
  ASSUME IInv, OthersInv, ContextSwitch
  PROVE  OthersInv'
<1>1. CASE switch = << >>
  BY <1>1, OthersKept DEF ContextSwitch
<1>2. CASE switch # << >>
  <2>1. PICK b \in Nat : b = Head(switch) /\ b \in Elements(switch)
    <3>1. switch \in Seq(Nat)
      BY ListTypes
    <3> QED  BY <1>2, <3>1, TailFacts
  <2>2. /\ port' = [port EXCEPT ![b] = None] /\ finished' = [finished EXCEPT ![active] = TRUE]
        /\ active' = b /\ coroutines' = coroutines
    BY <1>2, <2>1 DEF ContextSwitch
  <2>3. \A k \in 1..Len(todo) : k # b => port'[k] = port[k]
    BY <2>1, <2>2, ListTypes, UpdateFacts
  <2>4. finished'[active] = TRUE /\ \A k \in 1..Len(todo) : k # active => finished'[k] = finished[k]
    BY <2>2, ListTypes, UpdateFacts
  <2> QED  BY <2>2, <2>3, <2>4, ListTypes DEF OthersInv
<1> QED  BY <1>1, <1>2

LEMMA OthersCollateralRelease ==
  ASSUME IInv, OthersInv, CollateralRelease
  PROVE  OthersInv'
<1>1. CASE Releasable = << >>
  BY <1>1, OthersKept DEF CollateralRelease
<1>2. CASE Releasable # << >>
  <2>1. PICK k \in Nat : k = Head(Releasable) /\ k \in Elements(collateral) /\ k \in 1..Len(todo)
    BY <1>2, ReleasableFacts, ListTypes
  <2>2. /\ port' = [port EXCEPT ![k] = None] /\ finished' = [finished EXCEPT ![active] = TRUE]
        /\ active' = k /\ coroutines' = Append(coroutines, k)
    BY <1>2, <2>1 DEF CollateralRelease, FinishSelf
  <2>3. \A j \in 1..Len(todo) : j # k => port'[j] = port[j]
    BY <2>1, <2>2, ListTypes, UpdateFacts
  <2>4. finished'[active] = TRUE /\ \A j \in 1..Len(todo) : j # active => finished'[j] = finished[j]
    BY <2>2, ListTypes, UpdateFacts
  <2>5. Elements(coroutines') = Elements(coroutines) \cup {k}
    <3>1. coroutines \in Seq(Nat)
      BY ListTypes
    <3> QED  BY <2>2, <3>1, AppendFacts
  <2> QED  BY <2>2, <2>3, <2>4, <2>5, ListTypes DEF OthersInv
<1> QED  BY <1>1, <1>2

LEMMA OthersCollateralBlock ==
  ASSUME IInv, OthersInv, CollateralBlock
  PROVE  OthersInv'
<1>1. CASE crashed' = TRUE /\ UNCHANGED <<coroutines, active, coroutineVars>>
  BY <1>1, OthersKept DEF coroutineVars
<1>2. ASSUME NEW x, port' = Append([port EXCEPT ![active] = x], None),
             coroutines' = Append(Without(coroutines, {active}), New), active' = New,
             finished' = Append(finished, FALSE), x \in Port \cup {None}
      PROVE  OthersInv'
  <2>1. PICK p1 : p1 = [port EXCEPT ![active] = x]
    OBVIOUS
  <2>2. /\ p1 \in Seq(Port \cup {None}) /\ Len(p1) = Len(todo)
        /\ \A k \in 1..Len(todo) : k # active => p1[k] = port[k]
    BY <1>2, <2>1, ListTypes, UpdateFacts
  <2>3. \A k \in 1..Len(todo) : port'[k] = p1[k]
    BY <1>2, <2>1, <2>2
  <2>4. \A k \in 1..Len(todo) : finished'[k] = finished[k]
    BY <1>2, NewUnfinished
  <2>5. PICK others \in Seq(Nat) : /\ others = Without(coroutines, {active})
                                   /\ Elements(others) = Elements(coroutines) \ {active}
    BY ListTypes, WithoutFacts
  <2>6. Elements(coroutines') = Elements(others) \cup {New}
    BY <1>2, <2>5, NewFacts, AppendFacts
  <2> QED  BY <1>2, <2>2, <2>3, <2>4, <2>5, <2>6, ListTypes DEF OthersInv
<1> DEFINE c == Owner[Arg]
           id == IF handling[c] # 0 THEN handling[c] ELSE blocked[c]
<1>3. ASSUME NEW i \in Elements(Without(coroutines, {active})),
             port' = Append([port EXCEPT ![active] = port[i]], None),
             coroutines' = Append(Without(coroutines, {active}), New), active' = New,
             finished' = Append(finished, FALSE)
      PROVE  OthersInv'
  <2>1. Elements(Without(coroutines, {active})) \subseteq 1..Len(todo)
    BY ListTypes, WithoutFacts
  <2>2. i \in 1..Len(todo) /\ port \in Seq(Port \cup {None}) /\ Len(port) = Len(todo)
    BY <2>1, ListTypes
  <2>3. port[i] \in Port \cup {None}
    BY <2>2
  <2> QED  BY <1>2, <1>3, <2>3
<1>4. \/ crashed' = TRUE /\ UNCHANGED <<coroutines, active, coroutineVars>>
      \/ /\ id \in Elements(Without(coroutines, {active}))
         /\ port' = Append([port EXCEPT ![active] = port[id]], None)
         /\ coroutines' = Append(Without(coroutines, {active}), New) /\ active' = New
         /\ finished' = Append(finished, FALSE)
  BY DEF CollateralBlock, CreateContext
<1> HIDE DEF id, c
<1> QED  BY <1>1, <1>3, <1>4

LEMMA OthersPark ==
  ASSUME IInv, OthersInv, Park
  PROVE  OthersInv'
<1>1. Arg \in Port /\ Arg # None
  BY DoingFacts, BlockingAssumption DEF Park
<1>2. PICK first \in SUBSET Elements(collateral) :
        first = IF Releasable = << >> THEN {} ELSE {Head(Releasable)}
  BY ReleasableFacts
<1> DEFINE ports == [k \in DOMAIN port |-> IF k \in Waits(first) THEN Arg ELSE port[k]]
<1>3. /\ port' = Append(ports, None) /\ finished' = Append(finished, FALSE)
      /\ coroutines' = Append(coroutines, New) /\ active' = New
  BY <1>2 DEF Park, CreateContext
<1>4. DOMAIN port = 1..Len(todo) /\ Len(todo) \in Nat /\ \A k \in 1..Len(todo) : port[k] \in Port \cup {None}
  BY ListTypes
<1>5. ports \in [1..Len(todo) -> Port \cup {None}]
  BY <1>1, <1>4
<1>6. \A k \in Elements(coroutines) : ports[k] = IF k = active THEN Arg ELSE port[k]
  BY <1>4, ListTypes DEF Waits, IInv, ListInv
<1> HIDE DEF ports
<1>7. ports \in Seq(Port \cup {None}) /\ Len(ports) = Len(todo)
  BY <1>4, <1>5, MapFacts
<1>8. \A k \in 1..Len(todo) : port'[k] = ports[k]
  BY <1>3, <1>7
<1>9. \A k \in 1..Len(todo) : finished'[k] = finished[k]
  BY <1>3, NewUnfinished
<1>10. Elements(coroutines') = Elements(coroutines) \cup {New}
  BY <1>3, ListTypes, NewFacts, AppendFacts
<1> QED  BY <1>1, <1>3, <1>6, <1>8, <1>9, <1>10, ListTypes DEF OthersInv

\* Here the hypothesis is used: the call that goes on is the only one that is freed.
LEMMA OthersParkRelay ==
  ASSUME IInv, OthersInv, OneRelayed, ParkRelay
  PROVE  OthersInv'
<1>1. Arg \in Port /\ Arg # None
  BY DoingFacts, BlockingAssumption DEF ParkRelay
<1>2. PICK relayed \in Seq(Nat) : /\ relayed = Relayed(Arg)
                                  /\ Elements(relayed) \subseteq Elements(collateral)
  BY RelayedFacts
<1>3. relayed # << >> /\ Len(relayed) <= 1
  BY <1>2 DEF ParkRelay, OneRelayed
<1>4. Elements(relayed) = {Head(relayed)}
  BY <1>3, OneElement
<1>5. PICK k \in Nat : k = Head(relayed) /\ k \in Elements(collateral)
  BY <1>2, <1>4, ListTypes
<1>6. /\ port' = [j \in DOMAIN port |-> IF j = active THEN Arg ELSE IF j \in {k} THEN None ELSE port[j]]
      /\ finished' = finished /\ active' = k
      /\ coroutines' = coroutines \o Reversed(relayed)
  BY <1>2, <1>4, <1>5 DEF ParkRelay
<1>7. DOMAIN port = 1..Len(todo)
  BY ListTypes
<1>8. \A j \in 1..Len(todo) : j # k => port'[j] = IF j = active THEN Arg ELSE port[j]
  BY <1>6, <1>7
<1>9. Elements(coroutines') = Elements(coroutines) \cup {k}
  <2>1. PICK r \in Seq(Nat) : r = Reversed(relayed) /\ Elements(r) = Elements(relayed)
    BY ReversedFacts
  <2>2. Elements(coroutines \o r) = Elements(coroutines) \cup Elements(r)
    BY ListTypes, ConcatFacts
  <2> QED  BY <1>4, <1>5, <1>6, <2>1, <2>2
<1> QED  BY <1>1, <1>6, <1>8, <1>9, ListTypes DEF OthersInv

LEMMA OthersNext ==
  ASSUME IInv, OthersInv, OneRelayed, [Next]_vars
  PROVE  OthersInv'
<1>1. CASE UNCHANGED <<coroutines, active, port, finished>>
  BY <1>1, OthersKept
<1>2. CASE Unpark
  <2>1. Elements(Unfinished) \subseteq Elements(coroutines)
    BY ListTypes, KeepFacts DEF Unfinished
  <2> QED  BY <1>2, <2>1, OthersKept DEF Unpark, coroutineVars
<1>3. CASE Worker \/ Return \/ CallFree \/ Enter \/ Leave \/ AskSync \/ Ask
  BY <1>1, <1>3 DEF Worker, Return, CallFree, Enter, Leave, AskSync, Ask, pumpVars, coroutineVars
<1>4. CASE Out \/ Flush \/ Drain \/ Defer \/ Block \/ SkipBlock \/ Release
  BY <1>1, <1>4 DEF Out, Flush, Drain, Defer, Block, SkipBlock, Release, pumpVars, coroutineVars
<1>5. CASE FlushAs \/ WorkerDeferNone \/ \E s \in Statement : WorkerDefer(s)
  BY <1>1, <1>5 DEF FlushAs, WorkerDeferNone, WorkerDefer, pumpVars, coroutineVars
<1>6. CASE (\E t \in Client : ClientCall(t)) \/ (\E w \in World : Answer(w))
  BY <1>1, <1>6 DEF ClientCall, Answer, pumpVars, coroutineVars
<1>7. CASE Quiet \/ UNCHANGED vars
  BY <1>1, <1>7 DEF Quiet, vars, pumpVars, coroutineVars
<1>8. CASE ContextSwitch \/ CollateralRelease \/ CollateralBlock \/ Park \/ ParkRelay
  BY <1>8, OthersContextSwitch, OthersCollateralRelease, OthersCollateralBlock, OthersPark, OthersParkRelay
<1> QED  BY <1>2, <1>3, <1>4, <1>5, <1>6, <1>7, <1>8 DEF Next, Step

-------------------------------------------------------------------------------
(***************************************************************************)
(* What is left when every call has returned.                              *)
(***************************************************************************)

\* A stack of which the top frame is replaced, place by place.
LEMMA SplitFacts ==
  ASSUME NEW s \in Seq(Frames), s # << >>, NEW fs \in Seq(Frames),
         NEW y, y = fs \o Tail(s)
  PROVE  /\ y \in Seq(Frames) /\ Len(y) = Len(fs) + Len(s) - 1
         /\ Len(fs) \in Nat /\ Len(s) \in Nat \ {0} /\ Head(s) = s[1]
         /\ \A i \in 1..Len(fs) : i \in 1..Len(y) /\ y[i] = fs[i]
         /\ \A j \in 2..Len(s) : Len(fs) + j - 1 \in 1..Len(y) /\ y[Len(fs) + j - 1] = s[j]
         /\ \A i \in 1..Len(y) :
              i \in 1..Len(fs) \/ (i - Len(fs) + 1 \in 2..Len(s) /\ y[i] = s[i - Len(fs) + 1])
         /\ Elements(y) = Elements(fs) \cup Elements(Tail(s))
         /\ Elements(s) = {Head(s)} \cup Elements(Tail(s))
<1>1. /\ Head(s) = s[1] /\ Tail(s) \in Seq(Frames) /\ Len(Tail(s)) = Len(s) - 1
      /\ \A i \in 1..Len(s) - 1 : Tail(s)[i] = s[i + 1]
      /\ Elements(s) = {Head(s)} \cup Elements(Tail(s))
  BY TailFacts
<1>2. PICK t \in Seq(Frames) : /\ t = Tail(s) /\ Len(t) = Len(s) - 1
                               /\ \A i \in 1..Len(s) - 1 : t[i] = s[i + 1]
  BY <1>1
<1>3. /\ Len(fs) \in Nat /\ Len(s) \in Nat /\ Len(s) # 0
  OBVIOUS
<1>4. /\ y \in Seq(Frames) /\ Len(y) = Len(fs) + Len(t)
      /\ \A i \in 1..Len(fs) : y[i] = fs[i]
      /\ \A i \in 1..Len(t) : y[Len(fs) + i] = t[i]
      /\ Elements(y) = Elements(fs) \cup Elements(t)
  <2>1. PICK z : z = fs \o t
    OBVIOUS
  <2>2. /\ z \in Seq(Frames) /\ Len(z) = Len(fs) + Len(t)
        /\ \A i \in 1..Len(fs) : z[i] = fs[i]
        /\ \A i \in 1..Len(t) : z[Len(fs) + i] = t[i]
        /\ Elements(z) = Elements(fs) \cup Elements(t)
    BY <2>1, ConcatFacts
  <2>3. y = z
    BY <1>2, <2>1
  <2> QED  BY <2>2, <2>3
<1>5. Len(y) = Len(fs) + Len(s) - 1
  BY <1>2, <1>3, <1>4
<1>6. \A i \in 1..Len(fs) : i \in 1..Len(y) /\ y[i] = fs[i]
  BY <1>3, <1>4, <1>5
<1>7. ASSUME NEW j \in 2..Len(s)
      PROVE  Len(fs) + j - 1 \in 1..Len(y) /\ y[Len(fs) + j - 1] = s[j]
  <2>1. j - 1 \in 1..Len(s) - 1
    BY <1>3
  <2>2. PICK i \in 1..Len(s) - 1 : i = j - 1
    BY <2>1
  <2>3. i + 1 = j /\ Len(fs) + i = Len(fs) + j - 1 /\ Len(fs) + i \in 1..Len(y)
    BY <1>3, <1>5, <2>2
  <2>4. y[Len(fs) + i] = t[i] /\ t[i] = s[i + 1]
    BY <1>2, <1>4
  <2> QED  BY <2>3, <2>4
<1>8. ASSUME NEW i \in 1..Len(y), i \notin 1..Len(fs)
      PROVE  i - Len(fs) + 1 \in 2..Len(s) /\ y[i] = s[i - Len(fs) + 1]
  <2>1. i - Len(fs) + 1 \in 2..Len(s)
    BY <1>3, <1>5, <1>8
  <2>2. PICK j \in 2..Len(s) : j = i - Len(fs) + 1
    BY <2>1
  <2>3. Len(fs) + j - 1 = i
    BY <1>3, <2>2
  <2> QED  BY <1>7, <2>2, <2>3
<1> QED  BY <1>1, <1>2, <1>3, <1>4, <1>5, <1>6, <1>7, <1>8

\* What the frames fs, put in the place of frame f, have to be for the stack to keep its shape.
Fits(fs, f) ==
  /\ \A i \in 1..Len(fs) : fs[i][1] \in CallOps =>
       f[1] \in CallOps \/ \E j \in i+1..Len(fs) : fs[j][1] = "return"
  /\ \A i \in 1..Len(fs) : fs[i][1] \in {"return", "worker"} \cup EndOps =>
       /\ f[1] \in {"return", "worker"} \cup EndOps
       /\ \A j \in i+1..Len(fs) : fs[j][1] \in EndOps
  /\ \A i \in 2..Len(fs) : fs[i][1] = "switch" => fs[i-1][1] = "collateral"
  /\ f[1] = "collateral" => fs = << >>

LEMMA ShapedFacts ==
  ASSUME NEW s \in Seq(Frames), s # << >>, Shaped(s), NEW fs \in Seq(Frames), Fits(fs, Head(s)),
         NEW y, y = fs \o Tail(s)
  PROVE  Shaped(y)
<1>1. /\ y \in Seq(Frames) /\ Len(y) = Len(fs) + Len(s) - 1
      /\ Len(fs) \in Nat /\ Len(s) \in Nat \ {0} /\ Head(s) = s[1]
      /\ \A i \in 1..Len(fs) : i \in 1..Len(y) /\ y[i] = fs[i]
      /\ \A j \in 2..Len(s) : Len(fs) + j - 1 \in 1..Len(y) /\ y[Len(fs) + j - 1] = s[j]
      /\ \A i \in 1..Len(y) :
           i \in 1..Len(fs) \/ (i - Len(fs) + 1 \in 2..Len(s) /\ y[i] = s[i - Len(fs) + 1])
  BY SplitFacts
<1>2. /\ s[1][1] \in CallOps => \E j \in 2..Len(s) : s[j][1] = "return"
      /\ s[1][1] \in {"return", "worker"} \cup EndOps => \A j \in 2..Len(s) : s[j][1] \in EndOps
  <2>1. 1 \in 1..Len(s) /\ 1 + 1 = 2
    BY <1>1
  <2> QED  BY <2>1 DEF Shaped
<1>3. ASSUME NEW i \in 1..Len(y), y[i][1] \in CallOps
      PROVE  \E j \in i+1..Len(y) : y[j][1] = "return"
  <2>1. CASE i \in 1..Len(fs)
    <3>1. s[1][1] \in CallOps \/ \E j \in i+1..Len(fs) : fs[j][1] = "return"
      BY <1>1, <1>3, <2>1 DEF Fits
    <3>2. CASE \E j \in i+1..Len(fs) : fs[j][1] = "return"
      <4>1. PICK j \in i+1..Len(fs) : fs[j][1] = "return"
        BY <3>2
      <4>2. j \in 1..Len(fs) /\ j \in i+1..Len(y)
        BY <1>1, <2>1, <4>1
      <4> QED  BY <1>1, <4>1, <4>2
    <3>3. CASE s[1][1] \in CallOps
      <4>1. PICK j \in 2..Len(s) : s[j][1] = "return"
        BY <1>2, <3>3
      <4>2. Len(fs) + j - 1 \in i+1..Len(y)
        BY <1>1, <2>1, <4>1
      <4> QED  BY <1>1, <4>1, <4>2
    <3> QED  BY <3>1, <3>2, <3>3
  <2>2. CASE i \notin 1..Len(fs)
    <3>1. PICK k \in 2..Len(s) : k = i - Len(fs) + 1 /\ y[i] = s[k]
      BY <1>1, <2>2
    <3>2. k \in 1..Len(s)
      BY <1>1, <3>1
    <3>3. PICK j \in k+1..Len(s) : s[j][1] = "return"
      BY <1>3, <3>1, <3>2 DEF Shaped
    <3>4. j \in 2..Len(s) /\ Len(fs) + j - 1 \in i+1..Len(y)
      BY <1>1, <2>2, <3>1, <3>3
    <3> QED  BY <1>1, <3>3, <3>4
  <2> QED  BY <2>1, <2>2
<1>4. ASSUME NEW i \in 1..Len(y), y[i][1] \in {"return", "worker"} \cup EndOps, NEW j \in i+1..Len(y)
      PROVE  y[j][1] \in EndOps
  <2>0. j \in 1..Len(y)
    BY <1>1, <1>4
  <2>1. CASE j \in 1..Len(fs)
    <3>1. i \in 1..Len(fs) /\ j \in i+1..Len(fs)
      BY <1>1, <1>4, <2>1
    <3>2. fs[i][1] \in {"return", "worker"} \cup EndOps
      BY <1>1, <1>4, <3>1
    <3>3. fs[j][1] \in EndOps
      BY <3>1, <3>2 DEF Fits
    <3> QED  BY <1>1, <2>1, <3>3
  <2>2. CASE j \notin 1..Len(fs)
    <3>1. PICK m \in 2..Len(s) : m = j - Len(fs) + 1 /\ y[j] = s[m]
      BY <1>1, <2>0, <2>2
    <3>2. CASE i \in 1..Len(fs)
      <4>1. s[1][1] \in {"return", "worker"} \cup EndOps
        BY <1>1, <1>4, <3>2 DEF Fits
      <4> QED  BY <1>2, <3>1, <4>1
    <3>3. CASE i \notin 1..Len(fs)
      <4>1. PICK k \in 2..Len(s) : k = i - Len(fs) + 1 /\ y[i] = s[k]
        BY <1>1, <3>3
      <4>2. k \in 1..Len(s) /\ m \in k+1..Len(s)
        BY <1>1, <1>4, <3>1, <4>1
      <4> QED  BY <1>4, <3>1, <4>1, <4>2 DEF Shaped
    <3> QED  BY <3>2, <3>3
  <2> QED  BY <2>1, <2>2
<1>5. ASSUME NEW i \in 1..Len(y), y[i][1] = "switch", i > 1
      PROVE  y[i-1][1] = "collateral"
  <2>1. CASE i \in 1..Len(fs)
    <3>1. i \in 2..Len(fs) /\ i - 1 \in 1..Len(fs)
      BY <1>1, <1>5, <2>1
    <3>2. fs[i][1] = "switch"
      BY <1>1, <1>5, <2>1
    <3>3. fs[i-1][1] = "collateral"
      BY <3>1, <3>2 DEF Fits
    <3> QED  BY <1>1, <3>1, <3>3
  <2>2. CASE i \notin 1..Len(fs)
    <3>1. PICK k \in 2..Len(s) : k = i - Len(fs) + 1 /\ y[i] = s[k]
      BY <1>1, <2>2
    <3>2. k \in 1..Len(s) /\ k > 1 /\ s[k][1] = "switch"
      BY <1>1, <1>5, <3>1
    <3>3. s[k-1][1] = "collateral"
      BY <3>2 DEF Shaped
    <3>4. CASE k = 2
      <4>1. s[1][1] = "collateral" /\ i = Len(fs) + 1
        BY <1>1, <3>1, <3>3, <3>4
      <4>2. fs = << >>
        BY <1>1, <4>1 DEF Fits
      <4>3. i = 1
        BY <4>1, <4>2
      <4> QED  BY <1>5, <4>3
    <3>5. CASE k # 2
      <4>0. k - 1 \in 2..Len(s)
        BY <1>1, <3>1, <3>5
      <4>1. PICK m \in 2..Len(s) : m = k - 1
        BY <4>0
      <4>2. Len(fs) + m - 1 = i - 1
        BY <1>1, <3>1, <4>1
      <4> QED  BY <1>1, <3>3, <4>1, <4>2
    <3> QED  BY <3>4, <3>5
  <2> QED  BY <2>1, <2>2
<1> QED  BY <1>3, <1>4, <1>5 DEF Shaped

\* Frames of a handler: none of the coroutine's own function.
Ordinary(fs) == \A f \in Elements(fs) : f[1] \notin {"return", "worker"} \cup EndOps

\* Frames that belong to no call.
Calm(fs) == \A f \in Elements(fs) : f[1] \notin CallOps

LEMMA OrdinaryFits ==
  ASSUME NEW fs, NEW f, Ordinary(fs), Calm(fs) \/ f[1] \in CallOps, f[1] # "collateral"
  PROVE  Fits(fs, f)
<1>1. \A i \in 1..Len(fs) : fs[i] \in Elements(fs)
  BY DEF Elements
<1>2. \A i \in 1..Len(fs) : fs[i][1] \notin {"return", "worker"} \cup EndOps
  BY <1>1 DEF Ordinary
<1>3. \A i \in 1..Len(fs) : fs[i][1] \in CallOps => f[1] \in CallOps
  BY <1>1 DEF Calm
<1>4. \A i \in 2..Len(fs) : fs[i][1] # "switch"
  <2>1. \A i \in 2..Len(fs) : i \in 1..Len(fs)
    OBVIOUS
  <2> QED  BY <1>2, <2>1 DEF EndOps
<1> QED  BY <1>2, <1>3, <1>4 DEF Fits

\* The stack of the coroutine that runs, with fs in the place of its top frame.
Pushed(td, fs) ==
  /\ Len(td) = Len(todo) /\ \A k \in 1..Len(todo) : k # active => td[k] = todo[k]
  /\ Shaped(td[active]) /\ td[active] = fs \o Tail(todo[active])
  /\ Elements(td[active]) = Elements(fs) \cup Elements(Tail(todo[active]))
  /\ Elements(todo[active]) = {Head(todo[active])} \cup Elements(Tail(todo[active]))

LEMMA PushedFacts ==
  ASSUME IInv, ShapeInv, NEW op, Doing(op), NEW fs \in Seq(Frames), Fits(fs, Head(todo[active]))
  PROVE  Pushed(Do(fs), fs)
<1>1. PICK s \in Seq(Frames) : s = todo[active] /\ s # << >> /\ Shaped(s)
  BY DoingFacts DEF ShapeInv
<1>2. PICK y : y = fs \o Tail(s)
  OBVIOUS
<1>3. Fits(fs, Head(s))
  BY <1>1
<1>4. Shaped(y)
  BY <1>1, <1>2, <1>3, ShapedFacts
<1>5. y \in Seq(Frames) /\ Elements(y) = Elements(fs) \cup Elements(Tail(s)) /\ Elements(s) = {Head(s)} \cup Elements(Tail(s))
  BY <1>1, <1>2, SplitFacts, ZenonT(30)
<1>6. PICK td : td = [todo EXCEPT ![active] = y]
  OBVIOUS
<1>7. /\ Len(td) = Len(todo) /\ td[active] = y /\ \A k \in 1..Len(todo) : k # active => td[k] = todo[k]
  BY <1>5, <1>6, ListTypes, UpdateFacts
<1>8. td = Do(fs)
  BY <1>1, <1>2, <1>6 DEF Do
<1>9. Pushed(td, fs)
  BY <1>1, <1>2, <1>4, <1>5, <1>7 DEF Pushed
<1> QED  BY <1>8, <1>9

\* Steps that leave the queue and keep the clients waiting whose calls have not returned.
LEMMA WaitingKept ==
  ASSUME WaitingInv, queue' = queue,
         \A k \in 1..Len(todo') : \A t \in Returns(todo'[k]) : k \in 1..Len(todo) /\ t \in Returns(todo[k]),
         \A k \in 1..Len(todo') : \A t \in Returns(todo'[k]) : client'[t] = client[t],
         \A i \in 1..Len(queue) : \A t \in Returns(queue[i]) : client'[t] = client[t]
  PROVE  WaitingInv'
<1>1. \A k \in 1..Len(todo') : \A t \in Returns(todo'[k]) : client'[t] = "waiting"
  BY DEF WaitingInv
<1>2. \A i \in 1..Len(queue) : \A t \in Returns(queue[i]) : client'[t] = "waiting"
  BY DEF WaitingInv
<1>3. ASSUME NEW j \in 1..Len(todo'), NEW k \in 1..Len(todo'), j # k
      PROVE  Returns(todo'[j]) \cap Returns(todo'[k]) = {}
  BY <1>3 DEF WaitingInv
<1>4. ASSUME NEW k \in 1..Len(todo'), NEW i \in 1..Len(queue)
      PROVE  Returns(todo'[k]) \cap Returns(queue[i]) = {}
  BY DEF WaitingInv
<1> QED  BY <1>1, <1>2, <1>3, <1>4 DEF WaitingInv, Returns

\* Frames that end what counts as handling an event of component c.
Ends(c) == {<<"leave", c>>, <<"drain", c>>}

\* A component counts as handling an event only when there is a frame left to end it.
LEMMA HandlingKept ==
  ASSUME HandlingInv, NEW td, NEW fs, Pushed(td, fs), active \in 1..Len(todo), Len(todo) \in Nat,
         Len(todo') \in Nat, Len(todo') >= Len(todo), \A k \in 1..Len(todo) : todo'[k] = td[k],
         \A c \in Component : handling'[c] # 0 =>
           \/ handling[c] # 0 /\ Head(todo[active]) \notin Ends(c)
           \/ \E f \in Elements(fs) : f \in Ends(c)
  PROVE  HandlingInv'
<1>1. 1..Len(todo) \subseteq 1..Len(todo')
  OBVIOUS
<1>2. ASSUME NEW c \in Component, handling'[c] # 0
      PROVE  \E k \in 1..Len(todo') : \E f \in Elements(todo'[k]) : f \in Ends(c)
  <2>1. CASE \E f \in Elements(fs) : f \in Ends(c)
    BY <1>1, <2>1 DEF Pushed
  <2>2. CASE handling[c] # 0 /\ Head(todo[active]) \notin Ends(c)
    <3>1. PICK k \in 1..Len(todo) : \E f \in Elements(todo[k]) : f \in Ends(c)
      BY <2>2 DEF HandlingInv, Ends
    <3>2. PICK f \in Elements(todo[k]) : f \in Ends(c)
      BY <3>1
    <3>3. f \in Elements(td[k])
      <4>1. CASE k = active
        BY <2>2, <3>2, <4>1 DEF Pushed
      <4>2. CASE k # active
        BY <3>2, <4>2 DEF Pushed
      <4> QED  BY <4>1, <4>2
    <3> QED  BY <1>1, <3>2, <3>3
  <2> QED  BY <1>2, <2>1, <2>2
<1> QED  BY <1>2 DEF HandlingInv, Ends

\* After a frame of a handler comes another frame of a handler, or the end of the events.
LEMMA NextOnTop ==
  ASSUME IInv, ShapeInv, NEW op, Doing(op), op # "collateral", NEW fs \in Seq(Plain),
         \A f \in Elements(fs) : f[1] # "switch", NEW y, y = fs \o Tail(todo[active]), y # << >>
  PROVE  Head(y)[1] \notin {"switch", "worker"}
<1>1. PICK s \in Seq(Frames) : s = todo[active] /\ s # << >> /\ Shaped(s) /\ Head(s)[1] = op
  BY DoingFacts DEF ShapeInv
<1>2. fs \in Seq(Frames) /\ y = fs \o Tail(s)
  BY <1>1, PlainFacts
<1>3. /\ y \in Seq(Frames) /\ Len(y) = Len(fs) + Len(s) - 1
      /\ Len(fs) \in Nat /\ Len(s) \in Nat \ {0} /\ Head(s) = s[1]
      /\ \A i \in 1..Len(fs) : i \in 1..Len(y) /\ y[i] = fs[i]
      /\ \A i \in 1..Len(y) :
           i \in 1..Len(fs) \/ (i - Len(fs) + 1 \in 2..Len(s) /\ y[i] = s[i - Len(fs) + 1])
  BY <1>1, <1>2, SplitFacts
<1>4. 1 \in 1..Len(y) /\ Head(y) = y[1]
  BY <1>3
<1>5. CASE 1 \in 1..Len(fs)
  <2>1. y[1] \in Elements(fs)
    BY <1>3, <1>5 DEF Elements
  <2>2. Head(y)[1] # "switch"
    BY <1>4, <2>1
  <2>3. fs[1] \in Plain /\ Head(y) = fs[1]
    BY <1>3, <1>4, <1>5
  <2> QED  BY <2>2, <2>3 DEF Plain
<1>6. CASE 1 \notin 1..Len(fs)
  <2>1. Len(fs) = 0 /\ fs = << >>
    BY <1>3, <1>6
  <2>2. 2 \in 2..Len(s) /\ y[1] = s[2]
    BY <1>3, <1>4, <1>6, <2>1
  <2>3. s[2][1] # "switch"
    <3>1. 2 \in 1..Len(s) /\ 2 > 1 /\ 2 - 1 = 1
      BY <2>2
    <3>2. PICK k \in 1..Len(s) : k = 2 /\ k - 1 = 1 /\ k > 1
      BY <3>1
    <3>3. s[k][1] = "switch" => s[k-1][1] = "collateral"
      BY <1>1, <3>2 DEF Shaped
    <3>4. s[k] = s[2] /\ s[k-1] = s[1]
      BY <3>2
    <3> QED  BY <1>1, <1>3, <3>3, <3>4
  <2>4. y \in Seq(Plain)
    <3>1. Tail(todo[active]) \in Seq(Plain)
      BY DoingFacts
    <3> QED  BY <3>1, PlainLists
  <2>5. Head(y)[1] # "worker"
    BY <2>4, PlainFacts
  <2> QED  BY <1>4, <2>2, <2>3, <2>5
<1> QED  BY <1>5, <1>6

\* Nothing returns in the frames of a handler.
LEMMA OrdinaryReturns ==
  ASSUME NEW fs, Ordinary(fs)
  PROVE  Returns(fs) = {}
<1>1. \A t : <<"return", t>>[1] = "return"
  OBVIOUS
<1> QED  BY <1>1 DEF Ordinary, Returns

\* What is below a return.
LEMMA NothingReturns ==
  ASSUME NEW s \in Seq(Frames), s # << >>, Shaped(s), Head(s)[1] \in {"return", "worker"} \cup EndOps
  PROVE  Returns(Tail(s)) = {} /\ \A f \in Elements(Tail(s)) : f[1] \in EndOps
<1>1. /\ Head(s) = s[1] /\ Tail(s) \in Seq(Frames) /\ Len(Tail(s)) = Len(s) - 1
      /\ \A i \in 1..Len(s) - 1 : Tail(s)[i] = s[i + 1]
  BY TailFacts
<1>2. Len(s) \in Nat \ {0}
  OBVIOUS
<1>3. \A j \in 2..Len(s) : s[j][1] \in EndOps
  <2>1. 1 \in 1..Len(s) /\ 1 + 1 = 2
    BY <1>2
  <2> QED  BY <1>1, <2>1 DEF Shaped
<1>4. \A i \in 1..Len(s) - 1 : i + 1 \in 2..Len(s)
  BY <1>2
<1>5. \A f \in Elements(Tail(s)) : f[1] \in EndOps
  BY <1>1, <1>3, <1>4 DEF Elements
<1>6. \A t : <<"return", t>>[1] = "return"
  OBVIOUS
<1>7. Returns(Tail(s)) = {}
  BY <1>5, <1>6 DEF Returns, EndOps
<1> QED  BY <1>5, <1>7

\* A step of a handler.
LEMMA CleanLocal ==
  ASSUME IInv, CleanInv, NEW op, Doing(op), op \notin {"switch", "collateral"},
         NEW fs \in Seq(Plain), Ordinary(fs), Calm(fs) \/ op \in CallOps, todo' = Do(fs),
         UNCHANGED <<collateral, active, finished, queue, unblocked>>,
         \A k \in Elements(coroutines) : ~finished[k] => k \in Elements(coroutines'),
         \A t \in Client : client'[t] = client[t] \/ (op = "return" /\ Arg = t),
         \A c \in Component : handling'[c] # 0 =>
           \/ handling[c] # 0 /\ ~ (op \in {"leave", "drain"} /\ Arg = c)
           \/ \E f \in Elements(fs) : f \in Ends(c)
  PROVE  CleanInv'
<1>1. /\ active \in 1..Len(todo) /\ todo[active] \in Seq(Frames) /\ todo[active] # << >>
      /\ Head(todo[active])[1] = op /\ Arg = Head(todo[active])[2] /\ Head(todo[active]) \in Frames
      /\ ShapeInv /\ WaitingInv /\ FinishedInv /\ LeftInv /\ HandlingInv
      /\ fs \in Seq(Frames) /\ Len(todo) \in Nat
  BY DoingFacts, ListTypes, PlainFacts DEF CleanInv
<1>2. Fits(fs, Head(todo[active]))
  BY <1>1, OrdinaryFits
<1>3. Pushed(todo', fs)
  BY <1>1, <1>2, PushedFacts
<1>4. ShapeInv'
  BY <1>1, <1>3 DEF ShapeInv, Pushed
<1>5. WaitingInv'
  <2>1. \A t \in Returns(todo'[active]) : t \in Returns(todo[active]) /\ t \in Returns(Tail(todo[active]))
    BY <1>3, OrdinaryReturns DEF Pushed, Returns
  <2>2. \A k \in 1..Len(todo') : \A t \in Returns(todo'[k]) : k \in 1..Len(todo) /\ t \in Returns(todo[k])
    BY <1>3, <2>1 DEF Pushed
  <2>3. CASE op # "return"
    <3>1. \A t \in Client : client'[t] = client[t]
      BY <2>3
    <3>2. \A x : Returns(x) \subseteq Client
      BY DEF Returns
    <3> QED  BY <1>1, <2>2, <3>1, <3>2, WaitingKept
  <2>4. CASE op = "return"
    <3>1. Arg \in Client /\ Head(todo[active]) = <<"return", Arg>>
      BY <1>1, <2>4, FrameFacts
    <3>2. Arg \in Returns(todo[active])
      BY <1>3, <3>1 DEF Pushed, Returns
    <3>3. Returns(Tail(todo[active])) = {}
      <4>1. Shaped(todo[active])
        BY <1>1 DEF ShapeInv
      <4> QED  BY <1>1, <2>4, <4>1, NothingReturns
    <3>4. Returns(todo'[active]) = {}
      BY <2>1, <3>3
    <3>5. ASSUME NEW k \in 1..Len(todo'), Arg \in Returns(todo'[k])
          PROVE  FALSE
      <4>1. k # active
        BY <3>4, <3>5
      <4>2. k \in 1..Len(todo) /\ Arg \in Returns(todo[k])
        BY <2>2, <3>5
      <4>3. Returns(todo[k]) \cap Returns(todo[active]) = {}
        BY <1>1, <4>1, <4>2 DEF WaitingInv
      <4> QED  BY <3>2, <4>2, <4>3
    <3>6. \A i \in 1..Len(queue) : Arg \notin Returns(queue[i])
      BY <1>1, <3>2 DEF WaitingInv
    <3>7. \A x : Returns(x) \subseteq Client
      BY DEF Returns
    <3>8. \A k \in 1..Len(todo') : \A t \in Returns(todo'[k]) : client'[t] = client[t]
      BY <3>5, <3>7
    <3>9. \A i \in 1..Len(queue) : \A t \in Returns(queue[i]) : client'[t] = client[t]
      BY <3>6, <3>7
    <3> QED  BY <1>1, <2>2, <3>8, <3>9, WaitingKept
  <2> QED  BY <2>3, <2>4
<1>6. FinishedInv'
  <2>1. ~finished[active]
    BY DEF IInv, ActiveInv
  <2> QED  BY <1>1, <1>3, <2>1 DEF FinishedInv, Pushed
<1>7. LeftInv'
  <2>1. todo'[active] # << >> => Head(todo'[active])[1] \notin {"switch", "worker"}
    <3>1. PICK y : y = todo'[active] /\ y = fs \o Tail(todo[active])
      BY <1>3 DEF Pushed
    <3>2. \A f \in Elements(fs) : f[1] # "switch"
      BY DEF Ordinary, EndOps
    <3> QED  BY <1>1, <3>1, <3>2, NextOnTop
  <2> QED  BY <2>1 DEF LeftInv
<1>8. HandlingInv'
  <2>1. \A c \in Component : Head(todo[active]) \in Ends(c) => op \in {"leave", "drain"} /\ Arg = c
    BY <1>1 DEF Ends
  <2>2. PICK td : td = todo'
    OBVIOUS
  <2>3. /\ \A c \in Component : handling'[c] # 0 =>
             \/ handling[c] # 0 /\ Head(todo[active]) \notin Ends(c)
             \/ \E f \in Elements(fs) : f \in Ends(c)
        /\ Pushed(td, fs) /\ Len(todo') = Len(todo) /\ \A k \in 1..Len(todo) : todo'[k] = td[k]
    BY <1>3, <2>1, <2>2 DEF Pushed
  <2> QED  BY <1>1, <2>3, HandlingKept
<1> QED  BY <1>4, <1>5, <1>6, <1>7, <1>8 DEF CleanInv

\* A step of a handler: what it pushes, and what else it changes.
HandlerStep(op, fs) ==
  /\ Doing(op) /\ op \notin {"switch", "collateral"}
  /\ fs \in Seq(Plain) /\ Ordinary(fs) /\ (Calm(fs) \/ op \in CallOps) /\ todo' = Do(fs)

\* ... the lists, apart from finished coroutines ...
KeepsLists ==
  /\ UNCHANGED <<collateral, active, finished, queue, unblocked>>
  /\ \A k \in Elements(coroutines) : ~finished[k] => k \in Elements(coroutines')

\* ... and what counts as handling an event.
EndsHandling(op, fs) ==
  \A c \in Component : handling'[c] # 0 =>
    \/ handling[c] # 0 /\ ~ (op \in {"leave", "drain"} /\ Arg = c)
    \/ \E f \in Elements(fs) : f \in Ends(c)

LEMMA CleanStep ==
  ASSUME IInv, CleanInv, NEW op, NEW fs, HandlerStep(op, fs), KeepsLists, EndsHandling(op, fs),
         \A t \in Client : client'[t] = client[t] \/ (op = "return" /\ Arg = t)
  PROVE  CleanInv'
<1>1. /\ Doing(op) /\ op \notin {"switch", "collateral"}
      /\ fs \in Seq(Plain) /\ Ordinary(fs) /\ (Calm(fs) \/ op \in CallOps) /\ todo' = Do(fs)
  BY DEF HandlerStep
<1>2. /\ UNCHANGED <<collateral, active, finished, queue, unblocked>>
      /\ \A k \in Elements(coroutines) : ~finished[k] => k \in Elements(coroutines')
  BY DEF KeepsLists
<1>3. \A c \in Component : handling'[c] # 0 =>
        \/ handling[c] # 0 /\ ~ (op \in {"leave", "drain"} /\ Arg = c)
        \/ \E f \in Elements(fs) : f \in Ends(c)
  BY DEF EndsHandling
<1> QED  BY <1>1, <1>2, <1>3, CleanLocal

\* A step that leaves the lists and what counts as handling an event alone.
LEMMA UsualClean ==
  ASSUME UNCHANGED <<collateral, active, finished, queue, unblocked, coroutines>>
  PROVE  /\ KeepsLists
         /\ handling' = handling => \A op, fs : op \notin {"leave", "drain"} => EndsHandling(op, fs)
BY DEF KeepsLists, EndsHandling

\* The frames that the actions push.
LEMMA ShortLists ==
  /\ Elements(<< >>) = {}
  /\ \A x : Elements(<<x>>) = {x}
  /\ \A x, y : Elements(<<x, y>>) = {x, y}
<1>1. Elements(<< >>) = {}
  BY EmptyFacts
<1>2. ASSUME NEW x
      PROVE  Elements(<<x>>) = {x}
  BY DEF Elements
<1>3. ASSUME NEW x, NEW y
      PROVE  Elements(<<x, y>>) = {x, y}
  BY DEF Elements
<1> QED  BY <1>1, <1>2, <1>3

LEMMA EmptyPush ==
  << >> \in Seq(Plain) /\ Ordinary(<< >>) /\ Calm(<< >>) /\ Elements(<< >>) = {}
BY PlainLists, EmptyFacts DEF Ordinary, Calm

\* A frame of a handler.
Handles(f) == f \in Plain /\ f[1] \notin {"return", "worker"} \cup EndOps

LEMMA HandlerFrames ==
  /\ \A p \in Port : /\ Handles(<<"enter", p>>) /\ Handles(<<"block", p>>) /\ Handles(<<"park", p>>)
  /\ \A w \in World : Handles(<<"out", w>>)
  /\ \A c \in Component : /\ Handles(<<"flush", c>>) /\ Handles(<<"drain", c>>) /\ Handles(<<"leave", c>>)
                          /\ <<"flush", c>>[1] \notin CallOps /\ <<"drain", c>>[1] \notin CallOps
                          /\ <<"leave", c>>[1] \notin CallOps
  /\ \A c \in Component : \A i \in Nat :
       Handles(<<"flush_as", c, i>>) /\ <<"flush_as", c, i>>[1] \notin CallOps
  /\ \A w \in World : <<"out", w>>[1] \notin CallOps
BY MakeFrames DEF Handles, CallOps, EndOps

LEMMA OnePush ==
  ASSUME NEW f, Handles(f)
  PROVE  /\ <<f>> \in Seq(Plain) /\ Ordinary(<<f>>) /\ Elements(<<f>>) = {f}
         /\ f[1] \notin CallOps => Calm(<<f>>)
BY PlainLists, ShortLists DEF Ordinary, Calm, Handles

LEMMA TwoPush ==
  ASSUME NEW f, Handles(f), NEW g, Handles(g)
  PROVE  /\ <<f, g>> \in Seq(Plain) /\ Ordinary(<<f, g>>) /\ Elements(<<f, g>>) = {f, g}
         /\ f[1] \notin CallOps /\ g[1] \notin CallOps => Calm(<<f, g>>)
BY PlainLists, ShortLists DEF Ordinary, Calm, Handles

LEMMA BodyPush ==
  ASSUME NEW x \in Port \cup World \cup Statement
  PROVE  /\ Body[x] \in Seq(Plain) /\ Ordinary(Body[x])
         /\ CallsForClients /\ x \in World \cup Statement => Calm(Body[x])
<1> DEFINE Todo == {"call", "reply"} \X Port \cup {"ask"} \X World \cup {"defer"} \X Statement
<1>1. Body[x] \in Seq(Todo)
  BY BlockingAssumption
<1>2. \A f \in Todo : f[1] \in {"call", "reply", "ask", "defer"}
  OBVIOUS
<1> HIDE DEF Todo
<1>3. Elements(Body[x]) \subseteq Todo
  BY <1>1, EmptyFacts
<1>4. \A f \in Elements(Body[x]) : f[1] \in {"call", "reply", "ask", "defer"}
  BY <1>2, <1>3
<1>5. Ordinary(Body[x])
  BY <1>4 DEF Ordinary, EndOps
<1>6. CallsForClients /\ x \in World \cup Statement => \A f \in Elements(Body[x]) : f[1] # "call"
  BY DEF CallsForClients, Elements
<1>7. CallsForClients /\ x \in World \cup Statement => Calm(Body[x])
  BY <1>4, <1>6 DEF Calm, CallOps
<1> QED  BY <1>5, <1>7, BodyFacts

LEMMA ConcatPush ==
  ASSUME NEW p \in Seq(Plain), NEW q \in Seq(Plain), Ordinary(p), Ordinary(q)
  PROVE  /\ p \o q \in Seq(Plain) /\ Ordinary(p \o q)
         /\ Elements(p \o q) = Elements(p) \cup Elements(q)
         /\ Calm(p) /\ Calm(q) => Calm(p \o q)
<1>1. p \o q \in Seq(Plain) /\ Elements(p \o q) = Elements(p) \cup Elements(q)
  BY ConcatFacts
<1> QED  BY <1>1 DEF Ordinary, Calm

LEMMA ReturnClean ==
  ASSUME IInv, CleanInv, Return
  PROVE  CleanInv'
<1>1. \A t \in Client : client'[t] = client[t] \/ Arg = t
  BY DEF IInv, TypeOK, EnvTypes, Return
<1>2. HandlerStep("return", << >>)
  BY EmptyPush DEF HandlerStep, Return
<1>3. KeepsLists /\ EndsHandling("return", << >>)
  BY UsualClean DEF Return, pumpVars, coroutineVars, runtimeVars
<1> QED  BY <1>1, <1>2, <1>3, CleanStep

LEMMA DeferClean ==
  ASSUME IInv, CleanInv, Defer
  PROVE  CleanInv'
<1>1. HandlerStep("defer", << >>)
  BY EmptyPush DEF HandlerStep, Defer
<1>2. KeepsLists /\ EndsHandling("defer", << >>) /\ UNCHANGED client
  BY UsualClean DEF Defer, pumpVars, coroutineVars, runtimeVars
<1> QED  BY <1>1, <1>2, CleanStep

LEMMA CallFreeClean ==
  ASSUME IInv, CleanInv, CallFree
  PROVE  CleanInv'
<1>1. Arg \in Port
  BY DoingFacts DEF CallFree
<1>2. PICK fs \in Seq(Plain) : fs = <<<<"enter", Arg>>>> /\ Ordinary(fs)
  BY <1>1, HandlerFrames, OnePush
<1>3. "call" \in CallOps
  BY DEF CallOps
<1>4. HandlerStep("call", fs)
  BY <1>2, <1>3 DEF HandlerStep, CallFree
<1>5. KeepsLists /\ EndsHandling("call", fs) /\ UNCHANGED client
  BY UsualClean DEF CallFree, pumpVars, coroutineVars, runtimeVars, envVars
<1> QED  BY <1>4, <1>5, CleanStep

LEMMA EnterClean ==
  ASSUME IInv, CleanInv, Enter
  PROVE  CleanInv'
<1>1. Arg \in Port /\ Owner[Arg] \in Component
  BY DoingFacts DEF Enter
<1> DEFINE block == IF Arg \in Blocks THEN <<<<"block", Arg>>>> ELSE << >>
           leave == <<<<"flush", Owner[Arg]>>, <<"leave", Owner[Arg]>>>>
<1>2. block \in Seq(Plain) /\ Ordinary(block)
  BY <1>1, EmptyPush, HandlerFrames, OnePush
<1>3. leave \in Seq(Plain) /\ Ordinary(leave) /\ <<"leave", Owner[Arg]>> \in Elements(leave)
  <2>1. PICK f, g : f = <<"flush", Owner[Arg]>> /\ g = <<"leave", Owner[Arg]>> /\ Handles(f) /\ Handles(g)
    BY <1>1, HandlerFrames
  <2>2. <<f, g>> \in Seq(Plain) /\ Ordinary(<<f, g>>) /\ Elements(<<f, g>>) = {f, g}
    BY <2>1, TwoPush
  <2> QED  BY <2>1, <2>2
<1> HIDE DEF block, leave
<1>4. PICK b \in Seq(Plain) : b = Body[Arg] \o block /\ Ordinary(b)
  BY <1>1, <1>2, BodyPush, ConcatPush
<1>5. PICK fs \in Seq(Plain) : fs = b \o leave /\ Ordinary(fs) /\ Elements(fs) = Elements(b) \cup Elements(leave)
  BY <1>3, <1>4, ConcatPush
<1>6. todo' = Do(fs)
  BY <1>4, <1>5 DEF Enter, block, leave
<1>7. \A c \in Component : handling'[c] # 0 =>
        handling[c] # 0 \/ \E f \in Elements(fs) : f \in Ends(c)
  <2>1. handling' = [handling EXCEPT ![Owner[Arg]] = active] /\ DOMAIN handling = Component
    BY DEF Enter, IInv, TypeOK, RuntimeTypes
  <2>2. <<"leave", Owner[Arg]>> \in Elements(fs) /\ <<"leave", Owner[Arg]>> \in Ends(Owner[Arg])
    BY <1>3, <1>5 DEF Ends
  <2> QED  BY <1>1, <2>1, <2>2
<1>8. "enter" \in CallOps
  BY DEF CallOps
<1>9. HandlerStep("enter", fs)
  BY <1>5, <1>6, <1>8 DEF HandlerStep, Enter
<1>10. KeepsLists /\ UNCHANGED client
  BY UsualClean DEF Enter, pumpVars, coroutineVars, envVars
<1>11. EndsHandling("enter", fs)
  BY <1>7 DEF EndsHandling
<1> QED  BY <1>9, <1>10, <1>11, CleanStep

LEMMA LeaveClean ==
  ASSUME IInv, CleanInv, Leave
  PROVE  CleanInv'
<1>1. Arg \in Component
  BY DoingFacts DEF Leave
<1>2. \A c \in Component : handling'[c] # 0 => handling[c] # 0 /\ Arg # c
  BY <1>1 DEF Leave, IInv, TypeOK, RuntimeTypes
<1> QED  BY <1>2, EmptyPush, CleanLocal DEF Leave, pumpVars, coroutineVars, envVars

LEMMA AskClean ==
  ASSUME IInv, CleanInv, AskSync \/ Ask
  PROVE  CleanInv'
<1>1. Arg \in World /\ Owner[Arg] \in Component /\ Doing("ask")
  BY DoingFacts DEF Ask, AskSync
<1>2. PICK fs \in Seq(Plain) : /\ Ordinary(fs) /\ Calm(fs) /\ <<"leave", Owner[Arg]>> \in Elements(fs)
                               /\ todo' = Do(fs)
  <2>1. PICK f, g : /\ f = <<"out", Arg>> /\ g = <<"leave", Owner[Arg]>> /\ Handles(f) /\ Handles(g)
                    /\ f[1] \notin CallOps /\ g[1] \notin CallOps
    BY <1>1, HandlerFrames
  <2>2. CASE AskSync
    <3>1. <<f, g>> \in Seq(Plain) /\ Ordinary(<<f, g>>) /\ Elements(<<f, g>>) = {f, g} /\ Calm(<<f, g>>)
      BY <2>1, TwoPush
    <3>2. todo' = Do(<<f, g>>)
      BY <2>1, <2>2 DEF AskSync
    <3> QED  BY <2>1, <3>1, <3>2
  <2>3. CASE Ask
    <3>1. <<g>> \in Seq(Plain) /\ Ordinary(<<g>>) /\ Elements(<<g>>) = {g} /\ Calm(<<g>>)
      BY <2>1, OnePush
    <3>2. todo' = Do(<<g>>)
      BY <2>1, <2>3 DEF Ask
    <3> QED  BY <2>1, <3>1, <3>2
  <2> QED  BY <2>2, <2>3
<1>3. \A c \in Component : handling'[c] # 0 =>
        handling[c] # 0 \/ \E f \in Elements(fs) : f \in Ends(c)
  <2>1. handling' = [handling EXCEPT ![Owner[Arg]] = active] /\ DOMAIN handling = Component
    BY DEF Ask, AskSync, IInv, TypeOK, RuntimeTypes
  <2>2. <<"leave", Owner[Arg]>> \in Ends(Owner[Arg])
    BY DEF Ends
  <2> QED  BY <1>1, <1>2, <2>1, <2>2
<1>4. UNCHANGED <<pumpVars, coroutineVars, queue, client>>
  BY DEF Ask, AskSync, envVars
<1> QED  BY <1>1, <1>2, <1>3, <1>4, CleanLocal DEF pumpVars, coroutineVars

LEMMA OutClean ==
  ASSUME IInv, CleanInv, Out
  PROVE  CleanInv'
<1>1. Arg \in World /\ Owner[Arg] \in Component
  BY DoingFacts DEF Out
<1>2. PICK fs \in Seq(Plain) : /\ fs = IF handling[Owner[Arg]] = 0 THEN <<<<"flush", Owner[Arg]>>>> ELSE << >>
                               /\ Ordinary(fs) /\ Calm(fs)
  BY <1>1, EmptyPush, HandlerFrames, OnePush
<1>3. HandlerStep("out", fs)
  BY <1>2 DEF HandlerStep, Out
<1>4. KeepsLists /\ EndsHandling("out", fs) /\ UNCHANGED client
  BY UsualClean DEF Out, pumpVars, coroutineVars, envVars
<1> QED  BY <1>3, <1>4, CleanStep

LEMMA FlushClean ==
  ASSUME IInv, CleanInv, Flush
  PROVE  CleanInv'
<1>1. Arg \in Component
  BY DoingFacts DEF Flush
<1>2. PICK fs \in Seq(Plain) : /\ fs = <<<<"drain", Arg>>>> /\ Ordinary(fs) /\ Calm(fs)
                               /\ Elements(fs) = {<<"drain", Arg>>}
  BY <1>1, HandlerFrames, OnePush
<1>3. \A c \in Component : handling'[c] # 0 =>
        handling[c] # 0 \/ \E f \in Elements(fs) : f \in Ends(c)
  <2>1. handling' = [handling EXCEPT ![Arg] = active] /\ DOMAIN handling = Component
    BY DEF Flush, IInv, TypeOK, RuntimeTypes
  <2>2. <<"drain", Arg>> \in Ends(Arg)
    BY DEF Ends
  <2> QED  BY <1>1, <1>2, <2>1, <2>2
<1>4. HandlerStep("flush", fs)
  BY <1>2 DEF HandlerStep, Flush
<1>5. KeepsLists /\ UNCHANGED client
  BY UsualClean DEF Flush, pumpVars, coroutineVars, envVars
<1>6. EndsHandling("flush", fs)
  BY <1>3 DEF EndsHandling
<1> QED  BY <1>4, <1>5, <1>6, CleanStep

LEMMA FlushAsClean ==
  ASSUME IInv, CleanInv, FlushAs
  PROVE  CleanInv'
<1>1. Arg \in Component
  BY DoingFacts DEF FlushAs
<1>2. PICK fs \in Seq(Plain) : /\ fs = <<<<"drain", Arg>>>> /\ Ordinary(fs) /\ Calm(fs)
                               /\ Elements(fs) = {<<"drain", Arg>>}
  BY <1>1, HandlerFrames, OnePush
<1>3. \A c \in Component : handling'[c] # 0 =>
        handling[c] # 0 \/ \E f \in Elements(fs) : f \in Ends(c)
  <2>1. handling' = [handling EXCEPT ![Arg] = Head(todo[active])[3]] /\ DOMAIN handling = Component
    BY DEF FlushAs, IInv, TypeOK, RuntimeTypes
  <2>2. <<"drain", Arg>> \in Ends(Arg)
    BY DEF Ends
  <2> QED  BY <1>1, <1>2, <2>1, <2>2
<1>4. HandlerStep("flush_as", fs)
  BY <1>2 DEF HandlerStep, FlushAs
<1>5. KeepsLists /\ UNCHANGED client
  BY UsualClean DEF FlushAs, pumpVars, coroutineVars, envVars
<1>6. EndsHandling("flush_as", fs)
  BY <1>3 DEF EndsHandling
<1> QED  BY <1>4, <1>5, <1>6, CleanStep

LEMMA DrainClean ==
  ASSUME IInv, CleanInv, CallsForClients, Drain
  PROVE  CleanInv'
<1>1. Arg \in Component /\ pending[Arg] \in Seq(World)
  BY DoingFacts DEF Drain, IInv, TypeOK, RuntimeTypes
<1>2. CASE pending[Arg] = << >>
  <2>1. \A c \in Component : handling'[c] # 0 => handling[c] # 0 /\ Arg # c
    BY <1>1, <1>2 DEF Drain, IInv, TypeOK, RuntimeTypes
  <2> QED  BY <1>2, <2>1, EmptyPush, CleanLocal DEF Drain, pumpVars, coroutineVars, envVars
<1>3. CASE pending[Arg] # << >>
  <2>1. PICK w \in World : w = Head(pending[Arg])
    BY <1>1, <1>3
  <2>2. Body[w] \in Seq(Plain) /\ Ordinary(Body[w]) /\ Calm(Body[w])
    BY BodyPush
  <2>3. PICK d \in Seq(Plain) : /\ d = <<<<"drain", Arg>>>> /\ Ordinary(d) /\ Calm(d)
                                /\ <<"drain", Arg>> \in Elements(d)
    BY <1>1, HandlerFrames, OnePush
  <2>4. PICK fs \in Seq(Plain) : /\ fs = Body[w] \o d /\ Ordinary(fs) /\ Calm(fs)
                                 /\ <<"drain", Arg>> \in Elements(fs)
    BY <2>2, <2>3, ConcatPush, ZenonT(30)
  <2>5. <<"drain", Arg>> \in Ends(Arg)
    BY DEF Ends
  <2>6. \A c \in Component : handling'[c] # 0 =>
          (handling[c] # 0 /\ Arg # c) \/ \E f \in Elements(fs) : f \in Ends(c)
    BY <1>3, <2>4, <2>5 DEF Drain
  <2>7. todo' = Do(fs)
    BY <1>3, <2>1, <2>3, <2>4 DEF Drain
  <2> QED  BY <2>4, <2>6, <2>7, CleanLocal DEF Drain, pumpVars, coroutineVars, envVars
<1> QED  BY <1>2, <1>3

LEMMA BlockClean ==
  ASSUME IInv, CleanInv, Block
  PROVE  CleanInv'
<1>1. Arg \in Port /\ Owner[Arg] \in Component
  BY DoingFacts DEF Block
<1>2. PICK fs \in Seq(Plain) : fs = <<<<"flush", Owner[Arg]>>, <<"park", Arg>>>> /\ Ordinary(fs)
  BY <1>1, HandlerFrames, TwoPush
<1>3. \A c \in Component : handling'[c] # 0 => handling[c] # 0
  BY <1>1 DEF Block, IInv, TypeOK, RuntimeTypes
<1>4. "block" \in CallOps
  BY DEF CallOps
<1>5. HandlerStep("block", fs)
  BY <1>2, <1>4 DEF HandlerStep, Block
<1>6. KeepsLists /\ UNCHANGED client
  BY UsualClean DEF Block, pumpVars, coroutineVars, envVars
<1>7. EndsHandling("block", fs)
  BY <1>3 DEF EndsHandling
<1> QED  BY <1>5, <1>6, <1>7, CleanStep

LEMMA SkipBlockClean ==
  ASSUME IInv, CleanInv, SkipBlock
  PROVE  CleanInv'
<1>1. HandlerStep("park", << >>)
  BY EmptyPush DEF HandlerStep, SkipBlock
<1>2. KeepsLists /\ EndsHandling("park", << >>) /\ UNCHANGED client
  BY UsualClean DEF SkipBlock, pumpVars, coroutineVars, envVars
<1> QED  BY <1>1, <1>2, CleanStep

LEMMA ReleaseClean ==
  ASSUME IInv, CleanInv, Release
  PROVE  CleanInv'
<1>1. HandlerStep("reply", << >>)
  BY EmptyPush DEF HandlerStep, Release
<1>2. KeepsLists /\ EndsHandling("reply", << >>) /\ UNCHANGED client
  BY UsualClean DEF Release, coroutineVars, envVars
<1> QED  BY <1>1, <1>2, CleanStep

LEMMA UnparkClean ==
  ASSUME IInv, CleanInv, Unpark
  PROVE  CleanInv'
<1>1. \A k \in Elements(coroutines) : ~finished[k] => k \in Elements(coroutines')
  <2>1. PICK S : S = {k \in Elements(coroutines) : ~finished[k]}
    OBVIOUS
  <2>2. Elements(Keep(coroutines, S)) = Elements(coroutines) \cap S
    BY ListTypes, KeepFacts
  <2>3. coroutines' = Keep(coroutines, S)
    BY <2>1 DEF Unpark, Unfinished
  <2> QED  BY <2>1, <2>2, <2>3
<1>2. HandlerStep("unpark", << >>)
  BY EmptyPush DEF HandlerStep, Unpark
<1>3. KeepsLists /\ UNCHANGED client
  BY <1>1 DEF KeepsLists, Unpark, coroutineVars, envVars
<1>4. EndsHandling("unpark", << >>)
  BY DEF EndsHandling, Unpark
<1> QED  BY <1>2, <1>3, <1>4, CleanStep

LEMMA WorkerDeferClean ==
  ASSUME IInv, CleanInv, CallsForClients, NEW s \in Statement, WorkerDefer(s)
  PROVE  CleanInv'
<1>1. Owner[s] \in Component /\ Len(todo) \in Nat
  BY BlockingAssumption, ListTypes
<1>2. Body[s] \in Seq(Plain) /\ Ordinary(Body[s]) /\ Calm(Body[s])
  BY BodyPush
<1>3. PICK f : f = <<"flush_as", Owner[s], Len(todo)>> /\ Handles(f) /\ f[1] \notin CallOps
  BY <1>1, HandlerFrames
<1>4. PICK d \in Seq(Plain) : d = <<f>> /\ Ordinary(d) /\ Calm(d)
  BY <1>3, OnePush
<1>5. PICK fs \in Seq(Plain) : fs = Body[s] \o d /\ Ordinary(fs) /\ Calm(fs)
  BY <1>2, <1>4, ConcatPush
<1>6. PICK op : Doing(op) /\ op \in {"worker", "deferred"}
  BY DEF WorkerDefer
<1>7. HandlerStep(op, fs)
  BY <1>3, <1>4, <1>5, <1>6 DEF HandlerStep, WorkerDefer
<1>8. KeepsLists /\ EndsHandling(op, fs) /\ UNCHANGED client
  BY <1>6, UsualClean DEF WorkerDefer, pumpVars, coroutineVars, runtimeVars
<1> QED  BY <1>7, <1>8, CleanStep

LEMMA WorkerDeferNoneClean ==
  ASSUME IInv, CleanInv, WorkerDeferNone
  PROVE  CleanInv'
<1>1. HandlerStep("deferred", << >>)
  BY EmptyPush DEF HandlerStep, WorkerDeferNone
<1>2. KeepsLists /\ EndsHandling("deferred", << >>) /\ UNCHANGED client
  BY UsualClean DEF WorkerDeferNone, pumpVars, coroutineVars, runtimeVars, envVars
<1> QED  BY <1>1, <1>2, CleanStep

-------------------------------------------------------------------------------
\* What the stacks are after a step: td, and that of a new coroutine.
Spread(td) ==
  /\ Len(todo') \in Nat /\ Len(todo') >= Len(todo)
  /\ \A k \in 1..Len(todo) : todo'[k] = td[k]
  /\ \A k \in 1..Len(todo') : k \in 1..Len(todo) \/ todo'[k] = <<<<"switch">>>>

LEMMA NewStack ==
  ASSUME NEW y, y = <<<<"switch">>>>
  PROVE  Shaped(y) /\ Returns(y) = {} /\ y # << >> /\ Head(y)[1] = "switch"
<1>1. Len(y) = 1 /\ y[1] = <<"switch">> /\ y[1][1] = "switch" /\ y # << >> /\ Head(y) = y[1]
  OBVIOUS
<1>2. Shaped(y)
  BY <1>1 DEF Shaped, CallOps, EndOps
<1>3. Elements(y) = {<<"switch">>}
  BY ShortLists
<1>4. Returns(y) = {}
  BY <1>3 DEF Returns
<1> QED  BY <1>1, <1>2, <1>4

\* A step of the function of a coroutine, or one that blocks it.
LEMMA PushClean ==
  ASSUME IInv, CleanInv, NEW op, Doing(op), op \notin {"leave", "drain"},
         NEW fs \in Seq(Frames), Fits(fs, Head(todo[active])), Returns(fs) = {},
         UNCHANGED <<queue, client, handling>>, Spread(Do(fs))
  PROVE  ShapeInv' /\ WaitingInv' /\ HandlingInv' /\ Pushed(Do(fs), fs)
<1>1. /\ active \in 1..Len(todo) /\ Head(todo[active])[1] = op /\ Len(todo) \in Nat
      /\ ShapeInv /\ WaitingInv /\ HandlingInv
  BY DoingFacts, ListTypes DEF CleanInv
<1>2. PICK td : td = Do(fs) /\ Pushed(td, fs)
  BY <1>1, PushedFacts
<1>3. Spread(td)
  BY <1>2
<1>4. ShapeInv'
  <2>1. \A k \in 1..Len(todo) : Shaped(td[k])
    BY <1>1, <1>2 DEF ShapeInv, Pushed
  <2>2. \A k \in 1..Len(todo') : Shaped(todo'[k])
    BY <1>3, <2>1, NewStack DEF Spread
  <2> QED  BY <1>1, <2>2 DEF ShapeInv
<1>5. WaitingInv'
  <2>1. \A t \in Returns(td[active]) : t \in Returns(todo[active])
    BY <1>2 DEF Pushed, Returns
  <2>2. \A k \in 1..Len(todo) : \A t \in Returns(td[k]) : t \in Returns(todo[k])
    BY <1>2, <2>1 DEF Pushed
  <2>3. \A k \in 1..Len(todo') : \A t \in Returns(todo'[k]) : k \in 1..Len(todo) /\ t \in Returns(todo[k])
    BY <1>3, <2>2, NewStack DEF Spread
  <2> QED  BY <1>1, <2>3, WaitingKept
<1>6. HandlingInv'
  <2>1. \A c \in Component : Head(todo[active]) \notin Ends(c)
    BY <1>1 DEF Ends
  <2>2. /\ Len(todo') \in Nat /\ Len(todo') >= Len(todo) /\ \A k \in 1..Len(todo) : todo'[k] = td[k]
    BY <1>3 DEF Spread
  <2> QED  BY <1>1, <1>2, <2>1, <2>2, HandlingKept
<1> QED  BY <1>2, <1>4, <1>5, <1>6

\* The coroutine that has come to the end of its function.
LEMMA EndFacts ==
  ASSUME IInv, CleanInv, NEW op, Doing(op), op \in EndOps
  PROVE  /\ \A f \in Elements(Tail(todo[active])) : f[1] \in EndOps
         /\ \A i \in 1..Len(todo[active]) : todo[active][i][1] \in EndOps
<1>1. PICK s \in Seq(Frames) : s = todo[active] /\ s # << >> /\ Shaped(s) /\ Head(s)[1] = op
  BY DoingFacts DEF CleanInv, ShapeInv
<1>2. \A f \in Elements(Tail(s)) : f[1] \in EndOps
  BY <1>1, NothingReturns
<1>3. Elements(s) = {Head(s)} \cup Elements(Tail(s))
  BY <1>1, TailFacts
<1>4. \A f \in Elements(s) : f[1] \in EndOps
  BY <1>1, <1>2, <1>3
<1>5. \A i \in 1..Len(s) : s[i] \in Elements(s)
  BY DEF Elements
<1> QED  BY <1>1, <1>2, <1>4, <1>5

LEMMA ContextSwitchClean ==
  ASSUME IInv, CleanInv, ContextSwitch
  PROVE  CleanInv'
<1>1. /\ Doing("switch") /\ Head(todo[active])[1] = "switch" /\ active \in 1..Len(todo)
      /\ ShapeInv /\ FinishedInv /\ LeftInv /\ todo[active] # << >> /\ Len(todo) \in Nat
      /\ Tail(todo[active]) \in Seq(Plain) /\ ~finished[active]
  BY DoingFacts, ListTypes DEF ContextSwitch, CleanInv, IInv, ActiveInv
<1>2. CASE switch = << >>
  <2>1. PICK fs \in Seq(Frames) : /\ fs = <<<<"worker">>, <<"collateral">>, <<"switch">>>>
                                  /\ Len(fs) = 3 /\ fs[1] = <<"worker">> /\ fs[2] = <<"collateral">>
                                  /\ fs[3] = <<"switch">>
    <3>1. <<"worker">> \in Frames /\ <<"collateral">> \in Frames /\ <<"switch">> \in Frames
      BY DEF Frames
    <3>2. PICK f, g, h : f = <<"worker">> /\ g = <<"collateral">> /\ h = <<"switch">>
      OBVIOUS
    <3>3. f \in Frames /\ g \in Frames /\ h \in Frames
      BY <3>1, <3>2
    <3>4. /\ <<f, g, h>> \in Seq(Frames) /\ Len(<<f, g, h>>) = 3
          /\ <<f, g, h>>[1] = f /\ <<f, g, h>>[2] = g /\ <<f, g, h>>[3] = h
      BY <3>3
    <3> QED  BY <3>2, <3>4
  <2>2. fs[1][1] = "worker" /\ fs[2][1] = "collateral" /\ fs[3][1] = "switch"
    BY <2>1
  <2>3. \A i \in 1..Len(fs) : i = 1 \/ i = 2 \/ i = 3
    BY <2>1
  <2>4. Fits(fs, Head(todo[active]))
    <3>1. \A i \in 1..Len(fs) : fs[i][1] \notin CallOps
      BY <2>2, <2>3 DEF CallOps
    <3>2. \A i \in 2..Len(fs) : fs[i][1] \in EndOps
      BY <2>1, <2>2 DEF EndOps
    <3>3. \A i \in 1..Len(fs) : \A j \in i+1..Len(fs) : fs[j][1] \in EndOps
      BY <2>1, <3>2
    <3>4. \A i \in 2..Len(fs) : fs[i][1] = "switch" => fs[i-1][1] = "collateral"
      BY <2>1, <2>2
    <3> QED  BY <1>1, <3>1, <3>3, <3>4 DEF Fits, EndOps
  <2>5. Returns(fs) = {}
    <3>1. Elements(fs) = {<<"worker">>, <<"collateral">>, <<"switch">>}
      BY <2>1, <2>3 DEF Elements
    <3> QED  BY <3>1 DEF Returns
  <2>6. todo' = Do(fs)
    BY <1>2, <2>1 DEF ContextSwitch
  <2>7. Pushed(Do(fs), fs)
    BY <1>1, <2>4, PushedFacts
  <2>8. Spread(Do(fs))
    BY <1>1, <2>6, <2>7 DEF Spread, Pushed
  <2>9. UNCHANGED <<queue, client, handling>>
    BY DEF ContextSwitch, envVars, runtimeVars
  <2>10. ShapeInv' /\ WaitingInv' /\ HandlingInv'
    BY <1>1, <2>4, <2>5, <2>8, <2>9, PushClean
  <2>11. UNCHANGED <<active, collateral, coroutines, switch, unblocked, finished>>
    BY <1>2 DEF ContextSwitch
  <2>12. Pushed(todo', fs)
    BY <2>6, <2>7
  <2>13. FinishedInv'
    BY <1>1, <2>11, <2>12 DEF FinishedInv, Pushed
  <2>14. LeftInv'
    BY <1>1, <1>2, <2>11, <2>12 DEF LeftInv, Pushed
  <2> QED  BY <2>10, <2>13, <2>14 DEF CleanInv
<1>3. CASE switch # << >>
  <2>1. PICK b \in Nat : b = Head(switch) /\ b \in Elements(switch)
    <3>1. switch \in Seq(Nat)
      BY ListTypes
    <3> QED  BY <1>3, <3>1, TailFacts
  <2>2. /\ b \in Elements(coroutines) /\ b \in 1..Len(todo) /\ b # active /\ ~finished[b]
        /\ todo[b] # << >> /\ Head(todo[b])[1] = "unpark"
    <3>1. b \in Elements(coroutines) /\ port[b] # None /\ b \in 1..Len(todo)
      BY <2>1, ListTypes DEF IInv, SwitchInv
    <3>2. b # active /\ ~finished[b]
      BY <3>1 DEF IInv, ActiveInv
    <3>3. todo[b] # << >> /\ Head(todo[b]) = <<"unpark", port[b]>>
      BY <3>1 DEF IInv, ParkedInv
    <3> QED  BY <3>1, <3>2, <3>3
  <2>3. PICK fs \in Seq(Frames) : fs = <<<<"never">>>> /\ Elements(fs) = {<<"never">>} /\ fs \in Seq(Plain)
    BY MakeFrames, PlainLists, ShortLists, PlainFacts
  <2>4. Ordinary(fs) /\ Calm(fs)
    BY <2>3 DEF Ordinary, Calm, EndOps, CallOps
  <2>5. Fits(fs, Head(todo[active])) /\ Returns(fs) = {}
    BY <1>1, <2>4, OrdinaryFits, OrdinaryReturns
  <2>6. /\ todo' = Do(fs) /\ finished' = [finished EXCEPT ![active] = TRUE] /\ active' = b
        /\ UNCHANGED <<collateral, coroutines, queue, client, handling>>
    BY <1>3, <2>1, <2>3 DEF ContextSwitch, envVars, runtimeVars
  <2>7. Pushed(Do(fs), fs)
    BY <1>1, <2>5, PushedFacts
  <2>8. Spread(Do(fs))
    BY <1>1, <2>6, <2>7 DEF Spread, Pushed
  <2>9. ShapeInv' /\ WaitingInv' /\ HandlingInv'
    BY <1>1, <2>5, <2>6, <2>8, PushClean
  <2>10. Pushed(todo', fs)
    BY <2>6, <2>7
  <2>11. finished'[active] = TRUE /\ \A k \in 1..Len(todo) : k # active => finished'[k] = finished[k]
    BY <2>6, ListTypes, UpdateFacts
  <2>12. \A i \in 1..Len(todo'[active]) : todo'[active][i][1] \in EndOps \cup {"never"}
    <3>1. \A f \in Elements(Tail(todo[active])) : f[1] \in EndOps
      BY <1>1, EndFacts DEF EndOps
    <3>2. \A f \in Elements(todo'[active]) : f[1] \in EndOps \cup {"never"}
      BY <2>3, <2>10, <3>1 DEF Pushed
    <3> QED  BY <3>2 DEF Elements
  <2>13. FinishedInv'
    <3>1. Len(todo') = Len(todo) /\ \A k \in 1..Len(todo) : k # active => todo'[k] = todo[k]
      BY <2>10 DEF Pushed
    <3>2. active \in Elements(coroutines)
      BY DEF IInv, ListInv
    <3> SUFFICES ASSUME NEW k \in 1..Len(todo)
                 PROVE  /\ k \in Elements(coroutines) \cup Elements(collateral) \/ finished'[k]
                        /\ finished'[k] => \A i \in 1..Len(todo'[k]) : todo'[k][i][1] \in EndOps \cup {"never"}
                        /\ k # b /\ ~finished'[k] => todo'[k] # << >> /\ Head(todo'[k])[1] \in {"unpark", "enter"}
      BY <2>6, <3>1 DEF FinishedInv
    <3>3. CASE k = active
      BY <2>11, <2>12, <3>2, <3>3
    <3>4. CASE k # active
      <4>1. todo'[k] = todo[k] /\ finished'[k] = finished[k]
        BY <2>11, <3>1, <3>4
      <4> QED  BY <1>1, <3>4, <4>1 DEF FinishedInv
    <3> QED  BY <3>3, <3>4
  <2>14. LeftInv'
    BY <2>2, <2>6, <2>10 DEF LeftInv, Pushed
  <2> QED  BY <2>9, <2>13, <2>14 DEF CleanInv
<1> QED  BY <1>2, <1>3

LEMMA CollateralReleaseClean ==
  ASSUME IInv, CleanInv, CollateralRelease
  PROVE  CleanInv'
<1>1. /\ Doing("collateral") /\ Head(todo[active])[1] = "collateral" /\ active \in 1..Len(todo)
      /\ ShapeInv /\ FinishedInv /\ LeftInv /\ todo[active] # << >> /\ Len(todo) \in Nat
      /\ Tail(todo[active]) \in Seq(Plain) /\ ~finished[active]
  BY DoingFacts, ListTypes DEF CollateralRelease, CleanInv, IInv, ActiveInv
<1>2. UNCHANGED <<queue, client, handling>>
  BY DEF CollateralRelease, envVars, runtimeVars
<1>3. CASE Releasable = << >>
  <2>1. PICK fs \in Seq(Frames) : fs = << >> /\ fs \in Seq(Plain) /\ Len(fs) = 0 /\ Returns(fs) = {}
    BY EmptyPush, PlainFacts, OrdinaryReturns, EmptyFacts
  <2>2. Fits(fs, Head(todo[active]))
    BY <2>1 DEF Fits
  <2>3. /\ todo' = Do(fs) /\ unblocked' = << >>
        /\ UNCHANGED <<active, coroutines, collateral, finished>>
    BY <1>3, <2>1 DEF CollateralRelease, ClearUnblocked
  <2>4. Pushed(Do(fs), fs)
    BY <1>1, <2>2, PushedFacts
  <2>5. Spread(Do(fs))
    BY <1>1, <2>3, <2>4 DEF Spread, Pushed
  <2>6. ShapeInv' /\ WaitingInv' /\ HandlingInv'
    BY <1>1, <1>2, <2>1, <2>2, <2>5, PushClean
  <2>7. Pushed(todo', fs)
    BY <2>3, <2>4
  <2>8. FinishedInv'
    BY <1>1, <2>3, <2>7 DEF FinishedInv, Pushed
  <2>9. todo'[active] # << >> => Head(todo'[active])[1] # "worker"
    <3>1. PICK y : y = fs \o Tail(todo[active]) /\ y = todo'[active]
      BY <2>7 DEF Pushed
    <3>2. y \in Seq(Plain)
      BY <1>1, <2>1, <3>1, PlainLists
    <3> QED  BY <3>1, <3>2, PlainFacts
  <2>10. LeftInv'
    BY <2>3, <2>9 DEF LeftInv
  <2> QED  BY <2>6, <2>8, <2>10 DEF CleanInv
<1>4. CASE Releasable # << >>
  <2>1. PICK k \in Nat : k = Head(Releasable) /\ k \in Elements(collateral) /\ k \in 1..Len(todo)
    BY <1>4, ReleasableFacts, ListTypes
  <2>2. k # active /\ todo[k] # << >> /\ Head(todo[k])[1] = "enter"
    BY <2>1 DEF IInv, ListInv, CollateralInv
  <2>3. /\ collateral' = Without(collateral, {k}) /\ coroutines' = Append(coroutines, k)
        /\ finished' = [finished EXCEPT ![active] = TRUE] /\ active' = k /\ todo' = todo
    BY <1>4, <2>1 DEF CollateralRelease, FinishSelf
  <2>4. finished'[active] = TRUE /\ \A j \in 1..Len(todo) : j # active => finished'[j] = finished[j]
    BY <2>3, ListTypes, UpdateFacts
  <2>5. Elements(collateral') = Elements(collateral) \ {k}
    BY <2>3, ListTypes, WithoutFacts
  <2>6. Elements(coroutines') = Elements(coroutines) \cup {k}
    <3>1. coroutines \in Seq(Nat)
      BY ListTypes
    <3> QED  BY <2>1, <2>3, <3>1, AppendFacts
  <2>7. \A i \in 1..Len(todo[active]) : todo[active][i][1] \in EndOps
    BY <1>1, EndFacts DEF EndOps
  <2>8. FinishedInv'
    BY <1>1, <2>3, <2>4, <2>5, <2>6, <2>7 DEF FinishedInv
  <2>9. LeftInv'
    BY <2>2, <2>3 DEF LeftInv
  <2>10. ShapeInv' /\ WaitingInv' /\ HandlingInv'
    BY <1>2, <2>3 DEF CleanInv, ShapeInv, WaitingInv, HandlingInv, Returns
  <2> QED  BY <2>8, <2>9, <2>10 DEF CleanInv
<1> QED  BY <1>3, <1>4

\* A coroutine that blocks, in a call.
LEMMA WaitPush ==
  ASSUME NEW fs, NEW op, NEW p \in Port, op \in {"enter", "unpark"}, fs = <<<<op, p>>>>
  PROVE  /\ fs \in Seq(Frames) /\ Ordinary(fs) /\ Returns(fs) = {} /\ Len(fs) = 1 /\ fs[1][1] = op
<1>1. PICK f \in Frames : f = <<op, p>> /\ f[1] = op
  BY DEF Frames
<1>2. fs = <<f>> /\ fs \in Seq(Frames) /\ Elements(fs) = {f} /\ Len(fs) = 1 /\ fs[1] = f
  BY <1>1, ShortFacts
<1>3. Ordinary(fs)
  BY <1>1, <1>2 DEF Ordinary, EndOps
<1> QED  BY <1>1, <1>2, <1>3, OrdinaryReturns

\* The top of the stack of a coroutine that blocks.
LEMMA WaitTop ==
  ASSUME NEW fs \in Seq(Frames), Len(fs) = 1, NEW s \in Seq(Plain), NEW y, y = fs \o s
  PROVE  y # << >> /\ Head(y) = fs[1]
<1>1. s \in Seq(Frames)
  BY PlainFacts
<1>2. /\ y \in Seq(Frames) /\ Len(y) = Len(fs) + Len(s) /\ \A i \in 1..Len(fs) : y[i] = fs[i]
  BY <1>1, ConcatFacts
<1>3. Len(s) \in Nat /\ 1 \in 1..Len(fs)
  OBVIOUS
<1> QED  BY <1>2, <1>3

\* A step after which a new coroutine runs.
LEMMA GrowClean ==
  ASSUME IInv, CleanInv, NEW op, Doing(op), op \in CallOps, NEW top \in {"enter", "unpark"},
         NEW p \in Port, todo' = Append(Do(<<<<top, p>>>>), <<<<"switch">>>>),
         finished' = Append(finished, FALSE), active' = New,
         UNCHANGED <<queue, client, handling>>, New \in Elements(coroutines'),
         \A k \in Elements(coroutines) \cup Elements(collateral) :
           k \in Elements(coroutines') \cup Elements(collateral')
  PROVE  CleanInv'
<1>1. /\ Head(todo[active])[1] = op /\ active \in 1..Len(todo)
      /\ ShapeInv /\ FinishedInv /\ todo[active] # << >> /\ Len(todo) \in Nat
      /\ Tail(todo[active]) \in Seq(Plain) /\ ~finished[active]
  BY DoingFacts, ListTypes DEF CleanInv, IInv, ActiveInv
<1>2. PICK fs : fs = <<<<top, p>>>>
  OBVIOUS
<1>3. fs \in Seq(Frames) /\ Ordinary(fs) /\ Returns(fs) = {} /\ Len(fs) = 1 /\ fs[1][1] = top
  BY <1>2, WaitPush
<1>4. Fits(fs, Head(todo[active]))
  <2>1. op # "collateral"
    BY DEF CallOps
  <2> QED  BY <1>1, <1>3, <2>1, OrdinaryFits
<1>5. PICK td : td = Do(fs) /\ Pushed(td, fs)
  BY <1>1, <1>3, <1>4, PushedFacts
<1>6. /\ td \in Seq(Seq(Frames)) /\ td[active] # << >> /\ Head(td[active]) = fs[1]
  <2>1. PICK y : y = fs \o Tail(todo[active]) /\ y = td[active]
    BY <1>5 DEF Pushed
  <2>2. y # << >> /\ Head(y) = fs[1]
    BY <1>1, <1>3, <2>1, WaitTop
  <2>3. Tail(todo[active]) \in Seq(Frames)
    BY <1>1, PlainFacts
  <2>4. y \in Seq(Frames)
    BY <1>3, <2>1, <2>3, ConcatFacts
  <2>5. td = [todo EXCEPT ![active] = y]
    BY <1>5, <2>1 DEF Do
  <2>6. td \in Seq(Seq(Frames))
    BY <2>4, <2>5, ListTypes, UpdateFacts
  <2> QED  BY <2>1, <2>2, <2>6
<1>7. /\ Len(todo') = Len(todo) + 1 /\ \A k \in 1..Len(todo) : todo'[k] = td[k]
      /\ todo'[New] = <<<<"switch">>>>
  <2>1. <<<<"switch">>>> \in Seq(Frames)
    BY MakeFrames, PlainLists, PlainFacts
  <2>2. PICK y : y = <<<<"switch">>>> /\ y \in Seq(Frames)
    BY <2>1
  <2>3. todo' = Append(td, y)
    BY <1>2, <1>5, <2>2
  <2>4. Len(td) = Len(todo)
    BY <1>5 DEF Pushed
  <2>5. PICK z : z = Append(td, y)
    OBVIOUS
  <2>6. Len(z) = Len(td) + 1 /\ z[Len(td) + 1] = y /\ \A k \in 1..Len(td) : z[k] = td[k]
    BY <1>6, <2>2, <2>5, BehindFacts
  <2>7. todo' = z /\ New = Len(td) + 1
    BY <2>3, <2>4, <2>5 DEF New
  <2> QED  BY <2>2, <2>4, <2>6, <2>7
<1>8. New \in 1..Len(todo') /\ New \notin 1..Len(todo) /\ New # active /\ \A k \in 1..Len(todo') : k = New \/ k \in 1..Len(todo)
  BY <1>7, NewFacts DEF New
<1>9. Spread(td)
  <2>1. PICK n \in Nat : n = Len(todo)
    BY <1>1
  <2>2. PICK m \in Nat : m = n + 1
    OBVIOUS
  <2>3. Len(todo') = Len(todo) + 1
    BY <1>7
  <2>4. Len(todo') = m /\ m >= n
    BY <2>1, <2>2, <2>3
  <2>5. Len(todo') \in Nat /\ Len(todo') >= Len(todo)
    BY <2>1, <2>2, <2>4
  <2> QED  BY <1>7, <1>8, <2>5 DEF Spread
<1>10. ShapeInv' /\ WaitingInv' /\ HandlingInv'
  <2>1. op \notin {"leave", "drain"}
    BY DEF CallOps
  <2> QED  BY <1>3, <1>4, <1>5, <1>9, <2>1, PushClean
<1>11. \A k \in 1..Len(todo) : finished'[k] = finished[k]
  BY NewUnfinished
<1>12. ~finished'[New]
  <2>1. PICK y : y = Append(finished, FALSE)
    OBVIOUS
  <2>2. y[Len(finished) + 1] = FALSE
    BY <2>1, ListTypes, BehindFacts
  <2> QED  BY <2>1, <2>2, ListTypes DEF New
<1>13. \A k \in 1..Len(todo) : k # active => todo'[k] = todo[k]
  BY <1>5, <1>7 DEF Pushed
<1>14. FinishedInv'
  <2> SUFFICES ASSUME NEW k \in 1..Len(todo')
               PROVE  /\ k \in Elements(coroutines') \cup Elements(collateral') \/ finished'[k]
                      /\ finished'[k] => \A i \in 1..Len(todo'[k]) : todo'[k][i][1] \in EndOps \cup {"never"}
                      /\ k # New /\ ~finished'[k] => todo'[k] # << >> /\ Head(todo'[k])[1] \in {"unpark", "enter"}
    BY DEF FinishedInv
  <2>1. CASE k = New
    BY <1>12, <2>1
  <2>2. CASE k = active
    <3>1. active \in Elements(coroutines)
      BY DEF IInv, ListInv
    <3> QED  BY <1>1, <1>3, <1>6, <1>7, <1>11, <2>2, <3>1
  <2>3. CASE k \in 1..Len(todo) /\ k # active
    <3>1. todo'[k] = todo[k] /\ finished'[k] = finished[k]
      BY <1>11, <1>13, <2>3
    <3> QED  BY <1>1, <2>3, <3>1 DEF FinishedInv
  <2> QED  BY <1>8, <2>1, <2>2, <2>3
<1>15. LeftInv'
  <2>1. active \in 1..Len(todo') /\ active # New /\ ~finished'[active]
    <3>1. active \in 1..Len(todo')
      BY <1>1, <1>9 DEF Spread
    <3>2. finished'[active] = finished[active]
      BY <1>1, <1>11
    <3> QED  BY <1>1, <1>8, <3>1, <3>2
  <2>2. Head(todo'[active'])[1] = "switch"
    BY <1>7, NewStack
  <2> QED  BY <2>1, <2>2 DEF LeftInv
<1> QED  BY <1>10, <1>14, <1>15 DEF CleanInv

LEMMA CollateralBlockClean ==
  ASSUME IInv, CleanInv, CollateralBlock
  PROVE  CleanInv'
<1>1. Arg \in Port /\ Doing("call") /\ "call" \in CallOps
  BY DoingFacts DEF CollateralBlock, CallOps
<1>2. UNCHANGED <<queue, client, handling>>
  BY DEF CollateralBlock, envVars, runtimeVars
<1>3. CASE UNCHANGED <<coroutines, collateral, active, todo, coroutineVars>>
  <2>1. UNCHANGED <<unblocked, switch, finished>>
    BY <1>3 DEF CollateralBlock, coroutineVars
  <2>2. ShapeInv' /\ WaitingInv' /\ HandlingInv'
    BY <1>2, <1>3 DEF CleanInv, ShapeInv, WaitingInv, HandlingInv, Returns
  <2>3. FinishedInv' /\ LeftInv'
    BY <1>3, <2>1 DEF CleanInv, FinishedInv, LeftInv
  <2> QED  BY <2>2, <2>3 DEF CleanInv
<1>4. CASE /\ coroutines' = Append(Without(coroutines, {active}), New)
           /\ collateral' = Append(collateral, active) /\ finished' = Append(finished, FALSE)
           /\ todo' = Append(Do(<<<<"enter", Arg>>>>), <<<<"switch">>>>) /\ active' = New
  <2>1. PICK others \in Seq(Nat) : /\ others = Without(coroutines, {active})
                                   /\ Elements(others) = Elements(coroutines) \ {active}
    BY ListTypes, WithoutFacts
  <2>2. Elements(coroutines') = Elements(others) \cup {New}
    BY <1>4, <2>1, NewFacts, AppendFacts
  <2>3. Elements(collateral') = Elements(collateral) \cup {active}
    <3>1. collateral \in Seq(Nat) /\ active \in Nat
      BY ListTypes
    <3>2. PICK y : y = Append(collateral, active)
      OBVIOUS
    <3>3. Elements(y) = Elements(collateral) \cup {active}
      BY <3>1, <3>2, AppendFacts
    <3> QED  BY <1>4, <3>2, <3>3
  <2>4. \A k \in Elements(coroutines) \cup Elements(collateral) :
          k \in Elements(coroutines') \cup Elements(collateral')
    BY <2>1, <2>2, <2>3
  <2>5. New \in Elements(coroutines')
    BY <2>2
  <2> QED  BY <1>1, <1>2, <1>4, <2>4, <2>5, GrowClean
<1>5. \/ UNCHANGED <<coroutines, collateral, active, todo, coroutineVars>>
      \/ /\ coroutines' = Append(Without(coroutines, {active}), New)
         /\ collateral' = Append(collateral, active) /\ finished' = Append(finished, FALSE)
         /\ todo' = Append(Do(<<<<"enter", Arg>>>>), <<<<"switch">>>>) /\ active' = New
  BY DEF CollateralBlock, CreateContext
<1> QED  BY <1>3, <1>4, <1>5

LEMMA ParkClean ==
  ASSUME IInv, CleanInv, Park
  PROVE  CleanInv'
<1>1. Arg \in Port /\ Doing("park") /\ "park" \in CallOps
  BY DoingFacts DEF Park, CallOps
<1>2. /\ UNCHANGED <<queue, client, handling, collateral>>
      /\ coroutines' = Append(coroutines, New) /\ finished' = Append(finished, FALSE)
      /\ todo' = Append(Do(<<<<"unpark", Arg>>>>), <<<<"switch">>>>) /\ active' = New
  BY DEF Park, CreateContext, envVars, runtimeVars
<1>3. Elements(coroutines') = Elements(coroutines) \cup {New}
  <2>1. coroutines \in Seq(Nat)
    BY ListTypes
  <2> QED  BY <1>2, <2>1, NewFacts, AppendFacts
<1>4. /\ New \in Elements(coroutines')
      /\ \A k \in Elements(coroutines) \cup Elements(collateral) :
          k \in Elements(coroutines') \cup Elements(collateral')
  BY <1>2, <1>3
<1> QED  BY <1>1, <1>2, <1>4, GrowClean

LEMMA ParkRelayClean ==
  ASSUME IInv, CleanInv, ParkRelay
  PROVE  CleanInv'
<1>1. /\ Doing("park") /\ Head(todo[active])[1] = "park" /\ active \in 1..Len(todo) /\ Arg \in Port
      /\ ShapeInv /\ FinishedInv /\ todo[active] # << >> /\ Len(todo) \in Nat
      /\ Tail(todo[active]) \in Seq(Plain) /\ ~finished[active]
  BY DoingFacts, ListTypes DEF ParkRelay, CleanInv, IInv, ActiveInv
<1>2. PICK relayed \in Seq(Nat) : /\ relayed = Relayed(Arg) /\ relayed # << >>
                                  /\ Elements(relayed) \subseteq Elements(collateral)
                                  /\ Head(relayed) \in Elements(collateral)
  BY RelayedFacts DEF ParkRelay
<1>3. PICK k \in Nat : k = Head(relayed) /\ k \in Elements(collateral) /\ k \in 1..Len(todo)
  BY <1>2, ListTypes
<1>4. k # active /\ todo[k] # << >> /\ Head(todo[k])[1] = "enter"
  BY <1>3 DEF IInv, ListInv, CollateralInv
<1>5. PICK fs : fs = <<<<"unpark", Arg>>>>
  OBVIOUS
<1>6. fs \in Seq(Frames) /\ Ordinary(fs) /\ Returns(fs) = {} /\ Len(fs) = 1 /\ fs[1][1] = "unpark"
  BY <1>1, <1>5, WaitPush
<1>7. Fits(fs, Head(todo[active]))
  <2>1. Head(todo[active])[1] \in CallOps /\ Head(todo[active])[1] # "collateral"
    BY <1>1 DEF CallOps
  <2> QED  BY <1>6, <2>1, OrdinaryFits
<1>8. /\ collateral' = Without(collateral, Elements(relayed))
      /\ coroutines' = coroutines \o Reversed(relayed)
      /\ active' = k /\ todo' = Do(fs) /\ UNCHANGED <<finished, queue, client, handling>>
  BY <1>2, <1>3, <1>5 DEF ParkRelay, envVars, runtimeVars
<1>9. Pushed(todo', fs)
  BY <1>1, <1>6, <1>7, <1>8, PushedFacts
<1>10. Spread(Do(fs))
  BY <1>1, <1>8, <1>9 DEF Spread, Pushed
<1>11. ShapeInv' /\ WaitingInv' /\ HandlingInv'
  BY <1>1, <1>6, <1>7, <1>8, <1>10, PushClean
<1>12. Elements(collateral') = Elements(collateral) \ Elements(relayed)
  BY <1>8, ListTypes, WithoutFacts
<1>13. Elements(coroutines') = Elements(coroutines) \cup Elements(relayed)
  <2>1. PICK r \in Seq(Nat) : r = Reversed(relayed) /\ Elements(r) = Elements(relayed)
    BY ReversedFacts
  <2>2. Elements(coroutines \o r) = Elements(coroutines) \cup Elements(r)
    BY ListTypes, ConcatFacts
  <2> QED  BY <1>8, <2>1, <2>2
<1>14. todo'[active] # << >> /\ Head(todo'[active])[1] = "unpark"
  <2>1. PICK y : y = fs \o Tail(todo[active]) /\ y = todo'[active]
    BY <1>9 DEF Pushed
  <2>2. y # << >> /\ Head(y) = fs[1]
    BY <1>1, <1>6, <2>1, WaitTop
  <2> QED  BY <1>6, <2>1, <2>2
<1>15. Len(todo') = Len(todo) /\ \A j \in 1..Len(todo) : j # active => todo'[j] = todo[j]
  BY <1>9 DEF Pushed
<1>16. FinishedInv'
  <2> SUFFICES ASSUME NEW j \in 1..Len(todo)
               PROVE  /\ j \in Elements(coroutines') \cup Elements(collateral') \/ finished[j]
                      /\ finished[j] => \A i \in 1..Len(todo'[j]) : todo'[j][i][1] \in EndOps \cup {"never"}
                      /\ j # k /\ ~finished[j] => todo'[j] # << >> /\ Head(todo'[j])[1] \in {"unpark", "enter"}
    BY <1>8, <1>15 DEF FinishedInv
  <2>1. j \in Elements(coroutines') \cup Elements(collateral') \/ finished[j]
    BY <1>1, <1>12, <1>13 DEF FinishedInv
  <2>2. CASE j = active
    BY <1>1, <1>14, <2>1, <2>2
  <2>3. CASE j # active
    BY <1>1, <1>15, <2>1, <2>3 DEF FinishedInv
  <2> QED  BY <2>2, <2>3
<1>17. LeftInv'
  BY <1>3, <1>4, <1>8, <1>15 DEF LeftInv
<1> QED  BY <1>11, <1>16, <1>17 DEF CleanInv

\* The frames of an event, and then the deferred statements, in the place of worker.
LEMMA WorkerFits ==
  ASSUME NEW ev \in Seq(Plain), Shaped(ev), \A j \in 1..Len(ev) : ev[j][1] \notin EndOps,
         NEW f, f[1] = "worker", NEW fs, fs = ev \o <<<<"deferred">>>>
  PROVE  /\ fs \in Seq(Plain) /\ Fits(fs, f) /\ Returns(fs) = Returns(ev)
         /\ \A g \in Elements(fs) : g[1] # "switch"
<1>1. PICK d \in Seq(Plain) : d = <<<<"deferred">>>>
  BY PlainLists, MakeFrames
<1>2. Len(d) = 1 /\ d[1][1] = "deferred" /\ fs = ev \o d
  BY <1>1
<1>3. /\ fs \in Seq(Plain) /\ Len(ev) \in Nat /\ Len(fs) = Len(ev) + Len(d)
      /\ \A i \in 1..Len(ev) : fs[i] = ev[i]
      /\ \A i \in 1..Len(d) : fs[Len(ev) + i] = d[i]
      /\ Elements(fs) = Elements(ev) \cup Elements(d)
  <2>1. /\ ev \o d \in Seq(Plain) /\ Len(ev \o d) = Len(ev) + Len(d)
        /\ \A i \in 1..Len(ev) : (ev \o d)[i] = ev[i]
        /\ \A i \in 1..Len(d) : (ev \o d)[Len(ev) + i] = d[i]
    BY ConcatFacts
  <2>2. Elements(ev \o d) = Elements(ev) \cup Elements(d)
    BY ConcatFacts
  <2>3. Len(ev) \in Nat
    OBVIOUS
  <2> QED  BY <1>2, <2>1, <2>2, <2>3
<1>4. Len(fs) = Len(ev) + 1 /\ fs[Len(ev) + 1][1] = "deferred"
  BY <1>2, <1>3
<1>5. \A i \in 1..Len(fs) : i \in 1..Len(ev) \/ i = Len(ev) + 1
  BY <1>3, <1>4
<1>6. "deferred" \in EndOps /\ "deferred" \notin CallOps /\ "switch" \in EndOps
  BY DEF EndOps, CallOps
<1>7. ASSUME NEW i \in 1..Len(fs), fs[i][1] \in CallOps
      PROVE  \E j \in i+1..Len(fs) : fs[j][1] = "return"
  <2>1. i \in 1..Len(ev) /\ ev[i][1] \in CallOps
    BY <1>3, <1>4, <1>5, <1>6, <1>7
  <2>2. PICK j \in i+1..Len(ev) : ev[j][1] = "return"
    BY <2>1 DEF Shaped
  <2>3. j \in i+1..Len(fs) /\ j \in 1..Len(ev)
    BY <1>3, <1>4, <2>1
  <2> QED  BY <1>3, <2>2, <2>3
<1>8. ASSUME NEW i \in 1..Len(fs), fs[i][1] \in {"return", "worker"} \cup EndOps, NEW j \in i+1..Len(fs)
      PROVE  fs[j][1] \in EndOps
  <2>1. CASE j = Len(ev) + 1
    BY <1>4, <1>6, <2>1
  <2>2. CASE j # Len(ev) + 1
    <3>1. i \in 1..Len(ev) /\ j \in i+1..Len(ev) /\ j \in 1..Len(ev)
      BY <1>3, <1>4, <2>2
    <3>2. ev[j][1] \in EndOps
      BY <1>3, <1>8, <3>1 DEF Shaped
    <3> QED  BY <1>3, <3>1, <3>2
  <2> QED  BY <2>1, <2>2
<1>9. \A i \in 1..Len(fs) : fs[i][1] # "switch"
  BY <1>3, <1>4, <1>5, <1>6
<1>10. \A i \in 2..Len(fs) : i \in 1..Len(fs)
  BY <1>3, <1>4
<1>11. Fits(fs, f)
  BY <1>7, <1>8, <1>9, <1>10 DEF Fits
<1>12. Elements(d) = {<<"deferred">>}
  BY <1>1, ShortLists
<1>13. Returns(fs) = Returns(ev)
  BY <1>3, <1>12 DEF Returns
<1> QED  BY <1>3, <1>9, <1>11, <1>13 DEF Elements

\* worker: the frames of the event that is next in the queue.
LEMMA WorkerClean ==
  ASSUME IInv, CleanInv, Worker
  PROVE  CleanInv'
<1>1. /\ Doing("worker") /\ Head(todo[active])[1] = "worker" /\ active \in 1..Len(todo)
      /\ ShapeInv /\ WaitingInv /\ FinishedInv /\ HandlingInv /\ todo[active] # << >> /\ Len(todo) \in Nat
      /\ todo[active] \in Seq(Frames) /\ ~finished[active]
  BY DoingFacts, ListTypes DEF Worker, CleanInv, IInv, ActiveInv
<1>2. /\ queue # << >> /\ queue' = Tail(queue) /\ todo' = Do(Head(queue) \o <<<<"deferred">>>>)
      /\ UNCHANGED <<coroutines, collateral, switch, unblocked, active, finished, handling, client>>
  BY DEF Worker, pumpVars, coroutineVars, runtimeVars
<1>3. queue \in Seq(Seq(Plain))
  BY DEF IInv, StackInv
<1>4. PICK ev \in Seq(Plain) : ev = Head(queue) /\ ev = queue[1]
  BY <1>2, <1>3, TailFacts
<1>5. /\ Len(queue) \in Nat /\ 1 \in 1..Len(queue) /\ Len(queue') = Len(queue) - 1
      /\ \A i \in 1..Len(queue') : i + 1 \in 1..Len(queue) /\ i + 1 # 1 /\ queue'[i] = queue[i + 1]
  <2>1. /\ Len(Tail(queue)) = Len(queue) - 1
        /\ \A i \in 1..Len(queue) - 1 : Tail(queue)[i] = queue[i + 1]
    BY <1>2, <1>3, TailFacts
  <2>2. Len(queue) \in Nat /\ Len(queue) # 0
    BY <1>2, <1>3
  <2>3. Len(queue') = Len(queue) - 1 /\ \A i \in 1..Len(queue) - 1 : queue'[i] = queue[i + 1]
    BY <1>2, <2>1
  <2>4. \A i \in 1..Len(queue) - 1 : i + 1 \in 1..Len(queue) /\ i + 1 # 1
    BY <2>2
  <2> QED  BY <2>2, <2>3, <2>4
<1>6. Shaped(ev) /\ \A j \in 1..Len(ev) : ev[j][1] \notin EndOps
  BY <1>1, <1>4, <1>5 DEF ShapeInv
<1>7. PICK fs : fs = ev \o <<<<"deferred">>>>
  OBVIOUS
<1>8. /\ fs \in Seq(Plain) /\ fs \in Seq(Frames) /\ Fits(fs, Head(todo[active]))
      /\ Returns(fs) = Returns(queue[1]) /\ \A f \in Elements(fs) : f[1] # "switch"
  BY <1>1, <1>4, <1>6, <1>7, WorkerFits, PlainFacts
<1>9. Pushed(todo', fs)
  BY <1>1, <1>2, <1>4, <1>7, <1>8, PushedFacts
<1>10. ShapeInv'
  <2>1. \A k \in 1..Len(todo') : Shaped(todo'[k])
    BY <1>1, <1>9 DEF Pushed, ShapeInv
  <2>2. \A i \in 1..Len(queue') : Shaped(queue'[i]) /\ \A j \in 1..Len(queue'[i]) : queue'[i][j][1] \notin EndOps
    BY <1>1, <1>5 DEF ShapeInv
  <2> QED  BY <2>1, <2>2 DEF ShapeInv
<1>11. WaitingInv'
  <2>1. Returns(todo'[active]) = Returns(queue[1])
    <3>1. Returns(Tail(todo[active])) = {}
      <4>1. Shaped(todo[active])
        BY <1>1 DEF ShapeInv
      <4> QED  BY <1>1, <4>1, NothingReturns
    <3> QED  BY <1>8, <1>9, <3>1 DEF Pushed, Returns
  <2>2. Len(todo') = Len(todo) /\ \A k \in 1..Len(todo) : k # active => todo'[k] = todo[k]
    BY <1>9 DEF Pushed
  <2>3. ASSUME NEW k \in 1..Len(todo'), NEW t \in Returns(todo'[k])
        PROVE  client[t] = "waiting"
    <3>1. CASE k = active
      <4>1. t \in Returns(queue[1]) /\ 1 \in 1..Len(queue)
        BY <1>5, <2>1, <2>3, <3>1
      <4> QED  BY <1>1, <4>1 DEF WaitingInv
    <3>2. CASE k # active
      <4>1. k \in 1..Len(todo) /\ t \in Returns(todo[k])
        BY <2>2, <2>3, <3>2
      <4> QED  BY <1>1, <4>1 DEF WaitingInv
    <3> QED  BY <3>1, <3>2
  <2>4. \A i \in 1..Len(queue') : \A t \in Returns(queue'[i]) : client[t] = "waiting"
    BY <1>1, <1>5, SMTT(30) DEF WaitingInv
  <2>5. ASSUME NEW j \in 1..Len(todo), NEW k \in 1..Len(todo), j # k
        PROVE  Returns(todo'[j]) \cap Returns(todo'[k]) = {}
    <3>1. CASE j = active
      <4>1. Returns(todo'[j]) = Returns(queue[1]) /\ todo'[k] = todo[k] /\ 1 \in 1..Len(queue)
        BY <1>5, <2>1, <2>2, <2>5, <3>1
      <4>2. Returns(todo[k]) \cap Returns(queue[1]) = {}
        BY <1>1, <4>1 DEF WaitingInv
      <4> QED  BY <4>1, <4>2
    <3>2. CASE k = active
      <4>1. Returns(todo'[k]) = Returns(queue[1]) /\ todo'[j] = todo[j] /\ 1 \in 1..Len(queue)
        BY <1>5, <2>1, <2>2, <2>5, <3>2
      <4>2. Returns(todo[j]) \cap Returns(queue[1]) = {}
        BY <1>1, <4>1 DEF WaitingInv
      <4> QED  BY <4>1, <4>2
    <3>3. CASE j # active /\ k # active
      BY <1>1, <2>2, <2>5, <3>3 DEF WaitingInv
    <3> QED  BY <3>1, <3>2, <3>3
  <2>6. ASSUME NEW i \in 1..Len(queue'), NEW j \in 1..Len(queue'), i # j
        PROVE  Returns(queue'[i]) \cap Returns(queue'[j]) = {}
    <3>1. i + 1 \in 1..Len(queue) /\ j + 1 \in 1..Len(queue) /\ i + 1 # j + 1
      BY <1>5, <2>6
    <3>2. Returns(queue[i + 1]) \cap Returns(queue[j + 1]) = {}
      BY <1>1, <3>1 DEF WaitingInv
    <3> QED  BY <1>5, <3>2
  <2>7. ASSUME NEW k \in 1..Len(todo), NEW i \in 1..Len(queue')
        PROVE  Returns(todo'[k]) \cap Returns(queue'[i]) = {}
    <3>1. i + 1 \in 1..Len(queue) /\ i + 1 # 1 /\ queue'[i] = queue[i + 1]
      BY <1>5
    <3>2. CASE k = active
      BY <1>1, <1>5, <2>1, <3>1, <3>2 DEF WaitingInv
    <3>3. CASE k # active
      BY <1>1, <2>2, <3>1, <3>3 DEF WaitingInv
    <3> QED  BY <3>2, <3>3
  <2> QED  BY <1>2, <2>2, <2>3, <2>4, <2>5, <2>6, <2>7 DEF WaitingInv, Returns
<1>12. FinishedInv'
  BY <1>1, <1>2, <1>9 DEF FinishedInv, Pushed
<1>13. LeftInv'
  <2>1. PICK y : y = fs \o Tail(todo[active]) /\ y = todo'[active]
    BY <1>9 DEF Pushed
  <2>2. y # << >> => Head(y)[1] \notin {"switch", "worker"}
    BY <1>1, <1>8, <2>1, NextOnTop
  <2> QED  BY <1>2, <2>1, <2>2 DEF LeftInv
<1>14. HandlingInv'
  <2>1. \A c \in Component : Head(todo[active]) \notin Ends(c)
    BY <1>1 DEF Ends
  <2>2. PICK td : td = todo'
    OBVIOUS
  <2>3. Pushed(td, fs) /\ Len(todo') = Len(todo) /\ \A k \in 1..Len(todo) : todo'[k] = td[k]
    BY <1>9, <2>2 DEF Pushed
  <2> QED  BY <1>1, <1>2, <2>1, <2>3, HandlingKept
<1> QED  BY <1>10, <1>11, <1>12, <1>13, <1>14 DEF CleanInv

\* The environment adds to the queue: the calls of clients that did not wait.
LEMMA PostClean ==
  ASSUME IInv, CleanInv, NEW fs \in Seq(Plain), Shaped(fs), \A j \in 1..Len(fs) : fs[j][1] \notin EndOps,
         queue' = Append(queue, fs), UNCHANGED <<pumpVars, todo, coroutineVars, runtimeVars>>,
         \A t \in Returns(fs) : client[t] # "waiting" /\ client'[t] = "waiting",
         \A t \in Client : client[t] = "waiting" => client'[t] = "waiting"
  PROVE  CleanInv'
<1>1. ShapeInv /\ WaitingInv /\ FinishedInv /\ LeftInv /\ HandlingInv /\ queue \in Seq(Seq(Plain))
  BY DEF CleanInv, IInv, StackInv
<1>2. UNCHANGED <<coroutines, collateral, switch, unblocked, active, finished, handling>>
  BY DEF pumpVars, coroutineVars, runtimeVars
<1>3. /\ Len(queue) \in Nat /\ Len(queue') = Len(queue) + 1 /\ queue'[Len(queue) + 1] = fs
      /\ \A i \in 1..Len(queue) : queue'[i] = queue[i]
  BY <1>1, BehindFacts
<1>4. \A i \in 1..Len(queue') : \/ i \in 1..Len(queue) /\ queue'[i] = queue[i]
                                \/ i = Len(queue) + 1 /\ queue'[i] = fs
  BY <1>3
<1>5. ShapeInv'
  BY <1>1, <1>4 DEF ShapeInv
<1>6. WaitingInv'
  <2>1. \A s : Returns(s) \subseteq Client
    BY DEF Returns
  <2>2. \A k \in 1..Len(todo) : \A t \in Returns(todo[k]) : client[t] = "waiting" /\ client'[t] = "waiting"
    BY <1>1, <2>1 DEF WaitingInv
  <2>3. \A i \in 1..Len(queue) : \A t \in Returns(queue[i]) : client[t] = "waiting" /\ client'[t] = "waiting"
    BY <1>1, <2>1 DEF WaitingInv
  <2>4. \A i \in 1..Len(queue') : \A t \in Returns(queue'[i]) : client'[t] = "waiting"
    BY <1>4, <2>3
  <2>5. \A i \in 1..Len(queue) : Returns(queue[i]) \cap Returns(fs) = {}
    BY <2>3
  <2>6. \A k \in 1..Len(todo) : Returns(todo[k]) \cap Returns(fs) = {}
    BY <2>2
  <2>7. ASSUME NEW i \in 1..Len(queue'), NEW j \in 1..Len(queue'), i # j
        PROVE  Returns(queue'[i]) \cap Returns(queue'[j]) = {}
    BY <1>1, <1>4, <2>5, <2>7 DEF WaitingInv
  <2>8. ASSUME NEW k \in 1..Len(todo), NEW i \in 1..Len(queue')
        PROVE  Returns(todo[k]) \cap Returns(queue'[i]) = {}
    BY <1>1, <1>4, <2>6 DEF WaitingInv
  <2>9. \A j, k \in 1..Len(todo) : j # k => Returns(todo[j]) \cap Returns(todo[k]) = {}
    BY <1>1 DEF WaitingInv
  <2> QED  BY <2>2, <2>4, <2>7, <2>8, <2>9 DEF WaitingInv, Returns
<1>7. FinishedInv' /\ LeftInv' /\ HandlingInv'
  BY <1>1, <1>2 DEF FinishedInv, LeftInv, HandlingInv
<1> QED  BY <1>5, <1>6, <1>7 DEF CleanInv

LEMMA ClientCallClean ==
  ASSUME IInv, CleanInv, NEW t \in Client, ClientCall(t)
  PROVE  CleanInv'
<1>1. Entry[t] \in Port
  BY BlockingAssumption
<1>2. PICK f, g : f = <<"call", Entry[t]>> /\ g = <<"return", t>>
  OBVIOUS
<1>3. f \in Plain /\ g \in Plain /\ f[1] = "call" /\ g[1] = "return"
  BY <1>1, <1>2, MakeFrames
<1>4. PICK fs \in Seq(Plain) : fs = <<f, g>> /\ Len(fs) = 2 /\ fs[1] = f /\ fs[2] = g /\ Elements(fs) = {f, g}
  BY <1>3, PlainLists, ShortLists
<1>5. Shaped(fs)
  BY <1>3, <1>4 DEF Shaped, CallOps, EndOps
<1>6. \A j \in 1..Len(fs) : fs[j][1] \notin EndOps
  BY <1>3, <1>4 DEF EndOps
<1>7. Returns(fs) \subseteq {t}
  BY <1>2, <1>4 DEF Returns
<1>8. client[t] # "waiting" /\ client'[t] = "waiting" /\ \A u \in Client : client[u] = "waiting" => client'[u] = "waiting"
  BY DEF ClientCall, IInv, TypeOK, EnvTypes
<1>9. queue' = Append(queue, fs) /\ UNCHANGED <<pumpVars, todo, coroutineVars, runtimeVars>>
  BY <1>2, <1>4 DEF ClientCall
<1> QED  BY <1>5, <1>6, <1>7, <1>8, <1>9, PostClean

LEMMA AnswerClean ==
  ASSUME IInv, CleanInv, NEW w \in World, Answer(w)
  PROVE  CleanInv'
<1>0. <<"out", w>> \in Plain
  BY MakeFrames
<1>1. PICK f : f = <<"out", w>> /\ f \in Plain /\ f[1] = "out"
  BY <1>0
<1>2. PICK fs \in Seq(Plain) : fs = <<f>> /\ Len(fs) = 1 /\ fs[1] = f /\ Elements(fs) = {f}
  BY <1>1, PlainLists, ShortLists
<1>3. Shaped(fs)
  BY <1>1, <1>2 DEF Shaped, CallOps, EndOps
<1>4. \A j \in 1..Len(fs) : fs[j][1] \notin EndOps
  BY <1>1, <1>2 DEF EndOps
<1>5. Returns(fs) = {}
  BY <1>1, <1>2 DEF Returns
<1>6. queue' = Append(queue, fs) /\ UNCHANGED <<pumpVars, todo, coroutineVars, runtimeVars, client>>
  BY <1>1, <1>2 DEF Answer
<1> QED  BY <1>3, <1>4, <1>5, <1>6, PostClean

LEMMA QuietClean ==
  ASSUME CleanInv, UNCHANGED vars
  PROVE  CleanInv'
<1>1. ShapeInv' /\ WaitingInv' /\ HandlingInv'
  BY DEF CleanInv, ShapeInv, WaitingInv, HandlingInv, Returns, vars, envVars, runtimeVars
<1>2. FinishedInv' /\ LeftInv'
  BY DEF CleanInv, FinishedInv, LeftInv, vars, pumpVars, coroutineVars
<1> QED  BY <1>1, <1>2 DEF CleanInv

LEMMA CleanNext ==
  ASSUME IInv, CleanInv, CallsForClients, [Next]_vars
  PROVE  CleanInv'
<1>1. CASE Step
  BY <1>1, ContextSwitchClean, WorkerClean, CollateralReleaseClean, ReturnClean, CallFreeClean,
     CollateralBlockClean, EnterClean, LeaveClean, AskClean, OutClean, FlushClean, FlushAsClean,
     DrainClean, DeferClean, WorkerDeferClean, WorkerDeferNoneClean, BlockClean, SkipBlockClean, ParkRelayClean, ParkClean, UnparkClean,
     ReleaseClean DEF Step
<1>2. CASE \E t \in Client : ClientCall(t)
  BY <1>2, ClientCallClean
<1>3. CASE \E w \in World : Answer(w)
  BY <1>3, AnswerClean
<1>4. CASE Quiet \/ UNCHANGED vars
  BY <1>4, QuietClean DEF Quiet
<1> QED  BY <1>1, <1>2, <1>3, <1>4 DEF Next

LEMMA CleanInit ==
  ASSUME Init
  PROVE  CleanInv
<1>1. PICK y : y = <<<<"switch">>>>
  OBVIOUS
<1>2. Shaped(y) /\ Returns(y) = {} /\ y # << >> /\ Head(y)[1] = "switch"
  BY <1>1, NewStack
<1>3. /\ todo = <<y>> /\ Len(todo) = 1 /\ todo[1] = y /\ queue = << >> /\ Len(queue) = 0 /\ active = 1
      /\ coroutines = <<1>> /\ unblocked = << >> /\ finished = <<FALSE>> /\ finished[1] = FALSE
  BY <1>1 DEF Init
<1>4. Elements(coroutines) = {1}
  BY <1>3, ShortLists
<1>5. ShapeInv /\ WaitingInv
  BY <1>2, <1>3 DEF ShapeInv, WaitingInv
<1>6. FinishedInv /\ LeftInv
  <2>1. \A k \in 1..Len(todo) : k = 1
    BY <1>3
  <2>2. 1 \in Elements(coroutines) /\ ~finished[1]
    BY <1>3, <1>4
  <2>3. FinishedInv
    BY <1>3, <2>1, <2>2 DEF FinishedInv
  <2>4. LeftInv
    BY <1>2, <1>3 DEF LeftInv
  <2> QED  BY <2>3, <2>4
<1>7. HandlingInv
  BY DEF HandlingInv, Init
<1> QED  BY <1>5, <1>6, <1>7 DEF CleanInv

\* No frame of a call is left when every client is idle.
LEMMA NoCallLeft ==
  ASSUME NEW s \in Seq(Frames), Shaped(s), Returns(s) = {}, NEW i \in 1..Len(s)
  PROVE  s[i][1] \notin CallOps
<1> SUFFICES ASSUME s[i][1] \in CallOps
             PROVE  FALSE
  OBVIOUS
<1>1. PICK j \in i+1..Len(s) : s[j][1] = "return"
  BY DEF Shaped
<1>2. j \in 1..Len(s)
  BY <1>1
<1>3. PICK f \in Frames : f = s[j] /\ f \in Elements(s)
  BY <1>2 DEF Elements
<1>4. f[2] \in Client /\ f = <<"return", f[2]>>
  BY <1>1, <1>3, FrameFacts
<1> QED  BY <1>3, <1>4 DEF Returns

\* What the invariant says when the pump waits for events and no client waits.
LEMMA CleanIsQuiet ==
  ASSUME IInv, CleanInv
  PROVE  QuietIsClean
<1> SUFFICES ASSUME Doing("worker"), \A t \in Client : client[t] = "idle"
             PROVE  /\ Elements(Unfinished) = {active}
                    /\ collateral = << >> /\ unblocked = << >> /\ switch = << >>
                    /\ \A c \in Component : handling[c] = 0
  BY DEF QuietIsClean
<1>1. /\ active \in 1..Len(todo) /\ todo[active] \in Seq(Frames) /\ todo[active] # << >>
      /\ Head(todo[active])[1] = "worker" /\ active \in Elements(coroutines) /\ ~finished[active]
      /\ ShapeInv /\ WaitingInv /\ FinishedInv /\ LeftInv /\ HandlingInv
  BY DoingFacts DEF CleanInv, IInv, ListInv, ActiveInv
<1>2. \A k \in 1..Len(todo) : todo[k] \in Seq(Frames) /\ Shaped(todo[k]) /\ Returns(todo[k]) = {}
  <2>1. \A k \in 1..Len(todo) : todo[k] \in Seq(Frames)
    BY ListTypes
  <2>2. \A k \in 1..Len(todo) : Returns(todo[k]) = {}
    <3>1. \A s : Returns(s) \subseteq Client
      BY DEF Returns
    <3> QED  BY <1>1, <3>1 DEF WaitingInv
  <2> QED  BY <1>1, <2>1, <2>2 DEF ShapeInv
<1>3. ASSUME NEW k \in 1..Len(todo), k # active
      PROVE  finished[k]
  <2> SUFFICES ASSUME ~finished[k]
               PROVE  FALSE
    OBVIOUS
  <2>1. PICK s \in Seq(Frames) : s = todo[k] /\ Shaped(s) /\ Returns(s) = {}
    BY <1>2
  <2>2. s # << >> /\ Head(s)[1] \in {"unpark", "enter"}
    BY <1>1, <1>3, <2>1 DEF FinishedInv
  <2>3. 1 \in 1..Len(s) /\ Head(s) = s[1]
    BY <2>2
  <2>4. s[1][1] \notin CallOps
    BY <2>1, <2>3, NoCallLeft
  <2> QED  BY <2>2, <2>3, <2>4 DEF CallOps
<1>4. Elements(Unfinished) = {active}
  <2>1. PICK S : S = {k \in Elements(coroutines) : ~finished[k]}
    OBVIOUS
  <2>2. coroutines \in Seq(Nat) /\ Elements(coroutines) \subseteq 1..Len(todo)
    BY ListTypes
  <2>3. Elements(Keep(coroutines, S)) = Elements(coroutines) \cap S
    BY <2>2, KeepFacts
  <2>4. Unfinished = Keep(coroutines, S)
    BY <2>1 DEF Unfinished
  <2>5. S = {active}
    BY <1>1, <1>3, <2>1, <2>2
  <2> QED  BY <1>1, <2>3, <2>4, <2>5
<1>5. collateral = << >>
  <2>1. Elements(collateral) = {}
    BY <1>3, ListTypes DEF IInv, CollateralInv, ListInv
  <2>2. collateral \in Seq(Nat)
    BY ListTypes
  <2> QED  BY <2>1, <2>2, EmptyFacts
<1>6. unblocked = << >> /\ switch = << >>
  BY <1>1, <1>3 DEF LeftInv
<1>7. ASSUME NEW c \in Component, handling[c] # 0
      PROVE  FALSE
  <2>1. PICK k \in 1..Len(todo) : \E f \in Elements(todo[k]) : f \in {<<"leave", c>>, <<"drain", c>>}
    BY <1>1, <1>7 DEF HandlingInv
  <2>2. PICK f \in Elements(todo[k]) : f[1] \in {"leave", "drain"}
    BY <2>1
  <2>3. CASE k = active
    <3>1. PICK s \in Seq(Frames) : s = todo[active] /\ s # << >> /\ Shaped(s) /\ Head(s)[1] = "worker"
      BY <1>1, <1>2
    <3>2. \A g \in Elements(Tail(s)) : g[1] \in EndOps
      BY <3>1, NothingReturns
    <3>3. Elements(s) = {Head(s)} \cup Elements(Tail(s))
      BY <3>1, TailFacts
    <3> QED  BY <2>2, <2>3, <3>1, <3>2, <3>3 DEF EndOps
  <2>4. CASE k # active
    <3>1. \A i \in 1..Len(todo[k]) : todo[k][i][1] \in EndOps \cup {"never"}
      BY <1>1, <1>3, <2>4 DEF FinishedInv
    <3> QED  BY <2>2, <3>1 DEF Elements, EndOps
  <2> QED  BY <2>3, <2>4
<1> QED  BY <1>4, <1>5, <1>6, <1>7

-------------------------------------------------------------------------------
(***************************************************************************)
(* The theorems.                                                           *)
(***************************************************************************)

LEMMA Invariant ==
  Spec /\ []OneCallPerPort => []IInv
<1>1. Init => IInv
  BY InitStep
<1>2. IInv /\ OneCallPerPort /\ [Next]_vars => IInv'
  BY NextStep
<1> QED  BY <1>1, <1>2, PTL DEF Spec

\* Type correctness: the variables of the pump keep their types, as long as no call of a
\* blocking port begins while another one is blocked on that port.
THEOREM TypeCorrect == Spec /\ []OneCallPerPort => []TypeOK
<1>1. IInv => TypeOK
  BY DEF IInv
<1> QED  BY <1>1, Invariant, PTL

\* A call that is blocked (pump::block) goes on only after the component has replied.
THEOREM RepliesComeFirst == Spec /\ []OneCallPerPort => []ReturnsAfterReply
<1>1. IInv => ReturnsAfterReply
  BY DEF IInv, RepliedInv, ReturnsAfterReply, Doing, Arg
<1> QED  BY <1>1, Invariant, PTL

\* The assertions of find_self: there is one coroutine that is neither blocked nor finished,
\* and it is the one that runs.
THEOREM SelfIsFound == Spec /\ []OneCallPerPort /\ []OneRelayed => []SelfIsActive
<1>1. Init => OthersInv
  <2>1. ASSUME Init
        PROVE  Elements(coroutines) = {1} /\ active = 1
    BY <2>1, ShortFacts DEF Init
  <2> QED  BY <2>1 DEF OthersInv
<1>2. IInv /\ OthersInv /\ OneRelayed /\ [Next]_vars => OthersInv'
  BY OthersNext
<1>3. IInv /\ OthersInv => SelfIsActive
  BY DEF IInv, ListInv, ActiveInv, OthersInv, SelfIsActive, SelfCandidates
<1> QED  BY <1>1, <1>2, <1>3, Invariant, PTL DEF Spec
\* When every call has returned and the pump waits for events, nothing is left of them: one
\* coroutine, no call that is blocked collaterally, no component that counts as handling an
\* event.  The handlers of events of the outside world and deferred statements make no call.
THEOREM NothingIsLeft ==
  ASSUME CallsForClients
  PROVE  Spec /\ []OneCallPerPort => []QuietIsClean
<1>1. Init => CleanInv
  BY CleanInit
<1>2. IInv /\ CleanInv /\ [Next]_vars => CleanInv'
  BY CleanNext
<1>3. IInv /\ CleanInv => QuietIsClean
  BY CleanIsQuiet
<1> QED  BY <1>1, <1>2, <1>3, Invariant, PTL DEF Spec
===============================================================================
