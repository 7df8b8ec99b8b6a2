------------------------------ MODULE CPumpProofs ------------------------------
(***************************************************************************)
(* Proofs about module CPump, for every system of components: any ports,   *)
(* any handlers, any number of clients, queues of any size, and whether or *)
(* not an assertion fails later.                                           *)
(***************************************************************************)
EXTENDS CPump, ListProofs, FiniteSetTheorems

-------------------------------------------------------------------------------
(***************************************************************************)
(* The inductive invariant.                                                *)
(***************************************************************************)

\* The frames that a coroutine has once its worker has taken the event, and those of a
\* handler.
Plain == Frames \ {<<"worker">>}
Calm == Plain \ {<<"process">>}

\* What an event starts with.
Fresh == {f \in Calm : f[1] # "unblock"}

\* A worker that has not begun is the coroutine that runs, and the event in q is its own.
WorkerInv ==
  /\ \A k \in 1..Len(todo) :
       todo[k] \in Seq(Plain) \/ (k = active /\ k # Main /\ todo[k] = <<<<"worker">>>>)
  /\ q \in Seq(Seq(Fresh)) /\ Len(q) = IF todo[active] = <<<<"worker">>>> THEN 1 ELSE 0

\* While a worker runs Main waits to process what is released; in dzn_pump_finalize only
\* Main runs.
MainInv ==
  /\ ended => active = Main /\ todo[Main] \in Seq(Calm)
  /\ ~ended =>
       /\ todo[Main] \in {<< >>, <<<<"process">>>>}
       /\ active # Main => todo[Main] = <<<<"process">>>>
       /\ active = Main /\ todo[Main] = << >> => released = << >>

\* A component that counts as handling an event has a handler to end.
Closes(f, c) == f = <<"finish", c>> \/ \E p \in Port : f = <<"block", p>> /\ Owner[p] = c

HandlingInv ==
  \A c \in Component : handling[c] # 0 =>
    \E k \in 1..Len(todo) : \E i \in 1..Len(todo[k]) : Closes(todo[k][i], c)

\* The frames <<"unblock", p>>, each by its coroutine and its distance from the bottom.
UnblocksAt(stacks, p, k) ==
  {d \in 0..Len(stacks[k]) - 1 : stacks[k][Len(stacks[k]) - d] = <<"unblock", p>>}

Unblocks(stacks, p) ==
  UNION {{k} \X UnblocksAt(stacks, p, k) : k \in 1..Len(stacks)}

BlockedOn(list, entries, p) == {i \in Elements(list) : entries[i].port = p}

\* There are as many entries of a port in blocked as coroutines that will delete one.
BlockedInv ==
  /\ Distinct(blocked)
  /\ \A p \in Port :
       /\ IsFiniteSet(Unblocks(todo, p)) /\ IsFiniteSet(BlockedOn(blocked, entry, p))
       /\ Cardinality(Unblocks(todo, p)) = Cardinality(BlockedOn(blocked, entry, p))

IInv == TypeOK /\ WorkerInv /\ MainInv /\ HandlingInv /\ BlockedInv

-------------------------------------------------------------------------------
(***************************************************************************)
(* Frames and stacks.                                                      *)
(***************************************************************************)

\* What a frame is about follows from its name.
LEMMA FrameFacts ==
  ASSUME NEW f \in Frames
  PROVE  /\ f[1] \in {"call", "collateral", "start", "block", "pump_block", "unblock", "reply"}
              => f[2] \in Port /\ f = <<f[1], f[2]>>
         /\ f[1] \in {"out", "handle"} => f[2] \in Internal \cup World
         /\ f[1] = "ask" => f[2] \in World
         /\ f[1] \in {"finish", "flush", "change"} => f[2] \in Component /\ f = <<f[1], f[2]>>
         /\ f[1] = "defer" => f[2] \in Statement
         /\ f[1] = "return" => f[2] \in Client
         /\ f[1] = "worker" => f = <<"worker">>
         /\ f[1] = "process" => f = <<"process">>
BY DEF Frames

\* The frames that the actions make.
LEMMA MakeFrames ==
  /\ \A p \in Port : \A op \in {"call", "collateral", "start", "block", "pump_block", "unblock"} :
       <<op, p>> \in Calm
  /\ \A e \in Internal \cup World : <<"out", e>> \in Calm /\ <<"handle", e>> \in Calm
  /\ \A c \in Component : <<"finish", c>> \in Calm /\ <<"flush", c>> \in Calm
  /\ \A t \in Client : <<"return", t>> \in Calm
  /\ <<"prune">> \in Calm /\ <<"run_defer">> \in Calm /\ <<"flush_defer">> \in Calm
  /\ <<"process">> \in Plain /\ <<"worker">> \in Frames
  /\ Calm \subseteq Plain /\ Plain \subseteq Frames
BY DEF Frames, Plain, Calm

\* What a handler does.
LEMMA BodyFacts ==
  ASSUME NEW x \in Port \cup Internal \cup World \cup Statement
  PROVE  /\ Body[x] \in Seq(Calm)
         /\ \A p \in Port : <<"unblock", p>> \notin Elements(Body[x])
<1>1. Body[x] \in Seq(Instructions)
  BY CPumpAssumption
<1>2. ASSUME NEW f \in Instructions
      PROVE  f \in Calm /\ f[1] # "unblock"
  BY <1>2 DEF Instructions, Calm, Plain, Frames
<1>3. Elements(Body[x]) \subseteq Instructions
  BY <1>1, EmptyFacts
<1>4. Body[x] \in Seq(Calm)
  BY <1>1, <1>2, <1>3, ListOf
<1>5. ASSUME NEW p \in Port, <<"unblock", p>> \in Elements(Body[x])
      PROVE  FALSE
  BY <1>2, <1>3, <1>5
<1> QED  BY <1>4, <1>5

\* Short lists of frames.
LEMMA FrameLists ==
  ASSUME NEW A
  PROVE  /\ << >> \in Seq(A) /\ Elements(<< >>) = {}
         /\ \A x \in A : <<x>> \in Seq(A) /\ Elements(<<x>>) = {x}
         /\ \A x, y \in A : <<x, y>> \in Seq(A) /\ Elements(<<x, y>>) = {x, y}
         /\ \A x, y, z \in A : <<x, y, z>> \in Seq(A) /\ Elements(<<x, y, z>>) = {x, y, z}
<1>1. << >> \in Seq(A) /\ \A x \in A : <<x>> \in Seq(A) /\ Elements(<<x>>) = {x}
  BY ShortFacts
<1>2. ASSUME NEW x \in A, NEW y \in A
      PROVE  <<x, y>> \in Seq(A) /\ Elements(<<x, y>>) = {x, y}
  <2>1. 1..2 = {1, 2}
    OBVIOUS
  <2>2. Len(<<x, y>>) = 2
    OBVIOUS
  <2> QED  BY <2>1, <2>2 DEF Elements
<1>3. ASSUME NEW x \in A, NEW y \in A, NEW z \in A
      PROVE  <<x, y, z>> \in Seq(A) /\ Elements(<<x, y, z>>) = {x, y, z}
  <2>1. 1..3 = {1, 2, 3}
    OBVIOUS
  <2>2. Len(<<x, y, z>>) = 3
    OBVIOUS
  <2> QED  BY <2>1, <2>2 DEF Elements
<1> QED  BY <1>1, <1>2, <1>3, EmptyFacts

\* Lists without an element, and with one.
LEMMA NoneOrOne ==
  ASSUME NEW A, NEW s \in Seq(A)
  PROVE  /\ Len(s) = 0 => s = << >>
         /\ Len(s) = 1 => Tail(s) = << >>
<1>1. ASSUME NEW r \in Seq(A), Len(r) = 0
      PROVE  r = << >>
  <2>1. Elements(r) = {}
    BY <1>1 DEF Elements
  <2> QED  BY <2>1, EmptyFacts
<1>2. ASSUME Len(s) = 1
      PROVE  Tail(s) = << >>
  <2>1. s # << >>
    BY <1>2
  <2>2. Tail(s) \in Seq(A) /\ Len(Tail(s)) = 0
    BY <1>2, <2>1, TailFacts
  <2> QED  BY <1>1, <2>2
<1> QED  BY <1>1, <1>2

\* The stack of a worker that has not begun has more than the frames of the others.
LEMMA NotPlain == <<<<"worker">>>> \notin Seq(Plain)
<1> SUFFICES ASSUME <<<<"worker">>>> \in Seq(Plain) PROVE FALSE
  OBVIOUS
<1>1. Elements(<<<<"worker">>>>) \subseteq Plain
  BY EmptyFacts
<1>2. Elements(<<<<"worker">>>>) = {<<"worker">>}
  BY FrameLists
<1> QED  BY <1>1, <1>2 DEF Plain

\* The stack of a worker that is done, or of Main while a worker runs.
LEMMA ProcessStack ==
  /\ <<<<"process">>>> \in Seq(Plain) /\ Elements(<<<<"process">>>>) = {<<"process">>}
  /\ <<<<"process">>>> # << >>
<1>1. <<"process">> \in Plain
  BY MakeFrames
<1> QED  BY <1>1, ShortFacts

\* A list of frames of one kind is a list of frames of a wider kind.
LEMMA Wider ==
  ASSUME NEW A, NEW B, A \subseteq B, NEW s \in Seq(A)
  PROVE  s \in Seq(B)
BY EmptyFacts, ListOf

\* The stack of the coroutine that runs after its top frame is replaced by fs.
LEMMA DoFacts ==
  ASSUME NEW A, NEW fs \in Seq(A), A \subseteq Frames,
         todo \in Seq(Seq(Frames)), active \in 1..Len(todo), todo[active] # << >>,
         Tail(todo[active]) \in Seq(A)
  PROVE  /\ Do(fs) \in Seq(Seq(Frames)) /\ Len(Do(fs)) = Len(todo)
         /\ Do(fs)[active] = fs \o Tail(todo[active]) /\ Do(fs)[active] \in Seq(A)
         /\ \A k \in 1..Len(todo) : k # active => Do(fs)[k] = todo[k]
<1>1. fs \o Tail(todo[active]) \in Seq(A)
  BY ConcatFacts
<1>2. fs \o Tail(todo[active]) \in Seq(Frames)
  BY <1>1, Wider
<1> DEFINE new == fs \o Tail(todo[active])
<1>3. Do(fs) = [todo EXCEPT ![active] = new]
  BY DEF Do
<1> HIDE DEF new
<1>4. /\ [todo EXCEPT ![active] = new] \in Seq(Seq(Frames))
      /\ Len([todo EXCEPT ![active] = new]) = Len(todo)
      /\ [todo EXCEPT ![active] = new][active] = new
      /\ \A k \in 1..Len(todo) : k # active => [todo EXCEPT ![active] = new][k] = todo[k]
  BY <1>2 DEF new
<1> QED  BY <1>1, <1>3, <1>4 DEF new

-------------------------------------------------------------------------------
(***************************************************************************)
(* What the steps of a handler preserve.                                   *)
(***************************************************************************)

\* Domains of the lists.
LEMMA Domains ==
  ASSUME TypeOK
  PROVE  /\ DOMAIN todo = 1..Len(todo) /\ Len(todo) \in Nat /\ active \in 1..Len(todo)
         /\ 1 \in 1..Len(todo)
         /\ DOMAIN entry = 1..Len(entry) /\ Len(entry) \in Nat
BY DEF TypeOK

\* The frame that is done.
LEMMA DoingFacts ==
  ASSUME TypeOK, NEW op, Doing(op)
  PROVE  /\ todo[active] \in Seq(Frames) /\ todo[active] # << >>
         /\ Head(todo[active]) \in Frames /\ Head(todo[active])[1] = op
         /\ Tail(todo[active]) \in Seq(Frames)
         /\ Arg = Head(todo[active])[2]
<1>1. todo[active] \in Seq(Frames)
  BY Domains DEF TypeOK
<1> QED  BY <1>1, TailFacts DEF Doing, Arg

\* A coroutine does a frame of a handler, and goes on or yields to Main.
LEMMA CalmStep ==
  ASSUME TypeOK, WorkerInv, MainInv, NEW op, Doing(op), op \notin {"worker", "process"},
         NEW fs \in Seq(Calm), todo' = Do(fs), active' \in {active, Main},
         q' = q, ended' = ended
  PROVE  /\ todo' \in Seq(Seq(Frames)) /\ DOMAIN todo' = DOMAIN todo /\ active' \in DOMAIN todo'
         /\ q' \in Seq(Seq(Frames))
         /\ WorkerInv' /\ MainInv'
<1>1. /\ todo \in Seq(Seq(Frames)) /\ active \in 1..Len(todo) /\ DOMAIN todo = 1..Len(todo)
      /\ Main \in 1..Len(todo)
  BY Domains DEF TypeOK, Main
<1>2. /\ todo[active] # << >> /\ Head(todo[active])[1] = op
  BY DEF Doing
<1>3. /\ todo[active] # <<<<"worker">>>> /\ todo[active] # <<<<"process">>>>
  BY <1>2
<1>4. todo[active] \in Seq(Plain) /\ Len(q) = 0 /\ q \in Seq(Seq(Fresh))
  BY <1>1, <1>3 DEF WorkerInv
<1>5. Tail(todo[active]) \in Seq(Plain) /\ fs \in Seq(Plain)
  BY <1>2, <1>4, TailFacts, Wider, MakeFrames
<1>6. /\ todo' \in Seq(Seq(Frames)) /\ Len(todo') = Len(todo)
      /\ todo'[active] = fs \o Tail(todo[active]) /\ todo'[active] \in Seq(Plain)
      /\ \A k \in 1..Len(todo) : k # active => todo'[k] = todo[k]
  BY <1>1, <1>2, <1>5, DoFacts, MakeFrames
<1>7. \A k \in 1..Len(todo) : todo'[k] \in Seq(Plain)
  BY <1>6 DEF WorkerInv
<1>8. active' \in 1..Len(todo) /\ todo'[active'] # <<<<"worker">>>>
  <2>1. active' \in 1..Len(todo)
    BY <1>1
  <2>2. todo'[active'] \in Seq(Plain)
    BY <1>7, <2>1
  <2> QED  BY <2>1, <2>2, NotPlain
<1>9. WorkerInv'
  BY <1>4, <1>6, <1>7, <1>8 DEF WorkerInv
<1>10. MainInv'
  <2>1. CASE ended
    <3>1. active = Main /\ todo[active] \in Seq(Calm)
      BY <2>1 DEF MainInv
    <3>2. Tail(todo[active]) \in Seq(Calm)
      BY <1>2, <3>1, TailFacts
    <3>3. Calm \subseteq Frames
      BY MakeFrames
    <3>4. todo'[active] \in Seq(Calm)
      BY <1>1, <1>2, <3>2, <3>3, DoFacts
    <3> QED  BY <2>1, <3>1, <3>4 DEF MainInv
  <2>2. CASE ~ended
    <3>1. active # Main
      BY <1>2, <1>3, <2>2 DEF MainInv
    <3>2. todo[Main] = <<<<"process">>>>
      BY <2>2, <3>1 DEF MainInv
    <3>3. todo'[Main] = <<<<"process">>>>
      BY <1>1, <1>6, <3>1, <3>2
    <3> QED  BY <2>2, <3>3 DEF MainInv
  <2> QED  BY <2>1, <2>2
<1>11. q' \in Seq(Seq(Frames))
  BY DEF TypeOK
<1> QED  BY <1>1, <1>6, <1>8, <1>9, <1>10, <1>11

\* Components that go on handling, or begin to, have a handler to end.
LEMMA HandlingStep ==
  ASSUME TypeOK, HandlingInv, todo[active] # << >>, NEW fs \in Seq(Frames), todo' = Do(fs),
         \A c \in Component : handling'[c] # 0 =>
           \/ handling[c] # 0 /\ ~Closes(Head(todo[active]), c)
           \/ \E f \in Elements(fs) : Closes(f, c)
  PROVE  HandlingInv'
<1>1. /\ todo \in Seq(Seq(Frames)) /\ active \in 1..Len(todo)
  BY Domains DEF TypeOK
<1>2. todo[active] \in Seq(Frames)
  BY <1>1
<1>3. /\ Tail(todo[active]) \in Seq(Frames) /\ Head(todo[active]) = todo[active][1]
      /\ Len(Tail(todo[active])) = Len(todo[active]) - 1 /\ Len(todo[active]) \in Nat
      /\ \A i \in 1..Len(todo[active]) - 1 : Tail(todo[active])[i] = todo[active][i + 1]
  BY <1>2, TailFacts
<1>4. /\ Len(todo') = Len(todo) /\ todo'[active] = fs \o Tail(todo[active])
      /\ \A k \in 1..Len(todo) : k # active => todo'[k] = todo[k]
  BY <1>1, <1>3, DoFacts
<1>5. /\ Len(todo'[active]) = Len(fs) + Len(Tail(todo[active])) /\ Len(fs) \in Nat
      /\ \A i \in 1..Len(fs) : todo'[active][i] = fs[i]
      /\ \A i \in 1..Len(Tail(todo[active])) : todo'[active][Len(fs) + i] = Tail(todo[active])[i]
  BY <1>3, <1>4, ConcatFacts
<1>6. ASSUME NEW c \in Component, handling'[c] # 0
      PROVE  \E k \in 1..Len(todo') : \E i \in 1..Len(todo'[k]) : Closes(todo'[k][i], c)
  <2>1. CASE \E f \in Elements(fs) : Closes(f, c)
    <3>1. PICK i \in 1..Len(fs) : Closes(fs[i], c)
      BY <2>1 DEF Elements
    <3>2. i \in 1..Len(todo'[active]) /\ Closes(todo'[active][i], c)
      BY <1>3, <1>5, <3>1
    <3> QED  BY <1>1, <1>4, <3>2
  <2>2. CASE handling[c] # 0 /\ ~Closes(Head(todo[active]), c)
    <3>0. PICK k \in 1..Len(todo) : \E i \in 1..Len(todo[k]) : Closes(todo[k][i], c)
      BY <2>2 DEF HandlingInv
    <3>1. PICK i \in 1..Len(todo[k]) : Closes(todo[k][i], c)
      BY <3>0
    <3>2. CASE k # active
      BY <1>4, <3>1, <3>2
    <3>3. CASE k = active
      <4>1. i # 1
        BY <1>3, <2>2, <3>1, <3>3
      <4>2. i - 1 \in 1..Len(Tail(todo[active])) /\ todo[active][i] = Tail(todo[active])[i - 1]
        BY <1>3, <3>1, <3>3, <4>1
      <4>3. /\ Len(fs) + (i - 1) \in 1..Len(todo'[active])
            /\ Closes(todo'[active][Len(fs) + (i - 1)], c)
        <5>1. todo'[active][Len(fs) + (i - 1)] = Tail(todo[active])[i - 1]
          BY <1>5, <4>2
        <5>2. Len(fs) + (i - 1) \in 1..Len(todo'[active])
          BY <1>3, <1>5, <4>2
        <5> QED  BY <3>1, <3>3, <4>2, <5>1, <5>2
      <4> QED  BY <1>1, <1>4, <4>3
    <3> QED  BY <3>2, <3>3
  <2> QED  BY <1>6, <2>1, <2>2
<1> QED  BY <1>6, Zenon DEF HandlingInv, Closes

\* The frames <<"unblock", p>> are known by their place.
LEMMA UnblocksFacts ==
  ASSUME NEW stacks, NEW p
  PROVE  /\ \A k, d : <<k, d>> \in Unblocks(stacks, p) <=>
                        k \in 1..Len(stacks) /\ d \in UnblocksAt(stacks, p, k)
         /\ \A x \in Unblocks(stacks, p) : \E k, d : x = <<k, d>>
BY DEF Unblocks

\* Two sets of pairs are the same when they have the same pairs.
LEMMA SamePairs ==
  ASSUME NEW S, NEW T, \A x \in S \cup T : \E k, d : x = <<k, d>>,
         \A k, d : <<k, d>> \in S <=> <<k, d>> \in T
  PROVE  S = T
<1>1. ASSUME NEW x \in S PROVE x \in T
  <2>1. PICK k, d : x = <<k, d>>
    OBVIOUS
  <2> QED  BY <2>1
<1>2. ASSUME NEW x \in T PROVE x \in S
  <2>1. PICK k, d : x = <<k, d>>
    OBVIOUS
  <2> QED  BY <2>1
<1> QED  BY <1>1, <1>2

\* The top frame of stack a is replaced by fs.
Replaced(stacks, a, fs, new) ==
  /\ stacks \in Seq(Seq(Frames)) /\ a \in 1..Len(stacks) /\ stacks[a] # << >>
  /\ fs \in Seq(Frames) /\ new \in Seq(Seq(Frames)) /\ Len(new) = Len(stacks)
  /\ new[a] = fs \o Tail(stacks[a]) /\ \A k \in 1..Len(stacks) : k # a => new[k] = stacks[k]

\* How the frames <<"unblock", p>> change then.
LEMMA UnblocksDo ==
  ASSUME NEW stacks, NEW a, NEW fs, NEW new, Replaced(stacks, a, fs, new), NEW p
  PROVE  /\ Head(stacks[a]) # <<"unblock", p>> /\ <<"unblock", p>> \notin Elements(fs)
              => Unblocks(new, p) = Unblocks(stacks, p)
         /\ Head(stacks[a]) = <<"unblock", p>> /\ fs = << >>
              => /\ <<a, Len(stacks[a]) - 1>> \in Unblocks(stacks, p)
                 /\ Unblocks(new, p) = Unblocks(stacks, p) \ {<<a, Len(stacks[a]) - 1>>}
         /\ Head(stacks[a]) # <<"unblock", p>> /\ fs = <<<<"unblock", p>>>>
              => /\ <<a, Len(stacks[a]) - 1>> \notin Unblocks(stacks, p)
                 /\ Unblocks(new, p) = Unblocks(stacks, p) \cup {<<a, Len(stacks[a]) - 1>>}
<1> DEFINE n == Len(stacks[a])
           m == Len(new[a])
           u == <<"unblock", p>>
<1>0. /\ stacks \in Seq(Seq(Frames)) /\ a \in 1..Len(stacks) /\ stacks[a] # << >>
      /\ fs \in Seq(Frames) /\ new \in Seq(Seq(Frames)) /\ Len(new) = Len(stacks)
      /\ new[a] = fs \o Tail(stacks[a]) /\ \A k \in 1..Len(stacks) : k # a => new[k] = stacks[k]
  BY DEF Replaced
<1> USE <1>0
<1>a. /\ \A k, d : <<k, d>> \in Unblocks(stacks, p) <=>
                     k \in 1..Len(stacks) /\ d \in UnblocksAt(stacks, p, k)
      /\ \A x \in Unblocks(stacks, p) : \E k, d : x = <<k, d>>
  BY ONLY UnblocksFacts
<1>b. /\ \A k, d : <<k, d>> \in Unblocks(new, p) <=>
                     k \in 1..Len(stacks) /\ d \in UnblocksAt(new, p, k)
      /\ \A x \in Unblocks(new, p) : \E k, d : x = <<k, d>>
  <2>1. /\ \A k, d : <<k, d>> \in Unblocks(new, p) <=>
                       k \in 1..Len(new) /\ d \in UnblocksAt(new, p, k)
        /\ \A x \in Unblocks(new, p) : \E k, d : x = <<k, d>>
    BY ONLY UnblocksFacts
  <2>2. Len(new) = Len(stacks)
    BY ONLY <1>0
  <2> QED  BY ONLY <2>1, <2>2, Zenon
<1>c. /\ \A d : d \in UnblocksAt(stacks, p, a) <=> d \in 0..n - 1 /\ stacks[a][n - d] = u
      /\ \A d : d \in UnblocksAt(new, p, a) <=> d \in 0..m - 1 /\ new[a][m - d] = u
  BY DEF UnblocksAt
<1>1. stacks[a] \in Seq(Frames)
  OBVIOUS
<1>2. /\ Tail(stacks[a]) \in Seq(Frames) /\ Head(stacks[a]) = stacks[a][1]
      /\ Len(Tail(stacks[a])) = n - 1 /\ n \in Nat /\ n >= 1
      /\ \A i \in 1..n - 1 : Tail(stacks[a])[i] = stacks[a][i + 1]
  BY <1>1, TailFacts
<1>3. /\ m = Len(fs) + (n - 1) /\ Len(fs) \in Nat
      /\ \A i \in 1..Len(fs) : new[a][i] = fs[i]
      /\ \A i \in 1..n - 1 : new[a][Len(fs) + i] = stacks[a][i + 1]
  <2> DEFINE t == Tail(stacks[a])
  <2>1. t \in Seq(Frames) /\ Len(t) = n - 1 /\ Len(fs) \in Nat
    BY <1>2
  <2>2. /\ Len(fs \o t) = Len(fs) + Len(t)
        /\ \A i \in 1..Len(fs) : (fs \o t)[i] = fs[i]
        /\ \A i \in 1..Len(t) : (fs \o t)[Len(fs) + i] = t[i]
    BY <2>1, ConcatFacts
  <2> QED  BY <1>2, <2>1, <2>2
<1> HIDE DEF n, m, u
<1>4. ASSUME NEW k \in 1..Len(stacks), k # a
      PROVE  UnblocksAt(new, p, k) = UnblocksAt(stacks, p, k)
  BY <1>4 DEF UnblocksAt
<1>3a. n \in Nat /\ n >= 1 /\ Len(fs) \in Nat /\ m = Len(fs) + (n - 1)
  BY <1>2, <1>3 DEF n, m
<1>5. ASSUME NEW d \in 0..n - 2
      PROVE  d \in UnblocksAt(new, p, a) <=> d \in UnblocksAt(stacks, p, a)
  <2>1. n - 1 - d \in 1..n - 1 /\ d \in 0..m - 1 /\ d \in 0..n - 1
    BY <1>3a
  <2>2. new[a][Len(fs) + (n - 1 - d)] = stacks[a][n - 1 - d + 1]
    BY <1>3, <2>1
  <2>3. Len(fs) + (n - 1 - d) = m - d /\ n - 1 - d + 1 = n - d
    BY <1>3a
  <2>4. new[a][m - d] = stacks[a][n - d]
    BY <2>2, <2>3
  <2> QED  BY <1>c, <2>1, <2>4
<1>6. /\ n - 1 \in UnblocksAt(stacks, p, a) <=> Head(stacks[a]) = u
      /\ \A d \in UnblocksAt(stacks, p, a) : d \in 0..n - 2 \/ d = n - 1
  <2>1. n - (n - 1) = 1 /\ n - 1 \in 0..n - 1
    BY ONLY <1>3a
  <2>2. \A d \in 0..n - 1 : d \in 0..n - 2 \/ d = n - 1
    BY ONLY <1>3a
  <2> QED  BY <1>c, <1>2, <2>1, <2>2
<1>7. ASSUME NEW d \in UnblocksAt(new, p, a), d \notin 0..n - 2
      PROVE  u \in Elements(fs)
  <2>1. d \in 0..m - 1 /\ new[a][m - d] = u
    BY <1>c, <1>7
  <2>2. m - d \in 1..Len(fs)
    BY <1>3a, <1>7, <2>1
  <2> QED  BY <1>3, <2>1, <2>2 DEF Elements
<1>8. ASSUME Head(stacks[a]) # u, u \notin Elements(fs)
      PROVE  Unblocks(new, p) = Unblocks(stacks, p)
  <2>1. UnblocksAt(new, p, a) = UnblocksAt(stacks, p, a)
    BY <1>5, <1>6, <1>7, <1>8
  <2>2. \A k \in 1..Len(stacks) : UnblocksAt(new, p, k) = UnblocksAt(stacks, p, k)
    BY <1>4, <2>1
  <2>3. \A k, d : <<k, d>> \in Unblocks(new, p) <=> <<k, d>> \in Unblocks(stacks, p)
    BY <1>a, <1>b, <2>2
  <2>4. \A x \in Unblocks(new, p) \cup Unblocks(stacks, p) : \E k, d : x = <<k, d>>
    BY <1>a, <1>b
  <2> QED  BY <2>3, <2>4, SamePairs, Zenon
<1> DEFINE top == <<a, n - 1>>
<1>9. ASSUME Head(stacks[a]) = u, fs = << >>
      PROVE  top \in Unblocks(stacks, p) /\ Unblocks(new, p) = Unblocks(stacks, p) \ {top}
  <2> DEFINE rest == Unblocks(stacks, p) \ {top}
  <2>1. Elements(fs) = {}
    BY <1>9, EmptyFacts
  <2>2. n - 1 \notin 0..n - 2
    BY <1>3a
  <2>3. UnblocksAt(new, p, a) = UnblocksAt(stacks, p, a) \ {n - 1}
    BY <1>5, <1>6, <1>7, <2>1, <2>2
  <2>4. ASSUME NEW k, NEW d
        PROVE  <<k, d>> \in Unblocks(new, p) <=> <<k, d>> \in rest
    <3>1. CASE k = a
      BY <1>a, <1>b, <2>3, <3>1
    <3>2. CASE k # a
      BY <1>a, <1>b, <1>4, <3>2
    <3> QED  BY <3>1, <3>2
  <2>5. \A x \in Unblocks(new, p) \cup rest : \E k, d : x = <<k, d>>
    BY <1>a, <1>b
  <2>6. rest = Unblocks(stacks, p) \ {top}
    OBVIOUS
  <2> HIDE DEF rest
  <2>7. \A k, d : <<k, d>> \in Unblocks(new, p) <=> <<k, d>> \in rest
    BY <2>4
  <2>8. Unblocks(new, p) = rest
    BY <2>5, <2>7, SamePairs, Zenon
  <2> QED  BY <1>a, <1>6, <1>9, <2>6, <2>8
<1>10. ASSUME Head(stacks[a]) # u, fs = <<u>>
       PROVE  top \notin Unblocks(stacks, p) /\ Unblocks(new, p) = Unblocks(stacks, p) \cup {top}
  <2> DEFINE rest == Unblocks(stacks, p) \cup {top}
  <2>1. Len(fs) = 1 /\ fs[1] = u /\ 1 \in 1..Len(fs)
    BY <1>10
  <2>2. m = n
    BY <1>3a, <2>1
  <2>3. new[a][1] = u
    BY <1>3, <2>1
  <2>4. n - 1 \in 0..m - 1 /\ m - (n - 1) = 1
    <3>1. n - 1 \in 0..n - 1 /\ n - (n - 1) = 1
      BY <1>3a
    <3> QED  BY <2>2, <3>1
  <2>5. \A d \in 0..m - 1 : d \in 0..n - 2 \/ d = n - 1
    BY <1>3a, <2>2
  <2>6. UnblocksAt(new, p, a) = UnblocksAt(stacks, p, a) \cup {n - 1}
    BY <1>c, <1>5, <1>6, <2>3, <2>4, <2>5
  <2>7. ASSUME NEW k, NEW d
        PROVE  <<k, d>> \in Unblocks(new, p) <=> <<k, d>> \in rest
    <3>1. CASE k = a
      BY <1>a, <1>b, <2>6, <3>1
    <3>2. CASE k # a
      BY <1>a, <1>b, <1>4, <3>2
    <3> QED  BY <3>1, <3>2
  <2>8. \A x \in Unblocks(new, p) \cup rest : \E k, d : x = <<k, d>>
    BY <1>a, <1>b
  <2>9. rest = Unblocks(stacks, p) \cup {top}
    OBVIOUS
  <2> HIDE DEF rest
  <2>10. \A k, d : <<k, d>> \in Unblocks(new, p) <=> <<k, d>> \in rest
    BY <2>7
  <2>11. Unblocks(new, p) = rest
    BY <2>8, <2>10, SamePairs, Zenon
  <2> QED  BY <1>a, <1>6, <1>10, <2>9, <2>11
<1> QED  BY <1>8, <1>9, <1>10 DEF n, u

LEMMA UnblocksSteps ==
  ASSUME TypeOK, todo[active] # << >>, NEW fs \in Seq(Frames), NEW p
  PROVE  /\ Head(todo[active]) # <<"unblock", p>> /\ <<"unblock", p>> \notin Elements(fs)
              => Unblocks(Do(fs), p) = Unblocks(todo, p)
         /\ Head(todo[active]) = <<"unblock", p>> /\ fs = << >>
              => \E x \in Unblocks(todo, p) : Unblocks(Do(fs), p) = Unblocks(todo, p) \ {x}
         /\ Head(todo[active]) # <<"unblock", p>> /\ fs = <<<<"unblock", p>>>>
              => \E x : x \notin Unblocks(todo, p) /\ Unblocks(Do(fs), p) = Unblocks(todo, p) \cup {x}
<1>1. /\ todo \in Seq(Seq(Frames)) /\ active \in 1..Len(todo) /\ Tail(todo[active]) \in Seq(Frames)
  BY Domains, TailFacts DEF TypeOK
<1>2. /\ Do(fs) \in Seq(Seq(Frames)) /\ Len(Do(fs)) = Len(todo)
      /\ Do(fs)[active] = fs \o Tail(todo[active])
      /\ \A k \in 1..Len(todo) : k # active => Do(fs)[k] = todo[k]
  BY <1>1, DoFacts
<1>3. Replaced(todo, active, fs, Do(fs))
  BY <1>1, <1>2 DEF Replaced
<1>4. /\ Head(todo[active]) # <<"unblock", p>> /\ <<"unblock", p>> \notin Elements(fs)
           => Unblocks(Do(fs), p) = Unblocks(todo, p)
      /\ Head(todo[active]) = <<"unblock", p>> /\ fs = << >>
           => /\ <<active, Len(todo[active]) - 1>> \in Unblocks(todo, p)
              /\ Unblocks(Do(fs), p) = Unblocks(todo, p) \ {<<active, Len(todo[active]) - 1>>}
      /\ Head(todo[active]) # <<"unblock", p>> /\ fs = <<<<"unblock", p>>>>
           => /\ <<active, Len(todo[active]) - 1>> \notin Unblocks(todo, p)
              /\ Unblocks(Do(fs), p) = Unblocks(todo, p) \cup {<<active, Len(todo[active]) - 1>>}
  BY ONLY <1>3, UnblocksDo
<1> QED  BY <1>4

\* The list blocked and the frames that delete from it are left as they are.
LEMMA BlockedStep ==
  ASSUME TypeOK, BlockedInv, todo[active] # << >>, NEW fs \in Seq(Frames), todo' = Do(fs),
         \A p \in Port : Head(todo[active]) # <<"unblock", p>> /\ <<"unblock", p>> \notin Elements(fs),
         blocked' = blocked, \A i \in 1..Len(entry) : entry'[i] = entry[i]
  PROVE  BlockedInv'
<1>1. /\ todo \in Seq(Seq(Frames)) /\ active \in 1..Len(todo) /\ Tail(todo[active]) \in Seq(Frames)
  BY Domains, TailFacts DEF TypeOK
<1>2. /\ todo' \in Seq(Seq(Frames)) /\ Len(todo') = Len(todo)
      /\ todo'[active] = fs \o Tail(todo[active])
      /\ \A k \in 1..Len(todo) : k # active => todo'[k] = todo[k]
  BY <1>1, DoFacts
<1>3. ASSUME NEW p \in Port
      PROVE  /\ Unblocks(todo', p) = Unblocks(todo, p)
             /\ BlockedOn(blocked', entry', p) = BlockedOn(blocked, entry, p)
  <2>1. Unblocks(todo', p) = Unblocks(todo, p)
    <3>1. Head(todo[active]) # <<"unblock", p>> /\ <<"unblock", p>> \notin Elements(fs)
      OBVIOUS
    <3> QED  BY <3>1, UnblocksSteps
  <2>2. Elements(blocked) \subseteq 1..Len(entry)
    BY Domains, EmptyFacts DEF TypeOK
  <2> QED  BY <2>1, <2>2 DEF BlockedOn
<1> QED  BY <1>3 DEF BlockedInv

\* A coroutine does a frame of a handler other than unblock, and leaves blocked alone.
Quiet(op, fs) ==
  /\ Doing(op) /\ op \notin {"worker", "process", "unblock"}
  /\ fs \in Seq(Calm) /\ \A p \in Port : <<"unblock", p>> \notin Elements(fs)
  /\ todo' = Do(fs) /\ active' \in {active, Main} /\ q' = q /\ ended' = ended
  /\ blocked' = blocked /\ \A i \in 1..Len(entry) : entry'[i] = entry[i]
  /\ \A c \in Component : handling'[c] # 0 =>
       \/ handling[c] # 0 /\ ~Closes(Head(todo[active]), c)
       \/ \E f \in Elements(fs) : Closes(f, c)

LEMMA QuietStep ==
  ASSUME IInv, NEW op, NEW fs, Quiet(op, fs)
  PROVE  /\ todo' \in Seq(Seq(Frames)) /\ DOMAIN todo' = DOMAIN todo /\ active' \in DOMAIN todo'
         /\ q' \in Seq(Seq(Frames))
         /\ WorkerInv' /\ MainInv' /\ HandlingInv' /\ BlockedInv'
<1> USE DEF Quiet
<1>1. TypeOK /\ WorkerInv /\ MainInv /\ HandlingInv /\ BlockedInv
  BY DEF IInv
<1>2. /\ todo' \in Seq(Seq(Frames)) /\ DOMAIN todo' = DOMAIN todo /\ active' \in DOMAIN todo'
      /\ q' \in Seq(Seq(Frames)) /\ WorkerInv' /\ MainInv'
  BY <1>1, CalmStep
<1>3. todo[active] # << >> /\ fs \in Seq(Frames)
  BY Wider, MakeFrames DEF Doing
<1>4. HandlingInv'
  BY <1>1, <1>3, HandlingStep
<1>5. \A p \in Port : Head(todo[active]) # <<"unblock", p>>
  BY DEF Doing
<1>6. BlockedInv'
  BY <1>1, <1>3, <1>5, BlockedStep
<1> QED  BY <1>2, <1>4, <1>6

\* What closes a handler.
LEMMA ClosesFacts ==
  ASSUME TypeOK, NEW op, Doing(op), NEW c
  PROVE  /\ op \notin {"finish", "block"} => ~Closes(Head(todo[active]), c)
         /\ op = "finish" /\ Arg # c => ~Closes(Head(todo[active]), c)
         /\ op = "block" /\ Owner[Arg] # c => ~Closes(Head(todo[active]), c)
BY DEF Doing, Arg, Closes

\* What an entry holds.
LEMMA EntryFacts ==
  ASSUME TypeOK, NEW i \in DOMAIN entry
  PROVE  entry[i].port \in Port /\ entry[i].coroutine \in DOMAIN todo
<1> DEFINE E == [port : Port, coroutine : DOMAIN todo, id : {-1, 1}]
<1>1. \A e \in E : e.port \in Port /\ e.coroutine \in DOMAIN todo
  OBVIOUS
<1>2. entry \in Seq(E)
  BY DEF TypeOK
<1> HIDE DEF E
<1>3. entry[i] \in E
  BY <1>2
<1> QED  BY <1>1, <1>3

\* dzn_list_delete
LEMMA DeleteFacts ==
  ASSUME NEW A, NEW list \in Seq(A), NEW x \in Elements(list)
  PROVE  /\ dzn_list_delete(list, x) \in Seq(A)
         /\ Distinct(list) => /\ Distinct(dzn_list_delete(list, x))
                              /\ Elements(dzn_list_delete(list, x)) = Elements(list) \ {x}
<1> DEFINE T == {k \in 1..Len(list) : list[k] = x}
<1>1. T \in SUBSET Nat /\ T # {} /\ Len(list) \in Nat
  BY DEF Elements
<1>2. PICK k \in T : \A j \in T : ~(j < k)
  BY <1>1, LeastNatural
<1>3. \E i \in 1..Len(list) : list[i] = x /\ \A j \in 1..i - 1 : list[j] # x
  <2>1. k \in 1..Len(list) /\ list[k] = x
    BY <1>2
  <2>2. ASSUME NEW j \in 1..k - 1, list[j] = x PROVE FALSE
    <3>1. j \in 1..Len(list) /\ j < k
      BY <1>1, <2>1
    <3> QED  BY <1>2, <2>2, <3>1
  <2> QED  BY <2>1, <2>2
<1> DEFINE first == CHOOSE i \in 1..Len(list) : list[i] = x /\ \A j \in 1..i - 1 : list[j] # x
<1>4. first \in 1..Len(list) /\ list[first] = x
  BY <1>3
<1>5. dzn_list_delete(list, x) = EraseAt(list, first)
  BY DEF dzn_list_delete
<1> HIDE DEF first
<1>6. /\ EraseAt(list, first) \in Seq(A)
      /\ Elements(list) = Elements(EraseAt(list, first)) \cup {x}
      /\ Distinct(list) => Distinct(EraseAt(list, first)) /\ x \notin Elements(EraseAt(list, first))
  <2>1. /\ EraseAt(list, first) \in Seq(A)
        /\ Elements(list) = Elements(EraseAt(list, first)) \cup {list[first]}
        /\ Distinct(list) => /\ Distinct(EraseAt(list, first))
                             /\ list[first] \notin Elements(EraseAt(list, first))
    <3>1. list \in Seq(A) /\ first \in 1..Len(list)
      BY <1>4
    <3> QED  BY ONLY <3>1, EraseFacts
  <2> QED  BY <1>4, <2>1
<1> QED  BY <1>5, <1>6

\* dzn_list_find_predicate with port_predicate: it finds an entry if there is one.
LEMMA OfPortFacts ==
  ASSUME TypeOK, NEW list \in Seq(DOMAIN entry), NEW p
  PROVE  /\ OfPort(list, p) \in Seq(DOMAIN entry)
         /\ Elements(OfPort(list, p)) = BlockedOn(list, entry, p)
         /\ OfPort(list, p) # << >> => Head(OfPort(list, p)) \in BlockedOn(list, entry, p)
         /\ OfPort(list, p) = << >> => BlockedOn(list, entry, p) = {}
<1>1. /\ OfPort(list, p) \in Seq(DOMAIN entry)
      /\ Elements(OfPort(list, p)) = Elements(list) \cap {i \in DOMAIN entry : entry[i].port = p}
  BY KeepFacts DEF OfPort, dzn_list_find_predicate
<1>2. Elements(list) \subseteq DOMAIN entry
  BY EmptyFacts
<1>3. Elements(OfPort(list, p)) = BlockedOn(list, entry, p)
  BY <1>1, <1>2 DEF BlockedOn
<1> QED  BY <1>1, <1>3, EmptyFacts, TailFacts

-------------------------------------------------------------------------------
(***************************************************************************)
(* The steps of a coroutine.                                               *)
(***************************************************************************)

LEMMA FailStep ==
  ASSUME IInv, Fail
  PROVE  IInv'
BY DEF IInv, Fail, TypeOK, WorkerInv, MainInv, HandlingInv, BlockedInv, Domains, pumpVars, infoVars, envVars

LEMMA ReturnStep ==
  ASSUME IInv, Return
  PROVE  IInv'
<1>1. TypeOK /\ Doing("return") /\ Arg \in Client
  BY DoingFacts, FrameFacts DEF IInv, Return
<1>2. Quiet("return", << >>)
  BY <1>1, FrameLists, ClosesFacts DEF Quiet, Return, pumpVars, infoVars
<1>3. TypeOK'
  BY <1>1, <1>2, QuietStep DEF TypeOK, Return, pumpVars, infoVars
<1> QED  BY <1>2, <1>3, QuietStep DEF IInv

LEMMA AskStep ==
  ASSUME IInv, Ask
  PROVE  IInv'
<1>1. TypeOK /\ Doing("ask") /\ Arg \in World
  BY DoingFacts, FrameFacts DEF IInv, Ask
<1>2. Quiet("ask", << >>)
  BY <1>1, FrameLists, ClosesFacts DEF Quiet, Ask, pumpVars, infoVars
<1>3. TypeOK'
  BY <1>1, <1>2, QuietStep DEF TypeOK, Ask, pumpVars, infoVars
<1> QED  BY <1>2, <1>3, QuietStep DEF IInv

LEMMA CallInStep ==
  ASSUME IInv, CallIn
  PROVE  IInv'
<1>1. TypeOK /\ Doing("call") /\ Arg \in Port
  BY DoingFacts, FrameFacts DEF IInv, CallIn
<1>2. PICK op \in {"collateral", "start"} : todo' = Do(<<<<op, Arg>>>>)
  BY DEF CallIn
<1>3. Quiet("call", <<<<op, Arg>>>>)
  <2>1. <<op, Arg>> \in Calm /\ \A p \in Port : <<"unblock", p>> # <<op, Arg>>
    BY <1>1, <1>2, MakeFrames
  <2>2. <<<<op, Arg>>>> \in Seq(Calm) /\ Elements(<<<<op, Arg>>>>) = {<<op, Arg>>}
    BY <2>1, FrameLists
  <2> QED  BY <1>1, <1>2, <2>1, <2>2, ClosesFacts DEF Quiet, CallIn, pumpVars, infoVars, envVars
<1>4. TypeOK'
  BY <1>1, <1>3, QuietStep DEF TypeOK, CallIn, pumpVars, infoVars, envVars
<1> QED  BY <1>3, <1>4, QuietStep DEF IInv

\* The list of what a coroutine does next.
LEMMA NextFrames ==
  ASSUME NEW f \in Calm, \A p \in Port : f # <<"unblock", p>>
  PROVE  /\ <<f>> \in Seq(Calm) /\ Elements(<<f>>) = {f}
         /\ \A p \in Port : <<"unblock", p>> \notin Elements(<<f>>)
<1>1. <<f>> \in Seq(Calm) /\ Elements(<<f>>) = {f}
  BY FrameLists
<1> QED  BY <1>1

LEMMA NextTwo ==
  ASSUME NEW f \in Calm, NEW g \in Calm
  PROVE  <<f, g>> \in Seq(Calm) /\ Elements(<<f, g>>) = {f, g}
<1>1. 1..2 = {1, 2} /\ Len(<<f, g>>) = 2
  OBVIOUS
<1> QED  BY <1>1 DEF Elements

LEMMA NextThree ==
  ASSUME NEW f \in Calm, NEW g \in Calm, NEW h \in Calm
  PROVE  <<f, g, h>> \in Seq(Calm) /\ Elements(<<f, g, h>>) = {f, g, h}
<1>1. 1..3 = {1, 2, 3} /\ Len(<<f, g, h>>) = 3
  OBVIOUS
<1> QED  BY <1>1 DEF Elements

LEMMA ConcatThree ==
  ASSUME NEW A, NEW u \in Seq(A), NEW v \in Seq(A), NEW w \in Seq(A)
  PROVE  u \o v \o w = u \o (v \o w)
OBVIOUS

\* port_coroutine_create gives the lists of the pump one more entry to refer to.
LEMMA CreateFacts ==
  ASSUME TypeOK, NEW p \in Port, port_coroutine_create(p, active), DOMAIN todo' = DOMAIN todo
  PROVE  /\ entry' \in Seq([port : Port, coroutine : DOMAIN todo', id : {-1, 1}])
         /\ DOMAIN entry \subseteq DOMAIN entry' /\ New \in DOMAIN entry' /\ New \notin DOMAIN entry
         /\ Seq(DOMAIN entry) \subseteq Seq(DOMAIN entry')
         /\ \A i \in 1..Len(entry) : entry'[i] = entry[i]
         /\ entry'[New].port = p
<1> DEFINE e == [port |-> p, coroutine |-> active, id |-> dzn_coroutine_id(active)]
           E == [port : Port, coroutine : DOMAIN todo, id : {-1, 1}]
<1>1. e \in E /\ e.port = p
  BY DEF TypeOK, dzn_coroutine_id
<1>2. entry \in Seq(E) /\ entry' = Append(entry, e)
  BY DEF TypeOK, port_coroutine_create
<1> HIDE DEF e, E
<1>3. /\ entry' \in Seq(E) /\ Len(entry') = Len(entry) + 1 /\ Len(entry) \in Nat
      /\ DOMAIN entry = 1..Len(entry) /\ DOMAIN entry' = 1..Len(entry')
      /\ \A i \in 1..Len(entry) : entry'[i] = entry[i]
      /\ entry'[Len(entry) + 1] = e
  BY <1>1, <1>2
<1>4. DOMAIN entry \subseteq DOMAIN entry' /\ New \in DOMAIN entry' /\ New \notin DOMAIN entry
  BY <1>3 DEF New
<1>5. ASSUME NEW list \in Seq(DOMAIN entry)
      PROVE  list \in Seq(DOMAIN entry')
  BY <1>4, Wider
<1> QED  BY <1>1, <1>3, <1>4, <1>5 DEF E, New

LEMMA FinishStep ==
  ASSUME IInv, Finish
  PROVE  IInv'
<1>1. TypeOK /\ Doing("finish") /\ Arg \in Component
  BY DoingFacts, FrameFacts DEF IInv, Finish
<1>2. Quiet("finish", <<<<"flush", Arg>>>>)
  <2>1. <<"flush", Arg>> \in Calm /\ \A p \in Port : <<"flush", Arg>> # <<"unblock", p>>
    BY <1>1, MakeFrames
  <2>2. \A c \in Component : handling'[c] # 0 => handling[c] # 0 /\ Arg # c
    BY <1>1 DEF Finish, TypeOK
  <2>3. \A c \in Component : handling'[c] # 0 => handling[c] # 0 /\ ~Closes(Head(todo[active]), c)
    BY <1>1, <2>2, ClosesFacts
  <2> QED  BY <1>1, <2>1, <2>3, NextFrames DEF Quiet, Finish, pumpVars, infoVars, envVars
<1>3. TypeOK'
  BY <1>1, <1>2, QuietStep DEF TypeOK, Finish, pumpVars, infoVars, envVars
<1> QED  BY <1>2, <1>3, QuietStep DEF IInv

LEMMA BlockStep ==
  ASSUME IInv, Block
  PROVE  IInv'
<1>1. TypeOK /\ Doing("block") /\ Arg \in Port /\ Owner[Arg] \in Component
  BY DoingFacts, FrameFacts, CPumpAssumption DEF IInv, Block
<1>2. Quiet("block", <<<<"flush", Owner[Arg]>>, <<"pump_block", Arg>>>>)
  <2>1. <<"flush", Owner[Arg]>> \in Calm /\ <<"pump_block", Arg>> \in Calm
    BY <1>1, MakeFrames
  <2>2. /\ <<<<"flush", Owner[Arg]>>, <<"pump_block", Arg>>>> \in Seq(Calm)
        /\ Elements(<<<<"flush", Owner[Arg]>>, <<"pump_block", Arg>>>>) =
             {<<"flush", Owner[Arg]>>, <<"pump_block", Arg>>}
    BY <2>1, NextTwo
  <2>3. \A c \in Component : handling'[c] # 0 => handling[c] # 0 /\ Owner[Arg] # c
    BY <1>1 DEF Block, TypeOK
  <2>4. \A c \in Component : handling'[c] # 0 => handling[c] # 0 /\ ~Closes(Head(todo[active]), c)
    BY <1>1, <2>3, ClosesFacts
  <2> QED  BY <1>1, <2>2, <2>4 DEF Quiet, Block, pumpVars, infoVars, envVars
<1>3. TypeOK'
  BY <1>1, <1>2, QuietStep DEF TypeOK, Block, pumpVars, infoVars, envVars
<1> QED  BY <1>2, <1>3, QuietStep DEF IInv

LEMMA ChangeStep ==
  ASSUME IInv, Change
  PROVE  IInv'
<1>1. TypeOK /\ Doing("change") /\ Arg \in Component
  BY DoingFacts, FrameFacts DEF IInv, Change
<1>2. Quiet("change", << >>)
  BY <1>1, FrameLists, ClosesFacts DEF Quiet, Change, pumpVars, infoVars, envVars
<1>3. TypeOK'
  <2>1. state' \in [Component -> {0, 1}]
    <3>1. state \in [Component -> {0, 1}] /\ state' = [state EXCEPT ![Arg] = 1 - state[Arg]]
      BY <1>1 DEF TypeOK, Change
    <3>2. 1 - state[Arg] \in {0, 1}
      BY <1>1, <3>1
    <3> QED  BY <3>1, <3>2
  <2> QED  BY <1>1, <1>2, <2>1, QuietStep DEF TypeOK, Change, pumpVars, infoVars, envVars
<1> QED  BY <1>2, <1>3, QuietStep DEF IInv

\* The handler that is started ends, or blocks, and is what the component handles.
LEMMA HandlerFacts ==
  ASSUME TypeOK, NEW x \in Port \cup Internal \cup World \cup Statement,
         NEW last \in Seq(Calm), \A p \in Port : <<"unblock", p>> \notin Elements(last),
         <<"finish", Owner[x]>> \in Elements(last)
  PROVE  /\ Body[x] \o last \in Seq(Calm)
         /\ \A p \in Port : <<"unblock", p>> \notin Elements(Body[x] \o last)
         /\ \E f \in Elements(Body[x] \o last) : Closes(f, Owner[x])
<1>1. Body[x] \in Seq(Calm) /\ \A p \in Port : <<"unblock", p>> \notin Elements(Body[x])
  BY BodyFacts
<1>2. Body[x] \o last \in Seq(Calm) /\ Elements(Body[x] \o last) = Elements(Body[x]) \cup Elements(last)
  BY <1>1, ConcatFacts
<1> QED  BY <1>1, <1>2 DEF Closes

LEMMA StartStep ==
  ASSUME IInv, Start
  PROVE  IInv'
<1>1. TypeOK /\ Doing("start") /\ Arg \in Port /\ Owner[Arg] \in Component
  BY DoingFacts, FrameFacts, CPumpAssumption DEF IInv, Start
<1>2. CASE handling[Owner[Arg]] # 0
  BY <1>2, FailStep DEF Start
<1>3. CASE handling[Owner[Arg]] = 0
  <2> DEFINE end == <<<<"finish", Owner[Arg]>>, <<"prune">>>>
             block == IF Arg \in Blocks THEN <<<<"block", Arg>>>> ELSE << >>
             last == block \o end
             fs == Body[Arg] \o last
  <2>1. <<"finish", Owner[Arg]>> \in Calm /\ <<"prune">> \in Calm /\ <<"block", Arg>> \in Calm
    BY <1>1, MakeFrames
  <2>2. end \in Seq(Calm) /\ Elements(end) = {<<"finish", Owner[Arg]>>, <<"prune">>}
    BY <2>1, NextTwo
  <2>3. block \in Seq(Calm) /\ Elements(block) \subseteq {<<"block", Arg>>}
    BY <2>1, FrameLists
  <2> HIDE DEF end, block
  <2>4. last \in Seq(Calm) /\ Elements(last) = Elements(block) \cup Elements(end)
    BY <2>2, <2>3, ConcatFacts
  <2>5. /\ \A p \in Port : <<"unblock", p>> \notin Elements(last)
        /\ <<"finish", Owner[Arg]>> \in Elements(last)
    BY <2>2, <2>3, <2>4
  <2> HIDE DEF last
  <2>6. /\ fs \in Seq(Calm) /\ \A p \in Port : <<"unblock", p>> \notin Elements(fs)
        /\ \E f \in Elements(fs) : Closes(f, Owner[Arg])
    BY <1>1, <2>4, <2>5, HandlerFacts
  <2>7. todo' = Do(fs)
    <3>1. Body[Arg] \in Seq(Calm)
      BY <1>1, BodyFacts
    <3>2. todo' = Do(Body[Arg] \o block \o end)
      BY <1>3 DEF Start, block, end
    <3>3. Body[Arg] \o block \o end = fs
      <4>1. Body[Arg] \o block \o end = Body[Arg] \o (block \o end)
        <5>1. PICK u, v, w : u = Body[Arg] /\ v = block /\ w = end
          OBVIOUS
        <5>2. u \in Seq(Calm) /\ v \in Seq(Calm) /\ w \in Seq(Calm)
          BY <2>2, <2>3, <3>1, <5>1
        <5>3. u \o v \o w = u \o (v \o w)
          BY <5>2
        <5> QED  BY <5>1, <5>3
      <4> QED  BY <4>1 DEF last
    <3> QED  BY <3>2, <3>3
  <2> HIDE DEF fs
  <2>8. /\ UNCHANGED <<pumpVars, queue, target, active, state, envVars, failed, undefined>>
        /\ awaiting' = awaiting \cup (Blocks \cap {Arg})
        /\ handling' = [handling EXCEPT ![Owner[Arg]] = 1]
    BY <1>3 DEF Start, dzn_runtime_start
  <2>9. \A c \in Component : handling'[c] # 0 => handling[c] # 0 \/ c = Owner[Arg]
    BY <1>1, <2>8 DEF TypeOK
  <2>10. Quiet("start", fs)
    BY <1>1, <2>6, <2>7, <2>8, <2>9, ClosesFacts DEF Quiet, pumpVars, envVars
  <2>11. TypeOK'
    BY <1>1, <2>8, <2>10, QuietStep DEF TypeOK, pumpVars, envVars
  <2> QED  BY <2>10, <2>11, QuietStep DEF IInv
<1> QED  BY <1>2, <1>3

LEMMA HandleEventStep ==
  ASSUME IInv, HandleEvent
  PROVE  IInv'
<1>1. TypeOK /\ Doing("handle") /\ Arg \in Internal \cup World /\ Owner[Arg] \in Component
  BY DoingFacts, FrameFacts, CPumpAssumption DEF IInv, HandleEvent
<1>2. CASE handling[Owner[Arg]] # 0
  BY <1>2, FailStep DEF HandleEvent
<1>3. CASE handling[Owner[Arg]] = 0
  <2> DEFINE fs == Body[Arg] \o <<<<"finish", Owner[Arg]>>>>
  <2>1. <<"finish", Owner[Arg]>> \in Calm /\ \A p \in Port : <<"finish", Owner[Arg]>> # <<"unblock", p>>
    BY <1>1, MakeFrames
  <2>2. /\ fs \in Seq(Calm) /\ \A p \in Port : <<"unblock", p>> \notin Elements(fs)
        /\ \E f \in Elements(fs) : Closes(f, Owner[Arg])
    BY <1>1, <2>1, NextFrames, HandlerFacts
  <2>3. /\ UNCHANGED <<pumpVars, queue, target, active, state, awaiting, envVars, failed, undefined>>
        /\ handling' = [handling EXCEPT ![Owner[Arg]] = 1] /\ todo' = Do(fs)
    BY <1>3 DEF HandleEvent, dzn_runtime_start
  <2> HIDE DEF fs
  <2>4. \A c \in Component : handling'[c] # 0 => handling[c] # 0 \/ c = Owner[Arg]
    BY <1>1, <2>3 DEF TypeOK
  <2>5. Quiet("handle", fs)
    BY <1>1, <2>2, <2>3, <2>4, ClosesFacts DEF Quiet, pumpVars, envVars
  <2>6. TypeOK'
    BY <1>1, <2>3, <2>5, QuietStep DEF TypeOK, pumpVars, envVars
  <2> QED  BY <2>5, <2>6, QuietStep DEF IInv
<1> QED  BY <1>2, <1>3

\* The domain of todo.
LEMMA DoDomain ==
  ASSUME NEW fs, todo' = Do(fs)
  PROVE  DOMAIN todo' = DOMAIN todo
BY DEF Do

LEMMA CollateralBlockStep ==
  ASSUME IInv, CollateralBlock
  PROVE  IInv'
<1>1. TypeOK /\ Doing("collateral") /\ Arg \in Port
  BY DoingFacts, FrameFacts DEF IInv, CollateralBlock
<1> DEFINE id == handling[Owner[Arg]]
           found == OfId(blocked, id) \o OfId(collateral, id)
<1>2. CASE found = << >>
  BY <1>2, FailStep DEF CollateralBlock
<1>3. CASE found # << >>
  <2>1. /\ port_coroutine_create(BusyWith(found), active)
        /\ collateral' = Append(collateral, New)
        /\ todo' = Do(<<<<"start", Arg>>>>) /\ active' = Main
        /\ UNCHANGED <<q, blocked, released, deferred, freed, infoVars, state, awaiting,
                       envVars, failed, undefined>>
    BY <1>3 DEF CollateralBlock, dzn_list_append, dzn_coroutine_yield_to
  <2>2. BusyWith(found) \in Port
    <3>1. OfId(blocked, id) \in Seq(DOMAIN entry) /\ OfId(collateral, id) \in Seq(DOMAIN entry)
      BY <1>1, KeepFacts DEF OfId, dzn_list_find_predicate, TypeOK
    <3>2. found \in Seq(DOMAIN entry)
      BY <3>1, ConcatFacts
    <3> HIDE DEF found
    <3>3. Head(found) \in DOMAIN entry
      BY <1>3, <3>2, TailFacts
    <3> QED  BY <1>1, <3>3, EntryFacts DEF BusyWith
  <2> HIDE DEF found, id
  <2>3. /\ entry' \in Seq([port : Port, coroutine : DOMAIN todo', id : {-1, 1}])
        /\ DOMAIN entry \subseteq DOMAIN entry' /\ New \in DOMAIN entry'
        /\ Seq(DOMAIN entry) \subseteq Seq(DOMAIN entry')
        /\ \A i \in 1..Len(entry) : entry'[i] = entry[i]
    BY <1>1, <2>1, <2>2, CreateFacts, DoDomain
  <2>4. <<"start", Arg>> \in Calm /\ \A p \in Port : <<"start", Arg>> # <<"unblock", p>>
    BY <1>1, MakeFrames
  <2>5. Quiet("collateral", <<<<"start", Arg>>>>)
    <3>1. /\ <<<<"start", Arg>>>> \in Seq(Calm)
          /\ \A p \in Port : <<"unblock", p>> \notin Elements(<<<<"start", Arg>>>>)
      BY <2>4, NextFrames
    <3>2. \A c \in Component : handling'[c] # 0 => handling[c] # 0 /\ ~Closes(Head(todo[active]), c)
      BY <1>1, <2>1, ClosesFacts DEF infoVars
    <3> QED  BY <1>1, <2>1, <2>3, <3>1, <3>2 DEF Quiet, infoVars, envVars
  <2>6. collateral' \in Seq(DOMAIN entry')
    BY <1>1, <2>1, <2>3, AppendFacts DEF TypeOK
  <2>7. TypeOK'
    BY <1>1, <2>1, <2>3, <2>5, <2>6, QuietStep DEF TypeOK, infoVars, envVars
  <2> QED  BY <2>5, <2>7, QuietStep DEF IInv
<1> QED  BY <1>2, <1>3

LEMMA EnqueueStep ==
  ASSUME IInv, Enqueue
  PROVE  IInv'
<1>1. TypeOK /\ Doing("out") /\ Arg \in Internal \cup World /\ Owner[Arg] \in Component
  <2>1. TypeOK /\ Doing("out")
    BY DEF IInv, Enqueue
  <2>2. Arg \in Internal \cup World
    BY <2>1, DoingFacts, FrameFacts
  <2> QED  BY <2>1, <2>2, CPumpAssumption
<1>2. <<"handle", Arg>> \in Calm /\ <<"prune">> \in Calm
  BY <1>1, MakeFrames
<1>3. /\ <<<<"handle", Arg>>, <<"prune">>>> \in Seq(Calm)
      /\ Elements(<<<<"handle", Arg>>, <<"prune">>>>) = {<<"handle", Arg>>, <<"prune">>}
      /\ <<<<"prune">>>> \in Seq(Calm) /\ Elements(<<<<"prune">>>>) = {<<"prune">>}
  <2>1. <<<<"prune">>>> \in Seq(Calm) /\ Elements(<<<<"prune">>>>) = {<<"prune">>}
    BY <1>2, FrameLists
  <2> QED  BY <1>2, <2>1, NextTwo
<1>4. UNCHANGED <<pumpVars, handling, active, state, awaiting, envVars, failed, undefined>>
  BY DEF Enqueue
<1>5. CASE Arg \in World /\ handling[Owner[Arg]] = 0
  <2>1. todo' = Do(<<<<"handle", Arg>>, <<"prune">>>>) /\ UNCHANGED <<queue, target>>
    BY <1>5 DEF Enqueue
  <2>2. Quiet("out", <<<<"handle", Arg>>, <<"prune">>>>)
    BY <1>1, <1>3, <1>4, <2>1, ClosesFacts DEF Quiet, pumpVars, envVars
  <2>3. TypeOK'
    BY <1>1, <1>4, <2>1, <2>2, QuietStep DEF TypeOK, pumpVars, envVars
  <2> QED  BY <2>2, <2>3, QuietStep DEF IInv
<1>6. CASE ~(Arg \in World /\ handling[Owner[Arg]] = 0)
  <2>1. /\ todo' = Do(<<<<"prune">>>>)
        /\ queue' = [queue EXCEPT ![Owner[Arg]] = Append(@, Arg)]
        /\ target' = IF Arg \in World THEN target ELSE [target EXCEPT ![Source[Arg]] = Owner[Arg]]
    BY <1>6 DEF Enqueue, dzn_queue_push
  <2>2. Quiet("out", <<<<"prune">>>>)
    BY <1>1, <1>3, <1>4, <2>1, ClosesFacts DEF Quiet, pumpVars, envVars
  <2>3. queue' \in [Component -> Seq(Internal \cup World)]
    <3>1. queue[Owner[Arg]] \in Seq(Internal \cup World)
      BY <1>1 DEF TypeOK
    <3>2. Append(queue[Owner[Arg]], Arg) \in Seq(Internal \cup World)
      BY <1>1, <3>1, AppendFacts
    <3> QED  BY <1>1, <2>1, <3>2 DEF TypeOK
  <2>4. target' \in [Component -> Component \cup {None}]
    BY <1>1, <2>1, CPumpAssumption DEF TypeOK
  <2>5. TypeOK'
    BY <1>1, <1>4, <2>2, <2>3, <2>4, QuietStep DEF TypeOK, pumpVars, envVars
  <2> QED  BY <2>2, <2>5, QuietStep DEF IInv
<1> QED  BY <1>5, <1>6

\* A queue that counts as not empty has an event, whatever the width of its size.
LEMMA QueueFacts ==
  ASSUME TypeOK, NEW c \in Component, ~dzn_queue_empty(c)
  PROVE  /\ queue[c] \in Seq(Internal \cup World) /\ queue[c] # << >>
         /\ Head(queue[c]) \in Internal \cup World /\ Tail(queue[c]) \in Seq(Internal \cup World)
<1>1. queue[c] \in Seq(Internal \cup World)
  BY DEF TypeOK
<1>2. 0 % SizeMod = 0
  BY CPumpAssumption
<1>3. queue[c] # << >>
  <2> SUFFICES ASSUME queue[c] = << >> PROVE FALSE
    OBVIOUS
  <2>1. Len(queue[c]) = 0
    OBVIOUS
  <2> QED  BY <1>2, <2>1 DEF dzn_queue_empty
<1> QED  BY <1>1, <1>3, TailFacts

LEMMA FlushEventStep ==
  ASSUME IInv, FlushEvent
  PROVE  IInv'
<1>1. TypeOK /\ Doing("flush") /\ Arg \in Component /\ ~dzn_queue_empty(Arg)
  BY DoingFacts, FrameFacts DEF IInv, FlushEvent
<1>2. Head(queue[Arg]) \in Internal \cup World /\ Tail(queue[Arg]) \in Seq(Internal \cup World)
  BY <1>1, QueueFacts
<1>3. PICK e \in Internal \cup World : e = Head(queue[Arg])
  BY <1>2
<1>4. <<"handle", e>> \in Calm /\ <<"flush", Arg>> \in Calm
  BY <1>1, MakeFrames
<1>5. /\ <<<<"handle", e>>, <<"flush", Arg>>>> \in Seq(Calm)
      /\ Elements(<<<<"handle", e>>, <<"flush", Arg>>>>) = {<<"handle", e>>, <<"flush", Arg>>}
  BY <1>4, NextTwo
<1>6. /\ todo' = Do(<<<<"handle", e>>, <<"flush", Arg>>>>)
      /\ queue' = [queue EXCEPT ![Arg] = Tail(queue[Arg])]
      /\ UNCHANGED <<pumpVars, handling, target, active, state, awaiting, envVars, failed, undefined>>
  BY <1>3 DEF FlushEvent, dzn_queue_pop
<1>7. Quiet("flush", <<<<"handle", e>>, <<"flush", Arg>>>>)
  BY <1>1, <1>5, <1>6, ClosesFacts DEF Quiet, pumpVars, envVars
<1>8. queue' \in [Component -> Seq(Internal \cup World)]
  BY <1>1, <1>2, <1>6 DEF TypeOK
<1>9. TypeOK'
  BY <1>1, <1>6, <1>7, <1>8, QuietStep DEF TypeOK, pumpVars, envVars
<1> QED  BY <1>7, <1>9, QuietStep DEF IInv

LEMMA FlushTargetStep ==
  ASSUME IInv, FlushTarget
  PROVE  IInv'
<1>1. TypeOK /\ Doing("flush") /\ Arg \in Component
  BY DoingFacts, FrameFacts DEF IInv, FlushTarget
<1>2. PICK fs : fs = IF target[Arg] = None THEN << >> ELSE FlushNext(Arg)
  OBVIOUS
<1>3. fs \in Seq(Calm) /\ \A p \in Port : <<"unblock", p>> \notin Elements(fs)
  <2>1. << >> \in Seq(Calm) /\ Elements(<< >>) = {}
    BY FrameLists
  <2>2. CASE fs = << >>
    BY <2>1, <2>2
  <2>3. CASE fs # << >>
    <3>1. fs = <<<<"flush", target[Arg]>>>> /\ target[Arg] \in Component
      BY <1>1, <1>2, <2>3 DEF FlushNext, TypeOK
    <3>2. <<"flush", target[Arg]>> \in Calm /\ \A p \in Port : <<"flush", target[Arg]>> # <<"unblock", p>>
      BY <3>1, MakeFrames
    <3> QED  BY <3>1, <3>2, NextFrames
  <2> QED  BY <2>2, <2>3
<1>4. /\ todo' = Do(fs) /\ target' = [target EXCEPT ![Arg] = None]
      /\ UNCHANGED <<pumpVars, handling, queue, active, state, awaiting, envVars, failed, undefined>>
  BY <1>2 DEF FlushTarget
<1>5. Quiet("flush", fs)
  BY <1>1, <1>3, <1>4, ClosesFacts DEF Quiet, pumpVars, envVars
<1>6. TypeOK'
  BY <1>1, <1>4, <1>5, QuietStep DEF TypeOK, pumpVars, envVars
<1> QED  BY <1>5, <1>6, QuietStep DEF IInv

LEMMA FallThroughStep ==
  ASSUME IInv, FallThrough
  PROVE  IInv'
<1>1. TypeOK /\ Doing("pump_block") /\ Arg \in Port
  BY DoingFacts, FrameFacts DEF IInv, FallThrough
<1>2. PICK i : i = Head(OfPort(released, Arg))
  OBVIOUS
<1>3. /\ released' = dzn_list_delete(released, i) /\ Free({i}) /\ todo' = Do(<< >>)
      /\ UNCHANGED <<q, blocked, collateral, deferred, entry, infoVars, active, state, awaiting,
                     envVars, failed>>
  BY <1>2 DEF FallThrough
<1>4. i \in Elements(released) /\ released \in Seq(DOMAIN entry) /\ i \in DOMAIN entry
  <2>1. released \in Seq(DOMAIN entry) /\ OfPort(released, Arg) # << >>
    BY <1>1 DEF TypeOK, FallThrough
  <2>2. i \in BlockedOn(released, entry, Arg)
    BY <1>1, <1>2, <2>1, OfPortFacts
  <2>3. i \in Elements(released)
    BY <2>2 DEF BlockedOn
  <2> QED  BY <2>1, <2>3, EmptyFacts
<1>5. released' \in Seq(DOMAIN entry)
  BY <1>3, <1>4, DeleteFacts
<1>6. Quiet("pump_block", << >>)
  BY <1>1, <1>3, FrameLists, ClosesFacts DEF Quiet, infoVars, envVars
<1>7. TypeOK'
  BY <1>1, <1>3, <1>4, <1>5, <1>6, QuietStep DEF TypeOK, infoVars, envVars, Free
<1> QED  BY <1>6, <1>7, QuietStep DEF IInv

\* A call that blocks makes one entry, and deletes one when it goes on.
LEMMA PumpBlockStep ==
  ASSUME IInv, PumpBlock
  PROVE  IInv'
<1>1. TypeOK /\ Doing("pump_block") /\ Arg \in Port
  BY DoingFacts, FrameFacts DEF IInv, PumpBlock
<1>2. WorkerInv /\ MainInv /\ HandlingInv /\ BlockedInv
  BY DEF IInv
<1> DEFINE fs == <<<<"unblock", Arg>>>>
<1>3. /\ port_coroutine_create(Arg, active) /\ blocked' = Append(blocked, New)
      /\ todo' = Do(fs) /\ active' = Main
      /\ UNCHANGED <<q, released, collateral, deferred, freed, infoVars, state, awaiting, envVars,
                     failed, undefined>>
  BY DEF PumpBlock, dzn_list_append, dzn_coroutine_yield_to
<1>4. /\ entry' \in Seq([port : Port, coroutine : DOMAIN todo', id : {-1, 1}])
      /\ DOMAIN entry \subseteq DOMAIN entry' /\ New \in DOMAIN entry' /\ New \notin DOMAIN entry
      /\ Seq(DOMAIN entry) \subseteq Seq(DOMAIN entry')
      /\ \A i \in 1..Len(entry) : entry'[i] = entry[i]
      /\ entry'[New].port = Arg
  BY <1>1, <1>3, CreateFacts, DoDomain
<1>5. <<"unblock", Arg>> \in Calm
  BY <1>1, MakeFrames
<1>6. fs \in Seq(Calm) /\ Elements(fs) = {<<"unblock", Arg>>} /\ fs \in Seq(Frames)
  BY <1>5, FrameLists, MakeFrames, Wider
<1> HIDE DEF fs
<1>7. /\ todo' \in Seq(Seq(Frames)) /\ DOMAIN todo' = DOMAIN todo /\ active' \in DOMAIN todo'
      /\ q' \in Seq(Seq(Frames)) /\ WorkerInv' /\ MainInv'
  BY <1>1, <1>2, <1>3, <1>6, CalmStep DEF envVars
<1>8. HandlingInv'
  <2>1. todo[active] # << >>
    BY <1>1 DEF Doing
  <2>2. \A c \in Component : handling'[c] # 0 => handling[c] # 0 /\ ~Closes(Head(todo[active]), c)
    BY <1>1, <1>3, ClosesFacts DEF infoVars
  <2> QED  BY <1>1, <1>2, <1>3, <1>6, <2>1, <2>2, HandlingStep
<1>9. blocked \in Seq(DOMAIN entry) /\ Elements(blocked) \subseteq DOMAIN entry
  BY <1>1, EmptyFacts DEF TypeOK
<1>10. /\ blocked' \in Seq(DOMAIN entry') /\ Elements(blocked') = Elements(blocked) \cup {New}
       /\ Distinct(blocked')
  <2>1. blocked \in Seq(DOMAIN entry') /\ New \notin Elements(blocked) /\ Distinct(blocked)
    BY <1>2, <1>4, <1>9 DEF BlockedInv
  <2> QED  BY <1>3, <1>4, <2>1, AppendFacts
<1>11. BlockedInv'
  <2>1. \A p \in Port \ {Arg} : BlockedOn(blocked', entry', p) = BlockedOn(blocked, entry, p)
    BY <1>1, <1>4, <1>9, <1>10, Domains DEF BlockedOn
  <2>2. /\ BlockedOn(blocked', entry', Arg) = BlockedOn(blocked, entry, Arg) \cup {New}
        /\ New \notin BlockedOn(blocked, entry, Arg)
    BY <1>1, <1>4, <1>9, <1>10, Domains DEF BlockedOn
  <2>3. todo[active] # << >> /\ \A p \in Port : Head(todo[active]) # <<"unblock", p>>
    BY <1>1 DEF Doing
  <2>4. ASSUME NEW p \in Port \ {Arg}
        PROVE  Unblocks(todo', p) = Unblocks(todo, p)
    <3>1. <<"unblock", p>> \notin Elements(fs)
      BY <1>6
    <3> QED  BY <1>1, <1>3, <1>6, <2>3, <3>1, UnblocksSteps
  <2>5. PICK x : x \notin Unblocks(todo, Arg) /\ Unblocks(todo', Arg) = Unblocks(todo, Arg) \cup {x}
    BY <1>1, <1>3, <1>6, <2>3, UnblocksSteps DEF fs
  <2>6. ASSUME NEW p \in Port
        PROVE  /\ IsFiniteSet(Unblocks(todo', p)) /\ IsFiniteSet(BlockedOn(blocked', entry', p))
               /\ Cardinality(Unblocks(todo', p)) = Cardinality(BlockedOn(blocked', entry', p))
    <3>1. /\ IsFiniteSet(Unblocks(todo, p)) /\ IsFiniteSet(BlockedOn(blocked, entry, p))
          /\ Cardinality(Unblocks(todo, p)) = Cardinality(BlockedOn(blocked, entry, p))
      BY <1>2 DEF BlockedInv
    <3>2. CASE p = Arg
      <4>1. /\ IsFiniteSet(Unblocks(todo, Arg)) /\ IsFiniteSet(BlockedOn(blocked, entry, Arg))
            /\ Cardinality(Unblocks(todo, Arg)) = Cardinality(BlockedOn(blocked, entry, Arg))
        BY <3>1, <3>2
      <4>2. /\ IsFiniteSet(Unblocks(todo, Arg) \cup {x})
            /\ Cardinality(Unblocks(todo, Arg) \cup {x}) = Cardinality(Unblocks(todo, Arg)) + 1
        BY <2>5, <4>1, FS_AddElement
      <4>3. /\ IsFiniteSet(BlockedOn(blocked, entry, Arg) \cup {New})
            /\ Cardinality(BlockedOn(blocked, entry, Arg) \cup {New}) =
                 Cardinality(BlockedOn(blocked, entry, Arg)) + 1
        BY <2>2, <4>1, FS_AddElement
      <4> QED  BY <2>5, <2>2, <3>2, <4>1, <4>2, <4>3
    <3>3. CASE p # Arg
      BY <2>1, <2>4, <3>1, <3>3
    <3> QED  BY <3>2, <3>3
  <2> QED  BY <1>10, <2>6 DEF BlockedInv
<1>12. TypeOK'
  BY <1>1, <1>3, <1>4, <1>7, <1>10 DEF TypeOK, infoVars, envVars
<1> QED  BY <1>7, <1>8, <1>11, <1>12 DEF IInv

LEMMA UnblockStep ==
  ASSUME IInv, Unblock
  PROVE  IInv'
<1>1. TypeOK /\ Doing("unblock") /\ Arg \in Port /\ Head(todo[active]) = <<"unblock", Arg>>
  <2>1. TypeOK /\ Doing("unblock")
    BY DEF IInv, Unblock
  <2>2. /\ Head(todo[active]) \in Frames /\ Head(todo[active])[1] = "unblock"
        /\ Arg = Head(todo[active])[2]
    BY <2>1, DoingFacts
  <2> QED  BY <2>1, <2>2, FrameFacts
<1>2. WorkerInv /\ MainInv /\ HandlingInv /\ BlockedInv
  BY DEF IInv
<1>3. /\ todo' = Do(<< >>)
      /\ UNCHANGED <<q, released, collateral, deferred, entry, infoVars, active, state, awaiting,
                     envVars, failed>>
  BY DEF Unblock
<1>4. << >> \in Seq(Calm) /\ << >> \in Seq(Frames) /\ Elements(<< >>) = {}
  BY FrameLists
<1>5. /\ todo' \in Seq(Seq(Frames)) /\ DOMAIN todo' = DOMAIN todo /\ active' \in DOMAIN todo'
      /\ q' \in Seq(Seq(Frames)) /\ WorkerInv' /\ MainInv'
  BY <1>1, <1>2, <1>3, <1>4, CalmStep DEF envVars
<1>6. todo[active] # << >>
  BY <1>1 DEF Doing
<1>7. HandlingInv'
  <2>1. \A c \in Component : handling'[c] # 0 => handling[c] # 0 /\ ~Closes(Head(todo[active]), c)
    BY <1>1, <1>3, ClosesFacts DEF infoVars
  <2> QED  BY <1>1, <1>2, <1>3, <1>4, <1>6, <2>1, HandlingStep
<1>8. PICK x \in Unblocks(todo, Arg) : Unblocks(todo', Arg) = Unblocks(todo, Arg) \ {x}
  BY <1>1, <1>3, <1>4, <1>6, UnblocksSteps
<1>9. ASSUME NEW p \in Port \ {Arg}
      PROVE  Unblocks(todo', p) = Unblocks(todo, p)
  <2>1. Head(todo[active]) # <<"unblock", p>>
    BY <1>1
  <2> QED  BY <1>1, <1>3, <1>4, <1>6, <2>1, UnblocksSteps
<1>10. blocked \in Seq(DOMAIN entry) /\ Elements(blocked) \subseteq DOMAIN entry /\ Distinct(blocked)
  BY <1>1, <1>2, EmptyFacts DEF TypeOK, BlockedInv
\* There is an entry to delete.
<1>11. OfPort(blocked, Arg) # << >>
  <2> SUFFICES ASSUME OfPort(blocked, Arg) = << >> PROVE FALSE
    OBVIOUS
  <2>1. BlockedOn(blocked, entry, Arg) = {}
    BY <1>1, <1>10, OfPortFacts
  <2>2. IsFiniteSet(Unblocks(todo, Arg)) /\ Cardinality(Unblocks(todo, Arg)) = Cardinality({})
    BY <1>1, <1>2, <2>1 DEF BlockedInv
  <2>3. Unblocks(todo, Arg) = {}
    BY <2>2, FS_EmptySet
  <2> QED  BY <1>8, <2>3
<1>12. PICK i : i = Head(OfPort(blocked, Arg))
  OBVIOUS
<1>13. blocked' = dzn_list_delete(blocked, i) /\ Free({i})
  BY <1>11, <1>12 DEF Unblock
<1>14. i \in BlockedOn(blocked, entry, Arg) /\ i \in Elements(blocked)
  <2>1. i \in BlockedOn(blocked, entry, Arg)
    BY <1>1, <1>10, <1>11, <1>12, OfPortFacts
  <2> QED  BY <2>1 DEF BlockedOn
<1>15. /\ blocked' \in Seq(DOMAIN entry) /\ Distinct(blocked')
       /\ Elements(blocked') = Elements(blocked) \ {i}
  BY <1>10, <1>13, <1>14, DeleteFacts
<1>16. BlockedInv'
  <2>1. \A p \in Port \ {Arg} : BlockedOn(blocked', entry', p) = BlockedOn(blocked, entry, p)
    BY <1>3, <1>14, <1>15 DEF BlockedOn
  <2>2. BlockedOn(blocked', entry', Arg) = BlockedOn(blocked, entry, Arg) \ {i}
    BY <1>3, <1>15 DEF BlockedOn
  <2>3. ASSUME NEW p \in Port
        PROVE  /\ IsFiniteSet(Unblocks(todo', p)) /\ IsFiniteSet(BlockedOn(blocked', entry', p))
               /\ Cardinality(Unblocks(todo', p)) = Cardinality(BlockedOn(blocked', entry', p))
    <3>1. /\ IsFiniteSet(Unblocks(todo, p)) /\ IsFiniteSet(BlockedOn(blocked, entry, p))
          /\ Cardinality(Unblocks(todo, p)) = Cardinality(BlockedOn(blocked, entry, p))
      BY <1>2 DEF BlockedInv
    <3>2. CASE p = Arg
      <4>1. /\ IsFiniteSet(Unblocks(todo, Arg)) /\ IsFiniteSet(BlockedOn(blocked, entry, Arg))
            /\ Cardinality(Unblocks(todo, Arg)) = Cardinality(BlockedOn(blocked, entry, Arg))
        BY <3>1, <3>2
      <4>2. /\ IsFiniteSet(Unblocks(todo, Arg) \ {x})
            /\ Cardinality(Unblocks(todo, Arg) \ {x}) = Cardinality(Unblocks(todo, Arg)) - 1
        BY <1>8, <4>1, FS_RemoveElement
      <4>3. /\ IsFiniteSet(BlockedOn(blocked, entry, Arg) \ {i})
            /\ Cardinality(BlockedOn(blocked, entry, Arg) \ {i}) =
                 Cardinality(BlockedOn(blocked, entry, Arg)) - 1
        BY <1>14, <4>1, FS_RemoveElement
      <4> QED  BY <1>8, <2>2, <3>2, <4>1, <4>2, <4>3
    <3>3. CASE p # Arg
      BY <1>9, <2>1, <3>1, <3>3
    <3> QED  BY <3>2, <3>3
  <2> QED  BY <1>15, <2>3 DEF BlockedInv
<1>17. TypeOK'
  BY <1>1, <1>3, <1>5, <1>10, <1>13, <1>14, <1>15 DEF TypeOK, infoVars, envVars, Free
<1> QED  BY <1>5, <1>7, <1>16, <1>17 DEF IInv

LEMMA ReleaseStep ==
  ASSUME IInv, Release
  PROVE  IInv'
<1>1. TypeOK /\ Doing("reply") /\ Arg \in Port
  BY DoingFacts, FrameFacts DEF IInv, Release
<1>2. /\ todo' = Do(<< >>)
      /\ UNCHANGED <<q, blocked, collateral, deferred, freed, infoVars, active, state, envVars,
                     failed, undefined>>
  BY DEF Release
<1>3. /\ entry' \in Seq([port : Port, coroutine : DOMAIN todo', id : {-1, 1}])
      /\ \A i \in 1..Len(entry) : entry'[i] = entry[i]
      /\ {blocked, released', collateral} \subseteq Seq(DOMAIN entry') /\ freed \subseteq DOMAIN entry'
      /\ awaiting' \subseteq Port
  <2>1. /\ {blocked, released, collateral} \subseteq Seq(DOMAIN entry) /\ freed \subseteq DOMAIN entry
        /\ entry \in Seq([port : Port, coroutine : DOMAIN todo, id : {-1, 1}])
        /\ DOMAIN todo' = DOMAIN todo /\ awaiting \subseteq Port
    BY <1>1, <1>2, DoDomain DEF TypeOK
  <2>2. CASE Arg \notin awaiting
    BY <2>1, <2>2 DEF Release
  <2>3. CASE Arg \in awaiting /\ OfPort(blocked, Arg) # << >>
    <3>1. /\ released' = Append(released, Head(OfPort(blocked, Arg))) /\ entry' = entry
          /\ awaiting' = awaiting \ {Arg}
      BY <2>3 DEF Release, dzn_pump_release, dzn_list_append
    <3>2. Head(OfPort(blocked, Arg)) \in DOMAIN entry
      <4>1. OfPort(blocked, Arg) \in Seq(DOMAIN entry)
        BY <1>1, <2>1, OfPortFacts
      <4> QED  BY <2>3, <4>1, TailFacts
    <3>3. released' \in Seq(DOMAIN entry)
      BY <2>1, <3>1, <3>2, AppendFacts
    <3> QED  BY <2>1, <3>1, <3>3
  <2>4. CASE Arg \in awaiting /\ OfPort(blocked, Arg) = << >>
    <3>1. /\ released' = Append(released, New) /\ port_coroutine_create(Arg, active)
          /\ awaiting' = awaiting \ {Arg}
      BY <2>4 DEF Release, dzn_pump_release, dzn_list_append
    <3>2. /\ entry' \in Seq([port : Port, coroutine : DOMAIN todo', id : {-1, 1}])
          /\ DOMAIN entry \subseteq DOMAIN entry' /\ New \in DOMAIN entry'
          /\ Seq(DOMAIN entry) \subseteq Seq(DOMAIN entry')
          /\ \A i \in 1..Len(entry) : entry'[i] = entry[i]
      BY <1>1, <2>1, <3>1, CreateFacts
    <3>3. released' \in Seq(DOMAIN entry')
      BY <2>1, <3>1, <3>2, AppendFacts
    <3> QED  BY <2>1, <3>1, <3>2, <3>3
  <2> QED  BY <2>2, <2>3, <2>4
<1>4. Quiet("reply", << >>)
  BY <1>1, <1>2, <1>3, FrameLists, ClosesFacts DEF Quiet, infoVars, envVars
<1>5. TypeOK'
  BY <1>1, <1>2, <1>3, <1>4, QuietStep DEF TypeOK, infoVars, envVars
<1> QED  BY <1>4, <1>5, QuietStep DEF IInv

\* The records of deferred statements.
DeferredRecords == [statement : Statement, state : {0, 1}, freed : BOOLEAN]

LEMMA DeferStep ==
  ASSUME IInv, Defer
  PROVE  IInv'
<1>1. TypeOK /\ Doing("defer") /\ Arg \in Statement
  BY DoingFacts, FrameFacts DEF IInv, Defer
<1>2. /\ deferred' = Append(deferred, deferred_create(Arg)) /\ todo' = Do(<< >>)
      /\ undefined' = (undefined \/ \E i \in DOMAIN deferred : deferred[i].freed)
      /\ UNCHANGED <<q, blocked, released, collateral, entry, freed, infoVars, active, state,
                     awaiting, envVars, failed>>
  BY DEF Defer, dzn_list_append
<1>3. deferred' \in Seq(DeferredRecords)
  <2>1. state[Owner[Arg]] \in {0, 1}
    BY <1>1, CPumpAssumption DEF TypeOK
  <2>2. deferred_create(Arg) \in DeferredRecords
    BY <1>1, <2>1 DEF deferred_create, DeferredRecords
  <2>3. deferred \in Seq(DeferredRecords)
    BY <1>1 DEF TypeOK, DeferredRecords
  <2> QED  BY <1>2, <2>2, <2>3, AppendFacts
<1>4. Quiet("defer", << >>)
  BY <1>1, <1>2, FrameLists, ClosesFacts DEF Quiet, infoVars, envVars
<1>5. undefined' \in BOOLEAN
  BY <1>1, <1>2, Zenon DEF TypeOK
<1>6. TypeOK'
  BY <1>1, <1>2, <1>3, <1>4, <1>5, QuietStep DEF TypeOK, infoVars, envVars, DeferredRecords
<1> QED  BY <1>4, <1>6, QuietStep DEF IInv

LEMMA PruneStep ==
  ASSUME IInv, Prune
  PROVE  IInv'
<1>1. TypeOK /\ Doing("prune")
  BY DEF IInv, Prune
<1> DEFINE kept == {i \in DOMAIN deferred : Predicate(deferred[i])}
           first == IF kept = {} THEN Len(deferred) + 1
                    ELSE CHOOSE i \in kept : \A j \in kept : i <= j
           rest == SubSeq(deferred, first, Len(deferred))
           gone(i) == i \in 2..Len(rest) /\ ~Predicate(rest[i])
<1>2. /\ deferred' = [i \in DOMAIN rest |->
                        [rest[i] EXCEPT !.freed = @ \/ gone(i) \/ gone(i + 1)]]
      /\ undefined' = (undefined \/ \E i \in DOMAIN deferred : deferred[i].freed)
      /\ todo' = Do(<< >>)
      /\ UNCHANGED <<q, blocked, released, collateral, entry, freed, infoVars, active, state,
                     awaiting, envVars, failed>>
  BY DEF Prune
<1>3. deferred \in Seq(DeferredRecords) /\ Len(deferred) \in Nat /\ DOMAIN deferred = 1..Len(deferred)
  BY <1>1 DEF TypeOK, DeferredRecords
<1>4. first \in 1..Len(deferred) + 1
  <2>1. kept \subseteq 1..Len(deferred)
    BY <1>3
  <2>2. CASE kept = {}
    BY <1>3, <2>2
  <2>3. CASE kept # {}
    <3> HIDE DEF kept
    <3>1. kept \in SUBSET Nat
      BY <1>3, <2>1
    <3>2. PICK i \in kept : \A j \in kept : ~(j < i)
      BY <2>3, <3>1, LeastNatural
    <3>3. \A j \in kept : i <= j
      BY <3>1, <3>2
    <3>4. first \in kept
      BY <2>3, <3>3
    <3>5. 1..Len(deferred) \subseteq 1..Len(deferred) + 1
      BY <1>3
    <3> HIDE DEF first
    <3> QED  BY <2>1, <3>4, <3>5
  <2> QED  BY <2>2, <2>3
<1> HIDE DEF first
<1>5. rest \in Seq(DeferredRecords)
  BY <1>3, <1>4
<1> HIDE DEF rest, gone
<1>6. deferred' \in Seq(DeferredRecords)
  <2>1. ASSUME NEW d \in DeferredRecords, NEW b \in BOOLEAN
        PROVE  [d EXCEPT !.freed = b] \in DeferredRecords
    BY DEF DeferredRecords
  <2>2. Len(rest) \in Nat /\ DOMAIN rest = 1..Len(rest)
    BY <1>5
  <2>3. ASSUME NEW i \in DOMAIN rest
        PROVE  [rest[i] EXCEPT !.freed = @ \/ gone(i) \/ gone(i + 1)] \in DeferredRecords
    <3>1. rest[i] \in DeferredRecords
      BY <1>5
    <3>2. (rest[i].freed \/ gone(i) \/ gone(i + 1)) \in BOOLEAN
      BY Zenon
    <3> QED  BY <2>1, <3>1, <3>2
  <2>4. deferred' \in [1..Len(rest) -> DeferredRecords]
    BY <1>2, <2>2, <2>3
  <2> QED  BY <2>2, <2>4
<1>7. Quiet("prune", << >>)
  BY <1>1, <1>2, FrameLists, ClosesFacts DEF Quiet, infoVars, envVars
<1>8. undefined' \in BOOLEAN
  BY <1>1, <1>2, Zenon DEF TypeOK
<1>9. TypeOK'
  BY <1>1, <1>2, <1>6, <1>7, <1>8, QuietStep DEF TypeOK, infoVars, envVars, DeferredRecords
<1> QED  BY <1>7, <1>9, QuietStep DEF IInv

LEMMA RunStatementStep ==
  ASSUME IInv, RunStatement
  PROVE  IInv'
<1>1. TypeOK /\ Doing("run_defer")
  BY DEF IInv, RunStatement
<1>2. UNCHANGED <<q, blocked, released, collateral, entry, freed, queue, target, active, state,
                  awaiting, envVars, failed>>
  BY DEF RunStatement
<1>3. deferred \in Seq(DeferredRecords)
  BY <1>1 DEF TypeOK, DeferredRecords
<1>4. CASE deferred = << >>
  <2>1. todo' = Do(<< >>) /\ UNCHANGED <<deferred, handling, undefined>>
    BY <1>4 DEF RunStatement
  <2>2. Quiet("run_defer", << >>)
    BY <1>1, <1>2, <2>1, FrameLists, ClosesFacts DEF Quiet, envVars
  <2>3. TypeOK'
    BY <1>1, <1>2, <2>1, <2>2, QuietStep DEF TypeOK, envVars
  <2> QED  BY <2>2, <2>3, QuietStep DEF IInv
<1>5. CASE deferred # << >>
  <2>1. Head(deferred) \in DeferredRecords /\ Tail(deferred) \in Seq(DeferredRecords)
    BY <1>3, <1>5, TailFacts
  <2>2. PICK s \in Statement : s = Head(deferred).statement
    BY <2>1 DEF DeferredRecords
  <2>3. Owner[s] \in Component
    BY CPumpAssumption
  <2> DEFINE fs == Body[s] \o <<<<"finish", Owner[s]>>>>
  <2>4. /\ deferred' = Tail(deferred) /\ undefined' = (undefined \/ Head(deferred).freed)
        /\ handling' = [handling EXCEPT ![Owner[s]] = dzn_coroutine_id(active)]
        /\ todo' = Do(fs)
    BY <1>5, <2>2 DEF RunStatement
  <2>5. /\ <<"finish", Owner[s]>> \in Calm
        /\ \A p \in Port : <<"finish", Owner[s]>> # <<"unblock", p>>
    BY <2>3, MakeFrames
  <2>6. /\ fs \in Seq(Calm) /\ \A p \in Port : <<"unblock", p>> \notin Elements(fs)
        /\ \E f \in Elements(fs) : Closes(f, Owner[s])
    BY <1>1, <2>5, NextFrames, HandlerFacts
  <2> HIDE DEF fs
  <2>7. \A c \in Component : handling'[c] # 0 => handling[c] # 0 \/ c = Owner[s]
    BY <1>1, <2>4 DEF TypeOK
  <2>8. Quiet("run_defer", fs)
    BY <1>1, <1>2, <2>4, <2>6, <2>7, ClosesFacts DEF Quiet, envVars
  <2>9. handling' \in [Component -> {-1, 0, 1}]
    BY <1>1, <2>3, <2>4 DEF TypeOK, dzn_coroutine_id
  <2>10. undefined' \in BOOLEAN
    BY <1>1, <2>4, Zenon DEF TypeOK
  <2>11. TypeOK'
    BY <1>1, <1>2, <2>1, <2>4, <2>8, <2>9, <2>10, QuietStep DEF TypeOK, envVars, DeferredRecords
  <2> QED  BY <2>8, <2>11, QuietStep DEF IInv
<1> QED  BY <1>4, <1>5

LEMMA FlushDeferStep ==
  ASSUME IInv, FlushDefer
  PROVE  IInv'
<1>1. TypeOK /\ Doing("flush_defer")
  BY DEF IInv, FlushDefer
<1>2. PICK fs : fs = IF deferred = << >> THEN << >>
                     ELSE <<<<"prune">>, <<"run_defer">>, <<"flush_defer">>>>
  OBVIOUS
<1>3. fs \in Seq(Calm) /\ \A p \in Port : <<"unblock", p>> \notin Elements(fs)
  <2>1. << >> \in Seq(Calm) /\ Elements(<< >>) = {}
    BY FrameLists
  <2>2. /\ <<<<"prune">>, <<"run_defer">>, <<"flush_defer">>>> \in Seq(Calm)
        /\ Elements(<<<<"prune">>, <<"run_defer">>, <<"flush_defer">>>>) =
             {<<"prune">>, <<"run_defer">>, <<"flush_defer">>}
    BY MakeFrames, NextThree
  <2> QED  BY <1>2, <2>1, <2>2
<1>4. /\ todo' = Do(fs)
      /\ UNCHANGED <<pumpVars, infoVars, active, state, awaiting, envVars, failed, undefined>>
  BY <1>2 DEF FlushDefer
<1>5. Quiet("flush_defer", fs)
  BY <1>1, <1>3, <1>4, ClosesFacts DEF Quiet, pumpVars, infoVars, envVars
<1>6. TypeOK'
  BY <1>1, <1>4, <1>5, QuietStep DEF TypeOK, pumpVars, infoVars, envVars
<1> QED  BY <1>5, <1>6, QuietStep DEF IInv

-------------------------------------------------------------------------------
(***************************************************************************)
(* The steps of Main, and of a worker that begins or ends.                 *)
(***************************************************************************)

\* A worker takes the event that was put in q for it.
LEMMA WorkerStep ==
  ASSUME IInv, Worker
  PROVE  IInv'
<1>1. TypeOK /\ WorkerInv /\ MainInv /\ HandlingInv /\ BlockedInv
  BY DEF IInv
<1>2. /\ q' = Tail(q) /\ todo' = Do(Head(q) \o <<<<"process">>>>)
      /\ UNCHANGED <<blocked, released, collateral, deferred, entry, freed, infoVars, active,
                     state, awaiting, envVars, failed, undefined>>
  BY DEF Worker
<1>3. /\ todo[active] \in Seq(Frames) /\ todo[active] # << >>
      /\ Head(todo[active]) = <<"worker">> /\ Tail(todo[active]) \in Seq(Frames)
      /\ todo \in Seq(Seq(Frames)) /\ active \in 1..Len(todo) /\ DOMAIN todo = 1..Len(todo)
      /\ Main \in 1..Len(todo)
  <2>1. TypeOK /\ Doing("worker")
    BY <1>1 DEF Worker
  <2>2. /\ Head(todo[active]) \in Frames /\ Head(todo[active])[1] = "worker"
    BY <2>1, DoingFacts
  <2>3. Head(todo[active]) = <<"worker">>
    BY <2>2, FrameFacts
  <2> QED  BY <2>1, <2>3, DoingFacts, Domains DEF TypeOK, Main
<1>4. todo[active] = <<<<"worker">>>> /\ active # Main
  <2>1. todo[active] \notin Seq(Plain)
    <3> SUFFICES ASSUME todo[active] \in Seq(Plain) PROVE FALSE
      OBVIOUS
    <3>1. Head(todo[active]) \in Plain
      BY <1>3, TailFacts
    <3> QED  BY <1>3, <3>1 DEF Plain
  <2> QED  BY <1>1, <1>3, <2>1 DEF WorkerInv
<1>5. q \in Seq(Seq(Fresh)) /\ Len(q) = 1
  BY <1>1, <1>4 DEF WorkerInv
<1>6. Head(q) \in Seq(Fresh) /\ Tail(q) \in Seq(Seq(Fresh)) /\ Len(Tail(q)) = 0
  <2>1. q # << >>
    BY <1>5
  <2> QED  BY <1>5, <2>1, TailFacts
<1> DEFINE fs == Head(q) \o <<<<"process">>>>
<1>7. fs \in Seq(Plain) /\ \A p \in Port : <<"unblock", p>> \notin Elements(fs)
  <2>1. Fresh \subseteq Plain /\ <<"process">> \in Plain
    BY MakeFrames DEF Fresh
  <2>2. Head(q) \in Seq(Plain) /\ Elements(Head(q)) \subseteq Fresh
    BY <1>6, <2>1, Wider, EmptyFacts
  <2>3. <<<<"process">>>> \in Seq(Plain) /\ Elements(<<<<"process">>>>) = {<<"process">>}
    BY ProcessStack
  <2>4. fs \in Seq(Plain) /\ Elements(fs) = Elements(Head(q)) \cup {<<"process">>}
    <3>1. PICK u, v : u = Head(q) /\ v = <<<<"process">>>>
      OBVIOUS
    <3>2. u \in Seq(Plain) /\ v \in Seq(Plain)
      BY <2>2, <2>3, <3>1
    <3>3. u \o v \in Seq(Plain) /\ Elements(u \o v) = Elements(u) \cup Elements(v)
      BY <3>2, ConcatFacts
    <3> QED  BY <2>3, <3>1, <3>3
  <2> HIDE DEF fs
  <2> QED  BY <2>2, <2>4 DEF Fresh
<1>8. Tail(todo[active]) \in Seq(Plain)
  <2>1. Len(todo[active]) = 1
    BY <1>4
  <2>2. Tail(todo[active]) = << >>
    BY <1>3, <2>1, NoneOrOne
  <2> QED  BY <2>2, FrameLists
<1>9. todo' = Do(fs)
  BY <1>2
<1> HIDE DEF fs
<1>10. /\ todo' \in Seq(Seq(Frames)) /\ Len(todo') = Len(todo) /\ todo'[active] \in Seq(Plain)
       /\ \A k \in 1..Len(todo) : k # active => todo'[k] = todo[k]
  BY <1>3, <1>7, <1>8, <1>9, DoFacts, MakeFrames
<1>11. WorkerInv'
  <2>1. \A k \in 1..Len(todo) : todo'[k] \in Seq(Plain)
    BY <1>1, <1>10 DEF WorkerInv
  <2>2. todo'[active] # <<<<"worker">>>>
    BY <1>10, NotPlain
  <2> QED  BY <1>2, <1>6, <1>10, <2>1, <2>2 DEF WorkerInv
<1>12. MainInv'
  BY <1>1, <1>2, <1>3, <1>4, <1>10 DEF MainInv, envVars
<1>13. HandlingInv'
  <2>1. \A c \in Component : ~Closes(Head(todo[active]), c)
    BY <1>3 DEF Closes
  <2>2. fs \in Seq(Frames)
    BY <1>7, Wider, MakeFrames
  <2>3. \A c \in Component : handling'[c] # 0 => handling[c] # 0 /\ ~Closes(Head(todo[active]), c)
    BY <1>2, <2>1 DEF infoVars
  <2> QED  BY <1>1, <1>3, <1>9, <2>2, <2>3, HandlingStep
<1>14. BlockedInv'
  <2>1. fs \in Seq(Frames)
    BY <1>7, Wider, MakeFrames
  <2>2. \A p \in Port : Head(todo[active]) # <<"unblock", p>>
    BY <1>3
  <2> QED  BY <1>1, <1>2, <1>3, <1>7, <1>9, <2>1, <2>2, BlockedStep
<1>15. TypeOK'
  <2>1. Fresh \subseteq Frames
    BY DEF Fresh, Calm, Plain
  <2>2. q' \in Seq(Seq(Frames))
    <3>1. q' = << >>
      BY <1>2, <1>6, NoneOrOne
    <3> QED  BY <3>1, FrameLists
  <2>3. DOMAIN todo' = DOMAIN todo
    BY <1>9, DoDomain
  <2> QED  BY <1>1, <1>2, <1>10, <2>2, <2>3 DEF TypeOK, infoVars, envVars
<1> QED  BY <1>11, <1>12, <1>13, <1>14, <1>15 DEF IInv

\* Main or a worker with nothing left but process: then Main is about to process too.
LEMMA ProcessFacts ==
  ASSUME IInv, Doing("process")
  PROVE  /\ ~ended /\ todo[Main] = <<<<"process">>>> /\ Len(q) = 0 /\ q \in Seq(Seq(Fresh))
         /\ \A k \in 1..Len(todo) : todo[k] \in Seq(Plain) /\ todo[k] # <<<<"worker">>>>
         /\ Head(todo[active]) = <<"process">> /\ todo[active] # << >>
<1>1. TypeOK /\ WorkerInv /\ MainInv
  BY DEF IInv
<1>2. /\ Head(todo[active]) \in Frames /\ Head(todo[active])[1] = "process"
      /\ todo[active] # << >> /\ active \in 1..Len(todo) /\ Main \in 1..Len(todo)
  BY <1>1, DoingFacts, Domains DEF Main
<1>3. Head(todo[active]) = <<"process">>
  BY <1>2, FrameFacts
<1>4. todo[active] # <<<<"worker">>>>
  BY <1>3
<1>5. \A k \in 1..Len(todo) : todo[k] \in Seq(Plain)
  BY <1>1, <1>2, <1>4 DEF WorkerInv
<1>6. \A k \in 1..Len(todo) : todo[k] # <<<<"worker">>>>
  BY <1>5, NotPlain
<1>7. Len(q) = 0 /\ q \in Seq(Seq(Fresh))
  BY <1>1, <1>4 DEF WorkerInv
<1>8. ~ended
  <2> SUFFICES ASSUME ended PROVE FALSE
    OBVIOUS
  <2>1. todo[active] \in Seq(Calm)
    BY <1>1 DEF MainInv
  <2>2. Head(todo[active]) \in Calm
    BY <1>2, <2>1, TailFacts
  <2> QED  BY <1>3, <2>2 DEF Calm
<1>9. todo[Main] = <<<<"process">>>>
  BY <1>1, <1>2, <1>8 DEF MainInv
<1> QED  BY <1>2, <1>3, <1>5, <1>6, <1>7, <1>8, <1>9

LEMMA ProcessReleasedStep ==
  ASSUME IInv, ProcessReleased
  PROVE  IInv'
<1>1. TypeOK /\ WorkerInv /\ MainInv /\ HandlingInv /\ BlockedInv /\ Doing("process")
  BY DEF IInv, ProcessReleased
<1>2. PICK i, more : i = Head(released) /\ more = AlsoReleased(entry[i].port)
  OBVIOUS
<1>3. /\ Free({i}) /\ released' = Tail(released) \o more
      /\ collateral' = Keep(collateral, Elements(collateral) \ Elements(more))
      /\ active' = entry[i].coroutine
      /\ UNCHANGED <<q, blocked, deferred, entry, infoVars, todo, state, awaiting, envVars, failed>>
  BY <1>2 DEF ProcessReleased, dzn_coroutine_yield_to
<1>4. {released, collateral} \subseteq Seq(DOMAIN entry) /\ released # << >>
  BY <1>1 DEF TypeOK, ProcessReleased
<1>5. i \in DOMAIN entry /\ Tail(released) \in Seq(DOMAIN entry)
  BY <1>2, <1>4, TailFacts
<1>6. active' \in DOMAIN todo
  BY <1>1, <1>3, <1>5, EntryFacts
<1>7. more \in Seq(DOMAIN entry)
  BY <1>1, <1>2, <1>4, OfPortFacts DEF AlsoReleased
<1>8. released' \in Seq(DOMAIN entry) /\ collateral' \in Seq(DOMAIN entry)
  <2>1. released' \in Seq(DOMAIN entry)
    BY ONLY <1>3, <1>5, <1>7, ConcatFacts
  <2>2. collateral \in Seq(DOMAIN entry)
    BY <1>4
  <2>3. collateral' \in Seq(DOMAIN entry)
    BY ONLY <1>3, <2>2, KeepFacts
  <2> QED  BY <2>1, <2>3
<1>9. WorkerInv' /\ MainInv'
  <2>1. /\ ~ended /\ todo[Main] = <<<<"process">>>> /\ Len(q) = 0 /\ q \in Seq(Seq(Fresh))
        /\ \A k \in 1..Len(todo) : todo[k] \in Seq(Plain) /\ todo[k] # <<<<"worker">>>>
    BY <1>1, ProcessFacts
  <2>2. todo' = todo /\ q' = q /\ ended' = ended /\ active' \in 1..Len(todo)
    BY <1>1, <1>3, <1>6, Domains DEF envVars
  <2>3. WorkerInv'
    BY <2>1, <2>2 DEF WorkerInv
  <2>4. MainInv'
    BY <2>1, <2>2, ProcessStack DEF MainInv
  <2> QED  BY <2>3, <2>4
<1>10. HandlingInv' /\ BlockedInv'
  BY <1>1, <1>3 DEF HandlingInv, BlockedInv, infoVars
<1>11. TypeOK'
  BY <1>1, <1>3, <1>5, <1>6, <1>8 DEF TypeOK, infoVars, envVars, Free
<1> QED  BY <1>9, <1>10, <1>11 DEF IInv

LEMMA ProcessDoneStep ==
  ASSUME IInv, ProcessDone
  PROVE  IInv'
<1>1. TypeOK /\ WorkerInv /\ MainInv /\ HandlingInv /\ BlockedInv /\ Doing("process")
  BY DEF IInv, ProcessDone
<1>2. /\ active' = Main /\ todo' = Do(<< >>) /\ released = << >>
      /\ UNCHANGED <<pumpVars, infoVars, state, awaiting, envVars, failed, undefined>>
  BY DEF ProcessDone, dzn_coroutine_yield_to
<1>3. /\ << >> \in Seq(Plain) /\ << >> \in Seq(Frames) /\ Elements(<< >>) = {}
  BY FrameLists
<1>4. /\ todo \in Seq(Seq(Frames)) /\ active \in 1..Len(todo) /\ Main \in 1..Len(todo)
      /\ DOMAIN todo = 1..Len(todo)
  BY <1>1, Domains DEF TypeOK, Main
<1>5. /\ ~ended /\ todo[Main] = <<<<"process">>>> /\ Len(q) = 0 /\ q \in Seq(Seq(Fresh))
      /\ \A k \in 1..Len(todo) : todo[k] \in Seq(Plain)
      /\ Head(todo[active]) = <<"process">> /\ todo[active] # << >>
  BY <1>1, ProcessFacts
<1>6. Tail(todo[active]) \in Seq(Plain)
  BY <1>4, <1>5, TailFacts
<1>7. /\ todo' \in Seq(Seq(Frames)) /\ Len(todo') = Len(todo)
      /\ todo'[active] = << >> \o Tail(todo[active]) /\ todo'[active] \in Seq(Plain)
      /\ \A k \in 1..Len(todo) : k # active => todo'[k] = todo[k]
  BY <1>2, <1>3, <1>4, <1>5, <1>6, DoFacts, MakeFrames
<1>8. todo'[Main] \in {<< >>, <<<<"process">>>>}
  <2>1. CASE active = Main
    <3>1. Len(todo[active]) = 1
      BY <1>5, <2>1
    <3>2. Tail(todo[active]) = << >>
      BY <1>4, <1>5, <3>1, NoneOrOne
    <3>3. << >> \o Tail(todo[active]) = << >>
      BY <3>2
    <3> QED  BY <1>7, <2>1, <3>3
  <2>2. CASE active # Main
    BY <1>4, <1>5, <1>7, <2>2
  <2> QED  BY <2>1, <2>2
<1>9. WorkerInv'
  <2>1. \A k \in 1..Len(todo) : todo'[k] \in Seq(Plain)
    BY <1>5, <1>7
  <2>2. todo'[active'] # <<<<"worker">>>>
    BY <1>2, <1>8
  <2> QED  BY <1>2, <1>5, <1>7, <2>1, <2>2 DEF WorkerInv, pumpVars
<1>10. MainInv'
  BY <1>2, <1>5, <1>8 DEF MainInv, envVars, pumpVars
<1>11. HandlingInv'
  <2>1. \A c \in Component : handling'[c] # 0 => handling[c] # 0 /\ ~Closes(Head(todo[active]), c)
    BY <1>1, <1>2, ClosesFacts DEF infoVars
  <2> QED  BY <1>1, <1>2, <1>3, <1>5, <2>1, HandlingStep
<1>12. BlockedInv'
  <2>1. \A p \in Port : Head(todo[active]) # <<"unblock", p>> /\ <<"unblock", p>> \notin Elements(<< >>)
    BY <1>3, <1>5
  <2> QED  BY <1>1, <1>2, <1>3, <1>5, <2>1, BlockedStep DEF pumpVars
<1>13. TypeOK'
  BY <1>1, <1>2, <1>4, <1>7, DoDomain DEF TypeOK, pumpVars, infoVars, envVars
<1> QED  BY <1>9, <1>10, <1>11, <1>12, <1>13 DEF IInv

\* dzn_pump_run: a worker begins with the event that Main puts in q for it.
RunsEvent(event) ==
  /\ dzn_pump_run(event) /\ event \in Seq(Fresh)
  /\ asked' \subseteq World /\ client' \in [Client -> {"idle", "waiting"}]
  /\ calls' \in [Client -> Nat]

\* The stacks when Main, with nothing to do, makes a worker.
LEMMA NewStacks ==
  ASSUME TypeOK, todo[Main] = << >>, NEW new,
         new = Append([todo EXCEPT ![Main] = <<<<"process">>>>], <<<<"worker">>>>)
  PROVE  /\ new \in Seq(Seq(Frames)) /\ Len(new) = Len(todo) + 1
         /\ new[Main] = <<<<"process">>>> /\ new[Len(todo) + 1] = <<<<"worker">>>>
         /\ \A k \in 1..Len(todo) : k # Main => new[k] = todo[k]
<1>1. todo \in Seq(Seq(Frames)) /\ Main \in 1..Len(todo) /\ Len(todo) \in Nat
  BY Domains DEF TypeOK, Main
<1>2. PICK u, v : u = <<<<"process">>>> /\ v = <<<<"worker">>>>
  OBVIOUS
<1>3. u \in Seq(Frames) /\ v \in Seq(Frames)
  BY <1>2, MakeFrames, FrameLists
<1>4. PICK s : s = [todo EXCEPT ![Main] = u]
  OBVIOUS
<1>5. /\ s \in Seq(Seq(Frames)) /\ Len(s) = Len(todo) /\ s[Main] = u
      /\ \A k \in 1..Len(todo) : k # Main => s[k] = todo[k]
  BY <1>1, <1>3, <1>4
<1>6. new = Append(s, v)
  BY <1>2, <1>4
<1>7. /\ new \in Seq(Seq(Frames)) /\ Len(new) = Len(s) + 1 /\ new[Len(s) + 1] = v
      /\ \A k \in 1..Len(s) : new[k] = s[k]
  <2>1. PICK S : S = Seq(Frames)
    OBVIOUS
  <2>2. s \in Seq(S) /\ v \in S
    BY <1>3, <1>5, <2>1
  <2>3. /\ Append(s, v) \in Seq(S) /\ Len(Append(s, v)) = Len(s) + 1
        /\ Append(s, v)[Len(s) + 1] = v /\ \A k \in 1..Len(s) : Append(s, v)[k] = s[k]
    BY ONLY <2>2
  <2> QED  BY <1>6, <2>1, <2>3
<1> QED  BY <1>1, <1>2, <1>5, <1>7

LEMMA RunStep ==
  ASSUME IInv, NEW event, RunsEvent(event)
  PROVE  IInv'
<1>1. TypeOK /\ WorkerInv /\ MainInv /\ HandlingInv /\ BlockedInv
  BY DEF IInv
<1>2. /\ active = Main /\ todo[Main] = << >> /\ ~ended /\ q' = Append(q, event)
      /\ todo' = Append([todo EXCEPT ![Main] = <<<<"process">>>>], <<<<"worker">>>>)
      /\ active' = Len(todo) + 1 /\ event \in Seq(Fresh)
      /\ UNCHANGED <<blocked, released, collateral, deferred, entry, freed, infoVars, state,
                     awaiting, ended, failed, undefined>>
  BY DEF RunsEvent, dzn_pump_run, dzn_list_append, pump_create_coroutine, dzn_coroutine_yield_to
<1>3. /\ todo' \in Seq(Seq(Frames)) /\ Len(todo') = Len(todo) + 1
      /\ todo'[Main] = <<<<"process">>>> /\ todo'[Len(todo) + 1] = <<<<"worker">>>>
      /\ \A k \in 1..Len(todo) : k # Main => todo'[k] = todo[k]
  BY <1>1, <1>2, NewStacks
<1>4. Main \in 1..Len(todo) /\ Len(todo) \in Nat /\ DOMAIN todo = 1..Len(todo)
  BY <1>1, Domains DEF Main
<1>5. DOMAIN todo \subseteq DOMAIN todo' /\ active' \in DOMAIN todo' /\ active' # Main
  BY <1>2, <1>3, <1>4 DEF Main
<1>6. q \in Seq(Seq(Fresh)) /\ Len(q) = 0
  BY <1>1, <1>2 DEF WorkerInv
<1>7. q' \in Seq(Seq(Fresh)) /\ Len(q') = 1
  <2>1. PICK Lists0 : Lists0 = Seq(Fresh)
    OBVIOUS
  <2>2. q \in Seq(Lists0) /\ event \in Lists0
    BY <1>2, <1>6, <2>1
  <2>3. q' \in Seq(Lists0) /\ Len(q') = Len(q) + 1
    BY ONLY <1>2, <2>2, AppendFacts
  <2> QED  BY <1>6, <2>1, <2>3
<1>8. WorkerInv'
  <2>1. ASSUME NEW k \in 1..Len(todo'), k # active'
        PROVE  todo'[k] \in Seq(Plain)
    <3>1. k \in 1..Len(todo)
      BY <1>2, <1>3, <1>4, <2>1
    <3>2. CASE k = Main
      BY <1>3, <3>2, ProcessStack
    <3>3. CASE k # Main
      BY <1>1, <1>2, <1>3, <3>1, <3>3 DEF WorkerInv
    <3> QED  BY <3>2, <3>3
  <2> QED  BY <1>2, <1>3, <1>5, <1>7, <2>1 DEF WorkerInv
<1>9. MainInv'
  BY <1>2, <1>3, <1>5 DEF MainInv
<1>10. HandlingInv'
  <2>1. ASSUME NEW c \in Component, handling'[c] # 0
        PROVE  \E k \in 1..Len(todo') : \E i \in 1..Len(todo'[k]) : Closes(todo'[k][i], c)
    <3>1. handling[c] # 0
      BY <1>2, <2>1 DEF infoVars
    <3>2. PICK k \in 1..Len(todo) : \E i \in 1..Len(todo[k]) : Closes(todo[k][i], c)
      BY <1>1, <3>1 DEF HandlingInv
    <3>3. k # Main
      BY <1>2, <3>2, EmptyFacts
    <3>4. k \in 1..Len(todo') /\ todo'[k] = todo[k]
      BY <1>3, <1>4, <3>3
    <3> QED  BY <3>2, <3>4
  <2> QED  BY <2>1, Zenon DEF HandlingInv, Closes
<1>11. BlockedInv'
  <2>1. ASSUME NEW p \in Port
        PROVE  Unblocks(todo', p) = Unblocks(todo, p)
    <3>1. /\ \A k, d : <<k, d>> \in Unblocks(todo, p) <=>
                          k \in 1..Len(todo) /\ d \in UnblocksAt(todo, p, k)
          /\ \A x \in Unblocks(todo, p) : \E k, d : x = <<k, d>>
      BY ONLY UnblocksFacts
    <3>2. /\ \A k, d : <<k, d>> \in Unblocks(todo', p) <=>
                          k \in 1..Len(todo') /\ d \in UnblocksAt(todo', p, k)
          /\ \A x \in Unblocks(todo', p) : \E k, d : x = <<k, d>>
      BY ONLY UnblocksFacts
    <3>3. UnblocksAt(todo, p, Main) = {}
      BY <1>2 DEF UnblocksAt
    <3>4. UnblocksAt(todo', p, Main) = {} /\ UnblocksAt(todo', p, Len(todo) + 1) = {}
      <4>1. ASSUME NEW f, f # <<"unblock", p>>, NEW k, todo'[k] = <<f>>
            PROVE  UnblocksAt(todo', p, k) = {}
        BY <4>1 DEF UnblocksAt
      <4> QED  BY <1>3, <4>1
    <3>5. \A k \in 1..Len(todo) : k # Main => UnblocksAt(todo', p, k) = UnblocksAt(todo, p, k)
      BY <1>3 DEF UnblocksAt
    <3>0. 1..Len(todo') = 1..Len(todo) \cup {Len(todo) + 1}
      BY ONLY <1>3, <1>4, SMTT(30)
    <3>6. ASSUME NEW k, NEW d
          PROVE  <<k, d>> \in Unblocks(todo', p) <=> <<k, d>> \in Unblocks(todo, p)
      <4>1. k \in 1..Len(todo') <=> k \in 1..Len(todo) \/ k = Len(todo) + 1
        BY ONLY <3>0
      <4>2. Len(todo) + 1 \notin 1..Len(todo)
        BY <1>4
      <4>3. CASE k = Main
        BY <3>1, <3>2, <3>3, <3>4, <4>3
      <4>4. CASE k # Main /\ k \in 1..Len(todo)
        BY <3>1, <3>2, <3>5, <4>1, <4>4
      <4>5. CASE k # Main /\ k \notin 1..Len(todo)
        BY <3>1, <3>2, <3>4, <4>1, <4>5
      <4> QED  BY <4>3, <4>4, <4>5
    <3>7. \A x \in Unblocks(todo', p) \cup Unblocks(todo, p) : \E k, d : x = <<k, d>>
      BY <3>1, <3>2
    <3> QED  BY <3>6, <3>7, SamePairs, Zenon
  <2>2. blocked' = blocked /\ entry' = entry
    BY <1>2
  <2> QED  BY <1>1, <2>1, <2>2 DEF BlockedInv, BlockedOn
<1>12. TypeOK'
  <2>1. q' \in Seq(Seq(Frames))
    <3>1. Seq(Fresh) \subseteq Seq(Frames)
      <4>1. Fresh \subseteq Frames
        BY DEF Fresh, Calm, Plain
      <4> QED  BY <4>1, Wider
    <3> QED  BY <1>7, <3>1, Wider
  <2>2. entry' \in Seq([port : Port, coroutine : DOMAIN todo', id : {-1, 1}])
    <3>1. PICK E, F : /\ E = [port : Port, coroutine : DOMAIN todo, id : {-1, 1}]
                      /\ F = [port : Port, coroutine : DOMAIN todo', id : {-1, 1}]
      OBVIOUS
    <3>2. E \subseteq F
      BY <1>5, <3>1
    <3>3. entry \in Seq(E)
      BY <1>1, <3>1 DEF TypeOK
    <3>4. entry \in Seq(F)
      BY ONLY <3>2, <3>3, Wider
    <3> QED  BY <1>2, <3>1, <3>4
  <2>3. /\ asked' \subseteq World /\ client' \in [Client -> {"idle", "waiting"}]
        /\ calls' \in [Client -> Nat]
    BY DEF RunsEvent
  <2> QED  BY <1>1, <1>2, <1>3, <1>5, <2>1, <2>2, <2>3 DEF TypeOK, infoVars
<1> QED  BY <1>8, <1>9, <1>10, <1>11, <1>12 DEF IInv

LEMMA ClientCallStep ==
  ASSUME IInv, NEW t \in Client, ClientCall(t)
  PROVE  IInv'
<1>1. TypeOK
  BY DEF IInv
<1>2. Entry[t] \in Port
  BY CPumpAssumption
<1>3. <<"call", Entry[t]>> \in Fresh /\ <<"return", t>> \in Fresh
  BY <1>2, MakeFrames DEF Fresh
<1>4. <<<<"call", Entry[t]>>, <<"return", t>>>> \in Seq(Fresh)
  BY <1>3, FrameLists
<1>5. asked' \subseteq World /\ client' \in [Client -> {"idle", "waiting"}]
  BY <1>1 DEF ClientCall, TypeOK
<1>6. calls' \in [Client -> Nat]
  <2>1. calls \in [Client -> Nat] /\ calls' = [calls EXCEPT ![t] = calls[t] + 1]
    BY <1>1 DEF ClientCall, TypeOK
  <2> QED  BY <2>1
<1>7. RunsEvent(<<<<"call", Entry[t]>>, <<"return", t>>>>)
  BY <1>4, <1>5, <1>6 DEF ClientCall, RunsEvent
<1> QED  BY <1>7, RunStep

LEMMA AnswerStep ==
  ASSUME IInv, NEW w \in World, Answer(w)
  PROVE  IInv'
<1>1. TypeOK
  BY DEF IInv
<1>2. <<"out", w>> \in Fresh
  BY MakeFrames DEF Fresh
<1>3. <<<<"out", w>>>> \in Seq(Fresh)
  BY <1>2, FrameLists
<1>4. RunsEvent(<<<<"out", w>>>>)
  BY <1>1, <1>3 DEF Answer, RunsEvent, TypeOK
<1> QED  BY <1>4, RunStep

LEMMA RunDeferStep ==
  ASSUME IInv, RunDefer
  PROVE  IInv'
<1>1. TypeOK
  BY DEF IInv
<1>2. <<"prune">> \in Fresh /\ <<"run_defer">> \in Fresh
  BY MakeFrames DEF Fresh
<1>3. <<<<"prune">>, <<"run_defer">>>> \in Seq(Fresh)
  BY <1>2, FrameLists
<1>4. RunsEvent(<<<<"prune">>, <<"run_defer">>>>)
  BY <1>1, <1>3 DEF RunDefer, RunsEvent, TypeOK
<1> QED  BY <1>4, RunStep

\* Main has the deferred statements left to do.
LEMMA FinalizeStep ==
  ASSUME IInv, Finalize
  PROVE  IInv'
<1>1. TypeOK /\ WorkerInv /\ MainInv /\ HandlingInv /\ BlockedInv
  BY DEF IInv
<1>2. PICK u : u = <<<<"flush_defer">>>>
  OBVIOUS
<1>3. /\ active = Main /\ todo[Main] = << >> /\ ended' = TRUE /\ ~ended
      /\ todo' = [todo EXCEPT ![Main] = u]
      /\ UNCHANGED <<pumpVars, infoVars, active, state, awaiting, asked, client, calls, failed,
                     undefined>>
  BY <1>2 DEF Finalize
<1>4. u \in Seq(Calm) /\ u # << >>
  BY <1>2, MakeFrames, FrameLists
<1>5. u \in Seq(Plain) /\ u \in Seq(Frames)
  BY <1>4, MakeFrames, Wider
<1>6. /\ todo \in Seq(Seq(Frames)) /\ Main \in 1..Len(todo) /\ Len(todo) \in Nat
      /\ DOMAIN todo = 1..Len(todo)
  BY <1>1, Domains DEF TypeOK, Main
<1>7. /\ todo' \in Seq(Seq(Frames)) /\ Len(todo') = Len(todo) /\ todo'[Main] = u
      /\ \A k \in 1..Len(todo) : k # Main => todo'[k] = todo[k]
      /\ DOMAIN todo' = DOMAIN todo
  BY <1>3, <1>5, <1>6
<1>8. WorkerInv'
  <2>1. u # <<<<"worker">>>>
    BY <1>2
  <2>2. todo[active] # <<<<"worker">>>>
    BY <1>3
  <2>3. \A k \in 1..Len(todo) : todo'[k] \in Seq(Plain)
    BY <1>1, <1>3, <1>5, <1>7, <2>2 DEF WorkerInv
  <2>4. q' = q /\ q \in Seq(Seq(Fresh)) /\ Len(q) = 0
    BY <1>1, <1>3, <2>2 DEF WorkerInv, pumpVars
  <2> QED  BY <1>3, <1>7, <2>1, <2>3, <2>4 DEF WorkerInv
<1>9. MainInv'
  BY <1>3, <1>4, <1>7 DEF MainInv
<1>10. HandlingInv'
  <2>1. ASSUME NEW c \in Component, handling'[c] # 0
        PROVE  \E k \in 1..Len(todo') : \E i \in 1..Len(todo'[k]) : Closes(todo'[k][i], c)
    <3>1. handling[c] # 0
      BY <1>3, <2>1 DEF infoVars
    <3>2. PICK k \in 1..Len(todo) : \E i \in 1..Len(todo[k]) : Closes(todo[k][i], c)
      BY <1>1, <3>1 DEF HandlingInv
    <3>3. k # Main
      BY <1>3, <3>2, EmptyFacts
    <3>4. k \in 1..Len(todo') /\ todo'[k] = todo[k]
      BY <1>7, <3>3
    <3> QED  BY <3>2, <3>4
  <2> QED  BY <2>1, Zenon DEF HandlingInv, Closes
<1>11. BlockedInv'
  <2>1. ASSUME NEW p \in Port
        PROVE  Unblocks(todo', p) = Unblocks(todo, p)
    <3>1. UnblocksAt(todo, p, Main) = {}
      BY <1>3 DEF UnblocksAt
    <3>2. UnblocksAt(todo', p, Main) = {}
      BY <1>2, <1>7 DEF UnblocksAt
    <3>3. \A k \in 1..Len(todo) : UnblocksAt(todo', p, k) = UnblocksAt(todo, p, k)
      BY <1>7, <3>1, <3>2 DEF UnblocksAt
    <3> QED  BY <1>7, <3>3 DEF Unblocks
  <2>2. blocked' = blocked /\ entry' = entry
    BY <1>3 DEF pumpVars
  <2> QED  BY <1>1, <2>1, <2>2 DEF BlockedInv, BlockedOn
<1>12. TypeOK'
  BY <1>1, <1>3, <1>7 DEF TypeOK, pumpVars, infoVars
<1> QED  BY <1>8, <1>9, <1>10, <1>11, <1>12 DEF IInv

-------------------------------------------------------------------------------
(***************************************************************************)
(* The theorems.                                                           *)
(***************************************************************************)

LEMMA Initially ==
  ASSUME Init
  PROVE  IInv
<1>1. /\ q = << >> /\ blocked = << >> /\ released = << >> /\ collateral = << >>
      /\ deferred = << >> /\ entry = << >> /\ freed = {}
      /\ handling = [c \in Component |-> 0] /\ queue = [c \in Component |-> << >>]
      /\ target = [c \in Component |-> None]
      /\ active = Main /\ todo = <<<< >>>>
      /\ state = [c \in Component |-> 0] /\ awaiting = {}
      /\ asked = {} /\ client = [t \in Client |-> "idle"]
      /\ ended = FALSE /\ failed = FALSE /\ undefined = FALSE
  BY DEF Init, dzn_pump_init, dzn_runtime_info_init
<1>2. Len(todo) = 1 /\ DOMAIN todo = {1} /\ todo[1] = << >> /\ 1..1 = {1}
  BY <1>1
<1>3. calls \in [Client -> Nat]
  <2>1. PICK there \in Together :
          calls = [t \in Client |-> IF t \in there THEN 0 ELSE Calls[t]]
    BY DEF Init
  <2> QED  BY <2>1, CPumpAssumption
<1>4. \A A : << >> \in Seq(A)
  OBVIOUS
<1>5. todo \in Seq(Seq(Frames))
  <2>1. PICK S : S = Seq(Frames)
    OBVIOUS
  <2>2. << >> \in S
    BY <1>4, <2>1
  <2>3. <<<< >>>> \in Seq(S)
    BY <2>2, FrameLists
  <2> QED  BY <1>1, <2>1, <2>3
<1>6. TypeOK
  BY <1>1, <1>2, <1>3, <1>4, <1>5 DEF TypeOK, Main
<1>7. WorkerInv
  BY <1>1, <1>2, <1>4 DEF WorkerInv, Main
<1>8. MainInv /\ HandlingInv
  BY <1>1, <1>2 DEF MainInv, HandlingInv, Main
<1>9. BlockedInv
  <2>1. ASSUME NEW p \in Port
        PROVE  Unblocks(todo, p) = {} /\ BlockedOn(blocked, entry, p) = {}
    <3>1. UnblocksAt(todo, p, 1) = {}
      BY <1>2 DEF UnblocksAt
    <3>2. Unblocks(todo, p) = {}
      BY <1>2, <3>1 DEF Unblocks
    <3> QED  BY <1>1, <3>2, EmptyFacts DEF BlockedOn
  <2>2. IsFiniteSet({})
    BY FS_EmptySet
  <2> QED  BY <1>1, <2>1, <2>2, EmptyFacts DEF BlockedInv
<1> QED  BY <1>6, <1>7, <1>8, <1>9 DEF IInv

LEMMA Preserved ==
  ASSUME IInv, [Next]_vars
  PROVE  IInv'
<1>1. CASE Step
  BY <1>1, WorkerStep, ProcessReleasedStep, ProcessDoneStep, ReturnStep, AskStep, CallInStep,
     CollateralBlockStep, StartStep, HandleEventStep, FinishStep, EnqueueStep, FlushEventStep,
     FlushTargetStep, BlockStep, FallThroughStep, PumpBlockStep, UnblockStep, ReleaseStep,
     DeferStep, ChangeStep, PruneStep, RunStatementStep, FlushDeferStep DEF Step
<1>2. CASE \E t \in Client : ClientCall(t)
  BY <1>2, ClientCallStep
<1>3. CASE \E w \in World : Answer(w)
  BY <1>3, AnswerStep
<1>4. CASE RunDefer
  BY <1>4, RunDeferStep
<1>5. CASE Finalize
  BY <1>5, FinalizeStep
<1>6. CASE UNCHANGED vars
  BY <1>6 DEF vars, pumpVars, infoVars, envVars, IInv, TypeOK, WorkerInv, MainInv, HandlingInv,
              BlockedInv
<1> QED  BY <1>1, <1>2, <1>3, <1>4, <1>5, <1>6 DEF Next, Ended

\* The inductive invariant holds in every state that the run-time reaches.
THEOREM Inductive == Spec => []IInv
<1>1. Init => IInv
  BY Initially
<1>2. IInv /\ [Next]_vars => IInv'
  BY Preserved
<1> QED  BY <1>1, <1>2, PTL DEF Spec

\* Every list of the pump holds entries that port_coroutine_create made, every entry the
\* coroutine of a worker or Main, and no queue or stack anything but what the handlers made.
THEOREM TypeCorrect == Spec => []TypeOK
<1>1. IInv => TypeOK
  BY DEF IInv
<1> QED  BY <1>1, Inductive, PTL

\* When all workers are done no call is left in blocked and no component handles an event.
LEMMA AllDone ==
  ASSUME IInv, \A k \in 1..Len(todo) : todo[k] \in {<< >>, <<<<"process">>>>}
  PROVE  blocked = << >> /\ \A c \in Component : handling[c] = 0
<1>1. TypeOK /\ HandlingInv /\ BlockedInv
  BY DEF IInv
<1>2. ASSUME NEW k \in 1..Len(todo), NEW i \in 1..Len(todo[k])
      PROVE  todo[k][i] = <<"process">>
  <2>1. todo[k] = << >> \/ todo[k] = <<<<"process">>>>
    OBVIOUS
  <2> QED  BY <2>1
<1>3. \A c \in Component : handling[c] = 0
  BY <1>1, <1>2 DEF HandlingInv, Closes
<1>4. ASSUME NEW p \in Port
      PROVE  BlockedOn(blocked, entry, p) = {}
  <2>1. ASSUME NEW k \in 1..Len(todo)
        PROVE  UnblocksAt(todo, p, k) = {}
    <3>1. todo[k] = << >> \/ todo[k] = <<<<"process">>>>
      OBVIOUS
    <3>2. CASE todo[k] = << >>
      BY <3>2 DEF UnblocksAt
    <3>3. CASE todo[k] = <<<<"process">>>>
      BY <3>3 DEF UnblocksAt
    <3> QED  BY <3>1, <3>2, <3>3
  <2>2. Unblocks(todo, p) = {}
    BY <2>1 DEF Unblocks
  <2>3. Cardinality(BlockedOn(blocked, entry, p)) = 0 /\ IsFiniteSet(BlockedOn(blocked, entry, p))
    BY <1>1, <2>2, FS_EmptySet DEF BlockedInv
  <2> QED  BY <2>3, FS_EmptySet
<1>5. blocked = << >>
  <2>1. blocked \in Seq(DOMAIN entry)
    BY <1>1 DEF TypeOK
  <2>2. Elements(blocked) \subseteq DOMAIN entry
    BY <2>1, EmptyFacts
  <2>3. \A i \in DOMAIN entry : entry[i].port \in Port
    BY <1>1, EntryFacts
  <2>4. Elements(blocked) = {}
    BY <1>4, <2>2, <2>3 DEF BlockedOn
  <2> QED  BY <2>1, <2>4, EmptyFacts
<1> QED  BY <1>3, <1>5

\* Whenever Main waits for an event the worker of the last one has taken it and nothing
\* that was released waits for its coroutine to go on; and once all workers are done no
\* call is left in blocked, nor does a component count as handling an event.
THEOREM MainRests == Spec => []RestIsClean
<1>1. IInv => RestIsClean
  <2> SUFFICES ASSUME IInv, active = Main, todo[Main] = << >>
               PROVE  /\ q = << >> /\ (~ended => released = << >>)
                      /\ (\A k \in DOMAIN todo : todo[k] \in {<< >>, <<<<"process">>>>}) =>
                           blocked = << >> /\ \A c \in Component : handling[c] = 0
    BY DEF RestIsClean
  <2>1. TypeOK /\ WorkerInv /\ MainInv
    BY DEF IInv
  <2>2. Len(q) = 0 /\ q \in Seq(Seq(Fresh))
    <3>1. todo[active] # <<<<"worker">>>>
      OBVIOUS
    <3> QED  BY <2>1, <3>1 DEF WorkerInv
  <2>3. q = << >>
    BY <2>2, NoneOrOne
  <2>4. ~ended => released = << >>
    BY <2>1 DEF MainInv
  <2>5. DOMAIN todo = 1..Len(todo)
    BY <2>1, Domains
  <2> QED  BY <2>3, <2>4, <2>5, AllDone
<1> QED  BY <1>1, Inductive, PTL

===============================================================================
