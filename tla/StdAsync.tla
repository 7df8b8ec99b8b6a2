------------------------------- MODULE StdAsync -------------------------------
(***************************************************************************)
(* What dzn::std_async promises its callers (the pump, which runs its      *)
(* event loop on it, and every thread-based coroutine context): the work   *)
(* handed over is executed once, on some thread, and the future that is    *)
(* returned becomes ready only after the work has returned.                *)
(*                                                                         *)
(* Two files of the runtime implement it and a build links one of them:    *)
(* std-async.cc, which calls std::async, and thread-pool.cc, which is the  *)
(* subject of module ThreadPool.                                           *)
(***************************************************************************)
CONSTANT Job

VARIABLES
  submitted,  \* work that std_async has accepted
  executing,  \* work a thread is running now
  returned,   \* work that has returned
  ready       \* work whose future is ready

vars == <<submitted, executing, returned, ready>>

Init ==
  /\ submitted = {}
  /\ executing = {}
  /\ returned = {}
  /\ ready = {}

Submit(j) ==
  /\ j \notin submitted
  /\ submitted' = submitted \cup {j}
  /\ UNCHANGED <<executing, returned, ready>>

Start(j) ==
  /\ j \in submitted \ (executing \cup returned)
  /\ executing' = executing \cup {j}
  /\ UNCHANGED <<submitted, returned, ready>>

Return(j) ==
  /\ j \in executing
  /\ executing' = executing \ {j}
  /\ returned' = returned \cup {j}
  /\ UNCHANGED <<submitted, ready>>

SetReady(j) ==
  /\ j \in returned \ ready
  /\ ready' = ready \cup {j}
  /\ UNCHANGED <<submitted, executing, returned>>

Next == \E j \in Job : Submit(j) \/ Start(j) \/ Return(j) \/ SetReady(j)

Spec == Init /\ [][Next]_vars
===============================================================================
