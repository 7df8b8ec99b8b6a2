------------------------------ MODULE MCBlocking ------------------------------
(***************************************************************************)
(* Small systems for module Blocking, after the tests and the manual.      *)
(* Every port and every event of the world is a tuple of the component     *)
(* that has it and a name, and a client is named by the port it calls.     *)
(* The systems only share the component at the bottom; which of them a run *)
(* is about follows from the clients that are there together.              *)
(***************************************************************************)
EXTENDS BlockingProofs, TLC

\* The component that blocks at the bottom of every system: its call returns when
\* the world answers (doc/semantics/block.dzn).
Bottom == <<"bottom", "h">>
Answered == <<"bottom", "world">>
BottomBody == (Bottom :> <<<<"ask", Answered>>>>) @@ (Answered :> <<<<"reply", Bottom>>>>)

Three == {"left", "middle", "right"}

\* A handler that calls the next component.
Forward(ports, next) == [p \in ports |-> <<<<"call", next>>>>]

(***************************************************************************)
(* doc/semantics/collateral_multiple_provides.dzn: every client has a      *)
(* proxy, the proxies share a mux, the mux is above the bottom.            *)
(***************************************************************************)
MuxPorts == {<<"mux", x>> : x \in Three}
Proxies == {<<x, "h">> : x \in Three}
MuxBody == [p \in Proxies |-> <<<<"call", <<"mux", p[1]>>>>>>] @@ Forward(MuxPorts, Bottom)

(***************************************************************************)
(* A mux above a mux: two clients share the upper one, the third uses the  *)
(* lower one directly.                                                     *)
(***************************************************************************)
UpperPorts == {<<"upper", "left">>, <<"upper", "middle">>}
LowerPorts == {<<"lower", "left">>, <<"lower", "right">>}
CascadeBody == Forward(UpperPorts, <<"lower", "left">>) @@ Forward(LowerPorts, Bottom)

(***************************************************************************)
(* test/all/collateral_blocking_double_release: two ports block, a third   *)
(* port, or the world, releases both.                                      *)
(***************************************************************************)
DoublePorts == {<<"double", x>> : x \in {"block0", "block1"}}
Releaser == <<"double", "release">>
DoubleWorld == <<"double", "world">>
DoubleBody ==
  [p \in DoublePorts |-> <<<<"ask", DoubleWorld>>>>]
    @@ [x \in {Releaser, DoubleWorld} |->
          <<<<"reply", <<"double", "block0">>>>, <<"reply", <<"double", "block1">>>>>>]

(***************************************************************************)
(* A component that calls the bottom and then blocks itself, as the        *)
(* component left_blocking_proxy of                                        *)
(* test/all/double_collateral_blocking_shell does in the other order.      *)
(***************************************************************************)
GatePorts == {<<"gate", x>> : x \in Three}
GateWorld == {p \o <<"world">> : p \in GatePorts}
GateBody ==
  [p \in GatePorts |-> <<<<"call", Bottom>>, <<"ask", p \o <<"world">>>>>>]
    @@ [w \in GateWorld |-> <<<<"reply", <<"gate", w[2]>>>>>>]

(***************************************************************************)
(* A component that calls the world and then the bottom, as component      *)
(* left_proxy of the same test would with a device of its own.             *)
(***************************************************************************)
SluicePorts == {<<"sluice", x>> : x \in {"left", "right"}}
SluiceWorld == <<"sluice", "world">>
SluiceBody ==
  [p \in SluicePorts |-> <<<<"ask", SluiceWorld>>, <<"call", Bottom>>>>] @@ (SluiceWorld :> << >>)

(***************************************************************************)
(* test/all/defer_collateral_blocking: a component that defers a call of   *)
(* the bottom, and another port of the same component.                     *)
(***************************************************************************)
Request == <<"deferrer", "request">>
Cancel == <<"deferrer", "cancel">>
Statement_ == <<"deferrer", "block">>
DeferBody ==
  (Request :> <<<<"defer", Statement_>>>>) @@ (Cancel :> << >>)
    @@ (Statement_ :> <<<<"call", Bottom>>>>)

(***************************************************************************)
(* A component that defers a question to the world and calls the bottom    *)
(* when the answer comes: the call is made by the flush at the end of the  *)
(* deferred statement.                                                     *)
(***************************************************************************)
Poll == <<"poller", "poll">>
Peek == <<"poller", "peek">>
PollStatement == <<"poller", "ask">>
PollWorld == <<"poller", "world">>
PollBody ==
  (Poll :> <<<<"defer", PollStatement>>>>) @@ (Peek :> << >>)
    @@ (PollStatement :> <<<<"ask", PollWorld>>>>) @@ (PollWorld :> <<<<"call", Bottom>>>>)

-------------------------------------------------------------------------------
Ports == {Bottom, Releaser, Request, Cancel, Poll, Peek} \cup MuxPorts \cup Proxies \cup UpperPorts \cup LowerPorts
         \cup DoublePorts \cup GatePorts \cup SluicePorts
Worlds == {Answered, DoubleWorld, SluiceWorld, PollWorld} \cup GateWorld
Bodies == MuxBody @@ CascadeBody @@ DoubleBody @@ GateBody @@ SluiceBody @@ DeferBody @@ PollBody
            @@ BottomBody
Statements == {Statement_, PollStatement}
Owners == [x \in Port \cup World \cup Statement |-> x[1]]
Components == {x[1] : x \in Ports}
Blocking_ == {Bottom} \cup DoublePorts \cup GatePorts
Entries == [p \in Client |-> p]

Never == {}
Promptly == ({Answered, PollWorld} \cup GateWorld) \cap World
DoubleSync == {DoubleWorld}

Doubles == DoublePorts \cup {Releaser}
Gates == {<<"gate", "left">>, <<"gate", "right">>}
Cascades == UpperPorts \cup {<<"lower", "right">>}
Once == [t \in Client |-> 1]
DoubleTwice == [t \in Client |-> IF t \in Doubles THEN 2 ELSE 1]

DeferredCall == {Request, <<"gate", "left">>}
DeferClients == {Request, Cancel}
Pollers == {Poll, Peek}
AllSystems == {Proxies, Gates, Doubles, DeferredCall, Pollers}
AllClients == UNION AllSystems
AllButMux == Components \ {"mux"}
OneSystem == {Client}
ServedSystems == {Proxies, Gates, Doubles}
ServedClients == UNION ServedSystems
ServedWorlds == Worlds \ {PollWorld}
ServedPorts == Ports \ {Request, Cancel, Poll, Peek}
===============================================================================
