-------------------------------- MODULE MCCPump --------------------------------
(***************************************************************************)
(* Small systems for module CPump.  A port, event or statement is a tuple  *)
(* of the component that handles it and a name, a client is named by the   *)
(* port it calls.  The systems only share the component at the bottom.     *)
(***************************************************************************)
EXTENDS CPumpProofs, TLC

\* The component at the bottom blocks until the world answers.
Bottom == <<"bottom", "h">>
Answered == <<"bottom", "world">>
BottomBody == (Bottom :> <<<<"ask", Answered>>>>) @@ (Answered :> <<<<"reply", Bottom>>>>)

\* Two or three clients share a mux above the bottom.
Muxes == {<<"mux", x>> : x \in {"left", "middle", "right"}}
MuxBody == [p \in Muxes |-> <<<<"call", Bottom>>>>]

\* Two ports block, a third port, or the world, releases both; one port is replied to before it blocks.
Doubles == {<<"double", "block0">>, <<"double", "block1">>}
Releaser == <<"double", "release">>
Prompt == <<"double", "prompt">>
DoubleWorld == <<"double", "world">>
DoubleBody ==
  [p \in Doubles |-> <<<<"ask", DoubleWorld>>>>]
    @@ [x \in {Releaser, DoubleWorld} |->
          <<<<"reply", <<"double", "block0">>>>, <<"reply", <<"double", "block1">>>>>>]
    @@ (Prompt :> <<<<"reply", Prompt>>>>)

\* The top calls the middle, which raises events to it at once and when the world
\* answers; the top calls back, and defers a call.
Top == <<"top", "a">>
Middle == <<"middle", "a">>
MiddleB == <<"middle", "b">>
Up == <<"top", "up">>
Late == <<"top", "late">>
MiddleWorld == <<"middle", "world">>
Later == <<"top", "later">>
TowerBody ==
  (Top :> <<<<"call", Middle>>, <<"defer", Later>>>>)
    @@ (Middle :> <<<<"out", Up>>, <<"ask", MiddleWorld>>, <<"out", Up>>>>)
    @@ (MiddleB :> <<<<"out", Late>>>>)
    @@ (Up :> <<<<"call", MiddleB>>>>)
    @@ (Late :> << >>)
    @@ (MiddleWorld :> <<<<"out", Late>>>>)
    @@ (Later :> <<<<"call", MiddleB>>>>)

\* Two components that defer a statement, one of which may cancel it.
Defers == {<<"one", "defer">>, <<"other", "defer">>}
Cancel == <<"other", "cancel">>
Statements == {<<"one", "statement">>, <<"other", "statement">>}
DeferBody ==
  [p \in Defers |-> <<<<"defer", <<p[1], "statement">>>>>>]
    @@ (Cancel :> <<<<"change", "other">>>>)
    @@ [s \in Statements |-> << >>]

\* Two components that block, each with a component above it that two clients share.
Bottom2 == <<"bottom2", "h">>
Answered2 == <<"bottom2", "world">>
Muxes2 == {<<"mux2", x>> : x \in {"left", "right"}}
TwinBody ==
  [p \in Muxes2 |-> <<<<"call", Bottom2>>>>]
    @@ (Bottom2 :> <<<<"ask", Answered2>>>>) @@ (Answered2 :> <<<<"reply", Bottom2>>>>)

-------------------------------------------------------------------------------
Ports == {Bottom, Bottom2, Releaser, Prompt, Top, Middle, MiddleB, Cancel}
         \cup Muxes \cup Muxes2 \cup Doubles \cup Defers
Internals == {Up, Late}
Worlds == {Answered, Answered2, DoubleWorld, MiddleWorld}
Deferreds == {Later} \cup Statements
Sources == [e \in Internals |-> "middle"]
Owners == [x \in Ports \cup Internals \cup Worlds \cup Deferreds |-> x[1]]
Components == {x[1] : x \in Ports}
Bodies == BottomBody @@ MuxBody @@ DoubleBody @@ TowerBody @@ DeferBody @@ TwinBody
Blocking_ == {Bottom, Bottom2, Prompt} \cup Doubles
Entries == [p \in Client |-> p]

MuxTwo == {<<"mux", "left">>, <<"mux", "right">>}
DoubleAll == Doubles \cup {Releaser, Prompt}
Twins == {<<"mux", "left">>, <<"mux2", "left">>, <<"mux2", "right">>}

DeferAll == Defers \cup {Cancel}

AllClients == MuxTwo \cup DoubleAll \cup DeferAll \cup {Top}
AllSystems == {MuxTwo \cup {Top}, DoubleAll, DeferAll}
MuxClients == Muxes
TwinClients == Twins
DeferClients == DeferAll
OneClient == {<<"mux", "left">>}
TopClient == {Top}
OneSystem == {Client}
LeftTwice == [t \in Client |-> IF t = <<"mux", "left">> THEN 2 ELSE 1]
Once == [t \in Client |-> 1]
===============================================================================
