-------------------------------- MODULE MCFlush --------------------------------
(***************************************************************************)
(* Flush for TLC, three systems next to each other:                        *)
(*   T above M above the world, in which calls and events go both ways,    *)
(*   with deferred statements in both;                                     *)
(*   G above F, a component written by hand;                               *)
(*   K and L above H, which has two provides ports.                        *)
(* The name of an event is the component at its providing side (x, y and z *)
(* are the world) and a name of its own.  Reentry is a handler of one more *)
(* component, C between a client and the world z.                          *)
(***************************************************************************)
EXTENDS FlushProofs

CONSTANT Reentry, Shared

MCComponent ==
  {"T", "M", "G", "F"} \cup (IF Shared THEN {"K", "L", "H"} ELSE {})
  \cup (IF Reentry THEN {"C"} ELSE {})
MCNative == MCComponent \ {"F"}

\* each event, its sides and what its handler may do
InEvents ==
  { <<"T.a", "T", Null, {<<"M.a">>, <<"M.a", "T.e">>, <<"T.e", "M.a">>}>>,
    <<"M.a", "M", "T", {<< >>, <<"x.a">>, <<"x.a", "M.e">>, <<"M.e", "x.b">>}>>,
    <<"M.b", "M", "T", {<< >>, <<"M.f">>, <<"x.b", "M.f">>}>>,
    <<"x.a", Null, "M", {<< >>, <<"x.e">>, <<"x.e", "x.e">>}>>,
    <<"x.b", Null, "M", {<< >>, <<"x.f">>}>>,
    <<"G.a", "G", Null, {<<"F.a">>}>>,
    <<"F.a", "F", "G", {<< >>, <<"F.e">>}>>,
    <<"F.b", "F", "G", {<< >>, <<"F.f">>}>> }
  \cup (IF Shared
        THEN { <<"K.a", "K", Null, {<<"H.a">>, <<"H.a", "K.e">>}>>,
               <<"H.a", "H", "K", {<< >>, <<"H.e">>}>> }
        ELSE {})
  \cup (IF Reentry THEN {<<"z.a", Null, "C", {<<"z.e">>}>>} ELSE {})

OutEvents ==
  { <<"x.e", Null, "M", {<<"M.e">>, <<"M.e", "x.b">>, <<"x.b", "M.e">>}>>,
    <<"x.f", Null, "M", {<< >>, <<"M.f">>}>>,
    <<"M.e", "M", "T", {<< >>, <<"T.e">>, <<"M.b", "T.e">>}>>,
    <<"M.f", "M", "T", {<<"T.e">>}>>,
    <<"T.e", "T", Null, {<< >>}>>,
    <<"F.e", "F", "G", {<<"G.e">>, <<"G.e", "F.b">>}>>,
    <<"F.f", "F", "G", {<< >>, <<"G.e">>}>>,
    <<"G.e", "G", Null, {<< >>}>> }
  \cup (IF Shared
        THEN { <<"y.e", Null, "H", {<<"H.e">>}>>,
               <<"y.f", Null, "H", {<< >>, <<"H.f">>}>>,
               <<"H.e", "H", "K", {<< >>, <<"K.e">>}>>,
               <<"H.f", "H", "L", {<<"L.e">>}>>,
               <<"K.e", "K", Null, {<< >>}>>,
               <<"L.e", "L", Null, {<< >>}>> }
        ELSE {})
  \cup (IF Reentry
        THEN { <<"z.w", Null, "C", {<<"z.a", "C.e">>}>>,
               <<"z.e", Null, "C", {<< >>}>>,
               <<"C.e", "C", Null, {<< >>}>> }
        ELSE {})

Statements ==
  { <<"M.defer", "M", {<<"M.e">>, <<"x.a", "M.e">>}>>,
    <<"T.defer", "T", {<<"T.e">>, <<"M.a">>}>> }

\* T is above M and G above F.
MCParent == [c \in MCComponent |-> CASE c = "M" -> "T" [] c = "F" -> "G" [] OTHER -> Null]
MCRank == [c \in MCComponent |-> IF c \in {"T", "G"} THEN 1 ELSE 0]

Row(rows, name) == CHOOSE r \in rows : r[1] = name
Names(rows) == {r[1] : r \in rows}

MCIn == Names(InEvents)
MCOut == Names(OutEvents)
MCProvide == [e \in MCIn \cup MCOut |-> Row(InEvents \cup OutEvents, e)[2]]
MCRequire == [e \in MCIn \cup MCOut |-> Row(InEvents \cup OutEvents, e)[3]]
MCStatement == Names(Statements)
MCOwner == [s \in MCStatement |-> Row(Statements, s)[2]]
MCBody == [e \in MCIn \cup MCOut \cup MCStatement |->
             IF e \in MCStatement THEN Row(Statements, e)[3]
             ELSE Row(InEvents \cup OutEvents, e)[4]]
===============================================================================
