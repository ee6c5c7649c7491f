---------------------------- MODULE MCMinimumII ----------------------------
(***************************************************************************)
(* Three operations on two functional units, one of which multiplies, and  *)
(* one load-store unit; every chain or cycle of two edges, cycles through  *)
(* three nodes, small distances and separations.                           *)
(***************************************************************************)
EXTENDS MinimumII, TLC

CONSTANTS f1, f2, l1

a == 1
b == 2
c == 3

MCUnits == {f1, f2, l1}
MCClass == f1 :> "FU" @@ f2 :> "FU" @@ l1 :> "LSU"
MCOpClass == "add" :> "FU" @@ "mul" :> "FU" @@ "load" :> "LSU" @@ "div" :> "FU"
MCSupports ==
    "add" :> {f1, f2} @@ "mul" :> {f1} @@ "load" :> {l1} @@ "div" :> {}

Ops == {<<"add", "add", "add">>, <<"mul", "mul", "add">>,
        <<"load", "load", "load">>, <<"add", "load", "mul">>}

Link(x, y, d, s) == [src |-> x, dst |-> y, distance |-> d, separation |-> s]
MCEdges ==
    [src : {a, b, c}, dst : {a, b}, distance : {0, 1, 2}, separation : {1, 3}]

EdgeSeqs ==
    {<<>>, <<Link(a, b, 0, 0)>>}
    \cup {<<e>> : e \in MCEdges}
    \cup {ef \in MCEdges \X MCEdges :
             ef[1].dst = ef[2].src \/ ef[1].src = ef[2].dst}
    \cup {<<Link(b, c, d, s), Link(a, b, g, t), Link(c, a, h, 1)>> :
            d, g, h \in {0, 1, 2}, s, t \in {1, 2}}

MCDfgs ==
    {[op |-> o, occupancy |-> <<1, k, 1>>, edges |-> e] :
        o \in {<<"add", "load", "mul">>, <<"mul", "add", "mul">>}, k \in {1},
        e \in EdgeSeqs}
    \cup {[op |-> o, occupancy |-> <<1, k, 1>>, edges |-> e] :
            o \in Ops, k \in {0, 1, 2, 9},
            e \in {<<>>, <<Link(a, b, 0, 1), Link(b, a, 1, 2)>>}}
    \cup {[op |-> <<"add", "div", "add">>,
           occupancy |-> <<1, 1, 1>>, edges |-> <<>>]}
    \cup {[op |-> <<"add", "add", "add">>,
           occupancy |-> <<1, 1, 1>>, edges |-> <<Link(a, b, 1, 9)>>]}
=============================================================================
