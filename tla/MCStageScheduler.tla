-------------------------- MODULE MCStageScheduler --------------------------
(***************************************************************************)
(* Every mapping of three nodes with one edge or two chained ones, and     *)
(* cycles through the three nodes, for small slots, distances and          *)
(* separations.                                                            *)
(***************************************************************************)
EXTENDS StageScheduler, TLC

CONSTANTS n1, n2, n3

MCNodes == {n1, n2, n3}
MCEdges == [src : MCNodes, dst : MCNodes, distance : {0, 1}, separation : {1, 3}]

Placed(ii, x, y, z) ==
    [ii |-> ii, slot |-> (n1 :> x @@ n2 :> y @@ n3 :> z)]
Placements ==
    {Placed(1, 0, 0, 0), Placed(2, 0, 1, 0), Placed(2, 1, 0, 1),
     Placed(3, 0, 2, 1), Placed(3, 2, 0, 0)}

Link(x, y, d, s) == [src |-> x, dst |-> y, distance |-> d, separation |-> s]

EdgeSeqs ==
    {<<e>> : e \in MCEdges}
    \cup {ef \in MCEdges \X MCEdges :
             ef[1].dst = ef[2].src \/ ef[1].src = ef[2].dst}
    \cup {<<Link(n2, n3, d, s), Link(n1, n2, g, t), Link(n3, n1, h, u)>> :
            d, g, h \in {0, 1}, s, t, u \in {1, 3}}
    \cup {<<Link(n1, n2, 0, s), Link(n2, n1, 1, t), Link(n2, n3, 0, 1),
            Link(n3, n1, 1, u)>> : s, t, u \in {1, 3}}

MCMappings ==
    {[ii |-> p.ii, slot |-> p.slot, edges |-> e] :
        p \in Placements, e \in EdgeSeqs}
=============================================================================
