--------------------------- MODULE MCRouteSearch ---------------------------
(***************************************************************************)
(* A 2 x 3 mesh: a value goes from the corner to every kind of tile while  *)
(* any subset of the links next to the corner is owned by other edges, and *)
(* one request whose corner link is owned in the first slots only, so that *)
(* a detour later beats a queued entry.                                    *)
(***************************************************************************)
EXTENDS RouteSearch

CONSTANTS Pushes, Expansions   \* the budgets that are run short

Near(ii) ==
    {<<l[1], l[2], k>> :
        l \in {<<<<0, 0>>, "East">>, <<<<0, 0>>, "South">>, <<<<0, 1>>, "South">>,
               <<<<1, 0>>, "East">>},
        k \in 0 .. ii - 1}

Request(ii, hop, ready, c, o, h, p, x) ==
    [ii |-> ii, hopLatency |-> hop, ready |-> ready, issueSlot |-> 0,
     producer |-> <<0, 0>>, consumer |-> c, owned |-> o,
     allowVirtualHold |-> h, maxQueuePushes |-> p, maxStateExpansions |-> x]

Consumers == {<<0, 0>>, <<0, 1>>, <<1, 1>>}

Ample ==
    UNION {{Request(t[1], t[2], t[3], c, o, h, 99, 99) :
              c \in Consumers, o \in SUBSET Near(t[1]), h \in BOOLEAN} :
           t \in {<<1, 1, 0>>, <<2, 1, 1>>, <<2, 2, 0>>}}

Short ==
    {Request(2, 1, 1, <<1, 1>>, o, TRUE, p, x) :
        o \in {{}, {<<<<0, 0>>, "South", 1>>}}, p \in Pushes, x \in Expansions}

Detour ==
    Request(8, 2, 0, <<0, 2>>,
            {<<<<0, 0>>, "East", k>> : k \in 0 .. 4}
            \cup {<<t, "East", k>> : t \in {<<0, 1>>, <<1, 1>>}, k \in 0 .. 7}
            \cup {<<<<1, 0>>, "North", k>> : k \in 0 .. 7}
            \cup {<<<<1, 1>>, "North", 5>>},
            TRUE, 99, 99)

MCRequests == Ample \cup Short \cup {Detour}
=============================================================================
