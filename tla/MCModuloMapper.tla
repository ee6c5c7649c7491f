--------------------------- MODULE MCModuloMapper ---------------------------
(***************************************************************************)
(* Two or three operations on two tiles joined by two links, under ample   *)
(* and under short budgets, over two intervals.                            *)
(***************************************************************************)
EXTENDS ModuloMapper, TLC

CONSTANTS t0, t1, Attempts, Backtracks, Routes

Link(s, d, k, i) == [src |-> s, dst |-> d, kind |-> k, distance |-> i]

Pair ==
    [tiles |-> 1 :> {t0, t1} @@ 2 :> {t0, t1}, class |-> 1 :> "FU" @@ 2 :> "FU",
     occupancy |-> 1 :> 1 @@ 2 :> 2,
     edges |-> 1 :> Link(1, 2, "Data", 0) @@ 2 :> Link(2, 1, "Data", 1)]

Memory ==
    [tiles |-> 1 :> {t0} @@ 2 :> {t0, t1} @@ 3 :> {t1},
     class |-> 1 :> "LSU" @@ 2 :> "FU" @@ 3 :> "LSU",
     occupancy |-> 1 :> 1 @@ 2 :> 1 @@ 3 :> 1,
     edges |-> 1 :> Link(1, 2, "Data", 0) @@ 2 :> Link(2, 3, "Data", 0)
                 @@ 3 :> Link(3, 1, "Memory", 1) @@ 4 :> Link(2, 2, "Data", 1)]

\* The third operation multiplies the mappings of the first interval; in the
\* second the route of the first two may fail at every candidate.
Isolated ==
    [tiles |-> 1 :> {t0} @@ 2 :> {t1} @@ 3 :> {t0, t1},
     class |-> 1 :> "FU" @@ 2 :> "FU" @@ 3 :> "LSU",
     occupancy |-> 1 :> 1 @@ 2 :> 1 @@ 3 :> 1,
     edges |-> 1 :> Link(1, 2, "Data", 0)]

Limits(m, lo, hi, a, b, r) ==
    [mii |-> m, minII |-> lo, maxII |-> hi, maxAttempts |-> a,
     maxBacktracks |-> b, maxRoutes |-> r, allowVirtualHold |-> TRUE]

MCJobs ==
    {g @@ Limits(1, 0, 2, a, b, r) :
        g \in {Pair, Memory}, a \in Attempts, b \in Backtracks, r \in Routes}
    \cup {Isolated @@ Limits(1, 0, 2, 20, 4, 10)}
    \cup {[Pair @@ Limits(1, 0, 2, 9, 4, 9) EXCEPT !.allowVirtualHold = FALSE]}
    \cup {Pair @@ Limits(2, 0, 0, 9, 9, 9), Pair @@ Limits(1, 2, 1, 9, 9, 9)}
=============================================================================
