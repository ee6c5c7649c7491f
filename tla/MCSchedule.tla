----------------------------- MODULE MCSchedule -----------------------------
(***************************************************************************)
(* Small loop and flat programs for ScheduleReplay, on two tiles in a row  *)
(* that both have a memory port.                                           *)
(***************************************************************************)
EXTENDS ScheduleReplay, TLC

CONSTANTS
    WIDTH,
    Trips,         \* bound: kernel iterations
    MaxSpan        \* bound: prologue and kernel addresses together

F == INSTANCE FunctionalUnit

MCFu(op, a, b, p0, p1) == F!execute_fu(op, a, b, p0, p1)
MCWords == 0 .. 2 ^ WIDTH - 1
AllTiles == Tiles
MCConstMem == [t \in Tiles |-> 0 :> 1]
Image == [a \in Addrs |-> a]

\* The word a of the left tile and b of the right tile.
Pair(a, b) == [t \in Tiles |-> IF t[2] = 0 THEN a ELSE b]

Idle == DefaultWord
Send == [DefaultWord EXCEPT !.data_route["E"] = "CONST",
                            !.pred_route["E"] = "TRUE"]
Receive == [DefaultWord EXCEPT !.data_w1 = 0, !.data_w1_src = "W"]
Guarded == [DefaultWord EXCEPT !.op = "SELECT", !.src_b = "RF_A",
                               !.src_p0 = "W", !.data_w0 = 1]
Load == [DefaultWord EXCEPT !.lsu = "LOAD", !.lsu_addr = "CONST"]
Keep == [DefaultWord EXCEPT !.data_w1 = 0, !.data_w1_src = "LSU"]
Store == [DefaultWord EXCEPT !.lsu = "STORE", !.lsu_addr = "CONST",
                             !.lsu_data = "RF_A"]
Both == [DefaultWord EXCEPT !.lsu = "LOAD", !.lsu_addr = "CONST",
                            !.data_w1 = 1, !.data_w1_src = "LSU"]
NoResult == [DefaultWord EXCEPT !.data_route["E"] = "FU"]

\* Addresses are constants and no store is guarded: what a cycle does to the
\* structure of the state does not depend on any value.
FixedWords ==
    {Pair(Idle, Idle), Pair(Send, Idle), Pair(Idle, Receive),
     Pair(Send, Receive), Pair(Idle, Guarded), Pair(Load, Idle),
     Pair(Keep, Idle), Pair(Both, Idle), Pair(Load, Store),
     Pair(Idle, Store), Pair(NoResult, Idle)}

LoopPrograms(words) ==
    UNION {[enabled : {TRUE}, prologue : {s[1]}, ii : {s[2]}, trip : Trips,
            epilogue : {0, 1}, image : {Image}, words : [0 .. s[1] + s[2] - 1 -> words]] :
              s \in {x \in (0 .. 2) \X (1 .. 2) : x[1] + x[2] =< MaxSpan}}

\* One word closes every loop: the epilogue keeps a load that is under way.
WithEpilogue(p) ==
    [p EXCEPT !.words = IF p.epilogue = 0 THEN @
                        ELSE @ @@ (p.prologue + p.ii :> Pair(Keep, Idle))]

FixedLoops == {WithEpilogue(p) : p \in LoopPrograms(FixedWords)}

FixedFlat ==
    [enabled : {FALSE}, run_cycles : {3}, image : {Image},
     words : [0 .. 2 -> FixedWords]]

FixedPrograms == FixedLoops \cup FixedFlat

\* A kernel that loads through an address it increments: r0 is the address,
\* r1 the next one.
Clear == [DefaultWord EXCEPT !.data_w1 = 0, !.data_w1_src = "ZERO"]
Increment == [DefaultWord EXCEPT !.op = "ADD", !.src_a = "RF_A",
                                 !.src_b = "CONST", !.data_w0 = 1,
                                 !.lsu = "LOAD", !.lsu_addr = "RF_A"]
Advance == [DefaultWord EXCEPT !.data_ra = 1, !.data_w1 = 0,
                               !.data_w1_src = "RF_A"]

MovingLoops ==
    [enabled : {TRUE}, prologue : {1}, ii : {2}, trip : Trips, epilogue : {0},
     image : {Image},
     words : {0 :> Pair(Clear, Idle) @@ 1 :> Pair(Increment, Idle)
                @@ 2 :> Pair(Advance, Idle)}]
=============================================================================
