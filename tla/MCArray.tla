------------------------------ MODULE MCArray -------------------------------
(***************************************************************************)
(* A column of three tiles, of which the upper two have a memory port, and *)
(* the menus of lines its programs are made of.  Every cycle takes any     *)
(* line of the menu, so a run of TLC covers every schedule over it.        *)
(***************************************************************************)
EXTENDS ArrayLockstep, TLC

CONSTANTS WIDTH

F == INSTANCE FunctionalUnit

MCRtlFu(op, a, b, p0, p1) == F!fu_sv(op, a, b, p0, p1)
MCGoldFu(op, a, b, p0, p1) == F!execute_fu(op, a, b, p0, p1)

MCWords == 0 .. 2 ^ WIDTH - 1
UpperTiles == {<<0, 0>>, <<1, 0>>}
MCConstMem == [t \in Tiles |-> (0 :> 1) @@ (1 :> 2 % 2 ^ WIDTH)]
MCPowerUp == {<<2 ^ WIDTH - 1, 1>>}
MCImages == {[a \in Addrs |-> a]}

Toward(d, src) == [NoRoute EXCEPT ![d] = src]

\* A line: words of the three tiles, from the top.
Line(a, b, c) == [t \in Tiles |-> <<a, b, c>>[t[1] + 1]]

\* One tile: every operation on registers, constants and predicates, through
\* both write ports, with every way two ports can collide.
Ops == {"NOP", "PASS", "ADD", "SUB", "MUL", "AND", "OR", "XOR", "SHL", "LSHR",
        "SELECT", "CMP_EQ", "CMP_NE", "CMP_ULT", "CMP_ULE", "PPASS", "PNOT",
        "PAND", "POR"}

TileWords ==
    {[DefaultWord EXCEPT !.op = op, !.src_a = "RF_A", !.src_b = b,
          !.src_p0 = "RF_A", !.src_p1 = "TRUE", !.data_w0 = dst[1],
          !.pred_w0 = dst[2], !.const = 1] :
        op \in Ops, b \in {"CONST", "RF_B"},
        dst \in {<<1, NoAddr>>, <<NoAddr, 1>>}}
    \cup
    {[DefaultWord EXCEPT !.data_w1 = r, !.data_w1_src = s] :
        r \in {0, 1}, s \in {"CONST", "RF_B"}}
    \cup
    {[DefaultWord EXCEPT !.pred_w1 = 0, !.pred_w1_src = s] :
        s \in {"TRUE", "RF_B"}}
    \cup
    {[DefaultWord EXCEPT !.op = "PASS", !.src_a = "CONST", !.data_w0 = 0,
          !.data_w1 = r, !.data_w1_src = "ZERO"] : r \in {0, 1}}

\* Two tiles that share the memory: loads, stores and predicated
\* stores of both ports, load results used, stored and sent to the neighbour.
MemoryWords ==
    {DefaultWord,
     [DefaultWord EXCEPT !.lsu = "LOAD", !.lsu_addr = "ZERO"],
     [DefaultWord EXCEPT !.lsu = "LOAD", !.lsu_addr = "CONST"],
     [DefaultWord EXCEPT !.lsu = "STORE", !.lsu_addr = "CONST",
                         !.lsu_data = "LSU"],
     [DefaultWord EXCEPT !.lsu = "STORE", !.lsu_addr = "LSU",
                         !.lsu_data = "CONST"],
     [DefaultWord EXCEPT !.op = "ADD", !.src_a = "LSU", !.src_b = "CONST",
                         !.data_w0 = 0, !.data_route = Toward("S", "FU")],
     [DefaultWord EXCEPT !.lsu = "LOAD", !.lsu_addr = "N",
                         !.data_w1 = 0, !.data_w1_src = "N"],
     [DefaultWord EXCEPT !.op = "CMP_EQ", !.src_a = "RF_A",
                         !.src_b = "CONST", !.pred_w0 = 0],
     [DefaultWord EXCEPT !.lsu = "STORE", !.lsu_addr = "CONST",
                         !.lsu_data = "ZERO", !.commit_pred = TRUE,
                         !.commit_invert = TRUE, !.commit_src = "RF_A"]}

\* Two tiles, one memory port: data and predicates routed both
\* ways, forwarded, dropped at the boundary and used on arrival.
RouteWords ==
    {DefaultWord,
     [DefaultWord EXCEPT !.data_route = Toward("S", "CONST")],
     [DefaultWord EXCEPT !.data_route = Toward("N", "CONST")],
     [DefaultWord EXCEPT !.data_route = Toward("N", "CONST"), !.const = 1,
                         !.pred_route = Toward("S", "TRUE")],
     [DefaultWord EXCEPT !.data_route = Toward("S", "S"),
                         !.pred_route = Toward("N", "N")],
     [DefaultWord EXCEPT !.op = "SELECT", !.src_a = "N", !.src_b = "CONST",
                         !.src_p0 = "N", !.data_w0 = 0,
                         !.data_route = Toward("N", "FU")],
     [DefaultWord EXCEPT !.op = "CMP_ULT", !.src_a = "S", !.src_b = "RF_A",
                         !.pred_route = Toward("N", "FU")],
     [DefaultWord EXCEPT !.op = "PNOT", !.src_p0 = "S", !.pred_w0 = 0,
                         !.pred_route = Toward("S", "FU")],
     [DefaultWord EXCEPT !.lsu = "LOAD", !.lsu_addr = "S"],
     [DefaultWord EXCEPT !.data_w1 = 0, !.data_w1_src = "LSU",
                         !.data_route = Toward("S", "LSU")]}

\* Routes that select a functional-unit result the operation does not have.
UncheckedWords ==
    {DefaultWord,
     [DefaultWord EXCEPT !.data_route = Toward("S", "FU")],
     [DefaultWord EXCEPT !.op = "PASS", !.src_a = "N", !.data_w0 = 0],
     [DefaultWord EXCEPT !.op = "ADD", !.pred_route = Toward("N", "FU")],
     [DefaultWord EXCEPT !.op = "PPASS", !.src_p0 = "S", !.pred_w0 = 0]}

MCMenus ==
    "tile" :> [lines |-> {Line(w, DefaultWord, DefaultWord) : w \in TileWords},
               cycles |-> 4, runs |-> 2]
    @@ "memory" :> [lines |-> {Line(v, w, DefaultWord) : v, w \in MemoryWords},
                    cycles |-> 5, runs |-> 1]
    @@ "route" :> [lines |-> {Line(DefaultWord, v, w) : v, w \in RouteWords},
                   cycles |-> 4, runs |-> 2]

MCUncheckedMenus ==
    "unchecked" :> [lines |-> {Line(v, w, DefaultWord) : v, w \in UncheckedWords},
                    cycles |-> 3, runs |-> 1]
=============================================================================
