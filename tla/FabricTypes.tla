---------------------------- MODULE FabricTypes -----------------------------
(***************************************************************************)
(* The vocabulary of the array: the mesh of tiles, values that may be      *)
(* absent, and the control word every tile executes in a cycle.            *)
(***************************************************************************)
EXTENDS Integers

CONSTANTS
    ROWS, COLS,         \* size of the mesh
    LsuTiles,           \* HAS_LSU_MASK: the tiles that have a memory port
    Words,              \* the values of a data word
    DATA_RF_DEPTH,      \* data registers per tile
    PRED_RF_DEPTH,      \* predicate registers per tile
    SCRATCHPAD_DEPTH,   \* words of the shared scratchpad
    ConstMem            \* the constant memories, as the host configured them

Tiles == (0 .. ROWS - 1) \X (0 .. COLS - 1)

ASSUME FabricAssumption ==
    /\ ROWS \in Nat /\ COLS \in Nat
    /\ LsuTiles \subseteq Tiles
    /\ Words \subseteq Nat
    /\ 0 \in Words
    /\ DATA_RF_DEPTH \in Nat
    /\ PRED_RF_DEPTH \in Nat
    /\ SCRATCHPAD_DEPTH \in Nat
    /\ \A t \in Tiles : \A c \in DOMAIN ConstMem[t] : c \in Nat /\ ConstMem[t][c] \in Words

Dirs == {"N", "S", "E", "W"}

Opposite == [d \in Dirs |->
    CASE d = "N" -> "S" [] d = "S" -> "N" [] d = "E" -> "W" [] d = "W" -> "E"]

\* The tile on the d side of t; outside Tiles at the boundary of the mesh.
Neighbour(t, d) ==
    CASE d = "N" -> <<t[1] - 1, t[2]>>
      [] d = "S" -> <<t[1] + 1, t[2]>>
      [] d = "E" -> <<t[1], t[2] + 1>>
      [] d = "W" -> <<t[1], t[2] - 1>>

Addrs == 0 .. SCRATCHPAD_DEPTH - 1
DataRegs == 0 .. DATA_RF_DEPTH - 1
PredRegs == 0 .. PRED_RF_DEPTH - 1

\* A value on a link, from a functional unit or from the memory: it may be
\* absent, and then its bits are 0.
LinkValue == [valid : BOOLEAN, value : Words]
PredValue == [valid : BOOLEAN, value : {0, 1}]

Valid(v) == [valid |-> TRUE, value |-> v]
Absent == [valid |-> FALSE, value |-> 0]

-----------------------------------------------------------------------------
(* Control words.  A disabled register write has address NoAddr; a         *)
(* disabled route has source "OFF" ("NONE" is the enabled route whose      *)
(* source field is NONE).                                                  *)

NoAddr == -1

DataSources == {"RF_A", "RF_B", "CONST", "LSU", "ZERO"} \cup Dirs
PredSources == {"RF_A", "RF_B", "TRUE", "FALSE"} \cup Dirs

\* tile_control_word_t.
ControlWord ==
    [op : STRING,
     src_a : DataSources, src_b : DataSources,
     src_p0 : PredSources, src_p1 : PredSources,
     data_ra : DataRegs, data_rb : DataRegs,
     pred_ra : PredRegs, pred_rb : PredRegs,
     data_w0 : DataRegs \cup {NoAddr},
     data_w1 : DataRegs \cup {NoAddr}, data_w1_src : DataSources,
     pred_w0 : PredRegs \cup {NoAddr},
     pred_w1 : PredRegs \cup {NoAddr}, pred_w1_src : PredSources,
     data_route : [Dirs -> DataSources \cup {"FU", "NONE", "OFF"}],
     pred_route : [Dirs -> PredSources \cup {"FU", "NONE", "OFF"}],
     const : Nat,
     lsu : {"NONE", "LOAD", "STORE", "RESERVED"},
     lsu_addr : DataSources, lsu_data : DataSources,
     commit_pred : BOOLEAN, commit_invert : BOOLEAN,
     commit_src : PredSources]

NoRoute == [d \in Dirs |-> "OFF"]

\* TileControl(): the word of a slot no program entry fills.
DefaultWord ==
    [op |-> "NOP", src_a |-> "ZERO", src_b |-> "ZERO",
     src_p0 |-> "FALSE", src_p1 |-> "FALSE",
     data_ra |-> 0, data_rb |-> 0, pred_ra |-> 0, pred_rb |-> 0,
     data_w0 |-> NoAddr, data_w1 |-> NoAddr, data_w1_src |-> "ZERO",
     pred_w0 |-> NoAddr, pred_w1 |-> NoAddr, pred_w1_src |-> "FALSE",
     data_route |-> NoRoute, pred_route |-> NoRoute,
     const |-> 0, lsu |-> "NONE", lsu_addr |-> "ZERO", lsu_data |-> "ZERO",
     commit_pred |-> FALSE, commit_invert |-> FALSE, commit_src |-> "FALSE"]

\* The word of 0 bits that the RUN gate presents outside a run: source code 0
\* is RF_A, and the default of a route is disabled.
ZeroWord ==
    [DefaultWord EXCEPT
       !.src_a = "RF_A", !.src_b = "RF_A", !.src_p0 = "RF_A",
       !.src_p1 = "RF_A", !.data_w1_src = "RF_A", !.pred_w1_src = "RF_A",
       !.lsu_addr = "RF_A", !.lsu_data = "RF_A", !.commit_src = "RF_A"]
=============================================================================
