------------------------------ MODULE RtlArray ------------------------------
(***************************************************************************)
(* The array as rtl/ builds it: mesh.sv, tile.sv and the modules a tile    *)
(* instantiates, and the shared scratchpad.  RtlCycle(words, cfg) is one   *)
(* rising clock edge with control word words[t] at tile t and the host's   *)
(* scratchpad write cfg.                                                   *)
(*                                                                         *)
(* The model is the simulation build: every $fatal of these modules sets   *)
(* fatal and the simulation stops there.  Register files have no reset     *)
(* value: their contents start out arbitrary.                              *)
(***************************************************************************)
EXTENDS FabricTypes

CONSTANTS
    RtlFu(_, _, _, _, _),   \* fu.sv: op, a, b, p0, p1
    PowerUp                 \* what the register files may hold at power-up

ASSUME PowerUpAssumption == PowerUp \subseteq Words \X {0, 1}

VARIABLES
    data_mem, data_initialized,   \* data_rf.sv
    pred_mem, pred_initialized,   \* pred_rf.sv
    data_link, pred_link,         \* the registered outputs of every tile
    load_q0, load_resp,           \* the two stages of the LSU's load pipe
    scratchpad_mem,               \* shared_scratchpad.sv
    fatal                         \* the simulation has stopped on $fatal

rtlVars == <<data_mem, data_initialized, pred_mem, pred_initialized,
             data_link, pred_link, load_q0, load_resp, scratchpad_mem, fatal>>

NoLink == [t \in Tiles |-> [d \in Dirs |-> Absent]]

RtlInit(memory) ==
    /\ \E junk \in PowerUp :
          /\ data_mem = [t \in Tiles |-> [r \in DataRegs |-> junk[1]]]
          /\ pred_mem = [t \in Tiles |-> [r \in PredRegs |-> junk[2]]]
    /\ data_initialized = [t \in Tiles |-> {}]
    /\ pred_initialized = [t \in Tiles |-> {}]
    /\ data_link = NoLink
    /\ pred_link = NoLink
    /\ load_q0 = [t \in Tiles |-> Absent]
    /\ load_resp = [t \in Tiles |-> Absent]
    /\ scratchpad_mem = memory
    /\ fatal = FALSE

-----------------------------------------------------------------------------
(* Operand selection                                                       *)

LinkIn_SameSide(link, t, d) ==
    IF Neighbour(t, d) \in Tiles THEN link[Neighbour(t, d)][d] ELSE Absent

\* The wiring of the mesh: an input is the facing output of the neighbour.
LinkIn(link, t, d) ==
    IF Neighbour(t, d) \in Tiles
    THEN link[Neighbour(t, d)][Opposite[d]]
    ELSE Absent

data_src_mux(t, w, sel) ==
    CASE sel = "RF_A"  -> Valid(data_mem[t][w.data_ra])
      [] sel = "RF_B"  -> Valid(data_mem[t][w.data_rb])
      [] sel \in Dirs  -> LinkIn(data_link, t, sel)
      [] sel = "CONST" -> Valid(ConstMem[t][w.const])
      [] sel = "LSU"   -> load_resp[t]
      [] sel = "ZERO"  -> Valid(0)
      [] OTHER         -> Absent

pred_src_mux(t, w, sel) ==
    CASE sel = "RF_A"  -> Valid(pred_mem[t][w.pred_ra])
      [] sel = "RF_B"  -> Valid(pred_mem[t][w.pred_rb])
      [] sel \in Dirs  -> LinkIn(pred_link, t, sel)
      [] sel = "TRUE"  -> Valid(1)
      [] sel = "FALSE" -> Valid(0)
      [] OTHER         -> Absent

fu(t, w) ==
    RtlFu(w.op,
          data_src_mux(t, w, w.src_a).value, data_src_mux(t, w, w.src_b).value,
          pred_src_mux(t, w, w.src_p0).value, pred_src_mux(t, w, w.src_p1).value)

data_switchbox(t, w, src) ==
    IF src = "FU" THEN fu(t, w).data ELSE data_src_mux(t, w, src)

pred_switchbox(t, w, src) ==
    IF src = "FU" THEN fu(t, w).pred ELSE pred_src_mux(t, w, src)

op_uses_data_a_Nop(op) ==
    op \notin {"PPASS", "PNOT", "PAND", "POR"}

op_uses_data_a(op) ==
    op \notin {"NOP", "PPASS", "PNOT", "PAND", "POR"}
op_uses_data_b(op) == op_uses_data_a(op) /\ op # "PASS"
op_uses_pred_p0(op) == op \in {"SELECT", "PPASS", "PNOT", "PAND", "POR"}
op_uses_pred_p1(op) == op \in {"PAND", "POR"}

When(cond, S) == IF cond THEN S ELSE {}

\* The data sources that something of the word consumes.
DataConsumed(w) ==
    When(op_uses_data_a(w.op), {w.src_a}) \cup
    When(op_uses_data_b(w.op), {w.src_b}) \cup
    When(w.data_w1 # NoAddr, {w.data_w1_src}) \cup
    When(w.lsu \in {"LOAD", "STORE"}, {w.lsu_addr}) \cup
    When(w.lsu = "STORE", {w.lsu_data}) \cup
    {w.data_route[d] : d \in {e \in Dirs : w.data_route[e] # "OFF"}}

PredConsumed(w) ==
    When(op_uses_pred_p0(w.op), {w.src_p0}) \cup
    When(op_uses_pred_p1(w.op), {w.src_p1}) \cup
    When(w.pred_w1 # NoAddr, {w.pred_w1_src}) \cup
    When(w.lsu = "STORE" /\ w.commit_pred, {w.commit_src}) \cup
    {w.pred_route[d] : d \in {e \in Dirs : w.pred_route[e] # "OFF"}}

\* The registers read through the ports that are enabled.
DataReads(w) ==
    When("RF_A" \in DataConsumed(w), {w.data_ra}) \cup
    When("RF_B" \in DataConsumed(w), {w.data_rb})

PredReads(w) ==
    When("RF_A" \in PredConsumed(w), {w.pred_ra}) \cup
    When("RF_B" \in PredConsumed(w), {w.pred_rb})

-----------------------------------------------------------------------------
(* Load/store units and the shared scratchpad                              *)

lsu_addr(t, w) == data_src_mux(t, w, w.lsu_addr)

commit_allow(t, w) ==
    \/ ~w.commit_pred
    \/ LET p == pred_src_mux(t, w, w.commit_src)
       IN  p.valid /\ (IF w.commit_invert THEN p.value = 0 ELSE p.value = 1)

issue_load(t, w) ==
    t \in LsuTiles /\ w.lsu = "LOAD" /\ lsu_addr(t, w).valid

store_commit(t, w) ==
    /\ t \in LsuTiles
    /\ w.lsu = "STORE"
    /\ lsu_addr(t, w).valid
    /\ data_src_mux(t, w, w.lsu_data).valid
    /\ commit_allow(t, w)

mem_req_valid(t, w) == issue_load(t, w) \/ store_commit(t, w)

same_address_conflict_AlsoLoads(words) ==
    \E t, u \in LsuTiles :
        /\ t # u
        /\ mem_req_valid(t, words[t])
        /\ mem_req_valid(u, words[u])
        /\ lsu_addr(t, words[t]) = lsu_addr(u, words[u])

\* "policy=multi_load_only": ports may share an address only to read it.
same_address_conflict(words) ==
    \E t, u \in LsuTiles :
        /\ t # u
        /\ mem_req_valid(t, words[t])
        /\ mem_req_valid(u, words[u])
        /\ lsu_addr(t, words[t]) = lsu_addr(u, words[u])
        /\ store_commit(t, words[t]) \/ store_commit(u, words[u])

\* cfg is the host's write in this cycle: {} or {<<address, value>>}.
ScratchpadAfter(words, cfg) ==
    [a \in Addrs |->
        IF \E c \in cfg : c[1] = a THEN (CHOOSE c \in cfg : c[1] = a)[2]
        ELSE IF \E t \in LsuTiles :
              store_commit(t, words[t]) /\ lsu_addr(t, words[t]).value = a
        THEN LET t == CHOOSE t \in LsuTiles :
                        /\ store_commit(t, words[t])
                        /\ lsu_addr(t, words[t]).value = a
             IN  data_src_mux(t, words[t], words[t].lsu_data).value
        ELSE scratchpad_mem[a]]

-----------------------------------------------------------------------------
(* What the simulation build rejects                                       *)

rf_fatal_IgnoresEnable(reads, initialized, w0, w1) ==
    \/ \E r \in reads : r \notin initialized \/ r \in {w0, w1}
    \/ w0 = w1

\* data_rf.sv and pred_rf.sv: uninitialised reads, a read and a write of one
\* register in one cycle, both write ports on one register.
rf_fatal(reads, initialized, w0, w1) ==
    \/ \E r \in reads : r \notin initialized \/ r \in {w0, w1}
    \/ w0 # NoAddr /\ w0 = w1

src_fatal(t, w) ==
    \/ \E s \in DataConsumed(w) : ~data_switchbox(t, w, s).valid
    \/ \E s \in PredConsumed(w) : ~pred_switchbox(t, w, s).valid

lsu_fatal(t, w) ==
    \/ t \notin LsuTiles /\ w.lsu # "NONE"
    \/ w.lsu = "RESERVED"
    \/ w.lsu = "LOAD" /\ w.commit_pred
    \/ /\ w.lsu \in {"LOAD", "STORE"}
       /\ lsu_addr(t, w).valid
       /\ lsu_addr(t, w).value \notin Addrs

tile_fatal(t, w) ==
    \/ src_fatal(t, w)
    \/ rf_fatal(DataReads(w), data_initialized[t], w.data_w0, w.data_w1)
    \/ rf_fatal(PredReads(w), pred_initialized[t], w.pred_w0, w.pred_w1)
    \/ w.data_w0 # NoAddr /\ ~fu(t, w).data.valid
    \/ w.pred_w0 # NoAddr /\ ~fu(t, w).pred.valid
    \/ lsu_fatal(t, w)

RtlFatal(words, cfg) ==
    \/ \E t \in Tiles : tile_fatal(t, words[t])
    \/ same_address_conflict(words)
    \/ cfg # {} /\ \E t \in LsuTiles : mem_req_valid(t, words[t])

-----------------------------------------------------------------------------
(* One clock edge                                                          *)

data_rf_write_OnePort(t, w) ==
    [r \in DataRegs |->
        CASE r = w.data_w0 -> fu(t, w).data.value
          [] w.data_w0 = NoAddr /\ r = w.data_w1 ->
                 data_src_mux(t, w, w.data_w1_src).value
          [] OTHER         -> data_mem[t][r]]

data_rf_write(t, w) ==
    [r \in DataRegs |->
        CASE r = w.data_w0 -> fu(t, w).data.value
          [] r = w.data_w1 -> data_src_mux(t, w, w.data_w1_src).value
          [] OTHER         -> data_mem[t][r]]

pred_rf_write(t, w) ==
    [r \in PredRegs |->
        CASE r = w.pred_w0 -> fu(t, w).pred.value
          [] r = w.pred_w1 -> pred_src_mux(t, w, w.pred_w1_src).value
          [] OTHER         -> pred_mem[t][r]]

data_outputs(t, w) ==
    [d \in Dirs |->
        IF w.data_route[d] = "OFF" THEN Absent
        ELSE Valid(data_switchbox(t, w, w.data_route[d]).value)]

pred_outputs(t, w) ==
    [d \in Dirs |->
        IF w.pred_route[d] = "OFF" THEN Absent
        ELSE Valid(pred_switchbox(t, w, w.pred_route[d]).value)]

MarkWritten_IgnoresEnable(initialized, w0, w1) == initialized \cup {w0, w1}

MarkWritten(initialized, w0, w1) ==
    initialized \cup ({w0, w1} \ {NoAddr})

Fetched(t, w) ==
    IF issue_load(t, w) THEN Valid(scratchpad_mem[lsu_addr(t, w).value])
                        ELSE Absent

LoadPipe_OneStage(words) ==
    /\ load_resp' = [t \in Tiles |-> Fetched(t, words[t])]
    /\ UNCHANGED load_q0

LoadPipe(words) ==
    /\ load_resp' = load_q0
    /\ load_q0' = [t \in Tiles |-> Fetched(t, words[t])]

RtlEdge(words, cfg) ==
    /\ data_mem' = [t \in Tiles |-> data_rf_write(t, words[t])]
    /\ pred_mem' = [t \in Tiles |-> pred_rf_write(t, words[t])]
    /\ data_initialized' = [t \in Tiles |->
          MarkWritten(data_initialized[t], words[t].data_w0, words[t].data_w1)]
    /\ pred_initialized' = [t \in Tiles |->
          MarkWritten(pred_initialized[t], words[t].pred_w0, words[t].pred_w1)]
    /\ data_link' = [t \in Tiles |-> data_outputs(t, words[t])]
    /\ pred_link' = [t \in Tiles |-> pred_outputs(t, words[t])]
    /\ LoadPipe(words)
    /\ scratchpad_mem' = ScratchpadAfter(words, cfg)
    /\ UNCHANGED fatal

RtlCycle(words, cfg) ==
    /\ ~fatal
    /\ IF RtlFatal(words, cfg)
       THEN /\ fatal' = TRUE
            /\ UNCHANGED <<data_mem, data_initialized, pred_mem,
                           pred_initialized, data_link, pred_link, load_q0,
                           load_resp, scratchpad_mem>>
       ELSE RtlEdge(words, cfg)

\* The checks that do not look at rst_n.
reset_fatal(words) ==
    \/ \E t \in Tiles : src_fatal(t, words[t]) \/ lsu_fatal(t, words[t])
    \/ same_address_conflict(words)

\* An edge with rst_n low: the links and the load pipes are cleared, every
\* register counts as uninitialised again and none is written, but no memory
\* loses its contents.  The scratchpad has no reset, so that the stores of the
\* words still commit.
RtlReset(words) ==
    /\ data_initialized' = [t \in Tiles |-> {}]
    /\ pred_initialized' = [t \in Tiles |-> {}]
    /\ data_link' = NoLink
    /\ pred_link' = NoLink
    /\ load_q0' = [t \in Tiles |-> Absent]
    /\ load_resp' = [t \in Tiles |-> Absent]
    /\ scratchpad_mem' = ScratchpadAfter(words, {})
    /\ UNCHANGED <<data_mem, pred_mem, fatal>>
=============================================================================
