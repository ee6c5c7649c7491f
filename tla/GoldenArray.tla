---------------------------- MODULE GoldenArray -----------------------------
(***************************************************************************)
(* The cycle-level golden model: SingleTileGolden and MultiTileGolden of   *)
(* model/golden_model.py.  GoldenStep(words) is one call of                *)
(* MultiTileGolden.step; where the code raises GoldenModelError the model  *)
(* sets error and the run is over.                                         *)
(***************************************************************************)
EXTENDS FabricTypes

CONSTANTS
    GoldFu(_, _, _, _, _),   \* execute_fu: op, a, b, p0, p1
    LOAD_LATENCY             \* load_latency of the target description

VARIABLES
    data_rf, data_valid,     \* SingleTileGolden, per tile
    pred_rf, pred_valid,
    data_inputs, pred_inputs,
    pending_loads,           \* per tile: the <<ready cycle, value>> pairs
    shared_scratchpad,
    cycle,
    error

goldVars == <<data_rf, data_valid, pred_rf, pred_valid, data_inputs,
              pred_inputs, pending_loads, shared_scratchpad, cycle, error>>

NoInput == [t \in Tiles |-> [d \in Dirs |-> Absent]]

\* A new MultiTileGolden with the manifest's scratchpad image.
GoldenInit(memory) ==
    /\ data_rf = [t \in Tiles |-> [r \in DataRegs |-> 0]]
    /\ data_valid = [t \in Tiles |-> {}]
    /\ pred_rf = [t \in Tiles |-> [r \in PredRegs |-> 0]]
    /\ pred_valid = [t \in Tiles |-> {}]
    /\ data_inputs = NoInput
    /\ pred_inputs = NoInput
    /\ pending_loads = [t \in Tiles |-> {}]
    /\ shared_scratchpad = memory
    /\ cycle = 0
    /\ error = FALSE

\* The same, replacing the one of the last run.
GoldenNew(memory) ==
    /\ data_rf' = [t \in Tiles |-> [r \in DataRegs |-> 0]]
    /\ data_valid' = [t \in Tiles |-> {}]
    /\ pred_rf' = [t \in Tiles |-> [r \in PredRegs |-> 0]]
    /\ pred_valid' = [t \in Tiles |-> {}]
    /\ data_inputs' = NoInput
    /\ pred_inputs' = NoInput
    /\ pending_loads' = [t \in Tiles |-> {}]
    /\ shared_scratchpad' = memory
    /\ cycle' = 0
    /\ error' = FALSE

-----------------------------------------------------------------------------
(* Sources                                                                 *)

LoadResponse(t) ==
    IF \E p \in pending_loads[t] : p[1] = cycle
    THEN Valid((CHOOSE p \in pending_loads[t] : p[1] = cycle)[2])
    ELSE Absent

data_source(t, w, src) ==
    CASE src = "RF_A"  -> Valid(data_rf[t][w.data_ra])
      [] src = "RF_B"  -> Valid(data_rf[t][w.data_rb])
      [] src = "CONST" -> Valid(ConstMem[t][w.const])
      [] src = "ZERO"  -> Valid(0)
      [] src = "LSU"   -> LoadResponse(t)
      [] src \in Dirs  -> data_inputs[t][src]
      [] OTHER         -> Absent

pred_source(t, w, src) ==
    CASE src = "RF_A"  -> Valid(pred_rf[t][w.pred_ra])
      [] src = "RF_B"  -> Valid(pred_rf[t][w.pred_rb])
      [] src = "TRUE"  -> Valid(1)
      [] src = "FALSE" -> Valid(0)
      [] src \in Dirs  -> pred_inputs[t][src]
      [] OTHER         -> Absent

Executed(t, w) ==
    GoldFu(w.op,
           data_source(t, w, w.src_a).value, data_source(t, w, w.src_b).value,
           pred_source(t, w, w.src_p0).value, pred_source(t, w, w.src_p1).value)

\* data_ctx["FU_DATA_RESULT"] is set whether or not the operation has a data
\* result: a route of it never fails.
data_route_source(t, w, src) ==
    IF src = "FU" THEN Valid(Executed(t, w).data.value)
                  ELSE data_source(t, w, src)

pred_route_source(t, w, src) ==
    IF src = "FU" THEN Valid(Executed(t, w).pred.value)
                  ELSE pred_source(t, w, src)

Only(cond, S) == IF cond THEN S ELSE {}

\* src_a and src_b are evaluated whatever the operation is.
DataSelected(w) ==
    {w.src_a, w.src_b} \cup
    Only(w.data_w1 # NoAddr, {w.data_w1_src}) \cup
    Only(w.lsu # "NONE", {w.lsu_addr}) \cup
    Only(w.lsu = "STORE", {w.lsu_data}) \cup
    {w.data_route[d] : d \in {e \in Dirs : w.data_route[e] # "OFF"}}

PredSelected(w) ==
    {w.src_p0, w.src_p1} \cup
    Only(w.pred_w1 # NoAddr, {w.pred_w1_src}) \cup
    Only(w.lsu = "STORE" /\ w.commit_pred, {w.commit_src}) \cup
    {w.pred_route[d] : d \in {e \in Dirs : w.pred_route[e] # "OFF"}}

data_read_addrs(w) ==
    Only("RF_A" \in DataSelected(w), {w.data_ra}) \cup
    Only("RF_B" \in DataSelected(w), {w.data_rb})

pred_read_addrs(w) ==
    Only("RF_A" \in PredSelected(w), {w.pred_ra}) \cup
    Only("RF_B" \in PredSelected(w), {w.pred_rb})

-----------------------------------------------------------------------------
(* Memory requests                                                         *)

store_committed(t, w) ==
    /\ w.lsu = "STORE"
    /\ w.commit_pred =>
         (pred_source(t, w, w.commit_src).value = 1) # w.commit_invert

\* The LsuRequest of a tile, as [store, address, data]; {} when there is none.
Request(t, w) ==
    Only(w.lsu = "LOAD" \/ store_committed(t, w),
         {[tile |-> t, store |-> w.lsu = "STORE",
           address |-> data_source(t, w, w.lsu_addr).value,
           data |-> data_source(t, w, w.lsu_data).value]})

Requests(words) == UNION {Request(t, words[t]) : t \in Tiles}

StoreConflict(words) ==
    \E p, q \in Requests(words) :
        p # q /\ p.address = q.address /\ (p.store \/ q.store)

-----------------------------------------------------------------------------
(* What raises GoldenModelError                                            *)

check_read_write_hazards(reads, valid, w0, w1) ==
    \/ \E r \in reads : r \in {w0, w1} \/ r \notin valid
    \/ w0 # NoAddr /\ w0 = w1

lsu_error(t, w) ==
    /\ w.lsu # "NONE"
    /\ \/ t \notin LsuTiles
       \/ w.lsu = "RESERVED"
       \/ w.lsu = "LOAD" /\ w.commit_pred
       \/ data_source(t, w, w.lsu_addr).value \notin Addrs

tile_error(t, w) ==
    \/ \E s \in DataSelected(w) : ~data_route_source(t, w, s).valid
    \/ \E s \in PredSelected(w) : ~pred_route_source(t, w, s).valid
    \/ check_read_write_hazards(data_read_addrs(w), data_valid[t],
                                w.data_w0, w.data_w1)
    \/ check_read_write_hazards(pred_read_addrs(w), pred_valid[t],
                                w.pred_w0, w.pred_w1)
    \/ w.data_w0 # NoAddr /\ ~Executed(t, w).data.valid
    \/ w.pred_w0 # NoAddr /\ ~Executed(t, w).pred.valid
    \/ lsu_error(t, w)

\* A second response for one tile and cycle is an error as well.
GoldenRaises(words) ==
    \/ \E t \in Tiles : tile_error(t, words[t])
    \/ StoreConflict(words)
    \/ \E q \in Requests(words) : \E p \in pending_loads[q.tile] :
          ~q.store /\ p[1] = cycle + LOAD_LATENCY

-----------------------------------------------------------------------------
(* MultiTileGolden.step                                                    *)

\* What every tile receives when tile t sends sent[t][d] towards d.
route_outputs(sent) ==
    [t \in Tiles |-> [d \in Dirs |->
        IF Neighbour(t, d) \in Tiles THEN sent[Neighbour(t, d)][Opposite[d]]
                                     ELSE Absent]]

data_sent(words) ==
    [t \in Tiles |-> [d \in Dirs |->
        IF words[t].data_route[d] = "OFF" THEN Absent
        ELSE Valid(data_route_source(t, words[t], words[t].data_route[d]).value)]]

pred_sent(words) ==
    [t \in Tiles |-> [d \in Dirs |->
        IF words[t].pred_route[d] = "OFF" THEN Absent
        ELSE Valid(pred_route_source(t, words[t], words[t].pred_route[d]).value)]]

write_data_rf(t, w) ==
    [r \in DataRegs |->
        CASE r = w.data_w0 -> Executed(t, w).data.value
          [] r = w.data_w1 -> data_source(t, w, w.data_w1_src).value
          [] OTHER         -> data_rf[t][r]]

write_pred_rf(t, w) ==
    [r \in PredRegs |->
        CASE r = w.pred_w0 -> Executed(t, w).pred.value
          [] r = w.pred_w1 -> pred_source(t, w, w.pred_w1_src).value
          [] OTHER         -> pred_rf[t][r]]

\* Loads read the memory as it was before this cycle's stores.
resolve_memory(words) ==
    /\ pending_loads' = [t \in Tiles |->
          {p \in pending_loads[t] : p[1] # cycle} \cup
          {<<cycle + LOAD_LATENCY, shared_scratchpad[q.address]>> :
              q \in {r \in Request(t, words[t]) : ~r.store}}]
    /\ shared_scratchpad' = [a \in Addrs |->
          IF \E q \in Requests(words) : q.store /\ q.address = a
          THEN (CHOOSE q \in Requests(words) : q.store /\ q.address = a).data
          ELSE shared_scratchpad[a]]

GoldenAdvance(words) ==
    /\ data_rf' = [t \in Tiles |-> write_data_rf(t, words[t])]
    /\ pred_rf' = [t \in Tiles |-> write_pred_rf(t, words[t])]
    /\ data_valid' = [t \in Tiles |-> data_valid[t] \cup
            ({words[t].data_w0, words[t].data_w1} \ {NoAddr})]
    /\ pred_valid' = [t \in Tiles |-> pred_valid[t] \cup
            ({words[t].pred_w0, words[t].pred_w1} \ {NoAddr})]
    /\ data_inputs' = route_outputs(data_sent(words))
    /\ pred_inputs' = route_outputs(pred_sent(words))
    /\ resolve_memory(words)
    /\ cycle' = cycle + 1
    /\ UNCHANGED error

GoldenStep(words) ==
    /\ ~error
    /\ IF GoldenRaises(words)
       THEN /\ error' = TRUE
            /\ UNCHANGED <<data_rf, data_valid, pred_rf, pred_valid,
                           data_inputs, pred_inputs, pending_loads,
                           shared_scratchpad, cycle>>
       ELSE GoldenAdvance(words)
=============================================================================
