-------------------------- MODULE ScheduleChecker ---------------------------
(***************************************************************************)
(* tools/check_schedule.py: the static check of a program before it is     *)
(* simulated.  The checker executes the control words cycle by cycle on    *)
(* its own state and collects diagnostics; a loop is not unrolled but      *)
(* executed for a bounded number of kernel periods, after which the        *)
(* structure of the state must have stopped changing.                      *)
(*                                                                         *)
(* The state is a record s.  A diagnostic is never withdrawn, so the       *)
(* model stops at the first cycle that has one: until then every value the *)
(* checker holds is known (its None marks a value after a diagnostic).     *)
(***************************************************************************)
EXTENDS FabricTypes

CONSTANTS
    ChkFu(_, _, _, _, _),   \* execute_fu, which the checker imports
    MESH_HOP_LATENCY,
    CHK_LOAD_LATENCY

NoArrival == [t \in Tiles |-> [d \in Dirs |-> Absent]]

\* The state before cycle 0; memory holds the manifest's preloads.
ChkNew(memory) ==
    [data_valid  |-> [t \in Tiles |-> {}],
     data_values |-> [t \in Tiles |-> [r \in DataRegs |-> 0]],
     pred_valid  |-> [t \in Tiles |-> {}],
     pred_values |-> [t \in Tiles |-> [r \in PredRegs |-> 0]],
     scratch     |-> memory,
     pending     |-> [t \in Tiles |-> {}],
     data_in     |-> NoArrival,
     pred_in     |-> NoArrival]

-----------------------------------------------------------------------------
(* Sources                                                                 *)

ChkLoad(s, cyc, t) ==
    LET due == {p \in s.pending[t] : p[1] = cyc}
    IN  IF due = {} THEN Absent ELSE Valid((CHOOSE p \in due : TRUE)[2])

ChkData(s, cyc, t, w, src) ==
    CASE src = "RF_A"  -> Valid(s.data_values[t][w.data_ra])
      [] src = "RF_B"  -> Valid(s.data_values[t][w.data_rb])
      [] src = "CONST" -> Valid(ConstMem[t][w.const])
      [] src = "ZERO"  -> Valid(0)
      [] src = "LSU"   -> ChkLoad(s, cyc, t)
      [] src \in Dirs  -> s.data_in[t][src]
      [] OTHER         -> Absent

ChkPred(s, t, w, src) ==
    CASE src = "RF_A"  -> Valid(s.pred_values[t][w.pred_ra])
      [] src = "RF_B"  -> Valid(s.pred_values[t][w.pred_rb])
      [] src = "TRUE"  -> Valid(1)
      [] src = "FALSE" -> Valid(0)
      [] src \in Dirs  -> s.pred_in[t][src]
      [] OTHER         -> Absent

ChkExecuted(s, cyc, t, w) ==
    ChkFu(w.op,
          ChkData(s, cyc, t, w, w.src_a).value,
          ChkData(s, cyc, t, w, w.src_b).value,
          ChkPred(s, t, w, w.src_p0).value, ChkPred(s, t, w, w.src_p1).value)

ChkDataRoute(s, cyc, t, w, src) ==
    IF src = "FU" THEN ChkExecuted(s, cyc, t, w).data
                  ELSE ChkData(s, cyc, t, w, src)

ChkPredRoute(s, cyc, t, w, src) ==
    IF src = "FU" THEN ChkExecuted(s, cyc, t, w).pred
                  ELSE ChkPred(s, t, w, src)

Routed(route) == {route[d] : d \in Dirs} \ {"OFF"}

OnlyIf(cond, S) == IF cond THEN S ELSE {}

\* Every source the word makes the checker look at.
ChkDataSources(w) ==
    {w.src_a, w.src_b} \cup Routed(w.data_route) \cup
    OnlyIf(w.data_w1 # NoAddr, {w.data_w1_src}) \cup
    OnlyIf(w.lsu # "NONE", {w.lsu_addr}) \cup
    OnlyIf(w.lsu = "STORE", {w.lsu_data})

ChkPredSources(w) ==
    {w.src_p0, w.src_p1} \cup Routed(w.pred_route) \cup
    OnlyIf(w.pred_w1 # NoAddr, {w.pred_w1_src}) \cup
    OnlyIf(w.lsu = "STORE" /\ w.commit_pred, {w.commit_src})

ReadAddrs(sources, ra, rb) ==
    OnlyIf("RF_A" \in sources, {ra}) \cup OnlyIf("RF_B" \in sources, {rb})

-----------------------------------------------------------------------------
(* Memory requests of one cycle                                            *)

ChkRequest(s, cyc, t, w) ==
    LET addr == ChkData(s, cyc, t, w, w.lsu_addr)
        commit == w.commit_pred =>
                    (ChkPred(s, t, w, w.commit_src).value = 1) # w.commit_invert
    IN  OnlyIf(/\ t \in LsuTiles
               /\ addr.valid /\ addr.value \in Addrs
               /\ \/ w.lsu = "LOAD" /\ ~w.commit_pred
                  \/ w.lsu = "STORE" /\ commit,
               {[tile |-> t, is_store |-> w.lsu = "STORE",
                 address |-> addr.value,
                 value |-> ChkData(s, cyc, t, w, w.lsu_data).value]})

ChkRequests(s, cyc, words) ==
    UNION {ChkRequest(s, cyc, t, words[t]) : t \in Tiles}

ConflictingAddresses(s, cyc, words) ==
    LET reqs == ChkRequests(s, cyc, words)
    IN  {r.address : r \in {x \in reqs :
            x.is_store /\ \E y \in reqs : y # x /\ y.address = x.address}}

-----------------------------------------------------------------------------
(* Diagnostics of one cycle, without their SCHED_ prefix; one code for the *)
(* data and the predicate register file.                                   *)

RfCodes(reads, valid, w0, w1) ==
    OnlyIf(w0 # NoAddr /\ w0 = w1, {"RF_WRITE_COLLISION"}) \cup
    OnlyIf(reads \cap {w0, w1} # {}, {"RF_READ_WRITE_HAZARD"}) \cup
    OnlyIf(~(reads \subseteq valid), {"RF_UNINITIALIZED_READ"})

SourceCodes_DataLinksOnly(s, cyc, t, w) ==
    OnlyIf("LSU" \in ChkDataSources(w) /\ ~ChkLoad(s, cyc, t).valid,
           {"MEMORY_LOAD_RESPONSE"}) \cup
    OnlyIf(\E d \in Dirs \cap ChkDataSources(w) : ~s.data_in[t][d].valid,
           {"NETWORK_ARRIVAL"})

SourceCodes(s, cyc, t, w) ==
    OnlyIf("LSU" \in ChkDataSources(w) /\ ~ChkLoad(s, cyc, t).valid,
           {"MEMORY_LOAD_RESPONSE"}) \cup
    OnlyIf(\/ \E d \in Dirs \cap ChkDataSources(w) : ~s.data_in[t][d].valid
           \/ \E d \in Dirs \cap ChkPredSources(w) : ~s.pred_in[t][d].valid,
           {"NETWORK_ARRIVAL"})

\* A write port or a route that takes a result the operation does not have.
ResultCodes(s, cyc, t, w) ==
    LET fu == ChkExecuted(s, cyc, t, w)
    IN  OnlyIf(\/ w.data_w0 # NoAddr /\ ~fu.data.valid
               \/ w.pred_w0 # NoAddr /\ ~fu.pred.valid
               \/ "FU" \in Routed(w.data_route) /\ ~fu.data.valid
               \/ "FU" \in Routed(w.pred_route) /\ ~fu.pred.valid
               \/ "NONE" \in Routed(w.data_route) \cup Routed(w.pred_route),
               {"UNSUPPORTED_CONTROL"})

LsuCodes(s, cyc, t, w) ==
    LET addr == ChkData(s, cyc, t, w, w.lsu_addr)
    IN  OnlyIf(w.lsu # "NONE",
          IF t \notin LsuTiles THEN {"NON_LSU_OPERATION"}
          ELSE IF w.lsu = "RESERVED" \/ (w.lsu = "LOAD" /\ w.commit_pred)
               THEN {"UNSUPPORTED_CONTROL"}
          ELSE OnlyIf(addr.valid /\ addr.value \notin Addrs,
                      {"MEMORY_ADDR_RANGE"}))

MemoryCodes(s, cyc, words) ==
    OnlyIf(ConflictingAddresses(s, cyc, words) # {},
           {"MEMORY_SAME_ADDR_STORE_CONFLICT"}) \cup
    OnlyIf(\E r \in ChkRequests(s, cyc, words) :
              /\ ~r.is_store
              /\ \E p \in s.pending[r.tile] : p[1] = cyc + CHK_LOAD_LATENCY,
           {"MEMORY_LOAD_RESPONSE"})

Diagnostics(s, cyc, words) ==
    MemoryCodes(s, cyc, words) \cup
    UNION {LET w == words[t] IN
           RfCodes(ReadAddrs(ChkDataSources(w), w.data_ra, w.data_rb),
                   s.data_valid[t], w.data_w0, w.data_w1) \cup
           RfCodes(ReadAddrs(ChkPredSources(w), w.pred_ra, w.pred_rb),
                   s.pred_valid[t], w.pred_w0, w.pred_w1) \cup
           SourceCodes(s, cyc, t, w) \cup
           ResultCodes(s, cyc, t, w) \cup
           LsuCodes(s, cyc, t, w) : t \in Tiles}

-----------------------------------------------------------------------------
(* The state after one cycle without a diagnostic                          *)

\* A route whose destination is outside the array is dropped.
Arrivals(out) ==
    [t \in Tiles |-> [d \in Dirs |->
        IF Neighbour(t, d) \in Tiles THEN out[Neighbour(t, d)][Opposite[d]]
                                     ELSE Absent]]

ChkAfter(s, cyc, words) ==
    LET reqs == ChkRequests(s, cyc, words)
        stores(a) == {r \in reqs : r.is_store /\ r.address = a}
        dataOut == [t \in Tiles |-> [d \in Dirs |->
            IF words[t].data_route[d] = "OFF" THEN Absent
            ELSE ChkDataRoute(s, cyc, t, words[t], words[t].data_route[d])]]
        predOut == [t \in Tiles |-> [d \in Dirs |->
            IF words[t].pred_route[d] = "OFF" THEN Absent
            ELSE ChkPredRoute(s, cyc, t, words[t], words[t].pred_route[d])]]
    IN  [data_valid  |-> [t \in Tiles |-> s.data_valid[t] \cup
                            ({words[t].data_w0, words[t].data_w1} \ {NoAddr})],
         data_values |-> [t \in Tiles |-> [r \in DataRegs |->
            CASE r = words[t].data_w0 ->
                    ChkExecuted(s, cyc, t, words[t]).data.value
              [] r = words[t].data_w1 ->
                    ChkData(s, cyc, t, words[t], words[t].data_w1_src).value
              [] OTHER -> s.data_values[t][r]]],
         pred_valid  |-> [t \in Tiles |-> s.pred_valid[t] \cup
                            ({words[t].pred_w0, words[t].pred_w1} \ {NoAddr})],
         pred_values |-> [t \in Tiles |-> [r \in PredRegs |->
            CASE r = words[t].pred_w0 ->
                    ChkExecuted(s, cyc, t, words[t]).pred.value
              [] r = words[t].pred_w1 ->
                    ChkPred(s, t, words[t], words[t].pred_w1_src).value
              [] OTHER -> s.pred_values[t][r]]],
         scratch     |-> [a \in Addrs |->
            IF stores(a) = {} THEN s.scratch[a]
                              ELSE (CHOOSE r \in stores(a) : TRUE).value],
         pending     |-> [t \in Tiles |->
            {p \in s.pending[t] : p[1] # cyc} \cup
            {<<cyc + CHK_LOAD_LATENCY, s.scratch[r.address]>> :
                r \in {x \in reqs : x.tile = t /\ ~x.is_store}}],
         data_in     |-> Arrivals(dataOut),
         pred_in     |-> Arrivals(predOut)]

-----------------------------------------------------------------------------
(* The bounded proof of a loop                                             *)

LatestOf(a, b) == IF a > b THEN a ELSE b
EarliestOf(a, b) == IF a < b THEN a ELSE b

proof_periods_One(d) == EarliestOf(d.trip, 1)

proof_periods(d) ==
    LET latency == LatestOf(MESH_HOP_LATENCY, CHK_LOAD_LATENCY)
        ceil == (latency + d.ii - 1) \div d.ii
    IN  EarliestOf(d.trip, LatestOf(3, 2 + ceil))

\* What the snapshots of two periods are compared on: which registers hold a
\* value, which responses are under way, which links carry something.
StructuralSnapshot(s, cyc) ==
    [data_valid |-> s.data_valid,
     pred_valid |-> s.pred_valid,
     pending |-> [t \in Tiles |-> {p[1] - cyc : p \in s.pending[t]}],
     data_in |-> [t \in Tiles |-> {d \in Dirs : s.data_in[t][d].valid}],
     pred_in |-> [t \in Tiles |-> {d \in Dirs : s.pred_in[t][d].valid}]]
=============================================================================
