----------------------------- MODULE ArrayProofs -----------------------------
(***************************************************************************)
(* The two specifications around the golden model's array.                 *)
(*                                                                         *)
(* ArrayLockstep, for every mesh, every program and every number of runs:  *)
(* the RTL array and the golden model stay in step, and a program that the *)
(* golden model accepts does not stop the RTL simulation.  What has to be  *)
(* carried from run to run is what is left in the array: a DONE cycle      *)
(* empties the links and the first stage of the load pipes, a CONFIG cycle *)
(* the second.                                                             *)
(*                                                                         *)
(* ScheduleReplay, for every mesh, every latency and every program whose   *)
(* long loops have static addresses: the verdict of the schedule checker's *)
(* bounded window is the outcome of the golden model's whole replay.  What *)
(* has to be carried is the history of the window, and that the replay is  *)
(* always in a state of that history or in one like it.                    *)
(***************************************************************************)
EXTENDS ArrayLockstep, ScheduleReplay, NumberLemmas, TLAPS

-----------------------------------------------------------------------------
(* Types                                                                   *)

RtlTyped ==
    /\ data_mem \in [Tiles -> [DataRegs -> Words]]
    /\ pred_mem \in [Tiles -> [PredRegs -> {0, 1}]]
    /\ data_initialized \in [Tiles -> SUBSET DataRegs]
    /\ pred_initialized \in [Tiles -> SUBSET PredRegs]
    /\ data_link \in [Tiles -> [Dirs -> LinkValue]]
    /\ pred_link \in [Tiles -> [Dirs -> PredValue]]
    /\ load_q0 \in [Tiles -> LinkValue]
    /\ load_resp \in [Tiles -> LinkValue]
    /\ scratchpad_mem \in [Addrs -> Words]

GoldTyped ==
    /\ data_rf \in [Tiles -> [DataRegs -> Words]]
    /\ pred_rf \in [Tiles -> [PredRegs -> {0, 1}]]
    /\ data_valid \in [Tiles -> SUBSET DataRegs]
    /\ pred_valid \in [Tiles -> SUBSET PredRegs]
    /\ data_inputs \in [Tiles -> [Dirs -> LinkValue]]
    /\ pred_inputs \in [Tiles -> [Dirs -> PredValue]]
    /\ shared_scratchpad \in [Addrs -> Words]
    /\ cycle \in Nat
    /\ \A t \in Tiles : pending_loads[t] \subseteq Nat \X Words

SequencerTyped ==
    /\ fatal \in BOOLEAN /\ error \in BOOLEAN
    /\ phase \in {"CONFIG", "RUN", "DONE"}
    /\ runs \in Nat /\ menu \in DOMAIN Menus

LEMMA TypeParts == TypeOK <=> RtlTyped /\ GoldTyped /\ SequencerTyped
BY DEF TypeOK, RtlTyped, GoldTyped, SequencerTyped

LEMMA PlainValues ==
    /\ Absent \in LinkValue /\ Absent \in PredValue
    /\ \A v \in Words : Valid(v) \in LinkValue
    /\ Valid(0) \in PredValue /\ Valid(1) \in PredValue
    /\ \A v \in {0, 1} : Valid(v) \in PredValue
    /\ \A x \in LinkValue : x.value \in Words /\ x.valid \in BOOLEAN
    /\ \A x \in PredValue : x.value \in {0, 1} /\ x.valid \in BOOLEAN
BY FabricAssumption DEF Absent, Valid, LinkValue, PredValue

\* The fields of a word that select registers, a constant and an operation.
LEMMA WordFields ==
    ASSUME NEW t \in Tiles, NEW w, WordOK(t, w)
    PROVE  /\ w.data_ra \in DataRegs /\ w.data_rb \in DataRegs
           /\ w.pred_ra \in PredRegs /\ w.pred_rb \in PredRegs
           /\ ConstMem[t][w.const] \in Words
           /\ w.src_a \in DataSources /\ w.src_b \in DataSources
           /\ w.src_p0 \in PredSources /\ w.src_p1 \in PredSources
           /\ w.data_w1_src \in DataSources /\ w.pred_w1_src \in PredSources
           /\ w.lsu_addr \in DataSources /\ w.lsu_data \in DataSources
           /\ w.commit_src \in PredSources
           /\ w.commit_pred \in BOOLEAN /\ w.commit_invert \in BOOLEAN
           /\ w.lsu \in {"NONE", "LOAD", "STORE", "RESERVED"}
           /\ \A d \in Dirs : w.data_route[d] \in DataSources \cup {"FU", "NONE", "OFF"}
           /\ \A d \in Dirs : w.pred_route[d] \in PredSources \cup {"FU", "NONE", "OFF"}
           /\ w.data_w0 \in DataRegs \cup {NoAddr} /\ w.data_w1 \in DataRegs \cup {NoAddr}
           /\ w.pred_w0 \in PredRegs \cup {NoAddr} /\ w.pred_w1 \in PredRegs \cup {NoAddr}
<1>1. w \in ControlWord /\ w.const \in DOMAIN ConstMem[t] BY DEF WordOK
<1>2. ConstMem[t][w.const] \in Words BY <1>1, FabricAssumption
<1> QED BY <1>1, <1>2 DEF ControlWord

\* An input of a tile, whatever is on the link or beyond the boundary.
LEMMA LinkInTyped ==
    ASSUME NEW t \in Tiles, NEW d \in Dirs
    PROVE  /\ \A link \in [Tiles -> [Dirs -> LinkValue]] : LinkIn(link, t, d) \in LinkValue
           /\ \A link \in [Tiles -> [Dirs -> PredValue]] : LinkIn(link, t, d) \in PredValue
<1>1. Opposite[d] \in Dirs BY DEF Opposite, Dirs
<1> QED BY <1>1, PlainValues DEF LinkIn

LEMMA MuxTyped ==
    ASSUME RtlTyped, NEW t \in Tiles, NEW w, WordOK(t, w)
    PROVE  /\ \A s : data_src_mux(t, w, s) \in LinkValue
           /\ \A s : pred_src_mux(t, w, s) \in PredValue
<1>1. /\ w.data_ra \in DataRegs /\ w.data_rb \in DataRegs
      /\ w.pred_ra \in PredRegs /\ w.pred_rb \in PredRegs
      /\ ConstMem[t][w.const] \in Words
  BY WordFields
<1>2. /\ data_mem[t][w.data_ra] \in Words /\ data_mem[t][w.data_rb] \in Words
      /\ pred_mem[t][w.pred_ra] \in {0, 1} /\ pred_mem[t][w.pred_rb] \in {0, 1}
      /\ load_resp[t] \in LinkValue
  BY <1>1 DEF RtlTyped
<1>3. \A d \in Dirs : LinkIn(data_link, t, d) \in LinkValue /\ LinkIn(pred_link, t, d) \in PredValue
  BY LinkInTyped DEF RtlTyped
<1>4. ASSUME NEW s PROVE data_src_mux(t, w, s) \in LinkValue
  BY <1>1, <1>2, <1>3, PlainValues, FabricAssumption DEF data_src_mux
<1>5. ASSUME NEW s PROVE pred_src_mux(t, w, s) \in PredValue
  BY <1>2, <1>3, PlainValues DEF pred_src_mux
<1> QED BY <1>4, <1>5

LEMMA SourceTyped ==
    ASSUME GoldTyped, NEW t \in Tiles, NEW w, WordOK(t, w)
    PROVE  /\ \A s : data_source(t, w, s) \in LinkValue
           /\ \A s : pred_source(t, w, s) \in PredValue
<1>1. /\ w.data_ra \in DataRegs /\ w.data_rb \in DataRegs
      /\ w.pred_ra \in PredRegs /\ w.pred_rb \in PredRegs
      /\ ConstMem[t][w.const] \in Words
  BY WordFields
<1>2. /\ data_rf[t][w.data_ra] \in Words /\ data_rf[t][w.data_rb] \in Words
      /\ pred_rf[t][w.pred_ra] \in {0, 1} /\ pred_rf[t][w.pred_rb] \in {0, 1}
  BY <1>1 DEF GoldTyped
<1>3. LoadResponse(t) \in LinkValue
  <2>1. CASE \E p \in pending_loads[t] : p[1] = cycle
    <3> DEFINE q == CHOOSE p \in pending_loads[t] : p[1] = cycle
    <3>1. q \in pending_loads[t] BY <2>1
    <3>2. q[2] \in Words BY <3>1 DEF GoldTyped
    <3> QED BY <2>1, <3>2, PlainValues DEF LoadResponse
  <2> QED BY <2>1, PlainValues DEF LoadResponse
<1>4. \A d \in Dirs : data_inputs[t][d] \in LinkValue /\ pred_inputs[t][d] \in PredValue
  BY DEF GoldTyped
<1>5. ASSUME NEW s PROVE data_source(t, w, s) \in LinkValue
  BY <1>1, <1>2, <1>3, <1>4, PlainValues, FabricAssumption DEF data_source
<1>6. ASSUME NEW s PROVE pred_source(t, w, s) \in PredValue
  BY <1>2, <1>4, PlainValues DEF pred_source
<1> QED BY <1>5, <1>6

\* What a functional unit produces has its width, and whether it produces
\* anything is a matter of the operation.
FuFacts(op, r) ==
    /\ r.data \in LinkValue /\ r.pred \in PredValue
    /\ r.data.valid = GoldFu(op, 0, 0, 0, 0).data.valid
    /\ r.pred.valid = GoldFu(op, 0, 0, 0, 0).pred.valid

LEMMA FuTyped ==
    ASSUME RtlTyped, NEW t \in Tiles, NEW w, WordOK(t, w)
    PROVE  FuFacts(w.op, fu(t, w))
<1> DEFINE a == data_src_mux(t, w, w.src_a).value
           b == data_src_mux(t, w, w.src_b).value
           p == pred_src_mux(t, w, w.src_p0).value
           q == pred_src_mux(t, w, w.src_p1).value
<1>1. a \in Words /\ b \in Words /\ p \in {0, 1} /\ q \in {0, 1} BY MuxTyped, PlainValues
<1>2. fu(t, w) = RtlFu(w.op, a, b, p, q) BY DEF fu
<1> HIDE DEF a, b, p, q
<1>3. SameResults(w.op) BY DEF WordOK
<1> QED BY <1>1, <1>2, <1>3 DEF SameResults, FuFacts

LEMMA ExecutedTyped ==
    ASSUME GoldTyped, NEW t \in Tiles, NEW w, WordOK(t, w)
    PROVE  FuFacts(w.op, Executed(t, w))
<1> DEFINE a == data_source(t, w, w.src_a).value
           b == data_source(t, w, w.src_b).value
           p == pred_source(t, w, w.src_p0).value
           q == pred_source(t, w, w.src_p1).value
<1>1. a \in Words /\ b \in Words /\ p \in {0, 1} /\ q \in {0, 1} BY SourceTyped, PlainValues
<1>2. Executed(t, w) = GoldFu(w.op, a, b, p, q) BY DEF Executed
<1> HIDE DEF a, b, p, q
<1>3. SameResults(w.op) BY DEF WordOK
<1> QED BY <1>1, <1>2, <1>3 DEF SameResults, FuFacts

-----------------------------------------------------------------------------
(* One cycle of both machines in the same state                            *)

Agree ==
    /\ RegistersAgree
    /\ LinksAgree
    /\ LoadsAgree
    /\ scratchpad_mem = shared_scratchpad

\* A response that is due is the one in the second stage of the pipe.
LEMMA ResponseAgrees ==
    ASSUME RtlTyped, GoldTyped, Agree, NEW t \in Tiles, LoadResponse(t).valid
    PROVE  LoadResponse(t) = load_resp[t]
<1> DEFINE due == pending_loads[t]
           x == load_resp[t]
           y == load_q0[t]
<1>1. due = (IF x.valid THEN {<<cycle, x.value>>} ELSE {}) \cup
            (IF y.valid THEN {<<cycle + 1, y.value>>} ELSE {})
  BY DEF Agree, LoadsAgree
<1>2. \E p \in due : p[1] = cycle BY DEF LoadResponse, Absent
<1>3. cycle \in Nat /\ cycle + 1 # cycle BY DEF GoldTyped
<1>4. x \in LinkValue BY DEF RtlTyped
<1> DEFINE q == CHOOSE p \in due : p[1] = cycle
<1>5. q \in due /\ q[1] = cycle BY <1>2
<1>6. LoadResponse(t) = Valid(q[2]) BY <1>2 DEF LoadResponse
<1> HIDE DEF due, x, y, q
<1>7. x.valid /\ q = <<cycle, x.value>> BY <1>1, <1>3, <1>5
<1>8. q[2] = x.value BY <1>7
<1>9. x = [valid |-> TRUE, value |-> x.value] BY <1>4, <1>7 DEF LinkValue
<1> QED BY <1>6, <1>8, <1>9 DEF Valid, x

\* Sources that the golden model selects without an error.
LEMMA SourcesAgree ==
    ASSUME RtlTyped, GoldTyped, Agree, NEW t \in Tiles, NEW w, WordOK(t, w),
           ~tile_error(t, w)
    PROVE  /\ \A s \in DataSelected(w) : s # "FU" =>
                 data_src_mux(t, w, s) = data_source(t, w, s) /\ data_source(t, w, s).valid
           /\ \A s \in PredSelected(w) : s # "FU" =>
                 pred_src_mux(t, w, s) = pred_source(t, w, s) /\ pred_source(t, w, s).valid
<1>1. ASSUME NEW s \in DataSelected(w), s # "FU"
      PROVE  data_src_mux(t, w, s) = data_source(t, w, s) /\ data_source(t, w, s).valid
  <2>1. data_source(t, w, s).valid BY <1>1 DEF tile_error, data_route_source
  <2>2. \A r \in data_read_addrs(w) : r \in data_valid[t]
    BY DEF tile_error, check_read_write_hazards
  <2>3. \A r \in data_read_addrs(w) : data_mem[t][r] = data_rf[t][r]
    BY <2>2 DEF Agree, RegistersAgree
  <2>4. CASE s = "RF_A"
    <3>1. w.data_ra \in data_read_addrs(w) BY <1>1, <2>4 DEF data_read_addrs, Only
    <3>2. data_src_mux(t, w, s) = Valid(data_mem[t][w.data_ra]) BY <2>4 DEF data_src_mux, Dirs
    <3>3. data_source(t, w, s) = Valid(data_rf[t][w.data_ra]) BY <2>4 DEF data_source, Dirs
    <3> QED BY <2>1, <2>3, <3>1, <3>2, <3>3
  <2>5. CASE s = "RF_B"
    <3>1. w.data_rb \in data_read_addrs(w) BY <1>1, <2>5 DEF data_read_addrs, Only
    <3> QED BY <2>1, <2>3, <2>5, <3>1 DEF data_src_mux, data_source, Dirs
  <2>6. CASE s \in Dirs
    <3>1. LinkIn(data_link, t, s) = data_inputs[t][s] BY <2>6 DEF Agree, LinksAgree
    <3>2. s \notin {"RF_A", "RF_B", "CONST", "ZERO", "LSU"} BY <2>6 DEF Dirs
    <3>3. data_src_mux(t, w, s) = LinkIn(data_link, t, s) BY <2>6, <3>2 DEF data_src_mux
    <3>4. data_source(t, w, s) = data_inputs[t][s] BY <2>6, <3>2 DEF data_source
    <3> QED BY <2>1, <3>1, <3>3, <3>4
  <2>7. CASE s = "LSU"
    <3>1. data_source(t, w, s) = LoadResponse(t) BY <2>7 DEF data_source, Dirs
    <3>2. data_src_mux(t, w, s) = load_resp[t] BY <2>7 DEF data_src_mux, Dirs
    <3> QED BY <2>1, <3>1, <3>2, ResponseAgrees
  <2>8. CASE s \notin {"RF_A", "RF_B", "LSU"} \cup Dirs
    BY <2>1, <2>8 DEF data_src_mux, data_source
  <2> QED BY <2>4, <2>5, <2>6, <2>7, <2>8
<1>2. ASSUME NEW s \in PredSelected(w), s # "FU"
      PROVE  pred_src_mux(t, w, s) = pred_source(t, w, s) /\ pred_source(t, w, s).valid
  <2>1. pred_source(t, w, s).valid BY <1>2 DEF tile_error, pred_route_source
  <2>2. \A r \in pred_read_addrs(w) : r \in pred_valid[t]
    BY DEF tile_error, check_read_write_hazards
  <2>3. \A r \in pred_read_addrs(w) : pred_mem[t][r] = pred_rf[t][r]
    BY <2>2 DEF Agree, RegistersAgree
  <2>4. CASE s = "RF_A"
    <3>1. w.pred_ra \in pred_read_addrs(w) BY <1>2, <2>4 DEF pred_read_addrs, Only
    <3>2. pred_src_mux(t, w, s) = Valid(pred_mem[t][w.pred_ra]) BY <2>4 DEF pred_src_mux, Dirs
    <3>3. pred_source(t, w, s) = Valid(pred_rf[t][w.pred_ra]) BY <2>4 DEF pred_source, Dirs
    <3> QED BY <2>1, <2>3, <3>1, <3>2, <3>3
  <2>5. CASE s = "RF_B"
    <3>1. w.pred_rb \in pred_read_addrs(w) BY <1>2, <2>5 DEF pred_read_addrs, Only
    <3> QED BY <2>1, <2>3, <2>5, <3>1 DEF pred_src_mux, pred_source, Dirs
  <2>6. CASE s \in Dirs
    <3>1. LinkIn(pred_link, t, s) = pred_inputs[t][s] BY <2>6 DEF Agree, LinksAgree
    <3>2. s \notin {"RF_A", "RF_B", "TRUE", "FALSE"} BY <2>6 DEF Dirs
    <3>3. pred_src_mux(t, w, s) = LinkIn(pred_link, t, s) BY <2>6, <3>2 DEF pred_src_mux
    <3>4. pred_source(t, w, s) = pred_inputs[t][s] BY <2>6, <3>2 DEF pred_source
    <3> QED BY <2>1, <3>1, <3>3, <3>4
  <2>8. CASE s \notin {"RF_A", "RF_B"} \cup Dirs
    BY <2>1, <2>8 DEF pred_src_mux, pred_source
  <2> QED BY <2>4, <2>5, <2>6, <2>8
<1> QED BY <1>1, <1>2

\* What a tile computes and sends when the golden model has no error.
TileAgrees(t, w) ==
    /\ fu(t, w) = Executed(t, w)
    /\ w.data_w1 # NoAddr =>
          data_src_mux(t, w, w.data_w1_src) = data_source(t, w, w.data_w1_src)
    /\ w.pred_w1 # NoAddr =>
          pred_src_mux(t, w, w.pred_w1_src) = pred_source(t, w, w.pred_w1_src)
    /\ w.lsu # "NONE" =>
          /\ data_src_mux(t, w, w.lsu_addr) = data_source(t, w, w.lsu_addr)
          /\ data_source(t, w, w.lsu_addr).valid
    /\ w.lsu = "STORE" =>
          /\ data_src_mux(t, w, w.lsu_data) = data_source(t, w, w.lsu_data)
          /\ data_source(t, w, w.lsu_data).valid
    /\ w.lsu = "STORE" /\ w.commit_pred =>
          /\ pred_src_mux(t, w, w.commit_src) = pred_source(t, w, w.commit_src)
          /\ pred_source(t, w, w.commit_src).valid
    /\ \A d \in Dirs : w.data_route[d] # "OFF" =>
          data_switchbox(t, w, w.data_route[d]).value
            = data_route_source(t, w, w.data_route[d]).value
    /\ \A d \in Dirs : w.pred_route[d] # "OFF" =>
          pred_switchbox(t, w, w.pred_route[d]).value
            = pred_route_source(t, w, w.pred_route[d]).value

LEMMA TilesAgree ==
    ASSUME RtlTyped, GoldTyped, Agree, NEW t \in Tiles, NEW w, WordOK(t, w),
           ~tile_error(t, w)
    PROVE  TileAgrees(t, w)
<1> DEFINE D == DataSelected(w)
           P == PredSelected(w)
<1>1. \A s \in D : s # "FU" =>
         data_src_mux(t, w, s) = data_source(t, w, s) /\ data_source(t, w, s).valid
  BY SourcesAgree
<1>2. \A s \in P : s # "FU" =>
         pred_src_mux(t, w, s) = pred_source(t, w, s) /\ pred_source(t, w, s).valid
  BY SourcesAgree
<1>3. /\ w.src_a \in D /\ w.src_b \in D /\ w.src_p0 \in P /\ w.src_p1 \in P
      /\ w.data_w1 # NoAddr => w.data_w1_src \in D
      /\ w.pred_w1 # NoAddr => w.pred_w1_src \in P
      /\ w.lsu # "NONE" => w.lsu_addr \in D
      /\ w.lsu = "STORE" => w.lsu_data \in D
      /\ w.lsu = "STORE" /\ w.commit_pred => w.commit_src \in P
      /\ \A d \in Dirs : w.data_route[d] # "OFF" => w.data_route[d] \in D
      /\ \A d \in Dirs : w.pred_route[d] # "OFF" => w.pred_route[d] \in P
  BY DEF DataSelected, PredSelected, Only
<1> HIDE DEF D, P
<1>4. "FU" \notin DataSources /\ "FU" \notin PredSources BY DEF DataSources, PredSources, Dirs
<1>5. /\ w.src_a # "FU" /\ w.src_b # "FU" /\ w.src_p0 # "FU" /\ w.src_p1 # "FU"
      /\ w.data_w1_src # "FU" /\ w.pred_w1_src # "FU" /\ w.lsu_addr # "FU"
      /\ w.lsu_data # "FU" /\ w.commit_src # "FU"
  BY <1>4, WordFields
<1>6. fu(t, w) = Executed(t, w)
  <2> DEFINE a == data_source(t, w, w.src_a).value
             b == data_source(t, w, w.src_b).value
             p == pred_source(t, w, w.src_p0).value
             q == pred_source(t, w, w.src_p1).value
  <2>1. /\ data_src_mux(t, w, w.src_a).value = a /\ data_src_mux(t, w, w.src_b).value = b
        /\ pred_src_mux(t, w, w.src_p0).value = p /\ pred_src_mux(t, w, w.src_p1).value = q
    BY <1>1, <1>2, <1>3, <1>5
  <2>2. a \in Words /\ b \in Words /\ p \in {0, 1} /\ q \in {0, 1} BY SourceTyped, PlainValues
  <2>3. fu(t, w) = RtlFu(w.op, a, b, p, q) /\ Executed(t, w) = GoldFu(w.op, a, b, p, q)
    BY <2>1 DEF fu, Executed
  <2> HIDE DEF a, b, p, q
  <2>4. SameResults(w.op) BY DEF WordOK
  <2> QED BY <2>2, <2>3, <2>4 DEF SameResults
<1>7. \A d \in Dirs : w.data_route[d] # "OFF" =>
         data_switchbox(t, w, w.data_route[d]).value
           = data_route_source(t, w, w.data_route[d]).value
  BY <1>1, <1>3, <1>6 DEF data_switchbox, data_route_source, Valid
<1>8. \A d \in Dirs : w.pred_route[d] # "OFF" =>
         pred_switchbox(t, w, w.pred_route[d]).value
           = pred_route_source(t, w, w.pred_route[d]).value
  BY <1>2, <1>3, <1>6 DEF pred_switchbox, pred_route_source, Valid
<1> QED BY <1>1, <1>2, <1>3, <1>5, <1>6, <1>7, <1>8 DEF TileAgrees

LinesOK(words) == \A t \in Tiles : WordOK(t, words[t])

\* The memory requests of a tile when the golden model has no error.
RequestAgrees(t, w) ==
    /\ w.lsu # "NONE" =>
          /\ t \in LsuTiles /\ w.lsu \in {"LOAD", "STORE"}
          /\ w.lsu = "LOAD" => ~w.commit_pred
          /\ lsu_addr(t, w) = data_source(t, w, w.lsu_addr)
          /\ lsu_addr(t, w).valid /\ lsu_addr(t, w).value \in Addrs
    /\ issue_load(t, w) <=> w.lsu = "LOAD"
    /\ store_commit(t, w) <=> store_committed(t, w)
    /\ store_commit(t, w) =>
          data_src_mux(t, w, w.lsu_data).value = data_source(t, w, w.lsu_data).value

LEMMA RequestsAgree ==
    ASSUME RtlTyped, GoldTyped, Agree, NEW t \in Tiles, NEW w, WordOK(t, w),
           ~tile_error(t, w)
    PROVE  RequestAgrees(t, w)
<1>1. TileAgrees(t, w) BY TilesAgree
<1>2. ~lsu_error(t, w) BY DEF tile_error
<1>3. w.lsu \in {"NONE", "LOAD", "STORE", "RESERVED"} BY WordFields
<1>4. w.commit_pred \in BOOLEAN /\ w.commit_invert \in BOOLEAN BY WordFields
<1>5. w.lsu # "NONE" =>
         /\ t \in LsuTiles /\ w.lsu \in {"LOAD", "STORE"}
         /\ w.lsu = "LOAD" => ~w.commit_pred
         /\ lsu_addr(t, w) = data_source(t, w, w.lsu_addr)
         /\ lsu_addr(t, w).valid /\ lsu_addr(t, w).value \in Addrs
  BY <1>1, <1>2, <1>3 DEF TileAgrees, lsu_error, lsu_addr
<1>6. issue_load(t, w) <=> w.lsu = "LOAD" BY <1>5 DEF issue_load
<1>7. ASSUME w.lsu = "STORE"
      PROVE  /\ store_commit(t, w) <=> store_committed(t, w)
             /\ data_src_mux(t, w, w.lsu_data).value = data_source(t, w, w.lsu_data).value
  <2>1. store_commit(t, w) <=> commit_allow(t, w)
    BY <1>1, <1>5, <1>7 DEF store_commit, TileAgrees
  <2>2. CASE ~w.commit_pred
    BY <1>1, <1>7, <2>1, <2>2 DEF commit_allow, store_committed, TileAgrees
  <2>3. CASE w.commit_pred
    <3> DEFINE x == pred_source(t, w, w.commit_src)
    <3>1. pred_src_mux(t, w, w.commit_src) = x /\ x.valid BY <1>1, <1>7, <2>3 DEF TileAgrees
    <3>2. x.value \in {0, 1} BY SourceTyped, PlainValues
    <3>3. store_committed(t, w) <=> ((x.value = 1) # w.commit_invert)
      BY <1>7, <2>3 DEF store_committed
    <3>4. commit_allow(t, w) <=> (IF w.commit_invert THEN x.value = 0 ELSE x.value = 1)
      BY <2>3, <3>1 DEF commit_allow
    <3> HIDE DEF x
    <3>5. commit_allow(t, w) <=> store_committed(t, w) BY <1>4, <3>2, <3>3, <3>4
    <3> QED BY <1>1, <1>7, <2>1, <3>5 DEF TileAgrees
  <2> QED BY <1>4, <2>2, <2>3
<1>8. w.lsu # "STORE" => ~store_commit(t, w) /\ ~store_committed(t, w)
  BY DEF store_commit, store_committed
<1> QED BY <1>5, <1>6, <1>7, <1>8 DEF RequestAgrees

\* What the RTL consumes the golden model has looked at.
LEMMA ConsumedIsSelected ==
    ASSUME NEW w, w.lsu \in {"NONE", "LOAD", "STORE", "RESERVED"}
    PROVE  /\ DataConsumed(w) \subseteq DataSelected(w)
           /\ PredConsumed(w) \subseteq PredSelected(w)
           /\ DataReads(w) \subseteq data_read_addrs(w)
           /\ PredReads(w) \subseteq pred_read_addrs(w)
<1>1. DataConsumed(w) \subseteq DataSelected(w) BY DEF DataConsumed, DataSelected, When, Only
<1>2. PredConsumed(w) \subseteq PredSelected(w) BY DEF PredConsumed, PredSelected, When, Only
<1>3. DataReads(w) \subseteq data_read_addrs(w) BY <1>1 DEF DataReads, data_read_addrs, When, Only
<1>4. PredReads(w) \subseteq pred_read_addrs(w) BY <1>2 DEF PredReads, pred_read_addrs, When, Only
<1> QED BY <1>1, <1>2, <1>3, <1>4

\* Only a route takes its value from the functional unit.
LEMMA FuIsRouted ==
    ASSUME NEW t \in Tiles, NEW w, WordOK(t, w)
    PROVE  /\ "FU" \in DataConsumed(w) => \E d \in Dirs : w.data_route[d] = "FU"
           /\ "FU" \in PredConsumed(w) => \E d \in Dirs : w.pred_route[d] = "FU"
<1>1. "FU" \notin DataSources /\ "FU" \notin PredSources BY DEF DataSources, PredSources, Dirs
<1>2. /\ w.src_a # "FU" /\ w.src_b # "FU" /\ w.src_p0 # "FU" /\ w.src_p1 # "FU"
      /\ w.data_w1_src # "FU" /\ w.pred_w1_src # "FU" /\ w.lsu_addr # "FU"
      /\ w.lsu_data # "FU" /\ w.commit_src # "FU"
  BY <1>1, WordFields
<1>3. "FU" \in DataConsumed(w) => \E d \in Dirs : w.data_route[d] = "FU"
  BY <1>2 DEF DataConsumed, When
<1>4. "FU" \in PredConsumed(w) => \E d \in Dirs : w.pred_route[d] = "FU"
  BY <1>2 DEF PredConsumed, When
<1> QED BY <1>3, <1>4

\* A tile that the golden model accepts, with a checked word, does not stop.
LEMMA TileDoesNotStop ==
    ASSUME RtlTyped, GoldTyped, Agree, NEW t \in Tiles, NEW w, WordOK(t, w),
           RoutesHaveResults(w), ~tile_error(t, w)
    PROVE  ~tile_fatal(t, w)
<1>1. TileAgrees(t, w) /\ RequestAgrees(t, w) BY TilesAgree, RequestsAgree
<1>2. w.lsu \in {"NONE", "LOAD", "STORE", "RESERVED"} BY WordFields
<1>3. /\ DataConsumed(w) \subseteq DataSelected(w) /\ PredConsumed(w) \subseteq PredSelected(w)
      /\ DataReads(w) \subseteq data_read_addrs(w) /\ PredReads(w) \subseteq pred_read_addrs(w)
  BY <1>2, ConsumedIsSelected
<1>4. FuFacts(w.op, fu(t, w)) BY FuTyped
<1>5. ~src_fatal(t, w)
  <2>1. ASSUME NEW s \in DataConsumed(w) PROVE data_switchbox(t, w, s).valid
    <3>1. CASE s = "FU"
      <4>1. \E d \in Dirs : w.data_route[d] = "FU" BY <2>1, <3>1, FuIsRouted
      <4>2. GoldFu(w.op, 0, 0, 0, 0).data.valid BY <4>1 DEF RoutesHaveResults
      <4> QED BY <1>4, <3>1, <4>2 DEF FuFacts, data_switchbox
    <3>2. CASE s # "FU"
      <4>1. data_src_mux(t, w, s).valid BY <1>3, <2>1, <3>2, SourcesAgree
      <4> QED BY <3>2, <4>1 DEF data_switchbox
    <3> QED BY <3>1, <3>2
  <2>2. ASSUME NEW s \in PredConsumed(w) PROVE pred_switchbox(t, w, s).valid
    <3>1. CASE s = "FU"
      <4>1. \E d \in Dirs : w.pred_route[d] = "FU" BY <2>2, <3>1, FuIsRouted
      <4>2. GoldFu(w.op, 0, 0, 0, 0).pred.valid BY <4>1 DEF RoutesHaveResults
      <4> QED BY <1>4, <3>1, <4>2 DEF FuFacts, pred_switchbox
    <3>2. CASE s # "FU"
      <4>1. pred_src_mux(t, w, s).valid BY <1>3, <2>2, <3>2, SourcesAgree
      <4> QED BY <3>2, <4>1 DEF pred_switchbox
    <3> QED BY <3>1, <3>2
  <2> QED BY <2>1, <2>2 DEF src_fatal
<1>6. ~rf_fatal(DataReads(w), data_initialized[t], w.data_w0, w.data_w1)
  <2>1. ~check_read_write_hazards(data_read_addrs(w), data_valid[t], w.data_w0, w.data_w1)
    BY DEF tile_error
  <2>2. data_valid[t] \subseteq data_initialized[t] BY DEF Agree, RegistersAgree
  <2> QED BY <1>3, <2>1, <2>2 DEF check_read_write_hazards, rf_fatal
<1>7. ~rf_fatal(PredReads(w), pred_initialized[t], w.pred_w0, w.pred_w1)
  <2>1. ~check_read_write_hazards(pred_read_addrs(w), pred_valid[t], w.pred_w0, w.pred_w1)
    BY DEF tile_error
  <2>2. pred_valid[t] \subseteq pred_initialized[t] BY DEF Agree, RegistersAgree
  <2> QED BY <1>3, <2>1, <2>2 DEF check_read_write_hazards, rf_fatal
<1>8. /\ w.data_w0 # NoAddr => fu(t, w).data.valid
      /\ w.pred_w0 # NoAddr => fu(t, w).pred.valid
  BY <1>1 DEF TileAgrees, tile_error
<1>9. ~lsu_fatal(t, w) BY <1>1 DEF RequestAgrees, lsu_fatal
<1> QED BY <1>5, <1>6, <1>7, <1>8, <1>9 DEF tile_fatal

\* The request of a tile, and where a request comes from.
TheRequest(t, w) ==
    [tile |-> t, store |-> w.lsu = "STORE",
     address |-> data_source(t, w, w.lsu_addr).value,
     data |-> data_source(t, w, w.lsu_data).value]

LEMMA RequestOf ==
    ASSUME NEW words
    PROVE  /\ \A t \in Tiles : words[t].lsu = "LOAD" \/ store_committed(t, words[t]) =>
                 TheRequest(t, words[t]) \in Requests(words)
           /\ \A q \in Requests(words) :
                 /\ q.tile \in Tiles
                 /\ q = TheRequest(q.tile, words[q.tile])
                 /\ words[q.tile].lsu = "LOAD" \/ store_committed(q.tile, words[q.tile])
<1>1. ASSUME NEW t \in Tiles, words[t].lsu = "LOAD" \/ store_committed(t, words[t])
      PROVE  TheRequest(t, words[t]) \in Requests(words)
  <2>1. TheRequest(t, words[t]) \in Request(t, words[t])
    BY <1>1 DEF Request, TheRequest, Only
  <2> QED BY <2>1 DEF Requests
<1>2. ASSUME NEW q \in Requests(words)
      PROVE  /\ q.tile \in Tiles
             /\ q = TheRequest(q.tile, words[q.tile])
             /\ words[q.tile].lsu = "LOAD" \/ store_committed(q.tile, words[q.tile])
  <2>1. PICK t \in Tiles : q \in Request(t, words[t]) BY DEF Requests
  <2>2. q = TheRequest(t, words[t]) /\ (words[t].lsu = "LOAD" \/ store_committed(t, words[t]))
    BY <2>1 DEF Request, TheRequest, Only
  <2>3. q.tile = t BY <2>2 DEF TheRequest
  <2> QED BY <2>2, <2>3
<1> QED BY <1>1, <1>2

LEMMA ArrayDoesNotStop ==
    ASSUME RtlTyped, GoldTyped, Agree, NEW words, LinesOK(words), ~GoldenRaises(words),
           \A t \in Tiles : RoutesHaveResults(words[t])
    PROVE  ~RtlFatal(words, {})
<1>1. \A t \in Tiles : WordOK(t, words[t]) /\ ~tile_error(t, words[t])
  BY DEF LinesOK, GoldenRaises
<1>2. \A t \in Tiles : ~tile_fatal(t, words[t]) BY <1>1, TileDoesNotStop
<1>3. ~same_address_conflict(words)
  <2> SUFFICES ASSUME NEW t \in LsuTiles, NEW u \in LsuTiles, t # u,
                      mem_req_valid(t, words[t]), mem_req_valid(u, words[u]),
                      lsu_addr(t, words[t]) = lsu_addr(u, words[u]),
                      store_commit(t, words[t]) \/ store_commit(u, words[u])
               PROVE  FALSE
    BY DEF same_address_conflict
  <2> DEFINE p == TheRequest(t, words[t])
             q == TheRequest(u, words[u])
  <2>1. t \in Tiles /\ u \in Tiles BY FabricAssumption
  <2>2. RequestAgrees(t, words[t]) /\ RequestAgrees(u, words[u]) BY <1>1, <2>1, RequestsAgree
  <2>3. /\ words[t].lsu = "LOAD" \/ store_committed(t, words[t])
        /\ words[u].lsu = "LOAD" \/ store_committed(u, words[u])
    BY <2>2 DEF RequestAgrees, mem_req_valid
  <2>4. p \in Requests(words) /\ q \in Requests(words) BY <2>1, <2>3, RequestOf
  <2>5. p # q
    <3>1. p.tile = t /\ q.tile = u BY DEF TheRequest
    <3> HIDE DEF p, q
    <3> QED BY <3>1
  <2>6. words[t].lsu # "NONE" /\ words[u].lsu # "NONE" BY <2>3 DEF store_committed
  <2>7. p.address = q.address BY <2>2, <2>6 DEF RequestAgrees, TheRequest
  <2>8. p.store \/ q.store
    <3>1. words[t].lsu = "STORE" \/ words[u].lsu = "STORE" BY DEF store_commit
    <3> QED BY <3>1 DEF TheRequest
  <2>9. StoreConflict(words) BY <2>4, <2>5, <2>7, <2>8 DEF StoreConflict
  <2> QED BY <2>9 DEF GoldenRaises
<1> QED BY <1>2, <1>3 DEF RtlFatal

\* What is stored: at most one tile writes an address, so both choose it.
StoredAt(words, a) ==
    IF \E q \in Requests(words) : q.store /\ q.address = a
    THEN (CHOOSE q \in Requests(words) : q.store /\ q.address = a).data
    ELSE shared_scratchpad[a]

LEMMA ScratchpadsAgree ==
    ASSUME RtlTyped, GoldTyped, Agree, NEW words, LinesOK(words), ~GoldenRaises(words)
    PROVE  ScratchpadAfter(words, {}) = [a \in Addrs |-> StoredAt(words, a)]
<1>1. \A t \in Tiles : RequestAgrees(t, words[t]) BY RequestsAgree DEF LinesOK, GoldenRaises
<1> DEFINE Writes(t, a) == store_commit(t, words[t]) /\ lsu_addr(t, words[t]).value = a
           Stores(q, a) == q.store /\ q.address = a
<1>2. ASSUME NEW t \in LsuTiles, NEW a, Writes(t, a)
      PROVE  LET q == TheRequest(t, words[t])
             IN  /\ q \in Requests(words) /\ Stores(q, a) /\ q.tile = t
                 /\ q.data = data_src_mux(t, words[t], words[t].lsu_data).value
  <2>1. t \in Tiles BY FabricAssumption
  <2>2. store_committed(t, words[t]) /\ words[t].lsu = "STORE"
    BY <1>1, <1>2, <2>1 DEF RequestAgrees, store_commit
  <2>3. TheRequest(t, words[t]) \in Requests(words) BY <2>1, <2>2, RequestOf
  <2>4. /\ lsu_addr(t, words[t]) = data_source(t, words[t], words[t].lsu_addr)
        /\ data_src_mux(t, words[t], words[t].lsu_data).value
             = data_source(t, words[t], words[t].lsu_data).value
    BY <1>1, <1>2, <2>1, <2>2 DEF RequestAgrees
  <2> QED BY <1>2, <2>2, <2>3, <2>4 DEF TheRequest
<1>3. ASSUME NEW q \in Requests(words), NEW a, Stores(q, a)
      PROVE  q.tile \in LsuTiles /\ Writes(q.tile, a)
  <2> DEFINE t == q.tile
             w == words[q.tile]
  <2>1. t \in Tiles /\ q = TheRequest(t, w) /\ (w.lsu = "LOAD" \/ store_committed(t, w))
    BY RequestOf
  <2>2. q.store <=> w.lsu = "STORE"
    <3>1. TheRequest(t, w).store <=> w.lsu = "STORE" BY DEF TheRequest
    <3> QED BY <2>1, <3>1
  <2>3. q.address = data_source(t, w, w.lsu_addr).value
    <3>1. TheRequest(t, w).address = data_source(t, w, w.lsu_addr).value BY DEF TheRequest
    <3> QED BY <2>1, <3>1
  <2> HIDE DEF t, w
  <2>4. store_committed(t, w) /\ w.lsu = "STORE" BY <1>3, <2>1, <2>2
  <2>5. RequestAgrees(t, w) BY <1>1, <2>1 DEF t, w
  <2>6. store_commit(t, w) /\ t \in LsuTiles /\ lsu_addr(t, w).value = q.address
    BY <2>3, <2>4, <2>5 DEF RequestAgrees
  <2> QED BY <1>3, <2>6 DEF t, w
<1>4. ASSUME NEW q \in Requests(words), NEW p \in Requests(words), NEW a,
             Stores(q, a), Stores(p, a)
      PROVE  q = p
  BY <1>4 DEF GoldenRaises, StoreConflict
<1> HIDE DEF Writes, Stores
<1>5. ASSUME NEW a \in Addrs PROVE ScratchpadAfter(words, {})[a] = StoredAt(words, a)
  <2>1. ScratchpadAfter(words, {})[a]
          = IF \E t \in LsuTiles : Writes(t, a)
            THEN LET t == CHOOSE t \in LsuTiles : Writes(t, a)
                 IN  data_src_mux(t, words[t], words[t].lsu_data).value
            ELSE scratchpad_mem[a]
    BY DEF ScratchpadAfter, Writes
  <2>2. StoredAt(words, a)
          = IF \E q \in Requests(words) : Stores(q, a)
            THEN (CHOOSE q \in Requests(words) : Stores(q, a)).data
            ELSE shared_scratchpad[a]
    BY DEF StoredAt, Stores
  <2>3. CASE \E t \in LsuTiles : Writes(t, a)
    <3> DEFINE t == CHOOSE t \in LsuTiles : Writes(t, a)
               q == CHOOSE q \in Requests(words) : Stores(q, a)
               p == TheRequest(t, words[t])
    <3>1. t \in LsuTiles /\ Writes(t, a) BY <2>3
    <3>2. ScratchpadAfter(words, {})[a] = data_src_mux(t, words[t], words[t].lsu_data).value
      BY <2>1, <2>3
    <3> HIDE DEF t
    <3>3. /\ p \in Requests(words) /\ Stores(p, a)
          /\ p.data = data_src_mux(t, words[t], words[t].lsu_data).value
      BY <1>2, <3>1
    <3> HIDE DEF p
    <3>4. q \in Requests(words) /\ Stores(q, a) BY <3>3
    <3>5. StoredAt(words, a) = q.data BY <2>2, <3>3
    <3> HIDE DEF q
    <3>6. p = q BY <1>4, <3>3, <3>4
    <3> QED BY <3>2, <3>3, <3>5, <3>6
  <2>4. CASE ~\E t \in LsuTiles : Writes(t, a)
    <3>1. ~\E q \in Requests(words) : Stores(q, a) BY <1>3, <2>4
    <3> QED BY <2>1, <2>2, <2>4, <3>1 DEF Agree
  <2> QED BY <2>3, <2>4
<1>6. ScratchpadAfter(words, {}) = [a \in Addrs |-> ScratchpadAfter(words, {})[a]]
  BY DEF ScratchpadAfter
<1> QED BY <1>5, <1>6

-----------------------------------------------------------------------------
(* One cycle of each machine                                               *)

\* A register file after a cycle: port 0, port 1, or what it held.
LEMMA WrittenRegister ==
    ASSUME NEW t \in Tiles, NEW w, WordOK(t, w)
    PROVE  /\ \A r \in DataRegs :
                 /\ r = w.data_w0 /\ w.data_w0 # w.data_w1 =>
                       /\ data_rf_write(t, w)[r] = fu(t, w).data.value
                       /\ write_data_rf(t, w)[r] = Executed(t, w).data.value
                 /\ r = w.data_w1 /\ w.data_w0 # w.data_w1 =>
                       /\ data_rf_write(t, w)[r] = data_src_mux(t, w, w.data_w1_src).value
                       /\ write_data_rf(t, w)[r] = data_source(t, w, w.data_w1_src).value
                 /\ r \notin {w.data_w0, w.data_w1} =>
                       /\ data_rf_write(t, w)[r] = data_mem[t][r]
                       /\ write_data_rf(t, w)[r] = data_rf[t][r]
           /\ \A r \in PredRegs :
                 /\ r = w.pred_w0 /\ w.pred_w0 # w.pred_w1 =>
                       /\ pred_rf_write(t, w)[r] = fu(t, w).pred.value
                       /\ write_pred_rf(t, w)[r] = Executed(t, w).pred.value
                 /\ r = w.pred_w1 /\ w.pred_w0 # w.pred_w1 =>
                       /\ pred_rf_write(t, w)[r] = pred_src_mux(t, w, w.pred_w1_src).value
                       /\ write_pred_rf(t, w)[r] = pred_source(t, w, w.pred_w1_src).value
                 /\ r \notin {w.pred_w0, w.pred_w1} =>
                       /\ pred_rf_write(t, w)[r] = pred_mem[t][r]
                       /\ write_pred_rf(t, w)[r] = pred_rf[t][r]
<1>1. ASSUME NEW r \in DataRegs
      PROVE  /\ r = w.data_w0 /\ w.data_w0 # w.data_w1 =>
                   /\ data_rf_write(t, w)[r] = fu(t, w).data.value
                   /\ write_data_rf(t, w)[r] = Executed(t, w).data.value
             /\ r = w.data_w1 /\ w.data_w0 # w.data_w1 =>
                   /\ data_rf_write(t, w)[r] = data_src_mux(t, w, w.data_w1_src).value
                   /\ write_data_rf(t, w)[r] = data_source(t, w, w.data_w1_src).value
             /\ r \notin {w.data_w0, w.data_w1} =>
                   /\ data_rf_write(t, w)[r] = data_mem[t][r]
                   /\ write_data_rf(t, w)[r] = data_rf[t][r]
  BY DEF data_rf_write, write_data_rf
<1>2. ASSUME NEW r \in PredRegs
      PROVE  /\ r = w.pred_w0 /\ w.pred_w0 # w.pred_w1 =>
                   /\ pred_rf_write(t, w)[r] = fu(t, w).pred.value
                   /\ write_pred_rf(t, w)[r] = Executed(t, w).pred.value
             /\ r = w.pred_w1 /\ w.pred_w0 # w.pred_w1 =>
                   /\ pred_rf_write(t, w)[r] = pred_src_mux(t, w, w.pred_w1_src).value
                   /\ write_pred_rf(t, w)[r] = pred_source(t, w, w.pred_w1_src).value
             /\ r \notin {w.pred_w0, w.pred_w1} =>
                   /\ pred_rf_write(t, w)[r] = pred_mem[t][r]
                   /\ write_pred_rf(t, w)[r] = pred_rf[t][r]
  BY DEF pred_rf_write, write_pred_rf
<1> QED BY <1>1, <1>2

LEMMA RegistersStep ==
    ASSUME RtlTyped, GoldTyped, Agree, NEW words, LinesOK(words), ~GoldenRaises(words),
           RtlEdge(words, {}), GoldenAdvance(words)
    PROVE  RegistersAgree'
<1> SUFFICES ASSUME NEW t \in Tiles
             PROVE  /\ \A r \in data_valid'[t] :
                          r \in data_initialized'[t] /\ data_mem'[t][r] = data_rf'[t][r]
                    /\ \A r \in pred_valid'[t] :
                          r \in pred_initialized'[t] /\ pred_mem'[t][r] = pred_rf'[t][r]
  BY DEF RegistersAgree
<1> DEFINE w == words[t]
<1>1. WordOK(t, w) /\ ~tile_error(t, w) BY DEF LinesOK, GoldenRaises
<1>2. /\ data_mem'[t] = data_rf_write(t, w) /\ data_rf'[t] = write_data_rf(t, w)
      /\ pred_mem'[t] = pred_rf_write(t, w) /\ pred_rf'[t] = write_pred_rf(t, w)
      /\ data_initialized'[t] = data_initialized[t] \cup ({w.data_w0, w.data_w1} \ {NoAddr})
      /\ pred_initialized'[t] = pred_initialized[t] \cup ({w.pred_w0, w.pred_w1} \ {NoAddr})
      /\ data_valid'[t] = data_valid[t] \cup ({w.data_w0, w.data_w1} \ {NoAddr})
      /\ pred_valid'[t] = pred_valid[t] \cup ({w.pred_w0, w.pred_w1} \ {NoAddr})
  BY DEF RtlEdge, GoldenAdvance, MarkWritten
<1> HIDE DEF w
<1>3. TileAgrees(t, w) BY <1>1, TilesAgree
<1>4. /\ w.data_w0 \in DataRegs \cup {NoAddr} /\ w.data_w1 \in DataRegs \cup {NoAddr}
      /\ w.pred_w0 \in PredRegs \cup {NoAddr} /\ w.pred_w1 \in PredRegs \cup {NoAddr}
  BY <1>1, WordFields
<1>5. /\ ~(w.data_w0 # NoAddr /\ w.data_w0 = w.data_w1)
      /\ ~(w.pred_w0 # NoAddr /\ w.pred_w0 = w.pred_w1)
  BY <1>1 DEF tile_error, check_read_write_hazards
<1>6. data_valid[t] \subseteq DataRegs /\ pred_valid[t] \subseteq PredRegs BY DEF GoldTyped
<1>7. ASSUME NEW r \in data_valid'[t]
      PROVE  r \in data_initialized'[t] /\ data_mem'[t][r] = data_rf'[t][r]
  <2>1. r \in DataRegs /\ (r \in data_valid[t] \/ (r \in {w.data_w0, w.data_w1} /\ r # NoAddr))
    BY <1>2, <1>4, <1>6
  <2>2. CASE r \in {w.data_w0, w.data_w1} /\ r # NoAddr
    <3>1. w.data_w0 # w.data_w1 BY <1>5, <2>2
    <3>2. CASE r = w.data_w0 BY <1>1, <1>2, <1>3, <2>1, <2>2, <3>1, <3>2, WrittenRegister DEF TileAgrees
    <3>3. CASE r = w.data_w1 BY <1>1, <1>2, <1>3, <2>1, <2>2, <3>1, <3>3, WrittenRegister DEF TileAgrees
    <3> QED BY <2>2, <3>2, <3>3
  <2>3. CASE r \in data_valid[t] /\ ~(r \in {w.data_w0, w.data_w1} /\ r # NoAddr)
    <3>1. r # NoAddr
      <4>1. NoAddr \notin DataRegs BY FabricAssumption DEF NoAddr, DataRegs
      <4> QED BY <2>1, <4>1
    <3>2. r \in data_initialized[t] /\ data_mem[t][r] = data_rf[t][r]
      BY <2>3 DEF Agree, RegistersAgree
    <3> QED BY <1>1, <1>2, <2>1, <2>3, <3>1, <3>2, WrittenRegister
  <2> QED BY <2>1, <2>2, <2>3
<1>8. ASSUME NEW r \in pred_valid'[t]
      PROVE  r \in pred_initialized'[t] /\ pred_mem'[t][r] = pred_rf'[t][r]
  <2>1. r \in PredRegs /\ (r \in pred_valid[t] \/ (r \in {w.pred_w0, w.pred_w1} /\ r # NoAddr))
    BY <1>2, <1>4, <1>6
  <2>2. CASE r \in {w.pred_w0, w.pred_w1} /\ r # NoAddr
    <3>1. w.pred_w0 # w.pred_w1 BY <1>5, <2>2
    <3>2. CASE r = w.pred_w0 BY <1>1, <1>2, <1>3, <2>1, <2>2, <3>1, <3>2, WrittenRegister DEF TileAgrees
    <3>3. CASE r = w.pred_w1 BY <1>1, <1>2, <1>3, <2>1, <2>2, <3>1, <3>3, WrittenRegister DEF TileAgrees
    <3> QED BY <2>2, <3>2, <3>3
  <2>3. CASE r \in pred_valid[t] /\ ~(r \in {w.pred_w0, w.pred_w1} /\ r # NoAddr)
    <3>1. r # NoAddr
      <4>1. NoAddr \notin PredRegs BY FabricAssumption DEF NoAddr, PredRegs
      <4> QED BY <2>1, <4>1
    <3>2. r \in pred_initialized[t] /\ pred_mem[t][r] = pred_rf[t][r]
      BY <2>3 DEF Agree, RegistersAgree
    <3> QED BY <1>1, <1>2, <2>1, <2>3, <3>1, <3>2, WrittenRegister
  <2> QED BY <2>1, <2>2, <2>3
<1> QED BY <1>7, <1>8

LEMMA LinksStep ==
    ASSUME RtlTyped, GoldTyped, Agree, NEW words, LinesOK(words), ~GoldenRaises(words),
           RtlEdge(words, {}), GoldenAdvance(words)
    PROVE  LinksAgree'
<1> SUFFICES ASSUME NEW t \in Tiles, NEW d \in Dirs
             PROVE  /\ LinkIn(data_link', t, d) = data_inputs'[t][d]
                    /\ LinkIn(pred_link', t, d) = pred_inputs'[t][d]
  BY DEF LinksAgree
<1> DEFINE n == Neighbour(t, d)
           o == Opposite[d]
           w == words[Neighbour(t, d)]
<1>1. o \in Dirs BY DEF Opposite, Dirs
<1>2. /\ data_inputs'[t][d] = IF n \in Tiles THEN data_sent(words)[n][o] ELSE Absent
      /\ pred_inputs'[t][d] = IF n \in Tiles THEN pred_sent(words)[n][o] ELSE Absent
  BY DEF GoldenAdvance, route_outputs
<1>3. CASE n \notin Tiles BY <1>2, <1>3 DEF LinkIn
<1>4. CASE n \in Tiles
  <2>1. /\ LinkIn(data_link', t, d) = data_outputs(n, w)[o]
        /\ LinkIn(pred_link', t, d) = pred_outputs(n, w)[o]
    BY <1>4 DEF LinkIn, RtlEdge
  <2>2. /\ data_sent(words)[n][o] =
             IF w.data_route[o] = "OFF" THEN Absent
             ELSE Valid(data_route_source(n, w, w.data_route[o]).value)
        /\ pred_sent(words)[n][o] =
             IF w.pred_route[o] = "OFF" THEN Absent
             ELSE Valid(pred_route_source(n, w, w.pred_route[o]).value)
    BY <1>1, <1>4 DEF data_sent, pred_sent
  <2>3. /\ data_outputs(n, w)[o] =
             IF w.data_route[o] = "OFF" THEN Absent
             ELSE Valid(data_switchbox(n, w, w.data_route[o]).value)
        /\ pred_outputs(n, w)[o] =
             IF w.pred_route[o] = "OFF" THEN Absent
             ELSE Valid(pred_switchbox(n, w, w.pred_route[o]).value)
    BY <1>1 DEF data_outputs, pred_outputs
  <2>4. WordOK(n, w) /\ ~tile_error(n, w) BY <1>4 DEF LinesOK, GoldenRaises
  <2> HIDE DEF n, w, o
  <2>5. TileAgrees(n, w) BY <1>4, <2>4, TilesAgree
  <2> QED BY <1>1, <1>2, <1>4, <2>1, <2>2, <2>3, <2>5 DEF TileAgrees
<1> QED BY <1>3, <1>4

LEMMA LoadsStep ==
    ASSUME RtlTyped, GoldTyped, Agree, NEW words, LinesOK(words), ~GoldenRaises(words),
           RtlEdge(words, {}), GoldenAdvance(words)
    PROVE  LoadsAgree'
<1> SUFFICES ASSUME NEW t \in Tiles
             PROVE  pending_loads'[t] =
                      (IF load_resp'[t].valid THEN {<<cycle', load_resp'[t].value>>} ELSE {})
                        \cup
                      (IF load_q0'[t].valid THEN {<<cycle' + 1, load_q0'[t].value>>} ELSE {})
  BY DEF LoadsAgree
<1> DEFINE w == words[t]
           x == load_resp[t]
           y == load_q0[t]
           z == Fetched(t, w)
           loads == {r \in Request(t, w) : ~r.store}
           new == {<<cycle + LOAD_LATENCY, shared_scratchpad[q.address]>> : q \in loads}
<1>1. WordOK(t, w) /\ ~tile_error(t, w) BY DEF LinesOK, GoldenRaises
<1>2. /\ pending_loads'[t] = {p \in pending_loads[t] : p[1] # cycle} \cup new
      /\ load_resp'[t] = y /\ load_q0'[t] = z /\ cycle' = cycle + 1
  BY DEF GoldenAdvance, resolve_memory, RtlEdge, LoadPipe
<1>3. pending_loads[t] = (IF x.valid THEN {<<cycle, x.value>>} ELSE {}) \cup
                         (IF y.valid THEN {<<cycle + 1, y.value>>} ELSE {})
  BY DEF Agree, LoadsAgree
<1>4. cycle \in Nat /\ LOAD_LATENCY = 2 BY LockstepAssumption DEF GoldTyped
<1>5. RequestAgrees(t, w) BY <1>1, RequestsAgree
<1>6. scratchpad_mem = shared_scratchpad BY DEF Agree
<1>7. new = IF z.valid THEN {<<cycle + 2, z.value>>} ELSE {}
  <2>1. CASE w.lsu = "LOAD"
    <3> DEFINE q == TheRequest(t, w)
    <3>1. Request(t, w) = {q} BY <2>1 DEF Request, Only, TheRequest
    <3>2. ~q.store BY <2>1 DEF TheRequest
    <3>3. q.address = lsu_addr(t, w).value BY <1>5, <2>1 DEF TheRequest, RequestAgrees
    <3>4. issue_load(t, w) BY <1>5, <2>1 DEF RequestAgrees
    <3>5. z = Valid(scratchpad_mem[lsu_addr(t, w).value]) BY <3>4 DEF Fetched
    <3>6. z.valid /\ z.value = shared_scratchpad[q.address] BY <1>6, <3>3, <3>5 DEF Valid
    <3> HIDE DEF q, z
    <3>7. loads = {q} BY <3>1, <3>2
    <3> QED BY <1>4, <3>6, <3>7
  <2>2. CASE w.lsu # "LOAD"
    <3>1. ~issue_load(t, w) BY <2>2 DEF issue_load
    <3>2. ~z.valid BY <3>1 DEF Fetched, Absent
    <3>3. ASSUME NEW r \in Request(t, w) PROVE r.store
      <4>1. w.lsu = "STORE" BY <2>2, <3>3 DEF Request, Only, store_committed
      <4>2. r = TheRequest(t, w) BY <3>3 DEF Request, Only, TheRequest
      <4> QED BY <4>1, <4>2 DEF TheRequest
    <3>4. loads = {} BY <3>3
    <3> QED BY <3>2, <3>4
  <2> QED BY <2>1, <2>2
<1> HIDE DEF x, y, z, new
<1>8. {p \in pending_loads[t] : p[1] # cycle} = IF y.valid THEN {<<cycle + 1, y.value>>} ELSE {}
  BY <1>3, <1>4
<1>9. cycle' + 1 = cycle + 2 BY <1>2, <1>4
<1> QED BY <1>2, <1>7, <1>8, <1>9

LEMMA CycleAgrees ==
    ASSUME RtlTyped, GoldTyped, Agree, NEW words, LinesOK(words), ~GoldenRaises(words),
           RtlEdge(words, {}), GoldenAdvance(words)
    PROVE  Agree'
<1>1. scratchpad_mem' = shared_scratchpad'
  <2>1. scratchpad_mem' = ScratchpadAfter(words, {}) BY DEF RtlEdge
  <2>2. shared_scratchpad' = [a \in Addrs |-> StoredAt(words, a)]
    BY DEF GoldenAdvance, resolve_memory, StoredAt
  <2> QED BY <2>1, <2>2, ScratchpadsAgree
<1>2. RegistersAgree' BY RegistersStep
<1>3. LinksAgree' BY LinksStep
<1>4. LoadsAgree' BY LoadsStep
<1> QED BY <1>1, <1>2, <1>3, <1>4 DEF Agree

-----------------------------------------------------------------------------
(* Each machine keeps its types                                            *)

LEMMA TileStepTyped ==
    ASSUME RtlTyped, NEW t \in Tiles, NEW w, WordOK(t, w), ~tile_fatal(t, w)
    PROVE  /\ data_rf_write(t, w) \in [DataRegs -> Words]
           /\ pred_rf_write(t, w) \in [PredRegs -> {0, 1}]
           /\ MarkWritten(data_initialized[t], w.data_w0, w.data_w1) \subseteq DataRegs
           /\ MarkWritten(pred_initialized[t], w.pred_w0, w.pred_w1) \subseteq PredRegs
           /\ data_outputs(t, w) \in [Dirs -> LinkValue]
           /\ pred_outputs(t, w) \in [Dirs -> PredValue]
           /\ Fetched(t, w) \in LinkValue
<1>1. /\ \A s : data_src_mux(t, w, s) \in LinkValue
      /\ \A s : pred_src_mux(t, w, s) \in PredValue
  BY MuxTyped
<1>2. fu(t, w).data \in LinkValue /\ fu(t, w).pred \in PredValue BY FuTyped DEF FuFacts
<1>3. /\ \A r \in DataRegs : data_mem[t][r] \in Words
      /\ \A r \in PredRegs : pred_mem[t][r] \in {0, 1}
      /\ data_initialized[t] \subseteq DataRegs /\ pred_initialized[t] \subseteq PredRegs
      /\ \A a \in Addrs : scratchpad_mem[a] \in Words
  BY DEF RtlTyped
<1>4. /\ \A s : data_src_mux(t, w, s).value \in Words
      /\ \A s : pred_src_mux(t, w, s).value \in {0, 1}
      /\ fu(t, w).data.value \in Words /\ fu(t, w).pred.value \in {0, 1}
  BY <1>1, <1>2, PlainValues
<1>5. data_rf_write(t, w) \in [DataRegs -> Words]
  <2>1. ASSUME NEW r \in DataRegs
        PROVE  (CASE r = w.data_w0 -> fu(t, w).data.value
                  [] r = w.data_w1 -> data_src_mux(t, w, w.data_w1_src).value
                  [] OTHER         -> data_mem[t][r]) \in Words
    BY <1>3, <1>4
  <2> QED BY <2>1 DEF data_rf_write
<1>6. pred_rf_write(t, w) \in [PredRegs -> {0, 1}]
  <2>1. ASSUME NEW r \in PredRegs
        PROVE  (CASE r = w.pred_w0 -> fu(t, w).pred.value
                  [] r = w.pred_w1 -> pred_src_mux(t, w, w.pred_w1_src).value
                  [] OTHER         -> pred_mem[t][r]) \in {0, 1}
    BY <1>3, <1>4
  <2> QED BY <2>1 DEF pred_rf_write
<1>7. /\ MarkWritten(data_initialized[t], w.data_w0, w.data_w1) \subseteq DataRegs
      /\ MarkWritten(pred_initialized[t], w.pred_w0, w.pred_w1) \subseteq PredRegs
  <2>1. /\ w.data_w0 \in DataRegs \cup {NoAddr} /\ w.data_w1 \in DataRegs \cup {NoAddr}
        /\ w.pred_w0 \in PredRegs \cup {NoAddr} /\ w.pred_w1 \in PredRegs \cup {NoAddr}
    BY WordFields
  <2> QED BY <1>3, <2>1 DEF MarkWritten
<1>8. data_outputs(t, w) \in [Dirs -> LinkValue]
  <2>1. ASSUME NEW s PROVE Valid(data_switchbox(t, w, s).value) \in LinkValue
    BY <1>4, PlainValues DEF data_switchbox
  <2> QED BY <2>1, PlainValues DEF data_outputs
<1>9. pred_outputs(t, w) \in [Dirs -> PredValue]
  <2>1. ASSUME NEW s PROVE Valid(pred_switchbox(t, w, s).value) \in PredValue
    BY <1>4, PlainValues DEF pred_switchbox
  <2> QED BY <2>1, PlainValues DEF pred_outputs
<1>10. Fetched(t, w) \in LinkValue
  <2>1. CASE issue_load(t, w)
    <3>1. lsu_addr(t, w).value \in Addrs BY <2>1 DEF issue_load, tile_fatal, lsu_fatal
    <3> QED BY <1>3, <2>1, <3>1, PlainValues DEF Fetched
  <2>2. CASE ~issue_load(t, w) BY <2>2, PlainValues DEF Fetched
  <2> QED BY <2>1, <2>2
<1> QED BY <1>5, <1>6, <1>7, <1>8, <1>9, <1>10

LEMMA ScratchpadTyped ==
    ASSUME RtlTyped, NEW words, LinesOK(words)
    PROVE  ScratchpadAfter(words, {}) \in [Addrs -> Words]
<1>1. ASSUME NEW a \in Addrs PROVE ScratchpadAfter(words, {})[a] \in Words
  <2> DEFINE W(t) == store_commit(t, words[t]) /\ lsu_addr(t, words[t]).value = a
             u == CHOOSE t \in LsuTiles : W(t)
  <2>1. ScratchpadAfter(words, {})[a] =
          IF \E t \in LsuTiles : W(t)
          THEN data_src_mux(u, words[u], words[u].lsu_data).value
          ELSE scratchpad_mem[a]
    BY DEF ScratchpadAfter
  <2>2. CASE \E t \in LsuTiles : W(t)
    <3>1. u \in LsuTiles BY <2>2
    <3>2. u \in Tiles /\ WordOK(u, words[u]) BY <3>1, FabricAssumption DEF LinesOK
    <3>3. data_src_mux(u, words[u], words[u].lsu_data) \in LinkValue BY <3>2, MuxTyped
    <3> QED BY <2>1, <2>2, <3>3, PlainValues
  <2>3. CASE ~\E t \in LsuTiles : W(t) BY <2>1, <2>3 DEF RtlTyped
  <2> QED BY <2>2, <2>3
<1>2. ScratchpadAfter(words, {}) = [a \in Addrs |-> ScratchpadAfter(words, {})[a]]
  BY DEF ScratchpadAfter
<1> HIDE DEF ScratchpadAfter
<1> QED BY <1>1, <1>2

LEMMA RtlStepTyped ==
    ASSUME RtlTyped, NEW words, LinesOK(words), ~RtlFatal(words, {}), RtlEdge(words, {})
    PROVE  RtlTyped'
<1>1. \A t \in Tiles : WordOK(t, words[t]) /\ ~tile_fatal(t, words[t]) BY DEF LinesOK, RtlFatal
<1>2. /\ data_mem' \in [Tiles -> [DataRegs -> Words]]
      /\ pred_mem' \in [Tiles -> [PredRegs -> {0, 1}]]
  BY <1>1, TileStepTyped DEF RtlEdge
<1>3. /\ data_initialized' \in [Tiles -> SUBSET DataRegs]
      /\ pred_initialized' \in [Tiles -> SUBSET PredRegs]
  BY <1>1, TileStepTyped DEF RtlEdge
<1>4. /\ data_link' \in [Tiles -> [Dirs -> LinkValue]]
      /\ pred_link' \in [Tiles -> [Dirs -> PredValue]]
  BY <1>1, TileStepTyped DEF RtlEdge
<1>5. load_q0' \in [Tiles -> LinkValue] /\ load_resp' \in [Tiles -> LinkValue]
  <2>1. load_resp' = load_q0 /\ load_q0' = [t \in Tiles |-> Fetched(t, words[t])]
    BY DEF RtlEdge, LoadPipe
  <2> QED BY <1>1, <2>1, TileStepTyped DEF RtlTyped
<1>6. scratchpad_mem' \in [Addrs -> Words] BY ScratchpadTyped DEF RtlEdge
<1> QED BY <1>2, <1>3, <1>4, <1>5, <1>6 DEF RtlTyped

LEMMA GoldenTileTyped ==
    ASSUME GoldTyped, NEW t \in Tiles, NEW w, WordOK(t, w), ~tile_error(t, w)
    PROVE  /\ write_data_rf(t, w) \in [DataRegs -> Words]
           /\ write_pred_rf(t, w) \in [PredRegs -> {0, 1}]
           /\ data_valid[t] \cup ({w.data_w0, w.data_w1} \ {NoAddr}) \subseteq DataRegs
           /\ pred_valid[t] \cup ({w.pred_w0, w.pred_w1} \ {NoAddr}) \subseteq PredRegs
           /\ \A s : Valid(data_route_source(t, w, s).value) \in LinkValue
           /\ \A s : Valid(pred_route_source(t, w, s).value) \in PredValue
           /\ \A q \in Request(t, w) : q.address \in Addrs /\ q.data \in Words
<1>1. /\ \A s : data_source(t, w, s) \in LinkValue
      /\ \A s : pred_source(t, w, s) \in PredValue
  BY SourceTyped
<1>2. Executed(t, w).data \in LinkValue /\ Executed(t, w).pred \in PredValue
  BY ExecutedTyped DEF FuFacts
<1>3. /\ \A r \in DataRegs : data_rf[t][r] \in Words
      /\ \A r \in PredRegs : pred_rf[t][r] \in {0, 1}
      /\ data_valid[t] \subseteq DataRegs /\ pred_valid[t] \subseteq PredRegs
  BY DEF GoldTyped
<1>4. /\ \A s : data_source(t, w, s).value \in Words
      /\ \A s : pred_source(t, w, s).value \in {0, 1}
      /\ Executed(t, w).data.value \in Words /\ Executed(t, w).pred.value \in {0, 1}
  BY <1>1, <1>2, PlainValues
<1>5. write_data_rf(t, w) \in [DataRegs -> Words]
  <2>1. ASSUME NEW r \in DataRegs
        PROVE  (CASE r = w.data_w0 -> Executed(t, w).data.value
                  [] r = w.data_w1 -> data_source(t, w, w.data_w1_src).value
                  [] OTHER         -> data_rf[t][r]) \in Words
    BY <1>3, <1>4
  <2> QED BY <2>1 DEF write_data_rf
<1>6. write_pred_rf(t, w) \in [PredRegs -> {0, 1}]
  <2>1. ASSUME NEW r \in PredRegs
        PROVE  (CASE r = w.pred_w0 -> Executed(t, w).pred.value
                  [] r = w.pred_w1 -> pred_source(t, w, w.pred_w1_src).value
                  [] OTHER         -> pred_rf[t][r]) \in {0, 1}
    BY <1>3, <1>4
  <2> QED BY <2>1 DEF write_pred_rf
<1>7. /\ data_valid[t] \cup ({w.data_w0, w.data_w1} \ {NoAddr}) \subseteq DataRegs
      /\ pred_valid[t] \cup ({w.pred_w0, w.pred_w1} \ {NoAddr}) \subseteq PredRegs
  <2>1. /\ w.data_w0 \in DataRegs \cup {NoAddr} /\ w.data_w1 \in DataRegs \cup {NoAddr}
        /\ w.pred_w0 \in PredRegs \cup {NoAddr} /\ w.pred_w1 \in PredRegs \cup {NoAddr}
    BY WordFields
  <2> QED BY <1>3, <2>1
<1>8. ASSUME NEW s PROVE Valid(data_route_source(t, w, s).value) \in LinkValue
  BY <1>4, PlainValues DEF data_route_source, Valid
<1>9. ASSUME NEW s PROVE Valid(pred_route_source(t, w, s).value) \in PredValue
  BY <1>4, PlainValues DEF pred_route_source, Valid
<1>10. ASSUME NEW q \in Request(t, w) PROVE q.address \in Addrs /\ q.data \in Words
  <2>1. w.lsu # "NONE" BY <1>10 DEF Request, Only, store_committed
  <2>2. data_source(t, w, w.lsu_addr).value \in Addrs BY <2>1 DEF tile_error, lsu_error
  <2>3. q = TheRequest(t, w) BY <1>10 DEF Request, Only, TheRequest
  <2> QED BY <1>4, <2>2, <2>3 DEF TheRequest
<1> QED BY <1>5, <1>6, <1>7, <1>8, <1>9, <1>10

LEMMA GoldStepTyped ==
    ASSUME GoldTyped, NEW words, LinesOK(words), ~GoldenRaises(words), GoldenAdvance(words)
    PROVE  GoldTyped'
<1>1. \A t \in Tiles : WordOK(t, words[t]) /\ ~tile_error(t, words[t]) BY DEF LinesOK, GoldenRaises
<1>2. /\ data_rf' \in [Tiles -> [DataRegs -> Words]]
      /\ pred_rf' \in [Tiles -> [PredRegs -> {0, 1}]]
  BY <1>1, GoldenTileTyped DEF GoldenAdvance
<1>3. /\ data_valid' \in [Tiles -> SUBSET DataRegs]
      /\ pred_valid' \in [Tiles -> SUBSET PredRegs]
  BY <1>1, GoldenTileTyped DEF GoldenAdvance
<1>4. /\ data_inputs' \in [Tiles -> [Dirs -> LinkValue]]
      /\ pred_inputs' \in [Tiles -> [Dirs -> PredValue]]
  <2>1. /\ data_inputs' = route_outputs(data_sent(words))
        /\ pred_inputs' = route_outputs(pred_sent(words))
    BY DEF GoldenAdvance
  <2>2. /\ data_sent(words) \in [Tiles -> [Dirs -> LinkValue]]
        /\ pred_sent(words) \in [Tiles -> [Dirs -> PredValue]]
    BY <1>1, GoldenTileTyped, PlainValues DEF data_sent, pred_sent
  <2>3. \A d \in Dirs : Opposite[d] \in Dirs BY DEF Opposite, Dirs
  <2> HIDE DEF data_sent, pred_sent
  <2> QED BY <2>1, <2>2, <2>3, PlainValues DEF route_outputs
<1>5. shared_scratchpad' \in [Addrs -> Words]
  <2>1. ASSUME NEW a \in Addrs PROVE StoredAt(words, a) \in Words
    <3> DEFINE S(q) == q.store /\ q.address = a
               p == CHOOSE q \in Requests(words) : S(q)
    <3>1. StoredAt(words, a) = IF \E q \in Requests(words) : S(q) THEN p.data
                               ELSE shared_scratchpad[a]
      BY DEF StoredAt
    <3>2. CASE \E q \in Requests(words) : S(q)
      <4>1. p \in Requests(words) BY <3>2
      <4> HIDE DEF p
      <4>2. PICK t \in Tiles : p \in Request(t, words[t]) BY <4>1 DEF Requests
      <4> QED BY <1>1, <3>1, <3>2, <4>2, GoldenTileTyped
    <3>3. CASE ~\E q \in Requests(words) : S(q) BY <3>1, <3>3 DEF GoldTyped
    <3> QED BY <3>2, <3>3
  <2>2. shared_scratchpad' = [a \in Addrs |-> StoredAt(words, a)]
    BY DEF GoldenAdvance, resolve_memory, StoredAt
  <2> QED BY <2>1, <2>2
<1>6. cycle' \in Nat BY DEF GoldenAdvance, GoldTyped
<1>7. ASSUME NEW t \in Tiles PROVE pending_loads'[t] \subseteq Nat \X Words
  <2>1. pending_loads'[t] =
          {p \in pending_loads[t] : p[1] # cycle} \cup
          {<<cycle + LOAD_LATENCY, shared_scratchpad[q.address]>> :
              q \in {r \in Request(t, words[t]) : ~r.store}}
    BY DEF GoldenAdvance, resolve_memory
  <2>2. cycle + LOAD_LATENCY \in Nat BY LockstepAssumption DEF GoldTyped
  <2>3. \A q \in Request(t, words[t]) : shared_scratchpad[q.address] \in Words
    BY <1>1, GoldenTileTyped DEF GoldTyped
  <2>4. pending_loads[t] \subseteq Nat \X Words BY DEF GoldTyped
  <2> QED BY <2>1, <2>2, <2>3, <2>4
<1> QED BY <1>2, <1>3, <1>4, <1>5, <1>6, <1>7 DEF GoldTyped

-----------------------------------------------------------------------------
(* The cycles between two runs                                             *)

\* What a run has left that the next one could see.
Drained ==
    /\ data_link = NoLink /\ pred_link = NoLink
    /\ load_q0 = [t \in Tiles |-> Absent]

\* Under the RUN gate nothing is consumed and nothing is requested.
LEMMA GatedTile ==
    ASSUME NEW t \in Tiles
    PROVE  /\ ~tile_fatal(t, Gated[t])
           /\ ~mem_req_valid(t, Gated[t])
           /\ ~issue_load(t, Gated[t]) /\ ~store_commit(t, Gated[t])
<1> DEFINE w == ZeroWord
<1>1. /\ w.op = "NOP" /\ w.lsu = "NONE" /\ ~w.commit_pred
      /\ w.data_w0 = NoAddr /\ w.data_w1 = NoAddr
      /\ w.pred_w0 = NoAddr /\ w.pred_w1 = NoAddr
      /\ w.data_route = NoRoute /\ w.pred_route = NoRoute
  BY DEF ZeroWord, DefaultWord
<1>2. Gated[t] = w BY DEF Gated
<1> HIDE DEF w
<1>3. \A d \in Dirs : w.data_route[d] = "OFF" /\ w.pred_route[d] = "OFF" BY <1>1 DEF NoRoute
<1>4. DataConsumed(w) = {}
  BY <1>1, <1>3 DEF DataConsumed, When, op_uses_data_a, op_uses_data_b
<1>5. PredConsumed(w) = {}
  BY <1>1, <1>3 DEF PredConsumed, When, op_uses_pred_p0, op_uses_pred_p1
<1>6. DataReads(w) = {} /\ PredReads(w) = {} BY <1>4, <1>5 DEF DataReads, PredReads, When
<1>7. ~src_fatal(t, w) BY <1>4, <1>5 DEF src_fatal
<1>8. ~lsu_fatal(t, w) BY <1>1 DEF lsu_fatal
<1>9. /\ ~rf_fatal(DataReads(w), data_initialized[t], w.data_w0, w.data_w1)
      /\ ~rf_fatal(PredReads(w), pred_initialized[t], w.pred_w0, w.pred_w1)
  BY <1>1, <1>6 DEF rf_fatal
<1>10. ~tile_fatal(t, w) BY <1>1, <1>7, <1>8, <1>9 DEF tile_fatal
<1>11. ~issue_load(t, w) /\ ~store_commit(t, w) BY <1>1 DEF issue_load, store_commit
<1> QED BY <1>2, <1>10, <1>11 DEF mem_req_valid

LEMMA GatedDoesNotStop ==
    ASSUME NEW cfg
    PROVE  ~RtlFatal(Gated, cfg)
<1>1. LsuTiles \subseteq Tiles BY FabricAssumption
<1> QED BY <1>1, GatedTile DEF RtlFatal, same_address_conflict

\* One gated edge: the links and the first stage of the load pipes are empty
\* after it, the response in the first stage has moved on, the registers keep
\* their contents, and only the host's write changes the scratchpad.
LEMMA GatedEdge ==
    ASSUME RtlTyped, NEW cfg, RtlEdge(Gated, cfg)
    PROVE  /\ Drained' /\ load_resp' = load_q0
           /\ data_mem' = data_mem /\ pred_mem' = pred_mem
           /\ data_initialized' = data_initialized /\ pred_initialized' = pred_initialized
           /\ scratchpad_mem' = [a \in Addrs |->
                IF \E c \in cfg : c[1] = a THEN (CHOOSE c \in cfg : c[1] = a)[2]
                                           ELSE scratchpad_mem[a]]
<1> DEFINE w == ZeroWord
<1>1. /\ w.data_w0 = NoAddr /\ w.data_w1 = NoAddr
      /\ w.pred_w0 = NoAddr /\ w.pred_w1 = NoAddr
      /\ w.data_route = NoRoute /\ w.pred_route = NoRoute
  BY DEF ZeroWord, DefaultWord
<1>2. \A t \in Tiles : Gated[t] = w BY DEF Gated
<1> HIDE DEF w
<1>3. \A d \in Dirs : w.data_route[d] = "OFF" /\ w.pred_route[d] = "OFF" BY <1>1 DEF NoRoute
<1>4. data_link' = NoLink /\ pred_link' = NoLink
  <2>1. \A t \in Tiles : /\ data_outputs(t, w) = [d \in Dirs |-> Absent]
                         /\ pred_outputs(t, w) = [d \in Dirs |-> Absent]
    BY <1>3 DEF data_outputs, pred_outputs
  <2>2. /\ data_link' = [t \in Tiles |-> data_outputs(t, Gated[t])]
        /\ pred_link' = [t \in Tiles |-> pred_outputs(t, Gated[t])]
    BY DEF RtlEdge
  <2> QED BY <1>2, <2>1, <2>2 DEF NoLink
<1>5. load_q0' = [t \in Tiles |-> Absent] /\ load_resp' = load_q0
  <2>1. \A t \in Tiles : Fetched(t, Gated[t]) = Absent BY GatedTile DEF Fetched
  <2> QED BY <2>1 DEF RtlEdge, LoadPipe
<1>6. NoAddr \notin DataRegs /\ NoAddr \notin PredRegs
  BY FabricAssumption DEF NoAddr, DataRegs, PredRegs
<1>7. data_mem' = data_mem
  <2>1. ASSUME NEW t \in Tiles PROVE data_rf_write(t, w) = [r \in DataRegs |-> data_mem[t][r]]
    BY <1>1, <1>6 DEF data_rf_write
  <2>2. data_mem' = [t \in Tiles |-> data_rf_write(t, Gated[t])] BY DEF RtlEdge
  <2> QED BY <1>2, <2>1, <2>2 DEF RtlTyped
<1>8. pred_mem' = pred_mem
  <2>1. ASSUME NEW t \in Tiles PROVE pred_rf_write(t, w) = [r \in PredRegs |-> pred_mem[t][r]]
    BY <1>1, <1>6 DEF pred_rf_write
  <2>2. pred_mem' = [t \in Tiles |-> pred_rf_write(t, Gated[t])] BY DEF RtlEdge
  <2> QED BY <1>2, <2>1, <2>2 DEF RtlTyped
<1>9. data_initialized' = data_initialized /\ pred_initialized' = pred_initialized
  <2>1. \A S : MarkWritten(S, w.data_w0, w.data_w1) = S /\ MarkWritten(S, w.pred_w0, w.pred_w1) = S
    BY <1>1 DEF MarkWritten
  <2>2. /\ data_initialized' = [t \in Tiles |-> data_initialized[t]]
        /\ pred_initialized' = [t \in Tiles |-> pred_initialized[t]]
    BY <1>2, <2>1 DEF RtlEdge
  <2> QED BY <2>2 DEF RtlTyped
<1>10. scratchpad_mem' = [a \in Addrs |->
          IF \E c \in cfg : c[1] = a THEN (CHOOSE c \in cfg : c[1] = a)[2]
                                     ELSE scratchpad_mem[a]]
  <2>1. LsuTiles \subseteq Tiles BY FabricAssumption
  <2>2. \A t \in LsuTiles : ~store_commit(t, Gated[t]) BY <2>1, GatedTile
  <2>3. scratchpad_mem' = ScratchpadAfter(Gated, cfg) BY DEF RtlEdge
  <2> HIDE DEF Gated
  <2> QED BY <2>2, <2>3 DEF ScratchpadAfter
<1> QED BY <1>4, <1>5, <1>7, <1>8, <1>9, <1>10 DEF Drained

-----------------------------------------------------------------------------
(* The invariant                                                           *)

\* Types, the agreement of a run, and between runs what the gated cycles have
\* emptied so far.
LockstepInv ==
    /\ TypeOK
    /\ ArraysAgree
    /\ phase = "CONFIG" => Drained

LEMMA GatedTyped ==
    ASSUME TypeOK, NEW cfg, cfg = {} \/ \E a \in Addrs, v \in Words : cfg = {<<a, v>>},
           RtlEdge(Gated, cfg)
    PROVE  RtlTyped'
<1>1. RtlTyped BY TypeParts
<1>2. /\ Drained' /\ load_resp' = load_q0
      /\ data_mem' = data_mem /\ pred_mem' = pred_mem
      /\ data_initialized' = data_initialized /\ pred_initialized' = pred_initialized
  BY <1>1, GatedEdge
<1>3. scratchpad_mem' \in [Addrs -> Words]
  <2>1. scratchpad_mem' = [a \in Addrs |->
           IF \E c \in cfg : c[1] = a THEN (CHOOSE c \in cfg : c[1] = a)[2]
                                      ELSE scratchpad_mem[a]]
    BY <1>1, GatedEdge
  <2>2. \A c \in cfg : c[2] \in Words OBVIOUS
  <2>3. \A a \in Addrs : scratchpad_mem[a] \in Words BY <1>1 DEF RtlTyped
  <2> QED BY <2>1, <2>2, <2>3
<1>4. data_link' \in [Tiles -> [Dirs -> LinkValue]] /\ pred_link' \in [Tiles -> [Dirs -> PredValue]]
  BY <1>2, PlainValues DEF Drained, NoLink
<1>5. load_q0' \in [Tiles -> LinkValue] BY <1>2, PlainValues DEF Drained
<1> QED BY <1>1, <1>2, <1>3, <1>4, <1>5 DEF RtlTyped

LEMMA LockstepInit == Init => LockstepInv /\ ~fatal
<1> SUFFICES ASSUME Init PROVE LockstepInv /\ ~fatal OBVIOUS
<1>1. PICK memory \in Images : RtlInit(memory) /\ GoldenInit(memory) BY DEF Init
<1>2. memory \in [Addrs -> Words] BY LockstepAssumption
<1>3. RtlTyped
  <2>1. PICK junk \in PowerUp :
           /\ data_mem = [t \in Tiles |-> [r \in DataRegs |-> junk[1]]]
           /\ pred_mem = [t \in Tiles |-> [r \in PredRegs |-> junk[2]]]
    BY <1>1 DEF RtlInit
  <2>2. junk[1] \in Words /\ junk[2] \in {0, 1} BY PowerUpAssumption
  <2> QED BY <1>1, <1>2, <2>1, <2>2, PlainValues DEF RtlInit, RtlTyped, NoLink
<1>4. GoldTyped BY <1>1, <1>2, PlainValues, FabricAssumption DEF GoldenInit, GoldTyped, NoInput
<1>5. SequencerTyped
  <2>1. fatal = FALSE /\ error = FALSE BY <1>1 DEF RtlInit, GoldenInit
  <2>2. phase = "RUN" /\ runs = 1 /\ menu \in DOMAIN Menus BY DEF Init
  <2> QED BY <2>1, <2>2 DEF SequencerTyped
<1>6. RegistersAgree BY <1>1 DEF GoldenInit, RegistersAgree
<1>7. LinksAgree
  <2>1. \A d \in Dirs : Opposite[d] \in Dirs BY DEF Opposite, Dirs
  <2> QED BY <1>1, <2>1 DEF RtlInit, GoldenInit, LinksAgree, LinkIn, NoLink, NoInput
<1>8. LoadsAgree BY <1>1 DEF RtlInit, GoldenInit, LoadsAgree, Absent
<1>9. scratchpad_mem = shared_scratchpad /\ ~fatal BY <1>1 DEF RtlInit, GoldenInit
<1>10. phase = "RUN" BY DEF Init
<1>11. TypeOK BY <1>3, <1>4, <1>5, TypeParts
<1>12. ArraysAgree BY <1>6, <1>7, <1>8, <1>9 DEF ArraysAgree
<1> QED BY <1>9, <1>10, <1>11, <1>12 DEF LockstepInv

\* A cycle of a run, of any program.
LEMMA RunCycleStep ==
    ASSUME LockstepInv, NEW lines, lines \subseteq Menus[menu].lines, RunCycle(lines)
    PROVE  /\ LockstepInv'
           /\ (\A l \in lines : \A t \in Tiles : RoutesHaveResults(l[t])) => (fatal' => error')
<1>1. PICK words \in lines : RtlCycle(words, {}) /\ GoldenStep(words) BY DEF RunCycle
<1>2. ~fatal /\ ~error /\ phase = "RUN" BY <1>1 DEF RtlCycle, GoldenStep, RunCycle
<1>3. RtlTyped /\ GoldTyped /\ SequencerTyped BY TypeParts DEF LockstepInv
<1>4. Agree BY <1>2 DEF LockstepInv, ArraysAgree, Agree
<1>5. LinesOK(words) BY <1>1, <1>3, LockstepAssumption DEF LinesOK, SequencerTyped
<1>6. RtlTyped' /\ fatal' \in BOOLEAN /\ (fatal' <=> RtlFatal(words, {}))
  <2>1. CASE RtlFatal(words, {})
    <3>1. /\ fatal' = TRUE
          /\ UNCHANGED <<data_mem, data_initialized, pred_mem, pred_initialized, data_link,
                         pred_link, load_q0, load_resp, scratchpad_mem>>
      BY <1>1, <2>1 DEF RtlCycle
    <3> QED BY <1>3, <2>1, <3>1 DEF RtlTyped
  <2>2. CASE ~RtlFatal(words, {})
    <3>1. RtlEdge(words, {}) BY <1>1, <2>2 DEF RtlCycle
    <3>2. RtlTyped' BY <1>3, <1>5, <2>2, <3>1, RtlStepTyped
    <3>3. fatal' = fatal BY <3>1 DEF RtlEdge
    <3> QED BY <1>2, <1>3, <2>2, <3>2, <3>3 DEF SequencerTyped
  <2> QED BY <2>1, <2>2
<1>7. GoldTyped' /\ error' \in BOOLEAN /\ (error' <=> GoldenRaises(words))
  <2>1. CASE GoldenRaises(words)
    <3>1. /\ error' = TRUE
          /\ UNCHANGED <<data_rf, data_valid, pred_rf, pred_valid, data_inputs, pred_inputs,
                         pending_loads, shared_scratchpad, cycle>>
      BY <1>1, <2>1 DEF GoldenStep
    <3> QED BY <1>3, <2>1, <3>1 DEF GoldTyped
  <2>2. CASE ~GoldenRaises(words)
    <3>1. GoldenAdvance(words) BY <1>1, <2>2 DEF GoldenStep
    <3>2. GoldTyped' BY <1>3, <1>5, <2>2, <3>1, GoldStepTyped
    <3>3. error' = error BY <3>1 DEF GoldenAdvance
    <3> QED BY <1>2, <1>3, <2>2, <3>2, <3>3 DEF SequencerTyped
  <2> QED BY <2>1, <2>2
<1>8. phase' \in {"RUN", "DONE"} /\ menu' = menu /\ runs' = runs BY DEF RunCycle
<1>9. SequencerTyped' BY <1>3, <1>6, <1>7, <1>8 DEF SequencerTyped
<1>10. TypeOK' BY <1>6, <1>7, <1>9 DEF TypeOK, RtlTyped, GoldTyped, SequencerTyped
<1>11. ASSUME ~fatal', ~error' PROVE Agree'
  <2>1. RtlEdge(words, {}) BY <1>1, <1>6, <1>11 DEF RtlCycle
  <2>2. ~GoldenRaises(words) /\ GoldenAdvance(words) BY <1>1, <1>7, <1>11 DEF GoldenStep
  <2> QED BY <1>3, <1>4, <1>5, <2>1, <2>2, CycleAgrees
<1>12. ArraysAgree' BY <1>11 DEF ArraysAgree, Agree
<1>13. ASSUME \A l \in lines : \A t \in Tiles : RoutesHaveResults(l[t]), ~error'
       PROVE  ~fatal'
  <2>1. \A t \in Tiles : RoutesHaveResults(words[t]) BY <1>1, <1>13
  <2>2. ~GoldenRaises(words) BY <1>7, <1>13
  <2> QED BY <1>3, <1>4, <1>5, <1>6, <2>1, <2>2, ArrayDoesNotStop
<1> QED BY <1>8, <1>10, <1>12, <1>13 DEF LockstepInv

\* The gated cycle of a state from which a run may start: neither side stops.
LEMMA GatedCycle ==
    ASSUME LockstepInv, NEW cfg, cfg = {} \/ \E a \in Addrs, v \in Words : cfg = {<<a, v>>},
           RtlCycle(Gated, cfg)
    PROVE  RtlEdge(Gated, cfg) /\ RtlTyped' /\ Drained' /\ load_resp' = load_q0
             /\ ~fatal /\ fatal' = fatal
<1>1. RtlEdge(Gated, cfg) /\ ~fatal BY GatedDoesNotStop DEF RtlCycle
<1>2. TypeOK BY DEF LockstepInv
<1>3. RtlTyped' BY <1>1, <1>2, GatedTyped
<1>4. Drained' /\ load_resp' = load_q0 BY <1>1, <1>2, TypeParts, GatedEdge
<1> QED BY <1>1, <1>3, <1>4 DEF RtlEdge

LEMMA BetweenRunsStep ==
    ASSUME LockstepInv, BetweenRuns
    PROVE  LockstepInv' /\ ~fatal'
<1>1. RtlTyped /\ GoldTyped /\ SequencerTyped BY TypeParts DEF LockstepInv
<1>2. CASE DoneCycle
  <2>1. /\ RtlCycle(Gated, {}) /\ phase' = "CONFIG" /\ menu' = menu /\ runs' = runs
        /\ UNCHANGED goldVars
    BY <1>2 DEF DoneCycle
  <2>2. RtlTyped' /\ Drained' /\ ~fatal /\ fatal' = fatal BY <2>1, GatedCycle
  <2>3. GoldTyped' /\ SequencerTyped'
    BY <1>1, <2>1, <2>2 DEF GoldTyped, SequencerTyped, goldVars
  <2>4. TypeOK' BY <2>2, <2>3 DEF TypeOK, RtlTyped, GoldTyped, SequencerTyped
  <2> QED BY <2>1, <2>2, <2>4 DEF LockstepInv, ArraysAgree
<1>3. CASE ConfigCycle
  <2>1. PICK a \in Addrs, v \in Words : RtlCycle(Gated, {<<a, v>>}) BY <1>3 DEF ConfigCycle
  <2>2. /\ phase = "CONFIG" /\ phase' = phase /\ menu' = menu /\ runs' = runs
        /\ UNCHANGED goldVars
    BY <1>3 DEF ConfigCycle
  <2>3. RtlTyped' /\ Drained' /\ ~fatal /\ fatal' = fatal BY <2>1, GatedCycle
  <2>4. GoldTyped' /\ SequencerTyped'
    BY <1>1, <2>2, <2>3 DEF GoldTyped, SequencerTyped, goldVars
  <2>5. TypeOK' BY <2>3, <2>4 DEF TypeOK, RtlTyped, GoldTyped, SequencerTyped
  <2> QED BY <2>2, <2>3, <2>5 DEF LockstepInv, ArraysAgree
<1>4. CASE StartCycle
  <2>1. /\ RtlCycle(Gated, {}) /\ GoldenNew(scratchpad_mem) /\ phase = "CONFIG"
        /\ phase' = "RUN" /\ runs' = runs + 1 /\ menu' = menu
    BY <1>4 DEF StartCycle
  <2>2. /\ RtlEdge(Gated, {}) /\ RtlTyped' /\ Drained' /\ load_resp' = load_q0
        /\ ~fatal /\ fatal' = fatal
    BY <2>1, GatedCycle
  <2>3. load_resp' = [t \in Tiles |-> Absent] BY <2>1, <2>2 DEF LockstepInv, Drained
  <2>4. scratchpad_mem' = scratchpad_mem
    <3>1. scratchpad_mem' = [a \in Addrs |-> scratchpad_mem[a]] BY <1>1, <2>2, GatedEdge
    <3> QED BY <1>1, <3>1 DEF RtlTyped
  <2>5. GoldTyped'
    BY <1>1, <2>1, PlainValues, FabricAssumption DEF GoldenNew, GoldTyped, RtlTyped, NoInput
  <2>6. SequencerTyped'
    <3>1. error' = FALSE BY <2>1 DEF GoldenNew
    <3>2. error' \in BOOLEAN /\ fatal' \in BOOLEAN BY <1>1, <2>2, <3>1 DEF SequencerTyped
    <3>3. runs' \in Nat /\ menu' \in DOMAIN Menus BY <1>1, <2>1 DEF SequencerTyped
    <3> QED BY <2>1, <3>2, <3>3 DEF SequencerTyped
  <2>7. TypeOK' BY <2>2, <2>5, <2>6 DEF TypeOK, RtlTyped, GoldTyped, SequencerTyped
  <2>8. RegistersAgree' BY <2>1 DEF GoldenNew, RegistersAgree
  <2>9. LinksAgree'
    <3>1. \A d \in Dirs : Opposite[d] \in Dirs BY DEF Opposite, Dirs
    <3>2. data_link' = NoLink /\ pred_link' = NoLink BY <2>2 DEF Drained
    <3>3. data_inputs' = NoInput /\ pred_inputs' = NoInput BY <2>1 DEF GoldenNew
    <3> QED BY <3>1, <3>2, <3>3 DEF LinksAgree, LinkIn, NoLink, NoInput
  <2>10. LoadsAgree' BY <2>1, <2>2, <2>3 DEF GoldenNew, LoadsAgree, Absent, Drained
  <2>11. scratchpad_mem' = shared_scratchpad' BY <2>1, <2>4 DEF GoldenNew
  <2>12. ArraysAgree' BY <2>8, <2>9, <2>10, <2>11 DEF ArraysAgree
  <2> QED BY <2>1, <2>2, <2>7, <2>12 DEF LockstepInv
<1> QED BY <1>2, <1>3, <1>4 DEF BetweenRuns

\* A reset, in a run or between runs.
LEMMA ResetStep ==
    ASSUME LockstepInv, NEW lines, lines \subseteq Menus[menu].lines, Reset(lines)
    PROVE  LockstepInv' /\ ~fatal'
<1>1. RtlTyped /\ GoldTyped /\ SequencerTyped BY TypeParts DEF LockstepInv
<1>2. PICK words \in IF phase = "RUN" THEN lines ELSE {Gated} : RtlReset(words) BY DEF Reset
<1>3. /\ phase' = "CONFIG" /\ menu' = menu /\ runs' = runs /\ ~fatal
      /\ UNCHANGED goldVars
  BY DEF Reset
<1>4. scratchpad_mem' \in [Addrs -> Words]
  <2>1. CASE phase = "RUN"
    <3>1. LinesOK(words)
      BY <1>1, <1>2, <2>1, LockstepAssumption DEF LinesOK, SequencerTyped
    <3> QED BY <1>1, <1>2, <3>1, ScratchpadTyped DEF RtlReset
  <2>2. CASE phase # "RUN"
    <3>1. LsuTiles \subseteq Tiles BY FabricAssumption
    <3>2. \A t \in LsuTiles : ~store_commit(t, Gated[t]) BY <1>1, <3>1, GatedTile
    <3>3. scratchpad_mem' = ScratchpadAfter(Gated, {}) BY <1>2, <2>2 DEF RtlReset
    <3> HIDE DEF Gated
    <3>4. scratchpad_mem' = [a \in Addrs |-> scratchpad_mem[a]]
      BY <3>2, <3>3 DEF ScratchpadAfter
    <3> QED BY <1>1, <3>4 DEF RtlTyped
  <2> QED BY <2>1, <2>2
<1>5. RtlTyped' BY <1>1, <1>2, <1>4, PlainValues DEF RtlReset, RtlTyped, NoLink
<1>6. Drained' /\ fatal' = fatal BY <1>2 DEF RtlReset, Drained
<1>7. GoldTyped' /\ SequencerTyped'
  BY <1>1, <1>3, <1>6 DEF GoldTyped, SequencerTyped, goldVars
<1>8. TypeOK' BY <1>5, <1>7 DEF TypeOK, RtlTyped, GoldTyped, SequencerTyped
<1> QED BY <1>3, <1>6, <1>8 DEF LockstepInv, ArraysAgree

LEMMA LockstepStutters ==
    ASSUME LockstepInv, UNCHANGED vars
    PROVE  LockstepInv' /\ fatal' = fatal /\ error' = error
<1>1. UNCHANGED rtlVars /\ UNCHANGED goldVars /\ UNCHANGED <<menu, phase, runs>> BY DEF vars
<1>2. TypeOK' BY <1>1 DEF LockstepInv, TypeOK, rtlVars, goldVars
<1>3. ArraysAgree'
  BY <1>1 DEF LockstepInv, ArraysAgree, RegistersAgree, LinksAgree, LoadsAgree, LinkIn,
              rtlVars, goldVars
<1>4. (phase = "CONFIG" => Drained)' BY <1>1 DEF LockstepInv, Drained, rtlVars
<1> QED BY <1>1, <1>2, <1>3, <1>4 DEF LockstepInv, rtlVars, goldVars

-----------------------------------------------------------------------------
(* Theorems                                                                *)

LEMMA AnyRunInv == AnySpec => []LockstepInv
<1>1. LockstepInv /\ [AnyNext]_vars => LockstepInv'
  BY RunCycleStep, ResetStep, BetweenRunsStep, LockstepStutters DEF AnyNext
<1> QED BY <1>1, LockstepInit, PTL DEF AnySpec

LEMMA CheckedRunInv == CheckedSpec => [](LockstepInv /\ AcceptedRunsDoNotStop)
<1>1. Init => LockstepInv /\ AcceptedRunsDoNotStop
  BY LockstepInit DEF AcceptedRunsDoNotStop
<1>2. LockstepInv /\ AcceptedRunsDoNotStop /\ [CheckedNext]_vars
        => LockstepInv' /\ AcceptedRunsDoNotStop'
  <2> SUFFICES ASSUME LockstepInv, AcceptedRunsDoNotStop, [CheckedNext]_vars
               PROVE  LockstepInv' /\ AcceptedRunsDoNotStop'
    OBVIOUS
  <2>1. CASE RunCycle(CheckedLines[menu])
    <3>1. menu \in DOMAIN Menus BY DEF LockstepInv, TypeOK
    <3>2. /\ CheckedLines[menu] \subseteq Menus[menu].lines
          /\ \A l \in CheckedLines[menu] : \A t \in Tiles : RoutesHaveResults(l[t])
      BY <3>1 DEF CheckedLines
    <3> HIDE DEF CheckedLines
    <3> QED BY <2>1, <3>2, RunCycleStep DEF AcceptedRunsDoNotStop
  <2>2. CASE BetweenRuns BY <2>2, BetweenRunsStep DEF AcceptedRunsDoNotStop
  <2>3. CASE UNCHANGED vars BY <2>3, LockstepStutters DEF AcceptedRunsDoNotStop
  <2>4. CASE Reset(CheckedLines[menu])
    <3>1. menu \in DOMAIN Menus BY DEF LockstepInv, TypeOK
    <3>2. CheckedLines[menu] \subseteq Menus[menu].lines BY <3>1 DEF CheckedLines
    <3> HIDE DEF CheckedLines
    <3> QED BY <2>4, <3>2, ResetStep DEF AcceptedRunsDoNotStop
  <2> QED BY <2>1, <2>2, <2>3, <2>4 DEF CheckedNext
<1> QED BY <1>1, <1>2, PTL DEF CheckedSpec

\* Every register, link, pipe stage and scratchpad word of rtl/tile.sv and of
\* SingleTileGolden keeps its width, whatever the program, also in the cycle
\* in which one of the two rejects it.
THEOREM LockstepTypes == AnySpec => []TypeOK
<1>1. LockstepInv => TypeOK BY DEF LockstepInv
<1> QED BY <1>1, AnyRunInv, PTL

\* While tools/program_runner.py compares a run and neither side has rejected
\* a word, the registers, links, load pipes and the scratchpad of rtl/mesh.sv
\* are the state of MultiTileGolden: for every mesh and every program, in the
\* first run and in every run after other runs, resets and host writes.
THEOREM ArraysStayInStep == AnySpec => []ArraysAgree
<1>1. LockstepInv => ArraysAgree BY DEF LockstepInv
<1> QED BY <1>1, AnyRunInv, PTL

\* The same for the programs that tools/check_schedule.py lets through, which
\* is the specification the runs check.
THEOREM CheckedArraysStayInStep == CheckedSpec => [](TypeOK /\ ArraysAgree)
<1>1. LockstepInv => TypeOK /\ ArraysAgree BY DEF LockstepInv
<1> QED BY <1>1, CheckedRunInv, PTL

\* No $fatal of rtl/tile.sv, data_rf.sv, pred_rf.sv, lsu.sv or
\* shared_scratchpad.sv stops a run in which MultiTileGolden.step raises no
\* GoldenModelError, when every route of the functional unit has a result.
THEOREM NoAcceptedRunStops == CheckedSpec => []AcceptedRunsDoNotStop
BY CheckedRunInv, PTL


-----------------------------------------------------------------------------
(* The checker: types                                                      *)

CheckTyped(s) ==
    /\ s.data_values \in [Tiles -> [DataRegs -> Words]]
    /\ s.pred_values \in [Tiles -> [PredRegs -> {0, 1}]]
    /\ s.scratch \in [Addrs -> Words]
    /\ \A t \in Tiles : s.pending[t] \subseteq Nat \X Words
    /\ s.data_in \in [Tiles -> [Dirs -> LinkValue]]
    /\ s.pred_in \in [Tiles -> [Dirs -> PredValue]]

ProgramLine(words) == \A t \in Tiles : ReplayableWord(t, words[t])

LEMMA ReplayableFields ==
    ASSUME NEW t \in Tiles, NEW w, ReplayableWord(t, w)
    PROVE  /\ w.data_ra \in DataRegs /\ w.data_rb \in DataRegs
           /\ w.pred_ra \in PredRegs /\ w.pred_rb \in PredRegs
           /\ ConstMem[t][w.const] \in Words
           /\ w.src_a \in DataSources /\ w.src_b \in DataSources
           /\ w.src_p0 \in PredSources /\ w.src_p1 \in PredSources
           /\ w.data_w1_src \in DataSources /\ w.pred_w1_src \in PredSources
           /\ w.lsu_addr \in DataSources /\ w.lsu_data \in DataSources
           /\ w.commit_src \in PredSources
           /\ w.commit_pred \in BOOLEAN /\ w.commit_invert \in BOOLEAN
           /\ w.lsu \in {"NONE", "LOAD", "STORE", "RESERVED"}
           /\ \A d \in Dirs : w.data_route[d] \in DataSources \cup {"FU", "NONE", "OFF"}
           /\ \A d \in Dirs : w.pred_route[d] \in PredSources \cup {"FU", "NONE", "OFF"}
           /\ w.data_w0 \in DataRegs \cup {NoAddr} /\ w.data_w1 \in DataRegs \cup {NoAddr}
           /\ w.pred_w0 \in PredRegs \cup {NoAddr} /\ w.pred_w1 \in PredRegs \cup {NoAddr}
<1>1. w \in ControlWord /\ w.const \in DOMAIN ConstMem[t] BY DEF ReplayableWord
<1>2. ConstMem[t][w.const] \in Words BY <1>1, FabricAssumption
<1> QED BY <1>1, <1>2 DEF ControlWord

LEMMA CheckSourceTyped ==
    ASSUME NEW s, CheckTyped(s), NEW cyc, NEW t \in Tiles, NEW w, ReplayableWord(t, w)
    PROVE  /\ \A src : ChkData(s, cyc, t, w, src) \in LinkValue
           /\ \A src : ChkPred(s, t, w, src) \in PredValue
<1>1. /\ w.data_ra \in DataRegs /\ w.data_rb \in DataRegs
      /\ w.pred_ra \in PredRegs /\ w.pred_rb \in PredRegs
      /\ ConstMem[t][w.const] \in Words
  BY ReplayableFields
<1>2. /\ s.data_values[t][w.data_ra] \in Words /\ s.data_values[t][w.data_rb] \in Words
      /\ s.pred_values[t][w.pred_ra] \in {0, 1} /\ s.pred_values[t][w.pred_rb] \in {0, 1}
  BY <1>1 DEF CheckTyped
<1>3. ChkLoad(s, cyc, t) \in LinkValue
  <2> DEFINE due == {p \in s.pending[t] : p[1] = cyc}
             q == CHOOSE p \in due : TRUE
  <2>1. CASE due # {}
    <3>1. q \in due BY <2>1
    <3>2. q[2] \in Words BY <3>1 DEF CheckTyped
    <3>3. ChkLoad(s, cyc, t) = Valid(q[2]) BY <2>1 DEF ChkLoad
    <3> QED BY <3>2, <3>3, PlainValues
  <2>2. CASE due = {} BY <2>2, PlainValues DEF ChkLoad
  <2> QED BY <2>1, <2>2
<1>4. \A d \in Dirs : s.data_in[t][d] \in LinkValue /\ s.pred_in[t][d] \in PredValue
  BY DEF CheckTyped
<1>5. ASSUME NEW src PROVE ChkData(s, cyc, t, w, src) \in LinkValue
  BY <1>1, <1>2, <1>3, <1>4, PlainValues, FabricAssumption DEF ChkData
<1>6. ASSUME NEW src PROVE ChkPred(s, t, w, src) \in PredValue
  BY <1>2, <1>4, PlainValues DEF ChkPred
<1> QED BY <1>5, <1>6

\* What the operation of a word computes has its width, and whether there is
\* anything is a matter of the operation.
HasResult(op, kind) ==
    IF kind = "data" THEN GoldFu(op, 0, 0, 0, 0).data.valid
                     ELSE GoldFu(op, 0, 0, 0, 0).pred.valid

LEMMA CheckResultTyped ==
    ASSUME NEW s, CheckTyped(s), NEW cyc, NEW t \in Tiles, NEW w, ReplayableWord(t, w)
    PROVE  LET r == ChkExecuted(s, cyc, t, w)
           IN  /\ r.data \in LinkValue /\ r.pred \in PredValue
               /\ r.data.valid = HasResult(w.op, "data")
               /\ r.pred.valid = HasResult(w.op, "pred")
<1> DEFINE a == ChkData(s, cyc, t, w, w.src_a).value
           b == ChkData(s, cyc, t, w, w.src_b).value
           p == ChkPred(s, t, w, w.src_p0).value
           q == ChkPred(s, t, w, w.src_p1).value
<1>1. a \in Words /\ b \in Words /\ p \in {0, 1} /\ q \in {0, 1}
  BY CheckSourceTyped, PlainValues
<1>2. ChkExecuted(s, cyc, t, w) = ChkFu(w.op, a, b, p, q) BY DEF ChkExecuted
<1> HIDE DEF a, b, p, q
<1>3. ImportedResults(w.op) BY DEF ReplayableWord
<1> QED BY <1>1, <1>2, <1>3 DEF ImportedResults, HasResult

-----------------------------------------------------------------------------
(* A cycle without a diagnostic                                            *)

\* What the absence of a diagnostic says about one tile.
CleanTile(s, cyc, t, w) ==
    /\ w.data_w0 # NoAddr => w.data_w0 # w.data_w1
    /\ w.pred_w0 # NoAddr => w.pred_w0 # w.pred_w1
    /\ ReadAddrs(ChkDataSources(w), w.data_ra, w.data_rb) \cap {w.data_w0, w.data_w1} = {}
    /\ ReadAddrs(ChkPredSources(w), w.pred_ra, w.pred_rb) \cap {w.pred_w0, w.pred_w1} = {}
    /\ ReadAddrs(ChkDataSources(w), w.data_ra, w.data_rb) \subseteq s.data_valid[t]
    /\ ReadAddrs(ChkPredSources(w), w.pred_ra, w.pred_rb) \subseteq s.pred_valid[t]
    /\ "LSU" \in ChkDataSources(w) => \E p \in s.pending[t] : p[1] = cyc
    /\ \A d \in Dirs \cap ChkDataSources(w) : s.data_in[t][d].valid
    /\ \A d \in Dirs \cap ChkPredSources(w) : s.pred_in[t][d].valid
    /\ w.data_w0 # NoAddr \/ "FU" \in Routed(w.data_route) => HasResult(w.op, "data")
    /\ w.pred_w0 # NoAddr \/ "FU" \in Routed(w.pred_route) => HasResult(w.op, "pred")
    /\ "NONE" \notin Routed(w.data_route) \cup Routed(w.pred_route)
    /\ w.lsu # "NONE" =>
          /\ t \in LsuTiles /\ w.lsu # "RESERVED" /\ (w.lsu = "LOAD" => ~w.commit_pred)
          /\ LET addr == ChkData(s, cyc, t, w, w.lsu_addr)
             IN  addr.valid => addr.value \in Addrs

CleanMemory(s, cyc, words) ==
    /\ ConflictingAddresses(s, cyc, words) = {}
    /\ \A r \in ChkRequests(s, cyc, words) :
          ~r.is_store => \A p \in s.pending[r.tile] : p[1] # cyc + CHK_LOAD_LATENCY

TileCodes(s, cyc, t, w) ==
    RfCodes(ReadAddrs(ChkDataSources(w), w.data_ra, w.data_rb),
            s.data_valid[t], w.data_w0, w.data_w1) \cup
    RfCodes(ReadAddrs(ChkPredSources(w), w.pred_ra, w.pred_rb),
            s.pred_valid[t], w.pred_w0, w.pred_w1) \cup
    SourceCodes(s, cyc, t, w) \cup
    ResultCodes(s, cyc, t, w) \cup
    LsuCodes(s, cyc, t, w)

LEMMA ClearCodes == \A cond, S : OnlyIf(cond, S) = {} <=> (~cond \/ S = {})
BY DEF OnlyIf

LEMMA ClearTile ==
    ASSUME NEW s, CheckTyped(s), NEW cyc, NEW t \in Tiles, NEW w, ReplayableWord(t, w)
    PROVE  TileCodes(s, cyc, t, w) = {} <=> CleanTile(s, cyc, t, w)
<1> DEFINE D == ReadAddrs(ChkDataSources(w), w.data_ra, w.data_rb)
           P == ReadAddrs(ChkPredSources(w), w.pred_ra, w.pred_rb)
<1>1. RfCodes(D, s.data_valid[t], w.data_w0, w.data_w1) = {} <=>
        /\ w.data_w0 # NoAddr => w.data_w0 # w.data_w1
        /\ D \cap {w.data_w0, w.data_w1} = {}
        /\ D \subseteq s.data_valid[t]
  BY DEF RfCodes, OnlyIf
<1>2. RfCodes(P, s.pred_valid[t], w.pred_w0, w.pred_w1) = {} <=>
        /\ w.pred_w0 # NoAddr => w.pred_w0 # w.pred_w1
        /\ P \cap {w.pred_w0, w.pred_w1} = {}
        /\ P \subseteq s.pred_valid[t]
  BY DEF RfCodes, OnlyIf
<1>3. ChkLoad(s, cyc, t).valid <=> \E p \in s.pending[t] : p[1] = cyc
  BY DEF ChkLoad, Valid, Absent
<1>4. SourceCodes(s, cyc, t, w) = {} <=>
        /\ "LSU" \in ChkDataSources(w) => \E p \in s.pending[t] : p[1] = cyc
        /\ \A d \in Dirs \cap ChkDataSources(w) : s.data_in[t][d].valid
        /\ \A d \in Dirs \cap ChkPredSources(w) : s.pred_in[t][d].valid
  BY <1>3 DEF SourceCodes, OnlyIf
<1>5. /\ ChkExecuted(s, cyc, t, w).data.valid = HasResult(w.op, "data")
      /\ ChkExecuted(s, cyc, t, w).pred.valid = HasResult(w.op, "pred")
  BY CheckResultTyped
<1>6. ResultCodes(s, cyc, t, w) = {} <=>
        /\ w.data_w0 # NoAddr \/ "FU" \in Routed(w.data_route) => HasResult(w.op, "data")
        /\ w.pred_w0 # NoAddr \/ "FU" \in Routed(w.pred_route) => HasResult(w.op, "pred")
        /\ "NONE" \notin Routed(w.data_route) \cup Routed(w.pred_route)
  BY <1>5 DEF ResultCodes, OnlyIf
<1>7. LsuCodes(s, cyc, t, w) = {} <=>
        (w.lsu # "NONE" =>
          /\ t \in LsuTiles /\ w.lsu # "RESERVED" /\ (w.lsu = "LOAD" => ~w.commit_pred)
          /\ LET addr == ChkData(s, cyc, t, w, w.lsu_addr)
             IN  addr.valid => addr.value \in Addrs)
  <2> DEFINE addr == ChkData(s, cyc, t, w, w.lsu_addr)
  <2>1. LsuCodes(s, cyc, t, w) = OnlyIf(w.lsu # "NONE",
          IF t \notin LsuTiles THEN {"NON_LSU_OPERATION"}
          ELSE IF w.lsu = "RESERVED" \/ (w.lsu = "LOAD" /\ w.commit_pred)
               THEN {"UNSUPPORTED_CONTROL"}
          ELSE OnlyIf(addr.valid /\ addr.value \notin Addrs, {"MEMORY_ADDR_RANGE"}))
    BY DEF LsuCodes
  <2> HIDE DEF addr
  <2>2. LsuCodes(s, cyc, t, w) = {} <=>
          (w.lsu # "NONE" =>
            /\ t \in LsuTiles /\ w.lsu # "RESERVED" /\ (w.lsu = "LOAD" => ~w.commit_pred)
            /\ addr.valid => addr.value \in Addrs)
    BY <2>1 DEF OnlyIf
  <2> QED BY <2>2 DEF addr
<1> HIDE DEF D, P
<1>8. TileCodes(s, cyc, t, w) = {} <=>
        /\ RfCodes(D, s.data_valid[t], w.data_w0, w.data_w1) = {}
        /\ RfCodes(P, s.pred_valid[t], w.pred_w0, w.pred_w1) = {}
        /\ SourceCodes(s, cyc, t, w) = {} /\ ResultCodes(s, cyc, t, w) = {}
        /\ LsuCodes(s, cyc, t, w) = {}
  <2> DEFINE A == RfCodes(D, s.data_valid[t], w.data_w0, w.data_w1)
             B == RfCodes(P, s.pred_valid[t], w.pred_w0, w.pred_w1)
             C == SourceCodes(s, cyc, t, w)
             E == ResultCodes(s, cyc, t, w)
             F == LsuCodes(s, cyc, t, w)
  <2>1. TileCodes(s, cyc, t, w) = A \cup B \cup C \cup E \cup F BY DEF TileCodes, D, P
  <2> HIDE DEF A, B, C, E, F
  <2>2. TileCodes(s, cyc, t, w) = {} <=> A = {} /\ B = {} /\ C = {} /\ E = {} /\ F = {}
    BY <2>1
  <2> QED BY <2>2 DEF A, B, C, E, F
<1> QED BY <1>1, <1>2, <1>4, <1>6, <1>7, <1>8 DEF CleanTile, D, P

LEMMA ClearCycle ==
    ASSUME NEW s, CheckTyped(s), NEW cyc, NEW words, ProgramLine(words)
    PROVE  Diagnostics(s, cyc, words) = {} <=>
             /\ CleanMemory(s, cyc, words)
             /\ \A t \in Tiles : CleanTile(s, cyc, t, words[t])
<1>1. MemoryCodes(s, cyc, words) = {} <=> CleanMemory(s, cyc, words)
  BY DEF MemoryCodes, CleanMemory, OnlyIf
<1>2. Diagnostics(s, cyc, words) =
        MemoryCodes(s, cyc, words) \cup UNION {TileCodes(s, cyc, t, words[t]) : t \in Tiles}
  BY DEF Diagnostics, TileCodes
<1>3. ASSUME NEW t \in Tiles
      PROVE  TileCodes(s, cyc, t, words[t]) = {} <=> CleanTile(s, cyc, t, words[t])
  BY ClearTile DEF ProgramLine
<1>4. Diagnostics(s, cyc, words) = {} <=>
        /\ MemoryCodes(s, cyc, words) = {}
        /\ \A t \in Tiles : TileCodes(s, cyc, t, words[t]) = {}
  BY <1>2
<1> QED BY <1>1, <1>3, <1>4

Clean(s, cyc, words) ==
    /\ CleanMemory(s, cyc, words)
    /\ \A t \in Tiles : CleanTile(s, cyc, t, words[t])

\* In a clean cycle whatever is selected is there.
LEMMA CleanSources ==
    ASSUME NEW s, CheckTyped(s), NEW cyc, NEW t \in Tiles, NEW w, ReplayableWord(t, w),
           CleanTile(s, cyc, t, w)
    PROVE  /\ \A src \in ChkDataSources(w) : src # "FU" => ChkData(s, cyc, t, w, src).valid
           /\ \A src \in ChkPredSources(w) : src # "FU" => ChkPred(s, t, w, src).valid
           /\ \A d \in Dirs : w.data_route[d] # "OFF" =>
                 ChkDataRoute(s, cyc, t, w, w.data_route[d]).valid
           /\ \A d \in Dirs : w.pred_route[d] # "OFF" =>
                 ChkPredRoute(s, cyc, t, w, w.pred_route[d]).valid
<1>1. /\ ChkDataSources(w) \subseteq DataSources \cup {"FU"}
      /\ ChkPredSources(w) \subseteq PredSources \cup {"FU"}
  <2>1. "NONE" \notin Routed(w.data_route) /\ "NONE" \notin Routed(w.pred_route) BY DEF CleanTile
  <2>2. Routed(w.data_route) \subseteq DataSources \cup {"FU"}
    BY <2>1, ReplayableFields DEF Routed
  <2>3. Routed(w.pred_route) \subseteq PredSources \cup {"FU"}
    BY <2>1, ReplayableFields DEF Routed
  <2> QED BY <2>2, <2>3, ReplayableFields DEF ChkDataSources, ChkPredSources, OnlyIf
<1>2. ASSUME NEW src \in ChkDataSources(w), src # "FU"
      PROVE  ChkData(s, cyc, t, w, src).valid
  <2>1. src \in DataSources BY <1>1, <1>2
  <2>2. CASE src \in Dirs
    <3>1. ChkData(s, cyc, t, w, src) = s.data_in[t][src] BY <2>2 DEF ChkData, Dirs
    <3> QED BY <1>2, <2>2, <3>1 DEF CleanTile
  <2>3. CASE src = "LSU"
    <3>1. ChkData(s, cyc, t, w, src) = ChkLoad(s, cyc, t) BY <2>3 DEF ChkData, Dirs
    <3>2. \E p \in s.pending[t] : p[1] = cyc BY <1>2, <2>3 DEF CleanTile
    <3> QED BY <3>1, <3>2 DEF ChkLoad, Valid
  <2>4. CASE src \in {"RF_A", "RF_B", "CONST", "ZERO"} BY <2>4 DEF ChkData, Valid, Dirs
  <2> QED BY <2>1, <2>2, <2>3, <2>4 DEF DataSources
<1>3. ASSUME NEW src \in ChkPredSources(w), src # "FU"
      PROVE  ChkPred(s, t, w, src).valid
  <2>1. src \in PredSources BY <1>1, <1>3
  <2>2. CASE src \in Dirs
    <3>1. ChkPred(s, t, w, src) = s.pred_in[t][src] BY <2>2 DEF ChkPred, Dirs
    <3> QED BY <1>3, <2>2, <3>1 DEF CleanTile
  <2>3. CASE src \in {"RF_A", "RF_B", "TRUE", "FALSE"} BY <2>3 DEF ChkPred, Valid, Dirs
  <2> QED BY <2>1, <2>2, <2>3 DEF PredSources
<1>4. ASSUME NEW d \in Dirs, w.data_route[d] # "OFF"
      PROVE  ChkDataRoute(s, cyc, t, w, w.data_route[d]).valid
  <2>1. w.data_route[d] \in Routed(w.data_route) BY <1>4 DEF Routed
  <2>2. w.data_route[d] \in ChkDataSources(w) BY <2>1 DEF ChkDataSources
  <2>3. w.data_route[d] = "FU" => ChkExecuted(s, cyc, t, w).data.valid
    BY <2>1, CheckResultTyped DEF CleanTile
  <2> QED BY <1>2, <2>2, <2>3 DEF ChkDataRoute
<1>5. ASSUME NEW d \in Dirs, w.pred_route[d] # "OFF"
      PROVE  ChkPredRoute(s, cyc, t, w, w.pred_route[d]).valid
  <2>1. w.pred_route[d] \in Routed(w.pred_route) BY <1>5 DEF Routed
  <2>2. w.pred_route[d] \in ChkPredSources(w) BY <2>1 DEF ChkPredSources
  <2>3. w.pred_route[d] = "FU" => ChkExecuted(s, cyc, t, w).pred.valid
    BY <2>1, CheckResultTyped DEF CleanTile
  <2> QED BY <1>3, <2>2, <2>3 DEF ChkPredRoute
<1> QED BY <1>2, <1>3, <1>4, <1>5

\* Does tile t make a request, and which?
Asks(s, t, w) ==
    \/ w.lsu = "LOAD"
    \/ /\ w.lsu = "STORE"
       /\ w.commit_pred => (ChkPred(s, t, w, w.commit_src).value = 1) # w.commit_invert

Asked(s, cyc, t, w) ==
    [tile |-> t, is_store |-> w.lsu = "STORE",
     address |-> ChkData(s, cyc, t, w, w.lsu_addr).value,
     value |-> ChkData(s, cyc, t, w, w.lsu_data).value]

\* In a clean cycle every request is one of the memory.
LEMMA CleanRequests ==
    ASSUME NEW s, CheckTyped(s), NEW cyc, NEW words, ProgramLine(words),
           \A t \in Tiles : CleanTile(s, cyc, t, words[t])
    PROVE  /\ ChkRequests(s, cyc, words) =
                {Asked(s, cyc, t, words[t]) : t \in {v \in Tiles : Asks(s, v, words[v])}}
           /\ \A t \in Tiles : Asks(s, t, words[t]) =>
                 ChkData(s, cyc, t, words[t], words[t].lsu_addr).value \in Addrs
<1>1. ASSUME NEW t \in Tiles
      PROVE  /\ ChkRequest(s, cyc, t, words[t]) =
                  OnlyIf(Asks(s, t, words[t]), {Asked(s, cyc, t, words[t])})
             /\ Asks(s, t, words[t]) =>
                  ChkData(s, cyc, t, words[t], words[t].lsu_addr).value \in Addrs
  <2> DEFINE w == words[t]
             addr == ChkData(s, cyc, t, w, w.lsu_addr)
  <2>1. ReplayableWord(t, w) /\ CleanTile(s, cyc, t, w) BY DEF ProgramLine
  <2>2. Asks(s, t, w) => w.lsu \in {"LOAD", "STORE"} BY DEF Asks
  <2>3. w.lsu # "NONE" => w.lsu_addr \in ChkDataSources(w) BY DEF ChkDataSources, OnlyIf
  <2>4. w.lsu_addr # "FU" BY <2>1, ReplayableFields DEF DataSources, Dirs
  <2>5. w.lsu # "NONE" => addr.valid BY <2>1, <2>3, <2>4, CleanSources
  <2>6. w.lsu # "NONE" =>
           t \in LsuTiles /\ (w.lsu = "LOAD" => ~w.commit_pred) /\ addr.value \in Addrs
    BY <2>1, <2>5 DEF CleanTile
  <2>7. ChkRequest(s, cyc, t, w) = OnlyIf(
           /\ t \in LsuTiles
           /\ addr.valid /\ addr.value \in Addrs
           /\ \/ w.lsu = "LOAD" /\ ~w.commit_pred
              \/ /\ w.lsu = "STORE"
                 /\ w.commit_pred => (ChkPred(s, t, w, w.commit_src).value = 1) # w.commit_invert,
           {Asked(s, cyc, t, w)})
    BY DEF ChkRequest, Asked
  <2> HIDE DEF addr, w
  <2>8. (/\ t \in LsuTiles
         /\ addr.valid /\ addr.value \in Addrs
         /\ \/ w.lsu = "LOAD" /\ ~w.commit_pred
            \/ /\ w.lsu = "STORE"
               /\ w.commit_pred => (ChkPred(s, t, w, w.commit_src).value = 1) # w.commit_invert)
        <=> Asks(s, t, w)
    BY <2>2, <2>5, <2>6 DEF Asks
  <2>9. ChkRequest(s, cyc, t, w) = OnlyIf(Asks(s, t, w), {Asked(s, cyc, t, w)})
    BY <2>7, <2>8 DEF OnlyIf
  <2> QED BY <2>2, <2>6, <2>9 DEF w, addr
<1>2. ChkRequests(s, cyc, words) = UNION {ChkRequest(s, cyc, t, words[t]) : t \in Tiles}
  BY DEF ChkRequests
<1>3. ASSUME NEW r
      PROVE  r \in ChkRequests(s, cyc, words) <=>
               \E t \in Tiles : Asks(s, t, words[t]) /\ r = Asked(s, cyc, t, words[t])
  BY <1>1, <1>2 DEF OnlyIf
<1> QED BY <1>1, <1>3

\* The memory is left alone by two tiles at once unless both read.
Apart(s, cyc, words) ==
    \A t, v \in Tiles :
        /\ t # v /\ Asks(s, t, words[t]) /\ Asks(s, v, words[v])
        /\ ChkData(s, cyc, t, words[t], words[t].lsu_addr).value
             = ChkData(s, cyc, v, words[v], words[v].lsu_addr).value
        => words[t].lsu # "STORE"

LEMMA CleanMemoryTiles ==
    ASSUME NEW s, CheckTyped(s), NEW cyc, NEW words, ProgramLine(words),
           \A t \in Tiles : CleanTile(s, cyc, t, words[t])
    PROVE  CleanMemory(s, cyc, words) <=>
             /\ Apart(s, cyc, words)
             /\ \A t \in Tiles : words[t].lsu = "LOAD" =>
                   \A p \in s.pending[t] : p[1] # cyc + CHK_LOAD_LATENCY
<1> DEFINE R == ChkRequests(s, cyc, words)
           a(t) == ChkData(s, cyc, t, words[t], words[t].lsu_addr).value
           r(t) == Asked(s, cyc, t, words[t])
<1>1. \A x : x \in R <=> \E t \in Tiles : Asks(s, t, words[t]) /\ x = r(t)
  BY CleanRequests
<1>2. \A t \in Tiles : /\ r(t).tile = t /\ r(t).address = a(t)
                       /\ r(t).is_store <=> words[t].lsu = "STORE"
  BY DEF Asked
<1>3. ConflictingAddresses(s, cyc, words) = {} <=>
        \A x, y \in R : x.is_store /\ y # x => y.address # x.address
  BY DEF ConflictingAddresses
<1>4. \A t \in Tiles : words[t].lsu # "STORE" => (Asks(s, t, words[t]) <=> words[t].lsu = "LOAD")
  BY DEF Asks
<1>5. Apart(s, cyc, words) <=>
        \A t, v \in Tiles : t # v /\ Asks(s, t, words[t]) /\ Asks(s, v, words[v]) /\ a(t) = a(v)
                            => words[t].lsu # "STORE"
  BY DEF Apart
<1>6. CleanMemory(s, cyc, words) <=>
        /\ ConflictingAddresses(s, cyc, words) = {}
        /\ \A x \in R : ~x.is_store =>
              \A p \in s.pending[x.tile] : p[1] # cyc + CHK_LOAD_LATENCY
  BY DEF CleanMemory
<1> HIDE DEF R, a, r
<1>7. ConflictingAddresses(s, cyc, words) = {} <=> Apart(s, cyc, words)
  <2>1. ASSUME ConflictingAddresses(s, cyc, words) = {} PROVE Apart(s, cyc, words)
    BY <1>1, <1>2, <1>3, <1>5, <2>1
  <2>2. ASSUME Apart(s, cyc, words) PROVE ConflictingAddresses(s, cyc, words) = {}
    <3> SUFFICES ASSUME NEW x \in R, NEW y \in R, x.is_store, y # x, y.address = x.address
                 PROVE  FALSE
      BY <1>3
    <3>1. PICK t \in Tiles : Asks(s, t, words[t]) /\ x = r(t) BY <1>1
    <3>2. PICK v \in Tiles : Asks(s, v, words[v]) /\ y = r(v) BY <1>1
    <3>3. t # v /\ a(t) = a(v) /\ words[t].lsu = "STORE" BY <1>2, <3>1, <3>2
    <3> QED BY <1>5, <2>2, <3>1, <3>2, <3>3
  <2> QED BY <2>1, <2>2
<1>8. (\A x \in R : ~x.is_store => \A p \in s.pending[x.tile] : p[1] # cyc + CHK_LOAD_LATENCY)
      <=> \A t \in Tiles : words[t].lsu = "LOAD" =>
             \A p \in s.pending[t] : p[1] # cyc + CHK_LOAD_LATENCY
  <2>1. ASSUME \A x \in R : ~x.is_store => \A p \in s.pending[x.tile] : p[1] # cyc + CHK_LOAD_LATENCY,
               NEW t \in Tiles, words[t].lsu = "LOAD", NEW p \in s.pending[t]
        PROVE  p[1] # cyc + CHK_LOAD_LATENCY
    <3>1. Asks(s, t, words[t]) BY <2>1 DEF Asks
    <3>2. r(t) \in R /\ ~r(t).is_store /\ r(t).tile = t BY <1>1, <1>2, <2>1, <3>1
    <3> QED BY <2>1, <3>2
  <2>2. ASSUME \A t \in Tiles : words[t].lsu = "LOAD" =>
                  \A p \in s.pending[t] : p[1] # cyc + CHK_LOAD_LATENCY,
               NEW x \in R, ~x.is_store, NEW p \in s.pending[x.tile]
        PROVE  p[1] # cyc + CHK_LOAD_LATENCY
    <3>1. PICK t \in Tiles : Asks(s, t, words[t]) /\ x = r(t) BY <1>1
    <3>2. words[t].lsu = "LOAD" /\ x.tile = t BY <1>2, <1>4, <2>2, <3>1
    <3> QED BY <2>2, <3>2
  <2> QED BY <2>1, <2>2
<1> QED BY <1>6, <1>7, <1>8

LEMMA FuIsNoSource == "FU" \notin DataSources /\ "FU" \notin PredSources
BY DEF DataSources, PredSources, Dirs

LEMMA ArrivalsTyped ==
    ASSUME NEW out, NEW V, Absent \in V, \A t \in Tiles, d \in Dirs : out[t][d] \in V
    PROVE  Arrivals(out) \in [Tiles -> [Dirs -> V]]
<1>1. \A d \in Dirs : Opposite[d] \in Dirs BY DEF Opposite, Dirs
<1> QED BY <1>1 DEF Arrivals

LEMMA CheckStepTyped ==
    ASSUME NEW s, CheckTyped(s), NEW cyc \in Nat, NEW words, ProgramLine(words),
           Clean(s, cyc, words)
    PROVE  CheckTyped(ChkAfter(s, cyc, words))
<1> DEFINE u == ChkAfter(s, cyc, words)
           reqs == ChkRequests(s, cyc, words)
           stores(a) == {r \in reqs : r.is_store /\ r.address = a}
           dataOut == [t \in Tiles |-> [d \in Dirs |->
              IF words[t].data_route[d] = "OFF" THEN Absent
              ELSE ChkDataRoute(s, cyc, t, words[t], words[t].data_route[d])]]
           predOut == [t \in Tiles |-> [d \in Dirs |->
              IF words[t].pred_route[d] = "OFF" THEN Absent
              ELSE ChkPredRoute(s, cyc, t, words[t], words[t].pred_route[d])]]
<1>1. \A t \in Tiles : ReplayableWord(t, words[t]) BY DEF ProgramLine
<1>2. \A t \in Tiles : /\ ChkExecuted(s, cyc, t, words[t]).data \in LinkValue
                       /\ ChkExecuted(s, cyc, t, words[t]).pred \in PredValue
  BY <1>1, CheckResultTyped
<1>3. \A t \in Tiles : \A src :
        /\ ChkData(s, cyc, t, words[t], src) \in LinkValue
        /\ ChkPred(s, t, words[t], src) \in PredValue
  BY <1>1, CheckSourceTyped
<1>4. u.data_values \in [Tiles -> [DataRegs -> Words]]
  <2>1. u.data_values = [t \in Tiles |-> [r \in DataRegs |->
            CASE r = words[t].data_w0 -> ChkExecuted(s, cyc, t, words[t]).data.value
              [] r = words[t].data_w1 ->
                    ChkData(s, cyc, t, words[t], words[t].data_w1_src).value
              [] OTHER -> s.data_values[t][r]]]
    BY DEF ChkAfter
  <2>2. \A t \in Tiles : \A r \in DataRegs : s.data_values[t][r] \in Words BY DEF CheckTyped
  <2> HIDE DEF u
  <2>3. ASSUME NEW t \in Tiles, NEW r \in DataRegs PROVE u.data_values[t][r] \in Words
    <3> DEFINE e == ChkExecuted(s, cyc, t, words[t]).data.value
               v == ChkData(s, cyc, t, words[t], words[t].data_w1_src).value
               o == s.data_values[t][r]
    <3>1. e \in Words /\ v \in Words /\ o \in Words BY <1>2, <1>3, <2>2, PlainValues
    <3>2. u.data_values[t][r] = CASE r = words[t].data_w0 -> e [] r = words[t].data_w1 -> v
                                   [] OTHER -> o
      BY <2>1
    <3> HIDE DEF e, v, o
    <3> QED BY <3>1, <3>2
  <2> QED BY <2>1, <2>3
<1>5. u.pred_values \in [Tiles -> [PredRegs -> {0, 1}]]
  <2>1. u.pred_values = [t \in Tiles |-> [r \in PredRegs |->
            CASE r = words[t].pred_w0 -> ChkExecuted(s, cyc, t, words[t]).pred.value
              [] r = words[t].pred_w1 -> ChkPred(s, t, words[t], words[t].pred_w1_src).value
              [] OTHER -> s.pred_values[t][r]]]
    BY DEF ChkAfter
  <2>2. \A t \in Tiles : \A r \in PredRegs : s.pred_values[t][r] \in {0, 1} BY DEF CheckTyped
  <2> HIDE DEF u
  <2>3. ASSUME NEW t \in Tiles, NEW r \in PredRegs PROVE u.pred_values[t][r] \in {0, 1}
    <3> DEFINE e == ChkExecuted(s, cyc, t, words[t]).pred.value
               v == ChkPred(s, t, words[t], words[t].pred_w1_src).value
               o == s.pred_values[t][r]
    <3>1. e \in {0, 1} /\ v \in {0, 1} /\ o \in {0, 1} BY <1>2, <1>3, <2>2, PlainValues
    <3>2. u.pred_values[t][r] = CASE r = words[t].pred_w0 -> e [] r = words[t].pred_w1 -> v
                                   [] OTHER -> o
      BY <2>1
    <3> HIDE DEF e, v, o
    <3> QED BY <3>1, <3>2
  <2> QED BY <2>1, <2>3
<1>6. \A r \in reqs : /\ r.value \in Words /\ r.address \in Addrs
                      /\ \E t \in Tiles : Asks(s, t, words[t]) /\ r = Asked(s, cyc, t, words[t])
  <2>1. ASSUME NEW r \in reqs
        PROVE  \E t \in Tiles : Asks(s, t, words[t]) /\ r = Asked(s, cyc, t, words[t])
    BY CleanRequests DEF Clean
  <2>2. ASSUME NEW t \in Tiles, Asks(s, t, words[t])
        PROVE  /\ Asked(s, cyc, t, words[t]).value \in Words
               /\ Asked(s, cyc, t, words[t]).address \in Addrs
    BY <1>3, <2>2, CleanRequests, PlainValues DEF Asked, Clean
  <2> QED BY <2>1, <2>2
<1>7. u.scratch \in [Addrs -> Words]
  <2>1. u.scratch = [a \in Addrs |-> IF stores(a) = {} THEN s.scratch[a]
                                     ELSE (CHOOSE r \in stores(a) : TRUE).value]
    BY DEF ChkAfter
  <2>2. \A a \in Addrs : s.scratch[a] \in Words BY DEF CheckTyped
  <2>3. ASSUME NEW a \in Addrs, stores(a) # {}
        PROVE  (CHOOSE r \in stores(a) : TRUE).value \in Words
    BY <1>6, <2>3
  <2> HIDE DEF u, stores
  <2> QED BY <2>1, <2>2, <2>3
<1>8. \A t \in Tiles : u.pending[t] \subseteq Nat \X Words
  <2> TAKE t \in Tiles
  <2>1. u.pending[t] = {p \in s.pending[t] : p[1] # cyc} \cup
            {<<cyc + CHK_LOAD_LATENCY, s.scratch[r.address]>> :
                r \in {x \in reqs : x.tile = t /\ ~x.is_store}}
    BY DEF ChkAfter
  <2>2. s.pending[t] \subseteq Nat \X Words /\ \A a \in Addrs : s.scratch[a] \in Words
    BY DEF CheckTyped
  <2>3. cyc + CHK_LOAD_LATENCY \in Nat BY ProgramAssumption
  <2> HIDE DEF u, reqs
  <2> QED BY <1>6, <2>1, <2>2, <2>3
<1>9. u.data_in \in [Tiles -> [Dirs -> LinkValue]]
  <2>1. \A t \in Tiles, d \in Dirs : dataOut[t][d] \in LinkValue
    BY <1>2, <1>3, PlainValues DEF ChkDataRoute
  <2>2. u.data_in = Arrivals(dataOut) BY DEF ChkAfter
  <2> HIDE DEF u, dataOut
  <2> QED BY <2>1, <2>2, ArrivalsTyped, PlainValues
<1>10. u.pred_in \in [Tiles -> [Dirs -> PredValue]]
  <2>1. \A t \in Tiles, d \in Dirs : predOut[t][d] \in PredValue
    BY <1>2, <1>3, PlainValues DEF ChkPredRoute
  <2>2. u.pred_in = Arrivals(predOut) BY DEF ChkAfter
  <2> HIDE DEF u, predOut
  <2> QED BY <2>1, <2>2, ArrivalsTyped, PlainValues
<1> HIDE DEF u
<1>11. CheckTyped(u) BY <1>4, <1>5, <1>7, <1>8, <1>9, <1>10 DEF CheckTyped
<1> QED BY <1>11 DEF u

-----------------------------------------------------------------------------
(* States that differ only in values                                       *)

\* At cycle c of the one and cycle d of the other the same registers are
\* initialised, the same responses are under way, the same links carry a value.
Like(s, c, u, d) ==
    /\ s.data_valid = u.data_valid /\ s.pred_valid = u.pred_valid
    /\ \A t \in Tiles, k \in Int :
          (\E p \in s.pending[t] : p[1] = c + k) <=> (\E p \in u.pending[t] : p[1] = d + k)
    /\ \A t \in Tiles, dir \in Dirs :
          /\ s.data_in[t][dir].valid <=> u.data_in[t][dir].valid
          /\ s.pred_in[t][dir].valid <=> u.pred_in[t][dir].valid

\* What the checker compares: snapshots are taken at the end of a cycle.
LEMMA SnapshotsAreLike ==
    ASSUME NEW s, NEW u, CheckTyped(s), CheckTyped(u), NEW c \in Int, NEW d \in Int
    PROVE  StructuralSnapshot(s, c - 1) = StructuralSnapshot(u, d - 1) <=> Like(s, c, u, d)
<1> DEFINE A(t) == {p[1] - (c - 1) : p \in s.pending[t]}
           B(t) == {p[1] - (d - 1) : p \in u.pending[t]}
           In(x, t) == {dir \in Dirs : x[t][dir].valid}
<1>1. StructuralSnapshot(s, c - 1) = StructuralSnapshot(u, d - 1) <=>
        /\ s.data_valid = u.data_valid /\ s.pred_valid = u.pred_valid
        /\ \A t \in Tiles : A(t) = B(t)
        /\ \A t \in Tiles : In(s.data_in, t) = In(u.data_in, t)
        /\ \A t \in Tiles : In(s.pred_in, t) = In(u.pred_in, t)
  BY DEF StructuralSnapshot
<1>2. \A t \in Tiles : \A p \in s.pending[t] : p[1] \in Nat BY DEF CheckTyped
<1>3. \A t \in Tiles : \A p \in u.pending[t] : p[1] \in Nat BY DEF CheckTyped
<1>4. ASSUME NEW t \in Tiles
      PROVE  A(t) = B(t) <=>
               \A k \in Int : (\E p \in s.pending[t] : p[1] = c + k)
                              <=> (\E p \in u.pending[t] : p[1] = d + k)
  <2>1. \A k \in Int : k + 1 \in A(t) <=> \E p \in s.pending[t] : p[1] = c + k BY <1>2
  <2>2. \A k \in Int : k + 1 \in B(t) <=> \E p \in u.pending[t] : p[1] = d + k BY <1>3
  <2>3. A(t) \subseteq Int /\ B(t) \subseteq Int BY <1>2, <1>3
  <2> HIDE DEF A, B
  <2>4. (\A k \in Int : k + 1 \in A(t) <=> k + 1 \in B(t)) => A(t) = B(t)
    <3> SUFFICES ASSUME \A k \in Int : k + 1 \in A(t) <=> k + 1 \in B(t), NEW x
                 PROVE  x \in A(t) <=> x \in B(t)
      OBVIOUS
    <3>1. CASE x \in Int
      <4>1. x - 1 \in Int /\ (x - 1) + 1 = x BY <3>1
      <4> QED BY <4>1
    <3> QED BY <2>3, <3>1
  <2> QED BY <2>1, <2>2, <2>4
<1>5. ASSUME NEW t \in Tiles
      PROVE  /\ In(s.data_in, t) = In(u.data_in, t) <=>
                  \A dir \in Dirs : s.data_in[t][dir].valid <=> u.data_in[t][dir].valid
             /\ In(s.pred_in, t) = In(u.pred_in, t) <=>
                  \A dir \in Dirs : s.pred_in[t][dir].valid <=> u.pred_in[t][dir].valid
  OBVIOUS
<1> HIDE DEF A, B, In
<1> QED BY <1>1, <1>4, <1>5 DEF Like

StaticLine(words) == \A t \in Tiles : StaticWord(words[t])

\* An address and the decision to store that depend on no value.
LEMMA StaticAsks ==
    ASSUME NEW s, NEW u, NEW c, NEW d, NEW t \in Tiles, NEW w, StaticWord(w)
    PROVE  /\ w.lsu # "NONE" =>
                 ChkData(s, c, t, w, w.lsu_addr) = ChkData(u, d, t, w, w.lsu_addr)
           /\ Asks(s, t, w) <=> Asks(u, t, w)
           /\ Asks(s, t, w) => w.lsu # "NONE"
<1>1. w.lsu # "NONE" => ChkData(s, c, t, w, w.lsu_addr) = ChkData(u, d, t, w, w.lsu_addr)
  BY DEF StaticWord, ChkData, Dirs
<1> QED BY <1>1 DEF StaticWord, Asks

LEMMA LikeTile ==
    ASSUME NEW s, NEW u, NEW c \in Int, NEW d \in Int, Like(s, c, u, d),
           NEW t \in Tiles, NEW w, StaticWord(w), CleanTile(s, c, t, w)
    PROVE  CleanTile(u, d, t, w)
<1>1. s.data_valid = u.data_valid /\ s.pred_valid = u.pred_valid BY DEF Like
<1>2. (\E p \in s.pending[t] : p[1] = c) <=> (\E p \in u.pending[t] : p[1] = d)
  <2>1. c + 0 = c /\ d + 0 = d /\ 0 \in Int OBVIOUS
  <2> QED BY <2>1 DEF Like
<1>3. \A dir \in Dirs : /\ s.data_in[t][dir].valid <=> u.data_in[t][dir].valid
                        /\ s.pred_in[t][dir].valid <=> u.pred_in[t][dir].valid
  BY DEF Like
<1>4. w.lsu # "NONE" => ChkData(s, c, t, w, w.lsu_addr) = ChkData(u, d, t, w, w.lsu_addr)
  BY StaticAsks
<1> QED BY <1>1, <1>2, <1>3, <1>4 DEF CleanTile

\* The diagnostics of a static word do not look at values.
LEMMA LikeClean ==
    ASSUME NEW s, CheckTyped(s), NEW u, CheckTyped(u), NEW c \in Int, NEW d \in Int,
           Like(s, c, u, d), NEW words, ProgramLine(words), StaticLine(words),
           Clean(s, c, words)
    PROVE  Clean(u, d, words)
<1>1. \A t \in Tiles : CleanTile(s, c, t, words[t]) /\ CleanTile(u, d, t, words[t])
  BY LikeTile DEF Clean, StaticLine
<1>2. /\ Apart(s, c, words)
      /\ \A t \in Tiles : words[t].lsu = "LOAD" =>
            \A p \in s.pending[t] : p[1] # c + CHK_LOAD_LATENCY
  BY <1>1, CleanMemoryTiles DEF Clean
<1>3. ASSUME NEW t \in Tiles
      PROVE  /\ Asks(s, t, words[t]) <=> Asks(u, t, words[t])
             /\ Asks(s, t, words[t]) => ChkData(s, c, t, words[t], words[t].lsu_addr)
                                          = ChkData(u, d, t, words[t], words[t].lsu_addr)
  <2>1. StaticWord(words[t]) BY DEF StaticLine
  <2>2. Asks(s, t, words[t]) <=> Asks(u, t, words[t]) BY <2>1, StaticAsks
  <2>3. Asks(s, t, words[t]) => words[t].lsu # "NONE" BY <2>1, StaticAsks
  <2>4. words[t].lsu # "NONE" => ChkData(s, c, t, words[t], words[t].lsu_addr)
                                   = ChkData(u, d, t, words[t], words[t].lsu_addr)
    BY <2>1, StaticAsks
  <2> QED BY <2>2, <2>3, <2>4
<1>4. Apart(u, d, words) BY <1>2, <1>3 DEF Apart
<1>5. \A t \in Tiles : words[t].lsu = "LOAD" =>
         \A p \in u.pending[t] : p[1] # d + CHK_LOAD_LATENCY
  <2>1. CHK_LOAD_LATENCY \in Int BY ProgramAssumption
  <2> QED BY <1>2, <2>1 DEF Like
<1>6. CleanMemory(u, d, words) BY <1>1, <1>4, <1>5, CleanMemoryTiles
<1> QED BY <1>1, <1>6 DEF Clean

\* What the structure of the state is after a clean cycle.
Structured(s, cyc, words, u) ==
    /\ u.data_valid = [t \in Tiles |-> s.data_valid[t] \cup
                         ({words[t].data_w0, words[t].data_w1} \ {NoAddr})]
    /\ u.pred_valid = [t \in Tiles |-> s.pred_valid[t] \cup
                         ({words[t].pred_w0, words[t].pred_w1} \ {NoAddr})]
    /\ \A t \in Tiles, k \in Int :
          (\E p \in u.pending[t] : p[1] = k) <=>
             \/ k # cyc /\ \E p \in s.pending[t] : p[1] = k
             \/ words[t].lsu = "LOAD" /\ k = cyc + CHK_LOAD_LATENCY
    /\ \A t \in Tiles, dir \in Dirs :
          /\ u.data_in[t][dir].valid <=>
               /\ Neighbour(t, dir) \in Tiles
               /\ words[Neighbour(t, dir)].data_route[Opposite[dir]] # "OFF"
          /\ u.pred_in[t][dir].valid <=>
               /\ Neighbour(t, dir) \in Tiles
               /\ words[Neighbour(t, dir)].pred_route[Opposite[dir]] # "OFF"

LEMMA StructureAfter ==
    ASSUME NEW s, CheckTyped(s), NEW cyc \in Int, NEW words, ProgramLine(words),
           Clean(s, cyc, words)
    PROVE  Structured(s, cyc, words, ChkAfter(s, cyc, words))
<1> DEFINE u == ChkAfter(s, cyc, words)
           reqs == ChkRequests(s, cyc, words)
           dataOut == [t \in Tiles |-> [d \in Dirs |->
              IF words[t].data_route[d] = "OFF" THEN Absent
              ELSE ChkDataRoute(s, cyc, t, words[t], words[t].data_route[d])]]
           predOut == [t \in Tiles |-> [d \in Dirs |->
              IF words[t].pred_route[d] = "OFF" THEN Absent
              ELSE ChkPredRoute(s, cyc, t, words[t], words[t].pred_route[d])]]
<1>1. /\ u.data_valid = [t \in Tiles |-> s.data_valid[t] \cup
                           ({words[t].data_w0, words[t].data_w1} \ {NoAddr})]
      /\ u.pred_valid = [t \in Tiles |-> s.pred_valid[t] \cup
                           ({words[t].pred_w0, words[t].pred_w1} \ {NoAddr})]
  BY DEF ChkAfter
<1>2. ASSUME NEW t \in Tiles, NEW k \in Int
      PROVE  (\E p \in u.pending[t] : p[1] = k) <=>
               \/ k # cyc /\ \E p \in s.pending[t] : p[1] = k
               \/ words[t].lsu = "LOAD" /\ k = cyc + CHK_LOAD_LATENCY
  <2>1. u.pending[t] = {p \in s.pending[t] : p[1] # cyc} \cup
            {<<cyc + CHK_LOAD_LATENCY, s.scratch[r.address]>> :
                r \in {x \in reqs : x.tile = t /\ ~x.is_store}}
    BY DEF ChkAfter
  <2>2. (\E r \in reqs : r.tile = t /\ ~r.is_store) <=> words[t].lsu = "LOAD"
    <3>1. \A r : r \in reqs <=>
             \E v \in Tiles : Asks(s, v, words[v]) /\ r = Asked(s, cyc, v, words[v])
      BY CleanRequests DEF Clean
    <3>2. \A v \in Tiles : /\ Asked(s, cyc, v, words[v]).tile = v
                           /\ Asked(s, cyc, v, words[v]).is_store <=> words[v].lsu = "STORE"
      BY DEF Asked
    <3>3. \A v \in Tiles : words[v].lsu # "STORE" => (Asks(s, v, words[v]) <=> words[v].lsu = "LOAD")
      BY DEF Asks
    <3>4. \A v \in Tiles : words[v].lsu = "LOAD" => Asks(s, v, words[v]) /\ words[v].lsu # "STORE"
      BY DEF Asks
    <3> HIDE DEF reqs
    <3>5. ASSUME words[t].lsu = "LOAD" PROVE \E r \in reqs : r.tile = t /\ ~r.is_store
      BY <3>1, <3>2, <3>4, <3>5
    <3>6. ASSUME NEW r \in reqs, r.tile = t, ~r.is_store PROVE words[t].lsu = "LOAD"
      <4>1. PICK v \in Tiles : Asks(s, v, words[v]) /\ r = Asked(s, cyc, v, words[v]) BY <3>1
      <4> QED BY <3>2, <3>3, <3>6, <4>1
    <3> QED BY <3>5, <3>6
  <2> HIDE DEF u, reqs
  <2>3. \A a : <<cyc + CHK_LOAD_LATENCY, a>>[1] = cyc + CHK_LOAD_LATENCY OBVIOUS
  <2>4. (\E p \in u.pending[t] : p[1] = k) <=>
           \/ \E p \in s.pending[t] : p[1] # cyc /\ p[1] = k
           \/ \E r \in reqs : r.tile = t /\ ~r.is_store /\ k = cyc + CHK_LOAD_LATENCY
    <3> DEFINE A == {p \in s.pending[t] : p[1] # cyc}
               L == {<<cyc + CHK_LOAD_LATENCY, s.scratch[r.address]>> :
                       r \in {x \in reqs : x.tile = t /\ ~x.is_store}}
    <3>1. (\E p \in A : p[1] = k) <=> \E p \in s.pending[t] : p[1] # cyc /\ p[1] = k OBVIOUS
    <3>2. ASSUME NEW p \in L, p[1] = k
          PROVE  \E r \in reqs : r.tile = t /\ ~r.is_store /\ k = cyc + CHK_LOAD_LATENCY
      <4>1. PICK r \in reqs : /\ r.tile = t /\ ~r.is_store
                              /\ p = <<cyc + CHK_LOAD_LATENCY, s.scratch[r.address]>>
        OBVIOUS
      <4> QED BY <2>3, <3>2, <4>1
    <3>3. ASSUME NEW r \in reqs, r.tile = t, ~r.is_store, k = cyc + CHK_LOAD_LATENCY
          PROVE  \E p \in L : p[1] = k
      <4>1. <<cyc + CHK_LOAD_LATENCY, s.scratch[r.address]>> \in L BY <3>3
      <4> QED BY <2>3, <3>3, <4>1
    <3>4. u.pending[t] = A \cup L BY <2>1
    <3> HIDE DEF A, L
    <3> QED BY <3>1, <3>2, <3>3, <3>4
  <2> QED BY <2>2, <2>4
<1>3. ASSUME NEW t \in Tiles, NEW d \in Dirs
      PROVE  /\ dataOut[t][d].valid <=> words[t].data_route[d] # "OFF"
             /\ predOut[t][d].valid <=> words[t].pred_route[d] # "OFF"
  <2>1. ReplayableWord(t, words[t]) /\ CleanTile(s, cyc, t, words[t]) BY DEF Clean, ProgramLine
  <2>2. /\ words[t].data_route[d] # "OFF" =>
              ChkDataRoute(s, cyc, t, words[t], words[t].data_route[d]).valid
        /\ words[t].pred_route[d] # "OFF" =>
              ChkPredRoute(s, cyc, t, words[t], words[t].pred_route[d]).valid
    BY <2>1, CleanSources
  <2> QED BY <2>2 DEF Absent
<1>4. u.data_in = Arrivals(dataOut) /\ u.pred_in = Arrivals(predOut) BY DEF ChkAfter
<1>5. \A d \in Dirs : Opposite[d] \in Dirs BY DEF Opposite, Dirs
<1> HIDE DEF u, dataOut, predOut
<1>6. ASSUME NEW t \in Tiles, NEW dir \in Dirs
      PROVE  /\ u.data_in[t][dir].valid <=>
                  /\ Neighbour(t, dir) \in Tiles
                  /\ words[Neighbour(t, dir)].data_route[Opposite[dir]] # "OFF"
             /\ u.pred_in[t][dir].valid <=>
                  /\ Neighbour(t, dir) \in Tiles
                  /\ words[Neighbour(t, dir)].pred_route[Opposite[dir]] # "OFF"
  BY <1>3, <1>4, <1>5 DEF Arrivals, Absent
<1>7. Structured(s, cyc, words, u) BY <1>1, <1>2, <1>6 DEF Structured
<1> QED BY <1>7 DEF u

LEMMA LikeAfter ==
    ASSUME NEW s, CheckTyped(s), NEW u, CheckTyped(u), NEW c \in Int, NEW d \in Int,
           Like(s, c, u, d), NEW words, ProgramLine(words),
           Clean(s, c, words), Clean(u, d, words)
    PROVE  Like(ChkAfter(s, c, words), c + 1, ChkAfter(u, d, words), d + 1)
<1> DEFINE x == ChkAfter(s, c, words)
           y == ChkAfter(u, d, words)
<1>0. Structured(s, c, words, x) /\ Structured(u, d, words, y) BY StructureAfter
<1> HIDE DEF x, y
<1>1. x.data_valid = y.data_valid /\ x.pred_valid = y.pred_valid
  BY <1>0 DEF Structured, Like
<1>2. ASSUME NEW t \in Tiles, NEW k \in Int
      PROVE  (\E p \in x.pending[t] : p[1] = c + 1 + k)
               <=> (\E p \in y.pending[t] : p[1] = d + 1 + k)
  <2>1. CHK_LOAD_LATENCY \in Int BY ProgramAssumption
  <2>2. c + 1 + k \in Int /\ c + 1 + k = c + (k + 1) /\ k + 1 \in Int
        /\ d + 1 + k \in Int /\ d + 1 + k = d + (k + 1) OBVIOUS
  <2>3. (\E p \in s.pending[t] : p[1] = c + (k + 1)) <=> (\E p \in u.pending[t] : p[1] = d + (k + 1))
    BY <2>2 DEF Like
  <2>4. (\E p \in x.pending[t] : p[1] = c + 1 + k) <=>
           \/ c + 1 + k # c /\ \E p \in s.pending[t] : p[1] = c + 1 + k
           \/ words[t].lsu = "LOAD" /\ c + 1 + k = c + CHK_LOAD_LATENCY
    BY <1>0, <2>2 DEF Structured
  <2>5. (\E p \in y.pending[t] : p[1] = d + 1 + k) <=>
           \/ d + 1 + k # d /\ \E p \in u.pending[t] : p[1] = d + 1 + k
           \/ words[t].lsu = "LOAD" /\ d + 1 + k = d + CHK_LOAD_LATENCY
    BY <1>0, <2>2 DEF Structured
  <2>6. (c + 1 + k # c <=> d + 1 + k # d)
        /\ (c + 1 + k = c + CHK_LOAD_LATENCY <=> d + 1 + k = d + CHK_LOAD_LATENCY)
    BY <2>1
  <2> QED BY <2>2, <2>3, <2>4, <2>5, <2>6
<1>3. ASSUME NEW t \in Tiles, NEW dir \in Dirs
      PROVE  /\ x.data_in[t][dir].valid <=> y.data_in[t][dir].valid
             /\ x.pred_in[t][dir].valid <=> y.pred_in[t][dir].valid
  BY <1>0 DEF Structured
<1>4. Like(x, c + 1, y, d + 1) BY <1>1, <1>2, <1>3 DEF Like
<1> QED BY <1>4 DEF x, y

-----------------------------------------------------------------------------
(* The golden model, seen as a state of the checker                        *)

AsCheck ==
    [data_valid  |-> data_valid,
     data_values |-> data_rf,
     pred_valid  |-> pred_valid,
     pred_values |-> pred_rf,
     scratch     |-> shared_scratchpad,
     pending     |-> pending_loads,
     data_in     |-> data_inputs,
     pred_in     |-> pred_inputs]

LEMMA GoldenSources ==
    ASSUME NEW t, NEW w
    PROVE  /\ \A src : data_source(t, w, src) = ChkData(AsCheck, cycle, t, w, src)
           /\ \A src : pred_source(t, w, src) = ChkPred(AsCheck, t, w, src)
<1>1. LoadResponse(t) = ChkLoad(AsCheck, cycle, t)
  <2> DEFINE due == {p \in pending_loads[t] : p[1] = cycle}
  <2>1. (CHOOSE p \in due : TRUE) = (CHOOSE p \in pending_loads[t] : p[1] = cycle) OBVIOUS
  <2>2. due = {} <=> ~(\E p \in pending_loads[t] : p[1] = cycle) OBVIOUS
  <2>3. AsCheck.pending = pending_loads BY DEF AsCheck
  <2>4. ChkLoad(AsCheck, cycle, t) =
          IF due = {} THEN Absent ELSE Valid((CHOOSE p \in due : TRUE)[2])
    BY <2>3 DEF ChkLoad
  <2>5. LoadResponse(t) = IF \E p \in pending_loads[t] : p[1] = cycle
                          THEN Valid((CHOOSE p \in pending_loads[t] : p[1] = cycle)[2])
                          ELSE Absent
    BY DEF LoadResponse
  <2> QED BY <2>1, <2>2, <2>4, <2>5
<1>2. ASSUME NEW src PROVE data_source(t, w, src) = ChkData(AsCheck, cycle, t, w, src)
  BY <1>1 DEF data_source, ChkData, AsCheck
<1>3. ASSUME NEW src PROVE pred_source(t, w, src) = ChkPred(AsCheck, t, w, src)
  BY DEF pred_source, ChkPred, AsCheck
<1> QED BY <1>2, <1>3

LEMMA GoldenResult ==
    ASSUME CheckTyped(AsCheck), NEW t \in Tiles, NEW w, ReplayableWord(t, w)
    PROVE  Executed(t, w) = ChkExecuted(AsCheck, cycle, t, w)
<1> DEFINE a == ChkData(AsCheck, cycle, t, w, w.src_a).value
           b == ChkData(AsCheck, cycle, t, w, w.src_b).value
           p == ChkPred(AsCheck, t, w, w.src_p0).value
           q == ChkPred(AsCheck, t, w, w.src_p1).value
<1>1. a \in Words /\ b \in Words /\ p \in {0, 1} /\ q \in {0, 1}
  BY CheckSourceTyped, PlainValues
<1>2. ChkExecuted(AsCheck, cycle, t, w) = ChkFu(w.op, a, b, p, q) BY DEF ChkExecuted
<1>3. Executed(t, w) = GoldFu(w.op, a, b, p, q) BY GoldenSources DEF Executed
<1> HIDE DEF a, b, p, q
<1>4. ImportedResults(w.op) BY DEF ReplayableWord
<1> QED BY <1>1, <1>2, <1>3, <1>4 DEF ImportedResults

LEMMA GoldenSelects ==
    ASSUME NEW t \in Tiles, NEW w, ReplayableWord(t, w)
    PROVE  /\ DataSelected(w) = ChkDataSources(w) /\ PredSelected(w) = ChkPredSources(w)
           /\ data_read_addrs(w) = ReadAddrs(ChkDataSources(w), w.data_ra, w.data_rb)
           /\ pred_read_addrs(w) = ReadAddrs(ChkPredSources(w), w.pred_ra, w.pred_rb)
<1>1. {w.data_route[d] : d \in {e \in Dirs : w.data_route[e] # "OFF"}} = Routed(w.data_route)
  BY DEF Routed
<1>2. {w.pred_route[d] : d \in {e \in Dirs : w.pred_route[e] # "OFF"}} = Routed(w.pred_route)
  BY DEF Routed
<1>3. DataSelected(w) = ChkDataSources(w)
  BY <1>1 DEF DataSelected, ChkDataSources, Only, OnlyIf
<1>4. PredSelected(w) = ChkPredSources(w)
  BY <1>2 DEF PredSelected, ChkPredSources, Only, OnlyIf
<1>5. data_read_addrs(w) = ReadAddrs(ChkDataSources(w), w.data_ra, w.data_rb)
  BY <1>3 DEF data_read_addrs, ReadAddrs, Only, OnlyIf
<1>6. pred_read_addrs(w) = ReadAddrs(ChkPredSources(w), w.pred_ra, w.pred_rb)
  BY <1>4 DEF pred_read_addrs, ReadAddrs, Only, OnlyIf
<1> QED BY <1>3, <1>4, <1>5, <1>6

\* The rule that only the checker has.
ResultsRouted(w) ==
    /\ "FU" \in Routed(w.data_route) => HasResult(w.op, "data")
    /\ "FU" \in Routed(w.pred_route) => HasResult(w.op, "pred")

\* A tile is clean when the golden model has no error, and only then.
LEMMA GoldenTile ==
    ASSUME CheckTyped(AsCheck), NEW t \in Tiles, NEW w, ReplayableWord(t, w)
    PROVE  CleanTile(AsCheck, cycle, t, w) <=> ~tile_error(t, w) /\ ResultsRouted(w)
<1> DEFINE s == AsCheck
           D == ChkDataSources(w)
           P == ChkPredSources(w)
           x == ChkExecuted(s, cycle, t, w)
           addr == ChkData(s, cycle, t, w, w.lsu_addr)
<1>1. DataSelected(w) = D /\ PredSelected(w) = P BY GoldenSelects
<1>2. \A src : /\ data_route_source(t, w, src).valid <=>
                    (src = "FU" \/ ChkData(s, cycle, t, w, src).valid)
               /\ pred_route_source(t, w, src).valid <=>
                    (src = "FU" \/ ChkPred(s, t, w, src).valid)
  BY GoldenSources DEF data_route_source, pred_route_source, Valid
<1>3. /\ x.data.valid = HasResult(w.op, "data") /\ x.pred.valid = HasResult(w.op, "pred")
      /\ Executed(t, w) = x
  BY CheckResultTyped, GoldenResult
<1>4. lsu_error(t, w) <=>
        /\ w.lsu # "NONE"
        /\ \/ t \notin LsuTiles \/ w.lsu = "RESERVED" \/ (w.lsu = "LOAD" /\ w.commit_pred)
           \/ addr.value \notin Addrs
  BY GoldenSources DEF lsu_error
<1>5. /\ check_read_write_hazards(data_read_addrs(w), data_valid[t], w.data_w0, w.data_w1) <=>
           ~(/\ w.data_w0 # NoAddr => w.data_w0 # w.data_w1
             /\ ReadAddrs(D, w.data_ra, w.data_rb) \cap {w.data_w0, w.data_w1} = {}
             /\ ReadAddrs(D, w.data_ra, w.data_rb) \subseteq s.data_valid[t])
      /\ check_read_write_hazards(pred_read_addrs(w), pred_valid[t], w.pred_w0, w.pred_w1) <=>
           ~(/\ w.pred_w0 # NoAddr => w.pred_w0 # w.pred_w1
             /\ ReadAddrs(P, w.pred_ra, w.pred_rb) \cap {w.pred_w0, w.pred_w1} = {}
             /\ ReadAddrs(P, w.pred_ra, w.pred_rb) \subseteq s.pred_valid[t])
  <2>1. /\ data_read_addrs(w) = ReadAddrs(D, w.data_ra, w.data_rb)
        /\ pred_read_addrs(w) = ReadAddrs(P, w.pred_ra, w.pred_rb)
        /\ s.data_valid = data_valid /\ s.pred_valid = pred_valid
    BY GoldenSelects DEF AsCheck
  <2>2. \A r, v, y, z : check_read_write_hazards(r, v, y, z) <=>
           ~((y # NoAddr => y # z) /\ r \cap {y, z} = {} /\ r \subseteq v)
    BY DEF check_read_write_hazards
  <2> HIDE DEF s, D, P
  <2> QED BY <2>1, <2>2
<1>6. /\ w.lsu # "NONE" => w.lsu_addr \in D
      /\ w.lsu_addr # "FU"
      /\ Routed(w.data_route) \subseteq D /\ Routed(w.pred_route) \subseteq P
  BY ReplayableFields, FuIsNoSource DEF ChkDataSources, ChkPredSources, OnlyIf
<1>7. ASSUME CleanTile(s, cycle, t, w) PROVE ~tile_error(t, w) /\ ResultsRouted(w)
  <2>1. /\ \A src \in D : src # "FU" => ChkData(s, cycle, t, w, src).valid
        /\ \A src \in P : src # "FU" => ChkPred(s, t, w, src).valid
    BY <1>7, CleanSources
  <2>2. ~lsu_error(t, w) BY <1>4, <1>6, <1>7, <2>1 DEF CleanTile
  <2>3. /\ w.data_w0 # NoAddr => x.data.valid
        /\ w.pred_w0 # NoAddr => x.pred.valid
    BY <1>3, <1>7 DEF CleanTile
  <2>4. ~check_read_write_hazards(data_read_addrs(w), data_valid[t], w.data_w0, w.data_w1)
        /\ ~check_read_write_hazards(pred_read_addrs(w), pred_valid[t], w.pred_w0, w.pred_w1)
    BY <1>5, <1>7 DEF CleanTile
  <2>5. ResultsRouted(w) BY <1>7 DEF CleanTile, ResultsRouted
  <2> HIDE DEF s, D, P, x, addr
  <2> QED BY <1>1, <1>2, <1>3, <2>1, <2>2, <2>3, <2>4, <2>5 DEF tile_error
<1>8. ASSUME ~tile_error(t, w), ResultsRouted(w) PROVE CleanTile(s, cycle, t, w)
  <2>1. /\ \A src \in D : src # "FU" => ChkData(s, cycle, t, w, src).valid
        /\ \A src \in P : src # "FU" => ChkPred(s, t, w, src).valid
    BY <1>1, <1>2, <1>8 DEF tile_error
  <2>2. "LSU" \in D => \E p \in s.pending[t] : p[1] = cycle
    BY <2>1 DEF ChkData, ChkLoad, Absent, Dirs
  <2>3. ASSUME NEW d \in Dirs
        PROVE (d \in D => s.data_in[t][d].valid) /\ (d \in P => s.pred_in[t][d].valid)
    <3>1. d # "FU" /\ d \notin {"RF_A", "RF_B", "CONST", "ZERO", "LSU", "TRUE", "FALSE"} BY DEF Dirs
    <3>2. ChkData(s, cycle, t, w, d) = s.data_in[t][d] BY <3>1 DEF ChkData
    <3>3. ChkPred(s, t, w, d) = s.pred_in[t][d] BY <3>1 DEF ChkPred
    <3> QED BY <2>1, <3>1, <3>2, <3>3
  <2>4. "NONE" \notin D /\ "NONE" \notin P
    <3>1. ~ChkData(s, cycle, t, w, "NONE").valid /\ ~ChkPred(s, t, w, "NONE").valid
      BY DEF ChkData, ChkPred, Absent, Dirs
    <3> QED BY <2>1, <3>1
  <2>5. /\ w.data_w0 # NoAddr => x.data.valid
        /\ w.pred_w0 # NoAddr => x.pred.valid
        /\ ~lsu_error(t, w)
    BY <1>3, <1>8 DEF tile_error
  <2>6. /\ ~check_read_write_hazards(data_read_addrs(w), data_valid[t], w.data_w0, w.data_w1)
        /\ ~check_read_write_hazards(pred_read_addrs(w), pred_valid[t], w.pred_w0, w.pred_w1)
    BY <1>8 DEF tile_error
  <2>7. "NONE" \notin Routed(w.data_route) \cup Routed(w.pred_route) BY <1>6, <2>4
  <2>8. w.lsu # "NONE" =>
          /\ t \in LsuTiles /\ w.lsu # "RESERVED" /\ (w.lsu = "LOAD" => ~w.commit_pred)
          /\ addr.value \in Addrs
    BY <1>4, <2>5
  <2> QED BY <1>3, <1>5, <1>8, <2>2, <2>3, <2>5, <2>6, <2>7, <2>8 DEF CleanTile, ResultsRouted
<1> QED BY <1>7, <1>8

GoldenAsked(t, w) ==
    [tile |-> t, store |-> w.lsu = "STORE",
     address |-> ChkData(AsCheck, cycle, t, w, w.lsu_addr).value,
     data |-> ChkData(AsCheck, cycle, t, w, w.lsu_data).value]

LEMMA GoldenRequests ==
    ASSUME NEW words
    PROVE  /\ \A t \in Tiles : \A q : q \in Request(t, words[t]) <=>
                 Asks(AsCheck, t, words[t]) /\ q = GoldenAsked(t, words[t])
           /\ \A q : q \in Requests(words) <=>
                 \E t \in Tiles : Asks(AsCheck, t, words[t]) /\ q = GoldenAsked(t, words[t])
<1>1. ASSUME NEW t \in Tiles, NEW q
      PROVE  q \in Request(t, words[t]) <=>
               Asks(AsCheck, t, words[t]) /\ q = GoldenAsked(t, words[t])
  <2> DEFINE w == words[t]
  <2>1. (w.lsu = "LOAD" \/ store_committed(t, w)) <=> Asks(AsCheck, t, w)
    BY GoldenSources DEF store_committed, Asks
  <2>2. Request(t, w) = Only(w.lsu = "LOAD" \/ store_committed(t, w), {GoldenAsked(t, w)})
    BY GoldenSources DEF Request, GoldenAsked
  <2> HIDE DEF w
  <2>3. q \in Request(t, w) <=> Asks(AsCheck, t, w) /\ q = GoldenAsked(t, w)
    BY <2>1, <2>2 DEF Only
  <2> QED BY <2>3 DEF w
<1>2. ASSUME NEW q
      PROVE  q \in Requests(words) <=>
               \E t \in Tiles : Asks(AsCheck, t, words[t]) /\ q = GoldenAsked(t, words[t])
  BY <1>1 DEF Requests
<1> QED BY <1>1, <1>2

\* The golden model raises an error in exactly the cycles that are not clean,
\* but for a route of a result that is not there.
LEMMA GoldenCycle ==
    ASSUME CheckTyped(AsCheck), NEW words, ProgramLine(words)
    PROVE  /\ Clean(AsCheck, cycle, words) => ~GoldenRaises(words)
           /\ ~GoldenRaises(words) /\ (\A t \in Tiles : ResultsRouted(words[t]))
                => Clean(AsCheck, cycle, words)
<1> DEFINE s == AsCheck
           a(t) == ChkData(s, cycle, t, words[t], words[t].lsu_addr).value
           g(t) == GoldenAsked(t, words[t])
           L == cycle + LOAD_LATENCY
<1>1. ASSUME NEW t \in Tiles
      PROVE  CleanTile(s, cycle, t, words[t]) <=> ~tile_error(t, words[t]) /\ ResultsRouted(words[t])
  BY GoldenTile DEF ProgramLine
<1>2. \A q : q \in Requests(words) <=> \E t \in Tiles : Asks(s, t, words[t]) /\ q = g(t)
  BY GoldenRequests
<1>3. \A t \in Tiles : /\ g(t).tile = t /\ g(t).address = a(t)
                       /\ g(t).store <=> words[t].lsu = "STORE"
  BY DEF GoldenAsked
<1>4. /\ \A t \in Tiles : words[t].lsu # "STORE" => (Asks(s, t, words[t]) <=> words[t].lsu = "LOAD")
      /\ \A t \in Tiles : words[t].lsu = "LOAD" => Asks(s, t, words[t]) /\ words[t].lsu # "STORE"
  BY DEF Asks
<1>5. Apart(s, cycle, words) <=>
        \A t, v \in Tiles : t # v /\ Asks(s, t, words[t]) /\ Asks(s, v, words[v]) /\ a(t) = a(v)
                            => words[t].lsu # "STORE"
  BY DEF Apart
<1>6. s.pending = pending_loads /\ CHK_LOAD_LATENCY = LOAD_LATENCY
  BY ProgramAssumption DEF AsCheck
<1>7. (\A t \in Tiles : CleanTile(s, cycle, t, words[t])) =>
        (CleanMemory(s, cycle, words) <=>
          /\ Apart(s, cycle, words)
          /\ \A t \in Tiles : words[t].lsu = "LOAD" => \A p \in pending_loads[t] : p[1] # L)
  BY <1>6, CleanMemoryTiles
<1> HIDE DEF s, a, g, L
<1>8. StoreConflict(words) <=> ~Apart(s, cycle, words)
  <2>1. ASSUME StoreConflict(words), Apart(s, cycle, words) PROVE FALSE
    <3>1. PICK p \in Requests(words), q \in Requests(words) :
             p # q /\ p.address = q.address /\ (p.store \/ q.store)
      BY <2>1 DEF StoreConflict
    <3>2. PICK t \in Tiles : Asks(s, t, words[t]) /\ p = g(t) BY <1>2
    <3>3. PICK v \in Tiles : Asks(s, v, words[v]) /\ q = g(v) BY <1>2
    <3>4. t # v /\ a(t) = a(v) /\ (words[t].lsu = "STORE" \/ words[v].lsu = "STORE")
      BY <1>3, <3>1, <3>2, <3>3
    <3> QED BY <1>5, <2>1, <3>2, <3>3, <3>4
  <2>2. ASSUME ~Apart(s, cycle, words) PROVE StoreConflict(words)
    <3>1. PICK t \in Tiles, v \in Tiles :
             /\ t # v /\ Asks(s, t, words[t]) /\ Asks(s, v, words[v]) /\ a(t) = a(v)
             /\ words[t].lsu = "STORE"
      BY <1>5, <2>2
    <3>2. g(t) \in Requests(words) /\ g(v) \in Requests(words) BY <1>2, <3>1
    <3>3. g(t) # g(v) /\ g(t).address = g(v).address /\ g(t).store BY <1>3, <3>1
    <3> QED BY <3>2, <3>3 DEF StoreConflict
  <2> QED BY <2>1, <2>2
<1>9. (\E q \in Requests(words) : \E p \in pending_loads[q.tile] : ~q.store /\ p[1] = L)
      <=> \E t \in Tiles : words[t].lsu = "LOAD" /\ \E p \in pending_loads[t] : p[1] = L
  <2>1. ASSUME NEW q \in Requests(words), NEW p \in pending_loads[q.tile], ~q.store, p[1] = L
        PROVE  \E t \in Tiles : words[t].lsu = "LOAD" /\ \E r \in pending_loads[t] : r[1] = L
    <3>1. PICK t \in Tiles : Asks(s, t, words[t]) /\ q = g(t) BY <1>2
    <3>2. words[t].lsu = "LOAD" /\ q.tile = t BY <1>3, <1>4, <2>1, <3>1
    <3> QED BY <2>1, <3>2
  <2>2. ASSUME NEW t \in Tiles, words[t].lsu = "LOAD", NEW p \in pending_loads[t], p[1] = L
        PROVE  \E q \in Requests(words) : \E r \in pending_loads[q.tile] : ~q.store /\ r[1] = L
    <3>1. g(t) \in Requests(words) /\ g(t).tile = t /\ ~g(t).store BY <1>2, <1>3, <1>4, <2>2
    <3> QED BY <2>2, <3>1
  <2> QED BY <2>1, <2>2
<1>10. GoldenRaises(words) <=>
         \/ \E t \in Tiles : tile_error(t, words[t])
         \/ ~Apart(s, cycle, words)
         \/ \E t \in Tiles : words[t].lsu = "LOAD" /\ \E p \in pending_loads[t] : p[1] = L
  BY <1>8, <1>9 DEF GoldenRaises, L
<1>11. Clean(s, cycle, words) => ~GoldenRaises(words) BY <1>1, <1>7, <1>10 DEF Clean
<1>12. ~GoldenRaises(words) /\ (\A t \in Tiles : ResultsRouted(words[t]))
         => Clean(s, cycle, words)
  BY <1>1, <1>7, <1>10 DEF Clean
<1> QED BY <1>11, <1>12 DEF s

\* A value that is there is its own bits.
LEMMA ThereIsValid ==
    /\ \A x \in LinkValue : x.valid => Valid(x.value) = x
    /\ \A x \in PredValue : x.valid => Valid(x.value) = x
BY DEF LinkValue, PredValue, Valid

LEMMA GoldenRoutes ==
    ASSUME CheckTyped(AsCheck), NEW t \in Tiles, NEW w, ReplayableWord(t, w),
           CleanTile(AsCheck, cycle, t, w), NEW d \in Dirs
    PROVE  /\ w.data_route[d] # "OFF" =>
                Valid(data_route_source(t, w, w.data_route[d]).value)
                  = ChkDataRoute(AsCheck, cycle, t, w, w.data_route[d])
           /\ w.pred_route[d] # "OFF" =>
                Valid(pred_route_source(t, w, w.pred_route[d]).value)
                  = ChkPredRoute(AsCheck, cycle, t, w, w.pred_route[d])
<1> DEFINE f == w.data_route[d]
           h == w.pred_route[d]
           x == ChkDataRoute(AsCheck, cycle, t, w, f)
           y == ChkPredRoute(AsCheck, cycle, t, w, h)
<1>1. (f # "OFF" => x.valid) /\ (h # "OFF" => y.valid) BY CleanSources
<1>2. x \in LinkValue /\ y \in PredValue
  BY CheckResultTyped, CheckSourceTyped DEF ChkDataRoute, ChkPredRoute
<1>3. data_route_source(t, w, f).value = x.value
  <2>1. CASE f = "FU"
    BY <2>1, GoldenResult DEF data_route_source, ChkDataRoute, Valid
  <2>2. CASE f # "FU"
    BY <2>2, GoldenSources DEF data_route_source, ChkDataRoute
  <2> QED BY <2>1, <2>2
<1>4. pred_route_source(t, w, h).value = y.value
  <2>1. CASE h = "FU"
    BY <2>1, GoldenResult DEF pred_route_source, ChkPredRoute, Valid
  <2>2. CASE h # "FU"
    BY <2>2, GoldenSources DEF pred_route_source, ChkPredRoute
  <2> QED BY <2>1, <2>2
<1> HIDE DEF f, h, x, y
<1>5. f # "OFF" => Valid(data_route_source(t, w, f).value) = x BY <1>1, <1>2, <1>3, ThereIsValid
<1>6. h # "OFF" => Valid(pred_route_source(t, w, h).value) = y BY <1>1, <1>2, <1>4, ThereIsValid
<1> QED BY <1>5, <1>6 DEF f, h, x, y

\* The golden model and the checker store the same word.
LEMMA GoldenStores ==
    ASSUME CheckTyped(AsCheck), NEW words, ProgramLine(words), Clean(AsCheck, cycle, words),
           NEW a \in Addrs
    PROVE  LET stores == {r \in ChkRequests(AsCheck, cycle, words) : r.is_store /\ r.address = a}
           IN  (IF \E q \in Requests(words) : q.store /\ q.address = a
                THEN (CHOOSE q \in Requests(words) : q.store /\ q.address = a).data
                ELSE shared_scratchpad[a])
               = (IF stores = {} THEN AsCheck.scratch[a]
                                 ELSE (CHOOSE r \in stores : TRUE).value)
<1> DEFINE s == AsCheck
           R == ChkRequests(s, cycle, words)
           stores == {r \in R : r.is_store /\ r.address = a}
           b(t) == ChkData(s, cycle, t, words[t], words[t].lsu_addr).value
           r(t) == Asked(s, cycle, t, words[t])
           g(t) == GoldenAsked(t, words[t])
           Writes(t) == Asks(s, t, words[t]) /\ words[t].lsu = "STORE" /\ b(t) = a
<1>1. \A x : x \in R <=> \E t \in Tiles : Asks(s, t, words[t]) /\ x = r(t)
  BY CleanRequests DEF Clean
<1>2. \A q : q \in Requests(words) <=> \E t \in Tiles : Asks(s, t, words[t]) /\ q = g(t)
  BY GoldenRequests
<1>3. \A t \in Tiles : /\ r(t).address = b(t) /\ g(t).address = b(t)
                       /\ r(t).is_store <=> words[t].lsu = "STORE"
                       /\ g(t).store <=> words[t].lsu = "STORE"
                       /\ r(t).value = g(t).data
  BY DEF Asked, GoldenAsked
<1>4. \A t, v \in Tiles : Writes(t) /\ Writes(v) => t = v
  BY CleanMemoryTiles DEF Clean, Apart
<1>5. s.scratch = shared_scratchpad BY DEF AsCheck
<1> HIDE DEF s, R, b, r, g
<1>6. CASE \E t \in Tiles : Writes(t)
  <2>1. PICK t \in Tiles : Writes(t) BY <1>6
  <2>2. r(t) \in stores /\ \A x \in stores : x = r(t) BY <1>1, <1>3, <1>4, <2>1
  <2>3. /\ g(t) \in Requests(words) /\ g(t).store /\ g(t).address = a
        /\ \A q \in Requests(words) : q.store /\ q.address = a => q = g(t)
    BY <1>2, <1>3, <1>4, <2>1
  <2> HIDE DEF stores, Writes
  <2>4. stores # {} /\ (CHOOSE x \in stores : TRUE) = r(t) BY <2>2
  <2>5. (CHOOSE q \in Requests(words) : q.store /\ q.address = a) = g(t) BY <2>3
  <2>6. (IF \E q \in Requests(words) : q.store /\ q.address = a
         THEN (CHOOSE q \in Requests(words) : q.store /\ q.address = a).data
         ELSE shared_scratchpad[a]) = g(t).data
    BY <2>3, <2>5
  <2>7. (IF stores = {} THEN s.scratch[a] ELSE (CHOOSE x \in stores : TRUE).value) = r(t).value
    BY <2>4
  <2> QED BY <1>3, <2>6, <2>7 DEF stores, R, s
<1>7. CASE ~\E t \in Tiles : Writes(t)
  <2>1. stores = {} BY <1>1, <1>3, <1>7
  <2>2. ~\E q \in Requests(words) : q.store /\ q.address = a BY <1>2, <1>3, <1>7
  <2> QED BY <1>5, <2>1, <2>2 DEF stores, R, s
<1> QED BY <1>6, <1>7

\* A clean cycle takes both to the same state.
LEMMA GoldenFollows ==
    ASSUME CheckTyped(AsCheck), NEW words, ProgramLine(words), Clean(AsCheck, cycle, words),
           GoldenAdvance(words)
    PROVE  AsCheck' = ChkAfter(AsCheck, cycle, words)
<1> DEFINE s == AsCheck
           u == ChkAfter(s, cycle, words)
<1>1. \A t \in Tiles : ReplayableWord(t, words[t]) /\ CleanTile(s, cycle, t, words[t])
  BY DEF ProgramLine, Clean
<1>2. data_rf' = u.data_values
  <2>1. ASSUME NEW t \in Tiles
        PROVE  write_data_rf(t, words[t]) = [r \in DataRegs |->
            CASE r = words[t].data_w0 -> ChkExecuted(s, cycle, t, words[t]).data.value
              [] r = words[t].data_w1 ->
                    ChkData(s, cycle, t, words[t], words[t].data_w1_src).value
              [] OTHER -> s.data_values[t][r]]
    <3>1. Executed(t, words[t]) = ChkExecuted(s, cycle, t, words[t]) BY <1>1, GoldenResult
    <3>2. data_source(t, words[t], words[t].data_w1_src)
            = ChkData(s, cycle, t, words[t], words[t].data_w1_src)
      BY GoldenSources
    <3>3. s.data_values = data_rf BY DEF AsCheck
    <3> HIDE DEF s
    <3> QED BY <3>1, <3>2, <3>3 DEF write_data_rf
  <2>2. data_rf' = [t \in Tiles |-> write_data_rf(t, words[t])] BY DEF GoldenAdvance
  <2>3. u.data_values = [t \in Tiles |-> [r \in DataRegs |->
            CASE r = words[t].data_w0 -> ChkExecuted(s, cycle, t, words[t]).data.value
              [] r = words[t].data_w1 ->
                    ChkData(s, cycle, t, words[t], words[t].data_w1_src).value
              [] OTHER -> s.data_values[t][r]]]
    BY DEF ChkAfter
  <2> HIDE DEF s, u
  <2> QED BY <2>1, <2>2, <2>3
<1>3. pred_rf' = u.pred_values
  <2>1. ASSUME NEW t \in Tiles
        PROVE  write_pred_rf(t, words[t]) = [r \in PredRegs |->
            CASE r = words[t].pred_w0 -> ChkExecuted(s, cycle, t, words[t]).pred.value
              [] r = words[t].pred_w1 -> ChkPred(s, t, words[t], words[t].pred_w1_src).value
              [] OTHER -> s.pred_values[t][r]]
    <3>1. Executed(t, words[t]) = ChkExecuted(s, cycle, t, words[t]) BY <1>1, GoldenResult
    <3>2. pred_source(t, words[t], words[t].pred_w1_src)
            = ChkPred(s, t, words[t], words[t].pred_w1_src)
      BY GoldenSources
    <3>3. s.pred_values = pred_rf BY DEF AsCheck
    <3> HIDE DEF s
    <3> QED BY <3>1, <3>2, <3>3 DEF write_pred_rf
  <2>2. pred_rf' = [t \in Tiles |-> write_pred_rf(t, words[t])] BY DEF GoldenAdvance
  <2>3. u.pred_values = [t \in Tiles |-> [r \in PredRegs |->
            CASE r = words[t].pred_w0 -> ChkExecuted(s, cycle, t, words[t]).pred.value
              [] r = words[t].pred_w1 -> ChkPred(s, t, words[t], words[t].pred_w1_src).value
              [] OTHER -> s.pred_values[t][r]]]
    BY DEF ChkAfter
  <2> HIDE DEF s, u
  <2> QED BY <2>1, <2>2, <2>3
<1>4. data_valid' = u.data_valid /\ pred_valid' = u.pred_valid
  BY DEF GoldenAdvance, ChkAfter, AsCheck
<1>5. data_inputs' = u.data_in /\ pred_inputs' = u.pred_in
  <2> DEFINE dataOut == [t \in Tiles |-> [d \in Dirs |->
                IF words[t].data_route[d] = "OFF" THEN Absent
                ELSE ChkDataRoute(s, cycle, t, words[t], words[t].data_route[d])]]
             predOut == [t \in Tiles |-> [d \in Dirs |->
                IF words[t].pred_route[d] = "OFF" THEN Absent
                ELSE ChkPredRoute(s, cycle, t, words[t], words[t].pred_route[d])]]
  <2>1. ASSUME NEW t \in Tiles, NEW d \in Dirs
        PROVE  /\ words[t].data_route[d] # "OFF" =>
                    Valid(data_route_source(t, words[t], words[t].data_route[d]).value)
                      = ChkDataRoute(s, cycle, t, words[t], words[t].data_route[d])
               /\ words[t].pred_route[d] # "OFF" =>
                    Valid(pred_route_source(t, words[t], words[t].pred_route[d]).value)
                      = ChkPredRoute(s, cycle, t, words[t], words[t].pred_route[d])
    BY <1>1, GoldenRoutes
  <2> HIDE DEF s
  <2>2. data_sent(words) = dataOut BY <2>1 DEF data_sent
  <2>3. pred_sent(words) = predOut BY <2>1 DEF pred_sent
  <2>4. /\ data_inputs' = route_outputs(data_sent(words))
        /\ pred_inputs' = route_outputs(pred_sent(words))
    BY DEF GoldenAdvance
  <2>5. u.data_in = Arrivals(dataOut) /\ u.pred_in = Arrivals(predOut) BY DEF ChkAfter
  <2>6. \A out : route_outputs(out) = Arrivals(out) BY DEF route_outputs, Arrivals
  <2> HIDE DEF u, dataOut, predOut
  <2> QED BY <2>2, <2>3, <2>4, <2>5, <2>6
<1>6. shared_scratchpad' = u.scratch
  <2> DEFINE stores(a) == {r \in ChkRequests(s, cycle, words) : r.is_store /\ r.address = a}
             new(a) == IF \E q \in Requests(words) : q.store /\ q.address = a
                       THEN (CHOOSE q \in Requests(words) : q.store /\ q.address = a).data
                       ELSE shared_scratchpad[a]
             chkNew(a) == IF stores(a) = {} THEN s.scratch[a]
                          ELSE (CHOOSE r \in stores(a) : TRUE).value
  <2>1. ASSUME NEW a \in Addrs PROVE new(a) = chkNew(a) BY GoldenStores
  <2>2. shared_scratchpad' = [a \in Addrs |-> new(a)] BY DEF GoldenAdvance, resolve_memory
  <2>3. u.scratch = [a \in Addrs |-> chkNew(a)] BY DEF ChkAfter
  <2> HIDE DEF u, new, chkNew
  <2> QED BY <2>1, <2>2, <2>3
<1>7. pending_loads' = u.pending
  <2> DEFINE old(t) == {p \in pending_loads[t] : p[1] # cycle}
             gold(t) == {<<cycle + LOAD_LATENCY, shared_scratchpad[q.address]>> :
                           q \in {r \in Request(t, words[t]) : ~r.store}}
             check(t) == {<<cycle + CHK_LOAD_LATENCY, s.scratch[r.address]>> :
                           r \in {x \in ChkRequests(s, cycle, words) : x.tile = t /\ ~x.is_store}}
  <2>1. pending_loads' = [t \in Tiles |-> old(t) \cup gold(t)]
    BY DEF GoldenAdvance, resolve_memory
  <2>2. s.pending = pending_loads /\ s.scratch = shared_scratchpad
        /\ CHK_LOAD_LATENCY = LOAD_LATENCY
    BY ProgramAssumption DEF AsCheck
  <2>3. u.pending = [t \in Tiles |-> old(t) \cup check(t)] BY <2>2 DEF ChkAfter
  <2>4. ASSUME NEW t \in Tiles PROVE gold(t) = check(t)
    <3> DEFINE x == Asked(s, cycle, t, words[t])
               y == GoldenAsked(t, words[t])
               e == <<cycle + LOAD_LATENCY, shared_scratchpad[y.address]>>
    <3>1. x.address = y.address /\ x.tile = t
          /\ (x.is_store <=> words[t].lsu = "STORE") /\ (y.store <=> words[t].lsu = "STORE")
      BY DEF Asked, GoldenAsked
    <3>2. \A q : q \in Request(t, words[t]) <=> Asks(s, t, words[t]) /\ q = y
      BY GoldenRequests
    <3>3. \A q : (q \in ChkRequests(s, cycle, words) /\ q.tile = t)
                   <=> Asks(s, t, words[t]) /\ q = x
      <4>1. \A q : q \in ChkRequests(s, cycle, words) <=>
                \E v \in Tiles : Asks(s, v, words[v]) /\ q = Asked(s, cycle, v, words[v])
        BY CleanRequests DEF Clean
      <4>2. \A v \in Tiles : Asked(s, cycle, v, words[v]).tile = v BY DEF Asked
      <4> HIDE DEF s
      <4> QED BY <4>1, <4>2
    <3> HIDE DEF s, x, y
    <3>4. gold(t) = IF Asks(s, t, words[t]) /\ words[t].lsu # "STORE" THEN {e} ELSE {}
      BY <3>1, <3>2
    <3>5. check(t) = IF Asks(s, t, words[t]) /\ words[t].lsu # "STORE" THEN {e} ELSE {}
      BY <2>2, <3>1, <3>3
    <3> QED BY <3>4, <3>5
  <2> HIDE DEF u, old, gold, check
  <2> QED BY <2>1, <2>3, <2>4
<1>8. u = [data_valid |-> u.data_valid, data_values |-> u.data_values,
           pred_valid |-> u.pred_valid, pred_values |-> u.pred_values,
           scratch |-> u.scratch, pending |-> u.pending,
           data_in |-> u.data_in, pred_in |-> u.pred_in]
  BY DEF ChkAfter
<1>9. AsCheck' = [data_valid |-> data_valid', data_values |-> data_rf',
                  pred_valid |-> pred_valid', pred_values |-> pred_rf',
                  scratch |-> shared_scratchpad', pending |-> pending_loads',
                  data_in |-> data_inputs', pred_in |-> pred_inputs']
  BY DEF AsCheck
<1> HIDE DEF u
<1>10. AsCheck' = u BY <1>2, <1>3, <1>4, <1>5, <1>6, <1>7, <1>8, <1>9
<1> QED BY <1>10 DEF u

-----------------------------------------------------------------------------
(* The window and the run                                                  *)

LEMMA Products ==
    ASSUME NEW n \in Nat, NEW x \in Int, NEW y \in Int
    PROVE  /\ x * n \in Int /\ (x + 1) * n = x * n + n /\ (x - 1) * n = x * n - n
           /\ (x + y) * n = x * n + y * n /\ (x - y) * n = x * n - y * n
           /\ x =< y => x * n =< y * n
           /\ x < y => x * n + n =< y * n
           /\ x \in Nat => x * n \in Nat
<1>1. x =< y => x * n =< y * n
  <2>1. SUFFICES ASSUME x =< y PROVE x * n =< y * n OBVIOUS
  <2>2. (y - x) * n >= 0 BY <2>1
  <2> QED BY <2>2
<1>2. x < y => x * n + n =< y * n
  <2>1. SUFFICES ASSUME x < y PROVE x * n + n =< y * n OBVIOUS
  <2>2. (y - x - 1) * n >= 0 BY <2>1
  <2> QED BY <2>2
<1> QED BY <1>1, <1>2

LEMMA WholePeriods ==
    ASSUME NEW n \in Nat \ {0}, NEW x \in Int, NEW q \in Int
    PROVE  (x + q * n) % n = x % n
<1> DEFINE a == x \div n
           r == x % n
           b == (x + q * n) \div n
           s == (x + q * n) % n
<1>1. x = n * a + r /\ a \in Int /\ r \in Int /\ 0 =< r /\ r < n BY DivMod
<1>2. x + q * n \in Int OBVIOUS
<1>3. x + q * n = n * b + s /\ b \in Int /\ s \in Int /\ 0 =< s /\ s < n BY <1>2, DivMod
<1> HIDE DEF a, r, b, s
<1>4. n * (a + q) + r = n * b + s BY <1>1, <1>3
<1>5. a + q \in Int BY <1>1
<1>6. r = s BY <1>1, <1>3, <1>4, <1>5, RemainderIsUnique
<1> QED BY <1>6 DEF r, s

LEMMA SmallRemainder ==
    ASSUME NEW n \in Nat \ {0}, NEW r \in Int, 0 =< r, r < n
    PROVE  r % n = r
<1> DEFINE a == r \div n
           s == r % n
<1>1. r = n * a + s /\ a \in Int /\ s \in Int /\ 0 =< s /\ s < n BY DivMod
<1> HIDE DEF a, s
<1>2. n * 0 + r = n * a + s BY <1>1
<1>3. r = s BY <1>1, <1>2, RemainderIsUnique
<1> QED BY <1>3 DEF s

\* A period ends when the number of cycles is a multiple of it.
LEMMA PeriodEnd ==
    ASSUME NEW n \in Nat \ {0}, NEW k \in Int, NEW x \in Int, k * n =< x, x < k * n + n
    PROVE  (x + 1) % n = 0 <=> x + 1 = k * n + n
<1> DEFINE r == x + 1 - k * n
<1>1. r \in Int /\ 0 < r /\ r =< n /\ x + 1 = r + k * n OBVIOUS
<1> HIDE DEF r
<1>2. (x + 1) % n = r % n BY <1>1, WholePeriods
<1>3. r < n => r % n = r BY <1>1, SmallRemainder
<1>4. r = n => r % n = 0
  <2>1. (0 + 1 * n) % n = 0 % n BY WholePeriods
  <2>2. 0 % n = 0 BY SmallRemainder
  <2> QED BY <2>1, <2>2
<1> QED BY <1>1, <1>2, <1>3, <1>4

LEMMA RemainderBounds ==
    ASSUME NEW n \in Nat \ {0}, NEW x \in Int
    PROVE  x % n \in Int /\ 0 =< x % n /\ x % n < n
BY DivMod

LEMMA LoopProgram ==
    ASSUME NEW p \in Programs, p.enabled
    PROVE  /\ p.prologue \in Nat /\ p.epilogue \in Nat
           /\ p.ii \in Nat \ {0} /\ p.trip \in Nat \ {0}
           /\ DOMAIN p.words = 0 .. p.prologue + p.ii + p.epilogue - 1
BY ProgramAssumption

\* The window holds enough periods for every load that a period starts to come
\* back before the last one.
LEMMA EnoughPeriods ==
    ASSUME NEW p \in Programs, p.enabled
    PROVE  LET K == proof_periods(p)
           IN  /\ K \in Nat \ {0} /\ K =< p.trip
               /\ K < p.trip => K >= 3 /\ CHK_LOAD_LATENCY =< (K - 2) * p.ii
<1> DEFINE n == p.ii
           latency == LatestOf(MESH_HOP_LATENCY, CHK_LOAD_LATENCY)
           ceil == (latency + n - 1) \div n
           m == LatestOf(3, 2 + ceil)
           K == proof_periods(p)
<1>1. n \in Nat \ {0} /\ p.trip \in Nat \ {0} BY LoopProgram
<1>2. latency \in Nat \ {0} /\ CHK_LOAD_LATENCY =< latency /\ CHK_LOAD_LATENCY \in Nat
  BY ProgramAssumption DEF LatestOf
<1> HIDE DEF latency
<1>3. latency + n - 1 \in Int BY <1>1, <1>2
<1>4. /\ latency + n - 1 = n * ceil + ((latency + n - 1) % n) /\ ceil \in Int
      /\ 0 =< (latency + n - 1) % n /\ (latency + n - 1) % n < n /\ (latency + n - 1) % n \in Int
  BY <1>1, <1>3, DivMod
<1>5. K = EarliestOf(p.trip, m) BY DEF proof_periods, latency
<1> HIDE DEF ceil, n
<1>6. latency =< ceil * n BY <1>1, <1>2, <1>4
<1>7. m \in Int /\ m >= 3 /\ m >= 2 + ceil BY <1>4 DEF LatestOf
<1> HIDE DEF m, K
<1>8. K \in Nat \ {0} /\ K =< p.trip /\ (K < p.trip => K = m) BY <1>1, <1>5, <1>7 DEF EarliestOf
<1>9. K < p.trip => K >= 3 /\ CHK_LOAD_LATENCY =< (K - 2) * n
  <2> SUFFICES ASSUME K < p.trip PROVE K >= 3 /\ CHK_LOAD_LATENCY =< (K - 2) * n OBVIOUS
  <2>1. K = m BY <1>8
  <2>2. ceil =< K - 2 /\ K - 2 \in Int BY <1>4, <1>7, <2>1
  <2>3. ceil * n =< (K - 2) * n BY <1>1, <1>4, <2>2, Products
  <2>4. (K - 2) * n \in Int BY <1>1, <2>2
  <2>5. ceil * n \in Int BY <1>1, <1>4
  <2> QED BY <1>2, <1>6, <1>7, <2>1, <2>3, <2>4, <2>5
<1> QED BY <1>8, <1>9 DEF K, n

\* The address of a step is one of the program.
LEMMA PhasePcInProgram ==
    ASSUME NEW p \in Programs, p.enabled, NEW m \in Nat \ {0}, NEW i \in Nat,
           i < p.prologue + m * p.ii + p.epilogue
    PROVE  PhasePc(p, m, i) \in DOMAIN p.words
<1> DEFINE n == p.ii
           r == (i - p.prologue) % n
<1>1. /\ p.prologue \in Nat /\ p.epilogue \in Nat /\ n \in Nat \ {0}
      /\ DOMAIN p.words = 0 .. p.prologue + n + p.epilogue - 1
  BY LoopProgram
<1>2. i - p.prologue \in Int BY <1>1
<1>3. r \in Int /\ 0 =< r /\ r < n BY <1>1, <1>2, RemainderBounds
<1>4. (m - 1) * n = m * n - n /\ m * n \in Int BY <1>1, Products
<1>5. PhasePc(p, m, i) = IF i < p.prologue THEN i
                         ELSE IF i < p.prologue + m * n THEN p.prologue + r
                              ELSE i - (m - 1) * n
  BY DEF PhasePc
<1>6. i < p.prologue + m * n + p.epilogue OBVIOUS
<1> HIDE DEF n, r
<1>7. CASE i < p.prologue BY <1>1, <1>5, <1>7
<1>8. CASE p.prologue =< i /\ i < p.prologue + m * n BY <1>1, <1>3, <1>5, <1>8
<1>9. CASE p.prologue =< i /\ p.prologue + m * n =< i
  <2>1. PhasePc(p, m, i) = i - (m * n - n) BY <1>1, <1>4, <1>5, <1>9
  <2> QED BY <1>1, <1>4, <1>6, <1>9, <2>1
<1> QED BY <1>1, <1>4, <1>7, <1>8, <1>9

\* The words and the lengths of the window and of the run of a program.
Window(p, i) == p.words[IF p.enabled THEN PhasePc(p, proof_periods(p), i) ELSE i]
WindowEnd(p) ==
    IF p.enabled THEN p.prologue + proof_periods(p) * p.ii + p.epilogue ELSE p.run_cycles
Run(p, i) == p.words[IF p.enabled THEN PhasePc(p, p.trip, i) ELSE i]
RunEnd(p) ==
    IF p.enabled THEN p.prologue + p.trip * p.ii + p.epilogue ELSE p.run_cycles

LEMMA WindowOfProgram ==
    /\ WindowLength = WindowEnd(program) /\ RunLength = RunEnd(program)
    /\ \A i : WindowWords(i) = Window(program, i) /\ RunWords(i) = Run(program, i)
BY DEF WindowLength, WindowEnd, RunLength, RunEnd, WindowWords, Window, RunWords, Run, IsLoop

LEMMA WindowLines ==
    ASSUME NEW p \in Programs, NEW i \in Nat, i < WindowEnd(p)
    PROVE  /\ ProgramLine(Window(p, i))
           /\ StaticProgram(p) => StaticLine(Window(p, i))
           /\ \E pc \in DOMAIN p.words : Window(p, i) = p.words[pc]
<1>1. PICK pc \in DOMAIN p.words : Window(p, i) = p.words[pc]
  <2>1. CASE p.enabled
    <3>1. proof_periods(p) \in Nat \ {0} BY <2>1, EnoughPeriods
    <3>2. i < p.prologue + proof_periods(p) * p.ii + p.epilogue BY <2>1 DEF WindowEnd
    <3>3. PhasePc(p, proof_periods(p), i) \in DOMAIN p.words
      BY <2>1, <3>1, <3>2, PhasePcInProgram
    <3> QED BY <2>1, <3>3 DEF Window
  <2>2. CASE ~p.enabled
    <3>1. DOMAIN p.words = 0 .. p.run_cycles - 1 /\ p.run_cycles \in Nat
      BY <2>2, ProgramAssumption
    <3>2. i \in DOMAIN p.words BY <2>2, <3>1 DEF WindowEnd
    <3> QED BY <2>2, <3>2 DEF Window
  <2> QED BY <2>1, <2>2
<1>2. ProgramLine(p.words[pc])
  <2>1. p.words[pc] \in UNION {{x.words[y] : y \in DOMAIN x.words} : x \in Programs} OBVIOUS
  <2> QED BY <2>1, ProgramAssumption DEF ProgramLine
<1> QED BY <1>1, <1>2 DEF StaticProgram, StaticLine

\* The numbers of a loop program: its prologue, its interval, the periods of the
\* window and the cycles they take.
LoopNumbers(p, P, n, K, m) ==
    /\ P = p.prologue /\ n = p.ii /\ K = proof_periods(p) /\ m = K * n
    /\ P \in Nat /\ n \in Nat \ {0} /\ K \in Nat \ {0} /\ m \in Nat /\ m >= n
    /\ K =< p.trip /\ p.trip \in Nat \ {0} /\ p.epilogue \in Nat
    /\ (K - 1) * n = m - n
    /\ K < p.trip => K >= 3 /\ 2 * n + CHK_LOAD_LATENCY =< m

LEMMA LoopHasNumbers ==
    ASSUME NEW p \in Programs, p.enabled
    PROVE  \E P, n, K, m : LoopNumbers(p, P, n, K, m)
<1> DEFINE P == p.prologue
           n == p.ii
           K == proof_periods(p)
           m == K * n
<1>1. P \in Nat /\ n \in Nat \ {0} /\ p.trip \in Nat \ {0} /\ p.epilogue \in Nat BY LoopProgram
<1>2. /\ K \in Nat \ {0} /\ K =< p.trip
      /\ K < p.trip => K >= 3 /\ CHK_LOAD_LATENCY =< (K - 2) * n
  BY EnoughPeriods
<1> HIDE DEF K, n, P
<1>3. m \in Nat /\ (K - 1) * n = m - n /\ (K - 2) * n = m - 2 * n BY <1>1, <1>2
<1>4. m >= n
  <2>1. 1 * n =< K * n BY <1>1, <1>2, Products
  <2> QED BY <1>1, <2>1
<1>5. CHK_LOAD_LATENCY \in Nat BY ProgramAssumption
<1>6. K < p.trip => K >= 3 /\ 2 * n + CHK_LOAD_LATENCY =< m
  <2> HIDE DEF m
  <2> QED BY <1>1, <1>2, <1>3, <1>5
<1> QED BY <1>1, <1>2, <1>3, <1>4, <1>6 DEF LoopNumbers, P, n, K

\* Inside the kernel the window repeats itself.
LEMMA WindowRepeats ==
    ASSUME NEW p \in Programs, p.enabled, NEW P, NEW n, NEW K, NEW m, LoopNumbers(p, P, n, K, m),
           NEW c \in Int, P =< c, c + n < P + m
    PROVE  Window(p, c + n) = Window(p, c)
<1>1. P \in Nat /\ n \in Nat \ {0} /\ m \in Nat BY DEF LoopNumbers
<1>2. PhasePc(p, K, c) = P + ((c - P) % n) BY <1>1 DEF PhasePc, LoopNumbers
<1>3. PhasePc(p, K, c + n) = P + ((c + n - P) % n) BY <1>1 DEF PhasePc, LoopNumbers
<1>4. c - P \in Int /\ c + n - P = (c - P) + 1 * n BY <1>1
<1>5. \A x \in Int : (x + 1 * n) % n = x % n
  <2> TAKE x \in Int
  <2>1. 1 \in Int OBVIOUS
  <2> QED BY <1>1, <2>1, WholePeriods
<1>6. PhasePc(p, K, c + n) = PhasePc(p, K, c) BY <1>2, <1>3, <1>4, <1>5
<1> QED BY <1>6 DEF Window, LoopNumbers

-----------------------------------------------------------------------------
(* The history of the checker                                              *)

Written(p, c, t, kind) ==
    LET w == Window(p, c)[t]
    IN  (IF kind = "data" THEN {w.data_w0, w.data_w1} ELSE {w.pred_w0, w.pred_w1}) \ {NoAddr}

\* The structure of the state before cycle i, told from the words alone.
Recorded(p, s, i) ==
    /\ s.data_valid = [t \in Tiles |-> UNION {Written(p, c, t, "data") : c \in 0 .. i - 1}]
    /\ s.pred_valid = [t \in Tiles |-> UNION {Written(p, c, t, "pred") : c \in 0 .. i - 1}]
    /\ \A t \in Tiles, x \in Int :
          (\E l \in s.pending[t] : l[1] = x) <=>
             \E c \in 0 .. i - 1 :
                Window(p, c)[t].lsu = "LOAD" /\ x = c + CHK_LOAD_LATENCY /\ x >= i
    /\ i > 0 => \A t \in Tiles, dir \in Dirs :
          /\ s.data_in[t][dir].valid <=>
               /\ Neighbour(t, dir) \in Tiles
               /\ Window(p, i - 1)[Neighbour(t, dir)].data_route[Opposite[dir]] # "OFF"
          /\ s.pred_in[t][dir].valid <=>
               /\ Neighbour(t, dir) \in Tiles
               /\ Window(p, i - 1)[Neighbour(t, dir)].pred_route[Opposite[dir]] # "OFF"

LEMMA RecordedStart ==
    ASSUME NEW p \in Programs
    PROVE  CheckTyped(ChkNew(p.image)) /\ Recorded(p, ChkNew(p.image), 0)
<1>1. p.image \in [Addrs -> Words] BY ProgramAssumption
<1>2. CheckTyped(ChkNew(p.image))
  BY <1>1, PlainValues, FabricAssumption DEF CheckTyped, ChkNew, NoArrival
<1>3. 0 .. 0 - 1 = {} OBVIOUS
<1>5. Recorded(p, ChkNew(p.image), 0) BY <1>3 DEF Recorded, ChkNew
<1> QED BY <1>2, <1>5

LEMMA OneMore ==
    ASSUME NEW A, NEW i, NEW B, B = A \cup {i}, NEW p, NEW t, NEW k
    PROVE  UNION {Written(p, c, t, k) : c \in B}
             = (UNION {Written(p, c, t, k) : c \in A}) \cup Written(p, i, t, k)
<1> DEFINE L == UNION {Written(p, c, t, k) : c \in B}
           M == UNION {Written(p, c, t, k) : c \in A}
<1>1. ASSUME NEW y \in L PROVE y \in M \cup Written(p, i, t, k)
  <2>1. PICK c \in B : y \in Written(p, c, t, k) OBVIOUS
  <2>2. CASE c = i BY <2>1, <2>2
  <2>3. CASE c \in A BY <2>1, <2>3
  <2> QED BY <2>1, <2>2, <2>3
<1>2. ASSUME NEW y \in M PROVE y \in L
  <2>1. PICK c \in A : y \in Written(p, c, t, k) OBVIOUS
  <2> QED BY <2>1
<1>3. ASSUME NEW y \in Written(p, i, t, k) PROVE y \in L
  OBVIOUS
<1>4. L = M \cup Written(p, i, t, k)
  <2> HIDE DEF L, M
  <2> QED BY <1>1, <1>2, <1>3
<1> QED BY <1>4

LEMMA RecordedStep ==
    ASSUME NEW p \in Programs, NEW i \in Nat, i < WindowEnd(p), NEW s, CheckTyped(s),
           Recorded(p, s, i), Clean(s, i, Window(p, i))
    PROVE  Recorded(p, ChkAfter(s, i, Window(p, i)), i + 1)
<1> DEFINE w == Window(p, i)
           u == ChkAfter(s, i, w)
<1>1. Structured(s, i, w, u) BY WindowLines, StructureAfter
<1>2. 0 .. (i + 1) - 1 = (0 .. i - 1) \cup {i} /\ (i + 1) - 1 = i /\ i + 1 > 0 OBVIOUS
<1>3. \A t \in Tiles : /\ {w[t].data_w0, w[t].data_w1} \ {NoAddr} = Written(p, i, t, "data")
                       /\ {w[t].pred_w0, w[t].pred_w1} \ {NoAddr} = Written(p, i, t, "pred")
  BY DEF Written
<1> HIDE DEF u
<1>4. u.data_valid = [t \in Tiles |-> UNION {Written(p, c, t, "data") : c \in 0 .. (i + 1) - 1}]
  <2>1. ASSUME NEW t \in Tiles
        PROVE  UNION {Written(p, c, t, "data") : c \in 0 .. (i + 1) - 1}
                 = (UNION {Written(p, c, t, "data") : c \in 0 .. i - 1}) \cup Written(p, i, t, "data")
    <3> DEFINE A == 0 .. i - 1
               B == 0 .. (i + 1) - 1
    <3>1. B = A \cup {i} BY <1>2
    <3> HIDE DEF A, B
    <3>2. UNION {Written(p, c, t, "data") : c \in B}
            = (UNION {Written(p, c, t, "data") : c \in A}) \cup Written(p, i, t, "data")
      BY <3>1, OneMore
    <3> QED BY <3>2 DEF A, B
  <2>2. \A t \in Tiles : s.data_valid[t] = UNION {Written(p, c, t, "data") : c \in 0 .. i - 1}
    BY DEF Recorded
  <2>3. u.data_valid = [t \in Tiles |-> s.data_valid[t] \cup
                          ({w[t].data_w0, w[t].data_w1} \ {NoAddr})]
    BY <1>1 DEF Structured
  <2> QED BY <1>3, <2>1, <2>2, <2>3
<1>5. u.pred_valid = [t \in Tiles |-> UNION {Written(p, c, t, "pred") : c \in 0 .. (i + 1) - 1}]
  <2>1. ASSUME NEW t \in Tiles
        PROVE  UNION {Written(p, c, t, "pred") : c \in 0 .. (i + 1) - 1}
                 = (UNION {Written(p, c, t, "pred") : c \in 0 .. i - 1}) \cup Written(p, i, t, "pred")
    <3> DEFINE A == 0 .. i - 1
               B == 0 .. (i + 1) - 1
    <3>1. B = A \cup {i} BY <1>2
    <3> HIDE DEF A, B
    <3>2. UNION {Written(p, c, t, "pred") : c \in B}
            = (UNION {Written(p, c, t, "pred") : c \in A}) \cup Written(p, i, t, "pred")
      BY <3>1, OneMore
    <3> QED BY <3>2 DEF A, B
  <2>2. \A t \in Tiles : s.pred_valid[t] = UNION {Written(p, c, t, "pred") : c \in 0 .. i - 1}
    BY DEF Recorded
  <2>3. u.pred_valid = [t \in Tiles |-> s.pred_valid[t] \cup
                          ({w[t].pred_w0, w[t].pred_w1} \ {NoAddr})]
    BY <1>1 DEF Structured
  <2> QED BY <1>3, <2>1, <2>2, <2>3
<1>6. ASSUME NEW t \in Tiles, NEW x \in Int
      PROVE  (\E l \in u.pending[t] : l[1] = x) <=>
               \E c \in 0 .. (i + 1) - 1 :
                  Window(p, c)[t].lsu = "LOAD" /\ x = c + CHK_LOAD_LATENCY /\ x >= i + 1
  <2>1. CHK_LOAD_LATENCY \in Nat \ {0} BY ProgramAssumption
  <2>2. (\E l \in u.pending[t] : l[1] = x) <=>
          \/ x # i /\ \E l \in s.pending[t] : l[1] = x
          \/ w[t].lsu = "LOAD" /\ x = i + CHK_LOAD_LATENCY
    BY <1>1 DEF Structured
  <2>3. (\E l \in s.pending[t] : l[1] = x) <=>
          \E c \in 0 .. i - 1 :
             Window(p, c)[t].lsu = "LOAD" /\ x = c + CHK_LOAD_LATENCY /\ x >= i
    BY DEF Recorded
  <2>4. (\E c \in 0 .. (i + 1) - 1 :
            Window(p, c)[t].lsu = "LOAD" /\ x = c + CHK_LOAD_LATENCY /\ x >= i + 1) <=>
          \/ \E c \in 0 .. i - 1 :
                Window(p, c)[t].lsu = "LOAD" /\ x = c + CHK_LOAD_LATENCY /\ x >= i + 1
          \/ w[t].lsu = "LOAD" /\ x = i + CHK_LOAD_LATENCY /\ x >= i + 1
    BY <1>2
  <2>5. (x # i /\ x >= i <=> x >= i + 1) /\ (x = i + CHK_LOAD_LATENCY => x >= i + 1) BY <2>1
  <2> QED BY <2>2, <2>3, <2>4, <2>5
<1>7. \A t \in Tiles, dir \in Dirs :
        /\ u.data_in[t][dir].valid <=>
             /\ Neighbour(t, dir) \in Tiles
             /\ Window(p, (i + 1) - 1)[Neighbour(t, dir)].data_route[Opposite[dir]] # "OFF"
        /\ u.pred_in[t][dir].valid <=>
             /\ Neighbour(t, dir) \in Tiles
             /\ Window(p, (i + 1) - 1)[Neighbour(t, dir)].pred_route[Opposite[dir]] # "OFF"
  BY <1>1, <1>2 DEF Structured
<1>8. Recorded(p, u, i + 1) BY <1>4, <1>5, <1>6, <1>7 DEF Recorded
<1> QED BY <1>8 DEF u

\* One period before the end of the last one everything the kernel does has
\* been done once, and what the prologue left under way has arrived: the last
\* period adds nothing.
LEMMA Settles ==
    ASSUME NEW p \in Programs, p.enabled, NEW P, NEW n, NEW K, NEW m, LoopNumbers(p, P, n, K, m),
           K < p.trip, NEW s, Recorded(p, s, P + m - n), NEW u, Recorded(p, u, P + m)
    PROVE  Like(s, P + m - n, u, P + m)
<1> DEFINE i == P + m - n
           j == P + m
<1>1. /\ P \in Nat /\ n \in Nat \ {0} /\ m \in Nat /\ K >= 3 /\ 2 * n + CHK_LOAD_LATENCY =< m
      /\ CHK_LOAD_LATENCY \in Nat \ {0}
  BY ProgramAssumption DEF LoopNumbers
<1>2. i \in Nat /\ j \in Nat /\ j = i + n /\ P + n =< i /\ P + CHK_LOAD_LATENCY + n =< i BY <1>1
<1>3. \A c \in Int : P =< c /\ c < i => Window(p, c + n) = Window(p, c)
  BY <1>1, WindowRepeats
<1>4. Recorded(p, s, i) /\ Recorded(p, u, j) OBVIOUS
<1> HIDE DEF i, j
<1>5. ASSUME NEW t, NEW k
      PROVE  UNION {Written(p, c, t, k) : c \in 0 .. i - 1}
               = UNION {Written(p, c, t, k) : c \in 0 .. j - 1}
  <2>1. ASSUME NEW c \in 0 .. j - 1
        PROVE  \E d \in 0 .. i - 1 : Written(p, c, t, k) = Written(p, d, t, k)
    <3>1. CASE c < i BY <1>2, <3>1
    <3>2. CASE i =< c
      <4>1. c - n \in 0 .. i - 1 /\ P =< c - n /\ (c - n) + n = c /\ c - n \in Int
        BY <1>1, <1>2, <3>2
      <4>2. Window(p, c) = Window(p, c - n) BY <1>2, <1>3, <4>1
      <4> QED BY <4>1, <4>2 DEF Written
    <3> QED BY <1>2, <3>1, <3>2
  <2>2. \A c \in 0 .. i - 1 : c \in 0 .. j - 1 BY <1>1, <1>2
  <2> QED BY <2>1, <2>2
<1>6. s.data_valid = u.data_valid /\ s.pred_valid = u.pred_valid
  <2> DEFINE A(t, k) == UNION {Written(p, c, t, k) : c \in 0 .. i - 1}
             B(t, k) == UNION {Written(p, c, t, k) : c \in 0 .. j - 1}
  <2>1. \A t, k : A(t, k) = B(t, k) BY <1>5
  <2>2. /\ s.data_valid = [t \in Tiles |-> A(t, "data")]
        /\ u.data_valid = [t \in Tiles |-> B(t, "data")]
        /\ s.pred_valid = [t \in Tiles |-> A(t, "pred")]
        /\ u.pred_valid = [t \in Tiles |-> B(t, "pred")]
    BY <1>4 DEF Recorded
  <2> HIDE DEF A, B
  <2> QED BY <2>1, <2>2
<1>7. ASSUME NEW t \in Tiles, NEW k \in Int
      PROVE  (\E l \in s.pending[t] : l[1] = i + k) <=> (\E l \in u.pending[t] : l[1] = j + k)
  <2>1. i + k \in Int /\ j + k \in Int BY <1>2
  <2>2. (\E l \in s.pending[t] : l[1] = i + k) <=>
          \E c \in 0 .. i - 1 :
             Window(p, c)[t].lsu = "LOAD" /\ i + k = c + CHK_LOAD_LATENCY /\ i + k >= i
    BY <1>4, <2>1 DEF Recorded
  <2>3. (\E l \in u.pending[t] : l[1] = j + k) <=>
          \E c \in 0 .. j - 1 :
             Window(p, c)[t].lsu = "LOAD" /\ j + k = c + CHK_LOAD_LATENCY /\ j + k >= j
    BY <1>4, <2>1 DEF Recorded
  <2>4. ASSUME NEW c \in 0 .. i - 1, Window(p, c)[t].lsu = "LOAD",
               i + k = c + CHK_LOAD_LATENCY, i + k >= i
        PROVE  \E d \in 0 .. j - 1 :
                  Window(p, d)[t].lsu = "LOAD" /\ j + k = d + CHK_LOAD_LATENCY /\ j + k >= j
    <3>1. /\ c + n \in 0 .. j - 1 /\ j + k = (c + n) + CHK_LOAD_LATENCY /\ j + k >= j
          /\ P =< c /\ c < i /\ c \in Int
      BY <1>1, <1>2, <2>4
    <3> QED BY <1>3, <2>4, <3>1
  <2>5. ASSUME NEW c \in 0 .. j - 1, Window(p, c)[t].lsu = "LOAD",
               j + k = c + CHK_LOAD_LATENCY, j + k >= j
        PROVE  \E d \in 0 .. i - 1 :
                  Window(p, d)[t].lsu = "LOAD" /\ i + k = d + CHK_LOAD_LATENCY /\ i + k >= i
    <3>1. /\ c - n \in 0 .. i - 1 /\ i + k = (c - n) + CHK_LOAD_LATENCY /\ i + k >= i
          /\ P =< c - n /\ c - n < i /\ c - n \in Int /\ (c - n) + n = c
      BY <1>1, <1>2, <2>5
    <3>2. Window(p, c) = Window(p, c - n) BY <1>3, <3>1
    <3> QED BY <2>5, <3>1, <3>2
  <2> QED BY <2>2, <2>3, <2>4, <2>5
<1>8. ASSUME NEW t \in Tiles, NEW dir \in Dirs
      PROVE  /\ s.data_in[t][dir].valid <=> u.data_in[t][dir].valid
             /\ s.pred_in[t][dir].valid <=> u.pred_in[t][dir].valid
  <2>1. /\ i > 0 /\ j > 0 /\ i - 1 \in Int /\ P =< i - 1 /\ i - 1 < i /\ (i - 1) + n = j - 1
    BY <1>1, <1>2
  <2>2. Window(p, j - 1) = Window(p, i - 1) BY <1>3, <2>1
  <2> QED BY <1>4, <2>1, <2>2 DEF Recorded
<1>9. Like(s, i, u, j) BY <1>6, <1>7, <1>8 DEF Like
<1> QED BY <1>9 DEF i, j

-----------------------------------------------------------------------------
(* The window the checker has executed                                     *)

\* h[i] is the checker's state before cycle i; the first n cycles were clean.
Path(p, h, n) ==
    /\ n \in Nat /\ n =< WindowEnd(p)
    /\ h[0] = ChkNew(p.image)
    /\ \A i \in 0 .. n : CheckTyped(h[i]) /\ Recorded(p, h[i], i)
    /\ \A i \in 0 .. n - 1 :
          Clean(h[i], i, Window(p, i)) /\ h[i + 1] = ChkAfter(h[i], i, Window(p, i))

\* The snapshots are those of the last two periods that are over.
Periods(p, h, n, sn) ==
    p.enabled =>
      /\ sn.taken \in 0 .. proof_periods(p)
      /\ sn.taken > 0 => p.prologue + sn.taken * p.ii =< n
      /\ sn.taken < proof_periods(p) => n < p.prologue + sn.taken * p.ii + p.ii
      /\ sn.taken >= 1 =>
           sn.last = StructuralSnapshot(h[p.prologue + sn.taken * p.ii],
                                        p.prologue + sn.taken * p.ii - 1)
      /\ sn.taken >= 2 =>
           sn.previous = StructuralSnapshot(h[p.prologue + (sn.taken - 1) * p.ii],
                                            p.prologue + (sn.taken - 1) * p.ii - 1)

Extended(h, n, u) == [i \in 0 .. n + 1 |-> IF i =< n THEN h[i] ELSE u]

LEMMA PathStart ==
    ASSUME NEW p \in Programs
    PROVE  /\ Path(p, [i \in {0} |-> ChkNew(p.image)], 0)
           /\ \A h : Periods(p, h, 0, [last |-> {}, previous |-> {}, taken |-> 0])
<1>1. WindowEnd(p) \in Nat
  <2>1. CASE p.enabled
    <3>1. PICK P, n, K, m : LoopNumbers(p, P, n, K, m) BY <2>1, LoopHasNumbers
    <3> QED BY <2>1, <3>1 DEF LoopNumbers, WindowEnd
  <2>2. CASE ~p.enabled BY <2>2, ProgramAssumption DEF WindowEnd
  <2> QED BY <2>1, <2>2
<1>2. Path(p, [i \in {0} |-> ChkNew(p.image)], 0)
  BY <1>1, RecordedStart DEF Path
<1>3. ASSUME NEW h, p.enabled
      PROVE  Periods(p, h, 0, [last |-> {}, previous |-> {}, taken |-> 0])
  <2>1. p.prologue \in Nat /\ p.ii \in Nat \ {0} BY <1>3, LoopProgram
  <2>2. proof_periods(p) \in Nat \ {0} BY <1>3, EnoughPeriods
  <2>3. 0 * p.ii = 0 BY <2>1
  <2> QED BY <2>1, <2>2, <2>3 DEF Periods
<1> QED BY <1>2, <1>3 DEF Periods

LEMMA PathStep ==
    ASSUME NEW p \in Programs, NEW h, NEW n, Path(p, h, n), n < WindowEnd(p),
           Clean(h[n], n, Window(p, n))
    PROVE  Path(p, Extended(h, n, ChkAfter(h[n], n, Window(p, n))), n + 1)
<1> DEFINE u == ChkAfter(h[n], n, Window(p, n))
           g == Extended(h, n, u)
<1>1. n \in Nat /\ CheckTyped(h[n]) /\ Recorded(p, h[n], n) BY DEF Path
<1>2. WindowEnd(p) \in Nat
  <2>1. CASE p.enabled
    <3>1. PICK P, k, K, m : LoopNumbers(p, P, k, K, m) BY <2>1, LoopHasNumbers
    <3> QED BY <2>1, <3>1 DEF LoopNumbers, WindowEnd
  <2>2. CASE ~p.enabled BY <2>2, ProgramAssumption DEF WindowEnd
  <2> QED BY <2>1, <2>2
<1>3. CheckTyped(u) BY <1>1, WindowLines, CheckStepTyped
<1>4. Recorded(p, u, n + 1) BY <1>1, RecordedStep
<1>5. (\A i \in 0 .. n : g[i] = h[i]) /\ g[n + 1] = u BY <1>1 DEF Extended
<1> HIDE DEF g
<1>6. n + 1 \in Nat /\ n + 1 =< WindowEnd(p) BY <1>1, <1>2
<1>7. g[0] = ChkNew(p.image) BY <1>1, <1>5 DEF Path
<1>8. ASSUME NEW i \in 0 .. n + 1 PROVE CheckTyped(g[i]) /\ Recorded(p, g[i], i)
  <2>1. CASE i = n + 1 BY <1>3, <1>4, <1>5, <2>1
  <2>2. CASE i # n + 1
    <3>1. i \in 0 .. n BY <1>1, <2>2
    <3> QED BY <1>5, <3>1 DEF Path
  <2> QED BY <2>1, <2>2
<1>9. ASSUME NEW i \in 0 .. (n + 1) - 1
      PROVE  Clean(g[i], i, Window(p, i)) /\ g[i + 1] = ChkAfter(g[i], i, Window(p, i))
  <2>1. i \in 0 .. n BY <1>1
  <2>2. CASE i = n BY <1>5, <2>1, <2>2 DEF u
  <2>3. CASE i # n
    <3>1. i \in 0 .. n - 1 /\ i + 1 \in 0 .. n BY <1>1, <2>1, <2>3
    <3> QED BY <1>5, <2>1, <3>1 DEF Path
  <2> QED BY <2>2, <2>3
<1> HIDE DEF u
<1>10. Path(p, g, n + 1) BY <1>6, <1>7, <1>8, <1>9 DEF Path
<1> QED BY <1>10 DEF g, u

\* A period is over exactly when the next snapshot is due.
LEMMA PeriodsStep ==
    ASSUME NEW h, Path(program, h, pos), program \in Programs, pos < WindowEnd(program),
           Periods(program, h, pos, snapshots), NEW u
    PROVE  Periods(program, Extended(h, pos, u), pos + 1, Snapshots(u))
<1> SUFFICES ASSUME program.enabled
             PROVE  Periods(program, Extended(h, pos, u), pos + 1, Snapshots(u))
  BY DEF Periods
<1> DEFINE g == Extended(h, pos, u)
           P == program.prologue
           n == program.ii
           K == proof_periods(program)
           k == snapshots.taken
<1>1. pos \in Nat BY DEF Path
<1>2. (\A i \in 0 .. pos : g[i] = h[i]) /\ g[pos + 1] = u BY <1>1 DEF Extended
<1>3. P \in Nat /\ n \in Nat \ {0} BY LoopProgram
<1>4. K \in Nat \ {0} BY EnoughPeriods
<1> DEFINE a == k * n
           m == K * n
<1>5. /\ k \in 0 .. K
      /\ k > 0 => P + a =< pos
      /\ k < K => pos < P + a + n
      /\ k >= 1 => snapshots.last = StructuralSnapshot(h[P + a], P + a - 1)
      /\ k >= 2 => snapshots.previous
                     = StructuralSnapshot(h[P + (k - 1) * n], P + (k - 1) * n - 1)
  BY DEF Periods
<1>6. k \in Nat /\ k =< K BY <1>4, <1>5
<1>7. a \in Nat /\ m \in Nat /\ (k < K => a + n =< m) /\ (k = 0 => a = 0)
  <2>1. n \in Nat /\ k \in Int /\ K \in Int BY <1>3, <1>4, <1>6
  <2>2. k * n \in Nat /\ K * n \in Nat /\ (k < K => k * n + n =< K * n)
    BY <1>4, <1>6, <2>1, Products
  <2>3. k = 0 => k * n = 0 BY <1>3
  <2> QED BY <2>2, <2>3
<1>8. EndsKernelPeriod <=> P =< pos /\ pos < P + m /\ (pos - P + 1) % n = 0
  BY DEF EndsKernelPeriod, IsLoop
<1>9. k >= 1 => (k - 1) * n = a - n
  <2>1. n \in Nat /\ k \in Int BY <1>3, <1>6
  <2> QED BY <2>1, Products
<1>10. EndsKernelPeriod <=> k < K /\ pos + 1 = P + a + n
  <2>1. CASE k = K
    <3>1. a = m BY <2>1
    <3>2. P + m =< pos BY <1>4, <1>5, <2>1, <3>1
    <3>3. ~(pos < P + m) /\ ~(k < K) BY <1>1, <1>3, <1>4, <1>7, <2>1, <3>2
    <3> QED BY <1>8, <3>3
  <2>2. CASE k < K /\ pos < P
    <3>1. ~(P =< pos) /\ pos + 1 # P + a + n BY <1>1, <1>3, <1>7, <2>2
    <3> QED BY <1>8, <3>1
  <2>3. CASE k < K /\ P =< pos
    <3> DEFINE x == pos - P
    <3>1. x \in Int /\ a =< x /\ x < a + n BY <1>1, <1>3, <1>5, <1>6, <1>7, <2>3
    <3>2. pos < P + m
      <4> HIDE DEF P, n, K, k, a, m
      <4> QED BY <1>1, <1>3, <1>5, <1>7, <2>3
    <3>3. (x + 1) % n = 0 <=> x + 1 = a + n
      <4>1. k \in Int BY <1>6
      <4> HIDE DEF x, n, k
      <4> QED BY <1>3, <3>1, <4>1, PeriodEnd
    <3>4. x + 1 = a + n <=> pos + 1 = P + a + n BY <1>1, <1>3, <1>7
    <3> QED BY <1>8, <2>3, <3>2, <3>3, <3>4
  <2> QED BY <1>1, <1>3, <1>4, <1>6, <2>1, <2>2, <2>3
<1>11. (k >= 1 => g[P + a] = h[P + a]) /\ (k >= 2 => g[P + (k - 1) * n] = h[P + (k - 1) * n])
  <2>1. k >= 1 => P + a \in 0 .. pos BY <1>1, <1>3, <1>5, <1>6, <1>7
  <2>2. k >= 2 => P + (k - 1) * n \in 0 .. pos
    <3>1. k >= 2 => k - 1 \in Nat /\ n \in Nat BY <1>3, <1>6
    <3>2. k >= 2 => (k - 1) * n \in Nat BY <3>1, Products
    <3> QED BY <1>1, <1>3, <1>5, <1>6, <1>7, <1>9, <3>2
  <2> QED BY <1>2, <2>1, <2>2
<1> HIDE DEF g
<1>12. CASE ~EndsKernelPeriod
  <2>1. Snapshots(u) = snapshots BY <1>12 DEF Snapshots
  <2>2. k < K => pos + 1 < P + a + n
    <3> HIDE DEF P, n, K, k, a, m
    <3> QED BY <1>1, <1>3, <1>5, <1>7, <1>10, <1>12
  <2>3. k > 0 => P + a =< pos + 1 BY <1>1, <1>3, <1>5, <1>7
  <2>4. Periods(program, g, pos + 1, snapshots)
    BY <1>5, <1>11, <2>2, <2>3 DEF Periods
  <2> QED BY <2>1, <2>4 DEF g
<1>13. CASE EndsKernelPeriod
  <2> DEFINE sn == [last |-> StructuralSnapshot(u, pos), previous |-> snapshots.last,
                    taken |-> k + 1]
  <2>1. Snapshots(u) = sn BY <1>13 DEF Snapshots
  <2>2. k < K /\ pos + 1 = P + a + n BY <1>10, <1>13
  <2>3. (k + 1) * n = a + n /\ ((k + 1) - 1) * n = a
    <3>1. n \in Nat /\ k \in Int /\ (k + 1) - 1 = k BY <1>3, <1>6
    <3>2. (k + 1) * n = k * n + n BY <3>1, Products
    <3> QED BY <3>1, <3>2
  <2>4. sn.taken = k + 1 /\ sn.last = StructuralSnapshot(u, pos) /\ sn.previous = snapshots.last
    OBVIOUS
  <2> HIDE DEF sn
  <2>5. sn.taken \in 0 .. K BY <1>4, <1>6, <2>2, <2>4
  <2>6. P + sn.taken * n = pos + 1 BY <1>1, <1>3, <1>7, <2>2, <2>3, <2>4
  <2>7. sn.taken > 0 => P + sn.taken * n =< pos + 1 BY <1>1, <2>6
  <2>8. sn.taken < K => pos + 1 < P + sn.taken * n + n BY <1>1, <1>3, <2>6
  <2>9. sn.last = StructuralSnapshot(g[P + sn.taken * n], P + sn.taken * n - 1)
    <3>1. (pos + 1) - 1 = pos BY <1>1
    <3>2. sn.last = StructuralSnapshot(g[pos + 1], (pos + 1) - 1) BY <1>2, <2>4, <3>1
    <3>3. ASSUME NEW y, y = pos + 1
          PROVE  StructuralSnapshot(g[pos + 1], (pos + 1) - 1) = StructuralSnapshot(g[y], y - 1)
      BY <3>3
    <3> DEFINE y == P + sn.taken * n
    <3>4. y = pos + 1 BY <2>6
    <3> HIDE DEF y
    <3>5. sn.last = StructuralSnapshot(g[y], y - 1) BY <3>2, <3>3, <3>4
    <3>6. sn.taken \in Nat BY <1>6, <2>4
    <3> QED BY <1>3, <3>5, <3>6 DEF y
  <2>10. sn.taken >= 2 =>
           sn.previous = StructuralSnapshot(g[P + (sn.taken - 1) * n], P + (sn.taken - 1) * n - 1)
    <3>1. sn.taken >= 2 => k >= 1 BY <1>6, <2>4
    <3>2. (sn.taken - 1) * n = a BY <2>3, <2>4
    <3> QED BY <1>5, <1>11, <2>4, <3>1, <3>2
  <2>11. Periods(program, g, pos + 1, sn) BY <2>5, <2>7, <2>8, <2>9, <2>10 DEF Periods
  <2> QED BY <2>1, <2>11 DEF g
<1> QED BY <1>12, <1>13

\* The window of a long loop ends with two equal snapshots.
LEMMA SnapshotsSettle ==
    ASSUME NEW p \in Programs, p.enabled, NEW h, NEW sn, Path(p, h, WindowEnd(p)),
           Periods(p, h, WindowEnd(p), sn), p.trip > sn.taken
    PROVE  sn.taken >= 2 /\ sn.last = sn.previous
<1>1. PICK P, n, K, m : LoopNumbers(p, P, n, K, m) BY LoopHasNumbers
<1>2. /\ P = p.prologue /\ n = p.ii /\ K = proof_periods(p) /\ m = K * n
      /\ P \in Nat /\ n \in Nat \ {0} /\ K \in Nat \ {0} /\ m \in Nat /\ m >= n
      /\ p.trip \in Nat \ {0} /\ p.epilogue \in Nat /\ (K - 1) * n = m - n
      /\ K < p.trip => K >= 3
  BY <1>1 DEF LoopNumbers
<1>3. WindowEnd(p) = P + m + p.epilogue BY <1>2 DEF WindowEnd
<1>4. sn.taken \in 0 .. K /\ (sn.taken < K => WindowEnd(p) < P + sn.taken * n + n)
  BY <1>2 DEF Periods
<1>5. sn.taken = K
  <2> SUFFICES ASSUME sn.taken < K PROVE FALSE BY <1>2, <1>4
  <2>1. sn.taken \in Int /\ K \in Int /\ n \in Nat BY <1>2, <1>4
  <2>2. sn.taken * n \in Int /\ sn.taken * n + n =< K * n BY <2>1, Products
  <2> QED BY <1>2, <1>3, <1>4, <2>2
<1>6. K < p.trip /\ K >= 3 BY <1>2, <1>5
<1>7. /\ sn.last = StructuralSnapshot(h[P + m], P + m - 1)
      /\ sn.previous = StructuralSnapshot(h[P + m - n], P + m - n - 1)
  <2>1. P + (K - 1) * n = P + m - n BY <1>2
  <2>2. K >= 1 /\ K >= 2 BY <1>2, <1>6
  <2>3. /\ sn.last = StructuralSnapshot(h[P + K * n], P + K * n - 1)
        /\ sn.previous = StructuralSnapshot(h[P + (K - 1) * n], P + (K - 1) * n - 1)
    BY <1>2, <1>5, <2>2 DEF Periods
  <2> QED BY <1>2, <2>1, <2>3
<1>8. P + m \in 0 .. WindowEnd(p) /\ P + m - n \in 0 .. WindowEnd(p) BY <1>2, <1>3
<1>9. /\ CheckTyped(h[P + m]) /\ Recorded(p, h[P + m], P + m)
      /\ CheckTyped(h[P + m - n]) /\ Recorded(p, h[P + m - n], P + m - n)
  BY <1>8 DEF Path
<1>10. Like(h[P + m - n], P + m - n, h[P + m], P + m) BY <1>1, <1>6, <1>9, Settles
<1>11. P + m \in Int /\ P + m - n \in Int BY <1>2
<1>12. StructuralSnapshot(h[P + m - n], P + m - n - 1) = StructuralSnapshot(h[P + m], P + m - 1)
  <2> DEFINE c == P + m - n
             d == P + m
  <2>1. c \in Int /\ d \in Int /\ CheckTyped(h[c]) /\ CheckTyped(h[d]) /\ Like(h[c], c, h[d], d)
    BY <1>9, <1>10, <1>11
  <2> HIDE DEF c, d
  <2>2. StructuralSnapshot(h[c], c - 1) = StructuralSnapshot(h[d], d - 1)
    BY <2>1, SnapshotsAreLike
  <2> QED BY <1>2, <1>11, <2>2 DEF c, d
<1>13. sn.last = sn.previous BY <1>7, <1>12, Zenon
<1>14. sn.taken >= 2 BY <1>5, <1>6, <1>2
<1> QED BY <1>13, <1>14

-----------------------------------------------------------------------------
(* The replay follows the window                                           *)

\* The golden model is at position j of the window, q periods later than the
\* checker was: in the checker's state, or in one that is like it.
Matched(p, h, n, q, j) ==
    /\ q \in Nat /\ j \in 0 .. n
    /\ CheckTyped(AsCheck)
    /\ IF p.enabled
       THEN /\ cycle = j + q * p.ii
            /\ q =< p.trip - proof_periods(p)
            /\ q > 0 => p.prologue + (proof_periods(p) - 1) * p.ii =< j
            /\ q < p.trip - proof_periods(p) => j < p.prologue + proof_periods(p) * p.ii
       ELSE q = 0 /\ cycle = j
    /\ \/ q = 0 /\ AsCheck = h[j]
       \/ StaticProgram(p) /\ Like(h[j], j, AsCheck, cycle)

LEMMA LikeItself == ASSUME NEW s, NEW c PROVE Like(s, c, s, c)
BY DEF Like

LEMMA LikeBoth ==
    ASSUME NEW s, NEW c, NEW u, NEW d, NEW v, NEW e, Like(s, c, u, d), Like(u, d, v, e)
    PROVE  Like(s, c, v, e)
BY DEF Like

LEMMA LikeBack == ASSUME NEW s, NEW c, NEW u, NEW d, Like(s, c, u, d) PROVE Like(u, d, s, c)
BY DEF Like

\* The two walk the same words, and end together.
LEMMA MatchedWords ==
    ASSUME NEW p \in Programs, NEW h, NEW n, Path(p, h, n), NEW q, NEW j, Matched(p, h, n, q, j)
    PROVE  /\ j \in Nat /\ cycle \in Nat
           /\ j < WindowEnd(p) => Run(p, cycle) = Window(p, j)
           /\ j < WindowEnd(p) <=> cycle < RunEnd(p)
<1>1. q \in Nat /\ j \in Nat BY DEF Matched, Path
<1>2. CASE ~p.enabled
  <2>1. cycle = j BY <1>2 DEF Matched
  <2> QED BY <1>1, <1>2, <2>1 DEF Run, Window, RunEnd, WindowEnd
<1>3. CASE p.enabled
  <2>1. PICK P, i, K, m : LoopNumbers(p, P, i, K, m) BY <1>3, LoopHasNumbers
  <2>2. /\ P = p.prologue /\ i = p.ii /\ K = proof_periods(p) /\ m = K * i
        /\ P \in Nat /\ i \in Nat \ {0} /\ K \in Nat \ {0} /\ m \in Nat /\ m >= i
        /\ K =< p.trip /\ p.trip \in Nat \ {0} /\ p.epilogue \in Nat
        /\ (K - 1) * i = m - i
    BY <2>1 DEF LoopNumbers
  <2>3. PICK T : T = p.trip BY Zenon
  <2>4. PICK a : a = q * i BY Zenon
  <2>5. PICK b : b = T * i BY Zenon
  <2>6. /\ cycle = j + a
        /\ q =< T - K
        /\ q > 0 => P + m - i =< j
        /\ q < T - K => j < P + m
    <3>1. P + (K - 1) * i = P + m - i BY <2>2
    <3>2. /\ cycle = j + q * i
          /\ q =< T - K
          /\ q > 0 => P + (K - 1) * i =< j
          /\ q < T - K => j < P + K * i
      BY <1>3, <2>2, <2>3 DEF Matched
    <3> QED BY <2>2, <2>4, <3>1, <3>2
  <2>7. /\ a \in Nat /\ b \in Nat
        /\ q = 0 => a = 0
        /\ q < T - K => a + i =< b - m
        /\ q = T - K => a = b - m
        /\ (T - 1) * i = b - i
    <3>1. i \in Nat /\ T \in Nat /\ K \in Nat /\ T \in Int /\ K \in Int /\ T - K \in Int
      BY <2>2, <2>3
    <3>2. (T - K) * i = b - m BY <2>2, <2>5, <3>1, Products
    <3>3. a \in Nat /\ b \in Nat BY <1>1, <2>4, <2>5, <3>1, Products
    <3>4. q < T - K => q * i + i =< (T - K) * i BY <1>1, <3>1, Products
    <3>5. (T - 1) * i = T * i - i BY <3>1, Products
    <3>6. q = 0 => q * i = 0 BY <2>2
    <3>7. q = T - K => q * i = (T - K) * i OBVIOUS
    <3> QED BY <2>4, <2>5, <3>2, <3>3, <3>4, <3>5, <3>6, <3>7
  <2>8. cycle \in Nat BY <1>1, <2>6, <2>7
  <2>9. q = T - K \/ q < T - K
    <3>1. K \in Nat /\ T \in Nat BY <2>2, <2>3
    <3>2. q =< T - K BY <2>6
    <3> QED BY <1>1, <3>1, <3>2
  <2>10. /\ j < P => cycle = j
         /\ P =< j => P =< cycle
         /\ P =< j => (j < P + m <=> cycle < P + b)
         /\ cycle - (b - i) = j - (m - i) \/ j < P + m
    <3>1. j < P => q = 0 BY <1>1, <2>2, <2>6
    <3>2. j < P => cycle = j BY <1>1, <2>6, <2>7, <3>1
    <3>3. P =< j => P =< cycle BY <1>1, <2>2, <2>6, <2>7
    <3>4. CASE q < T - K BY <1>1, <2>2, <2>6, <2>7, <3>2, <3>3, <3>4
    <3>5. CASE q = T - K BY <1>1, <2>2, <2>6, <2>7, <3>2, <3>3, <3>5
    <3> QED BY <2>9, <3>4, <3>5
  <2>11. PhasePc(p, K, j) = PhasePc(p, T, cycle)
    <3>1. PhasePc(p, K, j) = IF j < P THEN j ELSE IF j < P + m THEN P + ((j - P) % i)
                                          ELSE j - (m - i)
      BY <2>2 DEF PhasePc
    <3>2. PhasePc(p, T, cycle) = IF cycle < P THEN cycle
                                 ELSE IF cycle < P + b THEN P + ((cycle - P) % i)
                                 ELSE cycle - (b - i)
      BY <2>2, <2>5, <2>7 DEF PhasePc
    <3>3. (cycle - P) % i = (j - P) % i
      <4>1. j - P \in Int /\ q \in Int /\ cycle - P = (j - P) + q * i
        BY <1>1, <2>2, <2>4, <2>6, <2>7
      <4>2. ((j - P) + q * i) % i = (j - P) % i BY <2>2, <4>1, WholePeriods
      <4> QED BY <4>1, <4>2, Zenon
    <3>4. CASE j < P BY <2>10, <3>1, <3>2, <3>4
    <3>5. CASE P =< j /\ j < P + m
      <4>1. ~(j < P) /\ ~(cycle < P) /\ cycle < P + b BY <1>1, <2>2, <2>8, <2>10, <3>5
      <4> QED BY <3>1, <3>2, <3>3, <3>5, <4>1
    <3>6. CASE P + m =< j
      <4>1. /\ ~(j < P) /\ ~(j < P + m) /\ ~(cycle < P) /\ ~(cycle < P + b)
            /\ cycle - (b - i) = j - (m - i)
        BY <1>1, <2>2, <2>7, <2>8, <2>10, <3>6
      <4> QED BY <3>1, <3>2, <4>1
    <3> QED BY <1>1, <2>2, <3>4, <3>5, <3>6
  <2>12. Run(p, cycle) = Window(p, j) BY <1>3, <2>2, <2>3, <2>11 DEF Run, Window
  <2>13. j < P + m + p.epilogue <=> cycle < P + b + p.epilogue
    <3>1. CASE q < T - K BY <1>1, <2>2, <2>6, <2>7, <3>1
    <3>2. CASE q = T - K BY <1>1, <2>2, <2>6, <2>7, <3>2
    <3> QED BY <2>9, <3>1, <3>2
  <2>14. WindowEnd(p) = P + m + p.epilogue /\ RunEnd(p) = P + b + p.epilogue
    BY <1>3, <2>2, <2>3, <2>5 DEF WindowEnd, RunEnd
  <2> QED BY <1>1, <2>8, <2>12, <2>13, <2>14
<1> QED BY <1>2, <1>3

\* What is clean for the checker is clean for the replay, and the other way.
LEMMA MatchedClean ==
    ASSUME NEW p \in Programs, NEW h, NEW n, Path(p, h, n), NEW q, NEW j, Matched(p, h, n, q, j),
           j < WindowEnd(p)
    PROVE  Clean(h[j], j, Window(p, j)) <=> Clean(AsCheck, cycle, Window(p, j))
<1>1. j \in Nat /\ cycle \in Nat /\ j \in Int /\ cycle \in Int BY MatchedWords
<1>2. CheckTyped(AsCheck) /\ CheckTyped(h[j]) BY DEF Matched, Path
<1>3. ProgramLine(Window(p, j)) /\ (StaticProgram(p) => StaticLine(Window(p, j)))
  BY <1>1, WindowLines
<1>4. CASE q = 0 /\ AsCheck = h[j]
  <2>1. cycle = j
    <3>1. CASE p.enabled
      <4>1. p.ii \in Nat \ {0} BY <3>1, LoopProgram
      <4>2. 0 * p.ii = 0 BY <4>1
      <4> QED BY <1>1, <1>4, <3>1, <4>2 DEF Matched
    <3>2. CASE ~p.enabled BY <3>2 DEF Matched
    <3> QED BY <3>1, <3>2
  <2> QED BY <1>4, <2>1
<1>5. CASE StaticProgram(p) /\ Like(h[j], j, AsCheck, cycle)
  <2>1. Clean(h[j], j, Window(p, j)) => Clean(AsCheck, cycle, Window(p, j))
    BY <1>1, <1>2, <1>3, <1>5, LikeClean
  <2>2. Like(AsCheck, cycle, h[j], j) BY <1>5, LikeBack
  <2>3. Clean(AsCheck, cycle, Window(p, j)) => Clean(h[j], j, Window(p, j))
    BY <1>1, <1>2, <1>3, <1>5, <2>2, LikeClean
  <2> QED BY <2>1, <2>3
<1> QED BY <1>4, <1>5 DEF Matched

\* At the end of the window's last period a long loop goes back by one.
LEMMA MatchedStep ==
    ASSUME LongLoopsAreStatic,
           NEW p \in Programs, NEW h, NEW n, Path(p, h, n), NEW q, NEW j, Matched(p, h, n, q, j),
           j < n, GoldenAdvance(Window(p, j))
    PROVE  \E q2, j2 : Matched(p, h, n, q2, j2)'
<1> DEFINE w == Window(p, j)
<1>1. /\ j \in Nat /\ cycle \in Nat /\ j \in Int /\ cycle \in Int
      /\ n \in Nat /\ j \in 0 .. n - 1 /\ j + 1 \in 0 .. n /\ q \in Nat
  <2>1. j \in Nat /\ cycle \in Nat BY MatchedWords
  <2>2. n \in Nat BY DEF Path
  <2>3. q \in Nat BY DEF Matched
  <2> QED BY <2>1, <2>2, <2>3
<1>2. j < WindowEnd(p)
  <2>1. CASE p.enabled
    <3>1. PICK P, i, K, m : LoopNumbers(p, P, i, K, m) BY <2>1, LoopHasNumbers
    <3>2. WindowEnd(p) \in Nat BY <2>1, <3>1 DEF LoopNumbers, WindowEnd
    <3> QED BY <1>1, <3>2 DEF Path
  <2>2. CASE ~p.enabled
    <3>1. WindowEnd(p) \in Nat BY <2>2, ProgramAssumption DEF WindowEnd
    <3> QED BY <1>1, <3>1 DEF Path
  <2> QED BY <2>1, <2>2
<1>3. /\ CheckTyped(AsCheck) /\ CheckTyped(h[j]) /\ CheckTyped(h[j + 1])
      /\ Clean(h[j], j, w) /\ h[j + 1] = ChkAfter(h[j], j, w)
  BY <1>1 DEF Matched, Path
<1>4. Clean(AsCheck, cycle, w) BY <1>2, <1>3, MatchedClean
<1>5. ProgramLine(w) BY <1>1, <1>2, WindowLines
<1>6. AsCheck' = ChkAfter(AsCheck, cycle, w) BY <1>3, <1>4, <1>5, GoldenFollows
<1>7. cycle' = cycle + 1 BY DEF GoldenAdvance
<1>8. CheckTyped(AsCheck') BY <1>1, <1>3, <1>4, <1>5, <1>6, CheckStepTyped
<1>9. \/ q = 0 /\ AsCheck' = h[j + 1] /\ cycle' = j + 1
      \/ StaticProgram(p) /\ Like(h[j + 1], j + 1, AsCheck', cycle')
  <2>1. CASE q = 0 /\ AsCheck = h[j]
    <3>1. cycle = j
      <4>1. CASE p.enabled
        <5>1. p.ii \in Nat \ {0} BY <4>1, LoopProgram
        <5>2. 0 * p.ii = 0 BY <5>1
        <5> QED BY <1>1, <2>1, <4>1, <5>2 DEF Matched
      <4>2. CASE ~p.enabled BY <4>2 DEF Matched
      <4> QED BY <4>1, <4>2
    <3> QED BY <1>3, <1>6, <1>7, <2>1, <3>1
  <2>2. CASE StaticProgram(p) /\ Like(h[j], j, AsCheck, cycle)
    <3>1. Like(ChkAfter(h[j], j, w), j + 1, ChkAfter(AsCheck, cycle, w), cycle + 1)
      BY <1>1, <1>3, <1>4, <1>5, <2>2, LikeAfter
    <3> QED BY <1>3, <1>6, <1>7, <2>2, <3>1
  <2> QED BY <2>1, <2>2 DEF Matched
<1> HIDE DEF w
<1>10. CASE ~p.enabled
  <2>1. q = 0 /\ cycle = j BY <1>10 DEF Matched
  <2>2. Matched(p, h, n, 0, j + 1)' BY <1>1, <1>7, <1>8, <1>9, <1>10, <2>1 DEF Matched
  <2> QED BY <2>2
<1>11. CASE p.enabled
  <2>1. PICK P, i, K, m : LoopNumbers(p, P, i, K, m) BY <1>11, LoopHasNumbers
  <2>2. /\ P = p.prologue /\ i = p.ii /\ K = proof_periods(p) /\ m = K * i
        /\ P \in Nat /\ i \in Nat \ {0} /\ K \in Nat \ {0} /\ m \in Nat /\ m >= i
        /\ K =< p.trip /\ p.trip \in Nat \ {0} /\ p.epilogue \in Nat
        /\ (K - 1) * i = m - i
    BY <2>1 DEF LoopNumbers
  <2>3. /\ cycle = j + q * i /\ q =< p.trip - K
        /\ q > 0 => P + (K - 1) * i =< j
        /\ q < p.trip - K => j < P + m
    BY <1>11, <2>2 DEF Matched
  <2>4. q * i \in Nat /\ (q + 1) * i = q * i + i
    <3>1. q \in Int /\ i \in Nat BY <1>1, <2>2
    <3> QED BY <1>1, <3>1, Products
  <2>5. CASE q < p.trip - K /\ j + 1 = P + m
    <3> DEFINE c == P + m - i
               d == P + m
    <3>1. c \in 0 .. n /\ d \in 0 .. n /\ c < d /\ c =< j BY <1>1, <2>2, <2>5
    <3>2. K < p.trip BY <1>1, <2>2, <2>5
    <3>3. StaticProgram(p) BY <1>11, <2>2, <3>2 DEF LongLoopsAreStatic
    <3>4. Recorded(p, h[c], c) /\ Recorded(p, h[d], d) BY <3>1 DEF Path
    <3>5. Like(h[c], c, h[d], d) BY <1>11, <2>1, <3>2, <3>4, Settles
    <3>6. Like(h[d], d, AsCheck', cycle')
      <4>1. d = j + 1 BY <2>5
      <4> HIDE DEF d
      <4> QED BY <1>9, <4>1, LikeItself
    <3>7. cycle' = c + (q + 1) * i
      <4>1. P \in Nat /\ m \in Nat /\ i \in Nat BY <2>2
      <4>2. cycle = j + q * i BY <2>3
      <4>3. cycle' = (j + q * i) + 1 BY <1>7, <4>2
      <4>4. (j + q * i) + 1 = (P + m - i) + (q * i + i) BY <1>1, <2>4, <2>5, <4>1
      <4> QED BY <2>4, <4>3, <4>4
    <3>8. q + 1 \in Nat /\ q + 1 =< p.trip - K /\ q + 1 > 0 BY <1>1, <2>2, <2>5
    <3>9. P + (K - 1) * i =< c BY <2>2
    <3>10. c < P + K * i BY <2>2
    <3> HIDE DEF c, d
    <3>11. Like(h[c], c, AsCheck', cycle') BY <3>5, <3>6, LikeBoth
    <3>12. Matched(p, h, n, q + 1, c)'
      BY <1>8, <1>11, <2>2, <3>1, <3>3, <3>7, <3>8, <3>9, <3>10, <3>11 DEF Matched
    <3> QED BY <3>12
  <2>6. CASE ~(q < p.trip - K /\ j + 1 = P + m)
    <3>1. cycle' = (j + 1) + q * i BY <1>1, <1>7, <2>3, <2>4
    <3>2. q > 0 => P + (K - 1) * i =< j + 1 BY <1>1, <2>2, <2>3
    <3>3. q < p.trip - K => j + 1 < P + K * i
      <4>1. P \in Nat /\ m \in Nat /\ m = K * i BY <2>2
      <4>2. q < p.trip - K => j < P + m /\ j + 1 # P + m BY <2>3, <2>6
      <4>3. q < p.trip - K => j + 1 < P + m BY <1>1, <4>1, <4>2
      <4> QED BY <4>1, <4>3
    <3>4. Matched(p, h, n, q, j + 1)'
      BY <1>1, <1>8, <1>9, <1>11, <2>2, <2>3, <3>1, <3>2, <3>3 DEF Matched
    <3> QED BY <3>4
  <2> QED BY <2>5, <2>6
<1> QED BY <1>10, <1>11

-----------------------------------------------------------------------------
(* The verdict and the replay                                              *)

\* What the checker and the replay have established along the history h.
Established(h) ==
    /\ Path(program, h, pos) /\ Periods(program, h, pos, snapshots) /\ chk = h[pos]
    /\ stage = "check" => diagnostics = {} /\ GoldenInit(program.image)
    /\ stage # "check" =>
         /\ diagnostics = {} => pos = WindowEnd(program)
         /\ diagnostics # {} =>
              pos < WindowEnd(program) /\ ~Clean(h[pos], pos, Window(program, pos))
         /\ \/ diagnostics # {} /\ (error \/ RoutesMissingResult)
            \/ ~error /\ \E q, j : Matched(program, h, pos, q, j)
    /\ stage = "done" => error \/ cycle = RunEnd(program)

ReplayInvariant == program \in Programs /\ \E h : Established(h)

LEMMA MatchedKept ==
    ASSUME NEW p, NEW h, NEW n, NEW q, NEW j, Matched(p, h, n, q, j), UNCHANGED goldVars
    PROVE  Matched(p, h, n, q, j)'
<1>1. AsCheck' = AsCheck /\ cycle' = cycle BY DEF AsCheck, goldVars
<1> QED BY <1>1 DEF Matched

LEMMA MatchedStart ==
    ASSUME NEW p \in Programs, NEW h, NEW n, Path(p, h, n), GoldenInit(p.image)
    PROVE  Matched(p, h, n, 0, 0)
<1>1. AsCheck = h[0] BY DEF AsCheck, GoldenInit, Path, ChkNew, NoArrival, NoInput
<1>2. n \in Nat /\ 0 \in 0 .. n /\ CheckTyped(h[0]) BY DEF Path
<1>3. cycle = 0 BY DEF GoldenInit
<1>4. CASE p.enabled
  <2>1. PICK P, i, K, m : LoopNumbers(p, P, i, K, m) BY <1>4, LoopHasNumbers
  <2>2. /\ p.prologue \in Nat /\ p.ii \in Nat \ {0} /\ proof_periods(p) \in Nat
        /\ p.trip \in Nat /\ proof_periods(p) =< p.trip /\ m = proof_periods(p) * p.ii
        /\ m >= p.ii /\ m \in Nat
    BY <2>1 DEF LoopNumbers
  <2>3. 0 * p.ii = 0 /\ 0 < p.prologue + m /\ 0 =< p.trip - proof_periods(p) BY <2>2
  <2> QED BY <1>1, <1>2, <1>3, <1>4, <2>2, <2>3 DEF Matched
<1>5. CASE ~p.enabled BY <1>1, <1>2, <1>3, <1>5 DEF Matched
<1> QED BY <1>4, <1>5

\* One cycle of the replay: it goes on, or the rejection is justified.
LEMMA ReplayOnce ==
    ASSUME LongLoopsAreStatic, NEW p, p \in Programs, p = program, NEW h, NEW n, Path(p, h, n),
           NEW q, NEW j, Matched(p, h, n, q, j), cycle < RunEnd(p), ~error,
           n = WindowEnd(p) \/ (n < WindowEnd(p) /\ ~Clean(h[n], n, Window(p, n))),
           GoldenStep(Run(p, cycle))
    PROVE  \/ n < WindowEnd(p) /\ (error' \/ RoutesMissingResult)
           \/ ~error' /\ \E q2, j2 : Matched(p, h, n, q2, j2)'
<1>1. /\ j \in Nat /\ cycle \in Nat /\ j < WindowEnd(p) /\ Run(p, cycle) = Window(p, j)
  BY MatchedWords
<1>2. n \in Nat /\ j \in 0 .. n BY DEF Path, Matched
<1>3. CheckTyped(AsCheck) BY DEF Matched
<1>4. ProgramLine(Window(p, j)) BY <1>1, WindowLines
<1>5. CASE j < n
  <2>1. j \in 0 .. n - 1 BY <1>1, <1>2, <1>5
  <2>2. Clean(h[j], j, Window(p, j)) BY <2>1 DEF Path
  <2>3. Clean(AsCheck, cycle, Window(p, j)) BY <1>1, <2>2, MatchedClean
  <2>4. ~GoldenRaises(Window(p, j)) BY <1>3, <1>4, <2>3, GoldenCycle
  <2>5. GoldenAdvance(Window(p, j)) BY <1>1, <2>4 DEF GoldenStep
  <2>6. ~error' BY <2>5 DEF GoldenAdvance
  <2>7. \E q2, j2 : Matched(p, h, n, q2, j2)' BY <1>5, <2>5, MatchedStep
  <2> QED BY <2>6, <2>7
<1>6. CASE j = n
  <2>1. n < WindowEnd(p) /\ ~Clean(h[j], j, Window(p, j)) BY <1>1, <1>2, <1>6
  <2>2. ~Clean(AsCheck, cycle, Window(p, j)) BY <1>1, <2>1, MatchedClean
  <2>3. CASE GoldenRaises(Window(p, j)) BY <1>1, <2>1, <2>3 DEF GoldenStep
  <2>4. CASE ~GoldenRaises(Window(p, j))
    <3>1. PICK t \in Tiles : ~ResultsRouted(Window(p, j)[t])
      BY <1>3, <1>4, <2>2, <2>4, GoldenCycle
    <3>2. PICK pc \in DOMAIN p.words : Window(p, j) = p.words[pc] BY <1>1, WindowLines
    <3> DEFINE w == p.words[pc][t]
    <3>3. ReplayableWord(t, w) /\ ~ResultsRouted(w) BY <1>4, <3>1, <3>2 DEF ProgramLine
    <3>4. ChkFu(w.op, 0, 0, 0, 0) = GoldFu(w.op, 0, 0, 0, 0)
      BY <3>3, FabricAssumption DEF ReplayableWord, ImportedResults
    <3>5. \/ "FU" \in Routed(w.data_route) /\ ~ChkFu(w.op, 0, 0, 0, 0).data.valid
          \/ "FU" \in Routed(w.pred_route) /\ ~ChkFu(w.op, 0, 0, 0, 0).pred.valid
      BY <3>3, <3>4 DEF ResultsRouted, HasResult
    <3>6. RoutesMissingResult BY <3>5 DEF RoutesMissingResult
    <3> QED BY <2>1, <3>6
  <2> QED BY <2>3, <2>4
<1> QED BY <1>1, <1>2, <1>5, <1>6

LEMMA ReplayInvariantStart == ASSUME ReplayInit PROVE ReplayInvariant
<1> DEFINE h == [i \in {0} |-> ChkNew(program.image)]
<1>1. program \in Programs BY DEF ReplayInit
<1>2. Path(program, h, 0) /\ h[0] = ChkNew(program.image) BY <1>1, PathStart
<1>3. Periods(program, h, 0, [last |-> {}, previous |-> {}, taken |-> 0]) BY <1>1, PathStart
<1> HIDE DEF h
<1>4. Established(h) BY <1>2, <1>3 DEF Established, ReplayInit
<1> QED BY <1>1, <1>4 DEF ReplayInvariant

LEMMA ReplayInvariantStep ==
    ASSUME LongLoopsAreStatic, ReplayInvariant, [ReplayNext]_replayVars
    PROVE  ReplayInvariant'
<1>1. program \in Programs BY DEF ReplayInvariant
<1>2. PICK h : Established(h) BY DEF ReplayInvariant
<1>3. program' = program
  BY DEF ReplayNext, CheckCycle, CheckRejects, CheckEnds, ReplayCycle, ReplayEnds, Finished,
         replayVars, schedVars
<1>4. pos \in Nat /\ CheckTyped(chk)
  BY <1>2 DEF Established, Path
<1>5. CASE CheckCycle
  <2> DEFINE u == ChkAfter(h[pos], pos, Window(program, pos))
  <2>0. PICK g : g = Extended(h, pos, u) BY Zenon
  <2>1. /\ stage = "check" /\ pos < WindowEnd(program) /\ chk = h[pos]
        /\ Diagnostics(chk, pos, Window(program, pos)) = {}
        /\ chk' = u /\ snapshots' = Snapshots(u) /\ pos' = pos + 1
        /\ stage' = stage /\ diagnostics' = diagnostics /\ UNCHANGED goldVars
    BY <1>2, <1>5, WindowOfProgram DEF CheckCycle, Established
  <2>2. Clean(h[pos], pos, Window(program, pos))
    BY <1>1, <1>4, <2>1, WindowLines, ClearCycle DEF Clean
  <2>3. Path(program, g, pos + 1) BY <1>1, <1>2, <2>1, <2>2, <2>0, PathStep DEF Established
  <2>4. Periods(program, g, pos + 1, Snapshots(u))
    BY <1>1, <1>2, <2>0, <2>1, PeriodsStep DEF Established
  <2>5. g[pos + 1] = u BY <1>4, <2>0 DEF Extended
  <2>6. GoldenInit(program.image)'
    BY <1>2, <1>3, <2>1 DEF Established, GoldenInit, goldVars
  <2> HIDE DEF u
  <2>7. Established(g)'
    <3>1. stage' = "check" /\ diagnostics' = {} BY <1>2, <2>1 DEF Established
    <3> QED BY <1>3, <2>1, <2>3, <2>4, <2>5, <2>6, <3>1 DEF Established
  <2> QED BY <1>1, <1>3, <2>7 DEF ReplayInvariant
<1>6. CASE CheckRejects
  <2>1. /\ stage = "check" /\ pos < WindowEnd(program) /\ chk = h[pos]
        /\ Diagnostics(chk, pos, Window(program, pos)) # {} /\ diagnostics' # {}
        /\ stage' = "replay" /\ UNCHANGED <<pos, chk, snapshots>> /\ UNCHANGED goldVars
    BY <1>2, <1>6, WindowOfProgram DEF CheckRejects, Established
  <2>2. ~Clean(h[pos], pos, Window(program, pos))
    BY <1>1, <1>4, <2>1, WindowLines, ClearCycle DEF Clean
  <2>3. Path(program, h, pos) /\ GoldenInit(program.image) BY <1>2, <2>1 DEF Established
  <2>4. PICK p, n : p = program /\ n = pos BY Zenon
  <2>5. Matched(p, h, n, 0, 0) BY <1>1, <2>3, <2>4, MatchedStart
  <2>6. Matched(p, h, n, 0, 0)' BY <2>1, <2>5, MatchedKept
  <2>7. (~error)' BY <2>1, <2>3 DEF GoldenInit, goldVars
  <2>8. Matched(program, h, pos, 0, 0)' BY <1>3, <2>1, <2>4, <2>6 DEF Matched
  <2>9. Established(h)'
    BY <1>2, <1>3, <2>1, <2>2, <2>7, <2>8 DEF Established
  <2> QED BY <1>1, <1>3, <2>9 DEF ReplayInvariant
<1>7. CASE CheckEnds
  <2>1. /\ stage = "check" /\ pos = WindowEnd(program) /\ chk = h[pos]
        /\ stage' = "replay" /\ UNCHANGED <<pos, chk, snapshots>> /\ UNCHANGED goldVars
    BY <1>2, <1>7, WindowOfProgram DEF CheckEnds, Established
  <2>2. diagnostics' = {}
    <3>1. diagnostics' = OnlyIf(/\ program.enabled /\ program.trip > snapshots.taken
                                /\ \/ snapshots.taken < 2
                                   \/ snapshots.last # snapshots.previous,
                                {"LOOP_PERIODIC_UNPROVEN"})
      BY <1>7 DEF CheckEnds, IsLoop
    <3>2. CASE program.enabled /\ program.trip > snapshots.taken
      <4>1. snapshots.taken >= 2 /\ snapshots.last = snapshots.previous
        BY <1>1, <1>2, <2>1, <3>2, SnapshotsSettle DEF Established
      <4>2. ~(snapshots.taken < 2)
        <5>1. snapshots.taken \in Int
          <6>1. snapshots.taken \in 0 .. proof_periods(program)
            BY <1>2, <3>2 DEF Established, Periods
          <6>2. proof_periods(program) \in Nat BY <1>1, <3>2, EnoughPeriods
          <6> QED BY <6>1, <6>2
        <5> QED BY <4>1, <5>1
      <4> QED BY <3>1, <4>1, <4>2, ClearCodes
    <3>3. CASE ~(program.enabled /\ program.trip > snapshots.taken) BY <3>1, <3>3, ClearCodes
    <3> QED BY <3>2, <3>3
  <2>3. Path(program, h, pos) /\ GoldenInit(program.image) BY <1>2, <2>1 DEF Established
  <2>4. PICK p, n : p = program /\ n = pos BY Zenon
  <2>5. Matched(p, h, n, 0, 0) BY <1>1, <2>3, <2>4, MatchedStart
  <2>6. Matched(p, h, n, 0, 0)' BY <2>1, <2>5, MatchedKept
  <2>7. (~error)' BY <2>1, <2>3 DEF GoldenInit, goldVars
  <2>8. Matched(program, h, pos, 0, 0)' BY <1>3, <2>1, <2>4, <2>6 DEF Matched
  <2>9. Established(h)'
    BY <1>2, <1>3, <2>1, <2>2, <2>7, <2>8 DEF Established
  <2> QED BY <1>1, <1>3, <2>9 DEF ReplayInvariant
<1>8. CASE ReplayCycle
  <2>1. /\ stage = "replay" /\ cycle < RunEnd(program) /\ ~error
        /\ GoldenStep(Run(program, cycle))
        /\ UNCHANGED <<stage, pos, chk, snapshots, diagnostics>>
    BY <1>8, WindowOfProgram DEF ReplayCycle, schedVars, GoldenStep
  <2>2. PICK p, n : p = program /\ n = pos BY Zenon
  <2>3. p' = p /\ n' = n OBVIOUS
  <2>4. RoutesMissingResult => RoutesMissingResult' BY <1>3 DEF RoutesMissingResult
  <2>5. \/ (diagnostics # {} /\ (error \/ RoutesMissingResult))'
        \/ (~error)' /\ \E q, j : Matched(program, h, pos, q, j)'
    <3>1. CASE diagnostics # {} /\ RoutesMissingResult BY <2>1, <2>4, <3>1
    <3>2. CASE ~(diagnostics # {} /\ RoutesMissingResult)
      <4>1. PICK q, j : Matched(p, h, n, q, j) BY <1>2, <2>1, <2>2, <3>2 DEF Established
      <4>2. /\ diagnostics = {} => n = WindowEnd(p)
            /\ diagnostics # {} => n < WindowEnd(p) /\ ~Clean(h[n], n, Window(p, n))
            /\ Path(p, h, n)
        BY <1>2, <2>1, <2>2 DEF Established
      <4>3. \/ n < WindowEnd(p) /\ (error' \/ RoutesMissingResult)
            \/ ~error' /\ \E q2, j2 : Matched(p, h, n, q2, j2)'
        BY <1>1, <2>1, <2>2, <4>1, <4>2, ReplayOnce
      <4>4. n < WindowEnd(p) => diagnostics # {}
        <5>1. ~(WindowEnd(p) < WindowEnd(p))
          <6>1. CASE p.enabled
            <7>1. PICK P, i, K, m : LoopNumbers(p, P, i, K, m) BY <1>1, <2>2, <6>1, LoopHasNumbers
            <7> QED BY <6>1, <7>1 DEF LoopNumbers, WindowEnd
          <6>2. CASE ~p.enabled BY <1>1, <2>2, <6>2, ProgramAssumption DEF WindowEnd
          <6> QED BY <6>1, <6>2
        <5> QED BY <4>2, <5>1
      <4>5. CASE n < WindowEnd(p) /\ (error' \/ RoutesMissingResult)
        BY <2>1, <2>4, <4>4, <4>5
      <4>6. CASE ~error' /\ \E q2, j2 : Matched(p, h, n, q2, j2)'
        <5>1. PICK q2, j2 : Matched(p, h, n, q2, j2)' BY <4>6
        <5>2. Matched(program, h, pos, q2, j2)' BY <1>3, <2>1, <2>2, <5>1 DEF Matched
        <5> QED BY <4>6, <5>2
      <4> QED BY <4>3, <4>5, <4>6
    <3> QED BY <3>1, <3>2
  <2>6. Established(h)'
    BY <1>2, <1>3, <2>1, <2>5 DEF Established
  <2> QED BY <1>1, <1>3, <2>6 DEF ReplayInvariant
<1>9. CASE ReplayEnds
  <2>1. /\ stage = "replay" /\ stage' = "done" /\ (error \/ cycle = RunEnd(program))
        /\ UNCHANGED <<pos, chk, snapshots, diagnostics>> /\ UNCHANGED goldVars
    BY <1>9, WindowOfProgram DEF ReplayEnds
  <2>2. error' = error /\ cycle' = cycle BY <2>1 DEF goldVars
  <2>3. RoutesMissingResult => RoutesMissingResult' BY <1>3 DEF RoutesMissingResult
  <2>4. PICK p, n : p = program /\ n = pos BY Zenon
  <2>5. ASSUME NEW q, NEW j, Matched(program, h, pos, q, j)
        PROVE  Matched(program, h, pos, q, j)'
    <3>1. Matched(p, h, n, q, j) BY <2>4, <2>5
    <3>2. Matched(p, h, n, q, j)' BY <2>1, <3>1, MatchedKept
    <3> QED BY <1>3, <2>1, <2>4, <3>2 DEF Matched
  <2>6. \/ (diagnostics # {} /\ (error \/ RoutesMissingResult))'
        \/ (~error)' /\ \E q, j : Matched(program, h, pos, q, j)'
    BY <1>2, <2>1, <2>2, <2>3, <2>5 DEF Established
  <2>7. Established(h)' BY <1>2, <1>3, <2>1, <2>2, <2>6 DEF Established
  <2> QED BY <1>1, <1>3, <2>7 DEF ReplayInvariant
<1>10. CASE Finished \/ UNCHANGED replayVars
  <2>1. UNCHANGED <<stage, pos, chk, snapshots, diagnostics>> /\ UNCHANGED goldVars
    BY <1>10 DEF Finished, replayVars, schedVars
  <2>2. error' = error /\ cycle' = cycle BY <2>1 DEF goldVars
  <2>3. RoutesMissingResult => RoutesMissingResult' BY <1>3 DEF RoutesMissingResult
  <2>4. PICK p, n : p = program /\ n = pos BY Zenon
  <2>5. ASSUME NEW q, NEW j, Matched(program, h, pos, q, j)
        PROVE  Matched(program, h, pos, q, j)'
    <3>1. Matched(p, h, n, q, j) BY <2>4, <2>5
    <3>2. Matched(p, h, n, q, j)' BY <2>1, <3>1, MatchedKept
    <3> QED BY <1>3, <2>1, <2>4, <3>2 DEF Matched
  <2>6. GoldenInit(program.image) => GoldenInit(program.image)'
    BY <1>3, <2>1 DEF GoldenInit, goldVars
  <2>7. stage # "check" =>
          \/ (diagnostics # {} /\ (error \/ RoutesMissingResult))'
          \/ (~error)' /\ \E q, j : Matched(program, h, pos, q, j)'
    BY <1>2, <2>1, <2>2, <2>3, <2>5 DEF Established
  <2>8. Established(h)' BY <1>2, <1>3, <2>1, <2>2, <2>6, <2>7 DEF Established
  <2> QED BY <1>1, <1>3, <2>8 DEF ReplayInvariant
<1> QED BY <1>5, <1>6, <1>7, <1>8, <1>9, <1>10 DEF ReplayNext

LEMMA ReplayIsEstablished == ASSUME LongLoopsAreStatic PROVE ReplaySpec => []ReplayInvariant
<1>1. ReplayInit => ReplayInvariant BY ReplayInvariantStart
<1>2. ReplayInvariant /\ [ReplayNext]_replayVars => ReplayInvariant' BY ReplayInvariantStep
<1> QED BY <1>1, <1>2, PTL DEF ReplaySpec

\* When every long loop of the programs has addresses and stores that depend
\* on no computed value, a program that check_schedule passes is replayed by
\* the golden model without GoldenModelError, however many iterations the
\* loop has beyond the checker's bounded window.
THEOREM TheWindowIsEnough ==
    ASSUME LongLoopsAreStatic PROVE ReplaySpec => []AcceptedReplays
<1>1. ReplayInvariant => AcceptedReplays
  <2> SUFFICES ASSUME ReplayInvariant, stage # "check", diagnostics = {} PROVE ~error
    BY DEF AcceptedReplays
  <2>1. PICK h : Established(h) BY DEF ReplayInvariant
  <2> QED BY <2>1 DEF Established
<1> QED BY <1>1, ReplayIsEstablished, PTL

\* Under the same condition check_schedule rejects only programs that the
\* golden model rejects as well, or that route a result their operation does
\* not have; in particular a legal loop always reaches its structural fixed
\* point inside the window and LOOP_PERIODIC_UNPROVEN is never reported.
THEOREM RejectionsAreJustified ==
    ASSUME LongLoopsAreStatic PROVE ReplaySpec => []RejectionIsJustified
<1>1. ReplayInvariant => RejectionIsJustified
  <2> SUFFICES ASSUME ReplayInvariant, stage = "done", diagnostics # {},
                      ~(error \/ RoutesMissingResult)
               PROVE  FALSE
    BY DEF RejectionIsJustified
  <2>1. PICK h : Established(h) BY DEF ReplayInvariant
  <2>2. /\ Path(program, h, pos) /\ pos < WindowEnd(program) /\ cycle = RunEnd(program)
        /\ \E q, j : Matched(program, h, pos, q, j)
    BY <2>1 DEF Established
  <2>3. PICK q, j : Matched(program, h, pos, q, j) BY <2>2
  <2>4. program \in Programs BY DEF ReplayInvariant
  <2>5. j \in Nat /\ cycle \in Nat /\ (j < WindowEnd(program) <=> cycle < RunEnd(program))
    BY <2>2, <2>3, <2>4, MatchedWords
  <2>6. ~(j < WindowEnd(program)) BY <2>2, <2>5
  <2>7. j =< pos /\ pos \in Nat BY <2>2, <2>3 DEF Matched, Path
  <2>8. WindowEnd(program) \in Nat
    <3>1. CASE program.enabled
      <4>1. PICK P, i, K, m : LoopNumbers(program, P, i, K, m) BY <2>4, <3>1, LoopHasNumbers
      <4> QED BY <3>1, <4>1 DEF LoopNumbers, WindowEnd
    <3>2. CASE ~program.enabled BY <2>4, <3>2, ProgramAssumption DEF WindowEnd
    <3> QED BY <3>1, <3>2
  <2> QED BY <2>2, <2>5, <2>6, <2>7, <2>8
<1> QED BY <1>1, ReplayIsEstablished, PTL
=============================================================================
