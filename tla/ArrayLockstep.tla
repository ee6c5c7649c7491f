--------------------------- MODULE ArrayLockstep ----------------------------
(***************************************************************************)
(* The RTL array and the golden model driven by the same control words,    *)
(* run after run, the way tools/program_runner.py compares them: the       *)
(* golden model is new for every run, the hardware is not.                 *)
(*                                                                         *)
(* Between two runs the sequencer spends one DONE cycle and at least one   *)
(* CONFIG cycle, in which the RUN gate presents the zero control word to   *)
(* every tile and the host may write the scratchpad.                       *)
(***************************************************************************)
EXTENDS RtlArray, GoldenArray

CONSTANTS
    Menus,          \* name -> lines: what a program may hold at an address,
                    \* a control word for every tile; cycles: bound on a run;
                    \* runs: bound on the runs after reset
    Images          \* the scratchpad images a program may preload

VARIABLES
    menu,           \* the menu the programs are made of
    phase,          \* "CONFIG", "RUN" or "DONE"
    runs            \* runs started since reset

vars == <<rtlVars, goldVars, menu, phase, runs>>

MaxCycles == Menus[menu].cycles
MaxRuns == Menus[menu].runs

\* The two functional units compute the same words, and whether an operation
\* has a result does not depend on its operands.
SameResults(op) ==
    \A a, b \in Words, p, q \in {0, 1} :
        LET r == GoldFu(op, a, b, p, q)
        IN  /\ RtlFu(op, a, b, p, q) = r
            /\ r.data \in LinkValue /\ r.pred \in PredValue
            /\ r.data.valid = GoldFu(op, 0, 0, 0, 0).data.valid
            /\ r.pred.valid = GoldFu(op, 0, 0, 0, 0).pred.valid

\* A word of a validated program: its fields have their widths and it selects
\* a constant that the host configured.
WordOK(t, w) ==
    /\ w \in ControlWord
    /\ w.const \in DOMAIN ConstMem[t]
    /\ SameResults(w.op)

ASSUME LockstepAssumption ==
    /\ \A m \in DOMAIN Menus :
          /\ Menus[m].cycles \in Nat /\ Menus[m].runs \in Nat
          /\ \A l \in Menus[m].lines : \A t \in Tiles : WordOK(t, l[t])
    /\ Images \subseteq [Addrs -> Words]
    /\ LOAD_LATENCY = 2

\* tools/check_schedule.py lets a route select the functional unit only when
\* the operation has a result of that kind.
RoutesHaveResults(w) ==
    LET result == GoldFu(w.op, 0, 0, 0, 0)
    IN  /\ (\E d \in Dirs : w.data_route[d] = "FU") => result.data.valid
        /\ (\E d \in Dirs : w.pred_route[d] = "FU") => result.pred.valid

\* tools/check_schedule.py rejects a program that holds any other word.
CheckedLines ==
    [m \in DOMAIN Menus |->
        {l \in Menus[m].lines : \A t \in Tiles : RoutesHaveResults(l[t])}]

Gated == [t \in Tiles |-> ZeroWord]

Init ==
    \E memory \in Images :
        /\ RtlInit(memory)
        /\ GoldenInit(memory)
        /\ menu \in DOMAIN Menus
        /\ phase = "RUN"
        /\ runs = 1

\* The run goes on after this cycle, or this was its last cycle.
RunCycle(lines) ==
    /\ phase = "RUN"
    /\ cycle < MaxCycles
    /\ \E words \in lines :
           /\ RtlCycle(words, {})
           /\ GoldenStep(words)
    /\ phase' \in {"RUN", "DONE"}
    /\ UNCHANGED <<menu, runs>>

DoneCycle ==
    /\ phase = "DONE"
    /\ ~error
    /\ RtlCycle(Gated, {})
    /\ phase' = "CONFIG"
    /\ UNCHANGED <<goldVars, menu, runs>>

\* The host writes one word of the next image.
ConfigCycle ==
    /\ phase = "CONFIG"
    /\ runs < MaxRuns
    /\ \E a \in Addrs, v \in Words : RtlCycle(Gated, {<<a, v>>})
    /\ UNCHANGED <<goldVars, menu, phase, runs>>

\* start: the next program runs on an image that the host has preloaded.
StartCycle ==
    /\ phase = "CONFIG"
    /\ runs < MaxRuns
    /\ RtlCycle(Gated, {})
    /\ GoldenNew(scratchpad_mem)
    /\ phase' = "RUN"
    /\ runs' = runs + 1
    /\ UNCHANGED menu

\* rst_n falls; in a run the next words of the program are still presented.
Reset(lines) ==
    /\ runs < MaxRuns
    /\ ~fatal /\ ~error
    /\ \E words \in IF phase = "RUN" THEN lines ELSE {Gated} :
          ~reset_fatal(words) /\ RtlReset(words)
    /\ phase' = "CONFIG"
    /\ UNCHANGED <<goldVars, menu, runs>>

BetweenRuns == DoneCycle \/ ConfigCycle \/ StartCycle

\* Programs that tools/check_schedule.py would let through, and any program.
CheckedNext == RunCycle(CheckedLines[menu]) \/ Reset(CheckedLines[menu]) \/ BetweenRuns
AnyNext == RunCycle(Menus[menu].lines) \/ Reset(Menus[menu].lines) \/ BetweenRuns

CheckedSpec == Init /\ [][CheckedNext]_vars
AnySpec == Init /\ [][AnyNext]_vars

-----------------------------------------------------------------------------
(* Properties                                                              *)

\* Type invariant: every register, link, pipe stage and memory word of both
\* machines holds a value of its width.
TypeOK ==
    /\ data_mem \in [Tiles -> [DataRegs -> Words]]
    /\ pred_mem \in [Tiles -> [PredRegs -> {0, 1}]]
    /\ data_initialized \in [Tiles -> SUBSET DataRegs]
    /\ pred_initialized \in [Tiles -> SUBSET PredRegs]
    /\ data_link \in [Tiles -> [Dirs -> LinkValue]]
    /\ pred_link \in [Tiles -> [Dirs -> PredValue]]
    /\ load_q0 \in [Tiles -> LinkValue]
    /\ load_resp \in [Tiles -> LinkValue]
    /\ scratchpad_mem \in [Addrs -> Words]
    /\ data_rf \in [Tiles -> [DataRegs -> Words]]
    /\ pred_rf \in [Tiles -> [PredRegs -> {0, 1}]]
    /\ data_valid \in [Tiles -> SUBSET DataRegs]
    /\ pred_valid \in [Tiles -> SUBSET PredRegs]
    /\ data_inputs \in [Tiles -> [Dirs -> LinkValue]]
    /\ pred_inputs \in [Tiles -> [Dirs -> PredValue]]
    /\ shared_scratchpad \in [Addrs -> Words]
    /\ cycle \in Nat
    /\ \A t \in Tiles : pending_loads[t] \subseteq Nat \X Words
    /\ {fatal, error} \subseteq BOOLEAN
    /\ phase \in {"CONFIG", "RUN", "DONE"}
    /\ runs \in Nat /\ menu \in DOMAIN Menus

RegistersAgree ==
    \A t \in Tiles :
        /\ \A r \in data_valid[t] :
              r \in data_initialized[t] /\ data_mem[t][r] = data_rf[t][r]
        /\ \A r \in pred_valid[t] :
              r \in pred_initialized[t] /\ pred_mem[t][r] = pred_rf[t][r]

LinksAgree ==
    \A t \in Tiles, d \in Dirs :
        /\ LinkIn(data_link, t, d) = data_inputs[t][d]
        /\ LinkIn(pred_link, t, d) = pred_inputs[t][d]

\* Responses in flight: load_resp is due in this cycle, load_q0 in the next.
LoadsAgree ==
    \A t \in Tiles :
        pending_loads[t] =
            (IF load_resp[t].valid THEN {<<cycle, load_resp[t].value>>} ELSE {})
              \cup
            (IF load_q0[t].valid THEN {<<cycle + 1, load_q0[t].value>>} ELSE {})

\* While a run is on and neither side has rejected a word, the hardware state
\* that the golden model tracks is the golden model's state: no register
\* content, link or load response of an earlier run is visible, and the
\* two-stage load pipe answers exactly when load_latency says.
ArraysAgree ==
    phase = "RUN" /\ ~error /\ ~fatal =>
        /\ RegistersAgree
        /\ LinksAgree
        /\ LoadsAgree
        /\ scratchpad_mem = shared_scratchpad

\* A program that the golden model replays without GoldenModelError never
\* stops the RTL simulation: in no cycle, in no run after other runs, and not
\* in the DONE and CONFIG cycles that drain the array.
AcceptedRunsDoNotStop == fatal => error
=============================================================================
