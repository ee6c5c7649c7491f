----------------------------- MODULE LoopReplay -----------------------------
(***************************************************************************)
(* What a run of the array promises: the sequence of control-memory        *)
(* addresses it presents to the tiles, one per cycle.                      *)
(*                                                                         *)
(* The promise is the one the golden model is written from:                *)
(* model/golden_model.py expands a manifest into a list of execution       *)
(* steps (manifest_execution_steps) and replays them in order.  A flat run *)
(* of c cycles presents 0, 1, ..., c-1; a loop run with descriptor         *)
(* (P, II, N, E) presents the P prologue addresses, then the II kernel     *)
(* addresses N times over, then the E epilogue addresses.                  *)
(***************************************************************************)
EXTENDS Integers

CONSTANTS
    CtrlDepth,   \* control-memory slots per tile
    RunCycles,   \* the run lengths a host may ask for
    NoLoop       \* no loop descriptor is in force

VARIABLES
    mode,        \* "idle", "running" or "done"
    loop,        \* the descriptor in force, or NoLoop
    pos,         \* cycles of the current run already presented before this one
    total,       \* cycles the current run presents altogether
    pc           \* the address presented now

vars == <<mode, loop, pos, total, pc>>

Descriptors == [{"prologue", "ii", "trip", "epilogue"} -> Nat]

\* loop_descriptor_valid: something to execute, and it fits the control memory.
LegalDescriptor(d) ==
    /\ d \in Descriptors
    /\ d["ii"] # 0
    /\ d["trip"] # 0
    /\ d["prologue"] + d["ii"] + d["epilogue"] =< CtrlDepth

LoopCycles(d) == d["prologue"] + d["trip"] * d["ii"] + d["epilogue"]

\* The address of step i of the expansion of d.
LoopPc(d, i) ==
    IF i < d["prologue"] THEN i
    ELSE IF i < d["prologue"] + d["trip"] * d["ii"]
         THEN d["prologue"] + ((i - d["prologue"]) % d["ii"])
         ELSE i - (d["trip"] - 1) * d["ii"]

PcAt(l, i) == IF l = NoLoop THEN i ELSE LoopPc(l, i)

Init ==
    /\ mode = "idle"
    /\ loop = NoLoop
    /\ pos = 0
    /\ total = 0
    /\ pc = 0

\* The host installs or withdraws a descriptor while nothing runs.
Install ==
    /\ mode = "idle"
    /\ loop' = NoLoop \/ LegalDescriptor(loop')
    /\ UNCHANGED <<mode, pos, total, pc>>

Start ==
    /\ mode = "idle"
    /\ mode' = "running"
    /\ pos' = 0
    /\ IF loop = NoLoop THEN total' \in RunCycles
                        ELSE total' = LoopCycles(loop)
    /\ pc' = PcAt(loop, 0)
    /\ UNCHANGED loop

Advance ==
    /\ mode = "running"
    /\ pos + 1 < total
    /\ pos' = pos + 1
    /\ pc' = PcAt(loop, pos + 1)
    /\ UNCHANGED <<mode, loop, total>>

Finish ==
    /\ mode = "running"
    /\ pos + 1 = total
    /\ mode' = "done"
    /\ pos' = 0
    /\ total' = 0
    /\ UNCHANGED <<loop, pc>>

Acknowledge ==
    /\ mode = "done"
    /\ mode' = "idle"
    /\ pc' = 0
    /\ UNCHANGED <<loop, pos, total>>

Reset ==
    /\ mode' = "idle"
    /\ loop' = NoLoop
    /\ pos' = 0
    /\ total' = 0
    /\ pc' = 0

Next ==
    \/ Install
    \/ Start
    \/ Advance
    \/ Finish
    \/ Acknowledge
    \/ Reset

Spec == Init /\ [][Next]_vars
=============================================================================
