--------------------------- MODULE LoopController ---------------------------
(***************************************************************************)
(* The global sequencer of the array: the always_ff block of               *)
(* rtl/cgra_top.sv that owns the CONFIG/RUN/DONE state, the control-memory *)
(* address kernel_pc, the flat cycle counter, the loop-descriptor shadow   *)
(* and committed registers and the loop phase counters, together with the  *)
(* run_active flip-flops that gate the control words.                      *)
(*                                                                         *)
(* One action is one rising clock edge.  Every register takes its new      *)
(* value from the values before the edge, so a descriptor write and the    *)
(* sequencer's own transition in the same cycle see the same old state.    *)
(* The model is the synthesised hardware: an illegal commit clears         *)
(* loop_committed (the simulation build also stops with $fatal).           *)
(***************************************************************************)
EXTENDS Integers

CONSTANTS
    CTRL_MEM_DEPTH,  \* control-memory slots per tile (256 in cgra_pkg)
    Words,           \* the values a host writes to the descriptor registers
    RunCycles,       \* the run_cycles a host drives when it starts a flat run
    NoLoop           \* "no descriptor", for the abstract specification

(* tools/validate_program.py rejects a flat run of 0 or of CTRL_MEM_DEPTH   *)
(* or more cycles, so a host that uses the tools never asks for one.       *)
ASSUME ControllerAssumption ==
    /\ CTRL_MEM_DEPTH \in Nat \ {0}
    /\ Words \subseteq Nat
    /\ RunCycles \subseteq 1 .. CTRL_MEM_DEPTH - 1
    /\ NoLoop \notin [{"prologue", "ii", "trip", "epilogue"} -> Nat]

VARIABLES
    state,                 \* "CONFIG", "RUN" or "DONE"
    kernel_pc,             \* control-memory address presented to every tile
    cycles_left,           \* cycles left of a flat run
    loop_shadow,           \* the four shadow registers
    loop_shadow_valid,     \* the shadow registers written since reset
    loop_desc,             \* the four committed registers
    loop_committed,        \* the committed registers drive the next runs
    loop_phase,            \* "FLAT", "PROLOGUE", "KERNEL" or "EPILOGUE"
    loop_phase_count,      \* cycles left of the prologue or the epilogue
    loop_iterations_left,
    loop_iteration,
    loop_kernel_slot,      \* position inside the kernel
    run_active             \* the replicated RUN bit that gates control words

descVars == <<loop_shadow, loop_shadow_valid, loop_desc, loop_committed>>
phaseVars == <<loop_phase, loop_phase_count, loop_iterations_left,
               loop_iteration, loop_kernel_slot>>
vars == <<state, kernel_pc, cycles_left, descVars, phaseVars, run_active>>

Fields == {"prologue", "ii", "trip", "epilogue"}
Zeroes == [f \in Fields |-> 0]

\* CTRL_PC_WIDTH'(...): addresses are CTRL_MEM_DEPTH = 2^CTRL_PC_WIDTH wide.
Pc(n) == n % CTRL_MEM_DEPTH

\* The sum is taken on 64 bits, so it does not overflow.
loop_descriptor_valid(d) ==
    /\ d["ii"] # 0
    /\ d["trip"] # 0
    /\ d["prologue"] + d["ii"] + d["epilogue"] =< CTRL_MEM_DEPTH

loop_last_cycle_KernelOnly ==
    /\ loop_committed
    /\ loop_phase = "KERNEL"
    /\ loop_kernel_slot + 1 >= loop_desc["ii"]
    /\ loop_iterations_left =< 1
    /\ loop_desc["epilogue"] = 0

loop_last_cycle ==
    /\ loop_committed
    /\ \/ /\ loop_phase = "KERNEL"
          /\ loop_kernel_slot + 1 >= loop_desc["ii"]
          /\ loop_iterations_left =< 1
          /\ loop_desc["epilogue"] = 0
       \/ /\ loop_phase = "EPILOGUE"
          /\ loop_phase_count =< 1

next_run_active_FlatOnly(start) ==
    \/ state = "CONFIG" /\ start
    \/ state = "RUN" /\ ~(cycles_left =< 1)

\* The next value of every run_active replica.
next_run_active(start) ==
    \/ state = "CONFIG" /\ start
    \/ /\ state = "RUN"
       /\ ~(IF loop_committed THEN loop_last_cycle ELSE cycles_left =< 1)

Init ==
    /\ state = "CONFIG"
    /\ kernel_pc = 0
    /\ cycles_left = 0
    /\ loop_shadow = Zeroes
    /\ loop_shadow_valid = {}
    /\ loop_desc = Zeroes
    /\ loop_committed = FALSE
    /\ loop_phase = "FLAT"
    /\ loop_phase_count = 0
    /\ loop_iterations_left = 0
    /\ loop_iteration = 0
    /\ loop_kernel_slot = 0
    /\ run_active = FALSE

-----------------------------------------------------------------------------
(* The descriptor port, open only in CONFIG.                               *)

WriteShadow(f, data) ==
    /\ loop_shadow' = [loop_shadow EXCEPT ![f] = data]
    /\ loop_shadow_valid' = loop_shadow_valid \cup {f}
    /\ UNCHANGED <<loop_desc, loop_committed>>

WriteCommit_Keep(data) ==
    LET legal == /\ data # 0
                 /\ loop_shadow_valid = Fields
                 /\ loop_descriptor_valid(loop_shadow)
    IN  /\ loop_desc' = loop_shadow
        /\ loop_committed' = (loop_committed \/ legal)
        /\ UNCHANGED <<loop_shadow, loop_shadow_valid>>

\* Address 4: 0 withdraws the descriptor, 1 commits a complete legal shadow.
WriteCommit(data) ==
    LET legal == /\ data # 0
                 /\ loop_shadow_valid = Fields
                 /\ loop_descriptor_valid(loop_shadow)
    IN  /\ loop_desc' = IF legal THEN loop_shadow ELSE loop_desc
        /\ loop_committed' = legal
        /\ UNCHANGED <<loop_shadow, loop_shadow_valid>>

NoCommitWrite ==
    \/ UNCHANGED descVars
    \/ \E f \in Fields, data \in Words : WriteShadow(f, data)

CommitWrite == \E data \in {0, 1} : WriteCommit(data)

-----------------------------------------------------------------------------
(* CONFIG                                                                  *)

ClearRunRegisters ==
    /\ kernel_pc' = 0
    /\ cycles_left' = 0
    /\ loop_phase' = "FLAT"
    /\ loop_phase_count' = 0
    /\ loop_iterations_left' = 0
    /\ loop_iteration' = 0
    /\ loop_kernel_slot' = 0

ConfigCycle ==
    /\ state = "CONFIG"
    /\ NoCommitWrite \/ CommitWrite
    /\ ClearRunRegisters
    /\ run_active' = next_run_active(FALSE)
    /\ UNCHANGED state

StartLoop ==
    /\ loop_committed
    /\ cycles_left' = 0
    /\ loop_iterations_left' = loop_desc["trip"]
    /\ IF loop_desc["prologue"] # 0
       THEN /\ loop_phase' = "PROLOGUE"
            /\ loop_phase_count' = loop_desc["prologue"]
            /\ kernel_pc' = 0
       ELSE /\ loop_phase' = "KERNEL"
            /\ loop_phase_count' = 0
            /\ kernel_pc' = Pc(loop_desc["prologue"])

StartFlat(run_cycles) ==
    /\ ~loop_committed
    /\ cycles_left' = run_cycles
    /\ loop_phase' = "FLAT"
    /\ loop_phase_count' = 0
    /\ loop_iterations_left' = 0
    /\ kernel_pc' = 0

Start(run_cycles) ==
    /\ state = "CONFIG"
    /\ StartLoop \/ StartFlat(run_cycles)
    /\ loop_iteration' = 0
    /\ loop_kernel_slot' = 0
    /\ state' = "RUN"
    /\ run_active' = next_run_active(TRUE)

\* tools/program_runner.py raises start only after its last configuration
\* write; a shadow write in the start cycle would be harmless.
HostStart ==
    \E run_cycles \in RunCycles : Start(run_cycles) /\ NoCommitWrite

\* A host that raises start in the very cycle it writes LOOP_COMMIT.
OverlappedStart ==
    \E run_cycles \in RunCycles : Start(run_cycles) /\ CommitWrite

-----------------------------------------------------------------------------
(* RUN: configuration is closed and start is ignored.                      *)

RunCycle ==
    /\ state = "RUN"
    /\ run_active' = next_run_active(FALSE)
    /\ UNCHANGED descVars

FinishLoop ==
    /\ RunCycle
    /\ loop_last_cycle
    /\ state' = "DONE"
    /\ loop_phase_count' = 0
    /\ loop_iterations_left' = 0
    /\ UNCHANGED <<kernel_pc, cycles_left, loop_phase, loop_iteration,
                   loop_kernel_slot>>

LoopStep ==
    /\ RunCycle
    /\ loop_committed
    /\ ~loop_last_cycle
    /\ UNCHANGED cycles_left

EnterKernel ==
    /\ loop_phase' = "KERNEL"
    /\ loop_phase_count' = 0
    /\ loop_kernel_slot' = 0
    /\ kernel_pc' = Pc(loop_desc["prologue"])

PrologueCycle_OneMore ==
    /\ LoopStep
    /\ loop_phase = "PROLOGUE"
    /\ IF loop_phase_count = 0
       THEN EnterKernel
       ELSE /\ loop_phase_count' = loop_phase_count - 1
            /\ kernel_pc' = Pc(kernel_pc + 1)
            /\ UNCHANGED <<loop_phase, loop_kernel_slot>>
    /\ UNCHANGED <<state, loop_iterations_left, loop_iteration>>

PrologueCycle ==
    /\ LoopStep
    /\ loop_phase = "PROLOGUE"
    /\ IF loop_phase_count =< 1
       THEN EnterKernel
       ELSE /\ loop_phase_count' = loop_phase_count - 1
            /\ kernel_pc' = Pc(kernel_pc + 1)
            /\ UNCHANGED <<loop_phase, loop_kernel_slot>>
    /\ UNCHANGED <<state, loop_iterations_left, loop_iteration>>

KernelSlot ==
    /\ LoopStep
    /\ loop_phase = "KERNEL"
    /\ loop_kernel_slot + 1 < loop_desc["ii"]
    /\ loop_kernel_slot' = Pc(loop_kernel_slot + 1)
    /\ kernel_pc' = Pc(kernel_pc + 1)
    /\ UNCHANGED <<state, loop_phase, loop_phase_count,
                   loop_iterations_left, loop_iteration>>

KernelIteration_NoCount ==
    /\ LoopStep
    /\ loop_phase = "KERNEL"
    /\ loop_kernel_slot + 1 >= loop_desc["ii"]
    /\ loop_iterations_left > 1
    /\ loop_kernel_slot' = 0
    /\ kernel_pc' = Pc(loop_desc["prologue"])
    /\ UNCHANGED <<state, loop_phase, loop_phase_count,
                   loop_iterations_left, loop_iteration>>

KernelIteration_FromZero ==
    /\ LoopStep
    /\ loop_phase = "KERNEL"
    /\ loop_kernel_slot + 1 >= loop_desc["ii"]
    /\ loop_iterations_left > 1
    /\ loop_iterations_left' = loop_iterations_left - 1
    /\ loop_iteration' = loop_iteration + 1
    /\ loop_kernel_slot' = 0
    /\ kernel_pc' = 0
    /\ UNCHANGED <<state, loop_phase, loop_phase_count>>

KernelIteration ==
    /\ LoopStep
    /\ loop_phase = "KERNEL"
    /\ loop_kernel_slot + 1 >= loop_desc["ii"]
    /\ loop_iterations_left > 1
    /\ loop_iterations_left' = loop_iterations_left - 1
    /\ loop_iteration' = loop_iteration + 1
    /\ loop_kernel_slot' = 0
    /\ kernel_pc' = Pc(loop_desc["prologue"])
    /\ UNCHANGED <<state, loop_phase, loop_phase_count>>

EnterEpilogue ==
    /\ LoopStep
    /\ loop_phase = "KERNEL"
    /\ loop_kernel_slot + 1 >= loop_desc["ii"]
    /\ loop_iterations_left =< 1
    /\ loop_phase' = "EPILOGUE"
    /\ loop_phase_count' = loop_desc["epilogue"]
    /\ loop_iteration' = loop_desc["trip"]
    /\ loop_kernel_slot' = 0
    /\ kernel_pc' = Pc(loop_desc["prologue"] + loop_desc["ii"])
    /\ UNCHANGED <<state, loop_iterations_left>>

EpilogueCycle ==
    /\ LoopStep
    /\ loop_phase = "EPILOGUE"
    /\ loop_phase_count' = loop_phase_count - 1
    /\ kernel_pc' = Pc(kernel_pc + 1)
    /\ UNCHANGED <<state, loop_phase, loop_iterations_left, loop_iteration,
                   loop_kernel_slot>>

\* The default arm: a committed descriptor, but a run that began as flat.
AbandonRun ==
    /\ LoopStep
    /\ loop_phase = "FLAT"
    /\ state' = "DONE"
    /\ UNCHANGED <<kernel_pc, phaseVars>>

FinishFlat ==
    /\ RunCycle
    /\ ~loop_committed
    /\ cycles_left =< 1
    /\ state' = "DONE"
    /\ cycles_left' = 0
    /\ UNCHANGED <<kernel_pc, phaseVars>>

FlatCycle ==
    /\ RunCycle
    /\ ~loop_committed
    /\ cycles_left > 1
    /\ cycles_left' = cycles_left - 1
    /\ kernel_pc' = Pc(kernel_pc + 1)
    /\ UNCHANGED <<state, phaseVars>>

-----------------------------------------------------------------------------
(* DONE lasts one cycle; loop_desc_cfg_accept is closed there.             *)

DoneCycle ==
    /\ state = "DONE"
    /\ state' = "CONFIG"
    /\ ClearRunRegisters
    /\ run_active' = next_run_active(FALSE)
    /\ UNCHANGED descVars

Reset ==
    /\ state' = "CONFIG"
    /\ ClearRunRegisters
    /\ loop_shadow' = Zeroes
    /\ loop_shadow_valid' = {}
    /\ loop_desc' = Zeroes
    /\ loop_committed' = FALSE
    /\ run_active' = FALSE

RunStep ==
    \/ FinishLoop
    \/ PrologueCycle
    \/ KernelSlot
    \/ KernelIteration
    \/ EnterEpilogue
    \/ EpilogueCycle
    \/ FinishFlat
    \/ FlatCycle

Next ==
    \/ ConfigCycle
    \/ HostStart
    \/ RunStep
    \/ DoneCycle
    \/ Reset

\* A clock that does not stop: while the sequencer is out of CONFIG an edge
\* with rst_n high eventually comes.
Fairness == WF_vars(RunStep \/ AbandonRun \/ DoneCycle)

Spec == Init /\ [][Next]_vars
FairSpec == Spec /\ Fairness

\* A host with no discipline about the start cycle; AbandonRun can only be
\* reached here.
UndisciplinedNext == Next \/ OverlappedStart \/ AbandonRun
UndisciplinedSpec == Init /\ [][UndisciplinedNext]_vars

-----------------------------------------------------------------------------
(* Properties                                                              *)

DescriptorTypeOK ==
    /\ loop_shadow \in [Fields -> Nat]
    /\ loop_shadow_valid \in SUBSET Fields
    /\ loop_desc \in [Fields -> Nat]
    /\ loop_committed \in BOOLEAN

CounterTypeOK ==
    /\ kernel_pc \in 0 .. CTRL_MEM_DEPTH - 1
    /\ cycles_left \in 0 .. CTRL_MEM_DEPTH - 1
    /\ loop_phase_count \in 0 .. CTRL_MEM_DEPTH
    /\ loop_iterations_left \in Nat
    /\ loop_iteration \in Nat
    /\ loop_kernel_slot \in 0 .. CTRL_MEM_DEPTH - 1

\* Type invariant: every register stays inside its declared width, and the
\* prologue/epilogue countdown never runs below zero or past the memory.
TypeOK ==
    /\ state \in {"CONFIG", "RUN", "DONE"}
    /\ loop_phase \in {"FLAT", "PROLOGUE", "KERNEL", "EPILOGUE"}
    /\ run_active \in BOOLEAN
    /\ DescriptorTypeOK
    /\ CounterTypeOK

\* The separately computed run_active replicas equal (state == STATE_RUN) in
\* every cycle, whatever mix of flat runs, loop runs, commits and resets came
\* before: the "RUN replica diverged" assertion of cgra_top.sv.
RunReplicaInSync == run_active = (state = "RUN")

\* Every run ends: after start the sequencer comes back to CONFIG, for flat
\* runs and for every legal descriptor.
RunTerminates == state = "RUN" ~> state = "CONFIG"

\* The phase counters of a run against the committed descriptor: what makes
\* kernel_pc the address that the expansion of the descriptor asks for.
PhaseInv ==
    LET P == loop_desc["prologue"]
        II == loop_desc["ii"]
        N == loop_desc["trip"]
        E == loop_desc["epilogue"]
    IN  /\ loop_committed => loop_descriptor_valid(loop_desc)
        /\ state = "CONFIG" => kernel_pc = 0
        /\ state = "RUN" /\ ~loop_committed =>
              /\ loop_phase = "FLAT"
              /\ cycles_left >= 1
              /\ kernel_pc + cycles_left < CTRL_MEM_DEPTH
        /\ state = "RUN" /\ loop_committed =>
              \/ /\ loop_phase = "PROLOGUE"
                 /\ loop_phase_count \in 1 .. P
                 /\ kernel_pc = P - loop_phase_count
                 /\ loop_iterations_left = N
                 /\ loop_iteration = 0
                 /\ loop_kernel_slot = 0
              \/ /\ loop_phase = "KERNEL"
                 /\ loop_kernel_slot < II
                 /\ kernel_pc = P + loop_kernel_slot
                 /\ loop_iterations_left \in 1 .. N
                 /\ loop_iteration = N - loop_iterations_left
              \/ /\ loop_phase = "EPILOGUE"
                 /\ loop_phase_count \in 1 .. E
                 /\ kernel_pc = P + II + E - loop_phase_count
                 /\ loop_iteration = N

-----------------------------------------------------------------------------
(* Refinement: the sequencer replays the golden model's expansion.         *)

absMode == CASE state = "CONFIG" -> "idle"
             [] state = "RUN"    -> "running"
             [] state = "DONE"   -> "done"

absLoop == IF loop_committed THEN loop_desc ELSE NoLoop

\* Cycles of this run already presented, recovered from the counters.
absPos ==
    IF state # "RUN" THEN 0
    ELSE IF ~loop_committed THEN kernel_pc
    ELSE CASE loop_phase = "PROLOGUE" ->
                loop_desc["prologue"] - loop_phase_count
           [] loop_phase = "EPILOGUE" ->
                loop_desc["prologue"] + loop_desc["trip"] * loop_desc["ii"]
                  + loop_desc["epilogue"] - loop_phase_count
           [] OTHER ->
                loop_desc["prologue"] + loop_iteration * loop_desc["ii"]
                  + loop_kernel_slot

absTotal ==
    IF state # "RUN" THEN 0
    ELSE IF loop_committed
         THEN loop_desc["prologue"] + loop_desc["trip"] * loop_desc["ii"]
                + loop_desc["epilogue"]
         ELSE kernel_pc + cycles_left

Replay == INSTANCE LoopReplay WITH
    CtrlDepth <- CTRL_MEM_DEPTH,
    mode <- absMode,
    loop <- absLoop,
    pos <- absPos,
    total <- absTotal,
    pc <- kernel_pc

\* Inside a run every clock edge moves on to the next step of the expansion:
\* no cycle of a run is spent twice on one step (ReplaySpec alone would let the
\* sequencer stutter).
OneStepPerCycle ==
    [][state = "RUN" /\ state' = "RUN" => absPos' = absPos + 1]_vars

\* The sequencer implements LoopReplay: in every run the addresses it presents
\* are exactly those of manifest_execution_steps, none skipped, repeated or
\* added, and the descriptor does not change under a run.
ReplaySpec == Replay!Spec
=============================================================================
