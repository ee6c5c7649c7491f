------------------------ MODULE LoopControllerProofs ------------------------
(***************************************************************************)
(* LoopController, for every control-memory depth, every set of descriptor *)
(* words and every set of run lengths the tools accept: the registers stay *)
(* in range, the run_active replicas agree with the state, and the         *)
(* sequencer implements LoopReplay.                                        *)
(***************************************************************************)
EXTENDS LoopController, TLAPS

-----------------------------------------------------------------------------
(* Arithmetic                                                              *)

\* An address below the memory depth survives the cast to CTRL_PC_WIDTH bits.
LEMMA PcIdentity ==
    ASSUME NEW n \in Nat, n < CTRL_MEM_DEPTH
    PROVE  Pc(n) = n
  BY ControllerAssumption, SMT DEF Pc

\* Whatever is cast to CTRL_PC_WIDTH bits is an address.
LEMMA PcInRange ==
    ASSUME NEW n \in Nat
    PROVE  Pc(n) \in 0 .. CTRL_MEM_DEPTH - 1
  BY ControllerAssumption, SMT DEF Pc

\* Position k * m + s of a repetition with period m is position s of a period.
LEMMA PeriodPosition ==
    ASSUME NEW m \in Nat \ {0}, NEW k \in Nat, NEW s \in Nat, s < m
    PROVE  (k * m + s) % m = s
  BY SMT

\* One more iteration is one more period, and k iterations fit in n > k.
LEMMA Periods ==
    ASSUME NEW m \in Nat \ {0}, NEW k \in Nat, NEW n \in Nat, k < n
    PROVE  /\ k * m \in Nat
           /\ n * m \in Nat
           /\ (k + 1) * m = k * m + m
           /\ k * m + m =< n * m
           /\ (n - 1) * m + m = n * m
  BY SMT

-----------------------------------------------------------------------------
(* The inductive invariant.                                                *)

Inv == TypeOK /\ PhaseInv /\ RunReplicaInSync

\* The initial values of the registers satisfy the invariant.
LEMMA InitInv == Init => Inv
  <1> SUFFICES ASSUME Init  PROVE Inv
    OBVIOUS
  <1>1. Zeroes \in [Fields -> Nat]
    BY DEF Zeroes
  <1>2. TypeOK
    <2>1. DescriptorTypeOK
      BY <1>1 DEF Init, DescriptorTypeOK
    <2>2. CounterTypeOK
      BY ControllerAssumption DEF Init, CounterTypeOK
    <2> QED  BY <2>1, <2>2 DEF Init, TypeOK
  <1>3. PhaseInv /\ RunReplicaInSync
    BY DEF Init, PhaseInv, RunReplicaInSync
  <1> QED  BY <1>2, <1>3 DEF Inv

\* A descriptor write keeps the committed registers legal.
LEMMA DescriptorPort ==
    ASSUME TypeOK, loop_committed => loop_descriptor_valid(loop_desc),
           NoCommitWrite \/ CommitWrite
    PROVE  /\ loop_shadow' \in [Fields -> Nat]
           /\ loop_shadow_valid' \in SUBSET Fields
           /\ loop_desc' \in [Fields -> Nat]
           /\ loop_committed' \in BOOLEAN
           /\ (loop_committed => loop_descriptor_valid(loop_desc))'
  <1>1. CASE UNCHANGED descVars
    BY <1>1 DEF TypeOK, DescriptorTypeOK, CounterTypeOK, descVars, loop_descriptor_valid
  <1>2. CASE \E f \in Fields, data \in Words : WriteShadow(f, data)
    BY <1>2, ControllerAssumption
       DEF TypeOK, DescriptorTypeOK, CounterTypeOK, WriteShadow, loop_descriptor_valid
  <1>3. CASE \E data \in {0, 1} : WriteCommit(data)
    BY <1>3 DEF TypeOK, DescriptorTypeOK, CounterTypeOK, WriteCommit, loop_descriptor_valid
  <1> QED  BY <1>1, <1>2, <1>3 DEF NoCommitWrite, CommitWrite

\* In CONFIG, an idle cycle or a descriptor write keeps the invariant.
LEMMA ConfigCycleInv == Inv /\ ConfigCycle => Inv'
  <1> SUFFICES ASSUME Inv, ConfigCycle  PROVE Inv'
    OBVIOUS
  <1>1. TypeOK'
    BY DescriptorPort, ControllerAssumption
       DEF Inv, TypeOK, DescriptorTypeOK, CounterTypeOK, PhaseInv, ConfigCycle, ClearRunRegisters,
           next_run_active
  <1>2. PhaseInv' /\ RunReplicaInSync'
    BY DescriptorPort
       DEF Inv, TypeOK, DescriptorTypeOK, CounterTypeOK, PhaseInv, RunReplicaInSync, ConfigCycle,
           ClearRunRegisters, next_run_active
  <1> QED  BY <1>1, <1>2 DEF Inv

\* A legal descriptor is bounded by the control memory.
LEMMA DescriptorBounds ==
    ASSUME NEW d \in [Fields -> Nat], loop_descriptor_valid(d)
    PROVE  /\ d["prologue"] \in 0 .. CTRL_MEM_DEPTH - 1
           /\ d["ii"] \in 1 .. CTRL_MEM_DEPTH
           /\ d["trip"] \in Nat \ {0}
           /\ d["epilogue"] \in 0 .. CTRL_MEM_DEPTH
           /\ d["prologue"] + d["ii"] + d["epilogue"] =< CTRL_MEM_DEPTH
  BY ControllerAssumption DEF loop_descriptor_valid, Fields

\* Starting a run sets up the counters of its first phase.
LEMMA HostStartInv == Inv /\ HostStart => Inv'
  <1> SUFFICES ASSUME Inv, NEW rc \in RunCycles, Start(rc), NoCommitWrite
               PROVE  Inv'
    BY DEF HostStart
  <1>0. /\ rc \in 1 .. CTRL_MEM_DEPTH - 1
        /\ UNCHANGED <<loop_desc, loop_committed>>
    BY ControllerAssumption DEF NoCommitWrite, WriteShadow, descVars
  <1>1. /\ loop_shadow' \in [Fields -> Nat]
        /\ loop_shadow_valid' \in SUBSET Fields
    BY DescriptorPort DEF Inv, PhaseInv
  <1>2. RunReplicaInSync' /\ run_active' \in BOOLEAN /\ state' = "RUN"
    BY DEF Inv, Start, next_run_active, RunReplicaInSync
  <1>3. CASE StartLoop
    <2>1. loop_committed /\ loop_descriptor_valid(loop_desc)
      BY <1>3 DEF StartLoop, Inv, PhaseInv
    <2>2. loop_desc \in [Fields -> Nat]
      BY DEF Inv, TypeOK, DescriptorTypeOK, CounterTypeOK
    <2>3. Pc(loop_desc["prologue"]) = loop_desc["prologue"]
      BY <2>1, <2>2, DescriptorBounds, PcIdentity, ControllerAssumption
    <2>4. TypeOK'
      <3>1. DescriptorTypeOK'
        BY <1>0, <1>1, <2>1, <2>2 DEF DescriptorTypeOK
      <3>2. CounterTypeOK'
        BY <1>3, <2>1, <2>2, <2>3, DescriptorBounds, ControllerAssumption
           DEF CounterTypeOK, StartLoop, Start
      <3> QED  BY <1>2, <1>3, <3>1, <3>2 DEF TypeOK, StartLoop
    <2>5. PhaseInv'
      BY <1>0, <1>2, <1>3, <2>1, <2>2, <2>3, DescriptorBounds
         DEF PhaseInv, StartLoop, Start, loop_descriptor_valid
    <2> QED  BY <1>2, <2>4, <2>5 DEF Inv
  <1>4. CASE StartFlat(rc)
    <2>1. TypeOK'
      <3>1. DescriptorTypeOK'
        BY <1>0, <1>1 DEF Inv, TypeOK, DescriptorTypeOK
      <3>2. CounterTypeOK'
        BY <1>0, <1>4, ControllerAssumption
           DEF CounterTypeOK, StartFlat, Start
      <3> QED  BY <1>2, <1>4, <3>1, <3>2 DEF TypeOK, StartFlat
    <2>2. PhaseInv'
      BY <1>0, <1>2, <1>4, ControllerAssumption
         DEF PhaseInv, StartFlat, Start
    <2> QED  BY <1>2, <2>1, <2>2 DEF Inv
  <1> QED  BY <1>3, <1>4 DEF Start

\* In RUN every transition computes the same next state as next_run_active.
LEMMA RunReplicaStep ==
    ASSUME Inv, RunStep
    PROVE  run_active' = (state' = "RUN") /\ run_active' \in BOOLEAN
  <1>1. CASE FinishLoop
    BY <1>1 DEF FinishLoop, RunCycle, next_run_active, loop_last_cycle
  <1>2. CASE FinishFlat
    BY <1>2 DEF FinishFlat, RunCycle, next_run_active
  <1>3. CASE FlatCycle
    <2>1. ~(cycles_left =< 1)
      BY <1>3, ControllerAssumption DEF FlatCycle, Inv, TypeOK, DescriptorTypeOK, CounterTypeOK
    <2> QED
      BY <1>3, <2>1 DEF FlatCycle, RunCycle, next_run_active
  <1>4. CASE PrologueCycle \/ KernelSlot \/ KernelIteration
             \/ EnterEpilogue \/ EpilogueCycle
    <2>1. LoopStep /\ UNCHANGED state
      BY <1>4 DEF PrologueCycle, KernelSlot, KernelIteration, EnterEpilogue,
                  EpilogueCycle
    <2> QED
      BY <2>1 DEF LoopStep, RunCycle, next_run_active
  <1> QED  BY <1>1, <1>2, <1>3, <1>4 DEF RunStep

\* Each transition of a run moves the counters to the next cycle of the run.
LEMMA RunStepInv == Inv /\ RunStep => Inv'
  <1> SUFFICES ASSUME Inv, RunStep  PROVE TypeOK' /\ PhaseInv'
    BY RunReplicaStep DEF Inv, RunReplicaInSync
  <1> DEFINE P == loop_desc["prologue"]
             II == loop_desc["ii"]
             N == loop_desc["trip"]
             E == loop_desc["epilogue"]
  <1>0. /\ run_active' \in BOOLEAN
        /\ state = "RUN"
        /\ loop_desc' = loop_desc
        /\ loop_committed' = loop_committed
        /\ UNCHANGED <<loop_shadow, loop_shadow_valid>>
    BY RunReplicaStep
       DEF RunStep, FinishLoop, PrologueCycle, KernelSlot, KernelIteration,
           EnterEpilogue, EpilogueCycle, FinishFlat, FlatCycle, LoopStep,
           RunCycle, descVars
  <1>1. TypeOK /\ PhaseInv
    BY DEF Inv
  <1>2. loop_committed =>
           /\ P \in 0 .. CTRL_MEM_DEPTH - 1
           /\ II \in 1 .. CTRL_MEM_DEPTH
           /\ N \in Nat \ {0}
           /\ E \in 0 .. CTRL_MEM_DEPTH
           /\ P + II + E =< CTRL_MEM_DEPTH
    BY <1>1, DescriptorBounds DEF TypeOK, DescriptorTypeOK, CounterTypeOK, PhaseInv
  <1>3. CASE FinishLoop
    BY <1>0, <1>1, <1>2, <1>3, ControllerAssumption
       DEF FinishLoop, TypeOK, DescriptorTypeOK, CounterTypeOK, PhaseInv, loop_descriptor_valid
  <1>4. CASE PrologueCycle
    <2>1. /\ loop_committed
          /\ loop_phase_count \in 1 .. P
          /\ kernel_pc = P - loop_phase_count
          /\ loop_iterations_left = N
          /\ loop_iteration = 0
          /\ loop_kernel_slot = 0
      BY <1>0, <1>1, <1>4 DEF PrologueCycle, LoopStep, PhaseInv
    <2>2. CASE loop_phase_count =< 1
      <3>1. kernel_pc' = P
        BY <1>2, <1>4, <2>1, <2>2, PcIdentity, ControllerAssumption
           DEF PrologueCycle, EnterKernel
      <3> QED
        BY <1>0, <1>1, <1>2, <1>4, <2>1, <2>2, <3>1, ControllerAssumption
           DEF PrologueCycle, LoopStep, EnterKernel, TypeOK, DescriptorTypeOK, CounterTypeOK, PhaseInv,
               loop_descriptor_valid
    <2>3. CASE ~(loop_phase_count =< 1)
      <3>1. kernel_pc' = P - (loop_phase_count - 1)
        BY <1>2, <1>4, <2>1, <2>3, PcIdentity, ControllerAssumption DEF PrologueCycle
      <3> QED
        BY <1>0, <1>1, <1>2, <1>4, <2>1, <2>3, <3>1, ControllerAssumption
           DEF PrologueCycle, LoopStep, TypeOK, DescriptorTypeOK, CounterTypeOK, PhaseInv,
               loop_descriptor_valid
    <2> QED  BY <2>2, <2>3
  <1>5. CASE KernelSlot \/ KernelIteration \/ EnterEpilogue
    <2>1. /\ loop_committed
          /\ loop_phase = "KERNEL"
          /\ loop_kernel_slot < II
          /\ kernel_pc = P + loop_kernel_slot
          /\ loop_iterations_left \in 1 .. N
          /\ loop_iteration = N - loop_iterations_left
      BY <1>0, <1>1, <1>5
         DEF KernelSlot, KernelIteration, EnterEpilogue, LoopStep, PhaseInv
    <2>2. CASE KernelSlot
      <3>1. /\ kernel_pc' = P + (loop_kernel_slot + 1)
            /\ loop_kernel_slot' = loop_kernel_slot + 1
        BY <1>1, <1>2, <2>1, <2>2, PcIdentity, ControllerAssumption DEF KernelSlot, TypeOK, DescriptorTypeOK, CounterTypeOK
      <3> QED
        BY <1>0, <1>1, <1>2, <2>1, <2>2, <3>1, ControllerAssumption
           DEF KernelSlot, LoopStep, TypeOK, DescriptorTypeOK, CounterTypeOK, PhaseInv, loop_descriptor_valid
    <2>3. CASE KernelIteration
      <3>1. kernel_pc' = P
        BY <1>2, <2>1, <2>3, PcIdentity, ControllerAssumption DEF KernelIteration
      <3> QED
        BY <1>0, <1>1, <1>2, <2>1, <2>3, <3>1, ControllerAssumption
           DEF KernelIteration, LoopStep, TypeOK, DescriptorTypeOK, CounterTypeOK, PhaseInv,
               loop_descriptor_valid
    <2>4. CASE EnterEpilogue
      <3>1. E # 0
        BY <1>0, <1>2, <2>1, <2>4
           DEF EnterEpilogue, LoopStep, loop_last_cycle
      <3>2. kernel_pc' = P + II
        BY <1>2, <2>1, <2>4, <3>1, PcIdentity, ControllerAssumption DEF EnterEpilogue
      <3> QED
        BY <1>0, <1>1, <1>2, <2>1, <2>4, <3>1, <3>2, ControllerAssumption
           DEF EnterEpilogue, LoopStep, TypeOK, DescriptorTypeOK, CounterTypeOK, PhaseInv,
               loop_descriptor_valid
    <2> QED  BY <1>5, <2>2, <2>3, <2>4
  <1>6. CASE EpilogueCycle
    <2>1. /\ loop_committed
          /\ loop_phase_count \in 1 .. E
          /\ kernel_pc = P + II + E - loop_phase_count
          /\ loop_iteration = N
      BY <1>0, <1>1, <1>6 DEF EpilogueCycle, LoopStep, PhaseInv
    <2>2. loop_phase_count > 1
      BY <1>2, <1>6, <2>1 DEF EpilogueCycle, LoopStep, loop_last_cycle
    <2>3. kernel_pc' = P + II + E - (loop_phase_count - 1)
      BY <1>2, <1>6, <2>1, <2>2, PcIdentity, ControllerAssumption DEF EpilogueCycle
    <2> QED
      BY <1>0, <1>1, <1>2, <1>6, <2>1, <2>2, <2>3, ControllerAssumption
         DEF EpilogueCycle, LoopStep, TypeOK, DescriptorTypeOK, CounterTypeOK, PhaseInv, loop_descriptor_valid
  <1>7. CASE FinishFlat
    BY <1>0, <1>1, <1>7, ControllerAssumption
       DEF FinishFlat, phaseVars, TypeOK, DescriptorTypeOK, CounterTypeOK, PhaseInv, loop_descriptor_valid
  <1>8. CASE FlatCycle
    <2>1. kernel_pc' = kernel_pc + 1
      BY <1>0, <1>1, <1>8, PcIdentity, ControllerAssumption
         DEF FlatCycle, TypeOK, DescriptorTypeOK, CounterTypeOK, PhaseInv
    <2> QED
      BY <1>0, <1>1, <1>8, <2>1, ControllerAssumption
         DEF FlatCycle, phaseVars, TypeOK, DescriptorTypeOK, CounterTypeOK, PhaseInv, loop_descriptor_valid
  <1> QED  BY <1>3, <1>4, <1>5, <1>6, <1>7, <1>8 DEF RunStep

\* Every transition of the sequencer keeps the invariant.
LEMMA NextInv == Inv /\ [Next]_vars => Inv'
  <1> SUFFICES ASSUME Inv, [Next]_vars  PROVE Inv'
    OBVIOUS
  <1>1. CASE DoneCycle
    <2>1. TypeOK'
      BY <1>1, ControllerAssumption
         DEF DoneCycle, ClearRunRegisters, descVars, next_run_active, Inv,
             TypeOK, DescriptorTypeOK, CounterTypeOK
    <2>2. PhaseInv' /\ RunReplicaInSync'
      BY <1>1
         DEF DoneCycle, ClearRunRegisters, descVars, next_run_active, Inv,
             PhaseInv, RunReplicaInSync, loop_descriptor_valid
    <2> QED  BY <2>1, <2>2 DEF Inv
  <1>2. CASE Reset
    <2>1. Zeroes \in [Fields -> Nat]
      BY DEF Zeroes
    <2>2. TypeOK'
      <3>1. DescriptorTypeOK'
        BY <1>2, <2>1 DEF Reset, DescriptorTypeOK
      <3>2. CounterTypeOK'
        BY <1>2, ControllerAssumption
           DEF Reset, ClearRunRegisters, CounterTypeOK
      <3> QED  BY <1>2, <3>1, <3>2 DEF Reset, ClearRunRegisters, TypeOK
    <2>3. PhaseInv' /\ RunReplicaInSync'
      BY <1>2 DEF Reset, ClearRunRegisters, PhaseInv, RunReplicaInSync
    <2> QED  BY <2>2, <2>3 DEF Inv
  <1>3. CASE UNCHANGED vars
    BY <1>3
       DEF vars, descVars, phaseVars, Inv, TypeOK, DescriptorTypeOK, CounterTypeOK, PhaseInv,
           RunReplicaInSync, loop_descriptor_valid
  <1> QED
    BY <1>1, <1>2, <1>3, ConfigCycleInv, HostStartInv, RunStepInv DEF Next

\* Every reachable state of the sequencer satisfies the invariant.
THEOREM Invariance == Spec => []Inv
  BY InitInv, NextInv, PTL DEF Spec

\* Type correctness of the sequencer of cgra_top.sv.
THEOREM TypeCorrect == Spec => []TypeOK
  <1>1. Inv => TypeOK
    BY DEF Inv
  <1> QED  BY <1>1, Invariance, PTL

\* The run_active replicas never diverge from the architectural state as long
\* as no host writes LOOP_COMMIT in the cycle of start.
THEOREM ReplicaInSync == Spec => []RunReplicaInSync
  <1>1. Inv => RunReplicaInSync
    BY DEF Inv
  <1> QED  BY <1>1, Invariance, PTL

\* The counters of a run always stand where the descriptor says; in particular
\* the default arm of the phase case (AbandonRun) is never taken.
THEOREM PhaseCorrect == Spec => [](PhaseInv /\ ~(state = "RUN" /\ loop_committed /\ loop_phase = "FLAT"))
  <1>1. Inv => PhaseInv /\ ~(state = "RUN" /\ loop_committed /\ loop_phase = "FLAT")
    BY DEF Inv, PhaseInv
  <1> QED  BY <1>1, Invariance, PTL

-----------------------------------------------------------------------------
(* Refinement                                                              *)

\* A reset or CONFIG state is mapped to an idle abstract state.
LEMMA InitRefines == Init => Replay!Init
  BY DEF Init, Replay!Init, absMode, absLoop, absPos, absTotal

\* In CONFIG the abstract machine installs or withdraws a descriptor.
LEMMA ConfigCycleRefines ==
    ASSUME Inv, Inv', ConfigCycle
    PROVE  Replay!Install
  <1>1. /\ state = "CONFIG" /\ state' = "CONFIG"
        /\ kernel_pc = 0 /\ kernel_pc' = 0
    BY DEF ConfigCycle, ClearRunRegisters, Inv, PhaseInv
  <1>2. absLoop' = NoLoop \/ Replay!LegalDescriptor(absLoop')
    BY DEF Inv, TypeOK, DescriptorTypeOK, PhaseInv, absLoop,
           Replay!LegalDescriptor, Replay!Descriptors, Fields,
           loop_descriptor_valid
  <1> QED
    BY <1>1, <1>2 DEF Replay!Install, absMode, absPos, absTotal

\* The committed descriptor is what the abstract machine runs.
LEMMA CommittedIsLoop ==
    ASSUME Inv, loop_committed
    PROVE  /\ absLoop = loop_desc
           /\ absLoop # NoLoop
           /\ loop_desc["prologue"] \in 0 .. CTRL_MEM_DEPTH - 1
           /\ loop_desc["ii"] \in 1 .. CTRL_MEM_DEPTH
           /\ loop_desc["trip"] \in Nat \ {0}
           /\ loop_desc["epilogue"] \in 0 .. CTRL_MEM_DEPTH
  <1>1. loop_desc \in [Fields -> Nat] /\ loop_descriptor_valid(loop_desc)
    BY DEF Inv, TypeOK, DescriptorTypeOK, PhaseInv
  <1> QED
    BY <1>1, DescriptorBounds, ControllerAssumption DEF absLoop, Fields

\* The middle branch of the expansion.
LEMMA KernelPc ==
    ASSUME NEW d, NEW i, ~(i < d["prologue"]),
           i < d["prologue"] + d["trip"] * d["ii"]
    PROVE  Replay!LoopPc(d, i)
             = d["prologue"] + ((i - d["prologue"]) % d["ii"])
  BY DEF Replay!LoopPc

\* The addresses of the expansion, phase by phase.
LEMMA ExpansionPc ==
    ASSUME NEW d, d # NoLoop, d["prologue"] \in Nat, d["ii"] \in Nat \ {0},
           d["trip"] \in Nat \ {0}
    PROVE  /\ \A i \in 0 .. d["prologue"] - 1 : Replay!PcAt(d, i) = i
           /\ \A k \in 0 .. d["trip"] - 1, s \in 0 .. d["ii"] - 1 :
                 Replay!PcAt(d, d["prologue"] + k * d["ii"] + s)
                   = d["prologue"] + s
           /\ \A i \in Nat :
                 Replay!PcAt(d, d["prologue"] + d["trip"] * d["ii"] + i)
                   = d["prologue"] + d["ii"] + i
  <1> SUFFICES ASSUME NEW P \in Nat, NEW II \in Nat \ {0},
                        NEW N \in Nat \ {0},
                        d["prologue"] = P, d["ii"] = II, d["trip"] = N
                 PROVE  /\ \A i \in 0 .. P - 1 : Replay!PcAt(d, i) = i
                        /\ \A k \in 0 .. N - 1, s \in 0 .. II - 1 :
                              Replay!PcAt(d, P + k * II + s) = P + s
                        /\ \A i \in Nat :
                              Replay!PcAt(d, P + N * II + i) = P + II + i
    BY Zenon
  <1>1. \A i \in 0 .. P - 1 : Replay!PcAt(d, i) = i
    BY DEF Replay!PcAt, Replay!LoopPc
  <1>2. ASSUME NEW k \in 0 .. N - 1, NEW s \in 0 .. II - 1
        PROVE  Replay!PcAt(d, P + k * II + s) = P + s
    <2> DEFINE q == k * II + s
    <2>1. q \in Nat /\ q < N * II /\ N * II \in Nat
      BY Periods
    <2>2. q % II = s
      BY PeriodPosition
    <2>3. P + k * II + s = P + q /\ P + q - P = q
      BY Periods
    <2>4. ASSUME NEW i, i = P + q
          PROVE  Replay!PcAt(d, i) = P + (q % II)
      <3> HIDE DEF q
      <3>1. /\ ~(i < d["prologue"])
            /\ i < d["prologue"] + d["trip"] * d["ii"]
            /\ i - d["prologue"] = q
        BY <2>1, <2>4
      <3>2. Replay!LoopPc(d, i)
              = d["prologue"] + ((i - d["prologue"]) % d["ii"])
        BY <3>1, KernelPc
      <3> QED  BY <3>1, <3>2 DEF Replay!PcAt
    <2> QED  BY <2>2, <2>3, <2>4
  <1>3. ASSUME NEW i \in Nat
        PROVE  Replay!PcAt(d, P + N * II + i) = P + II + i
    <2>1. N * II \in Nat /\ (N - 1) * II + II = N * II /\ (N - 1) * II \in Nat
      BY SMT
    <2>2. ~(P + N * II + i < P) /\ ~(P + N * II + i < P + N * II)
      BY <2>1
    <2>3. P + N * II + i - (N - 1) * II = P + II + i
      BY <2>1
    <2> QED  BY <2>2, <2>3 DEF Replay!PcAt, Replay!LoopPc
  <1> QED  BY <1>1, <1>2, <1>3

\* Start of a run: position 0 of the flat or the expanded run.
LEMMA HostStartRefines ==
    ASSUME Inv, Inv', HostStart
    PROVE  Replay!Start
  <1> PICK rc \in RunCycles : Start(rc) /\ NoCommitWrite
    BY DEF HostStart
  <1>1. /\ state = "CONFIG" /\ state' = "RUN"
        /\ UNCHANGED <<loop_desc, loop_committed>>
        /\ loop_kernel_slot' = 0 /\ loop_iteration' = 0
    BY DEF Start, NoCommitWrite, WriteShadow, descVars
  <1>2. absMode = "idle" /\ absMode' = "running" /\ UNCHANGED absLoop
    BY <1>1 DEF absMode, absLoop
  <1>3. CASE ~loop_committed
    <2>1. kernel_pc' = 0 /\ cycles_left' = rc
      BY <1>3 DEF Start, StartLoop, StartFlat
    <2>2. absLoop = NoLoop /\ absPos' = 0 /\ absTotal' = rc
      BY <1>1, <1>3, <2>1, ControllerAssumption DEF absLoop, absPos, absTotal
    <2> QED
      BY <1>2, <2>1, <2>2 DEF Replay!Start, Replay!PcAt
  <1>4. CASE loop_committed
    <2> DEFINE P == loop_desc["prologue"]
               II == loop_desc["ii"]
               N == loop_desc["trip"]
               E == loop_desc["epilogue"]
    <2>1. /\ absLoop = loop_desc /\ absLoop # NoLoop
          /\ P \in Nat /\ P < CTRL_MEM_DEPTH
          /\ II \in Nat \ {0} /\ N \in Nat \ {0} /\ E \in Nat
      BY <1>4, CommittedIsLoop, ControllerAssumption
    <2>2. absTotal' = Replay!LoopCycles(absLoop)
      BY <1>1, <1>4, <2>1 DEF absTotal, Replay!LoopCycles
    <2>3. absPos' = 0 /\ kernel_pc' = 0
      <3>1. CASE P # 0
        BY <1>1, <1>4, <2>1, <3>1 DEF Start, StartLoop, StartFlat, absPos
      <3>2. CASE P = 0
        <4>1. loop_phase' = "KERNEL" /\ kernel_pc' = 0
          BY <1>4, <2>1, <3>2, PcIdentity DEF Start, StartLoop, StartFlat
        <4> QED
          BY <1>1, <1>4, <2>1, <3>2, <4>1 DEF absPos
      <3> QED  BY <3>1, <3>2
    <2>4. Replay!PcAt(absLoop, 0) = 0
      <3>1. CASE P # 0
        BY <2>1, <3>1 DEF Replay!PcAt, Replay!LoopPc
      <3>2. CASE P = 0
        <4>1. 0 \in 0 .. N - 1 /\ 0 \in 0 .. II - 1 /\ P + 0 * II + 0 = 0
          BY <2>1, <3>2
        <4>2. \A k \in 0 .. N - 1, s \in 0 .. II - 1 :
                 Replay!PcAt(loop_desc, P + k * II + s) = P + s
          <5>1. loop_desc # NoLoop
            BY <2>1
          <5> QED  BY <2>1, <5>1, ExpansionPc, Zenon
        <4>3. Replay!PcAt(loop_desc, P + 0 * II + 0) = P + 0
          BY <4>1, <4>2
        <4> QED  BY <2>1, <3>2, <4>1, <4>3
      <3> QED  BY <3>1, <3>2
    <2> QED
      BY <1>2, <2>1, <2>2, <2>3, <2>4 DEF Replay!Start
  <1> QED  BY <1>3, <1>4

\* Every cycle of a run is the next cycle of the expansion, or its end.
LEMMA RunStepRefines ==
    ASSUME Inv, Inv', RunStep
    PROVE  Replay!Advance \/ Replay!Finish
  <1> DEFINE P == loop_desc["prologue"]
             II == loop_desc["ii"]
             N == loop_desc["trip"]
             E == loop_desc["epilogue"]
  <1>0. /\ state = "RUN" /\ absMode = "running"
        /\ loop_desc' = loop_desc
        /\ loop_committed' = loop_committed
        /\ UNCHANGED absLoop
    <2>1. RunCycle
      BY DEF RunStep, FinishLoop, PrologueCycle, KernelSlot,
             KernelIteration, EnterEpilogue, EpilogueCycle, FinishFlat,
             FlatCycle, LoopStep
    <2> QED  BY <2>1 DEF RunCycle, descVars, absMode, absLoop
  <1>1. TypeOK /\ PhaseInv
    BY DEF Inv
  <1>2. loop_committed =>
           /\ absLoop = loop_desc /\ absLoop # NoLoop
           /\ P \in Nat /\ II \in Nat \ {0} /\ N \in Nat \ {0} /\ E \in Nat
           /\ N * II \in Nat
           /\ absTotal = P + N * II + E
    BY <1>0, CommittedIsLoop, ControllerAssumption DEF absTotal
  <1>3. CASE FinishFlat
    <2>1. absPos = kernel_pc /\ absTotal = kernel_pc + 1
      BY <1>0, <1>1, <1>3
         DEF FinishFlat, absPos, absTotal, TypeOK, CounterTypeOK, PhaseInv
    <2>2. state' = "DONE" /\ kernel_pc' = kernel_pc
      BY <1>3 DEF FinishFlat
    <2>3. absPos + 1 = absTotal
      BY <2>1
    <2>4. absMode' = "done" /\ absPos' = 0 /\ absTotal' = 0
      BY <2>2 DEF absMode, absPos, absTotal
    <2> QED  BY <1>0, <2>2, <2>3, <2>4 DEF Replay!Finish
  <1>4. CASE FlatCycle
    <2>1. /\ kernel_pc \in Nat /\ kernel_pc' = kernel_pc + 1
          /\ cycles_left \in Nat /\ cycles_left > 1
          /\ cycles_left' = cycles_left - 1
          /\ ~loop_committed /\ state' = "RUN"
      BY <1>0, <1>1, <1>4, ControllerAssumption, PcIdentity
         DEF FlatCycle, TypeOK, CounterTypeOK, PhaseInv
    <2>2. /\ absPos = kernel_pc /\ absPos' = absPos + 1
          /\ absTotal' = absTotal /\ absPos + 1 < absTotal
          /\ absLoop = NoLoop /\ absMode' = "running"
      BY <1>0, <2>1 DEF absPos, absTotal, absLoop, absMode
    <2> QED
      BY <1>0, <2>1, <2>2 DEF Replay!Advance, Replay!PcAt
  <1>5. CASE FinishLoop
    <2>1. loop_committed /\ state' = "DONE" /\ kernel_pc' = kernel_pc
      BY <1>5 DEF FinishLoop, loop_last_cycle
    <2>2. absPos + 1 = absTotal
      <3>1. CASE loop_phase = "EPILOGUE"
        <4>1. loop_phase_count = 1
          BY <1>0, <1>1, <1>2, <1>5, <2>1, <3>1
             DEF FinishLoop, loop_last_cycle, PhaseInv
        <4>2. absPos = P + N * II + E - loop_phase_count
          BY <1>0, <2>1, <3>1 DEF absPos
        <4> QED  BY <1>2, <2>1, <4>1, <4>2
      <3>2. CASE loop_phase = "KERNEL"
        <4>1. /\ loop_kernel_slot = II - 1 /\ E = 0
              /\ loop_iteration = N - 1
          BY <1>0, <1>1, <1>2, <1>5, <2>1, <3>2
             DEF FinishLoop, loop_last_cycle, PhaseInv, TypeOK, CounterTypeOK
        <4>2. absPos = P + loop_iteration * II + loop_kernel_slot
          BY <1>0, <2>1, <3>2 DEF absPos
        <4>3. (N - 1) * II + II = N * II /\ (N - 1) * II \in Nat
          BY <1>2, <2>1, SMT
        <4> QED  BY <1>2, <2>1, <4>1, <4>2, <4>3
      <3> QED  BY <1>5, <3>1, <3>2 DEF FinishLoop, loop_last_cycle
    <2>3. absMode' = "done" /\ absPos' = 0 /\ absTotal' = 0
      BY <2>1 DEF absMode, absPos, absTotal
    <2> QED  BY <1>0, <2>1, <2>2, <2>3 DEF Replay!Finish
  <1>6. ASSUME PrologueCycle \/ KernelSlot \/ KernelIteration
               \/ EnterEpilogue \/ EpilogueCycle
        PROVE  Replay!Advance
    <2>1. loop_committed /\ state' = "RUN" /\ absMode' = "running"
          /\ absTotal' = absTotal
      <3>1. LoopStep /\ UNCHANGED state
        BY <1>6 DEF PrologueCycle, KernelSlot, KernelIteration,
                    EnterEpilogue, EpilogueCycle
      <3> QED  BY <1>0, <3>1 DEF LoopStep, absMode, absTotal
    <2>2. /\ \A i \in 0 .. P - 1 : Replay!PcAt(loop_desc, i) = i
          /\ \A k \in 0 .. N - 1, s \in 0 .. II - 1 :
                Replay!PcAt(loop_desc, P + k * II + s) = P + s
          /\ \A i \in Nat : Replay!PcAt(loop_desc, P + N * II + i) = P + II + i
      <3>1. loop_desc # NoLoop
        BY <1>2, <2>1
      <3> QED  BY <1>2, <2>1, <3>1, ExpansionPc, Zenon
    <2>3. SUFFICES /\ absPos' = absPos + 1
                   /\ absPos + 1 < absTotal
                   /\ kernel_pc' = Replay!PcAt(loop_desc, absPos + 1)
      BY <1>0, <1>2, <2>1 DEF Replay!Advance
    <2>4. CASE PrologueCycle
      <3>1. /\ loop_phase = "PROLOGUE"
            /\ loop_phase_count \in 1 .. P
            /\ kernel_pc = P - loop_phase_count
            /\ absPos = kernel_pc
        BY <1>0, <1>1, <2>1, <2>4 DEF PrologueCycle, PhaseInv, absPos
      <3>2. CASE loop_phase_count =< 1
        <4>1. /\ loop_phase' = "KERNEL" /\ loop_kernel_slot' = 0
              /\ loop_iteration' = 0
          BY <1>0, <1>1, <2>1, <2>4, <3>2
             DEF PrologueCycle, EnterKernel, PhaseInv
        <4>2. kernel_pc' = P
          BY <1>0, <2>1, <4>1, <1>2 DEF Inv, PhaseInv
        <4>3. absPos' = P /\ absPos + 1 = P
          BY <1>0, <1>2, <2>1, <3>1, <3>2, <4>1 DEF absPos
        <4>4. N * II >= II /\ P + 0 * II + 0 = P
          BY <1>2, <2>1, SMT
        <4>5. Replay!PcAt(loop_desc, P + 0 * II + 0) = P + 0
          BY <1>2, <2>1, <2>2
        <4> QED  BY <1>2, <2>1, <4>2, <4>3, <4>4, <4>5
      <3>3. CASE ~(loop_phase_count =< 1)
        <4>1. loop_phase' = "PROLOGUE"
              /\ loop_phase_count' = loop_phase_count - 1
          BY <2>4, <3>1, <3>3 DEF PrologueCycle
        <4>2. kernel_pc' = P - (loop_phase_count - 1) /\ absPos' = kernel_pc'
          BY <1>0, <2>1, <4>1 DEF Inv, PhaseInv, absPos
        <4>3. absPos + 1 \in 0 .. P - 1 /\ kernel_pc' = absPos + 1
          BY <1>2, <2>1, <3>1, <3>3, <4>2
        <4> QED  BY <1>2, <2>1, <2>2, <4>2, <4>3
      <3> QED  BY <3>2, <3>3
    <2>5. CASE KernelSlot \/ KernelIteration \/ EnterEpilogue
      <3>1. /\ loop_phase = "KERNEL"
            /\ loop_kernel_slot \in 0 .. II - 1
            /\ loop_iterations_left \in 1 .. N
            /\ loop_iteration = N - loop_iterations_left
            /\ loop_iteration \in 0 .. N - 1
        BY <1>0, <1>1, <1>2, <2>1, <2>5
           DEF KernelSlot, KernelIteration, EnterEpilogue, PhaseInv, TypeOK,
               CounterTypeOK
      <3>2. absPos = P + loop_iteration * II + loop_kernel_slot
        BY <1>0, <2>1, <3>1 DEF absPos
      <3>3. /\ loop_iteration * II \in Nat
            /\ (loop_iteration + 1) * II = loop_iteration * II + II
            /\ loop_iteration * II + II =< N * II
        BY <1>2, <2>1, <3>1, Periods
      <3>4. CASE KernelSlot
        <4>1. /\ loop_phase' = "KERNEL" /\ loop_iteration' = loop_iteration
              /\ loop_kernel_slot' = loop_kernel_slot + 1
              /\ loop_kernel_slot + 1 \in 0 .. II - 1
              /\ kernel_pc' = P + (loop_kernel_slot + 1)
          <5>1. /\ loop_phase' = "KERNEL" /\ loop_iteration' = loop_iteration
                /\ loop_kernel_slot + 1 < II
                /\ loop_kernel_slot' = Pc(loop_kernel_slot + 1)
            BY <3>1, <3>4 DEF KernelSlot
          <5>2. loop_kernel_slot' = loop_kernel_slot + 1
            BY <1>2, <2>1, <3>1, <5>1, CommittedIsLoop, PcIdentity,
               ControllerAssumption
          <5> QED
            BY <1>0, <1>2, <2>1, <3>1, <5>1, <5>2 DEF Inv, PhaseInv
        <4>2. absPos' = P + loop_iteration * II + (loop_kernel_slot + 1)
          BY <1>0, <2>1, <4>1 DEF absPos
        <4>3. absPos' = absPos + 1 /\ absPos + 1 < absTotal
          <5>1. PICK x \in Nat : x = loop_iteration * II
            BY <3>3
          <5>2. PICK y \in Nat : y = N * II
            BY <1>2, <2>1
          <5>3. /\ absPos = P + x + loop_kernel_slot
                /\ absPos' = P + x + (loop_kernel_slot + 1)
                /\ absTotal = P + y + E
                /\ x + II =< y
            BY <1>2, <2>1, <3>2, <3>3, <4>2, <5>1, <5>2
          <5>4. /\ P \in Nat /\ II \in Nat /\ E \in Nat
                /\ loop_kernel_slot \in Nat /\ loop_kernel_slot + 1 < II
            BY <1>2, <2>1, <3>1, <4>1
          <5> HIDE DEF P, II, E
          <5> QED  BY <5>3, <5>4
        <4>4. Replay!PcAt(loop_desc, absPos') = P + (loop_kernel_slot + 1)
          BY <2>2, <3>1, <4>1, <4>2
        <4> QED  BY <4>1, <4>3, <4>4
      <3>5. CASE KernelIteration
        <4>1. /\ loop_phase' = "KERNEL"
              /\ loop_iteration' = loop_iteration + 1
              /\ loop_kernel_slot' = 0 /\ loop_kernel_slot + 1 = II
              /\ loop_iterations_left > 1
          BY <1>2, <2>1, <3>1, <3>5 DEF KernelIteration
        <4>2. kernel_pc' = P + 0
          BY <1>0, <2>1, <4>1 DEF Inv, PhaseInv
        <4>3. absPos' = P + (loop_iteration + 1) * II + 0
          BY <1>0, <2>1, <4>1 DEF absPos
        <4>4. loop_iteration + 1 \in 0 .. N - 1
          BY <1>2, <2>1, <3>1, <4>1
        <4>5. (loop_iteration + 1) * II + II =< N * II
          BY <1>2, <2>1, <3>1, <4>4, Periods
        <4>6. absPos' = absPos + 1 /\ absPos + 1 < absTotal
          <5>1. absPos = P + loop_iteration * II + (II - 1)
            BY <1>2, <2>1, <3>1, <3>2, <4>1
          <5>2. absPos' = P + (loop_iteration * II + II)
            BY <1>2, <2>1, <3>1, <3>3, <4>3
          <5>3. loop_iteration * II + II + II =< N * II
            BY <3>3, <4>5
          <5> QED  BY <1>2, <2>1, <3>3, <5>1, <5>2, <5>3
        <4>7. Replay!PcAt(loop_desc, absPos') = P + 0
          BY <1>2, <2>1, <2>2, <4>3, <4>4
        <4> QED  BY <4>2, <4>6, <4>7
      <3>6. CASE EnterEpilogue
        <4>1. /\ loop_phase' = "EPILOGUE" /\ loop_phase_count' = E
              /\ loop_kernel_slot + 1 = II
              /\ loop_iteration = N - 1 /\ E # 0
          <5>1. /\ loop_phase' = "EPILOGUE" /\ loop_phase_count' = E
                /\ loop_kernel_slot + 1 >= II /\ loop_iterations_left =< 1
                /\ ~loop_last_cycle
            BY <3>6 DEF EnterEpilogue, LoopStep
          <5>2. E # 0
            BY <2>1, <3>1, <5>1 DEF loop_last_cycle
          <5> QED  BY <1>2, <2>1, <3>1, <5>1, <5>2
        <4>2. kernel_pc' = P + II
          BY <1>0, <1>2, <2>1, <4>1 DEF Inv, PhaseInv
        <4>3. absPos' = P + N * II + 0
          BY <1>0, <1>2, <2>1, <4>1 DEF absPos
        <4>4. (N - 1) * II + II = N * II /\ (N - 1) * II \in Nat
          BY <1>2, <2>1, SMT
        <4>5. absPos' = absPos + 1 /\ absPos + 1 < absTotal
          BY <1>2, <2>1, <3>1, <3>2, <3>3, <4>1, <4>3, <4>4
        <4>6. Replay!PcAt(loop_desc, absPos') = P + II + 0
          BY <2>2, <4>3
        <4> QED  BY <1>2, <2>1, <4>2, <4>5, <4>6
      <3> QED  BY <2>5, <3>4, <3>5, <3>6
    <2>6. CASE EpilogueCycle
      <3>1. /\ loop_phase = "EPILOGUE" /\ loop_phase' = "EPILOGUE"
            /\ loop_phase_count' = loop_phase_count - 1
            /\ loop_phase_count \in 1 .. E
        BY <1>0, <1>1, <2>1, <2>6 DEF EpilogueCycle, PhaseInv
      <3>2. loop_phase_count > 1
        BY <1>2, <2>1, <2>6, <3>1 DEF EpilogueCycle, LoopStep, loop_last_cycle
      <3>3. absPos = P + N * II + E - loop_phase_count
        BY <1>0, <2>1, <3>1 DEF absPos
      <3>4. absPos' = P + N * II + E - (loop_phase_count - 1)
        BY <1>0, <2>1, <3>1 DEF absPos
      <3>5. kernel_pc' = P + II + E - (loop_phase_count - 1)
        BY <1>0, <2>1, <3>1 DEF Inv, PhaseInv
      <3>6. absPos' = absPos + 1 /\ absPos + 1 < absTotal
        BY <1>2, <2>1, <3>1, <3>2, <3>3, <3>4
      <3>7. PICK i \in Nat : i = E - (loop_phase_count - 1)
        BY <1>2, <2>1, <3>1
      <3>8. absPos' = P + N * II + i /\ kernel_pc' = P + II + i
        BY <1>2, <2>1, <3>1, <3>4, <3>5, <3>7
      <3>9. Replay!PcAt(loop_desc, absPos') = P + II + i
        BY <2>2, <3>8
      <3> QED  BY <3>6, <3>8, <3>9
    <2> QED  BY <1>6, <2>4, <2>5, <2>6
  <1> QED  BY <1>3, <1>4, <1>5, <1>6 DEF RunStep

\* Every transition of the sequencer is a transition or a stutter of LoopReplay.
LEMMA NextRefines ==
    ASSUME Inv, Inv', [Next]_vars
    PROVE  [Replay!Next]_(Replay!vars)
  <1>1. CASE DoneCycle
    <2>1. /\ state = "DONE" /\ state' = "CONFIG" /\ kernel_pc' = 0
          /\ UNCHANGED absLoop
      BY <1>1 DEF DoneCycle, ClearRunRegisters, descVars, absLoop
    <2> QED
      BY <2>1 DEF Replay!Next, Replay!Acknowledge, absMode, absPos, absTotal
  <1>2. CASE Reset
    <2>1. state' = "CONFIG" /\ kernel_pc' = 0 /\ absLoop' = NoLoop
      BY <1>2 DEF Reset, ClearRunRegisters, absLoop
    <2> QED
      BY <2>1 DEF Replay!Next, Replay!Reset, absMode, absPos, absTotal
  <1>3. CASE UNCHANGED vars
    BY <1>3 DEF vars, descVars, phaseVars, Replay!vars, absMode, absLoop,
                absPos, absTotal
  <1>4. CASE ConfigCycle
    BY <1>4, ConfigCycleRefines DEF Replay!Next
  <1>5. CASE HostStart
    BY <1>5, HostStartRefines DEF Replay!Next
  <1>6. CASE RunStep
    BY <1>6, RunStepRefines DEF Replay!Next
  <1> QED  BY <1>1, <1>2, <1>3, <1>4, <1>5, <1>6 DEF Next

\* A transition that stays in a run is the next step of the expansion.
LEMMA StepAdvances ==
    ASSUME Inv, Inv', Next, state = "RUN", state' = "RUN"
    PROVE  absPos' = absPos + 1
  <1>1. RunStep
    BY DEF Next, ConfigCycle, HostStart, Start, DoneCycle, Reset
  <1>2. CASE Replay!Advance
    BY <1>2 DEF Replay!Advance
  <1>3. CASE Replay!Finish
    BY <1>3 DEF Replay!Finish, absMode
  <1> QED  BY <1>1, <1>2, <1>3, RunStepRefines

\* For every descriptor, depth and run length, a run never spends two clock
\* edges on one step of the expansion.
THEOREM StepPerCycle == Spec => OneStepPerCycle
  <1>1. Inv /\ Inv' /\ [Next]_vars
          => [state = "RUN" /\ state' = "RUN" => absPos' = absPos + 1]_vars
    BY StepAdvances
  <1> QED
    BY <1>1, Invariance, PTL DEF Spec, OneStepPerCycle

\* For every descriptor, depth and run length, the sequencer of cgra_top.sv
\* presents exactly the addresses of the golden model's expansion.
THEOREM ReplayCorrect == Spec => ReplaySpec
  <1>1. Inv /\ Inv' /\ [Next]_vars => [Replay!Next]_(Replay!vars)
    BY NextRefines
  <1> QED
    BY <1>1, InitRefines, Invariance, PTL DEF Spec, ReplaySpec, Replay!Spec
=============================================================================
