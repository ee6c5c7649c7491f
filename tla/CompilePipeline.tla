--------------------------- MODULE CompilePipeline --------------------------
(***************************************************************************)
(* The compiler from a loop to its control words: tools/llvm-loop-lower,   *)
(* then compileKernel (ABI/CompileKernel.cpp) around compileGenericDFG     *)
(* (CompileDFG.cpp), and the replay of the result.  A job enters as a      *)
(* loop, as a kernel or as a graph.                                        *)
(*                                                                         *)
(*   select -> convert -> verify -> bind -> legalize -> map <-> stage, rf  *)
(*     -> materialize -> lower -> replay                                   *)
(*                                                                         *)
(* The mapper is what its own module shows it to be: it offers any mapping *)
(* that ModuloMappingVerifier accepts, BackendFeasibilityChecker gives it  *)
(* stages and registers or rejects it, and a rejected one is followed by   *)
(* another, or by giving up.  The accepted candidate is staged and         *)
(* allocated again by the pipeline, with the same result.                  *)
(***************************************************************************)
EXTENDS ProgramReplay, LoopSemantics

CONSTANT MaxRejected    \* bound: candidates rejected before the mapper gives up

VARIABLES
    phase,
    rejected,    \* postMappingRejected
    result       \* <<CompileDFGStatus or KernelCompileStatus, reason>>

vars == <<job, kernel, loop, frontend, target, dfg, mapping, rfVars, budget, request, frame, schedule,
          program, replayVars, phase, rejected, result>>

frontVars == <<job, kernel, loop, frontend, target, budget, request>>
scheduleVars == <<frame, schedule, program>>
backVars == <<rfVars, scheduleVars, replayVars>>

Pending == <<"none", "none">>

Init ==
    /\ job \in DOMAIN Jobs
    /\ target = Jobs[job].target /\ budget = Jobs[job].budget
    /\ request = [tripCount |-> Invocation.tripCount] @@ Jobs[job].request
    /\ dfg = <<>> /\ mapping = <<>> /\ frame = <<>> /\ schedule = <<>> /\ program = <<>>
    /\ RFInit /\ ReplayInit
    /\ loop = <<>> /\ frontend = <<>>
    /\ phase = [loop |-> "select", kernel |-> "bind", dfg |-> "legalize"][Jobs[job].entry]
    /\ kernel = IF phase = "select" THEN <<>> ELSE Jobs[job].source
    /\ rejected = 0 /\ result = Pending

Fail(status, reason) == phase' = "done" /\ result' = <<status, reason>>
Go(to) == phase' = to /\ UNCHANGED result

-----------------------------------------------------------------------------
(* The LLVM frontend                                                       *)

graphVars == <<job, target, budget, request, dfg, mapping, backVars, rejected>>

SelectLoop ==
    /\ phase = "select"
    /\ LET loops == Jobs[job].source.loops
           wanted == Jobs[job].source.wanted
           status == selectStatusOf(loops, wanted)
       IN  IF status = "Success" THEN loop' = selectLoop(loops, wanted) /\ Go("convert")
           ELSE Fail("FrontendFailure", status) /\ UNCHANGED loop
    /\ UNCHANGED <<graphVars, kernel, frontend>>

LowerLoop ==
    /\ phase = "convert"
    /\ IF loweringStatus # "Success"
       THEN Fail("FrontendFailure", loweringStatus) /\ UNCHANGED frontend
       ELSE LET lowered == lowerLoop
                status == graphStatus(lowered.dfg)
            IN  IF status = "Success" THEN frontend' = lowered /\ Go("verify")
                ELSE Fail("FrontendFailure", status) /\ UNCHANGED frontend
    /\ UNCHANGED <<graphVars, kernel, loop>>

\* The graph is compared with the loop and the invocation with what is known
\* of the trip count.
VerifyLoop ==
    /\ phase = "verify"
    /\ CASE ~verifyFrontendResult ->
              Fail("FrontendFailure", "VerificationFailure") /\ UNCHANGED kernel
         [] staticTripCount(Invocation) # Invocation.tripCount ->
              Fail("FrontendFailure", "FrontendInvocationMismatch") /\ UNCHANGED kernel
         [] OTHER -> kernel' = frontend.dfg /\ Go("bind")
    /\ UNCHANGED <<graphVars, loop, frontend>>

-----------------------------------------------------------------------------
(* The front: ABI binding and legalisation                                 *)

kernelStatus(bind) ==
    CASE bind = "InvalidSourceDFG" -> "InvalidSourceDFG"
      [] bind = "InvalidInvocation" -> "InvalidInvocation"
      [] OTHER -> "ABIBindingFailure"

Bind ==
    /\ phase = "bind"
    /\ LET status == bindStatus(target, Source, Invocation)
       IN  IF status = "Success" THEN Go("legalize") ELSE Fail(kernelStatus(status), status)
    /\ UNCHANGED <<frontVars, dfg, mapping, backVars, rejected>>

Graph == IF Jobs[job].entry = "dfg" THEN Source ELSE Bound.g

legalizeStatus(diagnostics) ==
    CASE diagnostics = {"InvalidGenericDFG"} -> "GenericDFGVerificationFailure"
      [] diagnostics # {} -> "TargetLegalizationFailure"
      [] ~TargetDFGVerified(target, Graph, legalize(target, Graph)) ->
            "TargetDFGVerificationFailure"
      [] OTHER -> "Success"

Legalize ==
    /\ phase = "legalize"
    /\ LET diagnostics == legalizationDiagnostics(target, Graph)
           status == legalizeStatus(diagnostics)
       IN  IF status = "Success"
           THEN dfg' = legalize(target, Graph) /\ Go("map")
           ELSE /\ Fail(status, IF diagnostics = {} THEN status
                                ELSE CHOOSE d \in diagnostics : TRUE)
                /\ UNCHANGED dfg
    /\ UNCHANGED <<frontVars, mapping, backVars, rejected>>

-----------------------------------------------------------------------------
(* Candidates                                                              *)

ceilDiv(a) == -((-a) \div ii)
minimumStageDelta(e) ==
    ceilDiv(requiredSeparation(e) - (mapping.slot[dfg.edges[e].dst]
                                       - mapping.slot[dfg.edges[e].src]))
      - dfg.edges[e].distance

\* The stages after k rounds over the edges; a round more than there are nodes
\* changes nothing unless no stages satisfy every edge.
Relaxed(rounds) ==
    LET delta == [e \in DOMAIN dfg.edges |-> minimumStageDelta(e)]
        after[k \in 0 .. rounds] ==
            IF k = 0 THEN [n \in Nodes |-> 0]
            ELSE [n \in Nodes |->
                    Max({after[k - 1][n]} \cup
                        {after[k - 1][dfg.edges[e].src] + delta[e] :
                            e \in {e \in DOMAIN dfg.edges : dfg.edges[e].dst = n}})]
    IN  after[rounds]
leastStages == Relaxed(Cardinality(Nodes))
StagesFeasible == Relaxed(Cardinality(Nodes) + 1) = leastStages

\* The mapper completes a candidate.
OfferCandidate ==
    /\ phase = "map" /\ rejected < MaxRejected
    /\ \E plan \in Jobs[job].plans :
         mapping' = [ii |-> plan.ii, tile |-> plan.tile, slot |-> plan.slot,
                     stage |-> [n \in Nodes |-> 0], actions |-> plan.actions]
    /\ Go("stage")
    /\ UNCHANGED <<frontVars, dfg, backVars, rejected>>
    /\ MappingVerified'

\* BackendFeasibilityChecker: a candidate without stages is rejected.
AssignStages ==
    /\ phase = "stage"
    /\ UNCHANGED <<frontVars, dfg, scheduleVars, replayVars,
                   segments, colors, trail, decisions, backtracks, alloc>>
    /\ IF ~StagesFeasible
       THEN /\ Go("map") /\ rejected' = rejected + 1 /\ mapping' = <<>>
            /\ UNCHANGED rfStatus
       ELSE /\ mapping' = [mapping EXCEPT !.stage = leastStages]
            /\ IF StagesVerified' THEN Go("rf") /\ rfStatus' = "analyze"
               ELSE Fail("MappingFailure", "verification_stage_failure") /\ UNCHANGED rfStatus
            /\ UNCHANGED rejected

GiveUp ==
    /\ phase = "map"
    /\ Fail("MappingFailure", "no_mapping")
    /\ UNCHANGED <<frontVars, dfg, mapping, backVars, rejected>>

Allocate ==
    /\ phase = "rf"
    /\ UNCHANGED <<frontVars, dfg, mapping, scheduleVars, replayVars, phase, rejected,
                   result>>
    /\ RFNext

\* An infeasible allocation rejects the candidate, a spent budget or a failed verification ends the
\* search.
Decide ==
    /\ phase = "rf" /\ rfStatus \in RFStatuses
    /\ CASE rfStatus = "Success" ->
              Go("collect") /\ UNCHANGED <<rfVars, mapping, rejected>>
         [] rfStatus \in RFRejections ->
              /\ Go("map") /\ rejected' = rejected + 1 /\ mapping' = <<>>
              /\ segments' = <<>> /\ colors' = <<>> /\ trail' = <<>>
              /\ decisions' = 0 /\ backtracks' = 0 /\ alloc' = <<>> /\ rfStatus' = "idle"
         [] OTHER -> Fail("MappingFailure", rfStatus) /\ UNCHANGED <<rfVars, mapping, rejected>>
    /\ UNCHANGED <<frontVars, dfg, scheduleVars, replayVars>>

-----------------------------------------------------------------------------
(* Behind the mapper                                                       *)

\* The first half of materialize, up to the time origin.
CollectEvents ==
    /\ phase = "collect"
    /\ IF tripCount = 0 \/ MissingBoundary
       THEN Fail("MaterializationFailure", materializeStatus) /\ UNCHANGED frame
       ELSE frame' = Frame /\ Go("materialize")
    /\ UNCHANGED <<frontVars, dfg, mapping, rfVars, schedule, program, replayVars, rejected>>

Materialize ==
    /\ phase = "materialize"
    /\ LET status == materializeStatus
       IN  IF status = "Success"
           THEN schedule' = Schedule /\ Go("lower")
           ELSE Fail("MaterializationFailure", status) /\ UNCHANGED schedule
    /\ UNCHANGED <<frontVars, dfg, mapping, rfVars, frame, program, replayVars, rejected>>

Lower ==
    /\ phase = "lower"
    /\ LET p == Program
           status == lowerStatus(p)
       IN  IF status = "Success"
           THEN program' = p /\ Go("replay")
           ELSE Fail("TargetLoweringFailure", status) /\ UNCHANGED program
    /\ UNCHANGED <<frontVars, dfg, mapping, rfVars, frame, schedule, replayVars, rejected>>

Replay ==
    /\ phase = "replay" /\ RunCycle
    /\ UNCHANGED <<frontVars, dfg, mapping, rfVars, scheduleVars, phase, rejected, result>>

Finish ==
    /\ phase = "replay" /\ (faults # {} \/ cycle = RunCycles)
    /\ Fail("Success", "none")
    /\ UNCHANGED <<frontVars, dfg, mapping, backVars, rejected>>

Terminated == phase = "done" /\ UNCHANGED vars

Next ==
    \/ SelectLoop \/ LowerLoop \/ VerifyLoop \/ Bind \/ Legalize \/ OfferCandidate \/ GiveUp \/ AssignStages \/ Allocate \/ Decide
    \/ CollectEvents \/ Materialize \/ Lower \/ Replay \/ Finish \/ Terminated

Spec == Init /\ [][Next]_vars

-----------------------------------------------------------------------------
(* The graph of a loop                                                     *)

Accepted == phase = "bind" /\ Jobs[job].entry = "loop"

\* A graph the frontend and its verifier accept does what the loop does: the
\* same addresses, the same words stored when its branch takes their arm, and
\* behind the loop the values of the last iteration.
LoopValuesAreKept ==
    Accepted =>
        LET trace == Trace(Invocation)
            values == NodeValues(kernel, Invocation, trace)
        IN  /\ \A k \in Accesses, i \in WholeIterations(trace) :
                  AccessKept(k, i, Invocation, trace, values)
            /\ \A o \in Range(loop.outs) : LiveOutKept(o, trace, values)

\* Its memory edges keep the order of any two accesses, of whatever iterations,
\* that touch one word and do not both read it.
MemoryOrderIsKept ==
    Accepted =>
        LET trace == Trace(Invocation)
            iterations == WholeIterations(trace)
        IN  \A a, b \in Accesses, i, j \in iterations :
               /\ i < j \/ (i = j /\ a < b)
               /\ Meet(a, i, b, j, Invocation, trace)
               => OrderKept(a, b, j - i) \/ ToldApartPerIteration(a, b)

-----------------------------------------------------------------------------
(* Registers                                                               *)

\* What storage analysis hands to the allocator: a list of stays in registers.
SegmentsListed ==
    segments \in Seq([edge : Nat, tile : Nat, domain : Domains, write : Int, read : Int,
                      origins : Seq(Nat)])

\* In absolute time, a value written at w is read at r; another write of its
\* register from w on, or at r where a register is not reused in the cycle of
\* its last read, destroys it.
Destroys(w, r, other) == other >= w /\ (other < r \/ (other = r /\ ~target.reuse))

\* Enough iterations that two values that ever meet do.
Unrolled == 0 .. 1 + Max({0} \cup {Duration(segments[s]) + segments[s].write
                                    : s \in DOMAIN segments}) \div ii

Clash(s, t) ==
    \E i, j \in Unrolled :
        /\ <<s, i>> # <<t, j>>
        /\ Destroys(segments[s].write + i * ii, segments[s].read + i * ii,
                    segments[t].write + j * ii)

\* RFAllocator decides with lifetimes taken modulo II (PeriodicLifetime.cpp);
\* over the iterations themselves no value is overwritten before its last use.
RegistersKeepTheirValue ==
    rfStatus = "Success" =>
        \A s, t \in DOMAIN segments :
            BankKey(s) = BankKey(t) /\ alloc[s].reg = alloc[t].reg => ~Clash(s, t)

NoColouring ==
    \E bank \in {BankKey(s) : s \in DOMAIN segments} :
        LET mine == {s \in DOMAIN segments : BankKey(s) = bank}
        IN  \A f \in [mine -> Range(target.banks[bank[2]].allocatable)] :
               \E s, t \in mine : f[s] = f[t] /\ Clash(s, t)

NoPorts(events, May(_)) ==
    \A f \in [events -> UNION {May(s) : s \in events}] :
        \/ \E s \in events : f[s] \notin May(s)
        \/ \E s, t \in events : s # t /\ f[s] = f[t]

\* BackendFeasibilityChecker throws a mapping away on the allocator's word: no
\* registers, or no ports, exist for the segments it rejected.
RejectionIsProof ==
    CASE rfStatus = "FixedRegisterSelfOverlap" -> \E s \in DOMAIN segments : Clash(s, s)
      [] rfStatus = "RegisterDepthInfeasible" -> NoColouring
      [] rfStatus = "ReadPortConflict" ->
            \E s \in DOMAIN segments :
                NoPorts(ReadsIn(s, Len(segments)), LAMBDA t : 0 .. Bank(t).readPorts - 1)
      [] rfStatus = "WritePortConflict" ->
            \E s \in DOMAIN segments :
                \/ NoPorts(WritesIn(s, Len(segments)),
                           LAMBDA t : AcceptingPorts(t, storageWriteSource(t)))
                \/ NoPorts({t \in DOMAIN segments : HasBoundary(t) /\ BankKey(t) = BankKey(s)
                                                    /\ BoundarySlot(t) = BoundarySlot(s)},
                           LAMBDA t : AcceptingPorts(t, boundaryWriteSource(t)))
      [] OTHER -> TRUE

-----------------------------------------------------------------------------
(* Stages and their verifiers                                              *)

\* What the lowering of a loop makes and its verifier, or the graph's, refuses:
\* the merge of a branch used inside the loop; a value of the loop control used
\* as data, which became an external; a select of its own on a condition that
\* was complemented for a store; an arm of several blocks, which only the
\* verifier looks for; and a carried value that no arithmetic computes, whose
\* uses are left without a provider.
DataPath == Body \cup InstsOf("Store") \cup MergePhis
MergeUsedInLoop == \E phi \in MergePhis : Users(phi) \cap DataPath # {}
ControlValueUsed ==
    \E k \in DataPath : \E j \in OperandInsts(k) \ DataPath : ~IsOp(j, "PHI")
ConditionShared ==
    /\ storePredicateComplemented
    /\ \E k \in InstsOf("Select") : Inst(k).args[1] = RegionCondition
ArmOfSeveralBlocks == HasRegion /\ branchMerge(ConditionBlock) # MergeBlock
CarriedWithoutArithmetic ==
    \E phi \in HeaderPhis \ recurrences : Users(phi) \cap DataPath # {}

\* A value that is held and then sent on.
HoldThenLink == \E e \in ValueEdges : \E i \in Links(e) : IsHold(e, i - 1)


\* Where and when a word needs which constant: the operands of a node, and the
\* boundary value of an edge where it is produced and wherever it is stored.
NodeConstants ==
    {<<mapping.tile[b.node], logicalIssueTime(b.node) + i * ii, dfg.constants[b.value[2]]>>
        : b \in {b \in dfg.bindings : b.value[1] = "const"}, i \in 0 .. tripCount - 1}

Entering(e, o) ==
    LET v == dfg.edges[e].boundary[o + 1].value
        ago == (o - dfg.edges[e].distance) * ii
    IN  {<<mapping.tile[dfg.edges[e].src],
           logicalIssueTime(dfg.edges[e].src) + Op(dfg.edges[e].src).ready + ago,
           dfg.constants[v[2]]>>}
        \cup {<<segments[s].tile, segments[s].write + ago, dfg.constants[v[2]]>>
              : s \in {s \in DOMAIN segments : segments[s].edge = e}}

ConstantsCollide ==
    LET uses == NodeConstants \cup
                UNION {UNION {Entering(e, o) : o \in BoundaryOffsets(e)} : e \in ValueEdges}
    IN  \E u, v \in uses : u[1] = v[1] /\ u[2] = v[2] /\ u[3] # v[3]

\* A boundary value is written while another segment is, through its port.
BoundaryPortTaken ==
    \E s, t \in DOMAIN segments :
        /\ s # t /\ BankKey(s) = BankKey(t)
        /\ HasBoundary(s)
        /\ segments[s].write % ii = segments[t].write % ii
        /\ alloc[s].boundaryWritePort \in {alloc[t].writePort, alloc[t].boundaryWritePort}

\* After the mapper's feasibility check accepted a mapping, compilation fails
\* only for want of something the check does not look at.
LateFailureHasCause ==
    CASE result[2] = "InvalidTripCount" -> tripCount = 0
      [] result = <<"MaterializationFailure", "MaterializationBudgetExceeded">> ->
            \/ Total > request.maxCycles
            \/ Cardinality(AllInstances) > request.maxEvents
            \/ EpilogueWraps
      [] result[2] = "ConstantCapacityExceeded" ->
            Cardinality(Range(dfg.constants)) > target.constantDepth
      [] result[2] = "UnsupportedExternalProvider" ->
            Jobs[job].entry = "dfg" /\ Source.externals # <<>>
      [] result[2] = "ControlFieldConflict" -> ConstantsCollide \/ BoundaryPortTaken
      [] result = <<"TargetLoweringFailure", "VerificationFailure">> -> HoldThenLink
      [] OTHER -> result[1] \in {"MaterializationFailure", "TargetLoweringFailure"} => FALSE

-----------------------------------------------------------------------------
(* The program                                                             *)

\* The value of an iteration before the first is lowered as a constant; in the
\* kernel that constant would be repeated for later iterations.
BoundaryInKernel ==
    \E c \in DOMAIN schedule.kernel : \E ev \in schedule.kernel[c] :
        \/ ev.kind = "LinkLaunch" /\ IsBoundary(ev.id, ev.iter)
        \/ ev.kind = "RFWrite" /\ IsBoundary(segments[ev.id].edge, ev.iter)

BoundaryOutOfOrder ==
    \E e \in ValueEdges : \E i \in DOMAIN dfg.edges[e].boundary :
        dfg.edges[e].boundary[i].offset # i - 1

\* Replayed, the words issue every node of every iteration once and with the
\* operands of the source graph, unless the kernel froze a boundary value or
\* the boundary values are not listed in the order of their iterations.
ProgramComputesSource ==
    faults # {} => BoundaryInKernel \/ BoundaryOutOfOrder

\* RFAllocator.cpp:461: "Boundary instances are finite prologue events."
BoundaryStaysOutOfKernel == schedule # <<>> => ~BoundaryInKernel

\* KernelABIBinder: after a replay every live-out is in its word of the
\* scratchpad, with the value of the last iteration.
LiveOutsAreDelivered ==
    result[1] = "Success" /\ faults = {} /\ Jobs[job].entry # "dfg" =>
        \A l \in Range(Source.liveOuts) :
            Held(memory, Bound.outputs[l.id].address) = <<"node", l.source, tripCount - 1>>

=============================================================================
