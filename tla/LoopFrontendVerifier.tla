------------------------ MODULE LoopFrontendVerifier ------------------------
(***************************************************************************)
(* Frontend/LLVM/LLVMFrontendVerifier.cpp: the graph of a loop is compared *)
(* with the loop again, by the provenance that the lowering recorded: which*)
(* instruction a node stands for (the plan), which values are recurrences, *)
(* and how the branch was converted.                                       *)
(***************************************************************************)
EXTENDS LoopFrontend

VARIABLE frontend    \* [plan, dfg] of the lowered loop, <<>> before

dfgNodes == 0 .. Len(frontend.plan) - 1
Provenance(n) == frontend.plan[n + 1]
InstructionOf(n) == Provenance(n).inst
GenericNode(n) == frontend.dfg.nodes[n + 1]
ValueEdgesOf == {e \in Range(frontend.dfg.edges) : e.kind # "Memory"}
ConstantIs(id, type, bits) ==
    LET c == ById(frontend.dfg.constants, id) IN c.type = type /\ c.bits = bits

-----------------------------------------------------------------------------
(* The data path, found again                                              *)

\* An exit condition is control, unless a recurrence is computed from it.
removeRecurrenceProducerClosure ==
    terminationSlice \ producerClosure({phi \in HeaderPhis : /\ IsCanonical(phi)
                                                             /\ BackedgeSupported(phi)
                                                             /\ HasDataUse(phi)})
slice == removeRecurrenceProducerClosure

\* Every instruction of the data path has a node, and only those have.
SilentLoss ==
    \E k \in Insts : /\ Inst(k).op \notin {"Br", "PHI"} /\ k \notin slice
                     /\ \A n \in dfgNodes : InstructionOf(n) # k
NodeOutsideDataPath == \E n \in dfgNodes : InstructionOf(n) \in slice

-----------------------------------------------------------------------------
(* Providers                                                               *)

findProviderEdge(n, operand, kind) ==
    {e \in ValueEdgesOf : e.kind = kind /\ e.dst = n /\ e.operand = operand}

boundaryMatches(phi, boundary) ==
    LET initial == Initial(phi)
    IN  /\ Len(boundary) = 1 /\ boundary[1].offset = 0
        /\ IF initial[1] = "int"
           THEN /\ boundary[1].value[1] = "const"
                /\ ConstantIs(boundary[1].value[2], valueType(initial), initial[3])
           ELSE boundary[1].value = getExternal(initial)

carries(e, phi) ==
    /\ e.distance = 1 /\ ValueOf(InstructionOf(e.src)) = Backedge(phi)
    /\ boundaryMatches(phi, e.boundary)

\* A PHI that is no recurrence never matches: the merge of a branch may only
\* be used behind the loop.
providerMatches(v, n, operand) ==
    LET edges == findProviderEdge(n, operand, "Data")
        bound == {b.value : b \in {b \in frontend.dfg.bindings : b.node = n /\ b.operand = operand}}
    IN  IF IsInst(v, "PHI")
        THEN v[2] \in recurrences /\ \E e \in edges : carries(e, v[2])
        ELSE \/ \E e \in edges : ValueOf(InstructionOf(e.src)) = v
             \/ \E x \in bound :
                   IF x[1] = "ext"
                   THEN /\ v[1] # "int" /\ x = getExternal(v)
                        /\ BitsOf(v) = 0 => v = getUnderlyingObject(v)
                   ELSE v[1] = "int" /\ ConstantIs(x[2], valueType(v), v[3])

\* Stores list their data first, and a complemented compare may be turned
\* around.  Operands count from 0.
correspondingLLVMOperand(k, operand) ==
    IF \/ isStore(k) /\ operand < 2
       \/ /\ IsOp(k, "ICmp") /\ storePredicateComplemented /\ RegionCondition = ValueOf(k)
          /\ complementSwapsOperands(Inst(k).pred)
    THEN 1 - operand ELSE operand

UsesAt(k, operand, v) ==
    LET o == correspondingLLVMOperand(k, operand)
    IN  o \in 0 .. Len(Inst(k).args) - 1 /\ Inst(k).args[o + 1] = v

-----------------------------------------------------------------------------
(* verifyFrontendResult: a single block                                    *)

verifyScalarNodes ==
    \A n \in dfgNodes : /\ HasOpcode(InstructionOf(n))
                        /\ GenericNode(n).opcode = Inst(InstructionOf(n)).op
                        /\ GenericNode(n).result = valueType(ValueOf(InstructionOf(n)))

verifyScalarEdges ==
    \A e \in Range(frontend.dfg.edges) :
        /\ e.kind = "Data"
        /\ LET v == Inst(InstructionOf(e.dst)).args[e.operand + 1]
           IN  IF e.distance = 0 THEN e.boundary = <<>> /\ v = ValueOf(InstructionOf(e.src))
               ELSE IsInst(v, "PHI") /\ v[2] \in recurrences /\ carries(e, v[2])

\* Every use of a recurrence in the data path is an edge.
verifyScalarUses ==
    \A phi \in recurrences :
        /\ \E e \in ValueEdgesOf : /\ e.distance = 1 /\ ValueOf(InstructionOf(e.src)) = Backedge(phi)
                                   /\ UsesAt(InstructionOf(e.dst), e.operand, ValueOf(phi))
        /\ \A u \in Users(phi) \ slice : Inst(u).op \notin {"Br", "ICmp"} =>
              \E e \in ValueEdgesOf : /\ InstructionOf(e.dst) = u /\ carries(e, phi)
                                      /\ UsesAt(u, e.operand, ValueOf(phi))

verifyExternals ==
    \A x \in Range(frontend.dfg.externals) :
        /\ \A k \in Insts : Supported(ValueOf(k)) => x.id # getExternal(ValueOf(k))[2]
        /\ \/ \E b \in frontend.dfg.bindings : b.value = <<"ext", x.id>>
           \/ \E e \in ValueEdgesOf : \E b \in Range(e.boundary) : b.value = <<"ext", x.id>>

verifyLiveOuts ==
    /\ \A l \in Range(frontend.dfg.liveOuts) : hasOutsideUse(InstructionOf(l.source))
    /\ IsIfConverted =>
          \A n \in dfgNodes : GenericNode(n).result # VoidTy /\ hasOutsideUse(InstructionOf(n)) =>
              \E l \in Range(frontend.dfg.liveOuts) : l.source = n

verifyScalarResult ==
    /\ DFGVerified(frontend.dfg) /\ ~NodeOutsideDataPath /\ ~SilentLoss
    /\ verifyScalarNodes /\ verifyScalarEdges /\ verifyScalarUses
    /\ verifyExternals /\ verifyLiveOuts

-----------------------------------------------------------------------------
(* verifyIfConvertedResult                                                 *)

\* The arms of a branch, each a single block or the merge itself.
branchMerge(b) ==
    LET t == Successors(b)[1]
        f == Successors(b)[2]
        Only(x) == IF IsConditional(x) THEN "none" ELSE Successors(x)[1]
    IN  CASE Only(t) = f -> f
          [] Only(f) = t -> t
          [] Only(t) = Only(f) -> Only(t)
          [] OTHER -> "none"

verifyIfRegionStructure == HasRegion => branchMerge(ConditionBlock) = MergeBlock

RegionSelects == {n \in dfgNodes : Provenance(n).role = "merge"}
PredicatedStores == {n \in dfgNodes : GenericNode(n).opcode = "Store"
                                      /\ Len(GenericNode(n).operands) = 3}
\* Only set where a select or a store is guarded.
PredicateNode == IF RegionSelects \cup PredicatedStores = {} THEN 0
                 ELSE nodeId(frontend.plan, RegionCondition[2], "node")

verifyIfNode(n) ==
    LET k == InstructionOf(n)
        node == GenericNode(n)
    IN  /\ k \notin slice
        /\ CASE HasOpcode(k) -> node.opcode = Inst(k).op /\ node.result = valueType(ValueOf(k))
             [] Inst(k).op \in {"Select", "PHI"} -> node.opcode = "Select"
             [] isAccess(k) -> node.opcode = Inst(k).op /\ node.width = 32
             [] IsOp(k, "GEP") ->
                   /\ node.opcode = (IF Provenance(n).role = "scale" THEN "Mul" ELSE "Add")
                   /\ node.result = I32
             [] OTHER ->
                   /\ IsOp(k, "ICmp")
                   /\ node.icmp = (IF storePredicateComplemented /\ RegionCondition = ValueOf(k)
                                   THEN complementPredicate(Inst(k).pred) ELSE Inst(k).pred)
        /\ HasOpcode(k) \/ IsOp(k, "ICmp") =>
              \A o \in OperandsOf(node) :
                  providerMatches(Inst(k).args[correspondingLLVMOperand(k, o) + 1], n, o)

verifyIfEdge(e) ==
    LET k == InstructionOf(e.dst)
    IN  CASE e.kind = "Predicate" \/ IsOp(k, "GEP") -> TRUE
          [] e.distance = 0 -> \/ Inst(k).op \in {"PHI", "Select", "Store"}
                               \/ UsesAt(k, e.operand, ValueOf(InstructionOf(e.src)))
          [] OTHER -> \E phi \in recurrences : /\ UsesAt(k, e.operand, ValueOf(phi))
                                               /\ carries(e, phi)

verifyRecurrenceUses(phi) ==
    \A u \in {u \in Users(phi) \ slice : ~IsOp(u, "Br")} :
        IF IsOp(u, "GEP")
        THEN \E e \in ValueEdgesOf : InstructionOf(e.dst) = u /\ carries(e, phi)
        ELSE \E n \in dfgNodes :
                /\ InstructionOf(n) = u
                /\ \A i \in DOMAIN Inst(u).args : Inst(u).args[i] = ValueOf(phi) =>
                      \E e \in findProviderEdge(n, correspondingLLVMOperand(u, i - 1), "Data") :
                          carries(e, phi)

verifyIfDataflow ==
    /\ \A n \in dfgNodes : verifyIfNode(n)
    /\ \A e \in ValueEdgesOf : verifyIfEdge(e)
    /\ \A phi \in recurrences : verifyRecurrenceUses(phi)
    /\ verifyExternals /\ verifyLiveOuts /\ ~SilentLoss

\* A select takes its condition from the node of the branch, or of its own
\* compare, which must not have been complemented for the branch.
verifySelectPlan(n) ==
    LET k == InstructionOf(n)
        merge == Provenance(n).role = "merge"
        guard == IF merge THEN RegionCondition ELSE Inst(k).args[1]
        arms == IF merge THEN <<Incoming(k, TrueBlock), Incoming(k, FalseSource(k))>>
                ELSE <<Inst(k).args[2], Inst(k).args[3]>>
    IN  /\ \E e \in findProviderEdge(n, 0, "Predicate") : ValueOf(InstructionOf(e.src)) = guard
        /\ ~merge /\ storePredicateComplemented => guard # RegionCondition
        /\ providerMatches(arms[1], n, 1) /\ providerMatches(arms[2], n, 2)

verifyPredicatedStore(n) ==
    LET k == InstructionOf(n)
    IN  /\ \E e \in findProviderEdge(n, 2, "Predicate") : e.src = PredicateNode
        /\ Inst(k).block = TrueBlock
        /\ providerMatches(pointerOperand(k), n, 0) /\ providerMatches(Inst(k).args[1], n, 1)
        /\ (descriptor(k).strideWords = 0) =
              \E e \in Range(frontend.dfg.edges) : /\ e.kind = "Memory" /\ e.src = n /\ e.dst = n
                                                   /\ e.dependence = "WAW" /\ e.distance = 1

\* Every PHI of a merge is one select, and a planned one.
verifyMergeSelects ==
    \A b \in internalBranches : \A phi \in InstsOf("PHI") :
        Inst(phi).block = branchMerge(b) =>
            \E n \in RegionSelects :
                /\ {m \in RegionSelects : InstructionOf(m) = phi} = {n}
                /\ {m \in dfgNodes : InstructionOf(m) = phi /\ GenericNode(m).opcode = "Select"} = {n}

verifyRegion ==
    /\ HasRegion => /\ PredicateNode \in dfgNodes
                    /\ ValueOf(InstructionOf(PredicateNode)) = RegionCondition
                    /\ \A n \in PredicatedStores : verifyPredicatedStore(n)
    /\ \A n \in dfgNodes : GenericNode(n).opcode = "Select" => verifySelectPlan(n)

-----------------------------------------------------------------------------
(* verifyMemoryDataflow                                                    *)

recomputeMemoryExpectations == dependences

constantBindingMatches(n, operand, expected) ==
    \E b \in frontend.dfg.bindings :
        /\ b.node = n /\ b.operand = operand /\ b.value[1] = "const"
        /\ ConstantIs(b.value[2], I32, expected)

gepAddressGraphMatches(d, n) ==
    LET Inner(m, operand) == {e.src : e \in {e \in findProviderEdge(m, operand, "Data") : e.distance = 0}}
        Indexed(m, operand) ==
            IF d.scaleWords = 1 THEN providerMatches(d.index, m, operand)
            ELSE \E s \in Inner(m, operand) : /\ GenericNode(s).opcode = "Mul"
                                              /\ providerMatches(d.index, s, 0)
                                              /\ constantBindingMatches(s, 1, d.scaleWords)
    IN  /\ GenericNode(n).opcode = "Add" /\ providerMatches(d.base, n, 0)
        /\ CASE d.index = <<"none">> -> constantBindingMatches(n, 1, d.gepOffsetWords)
             [] d.gepOffsetWords = 0 -> Indexed(n, 1)
             [] OTHER -> \E a \in Inner(n, 1) : /\ GenericNode(a).opcode = "Add"
                                                /\ constantBindingMatches(a, 1, d.gepOffsetWords)
                                                /\ Indexed(a, 0)

verifyMemoryAccess(k) ==
    LET n == nodeId(frontend.plan, k, "node")
        pointer == pointerOperand(k)
        address == IF IsInst(pointer, "GEP") THEN nodeId(frontend.plan, pointer[2], "address") ELSE n
    IN  /\ IF IsGEP(pointer)
           THEN gepAddressGraphMatches(descriptor(k), address) /\ providerMatches(pointer, n, 0)
           ELSE providerMatches(descriptor(k).base, n, 0)
        /\ isStore(k) => providerMatches(Inst(k).args[1], n, 1)

verifyMemoryDataflow ==
    LET Edges == {e \in Range(frontend.dfg.edges) : e.kind = "Memory"}
        Expected == recomputeMemoryExpectations
    IN  /\ \A k \in Accesses : verifyMemoryAccess(k)
        /\ {[src |-> InstructionOf(e.src), dst |-> InstructionOf(e.dst), kind |-> e.dependence,
             distance |-> e.distance] : e \in Edges} = Expected
        /\ Cardinality(Edges) = Cardinality(Expected)

verifyIfConvertedResult ==
    /\ DFGVerified(frontend.dfg) /\ verifyIfRegionStructure /\ verifyIfDataflow
    /\ verifyMemoryDataflow /\ verifyMergeSelects /\ verifyRegion

\* A loop that had neither memory nor a conversion is verified as a single
\* block whatever way it was lowered.
verifyFrontendResult ==
    IF HasRegion \/ InstsOf("Select") # {} \/ Accesses # {} THEN verifyIfConvertedResult
    ELSE Len(loop.blocks) = 1 /\ verifyScalarResult

=============================================================================
