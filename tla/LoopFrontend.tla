---------------------------- MODULE LoopFrontend ----------------------------
(***************************************************************************)
(* Frontend/LLVM/LLVMFrontend.cpp: an innermost loop becomes a generic     *)
(* data-flow graph.  A single block of integer arithmetic goes one way;    *)
(* memory, selects and one internal branch, which is if-converted, another.*)
(*                                                                         *)
(* The nodes are planned first, in the order the code creates them: an     *)
(* item [inst, role] is a node, and a GEP has up to three.  Their operands *)
(* follow, each an edge, a binding or nothing.  Names of externals and     *)
(* numbers of constants cannot be observed; an argument is named by its    *)
(* id, every other value by a number of its own.                           *)
(***************************************************************************)
EXTENDS MemoryDependences

HasOpcode(k) == Inst(k).op \in Arithmetic \cup Logic \cup Shifts
isMemoryInstruction(k) == Inst(k).op \in {"Load", "Store", "GEP", "Fence"}
isPureInstruction(k) == HasOpcode(k) \/ Inst(k).op \in {"ICmp", "Select"}

Supported(v) == BitsOf(v) \in 1 .. 64
valueType(v) == IF BitsOf(v) = 1 THEN Pred ELSE [kind |-> "Integer", bits |-> BitsOf(v)]

IsInst(v, op) == v[1] = "inst" /\ IsOp(v[2], op)
InstOf(v) == IF v[1] = "inst" THEN {v[2]} ELSE {}

complementPredicate(p) ==
    [EQ |-> "NE", NE |-> "EQ", ULT |-> "ULE", ULE |-> "ULT", UGT |-> "ULE", UGE |-> "ULT",
     SLT |-> "SLE", SLE |-> "SLT", SGT |-> "SLE", SGE |-> "SLT"][p]

complementSwapsOperands_Never(p) == FALSE
complementSwapsOperands(p) == p \in {"ULT", "ULE", "SLT", "SLE"}

-----------------------------------------------------------------------------
(* Loop control and recurrences                                            *)

collectSlice(values) == Closure(UNION {InstOf(v) : v \in values}, OperandInsts)

\* What decides whether the loop goes on.
terminationSlice ==
    collectSlice({Condition(b) : b \in {b \in Blocks : IsConditional(b) /\ Exits(b)}})

HeaderPhis == {k \in InstsOf("PHI") : Inst(k).block = Header}
Initial(phi) == Incoming(phi, "pre")
Backedge(phi) == Incoming(phi, Latch)
IsCanonical(phi) ==
    /\ loop.preheader /\ HasLatch /\ Len(Inst(phi).args) = 2
    /\ ComesFrom(phi, "pre") /\ ComesFrom(phi, Latch)
BackedgeSupported(phi) == Backedge(phi)[1] = "inst" /\ HasOpcode(Backedge(phi)[2])

HasDataUse(phi) == \E u \in Users(phi) : u \notin terminationSlice /\ ~IsOp(u, "Br")

discoverIfRecurrences ==
    {phi \in HeaderPhis : /\ IsCanonical(phi) /\ BackedgeSupported(phi) /\ HasDataUse(phi)
                          /\ Supported(ValueOf(phi))}

\* In a single block a compare is no use of the data path.
hasScalarUse(phi) ==
    \E u \in Users(phi) : u \notin terminationSlice /\ Inst(u).op \notin {"Br", "ICmp"}
UsedBehind(k) == \E o \in Range(loop.outs) : o.inst = k

recurrenceStatus(phi) ==
    CASE ~loop.preheader /\ ~HasDataUse(phi) -> "Success"
      [] ~IsCanonical(phi) -> "UnsupportedRecurrenceShape"
      [] ~Supported(ValueOf(phi)) -> "UnsupportedRecurrenceType"
      [] UsedBehind(phi) -> "UnsupportedPhiLiveOutSemantics"
      [] \E u \in Users(phi) : IsOp(u, "PHI") -> "UnsupportedPhiToPhiUse"
      [] \E u \in Users(phi) : /\ Inst(u).op \notin {"Br", "ICmp"} /\ u \notin terminationSlice
                               /\ ~HasOpcode(u) -> "UnsupportedInstruction"
      [] ~hasScalarUse(phi) -> "Success"
      [] ~Supported(Initial(phi)) -> "UnsupportedRecurrenceType"
      [] Initial(phi)[1] = "undef" \/ ~BackedgeSupported(phi) -> "UnsupportedRecurrenceProvider"
      [] OTHER -> "Success"

discoverRecurrences ==
    {phi \in HeaderPhis : IsCanonical(phi) /\ BackedgeSupported(phi) /\ hasScalarUse(phi)}

\* What a recurrence is computed from belongs to the data path again.
producerClosure(recurrences) ==
    Closure(UNION {InstOf(Backedge(phi)) : phi \in recurrences},
            LAMBDA k : {j \in OperandInsts(k) : HasOpcode(j)})

-----------------------------------------------------------------------------
(* The internal branch                                                     *)

internalBranches == {b \in Blocks : IsConditional(b) /\ Range(Successors(b)) \subseteq Blocks}
HasRegion == internalBranches # {}
ConditionBlock == CHOOSE b \in internalBranches : TRUE
RegionCondition == Condition(ConditionBlock)
MergeBlock == nearestCommonPostDominator(Successors(ConditionBlock)[1],
                                         Successors(ConditionBlock)[2])

regionStatus ==
    CASE Cardinality(internalBranches) > 1 -> "MultipleInternalBranches"
      [] ~HasRegion -> "Success"
      [] ~IsInst(RegionCondition, "ICmp") -> "UnsupportedBranchCondition"
      [] MergeBlock \in {"none", ConditionBlock} -> "BranchNoUniqueMerge"
      [] OTHER -> "Success"

StoresIn(b) == {k \in InstsOf("Store") : Inst(k).block = b}

\* Stores of the second arm alone turn the condition and the arms around.
storePredicateComplemented ==
    /\ HasRegion
    /\ StoresIn(Successors(ConditionBlock)[1]) = {} /\ StoresIn(Successors(ConditionBlock)[2]) # {}
TrueBlock == Successors(ConditionBlock)[IF storePredicateComplemented THEN 2 ELSE 1]
FalseBlock == Successors(ConditionBlock)[IF storePredicateComplemented THEN 1 ELSE 2]
valueIsInBranch(k) == HasRegion /\ Inst(k).block \in {TrueBlock, FalseBlock}
isConditionalStore(k) == valueIsInBranch(k)

MergePhis == {k \in InstsOf("PHI") : HasRegion /\ Inst(k).block = MergeBlock}
FalseSource(phi) == IF ComesFrom(phi, FalseBlock) THEN FalseBlock ELSE ConditionBlock

mergeStatus(phi) ==
    CASE Inst(phi).bits = 1 -> "UnsupportedPredicateMerge"
      [] ~(/\ Len(Inst(phi).args) = 2 /\ ComesFrom(phi, TrueBlock)
           /\ \/ ComesFrom(phi, FalseBlock)
              \/ FalseBlock = MergeBlock /\ ComesFrom(phi, ConditionBlock)) ->
            "UnsupportedControlMerge"
      [] ~Supported(ValueOf(phi)) -> "UnsupportedLLVMType"
      [] OTHER -> "Success"

-----------------------------------------------------------------------------
(* Which way the loop goes, and the plan of its nodes                      *)

IsIfConverted ==
    \/ HasRegion \/ Len(loop.blocks) > 1
    \/ \E k \in Insts : IsOp(k, "Select") \/ isMemoryInstruction(k)

recurrences == IF IsIfConverted THEN discoverIfRecurrences ELSE discoverRecurrences
Backedges == UNION {InstOf(Backedge(phi)) : phi \in recurrences}
controlSlice == terminationSlice \ producerClosure(recurrences)
predicateSlice == IF HasRegion THEN collectSlice({RegionCondition}) ELSE {}

shouldSkip(k) ==
    \/ Inst(k).op \in {"Br", "PHI"}
    \/ k \in controlSlice /\ ~(IsIfConverted /\ k \in Backedges \cup predicateSlice)

Item(k, role) == [inst |-> k, role |-> role]
InOrderOf(S) == SelectSeq([i \in 1 .. Len(loop.insts) |-> i], LAMBDA i : i \in S)
Items(S, role) == LET s == InOrderOf(S) IN [i \in DOMAIN s |-> Item(s[i], role)]

\* The access a GEP is the address of.
gepAccesses(k) == {a \in Accesses : pointerOperand(a) = ValueOf(k)}
gepAccess(k) == descriptor(CHOOSE a \in gepAccesses(k) : TRUE)
IsScaled(access) == access.index # <<"none">> /\ access.scaleWords # 1
IsOffset(access) == access.index # <<"none">> /\ access.gepOffsetWords # 0

addressNodes(k, access) ==
    <<Item(k, "address")>> \o (IF IsScaled(access) THEN <<Item(k, "scale")>> ELSE <<>>)
      \o (IF IsOffset(access) THEN <<Item(k, "offset")>> ELSE <<>>)
nodesOf(k) == IF IsOp(k, "GEP") THEN addressNodes(k, gepAccess(k)) ELSE <<Item(k, "node")>>

Body == {k \in Insts : ~shouldSkip(k) /\ ~isStore(k)}
nodePlan ==
    LET body == InOrderOf(Body)
    IN  Items(MergePhis, "merge") \o FlattenSeq([i \in DOMAIN body |-> nodesOf(body[i])])
          \o Items(InstsOf("Store"), "node")

nodeId(plan, k, role) == (CHOOSE i \in DOMAIN plan : plan[i] = Item(k, role)) - 1
\* The node that carries the value of an instruction other than a merge.
valueRole(k) == IF IsOp(k, "GEP") THEN "address" ELSE "node"
Planned(plan, k, role) == Item(k, role) \in Range(plan)
HasNode(k) == k \in Body \cup InstsOf("Store")

genericNode(item, id) ==
    LET k == item.inst
        Of(i) == valueType(Inst(k).args[i])
        N(op, operands, result) ==
            [id |-> id, opcode |-> op, result |-> result, operands |-> operands,
             icmp |-> "none", width |-> 0]
    IN  CASE item.role = "merge" ->
                N("Select", <<Pred, valueType(ValueOf(k)), valueType(ValueOf(k))>>,
                  valueType(ValueOf(k)))
          [] item.role \in {"address", "offset"} -> N("Add", <<I32, I32>>, I32)
          [] item.role = "scale" -> N("Mul", <<I32, I32>>, I32)
          [] IsOp(k, "Load") -> [N("Load", <<I32>>, I32) EXCEPT !.width = 32]
          [] isStore(k) ->
                [N("Store", <<I32, Of(1)>> \o (IF isConditionalStore(k) THEN <<Pred>> ELSE <<>>),
                   VoidTy) EXCEPT !.width = accessedBits(k)]
          [] IsOp(k, "ICmp") ->
                [N("ICmp", <<Of(1), Of(2)>>, Pred) EXCEPT !.icmp =
                    IF storePredicateComplemented /\ RegionCondition = ValueOf(k)
                    THEN complementPredicate(Inst(k).pred) ELSE Inst(k).pred]
          [] IsOp(k, "Select") -> N("Select", <<Pred, Of(2), Of(2)>>, Of(2))
          [] OTHER -> N(Inst(k).op, <<Of(1), Of(2)>>, valueType(ValueOf(k)))

-----------------------------------------------------------------------------
(* Operands                                                                *)

\* The constants of the loop, and the words of its addresses.
AddressWord(w) == <<"word", 32, w>>
addressWords(access) == {AddressWord(access.gepOffsetWords), AddressWord(access.scaleWords)}
constantPool ==
    FoldSet(LAMBDA c, pool : Append(pool, c), <<>>,
            {v \in UNION {Range(Inst(k).args) : k \in Insts} : v[1] = "int"}
              \cup UNION {addressWords(gepAccess(k))
                          : k \in {k \in InstsOf("GEP") : gepAccesses(k) # {}}})
PlaceIn(pool, c) == CHOOSE i \in DOMAIN pool : pool[i] = c
getConstant(c) == <<"const", PlaceIn(constantPool, c)>>

\* A value that no node computes; a pointer is its underlying object.
getExternal(v) ==
    CASE BitsOf(v) = 0 -> <<"ext", getUnderlyingObject(v)[2]>>
      [] v[1] = "arg" -> <<"ext", v[2]>>
      [] v[1] = "undef" -> <<"ext", 99>>
      [] v[1] = "inst" -> <<"ext", 100 + v[2]>>
externalType(v) == IF BitsOf(v) = 0 THEN I32 ELSE valueType(v)

Provided(v) == IF v[1] \in {"int", "word"} THEN getConstant(v) ELSE getExternal(v)
Nothing == [via |-> "nothing"]
Binding(value) == [via |-> "binding", value |-> value]
Edge(src, kind, distance, boundary) ==
    [via |-> "edge", src |-> src, kind |-> kind, distance |-> distance, boundary |-> boundary]

\* The provider of a value, as data or as a predicate.
provider(plan, v, kind) ==
    LET k == v[2]
        start == <<[offset |-> 0, value |-> Provided(Initial(k))]>>
    IN  CASE IsInst(v, "PHI") /\ Planned(plan, k, "merge") ->
                IF kind = "Predicate" THEN Nothing
                ELSE Edge(nodeId(plan, k, "merge"), "Data", 0, <<>>)
          [] IsInst(v, "PHI") ->
                IF \/ kind = "Predicate" \/ k \notin recurrences
                   \/ ~Planned(plan, Backedge(k)[2], "node") THEN Nothing
                ELSE Edge(nodeId(plan, Backedge(k)[2], "node"), "Data", 1, start)
          [] v[1] = "inst" /\ Planned(plan, k, valueRole(k)) ->
                Edge(nodeId(plan, k, valueRole(k)), kind, 0, <<>>)
          [] Supported(v) \/ BitsOf(v) = 0 -> Binding(Provided(v))
          [] OTHER -> Nothing

\* The operands of a node, in order: values that need a provider, and what the
\* parts of an address take from one another.
Wanted(v, kind) == [via |-> "value", value |-> v, kind |-> kind]

addressOperands(plan, k, access, role) ==
    LET Inner(r) == Edge(nodeId(plan, k, r), "Data", 0, <<>>)
        Scaled == IF IsScaled(access) THEN Inner("scale") ELSE Wanted(access.index, "Data")
    IN  CASE role = "scale" ->
                <<Wanted(access.index, "Data"), Wanted(AddressWord(access.scaleWords), "Data")>>
          [] role = "offset" -> <<Scaled, Wanted(AddressWord(access.gepOffsetWords), "Data")>>
          [] role = "address" ->
                <<Wanted(access.base, "Data"),
                  CASE access.index = <<"none">> -> Wanted(AddressWord(access.gepOffsetWords), "Data")
                    [] IsOffset(access) -> Inner("offset")
                    [] OTHER -> Scaled>>

operandsOf(plan, item) ==
    LET k == item.inst
        Arg(i) == Wanted(Inst(k).args[i], "Data")
        Commit == Wanted(RegionCondition, "Predicate")
    IN  CASE item.role = "merge" ->
                <<Commit, Wanted(Incoming(k, TrueBlock), "Data"),
                  Wanted(Incoming(k, FalseSource(k)), "Data")>>
          [] item.role # "node" -> addressOperands(plan, k, gepAccess(k), item.role)
          [] IsOp(k, "Load") -> <<Arg(1)>>
          [] isStore(k) -> <<Arg(2), Arg(1)>>
                             \o (IF isConditionalStore(k) THEN <<Commit>> ELSE <<>>)
          [] IsOp(k, "Select") -> <<Wanted(Inst(k).args[1], "Predicate"), Arg(2), Arg(3)>>
          [] /\ storePredicateComplemented /\ RegionCondition = ValueOf(k)
             /\ complementSwapsOperands(Inst(k).pred) -> <<Arg(2), Arg(1)>>
          [] OTHER -> [i \in DOMAIN Inst(k).args |-> Arg(i)]

providersOf(plan, operands) ==
    [i \in DOMAIN operands |->
        IF operands[i].via # "value" THEN operands[i]
        ELSE provider(plan, operands[i].value, operands[i].kind)]
operandProviders(plan, item) == providersOf(plan, operandsOf(plan, item))

-----------------------------------------------------------------------------
(* The graph                                                               *)

\* The use list is read up to the first use that decides; a PHI that is not
\* used itself does not, unless it stands in one of several exits.
decisiveUses(k) == SelectSeq(loop.outs, LAMBDA o : o.inst = k /\ (o.how # "dead" \/ ~HasExit))

\* A PHI behind the loop that joins this value with others, or that stands in
\* one of several exits, keeps the value from being a live-out.
badMerge(k) ==
    /\ decisiveUses(k) # <<>>
    /\ LET how == Head(decisiveUses(k)).how IN how = "merged" \/ (how # "direct" /\ ~HasExit)
hasOutsideUse_Direct(k) ==
    ~badMerge(k) /\ \E o \in Range(decisiveUses(k)) : o.how = "direct"

hasOutsideUse(k) == decisiveUses(k) # <<>> /\ ~badMerge(k)

liveOutItems(plan) ==
    SelectSeq(plan, LAMBDA item :
        /\ item.role \in {"merge", "node"} /\ hasOutsideUse(item.inst)
        /\ Supported(ValueOf(item.inst))
        /\ IsIfConverted => valueType(ValueOf(item.inst)) # Pred)


memoryEdges(plan) ==
    FoldSet(LAMBDA d, seq :
        Append(seq, [id |-> 0, src |-> nodeId(plan, d.src, "node"),
                     dst |-> nodeId(plan, d.dst, "node"), kind |-> "Memory", operand |-> 0,
                     dependence |-> d.kind, distance |-> d.distance, boundary |-> <<>>]),
        <<>>, dependences)

\* The edges into node i, whose operands are provided by p.
valueEdges(i, p) ==
    LET operands == SelectSeq([o \in DOMAIN p |-> o], LAMBDA o : p[o].via = "edge")
        EdgeOf(o) == [id |-> 0, src |-> p[o].src, dst |-> i - 1, kind |-> p[o].kind,
                      operand |-> o - 1, dependence |-> "none", distance |-> p[o].distance,
                      boundary |-> p[o].boundary]
    IN  [j \in DOMAIN operands |-> EdgeOf(operands[j])]
edgesOf(plan, provided) ==
    FlattenSeq([i \in DOMAIN plan |-> valueEdges(i, provided[i])]) \o memoryEdges(plan)

bindingsOf(provided) ==
    UNION {{[node |-> i - 1, operand |-> o - 1, value |-> provided[i][o].value]
            : o \in {o \in DOMAIN provided[i] : provided[i][o].via = "binding"}}
           : i \in DOMAIN provided}

usedValues(edges, bindings) ==
    {b.value : b \in bindings} \cup UNION {{v.value : v \in Range(e.boundary)} : e \in Range(edges)}

constantsOf(pool, used) ==
    FoldSet(LAMBDA id, seq : Append(seq,
                [id |-> id, bits |-> pool[id][3],
                 type |-> IF pool[id][2] = 1 THEN Pred
                          ELSE [kind |-> "Integer", bits |-> pool[id][2]]]),
            <<>>, {v[2] : v \in {v \in used : v[1] = "const"}})

\* outside holds pairs of a value and its external.
declared(outside) ==
    FoldSet(LAMBDA id, seq : Append(seq,
                [id |-> id, name |-> id,
                 type |-> externalType((CHOOSE x \in outside : x[2] = id)[1])]),
            <<>>, {x[2] : x \in outside})
externalsOf(used) ==
    declared({<<v, getExternal(v)[2]>> :
                 v \in {v \in UNION {Range(Inst(k).args) : k \in Insts} :
                          v[1] # "int" /\ getExternal(v) \in used}})

liveOutsOf(plan, items) ==
    [i \in DOMAIN items |->
        [id |-> i - 1, type |-> valueType(ValueOf(items[i].inst)),
         source |-> nodeId(plan, items[i].inst, items[i].role)]]

graphOf(plan, edges, bindings, used) ==
    [nodes |-> [i \in DOMAIN plan |-> genericNode(plan[i], i - 1)],
     edges |-> [i \in DOMAIN edges |-> [edges[i] EXCEPT !.id = i - 1]],
     externals |-> externalsOf(used), constants |-> constantsOf(constantPool, used),
     bindings |-> bindings, liveOuts |-> liveOutsOf(plan, liveOutItems(plan))]

connect(plan, edges, bindings) ==
    [plan |-> plan, dfg |-> graphOf(plan, edges, bindings, usedValues(edges, bindings))]
provide(plan, provided) == connect(plan, edgesOf(plan, provided), bindingsOf(provided))
lowerPlan(plan) == provide(plan, [i \in DOMAIN plan |-> operandProviders(plan, plan[i])])

lowerLoop == lowerPlan(nodePlan)

-----------------------------------------------------------------------------
(* What is refused                                                         *)

FirstFailure(S, Status(_)) ==
    LET failing == {k \in S : Status(k) # "Success"}
    IN  IF failing = {} THEN "Success"
        ELSE Status(CHOOSE k \in failing : \A j \in failing : k =< j)

\* The first status of a sequence of checks that is no success.
FirstOf(checks) ==
    LET failing == {i \in DOMAIN checks : checks[i] # "Success"}
    IN  IF failing = {} THEN "Success"
        ELSE checks[CHOOSE i \in failing : \A j \in failing : i =< j]
Unless(ok, status) == IF ok THEN "Success" ELSE status

shapeIsValid == Unless(HasExit /\ IsConditional(Header), "UnsupportedLoopShape")

buildControlSlice ==
    Unless(/\ IsInst(Condition(Header), "ICmp")
           /\ \A k \in terminationSlice : HasOpcode(k) \/ Inst(k).op \in {"PHI", "ICmp"},
           "DataDependentLoopControl")

validateControlDataUses ==
    Unless(\A k \in controlSlice :
              \/ k \in recurrences \cup Backedges
              \/ \A u \in Users(k) : u \in controlSlice \/ IsOp(u, "Br"),
           "UnsupportedInductionDataUse")

scalarStatus(k) ==
    CASE ~Supported(ValueOf(k)) -> "UnsupportedLLVMType"
      [] ~HasOpcode(k) -> "UnsupportedInstruction"
      [] \E v \in Range(Inst(k).args) : ~Supported(v) -> "UnsupportedLLVMType"
      [] OTHER -> "Success"

scalarOperandStatus(k) ==
    CASE \E v \in Range(Inst(k).args) : IsInst(v, "PHI") /\ v[2] \notin recurrences ->
            "UnsupportedLoopCarriedPHI"
      [] \E v \in Range(Inst(k).args) : IsInst(v, "PHI") /\ ~HasNode(Backedge(v[2])[2]) ->
            "UnsupportedRecurrenceProvider"
      [] \E v \in Range(Inst(k).args) : v[1] = "inst" /\ ~IsInst(v, "PHI") /\ ~HasNode(v[2]) ->
            "UnsupportedInductionDataUse"
      [] \E v \in Range(Inst(k).args) : v[1] = "undef" -> "UnsupportedInstruction"
      [] OTHER -> "Success"

lowerSelectedLoop ==
    CASE shapeIsValid # "Success" -> shapeIsValid
      [] buildControlSlice # "Success" -> buildControlSlice
      [] OTHER -> FirstOf(<<FirstFailure(HeaderPhis, recurrenceStatus), validateControlDataUses,
                            FirstFailure(Body, scalarStatus),
                            FirstFailure(Body, scalarOperandStatus),
                            Unless(~\E k \in Body : badMerge(k), "UnsupportedExitMerge")>>)

memoryFailure(status) ==
    CASE status = "Success" -> "Success"
      [] status = "UnsupportedAccessType" -> "UnsupportedMemoryType"
      [] status = "UnsupportedAddressSpace" -> "UnsupportedMemoryAddressSpace"
      [] status = "UnsupportedAlignment" -> "UnsupportedMemoryAlignment"
      [] status = "UnsupportedPathSensitiveOrder" -> "UnsupportedPathSensitiveMemoryOrder"
      [] status = "UnsupportedVolatileOrAtomic" -> "UnsupportedMemoryOperation"
      [] OTHER -> status

\* A merge of the branch's arms that is carried to the next iteration.
conditionalRecurrence ==
    HasLatch /\ \E phi \in HeaderPhis : ComesFrom(phi, Latch) /\ IsInst(Backedge(phi), "PHI")

bodyStatus(k) ==
    CASE IsOp(k, "GEP") -> Unless(gepAccesses(k) # {}, "UnsupportedNonAffineAddress")
      [] IsOp(k, "Load") -> Unless(~valueIsInBranch(k), "PredicatedLoadUnsupported")
      [] isMemoryInstruction(k) -> "UnsupportedMemoryOperation"
      [] IsOp(k, "Call") -> "UnsupportedIfSideEffect"
      [] ~isPureInstruction(k) -> "UnsafeSpeculation"
      [] IsOp(k, "ICmp") -> Unless(\A v \in Range(Inst(k).args) : Supported(v) /\ BitsOf(v) # 1,
                                   "UnsupportedLLVMType")
      [] IsOp(k, "Select") -> Unless(Supported(ValueOf(k)), "UnsupportedLLVMType")
      [] OTHER -> Unless(\A v \in {ValueOf(k)} \cup Range(Inst(k).args) : Supported(v),
                         "UnsupportedLLVMType")

\* The condition of a select must come from a node of its own.
selectStatus(k) ==
    Unless(IsOp(k, "Select") =>
              \E c \in InstOf(Inst(k).args[1]) : ~IsOp(c, "PHI") /\ HasNode(c),
           "UnsupportedBranchCondition")

\* An access that only the exit condition uses was skipped, and is not found
\* among the nodes.
lowerIfConvertedLoop ==
    LET early == FirstOf(<<regionStatus,
                           Unless(HasRegion \/ Len(loop.blocks) = 1 \/ InstsOf("Select") # {},
                                  "UnsupportedLoopShape"),
                           Unless(~conditionalRecurrence, "ConditionalRecurrenceUnsupported"),
                           memoryFailure(memoryStatus)>>)
    IN  IF early # "Success" THEN early
        ELSE FirstOf(<<Unless(~HasRegion \/ ~\A b \in Range(Successors(ConditionBlock)) :
                                               StoresIn(b) # {}, "UnsupportedIfSideEffect"),
                       FirstFailure(MergePhis, mergeStatus), FirstFailure(Body, bodyStatus),
                       FirstFailure(Body, selectStatus),
                       Unless(\A k \in Accesses : HasNode(k), "InternalError")>>)

loweringStatus == IF IsIfConverted THEN lowerIfConvertedLoop ELSE lowerSelectedLoop

\* What is only seen on the finished graph.
graphStatus(g) ==
    CASE IsIfConverted /\ g.liveOuts # <<>> /\ \E k \in Accesses : descriptor(k).strideWords # 0 ->
            "MemoryWithABIScalarLiveOutUnsupportedV0"
      [] ~DFGVerified(g) -> "InvalidGenericDFG"
      [] OTHER -> "Success"

\* The innermost loop that is asked for, by its header or as the only one.
selectStatusOf(loops, wanted) ==
    LET named == {i \in DOMAIN loops : loops[i].blocks[1] = wanted}
    IN  CASE loops = <<>> \/ (wanted # "any" /\ named = {}) -> "NoInnermostLoop"
          [] wanted = "any" /\ Len(loops) # 1 -> "AmbiguousLoopSelection"
          [] OTHER -> "Success"
selectLoop(loops, wanted) ==
    IF wanted = "any" THEN loops[1]
    ELSE loops[CHOOSE i \in DOMAIN loops : loops[i].blocks[1] = wanted]

=============================================================================
