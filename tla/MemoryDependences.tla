-------------------------- MODULE MemoryDependences -------------------------
(***************************************************************************)
(* Frontend/LLVM/LLVMMemoryAnalysis.cpp: the loads and stores of the loop  *)
(* as affine word addresses, and the order they must keep.  The frontend's *)
(* verifier computes both again with a copy of this code; one definition   *)
(* stands for the two.                                                     *)
(***************************************************************************)
EXTENDS LoopIR

\* Bound: the words that an address names, 2^31 in the code.
AddressLimit == 1024
fitsAddressWord(x) == x \in -AddressLimit .. AddressLimit - 1

isAccess(k) == Inst(k).op \in {"Load", "Store"}
isStore(k) == IsOp(k, "Store")
pointerOperand(k) == Inst(k).args[IF isStore(k) THEN 2 ELSE 1]
accessedBits(k) == IF isStore(k) THEN BitsOf(Inst(k).args[1]) ELSE Inst(k).bits

affineValue(v) == getSCEV(v)

-----------------------------------------------------------------------------
(* analyzeAccess                                                           *)

IsGEP(v) == \/ v[1] = "ptr" /\ v[3] # 0
            \/ v[1] = "inst" /\ IsOp(v[2], "GEP")

\* The address of an access: the root of its pointer, and what the GEP next to
\* it adds to that, in bytes.
GEPOf(v) ==
    CASE v[1] = "inst" /\ IsOp(v[2], "GEP") ->
            [offset |-> Inst(v[2]).offset, indices |-> Tail(Inst(v[2]).args),
             scale |-> Inst(v[2]).scale]
      [] v[1] = "ptr" -> [offset |-> 4 * v[3], indices |-> <<>>, scale |-> 0]
      [] OTHER -> [offset |-> 0, indices |-> <<>>, scale |-> 0]

Index(gep) == IF gep.indices = <<>> THEN <<"none">> ELSE gep.indices[1]

\* Without an index the affine part is zero.
DescriptorOf(base, gep, affine) ==
    [base |-> base, index |-> Index(gep),
     scaleWords |-> gep.scale \div 4, gepOffsetWords |-> gep.offset \div 4,
     offsetWords |-> gep.offset \div 4 + affine.offset * (gep.scale \div 4),
     strideWords |-> affine.stride * (gep.scale \div 4)]

\* The descriptor of an access that analyzeAccess does not refuse.
descriptor(k) ==
    DescriptorOf(getUnderlyingObject(pointerOperand(k)), GEPOf(pointerOperand(k)),
                 affineValue(Index(GEPOf(pointerOperand(k)))))

NotAnAddress(gep, affine, access) ==
    \/ gep.offset % 4 # 0 \/ ~fitsAddressWord(gep.offset \div 4)
    \/ Len(gep.indices) > 1
    \/ /\ Len(gep.indices) = 1
       /\ \/ gep.scale % 4 # 0 \/ ~fitsAddressWord(gep.scale \div 4)
          \/ ~affine.ok
          \/ \E x \in {affine.offset, affine.stride, access.offsetWords, access.strideWords} :
                ~fitsAddressWord(x)

accessStatus(k) ==
    CASE accessedBits(k) # 32 -> "UnsupportedAccessType"
      [] Inst(k).how = "volatile" -> "UnsupportedVolatileOrAtomic"
      [] Inst(k).how = "unaligned" -> "UnsupportedAlignment"
      [] Inst(k).how = "addrspace" -> "UnsupportedAddressSpace"
      [] getUnderlyingObject(pointerOperand(k))[1] # "ptr" -> "UnsupportedPointerBase"
      [] NotAnAddress(GEPOf(pointerOperand(k)), affineValue(Index(GEPOf(pointerOperand(k)))),
                      descriptor(k)) -> "UnsupportedNonAffineAddress"
      [] OTHER -> "Success"

-----------------------------------------------------------------------------
(* analyzeMemoryDependences                                                *)

Accesses == {k \in Insts : isAccess(k)}

\* The pointer LLVM's alias analysis sees: it looks through every GEP.
PointerOf(access, words) ==
    [base |-> access.base, at |-> words, index |-> access.index, scale |-> access.scaleWords]
Pointer(k) == PointerOf(descriptor(k), wordsBehindObject(pointerOperand(k)))

instructionBefore(a, b) ==
    IF Inst(a).block = Inst(b).block THEN a < b ELSE dominates(Inst(a).block, Inst(b).block)

dependenceKind(a, b) ==
    CASE isStore(a) /\ isStore(b) -> "WAW"
      [] isStore(a) -> "RAW"
      [] OTHER -> "WAR"

\* Two accesses with one base and one stride are told apart exactly.
SameShape(x, y) == x.base = y.base /\ x.strideWords = y.strideWords
Exact(a, b) == SameShape(descriptor(a), descriptor(b))

MustBeOrdered(a, b) ==
    /\ a < b /\ (isStore(a) \/ isStore(b))
    /\ Exact(a, b) \/ ~noAlias(Pointer(a), Pointer(b))
Conflicting == {x \in Accesses \X Accesses : MustBeOrdered(x[1], x[2])}

Dependence(a, b, distance) ==
    [src |-> a, dst |-> b, kind |-> dependenceKind(a, b), distance |-> distance]

Abs(x) == IF x < 0 THEN -x ELSE x

positiveDistance_Magnitude(numerator, stride) ==
    IF stride = 0 THEN {}
    ELSE {d \in {Abs(numerator) \div Abs(stride)} : d > 0 /\ d * Abs(stride) = numerator}

\* The set of the distance, if there is one.
positiveDistance(numerator, stride) ==
    IF stride = 0 THEN {}
    ELSE {d \in {Abs(numerator) \div Abs(stride)} : d > 0 /\ d * stride = numerator}

\* An access and one that follows it in the body, both affine with one stride.
DependencesAcross(a, b, gap, stride) ==
    (IF gap = 0 THEN {Dependence(a, b, 0)} ELSE {})
      \cup (IF stride = 0 /\ gap = 0 THEN {Dependence(b, a, 1)} ELSE {})
      \cup {Dependence(a, b, d) : d \in positiveDistance(gap, stride)}
      \cup {Dependence(b, a, d) : d \in positiveDistance(-gap, stride)}
exactDependences(a, b) ==
    DependencesAcross(a, b, descriptor(a).offsetWords - descriptor(b).offsetWords,
                      descriptor(a).strideWords)

mayAliasDependences_Forward(a, b) == {Dependence(a, b, 0)}

\* Accesses that may meet keep the order of the body, and the later one comes
\* before the earlier one of the next iteration.
mayAliasDependences(a, b) == {Dependence(a, b, 0), Dependence(b, a, 1)}

selfDependences ==
    {Dependence(k, k, 1) : k \in {k \in Accesses : isStore(k) /\ descriptor(k).strideWords = 0}}

Ordered(a, b) == IF instructionBefore(a, b) THEN <<a, b>> ELSE <<b, a>>

dependences ==
    selfDependences \cup
    UNION {LET o == Ordered(p[1], p[2])
           IN  IF Exact(p[1], p[2]) THEN exactDependences(o[1], o[2])
                                    ELSE mayAliasDependences(o[1], o[2])
           : p \in Conflicting}

memoryStatus ==
    LET refused == {k \in Accesses : accessStatus(k) # "Success"}
    IN  CASE refused # {} -> accessStatus(CHOOSE k \in refused : \A j \in refused : k =< j)
          [] \E p \in Conflicting :
                ~instructionBefore(p[1], p[2]) /\ ~instructionBefore(p[2], p[1]) ->
                "UnsupportedPathSensitiveOrder"
          [] OTHER -> "Success"

=============================================================================
