----------------------------- MODULE GenericDFG -----------------------------
(***************************************************************************)
(* compiler/lib/IR: the generic data-flow graph of a loop body and its     *)
(* verifier.  A graph g is                                                 *)
(*                                                                         *)
(*   [nodes      sequence of [id, opcode, result, operands, icmp, width],  *)
(*    edges      sequence of [id, src, dst, kind, operand, dependence,     *)
(*               distance, boundary],                                      *)
(*    externals  sequence of [id, name, type],                             *)
(*    constants  sequence of [id, type, bits],                             *)
(*    bindings   set of [node, operand, value],                            *)
(*    liveOuts   sequence of [id, type, source]]                           *)
(*                                                                         *)
(* A value is <<"const", id>> or <<"ext", id>>; icmp is "none" and width 0 *)
(* where a node has no such metadata; boundary is <<>> where an edge has   *)
(* none.  Operands count from 0.  The cached adjacency lists are derived   *)
(* here, so the verifier's comparison with them has no counterpart.        *)
(***************************************************************************)
EXTENDS Integers, Sequences, FiniteSets, SequencesExt

-----------------------------------------------------------------------------
(* ValueType                                                               *)

I32 == [kind |-> "Integer", bits |-> 32]
Pred == [kind |-> "Predicate", bits |-> 1]
VoidTy == [kind |-> "Void", bits |-> 0]

isValidType(t) ==
    CASE t.kind \in {"Integer", "Float"} -> t.bits # 0
      [] t.kind = "Predicate" -> t.bits = 1
      [] t.kind = "Void" -> t.bits = 0

isDataType(t) == isValidType(t) /\ t.kind \in {"Integer", "Float"}
isIntegerType(t) == isValidType(t) /\ t.kind = "Integer"
isPredicateType(t) == isValidType(t) /\ t.kind = "Predicate"
isNonVoidType(t) == isValidType(t) /\ t.kind # "Void"

-----------------------------------------------------------------------------
(* DFG                                                                     *)

IdsOf(seq) == {x.id : x \in Range(seq)}
ById(seq, id) == CHOOSE x \in Range(seq) : x.id = id
NextId(seq) == IF seq = <<>> THEN 0 ELSE 1 + CHOOSE i \in IdsOf(seq) : \A j \in IdsOf(seq) : j =< i
UniqueIds(seq) == Cardinality(IdsOf(seq)) = Len(seq)

OperandsOf(n) == 0 .. Len(n.operands) - 1
OperandType(n, k) == n.operands[k + 1]

ValueKnown(g, v) ==
    IF v[1] = "ext" THEN v[2] \in IdsOf(g.externals) ELSE v[2] \in IdsOf(g.constants)
ValueType(g, v) ==
    IF v[1] = "ext" THEN ById(g.externals, v[2]).type ELSE ById(g.constants, v[2]).type

\* What provides an operand: value edges and bindings.
Providers(g, node, k) ==
    {e \in Range(g.edges) : e.kind # "Memory" /\ e.dst = node /\ e.operand = k}
      \cup {b \in g.bindings : b.node = node /\ b.operand = k}

-----------------------------------------------------------------------------
(* DFGVerifier: nodes                                                      *)

Logic == {"And", "Or", "Xor"}
Arithmetic == {"Add", "Sub", "Mul"}
Shifts == {"Shl", "LShr", "AShr"}
MemoryOpcodes == {"Load", "Store"}
Compares == {"EQ", "NE", "ULT", "ULE", "UGT", "UGE", "SLT", "SLE", "SGT", "SGE"}

verifyBinary(n) ==
    /\ Len(n.operands) = 2
    /\ isDataType(n.operands[1])
    /\ n.opcode \in Logic => isIntegerType(n.operands[1])
    /\ n.operands[1] = n.operands[2] /\ n.result = n.operands[1]

verifyShift(n) ==
    /\ Len(n.operands) = 2
    /\ isIntegerType(n.operands[1]) /\ isIntegerType(n.operands[2])
    /\ n.result = n.operands[1]

verifyICmp(n) ==
    /\ Len(n.operands) = 2
    /\ isPredicateType(n.result)
    /\ isIntegerType(n.operands[1]) /\ n.operands[1] = n.operands[2]

verifySelect(n) ==
    /\ Len(n.operands) = 3
    /\ isPredicateType(n.operands[1])
    /\ isNonVoidType(n.operands[2]) /\ n.operands[2] = n.operands[3]
    /\ n.result = n.operands[2]

verifyLoad(n) ==
    Len(n.operands) = 1 /\ isIntegerType(n.operands[1]) /\ isNonVoidType(n.result)

verifyStore(n) ==
    /\ n.result = VoidTy
    /\ Len(n.operands) \in {2, 3}
    /\ isIntegerType(n.operands[1]) /\ isNonVoidType(n.operands[2])
    /\ Len(n.operands) = 3 => isPredicateType(n.operands[3])

verifyMetadata(n) ==
    /\ (n.opcode = "ICmp") = (n.icmp # "none")
    /\ IF n.opcode \in MemoryOpcodes THEN n.width # 0 /\ n.width % 8 = 0 ELSE n.width = 0

verifyNode(n) ==
    /\ isValidType(n.result) /\ \A k \in OperandsOf(n) : isValidType(OperandType(n, k))
    /\ CASE n.opcode \in Arithmetic \cup Logic -> verifyBinary(n)
         [] n.opcode \in Shifts -> verifyShift(n)
         [] n.opcode = "ICmp" -> verifyICmp(n)
         [] n.opcode = "Select" -> verifySelect(n)
         [] n.opcode = "Load" -> verifyLoad(n)
         [] n.opcode = "Store" -> verifyStore(n)
         [] OTHER -> FALSE
    /\ verifyMetadata(n)

-----------------------------------------------------------------------------
(* DFGVerifier: bindings, edges and live-outs                              *)

verifyStructure(g) ==
    /\ UniqueIds(g.nodes) /\ UniqueIds(g.edges) /\ UniqueIds(g.externals)
    /\ UniqueIds(g.constants) /\ UniqueIds(g.liveOuts)
    /\ \A e \in Range(g.edges) : {e.src, e.dst} \subseteq IdsOf(g.nodes)
    /\ \A b \in g.bindings : b.node \in IdsOf(g.nodes) /\ ValueKnown(g, b.value)

verifyValueTypes(g) ==
    \A v \in Range(g.externals) \cup Range(g.constants) : isValidType(v.type)

verifyBinding(g, b) ==
    LET n == ById(g.nodes, b.node)
    IN  b.operand \in OperandsOf(n) /\ ValueType(g, b.value) = OperandType(n, b.operand)

\* Every operand has exactly one provider.
verifyProviders(g, n) == \A k \in OperandsOf(n) : Cardinality(Providers(g, n.id, k)) = 1

verifyBoundary_Partial(g, e, type) ==
    /\ e.distance = 0 => e.boundary = <<>>
    /\ \A i \in DOMAIN e.boundary :
          /\ e.boundary[i].offset \in 0 .. e.distance - 1
          /\ ValueKnown(g, e.boundary[i].value) /\ ValueType(g, e.boundary[i].value) = type

\* One boundary value for every iteration the loop reads before it produced
\* one, in any order.
verifyBoundary(g, e, type) ==
    /\ Len(e.boundary) = e.distance
    /\ \A i \in DOMAIN e.boundary :
          /\ e.boundary[i].offset \in 0 .. e.distance - 1
          /\ \A j \in DOMAIN e.boundary : i # j => e.boundary[i].offset # e.boundary[j].offset
          /\ ValueKnown(g, e.boundary[i].value) /\ ValueType(g, e.boundary[i].value) = type

verifyValueEdge(g, e) ==
    LET src == ById(g.nodes, e.src)
        dst == ById(g.nodes, e.dst)
    IN  /\ e.operand \in OperandsOf(dst)
        /\ src.result = OperandType(dst, e.operand)
        /\ IF e.kind = "Data" THEN src.result.kind \notin {"Void", "Predicate"}
                              ELSE isPredicateType(src.result)
        /\ verifyBoundary(g, e, OperandType(dst, e.operand))

verifyMemoryEdge(g, e) ==
    <<ById(g.nodes, e.src).opcode, ById(g.nodes, e.dst).opcode>> =
        CASE e.dependence = "RAW" -> <<"Store", "Load">>
          [] e.dependence = "WAR" -> <<"Load", "Store">>
          [] e.dependence = "WAW" -> <<"Store", "Store">>

verifyLiveOut(g, l) ==
    /\ isValidType(l.type) /\ l.source \in IdsOf(g.nodes)
    /\ ById(g.nodes, l.source).result # VoidTy /\ ById(g.nodes, l.source).result = l.type

DFGVerified(g) ==
    /\ verifyStructure(g)
    /\ verifyValueTypes(g)
    /\ \A n \in Range(g.nodes) : verifyNode(n) /\ verifyProviders(g, n)
    /\ \A b \in g.bindings : verifyBinding(g, b)
    /\ \A e \in Range(g.edges) :
          IF e.kind = "Memory" THEN verifyMemoryEdge(g, e) ELSE verifyValueEdge(g, e)
    /\ \A l \in Range(g.liveOuts) : verifyLiveOut(g, l)

=============================================================================
