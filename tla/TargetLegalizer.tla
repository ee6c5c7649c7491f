--------------------------- MODULE TargetLegalizer --------------------------
(***************************************************************************)
(* compiler/lib/Target: TargetLegalizer.cpp turns a generic graph g into   *)
(* the target graph, one target node per generic node; the queries of      *)
(* TargetModel.cpp it asks; TargetDFGVerifier.cpp.                         *)
(*                                                                         *)
(* A target m is a record; what is read here are                           *)
(*   ops         operation -> [class, sinks, resultRole, resultType, width,*)
(*               source, ready, latency, occupancy],                       *)
(*               sinks[k] = [name, role, optional]                         *)
(*   supported   tile -> the operations it executes                        *)
(*   dataWidth                                                             *)
(* A target graph is [op, result, operands, origin: node -> ..., edges,    *)
(* bindings, externals, constants, types, liveOuts, liveOutType].          *)
(***************************************************************************)
EXTENDS GenericDFG

-----------------------------------------------------------------------------
(* TargetModel                                                             *)

supportsValueType(m, t) ==
    CASE t.kind = "Void" -> t.bits = 0
      [] t.kind = "Predicate" -> t.bits = 1
      [] OTHER -> t.kind = "Integer" /\ t.bits = m.dataWidth

compatibleTiles(m, name) == {t \in DOMAIN m.supported : name \in m.supported[t]}

isOperationExecutable(m, name) == compatibleTiles(m, name) # {}

roleMatches(role, t) ==
    CASE role = "Data" -> t.kind \in {"Integer", "Float"}
      [] role = "Predicate" -> t = Pred
      [] role = "Address" -> t.kind = "Integer"

resultRoleMatches(role, t) ==
    CASE role = "Data" -> t.kind \in {"Integer", "Float"}
      [] role = "Predicate" -> t = Pred
      [] role = "Void" -> t = VoidTy

Required(op) == {k \in DOMAIN op.sinks : ~op.sinks[k].optional}

isLoadLike(op) ==
    /\ op.class = "LSU" /\ op.resultRole = "Data"
    /\ DOMAIN op.sinks = {0} /\ op.sinks[0].role = "Address"
isStoreLike(op) ==
    /\ op.class = "LSU" /\ op.resultRole = "Void"
    /\ {0, 1} \subseteq DOMAIN op.sinks
    /\ op.sinks[0].role = "Address" /\ op.sinks[1].role = "Data"

-----------------------------------------------------------------------------
(* TargetLegalizer                                                         *)

\* An ICmp is one operation per compare predicate.
operationFor(n) ==
    CASE n.opcode = "Add" -> "ADD" [] n.opcode = "Sub" -> "SUB" [] n.opcode = "Mul" -> "MUL"
      [] n.opcode = "And" -> "AND" [] n.opcode = "Or" -> "OR" [] n.opcode = "Xor" -> "XOR"
      [] n.opcode = "Shl" -> "SHL" [] n.opcode = "LShr" -> "LSHR" [] n.opcode = "AShr" -> "ASHR"
      [] n.opcode = "Select" -> "SELECT" [] n.opcode = "Load" -> "LOAD"
      [] n.opcode = "Store" -> "STORE"
      [] n.opcode = "ICmp" ->
            [EQ |-> "CMP_EQ", NE |-> "CMP_NE", ULT |-> "CMP_ULT", ULE |-> "CMP_ULE",
             UGT |-> "CMP_UGT", UGE |-> "CMP_UGE", SLT |-> "CMP_SLT", SLE |-> "CMP_SLE",
             SGT |-> "CMP_SGT", SGE |-> "CMP_SGE"][n.icmp]

\* The preflight of one node: the first diagnostic, or Success.
nodeStatus(m, n) ==
    LET name == operationFor(n)
        op == m.ops[name]
    IN  CASE ~supportsValueType(m, n.result)
             \/ \E k \in OperandsOf(n) : ~supportsValueType(m, OperandType(n, k)) ->
                "UnsupportedType"
          [] name \notin DOMAIN m.ops ->
                IF n.opcode = "ICmp" THEN "UnsupportedComparePredicate"
                                     ELSE "UnsupportedOperation"
          [] ~isOperationExecutable(m, name) -> "NoCompatibleExecutionResource"
          [] n.opcode \in MemoryOpcodes /\ n.width # op.width -> "UnsupportedMemoryAccessWidth"
          [] \/ Len(n.operands) < Cardinality(Required(op))
             \/ Len(n.operands) > Cardinality(DOMAIN op.sinks)
             \/ \E k \in OperandsOf(n) : ~roleMatches(op.sinks[k].role, OperandType(n, k))
             \/ ~resultRoleMatches(op.resultRole, n.result)
             \/ op.resultType # n.result -> "TargetContractError"
          [] OTHER -> "Success"

legalizationDiagnostics(m, g) ==
    IF ~DFGVerified(g) THEN {"InvalidGenericDFG"}
    ELSE ({nodeStatus(m, n) : n \in Range(g.nodes)} \ {"Success"})
           \cup (IF \A v \in Range(g.externals) \cup Range(g.constants) \cup Range(g.liveOuts) :
                       supportsValueType(m, v.type) THEN {} ELSE {"UnsupportedType"})

\* Target nodes and edges are numbered in the order of the generic ones.
TargetNode(g, id) == (CHOOSE i \in DOMAIN g.nodes : g.nodes[i].id = id) - 1

legalize(m, g) ==
    LET tnodes == 0 .. Len(g.nodes) - 1
        From(t) == g.nodes[t + 1]
    IN  [op |-> [t \in tnodes |-> operationFor(From(t))],
         result |-> [t \in tnodes |-> From(t).result],
         operands |-> [t \in tnodes |-> From(t).operands],
         origin |-> [t \in tnodes |-> From(t).id],
         edges |-> [i \in DOMAIN g.edges |->
                       [g.edges[i] EXCEPT !.src = TargetNode(g, @), !.dst = TargetNode(g, @)]],
         bindings |-> {[b EXCEPT !.node = TargetNode(g, @)] : b \in g.bindings},
         externals |-> g.externals,
         constants |-> [c \in IdsOf(g.constants) |-> ById(g.constants, c).bits],
         types |-> [c \in IdsOf(g.constants) |-> ById(g.constants, c).type],
         liveOuts |-> [l \in IdsOf(g.liveOuts) |-> TargetNode(g, ById(g.liveOuts, l).source)],
         liveOutType |-> [l \in IdsOf(g.liveOuts) |-> ById(g.liveOuts, l).type]]

-----------------------------------------------------------------------------
(* TargetDFGVerifier                                                       *)

ProvidersOf(t, n, k) ==
    {e \in DOMAIN t.edges : t.edges[e].kind # "Memory" /\ t.edges[e].dst = n
                            /\ t.edges[e].operand = k}
      \cup {b \in t.bindings : b.node = n /\ b.operand = k}

BindingType(t, v) ==
    IF v[1] = "ext" THEN ById(t.externals, v[2]).type ELSE t.types[v[2]]

TargetBindingOK(t, b) ==
    /\ b.node \in DOMAIN t.op
    /\ b.operand + 1 \in DOMAIN t.operands[b.node]
    /\ IF b.value[1] = "ext" THEN b.value[2] \in IdsOf(t.externals)
                             ELSE b.value[2] \in DOMAIN t.constants
    /\ BindingType(t, b.value) = t.operands[b.node][b.operand + 1]

TargetNodeOK(m, g, t, n) ==
    LET op == m.ops[t.op[n]]
        operands == DOMAIN t.operands[n]
    IN  /\ t.op[n] \in DOMAIN m.ops /\ isOperationExecutable(m, t.op[n])
        /\ op.resultType = t.result[n] /\ resultRoleMatches(op.resultRole, t.result[n])
        /\ supportsValueType(m, t.result[n])
        /\ isStoreLike(op) => t.result[n] = VoidTy
        /\ isLoadLike(op) => t.result[n] # VoidTy
        /\ Cardinality(operands) \in Cardinality(Required(op)) .. Cardinality(DOMAIN op.sinks)
        /\ \A k \in operands :
              /\ supportsValueType(m, t.operands[n][k])
              /\ roleMatches(op.sinks[k - 1].role, t.operands[n][k])
              /\ Cardinality(ProvidersOf(t, n, k - 1)) = 1
        /\ t.origin[n] \in IdsOf(g.nodes)

TargetEdgeOK(m, t, e) ==
    LET edge == t.edges[e]
        src == m.ops[t.op[edge.src]]
        dst == m.ops[t.op[edge.dst]]
    IN  /\ {edge.src, edge.dst} \subseteq DOMAIN t.op
        /\ CASE edge.kind = "Data" ->
                  /\ edge.operand + 1 \in DOMAIN t.operands[edge.dst]
                  /\ dst.sinks[edge.operand].role \in {"Data", "Address"}
                  /\ src.resultRole = "Data"
                  /\ t.result[edge.src] = t.operands[edge.dst][edge.operand + 1]
             [] edge.kind = "Predicate" ->
                  /\ edge.operand + 1 \in DOMAIN t.operands[edge.dst]
                  /\ dst.sinks[edge.operand].role = "Predicate"
                  /\ src.resultRole = "Predicate"
                  /\ t.operands[edge.dst][edge.operand + 1] = Pred
             [] edge.kind = "Memory" ->
                  CASE edge.dependence = "RAW" -> isStoreLike(src) /\ isLoadLike(dst)
                    [] edge.dependence = "WAR" -> isLoadLike(src) /\ isStoreLike(dst)
                    [] edge.dependence = "WAW" -> isStoreLike(src) /\ isStoreLike(dst)

TargetTypesOK(m, t) ==
    /\ \A v \in Range(t.externals) : supportsValueType(m, v.type)
    /\ \A c \in DOMAIN t.types : supportsValueType(m, t.types[c])

TargetLiveOutOK(m, t, l) ==
    /\ t.liveOuts[l] \in DOMAIN t.op /\ t.result[t.liveOuts[l]] = t.liveOutType[l]
    /\ supportsValueType(m, t.liveOutType[l])

\* Boundary values are not looked at.
TargetDFGVerified(m, g, t) ==
    /\ \A b \in t.bindings : TargetBindingOK(t, b)
    /\ TargetTypesOK(m, t)
    /\ \A n \in DOMAIN t.op : TargetNodeOK(m, g, t, n)
    /\ \A e \in DOMAIN t.edges : TargetEdgeOK(m, t, e)
    /\ \A l \in DOMAIN t.liveOuts : TargetLiveOutOK(m, t, l)

=============================================================================
