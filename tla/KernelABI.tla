------------------------------ MODULE KernelABI -----------------------------
(***************************************************************************)
(* compiler/lib/ABI: a kernel is a generic graph with external inputs and  *)
(* live-outs; binding it to one invocation turns every input into a        *)
(* constant and every live-out into a store to a word of its own at the    *)
(* top of the scratchpad.                                                  *)
(*                                                                         *)
(*   inv    [tripCount, inputs, preload]: sequences of [id, bits] and of   *)
(*          [address, value]                                               *)
(*   bound  [g, base, inputs: external -> constant,                        *)
(*          outputs: live-out -> [address, store, constant]]               *)
(*                                                                         *)
(* m.depth is the scratchpad's depth, m.dataWidth its word width.          *)
(***************************************************************************)
EXTENDS TargetLegalizer

-----------------------------------------------------------------------------
(* KernelSignature and KernelInvocation                                    *)

\* Values stay below 2^31, so only a narrower type can be too narrow.
Fits(bits, type) == type.bits > 30 \/ bits < 2^type.bits

inputOK(m, g, x) ==
    LET type == ById(g.externals, x.id).type
    IN  /\ x.id \in IdsOf(g.externals)
        /\ Fits(x.bits, type)
        /\ type.kind \in {"Integer", "Predicate"}
        /\ type.kind = "Integer" => type.bits = m.dataWidth

validateInvocation(m, g, inv) ==
    /\ inv.tripCount # 0
    /\ UniqueIds(inv.inputs)
    /\ \A x \in Range(inv.inputs) : inputOK(m, g, x)
    /\ IdsOf(inv.inputs) = IdsOf(g.externals)
    /\ \A p, q \in Range(inv.preload) :
          p.address < m.depth /\ (p.address = q.address => p.value = q.value)

UniqueNames(g) == Cardinality({x.name : x \in Range(g.externals)}) = Len(g.externals)

-----------------------------------------------------------------------------
(* KernelABIBinder                                                         *)

OutputBase(m, g) == m.depth - Len(g.liveOuts)

PreloadCollides(m, g, inv) ==
    g.liveOuts # <<>> /\ \E p \in Range(inv.preload) : p.address >= OutputBase(m, g)

Ordinal(g, l) == Cardinality({k \in IdsOf(g.liveOuts) : k < l})
LiveOutOrder(g) ==
    [i \in 1 .. Len(g.liveOuts) |-> CHOOSE l \in IdsOf(g.liveOuts) : Ordinal(g, l) = i - 1]

\* Inputs become constants with the ids after the last one, in their order;
\* the addresses of the outputs follow.
specialized(g) ==
    [x \in IdsOf(g.externals) |->
        NextId(g.constants) + (CHOOSE i \in DOMAIN g.externals : g.externals[i].id = x) - 1]

Output(m, g, l) ==
    [address |-> OutputBase(m, g) + Ordinal(g, l),
     store |-> NextId(g.nodes) + Ordinal(g, l),
     constant |-> NextId(g.constants) + Len(g.externals) + Ordinal(g, l)]

Specialize(g, v) == IF v[1] = "ext" THEN <<"const", specialized(g)[v[2]]>> ELSE v

rewriteBoundary_Keep(g, e) == e
rewriteBoundary(g, e) ==
    [e EXCEPT !.boundary = [i \in DOMAIN @ |-> [@[i] EXCEPT !.value = Specialize(g, @)]]]

OutputStore(m, g, l) ==
    [id |-> Output(m, g, l).store, opcode |-> "Store", result |-> VoidTy,
     operands |-> <<I32, ById(g.liveOuts, l).type>>, icmp |-> "none", width |-> m.dataWidth]

OutputEdges(m, g, l) ==
    LET next == NextId(g.edges) + 2 * Ordinal(g, l)
        store == Output(m, g, l).store
        edge == [id |-> next, src |-> ById(g.liveOuts, l).source, dst |-> store, kind |-> "Data",
                 operand |-> 1, dependence |-> "none", distance |-> 0, boundary |-> <<>>]
    IN  <<edge, [edge EXCEPT !.id = next + 1, !.src = store, !.kind = "Memory", !.operand = 0,
                             !.dependence = "WAW", !.distance = 1]>>

boundGraph(m, g, inv) ==
    LET order == LiveOutOrder(g)
    IN  [nodes |-> g.nodes \o [i \in DOMAIN order |-> OutputStore(m, g, order[i])],
         edges |-> [i \in DOMAIN g.edges |-> rewriteBoundary(g, g.edges[i])]
                     \o FlattenSeq([i \in DOMAIN order |-> OutputEdges(m, g, order[i])]),
         externals |-> g.externals,
         constants |-> g.constants
            \o [i \in DOMAIN g.externals |->
                  [id |-> specialized(g)[g.externals[i].id], type |-> g.externals[i].type,
                   bits |-> ById(inv.inputs, g.externals[i].id).bits]]
            \o [i \in DOMAIN order |->
                  [id |-> Output(m, g, order[i]).constant, type |-> I32,
                   bits |-> Output(m, g, order[i]).address]],
         bindings |-> {[b EXCEPT !.value = Specialize(g, @)] : b \in g.bindings}
            \cup {[node |-> Output(m, g, l).store, operand |-> 0,
                   value |-> <<"const", Output(m, g, l).constant>>] : l \in IdsOf(g.liveOuts)},
         liveOuts |-> g.liveOuts]

boundKernel(m, g, inv) ==
    [g |-> boundGraph(m, g, inv), base |-> OutputBase(m, g), inputs |-> specialized(g),
     outputs |-> [l \in IdsOf(g.liveOuts) |-> Output(m, g, l)]]

ABIStores(bound) == {bound.outputs[l].store : l \in DOMAIN bound.outputs}

checkReserved_LoadsOnly(m, bound) ==
    \A n \in Range(bound.g.nodes) : n.opcode = "Load" /\ n.id \notin ABIStores(bound) =>
        \A b \in bound.g.bindings :
            b.node = n.id /\ b.operand = 0 /\ b.value[1] = "const" =>
                ById(bound.g.constants, b.value[2]).bits \notin bound.base .. m.depth - 1

\* No other load or store has an output word as its constant address.  An
\* address that is computed is not looked at.
checkReservedMemoryAddresses(m, bound) ==
    \A n \in Range(bound.g.nodes) : n.opcode \in MemoryOpcodes /\ n.id \notin ABIStores(bound) =>
        \A b \in bound.g.bindings :
            b.node = n.id /\ b.operand = 0 /\ b.value[1] = "const" =>
                ById(bound.g.constants, b.value[2]).bits \notin bound.base .. m.depth - 1

-----------------------------------------------------------------------------
(* KernelABIVerifier                                                       *)

sameBoundary(lhs, rhs, inputs) ==
    /\ Len(lhs) = Len(rhs)
    /\ \A i \in DOMAIN lhs :
          /\ lhs[i].offset = rhs[i].offset
          /\ rhs[i].value = IF lhs[i].value[1] = "ext" THEN <<"const", inputs[lhs[i].value[2]]>>
                            ELSE lhs[i].value

SameEdge(bound, e) ==
    \E f \in Range(bound.g.edges) :
        f = [e EXCEPT !.boundary = f.boundary] /\ sameBoundary(e.boundary, f.boundary, bound.inputs)

SameBinding(bound, b) ==
    [b EXCEPT !.value = IF @[1] = "ext" THEN <<"const", bound.inputs[@[2]]>> ELSE @]
        \in bound.g.bindings

InputBound(bound, inv, x) ==
    LET c == ById(bound.g.constants, bound.inputs[x.id])
    IN  /\ bound.inputs[x.id] \in IdsOf(bound.g.constants)
        /\ c.type = x.type /\ c.bits = ById(inv.inputs, x.id).bits

OutputBound(m, bound, l) ==
    LET o == bound.outputs[l.id]
    IN  /\ o.address \in bound.base .. m.depth - 1
        /\ o.store \in IdsOf(bound.g.nodes) /\ ById(bound.g.nodes, o.store).opcode = "Store"
        /\ ById(bound.g.constants, o.constant) = [id |-> o.constant, type |-> I32,
                                                  bits |-> o.address]
        /\ [node |-> o.store, operand |-> 0, value |-> <<"const", o.constant>>]
              \in bound.g.bindings
        /\ \E e \in Range(bound.g.edges) :
              e.kind = "Data" /\ e.src = l.source /\ e.dst = o.store /\ e.operand = 1
        /\ \E e \in Range(bound.g.edges) :
              e.kind = "Memory" /\ e.src = o.store /\ e.dst = o.store
              /\ e.distance = 1 /\ e.dependence = "WAW"

SourceKept(g, bound) ==
    /\ Range(g.nodes) \subseteq Range(bound.g.nodes) /\ g.externals = bound.g.externals
    /\ Range(g.constants) \subseteq Range(bound.g.constants) /\ g.liveOuts = bound.g.liveOuts

InputsBound(g, inv, bound) ==
    /\ DOMAIN bound.inputs = IdsOf(g.externals)
    /\ \A x \in Range(g.externals) : InputBound(bound, inv, x)

\* One store per live-out, the words in the order of the live-outs' ids.
OutputsPlaced(g, bound) ==
    /\ DOMAIN bound.outputs = IdsOf(g.liveOuts)
    /\ Cardinality(ABIStores(bound)) = Len(g.liveOuts)
    /\ \A l \in IdsOf(g.liveOuts) : bound.outputs[l].address = bound.base + Ordinal(g, l)

KernelABIVerified(m, g, inv, bound) ==
    /\ DFGVerified(g) /\ DFGVerified(bound.g)
    /\ validateInvocation(m, g, inv)
    /\ bound.base = OutputBase(m, g)
    /\ SourceKept(g, bound)
    /\ InputsBound(g, inv, bound)
    /\ \A b \in g.bindings : SameBinding(bound, b)
    /\ \A e \in Range(g.edges) : SameEdge(bound, e)
    /\ OutputsPlaced(g, bound)
    /\ \A l \in Range(g.liveOuts) : OutputBound(m, bound, l)
    /\ ~PreloadCollides(m, g, inv)
    /\ bound.outputs # <<>> => checkReservedMemoryAddresses(m, bound)

-----------------------------------------------------------------------------

bindStatus(m, g, inv) ==
    CASE ~DFGVerified(g) \/ ~UniqueNames(g) -> "InvalidSourceDFG"
      [] ~validateInvocation(m, g, inv) -> "InvalidInvocation"
      [] Len(g.liveOuts) > m.depth -> "ScratchpadABICapacityExceeded"
      [] PreloadCollides(m, g, inv) -> "ScratchpadABIRegionConflict"
      [] \E l \in Range(g.liveOuts) :
            l.type # [kind |-> "Integer", bits |-> m.dataWidth] -> "UnsupportedLiveOutType"
      [] ~checkReservedMemoryAddresses(m, boundKernel(m, g, inv)) -> "ScratchpadABIRegionConflict"
      [] ~KernelABIVerified(m, g, inv, boundKernel(m, g, inv)) -> "VerificationFailure"
      [] OTHER -> "Success"

=============================================================================
