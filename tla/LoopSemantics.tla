---------------------------- MODULE LoopSemantics ---------------------------
(***************************************************************************)
(* What a loop and its graph do for one invocation: the reference against  *)
(* which the frontend is judged.  The loop is run instruction by           *)
(* instruction; instructions without effect are computed on both arms of   *)
(* its branch, PHIs, loads and stores on the path that is taken.           *)
(***************************************************************************)
EXTENDS LoopFrontendVerifier

\* Bound: the iterations of a loop that is run to its exit.
MaxIterations == 6

Eval(op, a, b) ==
    CASE op = "Add" -> a + b
      [] op = "Sub" -> a - b
      [] op = "Mul" -> a * b
      [] op = "Shl" -> a * 2 ^ b
      [] op = "And" -> a * b    \* only of predicates, here

\* Unsigned order of words named by their signed values.
Below(a, b) == IF (a < 0) = (b < 0) THEN a < b ELSE b < 0

Compare(pred, a, b) ==
    LET holds == CASE pred = "EQ" -> a = b      [] pred = "NE" -> a # b
                   [] pred = "SLT" -> a < b     [] pred = "SLE" -> a =< b
                   [] pred = "SGT" -> a > b     [] pred = "SGE" -> a >= b
                   [] pred = "ULT" -> Below(a, b)   [] pred = "ULE" -> ~Below(b, a)
                   [] pred = "UGT" -> Below(b, a)   [] pred = "UGE" -> ~Below(a, b)
    IN  IF holds THEN 1 ELSE 0

InputOf(inv, id) == ById(inv.inputs, id).bits
Fetch(mem, a) == IF a \in DOMAIN mem THEN mem[a] ELSE 0

-----------------------------------------------------------------------------
(* The loop                                                                *)

\* A run of the body: the values computed, the memory it leaves, from where
\* each block that ran was entered, where it went last.
ValueIn(inv, env, v) ==
    CASE v[1] = "inst" -> env[v[2]]
      [] v[1] = "arg" -> InputOf(inv, v[2])
      [] v[1] = "ptr" -> InputOf(inv, v[2]) + v[3]
      [] v[1] = "int" -> v[3]
      [] v[1] = "undef" -> 0

Execute(inv, before, s, k) ==
    LET i == Inst(k)
        ran == i.block \in DOMAIN s.entered
        Arg(n) == ValueIn(inv, s.env, i.args[n])
        Def(x) == [s EXCEPT !.env = @ @@ (k :> x)]
        target == i.from[IF Len(i.from) = 2 /\ Arg(1) = 0 THEN 2 ELSE 1]
    IN  CASE i.op = "PHI" ->
                Def(CASE ~ran -> 0
                      [] i.block = Header -> ValueIn(inv, before, Incoming(k, s.entered[Header]))
                      [] OTHER -> ValueIn(inv, s.env, Incoming(k, s.entered[i.block])))
          [] i.op = "Br" ->
                IF ~ran THEN s
                ELSE IF target \in Blocks \ {Header}
                THEN [s EXCEPT !.entered = @ @@ (target :> i.block)]
                ELSE [s EXCEPT !.next = target, !.last = i.block]
          [] i.op = "GEP" ->
                Def(Arg(1) + i.offset \div 4
                      + (IF Len(i.args) = 1 THEN 0 ELSE Arg(2) * (i.scale \div 4)))
          [] i.op = "Load" -> Def(IF ran THEN Fetch(s.mem, Arg(1)) ELSE 0)
          [] i.op = "Store" ->
                IF ran THEN [s EXCEPT !.mem = [a \in DOMAIN @ \cup {Arg(2)} |->
                                                  IF a = Arg(2) THEN Arg(1) ELSE s.mem[a]]]
                ELSE s
          [] i.op = "ICmp" -> Def(Compare(i.pred, Arg(1), Arg(2)))
          [] i.op = "Select" -> Def(IF Arg(1) = 1 THEN Arg(2) ELSE Arg(3))
          [] OTHER -> Def(Eval(i.op, Arg(1), Arg(2)))

Run(inv, before) ==
    FoldLeft(LAMBDA s, k : Execute(inv, before.env, s, k),
             [env |-> <<>>, mem |-> before.mem, entered |-> Header :> before.last,
              next |-> "none", last |-> "none"],
             [k \in 1 .. Len(loop.insts) |-> k])

\* The iterations up to the exit.
Trace(inv) ==
    LET preloaded == [a \in {p.address : p \in Range(inv.preload)} |->
                        (CHOOSE p \in Range(inv.preload) : p.address = a).value]
        start == [env |-> <<>>, mem |-> preloaded, entered |-> <<>>, next |-> Header,
                  last |-> "pre"]
        More(trace) == LET s == IF trace = <<>> THEN start ELSE trace[Len(trace)]
                       IN  IF s.next = Header THEN Append(trace, Run(inv, s)) ELSE trace
    IN  FoldLeft(LAMBDA trace, i : More(trace), <<>>, [i \in 1 .. MaxIterations |-> i])

\* getSmallConstantTripCount: how often the header runs.
staticTripCount(inv) == IF loop.counted THEN Len(Trace(inv)) ELSE inv.tripCount

Ran(trace, i, k) == Inst(k).block \in DOMAIN trace[i + 1].entered

-----------------------------------------------------------------------------
(* The graph                                                               *)

Outside(g, inv, v) ==
    IF v[1] = "ext" THEN InputOf(inv, v[2]) ELSE ById(g.constants, v[2]).bits

\* Operand o of node n in iteration i, from the values of the nodes.
OperandIn(g, inv, values, i, n, o) ==
    LET p == CHOOSE p \in Providers(g, n, o) : TRUE
    IN  CASE "value" \in DOMAIN p -> Outside(g, inv, p.value)
          [] i >= p.distance -> values[<<i - p.distance, p.src>>]
          [] OTHER -> Outside(g, inv, p.boundary[1].value)

\* The values of the nodes; what a load yields is taken from the loop.
NodeValues(g, inv, trace) ==
    LET value[x \in (0 .. Len(trace) - 1) \X IdsOf(g.nodes)] ==
            LET n == ById(g.nodes, x[2])
                Arg(o) == OperandIn(g, inv, value, x[1], n.id, o)
            IN  CASE n.opcode = "Load" -> trace[x[1] + 1].env[InstructionOf(n.id)]
                  [] n.opcode = "Store" -> 0
                  [] n.opcode = "ICmp" -> Compare(n.icmp, Arg(0), Arg(1))
                  [] n.opcode = "Select" -> IF Arg(0) = 1 THEN Arg(1) ELSE Arg(2)
                  [] OTHER -> Eval(n.opcode, Arg(0), Arg(1))
    IN  value

-----------------------------------------------------------------------------
(* What the graph keeps of the loop                                        *)

\* A loop tested at its top runs a part of its body less often than its
\* header, by which the frontend counts.
EarlyExit == ~Exits(Latch)
WholeIterations(trace) == 0 .. Len(trace) - (IF EarlyExit THEN 2 ELSE 1)

\* A GEP on a pointer that another one moved is taken to start at the object
\* below both.
HoistedOffset(k) == wordsBehindObject(pointerOperand(k)) # descriptor(k).gepOffsetWords

\* The merge of a branch with one arm counts as its other arm.
MergeTakenForArm(k) == isConditionalStore(k) /\ Inst(k).block = MergeBlock

\* A load has its address; a store commits when it runs, and then has its
\* address and its data.
AccessKept(k, i, inv, trace, values) ==
    LET n == nodeId(frontend.plan, k, "node")
        Operand(o) == OperandIn(frontend.dfg, inv, values, i, n, o)
        ran == Ran(trace, i, k)
        commits == Len(GenericNode(n).operands) < 3 \/ Operand(2) = 1
        Was(v) == ValueIn(inv, trace[i + 1].env, v)
    IN  /\ isStore(k) => \/ commits = ran
                         \/ MergeTakenForArm(k)
        /\ ran => \/ Operand(0) = Was(pointerOperand(k))
                  \/ HoistedOffset(k)
        /\ ran /\ isStore(k) => Operand(1) = Was(Inst(k).args[1])

\* A value used behind the loop is a live-out, unless it has no node, or is
\* joined with other values where it is used.
LiveOutKept(o, trace, values) ==
    \/ o.how = "dead" \/ badMerge(o.inst)
    \/ \A n \in dfgNodes : InstructionOf(n) # o.inst
    \/ \E l \in Range(frontend.dfg.liveOuts) :
          /\ InstructionOf(l.source) = o.inst
          /\ values[<<Len(trace) - 1, l.source>>] = trace[Len(trace)].env[o.inst]

\* Alias analysis tells pointers apart within one iteration; accesses of one
\* object with different strides may still meet across iterations.
ToldApartPerIteration(a, b) ==
    descriptor(a).base = descriptor(b).base /\ {<<a, b>>, <<b, a>>} \cap Conflicting = {}

\* Access a of iteration i and access b of iteration j touch one word, and
\* not both only read it.
Meet(a, i, b, j, inv, trace) ==
    LET Word(k, n) == ValueIn(inv, trace[n + 1].env, pointerOperand(k))
    IN  /\ Ran(trace, i, a) /\ Ran(trace, j, b) /\ (isStore(a) \/ isStore(b))
        /\ Word(a, i) = Word(b, j)

OrderKept(a, b, distance) ==
    \E e \in Range(frontend.dfg.edges) :
        /\ e.kind = "Memory" /\ e.distance =< distance
        /\ InstructionOf(e.src) = a /\ InstructionOf(e.dst) = b

=============================================================================
