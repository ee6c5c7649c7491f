------------------------------ MODULE MCCompile -----------------------------
(***************************************************************************)
(* Small kernels on a row of three tiles, each aimed at one thing that can *)
(* go wrong behind it; the candidate mappings of a kernel are enumerated   *)
(* from sets of tiles and slots.                                           *)
(***************************************************************************)
EXTENDS MCLoops

-----------------------------------------------------------------------------
(* The target: a row of three tiles, the ports of configs/cgra_v3          *)

Sink(name, role, optional) == [name |-> name, role |-> role, optional |-> optional]
A == Sink("A", "Data", FALSE)
B == Sink("B", "Data", FALSE)
FUop(sinks, role, type, source) ==
    [class |-> "FU", sinks |-> sinks, resultRole |-> role, resultType |-> type, width |-> 0,
     source |-> source, ready |-> 0, latency |-> 1, occupancy |-> 1]

RowOps ==
    "ADD" :> FUop(0 :> A @@ 1 :> B, "Data", I32, <<"FU">>)
    @@ "CMP_EQ" :> FUop(0 :> A @@ 1 :> B, "Predicate", Pred, <<"FUP">>)
    @@ "SELECT" :> FUop(0 :> Sink("P0", "Predicate", FALSE) @@ 1 :> A @@ 2 :> B,
                        "Data", I32, <<"FU">>)
    @@ "LOAD" :> [FUop(0 :> Sink("Address", "Address", FALSE), "Data", I32, <<"LSU">>)
                    EXCEPT !.class = "LSU", !.ready = 2, !.latency = 2, !.width = 32]
    @@ "STORE" :> [FUop(0 :> Sink("Address", "Address", FALSE)
                          @@ 1 :> Sink("StoreData", "Data", FALSE)
                          @@ 2 :> Sink("CommitPredicate", "Predicate", TRUE),
                        "Void", VoidTy, <<"none">>)
                     EXCEPT !.class = "LSU", !.width = 32]

Arrivals == {<<"IN", d>> : d \in {"N", "S", "E", "W"}}
Copies == {<<"RF", 0>>, <<"RF", 1>>}

Row(registers, reuse, constants) ==
    [ops |-> RowOps, dataWidth |-> 32, depth |-> 8, hop |-> 1,
     supported |-> [t \in 0 .. 2 |-> DOMAIN RowOps],
     neighbor |-> 0 :> ("E" :> 1) @@ 1 :> ("E" :> 2 @@ "W" :> 0) @@ 2 :> ("W" :> 1),
     memorySeparation |-> [RAW |-> 1, WAR |-> 0, WAW |-> 1],
     banks |-> [Data |-> [allocatable |-> registers, readPorts |-> 2,
                          writePortSources |->
                             <<{<<"FU">>},
                               {<<"CONST">>, <<"LSU">>, <<"ZERO">>} \cup Arrivals \cup Copies>>],
                Predicate |-> [allocatable |-> registers, readPorts |-> 2,
                          writePortSources |->
                             <<{<<"FUP">>},
                               {<<"TRUE">>, <<"FALSE">>} \cup Arrivals \cup Copies>>]],
     reuse |-> reuse, constantDepth |-> constants]

-----------------------------------------------------------------------------
(* Graphs                                                                  *)

Node(id, opcode) ==
    [id |-> id, opcode |-> opcode,
     result |-> CASE opcode = "Store" -> VoidTy [] opcode = "ICmp" -> Pred [] OTHER -> I32,
     operands |-> CASE opcode = "Load" -> <<I32>>
                    [] opcode = "Select" -> <<Pred, I32, I32>>
                    [] opcode = "PStore" -> <<I32, I32, Pred>>
                    [] OTHER -> <<I32, I32>>,
     icmp |-> IF opcode = "ICmp" THEN "EQ" ELSE "none",
     width |-> IF opcode \in MemoryOpcodes THEN 32 ELSE 0]
CommittedStore(id) == [Node(id, "PStore") EXCEPT !.opcode = "Store", !.result = VoidTy, !.width = 32]

Flow(src, dst, operand) ==
    [id |-> 0, src |-> src, dst |-> dst, kind |-> "Data", operand |-> operand,
     dependence |-> "none", distance |-> 0, boundary |-> <<>>]
Guard(src, dst, operand) == [Flow(src, dst, operand) EXCEPT !.kind = "Predicate"]
Carry(edge, boundary) == [edge EXCEPT !.distance = Len(boundary), !.boundary = boundary]
Memory(src, dst, dependence, distance) ==
    [Flow(src, dst, 0) EXCEPT !.kind = "Memory", !.dependence = dependence,
                              !.distance = distance]
From(offset, value) == [offset |-> offset, value |-> value]

\* Edges are numbered in order; an operand nobody provides is bound to
\* constant 1 or, where it is a predicate, to constant 2.
Graphs(nodes, edges, externals, bindings, liveOuts) ==
    LET numbered == [i \in DOMAIN edges |-> [edges[i] EXCEPT !.id = 10 + i]]
        IsProvided(n, k) == \/ \E e \in Range(edges) : e.kind # "Memory" /\ e.dst = n.id
                                                     /\ e.operand = k
                          \/ \E b \in bindings : b.node = n.id /\ b.operand = k
    IN  [nodes |-> nodes, edges |-> numbered, externals |-> externals,
         constants |-> <<[id |-> 1, type |-> I32, bits |-> 5],
                         [id |-> 2, type |-> Pred, bits |-> 1],
                         [id |-> 3, type |-> I32, bits |-> 6],
                         [id |-> 4, type |-> Pred, bits |-> 0]>>,
         bindings |-> bindings \cup
            UNION {{[node |-> n.id, operand |-> k,
                     value |-> <<"const", IF OperandType(n, k) = Pred THEN 2 ELSE 1>>]
                    : k \in {k \in OperandsOf(n) : ~IsProvided(n, k)}} : n \in Range(nodes)},
         liveOuts |-> liveOuts]
Plain(nodes, edges) == Graphs(nodes, edges, <<>>, {}, <<>>)

Adds(n) == [i \in 1 .. n |-> Node(20 + i, "Add")]
Five == <<"const", 1>>
Six == <<"const", 3>>

-----------------------------------------------------------------------------
(* Candidates                                                              *)

\* The transport of an edge from tile s to tile d: a hold of one cycle on the
\* same tile, otherwise a link per tile, after a hold of one cycle if it waits.
Transport(m, ready, s, d, waits) ==
    LET dir == IF d > s THEN "E" ELSE "W"
        step == IF d > s THEN 1 ELSE -1
        from == IF waits THEN ready + 1 ELSE ready
        hold == <<[kind |-> "hold", tile |-> s, capture |-> ready, release |-> ready + 1]>>
        links == [i \in 1 .. (d - s) * step |->
                    [kind |-> "link", tile |-> s + (i - 1) * step, dir |-> dir,
                     elapsed |-> from + i - 1]]
    IN  (IF waits \/ s = d THEN hold ELSE <<>>) \o links

\* waits is a set of sets of edges.
Candidates(m, g, interval, tiles, slots, waits) ==
    LET edges == legalize(m, g).edges
        op == legalize(m, g).op
    IN  {[ii |-> interval, tile |-> tile, slot |-> slot,
          actions |-> [e \in {e \in DOMAIN edges : edges[e].kind # "Memory"} |->
             Transport(m, m.ops[op[edges[e].src]].ready, tile[edges[e].src],
                       tile[edges[e].dst], e \in w)]]
         : tile \in tiles, slot \in slots, w \in waits}

Zero(seq) == [n \in 0 .. Len(seq) - 1 |-> seq[n + 1]]
AnySlots(n, interval) == [0 .. n - 1 -> 0 .. interval - 1]

Ample == [decisions |-> 50, backtracks |-> 50]
AmpleRequest == [maxEvents |-> 500, maxCycles |-> 500]
Trips(n) == [tripCount |-> n, inputs |-> <<>>, preload |-> <<>>]

Job(g, m, inv, plans) ==
    [entry |-> "dfg", source |-> g, invocation |-> inv, target |-> m,
     budget |-> Ample, request |-> AmpleRequest, plans |-> plans]

-----------------------------------------------------------------------------

\* Four values in line on one tile, numbered so that the greedy colouring
\* fails and the exact search does not; closing the ring needs three registers.
Chain == <<Flow(21, 22, 0), Flow(24, 25, 0), Flow(22, 23, 0), Flow(23, 24, 0)>>
Line == Plain(Adds(5), Chain)
Ring == Plain(Adds(5), Append(Chain, Carry(Flow(25, 21, 0), <<From(0, Six)>>)))

OneTile(n) == {[k \in 0 .. n - 1 |-> 0]}
InOrder(n) == {[k \in 0 .. n - 1 |-> k]}

LineJob(m, g, b) ==
    [Job(g, m, Trips(3), Candidates(m, g, 5, OneTile(5), InOrder(5), {{}}))
        EXCEPT !.budget = b]

\* Two tiles either side of a third: c@1 feeds a, a feeds b, b feeds the next
\* a, so a's boundary value arrives by a link inside the kernel's first period.
Star ==
    Plain(<<Node(30, "Add"), Node(31, "Add"), Node(32, "Add")>>,
          <<Flow(30, 31, 0), Flow(31, 32, 0), Carry(Flow(32, 31, 1), <<From(0, Six)>>)>>)
StarJobs(m, slots, waits) ==
    [t \in 1 .. 4 |->
        Job(Star, m, Trips(t),
            Candidates(m, Star, 3, {Zero(<<2, 1, 0>>)}, slots, waits))]

\* The first value waits in a register before it is sent.
WaitingJob(m) ==
    Job(Star, m, Trips(2),
        Candidates(m, Star, 3, {Zero(<<2, 1, 0>>)}, {Zero(<<0, 1, 2>>)}, {{1}}))

\* A value carried over two iterations; its boundary values in either order.
Twice(first, second) ==
    Plain(<<Node(40, "Add"), Node(41, "Add")>>,
          <<Flow(40, 41, 0), Carry(Flow(41, 40, 0), <<first, second>>)>>)
TwiceJob(m, first, second, trips, interval) ==
    Job(Twice(first, second), m, Trips(trips),
        Candidates(m, Twice(first, second), interval, {Zero(<<0, 0>>), Zero(<<0, 1>>)},
                   AnySlots(2, interval), {{}}))

\* A value that waits until a time that is not counted to.
Wait == Plain(Adds(2), <<Flow(21, 22, 0)>>)
LongJob(m) ==
    Job(Wait, m, Trips(2),
        {[plan EXCEPT !.actions[1][1].release = MaxTime + 1]
            : plan \in Candidates(m, Wait, 2, OneTile(2), InOrder(2), {{}})})

\* A compare guards a select and a store, on tiles of their own.
Guarded ==
    Plain(<<Node(50, "ICmp"), Node(51, "Select"), CommittedStore(52)>>,
          <<Guard(50, 51, 0), Guard(50, 52, 2), Flow(51, 52, 1),
            Carry(Guard(50, 51, 0), <<From(0, <<"const", 4>>)>>)>>)
GuardedOnce == [Guarded EXCEPT !.edges = SubSeq(@, 1, 3)]
GuardedCarried == [Guarded EXCEPT !.edges = SubSeq(@, 2, 4)]
GuardedJob(m, g, trips, waits) ==
    Job(g, m, Trips(trips),
        Candidates(m, g, 2, {Zero(<<0, 1, 1>>), Zero(<<0, 0, 1>>)}, AnySlots(3, 2), waits))

\* Two producers reach the middle tile in one cycle.
Junction ==
    Plain(<<Node(60, "Add"), Node(61, "Add"), Node(62, "Add")>>,
          <<Flow(60, 62, 0), Flow(61, 62, 1)>>)
MeetJob(m) ==
    Job(Junction, m, Trips(2),
        Candidates(m, Junction, 2, {Zero(<<0, 2, 1>>)}, AnySlots(3, 2), {{}}))

\* A result and an arrival are written in one cycle, the arrival only through
\* the port that the result, which comes first, would take.
Flexible(m) ==
    [m EXCEPT !.banks.Data.writePortSources = <<{<<"FU">>} \cup Arrivals, {<<"FU">>}>>]
FlexibleJob(m) ==
    Job(Junction, Flexible(m), Trips(2),
        Candidates(m, Junction, 3, {Zero(<<1, 2, 1>>)}, AnySlots(3, 3), {{}}))

\* A load whose value is carried twice: a boundary value enters after the
\* first load.
Late ==
    Plain(<<Node(64, "Load"), Node(65, "Add")>>,
          <<Carry(Flow(64, 65, 0), <<From(0, Six), From(1, Five)>>)>>)
LateJob(m, trips) ==
    Job(Late, m, Trips(trips), Candidates(m, Late, 1, {Zero(<<0, 0>>), Zero(<<0, 1>>)},
                                          {Zero(<<0, 0>>)}, {{}}))

\* A kernel with inputs, a running sum that starts at an input, and outputs.
Words32(bits) == [id |-> bits, name |-> bits, type |-> I32]
Sum(liveOuts) ==
    Graphs(<<Node(70, "Load"), Node(71, "Add")>>,
           <<Flow(70, 71, 0), Carry(Flow(71, 71, 1), <<From(0, <<"ext", 9>>)>>)>>,
           <<Words32(8), Words32(9)>>,
           {[node |-> 70, operand |-> 0, value |-> <<"ext", 8>>]}, liveOuts)
Out(id, source) == [id |-> id, type |-> I32, source |-> source]
Invoke(trips, inputs, preload) == [tripCount |-> trips, inputs |-> inputs, preload |-> preload]
In(id, bits) == [id |-> id, bits |-> bits]
Kernel(g, m, inv, plans) == [Job(g, m, inv, plans) EXCEPT !.entry = "kernel"]

SumOut == Sum(<<Out(5, 71)>>)
SumInputs == <<In(8, 3), In(9, 7)>>
SumJob(m, trips, interval) ==
    LET inv == Invoke(trips, SumInputs, <<[address |-> 3, value |-> 1]>>)
    IN  Kernel(SumOut, m, inv,
               Candidates(m, boundGraph(m, SumOut, inv), interval,
                          {Zero(<<0, 0, 0>>), Zero(<<0, 0, 1>>)}, AnySlots(3, interval), {{}}))

\* A loop that also stores an input, the address it stores it to, and has two
\* outputs.
Scatter ==
    Graphs(<<Node(74, "Add"), Node(75, "Store")>>, <<>>, <<Words32(8)>>,
           {[node |-> 75, operand |-> k, value |-> <<"ext", 8>>] : k \in {0, 1}},
           <<Out(6, 74), Out(4, 74)>>)
ScatterJob(m, to, trips) ==
    LET inv == Invoke(trips, <<In(8, to)>>, <<>>)
    IN  Kernel(Scatter, m, inv,
               Candidates(m, boundGraph(m, Scatter, inv), 2, {Zero(<<1, 0, 2, 0>>)},
                          {s \in AnySlots(4, 2) : s[0] = 0}, {{}}))

\* Kernels and invocations that do not bind, and graphs that do not legalise.
Rejected(m) ==
    LET ok == Invoke(2, SumInputs, <<>>)
        K(g, inv) == Kernel(g, m, inv, {})
        D(g) == Job(g, m, Trips(2), {})
    IN  << K(Sum(<<Out(5, 71), Out(5, 70)>>), ok),
           K([SumOut EXCEPT !.externals[2].name = 8], ok),
           K(SumOut, [ok EXCEPT !.tripCount = 0]),
           K(SumOut, [ok EXCEPT !.inputs = <<In(8, 3)>>]),
           K(SumOut, [ok EXCEPT !.inputs = <<In(8, 3), In(9, 7), In(9, 7)>>]),
           K(SumOut, [ok EXCEPT !.preload = <<[address |-> 8, value |-> 1]>>]),
           K(SumOut, [ok EXCEPT !.preload = <<[address |-> 7, value |-> 1]>>]),
           K(SumOut, [ok EXCEPT !.inputs = <<In(8, 7), In(9, 7)>>]),
           K([SumOut EXCEPT !.liveOuts = [i \in 1 .. 9 |-> Out(i, 71)]], ok),
           K([Guarded EXCEPT !.edges = SubSeq(@, 2, 4),
                             !.liveOuts = <<[Out(5, 50) EXCEPT !.type = Pred]>>], Trips(2)),
           D([Line EXCEPT !.edges[1].dst = 99]),
           D([Line EXCEPT !.edges[1].kind = "Predicate"]),
           LineJob(Row(<<0, 1, 2>>, FALSE, 16), [Ring EXCEPT !.edges[5].boundary = <<>>], Ample),
           D([Ring EXCEPT !.edges[5].boundary[1].offset = 1]),
           D([Line EXCEPT !.bindings = {}]),
           D([Line EXCEPT !.nodes[1].opcode = "Mul"]),
           D([SumOut EXCEPT !.nodes[1].width = 16]),
           D([SumOut EXCEPT !.externals[1].type.bits = 16]) >>

\* Two constants for one word: a boundary value that is sent while the word's
\* node reads another constant.
Crossed ==
    Plain(<<Node(80, "Add"), Node(81, "Add")>>,
          <<Flow(80, 81, 0), Carry(Flow(80, 81, 1), <<From(0, Six)>>)>>)
CrossedJob(m, trips) ==
    Job(Crossed, m, Trips(trips),
        Candidates(m, Crossed, 2, {Zero(<<0, 1>>), Zero(<<0, 0>>)}, AnySlots(2, 2), {{}, {2}}))

\* A loop that is compiled to its program, and one that is only lowered.
LoopJob(m, lp, inv, plans) ==
    [Job([loops |-> <<lp>>, wanted |-> "any"], m, inv, plans) EXCEPT !.entry = "loop"]
InputsOf(lp, inputs) ==
    SelectSeq(inputs, LAMBDA x : \E k \in DOMAIN lp.insts : \E v \in Range(lp.insts[k].args) :
                                    v[1] \in {"arg", "ptr"} /\ v[2] = x.id)
LoweredJob(m, lp, trips, nine) ==
    LoopJob(m, lp, Invoke(trips, InputsOf(lp, <<In(8, 0), In(9, nine)>>), <<>>), {})

\* The graphs SumUp and StoreEqual become, for their candidates.
SumUpGraph ==
    Graphs(<<Node(0, "Add")>>, <<Carry(Flow(0, 0, 0), <<From(0, <<"ext", 9>>)>>)>>,
           <<Words32(8), Words32(9)>>, {[node |-> 0, operand |-> 1, value |-> <<"ext", 8>>]},
           <<Out(0, 0)>>)
SumUpJob(m, trips) ==
    LET inv == Invoke(trips, <<In(8, 3), In(9, 7)>>, <<>>)
    IN  LoopJob(m, SumUp, inv,
                Candidates(m, boundGraph(m, SumUpGraph, inv), 2,
                           {Zero(<<0, 0>>), Zero(<<0, 1>>)}, AnySlots(2, 2), {{}}))

StoreEqualGraph ==
    Graphs(<<Node(0, "ICmp"), Node(1, "Add"), CommittedStore(2)>>,
           <<Carry(Flow(1, 0, 0), <<From(0, Six)>>), Carry(Flow(1, 1, 0), <<From(0, Six)>>),
             Carry(Flow(1, 2, 1), <<From(0, Six)>>), Guard(0, 2, 2), Memory(2, 2, "WAW", 1)>>,
           <<Words32(8), Words32(9)>>,
           {[node |-> 0, operand |-> 1, value |-> <<"ext", 9>>],
            [node |-> 2, operand |-> 0, value |-> <<"ext", 8>>]}, <<>>)
StoreEqualJob(m) ==
    LET inv == Invoke(3, <<In(8, 3), In(9, 1)>>, <<>>)
    IN  LoopJob(m, StoreEqual, inv,
                Candidates(m, boundGraph(m, StoreEqualGraph, inv), 3,
                           {Zero(<<0, 1, 2>>), Zero(<<0, 1, 0>>)}, AnySlots(3, 3), {{}}))

\* Which loop of a function is meant.
SelectJob(m, loops, wanted) ==
    [LoweredJob(m, SumUp, 2, 1) EXCEPT !.source = [loops |-> loops, wanted |-> wanted]]
SelectJobs(m) ==
    << SelectJob(m, <<>>, "any"), SelectJob(m, <<SumUp, TopTested>>, "any"),
       SelectJob(m, <<SumUp>>, "z"), SelectJob(m, <<StoreEqual, SumUp>>, "h") >>

LoopJobs(m, reuse) ==
    LET L(lp, trips) == LoweredJob(m, lp, trips, 1)
        Apart(lp, trips) == LoweredJob(m, lp, trips, 40)
    IN  << L(Move(0, 1, 4, 1, 1, 1), 4), L(Move(0, 1, 4, 1, 2, 1), 4), L(Move(3, -1, 0, 1, -1, 1), 3),
           L(Move(3, -1, 0, 1, 1, 1), 3), L(Move(0, 1, 4, 2, 0, 1), 4), L(Move(0, 2, 6, 1, 2, 1), 3),
           L(Move(0, 1, 4, 1, 0, 2), 4), L(Move(0, 1, 4, 1, 0, 1), 4),
           Apart(LateLoad(1), 4), Apart(LateLoad(-1), 4), Apart(Copy(TRUE), 3), L(Copy(FALSE), 3),
           L(InPlace(Gep(P(8), 2, <<>>, 0)), 3), L(AtPointer, 3),
           L(Diamond("SLT", "lcssa"), 3), L(Diamond("UGE", "direct"), 3), L(Diamond("NE", "dead"), 3),
           L(Triangle("SLE"), 3), L(StoreAndMerge, 3), L(Selecting("direct"), 3), L(Selecting("lcssa"), 3),
           L(SumUpTwice, 2),
           L(Hoisted, 2), L(StoreInMerge, 3), L(Stepwise, 4), L(ControlOut, 3), L(PhiOut, 3),
           L(Diamond("SLT", "merged"), 3), L(TopTested, 3), L(TopTested, 2), L(StoreEqual, 4),
           SumUpJob(reuse, 1), SumUpJob(reuse, 4), StoreEqualJob(reuse) >>
        \o SelectJobs(m)
        \o [i \in 1 .. 10 |-> L(StoreYes(Predicates[i]), 3)]
        \o [i \in 1 .. 10 |-> L(StoreNo(Predicates[i]), 3)]
        \o [i \in DOMAIN RefusedLoops |-> L(RefusedLoops[i], 3)]

MCJobs ==
    LET two == Row(<<0, 1>>, FALSE, 16)
        three == Row(<<0, 1, 2>>, FALSE, 16)
        upper == Row(<<1, 2>>, FALSE, 16)
        reuse == Row(<<0, 1>>, TRUE, 16)
    IN  << LineJob(two, Line, Ample), LineJob(two, Ring, Ample), LineJob(three, Ring, Ample),
           LineJob(two, Ring, [decisions |-> 50, backtracks |-> 1]),
           LineJob(two, Line, [decisions |-> 6, backtracks |-> 9]),
           TwiceJob(three, From(0, Five), From(1, Six), 3, 1),
           TwiceJob(three, From(1, Five), From(0, Six), 3, 1),
           TwiceJob(three, From(0, Five), From(1, Six), 2, 2),
           TwiceJob(reuse, From(0, Five), From(1, Six), 4, 2),
           GuardedJob(two, GuardedOnce, 3, {{}, {1}}),
           WaitingJob(two), WaitingJob(upper), LongJob(two),
           [LineJob(two, Line, Ample) EXCEPT
               !.plans = Candidates(two, Line, 6, OneTile(5), InOrder(5), {{}})],
           GuardedJob(two, GuardedCarried, 3, {{}}),
           MeetJob(two), MeetJob(reuse), FlexibleJob(two), LateJob(three, 4), LateJob(reuse, 4),
           SumJob(reuse, 1, 1), SumJob(Row(<<0, 1>>, TRUE, 6), 3, 2), SumJob(two, 2, 3),
           ScatterJob(two, 5, 3), ScatterJob(two, 7, 2), ScatterJob(two, 6, 2),
           CrossedJob(two, 1), CrossedJob(two, 3),
           [CrossedJob(two, 3) EXCEPT !.target.constantDepth = 2],
           [MeetJob(two) EXCEPT !.invocation.tripCount = 0],
           [MeetJob(two) EXCEPT !.target.ops["ADD"].occupancy = 2],
           [MeetJob(two) EXCEPT !.request.maxEvents = 2],
           [MeetJob(two) EXCEPT !.request.maxCycles = 1],
           [SumJob(reuse, 2, 2) EXCEPT !.entry = "dfg",
               !.plans = Candidates(reuse, SumOut, 2, {Zero(<<0, 0>>)}, AnySlots(2, 2), {{}})] >>
        \o StarJobs(two, {Zero(<<1, 1, 2>>), Zero(<<0, 1, 2>>)}, {{}, {1}})
        \o Rejected(two) \o LoopJobs(two, reuse)
=============================================================================
