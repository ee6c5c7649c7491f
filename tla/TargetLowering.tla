--------------------------- MODULE TargetLowering ---------------------------
(***************************************************************************)
(* compiler/lib/Lowering: TargetLowering.cpp turns every cycle of the      *)
(* schedule into one control word per tile, ConstantAllocator.cpp gives    *)
(* the constants their addresses, TargetControlProgramVerifier checks that *)
(* every event left its mark on a word.                                    *)
(*                                                                         *)
(* A control word is a set of assignments <<field, value>>; a field that   *)
(* nobody assigns has its default.  TileBuilder::merge is the union: two   *)
(* events may assign the same field the same value, and two values for one *)
(* field are a ControlFieldConflict.  A LoweringError is an assignment to  *)
(* the field <<"error">>.                                                  *)
(***************************************************************************)
EXTENDS ScheduleMaterializer

VARIABLE program   \* [prologue, kernel, epilogue]: cycle -> tile -> word

Tiles == DOMAIN target.neighbor

Error(status) == {<<<<"error">>, status>>}

-----------------------------------------------------------------------------
(* ConstantAllocator: equal bits share an address                          *)

\* The values get their addresses in the order the constants are declared in;
\* here that is the order of their ids.
ConstantBits == Ascending(DOMAIN dfg.constants)
AddressOf_Apart == [i \in DOMAIN ConstantBits |-> dfg.constants[ConstantBits[i]]]

AddressOf ==
    LET seen[i \in 0 .. Len(ConstantBits)] ==
            IF i = 0 THEN <<>>
            ELSE LET b == dfg.constants[ConstantBits[i]]
                 IN  IF b \in Range(seen[i - 1]) THEN seen[i - 1] ELSE Append(seen[i - 1], b)
    IN  seen[Len(ConstantBits)]

address(c) == CHOOSE a \in 0 .. Len(AddressOf) - 1 : AddressOf[a + 1] = dfg.constants[c]

ConstantsFit == Len(AddressOf) =< target.constantDepth

UseConstant(c) == {<<<<"constantAddr">>, address(c)>>}

-----------------------------------------------------------------------------
(* Sources                                                                 *)

IsBoundary(e, iter) == iter < 0 /\ dfg.edges[e].distance > 0

boundaryConstantFor_Oldest(e, iter) == Head(dfg.edges[e].boundary).value

\* The value listed at the place of the consumer's iteration.
boundaryConstantFor(e, iter) == dfg.edges[e].boundary[iter + dfg.edges[e].distance + 1].value

BoundaryMissing(e, iter) == iter + dfg.edges[e].distance >= Len(dfg.edges[e].boundary)

\* A predicate constant is a source of its own, a data constant is read from
\* the constant memory.
ConstantSource(domain, c) ==
    IF domain = "Data" THEN <<"CONST">>
    ELSE <<IF dfg.constants[c] # 0 THEN "TRUE" ELSE "FALSE">>

segmentsForEdgeAtTile(e, tile) ==
    {s \in DOMAIN segments : segments[s].edge = e /\ segments[s].tile = tile}

rfSource(s) == <<"RF", alloc[s].readPort>>

-----------------------------------------------------------------------------
(* The assignments of each kind of event                                   *)

BoundaryInject(e, iter) ==
    IF BoundaryMissing(e, iter) THEN Error("UnsupportedBoundaryProvider")
    ELSE IF boundaryConstantFor(e, iter)[1] # "const" THEN Error("UnsupportedExternalProvider")
    ELSE UseConstant(boundaryConstantFor(e, iter)[2])

\* A boundary value enters where its event is lowered, as a constant.
FromBoundary(e, iter, Assign(_)) ==
    IF boundaryConstantFor(e, iter)[1] # "const" THEN BoundaryInject(e, iter)
    ELSE LET c == boundaryConstantFor(e, iter)[2]
         IN  UseConstant(c) \cup Assign(ConstantSource(dfg.edges[e].kind, c))

SinkDomain(sink) == IF sink \in {"P0", "P1", "CommitPredicate"} THEN "Predicate" ELSE "Data"

edgesForOperand(n, k) ==
    {e \in ValueEdges : dfg.edges[e].dst = n /\ dfg.edges[e].operand = k}
bindingsForOperand(n, k) == {b \in dfg.bindings : b.node = n /\ b.operand = k}

readFirst(s, tile) == <<<<"readAddr", segments[s].domain, alloc[s].readPort>>, alloc[s].reg>>

EdgeOperand(e, sink, tile) ==
    LET here == segmentsForEdgeAtTile(e, tile)
    IN  IF here # {}
        THEN {<<<<"source", sink>>, rfSource(Min(here))>>, readFirst(Min(here), tile)}
        ELSE IF Last(mapping.actions[e]).kind # "link" THEN Error("UnsupportedValueSource")
        ELSE {<<<<"source", sink>>, incomingSource(Last(mapping.actions[e]).dir)>>}

Operand(n, k) ==
    LET sink == Op(n).sinks[k].name
        bound == bindingsForOperand(n, k)
        from == edgesForOperand(n, k)
    IN  IF bound # {}
        THEN LET v == (CHOOSE b \in bound : TRUE).value
             IN  IF v[1] # "const" THEN Error("UnsupportedExternalProvider")
                 ELSE UseConstant(v[2])
                        \cup {<<<<"source", sink>>, ConstantSource(SinkDomain(sink), v[2])>>}
        ELSE IF from # {} THEN EdgeOperand(CHOOSE e \in from : TRUE, sink, mapping.tile[n])
        ELSE IF Op(n).sinks[k].optional THEN {} ELSE Error("UnsupportedValueSource")

NodeIssue(n) ==
    {<<<<"op", Op(n).class>>, dfg.op[n]>>}
      \cup UNION {Operand(n, k) : k \in DOMAIN Op(n).sinks}

\* The read address of a register that a link sends is not assigned here.
LinkLaunch(e, i, iter) ==
    LET acts == mapping.actions[e]
        Route(source) == {<<<<"route", dfg.edges[e].kind, acts[i].dir>>, source>>}
    IN  IF IsHold(e, i - 1)
        THEN Route(rfSource(Min(segmentsForEdgeAtTile(e, acts[i - 1].tile))))
        ELSE IF i > 1 THEN Route(incomingSource(acts[i - 1].dir))
        ELSE IF ~IsBoundary(e, iter) THEN Route(resultSource(dfg.edges[e].src))
        ELSE IF BoundaryMissing(e, iter) THEN Error("UnsupportedBoundaryProvider")
        ELSE FromBoundary(e, iter, Route)

WriteSource(s) ==
    IF storageWriteSource(s) = <<"none">> THEN resultSource(dfg.edges[segments[s].edge].src)
    ELSE storageWriteSource(s)

RFWritePort_Steady(s, iter) == alloc[s].writePort

RFWritePort(s, iter) ==
    IF IsBoundary(segments[s].edge, iter) /\ alloc[s].boundaryWritePort # None
    THEN alloc[s].boundaryWritePort ELSE alloc[s].writePort

RFWrite(s, iter) ==
    LET e == segments[s].edge
        port == RFWritePort(s, iter)
        Write(source) ==
            IF port \notin AcceptingPorts(s, source) THEN Error("RFAccessPortViolation")
            ELSE {<<<<"writeAddr", segments[s].domain, port>>, alloc[s].reg>>,
                  <<<<"writeSource", segments[s].domain, port>>, source>>}
    IN  IF ~IsBoundary(e, iter) THEN Write(WriteSource(s))
        ELSE IF BoundaryMissing(e, iter) THEN Error("UnsupportedBoundaryProvider")
        ELSE FromBoundary(e, iter, Write)

Assignments(ev) ==
    CASE ev.kind = "BoundaryValueInject" -> BoundaryInject(ev.id, ev.iter)
      [] ev.kind = "NodeIssue" -> NodeIssue(ev.id)
      [] ev.kind = "LinkLaunch" -> LinkLaunch(ev.id, ev.action, ev.iter)
      [] ev.kind = "RFWrite" -> RFWrite(ev.id, ev.iter)
      [] OTHER -> {}

EventTile(ev) ==
    CASE ev.kind = "BoundaryValueInject" -> mapping.tile[dfg.edges[ev.id].src]
      [] ev.kind = "NodeIssue" -> mapping.tile[ev.id]
      [] ev.kind = "LinkLaunch" -> mapping.actions[ev.id][ev.action].tile
      [] ev.kind \in {"RFWrite", "RFRead"} -> segments[ev.id].tile
      [] OTHER -> None

-----------------------------------------------------------------------------
(* The program                                                             *)

lowerCycle(bundle) ==
    [t \in Tiles |-> UNION {Assignments(ev) : ev \in {ev \in bundle : EventTile(ev) = t}}]

lowerPhase(phase) == [c \in DOMAIN phase |-> lowerCycle(phase[c])]

\* Without a kernel the image still holds II idle words.
Program ==
    [prologue |-> lowerPhase(schedule.prologue),
     kernel   |-> IF schedule.repeatCount = 0
                  THEN [c \in 0 .. ii - 1 |-> lowerCycle({})] ELSE lowerPhase(schedule.kernel),
     epilogue |-> lowerPhase(schedule.epilogue)]

Words(p) == UNION {UNION {Range(phase[c]) : c \in DOMAIN phase}
                   : phase \in {p.prologue, p.kernel, p.epilogue}}

Errors(p) == {a[2] : a \in {a \in UNION Words(p) : a[1] = <<"error">>}}

FieldConflict(p) == \E w \in Words(p) : \E a, b \in w : a[1] = b[1] /\ a[2] # b[2]

Field(word, field, default) ==
    IF \E a \in word : a[1] = field THEN (CHOOSE a \in word : a[1] = field)[2] ELSE default

\* TargetControlProgramVerifier: what it asks of the word of an event's tile.
EventVisible(ev, word) ==
    CASE ev.kind = "NodeIssue" -> Field(word, <<"op", Op(ev.id).class>>, "NOP") = dfg.op[ev.id]
      [] ev.kind = "LinkLaunch" ->
            Field(word, <<"route", dfg.edges[ev.id].kind,
                          mapping.actions[ev.id][ev.action].dir>>, <<"none">>) # <<"none">>
      [] ev.kind = "RFWrite" ->
            LET at == {Field(word, <<"writeAddr", segments[ev.id].domain, p>>, None)
                       : p \in {0, 1}}
            IN  at # {None} /\ (None \in at \/ alloc[ev.id].reg \in at)
      [] ev.kind = "RFRead" ->
            \E p \in {0, 1} :
                Field(word, <<"readAddr", segments[ev.id].domain, p>>, 0) = alloc[ev.id].reg
      [] OTHER -> TRUE

PhaseVisible(phase, words) ==
    \A c \in DOMAIN phase : \A ev \in phase[c] :
        EventTile(ev) # None => EventVisible(ev, words[c][EventTile(ev)])

ControlVerified(p) ==
    /\ PhaseVisible(schedule.prologue, p.prologue)
    /\ PhaseVisible(schedule.kernel, p.kernel)
    /\ PhaseVisible(schedule.epilogue, p.epilogue)

\* The first LoweringError, whatever it is, ends the lowering.
lowerStatus(p) ==
    CASE ~ConstantsFit -> "ConstantCapacityExceeded"
      [] Errors(p) # {} -> CHOOSE s \in Errors(p) : TRUE
      [] FieldConflict(p) -> "ControlFieldConflict"
      [] ~ControlVerified(p) -> "VerificationFailure"
      [] OTHER -> "Success"

=============================================================================
