----------------------------- MODULE RFAllocator ----------------------------
(***************************************************************************)
(* compiler/lib/RegisterAllocation: RFAllocator.cpp gives every storage    *)
(* segment a register of the bank of its tile and domain, and the ports    *)
(* through which it is written and read; RFAllocationVerifier.cpp checks   *)
(* the result from scratch.                                                *)
(*                                                                         *)
(* Per bank the conflict graph is coloured greedily in the order of the    *)
(* ids; when that fails, all over again by an exact search whose recursion *)
(* is the trail: one frame [vertex, tried] per selected vertex.  Ports are *)
(* matched by augmenting paths, per modulo slot.                           *)
(***************************************************************************)
EXTENDS StagedKernel

CONSTANT MaxTime    \* the largest std::uint64_t

ASSUME TimeAssumption == MaxTime \in Nat

VARIABLES
    segments,      \* StorageRequirements
    colors,        \* segment -> its register, None while it has none
    trail,         \* the activations of colorExact
    decisions, backtracks,
    budget,        \* RFAllocationBudget: [decisions, backtracks]
    alloc,         \* segment -> [reg, readPort, writePort, boundaryWritePort]
    rfStatus       \* "analyze", "greedy", "exact", "ports" or RFAllocationStatus

rfVars == <<segments, colors, trail, decisions, backtracks, alloc, rfStatus>>

None == -1

RFInit ==
    /\ segments = <<>> /\ colors = <<>> /\ trail = <<>>
    /\ decisions = 0 /\ backtracks = 0
    /\ alloc = <<>>
    /\ rfStatus = "idle"

RFRejections == {"FixedRegisterSelfOverlap", "ReadPortConflict", "WritePortConflict",
                 "SameAddressRWConflict", "RegisterDepthInfeasible"}
RFStatuses == RFRejections \cup {"Success", "BudgetExceeded", "VerificationFailure",
                                  "InvalidStagedMapping", "TargetRFContractError",
                                  "ArithmeticOverflow"}

-----------------------------------------------------------------------------
(* Sources                                                                 *)

Bank(s) == target.banks[segments[s].domain]
BankKey(s) == <<segments[s].tile, segments[s].domain>>

\* The value arrives through the side opposite to the link it was sent on.
incomingSource(dir) == <<"IN", opposite(dir)>>
resultSource(n) == Op(n).source

storageWriteSource(s) ==
    LET e == segments[s].edge
        acts == mapping.actions[e]
        first == segments[s].origins[1]
    IN  IF first # 0
        THEN IF first > 1 /\ acts[first - 1].kind = "link"
             THEN incomingSource(acts[first - 1].dir)
             ELSE resultSource(dfg.edges[e].src)
        ELSE IF acts # <<>> /\ Last(acts).kind = "link"
             THEN incomingSource(Last(acts).dir)
             ELSE <<"none">>

\* The source of a loop-carried value that the loop has not produced, judged
\* by the first boundary value that is listed.
boundaryWriteSource(s) ==
    LET e == dfg.edges[segments[s].edge]
    IN  IF e.distance = 0 \/ e.boundary = <<>> THEN <<"none">>
        ELSE IF Head(e.boundary).value[1] # "const" THEN <<"none">>
        ELSE IF e.kind = "Data" THEN <<"CONST">>
        ELSE <<IF dfg.constants[Head(e.boundary).value[2]] # 0 THEN "TRUE" ELSE "FALSE">>

-----------------------------------------------------------------------------
(* Requirements, self overlap and port demand                              *)

\* The times that are added up; those inside a coalesced segment lie between
\* its ends.
Times ==
    (UNION {{segments[s].write, segments[s].read} : s \in DOMAIN segments})
      \cup UNION {{logicalIssueTime(dfg.edges[e].src) + requiredSeparation(e), UseTime(e)}
                    : e \in ValueEdges}

\* StorageRequirementAnalysis turns down a mapping that is not staged, a stay
\* that takes no time, a time of more than 64 bits and a bank of nothing.
StorageStatus ==
    IF ii = 0 \/ ~StagesVerified \/ \E s \in DOMAIN segments : NoLifetime(segments[s])
    THEN "InvalidStagedMapping"
    ELSE IF ~(Times \subseteq 0 .. MaxTime) THEN "ArithmeticOverflow"
    ELSE IF \E s \in DOMAIN segments : \/ Bank(s).allocatable = <<>> \/ Bank(s).readPorts = 0
                                       \/ Bank(s).writePortSources = <<>>
    THEN "TargetRFContractError"
    ELSE "Success"

WritesIn(s, upTo) == {t \in 1 .. upTo : BankKey(t) = BankKey(s)
                                        /\ segments[t].write % ii = segments[s].write % ii}
ReadsIn(s, upTo) == {t \in 1 .. upTo : BankKey(t) = BankKey(s)
                                       /\ segments[t].read % ii = segments[s].read % ii}

TooManyWrites(s) == Cardinality(WritesIn(s, s)) > Len(Bank(s).writePortSources)
TooManyReads(s) == Cardinality(ReadsIn(s, s)) > Bank(s).readPorts

\* The segments are counted in order; the first that is one too many names
\* the status.
DemandStatus ==
    LET over == {s \in DOMAIN segments : TooManyWrites(s) \/ TooManyReads(s)}
    IN  IF \E s \in DOMAIN segments : fixedRegisterSelfOverlaps(segments[s])
        THEN "FixedRegisterSelfOverlap"
        ELSE IF over = {} THEN "greedy"
        ELSE IF TooManyWrites(Min(over)) THEN "WritePortConflict" ELSE "ReadPortConflict"

Analyze ==
    /\ rfStatus = "analyze"
    /\ segments' = analyze
    /\ colors' = [s \in 1 .. Len(segments') |-> None]
    /\ rfStatus' = IF StorageStatus' = "Success" THEN DemandStatus' ELSE StorageStatus'
    /\ UNCHANGED <<trail, decisions, backtracks, alloc>>

-----------------------------------------------------------------------------
(* Colouring, bank after bank                                              *)

Conflict(s, t) ==
    s # t /\ BankKey(s) = BankKey(t) /\ periodicLifetimesConflict(segments[s], segments[t])

Uncolored == {s \in DOMAIN segments : colors[s] = None}

BankOrder(s) == 2 * segments[s].tile + (IF segments[s].domain = "Data" THEN 0 ELSE 1)

\* The bank that is coloured now, the first that is not finished.
Vertices ==
    LET now == Min({BankOrder(s) : s \in Uncolored})
    IN  {s \in DOMAIN segments : BankOrder(s) = now}

Registers(s) == Bank(s).allocatable
Available(s) ==
    {i \in DOMAIN Registers(s) :
        \A t \in DOMAIN segments : Conflict(s, t) => colors[t] # Registers(s)[i]}

NoDecisionLeft == decisions >= budget.decisions

GreedyColor_Final ==
    /\ rfStatus = "greedy" /\ Uncolored # {}
    /\ LET s == Min(Vertices \cap Uncolored) IN
         IF Available(s) = {} \/ NoDecisionLeft
         THEN /\ rfStatus' = IF NoDecisionLeft THEN "BudgetExceeded" ELSE "RegisterDepthInfeasible"
              /\ UNCHANGED <<colors, decisions>>
         ELSE /\ colors' = [colors EXCEPT ![s] = Registers(s)[Min(Available(s))]]
              /\ decisions' = decisions + 1
              /\ UNCHANGED rfStatus
    /\ UNCHANGED <<segments, backtracks, alloc, trail>>

GreedyColor ==
    /\ rfStatus = "greedy" /\ Uncolored # {}
    /\ LET s == Min(Vertices \cap Uncolored) IN
         IF NoDecisionLeft
         THEN /\ rfStatus' = "BudgetExceeded"
              /\ UNCHANGED <<colors, decisions, trail>>
         ELSE IF Available(s) # {}
         THEN /\ colors' = [colors EXCEPT ![s] = Registers(s)[Min(Available(s))]]
              /\ decisions' = decisions + 1
              /\ UNCHANGED <<rfStatus, trail>>
         ELSE /\ colors' = [t \in DOMAIN colors |-> IF t \in Vertices THEN None ELSE colors[t]]
              /\ rfStatus' = "exact"
              /\ UNCHANGED <<decisions, trail>>
    /\ UNCHANGED <<segments, backtracks, alloc>>

\* DSATUR: most colours among the neighbours, most neighbours, lowest id.
Neighbors(s) == {t \in DOMAIN segments : Conflict(s, t)}
Saturation(s) == Cardinality({colors[t] : t \in Neighbors(s)} \ {None})
Selected ==
    LET open == Vertices \cap Uncolored
        saturated == {s \in open : \A t \in open : Saturation(s) >= Saturation(t)}
        widest == {s \in saturated : \A t \in saturated :
                      Cardinality(Neighbors(s)) >= Cardinality(Neighbors(t))}
    IN  Min(widest)

Top == Last(trail)
Untried(f) == {i \in Available(f.vertex) : i > f.tried}

ExactSelect ==
    /\ rfStatus = "exact"
    /\ trail # <<>> => colors[Top.vertex] # None
    /\ IF trail # <<>> /\ BankOrder(Top.vertex) \notin {BankOrder(s) : s \in Uncolored}
       THEN rfStatus' = "greedy" /\ trail' = <<>>
       ELSE rfStatus' = rfStatus /\ trail' = Append(trail, [vertex |-> Selected, tried |-> 0])
    /\ UNCHANGED <<segments, colors, decisions, backtracks, alloc>>

ExactTry ==
    /\ rfStatus = "exact" /\ trail # <<>>
    /\ colors[Top.vertex] = None /\ Untried(Top) # {}
    /\ IF NoDecisionLeft
       THEN rfStatus' = "BudgetExceeded" /\ UNCHANGED <<colors, decisions, trail>>
       ELSE /\ colors' = [colors EXCEPT ![Top.vertex] =
                             Registers(Top.vertex)[Min(Untried(Top))]]
            /\ trail' = [trail EXCEPT ![Len(trail)].tried = Min(Untried(Top))]
            /\ decisions' = decisions + 1
            /\ UNCHANGED rfStatus
    /\ UNCHANGED <<segments, backtracks, alloc>>

\* This activation returns false; its caller takes its colour back.
ExactReturn ==
    /\ rfStatus = "exact" /\ trail # <<>>
    /\ colors[Top.vertex] = None /\ Untried(Top) = {}
    /\ trail' = Front(trail)
    /\ IF Len(trail) = 1
       THEN rfStatus' = "RegisterDepthInfeasible" /\ UNCHANGED <<colors, backtracks>>
       ELSE /\ colors' = [colors EXCEPT ![trail[Len(trail) - 1].vertex] = None]
            /\ IF backtracks >= budget.backtracks
               THEN rfStatus' = "BudgetExceeded" /\ UNCHANGED backtracks
               ELSE backtracks' = backtracks + 1 /\ UNCHANGED rfStatus
    /\ UNCHANGED <<segments, decisions, alloc>>

-----------------------------------------------------------------------------
(* Ports                                                                   *)

PortsOf(bank) == 0 .. Len(bank.writePortSources) - 1
AcceptingPorts(s, source) ==
    {p \in PortsOf(Bank(s)) : source \in Bank(s).writePortSources[p + 1]}

augment_FirstFit(fits, matched, s, visited) ==
    LET free == {p \in fits[s] : matched[p] = None}
    IN  IF free = {} THEN [ok |-> FALSE, matched |-> matched, visited |-> visited]
        ELSE [ok |-> TRUE, matched |-> [matched EXCEPT ![Min(free)] = s], visited |-> visited]

\* One augmenting path from s; fits[s] are the ports s may use.
augment(fits, matched, s, visited) ==
    LET path[x \in (DOMAIN fits) \X (SUBSET DOMAIN matched)] ==
            LET event == x[1]
                p == Min(fits[event] \ x[2])
                seen == x[2] \cup {p}
                moved == path[<<matched[p], seen>>]
                Take(from, all) ==
                    [ok |-> TRUE, matched |-> [from EXCEPT ![p] = event], visited |-> all]
            IN  IF fits[event] \subseteq x[2]
                THEN [ok |-> FALSE, matched |-> matched, visited |-> x[2]]
                ELSE IF matched[p] = None THEN Take(matched, seen)
                ELSE IF moved.ok THEN Take(moved.matched, moved.visited)
                ELSE path[<<event, moved.visited>>]
    IN  path[<<s, visited>>]

\* The events of one bank and slot, in the order of their ids; <<>> when one
\* of them finds no port.
assignPorts(fits, ports) ==
    LET upTo[k \in 0 .. Len(segments)] ==
            IF k = 0 THEN [ok |-> TRUE, matched |-> [p \in ports |-> None], visited |-> {}]
            ELSE IF k \in DOMAIN fits /\ upTo[k - 1].ok
            THEN augment(fits, upTo[k - 1].matched, k, {})
            ELSE upTo[k - 1]
        done == upTo[Len(segments)]
    IN  IF done.ok THEN [s \in DOMAIN fits |-> CHOOSE p \in ports : done.matched[p] = s]
        ELSE <<>>

ReadPorts(s) ==
    assignPorts([t \in ReadsIn(s, Len(segments)) |-> 0 .. Bank(t).readPorts - 1],
                0 .. Bank(s).readPorts - 1)
WritePorts(s) ==
    assignPorts([t \in WritesIn(s, Len(segments)) |-> AcceptingPorts(t, storageWriteSource(t))],
                PortsOf(Bank(s)))

HasBoundary(s) == boundaryWriteSource(s) # <<"none">>
BoundarySlot(s) ==
    (IF segments[s].write >= ii THEN segments[s].write - ii ELSE segments[s].write) % ii
BoundaryPorts(s) ==
    assignPorts([t \in {t \in DOMAIN segments : HasBoundary(t) /\ BankKey(t) = BankKey(s)
                                                /\ BoundarySlot(t) = BoundarySlot(s)}
                    |-> AcceptingPorts(t, boundaryWriteSource(t))],
                PortsOf(Bank(s)))

Allocation ==
    [s \in DOMAIN segments |->
        [reg |-> colors[s], readPort |-> ReadPorts(s)[s], writePort |-> WritePorts(s)[s],
         boundaryWritePort |-> IF HasBoundary(s) THEN BoundaryPorts(s)[s] ELSE None]]

\* Two events of one register in one slot.
SameAddress(a) ==
    \E s, t \in DOMAIN segments :
        /\ BankKey(s) = BankKey(t) /\ a[s].reg = a[t].reg
        /\ \/ s # t /\ segments[s].write % ii = segments[t].write % ii
           \/ segments[s].write % ii = segments[t].read % ii /\ ~target.reuse

-----------------------------------------------------------------------------
(* RFAllocationVerifier                                                    *)

\* No two segments share a port in a slot or a register while both live.
SegmentsApart(a) ==
    /\ \A s, t \in DOMAIN segments : s # t /\ BankKey(s) = BankKey(t) =>
          /\ segments[s].read % ii = segments[t].read % ii => a[s].readPort # a[t].readPort
          /\ segments[s].write % ii = segments[t].write % ii => a[s].writePort # a[t].writePort
          /\ a[s].reg = a[t].reg => ~periodicLifetimesConflict(segments[s], segments[t])
    /\ ~SameAddress(a)

RFVerified(a) ==
    /\ segments = analyze /\ StorageStatus = "Success"
    /\ DOMAIN a = DOMAIN segments
    /\ \A s \in DOMAIN segments :
          /\ a[s].reg \in Range(Registers(s))
          /\ ~fixedRegisterSelfOverlaps(segments[s])
          /\ a[s].readPort \in 0 .. Bank(s).readPorts - 1
          /\ a[s].writePort \in AcceptingPorts(s, storageWriteSource(s))
          /\ IF HasBoundary(s)
             THEN a[s].boundaryWritePort \in AcceptingPorts(s, boundaryWriteSource(s))
             ELSE a[s].boundaryWritePort = None
    /\ SegmentsApart(a)

AssignPorts ==
    /\ rfStatus = "greedy" /\ Uncolored = {}
    /\ IF \E s \in DOMAIN segments : ReadPorts(s) = <<>>
       THEN rfStatus' = "ReadPortConflict" /\ UNCHANGED alloc
       ELSE IF \E s \in DOMAIN segments :
                  WritePorts(s) = <<>> \/ (HasBoundary(s) /\ BoundaryPorts(s) = <<>>)
       THEN rfStatus' = "WritePortConflict" /\ UNCHANGED alloc
       ELSE /\ alloc' = Allocation
            /\ rfStatus' = CASE SameAddress(Allocation) -> "SameAddressRWConflict"
                             [] ~RFVerified(Allocation) -> "VerificationFailure"
                             [] OTHER -> "Success"
    /\ UNCHANGED <<segments, colors, trail, decisions, backtracks>>

RFNext == Analyze \/ GreedyColor \/ ExactSelect \/ ExactTry \/ ExactReturn \/ AssignPorts

=============================================================================
