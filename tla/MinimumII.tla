----------------------------- MODULE MinimumII -----------------------------
(***************************************************************************)
(* compiler/lib/Analysis/MIIAnalyzer.cpp: the initiation interval below    *)
(* which no modulo schedule of a target DFG exists, from the issue slots   *)
(* its operations occupy (resourceMII) and from its recurrences            *)
(* (recurrenceMII).  The recurrence bound is bisected between 1 and the    *)
(* sum of all separations; an interval is feasible when longest paths with *)
(* the weights separation - distance * II converge.                        *)
(***************************************************************************)
EXTENDS Integers, Sequences, FiniteSets, FiniteSetsExt

CONSTANTS
    Units,      \* the execution resources of the target
    Class,      \* the execution class of a unit, "FU" or "LSU"
    Supports,   \* the units compatible with an operation
    OpClass,    \* the execution class of an operation
    Dfgs,       \* the target DFGs that may be analysed: op, occupancy, edges
    MaxMII,     \* the largest std::uint32_t
    Horizon     \* the issue times of the schedules a bound is compared with

\* What TargetDFGVerifier leaves: nodes are numbered, and edges join them.
DfgOK(d) ==
    /\ d.op \in Seq(DOMAIN Supports)
    /\ d.occupancy \in [1 .. Len(d.op) -> Nat]
    /\ d.edges \in Seq([src : 1 .. Len(d.op), dst : 1 .. Len(d.op),
                        distance : Nat, separation : Nat])

ASSUME MIIAssumption ==
    /\ IsFiniteSet(Units)
    /\ MaxMII \in Nat \ {0} /\ Horizon \in Nat
    /\ \A d \in Dfgs : DfgOK(d)
    /\ \A o \in DOMAIN Supports :
           \A u \in Supports[o] : u \in Units /\ Class[u] = OpClass[o]

VARIABLES
    dfg,
    status,      \* "analysing", or the MIIStatus of the result
    resourceMII,
    recurrenceMII,
    low, high,   \* the bisection; 0 before it starts
    witness      \* the edges of the critical recurrence

vars == <<dfg, status, resourceMII, recurrenceMII, low, high, witness>>

-----------------------------------------------------------------------------
(* Resource bounds                                                         *)

Nodes == 1 .. Len(dfg.op)
MaxOf(a, b) == IF a > b THEN a ELSE b

\* The sum of f[1] .. f[n] over the indices in S.
SumOf(f, S, n) ==
    LET sum[k \in 0 .. n] ==
            IF k = 0 THEN 0 ELSE sum[k - 1] + (IF k \in S THEN f[k] ELSE 0)
    IN  sum[n]

Demand(N) == SumOf(dfg.occupancy, N, Len(dfg.op))

ceilDivToMII_Floor(n, d) == IF n = 0 THEN 1 ELSE n \div d
ceilDivToMII_Up(n, d) == IF n = 0 THEN 1 ELSE n \div d + 1

ceilDivToMII(n, d) ==
    IF n = 0 THEN 1
    ELSE n \div d + (IF n % d = 0 THEN 0 ELSE 1)

ClassNodes(c) == {n \in Nodes : OpClass[dfg.op[n]] = c}
ClassUnits(c) == {u \in Units : Class[u] = c}

selfOccupancyMII == Max({1} \cup {dfg.occupancy[n] : n \in Nodes})
classMII(c) == ceilDivToMII(Demand(ClassNodes(c)), Cardinality(ClassUnits(c)))
operationMII(o) ==
    ceilDivToMII(Demand({n \in Nodes : dfg.op[n] = o}), Cardinality(Supports[o]))

ResourceBounds ==
    {1, selfOccupancyMII, classMII("FU"), classMII("LSU")}
      \cup {operationMII(dfg.op[n]) : n \in Nodes}

-----------------------------------------------------------------------------
(* Recurrence bounds                                                       *)

AllEdges == 1 .. Len(dfg.edges)
ZeroDistance == {k \in AllEdges : dfg.edges[k].distance = 0}

Separation == [k \in AllEdges |-> dfg.edges[k].separation]
Separations == SumOf(Separation, AllEdges, Len(dfg.edges))

weight_Later(e, ii) == e.separation - e.distance * (ii + 1)

weight(e, ii) == e.separation - e.distance * ii

RelaxEdge(st, k, ii) ==
    LET e == dfg.edges[k]
        candidate == st.longest[e.src] + weight(e, ii)
    IN  IF st.longest[e.dst] < candidate
        THEN [longest |-> [st.longest EXCEPT ![e.dst] = candidate],
              pred |-> [st.pred EXCEPT ![e.dst] = k],
              updated |-> {e.dst}]
        ELSE st

\* A pass over the constraints ks in edge order.
RelaxAll(st, ks, ii) ==
    LET pass[k \in 0 .. Len(dfg.edges)] ==
            IF k = 0 THEN [st EXCEPT !.updated = {}]
            ELSE IF k \in ks THEN RelaxEdge(pass[k - 1], k, ii)
            ELSE pass[k - 1]
    IN  pass[Len(dfg.edges)]

Unrelaxed ==
    [longest |-> [n \in Nodes |-> 0], pred |-> [n \in Nodes |-> 0],
     updated |-> {}]

\* A round follows another only if that one updated a node.
NextRound(st, r, ks, ii) ==
    IF r > 1 /\ st.updated = {} THEN st ELSE RelaxAll(st, ks, ii)

\* At most as many rounds as there are nodes.
evaluate(ks, ii) ==
    LET round[r \in 0 .. Len(dfg.op)] ==
            IF r = 0 THEN Unrelaxed ELSE NextRound(round[r - 1], r, ks, ii)
    IN  round[Len(dfg.op)]

Feasible(ks, ii) == evaluate(ks, ii).updated = {}

\* The predecessors of the node updated last, as many back as there are nodes.
BackIn(pred, n) ==
    LET back[k \in 0 .. Len(dfg.op)] ==
            IF k = 0 THEN {n}
            ELSE {dfg.edges[pred[x]].src : x \in {y \in back[k - 1] : pred[y] # 0}}
    IN  back

buildWitness_FromUpdated(ev) ==
    LET start == UNION {BackIn(ev.pred, n)[0] : n \in ev.updated}
    IN  {ev.pred[y] : y \in UNION {UNION {BackIn(ev.pred, x)[k] :
                                k \in 0 .. Len(dfg.op)} : x \in start}}
          \ {0}

buildWitness(ev) ==
    LET start == UNION {BackIn(ev.pred, n)[Len(dfg.op)] : n \in ev.updated}
    IN  {ev.pred[y] : y \in UNION {UNION {BackIn(ev.pred, x)[k] :
                                k \in 0 .. Len(dfg.op)} : x \in start}}
          \ {0}

-----------------------------------------------------------------------------

Init ==
    /\ dfg \in Dfgs
    /\ status = "analysing"
    /\ resourceMII = 0 /\ recurrenceMII = 0
    /\ low = 0 /\ high = 0
    /\ witness = {}

Return(s) ==
    /\ status' = s
    /\ UNCHANGED <<dfg, resourceMII, recurrenceMII, low, high, witness>>

Uncovered == {n \in Nodes : Supports[dfg.op[n]] = {}}

Reject ==
    /\ status = "analysing" /\ resourceMII = 0
    /\ \/ Uncovered # {} /\ Return("no_compatible_resource")
       \/ /\ Uncovered = {}
          /\ \E n \in Nodes : dfg.occupancy[n] = 0
          /\ Return("contract_error")

BoundResources ==
    /\ status = "analysing" /\ resourceMII = 0
    /\ Uncovered = {} /\ \A n \in Nodes : dfg.occupancy[n] > 0
    /\ IF Max(ResourceBounds) > MaxMII
       THEN Return("overflow")
       ELSE /\ resourceMII' = Max(ResourceBounds)
            /\ UNCHANGED <<dfg, status, recurrenceMII, low, high, witness>>

upperBound_Longest ==
    Max({1} \cup {dfg.edges[k].separation : k \in 1 .. Len(dfg.edges)})

upperBound == MaxOf(1, Separations)

RecurrenceStage == status = "analysing" /\ resourceMII > 0 /\ high = 0

UntimedEdge ==
    /\ RecurrenceStage
    /\ \E k \in 1 .. Len(dfg.edges) : dfg.edges[k].separation = 0
    /\ Return("contract_error")

Timed ==
    RecurrenceStage /\ \A k \in 1 .. Len(dfg.edges) : dfg.edges[k].separation > 0

NoEdges ==
    /\ Timed
    /\ dfg.edges = <<>>
    /\ recurrenceMII' = 1
    /\ status' = "success"
    /\ UNCHANGED <<dfg, resourceMII, low, high, witness>>

ZeroDistanceCycle ==
    /\ Timed
    /\ ~Feasible(ZeroDistance, 0)
    /\ status' = "zero_distance_cycle"
    /\ witness' = buildWitness(evaluate(ZeroDistance, 0))
    /\ UNCHANGED <<dfg, resourceMII, recurrenceMII, low, high>>

StartBisection ==
    /\ Timed
    /\ dfg.edges # <<>>
    /\ Feasible(ZeroDistance, 0)
    /\ IF Separations > MaxMII THEN Return("overflow")
       ELSE IF ~Feasible(AllEdges, upperBound) THEN Return("internal_error")
       ELSE /\ low' = 1
            /\ high' = upperBound
            /\ UNCHANGED <<dfg, status, resourceMII, recurrenceMII, witness>>

Bisecting == status = "analysing" /\ high > 0
Mid == low + (high - low) \div 2

BisectHigh_Skip ==
    /\ Bisecting /\ low < high /\ Feasible(AllEdges, Mid)
    /\ high' = Mid - 1
    /\ UNCHANGED <<dfg, status, resourceMII, recurrenceMII, low, witness>>

BisectHigh_Restart ==
    /\ Bisecting /\ low < high /\ Feasible(AllEdges, Mid)
    /\ low' = 1 /\ high' = Mid
    /\ UNCHANGED <<dfg, status, resourceMII, recurrenceMII, witness>>

BisectHigh ==
    /\ Bisecting /\ low < high /\ Feasible(AllEdges, Mid)
    /\ high' = Mid
    /\ UNCHANGED <<dfg, status, resourceMII, recurrenceMII, low, witness>>

BisectLow ==
    /\ Bisecting /\ low < high /\ ~Feasible(AllEdges, Mid)
    /\ low' = Mid + 1
    /\ UNCHANGED <<dfg, status, resourceMII, recurrenceMII, high, witness>>

Report ==
    /\ Bisecting /\ low >= high
    /\ recurrenceMII' = low
    /\ witness' = IF low > 1 THEN buildWitness(evaluate(AllEdges, low - 1)) ELSE {}
    /\ status' = "success"
    /\ UNCHANGED <<dfg, resourceMII, low, high>>

mii == MaxOf(resourceMII, recurrenceMII)

Finished == status # "analysing" /\ UNCHANGED vars

Next ==
    \/ Reject
    \/ BoundResources
    \/ UntimedEdge
    \/ NoEdges
    \/ ZeroDistanceCycle
    \/ StartBisection
    \/ BisectHigh
    \/ BisectLow
    \/ Report
    \/ Finished

Spec == Init /\ [][Next]_vars

-----------------------------------------------------------------------------
(* Properties                                                              *)

TypeOK ==
    /\ dfg \in Dfgs
    /\ status \in {"analysing", "success", "no_compatible_resource",
                   "contract_error", "zero_distance_cycle", "internal_error",
                   "overflow"}
    /\ resourceMII \in 0 .. MaxMII
    /\ recurrenceMII \in 0 .. MaxMII
    /\ high \in 0 .. MaxMII
    /\ low \in 0 .. high
    /\ witness \subseteq 1 .. Len(dfg.edges)

\* A schedule with interval ii: every dependence is met, and no unit issues
\* two operations in the same slot.
TimesLegal(ii, t) ==
    \A k \in 1 .. Len(dfg.edges) :
        t[dfg.edges[k].dst] + dfg.edges[k].distance * ii
          >= t[dfg.edges[k].src] + dfg.edges[k].separation

IssueSlots(ii, t, n) == {(t[n] + i) % ii : i \in 0 .. dfg.occupancy[n] - 1}

UnitsLegal(ii, t) ==
    /\ \A n \in Nodes : dfg.occupancy[n] =< ii
    /\ \E unit \in [Nodes -> Units] :
          /\ \A n \in Nodes : unit[n] \in Supports[dfg.op[n]]
          /\ \A n, p \in Nodes :
                n # p /\ unit[n] = unit[p] =>
                    IssueSlots(ii, t, n) \cap IssueSlots(ii, t, p) = {}

Schedules == [Nodes -> 0 .. Horizon]

\* No legal schedule has an interval below the reported mii: the mapper, which
\* starts there, skips no interval that could have worked.
NoScheduleBelowMII ==
    status = "success" =>
        \A ii \in 1 .. mii - 1 : \A t \in Schedules :
            ~(TimesLegal(ii, t) /\ UnitsLegal(ii, t))

\* The recurrences do admit the reported recurrence bound, so mii is no higher
\* for their sake than it has to be.
RecurrenceIsFeasible ==
    status = "success" =>
        \E t \in [Nodes -> 0 .. Separations] : TimesLegal(recurrenceMII, t)

WitnessSeparation == SumOf(Separation, witness, Len(dfg.edges))
WitnessDistance ==
    SumOf([k \in AllEdges |-> dfg.edges[k].distance], witness, Len(dfg.edges))

\* Whenever a recurrence decides, the reported witness is a closed chain of
\* edges that by itself rules out the next smaller interval (every interval,
\* when its distances are zero): it is never missing and never an open path.
WitnessDecides ==
    (status = "zero_distance_cycle" \/ (status = "success" /\ recurrenceMII > 1)) =>
        /\ witness # {}
        /\ {dfg.edges[k].src : k \in witness} = {dfg.edges[k].dst : k \in witness}
        /\ Cardinality({dfg.edges[k].src : k \in witness}) = Cardinality(witness)
        /\ IF status = "success"
           THEN WitnessSeparation > WitnessDistance * (recurrenceMII - 1)
           ELSE WitnessDistance = 0

\* The sum of all separations is a safe upper bound: the analysis never gives
\* up with MII_INTERNAL_ERROR.
UpperBoundIsSafe == status # "internal_error"

\* Every step settles the status, completes a stage of the analysis or makes
\* the bisected interval shorter, so the analysis ends.
Progress ==
    [][\/ status' # "analysing"
       \/ resourceMII = 0 /\ resourceMII' > 0
       \/ high = 0 /\ high' > 0
       \/ high' - low' < high - low]_vars
=============================================================================
