--------------------------- MODULE StageScheduler ---------------------------
(***************************************************************************)
(* compiler/lib/Schedule/StageScheduler.cpp: the pipeline stage of every   *)
(* node of a modulo mapping.  A node n issues in cycle                     *)
(*     logicalIssueTime(n) = stage(n) * II + slot(n)                       *)
(* of its iteration; an edge asks that the consumer, distance iterations   *)
(* later, issues at least separation cycles after the producer.  Every     *)
(* edge becomes a lower bound on the difference of two stages, and the     *)
(* scheduler raises stages, edge by edge in rounds, until every bound      *)
(* holds or a round too many shows a positive cycle.                       *)
(*                                                                         *)
(* The mapping has passed ModuloMappingVerifier and the DFG its verifier:  *)
(* the early returns for inputs that have not are left out.                *)
(***************************************************************************)
EXTENDS Integers, Sequences, FiniteSets

CONSTANTS
    Nodes,      \* the nodes of the target DFG
    NoNode,
    Mappings,   \* the modulo mappings that may be scheduled
    Stages,     \* the stages of the assignments a result is compared with
    MaxInt,     \* the largest std::int64_t
    MaxWord     \* the largest std::uint64_t

Edge == [src : Nodes, dst : Nodes, distance : Nat, separation : Nat]

ASSUME StageAssumption ==
    /\ IsFiniteSet(Nodes) /\ Nodes # {}
    /\ NoNode \notin Nodes
    /\ Stages \subseteq Nat
    /\ MaxInt \in Nat /\ MaxWord \in Nat
    /\ \A m \in Mappings :
         /\ m.ii \in Nat \ {0}
         /\ m.slot \in [Nodes -> Nat]
         /\ m.edges \in Seq(Edge)

VARIABLES
    mapping,
    stages,
    predecessorEdge,   \* the edge that last raised a node's stage, 0 for none
    round,
    next,              \* the edge that is relaxed next
    lastUpdated,       \* the node raised last in this round; changed is its
                       \* presence
    status,            \* "relaxing", "success", "infeasible", "overflow" or
                       \* "verification_failure"
    witness            \* the edges of the positive cycle

vars == <<mapping, stages, predecessorEdge, round, next, lastUpdated, status,
          witness>>

-----------------------------------------------------------------------------
(* The stage constraint of an edge                                         *)

\* Division of C++: the quotient is rounded toward zero.
Quotient(a, d) == IF a >= 0 THEN a \div d ELSE -((-a) \div d)
Remainder(a, d) == a - d * Quotient(a, d)

ceilDivSigned_Up(a, d) ==
    IF Remainder(a, d) # 0 THEN Quotient(a, d) + 1 ELSE Quotient(a, d)

ceilDivSigned_Trunc(a, d) == Quotient(a, d)

ceilDivSigned(a, d) ==
    IF Remainder(a, d) # 0 /\ a > 0 THEN Quotient(a, d) + 1
                                    ELSE Quotient(a, d)

minimumStageDelta(m, e) ==
    ceilDivSigned(e.separation - (m.slot[e.dst] - m.slot[e.src]), m.ii)
      - e.distance

logicalIssueTime(m, s, n) == s[n] * m.ii + m.slot[n]

\* StageAssignmentVerifier: the dependence of e holds in logical time, and
\* the two times it compares fit in 64 bits.
EarliestUse(m, s, e) == logicalIssueTime(m, s, e.src) + e.separation
Use(m, s, e) == logicalIssueTime(m, s, e.dst) + e.distance * m.ii

EdgeHolds(m, s, e) == Use(m, s, e) >= EarliestUse(m, s, e)
EdgeFits(m, s, e) == Use(m, s, e) =< MaxWord /\ EarliestUse(m, s, e) =< MaxWord

Legal(m, s) == \A i \in 1 .. Len(m.edges) : EdgeHolds(m, s, m.edges[i])

Verified(m, s) ==
    \A i \in 1 .. Len(m.edges) :
        EdgeFits(m, s, m.edges[i]) /\ EdgeHolds(m, s, m.edges[i])

-----------------------------------------------------------------------------
(* The cycle witness: |Nodes| predecessors back from the node raised last, *)
(* then once around.                                                       *)

Back(n) ==
    LET e == predecessorEdge[n]
    IN  IF n = NoNode \/ e = 0 THEN NoNode ELSE mapping.edges[e].src

\* The node k predecessors back from n.
BackFrom(n) ==
    LET b[k \in 0 .. 2 * Cardinality(Nodes)] ==
            IF k = 0 THEN n
            ELSE IF b[k - 1] = NoNode THEN NoNode ELSE Back(b[k - 1])
    IN  b

witnessFor(n) ==
    LET start == BackFrom(n)[Cardinality(Nodes)]
        around == {k \in 1 .. Cardinality(Nodes) : BackFrom(start)[k] = start}
        length == CHOOSE k \in around : \A j \in around : k =< j
    IN  IF start = NoNode \/ around = {} THEN {}
        ELSE {predecessorEdge[BackFrom(start)[k]] : k \in 0 .. length - 1}

-----------------------------------------------------------------------------

Init ==
    /\ mapping \in Mappings
    /\ stages = [n \in Nodes |-> 0]
    /\ predecessorEdge = [n \in Nodes |-> 0]
    /\ round = 0
    /\ next = 1
    /\ lastUpdated = NoNode
    /\ status = "relaxing"
    /\ witness = {}

Candidate(e) == stages[e.src] + minimumStageDelta(mapping, e)

Raises(e) == Candidate(e) > 0 /\ Candidate(e) > stages[e.dst]

Overflows_Never(e) == FALSE

\* checkedSignedAdd: the sum does not fit in an int64.
Overflows(e) == Candidate(e) > MaxInt

Overflow ==
    /\ status = "relaxing"
    /\ next =< Len(mapping.edges)
    /\ Overflows(mapping.edges[next])
    /\ status' = "overflow"
    /\ UNCHANGED <<mapping, stages, predecessorEdge, round, next, lastUpdated,
                   witness>>

Relax ==
    /\ status = "relaxing"
    /\ next =< Len(mapping.edges)
    /\ ~Overflows(mapping.edges[next])
    /\ Raises(mapping.edges[next])
    /\ stages' = [stages EXCEPT ![mapping.edges[next].dst] =
                                    Candidate(mapping.edges[next])]
    /\ predecessorEdge' = [predecessorEdge EXCEPT
                              ![mapping.edges[next].dst] = next]
    /\ lastUpdated' = mapping.edges[next].dst
    /\ next' = next + 1
    /\ UNCHANGED <<mapping, round, status, witness>>

Pass ==
    /\ status = "relaxing"
    /\ next =< Len(mapping.edges)
    /\ ~Overflows(mapping.edges[next])
    /\ ~Raises(mapping.edges[next])
    /\ next' = next + 1
    /\ UNCHANGED <<mapping, stages, predecessorEdge, round, lastUpdated,
                   status, witness>>

RoundOver == status = "relaxing" /\ next > Len(mapping.edges)

LastRound_OneShort == round + 1 = Cardinality(Nodes) - 1

\* As many rounds as there are nodes have been run.
LastRound == round + 1 = Cardinality(Nodes)

NextRound ==
    /\ RoundOver
    /\ lastUpdated # NoNode
    /\ ~LastRound
    /\ round' = round + 1
    /\ next' = 1
    /\ lastUpdated' = NoNode
    /\ UNCHANGED <<mapping, stages, predecessorEdge, status, witness>>

Infeasible ==
    /\ RoundOver
    /\ lastUpdated # NoNode
    /\ LastRound
    /\ status' = "infeasible"
    /\ witness' = witnessFor(lastUpdated)
    /\ UNCHANGED <<mapping, stages, predecessorEdge, round, next, lastUpdated>>

TimesFit == \A n \in Nodes : logicalIssueTime(mapping, stages, n) =< MaxWord

Finish ==
    /\ RoundOver
    /\ lastUpdated = NoNode
    /\ status' = IF ~TimesFit THEN "overflow"
                 ELSE IF Verified(mapping, stages) THEN "success"
                 ELSE "verification_failure"
    /\ UNCHANGED <<mapping, stages, predecessorEdge, round, next, lastUpdated,
                   witness>>

Finished == status # "relaxing" /\ UNCHANGED vars

Next ==
    \/ Overflow
    \/ Relax
    \/ Pass
    \/ NextRound
    \/ Infeasible
    \/ Finish
    \/ Finished

Spec == Init /\ [][Next]_vars

-----------------------------------------------------------------------------
(* Properties                                                              *)

TypeOK ==
    /\ mapping \in Mappings
    /\ stages \in [Nodes -> 0 .. MaxInt]
    /\ predecessorEdge \in [Nodes -> 0 .. Len(mapping.edges)]
    /\ round \in Nat
    /\ next \in 1 .. Len(mapping.edges) + 1
    /\ lastUpdated \in Nodes \cup {NoNode}
    /\ status \in {"relaxing", "success", "infeasible", "overflow",
                   "verification_failure"}

\* The stage bounds are exact: when a whole round raises nothing, every
\* dependence holds in logical time, so the verifier that runs last rejects
\* an assignment only because a time does not fit in 64 bits, never for a
\* dependence (STAGE_CONSTRAINT_VIOLATION is unreachable from the scheduler).
RejectedOnlyForWidth ==
    status = "verification_failure" =>
        /\ Legal(mapping, stages)
        /\ \E i \in 1 .. Len(mapping.edges) :
               ~EdgeFits(mapping, stages, mapping.edges[i])

\* No legal assignment is below the scheduler's, at any node and at any
\* moment: the result has the fewest stages, so the shortest prologue.
StagesAreLeast ==
    \A s \in [Nodes -> Stages] :
        Legal(mapping, s) => \A n \in Nodes : stages[n] =< s[n]

\* A mapping is rejected only with a proof: the witness is a closed chain of
\* edges whose stage bounds add up to more than 0, so no assignment exists.
SumOfBounds(E) ==
    LET sum[k \in 0 .. Len(mapping.edges)] ==
            IF k = 0 THEN 0
            ELSE sum[k - 1] + (IF k \in E
                               THEN minimumStageDelta(mapping, mapping.edges[k])
                               ELSE 0)
    IN  sum[Len(mapping.edges)]

RejectionHasWitness ==
    status = "infeasible" =>
        /\ witness # {}
        /\ {mapping.edges[i].src : i \in witness}
             = {mapping.edges[i].dst : i \in witness}
        /\ Cardinality({mapping.edges[i].src : i \in witness})
             = Cardinality(witness)
        /\ SumOfBounds(witness) > 0
=============================================================================
