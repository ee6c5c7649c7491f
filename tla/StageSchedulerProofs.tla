------------------------ MODULE StageSchedulerProofs ------------------------
(***************************************************************************)
(* For every DFG, mapping and word width: the stages the scheduler keeps   *)
(* are typed, never exceed a legal assignment, are legal when a whole      *)
(* round raises none of them, and a rejection names a positive cycle.      *)
(***************************************************************************)
EXTENDS StageScheduler, NumberLemmas, TLAPS

\* The quotient that C++ truncates toward zero, bracketed by multiples of d.
LEMMA QuotientBracket ==
    ASSUME NEW x \in Int, NEW d \in Nat \ {0}
    PROVE  /\ Quotient(x, d) \in Int
           /\ x >= 0 => /\ d * Quotient(x, d) =< x
                        /\ x < d * (Quotient(x, d) + 1)
           /\ x < 0 => /\ x =< d * Quotient(x, d)
                       /\ d * (Quotient(x, d) - 1) < x
<1>1. CASE x >= 0
  <2>1. /\ x \div d \in Int
        /\ d * (x \div d) =< x
        /\ x < d * ((x \div d) + 1)
    BY <1>1
  <2> QED BY <1>1, <2>1 DEF Quotient
<1>2. CASE x < 0
  <2> DEFINE y == -x
  <2>1. y \in Nat BY <1>2
  <2>2. PICK q \in Int : q = y \div d BY <2>1
  <2>3. /\ d * q =< y
        /\ y < d * (q + 1)
    BY <2>1, <2>2
  <2>4. Quotient(x, d) = -q BY <1>2, <2>2 DEF Quotient
  <2>5. /\ d * (-q) = -(d * q)
        /\ d * ((-q) - 1) = -(d * (q + 1))
    BY <2>2
  <2> QED BY <1>2, <2>2, <2>3, <2>4, <2>5
<1> QED BY <1>1, <1>2

\* Multiplication by a positive d keeps the order of integers.
LEMMA ScaleOrder ==
    ASSUME NEW d \in Nat \ {0}, NEW j \in Int, NEW k \in Int, j =< k
    PROVE  d * j =< d * k
<1>1. PICK g \in Nat : k = j + g
  <2>1. k - j \in Nat /\ k = j + (k - j) OBVIOUS
  <2> QED BY <2>1
<1>2. d * k = d * j + d * g BY <1>1
<1>3. d * g \in Nat BY <1>1
<1> QED BY <1>2, <1>3

\* ceilDivSigned(x, d) is the least integer whose d-fold is not below x, for
\* negative x as well as for positive.
LEMMA CeilIsLeast ==
    ASSUME NEW x \in Int, NEW d \in Nat \ {0}, NEW k \in Int
    PROVE  /\ ceilDivSigned(x, d) \in Int
           /\ (d * k >= x) <=> (k >= ceilDivSigned(x, d))
<1>1. PICK q \in Int : q = Quotient(x, d) BY QuotientBracket
<1>2. PICK c \in Int : c = ceilDivSigned(x, d) 
  BY <1>1 DEF ceilDivSigned
<1>3. d * c >= x /\ d * (c - 1) < x
  <2>1. Remainder(x, d) = x - d * q BY <1>1 DEF Remainder
  <2>2. CASE x > 0 /\ x - d * q # 0
    <3>1. c = q + 1 BY <1>1, <1>2, <2>1, <2>2 DEF ceilDivSigned
    <3>2. d * q =< x /\ x < d * (q + 1) BY <1>1, <2>2, QuotientBracket
    <3> QED BY <2>2, <3>1, <3>2
  <2>3. CASE x > 0 /\ x - d * q = 0
    <3>1. c = q BY <1>1, <1>2, <2>1, <2>3 DEF ceilDivSigned
    <3>2. d * (q - 1) = d * q - d OBVIOUS
    <3> QED BY <2>3, <3>1, <3>2
  <2>4. CASE x =< 0
    <3>1. c = q BY <1>1, <1>2, <2>4 DEF ceilDivSigned
    <3>2. CASE x < 0 BY <1>1, <3>1, <3>2, QuotientBracket
    <3>3. CASE x = 0
      <4>1. q = 0 BY <1>1, <3>3 DEF Quotient
      <4> QED BY <3>1, <3>3, <4>1
    <3> QED BY <2>4, <3>2, <3>3
  <2> QED BY <2>2, <2>3, <2>4
<1>4. CASE k >= c
  <2>1. d * c =< d * k BY <1>4, ScaleOrder
  <2> QED BY <1>2, <1>3, <1>4, <2>1
<1>5. CASE k =< c - 1
  <2>1. d * k =< d * (c - 1) BY <1>5, ScaleOrder
  <2>2. d * k \in Int /\ d * (c - 1) \in Int OBVIOUS
  <2> QED BY <1>2, <1>3, <1>5, <2>1, <2>2
<1> QED BY <1>2, <1>4, <1>5

\* The bound that the scheduler derives from an edge says exactly that the
\* dependence holds in logical time.
LEMMA BoundIsExact ==
    ASSUME NEW m \in Mappings, NEW i \in 1 .. Len(m.edges),
           NEW s \in [Nodes -> Nat]
    PROVE  /\ m.edges[i] \in Edge
           /\ minimumStageDelta(m, m.edges[i]) \in Int
           /\ EdgeHolds(m, s, m.edges[i])
                <=> s[m.edges[i].src] + minimumStageDelta(m, m.edges[i])
                      =< s[m.edges[i].dst]
<1>1. /\ m.ii \in Nat \ {0}
      /\ m.slot \in [Nodes -> Nat]
      /\ m.edges \in Seq(Edge)
  BY StageAssumption
<1>2. PICK e \in Edge : e = m.edges[i] BY <1>1
<1>3. /\ e.src \in Nodes /\ e.dst \in Nodes
      /\ e.distance \in Nat /\ e.separation \in Nat
  BY DEF Edge
<1>4. PICK d \in Nat \ {0} : d = m.ii BY <1>1
<1>5. PICK x \in Int : x = e.separation - (m.slot[e.dst] - m.slot[e.src])
  BY <1>1, <1>3
<1>6. PICK k \in Int : k = s[e.dst] + e.distance - s[e.src] BY <1>3
<1>7. /\ ceilDivSigned(x, d) \in Int
      /\ (d * k >= x) <=> (k >= ceilDivSigned(x, d))
  BY CeilIsLeast
<1>8. PICK c \in Int : c = ceilDivSigned(x, d) BY <1>7
<1>9. minimumStageDelta(m, e) = c - e.distance
  BY <1>4, <1>5, <1>8 DEF minimumStageDelta
<1>10. EdgeHolds(m, s, e) <=> d * k >= x
  <2>1. PICK u \in Nat, v \in Nat, w \in Nat, p \in Nat, q \in Nat, r \in Nat :
           /\ u = s[e.dst] /\ v = s[e.src] /\ w = e.distance
           /\ p = m.slot[e.dst] /\ q = m.slot[e.src] /\ r = e.separation
    BY <1>1, <1>3
  <2>2. EdgeHolds(m, s, e) <=> (u * d + p) + w * d >= (v * d + q) + r
    BY <1>4, <2>1 DEF EdgeHolds, Use, EarliestUse, logicalIssueTime
  <2>3. k = u + w - v /\ x = r - (p - q) BY <1>5, <1>6, <2>1
  <2>4. d * k = u * d + w * d - v * d BY <2>3
  <2> QED BY <2>2, <2>3, <2>4
<1>11. k >= c <=> s[e.src] + (c - e.distance) =< s[e.dst]
  BY <1>3, <1>6
<1> QED BY <1>2, <1>3, <1>7, <1>8, <1>9, <1>10, <1>11

-----------------------------------------------------------------------------
(* The invariants                                                          *)

\* While a round has raised nothing, the edges it has passed are satisfied.
Settled ==
    lastUpdated = NoNode =>
        \A i \in 1 .. next - 1 :
            Candidate(mapping.edges[i]) =< stages[mapping.edges[i].dst]

\* What a typed state says of the edge that is relaxed next.
LEMMA NextEdge ==
    ASSUME TypeOK, NEW i \in 1 .. Len(mapping.edges)
    PROVE  /\ mapping.edges[i].src \in Nodes
           /\ mapping.edges[i].dst \in Nodes
           /\ Candidate(mapping.edges[i]) \in Int
           /\ Len(mapping.edges) \in Nat
<1>1. mapping \in Mappings /\ stages \in [Nodes -> Nat]
  BY StageAssumption DEF TypeOK
<1>2. mapping.edges \in Seq(Edge) BY <1>1, StageAssumption
<1>3. PICK e \in Edge : e = mapping.edges[i] BY <1>2
<1>4. e.src \in Nodes /\ e.dst \in Nodes BY DEF Edge
<1>5. minimumStageDelta(mapping, e) \in Int BY <1>1, <1>3, BoundIsExact
<1>6. Candidate(e) \in Int BY <1>1, <1>4, <1>5 DEF Candidate
<1> QED BY <1>2, <1>3, <1>4, <1>6

\* The type invariant: in particular no stage leaves int64, whatever the
\* mapping, because every sum is checked before it is stored.
THEOREM TypeCorrect == Spec => []TypeOK
<1>1. Init => TypeOK
  <2> SUFFICES ASSUME Init PROVE TypeOK OBVIOUS
  <2>1. mapping.edges \in Seq(Edge) BY StageAssumption DEF Init
  <2>2. Len(mapping.edges) \in Nat BY <2>1
  <2> QED BY <2>2, StageAssumption DEF Init, TypeOK
<1>2. TypeOK /\ [Next]_vars => TypeOK'
  <2> SUFFICES ASSUME TypeOK, [Next]_vars PROVE TypeOK' OBVIOUS
  <2>0. Len(mapping.edges) \in Nat /\ next \in Nat /\ round \in Nat
    <3>1. mapping.edges \in Seq(Edge) BY StageAssumption DEF TypeOK
    <3>2. Len(mapping.edges) \in Nat BY <3>1
    <3> QED BY <3>2 DEF TypeOK
  <2>1. CASE Relax
    <3> DEFINE e == mapping.edges[next]
    <3>1. next \in 1 .. Len(mapping.edges) BY <2>0, <2>1 DEF Relax, TypeOK
    <3>2. e.dst \in Nodes /\ Candidate(e) \in Int BY <3>1, NextEdge
    <3>3. Candidate(e) \in 0 .. MaxInt
      BY <2>1, <3>2, StageAssumption DEF Relax, Raises, Overflows
    <3>4. stages' \in [Nodes -> 0 .. MaxInt]
      BY <2>1, <3>2, <3>3 DEF Relax, TypeOK
    <3>5. predecessorEdge' \in [Nodes -> 0 .. Len(mapping.edges)]
      <4>1. next \in 0 .. Len(mapping.edges) BY <2>0, <3>1
      <4> QED BY <2>1, <3>2, <4>1 DEF Relax, TypeOK
    <3>6. next' \in 1 .. Len(mapping.edges) + 1 BY <2>0, <2>1, <3>1 DEF Relax
    <3> QED BY <2>1, <3>2, <3>4, <3>5, <3>6 DEF Relax, TypeOK
  <2>2. CASE Pass
    <3>1. next' \in 1 .. Len(mapping.edges) + 1 BY <2>0, <2>2 DEF Pass, TypeOK
    <3> QED BY <2>2, <3>1 DEF Pass, TypeOK
  <2>3. CASE NextRound
    <3>1. next' \in 1 .. Len(mapping.edges) + 1 BY <2>0, <2>3 DEF NextRound
    <3> QED BY <2>0, <2>3, <3>1 DEF NextRound, TypeOK
  <2>4. CASE Overflow BY <2>4 DEF Overflow, TypeOK
  <2>5. CASE Infeasible BY <2>5 DEF Infeasible, TypeOK
  <2>6. CASE Finish BY <2>6 DEF Finish, TypeOK
  <2>7. CASE Finished BY <2>7 DEF Finished, TypeOK, vars
  <2>8. CASE UNCHANGED vars BY <2>8 DEF TypeOK, vars
  <2> QED BY <2>1, <2>2, <2>3, <2>4, <2>5, <2>6, <2>7, <2>8 DEF Next
<1> QED BY <1>1, <1>2, PTL DEF Spec

\* When a round ends without a raise, every dependence holds.
LEMMA SettledIsLegal ==
    ASSUME TypeOK, Settled, lastUpdated = NoNode, next > Len(mapping.edges)
    PROVE  Legal(mapping, stages)
<1> SUFFICES ASSUME NEW i \in 1 .. Len(mapping.edges)
             PROVE  EdgeHolds(mapping, stages, mapping.edges[i])
  BY DEF Legal
<1>1. mapping \in Mappings /\ stages \in [Nodes -> Nat]
  BY StageAssumption DEF TypeOK
<1>2. i \in 1 .. next - 1
  <2>1. Len(mapping.edges) \in Nat BY NextEdge
  <2> QED BY <2>1 DEF TypeOK
<1>3. Candidate(mapping.edges[i]) =< stages[mapping.edges[i].dst]
  BY <1>2 DEF Settled
<1> QED BY <1>1, <1>3, BoundIsExact DEF Candidate

\* A round that raises nothing settles its edges one by one.
LEMMA SettledStep ==
    ASSUME TypeOK, Settled, Next
    PROVE  Settled'
<1>1. CASE Relax
  <2>1. next \in 1 .. Len(mapping.edges)
    <3>1. mapping.edges \in Seq(Edge) BY StageAssumption DEF TypeOK
    <3> QED BY <1>1, <3>1 DEF Relax, TypeOK
  <2>2. lastUpdated' \in Nodes BY <1>1, <2>1, NextEdge DEF Relax
  <2> QED BY <2>2, StageAssumption DEF Settled
<1>2. CASE Pass
  <2> SUFFICES ASSUME lastUpdated' = NoNode, NEW i \in 1 .. next' - 1
               PROVE  (Candidate(mapping.edges[i])
                         =< stages[mapping.edges[i].dst])'
    BY DEF Settled
  <2>1. next \in 1 .. Len(mapping.edges) /\ Len(mapping.edges) \in Nat
    <3>1. mapping.edges \in Seq(Edge) BY StageAssumption DEF TypeOK
    <3> QED BY <1>2, <3>1 DEF Pass, TypeOK
  <2>2. next' = next + 1 BY <1>2 DEF Pass
  <2>3. Candidate(mapping.edges[i]) =< stages[mapping.edges[i].dst]
    <3>1. CASE i \in 1 .. next - 1 BY <1>2, <3>1 DEF Pass, Settled
    <3>2. CASE i = next
      <4>1. /\ mapping.edges[next].dst \in Nodes
            /\ Candidate(mapping.edges[next]) \in Int
        BY <2>1, NextEdge
      <4>2. stages[mapping.edges[next].dst] \in Nat
        BY <4>1, StageAssumption DEF TypeOK
      <4> QED BY <1>2, <3>2, <4>1, <4>2 DEF Pass, Raises
    <3> QED BY <2>1, <2>2, <3>1, <3>2
  <2> QED BY <1>2, <2>3 DEF Pass, Candidate
<1>3. CASE NextRound BY <1>3 DEF NextRound, Settled
<1>4. CASE Overflow BY <1>4 DEF Overflow, Settled, Candidate
<1>5. CASE Infeasible BY <1>5 DEF Infeasible, Settled, Candidate
<1>6. CASE Finish BY <1>6 DEF Finish, Settled, Candidate
<1>7. CASE Finished BY <1>7 DEF Finished, Settled, Candidate, vars
<1> QED BY <1>1, <1>2, <1>3, <1>4, <1>5, <1>6, <1>7 DEF Next

\* The verifier that follows the scheduler rejects an assignment only because
\* a time does not fit in a word: stage bounds, rounds and verifier agree.
THEOREM NoDependenceRejected == Spec => []RejectedOnlyForWidth
<1> DEFINE Inv == Settled /\ RejectedOnlyForWidth
<1>1. Init => Inv
  <2> SUFFICES ASSUME Init PROVE Inv OBVIOUS
  <2>1. Settled BY DEF Init, Settled
  <2> QED BY <2>1 DEF Init, RejectedOnlyForWidth
<1>2. TypeOK /\ Inv /\ [Next]_vars => Inv'
  <2> SUFFICES ASSUME TypeOK, Inv, [Next]_vars PROVE Inv' OBVIOUS
  <2>1. Settled'
    <3>1. CASE Next BY <3>1, SettledStep
    <3>2. CASE UNCHANGED vars BY <3>2 DEF Settled, Candidate, vars
    <3> QED BY <3>1, <3>2
  <2>2. RejectedOnlyForWidth'
    <3>1. CASE Finish
      <4>1. Legal(mapping, stages)
        BY <3>1, SettledIsLegal DEF Finish, RoundOver
      <4> SUFFICES ASSUME status' = "verification_failure"
                   PROVE  (/\ Legal(mapping, stages)
                           /\ \E i \in 1 .. Len(mapping.edges) :
                                 ~EdgeFits(mapping, stages, mapping.edges[i]))'
        BY DEF RejectedOnlyForWidth
      <4>2. ~Verified(mapping, stages) BY <3>1 DEF Finish
      <4>3. \E i \in 1 .. Len(mapping.edges) :
                ~EdgeFits(mapping, stages, mapping.edges[i])
        BY <4>1, <4>2 DEF Verified, Legal
      <4>4. UNCHANGED <<mapping, stages>> BY <3>1 DEF Finish
      <4> QED BY <4>1, <4>3, <4>4
    <3>2. CASE Finished \/ UNCHANGED vars
      BY <3>2 DEF Finished, vars, RejectedOnlyForWidth
    <3>3. CASE Overflow BY <3>3 DEF Overflow, RejectedOnlyForWidth
    <3>4. CASE Relax BY <3>4 DEF Relax, RejectedOnlyForWidth
    <3>5. CASE Pass BY <3>5 DEF Pass, RejectedOnlyForWidth
    <3>6. CASE NextRound BY <3>6 DEF NextRound, RoundOver, RejectedOnlyForWidth
    <3>7. CASE Infeasible BY <3>7 DEF Infeasible, RejectedOnlyForWidth
    <3> QED BY <3>1, <3>2, <3>3, <3>4, <3>5, <3>6, <3>7 DEF Next
  <2> QED BY <2>1, <2>2
<1>3. Inv => RejectedOnlyForWidth OBVIOUS
<1> QED BY <1>1, <1>2, <1>3, TypeCorrect, PTL DEF Spec

\* The scheduler's stages are a lower bound of every legal assignment at every
\* moment, so a result has the least stage at every node.
THEOREM LeastStages == Spec => []StagesAreLeast
<1>1. Init => StagesAreLeast
  <2> SUFFICES ASSUME Init, NEW s \in [Nodes -> Stages], NEW n \in Nodes
               PROVE  stages[n] =< s[n]
    BY DEF StagesAreLeast
  <2>1. s[n] \in Nat BY StageAssumption
  <2>2. stages[n] = 0 BY DEF Init
  <2> QED BY <2>1, <2>2
<1>2. TypeOK /\ StagesAreLeast /\ [Next]_vars => StagesAreLeast'
  <2> SUFFICES ASSUME TypeOK, StagesAreLeast, [Next]_vars
               PROVE  StagesAreLeast'
    OBVIOUS
  <2>1. CASE Relax
    <3> SUFFICES ASSUME NEW s \in [Nodes -> Stages], Legal(mapping, s),
                        NEW n \in Nodes
                 PROVE  stages'[n] =< s[n]
      BY <2>1 DEF StagesAreLeast, Relax
    <3> DEFINE e == mapping.edges[next]
    <3>1. next \in 1 .. Len(mapping.edges)
      <4>1. mapping.edges \in Seq(Edge) BY StageAssumption DEF TypeOK
      <4> QED BY <2>1, <4>1 DEF Relax, TypeOK
    <3>2. e.src \in Nodes /\ e.dst \in Nodes /\ Candidate(e) \in Int
      BY <3>1, NextEdge
    <3>3. s \in [Nodes -> Nat] BY StageAssumption
    <3>4. mapping \in Mappings /\ stages \in [Nodes -> Nat]
      BY StageAssumption DEF TypeOK
    <3>5. \A p \in Nodes : stages[p] =< s[p] BY DEF StagesAreLeast
    <3>6. minimumStageDelta(mapping, e) \in Int BY <3>1, <3>3, <3>4, BoundIsExact
    <3>7. s[e.src] + minimumStageDelta(mapping, e) =< s[e.dst]
      BY <3>1, <3>3, <3>4, BoundIsExact DEF Legal
    <3>8. Candidate(e) =< s[e.dst]
      BY <3>2, <3>3, <3>4, <3>5, <3>6, <3>7 DEF Candidate
    <3>9. stages'[n] = IF n = e.dst THEN Candidate(e) ELSE stages[n]
      BY <2>1, <3>4 DEF Relax
    <3> QED BY <3>5, <3>8, <3>9
  <2>2. CASE Overflow BY <2>2 DEF Overflow, StagesAreLeast
  <2>3. CASE Pass BY <2>3 DEF Pass, StagesAreLeast
  <2>4. CASE NextRound BY <2>4 DEF NextRound, StagesAreLeast
  <2>5. CASE Infeasible BY <2>5 DEF Infeasible, StagesAreLeast
  <2>6. CASE Finish BY <2>6 DEF Finish, StagesAreLeast
  <2>7. CASE Finished \/ UNCHANGED vars
    BY <2>7 DEF Finished, vars, StagesAreLeast
  <2> QED BY <2>1, <2>2, <2>3, <2>4, <2>5, <2>6, <2>7 DEF Next
<1> QED BY <1>1, <1>2, TypeCorrect, PTL DEF Spec

-----------------------------------------------------------------------------
(* The witness of a rejection                                              *)

Src == [i \in 1 .. Len(mapping.edges) |-> mapping.edges[i].src]
Dst == [i \in 1 .. Len(mapping.edges) |-> mapping.edges[i].dst]
Delta == [i \in 1 .. Len(mapping.edges) |->
              minimumStageDelta(mapping, mapping.edges[i])]

LEMMA GraphTyped ==
    ASSUME TypeOK
    PROVE  /\ WeightedGraph(Nodes, Len(mapping.edges), Src, Dst, Delta)
           /\ \A i \in 1 .. Len(mapping.edges) :
                 Candidate(mapping.edges[i]) = stages[Src[i]] + Delta[i]
<1>1. mapping \in Mappings /\ [n \in Nodes |-> 0] \in [Nodes -> Nat] BY DEF TypeOK
<1>2. Len(mapping.edges) \in Nat
  <2>1. mapping.edges \in Seq(Edge) BY <1>1, StageAssumption
  <2> QED BY <2>1
<1>3. ASSUME NEW i \in 1 .. Len(mapping.edges)
      PROVE  /\ mapping.edges[i].src \in Nodes /\ mapping.edges[i].dst \in Nodes
             /\ minimumStageDelta(mapping, mapping.edges[i]) \in Int
  BY <1>1, NextEdge, BoundIsExact
<1>4. Src \in [1 .. Len(mapping.edges) -> Nodes] BY <1>3 DEF Src
<1>5. Dst \in [1 .. Len(mapping.edges) -> Nodes] BY <1>3 DEF Dst
<1>6. Delta \in [1 .. Len(mapping.edges) -> Int] BY <1>3 DEF Delta
<1>7. \A i \in 1 .. Len(mapping.edges) :
         Candidate(mapping.edges[i]) = stages[Src[i]] + Delta[i]
  BY DEF Candidate, Src, Delta
<1> QED BY <1>2, <1>4, <1>5, <1>6, <1>7 DEF WeightedGraph

\* The bounds add up one edge after the other.
LEMMA BoundsAdd ==
    ASSUME TypeOK, NEW E
    PROVE  \E g \in [0 .. Len(mapping.edges) -> Int] :
              Adds(g, Delta, E, Len(mapping.edges)) /\ SumOfBounds(E) = g[Len(mapping.edges)]
<1> DEFINE m == Len(mapping.edges)
           at(k) == minimumStageDelta(mapping, mapping.edges[k])
           sum[k \in 0 .. m] ==
               IF k = 0 THEN 0
               ELSE sum[k - 1] + (IF k \in E
                                  THEN minimumStageDelta(mapping, mapping.edges[k])
                                  ELSE 0)
           Body(r) == [k \in 0 .. m |->
               IF k = 0 THEN 0
               ELSE r[k - 1] + (IF k \in E
                                THEN minimumStageDelta(mapping, mapping.edges[k])
                                ELSE 0)]
<1>1. m \in Nat /\ Delta \in [1 .. m -> Int] BY GraphTyped DEF WeightedGraph
<1>2. \A k \in 1 .. m : Delta[k] = at(k) BY DEF Delta
<1>3. SumOfBounds(E) = sum[m] BY DEF SumOfBounds
<1> HIDE DEF m
<1>4. PICK g \in [0 .. m -> Int] : Adds(g, Delta, E, m)
  <2>1. \A k \in 1 .. m : Delta[k] \in Int BY <1>1
  <2> HIDE DEF sum, Body
  <2> QED BY <1>1, <2>1, AddsExist, Zenon
<1>5. g = Body(g)
  <2>1. \A k \in 0 .. m : k = 0 \/ k \in 1 .. m BY <1>1
  <2>2. g[0] = 0 /\ \A k \in 1 .. m : g[k] = g[k - 1] + (IF k \in E THEN at(k) ELSE 0)
    BY <1>2, <1>4 DEF Adds
  <2> HIDE DEF sum
  <2> QED BY <2>1, <2>2
<1>6. sum = Body(sum) BY <1>5
<1> HIDE DEF sum
<1>7. sum[0] = 0 /\ \A k \in 1 .. m : sum[k] = sum[k - 1] + (IF k \in E THEN at(k) ELSE 0)
  <2>1. \A k \in 0 .. m : sum[k] = IF k = 0 THEN 0
                                   ELSE sum[k - 1] + (IF k \in E THEN at(k) ELSE 0)
    BY <1>6, Zenon
  <2>2. 0 \in 0 .. m /\ \A k \in 1 .. m : k \in 0 .. m /\ k # 0 BY <1>1
  <2> QED BY <2>1, <2>2, Zenon
<1> HIDE DEF Body
<1> DEFINE T == {k \in 0 .. m : sum[k] = g[k]}
<1>8. 0 \in T BY <1>1, <1>4, <1>7 DEF Adds
<1>9. ASSUME NEW k \in 1 .. m, k - 1 \in T PROVE k \in T
  <2>1. g[k] = g[k - 1] + (IF k \in E THEN at(k) ELSE 0) BY <1>2, <1>4 DEF Adds
  <2>2. sum[k] = sum[k - 1] + (IF k \in E THEN at(k) ELSE 0) BY <1>7
  <2>3. k \in 0 .. m BY <1>1
  <2> QED BY <2>1, <2>2, <2>3, <1>9
<1>10. m \in T
  <2> HIDE DEF T
  <2>1. \A k \in 1 .. m : k - 1 \in T => k \in T BY <1>9
  <2>2. \A k \in 0 .. m : k \in T BY <1>1, <1>8, <2>1, Climb
  <2>3. m \in 0 .. m BY <1>1
  <2> QED BY <2>2, <2>3
<1> QED BY <1>3, <1>4, <1>10 DEF m

\* BackFrom walks along the predecessors.
LEMMA BackWalks ==
    ASSUME TypeOK, NEW n \in Nodes \cup {NoNode}
    PROVE  /\ BackFrom(n)[0] = n
           /\ Walks(Nodes, Src, predecessorEdge, BackFrom(n), Cardinality(Nodes))
           /\ \A k \in 0 .. Cardinality(Nodes) : BackFrom(n)[k] \in Nodes \cup {NoNode}
<1> DEFINE X == Nodes \cup {NoNode}
           c == 2 * Cardinality(Nodes)
           b[k \in 0 .. c] ==
               IF k = 0 THEN n
               ELSE IF b[k - 1] = NoNode THEN NoNode ELSE Back(b[k - 1])
           Body(f) == [k \in 0 .. c |->
               IF k = 0 THEN n
               ELSE IF f[k - 1] = NoNode THEN NoNode ELSE Back(f[k - 1])]
           Prev(x) == IF x = NoNode THEN NoNode ELSE Back(x)
           G == [z \in Nat \X X |-> Prev(z[2])]
<1>1. Cardinality(Nodes) \in Nat BY StageAssumption, FS_CardinalityType
<1>2. c \in Nat BY <1>1
<1>3. BackFrom(n) = b BY DEF BackFrom
<1>4. ASSUME NEW x \in X PROVE Prev(x) \in X
  <2>1. CASE x = NoNode BY <2>1
  <2>2. CASE x # NoNode
    <3>1. predecessorEdge[x] \in 0 .. Len(mapping.edges) BY <2>2 DEF TypeOK
    <3>2. Len(mapping.edges) \in Nat BY GraphTyped DEF WeightedGraph
    <3>3. predecessorEdge[x] # 0 => mapping.edges[predecessorEdge[x]].src \in Nodes
      BY <3>1, <3>2, NextEdge
    <3> QED BY <2>2, <3>3 DEF Back
  <2> QED BY <2>1, <2>2
<1> HIDE DEF c, X
<1>5. PICK h \in [0 .. c -> X] : Iterates(h, n, G, c)
  <2>1. G \in [Nat \X X -> X]
    <3> HIDE DEF Prev, b, Body
    <3> QED BY <1>4
  <2>2. n \in X BY DEF X
  <2> HIDE DEF G, b, Body
  <2> QED BY <1>2, <2>1, <2>2, RecursionExists, Zenon
<1>6. h[0] = n /\ \A k \in 1 .. c : h[k] = Prev(h[k - 1])
  <2>1. h[0] = n /\ \A k \in 1 .. c : h[k] = G[<<k, h[k - 1]>>]
    <3> HIDE DEF G, b, Body
    <3> QED BY <1>5 DEF Iterates
  <2> HIDE DEF b, Body, Prev
  <2>2. ASSUME NEW k \in 1 .. c PROVE h[k] = Prev(h[k - 1])
    <3>1. k \in Nat /\ k - 1 \in 0 .. c BY <1>2
    <3>2. <<k, h[k - 1]>> \in Nat \X X BY <3>1, <1>5
    <3>3. G[<<k, h[k - 1]>>] = Prev(h[k - 1]) BY <3>2
    <3> QED BY <2>1, <3>3
  <2> QED BY <2>1, <2>2
<1> HIDE DEF G
<1>7. h = Body(h)
  <2>1. \A k \in 0 .. c : k = 0 \/ k \in 1 .. c BY <1>2
  <2> HIDE DEF b
  <2> QED BY <2>1, <1>5, <1>6
<1>8. b = Body(b) BY <1>7
<1> HIDE DEF b
<1>9. b[0] = n /\ \A k \in 1 .. c : b[k] = Prev(b[k - 1])
  <2>1. \A k \in 0 .. c : b[k] = IF k = 0 THEN n ELSE Prev(b[k - 1])
    BY <1>8, Zenon
  <2>2. 0 \in 0 .. c /\ \A k \in 1 .. c : k \in 0 .. c /\ k # 0 BY <1>2
  <2> QED BY <2>1, <2>2, Zenon
<1> HIDE DEF Body
<1>10. Walks(Nodes, Src, predecessorEdge, b, Cardinality(Nodes))
  <2> SUFFICES ASSUME NEW k \in 1 .. Cardinality(Nodes), b[k - 1] \in Nodes,
                      predecessorEdge[b[k - 1]] # 0
               PROVE  b[k] = Src[predecessorEdge[b[k - 1]]]
    BY DEF Walks
  <2>1. k \in 1 .. c BY <1>1 DEF c
  <2>2. b[k - 1] # NoNode BY StageAssumption
  <2>3. b[k] = mapping.edges[predecessorEdge[b[k - 1]]].src BY <1>9, <2>1, <2>2 DEF Back
  <2>4. predecessorEdge[b[k - 1]] \in 1 .. Len(mapping.edges)
    <3>1. Len(mapping.edges) \in Nat BY GraphTyped DEF WeightedGraph
    <3> QED BY <3>1 DEF TypeOK
  <2> QED BY <2>3, <2>4 DEF Src
<1>11. \A k \in 0 .. c : b[k] \in X
  <2> DEFINE T == {k \in 0 .. c : b[k] \in X}
  <2> HIDE DEF Prev
  <2>1. 0 \in T BY <1>2, <1>9 DEF X
  <2>2. ASSUME NEW k \in 1 .. c, k - 1 \in T PROVE k \in T
    <3>1. k \in 0 .. c BY <1>2
    <3> QED BY <3>1, <2>2, <1>4, <1>9
  <2> HIDE DEF T
  <2>3. \A k \in 0 .. c : k \in T BY <1>2, <2>1, <2>2, Climb
  <2> QED BY <2>3 DEF T
<1>12. \A k \in 0 .. Cardinality(Nodes) : b[k] \in X
  <2>1. \A k \in 0 .. Cardinality(Nodes) : k \in 0 .. c BY <1>1 DEF c
  <2> QED BY <1>11, <2>1
<1> QED BY <1>3, <1>9, <1>10, <1>12 DEF X

\* While stages are raised, the predecessors of every node lead back along
\* edges of which each has raised the next, and rounds are ranked.
Chained ==
    status = "relaxing" =>
        /\ Traced(Nodes, Len(mapping.edges), Src, Dst, Delta, stages, predecessorEdge)
        /\ \E last : Ranked(Nodes, Src, Dst, Delta, 1 .. Len(mapping.edges), stages,
                            predecessorEdge, round + 1, next,
                            {lastUpdated} \ {NoNode}, last)

LEMMA ChainedInit == Init => Chained
<1> SUFFICES ASSUME Init PROVE Chained OBVIOUS
<1>1. TypeOK
  <2>1. mapping.edges \in Seq(Edge) BY StageAssumption DEF Init
  <2>2. Len(mapping.edges) \in Nat BY <2>1
  <2> QED BY <2>2, StageAssumption DEF Init, TypeOK
<1> DEFINE m == Len(mapping.edges)
           z == [v \in Nodes |-> 0]
<1>2. WeightedGraph(Nodes, m, Src, Dst, Delta) BY <1>1, GraphTyped
<1>3. m \in Nat BY <1>2 DEF WeightedGraph
<1>4. stages = z /\ predecessorEdge = z /\ round + 1 = 1 /\ next = 1
      /\ {lastUpdated} \ {NoNode} = {}
  BY DEF Init
<1>5. Traced(Nodes, m, Src, Dst, Delta, z, z) BY <1>3, TracedStart
<1>6. Ranked(Nodes, Src, Dst, Delta, 1 .. m, z, z, 1, 1, {}, z)
  <2> HIDE DEF m
  <2>1. 1 .. m \in SUBSET (1 .. m) OBVIOUS
  <2> DEFINE ks == 1 .. m
  <2> HIDE DEF ks
  <2>2. ks \in SUBSET (1 .. m) BY <2>1 DEF ks
  <2>3. Ranked(Nodes, Src, Dst, Delta, ks, z, z, 1, 1, {}, z) BY <1>2, <2>2, RankedStart
  <2> QED BY <2>3 DEF ks
<1> HIDE DEF z
<1> QED BY <1>4, <1>5, <1>6 DEF Chained

LEMMA ChainedStep ==
    ASSUME TypeOK, Chained, Next
    PROVE  Chained'
<1> SUFFICES ASSUME status' = "relaxing" PROVE Chained' BY DEF Chained
<1>1. PICK m, src, dst, h, d, pred, r, k :
         /\ m = Len(mapping.edges) /\ src = Src /\ dst = Dst /\ h = Delta
         /\ d = stages /\ pred = predecessorEdge /\ r = round + 1 /\ k = next
  OBVIOUS
<1> DEFINE ks == 1 .. m
<1>2. /\ WeightedGraph(Nodes, m, src, dst, h)
      /\ \A i \in 1 .. m : Candidate(mapping.edges[i]) = d[src[i]] + h[i]
  BY <1>1, GraphTyped
<1>3. m \in Nat /\ ks \in SUBSET (1 .. m) BY <1>2 DEF WeightedGraph
<1>4. /\ d \in [Nodes -> Nat] /\ pred \in [Nodes -> 0 .. m]
      /\ r \in Nat \ {0} /\ k \in 1 .. m + 1
  BY <1>1, StageAssumption DEF TypeOK
<1>5. CASE Relax \/ Pass \/ NextRound
  <2>1. mapping' = mapping /\ status = "relaxing" BY <1>5 DEF Relax, Pass, NextRound, RoundOver
  <2>2. Len(mapping.edges)' = m /\ Src' = src /\ Dst' = dst /\ Delta' = h
    BY <2>1, <1>1 DEF Src, Dst, Delta
  <2>3. Traced(Nodes, m, src, dst, h, d, pred) BY <2>1, <1>1 DEF Chained
  <2>4. PICK U, last : /\ U = {lastUpdated} \ {NoNode}
                       /\ Ranked(Nodes, src, dst, h, ks, d, pred, r, k, U, last)
    BY <2>1, <1>1 DEF Chained
  <2> HIDE DEF ks
  <2>5. ASSUME NEW e, NEW p, NEW s, NEW j, NEW V, NEW l,
               e = stages', p = predecessorEdge', s = round' + 1, j = next',
               V = {lastUpdated'} \ {NoNode},
               Traced(Nodes, m, src, dst, h, e, p),
               Ranked(Nodes, src, dst, h, ks, e, p, s, j, V, l)
        PROVE  Chained'
    BY <2>2, <2>5 DEF Chained, ks
  <2>6. CASE Relax
    <3>1. k \in 1 .. m BY <1>1, <1>3, <1>4, <2>6 DEF Relax
    <3>2. k \in ks BY <3>1 DEF ks
    <3>3. mapping.edges[k].dst = dst[k] /\ dst[k] \in Nodes /\ dst[k] # NoNode
      BY <1>1, <1>2, <3>1, StageAssumption DEF Dst, WeightedGraph
    <3>4. /\ stages' = [d EXCEPT ![dst[k]] = d[src[k]] + h[k]]
          /\ predecessorEdge' = [pred EXCEPT ![dst[k]] = k]
          /\ round' + 1 = r /\ next' = k + 1 /\ lastUpdated' = dst[k]
      BY <1>1, <1>2, <2>6, <3>1, <3>3 DEF Relax
    <3>5. d[dst[k]] < d[src[k]] + h[k]
      <4>1. Candidate(mapping.edges[k]) > stages[mapping.edges[k].dst]
        BY <1>1, <2>6 DEF Relax, Raises
      <4>2. d[src[k]] + h[k] > d[dst[k]] BY <4>1, <1>1, <1>2, <3>1, <3>3
      <4>3. src[k] \in Nodes /\ h[k] \in Int BY <1>2, <3>1 DEF WeightedGraph
      <4>4. d[src[k]] + h[k] \in Int /\ d[dst[k]] \in Int BY <4>3, <3>3, <1>4
      <4> QED BY <4>2, <4>4
    <3> DEFINE e == [d EXCEPT ![dst[k]] = d[src[k]] + h[k]]
               p == [pred EXCEPT ![dst[k]] = k]
    <3>6. Traced(Nodes, m, src, dst, h, e, p) BY <1>2, <2>3, <3>1, <3>5, TracedRaise
    <3>7. Ranked(Nodes, src, dst, h, ks, e, p, r, k + 1, {dst[k]},
                 [last EXCEPT ![dst[k]] = r])
      BY <1>2, <1>3, <1>4, <2>4, <3>2, <3>5, RankedRaise
    <3>8. {lastUpdated'} \ {NoNode} = {dst[k]} BY <3>3, <3>4
    <3> HIDE DEF e, p
    <3>9. e = stages' /\ p = predecessorEdge' BY <3>4 DEF e, p
    <3> QED BY <2>5, <3>4, <3>6, <3>7, <3>8, <3>9
  <2>7. CASE Pass
    <3>1. k \in 1 .. m BY <1>1, <1>3, <1>4, <2>7 DEF Pass
    <3>2. mapping.edges[k].dst = dst[k] /\ dst[k] \in Nodes
      BY <1>1, <1>2, <3>1 DEF Dst, WeightedGraph
    <3>3. ~(d[dst[k]] < d[src[k]] + h[k])
      <4>1. ~(Candidate(mapping.edges[k]) > 0
              /\ Candidate(mapping.edges[k]) > stages[mapping.edges[k].dst])
        BY <1>1, <2>7 DEF Pass, Raises
      <4>2. ~(d[src[k]] + h[k] > 0 /\ d[src[k]] + h[k] > d[dst[k]])
        BY <4>1, <1>1, <1>2, <3>1, <3>2
      <4>3. src[k] \in Nodes /\ h[k] \in Int BY <1>2, <3>1 DEF WeightedGraph
      <4>4. d[src[k]] + h[k] \in Int /\ d[dst[k]] \in Nat BY <4>3, <3>2, <1>4
      <4> QED BY <4>2, <4>4
    <3>4. Ranked(Nodes, src, dst, h, ks, d, pred, r, k + 1, U, last)
      BY <1>2, <1>3, <1>4, <2>4, <3>1, <3>3, RankedPass
    <3>5. /\ d = stages' /\ pred = predecessorEdge' /\ r = round' + 1 /\ k + 1 = next'
          /\ U = {lastUpdated'} \ {NoNode}
      BY <1>1, <2>4, <2>7 DEF Pass
    <3> QED BY <2>3, <2>5, <3>4, <3>5
  <2>8. CASE NextRound
    <3>1. k > m /\ k \in Nat BY <1>1, <1>3, <1>4, <2>8 DEF NextRound, RoundOver
    <3>2. Ranked(Nodes, src, dst, h, ks, d, pred, r + 1, 1, {}, last)
      BY <1>2, <1>3, <1>4, <2>4, <3>1, RankedRound
    <3>3. /\ d = stages' /\ pred = predecessorEdge' /\ r + 1 = round' + 1 /\ 1 = next'
          /\ {} = {lastUpdated'} \ {NoNode}
      BY <1>1, <2>8 DEF NextRound
    <3> QED BY <2>3, <2>5, <3>2, <3>3
  <2> QED BY <1>5, <2>6, <2>7, <2>8
<1>6. CASE Overflow BY <1>6 DEF Overflow
<1>7. CASE Infeasible BY <1>7 DEF Infeasible
<1>8. CASE Finish BY <1>8 DEF Finish
<1>9. CASE Finished BY <1>9 DEF Finished, vars
<1> QED BY <1>5, <1>6, <1>7, <1>8, <1>9 DEF Next

\* W proves that no assignment exists.
Justifies(W) ==
    /\ W # {}
    /\ {mapping.edges[i].src : i \in W} = {mapping.edges[i].dst : i \in W}
    /\ Cardinality({mapping.edges[i].src : i \in W}) = Cardinality(W)
    /\ SumOfBounds(W) > 0

LEMMA ClosedChainJustifies ==
    ASSUME TypeOK, NEW W,
           Traced(Nodes, Len(mapping.edges), Src, Dst, Delta, stages, predecessorEdge),
           ClosedChain(Src, Dst, W), W \subseteq Used(Nodes, predecessorEdge),
           \A k, l \in W : Dst[k] = Dst[l] => k = l
    PROVE  Justifies(W)
<1> DEFINE m == Len(mapping.edges)
<1>1. m \in Nat BY GraphTyped DEF WeightedGraph
<1>2. ASSUME NEW i \in W PROVE i \in 1 .. m
  <2>1. PICK v \in Nodes : i = predecessorEdge[v] /\ i # 0 BY DEF Used
  <2>2. i \in 0 .. m BY <2>1 DEF TypeOK
  <2> QED BY <1>1, <2>1, <2>2
<1>3. \A i \in W : mapping.edges[i].src = Src[i] /\ mapping.edges[i].dst = Dst[i]
  BY <1>2 DEF Src, Dst
<1>4. W # {} /\ {Src[i] : i \in W} = {Dst[i] : i \in W} BY DEF ClosedChain
<1>5. {mapping.edges[i].src : i \in W} = {Src[i] : i \in W} BY <1>3
<1>6. {mapping.edges[i].dst : i \in W} = {Dst[i] : i \in W} BY <1>3
<1>7. Cardinality({Dst[i] : i \in W}) = Cardinality(W)
  <2> DEFINE D == {Dst[i] : i \in W}
             f == [i \in W |-> Dst[i]]
  <2>1. f \in Bijection(W, D) BY DEF Bijection, Injection, Surjection, IsInjective
  <2>2. IsFiniteSet(W)
    <3>1. W \in SUBSET (1 .. m) BY <1>2
    <3>2. IsFiniteSet(1 .. m) BY <1>1, FS_Interval
    <3> QED BY <3>1, <3>2, FS_Subset
  <2> HIDE DEF D, f
  <2>3. ExistsBijection(W, D) BY <2>1 DEF ExistsBijection
  <2>4. Cardinality(D) = Cardinality(W) BY <2>2, <2>3, FS_Bijection
  <2> QED BY <2>4 DEF D
<1>8. SumOfBounds(W) > 0
  <2>1. PICK g \in [0 .. m -> Int] : Adds(g, Delta, W, m) /\ SumOfBounds(W) = g[m]
    BY BoundsAdd
  <2>2. g[m] > 0 BY <2>1 DEF Traced, PositiveChains
  <2> QED BY <2>1, <2>2
<1> QED BY <1>4, <1>5, <1>6, <1>7, <1>8 DEF Justifies

\* After as many rounds as there are nodes, the node raised last leads back to
\* such a chain.
LEMMA WitnessJustifies ==
    ASSUME TypeOK, Chained, status = "relaxing", lastUpdated # NoNode, LastRound
    PROVE  Justifies(witnessFor(lastUpdated))
<1> DEFINE n == Cardinality(Nodes)
           x == BackFrom(lastUpdated)
           start == x[n]
           y == BackFrom(start)
           around == {k \in 1 .. n : y[k] = start}
           length == CHOOSE k \in around : \A j \in around : k =< j
<1>1. n \in Nat /\ IsFiniteSet(Nodes) BY StageAssumption, FS_CardinalityType
<1>2. lastUpdated \in Nodes BY DEF TypeOK
<1>3. /\ WeightedGraph(Nodes, Len(mapping.edges), Src, Dst, Delta)
      /\ predecessorEdge \in [Nodes -> 0 .. Len(mapping.edges)]
  BY GraphTyped DEF TypeOK
<1>4. PICK last : Ranked(Nodes, Src, Dst, Delta, 1 .. Len(mapping.edges), stages,
                         predecessorEdge, n, next, {lastUpdated} \ {NoNode}, last)
  BY DEF Chained, LastRound
<1>5. /\ x[0] = lastUpdated /\ Walks(Nodes, Src, predecessorEdge, x, n)
      /\ start \in Nodes \cup {NoNode}
  <2>1. n \in 0 .. n BY <1>1
  <2> QED BY <1>2, <2>1, BackWalks
<1> HIDE DEF x
<1>6. y[0] = start /\ Walks(Nodes, Src, predecessorEdge, y, n)
  <2> HIDE DEF start
  <2> QED BY <1>5, BackWalks
<1> HIDE DEF y, n
<1>7. /\ \A j \in 0 .. n : y[j] \in Nodes /\ predecessorEdge[y[j]] # 0
      /\ \E p \in 1 .. n : y[p] = y[0]
  <2>1. x[0] \in {lastUpdated} \ {NoNode} /\ x[0] \in Nodes BY <1>2, <1>5
  <2>2. PICK m, src, dst, h, ks, d, pred, k, U :
           /\ m = Len(mapping.edges) /\ src = Src /\ dst = Dst /\ h = Delta
           /\ ks = 1 .. Len(mapping.edges) /\ d = stages /\ pred = predecessorEdge
           /\ k = next /\ U = {lastUpdated} \ {NoNode}
    OBVIOUS
  <2>3. n = Cardinality(Nodes) BY DEF n
  <2>4. y[0] = x[n] BY <1>6
  <2>5. /\ WeightedGraph(Nodes, m, src, dst, h) /\ pred \in [Nodes -> 0 .. m]
        /\ Ranked(Nodes, src, dst, h, ks, d, pred, n, k, U, last)
        /\ x[0] \in U /\ x[0] \in Nodes
        /\ Walks(Nodes, src, pred, x, n) /\ Walks(Nodes, src, pred, y, n)
    BY <1>3, <1>4, <1>5, <1>6, <2>1, <2>2
  <2> HIDE DEF start
  <2>6. Returns(Nodes, pred, y, n) BY <1>1, <2>3, <2>4, <2>5, WalkReturns, Zenon
  <2> QED BY <2>2, <2>6 DEF Returns
<1>8. start \in Nodes /\ start # NoNode
  <2>1. 0 \in 0 .. n BY <1>1
  <2> QED BY <2>1, <1>6, <1>7, StageAssumption
<1>9. around # {} /\ around \in SUBSET Nat /\ \A k \in around : k \in 1 .. n /\ y[k] = y[0]
  <2> HIDE DEF start
  <2> QED BY <1>1, <1>6, <1>7
<1>10. length \in around
  <2> HIDE DEF around
  <2>1. \E k \in around : \A j \in around : k =< j BY <1>9, LeastNatural
  <2> QED BY <2>1
<1>11. witnessFor(lastUpdated) = {predecessorEdge[y[k]] : k \in 0 .. length - 1}
  <2>1. witnessFor(lastUpdated)
          = IF start = NoNode \/ around = {} THEN {}
            ELSE {predecessorEdge[y[k]] : k \in 0 .. length - 1}
    BY DEF witnessFor, x, y, n
  <2> HIDE DEF start, around, length
  <2> QED BY <1>8, <1>9, <2>1
<1>12. Around(Nodes, Src, predecessorEdge, y, n, length)
  <2> HIDE DEF start, around, length
  <2> QED BY <1>1, <1>6, <1>7, <1>9, <1>10 DEF Around
<1> HIDE DEF length
<1>13. Traced(Nodes, Len(mapping.edges), Src, Dst, Delta, stages, predecessorEdge)
  BY DEF Chained
<1> DEFINE W == EdgesAround(predecessorEdge, y, length)
<1>14. /\ ClosedChain(Src, Dst, W) /\ W \subseteq Used(Nodes, predecessorEdge)
       /\ \A k, l \in W : Dst[k] = Dst[l] => k = l
  BY <1>12, <1>13, AroundCloses
<1>15. witnessFor(lastUpdated) = W BY <1>11 DEF EdgesAround
<1> HIDE DEF W
<1>16. Justifies(W) BY <1>13, <1>14, ClosedChainJustifies
<1> QED BY <1>15, <1>16

\* INFEASIBLE is always right, and its explanation complete: |nodes| rounds are
\* enough, the witness is never missing, and its stage bounds add up to more
\* than 0 around a closed chain, so no stage assignment exists.
THEOREM RejectionIsProved == Spec => []RejectionHasWitness
<1> DEFINE Inv == Chained /\ RejectionHasWitness
<1>1. Init => Inv
  <2>1. Init => RejectionHasWitness BY DEF Init, RejectionHasWitness
  <2> QED BY <2>1, ChainedInit
<1>2. TypeOK /\ Inv /\ [Next]_vars => Inv'
  <2> SUFFICES ASSUME TypeOK, Inv, [Next]_vars PROVE Inv' OBVIOUS
  <2>1. CASE UNCHANGED vars
    BY <2>1 DEF vars, Chained, Src, Dst, Delta, RejectionHasWitness, SumOfBounds
  <2>2. CASE Next
    <3>1. Chained' BY <2>2, ChainedStep
    <3>2. RejectionHasWitness'
      <4>1. CASE Infeasible
        <5>1. Justifies(witnessFor(lastUpdated))
          BY <4>1, WitnessJustifies DEF Infeasible, RoundOver
        <5>2. PICK W : W = witnessFor(lastUpdated) OBVIOUS
        <5>3. Justifies(W) BY <5>1, <5>2
        <5>4. witness' = W /\ mapping' = mapping BY <4>1, <5>2 DEF Infeasible
        <5>5. SumOfBounds(W)' = SumOfBounds(W) BY <5>4 DEF SumOfBounds
        <5>6. (SumOfBounds(witness) > 0)' BY <5>3, <5>4, <5>5 DEF Justifies
        <5> QED BY <5>3, <5>4, <5>6 DEF Justifies, RejectionHasWitness
      <4>2. CASE Finished
        BY <4>2 DEF Finished, vars, RejectionHasWitness, SumOfBounds
      <4>3. CASE Overflow BY <4>3 DEF Overflow, RejectionHasWitness
      <4>4. CASE Relax BY <4>4 DEF Relax, RejectionHasWitness
      <4>5. CASE Pass BY <4>5 DEF Pass, RejectionHasWitness
      <4>6. CASE NextRound BY <4>6 DEF NextRound, RoundOver, RejectionHasWitness
      <4>7. CASE Finish BY <4>7 DEF Finish, RejectionHasWitness
      <4> QED BY <2>2, <4>1, <4>2, <4>3, <4>4, <4>5, <4>6, <4>7 DEF Next
    <3> QED BY <3>1, <3>2
  <2> QED BY <2>1, <2>2
<1>3. Inv => RejectionHasWitness OBVIOUS
<1> QED BY <1>1, <1>2, <1>3, TypeCorrect, PTL DEF Spec
=============================================================================
