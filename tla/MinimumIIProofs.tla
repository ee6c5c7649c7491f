--------------------------- MODULE MinimumIIProofs --------------------------
(***************************************************************************)
(* For every target and every DFG: no schedule exists below the interval   *)
(* that MIIAnalyzer reports, its recurrences admit the interval that it    *)
(* bisects to, the sum of all separations is a safe place to start, and    *)
(* the recurrence it names is the one that decides.                        *)
(*                                                                         *)
(* The heart is that evaluate, which stops after as many rounds as there   *)
(* are nodes, decides whether the constraints can be met.                  *)
(***************************************************************************)
EXTENDS MinimumII, NumberLemmas, FiniteSetTheorems, TLAPS

-----------------------------------------------------------------------------
(* Sums                                                                    *)

\* A sum is taken one index after the other.
LEMMA SumSteps ==
    ASSUME NEW n \in Nat, NEW f, \A k \in 1 .. n : f[k] \in Nat, NEW S
    PROVE  \E g \in [0 .. n -> Nat] : Adds(g, f, S, n) /\ SumOf(f, S, n) = g[n]
<1> DEFINE add == [k \in Nat |-> IF k \in 1 .. n /\ k \in S THEN f[k] ELSE 0]
           G == [z \in Nat \X Nat |-> z[2] + add[z[1]]]
           sum[k \in 0 .. n] ==
               IF k = 0 THEN 0 ELSE sum[k - 1] + (IF k \in S THEN f[k] ELSE 0)
           Body(r) == [k \in 0 .. n |->
               IF k = 0 THEN 0 ELSE r[k - 1] + (IF k \in S THEN f[k] ELSE 0)]
<1>1. add \in [Nat -> Nat] OBVIOUS
<1>2. \A k \in 1 .. n : add[k] = IF k \in S THEN f[k] ELSE 0 OBVIOUS
<1> HIDE DEF add
<1>3. G \in [Nat \X Nat -> Nat] BY <1>1
<1>4. PICK h \in [0 .. n -> Nat] : Iterates(h, 0, G, n)
  <2> HIDE DEF G, sum, Body
  <2> QED BY <1>3, RecursionExists
<1>5. h[0] = 0 /\ \A k \in 1 .. n : h[k] = G[<<k, h[k - 1]>>]
  <2> HIDE DEF G, sum, Body
  <2> QED BY <1>4 DEF Iterates
<1>6. ASSUME NEW k \in 1 .. n PROVE h[k] = h[k - 1] + (IF k \in S THEN f[k] ELSE 0)
  <2>1. k \in Nat /\ k - 1 \in 0 .. n OBVIOUS
  <2>2. <<k, h[k - 1]>> \in Nat \X Nat BY <2>1, <1>4
  <2>3. G[<<k, h[k - 1]>>] = h[k - 1] + add[k] BY <2>2
  <2> QED BY <2>3, <1>2, <1>5
<1> HIDE DEF G
<1>7. h = Body(h)
  <2>1. \A k \in 0 .. n : k = 0 \/ k \in 1 .. n OBVIOUS
  <2> QED BY <2>1, <1>4, <1>5, <1>6
<1>8. sum = Body(sum) BY <1>7
<1>9. SumOf(f, S, n) = sum[n] BY DEF SumOf
<1> HIDE DEF sum
<1>10. sum[0] = 0 /\ \A k \in 1 .. n : sum[k] = sum[k - 1] + (IF k \in S THEN f[k] ELSE 0)
  <2>1. \A k \in 0 .. n : sum[k] = IF k = 0 THEN 0
                                   ELSE sum[k - 1] + (IF k \in S THEN f[k] ELSE 0)
    BY <1>8, Zenon
  <2>2. 0 \in 0 .. n /\ \A k \in 1 .. n : k \in 0 .. n /\ k # 0 OBVIOUS
  <2> QED BY <2>1, <2>2, Zenon
<1>11. sum \in [0 .. n -> Nat]
  <2> DEFINE T == {k \in 0 .. n : sum[k] \in Nat}
  <2>1. 0 \in T BY <1>10
  <2>2. ASSUME NEW k \in 1 .. n, k - 1 \in T PROVE k \in T
    <3>1. sum[k - 1] \in Nat /\ k \in 0 .. n BY <2>2
    <3>2. (IF k \in S THEN f[k] ELSE 0) \in Nat OBVIOUS
    <3>3. sum[k] = sum[k - 1] + (IF k \in S THEN f[k] ELSE 0) BY <1>10
    <3>4. sum[k] \in Nat BY <3>1, <3>2, <3>3
    <3> QED BY <3>1, <3>4
  <2> HIDE DEF T
  <2>3. \A k \in 0 .. n : k \in T BY <2>1, <2>2, Climb
  <2>4. \A k \in 0 .. n : sum[k] \in Nat BY <2>3 DEF T
  <2>5. sum = [k \in 0 .. n |-> sum[k]]
    <3>1. DOMAIN Body(sum) = 0 .. n OBVIOUS
    <3> QED BY <3>1, <1>8
  <2> QED BY <2>4, <2>5
<1> HIDE DEF Body
<1> QED BY <1>9, <1>10, <1>11 DEF Adds

Counted(f, S, n) ==
    /\ IsFiniteSet(UnitsOf(f, S, n))
    /\ SumOf(f, S, n) \in Nat
    /\ Cardinality(UnitsOf(f, S, n)) = SumOf(f, S, n)

\* What a sum counts.
LEMMA SumCounts ==
    ASSUME NEW n \in Nat, NEW f, \A k \in 1 .. n : f[k] \in Nat, NEW S
    PROVE  Counted(f, S, n)
<1>1. PICK g \in [0 .. n -> Nat] : Adds(g, f, S, n) /\ SumOf(f, S, n) = g[n]
  BY SumSteps
<1> QED BY <1>1, AddsCount DEF Counted

-----------------------------------------------------------------------------
(* Resources                                                               *)

\* What every graph of an analysis is.
Wellformed ==
    /\ Len(dfg.op) \in Nat /\ Len(dfg.edges) \in Nat
    /\ \A n \in Nodes : dfg.op[n] \in DOMAIN Supports /\ dfg.occupancy[n] \in Nat
    /\ \A k \in AllEdges :
          /\ dfg.edges[k].src \in Nodes /\ dfg.edges[k].dst \in Nodes
          /\ dfg.edges[k].distance \in Nat /\ dfg.edges[k].separation \in Nat

LEMMA GraphsAreWellformed ==
    ASSUME dfg \in Dfgs
    PROVE  Wellformed
<1>1. DfgOK(dfg) BY MIIAssumption
<1> DEFINE o == dfg.op
           c == dfg.occupancy
           es == dfg.edges
           Edges == [src : Nodes, dst : Nodes, distance : Nat, separation : Nat]
<1>5. o \in Seq(DOMAIN Supports) /\ c \in [1 .. Len(o) -> Nat] /\ es \in Seq(Edges)
  BY <1>1 DEF DfgOK, Nodes
<1> HIDE DEF o, c, es
<1>2. Len(o) \in Nat /\ Len(es) \in Nat
  <2> HIDE DEF Edges
  <2> QED BY <1>5
<1>3. \A n \in 1 .. Len(o) : o[n] \in DOMAIN Supports /\ c[n] \in Nat
  BY <1>5
<1>4. \A k \in 1 .. Len(es) : es[k] \in Edges
  <2> HIDE DEF Edges
  <2> QED BY <1>5
<1>6. \A k \in 1 .. Len(es) : /\ es[k].src \in Nodes /\ es[k].dst \in Nodes
                              /\ es[k].distance \in Nat /\ es[k].separation \in Nat
  BY <1>4
<1> QED BY <1>2, <1>3, <1>6 DEF Wellformed, o, c, es, Nodes, AllEdges

\* ceilDivToMII is exact: an interval below it is too short for the demand.
LEMMA CeilingExceeded ==
    ASSUME NEW n \in Nat, NEW d \in Nat, n # 0 => d # 0, NEW i \in Nat \ {0},
           ceilDivToMII(n, d) > i
    PROVE  n > d * i
<1>1. n # 0 BY DEF ceilDivToMII
<1>2. d \in Nat \ {0} BY <1>1
<1> DEFINE q == n \div d
           r == n % d
<1>3. n = d * q + r /\ q \in Int /\ r \in Int /\ 0 =< r BY <1>2, DivMod
<1>4. q + (IF r = 0 THEN 0 ELSE 1) > i BY <1>1 DEF ceilDivToMII
<1> HIDE DEF q, r
<1>5. d * i \in Int /\ d * q \in Int BY <1>2, <1>3
<1>6. CASE i < q
  <2>1. d * i + d =< d * q BY <1>2, <1>3, <1>6, Multiples
  <2> QED BY <2>1, <1>2, <1>3, <1>5
<1>7. CASE i = q /\ r # 0
  <2>1. d * i = d * q BY <1>7
  <2> QED BY <2>1, <1>3, <1>5, <1>7
<1> QED BY <1>3, <1>4, <1>6, <1>7

\* The slots of one operation are different ones.
LEMMA SlotsDiffer ==
    ASSUME NEW p \in Nat \ {0}, NEW a \in Nat, NEW x \in 0 .. p - 1, NEW y \in 0 .. p - 1,
           (a + x) % p = (a + y) % p
    PROVE  x = y
<1> DEFINE q == (a + x) \div p
           u == (a + y) \div p
           r == (a + x) % p
<1>1. a + x = p * q + r /\ q \in Int /\ r \in Int
  <2>1. a + x \in Int OBVIOUS
  <2> QED BY <2>1, DivMod
<1>2. a + y = p * u + r /\ u \in Int
  <2>1. a + y \in Int OBVIOUS
  <2> QED BY <2>1, DivMod
<1> HIDE DEF q, u, r
<1>3. p * q \in Int /\ p * u \in Int BY <1>1, <1>2
<1>4. CASE q < u
  <2>1. p * q + p =< p * u BY <1>1, <1>2, <1>4, Multiples
  <2> QED BY <2>1, <1>1, <1>2, <1>3
<1>5. CASE u < q
  <2>1. p * u + p =< p * q BY <1>1, <1>2, <1>5, Multiples
  <2> QED BY <2>1, <1>1, <1>2, <1>3
<1>6. CASE q = u
  <2>1. p * q = p * u BY <1>6
  <2> QED BY <2>1, <1>1, <1>2, <1>3
<1> QED BY <1>1, <1>2, <1>4, <1>5, <1>6

\* Operations that share units: their slots fit into those units' slots.
LEMMA Crowded ==
    ASSUME Wellformed, NEW ii \in Nat \ {0}, NEW t, \A n \in Nodes : t[n] \in Nat,
           NEW N \in SUBSET Nodes, NEW U, IsFiniteSet(U),
           NEW unit, \A n \in N : unit[n] \in U,
           \A n \in Nodes : dfg.occupancy[n] =< ii,
           \A n, p \in Nodes : n # p /\ unit[n] = unit[p] =>
               IssueSlots(ii, t, n) \cap IssueSlots(ii, t, p) = {}
    PROVE  Demand(N) =< Cardinality(U) * ii /\ Demand(N) \in Nat
<1> DEFINE S == UnitsOf(dfg.occupancy, N, Len(dfg.op))
           R == U \X (0 .. ii - 1)
           slot == [z \in S |-> <<unit[z[1]], (t[z[1]] + z[2]) % ii>>]
<1>1. Counted(dfg.occupancy, N, Len(dfg.op))
  <2>1. \A k \in 1 .. Len(dfg.op) : dfg.occupancy[k] \in Nat BY DEF Wellformed, Nodes
  <2>2. Len(dfg.op) \in Nat BY DEF Wellformed
  <2> QED BY <2>1, <2>2, SumCounts
<1>2. IsFiniteSet(S) /\ Cardinality(S) = Demand(N) /\ Demand(N) \in Nat
  BY <1>1 DEF Counted, Demand
<1>3. IsFiniteSet(R) /\ Cardinality(R) = Cardinality(U) * ii /\ Cardinality(R) \in Nat
  <2> DEFINE I == 0 .. ii - 1
  <2>1. IsFiniteSet(I) /\ Cardinality(I) = ii
    <3>1. ii - 1 \in Int /\ 0 \in Int OBVIOUS
    <3>2. /\ IsFiniteSet(I)
          /\ Cardinality(I) = IF 0 > ii - 1 THEN 0 ELSE (ii - 1) - 0 + 1
      BY <3>1, FS_Interval
    <3> QED BY <3>2
  <2> HIDE DEF I
  <2>2. IsFiniteSet(U \X I) /\ Cardinality(U \X I) = Cardinality(U) * Cardinality(I)
    BY <2>1, FS_Product
  <2>3. Cardinality(U \X I) \in Nat BY <2>2, FS_CardinalityType
  <2> QED BY <2>1, <2>2, <2>3 DEF I
<1>4. ASSUME NEW z \in S
      PROVE  /\ z[1] \in N /\ z[1] \in Nodes /\ z[2] \in 0 .. ii - 1 /\ z = <<z[1], z[2]>>
             /\ (t[z[1]] + z[2]) % ii \in 0 .. ii - 1
             /\ (t[z[1]] + z[2]) % ii \in IssueSlots(ii, t, z[1])
  <2>1. z \in Nodes \X Nat /\ z[1] \in N /\ z[2] < dfg.occupancy[z[1]]
    BY DEF UnitsOf, Nodes
  <2>2. z[1] \in Nodes /\ z[2] \in Nat /\ z = <<z[1], z[2]>> BY <2>1
  <2>3. dfg.occupancy[z[1]] \in Nat /\ dfg.occupancy[z[1]] =< ii BY <2>2 DEF Wellformed
  <2>4. z[2] \in 0 .. ii - 1 /\ z[2] \in 0 .. dfg.occupancy[z[1]] - 1 BY <2>1, <2>2, <2>3
  <2>5. t[z[1]] + z[2] \in Int BY <2>2
  <2>6. (t[z[1]] + z[2]) % ii \in 0 .. ii - 1 BY <2>5, DivMod
  <2>7. (t[z[1]] + z[2]) % ii \in IssueSlots(ii, t, z[1]) BY <2>4 DEF IssueSlots
  <2> QED BY <2>1, <2>2, <2>4, <2>6, <2>7
<1>5. slot \in [S -> R]
  <2>1. ASSUME NEW z \in S PROVE <<unit[z[1]], (t[z[1]] + z[2]) % ii>> \in R
    BY <1>4
  <2> HIDE DEF S, R
  <2> QED BY <2>1
<1>6. ASSUME Cardinality(R) < Cardinality(S) PROVE FALSE
  <2>1. PICK x, y \in S : x # y /\ slot[x] = slot[y]
    <3> HIDE DEF S, R, slot
    <3> QED BY <1>2, <1>3, <1>5, <1>6, FS_PigeonHole
  <2>2. /\ unit[x[1]] = unit[y[1]]
        /\ (t[x[1]] + x[2]) % ii = (t[y[1]] + y[2]) % ii
    <3> DEFINE m(z) == (t[z[1]] + z[2]) % ii
    <3>1. slot[x] = <<unit[x[1]], m(x)>> /\ slot[y] = <<unit[y[1]], m(y)>> BY <2>1
    <3> HIDE DEF slot, S, m
    <3>2. <<unit[x[1]], m(x)>> = <<unit[y[1]], m(y)>> BY <2>1, <3>1
    <3>3. unit[x[1]] = unit[y[1]] /\ m(x) = m(y) BY <3>2
    <3> QED BY <3>3 DEF m
  <2> HIDE DEF slot, S
  <2>3. CASE x[1] = y[1]
    <3>1. t[x[1]] \in Nat /\ x[2] \in 0 .. ii - 1 /\ y[2] \in 0 .. ii - 1 BY <1>4
    <3>2. (t[x[1]] + x[2]) % ii = (t[x[1]] + y[2]) % ii BY <2>2, <2>3
    <3>3. x[2] = y[2] BY <3>1, <3>2, SlotsDiffer
    <3>4. x = <<x[1], x[2]>> /\ y = <<y[1], y[2]>> BY <1>4
    <3> QED BY <3>3, <3>4, <2>1, <2>3
  <2>4. CASE x[1] # y[1]
    <3>1. x[1] \in Nodes /\ y[1] \in Nodes BY <1>4
    <3>2. IssueSlots(ii, t, x[1]) \cap IssueSlots(ii, t, y[1]) = {} BY <3>1, <2>2, <2>4
    <3>3. (t[x[1]] + x[2]) % ii \in IssueSlots(ii, t, x[1]) BY <1>4
    <3>4. (t[y[1]] + y[2]) % ii \in IssueSlots(ii, t, y[1]) BY <1>4
    <3> QED BY <3>2, <3>3, <3>4, <2>2, Zenon
  <2> QED BY <2>3, <2>4
<1> HIDE DEF S, R
<1> QED BY <1>2, <1>3, <1>6

LEMMA DemandTyped ==
    ASSUME Wellformed, NEW N \in SUBSET Nodes
    PROVE  Demand(N) \in Nat /\ (Demand(N) # 0 => N # {})
<1>1. Counted(dfg.occupancy, N, Len(dfg.op))
  <2>1. \A k \in 1 .. Len(dfg.op) : dfg.occupancy[k] \in Nat BY DEF Wellformed, Nodes
  <2>2. Len(dfg.op) \in Nat BY DEF Wellformed
  <2> QED BY <2>1, <2>2, SumCounts
<1>2. N = {} => UnitsOf(dfg.occupancy, N, Len(dfg.op)) = {} BY DEF UnitsOf
<1> QED BY <1>1, <1>2, FS_EmptySet DEF Counted, Demand

LEMMA CeilingTyped ==
    ASSUME NEW n \in Nat, NEW d \in Nat, n # 0 => d # 0
    PROVE  ceilDivToMII(n, d) \in Nat
<1>1. CASE n = 0 BY <1>1 DEF ceilDivToMII
<1>2. CASE n # 0
  <2>1. d \in Nat \ {0} BY <1>2
  <2>2. n = d * (n \div d) + (n % d) /\ n \div d \in Int /\ n % d \in 0 .. d - 1
    BY <2>1, DivMod
  <2>3. n \div d >= 0 BY <2>1
  <2> QED BY <1>2, <2>2, <2>3 DEF ceilDivToMII
<1> QED BY <1>1, <1>2

\* A set of operations and all units that any of them may use.
Confined(N, U) ==
    /\ N \in SUBSET Nodes /\ U \in SUBSET Units
    /\ \A n \in N : Supports[dfg.op[n]] \subseteq U

LEMMA ConfinedBound ==
    ASSUME Wellformed, Uncovered = {}, NEW N, NEW U, Confined(N, U)
    PROVE  /\ ceilDivToMII(Demand(N), Cardinality(U)) \in Nat
           /\ \A ii \in Nat \ {0} : \A t \in Schedules :
                 ceilDivToMII(Demand(N), Cardinality(U)) > ii => ~UnitsLegal(ii, t)
<1>1. IsFiniteSet(U) /\ Cardinality(U) \in Nat
  <2>1. IsFiniteSet(U) BY MIIAssumption, FS_Subset DEF Confined
  <2> QED BY <2>1, FS_CardinalityType
<1>2. Demand(N) \in Nat /\ (Demand(N) # 0 => Cardinality(U) # 0)
  <2>1. N \in SUBSET Nodes BY DEF Confined
  <2>2. Demand(N) \in Nat /\ (Demand(N) # 0 => N # {}) BY <2>1, DemandTyped
  <2>3. ASSUME NEW n \in N PROVE U # {}
    <3>1. n \in Nodes /\ Supports[dfg.op[n]] \subseteq U BY DEF Confined
    <3>2. Supports[dfg.op[n]] # {} BY <3>1 DEF Uncovered
    <3> QED BY <3>1, <3>2
  <2>4. U # {} => Cardinality(U) # 0 BY <1>1, FS_EmptySet
  <2> QED BY <2>2, <2>3, <2>4
<1>3. ceilDivToMII(Demand(N), Cardinality(U)) \in Nat BY <1>1, <1>2, CeilingTyped
<1>4. ASSUME NEW ii \in Nat \ {0}, NEW t \in Schedules,
             ceilDivToMII(Demand(N), Cardinality(U)) > ii, UnitsLegal(ii, t)
      PROVE  FALSE
  <2>1. Demand(N) > Cardinality(U) * ii BY <1>1, <1>2, <1>4, CeilingExceeded
  <2>2. PICK unit \in [Nodes -> Units] :
          /\ \A n \in Nodes : unit[n] \in Supports[dfg.op[n]]
          /\ \A n, p \in Nodes : n # p /\ unit[n] = unit[p] =>
                 IssueSlots(ii, t, n) \cap IssueSlots(ii, t, p) = {}
    BY <1>4 DEF UnitsLegal
  <2>3. \A n \in Nodes : t[n] \in Nat BY <1>4, MIIAssumption DEF Schedules
  <2>4. \A n \in Nodes : dfg.occupancy[n] =< ii BY <1>4 DEF UnitsLegal
  <2>5. \A n \in N : unit[n] \in U BY <2>2 DEF Confined
  <2>6. N \in SUBSET Nodes BY DEF Confined
  <2>7. Demand(N) =< Cardinality(U) * ii
    BY <1>1, <2>2, <2>3, <2>4, <2>5, <2>6, Crowded
  <2>8. Cardinality(U) * ii \in Nat BY <1>1
  <2> QED BY <2>1, <2>7, <2>8, <1>2
<1> QED BY <1>3, <1>4

\* No schedule has an interval below b.
Excludes(b) ==
    b \in Nat /\ \A ii \in Nat \ {0} : \A t \in Schedules : b > ii => ~UnitsLegal(ii, t)

LEMMA SelfOccupancyBound ==
    ASSUME Wellformed
    PROVE  Excludes(selfOccupancyMII)
<1> DEFINE T == {1} \cup {dfg.occupancy[n] : n \in Nodes}
<1>1. T \in SUBSET Nat /\ T # {} BY DEF Wellformed
<1>2. PICK b \in Nat : \A n \in 1 .. Len(dfg.op) : dfg.occupancy[n] =< b
  <2>1. Len(dfg.op) \in Nat /\ \A n \in 1 .. Len(dfg.op) : dfg.occupancy[n] \in Nat
    BY DEF Wellformed, Nodes
  <2> QED BY <2>1, Bounded
<1>3. \A y \in T : y =< b + 1
  <2>1. \A n \in Nodes : dfg.occupancy[n] \in Nat /\ dfg.occupancy[n] =< b
    BY <1>2 DEF Nodes, Wellformed
  <2> QED BY <2>1, <1>2
<1>4. Max(T) \in T
  <2> HIDE DEF T
  <2>1. b + 1 \in Nat BY <1>2
  <2> QED BY <1>1, <1>3, <2>1, MaxIsMember
<1>5. selfOccupancyMII = Max(T) BY DEF selfOccupancyMII
<1>6. Max(T) \in Nat BY <1>1, <1>4
<1>7. ASSUME NEW ii \in Nat \ {0}, NEW t \in Schedules, Max(T) > ii, UnitsLegal(ii, t)
      PROVE  FALSE
  <2> DEFINE m == Max(T)
  <2>1. m \in T /\ m > ii /\ m \in Nat BY <1>4, <1>6, <1>7
  <2> HIDE DEF m
  <2>2. m # 1 BY <2>1
  <2>3. PICK n \in Nodes : m = dfg.occupancy[n] BY <2>1, <2>2
  <2>4. dfg.occupancy[n] =< ii BY <1>7, <2>3 DEF UnitsLegal
  <2> QED BY <2>1, <2>3, <2>4
<1> HIDE DEF T
<1> QED BY <1>5, <1>6, <1>7 DEF Excludes

LEMMA ClassBound ==
    ASSUME Wellformed, Uncovered = {}, NEW c
    PROVE  Excludes(classMII(c))
<1> DEFINE N == ClassNodes(c)
           U == ClassUnits(c)
<1>1. Confined(N, U)
  <2>1. N \in SUBSET Nodes /\ U \in SUBSET Units BY DEF ClassNodes, ClassUnits
  <2>2. ASSUME NEW n \in N, NEW u \in Supports[dfg.op[n]] PROVE u \in U
    <3>1. n \in Nodes /\ OpClass[dfg.op[n]] = c BY DEF ClassNodes
    <3>2. dfg.op[n] \in DOMAIN Supports BY <3>1 DEF Wellformed
    <3>3. u \in Units /\ Class[u] = OpClass[dfg.op[n]] BY <2>2, <3>2, MIIAssumption
    <3> QED BY <3>1, <3>3 DEF ClassUnits
  <2> HIDE DEF N, U
  <2> QED BY <2>1, <2>2 DEF Confined
<1> HIDE DEF N, U
<1>2. /\ ceilDivToMII(Demand(N), Cardinality(U)) \in Nat
      /\ \A ii \in Nat \ {0} : \A t \in Schedules :
            ceilDivToMII(Demand(N), Cardinality(U)) > ii => ~UnitsLegal(ii, t)
  BY <1>1, ConfinedBound
<1>3. classMII(c) = ceilDivToMII(Demand(N), Cardinality(U)) BY DEF classMII, N, U
<1> QED BY <1>2, <1>3 DEF Excludes

LEMMA OperationBound ==
    ASSUME Wellformed, Uncovered = {}, NEW q \in Nodes
    PROVE  Excludes(operationMII(dfg.op[q]))
<1> DEFINE o == dfg.op[q]
           N == {n \in Nodes : dfg.op[n] = o}
           U == Supports[o]
<1>1. Confined(N, U)
  <2>1. o \in DOMAIN Supports BY DEF Wellformed
  <2>2. U \in SUBSET Units BY <2>1, MIIAssumption
  <2> QED BY <2>2 DEF Confined
<1>3. operationMII(o) = ceilDivToMII(Demand(N), Cardinality(U)) BY DEF operationMII
<1> HIDE DEF N, U, o
<1>2. /\ ceilDivToMII(Demand(N), Cardinality(U)) \in Nat
      /\ \A ii \in Nat \ {0} : \A t \in Schedules :
            ceilDivToMII(Demand(N), Cardinality(U)) > ii => ~UnitsLegal(ii, t)
  BY <1>1, ConfinedBound
<1>4. Excludes(operationMII(o)) BY <1>2, <1>3 DEF Excludes
<1> QED BY <1>4 DEF o

\* resourceMII is at least 1, and no schedule has an interval below it.
LEMMA ResourcesExclude ==
    ASSUME Wellformed, Uncovered = {}
    PROVE  Excludes(Max(ResourceBounds)) /\ Max(ResourceBounds) >= 1
<1> DEFINE T == ResourceBounds
           f == [n \in Nodes |-> operationMII(dfg.op[n])]
           s == selfOccupancyMII
           a == classMII("FU")
           l == classMII("LSU")
<1>1. Excludes(s) /\ Excludes(a) /\ Excludes(l) BY SelfOccupancyBound, ClassBound
<1>2. \A n \in Nodes : Excludes(f[n]) BY OperationBound
<1>3. Excludes(1)
  <2>1. \A ii \in Nat \ {0} : ~(1 > ii) OBVIOUS
  <2> QED BY <2>1 DEF Excludes
<1>4. T = {1, s, a, l} \cup {f[n] : n \in Nodes} BY DEF ResourceBounds
<1> HIDE DEF T, f, s, a, l
<1>5. \A y \in T : Excludes(y) BY <1>1, <1>2, <1>3, <1>4
<1>6. T \in SUBSET Nat /\ 1 \in T BY <1>4, <1>5 DEF Excludes
<1>7. PICK b \in Nat : \A n \in 1 .. Len(dfg.op) : f[n] =< b
  <2>1. Len(dfg.op) \in Nat /\ \A n \in 1 .. Len(dfg.op) : f[n] \in Nat
    BY <1>2 DEF Wellformed, Nodes, Excludes
  <2> QED BY <2>1, Bounded
<1>8. s \in Nat /\ a \in Nat /\ l \in Nat /\ \A n \in Nodes : f[n] \in Nat /\ f[n] =< b
  BY <1>1, <1>2, <1>7 DEF Excludes, Nodes
<1>9. \A y \in T : y =< b + 1 + s + a + l BY <1>4, <1>7, <1>8
<1>10. b + 1 + s + a + l \in Nat BY <1>7, <1>8
<1>11. Max(T) \in T /\ \A y \in T : y =< Max(T) BY <1>6, <1>9, <1>10, MaxIsMember
<1>12. Max(T) \in Nat /\ Max(T) >= 1 BY <1>6, <1>11
<1> QED BY <1>5, <1>11, <1>12 DEF T

-----------------------------------------------------------------------------
(* Recurrences: what one round of evaluate does                            *)

Src(k) == dfg.edges[k].src
Dst(k) == dfg.edges[k].dst
Gap(k, ii) == weight(dfg.edges[k], ii)

Times == [Nodes -> Nat]
Sts == [longest : Times, pred : [Nodes -> 0 .. Len(dfg.edges)], updated : SUBSET Nodes]

\* The times t meet the constraints ks.
Meets(t, ks, ii) == \A k \in ks : t[Dst(k)] >= t[Src(k)] + Gap(k, ii)
Below(t, u) == \A n \in Nodes : t[n] =< u[n]
Grows(t, u) == \E n \in Nodes : t[n] < u[n]

LEMMA GapTyped ==
    ASSUME Wellformed, NEW ii \in Nat, NEW k \in AllEdges
    PROVE  Gap(k, ii) \in Int /\ Src(k) \in Nodes /\ Dst(k) \in Nodes
<1>1. /\ dfg.edges[k].separation \in Nat /\ dfg.edges[k].distance \in Nat
      /\ dfg.edges[k].src \in Nodes /\ dfg.edges[k].dst \in Nodes
  BY DEF Wellformed
<1>2. dfg.edges[k].distance * ii \in Int BY <1>1
<1> QED BY <1>1, <1>2 DEF Gap, weight, Src, Dst

\* After the constraints up to k, of a round that began in st.
Advanced(st, q, ks, ii, k) ==
    /\ q \in Sts
    /\ Below(st.longest, q.longest)
    /\ \A j \in ks : j =< k => q.longest[Dst(j)] >= st.longest[Src(j)] + Gap(j, ii)
    /\ q.updated = {} => q.longest = st.longest
    /\ q.updated # {} => Grows(st.longest, q.longest)
    /\ \A u \in Times : Meets(u, ks, ii) /\ Below(st.longest, u) => Below(q.longest, u)

LEMMA RelaxEdgeFacts ==
    ASSUME Wellformed, NEW ii \in Nat, NEW q \in Sts, NEW k \in AllEdges,
           NEW x, x = RelaxEdge(q, k, ii)
    PROVE  \/ x = q /\ q.longest[Dst(k)] >= q.longest[Src(k)] + Gap(k, ii)
           \/ /\ x \in Sts /\ x.updated # {}
              /\ q.longest[Dst(k)] < x.longest[Dst(k)]
              /\ x.longest[Dst(k)] = q.longest[Src(k)] + Gap(k, ii)
              /\ \A n \in Nodes : n # Dst(k) => x.longest[n] = q.longest[n]
<1> DEFINE c == q.longest[Src(k)] + Gap(k, ii)
           d == Dst(k)
           l == q.longest
           p == q.pred
<1>1. Gap(k, ii) \in Int /\ Src(k) \in Nodes /\ d \in Nodes BY GapTyped
<1>2. l \in Times /\ p \in [Nodes -> 0 .. Len(dfg.edges)] BY DEF Sts
<1>3. c \in Int /\ l[d] \in Nat BY <1>1, <1>2 DEF Times
<1>4. x = IF l[d] < c
          THEN [longest |-> [l EXCEPT ![d] = c], pred |-> [p EXCEPT ![d] = k],
                updated |-> {d}]
          ELSE q
  BY DEF RelaxEdge, Src, Dst, Gap
<1> HIDE DEF c, d, l, p
<1>5. CASE ~(l[d] < c)
  <2>1. l[d] >= c BY <1>3, <1>5
  <2> QED BY <2>1, <1>4, <1>5 DEF c, d, l
<1>6. CASE l[d] < c
  <2>1. c \in Nat BY <1>3, <1>6
  <2>2. [l EXCEPT ![d] = c] \in Times BY <2>1, <1>1, <1>2 DEF Times
  <2>3. [p EXCEPT ![d] = k] \in [Nodes -> 0 .. Len(dfg.edges)]
    <3>1. k \in 0 .. Len(dfg.edges) BY DEF AllEdges, Wellformed
    <3> QED BY <3>1, <1>1, <1>2
  <2>4. x = [longest |-> [l EXCEPT ![d] = c], pred |-> [p EXCEPT ![d] = k],
             updated |-> {d}]
    BY <1>4, <1>6
  <2>5. x \in Sts BY <2>2, <2>3, <2>4, <1>1 DEF Sts
  <2>6. x.updated # {} /\ x.longest = [l EXCEPT ![d] = c] BY <2>4
  <2>7. DOMAIN l = Nodes BY <1>2 DEF Times
  <2>8. x.longest[d] = c /\ \A n \in Nodes : n # d => x.longest[n] = l[n]
    BY <2>6, <2>7, <1>1
  <2> QED BY <2>5, <2>6, <2>8, <1>6 DEF c, d, l
<1> QED BY <1>5, <1>6

LEMMA AdvanceStep ==
    ASSUME Wellformed, NEW ii \in Nat, NEW ks \in SUBSET AllEdges, NEW st \in Sts,
           NEW k \in AllEdges, NEW q, Advanced(st, q, ks, ii, k - 1),
           NEW x, x = IF k \in ks THEN RelaxEdge(q, k, ii) ELSE q
    PROVE  Advanced(st, x, ks, ii, k)
<1>1. q \in Sts BY DEF Advanced
<1>2. k \in Nat /\ AllEdges \subseteq Nat BY DEF AllEdges, Wellformed
<1>3. \A j \in AllEdges : Src(j) \in Nodes /\ Dst(j) \in Nodes /\ Gap(j, ii) \in Int
  BY GapTyped
<1>4. /\ \A n \in Nodes : st.longest[n] \in Nat /\ q.longest[n] \in Nat
      /\ \A n \in Nodes : st.longest[n] =< q.longest[n]
  BY <1>1 DEF Sts, Times, Advanced, Below
<1>5. \A j \in ks : j =< k - 1 => q.longest[Dst(j)] >= st.longest[Src(j)] + Gap(j, ii)
  BY DEF Advanced
<1>6. CASE x = q /\ (k \in ks => q.longest[Dst(k)] >= q.longest[Src(k)] + Gap(k, ii))
  <2>1. ASSUME NEW j \in ks, j =< k
        PROVE  q.longest[Dst(j)] >= st.longest[Src(j)] + Gap(j, ii)
    <3>1. j \in AllEdges BY <2>1
    <3>2. j =< k - 1 \/ j = k BY <2>1, <3>1, <1>2
    <3>3. CASE j =< k - 1 BY <3>3, <1>5
    <3>4. CASE j = k
      <4>1. q.longest[Dst(j)] >= q.longest[Src(j)] + Gap(j, ii) BY <3>4, <1>6
      <4>2. Src(j) \in Nodes /\ Dst(j) \in Nodes /\ Gap(j, ii) \in Int BY <3>1, <1>3
      <4> DEFINE a == st.longest[Src(j)]
                 b == q.longest[Src(j)]
                 c == q.longest[Dst(j)]
                 g == Gap(j, ii)
      <4>3. a \in Nat /\ b \in Nat /\ c \in Nat /\ g \in Int /\ a =< b /\ c >= b + g
        BY <4>1, <4>2, <1>4
      <4> HIDE DEF a, b, c, g
      <4>4. c >= a + g BY <4>3
      <4> QED BY <4>4 DEF a, c, g
    <3> QED BY <3>2, <3>3, <3>4
  <2> QED BY <2>1, <1>6 DEF Advanced
<1>7. CASE /\ k \in ks /\ x \in Sts /\ x.updated # {}
           /\ q.longest[Dst(k)] < x.longest[Dst(k)]
           /\ x.longest[Dst(k)] = q.longest[Src(k)] + Gap(k, ii)
           /\ \A n \in Nodes : n # Dst(k) => x.longest[n] = q.longest[n]
  <2> DEFINE y == x.longest
             p == q.longest
             s == st.longest
  <2>1. Src(k) \in Nodes /\ Dst(k) \in Nodes /\ Gap(k, ii) \in Int BY <1>3
  <2>2. \A n \in Nodes : y[n] \in Nat BY <1>7 DEF Sts, Times
  <2>3. ASSUME NEW n \in Nodes PROVE p[n] =< y[n]
    <3>1. CASE n = Dst(k) BY <3>1, <1>7, <1>4, <2>2
    <3>2. CASE n # Dst(k) BY <3>2, <1>7, <1>4, <2>2
    <3> QED BY <3>1, <3>2
  <2>4. ASSUME NEW n \in Nodes PROVE s[n] =< y[n]
    <3>1. s[n] =< p[n] /\ p[n] =< y[n] /\ s[n] \in Nat /\ p[n] \in Nat /\ y[n] \in Nat
      BY <2>2, <2>3, <1>4
    <3> HIDE DEF s, p, y
    <3> QED BY <3>1
  <2>5. Grows(s, y)
    <3>1. s[Dst(k)] =< p[Dst(k)] /\ p[Dst(k)] < y[Dst(k)] BY <2>1, <1>4, <1>7
    <3>2. s[Dst(k)] \in Nat /\ p[Dst(k)] \in Nat /\ y[Dst(k)] \in Nat BY <2>1, <2>2, <1>4
    <3> HIDE DEF s, p, y
    <3>3. s[Dst(k)] < y[Dst(k)] BY <3>1, <3>2
    <3> QED BY <3>3, <2>1 DEF Grows
  <2>6. ASSUME NEW j \in ks, j =< k PROVE y[Dst(j)] >= s[Src(j)] + Gap(j, ii)
    <3>1. j \in AllEdges BY <2>6
    <3>2. Src(j) \in Nodes /\ Dst(j) \in Nodes /\ Gap(j, ii) \in Int BY <3>1, <1>3
    <3>3. j =< k - 1 \/ j = k BY <2>6, <3>1, <1>2
    <3> DEFINE a == s[Src(j)]
               b == p[Src(j)]
               c == p[Dst(j)]
               e == y[Dst(j)]
               g == Gap(j, ii)
    <3>4. /\ a \in Nat /\ b \in Nat /\ c \in Nat /\ e \in Nat /\ g \in Int
          /\ a =< b /\ c =< e
      BY <3>2, <1>4, <2>2, <2>3
    <3>5. CASE j =< k - 1
      <4>1. c >= a + g BY <3>5, <1>5
      <4> HIDE DEF a, b, c, e, g
      <4>2. e >= a + g BY <4>1, <3>4
      <4> QED BY <4>2 DEF a, e, g
    <3>6. CASE j = k
      <4>1. e = b + g BY <3>6, <1>7
      <4> HIDE DEF a, b, c, e, g
      <4>2. e >= a + g BY <4>1, <3>4
      <4> QED BY <4>2 DEF a, e, g
    <3> QED BY <3>3, <3>5, <3>6
  <2>7. ASSUME NEW u \in Times, Meets(u, ks, ii), Below(s, u) PROVE Below(y, u)
    <3>1. Below(p, u) BY <2>7 DEF Advanced
    <3>2. ASSUME NEW n \in Nodes PROVE y[n] =< u[n]
      <4>1. CASE n # Dst(k) BY <4>1, <3>1, <1>7 DEF Below
      <4>2. CASE n = Dst(k)
        <5> DEFINE a == p[Src(k)]
                   b == u[Src(k)]
                   c == u[Dst(k)]
                   e == y[Dst(k)]
                   g == Gap(k, ii)
        <5>1. a =< b BY <3>1, <2>1 DEF Below
        <5>2. c >= b + g BY <2>7, <1>7 DEF Meets
        <5>3. e = a + g BY <1>7
        <5>4. a \in Nat /\ b \in Nat /\ c \in Nat /\ e \in Nat /\ g \in Int
          BY <2>1, <2>2, <2>7, <1>4 DEF Times
        <5> HIDE DEF a, b, c, e, g
        <5>5. e =< c BY <5>1, <5>2, <5>3, <5>4
        <5> QED BY <5>5, <4>2 DEF e, c
      <4> QED BY <4>1, <4>2
    <3> QED BY <3>2 DEF Below
  <2>8. Below(s, y) BY <2>4 DEF Below
  <2> QED BY <1>7, <2>5, <2>6, <2>7, <2>8 DEF Advanced
<1>8. CASE k \in ks
  <2>1. x = RelaxEdge(q, k, ii) BY <1>8
  <2>2. \/ x = q /\ q.longest[Dst(k)] >= q.longest[Src(k)] + Gap(k, ii)
        \/ /\ x \in Sts /\ x.updated # {}
           /\ q.longest[Dst(k)] < x.longest[Dst(k)]
           /\ x.longest[Dst(k)] = q.longest[Src(k)] + Gap(k, ii)
           /\ \A n \in Nodes : n # Dst(k) => x.longest[n] = q.longest[n]
    BY <2>1, <1>1, RelaxEdgeFacts
  <2> QED BY <2>2, <1>6, <1>7, <1>8
<1>9. CASE k \notin ks BY <1>6, <1>9
<1> QED BY <1>8, <1>9

\* RelaxAll, edge by edge.
Passes(f, st, ks, ii) ==
    /\ f[0] = [st EXCEPT !.updated = {}]
    /\ \A k \in AllEdges :
          f[k] = IF k \in ks THEN RelaxEdge(f[k - 1], k, ii) ELSE f[k - 1]

LEMMA RelaxAllSteps ==
    ASSUME Wellformed, NEW ii \in Nat, NEW ks \in SUBSET AllEdges, NEW st \in Sts
    PROVE  \E f \in [0 .. Len(dfg.edges) -> Sts] :
              Passes(f, st, ks, ii) /\ RelaxAll(st, ks, ii) = f[Len(dfg.edges)]
<1> DEFINE m == Len(dfg.edges)
           first == [st EXCEPT !.updated = {}]
           pass[k \in 0 .. m] ==
               IF k = 0 THEN [st EXCEPT !.updated = {}]
               ELSE IF k \in ks THEN RelaxEdge(pass[k - 1], k, ii)
               ELSE pass[k - 1]
           One(q, k) == IF k \in ks THEN RelaxEdge(q, k, ii) ELSE q
           Body(f) == [k \in 0 .. m |-> IF k = 0 THEN first ELSE One(f[k - 1], k)]
           G == [z \in Nat \X Sts |-> IF z[1] \in 1 .. m THEN One(z[2], z[1]) ELSE z[2]]
<1>1. m \in Nat BY DEF Wellformed
<1>2. RelaxAll(st, ks, ii) = pass[m] BY DEF RelaxAll
<1>5. ASSUME NEW q \in Sts, NEW k \in 1 .. m PROVE One(q, k) \in Sts
  <2>1. k \in AllEdges BY DEF AllEdges
  <2>2. CASE k \in ks
    <3> DEFINE x == RelaxEdge(q, k, ii)
    <3>1. x = q \/ x \in Sts
      <4> HIDE DEF x
      <4> QED BY <2>1, RelaxEdgeFacts DEF x
    <3> QED BY <3>1, <2>2
  <2>3. CASE k \notin ks BY <2>3
  <2> QED BY <2>2, <2>3
<1>6. first \in Sts BY DEF Sts
<1>3. pass = Body(pass)
  <2> HIDE DEF One, first
  <2>3. G \in [Nat \X Sts -> Sts]
    <3> SUFFICES ASSUME NEW k \in Nat, NEW q \in Sts
                 PROVE  (IF k \in 1 .. m THEN One(q, k) ELSE q) \in Sts
      OBVIOUS
    <3> QED BY <1>5
  <2>4. PICK h \in [0 .. m -> Sts] : Iterates(h, first, G, m)
    <3> HIDE DEF G, pass, m
    <3> QED BY <1>1, <1>6, <2>3, RecursionExists, Zenon
  <2>5. h[0] = first /\ \A k \in 1 .. m : h[k] = G[<<k, h[k - 1]>>]
    <3> HIDE DEF G, pass
    <3> QED BY <2>4 DEF Iterates
  <2>6. ASSUME NEW k \in 1 .. m PROVE h[k] = One(h[k - 1], k)
    <3>1. k \in Nat /\ k - 1 \in 0 .. m BY <1>1
    <3>2. <<k, h[k - 1]>> \in Nat \X Sts BY <3>1, <2>4
    <3> QED BY <3>2, <2>5
  <2> HIDE DEF G
  <2>7. h = Body(h)
    <3>1. \A k \in 0 .. m : k = 0 \/ k \in 1 .. m BY <1>1
    <3> QED BY <3>1, <2>4, <2>5, <2>6
  <2>8. h = [k \in 0 .. m |-> IF k = 0 THEN [st EXCEPT !.updated = {}]
                              ELSE IF k \in ks THEN RelaxEdge(h[k - 1], k, ii)
                              ELSE h[k - 1]]
    BY <2>7 DEF One, first
  <2>9. pass = [k \in 0 .. m |-> IF k = 0 THEN [st EXCEPT !.updated = {}]
                                 ELSE IF k \in ks THEN RelaxEdge(pass[k - 1], k, ii)
                                 ELSE pass[k - 1]]
    BY <2>8
  <2> HIDE DEF pass
  <2> QED BY <2>9 DEF One, first
<1> HIDE DEF pass, first, One
<1>4. pass[0] = first /\ \A k \in 1 .. m : pass[k] = One(pass[k - 1], k)
  <2>1. \A k \in 0 .. m : pass[k] = IF k = 0 THEN first ELSE One(pass[k - 1], k)
    BY <1>3, Zenon
  <2>2. 0 \in 0 .. m /\ \A k \in 1 .. m : k \in 0 .. m /\ k # 0 BY <1>1
  <2> QED BY <2>1, <2>2, Zenon
<1> HIDE DEF G
<1>7. pass = [k \in 0 .. m |-> pass[k]]
  <2>1. DOMAIN Body(pass) = 0 .. m OBVIOUS
  <2> QED BY <2>1, <1>3
<1> HIDE DEF Body
<1> DEFINE T == {k \in 0 .. m : pass[k] \in Sts}
<1>8. 0 \in T BY <1>1, <1>4, <1>6
<1>9. ASSUME NEW k \in 1 .. m, k - 1 \in T PROVE k \in T
  <2>1. k \in 0 .. m BY <1>1
  <2> QED BY <2>1, <1>4, <1>5, <1>9
<1>10. \A k \in 0 .. m : k \in T
  <2> HIDE DEF T, m
  <2>1. \A k \in 1 .. m : k - 1 \in T => k \in T BY <1>9
  <2> QED BY <1>1, <1>8, <2>1, Climb
<1>11. pass \in [0 .. m -> Sts]
  <2>1. \A k \in 0 .. m : pass[k] \in Sts BY <1>10
  <2> QED BY <2>1, <1>7
<1>12. Passes(pass, st, ks, ii)
  <2>1. \A k \in 1 .. m : pass[k] = IF k \in ks THEN RelaxEdge(pass[k - 1], k, ii)
                                    ELSE pass[k - 1]
    BY <1>4 DEF One
  <2> QED BY <2>1, <1>4 DEF Passes, AllEdges, first
<1> QED BY <1>2, <1>11, <1>12

LEMMA RelaxAllFacts ==
    ASSUME Wellformed, NEW ii \in Nat, NEW ks \in SUBSET AllEdges, NEW st \in Sts
    PROVE  Advanced(st, RelaxAll(st, ks, ii), ks, ii, Len(dfg.edges))
<1> DEFINE m == Len(dfg.edges)
           first == [st EXCEPT !.updated = {}]
<1>1. m \in Nat BY DEF Wellformed
<1>2. PICK pass \in [0 .. m -> Sts] :
         Passes(pass, st, ks, ii) /\ RelaxAll(st, ks, ii) = pass[m]
  BY RelaxAllSteps
<1>4. /\ pass[0] = first
      /\ \A k \in AllEdges :
            pass[k] = IF k \in ks THEN RelaxEdge(pass[k - 1], k, ii) ELSE pass[k - 1]
  BY <1>2 DEF Passes
<1> HIDE DEF first
<1> DEFINE T == {k \in 0 .. m : Advanced(st, pass[k], ks, ii, k)}
<1>5. 0 \in T
  <2>1. first \in Sts /\ first.longest = st.longest /\ first.updated = {}
    BY DEF first, Sts
  <2>2. Below(st.longest, st.longest) BY DEF Below, Sts, Times
  <2>3. \A j \in ks : ~(j =< 0) BY DEF AllEdges
  <2>4. Advanced(st, first, ks, ii, 0) BY <2>1, <2>2, <2>3 DEF Advanced
  <2> QED BY <2>4, <1>1, <1>4
<1>6. ASSUME NEW k \in 1 .. m, k - 1 \in T PROVE k \in T
  <2>1. k \in AllEdges BY DEF AllEdges
  <2>2. Advanced(st, pass[k - 1], ks, ii, k - 1) BY <1>6
  <2>3. pass[k] = IF k \in ks THEN RelaxEdge(pass[k - 1], k, ii) ELSE pass[k - 1]
    BY <1>4, <2>1
  <2>4. Advanced(st, pass[k], ks, ii, k) BY <2>1, <2>2, <2>3, AdvanceStep
  <2>5. k \in 0 .. m BY <1>1
  <2> QED BY <2>4, <2>5
<1>7. m \in T
  <2> HIDE DEF T, m
  <2>1. \A k \in 1 .. m : k - 1 \in T => k \in T BY <1>6
  <2>2. m \in 0 .. m BY <1>1
  <2> QED BY <1>1, <1>5, <2>1, <2>2, Climb
<1> QED BY <1>2, <1>7

\* What a round leaves: the constraints hold for the times it began with.
Rounded(st, q, ks, ii) ==
    /\ q \in Sts
    /\ Below(st.longest, q.longest)
    /\ \A j \in ks : q.longest[Dst(j)] >= st.longest[Src(j)] + Gap(j, ii)
    /\ q.updated = {} => q.longest = st.longest
    /\ q.updated # {} => Grows(st.longest, q.longest)
    /\ \A u \in Times : Meets(u, ks, ii) /\ Below(st.longest, u) => Below(q.longest, u)

LEMMA RoundFacts ==
    ASSUME Wellformed, NEW ii \in Nat, NEW ks \in SUBSET AllEdges, NEW st \in Sts
    PROVE  Rounded(st, RelaxAll(st, ks, ii), ks, ii)
<1>1. \A j \in ks : j =< Len(dfg.edges) BY DEF AllEdges
<1> QED BY <1>1, RelaxAllFacts DEF Advanced, Rounded

\* evaluate, round by round, and what the rounds leave.
RoundSteps(h, ks, ii) ==
    /\ h[0] = Unrelaxed
    /\ \A r \in 1 .. Len(dfg.op) : h[r] = NextRound(h[r - 1], r, ks, ii)

Rounds(h, ks, ii) ==
    /\ h[0] = Unrelaxed
    /\ \A r \in 1 .. Len(dfg.op) :
          \/ r > 1 /\ h[r - 1].updated = {} /\ h[r] = h[r - 1]
          \/ Rounded(h[r - 1], h[r], ks, ii)

LEMMA EvaluateFacts ==
    ASSUME Wellformed, NEW ii \in Nat, NEW ks \in SUBSET AllEdges
    PROVE  \E h \in [0 .. Len(dfg.op) -> Sts] :
              /\ RoundSteps(h, ks, ii) /\ Rounds(h, ks, ii)
              /\ evaluate(ks, ii) = h[Len(dfg.op)]
<1> DEFINE m == Len(dfg.op)
           round[r \in 0 .. m] ==
               IF r = 0 THEN Unrelaxed ELSE NextRound(round[r - 1], r, ks, ii)
           One(q, r) == NextRound(q, r, ks, ii)
           Body(f) == [r \in 0 .. m |-> IF r = 0 THEN Unrelaxed ELSE One(f[r - 1], r)]
           G == [z \in Nat \X Sts |-> One(z[2], z[1])]
<1>1. m \in Nat BY DEF Wellformed
<1>2. evaluate(ks, ii) = round[m] BY DEF evaluate
<1>3. ASSUME NEW q \in Sts, NEW r \in Nat
      PROVE  /\ One(q, r) \in Sts
             /\ \/ r > 1 /\ q.updated = {} /\ One(q, r) = q
                \/ Rounded(q, One(q, r), ks, ii)
  <2>1. Rounded(q, RelaxAll(q, ks, ii), ks, ii) BY RoundFacts
  <2>2. RelaxAll(q, ks, ii) \in Sts BY <2>1 DEF Rounded
  <2>3. One(q, r) = IF r > 1 /\ q.updated = {} THEN q ELSE RelaxAll(q, ks, ii)
    BY DEF NextRound
  <2> HIDE DEF One
  <2> QED BY <2>1, <2>2, <2>3
<1>4. Unrelaxed \in Sts
  <2>1. [n \in Nodes |-> 0] \in Times BY DEF Times
  <2>2. 0 \in 0 .. Len(dfg.edges) BY DEF Wellformed
  <2> QED BY <2>1, <2>2 DEF Unrelaxed, Sts
<1> HIDE DEF One
<1>5. G \in [Nat \X Sts -> Sts] BY <1>3
<1>6. PICK h \in [0 .. m -> Sts] : Iterates(h, Unrelaxed, G, m)
  <2> HIDE DEF G, round, m
  <2> QED BY <1>1, <1>4, <1>5, RecursionExists, Zenon
<1>7. h[0] = Unrelaxed /\ \A k \in 1 .. m : h[k] = G[<<k, h[k - 1]>>]
  <2> HIDE DEF G, round
  <2> QED BY <1>6 DEF Iterates
<1>8. ASSUME NEW r \in 1 .. m PROVE h[r] = One(h[r - 1], r) /\ r \in Nat /\ h[r - 1] \in Sts
  <2>1. r \in Nat /\ r - 1 \in 0 .. m BY <1>1
  <2>2. <<r, h[r - 1]>> \in Nat \X Sts BY <2>1, <1>6
  <2> QED BY <2>1, <2>2, <1>6, <1>7
<1> HIDE DEF G
<1>9. h = Body(h)
  <2>1. \A k \in 0 .. m : k = 0 \/ k \in 1 .. m BY <1>1
  <2> QED BY <2>1, <1>6, <1>7, <1>8
<1>10. round = Body(round)
  <2>1. h = [r \in 0 .. m |-> IF r = 0 THEN Unrelaxed ELSE NextRound(h[r - 1], r, ks, ii)]
    BY <1>9 DEF One
  <2>2. round = [r \in 0 .. m |->
                   IF r = 0 THEN Unrelaxed ELSE NextRound(round[r - 1], r, ks, ii)]
    BY <2>1
  <2> HIDE DEF round
  <2> QED BY <2>2 DEF One
<1> HIDE DEF round
<1>11. round[0] = Unrelaxed /\ \A r \in 1 .. m : round[r] = One(round[r - 1], r)
  <2>1. \A k \in 0 .. m : round[k] = IF k = 0 THEN Unrelaxed ELSE One(round[k - 1], k)
    BY <1>10, Zenon
  <2>2. 0 \in 0 .. m /\ \A k \in 1 .. m : k \in 0 .. m /\ k # 0 BY <1>1
  <2> QED BY <2>1, <2>2, Zenon
<1>12. DOMAIN round = 0 .. m BY <1>10
<1> HIDE DEF Body
<1> DEFINE T == {r \in 0 .. m : round[r] = h[r]}
<1>13. 0 \in T BY <1>1, <1>7, <1>11
<1>14. ASSUME NEW r \in 1 .. m, r - 1 \in T PROVE r \in T
  <2>1. r \in 0 .. m BY <1>1
  <2> QED BY <2>1, <1>8, <1>11, <1>14
<1>15. m \in T
  <2> HIDE DEF T, m
  <2>1. \A k \in 1 .. m : k - 1 \in T => k \in T BY <1>14
  <2>2. m \in 0 .. m BY <1>1
  <2> QED BY <1>1, <1>13, <2>1, <2>2, Climb
<1>16. evaluate(ks, ii) = h[m] BY <1>2, <1>15
<1>17. Rounds(h, ks, ii)
  <2>1. ASSUME NEW r \in 1 .. m
        PROVE  \/ r > 1 /\ h[r - 1].updated = {} /\ h[r] = h[r - 1]
               \/ Rounded(h[r - 1], h[r], ks, ii)
    BY <1>3, <1>8
  <2> QED BY <2>1, <1>7 DEF Rounds
<1>18. RoundSteps(h, ks, ii)
  <2>1. \A r \in 1 .. m : h[r] = NextRound(h[r - 1], r, ks, ii) BY <1>8 DEF One
  <2> QED BY <2>1, <1>7 DEF RoundSteps
<1> QED BY <1>6, <1>16, <1>17, <1>18

-----------------------------------------------------------------------------
(* Recurrences: the least times                                            *)

Least(l, ks, ii) ==
    Meets(l, ks, ii) /\ \A u \in Times : Meets(u, ks, ii) => Below(l, u)

\* If the constraints can be met at all, they have pointwise least times.
LEMMA LeastTimes ==
    ASSUME Wellformed, NEW ii \in Nat, NEW ks \in SUBSET AllEdges,
           NEW t \in Times, Meets(t, ks, ii)
    PROVE  \E l \in Times : Least(l, ks, ii)
<1> DEFINE M == {u \in Times : Meets(u, ks, ii)}
           At(n) == {u[n] : u \in M}
           l == [n \in Nodes |-> Min(At(n))]
<1>1. t \in M OBVIOUS
<1>2. \A u \in M : u \in Times /\ Meets(u, ks, ii) OBVIOUS
<1> HIDE DEF M
<1>3. ASSUME NEW n \in Nodes
      PROVE  /\ l[n] \in Nat
             /\ \E u \in M : l[n] = u[n]
             /\ \A u \in M : l[n] =< u[n]
  <2>1. At(n) \in SUBSET Nat /\ At(n) # {} BY <1>1, <1>2 DEF Times
  <2>2. \A u \in M : u[n] \in At(n) OBVIOUS
  <2>3. \A x \in At(n) : \E u \in M : x = u[n] OBVIOUS
  <2> HIDE DEF At
  <2>4. Min(At(n)) \in At(n) /\ \A y \in At(n) : Min(At(n)) =< y BY <2>1, MinIsMember
  <2>5. l[n] = Min(At(n)) OBVIOUS
  <2> HIDE DEF l
  <2> QED BY <2>1, <2>2, <2>3, <2>4, <2>5
<1>4. l \in Times BY <1>3 DEF Times
<1> HIDE DEF l, At
<1>5. ASSUME NEW k \in ks PROVE l[Dst(k)] >= l[Src(k)] + Gap(k, ii)
  <2>1. Gap(k, ii) \in Int /\ Src(k) \in Nodes /\ Dst(k) \in Nodes BY GapTyped
  <2>2. PICK u \in M : l[Dst(k)] = u[Dst(k)] BY <2>1, <1>3
  <2>3. u[Dst(k)] >= u[Src(k)] + Gap(k, ii) BY <2>2, <1>2 DEF Meets
  <2>4. l[Src(k)] =< u[Src(k)] BY <2>1, <2>2, <1>3
  <2>5. l[Src(k)] \in Nat /\ u[Src(k)] \in Nat /\ u[Dst(k)] \in Nat
    BY <2>1, <2>2, <1>2, <1>4 DEF Times
  <2> QED BY <2>1, <2>2, <2>3, <2>4, <2>5
<1>6. ASSUME NEW u \in Times, Meets(u, ks, ii) PROVE Below(l, u)
  <2>1. u \in M BY <1>6 DEF M
  <2> QED BY <2>1, <1>3 DEF Below
<1> QED BY <1>4, <1>5, <1>6 DEF Least, Meets

\* A set of nodes that all have to wait is entered by a constraint that is just
\* met: otherwise all of them could be earlier.
LEMMA TightEdge ==
    ASSUME Wellformed, NEW ii \in Nat, NEW ks \in SUBSET AllEdges,
           NEW l \in Times, Least(l, ks, ii),
           NEW A \in SUBSET Nodes, A # {}, \A n \in A : l[n] > 0
    PROVE  \E k \in ks : Dst(k) \in A /\ Src(k) \notin A /\ l[Dst(k)] = l[Src(k)] + Gap(k, ii)
<1> DEFINE u == [n \in Nodes |-> IF n \in A THEN l[n] - 1 ELSE l[n]]
<1>1. \A n \in Nodes : l[n] \in Nat BY DEF Times
<1>2. u \in Times BY <1>1 DEF Times
<1>3. \A n \in Nodes : u[n] = IF n \in A THEN l[n] - 1 ELSE l[n] OBVIOUS
<1> HIDE DEF u
<1>4. ~Below(l, u)
  <2>1. PICK n \in A : TRUE OBVIOUS
  <2>2. n \in Nodes /\ u[n] = l[n] - 1 BY <2>1, <1>3
  <2> QED BY <2>2, <1>1 DEF Below
<1>5. ~Meets(u, ks, ii) BY <1>2, <1>4 DEF Least
<1>6. PICK k \in ks : ~(u[Dst(k)] >= u[Src(k)] + Gap(k, ii)) BY <1>5 DEF Meets
<1>7. Gap(k, ii) \in Int /\ Src(k) \in Nodes /\ Dst(k) \in Nodes BY GapTyped
<1>8. l[Dst(k)] >= l[Src(k)] + Gap(k, ii) BY DEF Least, Meets
<1> DEFINE s == Src(k)
           d == Dst(k)
           g == Gap(k, ii)
<1>9. /\ g \in Int /\ l[s] \in Nat /\ l[d] \in Nat /\ l[d] >= l[s] + g
      /\ ~(u[d] >= u[s] + g)
      /\ u[s] = (IF s \in A THEN l[s] - 1 ELSE l[s])
      /\ u[d] = (IF d \in A THEN l[d] - 1 ELSE l[d])
  BY <1>1, <1>3, <1>6, <1>7, <1>8
<1> HIDE DEF s, d, g
<1>10. d \in A /\ s \notin A /\ l[d] = l[s] + g BY <1>9
<1> QED BY <1>10 DEF s, d, g

Settled(q, l) == {n \in Nodes : q.longest[n] = l[n]}

\* One more round settles one more node, and a round without an update is the
\* last that is needed.
Settling(q, l, ks, r) ==
    /\ Below(q.longest, l)
    /\ r >= 1 /\ q.updated = {} => Settled(q, l) = Nodes
    /\ Settled(q, l) = Nodes \/ Cardinality(Settled(q, l)) >= r + 1

LEMMA SettledFinite ==
    ASSUME Wellformed, NEW q, NEW l
    PROVE  /\ IsFiniteSet(Settled(q, l)) /\ Cardinality(Settled(q, l)) \in Nat
           /\ IsFiniteSet(Nodes) /\ Cardinality(Nodes) = Len(dfg.op)
           /\ Cardinality(Settled(q, l)) >= Len(dfg.op) => Settled(q, l) = Nodes
<1>1. Len(dfg.op) \in Nat BY DEF Wellformed
<1>2. IsFiniteSet(Nodes) /\ Cardinality(Nodes) = Len(dfg.op)
  <2> DEFINE m == Len(dfg.op)
  <2>1. 1 \in Int /\ m \in Int BY <1>1
  <2>2. IsFiniteSet(1 .. m) /\ Cardinality(1 .. m) = IF 1 > m THEN 0 ELSE m - 1 + 1
    <3> HIDE DEF m
    <3> QED BY <2>1, FS_Interval
  <2> QED BY <2>2, <1>1 DEF Nodes
<1> DEFINE S == Settled(q, l)
<1>3. S \in SUBSET Nodes BY DEF Settled
<1> HIDE DEF S
<1>4. /\ IsFiniteSet(S) /\ Cardinality(S) =< Cardinality(Nodes)
      /\ Cardinality(Nodes) = Cardinality(S) => Nodes = S
  BY <1>2, <1>3, FS_Subset
<1>5. Cardinality(S) \in Nat BY <1>4, FS_CardinalityType
<1>6. Cardinality(S) >= Len(dfg.op) => S = Nodes BY <1>1, <1>2, <1>4, <1>5
<1> QED BY <1>2, <1>4, <1>5, <1>6 DEF S

LEMMA SettlingStart ==
    ASSUME Wellformed, NEW ii \in Nat, NEW ks \in SUBSET AllEdges,
           NEW l \in Times, Least(l, ks, ii), Nodes # {}
    PROVE  Settling(Unrelaxed, l, ks, 0)
<1>1. \A n \in Nodes : Unrelaxed.longest[n] = 0 BY DEF Unrelaxed
<1>2. \A n \in Nodes : l[n] \in Nat BY DEF Times
<1>3. Below(Unrelaxed.longest, l) BY <1>1, <1>2 DEF Below
<1>4. Settled(Unrelaxed, l) # {}
  <2> SUFFICES ASSUME Settled(Unrelaxed, l) = {} PROVE FALSE OBVIOUS
  <2>1. ASSUME NEW n \in Nodes PROVE l[n] > 0
    <3>1. l[n] # 0 BY <1>1 DEF Settled
    <3> QED BY <3>1, <1>2
  <2>2. PICK k \in ks : Src(k) \notin Nodes BY <2>1, TightEdge
  <2>3. k \in AllEdges OBVIOUS
  <2> QED BY <2>2, <2>3, GapTyped
<1>5. IsFiniteSet(Settled(Unrelaxed, l)) /\ Cardinality(Settled(Unrelaxed, l)) \in Nat
  BY SettledFinite
<1>6. Cardinality(Settled(Unrelaxed, l)) # 0 BY <1>4, <1>5, FS_EmptySet
<1>7. Cardinality(Settled(Unrelaxed, l)) >= 0 + 1 BY <1>5, <1>6
<1> QED BY <1>3, <1>7 DEF Settling

LEMMA SettlingRound ==
    ASSUME Wellformed, NEW ii \in Nat, NEW ks \in SUBSET AllEdges,
           NEW l \in Times, Least(l, ks, ii), NEW r \in Nat \ {0},
           NEW p \in Sts, Settling(p, l, ks, r - 1),
           NEW q, Rounded(p, q, ks, ii)
    PROVE  Settling(q, l, ks, r)
<1>1. Below(p.longest, l) /\ Meets(l, ks, ii) BY DEF Settling, Least
<1>2. Below(q.longest, l) BY <1>1 DEF Rounded
<1>3. Below(p.longest, q.longest) /\ q \in Sts BY DEF Rounded
<1>4. \A n \in Nodes : p.longest[n] \in Nat /\ q.longest[n] \in Nat /\ l[n] \in Nat
  BY <1>3 DEF Sts, Times
<1>5. Settled(p, l) \subseteq Settled(q, l)
  <2> SUFFICES ASSUME NEW n \in Nodes, p.longest[n] = l[n] PROVE q.longest[n] = l[n]
    BY DEF Settled
  <2>1. q.longest[n] =< l[n] /\ p.longest[n] =< q.longest[n] BY <1>2, <1>3 DEF Below
  <2> QED BY <2>1, <1>4
<1>6. ASSUME q.updated = {} PROVE Settled(q, l) = Nodes
  <2>1. q.longest = p.longest BY <1>6 DEF Rounded
  <2>2. Meets(q.longest, ks, ii) BY <2>1 DEF Rounded, Meets
  <2>3. q.longest \in Times BY <1>3 DEF Sts
  <2>4. Below(l, q.longest) BY <2>2, <2>3 DEF Least
  <2>5. ASSUME NEW n \in Nodes PROVE q.longest[n] = l[n]
    <3>1. q.longest[n] =< l[n] /\ l[n] =< q.longest[n] BY <1>2, <2>4 DEF Below
    <3> QED BY <3>1, <1>4
  <2> QED BY <2>5 DEF Settled
<1>7. Settled(q, l) = Nodes \/ Cardinality(Settled(q, l)) >= r + 1
  <2>1. CASE Settled(p, l) = Nodes
    <3>1. Settled(q, l) \subseteq Nodes BY DEF Settled
    <3> QED BY <2>1, <3>1, <1>5
  <2>2. CASE Settled(p, l) # Nodes
    <3> DEFINE A == Nodes \ Settled(p, l)
    <3>1. A \in SUBSET Nodes /\ A # {} BY <2>2 DEF Settled
    <3>2. ASSUME NEW n \in A PROVE l[n] > 0
      <4>1. p.longest[n] # l[n] /\ p.longest[n] =< l[n] BY <1>1 DEF Settled, Below
      <4> QED BY <4>1, <1>4
    <3> HIDE DEF A
    <3>3. PICK k \in ks : /\ Dst(k) \in A /\ Src(k) \notin A
                          /\ l[Dst(k)] = l[Src(k)] + Gap(k, ii)
      BY <3>1, <3>2, TightEdge
    <3>4. Gap(k, ii) \in Int /\ Src(k) \in Nodes /\ Dst(k) \in Nodes BY GapTyped
    <3>5. Src(k) \in Settled(p, l) /\ Dst(k) \notin Settled(p, l) BY <3>3, <3>4 DEF A
    <3>6. p.longest[Src(k)] = l[Src(k)] BY <3>5 DEF Settled
    <3>7. q.longest[Dst(k)] >= p.longest[Src(k)] + Gap(k, ii) BY DEF Rounded
    <3>8. q.longest[Dst(k)] =< l[Dst(k)] BY <1>2, <3>4 DEF Below
    <3>9. q.longest[Dst(k)] = l[Dst(k)]
      BY <3>3, <3>4, <3>6, <3>7, <3>8, <1>4
    <3>10. Dst(k) \in Settled(q, l) BY <3>4, <3>9 DEF Settled
    <3> DEFINE S == Settled(p, l)
               R == Settled(q, l)
               d == Dst(k)
    <3>11. IsFiniteSet(S) /\ Cardinality(S) \in Nat BY SettledFinite
    <3>12. IsFiniteSet(R) /\ Cardinality(R) \in Nat BY SettledFinite
    <3>13. S \cup {d} \in SUBSET R /\ d \notin S BY <3>5, <3>10, <1>5
    <3>14. Cardinality(S) >= (r - 1) + 1 BY <2>2 DEF Settling
    <3> HIDE DEF S, R, d
    <3>15. IsFiniteSet(S \cup {d}) /\ Cardinality(S \cup {d}) = Cardinality(S) + 1
      BY <3>11, <3>13, FS_AddElement
    <3>16. Cardinality(S \cup {d}) =< Cardinality(R) BY <3>12, <3>13, FS_Subset
    <3>17. Cardinality(R) >= r + 1 BY <3>11, <3>12, <3>14, <3>15, <3>16
    <3> QED BY <3>17 DEF R
  <2> QED BY <2>1, <2>2
<1> QED BY <1>2, <1>6, <1>7 DEF Settling

\* evaluate accepts whatever can be met: as many rounds as nodes are enough.
LEMMA EvaluateAccepts ==
    ASSUME Wellformed, NEW ii \in Nat, NEW ks \in SUBSET AllEdges, Nodes # {},
           NEW t \in Times, Meets(t, ks, ii)
    PROVE  Feasible(ks, ii)
<1> DEFINE m == Len(dfg.op)
<1>1. m \in Nat \ {0} BY DEF Wellformed, Nodes
<1>2. PICK l \in Times : Least(l, ks, ii) BY LeastTimes
<1>3. PICK h \in [0 .. Len(dfg.op) -> Sts] :
         Rounds(h, ks, ii) /\ evaluate(ks, ii) = h[Len(dfg.op)]
  BY EvaluateFacts
<1>4. /\ h[0] = Unrelaxed
      /\ \A r \in 1 .. m : \/ r > 1 /\ h[r - 1].updated = {} /\ h[r] = h[r - 1]
                           \/ Rounded(h[r - 1], h[r], ks, ii)
  BY <1>3 DEF Rounds
<1>5. \A r \in 0 .. m : h[r] \in Sts BY <1>3
<1> DEFINE T == {r \in 0 .. m : Settling(h[r], l, ks, r)}
<1>6. 0 \in T
  <2>1. Settling(Unrelaxed, l, ks, 0) BY <1>2, SettlingStart
  <2>2. 0 \in 0 .. m BY <1>1
  <2> QED BY <2>1, <2>2, <1>4
<1>7. ASSUME NEW r \in 1 .. m, r - 1 \in T PROVE r \in T
  <2>1. r \in Nat \ {0} /\ r \in 0 .. m /\ r - 1 \in 0 .. m BY <1>1
  <2>2. Settling(h[r - 1], l, ks, r - 1) /\ h[r - 1] \in Sts BY <1>5, <1>7, <2>1
  <2>3. CASE r > 1 /\ h[r - 1].updated = {} /\ h[r] = h[r - 1]
    <3>1. r - 1 >= 1 BY <2>1, <2>3
    <3>2. Settled(h[r], l) = Nodes /\ Below(h[r].longest, l) BY <2>2, <2>3, <3>1 DEF Settling
    <3> QED BY <3>2, <2>1 DEF Settling
  <2>4. CASE Rounded(h[r - 1], h[r], ks, ii)
    <3>1. Settling(h[r], l, ks, r) BY <2>1, <2>2, <2>4, <1>2, SettlingRound
    <3> QED BY <3>1, <2>1
  <2> QED BY <2>3, <2>4, <1>4
<1>8. m - 1 \in T
  <2> HIDE DEF T, m
  <2>1. \A k \in 1 .. m : k - 1 \in T => k \in T BY <1>7
  <2>2. m - 1 \in 0 .. m BY <1>1
  <2>3. m \in Nat BY <1>1
  <2> QED BY <2>3, <1>6, <2>1, <2>2, Climb
<1>9. Settled(h[m - 1], l) = Nodes /\ Below(h[m - 1].longest, l)
  <2>1. Settling(h[m - 1], l, ks, m - 1) BY <1>8
  <2>2. CASE Cardinality(Settled(h[m - 1], l)) >= (m - 1) + 1
    <3>1. Cardinality(Settled(h[m - 1], l)) \in Nat BY SettledFinite
    <3>2. Cardinality(Settled(h[m - 1], l)) >= m BY <2>2, <3>1, <1>1
    <3>3. Settled(h[m - 1], l) = Nodes BY <3>2, SettledFinite
    <3> QED BY <3>3, <2>1 DEF Settling
  <2> QED BY <2>1, <2>2 DEF Settling
<1>10. h[m].updated = {}
  <2>1. m \in 1 .. m /\ m - 1 \in 0 .. m /\ m \in 0 .. m BY <1>1
  <2>2. CASE h[m - 1].updated = {} /\ h[m] = h[m - 1] BY <2>2
  <2>3. CASE Rounded(h[m - 1], h[m], ks, ii)
    <3> SUFFICES ASSUME h[m].updated # {} PROVE FALSE OBVIOUS
    <3>1. Grows(h[m - 1].longest, h[m].longest) BY <2>3 DEF Rounded
    <3>2. PICK n \in Nodes : h[m - 1].longest[n] < h[m].longest[n] BY <3>1 DEF Grows
    <3>3. Below(h[m].longest, l) BY <2>3, <1>2, <1>9 DEF Rounded, Least
    <3>4. h[m].longest[n] =< l[n] BY <3>3 DEF Below
    <3>5. h[m - 1].longest[n] = l[n] BY <1>9 DEF Settled
    <3>6. l[n] \in Nat /\ h[m].longest[n] \in Nat BY <1>5, <2>1 DEF Sts, Times
    <3> QED BY <3>2, <3>4, <3>5, <3>6
  <2> QED BY <2>1, <2>2, <2>3, <1>4
<1> QED BY <1>3, <1>10 DEF Feasible

\* evaluate accepts nothing else.
LEMMA EvaluateRejects ==
    ASSUME Wellformed, NEW ii \in Nat, NEW ks \in SUBSET AllEdges, Nodes # {},
           Feasible(ks, ii)
    PROVE  \E t \in Times : Meets(t, ks, ii)
<1> DEFINE m == Len(dfg.op)
<1>1. m \in Nat \ {0} BY DEF Wellformed, Nodes
<1>3. PICK h \in [0 .. Len(dfg.op) -> Sts] :
         Rounds(h, ks, ii) /\ evaluate(ks, ii) = h[Len(dfg.op)]
  BY EvaluateFacts
<1>4. \A r \in 1 .. m : \/ r > 1 /\ h[r - 1].updated = {} /\ h[r] = h[r - 1]
                        \/ Rounded(h[r - 1], h[r], ks, ii)
  BY <1>3 DEF Rounds
<1>5. \A r \in 0 .. m : h[r] \in Sts BY <1>3
<1> DEFINE T == {r \in 0 .. m : r # 0 /\ h[r].updated = {} => Meets(h[r].longest, ks, ii)}
<1>6. 0 \in T BY <1>1
<1>7. ASSUME NEW r \in 1 .. m, r - 1 \in T PROVE r \in T
  <2>1. r \in Nat \ {0} /\ r \in 0 .. m BY <1>1
  <2>2. CASE r > 1 /\ h[r - 1].updated = {} /\ h[r] = h[r - 1]
    <3>1. r - 1 # 0 BY <2>1, <2>2
    <3>2. Meets(h[r - 1].longest, ks, ii) BY <3>1, <2>2, <1>7
    <3> QED BY <3>2, <2>1, <2>2
  <2>3. CASE Rounded(h[r - 1], h[r], ks, ii)
    <3>1. h[r].updated = {} => Meets(h[r].longest, ks, ii) BY <2>3 DEF Rounded, Meets
    <3> QED BY <3>1, <2>1
  <2> QED BY <2>2, <2>3, <1>4
<1>8. m \in T
  <2> HIDE DEF T, m
  <2>1. \A k \in 1 .. m : k - 1 \in T => k \in T BY <1>7
  <2>2. m \in 0 .. m /\ m \in Nat BY <1>1
  <2> QED BY <1>6, <2>1, <2>2, Climb
<1>9. h[m].updated = {} BY <1>3 DEF Feasible
<1>10. Meets(h[m].longest, ks, ii) BY <1>1, <1>8, <1>9
<1>11. h[m].longest \in Times BY <1>1, <1>5 DEF Sts
<1> QED BY <1>10, <1>11

\* The least times are no later than the separations of the constraints add up to:
\* every time up to the latest is crossed by a constraint that is just met.
LEMMA LeastIsShort ==
    ASSUME Wellformed, NEW ii \in Nat, NEW ks \in SUBSET AllEdges,
           NEW l \in Times, Least(l, ks, ii), NEW n \in Nodes
    PROVE  /\ SumOf(Separation, ks, Len(dfg.edges)) \in Nat
           /\ l[n] =< SumOf(Separation, ks, Len(dfg.edges))
<1> DEFINE m == Len(dfg.edges)
           P == UnitsOf(Separation, ks, m)
           v == l[n]
           Crossed(x, k) == l[Src(k)] < x /\ x =< l[Src(k)] + Gap(k, ii)
           e == [x \in 1 .. v |-> CHOOSE k \in ks : Crossed(x, k)]
           f == [x \in 1 .. v |-> <<e[x], x - l[Src(e[x])] - 1>>]
<1>1. m \in Nat /\ \A k \in 1 .. m : Separation[k] \in Nat BY DEF Wellformed, Separation, AllEdges
<1>2. Counted(Separation, ks, m) BY <1>1, SumCounts
<1>3. /\ IsFiniteSet(P) /\ SumOf(Separation, ks, m) \in Nat
      /\ Cardinality(P) = SumOf(Separation, ks, m)
  BY <1>2 DEF Counted
<1>4. \A q \in Nodes : l[q] \in Nat BY DEF Times
<1>5. v \in Nat BY <1>4
<1> HIDE DEF v
<1>6. ASSUME NEW x \in 1 .. v PROVE \E k \in ks : Crossed(x, k)
  <2> DEFINE A == {q \in Nodes : l[q] >= x}
  <2>1. x \in Nat /\ x >= 1 /\ x =< v BY <1>5
  <2>2. n \in A BY <2>1, <1>4 DEF v
  <2>3. A \in SUBSET Nodes /\ \A q \in A : l[q] > 0 BY <2>1, <1>4
  <2>4. \A q \in Nodes : q \notin A => l[q] < x BY <2>1, <1>4
  <2>5. \A q \in A : l[q] >= x OBVIOUS
  <2> HIDE DEF A
  <2>6. PICK k \in ks : Dst(k) \in A /\ Src(k) \notin A /\ l[Dst(k)] = l[Src(k)] + Gap(k, ii)
    BY <2>2, <2>3, TightEdge
  <2>7. Src(k) \in Nodes /\ Gap(k, ii) \in Int BY GapTyped
  <2>8. l[Src(k)] < x /\ l[Src(k)] + Gap(k, ii) >= x BY <2>4, <2>5, <2>6, <2>7
  <2>9. x =< l[Src(k)] + Gap(k, ii) BY <2>1, <2>7, <2>8, <1>4
  <2> QED BY <2>8, <2>9
<1>7. ASSUME NEW x \in 1 .. v PROVE e[x] \in ks /\ Crossed(x, e[x])
  BY <1>6
<1>8. ASSUME NEW x \in 1 .. v PROVE f[x] \in P
  <2> DEFINE k == e[x]
             s == l[Src(k)]
             g == Gap(k, ii)
  <2>1. k \in ks /\ s < x /\ x =< s + g BY <1>7
  <2> HIDE DEF e
  <2>2. k \in AllEdges BY <2>1
  <2>3. Src(k) \in Nodes /\ g \in Int BY <2>2, GapTyped
  <2>4. g =< Separation[k] /\ Separation[k] \in Nat
    <3>1. Separation[k] = dfg.edges[k].separation BY <2>2 DEF Separation
    <3>2. dfg.edges[k].separation \in Nat /\ dfg.edges[k].distance \in Nat
      BY <2>2 DEF Wellformed
    <3>3. dfg.edges[k].distance * ii \in Nat BY <3>2
    <3> QED BY <3>1, <3>2, <3>3 DEF Gap, weight
  <2>5. s \in Nat /\ x \in Nat BY <2>3, <1>4, <1>5
  <2>6. f[x] = <<k, x - s - 1>> OBVIOUS
  <2>7. k \in 1 .. m BY <2>2 DEF AllEdges
  <2> HIDE DEF k, s, g, f
  <2>8. x - s - 1 \in Nat /\ x - s - 1 < Separation[k] BY <2>1, <2>3, <2>4, <2>5
  <2> QED BY <2>1, <2>6, <2>7, <2>8 DEF UnitsOf
<1>9. f \in [1 .. v -> P]
  <2> HIDE DEF P, e
  <2> QED BY <1>8
<1>10. ASSUME NEW x \in 1 .. v, NEW y \in 1 .. v, f[x] = f[y] PROVE x = y
  <2> DEFINE a == l[Src(e[x])]
             b == l[Src(e[y])]
  <2>1. f[x] = <<e[x], x - a - 1>> /\ f[y] = <<e[y], y - b - 1>> OBVIOUS
  <2>2. a \in Nat
    <3>1. e[x] \in AllEdges BY <1>7
    <3> HIDE DEF e
    <3> QED BY <3>1, <1>4, GapTyped
  <2>3. x \in Nat /\ y \in Nat BY <1>5
  <2> HIDE DEF f
  <2>4. e[x] = e[y] /\ x - a - 1 = y - b - 1
    <3> HIDE DEF e, a, b
    <3> QED BY <2>1, <1>10
  <2>5. a = b
    <3>1. Src(e[x]) = Src(e[y])
      <4> HIDE DEF e
      <4> QED BY <2>4
    <3> QED BY <3>1
  <2> HIDE DEF e, a, b
  <2> QED BY <2>2, <2>3, <2>4, <2>5
<1>11. IsFiniteSet(1 .. v) /\ Cardinality(1 .. v) = v
  <2>1. 1 \in Int /\ v \in Int BY <1>5
  <2>2. IsFiniteSet(1 .. v) /\ Cardinality(1 .. v) = IF 1 > v THEN 0 ELSE v - 1 + 1
    BY <2>1, FS_Interval
  <2> QED BY <2>2, <1>5
<1>12. ~(Cardinality(P) < v)
  <2> HIDE DEF P, f, e
  <2> SUFFICES ASSUME Cardinality(P) < v PROVE FALSE OBVIOUS
  <2>1. PICK x, y \in 1 .. v : x # y /\ f[x] = f[y]
    BY <1>3, <1>9, <1>11, FS_PigeonHole
  <2> QED BY <2>1, <1>10
<1> HIDE DEF P
<1>13. v =< SumOf(Separation, ks, m) BY <1>3, <1>5, <1>12
<1> QED BY <1>3, <1>13 DEF v

-----------------------------------------------------------------------------
(* Recurrences: the interval                                               *)

LEMMA LegalIsMet ==
    ASSUME Wellformed, NEW ii \in Nat, NEW t \in Times
    PROVE  TimesLegal(ii, t) <=> Meets(t, AllEdges, ii)
<1>1. ASSUME NEW k \in AllEdges
      PROVE  t[dfg.edges[k].dst] + dfg.edges[k].distance * ii
               >= t[dfg.edges[k].src] + dfg.edges[k].separation
             <=> t[Dst(k)] >= t[Src(k)] + Gap(k, ii)
  <2>1. /\ dfg.edges[k].separation \in Nat /\ dfg.edges[k].distance \in Nat
        /\ dfg.edges[k].src \in Nodes /\ dfg.edges[k].dst \in Nodes
    BY DEF Wellformed
  <2> DEFINE w == dfg.edges[k].distance * ii
             s == t[dfg.edges[k].src]
             d == t[dfg.edges[k].dst]
             p == dfg.edges[k].separation
  <2>2. w \in Int /\ s \in Int /\ d \in Int /\ p \in Int BY <2>1 DEF Times
  <2>3. t[Dst(k)] = d /\ t[Src(k)] = s /\ Gap(k, ii) = p - w
    BY DEF Dst, Src, Gap, weight
  <2> HIDE DEF w, s, d, p
  <2>4. d + w >= s + p <=> d >= s + (p - w) BY <2>2
  <2>5. d + w >= s + p <=> t[Dst(k)] >= t[Src(k)] + Gap(k, ii) BY <2>3, <2>4
  <2> QED BY <2>5 DEF w, s, d, p
<1> QED BY <1>1 DEF TimesLegal, Meets, AllEdges

\* A schedule's times stay legal when the interval grows.
LEMMA LaterIsLegal ==
    ASSUME Wellformed, NEW i \in Nat, NEW j \in Nat, i =< j,
           NEW t \in Times, TimesLegal(i, t)
    PROVE  TimesLegal(j, t)
<1>1. ASSUME NEW k \in 1 .. Len(dfg.edges)
      PROVE  t[dfg.edges[k].dst] + dfg.edges[k].distance * j
               >= t[dfg.edges[k].src] + dfg.edges[k].separation
  <2>1. /\ dfg.edges[k].separation \in Nat /\ dfg.edges[k].distance \in Nat
        /\ dfg.edges[k].src \in Nodes /\ dfg.edges[k].dst \in Nodes
    BY DEF Wellformed, AllEdges
  <2> DEFINE a == dfg.edges[k].distance
             v == a * i
             w == a * j
             s == t[dfg.edges[k].src]
             d == t[dfg.edges[k].dst]
             p == dfg.edges[k].separation
  <2>2. v =< w /\ v \in Int /\ w \in Int
    <3>1. a \in Nat BY <2>1
    <3> HIDE DEF a
    <3>2. v \in Int /\ w \in Int BY <3>1
    <3>3. CASE a = 0
      <4>1. v = 0 /\ w = 0 BY <3>3
      <4> QED BY <4>1
    <3>4. CASE a # 0 /\ i < j
      <4>1. v + a =< w BY <3>1, <3>4, Multiples
      <4> QED BY <4>1, <3>1, <3>2
    <3>5. CASE i = j
      <4>1. v = w BY <3>5
      <4> QED BY <4>1, <3>2
    <3> QED BY <3>2, <3>3, <3>4, <3>5
  <2>3. s \in Int /\ d \in Int /\ p \in Int BY <2>1 DEF Times
  <2>4. d + v >= s + p BY DEF TimesLegal
  <2> HIDE DEF v, w, s, d, p
  <2>5. d + w >= s + p BY <2>2, <2>3, <2>4
  <2> QED BY <2>5 DEF w, s, d, p, a
<1> QED BY <1>1 DEF TimesLegal

LEMMA SeparationTyped ==
    ASSUME Wellformed
    PROVE  /\ Len(dfg.edges) \in Nat
           /\ \A k \in 1 .. Len(dfg.edges) : Separation[k] \in Nat
           /\ \A ks : SumOf(Separation, ks, Len(dfg.edges)) \in Nat
           /\ Separations \in Nat
<1>1. /\ Len(dfg.edges) \in Nat
      /\ \A k \in 1 .. Len(dfg.edges) : Separation[k] \in Nat
  BY DEF Wellformed, Separation, AllEdges
<1>2. ASSUME NEW ks PROVE SumOf(Separation, ks, Len(dfg.edges)) \in Nat
  BY <1>1, SumCounts DEF Counted
<1> QED BY <1>1, <1>2 DEF Separations

\* What is left out of a sum can still be added to it.
LEMMA SumLeavesRoom ==
    ASSUME NEW n \in Nat, NEW f, \A k \in 1 .. n : f[k] \in Nat,
           NEW S, NEW c \in (1 .. n) \ S
    PROVE  SumOf(f, S, n) + f[c] =< SumOf(f, 1 .. n, n)
<1>1. PICK g \in [0 .. n -> Nat] : Adds(g, f, S, n) /\ SumOf(f, S, n) = g[n] BY SumSteps
<1>2. PICK h \in [0 .. n -> Nat] : Adds(h, f, 1 .. n, n) /\ SumOf(f, 1 .. n, n) = h[n]
  BY SumSteps
<1>3. g[0] = 0 /\ \A k \in 1 .. n : g[k] = g[k - 1] + (IF k \in S THEN f[k] ELSE 0)
  BY <1>1 DEF Adds
<1>4. h[0] = 0 /\ \A k \in 1 .. n : h[k] = h[k - 1] + f[k]
  BY <1>2 DEF Adds
<1>5. c \in 1 .. n /\ f[c] \in Nat OBVIOUS
<1> DEFINE more(k) == IF c =< k THEN f[c] ELSE 0
           T == {k \in 0 .. n : g[k] + more(k) =< h[k]}
<1>6. 0 \in T
  <2>1. more(0) = 0 BY <1>5
  <2> QED BY <2>1, <1>3, <1>4
<1>7. ASSUME NEW k \in 1 .. n, k - 1 \in T PROVE k \in T
  <2> DEFINE a == g[k - 1]
             b == h[k - 1]
             x == f[k]
             y == more(k - 1)
             z == more(k)
  <2>1. k - 1 \in 0 .. n /\ k \in 0 .. n OBVIOUS
  <2>2. a \in Nat /\ b \in Nat /\ x \in Nat /\ a + y =< b BY <2>1, <1>1, <1>2, <1>7
  <2>3. g[k] = a + (IF k \in S THEN x ELSE 0) /\ h[k] = b + x BY <1>3, <1>4
  <2>4. y \in Nat /\ z \in Nat BY <1>5
  <2>5. (k \in S => z = y) /\ (z = y \/ z = y + x)
    <3>1. CASE k = c
      <4>1. y = 0 /\ z = x /\ k \notin S BY <3>1, <1>5
      <4> HIDE DEF x, y, z
      <4> QED BY <4>1, <2>2
    <3>2. CASE k # c
      <4>1. (c =< k) <=> (c =< k - 1) BY <3>2, <1>5
      <4> QED BY <4>1
    <3> QED BY <3>1, <3>2
  <2> HIDE DEF a, b, x, y, z, more
  <2>6. g[k] + z =< h[k] BY <2>2, <2>3, <2>4, <2>5
  <2> QED BY <2>1, <2>6 DEF z
<1>8. n \in T
  <2> HIDE DEF T
  <2>1. \A k \in 1 .. n : k - 1 \in T => k \in T BY <1>7
  <2>2. n \in 0 .. n OBVIOUS
  <2> QED BY <1>6, <2>1, <2>2, Climb
<1>9. more(n) = f[c] BY <1>5
<1>10. g[n] + more(n) =< h[n] BY <1>8
<1> HIDE DEF more
<1> QED BY <1>1, <1>2, <1>9, <1>10

ShortTimesAt(b) == \E t \in [Nodes -> 0 .. Separations] : TimesLegal(b, t)

LEMMA FeasibleIsShort ==
    ASSUME Wellformed, Nodes # {}, NEW ii \in Nat, Feasible(AllEdges, ii)
    PROVE  ShortTimesAt(ii)
<1>1. PICK t \in Times : Meets(t, AllEdges, ii) BY EvaluateRejects
<1>2. PICK l \in Times : Least(l, AllEdges, ii) BY <1>1, LeastTimes
<1>3. Separations \in Nat /\ \A n \in Nodes : l[n] =< Separations
  BY <1>2, LeastIsShort, SeparationTyped DEF Separations
<1>4. l \in [Nodes -> 0 .. Separations] BY <1>3 DEF Times
<1>5. TimesLegal(ii, l) BY <1>2, LegalIsMet DEF Least
<1> QED BY <1>4, <1>5 DEF ShortTimesAt

LEMMA LegalIsFeasible ==
    ASSUME Wellformed, Nodes # {}, NEW ii \in Nat, NEW t \in Times, TimesLegal(ii, t)
    PROVE  Feasible(AllEdges, ii)
<1>1. Meets(t, AllEdges, ii) BY LegalIsMet
<1> QED BY <1>1, EvaluateAccepts

\* If the edges inside an iteration can be met, an interval as long as all
\* separations together leaves room for those between iterations.
LEMMA UpperBoundFeasible ==
    ASSUME Wellformed, Nodes # {}, Feasible(ZeroDistance, 0)
    PROVE  Feasible(AllEdges, upperBound)
<1> DEFINE m == Len(dfg.edges)
           b == SumOf(Separation, ZeroDistance, m)
<1>1. ZeroDistance \in SUBSET AllEdges /\ 0 \in Nat BY DEF ZeroDistance
<1>2. PICK t \in Times : Meets(t, ZeroDistance, 0) BY <1>1, EvaluateRejects
<1>3. PICK l \in Times : Least(l, ZeroDistance, 0) BY <1>1, <1>2, LeastTimes
<1>4. \A n \in Nodes : l[n] =< b /\ l[n] \in Nat BY <1>1, <1>3, LeastIsShort DEF Times
<1>5. /\ b \in Nat /\ Separations \in Nat /\ m \in Nat
      /\ \A k \in 1 .. m : Separation[k] \in Nat
  BY SeparationTyped
<1>6. upperBound \in Nat /\ Separations =< upperBound BY <1>5 DEF upperBound, MaxOf
<1> HIDE DEF b
<1>7. ASSUME NEW k \in 1 .. m
      PROVE  l[dfg.edges[k].dst] + dfg.edges[k].distance * upperBound
               >= l[dfg.edges[k].src] + dfg.edges[k].separation
  <2>1. k \in AllEdges BY DEF AllEdges
  <2>2. /\ dfg.edges[k].separation \in Nat /\ dfg.edges[k].distance \in Nat
        /\ dfg.edges[k].src \in Nodes /\ dfg.edges[k].dst \in Nodes
    BY <2>1 DEF Wellformed
  <2> DEFINE a == dfg.edges[k].distance
             w == a * upperBound
             s == l[dfg.edges[k].src]
             d == l[dfg.edges[k].dst]
             p == dfg.edges[k].separation
  <2>3. s \in Nat /\ d \in Nat /\ p \in Nat /\ a \in Nat /\ s =< b BY <2>2, <1>4
  <2>4. CASE k \in ZeroDistance
    <3>1. a = 0 BY <2>4 DEF ZeroDistance
    <3>2. l[Dst(k)] >= l[Src(k)] + Gap(k, 0) BY <2>4, <1>3 DEF Least, Meets
    <3>3. d >= s + (p - a * 0) BY <3>2 DEF Dst, Src, Gap, weight
    <3>4. w = 0 /\ a * 0 = 0 BY <3>1, <1>6
    <3> HIDE DEF w, s, d, p, a
    <3>5. d + w >= s + p BY <2>3, <3>3, <3>4
    <3> QED BY <3>5 DEF w, s, d, p, a
  <2>5. CASE k \notin ZeroDistance
    <3>1. a # 0 BY <2>1, <2>5 DEF ZeroDistance
    <3>2. b + Separation[k] =< Separations
      <4>1. k \in (1 .. m) \ ZeroDistance BY <2>5
      <4>2. b + Separation[k] =< SumOf(Separation, 1 .. m, m)
        BY <4>1, <1>5, SumLeavesRoom DEF b
      <4> QED BY <4>2 DEF Separations, AllEdges
    <3>3. Separation[k] = p BY <2>1 DEF Separation
    <3>4. w >= upperBound /\ w \in Int
      <4> DEFINE c == upperBound
      <4>1. c \in Nat /\ a \in Nat \ {0} BY <1>6, <2>3, <3>1
      <4> HIDE DEF c, a
      <4>2. a * c >= c /\ a * c \in Int
        <5>1. CASE a = 1 BY <5>1, <4>1
        <5>2. CASE a # 1 /\ c # 0
          <6>1. c * 1 + c =< c * a BY <4>1, <5>2, Multiples
          <6>2. a * c = c * a /\ c * a \in Int BY <4>1
          <6> QED BY <6>1, <6>2, <4>1
        <5>3. CASE c = 0
          <6>1. a * c = 0 BY <5>3, <4>1
          <6> QED BY <6>1, <5>3
        <5> QED BY <5>1, <5>2, <5>3
      <4> QED BY <4>2 DEF c
    <3> HIDE DEF w, s, d, p, a
    <3>5. d + w >= s + p BY <1>5, <1>6, <2>3, <3>2, <3>3, <3>4
    <3> QED BY <3>5 DEF w, s, d, p, a
  <2> QED BY <2>4, <2>5
<1>8. TimesLegal(upperBound, l) BY <1>7 DEF TimesLegal
<1> QED BY <1>6, <1>8, LegalIsFeasible

\* A walk along the predecessors stays in the graph, and so does the witness.
Before(pred, S) == {dfg.edges[pred[x]].src : x \in {y \in S : pred[y] # 0}}

\* BackIn, step by step.
LEMMA BackInSteps ==
    ASSUME Wellformed, NEW pred \in [Nodes -> 0 .. Len(dfg.edges)], NEW n \in Nodes
    PROVE  /\ BackIn(pred, n)[0] = {n}
           /\ \A k \in 1 .. Len(dfg.op) : BackIn(pred, n)[k] = Before(pred, BackIn(pred, n)[k - 1])
           /\ \A S \in SUBSET Nodes : Before(pred, S) \in SUBSET Nodes
<1> DEFINE m == Len(dfg.op)
           Prev(S) == {dfg.edges[pred[x]].src : x \in {y \in S : pred[y] # 0}}
           back[k \in 0 .. m] ==
               IF k = 0 THEN {n}
               ELSE {dfg.edges[pred[x]].src : x \in {y \in back[k - 1] : pred[y] # 0}}
           Body(f) == [k \in 0 .. m |-> IF k = 0 THEN {n} ELSE Prev(f[k - 1])]
           G == [z \in Nat \X SUBSET Nodes |-> Prev(z[2])]
<1>1. m \in Nat BY DEF Wellformed
<1>2. BackIn(pred, n) = back BY DEF BackIn
<1>3. ASSUME NEW S \in SUBSET Nodes PROVE Prev(S) \in SUBSET Nodes
  <2>1. ASSUME NEW x \in S, pred[x] # 0 PROVE dfg.edges[pred[x]].src \in Nodes
    <3>1. pred[x] \in AllEdges BY <2>1 DEF AllEdges, Wellformed
    <3> QED BY <3>1 DEF Wellformed
  <2> QED BY <2>1
<1> HIDE DEF Prev
<1>4. G \in [Nat \X SUBSET Nodes -> SUBSET Nodes] BY <1>3
<1>5. PICK h \in [0 .. m -> SUBSET Nodes] : Iterates(h, {n}, G, m)
  <2> HIDE DEF G, back, m
  <2>1. {n} \in SUBSET Nodes OBVIOUS
  <2> QED BY <2>1, <1>1, <1>4, RecursionExists, Zenon
<1>6. h[0] = {n} /\ \A k \in 1 .. m : h[k] = G[<<k, h[k - 1]>>]
  <2> HIDE DEF G, back
  <2> QED BY <1>5 DEF Iterates
<1>7. ASSUME NEW k \in 1 .. m PROVE h[k] = Prev(h[k - 1])
  <2>1. k \in Nat /\ k - 1 \in 0 .. m BY <1>1
  <2>2. <<k, h[k - 1]>> \in Nat \X SUBSET Nodes BY <2>1, <1>5
  <2> QED BY <2>2, <1>6
<1> HIDE DEF G
<1>8. h = Body(h)
  <2>1. \A k \in 0 .. m : k = 0 \/ k \in 1 .. m BY <1>1
  <2> QED BY <2>1, <1>5, <1>6, <1>7
<1>9. back = Body(back)
  <2>1. h = [k \in 0 .. m |->
               IF k = 0 THEN {n}
               ELSE {dfg.edges[pred[x]].src : x \in {y \in h[k - 1] : pred[y] # 0}}]
    BY <1>8 DEF Prev
  <2>2. back = [k \in 0 .. m |->
                  IF k = 0 THEN {n}
                  ELSE {dfg.edges[pred[x]].src : x \in {y \in back[k - 1] : pred[y] # 0}}]
    BY <2>1
  <2> HIDE DEF back
  <2> QED BY <2>2 DEF Prev
<1> HIDE DEF back
<1>10. back[0] = {n} /\ \A k \in 1 .. m : back[k] = Prev(back[k - 1])
  <2>1. \A k \in 0 .. m : back[k] = IF k = 0 THEN {n} ELSE Prev(back[k - 1])
    BY <1>9, Zenon
  <2>2. 0 \in 0 .. m /\ \A k \in 1 .. m : k \in 0 .. m /\ k # 0 BY <1>1
  <2> QED BY <2>1, <2>2, Zenon
<1> HIDE DEF Body
<1>11. \A S : Prev(S) = Before(pred, S) BY DEF Prev, Before
<1> QED BY <1>2, <1>3, <1>10, <1>11

LEMMA BackInNodes ==
    ASSUME Wellformed, NEW pred \in [Nodes -> 0 .. Len(dfg.edges)], NEW n \in Nodes
    PROVE  \A k \in 0 .. Len(dfg.op) : BackIn(pred, n)[k] \subseteq Nodes
<1> DEFINE m == Len(dfg.op)
           back == BackIn(pred, n)
<1>1. m \in Nat BY DEF Wellformed
<1>10. /\ back[0] = {n} /\ \A k \in 1 .. m : back[k] = Before(pred, back[k - 1])
       /\ \A S \in SUBSET Nodes : Before(pred, S) \in SUBSET Nodes
  BY BackInSteps
<1> HIDE DEF back
<1> DEFINE T == {k \in 0 .. m : back[k] \in SUBSET Nodes}
<1>11. 0 \in T BY <1>1, <1>10
<1>12. ASSUME NEW k \in 1 .. m, k - 1 \in T PROVE k \in T
  <2>1. k \in 0 .. m BY <1>1
  <2> QED BY <2>1, <1>10, <1>12
<1>13. \A k \in 0 .. m : k \in T
  <2> HIDE DEF T, m
  <2>1. \A k \in 1 .. m : k - 1 \in T => k \in T BY <1>12
  <2> QED BY <1>1, <1>11, <2>1, Climb
<1> QED BY <1>13 DEF back

LEMMA WitnessTyped ==
    ASSUME Wellformed, NEW ii \in Nat, NEW ks \in SUBSET AllEdges
    PROVE  buildWitness(evaluate(ks, ii)) \subseteq 1 .. Len(dfg.edges)
<1> DEFINE ev == evaluate(ks, ii)
           m == Len(dfg.op)
<1>1. m \in Nat BY DEF Wellformed
<1>2. ev \in Sts
  <2>1. PICK h \in [0 .. Len(dfg.op) -> Sts] : ev = h[Len(dfg.op)] BY EvaluateFacts
  <2> QED BY <2>1, <1>1
<1> HIDE DEF ev
<1>3. ev.pred \in [Nodes -> 0 .. Len(dfg.edges)] /\ ev.updated \subseteq Nodes
  BY <1>2 DEF Sts
<1>4. \A n \in Nodes : \A k \in 0 .. m : BackIn(ev.pred, n)[k] \subseteq Nodes
  BY <1>3, BackInNodes
<1> DEFINE start == UNION {BackIn(ev.pred, n)[m] : n \in ev.updated}
           met == UNION {UNION {BackIn(ev.pred, x)[k] : k \in 0 .. m} : x \in start}
<1>5. start \subseteq Nodes
  <2>1. m \in 0 .. m BY <1>1
  <2> QED BY <2>1, <1>3, <1>4
<1> HIDE DEF start
<1>6. met \subseteq Nodes BY <1>4, <1>5
<1> HIDE DEF met
<1>7. buildWitness(ev) = {ev.pred[y] : y \in met} \ {0} BY DEF buildWitness, start, met
<1>8. \A y \in met : ev.pred[y] \in 0 .. Len(dfg.edges) BY <1>3, <1>6
<1>9. Len(dfg.edges) \in Nat BY DEF Wellformed
<1>10. buildWitness(ev) \subseteq 1 .. Len(dfg.edges) BY <1>7, <1>8, <1>9
<1> QED BY <1>10 DEF ev

-----------------------------------------------------------------------------
(* The inductive invariant                                                 *)

NoTimesBelow(b) == \A ii \in 1 .. b - 1 : \A t \in Times : ~TimesLegal(ii, t)

\* The bisection keeps an interval that can be met at its upper end and none
\* below its lower end.
IInv ==
    /\ TypeOK
    /\ status # "internal_error"
    /\ resourceMII > 0 => Excludes(resourceMII)
    /\ high > 0 => low > 0 /\ resourceMII > 0 /\ Nodes # {} /\ ShortTimesAt(high)
    /\ NoTimesBelow(low)
    /\ status = "success" =>
          resourceMII > 0 /\ NoTimesBelow(recurrenceMII) /\ ShortTimesAt(recurrenceMII)

\* These are about the graph, which no step changes.
LEMMA GraphKept ==
    ASSUME UNCHANGED dfg, NEW b
    PROVE  /\ Excludes(b)' <=> Excludes(b)
           /\ NoTimesBelow(b)' <=> NoTimesBelow(b)
           /\ ShortTimesAt(b)' <=> ShortTimesAt(b)
           /\ Nodes' = Nodes /\ (Wellformed' <=> Wellformed)
<1>1. Nodes' = Nodes /\ AllEdges' = AllEdges BY DEF Nodes, AllEdges
<1>2. Times' = Times /\ Schedules' = Schedules BY <1>1 DEF Times, Schedules
<1>3. Separation' = Separation BY <1>1 DEF Separation
<1>4. Separations' = Separations BY <1>1, <1>3 DEF Separations
<1>5. \A ii, t : TimesLegal(ii, t)' <=> TimesLegal(ii, t) BY DEF TimesLegal
<1>6. \A ii, t, n : IssueSlots(ii, t, n)' = IssueSlots(ii, t, n) BY DEF IssueSlots
<1>7. \A ii, t : UnitsLegal(ii, t)' <=> UnitsLegal(ii, t) BY <1>1, <1>6 DEF UnitsLegal
<1>8. Excludes(b)' <=> Excludes(b) BY <1>2, <1>7, Zenon DEF Excludes
<1>9. NoTimesBelow(b)' <=> NoTimesBelow(b) BY <1>2, <1>5, Zenon DEF NoTimesBelow
<1>10. ShortTimesAt(b)' <=> ShortTimesAt(b) BY <1>1, <1>4, <1>5, Zenon DEF ShortTimesAt
<1>11. Wellformed' <=> Wellformed BY <1>1 DEF Wellformed
<1> QED BY <1>1, <1>8, <1>9, <1>10, <1>11

\* The invariant, with the variables' values named.
Holds(s, r, c, lo, hi) ==
    /\ s # "internal_error"
    /\ r > 0 => Excludes(r)
    /\ hi > 0 => lo > 0 /\ r > 0 /\ Nodes # {} /\ ShortTimesAt(hi)
    /\ NoTimesBelow(lo)
    /\ s = "success" => r > 0 /\ NoTimesBelow(c) /\ ShortTimesAt(c)

LEMMA HoldsKept ==
    ASSUME UNCHANGED dfg, TypeOK', Holds(status', resourceMII', recurrenceMII', low', high')
    PROVE  IInv'
<1>1. PICK s, r, c, lo, hi : /\ s = status' /\ r = resourceMII' /\ c = recurrenceMII'
                             /\ lo = low' /\ hi = high'
  OBVIOUS
<1>2. Holds(s, r, c, lo, hi) BY <1>1
<1>3. Holds(s, r, c, lo, hi)'
  <2>1. Excludes(r)' <=> Excludes(r) BY GraphKept
  <2>2. NoTimesBelow(lo)' <=> NoTimesBelow(lo) BY GraphKept
  <2>3. NoTimesBelow(c)' <=> NoTimesBelow(c) BY GraphKept
  <2>4. ShortTimesAt(hi)' <=> ShortTimesAt(hi) BY GraphKept
  <2>5. ShortTimesAt(c)' <=> ShortTimesAt(c) BY GraphKept
  <2>6. Nodes' = Nodes BY GraphKept
  <2> QED BY <1>2, <2>1, <2>2, <2>3, <2>4, <2>5, <2>6 DEF Holds
<1> QED BY <1>1, <1>3 DEF Holds, IInv

LEMMA InitHolds ==
    ASSUME Init
    PROVE  IInv
<1>1. NoTimesBelow(0) BY DEF NoTimesBelow
<1>2. TypeOK BY MIIAssumption DEF Init, TypeOK
<1> QED BY <1>1, <1>2 DEF Init, IInv

\* An analysis that gives up learns nothing and forgets nothing.
LEMMA ReturnHolds ==
    ASSUME IInv,
           NEW s \in {"no_compatible_resource", "contract_error", "overflow"}, Return(s)
    PROVE  IInv'
<1>1. UNCHANGED <<dfg, resourceMII, recurrenceMII, low, high, witness>> /\ status' = s
  BY DEF Return
<1>2. TypeOK' BY <1>1 DEF IInv, TypeOK
<1>3. Holds(status', resourceMII', recurrenceMII', low', high') BY <1>1 DEF IInv, Holds
<1> QED BY <1>1, <1>2, <1>3, HoldsKept

LEMMA BoundResourcesHolds ==
    ASSUME IInv, BoundResources
    PROVE  IInv'
<1> DEFINE r == Max(ResourceBounds)
<1>1. dfg \in Dfgs BY DEF IInv, TypeOK
<1>2. Wellformed /\ Uncovered = {} BY <1>1, GraphsAreWellformed DEF BoundResources
<1>3. Excludes(r) /\ r >= 1 /\ r \in Nat BY <1>2, ResourcesExclude DEF Excludes
<1> HIDE DEF r
<1>4. CASE r > MaxMII
  <2>1. Return("overflow") BY <1>4 DEF BoundResources, r
  <2> QED BY <2>1, ReturnHolds
<1>5. CASE ~(r > MaxMII)
  <2>1. UNCHANGED <<dfg, status, recurrenceMII, low, high, witness>> /\ resourceMII' = r
    BY <1>5 DEF BoundResources, r
  <2>2. r \in 0 .. MaxMII BY <1>3, <1>5, MIIAssumption
  <2>3. TypeOK' BY <2>1, <2>2 DEF IInv, TypeOK
  <2>4. r > 0 BY <1>3
  <2>5. Holds(status', resourceMII', recurrenceMII', low', high')
    BY <2>1, <2>4, <1>3 DEF IInv, Holds
  <2> QED BY <2>1, <2>3, <2>5, HoldsKept
<1> QED BY <1>4, <1>5

LEMMA NoEdgesHolds ==
    ASSUME IInv, NoEdges
    PROVE  IInv'
<1>1. /\ UNCHANGED <<dfg, resourceMII, low, high, witness>>
      /\ recurrenceMII' = 1 /\ status' = "success" /\ resourceMII > 0
      /\ dfg.edges = <<>>
  BY DEF NoEdges, Timed, RecurrenceStage
<1>2. TypeOK' BY <1>1, MIIAssumption DEF IInv, TypeOK
<1>3. NoTimesBelow(1) BY DEF NoTimesBelow
<1>4. ShortTimesAt(1)
  <2>1. dfg \in Dfgs BY DEF IInv, TypeOK
  <2>2. Separations \in Nat BY <2>1, GraphsAreWellformed, SeparationTyped
  <2> DEFINE t == [n \in Nodes |-> 0]
  <2>3. t \in [Nodes -> 0 .. Separations] BY <2>2
  <2>4. Len(dfg.edges) = 0 BY <1>1
  <2>5. TimesLegal(1, t) BY <2>4 DEF TimesLegal
  <2> QED BY <2>3, <2>5 DEF ShortTimesAt
<1>5. Holds(status', resourceMII', recurrenceMII', low', high')
  BY <1>1, <1>3, <1>4 DEF IInv, Holds
<1> QED BY <1>1, <1>2, <1>5, HoldsKept

LEMMA ZeroDistanceCycleHolds ==
    ASSUME IInv, ZeroDistanceCycle
    PROVE  IInv'
<1> DEFINE w == buildWitness(evaluate(ZeroDistance, 0))
<1>1. UNCHANGED <<dfg, resourceMII, recurrenceMII, low, high>>
      /\ status' = "zero_distance_cycle" /\ witness' = w
  BY DEF ZeroDistanceCycle
<1>2. dfg \in Dfgs /\ ZeroDistance \in SUBSET AllEdges /\ 0 \in Nat
  BY DEF IInv, TypeOK, ZeroDistance
<1>3. w \subseteq 1 .. Len(dfg.edges) BY <1>2, GraphsAreWellformed, WitnessTyped
<1> HIDE DEF w
<1>4. TypeOK' BY <1>1, <1>3 DEF IInv, TypeOK
<1>5. Holds(status', resourceMII', recurrenceMII', low', high') BY <1>1 DEF IInv, Holds
<1> QED BY <1>1, <1>4, <1>5, HoldsKept

LEMMA StartBisectionHolds ==
    ASSUME IInv, StartBisection
    PROVE  IInv'
<1>1. /\ dfg.edges # <<>> /\ Feasible(ZeroDistance, 0) /\ resourceMII > 0
      /\ status = "analysing"
  BY DEF StartBisection, Timed, RecurrenceStage
<1>2. dfg \in Dfgs BY DEF IInv, TypeOK
<1>3. Wellformed BY <1>2, GraphsAreWellformed
<1>4. Nodes # {}
  <2>1. DfgOK(dfg) BY <1>2, MIIAssumption
  <2> DEFINE es == dfg.edges
             E == [src : 1 .. Len(dfg.op), dst : 1 .. Len(dfg.op),
                   distance : Nat, separation : Nat]
  <2>2. es \in Seq(E) /\ es # <<>> BY <2>1, <1>1 DEF DfgOK
  <2> HIDE DEF es, E
  <2>3. Len(es) \in Nat /\ Len(es) # 0 BY <2>2
  <2>4. 1 \in AllEdges BY <2>3 DEF AllEdges, es
  <2> QED BY <2>4, <1>3 DEF Wellformed
<1>5. Feasible(AllEdges, upperBound) BY <1>1, <1>3, <1>4, UpperBoundFeasible
<1>6. Separations \in Nat BY <1>3, SeparationTyped
<1>7. upperBound \in Nat /\ upperBound > 0 /\ upperBound =< MaxOf(1, Separations)
  BY <1>6 DEF upperBound, MaxOf
<1>8. ShortTimesAt(upperBound) BY <1>3, <1>4, <1>5, <1>7, FeasibleIsShort
<1>9. CASE Separations > MaxMII
  <2>1. Return("overflow") BY <1>9 DEF StartBisection
  <2> QED BY <2>1, ReturnHolds
<1>10. CASE ~(Separations > MaxMII)
  <2>1. UNCHANGED <<dfg, status, resourceMII, recurrenceMII, witness>>
        /\ low' = 1 /\ high' = upperBound
    BY <1>5, <1>10 DEF StartBisection
  <2>2. upperBound \in 1 .. MaxMII BY <1>6, <1>7, <1>10, MIIAssumption DEF MaxOf
  <2> DEFINE u == upperBound
  <2>3. u \in 0 .. MaxMII /\ 1 \in 0 .. u /\ high' = u BY <2>1, <2>2
  <2>4. NoTimesBelow(1) BY DEF NoTimesBelow
  <2>5. ShortTimesAt(u) BY <1>8
  <2> HIDE DEF u
  <2>6. TypeOK' BY <2>1, <2>3 DEF IInv, TypeOK
  <2>7. Holds(status', resourceMII', recurrenceMII', low', high')
    BY <1>1, <1>4, <2>1, <2>3, <2>4, <2>5 DEF IInv, Holds
  <2> QED BY <2>1, <2>6, <2>7, HoldsKept
<1> QED BY <1>9, <1>10

\* The middle of an interval that is not a point lies in it, below its end.
LEMMA MidBetween ==
    ASSUME NEW lo \in Nat, NEW hi \in Nat, lo < hi
    PROVE  LET m == lo + (hi - lo) \div 2 IN m \in Nat /\ lo =< m /\ m < hi
OBVIOUS

LEMMA BisectHighHolds ==
    ASSUME IInv, BisectHigh
    PROVE  IInv'
<1> DEFINE m == Mid
<1>1. /\ UNCHANGED <<dfg, status, resourceMII, recurrenceMII, low, witness>>
      /\ high' = m /\ Feasible(AllEdges, m) /\ high > 0 /\ low < high
      /\ status = "analysing"
  BY DEF BisectHigh, Bisecting
<1>2. /\ dfg \in Dfgs /\ low \in Nat /\ high \in Nat /\ high =< MaxMII /\ low > 0
      /\ resourceMII > 0 /\ Nodes # {}
  BY <1>1, MIIAssumption DEF IInv, TypeOK
<1>3. m \in Nat /\ low =< m /\ m < high BY <1>1, <1>2, MidBetween DEF Mid
<1> HIDE DEF m
<1>4. m \in 0 .. MaxMII /\ low \in 0 .. m BY <1>2, <1>3, MIIAssumption
<1>5. ShortTimesAt(m) BY <1>1, <1>2, <1>3, GraphsAreWellformed, FeasibleIsShort
<1>6. TypeOK' BY <1>1, <1>4 DEF IInv, TypeOK
<1>7. Holds(status', resourceMII', recurrenceMII', low', high')
  BY <1>1, <1>2, <1>5 DEF IInv, Holds
<1> QED BY <1>1, <1>6, <1>7, HoldsKept

LEMMA BisectLowHolds ==
    ASSUME IInv, BisectLow
    PROVE  IInv'
<1> DEFINE m == Mid
<1>1. /\ UNCHANGED <<dfg, status, resourceMII, recurrenceMII, high, witness>>
      /\ low' = m + 1 /\ ~Feasible(AllEdges, m) /\ high > 0 /\ low < high
      /\ status = "analysing"
  BY DEF BisectLow, Bisecting
<1>2. /\ dfg \in Dfgs /\ low \in Nat /\ high \in Nat /\ high =< MaxMII /\ low > 0
      /\ resourceMII > 0 /\ Nodes # {} /\ ShortTimesAt(high)
  BY <1>1, MIIAssumption DEF IInv, TypeOK
<1>3. m \in Nat /\ low =< m /\ m < high BY <1>1, <1>2, MidBetween DEF Mid
<1> HIDE DEF m
<1>4. m + 1 \in 0 .. high /\ m + 1 > 0 BY <1>2, <1>3
<1>5. NoTimesBelow(m + 1)
  <2>1. SUFFICES ASSUME NEW ii \in 1 .. m, NEW t \in Times, TimesLegal(ii, t)
                 PROVE  FALSE
    <3>1. 1 .. (m + 1) - 1 = 1 .. m BY <1>3
    <3> QED BY <2>1, <3>1 DEF NoTimesBelow
  <2>2. Wellformed BY <1>2, GraphsAreWellformed
  <2>3. ii \in Nat /\ ii =< m BY <1>3
  <2>4. TimesLegal(m, t) BY <1>3, <2>1, <2>2, <2>3, LaterIsLegal
  <2>5. Feasible(AllEdges, m) BY <1>2, <1>3, <2>2, <2>4, LegalIsFeasible
  <2> QED BY <2>5, <1>1
<1>6. TypeOK' BY <1>1, <1>4 DEF IInv, TypeOK
<1>7. Holds(status', resourceMII', recurrenceMII', low', high')
  BY <1>1, <1>2, <1>4, <1>5 DEF IInv, Holds
<1> QED BY <1>1, <1>6, <1>7, HoldsKept

LEMMA ReportHolds ==
    ASSUME IInv, Report
    PROVE  IInv'
<1> DEFINE w == IF low > 1 THEN buildWitness(evaluate(AllEdges, low - 1)) ELSE {}
<1>1. /\ UNCHANGED <<dfg, resourceMII, low, high>>
      /\ recurrenceMII' = low /\ witness' = w /\ status' = "success"
      /\ high > 0 /\ low >= high
  BY DEF Report, Bisecting
<1>2. /\ dfg \in Dfgs /\ low \in 0 .. high /\ high \in 0 .. MaxMII
      /\ resourceMII > 0 /\ ShortTimesAt(high) /\ NoTimesBelow(low)
  BY <1>1 DEF IInv, TypeOK
<1>3. low = high BY <1>1, <1>2, MIIAssumption
<1>4. w \subseteq 1 .. Len(dfg.edges)
  <2>1. CASE low > 1
    <3>1. low - 1 \in Nat /\ AllEdges \in SUBSET AllEdges BY <1>2, <2>1, MIIAssumption
    <3>2. buildWitness(evaluate(AllEdges, low - 1)) \subseteq 1 .. Len(dfg.edges)
      BY <1>2, <3>1, GraphsAreWellformed, WitnessTyped
    <3> QED BY <2>1, <3>2
  <2> QED BY <2>1
<1> HIDE DEF w
<1>5. TypeOK' BY <1>1, <1>2, <1>3, <1>4 DEF IInv, TypeOK
<1>6. Holds(status', resourceMII', recurrenceMII', low', high')
  BY <1>1, <1>2, <1>3 DEF IInv, Holds
<1> QED BY <1>1, <1>5, <1>6, HoldsKept

LEMMA StutterHolds ==
    ASSUME IInv, UNCHANGED vars
    PROVE  IInv'
<1>1. UNCHANGED <<dfg, status, resourceMII, recurrenceMII, low, high, witness>> BY DEF vars
<1>2. TypeOK' BY <1>1 DEF IInv, TypeOK
<1>3. Holds(status', resourceMII', recurrenceMII', low', high') BY <1>1 DEF IInv, Holds
<1> QED BY <1>1, <1>2, <1>3, HoldsKept

LEMMA StepHolds ==
    ASSUME IInv, [Next]_vars
    PROVE  IInv'
<1>1. CASE Reject BY <1>1, ReturnHolds DEF Reject
<1>2. CASE BoundResources BY <1>2, BoundResourcesHolds
<1>3. CASE UntimedEdge BY <1>3, ReturnHolds DEF UntimedEdge
<1>4. CASE NoEdges BY <1>4, NoEdgesHolds
<1>5. CASE ZeroDistanceCycle BY <1>5, ZeroDistanceCycleHolds
<1>6. CASE StartBisection BY <1>6, StartBisectionHolds
<1>7. CASE BisectHigh BY <1>7, BisectHighHolds
<1>8. CASE BisectLow BY <1>8, BisectLowHolds
<1>9. CASE Report BY <1>9, ReportHolds
<1>10. CASE UNCHANGED vars BY <1>10, StutterHolds
<1>11. CASE Finished BY <1>11, StutterHolds DEF Finished
<1> QED BY <1>1, <1>2, <1>3, <1>4, <1>5, <1>6, <1>7, <1>8, <1>9, <1>10, <1>11 DEF Next

-----------------------------------------------------------------------------
(* The analysis                                                            *)

\* MIIAnalyzer::analyze keeps, at every step of the bisection, an upper end at
\* which the recurrences can be met and no interval below the lower end at
\* which they can.
THEOREM BisectionBrackets == Spec => []IInv
<1>1. Init => IInv BY InitHolds
<1>2. IInv /\ [Next]_vars => IInv' BY StepHolds
<1> QED BY <1>1, <1>2, PTL DEF Spec

\* The bounds and the bisection of MIIAnalyzer::analyze stay in the range of
\* MIIValue, low never passes high, and the witness names edges of the graph.
THEOREM AnalysisTyped == Spec => []TypeOK
<1>1. IInv => TypeOK BY DEF IInv
<1> QED BY <1>1, BisectionBrackets, PTL

LEMMA NoneBelowBoth ==
    ASSUME IInv
    PROVE  NoScheduleBelowMII
<1> SUFFICES ASSUME status = "success", NEW ii \in 1 .. mii - 1, NEW t \in Schedules,
                    TimesLegal(ii, t), UnitsLegal(ii, t)
             PROVE  FALSE
  BY DEF NoScheduleBelowMII
<1>1. /\ Excludes(resourceMII) /\ NoTimesBelow(recurrenceMII)
      /\ resourceMII \in Nat /\ recurrenceMII \in Nat
  BY MIIAssumption DEF IInv, TypeOK
<1>2. ii \in Nat \ {0} /\ ii < mii BY <1>1 DEF mii, MaxOf
<1>3. t \in Times BY MIIAssumption DEF Schedules, Times
<1>4. CASE mii = resourceMII BY <1>1, <1>2, <1>4 DEF Excludes
<1>5. CASE mii = recurrenceMII
  <2>1. ii \in 1 .. recurrenceMII - 1 BY <1>1, <1>2, <1>5
  <2> QED BY <2>1, <1>1, <1>3 DEF NoTimesBelow
<1> QED BY <1>4, <1>5 DEF mii, MaxOf

\* The mii of a successful MIIAnalyzer::analyze is a lower bound: for every
\* target and every graph, no smaller interval has a legal schedule.
THEOREM MIIIsLowerBound == Spec => []NoScheduleBelowMII
<1>1. IInv => NoScheduleBelowMII BY NoneBelowBoth
<1> QED BY <1>1, BisectionBrackets, PTL

\* The recurrenceMII of a successful MIIAnalyzer::analyze is attained: issue
\* times no later than the sum of all separations meet every edge at it.
THEOREM RecurrenceBoundIsAttained == Spec => []RecurrenceIsFeasible
<1>1. IInv => RecurrenceIsFeasible BY DEF IInv, RecurrenceIsFeasible, ShortTimesAt
<1> QED BY <1>1, BisectionBrackets, PTL

\* MIIAnalyzer::analyze never finds its upper bound infeasible: a graph whose
\* zero-distance edges have no cycle is feasible at the sum of all separations,
\* and as many rounds as there are nodes are enough for evaluate to see it.
THEOREM UpperBoundNeverFails == Spec => []UpperBoundIsSafe
<1>1. IInv => UpperBoundIsSafe BY DEF IInv, UpperBoundIsSafe
<1> QED BY <1>1, BisectionBrackets, PTL

ProgressStep ==
    \/ status' # "analysing"
    \/ resourceMII = 0 /\ resourceMII' > 0
    \/ high = 0 /\ high' > 0
    \/ high' - low' < high - low

LEMMA StepProgresses ==
    ASSUME IInv, Next
    PROVE  ProgressStep \/ UNCHANGED vars
<1>1. CASE BoundResources
  <2>1. dfg \in Dfgs BY DEF IInv, TypeOK
  <2>2. Wellformed /\ Uncovered = {} BY <1>1, <2>1, GraphsAreWellformed DEF BoundResources
  <2>3. Max(ResourceBounds) >= 1 /\ Max(ResourceBounds) \in Nat
    BY <2>2, ResourcesExclude DEF Excludes
  <2> DEFINE r == Max(ResourceBounds)
  <2>4. r > 0 BY <2>3
  <2>5. status' = "overflow" \/ (resourceMII = 0 /\ resourceMII' = r)
    BY <1>1 DEF BoundResources, Return
  <2> HIDE DEF r
  <2> QED BY <2>4, <2>5 DEF ProgressStep
<1>2. CASE StartBisection
  <2>1. dfg \in Dfgs BY DEF IInv, TypeOK
  <2>2. Separations \in Nat BY <2>1, GraphsAreWellformed, SeparationTyped
  <2>3. upperBound > 0 BY <2>2 DEF upperBound, MaxOf
  <2> DEFINE u == upperBound
  <2>4. status' \in {"overflow", "internal_error"} \/ (high = 0 /\ high' = u)
    BY <1>2 DEF StartBisection, Timed, RecurrenceStage, Return
  <2>5. u > 0 BY <2>3
  <2> HIDE DEF u
  <2> QED BY <2>4, <2>5 DEF ProgressStep
<1>3. CASE BisectHigh \/ BisectLow
  <2> DEFINE m == Mid
  <2>1. /\ low \in Nat /\ high \in Nat /\ low < high
        /\ (high' = m /\ low' = low) \/ (low' = m + 1 /\ high' = high)
    BY <1>3, MIIAssumption DEF IInv, TypeOK, BisectHigh, BisectLow
  <2>2. m \in Nat /\ low =< m /\ m < high BY <2>1, MidBetween DEF Mid
  <2> HIDE DEF m
  <2>3. high' - low' < high - low BY <2>1, <2>2
  <2> QED BY <2>3 DEF ProgressStep
<1>4. CASE Reject \/ UntimedEdge BY <1>4 DEF Reject, UntimedEdge, Return, ProgressStep
<1>5. CASE NoEdges \/ ZeroDistanceCycle \/ Report
  BY <1>5 DEF NoEdges, ZeroDistanceCycle, Report, ProgressStep
<1>6. CASE Finished BY <1>6 DEF Finished
<1> QED BY <1>1, <1>2, <1>3, <1>4, <1>5, <1>6 DEF Next

\* Every step of MIIAnalyzer::analyze settles the status, finishes a stage or
\* shortens the bisected interval: the loop cannot run for ever.
THEOREM AnalysisProgresses == Spec => Progress
<1>1. IInv /\ [Next]_vars => [ProgressStep]_vars BY StepProgresses
<1>2. [][ProgressStep]_vars => Progress BY PTL DEF Progress, ProgressStep
<1> QED BY <1>1, <1>2, BisectionBrackets, PTL DEF Spec

-----------------------------------------------------------------------------
(* The witness                                                             *)

SrcOf == [k \in AllEdges |-> Src(k)]
DstOf == [k \in AllEdges |-> Dst(k)]
GapOf(ii) == [k \in AllEdges |-> Gap(k, ii)]

\* In round r of evaluate, before edge k: the predecessors that q names are
\* edges of ks along which each node has been raised by the one before.
Chained(q, ks, ii, r, k) ==
    /\ Used(Nodes, q.pred) \subseteq ks
    /\ \A u, v \in q.updated : u = v
    /\ Traced(Nodes, Len(dfg.edges), SrcOf, DstOf, GapOf(ii), q.longest, q.pred)
    /\ \E last : Ranked(Nodes, SrcOf, DstOf, GapOf(ii), ks, q.longest, q.pred, r, k,
                        q.updated, last)

LEMMA GraphWeighted ==
    ASSUME Wellformed, NEW ii \in Nat
    PROVE  /\ WeightedGraph(Nodes, Len(dfg.edges), SrcOf, DstOf, GapOf(ii))
           /\ AllEdges = 1 .. Len(dfg.edges)
<1>1. Len(dfg.edges) \in Nat BY DEF Wellformed
<1>2. \A k \in AllEdges : Gap(k, ii) \in Int /\ Src(k) \in Nodes /\ Dst(k) \in Nodes
  BY GapTyped
<1>3. AllEdges = 1 .. Len(dfg.edges) BY DEF AllEdges
<1>4. SrcOf \in [AllEdges -> Nodes] BY <1>2 DEF SrcOf
<1>5. DstOf \in [AllEdges -> Nodes] BY <1>2 DEF DstOf
<1>6. GapOf(ii) \in [AllEdges -> Int] BY <1>2 DEF GapOf
<1> HIDE DEF AllEdges
<1> QED BY <1>1, <1>3, <1>4, <1>5, <1>6 DEF WeightedGraph

\* Relaxing an edge keeps that.
LEMMA ChainedEdge ==
    ASSUME Wellformed, NEW ii \in Nat, NEW ks \in SUBSET AllEdges, NEW r \in Nat \ {0},
           NEW k \in AllEdges, NEW q \in Sts, Chained(q, ks, ii, r, k),
           NEW x, x = IF k \in ks THEN RelaxEdge(q, k, ii) ELSE q
    PROVE  Chained(x, ks, ii, r, k + 1)
<1>1. PICK m, src, dst, h, d, pred, U :
         /\ m = Len(dfg.edges) /\ src = SrcOf /\ dst = DstOf /\ h = GapOf(ii)
         /\ d = q.longest /\ pred = q.pred /\ U = q.updated
  OBVIOUS
<1>2. /\ WeightedGraph(Nodes, m, src, dst, h)
      /\ m \in Nat /\ k \in 1 .. m /\ ks \in SUBSET (1 .. m)
  BY <1>1, GraphWeighted DEF Wellformed
<1>3. d \in [Nodes -> Nat] /\ pred \in [Nodes -> 0 .. m] BY <1>1 DEF Sts, Times
<1>4. PICK last : Ranked(Nodes, src, dst, h, ks, d, pred, r, k, U, last)
  BY <1>1 DEF Chained
<1>5. /\ Traced(Nodes, m, src, dst, h, d, pred)
      /\ Used(Nodes, pred) \subseteq ks /\ \A u, v \in U : u = v
  BY <1>1 DEF Chained
<1>6. src[k] = Src(k) /\ dst[k] = Dst(k) /\ h[k] = Gap(k, ii)
  BY <1>1 DEF SrcOf, DstOf, GapOf
<1> DEFINE c == d[src[k]] + h[k]
           e == [d EXCEPT ![dst[k]] = c]
           p == [pred EXCEPT ![dst[k]] = k]
<1>7. k \in ks => x = IF d[dst[k]] < c
                      THEN [longest |-> e, pred |-> p, updated |-> {dst[k]}]
                      ELSE q
  BY <1>1, <1>6 DEF RelaxEdge, Src, Dst, Gap
<1>8. CASE k \in ks /\ d[dst[k]] < c
  <2>1. Traced(Nodes, m, src, dst, h, e, p) BY <1>2, <1>5, <1>8, TracedRaise
  <2>2. Ranked(Nodes, src, dst, h, ks, e, p, r, k + 1, {dst[k]}, [last EXCEPT ![dst[k]] = r])
    BY <1>2, <1>3, <1>4, <1>8, RankedRaise
  <2>3. Used(Nodes, p) \subseteq ks
    <3>1. ASSUME NEW v \in Nodes PROVE p[v] = k \/ p[v] = pred[v] BY <1>3
    <3> HIDE DEF p
    <3>2. ASSUME NEW w \in Used(Nodes, p) PROVE w \in ks
      <4>1. PICK v \in Nodes : w = p[v] /\ w # 0 BY DEF Used
      <4>2. CASE w = k BY <4>2, <1>8
      <4>3. CASE w = pred[v]
        <5>1. w \in Used(Nodes, pred) BY <4>1, <4>3 DEF Used
        <5> QED BY <5>1, <1>5
      <4> QED BY <3>1, <4>1, <4>2, <4>3
    <3> QED BY <3>2
  <2> HIDE DEF e, p
  <2>4. x.longest = e /\ x.pred = p /\ x.updated = {dst[k]} BY <1>7, <1>8
  <2>5. \A u, v \in x.updated : u = v BY <2>4
  <2> QED BY <1>1, <2>1, <2>2, <2>3, <2>4, <2>5 DEF Chained
<1>9. CASE ~(k \in ks /\ d[dst[k]] < c)
  <2>1. x = q BY <1>7, <1>9
  <2>2. k \in ks => ~(d[dst[k]] < d[src[k]] + h[k]) BY <1>9
  <2>3. Ranked(Nodes, src, dst, h, ks, d, pred, r, k + 1, U, last)
    BY <1>2, <1>3, <1>4, <2>2, RankedPass
  <2> QED BY <1>1, <1>5, <2>1, <2>3 DEF Chained
<1> QED BY <1>8, <1>9

\* A pass over the edges.
LEMMA ChainedPass ==
    ASSUME Wellformed, NEW ii \in Nat, NEW ks \in SUBSET AllEdges, NEW r \in Nat \ {0},
           NEW st \in Sts, Chained([st EXCEPT !.updated = {}], ks, ii, r, 1)
    PROVE  Chained(RelaxAll(st, ks, ii), ks, ii, r, Len(dfg.edges) + 1)
<1> DEFINE m == Len(dfg.edges)
<1>1. m \in Nat /\ AllEdges = 1 .. m BY DEF Wellformed, AllEdges
<1>2. PICK f \in [0 .. m -> Sts] : Passes(f, st, ks, ii) /\ RelaxAll(st, ks, ii) = f[m]
  BY RelaxAllSteps
<1>3. /\ f[0] = [st EXCEPT !.updated = {}]
      /\ \A k \in AllEdges : f[k] = IF k \in ks THEN RelaxEdge(f[k - 1], k, ii) ELSE f[k - 1]
  BY <1>2 DEF Passes
<1> DEFINE T == {k \in 0 .. m : Chained(f[k], ks, ii, r, k + 1)}
<1>4. 0 \in T
  <2>1. 0 + 1 = 1 /\ 0 \in 0 .. m BY <1>1
  <2> QED BY <1>3, <2>1
<1>5. ASSUME NEW k \in 1 .. m, k - 1 \in T PROVE k \in T
  <2>1. k \in AllEdges /\ k \in 0 .. m /\ k - 1 \in 0 .. m /\ (k - 1) + 1 = k BY <1>1
  <2>2. Chained(f[k - 1], ks, ii, r, k) BY <1>5, <2>1
  <2>3. f[k - 1] \in Sts BY <1>2, <2>1
  <2>4. f[k] = IF k \in ks THEN RelaxEdge(f[k - 1], k, ii) ELSE f[k - 1] BY <1>3, <2>1
  <2>5. Chained(f[k], ks, ii, r, k + 1) BY <2>1, <2>2, <2>3, <2>4, ChainedEdge
  <2> QED BY <2>1, <2>5
<1>6. m \in T
  <2> HIDE DEF T, m
  <2>1. \A k \in 1 .. m : k - 1 \in T => k \in T BY <1>5
  <2>2. m \in 0 .. m BY <1>1
  <2> QED BY <1>1, <1>4, <2>1, <2>2, Climb
<1> QED BY <1>2, <1>6

\* The next round, and the first.
LEMMA ChainedNextRound ==
    ASSUME Wellformed, NEW ii \in Nat, NEW ks \in SUBSET AllEdges, NEW r \in Nat \ {0},
           NEW st \in Sts, Chained(st, ks, ii, r, Len(dfg.edges) + 1)
    PROVE  Chained([st EXCEPT !.updated = {}], ks, ii, r + 1, 1)
<1>1. PICK m, src, dst, h, d, pred, U :
         /\ m = Len(dfg.edges) /\ src = SrcOf /\ dst = DstOf /\ h = GapOf(ii)
         /\ d = st.longest /\ pred = st.pred /\ U = st.updated
  OBVIOUS
<1>2. /\ WeightedGraph(Nodes, m, src, dst, h)
      /\ m \in Nat /\ ks \in SUBSET (1 .. m) /\ m + 1 \in Nat /\ m + 1 > m
  BY <1>1, GraphWeighted DEF Wellformed
<1>3. PICK last : Ranked(Nodes, src, dst, h, ks, d, pred, r, m + 1, U, last)
  BY <1>1 DEF Chained
<1>4. Ranked(Nodes, src, dst, h, ks, d, pred, r + 1, 1, {}, last)
  BY <1>2, <1>3, RankedRound
<1> DEFINE x == [st EXCEPT !.updated = {}]
<1>5. x.longest = d /\ x.pred = pred /\ x.updated = {} BY <1>1 DEF Sts
<1> HIDE DEF x
<1>6. Chained(x, ks, ii, r + 1, 1) BY <1>1, <1>4, <1>5 DEF Chained
<1> QED BY <1>6 DEF x

LEMMA ChainedFirstRound ==
    ASSUME Wellformed, NEW ii \in Nat, NEW ks \in SUBSET AllEdges
    PROVE  Chained([Unrelaxed EXCEPT !.updated = {}], ks, ii, 1, 1)
<1>1. PICK m, src, dst, h :
         m = Len(dfg.edges) /\ src = SrcOf /\ dst = DstOf /\ h = GapOf(ii)
  OBVIOUS
<1>2. /\ WeightedGraph(Nodes, m, src, dst, h)
      /\ m \in Nat /\ ks \in SUBSET (1 .. m)
  BY <1>1, GraphWeighted DEF Wellformed
<1> DEFINE z == [v \in Nodes |-> 0]
           x == [Unrelaxed EXCEPT !.updated = {}]
<1>3. Traced(Nodes, m, src, dst, h, z, z) BY <1>2, TracedStart
<1>4. Ranked(Nodes, src, dst, h, ks, z, z, 1, 1, {}, z) BY <1>2, RankedStart
<1>5. Used(Nodes, z) \subseteq ks BY DEF Used
<1>6. x.longest = z /\ x.pred = z /\ x.updated = {} BY DEF Unrelaxed
<1> HIDE DEF x, z
<1>7. Chained(x, ks, ii, 1, 1) BY <1>1, <1>3, <1>4, <1>5, <1>6 DEF Chained
<1> QED BY <1>7 DEF x

\* evaluate: if its last round still updates a node, all rounds were run.
LEMMA ChainedEvaluate ==
    ASSUME Wellformed, NEW ii \in Nat, NEW ks \in SUBSET AllEdges, ~Feasible(ks, ii)
    PROVE  /\ evaluate(ks, ii) \in Sts /\ evaluate(ks, ii).updated # {}
           /\ Chained(evaluate(ks, ii), ks, ii, Len(dfg.op), Len(dfg.edges) + 1)
<1> DEFINE n == Len(dfg.op)
           m == Len(dfg.edges)
<1>1. n \in Nat BY DEF Wellformed
<1>2. PICK h \in [0 .. n -> Sts] : RoundSteps(h, ks, ii) /\ evaluate(ks, ii) = h[n]
  BY EvaluateFacts
<1>3. /\ h[0] = Unrelaxed
      /\ \A r \in 1 .. n : h[r] = NextRound(h[r - 1], r, ks, ii)
  BY <1>2 DEF RoundSteps
<1> DEFINE T == {r \in 0 .. n : h[r].updated # {} => r # 0 /\ Chained(h[r], ks, ii, r, m + 1)}
<1>4. 0 \in T
  <2>1. h[0].updated = {} BY <1>3 DEF Unrelaxed
  <2> QED BY <1>1, <2>1
<1>5. ASSUME NEW r \in 1 .. n, r - 1 \in T PROVE r \in T
  <2>1. r \in 0 .. n /\ r - 1 \in 0 .. n /\ r \in Nat \ {0} /\ (r - 1) + 1 = r BY <1>1
  <2>2. h[r - 1] \in Sts BY <1>2, <2>1
  <2>3. h[r] = IF r > 1 /\ h[r - 1].updated = {} THEN h[r - 1] ELSE RelaxAll(h[r - 1], ks, ii)
    BY <1>3 DEF NextRound
  <2>4. CASE r > 1 /\ h[r - 1].updated = {} BY <2>1, <2>3, <2>4
  <2>5. CASE r = 1
    <3>1. h[r - 1] = Unrelaxed /\ h[r] = RelaxAll(h[r - 1], ks, ii) BY <1>3, <2>3, <2>5
    <3>2. Chained([h[r - 1] EXCEPT !.updated = {}], ks, ii, r, 1)
      BY <2>5, <3>1, ChainedFirstRound
    <3>3. Chained(h[r], ks, ii, r, m + 1) BY <2>1, <2>2, <3>1, <3>2, ChainedPass
    <3> QED BY <2>1, <3>3
  <2>6. CASE r > 1 /\ h[r - 1].updated # {}
    <3>1. r - 1 \in Nat \ {0} BY <2>1, <2>6
    <3>2. Chained(h[r - 1], ks, ii, r - 1, m + 1) BY <1>5, <2>6
    <3>3. Chained([h[r - 1] EXCEPT !.updated = {}], ks, ii, (r - 1) + 1, 1)
      BY <2>2, <3>1, <3>2, ChainedNextRound
    <3>4. Chained([h[r - 1] EXCEPT !.updated = {}], ks, ii, r, 1) BY <2>1, <3>3
    <3>5. h[r] = RelaxAll(h[r - 1], ks, ii) BY <2>3, <2>6
    <3>6. Chained(h[r], ks, ii, r, m + 1) BY <2>1, <2>2, <3>4, <3>5, ChainedPass
    <3> QED BY <2>1, <3>6
  <2> QED BY <1>1, <2>4, <2>5, <2>6
<1>6. n \in T
  <2> HIDE DEF T, n
  <2>1. \A k \in 1 .. n : k - 1 \in T => k \in T BY <1>5
  <2>2. n \in 0 .. n BY <1>1
  <2> QED BY <1>1, <1>4, <2>1, <2>2, Climb
<1>7. h[n].updated # {} BY <1>2 DEF Feasible
<1>8. h[n] \in Sts BY <1>1, <1>2
<1> QED BY <1>2, <1>6, <1>7, <1>8

BackAlong(pred, x) == \A k \in 0 .. Len(dfg.op) : BackIn(pred, x[0])[k] = {x[k]}

\* BackIn holds the nodes of a walk, one after the other.
LEMMA BackInWalk ==
    ASSUME Wellformed, NEW pred \in [Nodes -> 0 .. Len(dfg.edges)], NEW x,
           Reaches(Nodes, pred, x, Len(dfg.op)),
           Walks(Nodes, SrcOf, pred, x, Len(dfg.op))
    PROVE  BackAlong(pred, x)
<1> DEFINE n == Len(dfg.op)
           back == BackIn(pred, x[0])
<1>0. \A j \in 0 .. n : x[j] \in Nodes /\ (j < n => pred[x[j]] # 0) BY DEF Reaches
<1>1. n \in Nat /\ Len(dfg.edges) \in Nat BY DEF Wellformed
<1>2. back[0] = {x[0]} /\ \A k \in 1 .. n : back[k] = Before(pred, back[k - 1])
  <2>1. x[0] \in Nodes
    <3>1. 0 \in 0 .. n BY <1>1
    <3> QED BY <3>1, <1>0
  <2> QED BY <2>1, BackInSteps
<1> HIDE DEF back
<1> DEFINE T == {k \in 0 .. n : back[k] = {x[k]}}
<1>3. 0 \in T BY <1>1, <1>2
<1>4. ASSUME NEW k \in 1 .. n, k - 1 \in T PROVE k \in T
  <2>1. k \in 0 .. n /\ k - 1 \in 0 .. n /\ k - 1 < n BY <1>1
  <2>2. x[k - 1] \in Nodes /\ pred[x[k - 1]] # 0 BY <1>0, <2>1
  <2>3. x[k] = SrcOf[pred[x[k - 1]]] BY <2>2 DEF Walks
  <2>4. pred[x[k - 1]] \in AllEdges BY <1>1, <2>2 DEF AllEdges
  <2>5. x[k] = dfg.edges[pred[x[k - 1]]].src BY <2>3, <2>4 DEF SrcOf, Src
  <2>6. Before(pred, {x[k - 1]}) = {x[k]} BY <2>2, <2>5 DEF Before
  <2>7. back[k - 1] = {x[k - 1]} BY <1>4
  <2>8. back[k] = {x[k]} BY <1>2, <2>6, <2>7
  <2> QED BY <2>1, <2>8
<1>5. \A k \in 0 .. n : k \in T
  <2> HIDE DEF T, n
  <2>1. \A k \in 1 .. n : k - 1 \in T => k \in T BY <1>4
  <2> QED BY <1>1, <1>3, <2>1, Climb
<1> QED BY <1>5 DEF back, BackAlong

\* The chain that proves a recurrence: closed, met once, of edges in ks, with
\* weights that add up to more than 0.
Proves(W, ks, ii) ==
    /\ ClosedChain(SrcOf, DstOf, W) /\ W \subseteq ks
    /\ \A k, l \in W : DstOf[k] = DstOf[l] => k = l
    /\ \A g \in [0 .. Len(dfg.edges) -> Int] :
          Adds(g, GapOf(ii), W, Len(dfg.edges)) => g[Len(dfg.edges)] > 0

LEMMA WitnessProves ==
    ASSUME Wellformed, NEW ii \in Nat, NEW ks \in SUBSET AllEdges, ~Feasible(ks, ii)
    PROVE  Proves(buildWitness(evaluate(ks, ii)), ks, ii)
<1> DEFINE n == Len(dfg.op)
<1>1. PICK ev, pred, m, src, dst, h, d :
         /\ ev = evaluate(ks, ii) /\ pred = ev.pred /\ d = ev.longest
         /\ m = Len(dfg.edges) /\ src = SrcOf /\ dst = DstOf /\ h = GapOf(ii)
  OBVIOUS
<1>2. ev \in Sts /\ ev.updated # {} /\ Chained(ev, ks, ii, n, m + 1)
  BY <1>1, ChainedEvaluate
<1>3. /\ Used(Nodes, pred) \subseteq ks
      /\ \A u, v \in ev.updated : u = v
      /\ Traced(Nodes, m, src, dst, h, d, pred)
      /\ WeightedGraph(Nodes, m, src, dst, h)
  BY <1>1, <1>2, GraphWeighted DEF Chained
<1>4. PICK U, last : /\ U = ev.updated
                     /\ Ranked(Nodes, src, dst, h, ks, d, pred, n, m + 1, U, last)
  BY <1>1, <1>2 DEF Chained
<1>5. PICK v \in Nodes : U = {v}
  <2>1. PICK v \in U : TRUE BY <1>2, <1>4
  <2>2. U = {v} /\ v \in Nodes BY <1>2, <1>3, <1>4, <2>1 DEF Sts
  <2> QED BY <2>2
<1>6. pred \in [Nodes -> 0 .. m] BY <1>1, <1>2 DEF Sts
<1>7. n \in Nat /\ IsFiniteSet(Nodes) /\ Cardinality(Nodes) = n
  <2>1. n \in Nat BY DEF Wellformed
  <2>2. Nodes = 1 .. n BY DEF Nodes
  <2> HIDE DEF n
  <2>3. 1 \in Int /\ n \in Int BY <2>1
  <2>4. /\ IsFiniteSet(1 .. n)
        /\ Cardinality(1 .. n) = IF 1 > n THEN 0 ELSE n - 1 + 1
    BY <2>3, FS_Interval
  <2> QED BY <2>1, <2>2, <2>4
<1> HIDE DEF n
<1>8. PICK x : x[0] = v /\ Walks(Nodes, src, pred, x, n)
  BY <1>3, <1>6, <1>7, WalkExists
<1>9. x[0] \in U /\ x[0] \in Nodes BY <1>5, <1>8
<1>10. Reaches(Nodes, pred, x, n)
  BY <1>3, <1>4, <1>6, <1>7, <1>8, <1>9, WalkReaches, Zenon
<1>11. x[n] \in Nodes
  <2>1. n \in 0 .. n BY <1>7
  <2> QED BY <1>10, <2>1 DEF Reaches
<1>12. PICK y : y[0] = x[n] /\ Walks(Nodes, src, pred, y, n)
  BY <1>3, <1>6, <1>7, <1>11, WalkExists
<1>13. Returns(Nodes, pred, y, n)
  BY <1>3, <1>4, <1>6, <1>7, <1>8, <1>9, <1>12, WalkReturns, Zenon
<1>14. PICK p \in 1 .. n : y[p] = y[0] BY <1>13 DEF Returns
<1>15. \A j \in 0 .. n : y[j] \in Nodes /\ pred[y[j]] # 0 BY <1>13 DEF Returns
<1>16. Around(Nodes, src, pred, y, n, p) BY <1>7, <1>12, <1>14, <1>15 DEF Around
<1> DEFINE W == EdgesAround(pred, y, p)
<1>17. {pred[y[k]] : k \in 0 .. n} = W BY <1>16, AroundCovers
<1>18. /\ ClosedChain(src, dst, W) /\ W \subseteq Used(Nodes, pred)
       /\ \A k, l \in W : dst[k] = dst[l] => k = l
  BY <1>3, <1>16, AroundCloses
<1> HIDE DEF W
<1>19. \A k \in 0 .. n : BackIn(pred, x[0])[k] = {x[k]}
  <2>1. BackAlong(pred, x) BY <1>1, <1>6, <1>8, <1>10, BackInWalk DEF n
  <2> QED BY <2>1 DEF BackAlong, n
<1>20. \A k \in 0 .. n : BackIn(pred, y[0])[k] = {y[k]}
  <2>1. Reaches(Nodes, pred, y, n) BY <1>15 DEF Reaches
  <2>2. BackAlong(pred, y) BY <1>1, <1>6, <1>12, <2>1, BackInWalk DEF n
  <2> QED BY <2>2 DEF BackAlong, n
<1>21. buildWitness(ev) = W
  <2> DEFINE start == UNION {BackIn(pred, u)[n] : u \in U}
             met == UNION {UNION {BackIn(pred, z)[k] : k \in 0 .. n} : z \in start}
  <2>1. buildWitness(ev) = {pred[z] : z \in met} \ {0}
    BY <1>1, <1>4 DEF buildWitness, n
  <2>2. start = {y[0]}
    <3>1. BackIn(pred, v)[n] = {y[0]}
      <4>1. n \in 0 .. n BY <1>7
      <4> QED BY <4>1, <1>8, <1>12, <1>19
    <3> QED BY <3>1, <1>5
  <2>3. met = {y[k] : k \in 0 .. n}
    <3> HIDE DEF start
    <3>1. met = UNION {BackIn(pred, y[0])[k] : k \in 0 .. n} BY <2>2
    <3>2. {BackIn(pred, y[0])[k] : k \in 0 .. n} = {{y[k]} : k \in 0 .. n} BY <1>20
    <3>3. (UNION {{y[k]} : k \in 0 .. n}) = {y[k] : k \in 0 .. n} OBVIOUS
    <3> HIDE DEF met
    <3> QED BY <3>1, <3>2, <3>3
  <2> HIDE DEF met
  <2>4. {pred[z] : z \in met} = {pred[y[k]] : k \in 0 .. n} BY <2>3
  <2>5. 0 \notin {pred[y[k]] : k \in 0 .. n} BY <1>15
  <2> QED BY <2>1, <2>4, <2>5, <1>17
<1>22. \A g \in [0 .. m -> Int] : Adds(g, h, W, m) => g[m] > 0
  BY <1>3, <1>18 DEF Traced, PositiveChains
<1>23. W \subseteq ks BY <1>3, <1>18
<1>24. Proves(W, ks, ii) BY <1>1, <1>18, <1>22, <1>23 DEF Proves
<1> QED BY <1>1, <1>21, <1>24

DistanceOf == [k \in AllEdges |-> dfg.edges[k].distance]

\* The weights of a chain are its separations less ii times its distances.
LEMMA WeightsSplit ==
    ASSUME NEW s \in Int, NEW e \in Int, NEW t \in Int, NEW f \in Int, NEW ii \in Nat
    PROVE  (s - t * ii) + (e - f * ii) = (s + e) - (t + f) * ii
<1>1. (t + f) * ii = t * ii + f * ii OBVIOUS
<1> DEFINE x == t * ii
           y == f * ii
           z == (t + f) * ii
<1>2. x \in Int /\ y \in Int /\ z = x + y BY <1>1
<1> HIDE DEF x, y, z
<1>3. (s - x) + (e - y) = (s + e) - z BY <1>2
<1> QED BY <1>3 DEF x, y, z

LEMMA ChainWeight ==
    ASSUME Wellformed, NEW ii \in Nat, NEW W \in SUBSET AllEdges,
           NEW a \in [0 .. Len(dfg.edges) -> Nat], Adds(a, Separation, W, Len(dfg.edges)),
           NEW b \in [0 .. Len(dfg.edges) -> Nat], Adds(b, DistanceOf, W, Len(dfg.edges))
    PROVE  \E g \in [0 .. Len(dfg.edges) -> Int] :
              /\ Adds(g, GapOf(ii), W, Len(dfg.edges))
              /\ g[Len(dfg.edges)] = a[Len(dfg.edges)] - b[Len(dfg.edges)] * ii
<1> DEFINE m == Len(dfg.edges)
           g == [k \in 0 .. m |-> a[k] - b[k] * ii]
<1>1. m \in Nat /\ AllEdges = 1 .. m BY DEF Wellformed, AllEdges
<1>2. \A k \in 0 .. m : a[k] \in Nat /\ b[k] \in Nat OBVIOUS
<1>3. \A k \in 0 .. m : g[k] = a[k] - b[k] * ii OBVIOUS
<1>4. g \in [0 .. m -> Int]
  <2>1. ASSUME NEW k \in 0 .. m PROVE a[k] - b[k] * ii \in Int
    <3>1. a[k] \in Int /\ b[k] \in Int BY <1>2
    <3>2. b[k] * ii \in Int BY <3>1
    <3> QED BY <3>1, <3>2
  <2> QED BY <2>1
<1> HIDE DEF g, m
<1>5. g[0] = 0
  <2>1. 0 \in 0 .. m /\ a[0] = 0 /\ b[0] = 0 BY <1>1 DEF Adds
  <2>2. 0 - 0 * ii = 0 OBVIOUS
  <2> QED BY <1>3, <2>1, <2>2
<1>6. ASSUME NEW k \in 1 .. m
      PROVE  g[k] = g[k - 1] + (IF k \in W THEN GapOf(ii)[k] ELSE 0)
  <2>1. k \in 0 .. m /\ k - 1 \in 0 .. m /\ k \in AllEdges BY <1>1
  <2>2. /\ a[k] = a[k - 1] + (IF k \in W THEN Separation[k] ELSE 0)
        /\ b[k] = b[k - 1] + (IF k \in W THEN DistanceOf[k] ELSE 0)
    BY DEF Adds, m
  <2>3. g[k] = a[k] - b[k] * ii /\ g[k - 1] = a[k - 1] - b[k - 1] * ii BY <1>3, <2>1
  <2>4. a[k - 1] \in Int /\ b[k - 1] \in Int BY <1>2, <2>1
  <2>5. CASE k \notin W
    <3>1. a[k] = a[k - 1] /\ b[k] = b[k - 1] BY <2>2, <2>4, <2>5
    <3>2. g[k] = g[k - 1] /\ g[k - 1] \in Int BY <1>4, <2>1, <2>3, <3>1
    <3> QED BY <2>5, <3>2
  <2>6. CASE k \in W
    <3>1. Separation[k] \in Int /\ DistanceOf[k] \in Int
      BY <2>1 DEF Wellformed, Separation, DistanceOf
    <3>2. GapOf(ii)[k] = Separation[k] - DistanceOf[k] * ii
      BY <2>1 DEF GapOf, Gap, weight, Separation, DistanceOf
    <3>3. a[k] = a[k - 1] + Separation[k] /\ b[k] = b[k - 1] + DistanceOf[k] BY <2>2, <2>6
    <3>4. (a[k - 1] - b[k - 1] * ii) + (Separation[k] - DistanceOf[k] * ii)
            = (a[k - 1] + Separation[k]) - (b[k - 1] + DistanceOf[k]) * ii
      BY <2>4, <3>1, WeightsSplit
    <3>5. g[k] = (a[k - 1] + Separation[k]) - (b[k - 1] + DistanceOf[k]) * ii
      BY <2>3, <3>3, Zenon
    <3>6. g[k] = g[k - 1] + GapOf(ii)[k] BY <2>3, <3>2, <3>4, <3>5, Zenon
    <3> QED BY <2>6, <3>6, Zenon
  <2> QED BY <2>5, <2>6
<1>7. Adds(g, GapOf(ii), W, m) BY <1>5, <1>6 DEF Adds
<1>8. g[m] = a[m] - b[m] * ii
  <2>1. m \in 0 .. m BY <1>1
  <2> QED BY <1>3, <2>1
<1> QED BY <1>4, <1>7, <1>8 DEF m

\* What WitnessDecides says of the edges W, as formulas of the graph alone.
SeparationIn(W) == SumOf(Separation, W, Len(dfg.edges))
DistanceIn(W) == SumOf([k \in AllEdges |-> dfg.edges[k].distance], W, Len(dfg.edges))

ClosedOnce(W) ==
    /\ W # {}
    /\ {dfg.edges[k].src : k \in W} = {dfg.edges[k].dst : k \in W}
    /\ Cardinality({dfg.edges[k].src : k \in W}) = Cardinality(W)

LEMMA ProvesClosed ==
    ASSUME Wellformed, NEW ii, NEW ks \in SUBSET AllEdges, NEW W, Proves(W, ks, ii)
    PROVE  ClosedOnce(W)
<1>1. /\ W # {} /\ {SrcOf[k] : k \in W} = {DstOf[k] : k \in W} /\ W \subseteq AllEdges
      /\ \A k, l \in W : DstOf[k] = DstOf[l] => k = l
  BY DEF Proves, ClosedChain
<1>2. \A k \in W : SrcOf[k] = dfg.edges[k].src /\ DstOf[k] = dfg.edges[k].dst
  BY <1>1 DEF SrcOf, DstOf, Src, Dst
<1>3. {dfg.edges[k].src : k \in W} = {SrcOf[k] : k \in W} BY <1>2
<1>4. {dfg.edges[k].dst : k \in W} = {DstOf[k] : k \in W} BY <1>2
<1>5. Cardinality({DstOf[k] : k \in W}) = Cardinality(W)
  <2> DEFINE D == {DstOf[k] : k \in W}
             f == [k \in W |-> DstOf[k]]
  <2>1. f \in Bijection(W, D) BY <1>1 DEF Bijection, Injection, Surjection, IsInjective
  <2>2. IsFiniteSet(W)
    <3>1. Len(dfg.edges) \in Nat BY DEF Wellformed
    <3>2. IsFiniteSet(1 .. Len(dfg.edges)) BY <3>1, FS_Interval
    <3>3. W \in SUBSET (1 .. Len(dfg.edges)) BY <1>1 DEF AllEdges
    <3> QED BY <3>2, <3>3, FS_Subset
  <2> HIDE DEF D, f
  <2>3. ExistsBijection(W, D) BY <2>1 DEF ExistsBijection
  <2>4. Cardinality(D) = Cardinality(W) BY <2>2, <2>3, FS_Bijection
  <2> QED BY <2>4 DEF D
<1> QED BY <1>1, <1>3, <1>4, <1>5 DEF ClosedOnce

LEMMA ProvesBound ==
    ASSUME Wellformed, NEW ii \in Nat, NEW W, Proves(W, AllEdges, ii)
    PROVE  SeparationIn(W) > DistanceIn(W) * ii
<1> DEFINE m == Len(dfg.edges)
<1>1. m \in Nat BY DEF Wellformed
<1>2. W \in SUBSET AllEdges BY DEF Proves
<1>3. PICK a \in [0 .. m -> Nat] : Adds(a, Separation, W, m) /\ SeparationIn(W) = a[m]
  <2>1. \A k \in 1 .. m : Separation[k] \in Nat BY DEF Wellformed, AllEdges, Separation
  <2> QED BY <1>1, <2>1, SumSteps DEF SeparationIn
<1>4. PICK b \in [0 .. m -> Nat] : Adds(b, DistanceOf, W, m) /\ DistanceIn(W) = b[m]
  <2>1. \A k \in 1 .. m : DistanceOf[k] \in Nat BY DEF Wellformed, AllEdges, DistanceOf
  <2>2. DistanceIn(W) = SumOf(DistanceOf, W, m) BY DEF DistanceIn, DistanceOf
  <2> QED BY <1>1, <2>1, <2>2, SumSteps
<1>5. PICK g \in [0 .. m -> Int] :
         Adds(g, GapOf(ii), W, m) /\ g[m] = a[m] - b[m] * ii
  BY <1>2, <1>3, <1>4, ChainWeight
<1>6. g[m] > 0 BY <1>5 DEF Proves
<1>7. a[m] \in Int /\ b[m] * ii \in Int
  <2>1. m \in 0 .. m BY <1>1
  <2>2. a[m] \in Nat /\ b[m] \in Nat BY <1>3, <1>4, <2>1
  <2> QED BY <2>2
<1> DEFINE x == a[m]
           y == b[m] * ii
<1>8. x \in Int /\ y \in Int /\ x - y > 0 BY <1>5, <1>6, <1>7
<1> HIDE DEF x, y
<1>9. x > y BY <1>8
<1> QED BY <1>3, <1>4, <1>9 DEF x, y

LEMMA ZeroDistanceSum ==
    ASSUME Wellformed, NEW W \in SUBSET ZeroDistance
    PROVE  DistanceIn(W) = 0
<1> DEFINE m == Len(dfg.edges)
<1>1. m \in Nat BY DEF Wellformed
<1>2. PICK b \in [0 .. m -> Nat] : Adds(b, DistanceOf, W, m) /\ DistanceIn(W) = b[m]
  <2>1. \A k \in 1 .. m : DistanceOf[k] \in Nat BY DEF Wellformed, AllEdges, DistanceOf
  <2>2. DistanceIn(W) = SumOf(DistanceOf, W, m) BY DEF DistanceIn, DistanceOf
  <2> QED BY <1>1, <2>1, <2>2, SumSteps
<1>3. \A k \in W : DistanceOf[k] = 0 BY DEF DistanceOf, ZeroDistance
<1> DEFINE T == {k \in 0 .. m : b[k] = 0}
<1>4. 0 \in T BY <1>1, <1>2 DEF Adds
<1>5. ASSUME NEW k \in 1 .. m, k - 1 \in T PROVE k \in T
  <2>1. b[k] = b[k - 1] + (IF k \in W THEN DistanceOf[k] ELSE 0) BY <1>2 DEF Adds
  <2>2. b[k] = 0 BY <1>3, <1>5, <2>1
  <2>3. k \in 0 .. m BY <1>1
  <2> QED BY <2>2, <2>3
<1>6. m \in T
  <2> HIDE DEF T, m
  <2>1. \A k \in 1 .. m : k - 1 \in T => k \in T BY <1>5
  <2>2. m \in 0 .. m BY <1>1
  <2> QED BY <1>1, <1>4, <2>1, <2>2, Climb
<1> QED BY <1>2, <1>6

\* The witness of an interval that the recurrences rule out.
LEMMA ReportWitness ==
    ASSUME IInv, high > 0, low > 1
    PROVE  LET W == buildWitness(evaluate(AllEdges, low - 1))
           IN  ClosedOnce(W) /\ SeparationIn(W) > DistanceIn(W) * (low - 1)
<1> DEFINE ii == low - 1
           W == buildWitness(evaluate(AllEdges, ii))
<1>1. Wellformed /\ low \in Nat
  BY MIIAssumption, GraphsAreWellformed DEF IInv, TypeOK
<1>2. ii \in Nat /\ ii \in 1 .. low - 1 BY <1>1
<1>3. NoTimesBelow(low) /\ Nodes # {} BY DEF IInv
<1>4. ~Feasible(AllEdges, ii)
  <2> SUFFICES ASSUME Feasible(AllEdges, ii) PROVE FALSE OBVIOUS
  <2> HIDE DEF ii
  <2>1. AllEdges \in SUBSET AllEdges OBVIOUS
  <2>2. PICK t \in Times : Meets(t, AllEdges, ii) BY <1>1, <1>2, <1>3, <2>1, EvaluateRejects
  <2>3. TimesLegal(ii, t) BY <1>1, <1>2, <2>2, LegalIsMet
  <2> QED BY <1>2, <1>3, <2>3 DEF NoTimesBelow
<1>5. AllEdges \in SUBSET AllEdges OBVIOUS
<1> HIDE DEF ii
<1>6. Proves(W, AllEdges, ii) BY <1>1, <1>2, <1>4, <1>5, WitnessProves
<1> HIDE DEF W
<1>7. ClosedOnce(W) BY <1>1, <1>5, <1>6, ProvesClosed
<1>8. SeparationIn(W) > DistanceIn(W) * ii BY <1>1, <1>2, <1>6, ProvesBound
<1> QED BY <1>7, <1>8 DEF W, ii

\* The graph does not change, and what is said of its edges neither.
LEMMA ChainKept ==
    ASSUME UNCHANGED dfg, NEW W
    PROVE  /\ SeparationIn(W)' = SeparationIn(W)
           /\ DistanceIn(W)' = DistanceIn(W)
           /\ ClosedOnce(W)' <=> ClosedOnce(W)
<1>1. AllEdges' = AllEdges BY DEF AllEdges
<1>2. Separation' = Separation BY <1>1 DEF Separation
<1>3. [k \in AllEdges |-> dfg.edges[k].distance]' = [k \in AllEdges |-> dfg.edges[k].distance]
  BY <1>1
<1>4. SeparationIn(W)' = SeparationIn(W) BY <1>2 DEF SeparationIn
<1>5. DistanceIn(W)' = DistanceIn(W) BY <1>3 DEF DistanceIn
<1>6. ClosedOnce(W)' <=> ClosedOnce(W) BY DEF ClosedOnce
<1> QED BY <1>4, <1>5, <1>6

\* WitnessDecides, of given values.
Decides(s, b, W) ==
    (s = "zero_distance_cycle" \/ (s = "success" /\ b > 1)) =>
        /\ ClosedOnce(W)
        /\ IF s = "success" THEN SeparationIn(W) > DistanceIn(W) * (b - 1)
                            ELSE DistanceIn(W) = 0

LEMMA DecidesKept ==
    ASSUME UNCHANGED dfg, Decides(status', recurrenceMII', witness')
    PROVE  WitnessDecides'
<1>1. PICK s, b, W : s = status' /\ b = recurrenceMII' /\ W = witness' OBVIOUS
<1>2. Decides(s, b, W) BY <1>1
<1>3. Decides(s, b, W)'
  <2>1. /\ SeparationIn(W)' = SeparationIn(W)
        /\ DistanceIn(W)' = DistanceIn(W)
        /\ ClosedOnce(W)' <=> ClosedOnce(W)
    BY ChainKept
  <2> QED BY <1>2, <2>1 DEF Decides
<1>4. Decides(status, recurrenceMII, witness)' BY <1>1, <1>3
<1> QED BY <1>4 DEF Decides, WitnessDecides, ClosedOnce, SeparationIn, DistanceIn,
                    WitnessSeparation, WitnessDistance

LEMMA StepDecides ==
    ASSUME IInv, WitnessDecides, [Next]_vars
    PROVE  WitnessDecides'
<1>1. Decides(status, recurrenceMII, witness)
  BY DEF Decides, WitnessDecides, ClosedOnce, SeparationIn, DistanceIn,
         WitnessSeparation, WitnessDistance
<1>2. CASE Report
  <2>1. /\ UNCHANGED dfg /\ recurrenceMII' = low /\ status' = "success" /\ high > 0
        /\ witness' = IF low > 1 THEN buildWitness(evaluate(AllEdges, low - 1)) ELSE {}
    BY <1>2 DEF Report, Bisecting
  <2> DEFINE W == buildWitness(evaluate(AllEdges, low - 1))
  <2>2. low > 1 => ClosedOnce(W) /\ SeparationIn(W) > DistanceIn(W) * (low - 1)
    BY <2>1, ReportWitness
  <2>3. low > 1 => witness' = W BY <2>1
  <2> HIDE DEF W
  <2>4. Decides(status', recurrenceMII', witness') BY <2>1, <2>2, <2>3 DEF Decides
  <2> QED BY <2>1, <2>4, DecidesKept
<1>3. CASE ZeroDistanceCycle
  <2> DEFINE W == buildWitness(evaluate(ZeroDistance, 0))
  <2>1. /\ UNCHANGED dfg /\ status' = "zero_distance_cycle" /\ witness' = W
        /\ ~Feasible(ZeroDistance, 0)
    BY <1>3 DEF ZeroDistanceCycle
  <2>2. Wellformed BY GraphsAreWellformed DEF IInv, TypeOK
  <2>3. ZeroDistance \in SUBSET AllEdges /\ 0 \in Nat BY DEF ZeroDistance
  <2>4. Proves(W, ZeroDistance, 0) BY <2>1, <2>2, <2>3, WitnessProves
  <2> HIDE DEF W
  <2>5. ClosedOnce(W) BY <2>2, <2>3, <2>4, ProvesClosed
  <2>6. W \in SUBSET ZeroDistance BY <2>4 DEF Proves
  <2>7. DistanceIn(W) = 0 BY <2>2, <2>6, ZeroDistanceSum
  <2>8. Decides(status', recurrenceMII', witness') BY <2>1, <2>5, <2>7 DEF Decides
  <2> QED BY <2>1, <2>8, DecidesKept
<1>4. CASE NoEdges
  <2>1. UNCHANGED dfg /\ recurrenceMII' = 1 /\ status' = "success" BY <1>4 DEF NoEdges
  <2>2. Decides(status', recurrenceMII', witness') BY <2>1 DEF Decides
  <2> QED BY <2>1, <2>2, DecidesKept
<1>5. ASSUME NEW s \in {"no_compatible_resource", "contract_error", "overflow",
                        "internal_error"}, Return(s)
      PROVE  WitnessDecides'
  <2>1. UNCHANGED dfg /\ status' = s BY <1>5 DEF Return
  <2>2. Decides(status', recurrenceMII', witness') BY <2>1 DEF Decides
  <2> QED BY <2>1, <2>2, DecidesKept
<1>6. ASSUME UNCHANGED <<dfg, status, recurrenceMII, witness>> PROVE WitnessDecides'
  BY <1>1, <1>6, DecidesKept
<1>7. CASE Reject BY <1>5, <1>7 DEF Reject
<1>8. CASE UntimedEdge BY <1>5, <1>8 DEF UntimedEdge
<1>9. CASE BoundResources BY <1>5, <1>6, <1>9 DEF BoundResources
<1>10. CASE StartBisection BY <1>5, <1>6, <1>10 DEF StartBisection
<1>11. CASE BisectHigh BY <1>6, <1>11 DEF BisectHigh
<1>12. CASE BisectLow BY <1>6, <1>12 DEF BisectLow
<1>13. CASE Finished \/ UNCHANGED vars BY <1>6, <1>13 DEF Finished, vars
<1> QED BY <1>2, <1>3, <1>4, <1>7, <1>8, <1>9, <1>10, <1>11, <1>12, <1>13 DEF Next

\* Whenever a recurrence decides the result of MIIAnalyzer::analyze, the
\* critical recurrence that it reports is a closed chain of edges that by
\* itself rules out the next smaller interval, or every interval when its
\* distances are 0.
THEOREM WitnessIsCritical == Spec => []WitnessDecides
<1>1. Init => WitnessDecides BY DEF Init, WitnessDecides
<1>2. IInv /\ WitnessDecides /\ [Next]_vars => WitnessDecides' BY StepDecides
<1> QED BY <1>1, <1>2, BisectionBrackets, PTL DEF Spec
=============================================================================
