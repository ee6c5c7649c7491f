------------------------- MODULE ModuloMapperProofs -------------------------
(***************************************************************************)
(* For every target DFG, mesh, budget and answer of the callback: the      *)
(* reservations are exactly what is placed and routed through any number   *)
(* of backtracks, the verifier agrees with a complete mapping, "no mapping *)
(* exists" is only said after every interval was searched to its end, and  *)
(* the budgets hold.                                                       *)
(***************************************************************************)
EXTENDS ModuloMapper, NumberLemmas, FiniteSetTheorems, TLAPS

-----------------------------------------------------------------------------
(* The inductive invariant                                                 *)

Classes == {job.class[n] : n \in NodesOf(job)}
Tiles == UNION {job.tiles[n] : n \in NodesOf(job)}
Slots == [tile : Tiles, slot : Nat]
Resources == (Classes \cup {"Link"}) \X (Tiles \cup LinkNames) \X Nat
Routed == [edge : EdgesOf(job), resources : SUBSET Resources]
Frames == [node : NodesOf(job), left : SUBSET Slots,
           delta : [node : SUBSET Resources, edges : Seq(Routed)]]
Counts == [attempts : Nat, backtracks : Nat, routes : Nat]

Outcomes == {"none", "success", "exhausted", "per_ii_budget",
             "budget_exceeded", "route_budget_exceeded",
             "verification_failure", "internal_error"}

Shape ==
    /\ job \in Jobs
    /\ ii \in Nat
    /\ limits \in Counts /\ stats \in Counts
    /\ stack \in Seq(Frames)
    /\ pending \subseteq EdgesOf(job) /\ DOMAIN dependences \subseteq EdgesOf(job)
    /\ mode \in {"map", "search", "candidates", "edges", "return", "done"}
    /\ outcome \in Outcomes
    /\ outcomes \in [DOMAIN outcomes -> Outcomes]

\* Where the search is says what the stack and the pending edges hold.
Control ==
    /\ mode \in {"candidates", "edges"} => stack # <<>>
    /\ mode \in {"map", "done"} => stack = <<>>
    /\ mode # "edges" => pending = {}
    /\ outcome = "success" => mode \in {"return", "done"}
    /\ mode \notin {"map", "done"} => ii > 0
    /\ ii =< maxII

\* A node is on the stack once, and a frame tries slots its node may take.
FramesApart ==
    \A i, k \in DOMAIN stack : stack[i].node = stack[k].node => i = k

CandidatesFit ==
    \A i \in DOMAIN stack : stack[i].left \subseteq candidates(stack[i].node)

PlacementsFit ==
    \A n \in DOMAIN placements :
        /\ n \in NodesOf(job)
        /\ placements[n] \in candidates(n)

\* Every frame is placed but the one that is choosing a candidate.
Depth == IF mode = "candidates" THEN Len(stack) - 1 ELSE Len(stack)

NodesUpTo(k) == {stack[i].node : i \in 1 .. k}
EdgesUpTo(k) ==
    {e \in EdgesOf(job) : /\ job.edges[e].src \in NodesUpTo(k)
                          /\ job.edges[e].dst \in NodesUpTo(k)}

\* A delta is what its candidate reserved, and names what is realised.
Recorded(i) ==
    /\ stack[i].node \in DOMAIN placements
    /\ stack[i].delta.node = FootprintOf(stack[i].node)
    /\ \A k \in DOMAIN stack[i].delta.edges :
          LET d == stack[i].delta.edges[k]
          IN  d.edge \in DOMAIN dependences /\ d.resources = dependences[d.edge]

DeltasRecord ==
    /\ mode = "candidates" => Top.delta = NoDelta
    /\ \A i \in 1 .. Depth : Recorded(i)

\* Until a mapping is accepted, what is placed and realised is what the frames
\* placed and realised: undoing all of them empties the search state.
StackAccounts ==
    outcome # "success" =>
        /\ DOMAIN placements = NodesUpTo(Depth)
        /\ DOMAIN dependences = EdgesUpTo(Depth) \ pending
        /\ \A e \in pending : e \in EdgesUpTo(Depth) \cap Touching(Top.node)
        /\ \A i \in 1 .. Depth :
              EdgesOfDelta(stack[i].delta) =
                  (EdgesUpTo(i) \cap Touching(stack[i].node)) \ pending

\* The table holds what is placed and routed, under its owner's name.
TableExact ==
    /\ DOMAIN owners =
          (UNION {FootprintOf(n) : n \in DOMAIN placements})
            \cup (UNION {dependences[e] : e \in DOMAIN dependences})
    /\ \A n \in DOMAIN placements :
          \A r \in FootprintOf(n) : owners[r] = <<"Node", n>>
    /\ \A e \in DOMAIN dependences :
          \A r \in dependences[e] : owners[r] = <<"Edge", e>>

\* Intervals are searched in order, and only what ends one that is retried at
\* the next is on record while the search goes on.
History ==
    /\ mode # "done" =>
          /\ status = "running"
          /\ \A i \in DOMAIN outcomes : outcomes[i] \in {"exhausted", "per_ii_budget"}
    /\ mode = "map" => \/ DOMAIN outcomes = {}
                       \/ startII =< ii /\ DOMAIN outcomes = startII .. ii
    /\ mode \notin {"map", "done"} =>
          startII =< ii /\ DOMAIN outcomes = startII .. ii - 1

Shares ==
    /\ limits.attempts =< job.maxAttempts
    /\ limits.backtracks =< job.maxBacktracks
    /\ limits.routes =< job.maxRoutes

SearchInv == FramesApart /\ CandidatesFit /\ PlacementsFit /\ DeltasRecord
               /\ StackAccounts /\ TableExact

CoreInv == Shape /\ Control /\ SearchInv
Ledger == History /\ NoMappingIsHonest /\ Shares /\ BudgetsHold

IInv == CoreInv /\ Ledger

-----------------------------------------------------------------------------
(* Sequences, least elements and the choice of a node                      *)

\* What Front, Last and Append do to the frames of a stack that is not empty.
LEMMA FrontFacts ==
    ASSUME NEW S, NEW s \in Seq(S), s # <<>>
    PROVE  /\ Len(s) \in Nat \ {0} /\ DOMAIN s = 1 .. Len(s)
           /\ Last(s) = s[Len(s)] /\ Last(s) \in S
           /\ Front(s) \in Seq(S) /\ Len(Front(s)) = Len(s) - 1
           /\ DOMAIN Front(s) = 1 .. Len(s) - 1
           /\ \A i \in 1 .. Len(s) - 1 : Front(s)[i] = s[i]
<1>1. Len(s) \in Nat \ {0} /\ DOMAIN s = 1 .. Len(s) OBVIOUS
<1>2. Last(s) = s[Len(s)] /\ s[Len(s)] \in S BY <1>1 DEF Last
<1>3. Front(s) = SubSeq(s, 1, Len(s) - 1) BY DEF Front
<1> QED BY <1>1, <1>2, <1>3

\* Replacing the top of a stack.
LEMMA ReplaceTop ==
    ASSUME NEW S, NEW s \in Seq(S), s # <<>>, NEW f \in S
    PROVE  /\ Append(Front(s), f) \in Seq(S)
           /\ Len(Append(Front(s), f)) = Len(s)
           /\ DOMAIN Append(Front(s), f) = 1 .. Len(s)
           /\ \A i \in 1 .. Len(s) - 1 : Append(Front(s), f)[i] = s[i]
           /\ Append(Front(s), f)[Len(s)] = f
           /\ Append(Front(s), f) # <<>>
<1>1. /\ Len(s) \in Nat \ {0}
      /\ Front(s) \in Seq(S) /\ Len(Front(s)) = Len(s) - 1
      /\ \A i \in 1 .. Len(s) - 1 : Front(s)[i] = s[i]
  BY FrontFacts
<1> DEFINE t == Append(Front(s), f)
<1>2. /\ t \in Seq(S) /\ Len(t) = Len(Front(s)) + 1
      /\ t[Len(Front(s)) + 1] = f
      /\ \A i \in 1 .. Len(Front(s)) : t[i] = Front(s)[i]
  BY <1>1
<1> HIDE DEF t
<1>3. Len(t) = Len(s) /\ t[Len(s)] = f BY <1>1, <1>2
<1>4. DOMAIN t = 1 .. Len(s) BY <1>2, <1>3
<1>5. t # <<>> BY <1>1, <1>3
<1>6. \A i \in 1 .. Len(s) - 1 : t[i] = s[i] BY <1>1, <1>2
<1> QED BY <1>2, <1>3, <1>4, <1>5, <1>6 DEF t

LEMMA AppendFacts ==
    ASSUME NEW S, NEW s \in Seq(S), NEW x \in S
    PROVE  /\ Append(s, x) \in Seq(S) /\ Len(Append(s, x)) = Len(s) + 1
           /\ DOMAIN Append(s, x) = 1 .. Len(s) + 1
           /\ \A i \in 1 .. Len(s) : Append(s, x)[i] = s[i]
           /\ Append(s, x)[Len(s) + 1] = x
<1>1. Append(s, x) \in Seq(S) /\ Len(Append(s, x)) = Len(s) + 1 OBVIOUS
<1>2. DOMAIN Append(s, x) = 1 .. Len(s) + 1 BY <1>1
<1> QED BY <1>1, <1>2

LEMMA ExceptFacts ==
    ASSUME NEW S, NEW s \in Seq(S), NEW k \in 1 .. Len(s), NEW x \in S
    PROVE  /\ [s EXCEPT ![k] = x] \in Seq(S)
           /\ Len([s EXCEPT ![k] = x]) = Len(s)
           /\ DOMAIN [s EXCEPT ![k] = x] = 1 .. Len(s)
           /\ \A i \in 1 .. Len(s) : [s EXCEPT ![k] = x][i] = IF i = k THEN x ELSE s[i]
<1>1. DOMAIN s = 1 .. Len(s) /\ Len(s) \in Nat OBVIOUS
<1>2. \A i \in 1 .. Len(s) : [s EXCEPT ![k] = x][i] = IF i = k THEN x ELSE s[i]
  BY <1>1
<1>3. DOMAIN [s EXCEPT ![k] = x] = 1 .. Len(s) BY <1>1
<1>4. [s EXCEPT ![k] = x] \in Seq(S) /\ Len([s EXCEPT ![k] = x]) = Len(s)
  OBVIOUS
<1> QED BY <1>2, <1>3, <1>4

\* A bounded measure is largest on some of the elements, and smaller on the rest.
LEMMA LargestMeasure ==
    ASSUME NEW S, S # {}, NEW f \in [S -> Int], NEW b \in Int,
           \A x \in S : f[x] =< b
    PROVE  \E T \in SUBSET S : /\ T # {}
                               /\ \A x, y \in T : f[x] = f[y]
                               /\ \A x \in T, y \in S \ T : f[x] > f[y]
<1> DEFINE D == {b - f[x] : x \in S}
<1>1. D \in SUBSET Nat /\ D # {} OBVIOUS
<1> HIDE DEF D
<1>2. PICK t \in D : \A u \in D : t =< u BY <1>1, LeastNatural
<1>3. PICK x \in S : t = b - f[x] BY <1>2 DEF D
<1>4. ASSUME NEW y \in S PROVE f[y] =< f[x]
  <2>1. b - f[y] \in D BY <1>4 DEF D
  <2> QED BY <2>1, <1>2, <1>3, <1>4
<1> DEFINE T == {y \in S : f[y] = f[x]}
<1>5. T \in SUBSET S /\ x \in T /\ \A y, z \in T : f[y] = f[z] BY <1>3
<1>6. \A y \in T, z \in S \ T : f[y] > f[z] BY <1>3, <1>4
<1> QED BY <1>5, <1>6

\* Counting incident edges gives naturals, at most as many as there are edges.
LEMMA PriorityType ==
    ASSUME JobOK(job)
    PROVE  \A n \in NodesOf(job) :
              /\ DOMAIN Priority(n) = 1 .. 5
              /\ \A i \in 1 .. 5 :
                    /\ Priority(n)[i] \in Int
                    /\ Priority(n)[i] =< Cardinality(EdgesOf(job))
              /\ Priority(n)[5] = -n
<1> DEFINE E == EdgesOf(job)
<1>1. Cardinality(E) \in Nat BY FS_CardinalityType DEF JobOK
<1>2. ASSUME NEW X \in SUBSET E
      PROVE  Cardinality(X) \in Nat /\ Cardinality(X) =< Cardinality(E)
  BY <1>2, FS_Subset, FS_CardinalityType DEF JobOK
<1> SUFFICES ASSUME NEW n \in NodesOf(job)
             PROVE  /\ DOMAIN Priority(n) = 1 .. 5
                    /\ \A i \in 1 .. 5 :
                          /\ Priority(n)[i] \in Int
                          /\ Priority(n)[i] =< Cardinality(E)
                    /\ Priority(n)[5] = -n
  OBVIOUS
<1> DEFINE X1 == {e \in Touching(n) :
                     /\ job.edges[e].dst = n /\ job.edges[e].src # n
                     /\ job.edges[e].distance = 0 /\ job.edges[e].kind # "Memory"
                     /\ job.edges[e].src \in Unmapped}
           X2 == {e \in Touching(n) : Other(e, n) \notin Unmapped}
           X3 == Touching(n)
           X4 == {e \in Touching(n) : job.edges[e].distance # 0}
<1>3. /\ X1 \in SUBSET E /\ X2 \in SUBSET E /\ X3 \in SUBSET E /\ X4 \in SUBSET E
  BY DEF Touching
<1>4. Priority(n) = <<-Cardinality(X1), Cardinality(X2), Cardinality(X3),
                      Cardinality(X4), -n>>
  BY DEF Priority, unmappedInputs
<1> HIDE DEF X1, X2, X3, X4, E
<1>5. PICK c1, c2, c3, c4 \in Nat :
         /\ c1 = Cardinality(X1) /\ c2 = Cardinality(X2)
         /\ c3 = Cardinality(X3) /\ c4 = Cardinality(X4)
         /\ c1 =< Cardinality(E) /\ c2 =< Cardinality(E)
         /\ c3 =< Cardinality(E) /\ c4 =< Cardinality(E)
  BY <1>2, <1>3
<1>6. n \in Nat BY DEF JobOK
<1>7. Priority(n) = <<-c1, c2, c3, c4, -n>> BY <1>4, <1>5
<1> QED BY <1>1, <1>5, <1>6, <1>7

\* The lexicographic maximum of five bounded measures, the last one injective.
LEMMA SelectExists ==
    ASSUME JobOK(job), Unmapped # {}
    PROVE  \E n \in Unmapped :
               \A m \in Unmapped \ {n} : Higher(Priority(n), Priority(m))
<1> DEFINE b == Cardinality(EdgesOf(job))
           P(n, i) == Priority(n)[i]
<1>1. \A n \in Unmapped : /\ DOMAIN Priority(n) = 1 .. 5
                          /\ \A i \in 1 .. 5 : P(n, i) \in Int /\ P(n, i) =< b
                          /\ P(n, 5) = -n /\ n \in Nat
  <2>1. Unmapped \subseteq NodesOf(job) /\ NodesOf(job) \subseteq Nat
    BY DEF Unmapped, JobOK
  <2> QED BY <2>1, PriorityType
<1>2. b \in Int BY FS_CardinalityType DEF JobOK
<1> HIDE DEF b, P
<1> DEFINE Leads(T, S, i) == /\ T # {}
                             /\ \A x, y \in T : P(x, i) = P(y, i)
                             /\ \A x \in T, y \in S \ T : P(x, i) > P(y, i)
<1>3. ASSUME NEW S \in SUBSET Unmapped, S # {}, NEW i \in 1 .. 5
      PROVE  \E T \in SUBSET S : Leads(T, S, i)
  <2> DEFINE f == [x \in S |-> P(x, i)]
  <2>1. f \in [S -> Int] /\ \A x \in S : f[x] =< b BY <1>1, <1>3
  <2> HIDE DEF f
  <2>2. PICK T \in SUBSET S : /\ T # {}
                              /\ \A x, y \in T : f[x] = f[y]
                              /\ \A x \in T, y \in S \ T : f[x] > f[y]
    BY <1>2, <1>3, <2>1, LargestMeasure
  <2> QED BY <2>2 DEF f
<1> HIDE DEF Leads
<1>4. PICK S1 \in SUBSET Unmapped : Leads(S1, Unmapped, 1) BY <1>3
<1>5. PICK S2 \in SUBSET S1 : Leads(S2, S1, 2)
  <2>1. S1 \in SUBSET Unmapped /\ S1 # {} BY <1>4 DEF Leads
  <2> QED BY <1>3, <2>1
<1>6. PICK S3 \in SUBSET S2 : Leads(S3, S2, 3)
  <2>1. S2 \in SUBSET Unmapped /\ S2 # {} BY <1>4, <1>5 DEF Leads
  <2> QED BY <1>3, <2>1
<1>7. PICK S4 \in SUBSET S3 : Leads(S4, S3, 4)
  <2>1. S3 \in SUBSET Unmapped /\ S3 # {} BY <1>4, <1>5, <1>6 DEF Leads
  <2> QED BY <1>3, <2>1
<1>8. PICK S5 \in SUBSET S4 : Leads(S5, S4, 5)
  <2>1. S4 \in SUBSET Unmapped /\ S4 # {} BY <1>4, <1>5, <1>6, <1>7 DEF Leads
  <2> QED BY <1>3, <2>1
<1> USE DEF Leads
<1>9. PICK n \in S5 : TRUE BY <1>8
<1>10. ASSUME NEW m \in Unmapped \ {n} PROVE Higher(Priority(n), Priority(m))
  <2>1. n \in S1 /\ n \in S2 /\ n \in S3 /\ n \in S4 /\ n \in Unmapped
    BY <1>4, <1>5, <1>6, <1>7, <1>8, <1>9
  <2>2. m \notin S5
    <3>1. P(n, 5) = -n /\ P(m, 5) = -m /\ n \in Nat /\ m \in Nat
      BY <1>1, <1>10, <2>1
    <3> QED BY <3>1, <1>8, <1>9, <1>10
  <2>3. \E i \in 1 .. 5 : P(n, i) > P(m, i) /\ \A k \in 1 .. i - 1 : P(n, k) = P(m, k)
    <3>1. CASE m \notin S1 BY <3>1, <2>1, <1>4, <1>10
    <3>2. CASE m \in S1 \ S2 BY <3>2, <2>1, <1>4, <1>5
    <3>3. CASE m \in S2 \ S3 BY <3>3, <2>1, <1>4, <1>5, <1>6
    <3>4. CASE m \in S3 \ S4 BY <3>4, <2>1, <1>4, <1>5, <1>6, <1>7
    <3>5. CASE m \in S4 BY <3>5, <2>1, <2>2, <1>4, <1>5, <1>6, <1>7, <1>8, <1>9
    <3> QED BY <3>1, <3>2, <3>3, <3>4, <3>5
  <2> QED BY <2>3, <1>1, <2>1 DEF Higher, P
<1> QED BY <1>4, <1>5, <1>6, <1>7, <1>8, <1>9, <1>10

\* search() always finds a node to place next, and it is one not yet placed.
LEMMA SelectNodeIsUnmapped ==
    ASSUME JobOK(job), Unmapped # {}
    PROVE  selectNode \in Unmapped
BY SelectExists DEF selectNode

-----------------------------------------------------------------------------
(* The parts of a step that keep the search state in order                 *)

LEMMA JobFacts ==
    ASSUME job \in Jobs
    PROVE  /\ JobOK(job)
           /\ startII \in Nat \ {0} /\ maxII \in Nat
<1>1. JobOK(job) BY MapperAssumption
<1> QED BY <1>1 DEF JobOK, startII, maxII

\* The nodes and edges below a depth are those of the frames below it.
LEMMA PrefixSame ==
    ASSUME NEW d \in Nat, job' = job,
           \A i \in 1 .. d : stack'[i].node = stack[i].node
    PROVE  /\ NodesUpTo(d)' = NodesUpTo(d)
           /\ EdgesUpTo(d)' = EdgesUpTo(d)
<1>1. NodesUpTo(d)' = NodesUpTo(d) BY DEF NodesUpTo
<1>2. EdgesUpTo(d)' = EdgesUpTo(d)
  <2>1. EdgesUpTo(d)' = {e \in EdgesOf(job') : /\ job'.edges[e].src \in NodesUpTo(d)'
                                               /\ job'.edges[e].dst \in NodesUpTo(d)'}
    BY DEF EdgesUpTo
  <2> QED BY <2>1, <1>1 DEF EdgesUpTo
<1> QED BY <1>1, <1>2

\* What is placed and routed, and its table, in a step that leaves them alone.
LEMMA TableSame ==
    ASSUME TableExact, UNCHANGED <<job, ii, placements, dependences, owners>>
    PROVE  TableExact'
<1>1. \A n \in DOMAIN placements : FootprintOf(n)' = FootprintOf(n)
  BY DEF FootprintOf, Footprint
<1> QED BY <1>1 DEF TableExact

\* The table, member by member.
LEMMA TableMembers ==
    ASSUME \A u : u \in DOMAIN owners' <=>
                     \/ \E m \in DOMAIN placements' : u \in FootprintOf(m)'
                     \/ \E x \in DOMAIN dependences' : u \in dependences'[x],
           \A m \in DOMAIN placements' :
              \A u \in FootprintOf(m)' : owners'[u] = <<"Node", m>>,
           \A x \in DOMAIN dependences' :
              \A u \in dependences'[x] : owners'[u] = <<"Edge", x>>
    PROVE  TableExact'
<1> DEFINE A == UNION {FootprintOf(m)' : m \in DOMAIN placements'}
           B == UNION {dependences'[x] : x \in DOMAIN dependences'}
<1>1. \A u : u \in A <=> \E m \in DOMAIN placements' : u \in FootprintOf(m)' OBVIOUS
<1>2. \A u : u \in B <=> \E x \in DOMAIN dependences' : u \in dependences'[x] OBVIOUS
<1> HIDE DEF A, B
<1>3. DOMAIN owners' = A \cup B BY <1>1, <1>2
<1> QED BY <1>3 DEF TableExact, A, B

\* A frame keeps its record while its node and its edges stay as they are.
LEMMA RecordSame ==
    ASSUME NEW i, Recorded(i), stack'[i] = stack[i], job' = job, ii' = ii,
           stack[i].node \in DOMAIN placements',
           placements'[stack[i].node] = placements[stack[i].node],
           \A e \in EdgesOfDelta(stack[i].delta) :
               e \in DOMAIN dependences' /\ dependences'[e] = dependences[e]
    PROVE  Recorded(i)'
<1>1. FootprintOf(stack[i].node)' = FootprintOf(stack[i].node)
  BY DEF FootprintOf, Footprint
<1>2. \A k \in DOMAIN stack[i].delta.edges :
         stack[i].delta.edges[k].edge \in EdgesOfDelta(stack[i].delta)
  BY DEF EdgesOfDelta
<1> QED BY <1>1, <1>2 DEF Recorded

LEMMA UpToLast ==
    ASSUME NEW L \in Nat \ {0}
    PROVE  /\ \A i \in 1 .. L : i = L \/ i \in 1 .. L - 1
           /\ \A i \in 1 .. L - 1 : i \in 1 .. L /\ i # L /\ i \in 0 .. L - 1
           /\ L \in 1 .. L /\ L \in 0 .. L /\ L - 1 \in 0 .. L - 1
           /\ \A i \in 0 .. L - 1 : i \in 0 .. L
OBVIOUS

\* A step that moves the control only.
LEMMA QuietStep ==
    ASSUME SearchInv,
           UNCHANGED <<job, ii, placements, dependences, owners, stack, pending>>,
           mode # "candidates", mode' # "candidates",
           outcome' # "success" => outcome # "success"
    PROVE  SearchInv'
<1>1. Depth' = Depth BY DEF Depth
<1>2. FramesApart' BY DEF SearchInv, FramesApart
<1>3. CandidatesFit' BY DEF SearchInv, CandidatesFit, candidates
<1>4. PlacementsFit' BY DEF SearchInv, PlacementsFit, candidates, NodesOf
<1>5. DeltasRecord'
  BY <1>1 DEF SearchInv, DeltasRecord, Recorded, FootprintOf, Footprint, Top
<1>6. StackAccounts'
  BY <1>1 DEF SearchInv, StackAccounts, NodesUpTo, EdgesUpTo, EdgesOf, Touching, Top,
              EdgesOfDelta
<1>7. TableExact' BY TableSame DEF SearchInv
<1> QED BY <1>2, <1>3, <1>4, <1>5, <1>6, <1>7 DEF SearchInv

\* A fresh search state.
LEMMA FreshStep ==
    ASSUME placements' = Empty, dependences' = Empty, owners' = Empty,
           stack' = <<>>, pending' = {}, mode' # "candidates"
    PROVE  SearchInv'
<1>1. DOMAIN placements' = {} /\ DOMAIN dependences' = {} /\ DOMAIN owners' = {}
  BY DEF Empty
<1>2. Depth' = 0 BY DEF Depth
<1>3. FramesApart' /\ CandidatesFit' BY DEF FramesApart, CandidatesFit
<1>4. PlacementsFit' BY <1>1 DEF PlacementsFit
<1>5. DeltasRecord' BY <1>2 DEF DeltasRecord
<1>6. StackAccounts'
  <2>1. NodesUpTo(0)' = {} BY DEF NodesUpTo
  <2>2. EdgesUpTo(0)' = {} BY <2>1 DEF EdgesUpTo
  <2> QED BY <1>1, <1>2, <2>1, <2>2 DEF StackAccounts
<1>7. TableExact' BY <1>1 DEF TableExact
<1> QED BY <1>3, <1>4, <1>5, <1>6, <1>7 DEF SearchInv

\* An activation that placed nothing returns, or passes a success up.
LEMMA PopStep ==
    ASSUME Shape, Control, SearchInv, stack # <<>>, stack' = Front(stack),
           mode = "candidates" \/ outcome' = "success",
           mode' = "return",
           UNCHANGED <<job, ii, placements, dependences, owners, pending>>
    PROVE  SearchInv'
<1> DEFINE L == Len(stack)
<1>1. /\ L \in Nat \ {0} /\ DOMAIN stack = 1 .. L
      /\ Len(stack') = L - 1 /\ DOMAIN stack' = 1 .. L - 1
      /\ \A i \in 1 .. L - 1 : stack'[i] = stack[i]
  BY FrontFacts DEF Shape
<1> HIDE DEF L
<1>2. /\ Depth' = L - 1
      /\ mode = "candidates" => Depth = L - 1
      /\ Depth \in {L - 1, L}
  <2>1. Depth' = Len(stack') BY DEF Depth
  <2>2. Depth = IF mode = "candidates" THEN L - 1 ELSE L BY DEF Depth, L
  <2> QED BY <1>1, <2>1, <2>2
<1>3. FramesApart' BY <1>1 DEF SearchInv, FramesApart
<1>4. CandidatesFit' BY <1>1 DEF SearchInv, CandidatesFit, candidates
<1>5. PlacementsFit' BY DEF SearchInv, PlacementsFit, candidates, NodesOf
<1>6. DeltasRecord'
  BY <1>1, <1>2 DEF SearchInv, DeltasRecord, Recorded, FootprintOf, Footprint, Depth
<1>7. StackAccounts'
  <2>1. CASE outcome' = "success" BY <2>1 DEF StackAccounts
  <2>2. CASE outcome' # "success"
    <3>1. /\ mode = "candidates" /\ outcome # "success" /\ pending = {} /\ pending' = {}
          /\ Depth = L - 1
      BY <2>2, <1>2 DEF Control
    <3>2. \A d \in 0 .. L - 1 : /\ NodesUpTo(d)' = NodesUpTo(d)
                                /\ EdgesUpTo(d)' = EdgesUpTo(d)
      <4> SUFFICES ASSUME NEW d \in 0 .. L - 1
                   PROVE  /\ NodesUpTo(d)' = NodesUpTo(d)
                          /\ EdgesUpTo(d)' = EdgesUpTo(d)
        OBVIOUS
      <4> QED BY <1>1, PrefixSame
    <3> QED BY <1>1, <1>2, <3>1, <3>2
            DEF SearchInv, StackAccounts, EdgesOfDelta, Touching, EdgesOf
  <2> QED BY <2>1, <2>2
<1>8. TableExact' BY TableSame DEF SearchInv
<1> QED BY <1>3, <1>4, <1>5, <1>6, <1>7, <1>8 DEF SearchInv

\* search() starts an activation for a node that is not placed.
LEMMA PushStep ==
    ASSUME Shape, Control, SearchInv, mode = "search", mode' = "candidates",
           NEW f \in Frames, stack' = Append(stack, f),
           f.node \in Unmapped, f.left \subseteq candidates(f.node), f.delta = NoDelta,
           UNCHANGED <<job, ii, placements, dependences, owners, pending, outcome>>
    PROVE  SearchInv'
<1> DEFINE L == Len(stack)
<1>1. /\ L \in Nat /\ DOMAIN stack = 1 .. L
      /\ Len(stack') = L + 1 /\ DOMAIN stack' = 1 .. L + 1
      /\ \A i \in 1 .. L : stack'[i] = stack[i]
      /\ stack'[L + 1] = f
  <2>1. stack \in Seq(Frames) BY DEF Shape
  <2> QED BY <2>1
<1>2. Depth = L /\ Depth' = L
  <2>1. Depth' = Len(stack') - 1 BY DEF Depth
  <2>2. Depth = L BY DEF Depth
  <2> QED BY <1>1, <2>1, <2>2
<1>3. Top' = f BY <1>1 DEF Top, Last
<1> HIDE DEF L
<1>4. outcome # "success" /\ pending = {} BY DEF Control
<1>5. \A d \in 0 .. L : NodesUpTo(d)' = NodesUpTo(d) /\ EdgesUpTo(d)' = EdgesUpTo(d)
  <2> SUFFICES ASSUME NEW d \in 0 .. L
               PROVE  NodesUpTo(d)' = NodesUpTo(d) /\ EdgesUpTo(d)' = EdgesUpTo(d)
    OBVIOUS
  <2> QED BY <1>1, PrefixSame
<1>6. FramesApart'
  <2>1. \A i \in 1 .. L : stack[i].node # f.node
    <3>1. f.node \notin NodesUpTo(L)
      BY <1>2, <1>4 DEF SearchInv, StackAccounts, Unmapped
    <3> QED BY <3>1 DEF NodesUpTo
  <2>2. \A i \in 1 .. L + 1 : i = L + 1 \/ i \in 1 .. L BY <1>1
  <2> QED BY <1>1, <2>1, <2>2 DEF SearchInv, FramesApart
<1>7. CandidatesFit'
  <2>1. \A i \in 1 .. L + 1 : i = L + 1 \/ i \in 1 .. L BY <1>1
  <2> QED BY <1>1, <2>1 DEF SearchInv, CandidatesFit, candidates
<1>8. PlacementsFit' BY DEF SearchInv, PlacementsFit, candidates, NodesOf
<1>9. DeltasRecord'
  <2>1. (Top.delta = NoDelta)' BY <1>3 DEF NoDelta
  <2>2. ASSUME NEW i \in 1 .. L PROVE Recorded(i)'
    <3>1. Recorded(i) /\ stack'[i] = stack[i] BY <1>1, <1>2 DEF SearchInv, DeltasRecord
    <3> QED BY <3>1, RecordSame DEF Recorded, EdgesOfDelta
  <2> QED BY <1>2, <2>1, <2>2 DEF DeltasRecord
<1>10. StackAccounts'
  BY <1>1, <1>2, <1>4, <1>5 DEF SearchInv, StackAccounts, EdgesOfDelta, Touching, EdgesOf
<1>11. TableExact' BY TableSame DEF SearchInv
<1> QED BY <1>6, <1>7, <1>8, <1>9, <1>10, <1>11 DEF SearchInv

\* Two placed nodes, two routed edges and a node and an edge share no resource.
LEMMA NothingShared ==
    ASSUME TableExact
    PROVE  /\ \A n, m \in DOMAIN placements :
                 n # m => FootprintOf(n) \cap FootprintOf(m) = {}
           /\ \A e, f \in DOMAIN dependences :
                 e # f => dependences[e] \cap dependences[f] = {}
           /\ \A n \in DOMAIN placements, e \in DOMAIN dependences :
                 FootprintOf(n) \cap dependences[e] = {}
<1>1. \A n, m : n # m => <<"Node", n>> # <<"Node", m>> OBVIOUS
<1>2. \A n, m : n # m => <<"Edge", n>> # <<"Edge", m>> OBVIOUS
<1>3. \A n, e : <<"Node", n>> # <<"Edge", e>> OBVIOUS
<1> QED BY <1>1, <1>2, <1>3 DEF TableExact

\* The node on top of the stack, and the edges that touch it, are those that
\* the frames below do not have.
LEMMA TopFacts ==
    ASSUME Shape, FramesApart, stack # <<>>
    PROVE  /\ Len(stack) \in Nat \ {0} /\ DOMAIN stack = 1 .. Len(stack)
           /\ Top = stack[Len(stack)] /\ Top \in Frames
           /\ NodesUpTo(Len(stack)) = NodesUpTo(Len(stack) - 1) \cup {Top.node}
           /\ Top.node \notin NodesUpTo(Len(stack) - 1)
           /\ \A d \in 0 .. Len(stack) - 1 :
                 /\ NodesUpTo(d) \subseteq NodesUpTo(Len(stack) - 1)
                 /\ EdgesUpTo(d) \subseteq EdgesUpTo(Len(stack) - 1)
                 /\ EdgesUpTo(d) \cap Touching(Top.node) = {}
           /\ \A e \in EdgesUpTo(Len(stack)) :
                 e \in EdgesUpTo(Len(stack) - 1) \/ e \in Touching(Top.node)
           /\ EdgesUpTo(Len(stack) - 1) \subseteq EdgesUpTo(Len(stack))
<1> DEFINE L == Len(stack)
<1>1. /\ L \in Nat \ {0} /\ DOMAIN stack = 1 .. L
      /\ Top = stack[L] /\ Top \in Frames
  BY FrontFacts DEF Shape, Top
<1> HIDE DEF L
<1>2. NodesUpTo(L) = NodesUpTo(L - 1) \cup {Top.node}
  <2>1. 1 .. L = (1 .. L - 1) \cup {L} BY <1>1
  <2> QED BY <1>1, <2>1 DEF NodesUpTo
<1>3. Top.node \notin NodesUpTo(L - 1)
  BY <1>1 DEF NodesUpTo, FramesApart
<1>4. ASSUME NEW d \in 0 .. L - 1 PROVE NodesUpTo(d) \subseteq NodesUpTo(L - 1)
  <2>1. 1 .. d \subseteq 1 .. L - 1 BY <1>1
  <2> QED BY <2>1 DEF NodesUpTo
<1>5. ASSUME NEW d \in 0 .. L - 1
      PROVE  /\ EdgesUpTo(d) \subseteq EdgesUpTo(L - 1)
             /\ EdgesUpTo(d) \cap Touching(Top.node) = {}
  BY <1>3, <1>4 DEF EdgesUpTo, Touching
<1>6. ASSUME NEW e \in EdgesUpTo(L)
      PROVE  e \in EdgesUpTo(L - 1) \/ e \in Touching(Top.node)
  BY <1>2 DEF EdgesUpTo, Touching
<1>7. EdgesUpTo(L - 1) \subseteq EdgesUpTo(L) BY <1>2 DEF EdgesUpTo
<1> QED BY <1>1, <1>2, <1>3, <1>4, <1>5, <1>6, <1>7 DEF L

\* Undoing the top frame leaves exactly what the frames below it account for.
LEMMA RollbackStep ==
    ASSUME Shape, Control, SearchInv, stack # <<>>,
           mode \in {"edges", "return"}, outcome # "success",
           rollback(Top), pending' = {}, UNCHANGED <<job, ii>>,
           \/ mode' = "return" /\ stack' = Front(stack)
           \/ mode' = "candidates" /\ stack' = Cleared
    PROVE  SearchInv'
<1> DEFINE L == Len(stack)
           n == Top.node
           D == EdgesOfDelta(Top.delta)
<1>1. /\ L \in Nat \ {0} /\ DOMAIN stack = 1 .. L
      /\ Top = stack[L] /\ Top \in Frames
      /\ NodesUpTo(L) = NodesUpTo(L - 1) \cup {n}
      /\ n \notin NodesUpTo(L - 1)
      /\ \A d \in 0 .. L - 1 : /\ NodesUpTo(d) \subseteq NodesUpTo(L - 1)
                               /\ EdgesUpTo(d) \subseteq EdgesUpTo(L - 1)
                               /\ EdgesUpTo(d) \cap Touching(n) = {}
      /\ \A e \in EdgesUpTo(L) : e \in EdgesUpTo(L - 1) \/ e \in Touching(n)
      /\ EdgesUpTo(L - 1) \subseteq EdgesUpTo(L)
  BY TopFacts DEF SearchInv
<1>2. Depth = L BY DEF Depth
<1>3. /\ DOMAIN stack' \in {1 .. L - 1, 1 .. L}
      /\ \A i \in 1 .. L - 1 : stack'[i] = stack[i]
      /\ Depth' = L - 1
      /\ mode' = "candidates" => Top' = [Top EXCEPT !.delta = NoDelta]
      /\ DOMAIN stack' = 1 .. L => stack'[L] = [Top EXCEPT !.delta = NoDelta]
  <2>1. CASE mode' = "return" /\ stack' = Front(stack)
    <3>1. /\ Len(stack') = L - 1 /\ DOMAIN stack' = 1 .. L - 1
          /\ \A i \in 1 .. L - 1 : stack'[i] = stack[i]
      BY <2>1, FrontFacts DEF Shape
    <3>2. Depth' = Len(stack') BY <2>1 DEF Depth
    <3>3. L \in 1 .. L /\ L \notin 1 .. L - 1 BY <1>1
    <3> QED BY <2>1, <3>1, <3>2, <3>3
  <2>2. CASE mode' = "candidates" /\ stack' = Cleared
    <3> DEFINE f == [Top EXCEPT !.delta = NoDelta]
    <3>0. NoDelta \in [node : SUBSET Resources, edges : Seq(Routed)]
      BY DEF NoDelta
    <3>1. f \in Frames BY <1>1, <3>0 DEF Frames
    <3> HIDE DEF f
    <3>2. stack' = Append(Front(stack), f) BY <2>2 DEF Cleared, f
    <3>3. /\ Len(stack') = L /\ DOMAIN stack' = 1 .. L
          /\ \A i \in 1 .. L - 1 : stack'[i] = stack[i]
          /\ stack'[L] = f
      BY <3>1, <3>2, ReplaceTop DEF Shape
    <3>4. Depth' = Len(stack') - 1 BY <2>2 DEF Depth
    <3>5. Top' = stack'[Len(stack')] BY DEF Top, Last
    <3> QED BY <3>3, <3>4, <3>5 DEF f
  <2> QED BY <2>1, <2>2
<1>4. /\ n \in DOMAIN placements
      /\ Top.delta.node = FootprintOf(n)
      /\ \A k \in DOMAIN Top.delta.edges :
            /\ Top.delta.edges[k].edge \in DOMAIN dependences
            /\ Top.delta.edges[k].resources = dependences[Top.delta.edges[k].edge]
  BY <1>1, <1>2 DEF SearchInv, DeltasRecord, Recorded
<1>5. /\ DOMAIN placements = NodesUpTo(L)
      /\ DOMAIN dependences = EdgesUpTo(L) \ pending
      /\ \A e \in pending : e \in EdgesUpTo(L) \cap Touching(n)
      /\ D = (EdgesUpTo(L) \cap Touching(n)) \ pending
      /\ \A i \in 1 .. L - 1 :
            EdgesOfDelta(stack[i].delta) =
                (EdgesUpTo(i) \cap Touching(stack[i].node)) \ pending
  <2>1. StackAccounts BY DEF SearchInv
  <2>2. L \in 1 .. L /\ \A i \in 1 .. L - 1 : i \in 1 .. L BY <1>1
  <2> QED BY <1>1, <1>2, <2>1, <2>2 DEF StackAccounts
<1>6. /\ DOMAIN placements' = DOMAIN placements \ {n}
      /\ \A m \in DOMAIN placements \ {n} : placements'[m] = placements[m]
      /\ DOMAIN dependences' = DOMAIN dependences \ D
      /\ \A e \in DOMAIN dependences \ D : dependences'[e] = dependences[e]
      /\ DOMAIN owners' = DOMAIN owners \ ResourcesOfDelta(Top.delta)
      /\ \A r \in DOMAIN owners' : owners'[r] = owners[r]
  BY DEF rollback, Release
<1>7. \A r : r \in ResourcesOfDelta(Top.delta) <=>
                r \in FootprintOf(n) \/ \E e \in D : r \in dependences[e]
  BY <1>4 DEF ResourcesOfDelta, EdgesOfDelta
<1> HIDE DEF L, n, D
<1>8. /\ DOMAIN placements' = NodesUpTo(L - 1)
      /\ DOMAIN dependences' = EdgesUpTo(L - 1)
  <2>1. DOMAIN placements' = NodesUpTo(L - 1) BY <1>1, <1>5, <1>6
  <2>2. DOMAIN dependences' = EdgesUpTo(L - 1)
    <3>1. L - 1 \in 0 .. L - 1 BY <1>1
    <3> QED BY <1>1, <1>5, <1>6, <3>1
  <2> QED BY <2>1, <2>2
<1>9. \A d \in 0 .. L - 1 : NodesUpTo(d)' = NodesUpTo(d) /\ EdgesUpTo(d)' = EdgesUpTo(d)
  <2> SUFFICES ASSUME NEW d \in 0 .. L - 1
               PROVE  NodesUpTo(d)' = NodesUpTo(d) /\ EdgesUpTo(d)' = EdgesUpTo(d)
    OBVIOUS
  <2> QED BY <1>1, <1>3, PrefixSame
<1>10. \A m \in DOMAIN placements' : FootprintOf(m)' = FootprintOf(m)
  BY <1>6 DEF FootprintOf, Footprint
<1>11. FramesApart'
  <2>1. \A i \in DOMAIN stack' : i \in DOMAIN stack /\ stack'[i].node = stack[i].node
    BY <1>1, <1>3 DEF Frames
  <2> QED BY <2>1 DEF SearchInv, FramesApart
<1>12. CandidatesFit'
  <2>1. \A i \in DOMAIN stack' : /\ i \in DOMAIN stack
                                 /\ stack'[i].node = stack[i].node
                                 /\ stack'[i].left = stack[i].left
    BY <1>1, <1>3 DEF Frames
  <2> QED BY <2>1 DEF SearchInv, CandidatesFit, candidates
<1>13. PlacementsFit' BY <1>6 DEF SearchInv, PlacementsFit, candidates, NodesOf
<1>14. DeltasRecord'
  <2>1. mode' = "candidates" => (Top.delta = NoDelta)'
    BY <1>1, <1>3 DEF NoDelta, Frames
  <2>2. ASSUME NEW i \in 1 .. L - 1 PROVE Recorded(i)'
    <3>1. Recorded(i) /\ stack'[i] = stack[i]
      BY <1>1, <1>2, <1>3 DEF SearchInv, DeltasRecord
    <3>2. stack[i].node \in DOMAIN placements' BY <1>8, <1>1 DEF NodesUpTo
    <3>3. ASSUME NEW e \in EdgesOfDelta(stack[i].delta)
          PROVE  e \in DOMAIN dependences' /\ dependences'[e] = dependences[e]
      <4>1. e \in EdgesUpTo(i) BY <1>5
      <4>2. i \in 0 .. L - 1 BY <1>1
      <4> QED BY <4>1, <4>2, <1>1, <1>6, <1>8
    <3> QED BY <3>1, <3>2, <3>3, <1>6, RecordSame
  <2> QED BY <1>3, <2>1, <2>2 DEF DeltasRecord
<1>15. StackAccounts'
  <2>1. ASSUME NEW i \in 1 .. L - 1
        PROVE  EdgesOfDelta(stack[i].delta) = EdgesUpTo(i) \cap Touching(stack[i].node)
    <3>1. i \in 0 .. L - 1 BY <1>1
    <3> QED BY <3>1, <1>1, <1>5
  <2>3. \A i \in 1 .. L - 1 : i \in 0 .. L - 1 BY <1>1
  <2>4. L - 1 \in 0 .. L - 1 BY <1>1
  <2>5. \A i \in 1 .. L - 1 :
           EdgesOfDelta(stack[i].delta)' = (EdgesUpTo(i) \cap Touching(stack[i].node))'
    <3> SUFFICES ASSUME NEW i \in 1 .. L - 1
                 PROVE  EdgesOfDelta(stack[i].delta)' =
                           EdgesUpTo(i)' \cap Touching(stack[i].node)'
      OBVIOUS
    <3>1. stack'[i] = stack[i] /\ EdgesUpTo(i)' = EdgesUpTo(i) BY <2>3, <1>3, <1>9
    <3>2. EdgesOfDelta(stack[i].delta)' = EdgesOfDelta(stack[i].delta)
      BY <3>1 DEF EdgesOfDelta
    <3>3. Touching(stack[i].node)' = Touching(stack[i].node)
      BY <3>1 DEF Touching, EdgesOf
    <3> QED BY <3>1, <3>2, <3>3, <2>1
  <2> QED BY <1>3, <1>8, <1>9, <2>4, <2>5 DEF StackAccounts
<1>16. TableExact'
  <2>1. /\ \A m \in DOMAIN placements \ {n} : FootprintOf(n) \cap FootprintOf(m) = {}
        /\ \A m \in DOMAIN placements, e \in DOMAIN dependences :
              FootprintOf(m) \cap dependences[e] = {}
        /\ \A e, f \in DOMAIN dependences : e # f => dependences[e] \cap dependences[f] = {}
    BY <1>4, NothingShared DEF SearchInv
  <2>2. D \subseteq DOMAIN dependences BY <1>5
  <2>3. \A m \in DOMAIN placements' :
           FootprintOf(m) \cap ResourcesOfDelta(Top.delta) = {}
    BY <1>6, <1>7, <2>1, <2>2
  <2>4. \A e \in DOMAIN dependences' :
           dependences[e] \cap ResourcesOfDelta(Top.delta) = {}
    BY <1>4, <1>6, <1>7, <2>1, <2>2
  <2>5. DOMAIN owners' =
           (UNION {FootprintOf(m)' : m \in DOMAIN placements'})
             \cup (UNION {dependences'[e] : e \in DOMAIN dependences'})
    <3>1. \A r : r \in DOMAIN owners <=>
                    \/ \E m \in DOMAIN placements : r \in FootprintOf(m)
                    \/ \E e \in DOMAIN dependences : r \in dependences[e]
      BY DEF SearchInv, TableExact
    <3>2. \A r : r \in DOMAIN owners' <=>
                    \/ \E m \in DOMAIN placements' : r \in FootprintOf(m)
                    \/ \E e \in DOMAIN dependences' : r \in dependences[e]
      BY <3>1, <1>6, <1>7, <2>3, <2>4
    <3> QED BY <3>2, <1>6, <1>10
  <2>6. \A m \in DOMAIN placements' :
           \A r \in FootprintOf(m)' : owners'[r] = <<"Node", m>>
    BY <1>6, <1>10, <2>3, <2>5 DEF SearchInv, TableExact
  <2>7. \A e \in DOMAIN dependences' :
           \A r \in dependences'[e] : owners'[r] = <<"Edge", e>>
    BY <1>6, <2>4, <2>5 DEF SearchInv, TableExact
  <2> QED BY <2>5, <2>6, <2>7 DEF TableExact
<1> QED BY <1>11, <1>12, <1>13, <1>14, <1>15, <1>16 DEF SearchInv

\* A candidate that cannot be reserved is struck off the list.
LEMMA StrikeStep ==
    ASSUME Shape, Control, SearchInv, mode = "candidates", mode' = "candidates",
           NEW f \in Frames, stack' = Append(Front(stack), f),
           f.node = Top.node, f.left \subseteq Top.left, f.delta = NoDelta,
           UNCHANGED <<job, ii, placements, dependences, owners, pending, outcome>>
    PROVE  SearchInv'
<1>0. stack # <<>> BY DEF Control
<1>1. PICK L \in Nat \ {0} : L = Len(stack) /\ DOMAIN stack = 1 .. L /\ Top = stack[L]
  BY <1>0, FrontFacts DEF Shape, Top
<1>2. /\ Len(stack') = L /\ DOMAIN stack' = 1 .. L
      /\ \A i \in 1 .. L - 1 : stack'[i] = stack[i]
      /\ stack'[L] = f
  BY <1>0, <1>1, ReplaceTop DEF Shape
<1>3. Depth = L - 1 /\ Depth' = L - 1 /\ Top' = f
  <2>1. Depth' = Len(stack') - 1 /\ Depth = L - 1 BY <1>1 DEF Depth
  <2>2. Top' = stack'[Len(stack')] BY DEF Top, Last
  <2> QED BY <1>2, <2>1, <2>2
<1>4. outcome # "success" /\ pending = {} BY DEF Control
<1>5. \A i \in 1 .. L : i = L \/ i \in 1 .. L - 1 BY <1>1
<1>6. \A d \in 0 .. L - 1 : NodesUpTo(d)' = NodesUpTo(d) /\ EdgesUpTo(d)' = EdgesUpTo(d)
  <2> SUFFICES ASSUME NEW d \in 0 .. L - 1
               PROVE  NodesUpTo(d)' = NodesUpTo(d) /\ EdgesUpTo(d)' = EdgesUpTo(d)
    OBVIOUS
  <2>1. d \in Nat /\ \A i \in 1 .. d : i \in 1 .. L - 1 BY <1>1
  <2> QED BY <2>1, <1>2, PrefixSame
<1>7. FramesApart' BY <1>1, <1>2, <1>5 DEF SearchInv, FramesApart
<1>8. CandidatesFit' BY <1>1, <1>2, <1>5 DEF SearchInv, CandidatesFit, candidates
<1>9. PlacementsFit' BY DEF SearchInv, PlacementsFit, candidates, NodesOf
<1>10. DeltasRecord'
  <2>1. (Top.delta = NoDelta)' BY <1>3 DEF NoDelta
  <2>2. ASSUME NEW i \in 1 .. L - 1 PROVE Recorded(i)'
    <3>1. Recorded(i) /\ stack'[i] = stack[i] BY <1>2, <1>3 DEF SearchInv, DeltasRecord
    <3> QED BY <3>1, RecordSame DEF Recorded, EdgesOfDelta
  <2> QED BY <1>3, <2>1, <2>2 DEF DeltasRecord
<1>11. StackAccounts'
  <2>1. /\ DOMAIN placements = NodesUpTo(L - 1)
        /\ DOMAIN dependences = EdgesUpTo(L - 1) \ pending
        /\ \A i \in 1 .. L - 1 : EdgesOfDelta(stack[i].delta) =
                                   (EdgesUpTo(i) \cap Touching(stack[i].node)) \ pending
    BY <1>3, <1>4 DEF SearchInv, StackAccounts
  <2>2. NodesUpTo(L - 1)' = NodesUpTo(L - 1) /\ EdgesUpTo(L - 1)' = EdgesUpTo(L - 1)
    <3>1. L - 1 \in 0 .. L - 1 BY <1>1
    <3> QED BY <3>1, <1>6
  <2>3. ASSUME NEW i \in 1 .. L - 1
        PROVE  EdgesOfDelta(stack[i].delta)' =
                   (EdgesUpTo(i)' \cap Touching(stack[i].node)') \ pending'
    <3>1. EdgesUpTo(i)' = EdgesUpTo(i)
      <4>1. i \in 0 .. L - 1 BY <1>1
      <4> QED BY <4>1, <1>6
    <3>2. Touching(stack[i].node)' = Touching(stack[i].node)
      BY <1>2 DEF Touching, EdgesOf
    <3>3. EdgesOfDelta(stack[i].delta)' = EdgesOfDelta(stack[i].delta)
      <4>1. stack'[i].delta = stack[i].delta BY <1>2
      <4> QED BY <4>1, Zenon DEF EdgesOfDelta
    <3> QED BY <2>1, <3>1, <3>2, <3>3
  <2>4. pending' = {} BY <1>4
  <2> QED BY <1>3, <2>1, <2>2, <2>3, <2>4 DEF StackAccounts
<1>12. TableExact' BY TableSame DEF SearchInv
<1> QED BY <1>7, <1>8, <1>9, <1>10, <1>11, <1>12 DEF SearchInv

\* A candidate whose footprint is free is placed; the edges it closes are to be
\* realised before the search goes on.
LEMMA PlaceStep ==
    ASSUME Shape, Control, SearchInv, mode = "candidates", mode' = "edges",
           NEW n, n = Top.node, NEW c \in candidates(n),
           NEW rs, rs = Footprint(n, c.tile, c.slot), canReserve(rs),
           NEW f \in Frames, stack' = Append(Front(stack), f),
           f.node = n, f.left \subseteq Top.left,
           f.delta = [node |-> rs, edges |-> <<>>],
           owners' = Reserve(owners, rs, <<"Node", n>>),
           placements' = [m \in DOMAIN placements \cup {n} |->
                             IF m = n THEN c ELSE placements[m]],
           pending' = closedEdges(n, DOMAIN placements \cup {n}),
           UNCHANGED <<job, ii, dependences, outcome>>
    PROVE  SearchInv'
<1>0. stack # <<>> BY DEF Control
<1>1. PICK L \in Nat \ {0} :
      /\ L = Len(stack) /\ DOMAIN stack = 1 .. L
      /\ Top = stack[L] /\ Top \in Frames
      /\ NodesUpTo(L) = NodesUpTo(L - 1) \cup {n}
      /\ n \notin NodesUpTo(L - 1)
      /\ \A d \in 0 .. L - 1 : /\ NodesUpTo(d) \subseteq NodesUpTo(L - 1)
                               /\ EdgesUpTo(d) \subseteq EdgesUpTo(L - 1)
                               /\ EdgesUpTo(d) \cap Touching(n) = {}
      /\ \A e \in EdgesUpTo(L) : e \in EdgesUpTo(L - 1) \/ e \in Touching(n)
      /\ EdgesUpTo(L - 1) \subseteq EdgesUpTo(L)
  BY <1>0, TopFacts DEF SearchInv
<1>2. /\ Len(stack') = L /\ DOMAIN stack' = 1 .. L
      /\ \A i \in 1 .. L - 1 : stack'[i] = stack[i]
      /\ stack'[L] = f
  BY <1>0, <1>1, ReplaceTop DEF Shape
<1>3. Depth = L - 1 /\ Depth' = L /\ Top' = f
  <2>1. Depth' = Len(stack') /\ Depth = L - 1 BY <1>1 DEF Depth
  <2>2. Top' = stack'[Len(stack')] BY DEF Top, Last
  <2> QED BY <1>2, <2>1, <2>2
<1>4. outcome # "success" /\ pending = {} BY DEF Control
<1>5. /\ DOMAIN placements = NodesUpTo(L - 1)
      /\ DOMAIN dependences = EdgesUpTo(L - 1)
      /\ \A i \in 1 .. L - 1 :
            EdgesOfDelta(stack[i].delta) = EdgesUpTo(i) \cap Touching(stack[i].node)
  BY <1>3, <1>4 DEF SearchInv, StackAccounts
<1>6. pending' = EdgesUpTo(L) \cap Touching(n)
  <2>1. L - 1 \in 0 .. L - 1 BY UpToLast
  <2> QED BY <2>1, <1>1, <1>5 DEF closedEdges, EdgesUpTo, Touching
<1>7. /\ DOMAIN placements' = DOMAIN placements \cup {n}
      /\ placements'[n] = c
      /\ \A m \in DOMAIN placements : m # n /\ placements'[m] = placements[m]
  BY <1>1, <1>5
<1>8. /\ FootprintOf(n)' = rs
      /\ \A m \in DOMAIN placements : FootprintOf(m)' = FootprintOf(m)
  BY <1>7 DEF FootprintOf, Footprint
<1>9. \A d \in 0 .. L : NodesUpTo(d)' = NodesUpTo(d) /\ EdgesUpTo(d)' = EdgesUpTo(d)
  <2> SUFFICES ASSUME NEW d \in 0 .. L
               PROVE  NodesUpTo(d)' = NodesUpTo(d) /\ EdgesUpTo(d)' = EdgesUpTo(d)
    OBVIOUS
  <2>1. \A i \in 1 .. L : stack'[i].node = stack[i].node BY <1>1, <1>2, UpToLast
  <2>2. d \in Nat /\ \A i \in 1 .. d : i \in 1 .. L BY <1>1
  <2> QED BY <2>1, <2>2, PrefixSame
<1>10. FramesApart' BY <1>1, <1>2, UpToLast DEF SearchInv, FramesApart
<1>11. CandidatesFit' BY <1>1, <1>2, UpToLast DEF SearchInv, CandidatesFit, candidates
<1>12. PlacementsFit'
  <2>1. n \in NodesOf(job) BY <1>1 DEF Frames
  <2> QED BY <2>1, <1>7 DEF SearchInv, PlacementsFit, candidates, NodesOf
<1>13. DeltasRecord'
  <2>1. ASSUME NEW i \in 1 .. L - 1 PROVE Recorded(i)'
    <3>1. Recorded(i) /\ stack'[i] = stack[i] BY <1>2, <1>3 DEF SearchInv, DeltasRecord
    <3>2. /\ stack[i].node \in DOMAIN placements
          /\ EdgesOfDelta(stack[i].delta) \subseteq DOMAIN dependences
      BY <3>1 DEF Recorded, EdgesOfDelta
    <3> QED BY <3>1, <3>2, <1>7, RecordSame
  <2>2. Recorded(L)'
    <3>1. stack'[L].node = n /\ stack'[L].delta.node = rs /\ stack'[L].delta.edges = <<>>
      BY <1>2
    <3>2. stack'[L].node \in DOMAIN placements' BY <3>1, <1>7
    <3>3. FootprintOf(stack[L].node)' = rs
      BY <3>1, <1>7 DEF FootprintOf, Footprint
    <3> QED BY <3>1, <3>2, <3>3 DEF Recorded
  <2> QED BY <1>3, <2>1, <2>2, UpToLast DEF DeltasRecord
<1>14. StackAccounts'
  <2>1. DOMAIN placements' = NodesUpTo(L)' BY <1>1, <1>5, <1>7, <1>9, UpToLast
  <2>2. DOMAIN dependences' = EdgesUpTo(L)' \ pending'
    <3>1. EdgesUpTo(L)' = EdgesUpTo(L) BY <1>9, UpToLast
    <3>2. EdgesUpTo(L - 1) \cap Touching(n) = {} BY <1>1, UpToLast
    <3>3. \A e : e \in EdgesUpTo(L - 1) <=> e \in EdgesUpTo(L) /\ e \notin pending'
      BY <3>2, <1>1, <1>6
    <3>4. DOMAIN dependences' = EdgesUpTo(L - 1) BY <1>5
    <3> QED BY <3>1, <3>3, <3>4
  <2>3. \A e \in pending' : e \in EdgesUpTo(L)' \cap Touching(Top.node)'
    <3>1. Touching(Top.node)' = Touching(n) BY <1>3 DEF Touching, EdgesOf
    <3> QED BY <3>1, <1>6, <1>9, UpToLast
  <2>4. ASSUME NEW i \in 1 .. L
        PROVE  EdgesOfDelta(stack[i].delta)' =
                   (EdgesUpTo(i)' \cap Touching(stack[i].node)') \ pending'
    <3>1. Touching(stack[i].node)' = Touching(stack[i].node)
      BY <1>1, <1>2, UpToLast DEF Touching, EdgesOf
    <3>2. CASE i = L
      <4>1. EdgesOfDelta(stack[i].delta)' = {} BY <3>2, <1>2 DEF EdgesOfDelta
      <4> QED BY <4>1, <3>1, <3>2, <1>1, <1>6, <1>9, UpToLast
    <3>3. CASE i \in 1 .. L - 1
      <4>1. EdgesOfDelta(stack[i].delta)' = EdgesOfDelta(stack[i].delta)
        BY <3>3, <1>2 DEF EdgesOfDelta
      <4>2. i \in 0 .. L - 1 /\ i \in 0 .. L BY <3>3, UpToLast
      <4>3. EdgesUpTo(i) \cap Touching(n) = {} /\ EdgesUpTo(i)' = EdgesUpTo(i)
        BY <4>2, <1>1, <1>9
      <4> QED BY <4>1, <4>3, <3>1, <3>3, <1>5, <1>6
    <3> QED BY <3>2, <3>3, UpToLast
  <2> QED BY <1>3, <2>1, <2>2, <2>3, <2>4 DEF StackAccounts
<1>15. TableExact'
  <2>1. /\ DOMAIN owners' = DOMAIN owners \cup rs
        /\ \A r \in rs : r \notin DOMAIN owners /\ owners'[r] = <<"Node", n>>
        /\ \A r \in DOMAIN owners : owners'[r] = owners[r]
    BY DEF Reserve, canReserve
  <2>2. DOMAIN owners' =
           (UNION {FootprintOf(m)' : m \in DOMAIN placements'})
             \cup (UNION {dependences'[e] : e \in DOMAIN dependences'})
    <3>1. \A r : r \in DOMAIN owners <=>
                    \/ \E m \in DOMAIN placements : r \in FootprintOf(m)
                    \/ \E e \in DOMAIN dependences : r \in dependences[e]
      BY DEF SearchInv, TableExact
    <3>2. \A r : r \in DOMAIN owners' <=>
                    \/ \E m \in DOMAIN placements' : r \in FootprintOf(m)'
                    \/ \E e \in DOMAIN dependences' : r \in dependences'[e]
      BY <3>1, <2>1, <1>7, <1>8
    <3> DEFINE F(m) == FootprintOf(m)'
    <3>3. \A r : r \in DOMAIN owners' <=>
                    \/ \E m \in DOMAIN placements' : r \in F(m)
                    \/ \E e \in DOMAIN dependences' : r \in dependences'[e]
      BY <3>2
    <3> HIDE DEF F
    <3> DEFINE A == UNION {F(m) : m \in DOMAIN placements'}
               B == UNION {dependences'[e] : e \in DOMAIN dependences'}
    <3>4. \A r : r \in A <=> \E m \in DOMAIN placements' : r \in F(m) OBVIOUS
    <3>5. \A r : r \in B <=> \E e \in DOMAIN dependences' : r \in dependences'[e]
      OBVIOUS
    <3> HIDE DEF A, B
    <3>6. DOMAIN owners' = A \cup B BY <3>3, <3>4, <3>5
    <3> QED BY <3>6 DEF A, B, F
  <2>3. \A m \in DOMAIN placements' :
           \A r \in FootprintOf(m)' : owners'[r] = <<"Node", m>>
    <3>1. \A m \in DOMAIN placements : \A r \in FootprintOf(m) :
             r \in DOMAIN owners /\ owners[r] = <<"Node", m>>
      BY DEF SearchInv, TableExact
    <3>2. \A r \in FootprintOf(n)' : owners'[r] = <<"Node", n>> BY <2>1, <1>8
    <3>3. ASSUME NEW m \in DOMAIN placements, NEW r \in FootprintOf(m)'
          PROVE  owners'[r] = <<"Node", m>>
      <4>1. r \in FootprintOf(m) BY <1>8
      <4> QED BY <4>1, <3>1, <2>1
    <3> QED BY <3>2, <3>3, <1>7
  <2>4. \A e \in DOMAIN dependences' :
           \A r \in dependences'[e] : owners'[r] = <<"Edge", e>>
    <3>1. \A e \in DOMAIN dependences : \A r \in dependences[e] :
             r \in DOMAIN owners /\ owners[r] = <<"Edge", e>>
      BY DEF SearchInv, TableExact
    <3> QED BY <3>1, <2>1
  <2> QED BY <2>2, <2>3, <2>4 DEF TableExact
<1> QED BY <1>10, <1>11, <1>12, <1>13, <1>14, <1>15 DEF SearchInv

\* Recording a route in the delta of a frame.
LEMMA GrowDelta ==
    ASSUME NEW t \in Frames, NEW r \in Routed
    PROVE  LET f == [t EXCEPT !.delta.edges = Append(@, r)]
           IN  /\ f \in Frames
               /\ f.node = t.node /\ f.left = t.left /\ f.delta.node = t.delta.node
               /\ f.delta.edges = Append(t.delta.edges, r)
<1> DEFINE Deltas == [node : SUBSET Resources, edges : Seq(Routed)]
           f == [t EXCEPT !.delta.edges = Append(@, r)]
<1>1. t.node \in NodesOf(job) /\ t.left \in SUBSET Slots /\ t.delta \in Deltas
  BY DEF Frames
<1>2. t.delta.node \in SUBSET Resources /\ t.delta.edges \in Seq(Routed) BY <1>1
<1>3. PICK es \in Seq(Routed) : es = Append(t.delta.edges, r) BY <1>2, AppendFacts
<1>4. PICK d \in Deltas : d = [t.delta EXCEPT !.edges = es] BY <1>1, <1>3
<1>5. d.node = t.delta.node /\ d.edges = es BY <1>1, <1>4
<1>6. f = [t EXCEPT !.delta = d] BY <1>3, <1>4
<1> HIDE DEF Deltas, f
<1>7. [t EXCEPT !.delta = d] \in [node : NodesOf(job), left : SUBSET Slots, delta : Deltas]
  BY <1>4 DEF Frames, Deltas
<1>8. f.node = t.node /\ f.left = t.left /\ f.delta = d
  BY <1>6 DEF Frames
<1>9. /\ f \in Frames
      /\ f.node = t.node /\ f.left = t.left /\ f.delta.node = t.delta.node
      /\ f.delta.edges = Append(t.delta.edges, r)
  BY <1>3, <1>5, <1>6, <1>7, <1>8 DEF Frames, Deltas
<1> QED BY <1>9 DEF f

\* The stack after a route was recorded: only the top delta has grown.
LEMMA GrowTop ==
    ASSUME NEW s \in Seq(Frames), s # <<>>, NEW r \in Routed
    PROVE  \E f \in Frames :
              LET t == [s EXCEPT ![Len(s)].delta.edges = Append(@, r)]
              IN  /\ f.node = Last(s).node /\ f.left = Last(s).left
                  /\ f.delta.node = Last(s).delta.node
                  /\ f.delta.edges = Append(Last(s).delta.edges, r)
                  /\ t \in Seq(Frames) /\ Len(t) = Len(s) /\ DOMAIN t = 1 .. Len(s)
                  /\ \A i \in 1 .. Len(s) - 1 : t[i] = s[i]
                  /\ t[Len(s)] = f
<1> DEFINE t == [s EXCEPT ![Len(s)].delta.edges = Append(@, r)]
           f == [s[Len(s)] EXCEPT !.delta.edges = Append(@, r)]
<1>1. Len(s) \in Nat \ {0} /\ Last(s) = s[Len(s)] /\ Last(s) \in Frames
  BY FrontFacts
<1>2. t = [s EXCEPT ![Len(s)] = f] OBVIOUS
<1>3. PICK last \in Frames : last = s[Len(s)] BY <1>1
<1>4. /\ f \in Frames
      /\ f.node = last.node /\ f.left = last.left /\ f.delta.node = last.delta.node
      /\ f.delta.edges = Append(last.delta.edges, r)
  BY <1>3, GrowDelta
<1> HIDE DEF t, f
<1>5. Len(s) \in 1 .. Len(s) BY <1>1
<1>6. /\ t \in Seq(Frames) /\ Len(t) = Len(s) /\ DOMAIN t = 1 .. Len(s)
      /\ \A i \in 1 .. Len(s) : t[i] = IF i = Len(s) THEN f ELSE s[i]
  BY <1>2, <1>4, <1>5, ExceptFacts
<1>7. \A i \in 1 .. Len(s) - 1 : i \in 1 .. Len(s) /\ i # Len(s) BY <1>1
<1>8. /\ f \in Frames
      /\ f.node = Last(s).node /\ f.left = Last(s).left
      /\ f.delta.node = Last(s).delta.node
      /\ f.delta.edges = Append(Last(s).delta.edges, r)
      /\ t \in Seq(Frames) /\ Len(t) = Len(s) /\ DOMAIN t = 1 .. Len(s)
      /\ \A i \in 1 .. Len(s) - 1 : t[i] = s[i]
      /\ t[Len(s)] = f
  BY <1>1, <1>3, <1>4, <1>5, <1>6, <1>7
<1> QED BY <1>8 DEF t

\* A closed edge is realised over resources that were free.
LEMMA RealizeStep ==
    ASSUME Shape, Control, SearchInv, mode = "edges", mode' = "edges",
           NEW e \in pending, NEW rs, rs \cap DOMAIN owners = {},
           NEW r \in Routed, r.edge = e, r.resources = rs,
           DOMAIN dependences' = DOMAIN dependences \cup {e},
           dependences'[e] = rs,
           \A x \in DOMAIN dependences : x # e => dependences'[x] = dependences[x],
           owners' = Reserve(owners, rs, <<"Edge", e>>),
           NEW f \in Frames, f.node = Top.node, f.left = Top.left,
           f.delta.node = Top.delta.node,
           f.delta.edges = Append(Top.delta.edges, r),
           Len(stack') = Len(stack), DOMAIN stack' = 1 .. Len(stack),
           \A i \in 1 .. Len(stack) - 1 : stack'[i] = stack[i],
           stack'[Len(stack)] = f,
           pending' = pending \ {e},
           UNCHANGED <<job, ii, placements, outcome>>
    PROVE  SearchInv'
<1>0. stack # <<>> BY DEF Control
<1>1. PICK L \in Nat \ {0} :
      /\ L = Len(stack) /\ DOMAIN stack = 1 .. L
      /\ Top = stack[L] /\ Top \in Frames
      /\ \A d \in 0 .. L - 1 : EdgesUpTo(d) \cap Touching(Top.node) = {}
  BY <1>0, TopFacts DEF SearchInv
<1>2. f.node = Top.node /\ f.left = Top.left /\ f.delta.node = Top.delta.node
  OBVIOUS
<1>3. /\ Len(stack') = L /\ DOMAIN stack' = 1 .. L
      /\ \A i \in 1 .. L - 1 : stack'[i] = stack[i]
      /\ stack'[L] = f
  BY <1>1
<1>4. PICK k \in Nat :
         /\ DOMAIN Top.delta.edges = 1 .. k
         /\ DOMAIN f.delta.edges = 1 .. k + 1
         /\ \A i \in 1 .. k : f.delta.edges[i] = Top.delta.edges[i]
         /\ f.delta.edges[k + 1] = r
  <2>1. Top.delta.edges \in Seq(Routed) BY <1>1 DEF Frames
  <2> DEFINE k == Len(Top.delta.edges)
  <2>2. k \in Nat /\ DOMAIN Top.delta.edges = 1 .. k BY <2>1
  <2> QED BY <2>1, <2>2, AppendFacts
<1>5. Depth = L /\ Depth' = L /\ Top' = f
  <2>1. Depth' = Len(stack') /\ Depth = L BY <1>1 DEF Depth
  <2>2. Top' = stack'[Len(stack')] BY DEF Top, Last
  <2> QED BY <1>3, <2>1, <2>2
<1>6. outcome # "success" BY DEF Control
<1>7. /\ DOMAIN placements = NodesUpTo(L)
      /\ DOMAIN dependences = EdgesUpTo(L) \ pending
      /\ \A x \in pending : x \in EdgesUpTo(L) \cap Touching(Top.node)
      /\ \A i \in 1 .. L :
            EdgesOfDelta(stack[i].delta) =
                (EdgesUpTo(i) \cap Touching(stack[i].node)) \ pending
  BY <1>5, <1>6 DEF SearchInv, StackAccounts
<1>8. /\ DOMAIN dependences' = DOMAIN dependences \cup {e}
      /\ dependences'[e] = rs
      /\ \A x \in DOMAIN dependences : x # e /\ dependences'[x] = dependences[x]
  BY <1>7
<1>9. \A d \in 0 .. L : NodesUpTo(d)' = NodesUpTo(d) /\ EdgesUpTo(d)' = EdgesUpTo(d)
  <2> SUFFICES ASSUME NEW d \in 0 .. L
               PROVE  NodesUpTo(d)' = NodesUpTo(d) /\ EdgesUpTo(d)' = EdgesUpTo(d)
    OBVIOUS
  <2>1. \A i \in 1 .. L : stack'[i].node = stack[i].node BY <1>1, <1>2, <1>3, UpToLast
  <2>2. d \in Nat /\ \A i \in 1 .. d : i \in 1 .. L BY <1>1
  <2> QED BY <2>1, <2>2, PrefixSame
<1>10. FramesApart' BY <1>1, <1>2, <1>3, UpToLast DEF SearchInv, FramesApart
<1>11. CandidatesFit'
  BY <1>1, <1>2, <1>3, UpToLast DEF SearchInv, CandidatesFit, candidates
<1>12. PlacementsFit' BY DEF SearchInv, PlacementsFit, candidates, NodesOf
<1>13. \A x : x \in EdgesOfDelta(f.delta) <=> x \in EdgesOfDelta(Top.delta) \/ x = e
  <2>1. \A x : x \in EdgesOfDelta(f.delta) <=> \E i \in 1 .. k + 1 : x = f.delta.edges[i].edge
    BY <1>4 DEF EdgesOfDelta
  <2>2. \A x : x \in EdgesOfDelta(Top.delta) <=> \E i \in 1 .. k : x = Top.delta.edges[i].edge
    BY <1>4 DEF EdgesOfDelta
  <2>3. \A i \in 1 .. k + 1 : i = k + 1 \/ i \in 1 .. k OBVIOUS
  <2>4. k + 1 \in 1 .. k + 1 /\ \A i \in 1 .. k : i \in 1 .. k + 1 OBVIOUS
  <2> HIDE DEF EdgesOfDelta
  <2> QED BY <1>4, <2>1, <2>2, <2>3, <2>4
<1>14. DeltasRecord'
  <2>1. ASSUME NEW i \in 1 .. L - 1 PROVE Recorded(i)'
    <3>1. Recorded(i) /\ stack'[i] = stack[i]
      BY <1>3, <1>5, UpToLast DEF SearchInv, DeltasRecord
    <3>2. /\ stack[i].node \in DOMAIN placements
          /\ EdgesOfDelta(stack[i].delta) \subseteq DOMAIN dependences
      BY <3>1 DEF Recorded, EdgesOfDelta
    <3> QED BY <3>1, <3>2, <1>8, RecordSame
  <2>2. Recorded(L)'
    <3>1. Recorded(L) BY <1>5, UpToLast DEF SearchInv, DeltasRecord
    <3>2. stack'[L].node = stack[L].node /\ stack'[L].delta.node = stack[L].delta.node
      BY <1>1, <1>2, <1>3
    <3>3. FootprintOf(stack[L].node)' = FootprintOf(stack[L].node)
      BY <3>2 DEF FootprintOf, Footprint
    <3>4. ASSUME NEW l \in DOMAIN f.delta.edges
          PROVE  /\ f.delta.edges[l].edge \in DOMAIN dependences'
                 /\ f.delta.edges[l].resources = dependences'[f.delta.edges[l].edge]
      <4>1. \/ l \in 1 .. k /\ f.delta.edges[l] = Top.delta.edges[l]
            \/ f.delta.edges[l] = r
        <5>1. \A i \in 1 .. k + 1 : i = k + 1 \/ i \in 1 .. k OBVIOUS
        <5> QED BY <5>1, <1>4
      <4>2. CASE f.delta.edges[l] = r BY <4>2, <1>8
      <4>3. CASE l \in 1 .. k /\ f.delta.edges[l] = Top.delta.edges[l]
        <5>1. LET d == Top.delta.edges[l]
              IN  d.edge \in DOMAIN dependences /\ d.resources = dependences[d.edge]
          BY <3>1, <4>3, <1>1, <1>4 DEF Recorded
        <5> QED BY <5>1, <4>3, <1>8
      <4> QED BY <4>1, <4>2, <4>3
    <3>5. stack[L].node \in DOMAIN placements /\ stack[L].delta.node = FootprintOf(stack[L].node)
      BY <3>1 DEF Recorded
    <3>6. /\ stack'[L].node \in DOMAIN placements'
          /\ stack'[L].delta.node = FootprintOf(stack[L].node)'
      BY <3>2, <3>3, <3>5
    <3>7. stack'[L].delta.edges = f.delta.edges BY <1>3
    <3> QED BY <3>4, <3>6, <3>7 DEF Recorded
  <2> QED BY <1>5, <2>1, <2>2, UpToLast DEF DeltasRecord
<1>15. StackAccounts'
  <2>1. DOMAIN placements' = NodesUpTo(L)' BY <1>7, <1>9, UpToLast
  <2>2. DOMAIN dependences' = EdgesUpTo(L)' \ pending'
    <3>1. EdgesUpTo(L)' = EdgesUpTo(L) BY <1>9, UpToLast
    <3> QED BY <3>1, <1>7, <1>8
  <2>3. \A x \in pending' : x \in EdgesUpTo(L)' \cap Touching(Top.node)'
    <3>1. Touching(Top.node)' = Touching(Top.node)
      BY <1>2, <1>5 DEF Touching, EdgesOf
    <3> QED BY <3>1, <1>7, <1>9, UpToLast
  <2>4. ASSUME NEW i \in 1 .. L
        PROVE  EdgesOfDelta(stack[i].delta)' =
                   (EdgesUpTo(i)' \cap Touching(stack[i].node)') \ pending'
    <3>1. Touching(stack[i].node)' = Touching(stack[i].node)
      BY <1>1, <1>2, <1>3, UpToLast DEF Touching, EdgesOf
    <3>2. CASE i = L
      <4>1. EdgesOfDelta(stack[i].delta)' = EdgesOfDelta(f.delta)
        <5>1. stack'[i].delta = f.delta BY <3>2, <1>3
        <5> QED BY <5>1
      <4>2. EdgesUpTo(L)' = EdgesUpTo(L) BY <1>9, UpToLast
      <4>3. EdgesOfDelta(Top.delta) = (EdgesUpTo(L) \cap Touching(Top.node)) \ pending
        BY <1>1, <1>7, UpToLast
      <4> QED BY <4>1, <4>2, <4>3, <3>1, <3>2, <1>1, <1>7, <1>13
    <3>3. CASE i \in 1 .. L - 1
      <4>1. EdgesOfDelta(stack[i].delta)' = EdgesOfDelta(stack[i].delta)
        BY <3>3, <1>3 DEF EdgesOfDelta
      <4>2. i \in 0 .. L - 1 /\ i \in 0 .. L BY <3>3, UpToLast
      <4>3. EdgesUpTo(i) \cap Touching(Top.node) = {} /\ EdgesUpTo(i)' = EdgesUpTo(i)
        BY <4>2, <1>1, <1>9
      <4>4. e \notin EdgesUpTo(i) BY <4>3, <1>7
      <4> QED BY <4>1, <4>3, <4>4, <3>1, <1>7
    <3> QED BY <3>2, <3>3, UpToLast
  <2> QED BY <1>5, <2>1, <2>2, <2>3, <2>4 DEF StackAccounts
<1>16. TableExact'
  <2>1. /\ DOMAIN owners' = DOMAIN owners \cup rs
        /\ \A u \in rs : u \notin DOMAIN owners /\ owners'[u] = <<"Edge", e>>
        /\ \A u \in DOMAIN owners : owners'[u] = owners[u]
    BY DEF Reserve
  <2>2. \A x \in DOMAIN dependences : \A u \in dependences[x] :
           u \in DOMAIN owners /\ owners[u] = <<"Edge", x>>
    BY DEF SearchInv, TableExact
  <2>3. \A m \in DOMAIN placements : \A u \in FootprintOf(m) :
           u \in DOMAIN owners /\ owners[u] = <<"Node", m>>
    BY DEF SearchInv, TableExact
  <2>4. \A u \in DOMAIN owners : \/ \E m \in DOMAIN placements : u \in FootprintOf(m)
                                 \/ \E x \in DOMAIN dependences : u \in dependences[x]
    BY DEF SearchInv, TableExact
  <2>5. \A m : FootprintOf(m)' = FootprintOf(m) BY DEF FootprintOf, Footprint
  <2>6. \A u : u \in DOMAIN owners' <=>
                  \/ \E m \in DOMAIN placements' : u \in FootprintOf(m)'
                  \/ \E x \in DOMAIN dependences' : u \in dependences'[x]
    BY <2>1, <2>2, <2>3, <2>4, <2>5, <1>8
  <2>7. \A m \in DOMAIN placements' :
           \A u \in FootprintOf(m)' : owners'[u] = <<"Node", m>>
    BY <2>1, <2>3, <2>5
  <2>8. \A x \in DOMAIN dependences' :
           \A u \in dependences'[x] : owners'[u] = <<"Edge", x>>
    BY <2>1, <2>2, <1>8
  <2> QED BY <2>6, <2>7, <2>8, TableMembers
<1> QED BY <1>10, <1>11, <1>12, <1>14, <1>15, <1>16 DEF SearchInv

-----------------------------------------------------------------------------
(* Every action keeps the invariant                                        *)

\* The sets that type the stack, and the interval's ends, are the job's.
LEMMA JobSame ==
    ASSUME job' = job
    PROVE  /\ Frames' = Frames /\ EdgesOf(job)' = EdgesOf(job)
           /\ startII' = startII /\ maxII' = maxII
<1>1. NodesOf(job)' = NodesOf(job) /\ EdgesOf(job)' = EdgesOf(job)
  BY DEF NodesOf, EdgesOf
<1>2. Classes' = Classes /\ Tiles' = Tiles BY DEF Classes, Tiles, NodesOf
<1>3. Resources' = Resources BY <1>2 DEF Resources
<1>4. Slots' = Slots /\ Routed' = Routed BY <1>1, <1>2, <1>3 DEF Slots, Routed
<1>5. Frames' = Frames BY <1>1, <1>3, <1>4 DEF Frames
<1>6. startII' = startII BY DEF startII
<1>7. maxII' = maxII BY <1>6 DEF maxII
<1> QED BY <1>1, <1>5, <1>6, <1>7

\* A share adds at most what is left of the budget, and takes nothing back.
LEMMA ShareFacts ==
    ASSUME NEW maximum \in Nat, NEW used \in Nat, used =< maximum, NEW remaining \in Int
    PROVE  /\ fairShareLimit(maximum, used, remaining) \in Nat
           /\ used =< fairShareLimit(maximum, used, remaining)
           /\ fairShareLimit(maximum, used, remaining) =< maximum
BY DEF fairShareLimit

LEMMA LimitsFacts ==
    ASSUME JobOK(job), stats \in Counts, BudgetsHold, NEW i \in Int, maxII \in Nat
    PROVE  /\ LimitsFor(i) \in Counts
           /\ LimitsFor(i).attempts =< job.maxAttempts
           /\ LimitsFor(i).backtracks =< job.maxBacktracks
           /\ LimitsFor(i).routes =< job.maxRoutes
<1>1. /\ stats.attempts \in Nat /\ stats.backtracks \in Nat /\ stats.routes \in Nat
      /\ job.maxAttempts \in Nat /\ job.maxBacktracks \in Nat /\ job.maxRoutes \in Nat
  BY DEF Counts, JobOK
<1>2. maxII - i + 1 \in Int OBVIOUS
<1>3. /\ fairShareLimit(job.maxAttempts, stats.attempts, maxII - i + 1) \in Nat
      /\ fairShareLimit(job.maxAttempts, stats.attempts, maxII - i + 1) =< job.maxAttempts
  BY <1>1, <1>2, ShareFacts DEF BudgetsHold
<1>4. /\ fairShareLimit(job.maxBacktracks, stats.backtracks, maxII - i + 1) \in Nat
      /\ fairShareLimit(job.maxBacktracks, stats.backtracks, maxII - i + 1)
            =< job.maxBacktracks
  BY <1>1, <1>2, ShareFacts DEF BudgetsHold
<1>5. /\ fairShareLimit(job.maxRoutes, stats.routes, maxII - i + 1) \in Nat
      /\ fairShareLimit(job.maxRoutes, stats.routes, maxII - i + 1) =< job.maxRoutes
  BY <1>1, <1>2, ShareFacts DEF BudgetsHold
<1> QED BY <1>3, <1>4, <1>5 DEF LimitsFor, Counts

LEMMA ShapeKept ==
    ASSUME Shape, job' = job, ii' \in Nat, limits' \in Counts, stats' \in Counts,
           stack' \in Seq(Frames), pending' \subseteq EdgesOf(job),
           DOMAIN dependences' \subseteq EdgesOf(job),
           mode' \in {"map", "search", "candidates", "edges", "return", "done"},
           outcome' \in Outcomes, outcomes' \in [DOMAIN outcomes' -> Outcomes]
    PROVE  Shape'
<1>1. Frames' = Frames /\ EdgesOf(job)' = EdgesOf(job) BY JobSame
<1> QED BY <1>1 DEF Shape, Counts, Outcomes

\* Control moves inside an interval.
LEMMA ControlKept ==
    ASSUME Shape, Control, UNCHANGED <<job, ii>>,
           mode \notin {"map", "done"}, mode' \notin {"map", "done"},
           mode' \in {"candidates", "edges"} => stack' # <<>>,
           mode' # "edges" => pending' = {},
           outcome' = "success" => mode' = "return"
    PROVE  Control'
<1>1. startII' = startII /\ maxII' = maxII BY JobSame
<1> QED BY <1>1 DEF Control

LEMMA InitInv ==
    ASSUME Init
    PROVE  IInv
<1> USE DEF Init
<1>1. JobOK(job) /\ maxII \in Nat BY JobFacts
<1>2. Shape
  <2>1. outcomes \in [DOMAIN outcomes -> Outcomes] /\ DOMAIN dependences = {}
    BY DEF Empty
  <2> QED BY <2>1 DEF Shape, Counts, Outcomes
<1>3. Control BY <1>1 DEF Control
<1>4. SearchInv
  <2>1. DOMAIN placements = {} /\ DOMAIN dependences = {} /\ DOMAIN owners = {}
    BY DEF Empty
  <2>2. Depth = 0 BY DEF Depth
  <2>3. FramesApart /\ CandidatesFit BY DEF FramesApart, CandidatesFit
  <2>4. PlacementsFit BY <2>1 DEF PlacementsFit
  <2>5. DeltasRecord BY <2>2 DEF DeltasRecord
  <2>6. NodesUpTo(0) = {} BY DEF NodesUpTo
  <2>7. EdgesUpTo(0) = {} BY <2>6 DEF EdgesUpTo
  <2>8. StackAccounts BY <2>1, <2>2, <2>6, <2>7 DEF StackAccounts
  <2>9. TableExact BY <2>1 DEF TableExact
  <2> QED BY <2>3, <2>4, <2>5, <2>8, <2>9 DEF SearchInv
<1>5. Ledger
  <2>1. DOMAIN outcomes = {} BY DEF Empty
  <2> QED BY <1>1, <2>1 DEF Ledger, History, NoMappingIsHonest, Shares, BudgetsHold, JobOK
<1> QED BY <1>2, <1>3, <1>4, <1>5 DEF IInv, CoreInv

\* map(): the start and the end of an interval, and the end of the intervals.
LEMMA IntervalSteps ==
    ASSUME IInv, StartInterval \/ NoMoreIntervals \/ EndInterval
    PROVE  CoreInv'
<1> USE DEF IInv, CoreInv
<1>0. JobOK(job) /\ startII \in Nat \ {0} /\ maxII \in Nat BY JobFacts DEF Shape
<1>1. CASE StartInterval
  <2> DEFINE next == IF outcomes = Empty THEN startII ELSE ii + 1
  <2>1. /\ next \in Nat /\ next =< maxII /\ ii' = next
        /\ limits' = LimitsFor(next)
    BY <1>0, <1>1 DEF StartInterval, Shape
  <2>2. next > 0 BY <1>0 DEF Shape
  <2> HIDE DEF next
  <2>3. Shape'
    <3>1. LimitsFor(next) \in Counts BY <1>0, <2>1, LimitsFacts DEF Shape, Ledger
    <3>2. DOMAIN dependences' = {} BY <1>1 DEF StartInterval, Empty
    <3> QED BY <1>1, <2>1, <3>1, <3>2, ShapeKept DEF StartInterval, Shape, Outcomes
  <2>4. Control'
    <3>1. maxII' = maxII BY <1>1, JobSame DEF StartInterval
    <3> QED BY <1>1, <2>1, <2>2, <3>1 DEF StartInterval, Control
  <2>5. SearchInv' BY <1>1, FreshStep DEF StartInterval
  <2> QED BY <2>3, <2>4, <2>5
<1>2. CASE NoMoreIntervals
  <2>1. Shape' BY <1>2, ShapeKept DEF NoMoreIntervals, Shape
  <2>2. Control'
    <3>1. maxII' = maxII BY <1>2, JobSame DEF NoMoreIntervals
    <3> QED BY <1>2, <3>1 DEF NoMoreIntervals, Control
  <2>3. SearchInv' BY <1>2, QuietStep DEF NoMoreIntervals
  <2> QED BY <2>1, <2>2, <2>3
<1>3. CASE EndInterval
  <2>1. outcomes' \in [DOMAIN outcomes' -> Outcomes] BY <1>3 DEF EndInterval, Shape
  <2>2. Shape' BY <1>3, <2>1, ShapeKept DEF EndInterval, Shape
  <2>3. Control'
    <3>1. maxII' = maxII BY <1>3, JobSame DEF EndInterval
    <3> QED BY <1>3, <3>1 DEF EndInterval, Control
  <2>4. SearchInv' BY <1>3, QuietStep DEF EndInterval
  <2> QED BY <2>2, <2>3, <2>4
<1> QED BY <1>1, <1>2, <1>3

\* What one node may own is among the resources.
LEMMA FootprintType ==
    ASSUME Shape, ii > 0, NEW n \in NodesOf(job), NEW c \in candidates(n)
    PROVE  Footprint(n, c.tile, c.slot) \in SUBSET Resources
<1>1. JobOK(job) BY JobFacts DEF Shape
<1>2. c.tile \in Tiles /\ c.slot \in Nat /\ job.class[n] \in Classes
  BY DEF candidates, Tiles, Classes, Shape
<1>3. \A o \in 0 .. job.occupancy[n] - 1 : (c.slot + o) % ii \in Nat
  BY <1>1, <1>2 DEF Shape, JobOK
<1> QED BY <1>2, <1>3 DEF Footprint, Resources

LEMMA CandidatesType ==
    ASSUME Shape, NEW n \in NodesOf(job)
    PROVE  candidates(n) \subseteq Slots
<1>1. job.tiles[n] \subseteq Tiles BY DEF Tiles
<1>2. 0 .. ii - 1 \subseteq Nat BY DEF Shape
<1> QED BY <1>1, <1>2 DEF candidates, Slots

\* search(): a node is chosen, or the mapping is complete.
LEMMA SearchSteps ==
    ASSUME IInv, SelectNode \/ Complete \/ Descend
    PROVE  CoreInv'
<1> USE DEF IInv, CoreInv
<1>0. JobOK(job) BY JobFacts DEF Shape
<1>1. CASE SelectNode
  <2>1. PICK n : n = selectNode OBVIOUS
  <2>2. n \in Unmapped /\ n \in NodesOf(job)
    BY <1>0, <1>1, <2>1, SelectNodeIsUnmapped DEF SelectNode, Unmapped
  <2>3. PICK f : f = [node |-> n, left |-> candidates(n), delta |-> NoDelta] OBVIOUS
  <2>4. f \in Frames
    <3>1. NoDelta \in [node : SUBSET Resources, edges : Seq(Routed)] BY DEF NoDelta
    <3> QED BY <2>2, <2>3, <3>1, CandidatesType DEF Frames
  <2>5. stack' = Append(stack, f) BY <1>1, <2>1, <2>3 DEF SelectNode
  <2>6. stack' \in Seq(Frames) /\ stack' # <<>>
    BY <2>4, <2>5, AppendFacts DEF Shape
  <2>7. Shape' BY <1>1, <2>6, ShapeKept DEF SelectNode, Shape
  <2>8. Control' BY <1>1, <2>6, ControlKept DEF SelectNode, Control
  <2>9. SearchInv' BY <1>1, <2>2, <2>3, <2>4, <2>5, PushStep DEF SelectNode
  <2> QED BY <2>7, <2>8, <2>9
<1>2. CASE Complete
  <2>1. outcome' \in Outcomes /\ mode' = "return"
    BY <1>2, MapperAssumption DEF Complete, Return, Outcomes
  <2>2. Shape' BY <1>2, <2>1, ShapeKept DEF Complete, Shape
  <2>3. Control' BY <1>2, <2>1, ControlKept DEF Complete, Control
  <2>4. SearchInv' BY <1>2, <2>1, QuietStep DEF Complete, Control
  <2> QED BY <2>2, <2>3, <2>4
<1>3. CASE Descend
  <2>1. Shape' BY <1>3, ShapeKept DEF Descend, Shape
  <2>2. Control' BY <1>3, ControlKept DEF Descend, Control
  <2>3. SearchInv' BY <1>3, QuietStep DEF Descend
  <2> QED BY <2>1, <2>2, <2>3
<1> QED BY <1>1, <1>2, <1>3

\* An activation that has no candidate left, or no attempts, returns.
LEMMA GiveUpSteps ==
    ASSUME IInv, NoCandidateLeft \/ AttemptsSpent \/ ReturnSuccess
    PROVE  CoreInv'
<1> USE DEF IInv, CoreInv
<1>1. CASE NoCandidateLeft \/ AttemptsSpent
  <2>1. /\ mode = "candidates" /\ mode' = "return" /\ stack # <<>>
        /\ outcome' \in {"exhausted", "per_ii_budget"}
        /\ stack' = Front(stack)
        /\ UNCHANGED <<job, ii, limits, stats, placements, dependences, owners,
                       pending, outcomes>>
    BY <1>1 DEF NoCandidateLeft, AttemptsSpent, Return, Control
  <2>2. stack' \in Seq(Frames) BY <2>1, FrontFacts DEF Shape
  <2>3. Shape' BY <2>1, <2>2, ShapeKept DEF Shape, Outcomes
  <2>4. Control' BY <2>1, ControlKept DEF Control
  <2>5. SearchInv' BY <2>1, PopStep
  <2> QED BY <2>3, <2>4, <2>5
<1>2. CASE ReturnSuccess
  <2>1. stack' \in Seq(Frames) BY <1>2, FrontFacts DEF ReturnSuccess, Shape
  <2>2. Shape' BY <1>2, <2>1, ShapeKept DEF ReturnSuccess, Shape
  <2>3. Control' BY <1>2, ControlKept DEF ReturnSuccess, Control
  <2>4. SearchInv' BY <1>2, PopStep DEF ReturnSuccess
  <2> QED BY <2>2, <2>3, <2>4
<1> QED BY <1>1, <1>2

\* tryCandidate up to the reservation of the node's footprint.
LEMMA TrySteps ==
    ASSUME IInv, NEW c, TryCandidate(c)
    PROVE  CoreInv'
<1> USE DEF IInv, CoreInv
<1>1. /\ mode = "candidates" /\ stack # <<>> /\ c \in Top.left /\ ii > 0
      /\ UNCHANGED <<job, ii, limits, dependences, outcome, outcomes>>
      /\ stats' = [stats EXCEPT !.attempts = @ + 1]
      /\ outcome # "success"
  BY DEF TryCandidate, Control
<1>2. stats' \in Counts BY <1>1 DEF Shape, Counts
<1>3. PICK t \in Frames : t = Top BY <1>1, FrontFacts DEF Shape, Top
<1>4. PICK n \in NodesOf(job) : n = Top.node BY <1>3 DEF Frames
<1>5. c \in candidates(n)
  <2>1. /\ Top = stack[Len(stack)] /\ DOMAIN stack = 1 .. Len(stack)
        /\ Len(stack) \in Nat \ {0}
    BY <1>1, FrontFacts DEF Shape, Top
  <2>2. Len(stack) \in DOMAIN stack BY <2>1
  <2> QED BY <2>1, <2>2, <1>1, <1>4 DEF SearchInv, CandidatesFit
<1>6. PICK rs \in SUBSET Resources : rs = Footprint(n, c.tile, c.slot)
  BY <1>1, <1>5, FootprintType
<1>7. CASE Fits(n) /\ canReserve(rs)
  <2>1. PICK f : f = [[t EXCEPT !.left = @ \ {c}, !.delta = NoDelta] EXCEPT !.delta.node = rs]
    OBVIOUS
  <2>2. /\ f = [node |-> t.node, left |-> t.left \ {c},
                delta |-> [node |-> rs, edges |-> <<>>]]
    BY <2>1 DEF Frames, NoDelta
  <2>3. f \in Frames BY <2>2, <1>3 DEF Frames
  <2>4. /\ owners' = Reserve(owners, rs, <<"Node", n>>)
        /\ placements' = [m \in DOMAIN placements \cup {n} |->
                             IF m = n THEN c ELSE placements[m]]
        /\ stack' = Append(Front(stack), f)
        /\ pending' = closedEdges(n, DOMAIN placements \cup {n})
        /\ mode' = "edges"
    BY <1>3, <1>4, <1>6, <1>7, <2>1 DEF TryCandidate
  <2>5. stack' \in Seq(Frames) /\ stack' # <<>> BY <1>1, <2>3, <2>4, ReplaceTop DEF Shape
  <2>6. pending' \subseteq EdgesOf(job) BY <2>4 DEF closedEdges, Touching
  <2>7. Shape' BY <1>1, <1>2, <2>4, <2>5, <2>6, ShapeKept DEF Shape
  <2>8. Control' BY <1>1, <2>4, <2>5, ControlKept
  <2>9. SearchInv'
    <3>1. /\ f.node = n /\ f.left \subseteq Top.left
          /\ f.delta = [node |-> rs, edges |-> <<>>]
      BY <1>3, <1>4, <2>2
    <3> QED BY <1>1, <1>4, <1>5, <1>6, <1>7, <2>3, <2>4, <3>1, PlaceStep
  <2> QED BY <2>7, <2>8, <2>9
<1>8. CASE ~(Fits(n) /\ canReserve(rs))
  <2>1. PICK f : f = [t EXCEPT !.left = @ \ {c}, !.delta = NoDelta] OBVIOUS
  <2>2. f = [node |-> t.node, left |-> t.left \ {c}, delta |-> NoDelta]
    BY <2>1 DEF Frames
  <2>3. f \in Frames
    <3>1. NoDelta \in [node : SUBSET Resources, edges : Seq(Routed)] BY DEF NoDelta
    <3> QED BY <2>2, <1>3, <3>1 DEF Frames
  <2>4. /\ stack' = Append(Front(stack), f)
        /\ UNCHANGED <<owners, placements, pending, mode>>
    BY <1>3, <1>4, <1>6, <1>8, <2>1 DEF TryCandidate
  <2>5. stack' \in Seq(Frames) /\ stack' # <<>> BY <1>1, <2>3, <2>4, ReplaceTop DEF Shape
  <2>6. Shape' BY <1>1, <1>2, <2>4, <2>5, ShapeKept DEF Shape
  <2>7. Control' BY <1>1, <2>4, <2>5, ControlKept DEF Control
  <2>8. f.node = Top.node /\ f.left \subseteq Top.left /\ f.delta = NoDelta
    BY <1>3, <2>2
  <2>9. SearchInv' BY <1>1, <2>3, <2>4, <2>8, StrikeStep
  <2> QED BY <2>6, <2>7, <2>9
<1> QED BY <1>7, <1>8

\* The routes a search may return are free resources of the mesh.
LEMMA RoutesType ==
    ASSUME Shape, NEW p, NEW q
    PROVE  RoutesBetween(p, q) \subseteq SUBSET Resources
<1> DEFINE K == {"Link"} \X LinkNames \X (0 .. ii - 1)
<1>1. K \subseteq Resources BY DEF Resources, Shape
<1>2. RoutesBetween(p, q) = IF p.tile = q.tile THEN {rs \in {{}} : job.allowVirtualHold}
                            ELSE UNION {kSubset(h, K) : h \in 1 .. MaxHops}
  BY DEF RoutesBetween
<1> HIDE DEF K
<1>3. \A h : \A rs \in kSubset(h, K) : rs \subseteq K BY DEF kSubset
<1>4. \A rs \in RoutesBetween(p, q) : rs = {} \/ \E h : rs \in kSubset(h, K) BY <1>2
<1> QED BY <1>1, <1>3, <1>4

\* realizeEdge for one of the closed edges.
LEMMA RealizeSteps ==
    ASSUME IInv, MemoryEdge \/ RouteEdge
    PROVE  CoreInv'
<1> USE DEF IInv, CoreInv
<1>0. JobOK(job) BY JobFacts DEF Shape
<1>1. /\ mode = "edges" /\ mode' = "edges" /\ pending # {} /\ stack # <<>>
      /\ UNCHANGED <<job, ii, limits, placements, outcome, outcomes>>
      /\ outcome # "success"
  BY DEF MemoryEdge, RouteEdge, ValueEdge, Control
<1>2. stats' \in Counts BY DEF MemoryEdge, RouteEdge, Shape, Counts
<1>3. PICK e \in pending : e = Edge
  <2>1. pending \in SUBSET Nat BY <1>0 DEF Shape, JobOK
  <2> QED BY <1>1, <2>1, MinIsMember DEF Edge
<1>4. PICK rs \in SUBSET Resources : rs \cap DOMAIN owners = {} /\ Realize(rs)
  <2>1. CASE MemoryEdge BY <2>1 DEF MemoryEdge
  <2>2. CASE RouteEdge BY <2>2, RoutesType DEF RouteEdge
  <2> QED BY <2>1, <2>2
<1>5. PICK r \in Routed : r = [edge |-> e, resources |-> rs] BY <1>3 DEF Routed, Shape
<1>6. /\ dependences' = [x \in DOMAIN dependences \cup {e} |->
                            IF x = e THEN rs ELSE dependences[x]]
      /\ owners' = Reserve(owners, rs, <<"Edge", e>>)
      /\ stack' = [stack EXCEPT ![Len(stack)].delta.edges = Append(@, r)]
      /\ pending' = pending \ {e}
  BY <1>3, <1>4, <1>5 DEF Realize
<1>7. PICK f \in Frames :
         /\ f.node = Top.node /\ f.left = Top.left
         /\ f.delta.node = Top.delta.node
         /\ f.delta.edges = Append(Top.delta.edges, r)
         /\ stack' \in Seq(Frames) /\ Len(stack') = Len(stack)
         /\ DOMAIN stack' = 1 .. Len(stack)
         /\ \A i \in 1 .. Len(stack) - 1 : stack'[i] = stack[i]
         /\ stack'[Len(stack)] = f
  <2>1. PICK s \in Seq(Frames) : s = stack BY DEF Shape
  <2>2. \E f \in Frames :
           LET t == [s EXCEPT ![Len(s)].delta.edges = Append(@, r)]
           IN  /\ f.node = Last(s).node /\ f.left = Last(s).left
               /\ f.delta.node = Last(s).delta.node
               /\ f.delta.edges = Append(Last(s).delta.edges, r)
               /\ t \in Seq(Frames) /\ Len(t) = Len(s) /\ DOMAIN t = 1 .. Len(s)
               /\ \A i \in 1 .. Len(s) - 1 : t[i] = s[i]
               /\ t[Len(s)] = f
    <3>1. s # <<>> BY <1>1, <2>1
    <3> QED BY <3>1, GrowTop, Zenon
  <2>3. stack' = [s EXCEPT ![Len(s)].delta.edges = Append(@, r)] /\ Top = Last(s)
    BY <1>6, <2>1 DEF Top
  <2> QED BY <2>1, <2>2, <2>3
<1>8. stack' # <<>> BY <1>1, <1>7, FrontFacts DEF Shape
<1>d. DOMAIN dependences' \subseteq EdgesOf(job) BY <1>3, <1>6 DEF Shape
<1>9. Shape' BY <1>1, <1>2, <1>6, <1>7, <1>d, ShapeKept DEF Shape
<1>10. Control' BY <1>1, <1>8, ControlKept
<1>11. SearchInv'
  <2>1. /\ DOMAIN dependences' = DOMAIN dependences \cup {e}
        /\ dependences'[e] = rs
        /\ \A x \in DOMAIN dependences : x # e => dependences'[x] = dependences[x]
    BY <1>6
  <2>2. r.edge = e /\ r.resources = rs BY <1>5
  <2>3. /\ owners' = Reserve(owners, rs, <<"Edge", e>>)
        /\ pending' = pending \ {e}
        /\ rs \cap DOMAIN owners = {}
    BY <1>4, <1>6
  <2>4. Shape /\ Control /\ SearchInv /\ mode = "edges" /\ mode' = "edges" BY <1>1
  <2>5. UNCHANGED <<job, ii, placements, outcome>> BY <1>1
  <2> HIDE DEF IInv, CoreInv
  <2> QED BY <1>7, <2>1, <2>2, <2>3, <2>4, <2>5, RealizeStep, ZenonT(60)
<1> QED BY <1>9, <1>10, <1>11

\* The stack that rollback leaves, with or without the frame that goes on.
LEMMA ClearedFacts ==
    ASSUME Shape, stack # <<>>
    PROVE  /\ Front(stack) \in Seq(Frames)
           /\ Cleared \in Seq(Frames) /\ Cleared # <<>>
<1>1. Front(stack) \in Seq(Frames) /\ Top \in Frames BY FrontFacts DEF Shape, Top
<1>2. NoDelta \in [node : SUBSET Resources, edges : Seq(Routed)] BY DEF NoDelta
<1>3. [Top EXCEPT !.delta = NoDelta] \in Frames BY <1>1, <1>2 DEF Frames
<1> QED BY <1>1, <1>3, ReplaceTop DEF Cleared, Shape

\* No path, a spent budget and the return of a child undo the top frame.
LEMMA UndoSteps ==
    ASSUME IInv,
           \/ NoPath \/ ReturnError \/ Backtrack
           \/ \E o \in RouteFailures : RouteFails(o)
    PROVE  CoreInv'
<1> USE DEF IInv, CoreInv
<1>1. /\ mode \in {"edges", "return"} /\ stack # <<>> /\ outcome # "success"
      /\ rollback(Top) /\ pending' = {} /\ outcome' # "success"
      /\ UNCHANGED <<job, ii, limits, outcomes>>
      /\ outcome' \in Outcomes
      /\ \/ mode' = "return" /\ stack' = Front(stack)
         \/ mode' = "candidates" /\ stack' = Cleared
  <2>1. CASE NoPath
    BY <2>1 DEF NoPath, ValueEdge, Control, Shape
  <2>2. CASE ReturnError
    BY <2>2 DEF ReturnError, Control, Shape
  <2>3. CASE Backtrack
    BY <2>3 DEF Backtrack, Return, Control, Shape, Outcomes
  <2>4. ASSUME NEW o \in RouteFailures, RouteFails(o)
        PROVE  <1>1!:
    BY <2>4 DEF RouteFails, RouteFailures, ValueEdge, Return, Control, Outcomes
  <2> QED BY <2>1, <2>2, <2>3, <2>4
<1>2. stats' \in Counts
  <2>1. CASE NoPath BY <2>1 DEF NoPath, Shape, Counts
  <2>2. CASE ReturnError BY <2>2 DEF ReturnError, Shape
  <2>3. CASE Backtrack BY <2>3 DEF Backtrack, Shape, Counts
  <2>4. ASSUME NEW o \in RouteFailures, RouteFails(o)
        PROVE  stats' \in Counts
    BY <2>4 DEF RouteFails, Shape, Counts
  <2> QED BY <2>1, <2>2, <2>3, <2>4
<1>3. /\ stack' \in Seq(Frames)
      /\ mode' = "candidates" => stack' # <<>>
  BY <1>1, ClearedFacts
<1>r. DOMAIN dependences' \subseteq EdgesOf(job) BY <1>1 DEF rollback, Shape
<1>4. Shape' BY <1>1, <1>2, <1>3, <1>r, ShapeKept DEF Shape
<1>5. Control' BY <1>1, <1>3, ControlKept
<1>6. SearchInv' BY <1>1, RollbackStep
<1> QED BY <1>4, <1>5, <1>6

\* The counters and the record of outcomes.
LEMMA LedgerStep ==
    ASSUME IInv, Next
    PROVE  Ledger'
<1> USE DEF IInv, CoreInv, Ledger
<1>0. /\ JobOK(job) /\ startII \in Nat \ {0} /\ maxII \in Nat
      /\ ii \in Nat /\ stats \in Counts /\ limits \in Counts
  BY JobFacts DEF Shape
<1>1. job' = job
  BY DEF Next, StartInterval, NoMoreIntervals, EndInterval, SelectNode, Complete,
         NoCandidateLeft, AttemptsSpent, TryCandidate, MemoryEdge, RouteEdge, NoPath,
         RouteFails, Descend, ReturnSuccess, ReturnError, Backtrack, Finished, vars
<1>2. startII' = startII /\ maxII' = maxII BY <1>1, JobSame
<1>3. CASE StartInterval
  <2> DEFINE next == IF outcomes = Empty THEN startII ELSE ii + 1
  <2>1. /\ next \in Nat /\ ii' = next /\ limits' = LimitsFor(next) /\ mode = "map"
        /\ mode' = "search" /\ UNCHANGED <<stats, outcomes, status>>
    BY <1>0, <1>3 DEF StartInterval
  <2>2. outcomes = Empty <=> DOMAIN outcomes = {}
    <3>1. DOMAIN Empty = {} BY DEF Empty
    <3>2. DOMAIN outcomes = {} => outcomes = Empty BY DEF Shape, Empty
    <3> QED BY <3>1, <3>2
  <2>3. startII =< next /\ DOMAIN outcomes = startII .. next - 1
    BY <1>0, <2>1, <2>2 DEF History
  <2>4. History' BY <1>2, <2>1, <2>3 DEF History
  <2>5. NoMappingIsHonest' BY <1>2, <2>1 DEF NoMappingIsHonest, History
  <2>6. Shares' /\ BudgetsHold'
    BY <1>0, <1>1, <2>1, LimitsFacts DEF Shares, BudgetsHold
  <2> QED BY <2>4, <2>5, <2>6
<1>4. CASE NoMoreIntervals
  <2>1. /\ mode = "map" /\ mode' = "done"
        /\ UNCHANGED <<ii, limits, stats, outcomes>>
        /\ (IF outcomes = Empty THEN startII ELSE ii + 1) > maxII
        /\ status' = IF outcomes # Empty /\ BudgetHit THEN "budget_exceeded"
                                                      ELSE "no_mapping"
    BY <1>4 DEF NoMoreIntervals
  <2>2. History' BY <2>1 DEF History
  <2>3. NoMappingIsHonest'
    <3> SUFFICES ASSUME status' = "no_mapping"
                 PROVE  /\ DOMAIN outcomes = startII .. maxII
                        /\ \A i \in DOMAIN outcomes : outcomes[i] = "exhausted"
      BY <1>2, <2>1 DEF NoMappingIsHonest
    <3>1. CASE DOMAIN outcomes = {}
      <4>1. outcomes = Empty BY <3>1 DEF Shape, Empty
      <4>2. startII > maxII BY <2>1, <4>1
      <4>3. startII .. maxII = {} BY <1>0, <4>2
      <4> QED BY <3>1, <4>3
    <3>2. CASE DOMAIN outcomes # {}
      <4>1. outcomes # Empty BY <3>2 DEF Empty
      <4>2. ii + 1 > maxII /\ ~BudgetHit BY <2>1, <4>1
      <4>3. ii =< maxII BY DEF Control
      <4>4. ii = maxII BY <1>0, <4>2, <4>3
      <4>5. DOMAIN outcomes = startII .. ii BY <2>1, <3>2 DEF History
      <4>6. \A i \in DOMAIN outcomes : outcomes[i] \in {"exhausted", "per_ii_budget"}
        BY <2>1 DEF History
      <4> QED BY <4>2, <4>4, <4>5, <4>6 DEF BudgetHit
    <3> QED BY <3>1, <3>2
  <2>4. Shares' /\ BudgetsHold' BY <1>1, <2>1 DEF Shares, BudgetsHold
  <2> QED BY <2>2, <2>3, <2>4
<1>5. CASE EndInterval
  <2>1. /\ mode = "return" /\ UNCHANGED <<ii, limits, stats>>
        /\ DOMAIN outcomes' = DOMAIN outcomes \cup {ii}
        /\ outcomes'[ii] = outcome
        /\ \A i \in DOMAIN outcomes : i # ii => outcomes'[i] = outcomes[i]
        /\ IF outcome \in {"exhausted", "per_ii_budget"}
           THEN mode' = "map" /\ UNCHANGED status
           ELSE mode' = "done" /\ status' = outcome
    BY <1>5 DEF EndInterval
  <2>2. startII =< ii /\ DOMAIN outcomes = startII .. ii - 1 BY <2>1 DEF History
  <2>3. DOMAIN outcomes' = startII .. ii BY <1>0, <2>1, <2>2
  <2>4. History'
    <3>1. CASE mode' = "done" BY <3>1 DEF History
    <3>2. CASE mode' = "map"
      <4>1. status' = "running" /\ outcome \in {"exhausted", "per_ii_budget"}
        BY <2>1, <3>2 DEF History
      <4>2. \A i \in DOMAIN outcomes' : outcomes'[i] \in {"exhausted", "per_ii_budget"}
        <5>1. \A i \in DOMAIN outcomes : outcomes[i] \in {"exhausted", "per_ii_budget"}
          BY <2>1 DEF History
        <5> QED BY <5>1, <4>1, <2>1
      <4> QED BY <1>2, <2>1, <2>2, <2>3, <3>2, <4>1, <4>2 DEF History
    <3> QED BY <2>1, <3>1, <3>2
  <2>5. NoMappingIsHonest'
    <3>1. status' # "no_mapping" BY <2>1 DEF History, Shape, Outcomes
    <3> QED BY <3>1 DEF NoMappingIsHonest
  <2>6. Shares' /\ BudgetsHold' BY <1>1, <2>1 DEF Shares, BudgetsHold
  <2> QED BY <2>4, <2>5, <2>6
<1>6. ASSUME UNCHANGED <<ii, limits, outcomes, status>>,
             mode \notin {"map", "done"}, mode' \notin {"map", "done"},
             \/ UNCHANGED stats
             \/ /\ stats.attempts < limits.attempts
                /\ stats' = [stats EXCEPT !.attempts = @ + 1]
             \/ /\ stats.backtracks < limits.backtracks
                /\ stats' = [stats EXCEPT !.backtracks = @ + 1]
             \/ /\ stats.routes < limits.routes
                /\ stats' = [stats EXCEPT !.routes = @ + 1]
      PROVE  Ledger'
  <2>1. History' BY <1>2, <1>6 DEF History
  <2>2. NoMappingIsHonest' BY <1>6 DEF NoMappingIsHonest, History
  <2>3. Shares' BY <1>1, <1>6 DEF Shares
  <2>4. BudgetsHold'
    <3>1. /\ stats.attempts \in Nat /\ stats.backtracks \in Nat /\ stats.routes \in Nat
          /\ limits.attempts \in Nat /\ limits.backtracks \in Nat /\ limits.routes \in Nat
          /\ job.maxAttempts \in Nat /\ job.maxBacktracks \in Nat /\ job.maxRoutes \in Nat
      BY <1>0 DEF Counts, JobOK
    <3>2. /\ stats'.attempts \in {stats.attempts, stats.attempts + 1}
          /\ stats'.attempts # stats.attempts => stats.attempts < limits.attempts
          /\ stats'.backtracks \in {stats.backtracks, stats.backtracks + 1}
          /\ stats'.backtracks # stats.backtracks => stats.backtracks < limits.backtracks
          /\ stats'.routes \in {stats.routes, stats.routes + 1}
          /\ stats'.routes # stats.routes => stats.routes < limits.routes
      BY <1>0, <1>6 DEF Counts
    <3> QED BY <1>1, <3>1, <3>2 DEF Shares, BudgetsHold
  <2> QED BY <2>1, <2>2, <2>3, <2>4
<1>7. CASE SelectNode \/ Complete \/ NoCandidateLeft \/ AttemptsSpent \/ Descend
             \/ ReturnSuccess \/ ReturnError \/ MemoryEdge
  BY <1>6, <1>7 DEF SelectNode, Complete, NoCandidateLeft, AttemptsSpent, Descend,
                    ReturnSuccess, ReturnError, MemoryEdge, Return
<1>8. ASSUME NEW c, TryCandidate(c) PROVE Ledger'
  BY <1>6, <1>8 DEF TryCandidate
<1>9. CASE RouteEdge \/ NoPath BY <1>6, <1>9 DEF RouteEdge, NoPath, ValueEdge
<1>10. CASE Backtrack
  <2>1. UNCHANGED <<ii, limits, outcomes, status>> /\ mode = "return"
    BY <1>10 DEF Backtrack
  <2>2. CASE stats.backtracks >= limits.backtracks
    BY <1>6, <1>10, <2>1, <2>2 DEF Backtrack, Return
  <2>3. CASE ~(stats.backtracks >= limits.backtracks)
    <3>1. stats.backtracks < limits.backtracks BY <2>3, <1>0 DEF Counts
    <3> QED BY <1>6, <1>10, <2>1, <2>3, <3>1 DEF Backtrack
  <2> QED BY <2>2, <2>3
<1>11. ASSUME NEW o, RouteFails(o) PROVE Ledger'
  BY <1>6, <1>11 DEF RouteFails, ValueEdge, Return
<1>12. CASE Finished
  BY <1>1, <1>2, <1>12
     DEF Finished, vars, History, NoMappingIsHonest, Shares, BudgetsHold
<1> QED BY <1>3, <1>4, <1>5, <1>7, <1>8, <1>9, <1>10, <1>11, <1>12 DEF Next

LEMMA StutterStep ==
    ASSUME IInv, UNCHANGED vars
    PROVE  IInv'
<1>1. startII' = startII /\ maxII' = maxII BY JobSame DEF vars
<1>2. Shape' BY ShapeKept DEF IInv, CoreInv, Shape, vars
<1>3. Control' BY <1>1 DEF IInv, CoreInv, Control, vars
<1>4. SearchInv'
  <2>1. CASE mode # "candidates" BY <2>1, QuietStep DEF IInv, CoreInv, vars
  <2>2. CASE mode = "candidates"
    <3> USE DEF IInv, CoreInv, SearchInv, vars
    <3>1. Depth' = Depth /\ Top' = Top BY DEF Depth, Top
    <3>2. FramesApart' BY DEF FramesApart
    <3>3. CandidatesFit' BY DEF CandidatesFit, candidates
    <3>4. PlacementsFit' BY DEF PlacementsFit, candidates, NodesOf
    <3>5. DeltasRecord'
      BY <3>1 DEF DeltasRecord, Recorded, FootprintOf, Footprint, NoDelta
    <3>6. StackAccounts'
      BY <3>1 DEF StackAccounts, NodesUpTo, EdgesUpTo, EdgesOf, Touching, EdgesOfDelta
    <3>7. TableExact' BY TableSame
    <3> QED BY <3>2, <3>3, <3>4, <3>5, <3>6, <3>7
  <2> QED BY <2>1, <2>2
<1>5. Ledger'
  BY <1>1 DEF IInv, Ledger, vars, History, NoMappingIsHonest, Shares, BudgetsHold
<1> QED BY <1>2, <1>3, <1>4, <1>5 DEF IInv, CoreInv

\* One step of the search keeps the invariant.
LEMMA NextInv ==
    ASSUME IInv, [Next]_vars
    PROVE  IInv'
<1>1. CASE UNCHANGED vars BY <1>1, StutterStep
<1>2. CASE Next
  <2>1. Ledger' BY <1>2, LedgerStep
  <2>2. CASE StartInterval \/ NoMoreIntervals \/ EndInterval BY <2>1, <2>2, IntervalSteps DEF IInv
  <2>3. CASE SelectNode \/ Complete \/ Descend BY <2>1, <2>3, SearchSteps DEF IInv
  <2>4. CASE NoCandidateLeft \/ AttemptsSpent \/ ReturnSuccess
    BY <2>1, <2>4, GiveUpSteps DEF IInv
  <2>5. ASSUME NEW c, TryCandidate(c) PROVE IInv' BY <2>1, <2>5, TrySteps DEF IInv
  <2>6. CASE MemoryEdge \/ RouteEdge BY <2>1, <2>6, RealizeSteps DEF IInv
  <2>7. CASE \/ NoPath \/ ReturnError \/ Backtrack
             \/ \E o \in RouteFailures : RouteFails(o)
    BY <2>1, <2>7, UndoSteps DEF IInv
  <2>8. CASE Finished BY <2>8, StutterStep DEF Finished
  <2> QED BY <1>2, <2>2, <2>3, <2>4, <2>5, <2>6, <2>7, <2>8 DEF Next
<1> QED BY <1>1, <1>2

\* The inductive invariant holds throughout every search.
THEOREM MapperInvariant == Spec => []IInv
<1>1. Init => IInv BY InitInv
<1>2. IInv /\ [Next]_vars => IInv' BY NextInv
<1> QED BY <1>1, <1>2, PTL DEF Spec

-----------------------------------------------------------------------------
(* What the invariant says of the mapper                                   *)

\* Placements, routed edges and the stack stay within the DFG: the recursion
\* of search() is never deeper than the DFG has nodes.
THEOREM MapperTyped == Spec => []TypeOK
<1>1. ASSUME IInv PROVE TypeOK
  <2> USE <1>1 DEF IInv, CoreInv
  <2>0. JobOK(job) /\ maxII \in Nat BY JobFacts DEF Shape
  <2>1. job \in Jobs /\ ii \in 0 .. maxII BY <2>0 DEF Shape, Control
  <2>2. /\ DOMAIN placements \subseteq NodesOf(job)
        /\ \A n \in DOMAIN placements :
              placements[n].tile \in job.tiles[n] /\ placements[n].slot \in 0 .. ii - 1
    BY DEF SearchInv, PlacementsFit, candidates
  <2>3. DOMAIN dependences \subseteq EdgesOf(job) BY DEF Shape
  <2>4. Len(stack) =< Cardinality(NodesOf(job))
    <3> DEFINE L == Len(stack)
               g == [i \in 1 .. L |-> stack[i].node]
    <3>1. L \in Nat /\ DOMAIN stack = 1 .. L /\ \A i \in 1 .. L : stack[i] \in Frames
      BY DEF Shape
    <3>2. g \in [1 .. L -> NodesOf(job)] BY <3>1 DEF Frames
    <3>3. \A i, k \in 1 .. L : g[i] = g[k] => i = k BY <3>1 DEF SearchInv, FramesApart
    <3>4. g \in Injection(1 .. L, NodesOf(job))
      BY <3>2, <3>3 DEF Injection, IsInjective
    <3> HIDE DEF g
    <3>5. Cardinality(1 .. L) =< Cardinality(NodesOf(job))
      BY <2>0, <3>4, FS_Injection DEF JobOK
    <3>6. Cardinality(1 .. L) = L
      <4>1. 1 \in Int /\ L \in Int BY <3>1
      <4> QED BY <3>1, <4>1, FS_Interval
    <3> QED BY <3>5, <3>6
  <2> QED BY <2>1, <2>2, <2>3, <2>4 DEF TypeOK, Shape
<1> QED BY <1>1, MapperInvariant, PTL

\* The reservation table is exactly what is placed and routed, and what the
\* deltas on the stack would release, through any number of backtracks.
THEOREM ReservationsAreExact == Spec => []OwnersExact
<1>1. ASSUME IInv PROVE OwnersExact
  <2> USE <1>1 DEF IInv, CoreInv, SearchInv
  <2>1. ASSUME NEW i \in DOMAIN stack
        PROVE  /\ \A r \in stack[i].delta.node : owners[r] = <<"Node", stack[i].node>>
               /\ \A k \in DOMAIN stack[i].delta.edges :
                     \A r \in stack[i].delta.edges[k].resources :
                         owners[r] = <<"Edge", stack[i].delta.edges[k].edge>>
    <3>1. Len(stack) \in Nat /\ DOMAIN stack = 1 .. Len(stack) BY DEF Shape
    <3>2. CASE i \in 1 .. Depth
      <4>1. Recorded(i) BY <3>2 DEF DeltasRecord
      <4> QED BY <4>1 DEF Recorded, TableExact
    <3>3. CASE i \notin 1 .. Depth
      <4>1. mode = "candidates" /\ i = Len(stack) BY <3>1, <3>3 DEF Depth
      <4>2. stack[i].delta = NoDelta BY <4>1 DEF DeltasRecord, Top, Last
      <4>3. stack[i].delta.node = {} /\ DOMAIN stack[i].delta.edges = {}
        BY <4>2 DEF NoDelta
      <4> QED BY <4>3
    <3> QED BY <3>2, <3>3
  <2> QED BY <2>1 DEF OwnersExact, TableExact
<1> QED BY <1>1, MapperInvariant, PTL

\* Whenever the search goes on, every edge between placed nodes is realised,
\* and no other.
THEOREM EdgesAreRealised == Spec => []EdgesFollowNodes
<1>1. ASSUME IInv PROVE EdgesFollowNodes
  <2> USE <1>1 DEF IInv, CoreInv, SearchInv
  <2> SUFFICES ASSUME mode \in {"search", "candidates"}
               PROVE  DOMAIN dependences =
                         {e \in EdgesOf(job) : /\ job.edges[e].src \in DOMAIN placements
                                               /\ job.edges[e].dst \in DOMAIN placements}
    BY DEF EdgesFollowNodes
  <2>1. outcome # "success" /\ pending = {} BY DEF Control
  <2>2. DOMAIN placements = NodesUpTo(Depth) /\ DOMAIN dependences = EdgesUpTo(Depth)
    BY <2>1 DEF StackAccounts
  <2> QED BY <2>2 DEF EdgesUpTo
<1> QED BY <1>1, MapperInvariant, PTL

\* A complete mapping of the search passes the verifier's resource checks: the
\* mapper's verification failure comes from the callback only.
THEOREM CompleteMappingsVerify == Spec => []VerifierAgrees
<1>1. ASSUME IInv PROVE VerifierAgrees
  <2> USE <1>1 DEF IInv, CoreInv, SearchInv
  <2> SUFFICES ASSUME mode = "search", Unmapped = {} PROVE Verified
    BY DEF VerifierAgrees
  <2>1. outcome # "success" /\ pending = {} BY DEF Control
  <2>2. DOMAIN placements = NodesOf(job) BY DEF Unmapped, PlacementsFit
  <2>3. DOMAIN dependences = EdgesOf(job)
    <3>1. DOMAIN placements = NodesUpTo(Depth) /\ DOMAIN dependences = EdgesUpTo(Depth)
      BY <2>1 DEF StackAccounts
    <3>2. \A e \in EdgesOf(job) : /\ job.edges[e].src \in NodesOf(job)
                                  /\ job.edges[e].dst \in NodesOf(job)
      BY JobFacts DEF Shape, JobOK
    <3> QED BY <2>2, <3>1, <3>2 DEF EdgesUpTo
  <2> QED BY <2>2, <2>3, NothingShared DEF Verified
<1> QED BY <1>1, MapperInvariant, PTL

\* "No mapping" is the answer only after every interval was exhausted.
THEOREM NoMappingIsProved == Spec => []NoMappingIsHonest
<1>1. IInv => NoMappingIsHonest BY DEF IInv, Ledger
<1> QED BY <1>1, MapperInvariant, PTL

\* The shares of the intervals never add up to more than the budgets.
THEOREM SharesStayInBudget == Spec => []BudgetsHold
<1>1. IInv => BudgetsHold BY DEF IInv, Ledger
<1> QED BY <1>1, MapperInvariant, PTL
=============================================================================
