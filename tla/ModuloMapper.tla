---------------------------- MODULE ModuloMapper ----------------------------
(***************************************************************************)
(* compiler/lib/Mapping/ModuloMapper.cpp with ResourceReservation.cpp: the *)
(* backtracking search that gives every node of a target DFG a tile and an *)
(* issue slot, and every edge between placed nodes a route, one initiation *)
(* interval after the other, within budgets that are shared out among the  *)
(* intervals.                                                              *)
(*                                                                         *)
(* The recursion of search() is the stack; a frame is one activation: its  *)
(* node, the candidates it has not tried, and the delta it undoes before   *)
(* the next.  candidates() are tried in any order (the code sorts them by  *)
(* a heuristic).  A route search is its contract (module RouteSearch): one *)
(* to MaxHops free links between different tiles, a hold without a link    *)
(* within a tile unless holds are turned off, no path, its own budget, or  *)
(* an error.  The complete-mapping checker is a callback of the caller and *)
(* may answer anything.                                                    *)
(***************************************************************************)
EXTENDS Integers, Sequences, FiniteSets, FiniteSetsExt, SequencesExt

CONSTANTS
    Jobs,        \* dfg, mii, minII, maxII, budget and route options; see JobOK
    LinkNames,   \* the links of the mesh
    MaxHops,     \* the links of a route, at most
    Decisions    \* what the complete-mapping checker may answer

NodesOf(j) == DOMAIN j.tiles
EdgesOf(j) == DOMAIN j.edges

JobOK(j) ==
    /\ NodesOf(j) \subseteq Nat /\ EdgesOf(j) \subseteq Nat
    /\ IsFiniteSet(NodesOf(j)) /\ IsFiniteSet(EdgesOf(j))
    /\ \A n \in NodesOf(j) : j.occupancy[n] \in Nat \ {0}
    /\ \A e \in EdgesOf(j) :
          j.edges[e].src \in NodesOf(j) /\ j.edges[e].dst \in NodesOf(j)
    /\ j.mii \in Nat \ {0} /\ j.minII \in Nat /\ j.maxII \in Nat
    /\ j.allowVirtualHold \in BOOLEAN
    /\ j.maxAttempts \in Nat /\ j.maxBacktracks \in Nat /\ j.maxRoutes \in Nat

ASSUME MapperAssumption ==
    /\ \A j \in Jobs : JobOK(j)
    /\ MaxHops \in Nat \ {0}
    /\ Decisions \subseteq {"accept", "reject", "abort_budget",
                            "abort_verification", "abort_other"}

VARIABLES
    job,
    ii,
    limits,         \* SearchLimits of this interval
    stats,          \* attempts, backtracks and routes, over all intervals
    placements,     \* node -> [tile, slot]
    dependences,    \* edge -> the link resources of its route
    owners,         \* reserved resource -> <<"Node", n>> or <<"Edge", e>>
    stack,
    pending,        \* the closed edges that tryCandidate has yet to realise
    mode,           \* where the search is: "map", "search", "candidates",
                    \* "edges", "return" or "done"
    outcome,        \* the SearchOutcome that is being returned
    outcomes,       \* interval -> its outcome
    status

vars == <<job, ii, limits, stats, placements, dependences, owners, stack,
          pending, mode, outcome, outcomes, status>>

-----------------------------------------------------------------------------
(* Resources in modulo time                                                *)

Footprint(n, tile, slot) ==
    {<<job.class[n], tile, (slot + o) % ii>> : o \in 0 .. job.occupancy[n] - 1}

Fits(n) == job.occupancy[n] =< ii

\* The node placed at p owns its footprint.
FootprintOf(n) == Footprint(n, placements[n].tile, placements[n].slot)

canReserve(rs) == rs \cap DOMAIN owners = {}

Reserve(ow, rs, owner) ==
    [r \in DOMAIN ow \cup rs |-> IF r \in rs THEN owner ELSE ow[r]]

Release(ow, rs) == [r \in DOMAIN ow \ rs |-> ow[r]]

\* The routes a search may return between two placements.
RoutesBetween(p, q) ==
    IF p.tile = q.tile THEN {rs \in {{}} : job.allowVirtualHold}
    ELSE UNION {kSubset(h, {"Link"} \X LinkNames \X (0 .. ii - 1)) : h \in 1 .. MaxHops}

-----------------------------------------------------------------------------
(* The order of the search                                                 *)

Unmapped == NodesOf(job) \ DOMAIN placements
Touching(n) == {e \in EdgesOf(job) : n \in {job.edges[e].src, job.edges[e].dst}}
Other(e, n) == IF job.edges[e].src = n THEN job.edges[e].dst ELSE job.edges[e].src

unmappedInputs(n) ==
    Cardinality({e \in Touching(n) :
        /\ job.edges[e].dst = n /\ job.edges[e].src # n
        /\ job.edges[e].distance = 0 /\ job.edges[e].kind # "Memory"
        /\ job.edges[e].src \in Unmapped})

\* Fewest unplaced inputs, most placed neighbours, highest degree, most
\* loop-carried edges, lowest id.
Priority(n) ==
    <<-unmappedInputs(n),
      Cardinality({e \in Touching(n) : Other(e, n) \notin Unmapped}),
      Cardinality(Touching(n)),
      Cardinality({e \in Touching(n) : job.edges[e].distance # 0}),
      -n>>

Higher(a, b) ==
    \E i \in DOMAIN a : a[i] > b[i] /\ \A k \in 1 .. i - 1 : a[k] = b[k]

selectNode ==
    CHOOSE n \in Unmapped :
        \A m \in Unmapped \ {n} : Higher(Priority(n), Priority(m))

candidates_OnePast(n) == [tile : job.tiles[n], slot : 0 .. ii]
candidates(n) == [tile : job.tiles[n], slot : 0 .. ii - 1]

closedEdges_NoSelf(n, placed) ==
    {e \in Touching(n) : /\ job.edges[e].src \in placed
                         /\ job.edges[e].dst \in placed \ {job.edges[e].src}
                         /\ e \notin DOMAIN dependences}

closedEdges(n, placed) ==
    {e \in Touching(n) : /\ job.edges[e].src \in placed
                         /\ job.edges[e].dst \in placed
                         /\ e \notin DOMAIN dependences}

NoDelta == [node |-> {}, edges |-> <<>>]
Top == Last(stack)

-----------------------------------------------------------------------------
(* Budgets                                                                 *)

fairShareLimit_Whole(maximum, used, remaining) == used + maximum

\* Half of what is left, rounded up; the last interval gets all of it.
fairShareLimit(maximum, used, remaining) ==
    IF used >= maximum THEN used
    ELSE LET left == maximum - used
         IN  used + (IF remaining = 1 THEN left ELSE (left \div 2) + (left % 2))

startII == IF job.minII > job.mii THEN job.minII ELSE job.mii
maxII == IF job.maxII = 0 THEN startII ELSE job.maxII

LimitsFor(i) ==
    [attempts |-> fairShareLimit(job.maxAttempts, stats.attempts, maxII - i + 1),
     backtracks |-> fairShareLimit(job.maxBacktracks, stats.backtracks, maxII - i + 1),
     routes |-> fairShareLimit(job.maxRoutes, stats.routes, maxII - i + 1)]

-----------------------------------------------------------------------------
(* ModuloMapper::map                                                       *)

Empty == [x \in {} |-> 0]

Init ==
    /\ job \in Jobs
    /\ ii = 0
    /\ limits = [attempts |-> 0, backtracks |-> 0, routes |-> 0]
    /\ stats = [attempts |-> 0, backtracks |-> 0, routes |-> 0]
    /\ placements = Empty /\ dependences = Empty /\ owners = Empty
    /\ stack = <<>> /\ pending = {}
    /\ mode = "map" /\ outcome = "none" /\ outcomes = Empty
    /\ status = "running"

StartInterval_Again ==
    /\ mode = "map"
    /\ startII =< maxII
    /\ ii' = startII
    /\ limits' = LimitsFor(startII)
    /\ placements' = Empty /\ dependences' = Empty /\ owners' = Empty
    /\ stack' = <<>> /\ pending' = {}
    /\ mode' = "search" /\ outcome' = "none"
    /\ UNCHANGED <<job, stats, outcomes, status>>

\* A fresh MappingSearchState for the next interval.
StartInterval ==
    LET next == IF outcomes = Empty THEN startII ELSE ii + 1
    IN  /\ mode = "map"
        /\ next =< maxII
        /\ ii' = next
        /\ limits' = LimitsFor(next)
        /\ placements' = Empty /\ dependences' = Empty /\ owners' = Empty
        /\ stack' = <<>> /\ pending' = {}
        /\ mode' = "search" /\ outcome' = "none"
        /\ UNCHANGED <<job, stats, outcomes, status>>

BudgetHit_Last == outcomes[ii] = "per_ii_budget"
BudgetHit == \E i \in DOMAIN outcomes : outcomes[i] = "per_ii_budget"

NoMoreIntervals ==
    /\ mode = "map"
    /\ (IF outcomes = Empty THEN startII ELSE ii + 1) > maxII
    /\ status' = IF outcomes # Empty /\ BudgetHit THEN "budget_exceeded"
                                                  ELSE "no_mapping"
    /\ mode' = "done"
    /\ UNCHANGED <<job, ii, limits, stats, placements, dependences, owners,
                   stack, pending, outcome, outcomes>>

\* The outcome of an interval: success and errors end the search.
EndInterval ==
    /\ mode = "return" /\ stack = <<>>
    /\ outcomes' = [i \in DOMAIN outcomes \cup {ii} |->
                       IF i = ii THEN outcome ELSE outcomes[i]]
    /\ IF outcome \in {"exhausted", "per_ii_budget"}
       THEN mode' = "map" /\ UNCHANGED status
       ELSE mode' = "done" /\ status' = outcome
    /\ UNCHANGED <<job, ii, limits, stats, placements, dependences, owners,
                   stack, pending, outcome>>

-----------------------------------------------------------------------------
(* search                                                                  *)

Return(o) == mode' = "return" /\ outcome' = o

SelectNode ==
    /\ mode = "search" /\ Unmapped # {}
    /\ stack' = Append(stack, [node |-> selectNode, left |-> candidates(selectNode),
                               delta |-> NoDelta])
    /\ mode' = "candidates"
    /\ UNCHANGED <<job, ii, limits, stats, placements, dependences, owners,
                   pending, outcome, outcomes, status>>

Verified_AnyClass ==
    /\ DOMAIN dependences = EdgesOf(job)
    /\ \A n, m \in NodesOf(job) : n # m => placements[n] # placements[m]

\* ModuloMappingVerifier on the complete mapping: every edge is realised and no
\* resource is used twice.
Verified ==
    /\ DOMAIN dependences = EdgesOf(job)
    /\ \A n, m \in NodesOf(job) :
          n # m => FootprintOf(n) \cap FootprintOf(m) = {}
    /\ \A e, f \in EdgesOf(job) :
          e # f => dependences[e] \cap dependences[f] = {}

Complete ==
    /\ mode = "search" /\ Unmapped = {}
    /\ IF ~Verified THEN Return("verification_failure")
       ELSE \E d \in Decisions :
              Return(CASE d = "accept" -> "success"
                       [] d = "reject" -> "exhausted"
                       [] d = "abort_budget" -> "budget_exceeded"
                       [] d = "abort_verification" -> "verification_failure"
                       [] d = "abort_other" -> "internal_error")
    /\ UNCHANGED <<job, ii, limits, stats, placements, dependences, owners,
                   stack, pending, outcomes, status>>

NoCandidateLeft ==
    /\ mode = "candidates" /\ Top.left = {}
    /\ Return("exhausted")
    /\ stack' = Front(stack)
    /\ UNCHANGED <<job, ii, limits, stats, placements, dependences, owners,
                   pending, outcomes, status>>

AttemptsSpent ==
    /\ mode = "candidates" /\ Top.left # {}
    /\ stats.attempts >= limits.attempts
    /\ Return("per_ii_budget")
    /\ stack' = Front(stack)
    /\ UNCHANGED <<job, ii, limits, stats, placements, dependences, owners,
                   pending, outcomes, status>>

TryCandidate(c) ==
    LET n == Top.node
        rs == Footprint(n, c.tile, c.slot)
        tried == [Top EXCEPT !.left = @ \ {c}, !.delta = NoDelta]
    IN  /\ mode = "candidates" /\ c \in Top.left
        /\ stats.attempts < limits.attempts
        /\ stats' = [stats EXCEPT !.attempts = @ + 1]
        /\ IF Fits(n) /\ canReserve(rs)
           THEN /\ owners' = Reserve(owners, rs, <<"Node", n>>)
                /\ placements' = [m \in DOMAIN placements \cup {n} |->
                                     IF m = n THEN c ELSE placements[m]]
                /\ stack' = Append(Front(stack), [tried EXCEPT !.delta.node = rs])
                /\ pending' = closedEdges(n, DOMAIN placements \cup {n})
                /\ mode' = "edges"
           ELSE /\ stack' = Append(Front(stack), tried)
                /\ UNCHANGED <<owners, placements, pending, mode>>
        /\ UNCHANGED <<job, ii, limits, dependences, outcome, outcomes, status>>

-----------------------------------------------------------------------------
(* realizeEdge and rollback                                                *)

Edge == Min(pending)

Realize(rs) ==
    /\ dependences' = [e \in DOMAIN dependences \cup {Edge} |->
                          IF e = Edge THEN rs ELSE dependences[e]]
    /\ owners' = Reserve(owners, rs, <<"Edge", Edge>>)
    /\ stack' = [stack EXCEPT ![Len(stack)].delta.edges =
                                  Append(@, [edge |-> Edge, resources |-> rs])]
    /\ pending' = pending \ {Edge}

MemoryEdge ==
    /\ mode = "edges" /\ pending # {} /\ job.edges[Edge].kind = "Memory"
    /\ Realize({})
    /\ UNCHANGED <<job, ii, limits, stats, placements, mode, outcome, outcomes,
                   status>>

ValueEdge == mode = "edges" /\ pending # {} /\ job.edges[Edge].kind # "Memory"

RouteEdge ==
    /\ ValueEdge /\ stats.routes < limits.routes
    /\ stats' = [stats EXCEPT !.routes = @ + 1]
    /\ \E rs \in RoutesBetween(placements[job.edges[Edge].src],
                               placements[job.edges[Edge].dst]) :
          rs \cap DOMAIN owners = {} /\ Realize(rs)
    /\ UNCHANGED <<job, ii, limits, placements, mode, outcome, outcomes, status>>

EdgesOfDelta(d) == {d.edges[i].edge : i \in DOMAIN d.edges}
ResourcesOfDelta(d) == d.node \cup (UNION {d.edges[i].resources : i \in DOMAIN d.edges})

rollback_NodeOnly(f) ==
    /\ dependences' = [e \in DOMAIN dependences \ EdgesOfDelta(f.delta) |->
                          dependences[e]]
    /\ owners' = Release(owners, f.delta.node)
    /\ placements' = [m \in DOMAIN placements \ {f.node} |-> placements[m]]

rollback(f) ==
    /\ dependences' = [e \in DOMAIN dependences \ EdgesOfDelta(f.delta) |->
                          dependences[e]]
    /\ owners' = Release(owners, ResourcesOfDelta(f.delta))
    /\ placements' = [m \in DOMAIN placements \ {f.node} |-> placements[m]]

Cleared == Append(Front(stack), [Top EXCEPT !.delta = NoDelta])

\* No path: the candidate is undone and the next one is tried.
NoPath ==
    /\ ValueEdge /\ stats.routes < limits.routes
    /\ \/ placements[job.edges[Edge].src].tile # placements[job.edges[Edge].dst].tile
       \/ ~job.allowVirtualHold
    /\ stats' = [stats EXCEPT !.routes = @ + 1]
    /\ rollback(Top)
    /\ stack' = Cleared
    /\ pending' = {} /\ mode' = "candidates"
    /\ UNCHANGED <<job, ii, limits, outcome, outcomes, status>>

\* A budget of the route search, or of the calls to it, or an error ends the
\* activation.
RouteFailures == {"per_ii_budget", "route_budget_exceeded", "internal_error"}
RouteFails(o) ==
    /\ ValueEdge
    /\ IF o = "per_ii_budget"
       THEN stats.routes >= limits.routes /\ UNCHANGED stats
       ELSE /\ stats.routes < limits.routes
            /\ stats' = [stats EXCEPT !.routes = @ + 1]
    /\ rollback(Top)
    /\ Return(o)
    /\ stack' = Front(stack)
    /\ pending' = {}
    /\ UNCHANGED <<job, ii, limits, outcomes, status>>

Descend ==
    /\ mode = "edges" /\ pending = {}
    /\ mode' = "search"
    /\ UNCHANGED <<job, ii, limits, stats, placements, dependences, owners,
                   stack, pending, outcome, outcomes, status>>

\* The child returned: success is passed up as it is, any other outcome undoes
\* the candidate; an exhausted child counts as a backtrack.
ReturnSuccess ==
    /\ mode = "return" /\ stack # <<>> /\ outcome = "success"
    /\ stack' = Front(stack)
    /\ UNCHANGED <<job, ii, limits, stats, placements, dependences, owners,
                   pending, mode, outcome, outcomes, status>>

ReturnError ==
    /\ mode = "return" /\ stack # <<>>
    /\ outcome \notin {"success", "exhausted"}
    /\ rollback(Top)
    /\ stack' = Front(stack)
    /\ UNCHANGED <<job, ii, limits, stats, pending, mode, outcome, outcomes,
                   status>>

Backtrack ==
    /\ mode = "return" /\ stack # <<>> /\ outcome = "exhausted"
    /\ rollback(Top)
    /\ IF stats.backtracks >= limits.backtracks
       THEN Return("per_ii_budget") /\ stack' = Front(stack) /\ UNCHANGED stats
       ELSE /\ stats' = [stats EXCEPT !.backtracks = @ + 1]
            /\ mode' = "candidates" /\ stack' = Cleared /\ UNCHANGED outcome
    /\ UNCHANGED <<job, ii, limits, pending, outcomes, status>>

Finished == mode = "done" /\ UNCHANGED vars

Next ==
    \/ StartInterval \/ NoMoreIntervals \/ EndInterval
    \/ SelectNode \/ Complete \/ NoCandidateLeft \/ AttemptsSpent
    \/ \E c \in UNION {candidates(n) : n \in NodesOf(job)} :
           stack # <<>> /\ TryCandidate(c)
    \/ MemoryEdge \/ RouteEdge \/ NoPath
    \/ \E o \in RouteFailures : RouteFails(o)
    \/ Descend \/ ReturnSuccess \/ ReturnError \/ Backtrack
    \/ Finished

Spec == Init /\ [][Next]_vars /\ WF_vars(Next)

-----------------------------------------------------------------------------
(* Properties                                                              *)

TypeOK ==
    /\ job \in Jobs
    /\ ii \in 0 .. maxII
    /\ DOMAIN placements \subseteq NodesOf(job)
    /\ \A n \in DOMAIN placements :
          placements[n].tile \in job.tiles[n] /\ placements[n].slot \in 0 .. ii - 1
    /\ DOMAIN dependences \subseteq EdgesOf(job)
    /\ pending \subseteq EdgesOf(job)
    /\ Len(stack) =< Cardinality(NodesOf(job))
    /\ mode \in {"map", "search", "candidates", "edges", "return", "done"}

\* The reservation table is exactly what the placed nodes and the routed edges
\* use, at every moment of the search, and what the deltas on the stack would
\* release: nothing leaks over a backtrack, and undo never meets a resource of
\* another owner (ResourceReservationTable::release never throws).
OwnersExact ==
    /\ DOMAIN owners =
          (UNION {FootprintOf(n) : n \in DOMAIN placements})
            \cup (UNION {dependences[e] : e \in DOMAIN dependences})
    /\ \A n \in DOMAIN placements :
          \A r \in FootprintOf(n) : owners[r] = <<"Node", n>>
    /\ \A e \in DOMAIN dependences :
          \A r \in dependences[e] : owners[r] = <<"Edge", e>>
    /\ \A i \in DOMAIN stack :
          /\ \A r \in stack[i].delta.node : owners[r] = <<"Node", stack[i].node>>
          /\ \A k \in DOMAIN stack[i].delta.edges :
                \A r \in stack[i].delta.edges[k].resources :
                    owners[r] = <<"Edge", stack[i].delta.edges[k].edge>>

\* Whenever the search descends, exactly the edges between placed nodes are
\* realised: no edge is left to a node that is never visited again.
EdgesFollowNodes ==
    mode \in {"search", "candidates"} =>
        DOMAIN dependences =
            {e \in EdgesOf(job) : /\ job.edges[e].src \in DOMAIN placements
                                  /\ job.edges[e].dst \in DOMAIN placements}

\* The mapper's own mappings pass the verifier: its failure status comes from
\* the callback only.
VerifierAgrees == (mode = "search" /\ Unmapped = {}) => Verified

\* The mapper reports that no mapping exists within the limit only if every
\* interval was searched to the end, none cut short by its share of a budget.
NoMappingIsHonest ==
    status = "no_mapping" =>
        /\ DOMAIN outcomes = startII .. maxII
        /\ \A i \in DOMAIN outcomes : outcomes[i] = "exhausted"

\* The counters stay within the caller's budgets over all intervals, whatever
\* the shares.
BudgetsHold ==
    /\ stats.attempts =< job.maxAttempts
    /\ stats.backtracks =< job.maxBacktracks
    /\ stats.routes =< job.maxRoutes

\* The search ends: budgets and candidate lists bound every interval and the
\* intervals are finitely many, whatever the callback answers.
Terminates == <>(mode = "done")
=============================================================================
