---------------------------- MODULE RouteSearch ----------------------------
(***************************************************************************)
(* compiler/lib/Mapping/ModuloRouteSearch.cpp: the cheapest transport of a *)
(* value from its producer's tile to its consumer's, over the links that   *)
(* are still free in modulo time.  Dijkstra's algorithm over states        *)
(* <<tile, slot>> with cost <<elapsed, holds, hops>> in lexicographic      *)
(* order: a link launched in the current slot leads to the neighbour       *)
(* hopLatency cycles later, a virtual hold to the same tile one cycle      *)
(* later.  One step pops one entry of the priority queue.                  *)
(*                                                                         *)
(* A request is a producer and a consumer placement that validateInput     *)
(* accepts, the links of the edge's network domain that other edges own,   *)
(* and the options; links of the other domain play no part.                *)
(***************************************************************************)
EXTENDS Integers, Sequences, FiniteSets, FiniteSetsExt, SequencesExt

CONSTANTS
    Rows, Cols,     \* the mesh
    Requests        \* see RequestOK

Tiles == (0 .. Rows - 1) \X (0 .. Cols - 1)
Directions == {"North", "East", "South", "West"}
Links(ii) == Tiles \X Directions \X (0 .. ii - 1)

RequestOK(r) ==
    /\ r.ii \in Nat \ {0}
    /\ r.hopLatency \in Nat \ {0}
    /\ r.ready \in Nat                     \* producerOutputReadyOffset
    /\ r.producer \in Tiles /\ r.consumer \in Tiles
    /\ r.issueSlot \in 0 .. r.ii - 1
    /\ r.owned \subseteq Links(r.ii)
    /\ r.allowVirtualHold \in BOOLEAN
    /\ r.maxQueuePushes \in Nat /\ r.maxStateExpansions \in Nat

ASSUME RouteAssumption ==
    /\ Rows \in Nat \ {0} /\ Cols \in Nat \ {0}
    /\ \A r \in Requests : RequestOK(r)

VARIABLES
    request,
    search,    \* best, predecessors, finalized, queue, pushes, expansions
    status,    \* "searching", or the RouteSearchStatus of the result
    plan       \* the transport plan: actions and separation

vars == <<request, search, status, plan>>

-----------------------------------------------------------------------------
(* The mesh in modulo time                                                 *)

Step(d) == CASE d = "North" -> <<-1, 0>>
             [] d = "South" -> <<1, 0>>
             [] d = "East" -> <<0, 1>>
             [] d = "West" -> <<0, -1>>

neighbor(t, d) == <<t[1] + Step(d)[1], t[2] + Step(d)[2]>>

advance(slot, n) == (slot + n) % request.ii

LaunchLink(t, d, elapsed) == <<t, d, advance(request.issueSlot, elapsed)>>

\* The link exists in the mesh and no other edge owns it in that slot.
Usable(t, d, elapsed) ==
    neighbor(t, d) \in Tiles /\ LaunchLink(t, d, elapsed) \notin request.owned

-----------------------------------------------------------------------------
(* Costs and the queue                                                     *)

\* Lexicographic order of tuples of the same length.
Less(a, b) ==
    \E i \in DOMAIN a : a[i] < b[i] /\ \A j \in 1 .. i - 1 : a[j] = b[j]

stateId(s) == (s[2] * Rows + s[1][1]) * Cols + s[1][2]

Better(cost, best, s) == s \notin DOMAIN best \/ Less(cost, best[s])

Before_HoldsFirst(e, f) ==
    LET key(x) == <<x.cost[2], x.cost[1], x.cost[3], stateId(x.state), x.sequence>>
    IN  Less(key(e), key(f))

\* The order of the priority queue: cost, state, sequence.
Before(e, f) ==
    LET key(x) == x.cost \o <<stateId(x.state), x.sequence>>
    IN  Less(key(e), key(f))

Top == CHOOSE e \in search.queue :
           \A f \in search.queue \ {e} : Before(e, f)

relaxTo_LatePush(sr, from, to, cost, kind) ==
    IF sr.overBudget \/ to \in sr.finalized \/ ~Better(cost, sr.best, to) THEN sr
    ELSE [sr EXCEPT
            !.best = [x \in DOMAIN @ \cup {to} |-> IF x = to THEN cost ELSE @[x]],
            !.pred = [x \in DOMAIN @ \cup {to} |->
                         IF x = to THEN [previous |-> from, kind |-> kind] ELSE @[x]],
            !.overBudget = sr.pushes >= request.maxQueuePushes,
            !.queue = @ \cup {[cost |-> cost, state |-> to, sequence |-> sr.pushes]},
            !.pushes = @ + 1]

\* relaxTo and push: a better cost is recorded, then queued; a full queue
\* budget leaves it recorded and sets overBudget.
relaxTo(sr, from, to, cost, kind) ==
    IF sr.overBudget \/ to \in sr.finalized \/ ~Better(cost, sr.best, to) THEN sr
    ELSE LET recorded ==
               [sr EXCEPT
                  !.best = [x \in DOMAIN @ \cup {to} |->
                               IF x = to THEN cost ELSE @[x]],
                  !.pred = [x \in DOMAIN @ \cup {to} |->
                               IF x = to THEN [previous |-> from, kind |-> kind]
                                         ELSE @[x]]]
         IN  IF sr.pushes >= request.maxQueuePushes
             THEN [recorded EXCEPT !.overBudget = TRUE]
             ELSE [recorded EXCEPT
                     !.queue = @ \cup {[cost |-> cost, state |-> to,
                                        sequence |-> sr.pushes]},
                     !.pushes = @ + 1]

expandLink_AnyOwner(sr, s, d) ==
    LET c == sr.best[s]
    IN  IF neighbor(s[1], d) \notin Tiles THEN sr
        ELSE relaxTo(sr, s,
                     <<neighbor(s[1], d), advance(s[2], request.hopLatency)>>,
                     <<c[1] + request.hopLatency, c[2], c[3] + 1>>, d)

expandLink(sr, s, d) ==
    LET c == sr.best[s]
    IN  IF ~Usable(s[1], d, c[1]) THEN sr
        ELSE relaxTo(sr, s,
                     <<neighbor(s[1], d), advance(s[2], request.hopLatency)>>,
                     <<c[1] + request.hopLatency, c[2], c[3] + 1>>, d)

expandHold_FirstTile(sr, s) ==
    LET c == sr.best[s]
    IN  IF ~request.allowVirtualHold \/ c[3] > 0 THEN sr
        ELSE relaxTo(sr, s, <<s[1], advance(s[2], 1)>>,
                     <<c[1] + 1, c[2] + 1, c[3]>>, "Hold")

expandHold(sr, s) ==
    LET c == sr.best[s]
    IN  IF ~request.allowVirtualHold THEN sr
        ELSE relaxTo(sr, s, <<s[1], advance(s[2], 1)>>,
                     <<c[1] + 1, c[2] + 1, c[3]>>, "Hold")

Expanded(sr, s) ==
    LET north == expandLink(sr, s, "North")
        east == expandLink(north, s, "East")
        south == expandLink(east, s, "South")
        west == expandLink(south, s, "West")
    IN  expandHold(west, s)

-----------------------------------------------------------------------------
(* The plan                                                                *)

StartState == <<request.producer, advance(request.issueSlot, request.ready)>>

\* The states from goal back to the start, along predecessors; every one of
\* them is reached earlier than the one before it.
Trail(goal) ==
    LET back[k \in 0 .. search.best[goal][1]] ==
            IF k = 0 THEN goal
            ELSE LET child == back[k - 1]
                 IN  IF child = StartState THEN child ELSE search.pred[child].previous
    IN  back

LinkStep(t, d, elapsed) == [kind |-> "Link", tile |-> t, direction |-> d,
                            capture |-> elapsed, release |-> elapsed]
VirtualHold(t, capture, release) ==
    [kind |-> "Hold", tile |-> t, direction |-> "North", capture |-> capture,
     release |-> release]

\* Adjacent holds on a tile become one.
AppendAction(actions, a) ==
    IF /\ actions # <<>> /\ a.kind = "Hold"
       /\ Last(actions).kind = "Hold" /\ Last(actions).tile = a.tile
       /\ Last(actions).release = a.capture
    THEN [actions EXCEPT ![Len(actions)].release = a.release]
    ELSE Append(actions, a)

ActionInto(child) ==
    LET p == search.pred[child]
        from == search.best[p.previous][1]
    IN  IF p.kind = "Hold"
        THEN VirtualHold(p.previous[1], from, search.best[child][1])
        ELSE LinkStep(p.previous[1], p.kind, from)

\* The actions into the states of the trail, from the start to its goal.
ActionsAlong(trail, n) ==
    LET acts[k \in 0 .. n] ==
            IF k = 0 THEN <<>>
            ELSE AppendAction(acts[k - 1], ActionInto(trail[n - k]))
    IN  acts[n]

reconstruct(goal) ==
    LET trail == Trail(goal)
    IN  [actions |-> ActionsAlong(trail, Min({k \in DOMAIN trail : trail[k] = StartState})),
         separation |-> search.best[goal][1]]

PlanLinks(p) ==
    [i \in {j \in 1 .. Len(p.actions) : p.actions[j].kind = "Link"} |->
        LaunchLink(p.actions[i].tile, p.actions[i].direction,
                   p.actions[i].capture)]

SelfConflict(p) ==
    \E i, j \in DOMAIN PlanLinks(p) : i # j /\ PlanLinks(p)[i] = PlanLinks(p)[j]

-----------------------------------------------------------------------------

NoPlan == [actions |-> <<>>, separation |-> 0]

Init ==
    /\ request \in Requests
    /\ search = [best |-> [s \in {StartState} |-> <<request.ready, 0, 0>>],
                 pred |-> [s \in {} |-> 0], finalized |-> {},
                 queue |-> IF request.maxQueuePushes = 0 THEN {}
                           ELSE {[cost |-> <<request.ready, 0, 0>>,
                                  state |-> StartState, sequence |-> 0]},
                 pushes |-> IF request.maxQueuePushes = 0 THEN 0 ELSE 1,
                 expansions |-> 0,
                 overBudget |-> request.maxQueuePushes = 0]
    /\ status = IF request.maxQueuePushes = 0 THEN "budget_exceeded"
                                              ELSE "searching"
    /\ plan = NoPlan

Remote == status = "searching" /\ request.producer # request.consumer

SameTile ==
    /\ status = "searching" /\ request.producer = request.consumer
    /\ IF request.allowVirtualHold
       THEN /\ status' = "success"
            /\ plan' = [actions |-> <<VirtualHold(request.producer, request.ready,
                                                  request.ready + 1)>>,
                        separation |-> request.ready + 1]
       ELSE status' = "no_path" /\ UNCHANGED plan
    /\ UNCHANGED <<request, search>>

\* The entry is stale: its state is final, or has a better cost since.
Stale == Top.state \in search.finalized \/ Top.cost # search.best[Top.state]

SkipStale ==
    /\ Remote /\ search.queue # {} /\ Stale
    /\ search' = [search EXCEPT !.queue = @ \ {Top}]
    /\ UNCHANGED <<request, status, plan>>

Finalize == [search EXCEPT !.queue = @ \ {Top}, !.finalized = @ \cup {Top.state}]

ReachConsumer ==
    /\ Remote /\ search.queue # {} /\ ~Stale
    /\ Top.state[1] = request.consumer
    /\ search' = Finalize
    /\ plan' = reconstruct(Top.state)
    /\ status' = IF SelfConflict(plan') THEN "internal_error" ELSE "success"
    /\ UNCHANGED request

Expand ==
    /\ Remote /\ search.queue # {} /\ ~Stale
    /\ Top.state[1] # request.consumer
    /\ IF search.expansions >= request.maxStateExpansions
       THEN search' = Finalize /\ status' = "budget_exceeded"
       ELSE /\ search' = Expanded([Finalize EXCEPT !.expansions = @ + 1], Top.state)
            /\ status' = IF search'.overBudget THEN "budget_exceeded"
                                               ELSE "searching"
    /\ UNCHANGED <<request, plan>>

Exhausted ==
    /\ Remote /\ search.queue = {}
    /\ status' = "no_path"
    /\ UNCHANGED <<request, search, plan>>

Finished == status # "searching" /\ UNCHANGED vars

Next ==
    \/ SameTile
    \/ SkipStale
    \/ ReachConsumer
    \/ Expand
    \/ Exhausted
    \/ Finished

Spec == Init /\ [][Next]_vars

-----------------------------------------------------------------------------
(* Properties                                                              *)

TypeOK ==
    /\ request \in Requests
    /\ DOMAIN search.best \subseteq Tiles \X (0 .. request.ii - 1)
    /\ search.finalized \subseteq DOMAIN search.best
    /\ \A e \in search.queue : e.state \in DOMAIN search.best
    /\ search.pushes \in 0 .. request.maxQueuePushes
    /\ search.expansions \in 0 .. request.maxStateExpansions
    /\ status \in {"searching", "success", "no_path", "budget_exceeded",
                   "internal_error"}

\* ModuloMappingVerifier::verifyValueTransport, over a whole plan: the value is
\* where an action takes it from when the action starts, every link is usable
\* and none is used twice, and the plan ends on the consumer's tile after
\* separation cycles.
EndTile(a) == IF a.kind = "Hold" THEN a.tile ELSE neighbor(a.tile, a.direction)
EndTime(a) == IF a.kind = "Hold" THEN a.release ELSE a.capture + request.hopLatency

Transports(p) ==
    /\ p.actions # <<>>
    /\ p.actions[1].tile = request.producer
    /\ p.actions[1].capture = request.ready
    /\ \A i \in 1 .. Len(p.actions) - 1 :
          /\ p.actions[i + 1].tile = EndTile(p.actions[i])
          /\ p.actions[i + 1].capture = EndTime(p.actions[i])
    /\ \A i \in 1 .. Len(p.actions) :
          IF p.actions[i].kind = "Hold"
          THEN p.actions[i].release > p.actions[i].capture
          ELSE Usable(p.actions[i].tile, p.actions[i].direction,
                      p.actions[i].capture)
    /\ ~SelfConflict(p)
    /\ EndTile(Last(p.actions)) = request.consumer
    /\ EndTime(Last(p.actions)) = p.separation

\* A search that reaches the consumer returns a plan the mapping verifier
\* accepts.  In modulo time a route can meet itself an interval later; the
\* single visit to a <<tile, slot>> must rule that out, so that the internal
\* error for a self-conflicting route is unreachable.
PlanIsLegal ==
    /\ status # "internal_error"
    /\ status = "success" => Transports(plan)

\* The reference: the tiles a value can be on, with the holds it took, for every
\* number of cycles after it is ready.
ReachHorizon == Rows * Cols * request.ii * request.hopLatency

\* at[t] are the pairs <<tile, holds>> t - 1 cycles after the value is ready.
ReachNext(at) ==
    LET t == Len(at)
        launched == t - request.hopLatency
    IN  (IF request.allowVirtualHold
         THEN {<<x[1], x[2] + 1>> : x \in at[t]} ELSE {})
        \cup (IF launched < 0 THEN {}
              ELSE {<<neighbor(y[1][1], y[2]), y[1][2]>> :
                      y \in {y \in at[launched + 1] \X Directions :
                               Usable(y[1][1], y[2], request.ready + launched)}})

Reach ==
    LET upTo[t \in 0 .. ReachHorizon] ==
            IF t = 0 THEN <<{<<request.producer, 0>>}>>
            ELSE LET at == upTo[t - 1] IN Append(at, ReachNext(at))
    IN  upTo[ReachHorizon]

HoldCycles(p) ==
    LET held[i \in 0 .. Len(p.actions)] ==
            IF i = 0 THEN 0
            ELSE held[i - 1] + (p.actions[i].release - p.actions[i].capture)
    IN  held[Len(p.actions)]

\* MinSeparationThenHoldsThenHops: no route arrives earlier, and none that
\* arrives as early holds the value for fewer cycles.
PlanIsCheapest ==
    status = "success" /\ request.producer # request.consumer =>
        LET reach == Reach
        IN  \A t \in DOMAIN reach : \A x \in reach[t] :
                x[1] = request.consumer =>
                    ~Less(<<request.ready + t - 1, x[2]>>,
                          <<plan.separation, HoldCycles(plan)>>)

\* A search that exhausts the state graph has proved there is no route, so the
\* mapper drops only candidates that cannot be connected.
NoPathIsProof ==
    status = "no_path" /\ request.producer # request.consumer =>
        LET reach == Reach
        IN  \A t \in DOMAIN reach : \A x \in reach[t] : x[1] # request.consumer
=============================================================================
