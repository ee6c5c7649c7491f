---------------------------- MODULE StagedKernel ----------------------------
(***************************************************************************)
(* What every stage behind the mapper works on: a target DFG, its modulo   *)
(* mapping (tile, slot and stage of every node, the transport of every     *)
(* value edge), the check of that mapping (ModuloMappingVerifier.cpp), the *)
(* storage it needs (StorageRequirementAnalysis.cpp) and when two lifetimes*)
(* that repeat every II cycles may share a register (PeriodicLifetime.cpp).*)
(*                                                                         *)
(*   target   [ops, neighbor, hop, memorySeparation, banks, reuse,         *)
(*            constantDepth]                                               *)
(*   dfg      [op, edges, bindings, constants, liveOuts]; an edge is       *)
(*            [src, dst, kind, operand, dependence, distance, boundary],   *)
(*            its id its place in edges                                    *)
(*   mapping  [ii, tile, slot, stage, actions]; actions[e] is the transport*)
(*            of e, a sequence of links [kind, tile, dir, elapsed] and     *)
(*            holds [kind, tile, capture, release]                         *)
(* Times are unbounded; the allocator compares them with 64 bits.          *)
(***************************************************************************)
EXTENDS Integers, Sequences, FiniteSets, SequencesExt, FiniteSetsExt

VARIABLES target, dfg, mapping

Domains == {"Data", "Predicate"}

Nodes == DOMAIN dfg.op
Op(n) == target.ops[dfg.op[n]]
ValueEdges == {e \in DOMAIN dfg.edges : dfg.edges[e].kind # "Memory"}
ii == mapping.ii

logicalIssueTime(n) == mapping.stage[n] * ii + mapping.slot[n]

\* The members of a set of numbers in ascending order.
Ascending(S) ==
    [i \in 1 .. Cardinality(S) |-> CHOOSE x \in S : Cardinality({y \in S : y < x}) = i - 1]

opposite(dir) == CASE dir = "N" -> "S" [] dir = "S" -> "N"
                   [] dir = "E" -> "W" [] dir = "W" -> "E"

-----------------------------------------------------------------------------
(* ModuloMappingVerifier                                                   *)

NoPlace == [tile |-> -1, elapsed |-> -1]

\* Where and when the value is after one more action; NoPlace once an action
\* does not start exactly where and when the value became available.
Advance(at, a) ==
    CASE at = NoPlace -> NoPlace
      [] a.tile # at.tile -> NoPlace
      [] a.kind = "link" ->
            IF a.elapsed = at.elapsed /\ a.dir \in DOMAIN target.neighbor[a.tile]
            THEN [tile |-> target.neighbor[a.tile][a.dir], elapsed |-> a.elapsed + target.hop]
            ELSE NoPlace
      [] OTHER ->
            IF a.capture = at.elapsed /\ a.release > a.capture
            THEN [tile |-> a.tile, elapsed |-> a.release]
            ELSE NoPlace

Arrival(e) ==
    FoldLeft(Advance,
             [tile |-> mapping.tile[dfg.edges[e].src], elapsed |-> Op(dfg.edges[e].src).ready],
             mapping.actions[e])

requiredSeparation(e) ==
    IF dfg.edges[e].kind = "Memory" THEN target.memorySeparation[dfg.edges[e].dependence]
                                    ELSE Arrival(e).elapsed

\* The link resources of a transport, in modulo time.
Links(e) ==
    {i \in DOMAIN mapping.actions[e] : mapping.actions[e][i].kind = "link"}
LinkResource(e, i) ==
    <<dfg.edges[e].kind, mapping.actions[e][i].tile, mapping.actions[e][i].dir,
      (mapping.slot[dfg.edges[e].src] + mapping.actions[e][i].elapsed) % ii>>

TransportOK(e) ==
    /\ Arrival(e).tile = mapping.tile[dfg.edges[e].dst]
    /\ mapping.actions[e] # <<>>
    /\ \A i \in Links(e) : \A f \in ValueEdges : \A k \in Links(f) :
          <<e, i>> # <<f, k>> => LinkResource(e, i) # LinkResource(f, k)

\* The unit of a node is busy from its slot on, in modulo time.
Footprint(n) ==
    {<<Op(n).class, mapping.tile[n], (mapping.slot[n] + o) % ii>> : o \in 0 .. Op(n).occupancy - 1}

MappingVerified ==
    /\ ii # 0
    /\ \A n \in Nodes : /\ mapping.slot[n] < ii /\ Op(n).occupancy =< ii
                        /\ dfg.op[n] \in target.supported[mapping.tile[n]]
    /\ \A n, m \in Nodes : n # m => Footprint(n) \cap Footprint(m) = {}
    /\ \A e \in ValueEdges : TransportOK(e)

\* StageAssignmentVerifier: the consumer does not issue before the value.
UseTime(e) == logicalIssueTime(dfg.edges[e].dst) + dfg.edges[e].distance * ii

StagesVerified ==
    \A e \in DOMAIN dfg.edges :
        logicalIssueTime(dfg.edges[e].src) + requiredSeparation(e) =< UseTime(e)

-----------------------------------------------------------------------------
(* StorageRequirementAnalysis: one storage segment per stay of a value on  *)
(* a tile.  origins are the hold actions it covers, 0 for the wait between *)
(* arrival and use.                                                        *)

appendSegment(segs, s, allowCoalesce) ==
    LET k == Len(segs)
    IN  IF /\ allowCoalesce /\ k > 0
           /\ segs[k].edge = s.edge /\ segs[k].tile = s.tile /\ segs[k].read = s.write
        THEN [segs EXCEPT ![k].read = s.read, ![k].origins = @ \o s.origins]
        ELSE Append(segs, s)

Segment(e, tile, write, read, origin) ==
    [edge |-> e, tile |-> tile, domain |-> dfg.edges[e].kind,
     write |-> write, read |-> read, origins |-> <<origin>>]

IsHold(e, i) == i \in DOMAIN mapping.actions[e] /\ mapping.actions[e][i].kind = "hold"

EdgeSegments(segs, e) ==
    LET produced == logicalIssueTime(dfg.edges[e].src)
        acts == mapping.actions[e]
        held[i \in 0 .. Len(acts)] ==
            IF i = 0 THEN segs
            ELSE IF ~IsHold(e, i) THEN held[i - 1]
            ELSE appendSegment(held[i - 1],
                    Segment(e, acts[i].tile, produced + acts[i].capture,
                            produced + acts[i].release, i),
                    IsHold(e, i - 1))
        arrival == produced + requiredSeparation(e)
    IN  IF UseTime(e) > arrival
        THEN appendSegment(held[Len(acts)],
                Segment(e, mapping.tile[dfg.edges[e].dst], arrival, UseTime(e), 0),
                IsHold(e, Len(acts)))
        ELSE held[Len(acts)]

\* StorageRequirements, the edges in the order of their ids.
analyze ==
    LET upTo[e \in 0 .. Len(dfg.edges)] ==
            IF e = 0 THEN <<>>
            ELSE IF e \in ValueEdges THEN EdgeSegments(upTo[e - 1], e) ELSE upTo[e - 1]
    IN  upTo[Len(dfg.edges)]

-----------------------------------------------------------------------------
(* PeriodicLifetime                                                        *)

intervalsConflict(lw, lr, rw, rr) ==
    LET start == IF lw > rw THEN lw ELSE rw
        end == IF lr < rr THEN lr ELSE rr
    IN  start < end \/ (start = end /\ ~target.reuse)

Duration(s) == s.read - s.write

\* No interval, or a value that is not read after it is written.
NoLifetime(s) == ii = 0 \/ s.read =< s.write

fixedRegisterSelfOverlaps(s) ==
    NoLifetime(s) \/ Duration(s) > ii \/ (Duration(s) = ii /\ ~target.reuse)

periodicLifetimesConflict_NoWrap(s, t) ==
    intervalsConflict(s.write % ii, (s.write % ii) + Duration(s),
                      t.write % ii, (t.write % ii) + Duration(t))

periodicLifetimesConflict(s, t) ==
    \/ NoLifetime(s) \/ NoLifetime(t)
    \/ Duration(s) > ii \/ Duration(t) > ii
    \/ \E shift \in {-ii, 0, ii} :
          intervalsConflict(s.write % ii, (s.write % ii) + Duration(s),
                            shift + (t.write % ii), shift + (t.write % ii) + Duration(t))

=============================================================================
