------------------------- MODULE ScheduleMaterializer -----------------------
(***************************************************************************)
(* compiler/lib/Schedule/ScheduleMaterializer.cpp: the finite schedule of  *)
(* tripCount iterations, as a prologue, a kernel of II cycles that repeats,*)
(* and an epilogue; MaterializedScheduleVerifier.cpp checks it event by    *)
(* event.                                                                  *)
(*                                                                         *)
(* Everything a mapping does repeats every II cycles: a stream is          *)
(* [kind, id, action, iter, first], its instance k being the event of      *)
(* iteration iter + k at cycle first + k * II.  Recurrence boundaries and  *)
(* live-outs happen once.  What an event carries besides its kind, id and  *)
(* iteration (tile, register, direction) follows from those.               *)
(***************************************************************************)
EXTENDS RFAllocator

VARIABLES
    request,    \* [tripCount, maxEvents, maxCycles]
    frame,      \* [streams, shots, shift, total], collected first
    schedule    \* [shift, total, prologue, kernel, repeatCount, epilogue]

tripCount == request.tripCount

OneShotKinds == {"BoundaryValueInject", "LiveOutBoundaryUse"}

Event(kind, id, action, iter) == [kind |-> kind, id |-> id, action |-> action, iter |-> iter]

-----------------------------------------------------------------------------
(* Streams and one-shot events, in logical time                            *)

Stream(kind, id, action, iter, first) ==
    [kind |-> kind, id |-> id, action |-> action, iter |-> iter, first |-> first]

NodeStreams == {Stream("NodeIssue", n, 0, 0, logicalIssueTime(n)) : n \in Nodes}

\* The producer's iteration -distance is the first the loop consumes.
FirstBase(e) == logicalIssueTime(dfg.edges[e].src) - dfg.edges[e].distance * ii

LinkStreams ==
    UNION {{Stream("LinkLaunch", e, i, -dfg.edges[e].distance,
                   FirstBase(e) + mapping.actions[e][i].elapsed) : i \in Links(e)}
           : e \in ValueEdges}

RFStreams ==
    UNION {LET d == dfg.edges[segments[s].edge].distance
           IN  {Stream("RFWrite", s, 0, -d, segments[s].write - d * ii),
                Stream("RFRead", s, 0, -d, segments[s].read - d * ii)}
           : s \in DOMAIN segments}

CollectStreams == NodeStreams \cup LinkStreams \cup RFStreams

\* The boundary value for consumer iteration offset.
boundaryValues(e, offset) ==
    {i \in DOMAIN dfg.edges[e].boundary : dfg.edges[e].boundary[i].offset = offset}

BoundaryOffsets(e) == 0 .. Min({tripCount, dfg.edges[e].distance}) - 1

MissingBoundary ==
    \E e \in ValueEdges : \E o \in BoundaryOffsets(e) : boundaryValues(e, o) = {}

BoundaryShots ==
    UNION {{[event |-> Event("BoundaryValueInject", e, o, o - dfg.edges[e].distance),
             time |-> FirstBase(e) + o * ii + Op(dfg.edges[e].src).ready]
            : o \in BoundaryOffsets(e)} : e \in ValueEdges}

LiveOutShots ==
    {[event |-> Event("LiveOutBoundaryUse", l, 0, tripCount - 1),
      time |-> logicalIssueTime(dfg.liveOuts[l]) + (tripCount - 1) * ii
                 + Op(dfg.liveOuts[l]).latency] : l \in DOMAIN dfg.liveOuts}

CollectShots == BoundaryShots \cup LiveOutShots

-----------------------------------------------------------------------------
(* The time origin and the factorisation into phases                       *)

EventTimes(streams, shots) ==
    (UNION {{s.first, s.first + (tripCount - 1) * ii} : s \in streams})
      \cup {o.time : o \in shots}

Frame ==
    LET streams == CollectStreams
        shots == CollectShots
        times == EventTimes(streams, shots)
        shift == Max({0, -Min(times)})
    IN  [streams |-> streams, shots |-> shots, shift |-> shift,
         total |-> Max(times) + shift + 1]

Streams == frame.streams
OneShots == frame.shots
Shift == frame.shift
Total == frame.total

FirstPeriod(s) == (s.first + Shift) \div ii
CommonBegin == Max({FirstPeriod(s) : s \in Streams})
CommonEnd == Min({FirstPeriod(s) + tripCount - 1 : s \in Streams})

hasOneShotInPeriod(p) == \E o \in OneShots : (o.time + Shift) \div ii = p

KernelBegin_Early == CommonBegin

\* Periods with a one-shot event are peeled off at the front ...
KernelBegin ==
    IF CommonBegin > CommonEnd THEN CommonBegin
    ELSE Min({p \in CommonBegin .. CommonEnd + 1 :
                 p = CommonEnd + 1 \/ ~hasOneShotInPeriod(p)})

KernelEnd_Late == CommonEnd

\* ... and at the back.
KernelEnd ==
    IF KernelBegin > CommonEnd THEN CommonEnd
    ELSE Max({p \in KernelBegin - 1 .. CommonEnd :
                 p = KernelBegin - 1 \/ ~hasOneShotInPeriod(p)})

HasKernel == KernelBegin =< KernelEnd
KernelStart == KernelBegin * ii
KernelStop == (KernelEnd + 1) * ii
PrologueCycles == IF HasKernel THEN KernelStart ELSE Total

\* Unsigned: when the kernel's last period ends after the last event this
\* wraps around, and no budget is large enough.
EpilogueWraps == HasKernel /\ KernelStop > Total
EpilogueCycles == IF HasKernel THEN Total - KernelStop ELSE 0

-----------------------------------------------------------------------------
(* The schedule                                                            *)

Instances(s) ==
    {[event |-> Event(s.kind, s.id, s.action, s.iter + k),
      cycle |-> s.first + Shift + k * ii] : k \in 0 .. tripCount - 1}

AllInstances ==
    (UNION {Instances(s) : s \in Streams})
      \cup {[event |-> o.event, cycle |-> o.time + Shift] : o \in OneShots}

Explicit(instances) ==
    IF HasKernel
    THEN LET start == KernelStart
             stop == KernelStop
         IN  {i \in instances : i.cycle < start \/ i.cycle >= stop}
    ELSE instances

\* What the kernel holds are the instances of its first period.
Schedule ==
    LET instances == AllInstances
        explicit == Explicit(instances)
        At(from, c) == {i.event : i \in {i \in from : i.cycle = c}}
        start == KernelStart
        stop == KernelStop
    IN  [shift |-> Shift, total |-> Total,
         prologue |-> [c \in 0 .. PrologueCycles - 1 |-> At(explicit, c)],
         kernel |-> [c \in 0 .. (IF HasKernel THEN ii ELSE 0) - 1 |->
                        At(instances, start + c)],
         repeatCount |-> IF HasKernel THEN KernelEnd - KernelBegin + 1 ELSE 0,
         epilogue |-> [c \in 0 .. EpilogueCycles - 1 |-> At(explicit, stop + c)]]

-----------------------------------------------------------------------------
(* MaterializedScheduleVerifier                                            *)

\* When node n issues for an iteration, in cycles of the schedule.
expectedCycle(n, iter) == logicalIssueTime(n) + iter * ii + Shift

Distance(e) == dfg.edges[e].distance
ConsumedIterations(e) == -Distance(e) .. tripCount - 1 - Distance(e)

verifyNodeIssue(ev, cycle) ==
    ev.id \in Nodes /\ ev.iter \in 0 .. tripCount - 1 /\ cycle = expectedCycle(ev.id, ev.iter)

verifyLinkLaunch(ev, cycle) ==
    /\ ev.id \in ValueEdges /\ ev.action \in Links(ev.id)
    /\ ev.iter \in ConsumedIterations(ev.id)
    /\ cycle = expectedCycle(dfg.edges[ev.id].src, ev.iter)
                 + mapping.actions[ev.id][ev.action].elapsed

verifyRFEvent(ev, cycle) ==
    /\ ev.id \in DOMAIN segments
    /\ ev.iter \in ConsumedIterations(segments[ev.id].edge)
    /\ cycle = Shift + ev.iter * ii +
                 (IF ev.kind = "RFWrite" THEN segments[ev.id].write ELSE segments[ev.id].read)

verifyPeriodic(ev, cycle) ==
    CASE ev.kind = "NodeIssue" -> verifyNodeIssue(ev, cycle)
      [] ev.kind = "LinkLaunch" -> verifyLinkLaunch(ev, cycle)
      [] ev.kind \in {"RFWrite", "RFRead"} -> verifyRFEvent(ev, cycle)

verifyOneShot(ev, cycle) ==
    CASE ev.kind = "BoundaryValueInject" ->
            /\ ev.id \in ValueEdges /\ ev.action \in BoundaryOffsets(ev.id)
            /\ ev.iter = ev.action - Distance(ev.id)
            /\ boundaryValues(ev.id, ev.action) # {}
            /\ cycle = expectedCycle(dfg.edges[ev.id].src, ev.iter) + Op(dfg.edges[ev.id].src).ready
      [] ev.kind = "LiveOutBoundaryUse" ->
            /\ ev.id \in DOMAIN dfg.liveOuts /\ ev.iter = tripCount - 1
            /\ cycle = expectedCycle(dfg.liveOuts[ev.id], ev.iter) + Op(dfg.liveOuts[ev.id]).latency

scanPhase(phase, base) ==
    \A c \in DOMAIN phase : \A ev \in phase[c] :
        IF ev.kind \in OneShotKinds THEN verifyOneShot(ev, base + c) ELSE verifyPeriodic(ev, base + c)

\* No event that happens once is in the body that repeats.
scanKernel(body, base) ==
    \A c \in DOMAIN body : \A ev \in body[c] :
        ev.kind \notin OneShotKinds /\ verifyPeriodic(ev, base + c)

\* The ranges are disjoint and leave no hole.
rangesCoverExactly(ranges, first, last) ==
    /\ \A r, q \in ranges : r # q => (r[1] .. r[2]) \cap (q[1] .. q[2]) = {}
    /\ UNION {r[1] .. r[2] : r \in ranges} = first .. last

\* An explicit event stands for one iteration, a kernel event for as many as
\* the kernel repeats.
Ranges(sch, s) ==
    LET Mine(events) == {ev \in events : ev.kind = s.kind /\ ev.id = s.id /\ ev.action = s.action}
    IN  {<<ev.iter, ev.iter>> : ev \in Mine((UNION Range(sch.prologue)) \cup (UNION Range(sch.epilogue)))}
          \cup {<<ev.iter, ev.iter + sch.repeatCount - 1>> : ev \in Mine(UNION Range(sch.kernel))}

StreamsCovered(sch) ==
    \A s \in Streams : rangesCoverExactly(Ranges(sch, s), s.iter, s.iter + tripCount - 1)

OneShotsPresent(sch) ==
    {o.event : o \in OneShots} \subseteq (UNION Range(sch.prologue)) \cup (UNION Range(sch.epilogue))

Size(phase) == Cardinality(DOMAIN phase)
EpilogueBase(sch) == Size(sch.prologue) + sch.repeatCount * ii

\* The verifier works the time bounds out again from the mapping.
FrameAgrees(sch) ==
    LET times == EventTimes(CollectStreams, CollectShots)
    IN  sch.shift = Max({0, -Min(times)}) /\ sch.total = Max(times) + sch.shift + 1

PhasesCover(sch) == EpilogueBase(sch) + Size(sch.epilogue) = sch.total

ScheduleVerified(sch) ==
    /\ Size(sch.kernel) = (IF sch.repeatCount = 0 THEN 0 ELSE ii)
    /\ FrameAgrees(sch)
    /\ PhasesCover(sch)
    /\ scanPhase(sch.prologue, 0)
    /\ scanKernel(sch.kernel, Size(sch.prologue))
    /\ scanPhase(sch.epilogue, EpilogueBase(sch))
    /\ StreamsCovered(sch)
    /\ OneShotsPresent(sch)

-----------------------------------------------------------------------------

materializeStatus ==
    CASE tripCount = 0 -> "InvalidTripCount"
      [] ~RFVerified(alloc) -> "InvalidRFAllocatedMapping"
      [] MissingBoundary -> "MissingRecurrenceBoundaryValue"
      [] Cardinality(OneShots) > request.maxEvents -> "MaterializationBudgetExceeded"
      [] HasKernel /\ \E p \in KernelBegin .. KernelEnd : hasOneShotInPeriod(p) ->
            "PhaseFactorizationError"
      [] EpilogueWraps \/ PrologueCycles > request.maxCycles
                       \/ EpilogueCycles > request.maxCycles -> "MaterializationBudgetExceeded"
      [] Cardinality(Explicit(AllInstances)) > request.maxEvents -> "MaterializationBudgetExceeded"
      [] ~ScheduleVerified(Schedule) -> "VerificationFailure"
      [] OTHER -> "Success"

=============================================================================
