------------------------ MODULE CompilePipelineProofs -----------------------
(***************************************************************************)
(* An allocated register keeps its value, whatever the initiation interval *)
(* and however many iterations are in flight.  RFAllocator and its         *)
(* verifier compare lifetimes modulo II, moved by one interval at most     *)
(* (PeriodicLifetime.cpp); RegistersKeepTheirValue is about the iterations *)
(* themselves.                                                             *)
(*                                                                         *)
(* And what RFAllocator turns down cannot be allocated (RejectionIsProof): *)
(* a conflict modulo II is one of the iterations themselves, a failed      *)
(* augmenting path shows more events than ports, and the exact search      *)
(* never passes a legal colouring over.                                    *)
(***************************************************************************)
EXTENDS CompilePipeline, NumberLemmas, TLAPS

-----------------------------------------------------------------------------
(* Lifetimes modulo the interval                                           *)

\* v of iteration j is not before w of iteration i, and at most p after it.
Near(p, w, v, i, j) == w + i * p =< v + j * p /\ v + j * p =< w + i * p + p
NearShifted(p, w, v, i, j) ==
    \E shift \in {0, p} : (shift + (v % p)) - (w % p) = (v + j * p) - (w + i * p)

\* Two times of two iterations that are at most an interval apart are as far
\* apart modulo the interval, the later one moved by no interval or by one.
LEMMA NearModulo ==
    ASSUME NEW p \in Nat \ {0}, NEW w \in Int, NEW v \in Int, NEW i \in Int, NEW j \in Int,
           Near(p, w, v, i, j)
    PROVE  NearShifted(p, w, v, i, j)
<1> DEFINE a == w % p
           b == v % p
           m == w \div p
           n == v \div p
           k == (n - m) + (j - i)
<1>1. /\ w = p * m + a /\ m \in Int /\ a \in Int /\ 0 =< a /\ a < p
      /\ v = p * n + b /\ n \in Int /\ b \in Int /\ 0 =< b /\ b < p
  BY DivMod
<1> HIDE DEF a, b, m, n
<1>2. k \in Int BY <1>1
<1>3. p * k = (p * n - p * m) + (j * p - i * p) BY <1>1
<1> DEFINE x == p * k
<1>4. x \in Int BY <1>2
<1>5. x + (b - a) = (v + j * p) - (w + i * p) BY <1>1, <1>3
<1> DEFINE d == (v + j * p) - (w + i * p)
<1>6. d \in Int /\ 0 =< d /\ d =< p BY DEF Near
<1>7. x + (b - a) = d BY <1>5
<1>8. k < 0 => x + p =< 0
  <2>1. k < 0 => p * k + p =< p * 0 BY <1>2, Multiples
  <2> QED BY <2>1
<1>9. 1 < k => p + p =< x
  <2>1. 1 < k => p * 1 + p =< p * k BY <1>2, Multiples
  <2> QED BY <2>1
<1>10. k = 0 => x = 0 OBVIOUS
<1>11. k = 1 => x = p OBVIOUS
<1> HIDE DEF k, x, d
<1>12. x \in {0, p} BY <1>1, <1>2, <1>4, <1>6, <1>7, <1>8, <1>9, <1>10, <1>11
<1>13. (x + b) - a = d BY <1>1, <1>4, <1>6, <1>7
<1> QED BY <1>12, <1>13 DEF a, b, d, NearShifted

\* A lifetime as StorageSegment has it.
Timed(s) == s.write \in Nat /\ s.read \in Nat

\* fixedRegisterSelfOverlaps is exact: if it does not hold, no iteration's
\* write destroys another iteration's value of the same segment.
LEMMA OwnIterationsApart ==
    ASSUME ii \in Nat, NEW s, Timed(s), ~fixedRegisterSelfOverlaps(s),
           NEW i \in Int, NEW j \in Int, i # j
    PROVE  ~Destroys(s.write + i * ii, s.read + i * ii, s.write + j * ii)
<1> DEFINE p == ii
           w == s.write
           r == s.read
<1>1. /\ p \in Nat \ {0} /\ w \in Nat /\ r \in Nat /\ w < r
      /\ r - w =< p /\ (r - w = p => target.reuse)
  BY DEF fixedRegisterSelfOverlaps, NoLifetime, Duration, Timed
<1> HIDE DEF p, w, r
<1>2. j < i => p * j + p =< p * i BY <1>1, Multiples
<1>3. i < j => p * i + p =< p * j BY <1>1, Multiples
<1> DEFINE x == i * p
           y == j * p
<1>4. x \in Int /\ y \in Int /\ x = p * i /\ y = p * j BY <1>1
<1>5. (j < i => y + p =< x) /\ (i < j => x + p =< y) BY <1>2, <1>3, <1>4
<1> HIDE DEF x, y
<1>6. ~Destroys(w + x, r + x, w + y) BY <1>1, <1>4, <1>5 DEF Destroys
<1> QED BY <1>6 DEF p, w, r, x, y

\* periodicLifetimesConflict misses nothing: if it does not hold, no iteration
\* of one segment is written while an iteration of the other is kept.
LEMMA OtherIterationsApart ==
    ASSUME ii \in Nat, NEW s, Timed(s), NEW t, Timed(t), ~periodicLifetimesConflict(s, t),
           NEW i \in Int, NEW j \in Int
    PROVE  ~Destroys(s.write + i * ii, s.read + i * ii, t.write + j * ii)
<1> DEFINE p == ii
           w == s.write
           r == s.read
           v == t.write
           u == t.read
           a == w % p
           b == v % p
<1>1. /\ p \in Nat \ {0} /\ w \in Nat /\ r \in Nat /\ w < r
      /\ v \in Nat /\ u \in Nat /\ v < u
      /\ r - w =< p
  BY DEF periodicLifetimesConflict, NoLifetime, Duration, Timed
<1>2. \A shift \in {-p, 0, p} :
         ~intervalsConflict(a, a + (r - w), shift + b, shift + b + (u - v))
  BY DEF periodicLifetimesConflict, Duration
<1> HIDE DEF p, w, r, v, u
<1>3. a \in Int /\ b \in Int BY <1>1, DivMod
<1> HIDE DEF a, b
<1> DEFINE x == i * p
           y == j * p
<1>4. x \in Int /\ y \in Int BY <1>1
<1>5. SUFFICES ASSUME Destroys(w + x, r + x, v + y) PROVE FALSE
  BY DEF p, w, r, v
<1>6. /\ w + x =< v + y /\ v + y =< r + x
      /\ v + y = r + x => ~target.reuse
  BY <1>1, <1>4, <1>5 DEF Destroys
<1>7. v + y =< w + x + p BY <1>1, <1>4, <1>6
<1>8. PICK shift \in {0, p} : (shift + b) - a = (v + y) - (w + x)
  <2>0. p \in Nat \ {0} BY <1>1
  <2>1. /\ w \in Int /\ v \in Int
        /\ Near(p, w, v, i, j)
    BY <1>1, <1>6, <1>7 DEF Near
  <2>2. NearShifted(p, w, v, i, j) BY <2>0, <2>1, NearModulo
  <2> QED BY <2>2 DEF a, b, NearShifted
<1> HIDE DEF x, y
<1>9. ~intervalsConflict(a, a + (r - w), shift + b, shift + b + (u - v)) BY <1>2, <1>8
<1>10. shift \in Int BY <1>1, <1>8
<1> QED BY <1>1, <1>3, <1>4, <1>6, <1>8, <1>9, <1>10 DEF intervalsConflict

-----------------------------------------------------------------------------
(* The invariant                                                           *)

Early == {"select", "convert", "verify", "bind", "legalize", "map"}
Late == {"rf", "collect", "materialize", "lower", "replay"}

HasInterval == "ii" \in DOMAIN mapping /\ ii \in Nat

\* What RFAllocationVerifier accepted, of registers and lifetimes.
LifetimesApart(a) ==
    /\ \A s \in DOMAIN segments :
          Timed(segments[s]) /\ ~fixedRegisterSelfOverlaps(segments[s])
    /\ \A s, t \in DOMAIN segments :
          s # t /\ BankKey(s) = BankKey(t) /\ a[s].reg = a[t].reg =>
              ~periodicLifetimesConflict(segments[s], segments[t])

\* While a mapping is worked on its interval is a number, and an allocation
\* stays the one that was verified until its mapping is given up.
IInv ==
    /\ job \in DOMAIN Jobs
    /\ phase \in Early \cup {"stage"} \cup Late \cup {"done"}
    /\ phase \in {"stage"} \cup Late => HasInterval
    /\ rfStatus = "Success" => phase \in Late \cup {"done"} /\ HasInterval /\ LifetimesApart(alloc)

-----------------------------------------------------------------------------

LEMMA ApartUntouched ==
    ASSUME NEW a, LifetimesApart(a), UNCHANGED <<target, mapping, segments>>
    PROVE  LifetimesApart(a)'
BY DEF LifetimesApart, Timed, fixedRegisterSelfOverlaps, periodicLifetimesConflict,
       intervalsConflict, NoLifetime, Duration, BankKey, ii

\* A step that leaves the mapping and the allocation alone.
LEMMA Quiet ==
    ASSUME IInv, UNCHANGED <<job, target, mapping, segments, alloc, rfStatus>>,
           \/ phase \in Early /\ phase' \in Early \cup {"done"}
           \/ phase \in Late /\ phase' \in Late \cup {"done"}
           \/ phase' = phase
    PROVE  IInv'
<1>1. HasInterval' <=> HasInterval BY DEF HasInterval, ii
<1>2. phase \in Early => rfStatus # "Success" BY DEF IInv, Early, Late
<1>3. ASSUME LifetimesApart(alloc) PROVE LifetimesApart(alloc)'
  <2>1. PICK a : a = alloc OBVIOUS
  <2>2. LifetimesApart(a)' BY <2>1, <1>3, ApartUntouched
  <2>3. alloc' = a BY <2>1
  <2> QED BY <2>2, <2>3
<1> QED BY <1>1, <1>2, <1>3 DEF IInv, Early, Late

\* What the verifier looked at gives the invariant its lifetimes.
LEMMA VerifiedApart ==
    ASSUME NEW a, RFVerified(a)
    PROVE  LifetimesApart(a)
<1>1. StorageStatus = "Success" BY DEF RFVerified
<1>2. Times \subseteq 0 .. MaxTime BY <1>1 DEF StorageStatus
<1>3. ASSUME NEW s \in DOMAIN segments PROVE Timed(segments[s])
  <2>1. segments[s].write \in Times /\ segments[s].read \in Times BY DEF Times
  <2>2. segments[s].write \in 0 .. MaxTime /\ segments[s].read \in 0 .. MaxTime
    BY <2>1, <1>2
  <2>3. \A x \in 0 .. MaxTime : x \in Nat BY TimeAssumption
  <2> QED BY <2>2, <2>3 DEF Timed
<1> QED BY <1>3 DEF LifetimesApart, RFVerified, SegmentsApart

\* Until the ports are assigned nothing is accepted.
LEMMA Allocating ==
    ASSUME IInv, Allocate
    PROVE  IInv'
<1>1. /\ phase = "rf" /\ phase' = phase /\ job' = job /\ mapping' = mapping
      /\ target' = target /\ dfg' = dfg
  BY DEF Allocate, frontVars
<1>2. HasInterval /\ HasInterval' BY <1>1 DEF IInv, HasInterval, ii, Late
<1>3. rfStatus' = "Success" => LifetimesApart(alloc)'
  <2> SUFFICES ASSUME rfStatus' = "Success" PROVE LifetimesApart(alloc)' OBVIOUS
  <2>1. CASE Analyze BY <2>1 DEF Analyze, DemandStatus, StorageStatus
  <2>2. CASE GreedyColor BY <2>2 DEF GreedyColor
  <2>3. CASE ExactSelect BY <2>3 DEF ExactSelect
  <2>4. CASE ExactTry BY <2>4 DEF ExactTry
  <2>5. CASE ExactReturn BY <2>5 DEF ExactReturn
  <2>6. CASE AssignPorts
    <3>1. alloc' = Allocation /\ RFVerified(Allocation) /\ segments' = segments
      BY <2>6 DEF AssignPorts
    <3>2. PICK a : a = Allocation OBVIOUS
    <3>3. LifetimesApart(a) BY <3>1, <3>2, VerifiedApart
    <3>4. LifetimesApart(a)' BY <3>1, <3>3, <1>1, ApartUntouched
    <3>5. alloc' = a BY <3>1, <3>2
    <3> QED BY <3>4, <3>5
  <2> QED BY <2>1, <2>2, <2>3, <2>4, <2>5, <2>6 DEF Allocate, RFNext
<1> QED BY <1>1, <1>2, <1>3 DEF IInv, Late

\* The stages are computed, or the candidate is not staged.
LEMMA Staging ==
    ASSUME IInv, OfferCandidate \/ AssignStages
    PROVE  IInv'
<1>1. rfStatus # "Success" BY DEF IInv, Late, OfferCandidate, AssignStages
<1>2. job' = job BY DEF OfferCandidate, AssignStages, frontVars
<1>3. CASE OfferCandidate
  <2>1. PICK plan \in Jobs[job].plans :
           mapping' = [ii |-> plan.ii, tile |-> plan.tile, slot |-> plan.slot,
                       stage |-> [n \in Nodes |-> 0], actions |-> plan.actions]
    BY <1>3 DEF OfferCandidate
  <2>2. plan.ii \in Nat BY <2>1, JobsAssumption DEF IInv
  <2>3. HasInterval' BY <2>1, <2>2 DEF HasInterval, ii
  <2>4. rfStatus' = rfStatus /\ phase' = "stage"
    BY <1>3 DEF OfferCandidate, backVars, rfVars, Go
  <2> QED BY <1>1, <1>2, <2>3, <2>4 DEF IInv, Late
<1>4. CASE AssignStages
  <2>1. HasInterval BY <1>4 DEF IInv, AssignStages
  <2>2. CASE ~StagesFeasible
    <3>1. phase' = "map" /\ rfStatus' = rfStatus BY <1>4, <2>2 DEF AssignStages, Go
    <3> QED BY <1>1, <1>2, <3>1 DEF IInv, Early, Late
  <2>3. CASE StagesFeasible
    <3>1. /\ mapping' = [mapping EXCEPT !.stage = leastStages]
          /\ phase' \in {"rf", "done"} /\ rfStatus' # "Success"
      BY <1>1, <1>4, <2>3 DEF AssignStages, Go, Fail
    <3>2. HasInterval' BY <2>1, <3>1 DEF HasInterval, ii
    <3> QED BY <1>2, <3>1, <3>2 DEF IInv, Late
  <2> QED BY <2>2, <2>3
<1> QED BY <1>3, <1>4

LEMMA Deciding ==
    ASSUME IInv, Decide
    PROVE  IInv'
<1>1. phase = "rf" /\ UNCHANGED <<job, target>> BY DEF Decide, frontVars
<1>2. CASE rfStatus = "Success" \/ rfStatus \notin RFRejections
  <2>1. UNCHANGED <<mapping, segments, alloc, rfStatus>> /\ phase' \in Late \cup {"done"}
    BY <1>2 DEF Decide, rfVars, Go, Fail, Late, RFRejections
  <2> QED BY <1>1, <2>1, Quiet DEF Late
<1>3. CASE rfStatus # "Success" /\ rfStatus \in RFRejections
  <2>1. phase' = "map" /\ rfStatus' = "idle" BY <1>3 DEF Decide, Go
  <2> QED BY <1>1, <2>1 DEF IInv, Early, Late
<1> QED BY <1>2, <1>3

\* Every other step, of the front or behind the mapper.
LEMMA Passing ==
    ASSUME IInv,
           \/ SelectLoop \/ LowerLoop \/ VerifyLoop \/ Bind \/ Legalize \/ GiveUp
           \/ CollectEvents \/ Materialize \/ Lower \/ Replay \/ Finish \/ UNCHANGED vars
    PROVE  IInv'
<1>1. CASE SelectLoop \/ LowerLoop \/ VerifyLoop
  <2>1. UNCHANGED <<job, target, mapping, segments, alloc, rfStatus>>
    BY <1>1 DEF SelectLoop, LowerLoop, VerifyLoop, graphVars, backVars, rfVars
  <2>2. phase \in Early /\ phase' \in Early \cup {"done"}
    BY <1>1 DEF SelectLoop, LowerLoop, VerifyLoop, Go, Fail, Early
  <2> QED BY <2>1, <2>2, Quiet
<1>2. CASE Bind \/ Legalize \/ GiveUp
  <2>1. UNCHANGED <<job, target, mapping, segments, alloc, rfStatus>>
    BY <1>2 DEF Bind, Legalize, GiveUp, frontVars, backVars, rfVars
  <2>2. phase \in Early /\ phase' \in Early \cup {"done"}
    BY <1>2 DEF Bind, Legalize, GiveUp, Go, Fail, Early
  <2> QED BY <2>1, <2>2, Quiet
<1>3. CASE CollectEvents \/ Materialize \/ Lower
  <2>1. UNCHANGED <<job, target, mapping, segments, alloc, rfStatus>>
    BY <1>3 DEF CollectEvents, Materialize, Lower, frontVars, rfVars
  <2>2. phase \in Late /\ phase' \in Late \cup {"done"}
    BY <1>3 DEF CollectEvents, Materialize, Lower, Go, Fail, Late
  <2> QED BY <2>1, <2>2, Quiet
<1>4. CASE Replay \/ Finish
  <2>1. UNCHANGED <<job, target, mapping, segments, alloc, rfStatus>>
    BY <1>4 DEF Replay, Finish, frontVars, backVars, rfVars
  <2>2. phase \in Late /\ phase' \in Late \cup {"done"}
    BY <1>4 DEF Replay, Finish, Fail, Late
  <2> QED BY <2>1, <2>2, Quiet
<1>5. CASE UNCHANGED vars
  <2>1. UNCHANGED <<job, target, mapping, segments, alloc, rfStatus>> /\ phase' = phase
    BY <1>5 DEF vars, rfVars
  <2> QED BY <2>1, Quiet
<1> QED BY <1>1, <1>2, <1>3, <1>4, <1>5

\* The inductive invariant of the compiler's registers.
THEOREM AllocationsStayVerified == Spec => []IInv
<1>1. Init => IInv
  <2> SUFFICES ASSUME Init PROVE IInv OBVIOUS
  <2>1. job \in DOMAIN Jobs /\ rfStatus = "idle" BY DEF Init, RFInit
  <2>2. Jobs[job].entry \in {"loop", "kernel", "dfg"} BY <2>1, JobsAssumption
  <2>3. phase \in Early BY <2>2 DEF Init, Early
  <2> QED BY <2>1, <2>3 DEF IInv, Early, Late
<1>2. IInv /\ [Next]_vars => IInv'
  <2> SUFFICES ASSUME IInv, [Next]_vars PROVE IInv' OBVIOUS
  <2>1. CASE OfferCandidate \/ AssignStages BY <2>1, Staging
  <2>2. CASE Allocate BY <2>2, Allocating
  <2>3. CASE Decide BY <2>3, Deciding
  <2>4. CASE \/ SelectLoop \/ LowerLoop \/ VerifyLoop \/ Bind \/ Legalize \/ GiveUp
             \/ CollectEvents \/ Materialize \/ Lower \/ Replay \/ Finish \/ UNCHANGED vars
    BY <2>4, Passing
  <2> QED BY <2>1, <2>2, <2>3, <2>4 DEF Next, Terminated
<1> QED BY <1>1, <1>2, PTL DEF Spec

\* RFAllocator and RFAllocationVerifier: once registers are allocated no write
\* of any iteration of any segment destroys a value before its last read, for
\* every mapping, every interval and every number of iterations in flight.
THEOREM RegistersAreKept == Spec => []RegistersKeepTheirValue
<1>1. ASSUME IInv PROVE RegistersKeepTheirValue
  <2> SUFFICES ASSUME rfStatus = "Success", NEW s \in DOMAIN segments, NEW t \in DOMAIN segments,
                      BankKey(s) = BankKey(t), alloc[s].reg = alloc[t].reg, Clash(s, t)
               PROVE  FALSE
    BY DEF RegistersKeepTheirValue
  <2>1. ii \in Nat /\ LifetimesApart(alloc) BY <1>1 DEF IInv, HasInterval
  <2>2. PICK i \in Unrolled, j \in Unrolled :
           /\ <<s, i>> # <<t, j>>
           /\ Destroys(segments[s].write + i * ii, segments[s].read + i * ii,
                       segments[t].write + j * ii)
    BY DEF Clash
  <2>3. i \in Int /\ j \in Int BY <2>2 DEF Unrolled
  <2>4. Timed(segments[s]) /\ Timed(segments[t]) /\ ~fixedRegisterSelfOverlaps(segments[s])
    BY <2>1 DEF LifetimesApart
  <2>5. CASE s = t
    <3>1. i # j BY <2>2, <2>5
    <3> QED BY <2>1, <2>2, <2>3, <2>4, <2>5, <3>1, OwnIterationsApart
  <2>6. CASE s # t
    <3>1. ~periodicLifetimesConflict(segments[s], segments[t])
      BY <2>1, <2>6 DEF LifetimesApart
    <3> QED BY <2>1, <2>2, <2>3, <2>4, <3>1, OtherIterationsApart
  <2> QED BY <2>5, <2>6
<1> QED BY <1>1, AllocationsStayVerified, PTL

-----------------------------------------------------------------------------
(* Ports: augmenting paths                                                 *)

PortResult(E, P) == [ok : BOOLEAN, matched : [P -> E \cup {None}], visited : SUBSET P]

\* Events, ports, the ports an event may use, and a matching of some events.
\* No event has two ports.
Matching(E, P, fits, matched) ==
    /\ E \subseteq Nat /\ P \subseteq Nat /\ IsFiniteSet(P)
    /\ fits \in [E -> SUBSET P]
    /\ matched \in [P -> E \cup {None}]
    /\ \A p, q \in P : matched[p] = matched[q] /\ matched[p] # None => p = q

\* One call of augment for event, with the ports in V visited; h answers the
\* calls it makes.
PathBody(fits, matched, h, event, V) ==
    LET p == Min(fits[event] \ V)
        seen == V \cup {p}
        moved == h[<<matched[p], seen>>]
        Take(from, all) ==
            [ok |-> TRUE, matched |-> [from EXCEPT ![p] = event], visited |-> all]
    IN  IF fits[event] \subseteq V
        THEN [ok |-> FALSE, matched |-> matched, visited |-> V]
        ELSE IF matched[p] = None THEN Take(matched, seen)
        ELSE IF moved.ok THEN Take(moved.matched, moved.visited)
        ELSE h[<<event, moved.visited>>]

\* A call that fails has closed the ports it visited: whoever holds one of them
\* can go nowhere else.
Closed(P, fits, matched, event, V, r) ==
    /\ fits[event] \subseteq r.visited
    /\ \A p \in r.visited \ V : matched[p] # None /\ fits[matched[p]] \subseteq r.visited

\* A call that succeeds leaves the visited ports alone, adds the event to the
\* others and gives no event two of them.
Extended(P, matched, event, V, r) ==
    /\ \A q \in V : r.matched[q] = matched[q]
    /\ \A q \in P \ V : \/ r.matched[q] \in {None, event}
                        \/ \E o \in P \ V : r.matched[q] = matched[o]
    /\ \A q, o \in P \ V : r.matched[q] = r.matched[o] /\ r.matched[q] # None => q = o

Answer(E, P, fits, matched, event, V, r) ==
    /\ r \in PortResult(E, P) /\ V \subseteq r.visited
    /\ ~r.ok => Closed(P, fits, matched, event, V, r)
    /\ r.ok /\ (\A q \in P \ V : matched[q] # event) => Extended(P, matched, event, V, r)

\* The number of ports that are not visited yet.
LeftOf(P, V) == Cardinality(P \ V)

LEMMA LeftShrinks ==
    ASSUME NEW P, IsFiniteSet(P), NEW V \in SUBSET P, NEW W \in SUBSET P, V \subseteq W,
           NEW p \in W \ V
    PROVE  LeftOf(P, V) \in Nat /\ LeftOf(P, W) \in Nat /\ LeftOf(P, W) < LeftOf(P, V)
<1>1. IsFiniteSet(P \ V) BY FS_Subset
<1>2. (P \ W) \in SUBSET (P \ V) /\ P \ W # P \ V OBVIOUS
<1>3. /\ IsFiniteSet(P \ W) /\ Cardinality(P \ W) =< Cardinality(P \ V)
      /\ Cardinality(P \ V) = Cardinality(P \ W) => P \ V = P \ W
  BY <1>1, <1>2, FS_Subset
<1>4. Cardinality(P \ W) \in Nat /\ Cardinality(P \ V) \in Nat
  BY <1>1, <1>3, FS_CardinalityType
<1> QED BY <1>2, <1>3, <1>4 DEF LeftOf

\* The calls that h answers, those with fewer ports left.
Answers(E, P, fits, matched, h, V) ==
    \A e \in E, W \in SUBSET P :
        LeftOf(P, W) < LeftOf(P, V) => Answer(E, P, fits, matched, e, W, h[<<e, W>>])

\* The port p that event tries next, and the ports visited with it.
Trying(fits, event, V, p, seen) ==
    ~(fits[event] \subseteq V) /\ p = Min(fits[event] \ V) /\ seen = V \cup {p}
Picked(E, P, fits, matched, event, V, p, seen) ==
    /\ p \in fits[event] /\ p \in P /\ p \notin V
    /\ seen \in SUBSET P /\ V \subseteq seen /\ LeftOf(P, seen) < LeftOf(P, V)
    /\ matched[p] # None => matched[p] \in E

LEMMA PortPicked ==
    ASSUME NEW E, NEW P, NEW fits, NEW matched, Matching(E, P, fits, matched),
           NEW event \in E, NEW V \in SUBSET P, NEW p, NEW seen,
           Trying(fits, event, V, p, seen)
    PROVE  Picked(E, P, fits, matched, event, V, p, seen)
<1> USE DEF Trying
<1> DEFINE S == fits[event] \ V
<1>1. S \in SUBSET Nat /\ S # {} /\ fits[event] \subseteq P BY DEF Matching
<1>2. p \in S BY <1>1, MinIsMember
<1>3. p \in fits[event] /\ p \in P /\ p \notin V BY <1>1, <1>2
<1>4. seen \in SUBSET P /\ V \subseteq seen /\ p \in seen \ V BY <1>3
<1>5. IsFiniteSet(P) BY DEF Matching
<1>6. LeftOf(P, seen) < LeftOf(P, V) BY <1>4, <1>5, LeftShrinks
<1>7. matched[p] # None => matched[p] \in E BY <1>3 DEF Matching
<1> QED BY <1>3, <1>4, <1>6, <1>7 DEF Picked

\* A call answers rightly if those that it makes do.
LEMMA BodyAnswers ==
    ASSUME NEW E, NEW P, NEW fits, NEW matched, Matching(E, P, fits, matched),
           NEW h, NEW event \in E, NEW V \in SUBSET P, Answers(E, P, fits, matched, h, V)
    PROVE  Answer(E, P, fits, matched, event, V, PathBody(fits, matched, h, event, V))
<1> DEFINE r == PathBody(fits, matched, h, event, V)
<1>0. /\ matched \in [P -> E \cup {None}] /\ fits \in [E -> SUBSET P]
      /\ \A p, q \in P : matched[p] = matched[q] /\ matched[p] # None => p = q
  BY DEF Matching
<1>1. CASE fits[event] \subseteq V
  <2>1. r = [ok |-> FALSE, matched |-> matched, visited |-> V] BY <1>1 DEF PathBody
  <2> HIDE DEF r
  <2>2. r.ok = FALSE /\ r.visited = V /\ r \in PortResult(E, P)
    BY <2>1, <1>0 DEF PortResult
  <2>3. Closed(P, fits, matched, event, V, r) BY <1>1, <2>2 DEF Closed
  <2> QED BY <2>2, <2>3 DEF Answer, r
<1>2. CASE ~(fits[event] \subseteq V)
  <2>1. PICK p : p = Min(fits[event] \ V) OBVIOUS
  <2>2. PICK seen : seen = V \cup {p} OBVIOUS
  <2>3. /\ p \in fits[event] /\ p \in P /\ p \notin V
        /\ seen \in SUBSET P /\ V \subseteq seen
        /\ LeftOf(P, seen) < LeftOf(P, V)
        /\ matched[p] # None => matched[p] \in E
    <3>1. Trying(fits, event, V, p, seen) BY <1>2, <2>1, <2>2 DEF Trying
    <3>2. Picked(E, P, fits, matched, event, V, p, seen) BY <3>1, PortPicked, Zenon
    <3> QED BY <3>2 DEF Picked
  <2>4. PICK moved : moved = h[<<matched[p], seen>>] OBVIOUS
  <2>5. r = IF matched[p] = None
            THEN [ok |-> TRUE, matched |-> [matched EXCEPT ![p] = event], visited |-> seen]
            ELSE IF moved.ok
            THEN [ok |-> TRUE, matched |-> [moved.matched EXCEPT ![p] = event],
                  visited |-> moved.visited]
            ELSE h[<<event, moved.visited>>]
    BY <1>2, <2>1, <2>2, <2>4 DEF PathBody
  <2> HIDE DEF r
  <2>6. CASE matched[p] = None
    <3>1. r = [ok |-> TRUE, matched |-> [matched EXCEPT ![p] = event], visited |-> seen]
      BY <2>5, <2>6
    <3>2. r.ok = TRUE /\ r.visited = seen /\ r.matched = [matched EXCEPT ![p] = event]
      BY <3>1
    <3>3. r \in PortResult(E, P) BY <3>1, <1>0, <2>3 DEF PortResult
    <3>4. ASSUME \A q \in P \ V : matched[q] # event
          PROVE  Extended(P, matched, event, V, r)
      <4>1. \A q \in P : r.matched[q] = IF q = p THEN event ELSE matched[q]
        BY <3>2, <1>0
      <4>2. \A q \in V : r.matched[q] = matched[q] BY <4>1, <2>3
      <4>3. \A q \in P \ V : \/ r.matched[q] \in {None, event}
                             \/ \E o \in P \ V : r.matched[q] = matched[o]
        BY <4>1
      <4>4. \A q, o \in P \ V : r.matched[q] = r.matched[o] /\ r.matched[q] # None => q = o
        BY <4>1, <3>4, <1>0, <2>3
      <4> QED BY <4>2, <4>3, <4>4 DEF Extended
    <3> QED BY <3>2, <3>3, <3>4, <2>3 DEF Answer, r
  <2>7. CASE matched[p] # None
    <3>1. Answer(E, P, fits, matched, matched[p], seen, moved)
      BY <2>3, <2>4, <2>7 DEF Answers
    <3>2. moved \in PortResult(E, P) /\ seen \subseteq moved.visited BY <3>1 DEF Answer
    <3>3. moved.visited \in SUBSET P /\ moved.matched \in [P -> E \cup {None}]
      BY <3>2 DEF PortResult
    <3>4. CASE moved.ok
      <4>1. r = [ok |-> TRUE, matched |-> [moved.matched EXCEPT ![p] = event],
                 visited |-> moved.visited]
        BY <2>5, <2>7, <3>4
      <4>2. r.ok = TRUE /\ r.visited = moved.visited
            /\ r.matched = [moved.matched EXCEPT ![p] = event]
        BY <4>1
      <4>3. r \in PortResult(E, P) BY <4>1, <3>3, <2>3 DEF PortResult
      <4>4. V \subseteq r.visited BY <4>2, <3>2, <2>3
      <4>5. ASSUME \A q \in P \ V : matched[q] # event
            PROVE  Extended(P, matched, event, V, r)
        <5>1. \A q \in P \ seen : matched[q] # matched[p]
          BY <1>0, <2>2, <2>3, <2>7
        <5>2. Extended(P, matched, matched[p], seen, moved) BY <5>1, <3>1, <3>4 DEF Answer
        <5>3. \A q \in P : r.matched[q] = IF q = p THEN event ELSE moved.matched[q]
          BY <4>2, <3>3
        <5>4. \A q \in V : q # p /\ moved.matched[q] = matched[q]
          BY <5>2, <2>2, <2>3 DEF Extended
        <5>5. \A q \in V : r.matched[q] = matched[q] BY <5>3, <5>4, <2>3
        <5>6. \A q \in P \ V : q # p => q \in P \ seen BY <2>2
        <5>7. \A q \in P \ seen :
                 \/ moved.matched[q] = None
                 \/ \E o \in P \ V : moved.matched[q] = matched[o]
          <6>1. p \in P \ V BY <2>3
          <6>2. P \ seen \subseteq P \ V BY <2>2
          <6> QED BY <6>1, <6>2, <5>2 DEF Extended
        <5>8. \A q \in P \ V : \/ r.matched[q] \in {None, event}
                               \/ \E o \in P \ V : r.matched[q] = matched[o]
          BY <5>3, <5>6, <5>7
        <5>9. \A q \in P \ seen : moved.matched[q] # event
          BY <5>7, <4>5 DEF None, Matching
        <5>10. \A q, o \in P \ seen :
                  moved.matched[q] = moved.matched[o] /\ moved.matched[q] # None => q = o
          BY <5>2 DEF Extended
        <5>11. \A q, o \in P \ V : r.matched[q] = r.matched[o] /\ r.matched[q] # None => q = o
          BY <5>3, <5>6, <5>9, <5>10
        <5> QED BY <5>5, <5>8, <5>11 DEF Extended
      <4> QED BY <4>2, <4>3, <4>4, <4>5 DEF Answer, r
    <3>5. CASE ~moved.ok
      <4>1. PICK W : W = moved.visited OBVIOUS
      <4>2. W \in SUBSET P /\ seen \subseteq W /\ V \subseteq W /\ p \in W \ V
        BY <4>1, <3>2, <3>3, <2>2, <2>3
      <4>3. r = h[<<event, W>>] BY <2>5, <2>7, <3>5, <4>1
      <4>4. LeftOf(P, W) < LeftOf(P, V)
        <5>1. IsFiniteSet(P) BY DEF Matching
        <5> QED BY <5>1, <4>2, LeftShrinks
      <4>5. Answer(E, P, fits, matched, event, W, r) BY <4>2, <4>3, <4>4 DEF Answers
      <4>6. r \in PortResult(E, P) /\ W \subseteq r.visited BY <4>5 DEF Answer
      <4>7. Closed(P, fits, matched, matched[p], seen, moved) BY <3>1, <3>5 DEF Answer
      <4>8. ASSUME ~r.ok PROVE Closed(P, fits, matched, event, V, r)
        <5>1. Closed(P, fits, matched, event, W, r) BY <4>5, <4>8 DEF Answer
        <5>2. \A q \in r.visited \ V : q \in r.visited \ W \/ q \in W \ seen \/ q = p
          BY <2>2
        <5> QED BY <5>1, <5>2, <4>1, <4>6, <4>7, <2>7 DEF Closed
      <4>9. ASSUME r.ok, \A q \in P \ V : matched[q] # event
            PROVE  Extended(P, matched, event, V, r)
        <5>1. Extended(P, matched, event, W, r)
          BY <4>2, <4>5, <4>9 DEF Answer
        <5>2. \A q \in P \ V : q \in W \/ q \in P \ W OBVIOUS
        <5>3. \A q \in W : r.matched[q] = matched[q] BY <5>1 DEF Extended
        <5>4. \A q \in P \ W : \/ r.matched[q] \in {None, event}
                               \/ \E o \in P \ W : r.matched[q] = matched[o]
          BY <5>1 DEF Extended
        <5>5. \A q \in P \ V : \/ r.matched[q] \in {None, event}
                               \/ \E o \in P \ V : r.matched[q] = matched[o]
          BY <5>2, <5>3, <5>4, <4>2
        <5>6. \A q \in W \ V, o \in P \ W : r.matched[q] # None => r.matched[q] # r.matched[o]
          BY <5>3, <5>4, <4>2, <4>9, <1>0
        <5>7. \A q, o \in W : r.matched[q] = r.matched[o] /\ r.matched[q] # None => q = o
          BY <5>3, <4>2, <1>0
        <5>8. \A q, o \in P \ W : r.matched[q] = r.matched[o] /\ r.matched[q] # None => q = o
          BY <5>1 DEF Extended
        <5>9. \A q, o \in P \ V : r.matched[q] = r.matched[o] /\ r.matched[q] # None => q = o
          BY <5>2, <5>6, <5>7, <5>8
        <5>10. \A q \in V : r.matched[q] = matched[q] BY <5>3, <4>2
        <5> QED BY <5>5, <5>9, <5>10 DEF Extended
      <4> QED BY <4>2, <4>6, <4>8, <4>9 DEF Answer, r
    <3> QED BY <3>4, <3>5
  <2> QED BY <2>6, <2>7
<1> QED BY <1>1, <1>2

\* g answers those calls as h does.
SameAnswers(E, P, g, h, V) ==
    \A e \in E, W \in SUBSET P :
        LeftOf(P, W) < LeftOf(P, V) => g[<<e, W>>] = h[<<e, W>>]

SameBody(fits, matched, g, h, event, V) ==
    PathBody(fits, matched, g, event, V) = PathBody(fits, matched, h, event, V)

\* Two answers to the calls it makes that agree give one answer.
LEMMA BodyLocal ==
    ASSUME NEW E, NEW P, NEW fits, NEW matched, Matching(E, P, fits, matched),
           NEW h, NEW g, NEW event \in E, NEW V \in SUBSET P,
           Answers(E, P, fits, matched, h, V), SameAnswers(E, P, g, h, V)
    PROVE  SameBody(fits, matched, g, h, event, V)
<1> USE DEF SameAnswers, SameBody
<1>1. CASE fits[event] \subseteq V BY <1>1 DEF PathBody
<1>2. CASE ~(fits[event] \subseteq V)
  <2>1. PICK p : p = Min(fits[event] \ V) OBVIOUS
  <2>2. PICK seen : seen = V \cup {p} OBVIOUS
  <2>3. /\ p \in P /\ p \notin V
        /\ seen \in SUBSET P /\ V \subseteq seen /\ LeftOf(P, seen) < LeftOf(P, V)
        /\ matched[p] # None => matched[p] \in E
    <3>1. Trying(fits, event, V, p, seen) BY <1>2, <2>1, <2>2 DEF Trying
    <3>2. Picked(E, P, fits, matched, event, V, p, seen) BY <3>1, PortPicked, Zenon
    <3> QED BY <3>2 DEF Picked
  <2>4. CASE matched[p] = None BY <1>2, <2>1, <2>4 DEF PathBody
  <2>5. CASE matched[p] # None
    <3>1. PICK moved : moved = h[<<matched[p], seen>>] OBVIOUS
    <3>2. g[<<matched[p], seen>>] = moved BY <3>1, <2>3, <2>5
    <3>3. Answer(E, P, fits, matched, matched[p], seen, moved)
      BY <2>3, <2>5, <3>1 DEF Answers
    <3>4. PICK W : W = moved.visited OBVIOUS
    <3>5. W \in SUBSET P /\ seen \subseteq W BY <3>3, <3>4 DEF Answer, PortResult
    <3>6. V \subseteq W /\ p \in W \ V BY <3>5, <2>2, <2>3
    <3>7. LeftOf(P, W) < LeftOf(P, V)
      <4>1. IsFiniteSet(P) BY DEF Matching
      <4> QED BY <4>1, <3>5, <3>6, LeftShrinks
    <3>8. g[<<event, W>>] = h[<<event, W>>] BY <3>5, <3>7
    <3> QED BY <1>2, <2>1, <2>2, <2>5, <3>1, <3>2, <3>4, <3>8 DEF PathBody
  <2> QED BY <2>4, <2>5
<1> QED BY <1>1, <1>2

\* h answers every call, and is what its answers make of themselves.
Settled(E, P, fits, matched, h) ==
    \A e \in E, V \in SUBSET P :
        /\ Answer(E, P, fits, matched, e, V, h[<<e, V>>])
        /\ h[<<e, V>>] = PathBody(fits, matched, h, e, V)

\* Whatever satisfies the recursion answers every call.
LEMMA FixpointSettled ==
    ASSUME NEW E, NEW P, NEW fits, NEW matched, Matching(E, P, fits, matched), NEW h,
           \A e \in E, V \in SUBSET P : h[<<e, V>>] = PathBody(fits, matched, h, e, V)
    PROVE  Settled(E, P, fits, matched, h)
<1>1. \A V \in SUBSET P : LeftOf(P, V) \in Nat
  <2> TAKE V \in SUBSET P
  <2>1. IsFiniteSet(P) /\ P \ V \in SUBSET P BY DEF Matching
  <2>2. IsFiniteSet(P \ V) BY <2>1, FS_Subset
  <2> QED BY <2>2, FS_CardinalityType DEF LeftOf
<1> DEFINE Bad == {V \in SUBSET P : \E e \in E : ~Answer(E, P, fits, matched, e, V, h[<<e, V>>])}
           D == {LeftOf(P, V) : V \in Bad}
<1>2. Bad = {}
  <2> SUFFICES ASSUME Bad # {} PROVE FALSE OBVIOUS
  <2>1. D \in SUBSET Nat /\ D # {} BY <1>1
  <2>2. PICK k \in D : \A j \in D : k =< j
    <3> HIDE DEF D
    <3> QED BY <2>1, LeastNatural
  <2>3. PICK V \in Bad : k = LeftOf(P, V) BY <2>2
  <2>4. PICK e \in E : ~Answer(E, P, fits, matched, e, V, h[<<e, V>>]) BY <2>3
  <2>5. ASSUME NEW d \in E, NEW W \in SUBSET P, LeftOf(P, W) < LeftOf(P, V)
        PROVE  Answer(E, P, fits, matched, d, W, h[<<d, W>>])
    <3>1. LeftOf(P, W) \in Nat /\ LeftOf(P, V) \in Nat BY <1>1
    <3>2. LeftOf(P, W) \notin D BY <3>1, <2>2, <2>3, <2>5
    <3>3. W \notin Bad BY <3>2
    <3> QED BY <3>3
  <2>6. Answers(E, P, fits, matched, h, V) BY <2>5 DEF Answers
  <2>7. Answer(E, P, fits, matched, e, V, PathBody(fits, matched, h, e, V))
    <3>1. V \in SUBSET P OBVIOUS
    <3> HIDE DEF Bad
    <3> QED BY <2>6, <3>1, BodyAnswers
  <2>8. h[<<e, V>>] = PathBody(fits, matched, h, e, V) OBVIOUS
  <2> QED BY <2>4, <2>7, <2>8
<1>3. ASSUME NEW e \in E, NEW V \in SUBSET P
      PROVE  Answer(E, P, fits, matched, e, V, h[<<e, V>>])
  BY <1>2
<1> QED BY <1>3 DEF Settled

\* The calls of augment: an event and the ports that are visited.
Calls(E, P) == E \X SUBSET P

SameAnswersBelow(E, P, g, h, k) ==
    \A e \in E, V \in SUBSET P : LeftOf(P, V) < k => g[<<e, V>>] = h[<<e, V>>]
AnswersBelow(E, P, fits, matched, h, k) ==
    \A e \in E, V \in SUBSET P :
        LeftOf(P, V) < k => Answer(E, P, fits, matched, e, V, h[<<e, V>>])

\* One more round of calls settles those with one more port left.
LEMMA RoundSettles ==
    ASSUME NEW E, NEW P, NEW fits, NEW matched, Matching(E, P, fits, matched), NEW k \in Nat,
           NEW f, NEW g, NEW h,
           \A e \in E, V \in SUBSET P : g[<<e, V>>] = PathBody(fits, matched, f, e, V),
           \A e \in E, V \in SUBSET P : h[<<e, V>>] = PathBody(fits, matched, g, e, V),
           AnswersBelow(E, P, fits, matched, f, k), SameAnswersBelow(E, P, g, f, k)
    PROVE  AnswersBelow(E, P, fits, matched, g, k + 1) /\ SameAnswersBelow(E, P, h, g, k + 1)
<1>1. \A V \in SUBSET P : LeftOf(P, V) \in Nat
  <2> TAKE V \in SUBSET P
  <2>1. IsFiniteSet(P) /\ P \ V \in SUBSET P BY DEF Matching
  <2>2. IsFiniteSet(P \ V) BY <2>1, FS_Subset
  <2> QED BY <2>2, FS_CardinalityType DEF LeftOf
<1>2. ASSUME NEW e \in E, NEW V \in SUBSET P, LeftOf(P, V) < k + 1
      PROVE  Answer(E, P, fits, matched, e, V, g[<<e, V>>]) /\ h[<<e, V>>] = g[<<e, V>>]
  <2>1. \A W \in SUBSET P : LeftOf(P, W) < LeftOf(P, V) => LeftOf(P, W) < k
    BY <1>1, <1>2
  <2>2. Answers(E, P, fits, matched, f, V) BY <2>1 DEF Answers, AnswersBelow
  <2>3. Answer(E, P, fits, matched, e, V, PathBody(fits, matched, f, e, V))
    BY <2>2, BodyAnswers
  <2>4. SameAnswers(E, P, g, f, V) BY <2>1 DEF SameAnswers, SameAnswersBelow
  <2>5. SameBody(fits, matched, g, f, e, V) BY <2>2, <2>4, BodyLocal, Zenon
  <2> QED BY <2>3, <2>5 DEF SameBody
<1> QED BY <1>2 DEF AnswersBelow, SameAnswersBelow

LEMMA BodyTyped ==
    ASSUME NEW E, NEW P, NEW fits, NEW matched, Matching(E, P, fits, matched),
           NEW h \in [Calls(E, P) -> PortResult(E, P)], NEW event \in E, NEW V \in SUBSET P
    PROVE  PathBody(fits, matched, h, event, V) \in PortResult(E, P)
<1>0. matched \in [P -> E \cup {None}] BY DEF Matching
<1>1. CASE fits[event] \subseteq V BY <1>0, <1>1 DEF PathBody, PortResult
<1>2. CASE ~(fits[event] \subseteq V)
  <2>1. PICK p : p = Min(fits[event] \ V) OBVIOUS
  <2>2. PICK seen : seen = V \cup {p} OBVIOUS
  <2>3. p \in P /\ seen \in SUBSET P /\ (matched[p] # None => matched[p] \in E)
    <3>1. Trying(fits, event, V, p, seen) BY <1>2, <2>1, <2>2 DEF Trying
    <3>2. Picked(E, P, fits, matched, event, V, p, seen) BY <3>1, PortPicked, Zenon
    <3> QED BY <3>2 DEF Picked
  <2>4. PICK moved : moved = h[<<matched[p], seen>>] OBVIOUS
  <2>5. PathBody(fits, matched, h, event, V) =
          IF matched[p] = None
          THEN [ok |-> TRUE, matched |-> [matched EXCEPT ![p] = event], visited |-> seen]
          ELSE IF moved.ok
          THEN [ok |-> TRUE, matched |-> [moved.matched EXCEPT ![p] = event],
                visited |-> moved.visited]
          ELSE h[<<event, moved.visited>>]
    BY <1>2, <2>1, <2>2, <2>4 DEF PathBody
  <2>6. CASE matched[p] = None BY <1>0, <2>3, <2>5, <2>6 DEF PortResult
  <2>7. CASE matched[p] # None
    <3>1. <<matched[p], seen>> \in Calls(E, P) BY <2>3, <2>7 DEF Calls
    <3>2. moved \in PortResult(E, P) BY <2>4, <3>1
    <3>3. moved.visited \in SUBSET P /\ moved.matched \in [P -> E \cup {None}]
      BY <3>2 DEF PortResult
    <3>4. <<event, moved.visited>> \in Calls(E, P) BY <3>3 DEF Calls
    <3>5. h[<<event, moved.visited>>] \in PortResult(E, P) BY <3>4
    <3>6. [ok |-> TRUE, matched |-> [moved.matched EXCEPT ![p] = event],
           visited |-> moved.visited] \in PortResult(E, P)
      BY <3>3, <2>3 DEF PortResult
    <3> QED BY <2>5, <2>7, <3>5, <3>6
  <2> QED BY <2>6, <2>7
<1> QED BY <1>1, <1>2

Solvable(E, P, fits, matched) ==
    \E h : h = [x \in Calls(E, P) |-> PathBody(fits, matched, h, x[1], x[2])]

\* The recursion has a solution.
LEMMA PathExists ==
    ASSUME NEW E, NEW P, NEW fits, NEW matched, Matching(E, P, fits, matched)
    PROVE  Solvable(E, P, fits, matched)
<1> DEFINE X == Calls(E, P)
           F == [X -> PortResult(E, P)]
           Round(h) == [x \in X |-> PathBody(fits, matched, h, x[1], x[2])]
           G == [z \in Nat \X F |-> Round(z[2])]
           n == Cardinality(P)
           start == [x \in X |-> [ok |-> FALSE, matched |-> matched, visited |-> {}]]
<1>1. n \in Nat BY FS_CardinalityType DEF Matching
<1>2. start \in F BY DEF Matching, PortResult
<1>3. ASSUME NEW h \in F PROVE Round(h) \in F
  <2>1. \A x \in X : x[1] \in E /\ x[2] \in SUBSET P BY DEF Calls
  <2>2. \A x \in X : PathBody(fits, matched, h, x[1], x[2]) \in PortResult(E, P)
    BY <2>1, BodyTyped
  <2> QED BY <2>2
<1>4. \A e \in E, V \in SUBSET P : <<e, V>> \in X /\ <<e, V>>[1] = e /\ <<e, V>>[2] = V
  BY DEF Calls
<1>5. ASSUME NEW h, NEW e \in E, NEW V \in SUBSET P
      PROVE  Round(h)[<<e, V>>] = PathBody(fits, matched, h, e, V)
  BY <1>4
<1> HIDE DEF Round, X, start
<1>6. G \in [Nat \X F -> F] BY <1>3
<1>7. PICK y \in [0 .. n + 2 -> F] : Iterates(y, start, G, n + 2)
  <2> DEFINE m == n + 2
  <2>1. m \in Nat BY <1>1
  <2> HIDE DEF m, G, F
  <2>2. \E y \in [0 .. m -> F] : Iterates(y, start, G, m) BY <2>1, <1>2, <1>6, RecursionExists
  <2> QED BY <2>2 DEF m
<1>8. ASSUME NEW k \in 1 .. n + 2 PROVE y[k] = Round(y[k - 1])
  <2>1. k \in Nat /\ k - 1 \in 0 .. n + 2 BY <1>1
  <2>2. y[k] = G[<<k, y[k - 1]>>] BY <1>7 DEF Iterates
  <2>3. y[k - 1] \in F BY <2>1, <1>7
  <2>4. G[<<k, y[k - 1]>>] = Round(y[k - 1]) BY <2>1, <2>3
  <2> QED BY <2>2, <2>4
<1> HIDE DEF F, G
<1>9. \A V \in SUBSET P : LeftOf(P, V) \in Nat /\ LeftOf(P, V) =< n
  <2> TAKE V \in SUBSET P
  <2>1. IsFiniteSet(P) /\ P \ V \in SUBSET P BY DEF Matching
  <2>2. IsFiniteSet(P \ V) /\ Cardinality(P \ V) =< n BY <2>1, FS_Subset
  <2> QED BY <2>2, FS_CardinalityType DEF LeftOf
<1> HIDE DEF n
<1> DEFINE Good(k) == /\ AnswersBelow(E, P, fits, matched, y[k], k)
                      /\ SameAnswersBelow(E, P, y[k + 1], y[k], k)
           T == {k \in 0 .. n + 1 : Good(k)}
<1>10. 0 \in T
  <2>1. Good(0) BY <1>9 DEF AnswersBelow, SameAnswersBelow
  <2> QED BY <1>1, <2>1
<1>11. ASSUME NEW k \in 1 .. n + 1, k - 1 \in T PROVE k \in T
  <2>1. k \in 1 .. n + 2 /\ k + 1 \in 1 .. n + 2 /\ k - 1 \in Nat /\ k \in 0 .. n + 1
        /\ (k - 1) + 1 = k /\ (k + 1) - 1 = k
    BY <1>1
  <2>2. PICK j \in Nat : j = k - 1 BY <2>1
  <2>3. PICK f, g, h : f = y[j] /\ g = y[k] /\ h = y[k + 1] OBVIOUS
  <2>4. g = Round(f) /\ h = Round(g)
    <3>1. y[k] = Round(y[k - 1]) /\ y[k + 1] = Round(y[(k + 1) - 1]) BY <1>8, <2>1
    <3> QED BY <3>1, <2>1, <2>2, <2>3
  <2>5. /\ \A e \in E, V \in SUBSET P : g[<<e, V>>] = PathBody(fits, matched, f, e, V)
        /\ \A e \in E, V \in SUBSET P : h[<<e, V>>] = PathBody(fits, matched, g, e, V)
    BY <1>5, <2>4
  <2>6. AnswersBelow(E, P, fits, matched, f, j) /\ SameAnswersBelow(E, P, g, f, j)
    BY <1>11, <2>1, <2>2, <2>3
  <2>7. AnswersBelow(E, P, fits, matched, g, j + 1) /\ SameAnswersBelow(E, P, h, g, j + 1)
    BY <2>5, <2>6, RoundSettles
  <2>8. j + 1 = k BY <2>1, <2>2
  <2>9. Good(k) BY <2>3, <2>7, <2>8
  <2> QED BY <2>1, <2>9
<1>12. n + 1 \in T
  <2> DEFINE m == n + 1
  <2>1. m \in Nat /\ m \in 0 .. m BY <1>1
  <2>2. \A k \in 1 .. m : k - 1 \in T => k \in T BY <1>11
  <2> HIDE DEF T, m
  <2>3. m \in T BY <1>10, <2>1, <2>2, Climb
  <2> QED BY <2>3 DEF m
<1>13. PICK g, h : g = y[n + 1] /\ h = y[n + 2] OBVIOUS
<1>14. h = Round(g)
  <2>1. n + 2 \in 1 .. n + 2 /\ (n + 2) - 1 = n + 1 BY <1>1
  <2> QED BY <2>1, <1>8, <1>13
<1>15. SameAnswersBelow(E, P, h, g, n + 1)
  <2>1. (n + 1) + 1 = n + 2 BY <1>1
  <2> QED BY <2>1, <1>12, <1>13
<1>16. \A e \in E, V \in SUBSET P : h[<<e, V>>] = g[<<e, V>>]
  <2> TAKE e \in E, V \in SUBSET P
  <2>1. LeftOf(P, V) < n + 1 BY <1>1, <1>9
  <2> QED BY <2>1, <1>15 DEF SameAnswersBelow
<1>17. h = g
  <2>1. g \in F /\ h \in F
    <3>1. n + 1 \in 0 .. n + 2 /\ n + 2 \in 0 .. n + 2 BY <1>1
    <3> QED BY <3>1, <1>7, <1>13
  <2>2. \A x \in X : x = <<x[1], x[2]>> /\ x[1] \in E /\ x[2] \in SUBSET P BY DEF X, Calls
  <2>3. \A x \in X : h[x] = g[x] BY <2>2, <1>16
  <2> QED BY <2>1, <2>3 DEF F
<1>18. h = Round(h) BY <1>14, <1>17
<1> QED BY <1>18 DEF Round, X, Solvable

\* augment answers rightly.
LEMMA AugmentAnswers ==
    ASSUME NEW E, NEW P, NEW fits, NEW matched, Matching(E, P, fits, matched), NEW s \in E
    PROVE  Answer(E, P, fits, matched, s, {}, augment(fits, matched, s, {}))
<1>0. DOMAIN fits = E /\ DOMAIN matched = P BY DEF Matching
<1> DEFINE path[x \in (DOMAIN fits) \X (SUBSET DOMAIN matched)] ==
            LET event == x[1]
                p == Min(fits[event] \ x[2])
                seen == x[2] \cup {p}
                moved == path[<<matched[p], seen>>]
                Take(from, all) ==
                    [ok |-> TRUE, matched |-> [from EXCEPT ![p] = event], visited |-> all]
            IN  IF fits[event] \subseteq x[2]
                THEN [ok |-> FALSE, matched |-> matched, visited |-> x[2]]
                ELSE IF matched[p] = None THEN Take(matched, seen)
                ELSE IF moved.ok THEN Take(moved.matched, moved.visited)
                ELSE path[<<event, moved.visited>>]
           Round(h) == [x \in Calls(E, P) |-> PathBody(fits, matched, h, x[1], x[2])]
<1>1. augment(fits, matched, s, {}) = path[<<s, {}>>] BY DEF augment
<1>2. PICK h : h = Round(h)
  <2>1. Solvable(E, P, fits, matched)
    <3> HIDE DEF path, Round
    <3> QED BY PathExists, Zenon
  <2> QED BY <2>1 DEF Solvable
<1>3. path = Round(path) BY <1>0, <1>2, Zenon DEF PathBody, Calls
<1> HIDE DEF path
<1>4. ASSUME NEW e \in E, NEW V \in SUBSET P
      PROVE  path[<<e, V>>] = PathBody(fits, matched, path, e, V)
  <2>1. <<e, V>> \in Calls(E, P) /\ <<e, V>>[1] = e /\ <<e, V>>[2] = V BY DEF Calls
  <2>2. path[<<e, V>>] = Round(path)[<<e, V>>] BY <1>3
  <2> QED BY <2>1, <2>2
<1>5. Settled(E, P, fits, matched, path) BY <1>4, FixpointSettled
<1>6. {} \in SUBSET P OBVIOUS
<1> QED BY <1>1, <1>5, <1>6 DEF Settled

-----------------------------------------------------------------------------
(* Ports: a failed assignment                                              *)

\* Whatever ports the events take, two of them meet.
Crowded(E, fits) ==
    \A f : (\A e \in E : f[e] \in fits[e]) => \E d, e \in E : d # e /\ f[d] = f[e]

\* The ports that a failed call has visited are fewer than the events that can
\* use no others.
LEMMA FailureIsCrowded ==
    ASSUME NEW E, NEW P, NEW fits, NEW matched, Matching(E, P, fits, matched), NEW s \in E,
           \A p \in P : matched[p] # s,
           NEW r, ~r.ok, Answer(E, P, fits, matched, s, {}, r)
    PROVE  Crowded(E, fits)
<1> SUFFICES ASSUME NEW f, \A e \in E : f[e] \in fits[e]
             PROVE  \E d, e \in E : d # e /\ f[d] = f[e]
  BY DEF Crowded
<1>1. PICK V : V = r.visited OBVIOUS
<1>2. V \in SUBSET P BY <1>1 DEF Answer, PortResult
<1>3. fits[s] \subseteq V /\ \A p \in V : matched[p] # None /\ fits[matched[p]] \subseteq V
  BY <1>1 DEF Answer, Closed
<1>4. \A p \in V : matched[p] \in E BY <1>2, <1>3 DEF Matching
<1> DEFINE who == [x \in V \cup {None} |-> IF x = None THEN s ELSE matched[x]]
           g == [x \in V \cup {None} |-> f[who[x]]]
<1>5. None \notin V BY <1>2 DEF Matching, None
<1>6. \A x \in V \cup {None} : who[x] \in E /\ fits[who[x]] \subseteq V BY <1>3, <1>4, <1>5
<1>7. \A x, y \in V \cup {None} : who[x] = who[y] => x = y
  <2>1. \A x \in V : who[x] = matched[x] /\ who[x] # s /\ x \in P BY <1>2, <1>5
  <2>2. who[None] = s OBVIOUS
  <2>3. \A x, y \in V : matched[x] = matched[y] => x = y BY <1>2, <1>3 DEF Matching
  <2> QED BY <2>1, <2>2, <2>3
<1> HIDE DEF who
<1>8. g \in [V \cup {None} -> V] BY <1>6
<1>9. IsFiniteSet(V) /\ IsFiniteSet(V \cup {None})
      /\ Cardinality(V \cup {None}) = Cardinality(V) + 1 /\ Cardinality(V) \in Nat
  <2>1. IsFiniteSet(P) BY DEF Matching
  <2>2. IsFiniteSet(V) BY <1>2, <2>1, FS_Subset
  <2>3. Cardinality(V) \in Nat BY <2>2, FS_CardinalityType
  <2> QED BY <1>5, <2>2, <2>3, FS_AddElement
<1>10. PICK x, y \in V \cup {None} : x # y /\ g[x] = g[y]
  <2> DEFINE S == V \cup {None}
  <2>1. IsFiniteSet(S) /\ IsFiniteSet(V) /\ Cardinality(V) < Cardinality(S) /\ g \in [S -> V]
    BY <1>8, <1>9
  <2> HIDE DEF S, g
  <2>2. \E x, y \in S : x # y /\ g[x] = g[y] BY <2>1, FS_PigeonHole
  <2> QED BY <2>2 DEF S
<1>11. who[x] # who[y] /\ f[who[x]] = f[who[y]] BY <1>7, <1>10
<1> QED BY <1>6, <1>11

\* What assignPorts has made of the events up to k.
PortStep(E, fits, k, r) ==
    IF k \in E /\ r.ok THEN augment(fits, r.matched, k, {}) ELSE r

SoFar(E, P, fits, k, r) ==
    /\ r \in PortResult(E, P)
    /\ r.ok => /\ Matching(E, P, fits, r.matched)
               /\ \A p \in P : r.matched[p] = None \/ r.matched[p] =< k
    /\ ~r.ok => Crowded(E, fits)

\* One more event.
LEMMA StepSoFar ==
    ASSUME NEW E \in SUBSET Nat, NEW P \in SUBSET Nat, IsFiniteSet(P),
           NEW fits \in [E -> SUBSET P],
           NEW k \in Nat, NEW j, j = k - 1, NEW r, SoFar(E, P, fits, j, r)
    PROVE  SoFar(E, P, fits, k, PortStep(E, fits, k, r))
<1>0. r \in PortResult(E, P) BY DEF SoFar
<1>1. CASE ~(k \in E /\ r.ok)
  <2>1. PortStep(E, fits, k, r) = r BY <1>1 DEF PortStep
  <2>2. r.ok => \A p \in P : r.matched[p] = None \/ r.matched[p] =< k
    <3> SUFFICES ASSUME r.ok, NEW p \in P, r.matched[p] # None PROVE r.matched[p] =< k
      OBVIOUS
    <3>1. r.matched \in [P -> E \cup {None}] BY <1>0 DEF PortResult
    <3>2. r.matched[p] \in E BY <3>1
    <3>3. r.matched[p] =< j BY DEF SoFar
    <3>4. PICK x : x = r.matched[p] OBVIOUS
    <3>5. x \in Nat BY <3>2, <3>4
    <3>6. x =< j => x =< k BY <3>5
    <3> QED BY <3>3, <3>4, <3>6
  <2> QED BY <2>1, <2>2 DEF SoFar
<1>2. CASE k \in E /\ r.ok
  <2>1. PICK m : m = r.matched OBVIOUS
  <2>2. PICK a : a = augment(fits, m, k, {}) OBVIOUS
  <2>3. PortStep(E, fits, k, r) = a BY <1>2, <2>1, <2>2 DEF PortStep
  <2>4. Matching(E, P, fits, m) BY <1>2, <2>1 DEF SoFar
  <2>5. Answer(E, P, fits, m, k, {}, a) BY <1>2, <2>2, <2>4, AugmentAnswers
  <2>6. ASSUME NEW p \in P PROVE m[p] # k /\ (m[p] = None \/ (m[p] \in E /\ m[p] =< k))
    <3>1. m \in [P -> E \cup {None}] BY <1>0, <2>1 DEF PortResult
    <3>2. m[p] = None \/ m[p] \in E BY <3>1
    <3>3. m[p] = None \/ m[p] =< j BY <1>2, <2>1 DEF SoFar
    <3>4. None # k BY DEF None
    <3>5. PICK x : x = m[p] OBVIOUS
    <3>6. CASE x \in Nat
      <4>1. x =< j => x =< k /\ x # k BY <3>6
      <4> QED BY <3>2, <3>3, <3>4, <3>5, <4>1
    <3> QED BY <3>2, <3>4, <3>5, <3>6
  <2>7. a \in PortResult(E, P) BY <2>5 DEF Answer
  <2>8. ASSUME ~a.ok PROVE Crowded(E, fits)
    <3>1. \A p \in P : m[p] # k BY <2>6
    <3> QED BY <1>2, <2>4, <2>5, <2>8, <3>1, FailureIsCrowded
  <2>9. ASSUME a.ok
        PROVE  /\ Matching(E, P, fits, a.matched)
               /\ \A p \in P : a.matched[p] = None \/ a.matched[p] =< k
    <3>1. Extended(P, m, k, {}, a) BY <2>5, <2>6, <2>9 DEF Answer
    <3>2. \A p \in P : p \in P \ {} OBVIOUS
    <3>3. \A p \in P : a.matched[p] \in {None, k} \/ \E o \in P : a.matched[p] = m[o]
      BY <3>1, <3>2 DEF Extended
    <3>4. \A p, q \in P : a.matched[p] = a.matched[q] /\ a.matched[p] # None => p = q
      BY <3>1, <3>2 DEF Extended
    <3>5. a.matched \in [P -> E \cup {None}] BY <2>7 DEF PortResult
    <3>6. \A p \in P : a.matched[p] = None \/ a.matched[p] =< k
      BY <3>3, <2>6
    <3> QED BY <3>4, <3>5, <3>6 DEF Matching
  <2> QED BY <2>3, <2>7, <2>8, <2>9 DEF SoFar
<1> QED BY <1>1, <1>2

\* assignPorts turns events down only if no ports exist for them.
LEMMA AssignmentFails ==
    ASSUME Len(segments) \in Nat,
           NEW E \in SUBSET (1 .. Len(segments)), E # {}, NEW P \in SUBSET Nat, IsFiniteSet(P),
           NEW fits \in [E -> SUBSET P], assignPorts(fits, P) = <<>>
    PROVE  Crowded(E, fits)
<1> DEFINE upTo[k \in 0 .. Len(segments)] ==
               IF k = 0 THEN [ok |-> TRUE, matched |-> [p \in P |-> None], visited |-> {}]
               ELSE IF k \in DOMAIN fits /\ upTo[k - 1].ok
               THEN augment(fits, upTo[k - 1].matched, k, {})
               ELSE upTo[k - 1]
           done == upTo[Len(segments)]
           Round(h) == [k \in 0 .. Len(segments) |->
               IF k = 0 THEN [ok |-> TRUE, matched |-> [p \in P |-> None], visited |-> {}]
               ELSE IF k \in DOMAIN fits /\ h[k - 1].ok
               THEN augment(fits, h[k - 1].matched, k, {})
               ELSE h[k - 1]]
           start == [ok |-> TRUE, matched |-> [p \in P |-> None], visited |-> {}]
           R == PortResult(E, P)
           G == [z \in Nat \X R |->
                   IF PortStep(E, fits, z[1], z[2]) \in R THEN PortStep(E, fits, z[1], z[2])
                   ELSE z[2]]
<1>0. assignPorts(fits, P) =
        IF done.ok THEN [s \in DOMAIN fits |-> CHOOSE p \in P : done.matched[p] = s] ELSE <<>>
  BY DEF assignPorts
<1>1. PICK n \in Nat : n = Len(segments) OBVIOUS
<1>2. DOMAIN fits = E /\ E \in SUBSET Nat OBVIOUS
<1>3. SoFar(E, P, fits, 0, start)
  <2>1. start \in R BY DEF PortResult
  <2>2. start.ok = TRUE /\ start.matched = [p \in P |-> None] OBVIOUS
  <2> HIDE DEF start
  <2>3. Matching(E, P, fits, start.matched) BY <1>2, <2>2 DEF Matching
  <2> QED BY <2>1, <2>2, <2>3 DEF SoFar
<1>4. start \in R BY <1>3 DEF SoFar
<1>5. PICK h \in [0 .. n -> R] : Iterates(h, start, G, n)
  <2>1. G \in [Nat \X R -> R] OBVIOUS
  <2> HIDE DEF R, G, start, upTo, done, Round
  <2> QED BY <2>1, <1>4, RecursionExists
<1>6. h[0] = start /\ \A k \in 1 .. n : h[k] = G[<<k, h[k - 1]>>]
  <2> HIDE DEF G, start, upTo, done, Round
  <2> QED BY <1>5 DEF Iterates
<1>7. h = Round(h)
  <2> HIDE DEF upTo, done, start
  <2> DEFINE T == {k \in 0 .. n : SoFar(E, P, fits, k, h[k])}
  <2>1. 0 \in T BY <1>3, <1>6
  <2>2. ASSUME NEW k \in 1 .. n, SoFar(E, P, fits, k - 1, h[k - 1])
        PROVE  h[k] = PortStep(E, fits, k, h[k - 1]) /\ SoFar(E, P, fits, k, h[k])
    <3>1. PICK j : j = k - 1 OBVIOUS
    <3>2. k \in Nat /\ j \in 0 .. n BY <3>1
    <3>3. PICK r \in R : r = h[j] BY <3>2, <1>5
    <3>4. SoFar(E, P, fits, k, PortStep(E, fits, k, r))
      BY <1>2, <2>2, <3>1, <3>2, <3>3, StepSoFar
    <3>5. PortStep(E, fits, k, r) \in R BY <3>4 DEF SoFar
    <3>6. G[<<k, r>>] = PortStep(E, fits, k, r) BY <3>2, <3>5
    <3> QED BY <1>6, <3>1, <3>3, <3>4, <3>6
  <2>3. ASSUME NEW k \in 1 .. n, k - 1 \in T PROVE k \in T
    <3>1. SoFar(E, P, fits, k - 1, h[k - 1]) BY <2>3
    <3>2. SoFar(E, P, fits, k, h[k]) BY <3>1, <2>2
    <3> QED BY <3>2
  <2>4. \A k \in 0 .. n : k \in T
    <3> HIDE DEF T
    <3> QED BY <2>1, <2>3, Climb
  <2>5. ASSUME NEW k \in 1 .. n PROVE h[k] = PortStep(E, fits, k, h[k - 1])
    <3>1. k - 1 \in 0 .. n OBVIOUS
    <3>2. k - 1 \in T BY <2>4, <3>1
    <3>3. SoFar(E, P, fits, k - 1, h[k - 1]) BY <3>2
    <3> QED BY <3>3, <2>2
  <2>6. \A k \in 0 .. n : k = 0 \/ k \in 1 .. n OBVIOUS
  <2>7. \A k \in 1 .. n : k # 0 OBVIOUS
  <2> HIDE DEF T, G, R
  <2> QED BY <1>1, <1>2, <1>5, <1>6, <2>5, <2>6, <2>7 DEF PortStep, start
<1>8. upTo = Round(upTo) BY <1>7, Zenon
<1> HIDE DEF upTo, R, G
<1>9. upTo[0] = start
  <2>1. 0 \in 0 .. Len(segments) OBVIOUS
  <2>2. upTo[0] = Round(upTo)[0] BY <1>8
  <2> QED BY <2>1, <2>2
<1>10. ASSUME NEW k \in 1 .. n PROVE upTo[k] = PortStep(E, fits, k, upTo[k - 1])
  <2>1. k \in 0 .. Len(segments) /\ k # 0 BY <1>1
  <2>2. upTo[k] = Round(upTo)[k] BY <1>8
  <2> QED BY <2>1, <2>2, <1>2 DEF PortStep
<1> HIDE DEF start
<1>11. SoFar(E, P, fits, n, upTo[n])
  <2> DEFINE T == {k \in 0 .. n : SoFar(E, P, fits, k, upTo[k])}
  <2>1. 0 \in T BY <1>3, <1>9
  <2>2. ASSUME NEW k \in 1 .. n, k - 1 \in T PROVE k \in T
    <3>1. PICK j : j = k - 1 OBVIOUS
    <3>2. PICK r : r = upTo[j] OBVIOUS
    <3>3. SoFar(E, P, fits, j, r) BY <2>2, <3>1, <3>2
    <3>4. k \in Nat OBVIOUS
    <3>5. SoFar(E, P, fits, k, PortStep(E, fits, k, r)) BY <1>2, <3>1, <3>3, <3>4, StepSoFar
    <3> QED BY <3>1, <3>2, <3>5, <1>10
  <2>3. n \in 0 .. n OBVIOUS
  <2>4. n \in T
    <3> HIDE DEF T
    <3> QED BY <2>1, <2>2, <2>3, Climb
  <2> QED BY <2>4
<1>12. ~done.ok
  <2> SUFFICES ASSUME done.ok PROVE FALSE OBVIOUS
  <2>1. assignPorts(fits, P) = [s \in E |-> CHOOSE p \in P : done.matched[p] = s]
    BY <1>0, <1>2
  <2>2. DOMAIN assignPorts(fits, P) = E BY <2>1
  <2>3. DOMAIN <<>> = {} OBVIOUS
  <2> QED BY <2>2, <2>3
<1> QED BY <1>1, <1>11, <1>12 DEF SoFar

-----------------------------------------------------------------------------
(* Ports: the allocator's word                                             *)

\* What JobsAssumption says of the banks of the target.
BanksKnown ==
    \A d \in Domains :
        /\ target.banks[d].allocatable \in Seq(Nat)
        /\ target.banks[d].readPorts \in Nat /\ Len(target.banks[d].writePortSources) \in Nat

\* Segments of one bank share its registers and ports.
LEMMA BankFacts ==
    ASSUME SegmentsListed, BanksKnown
    PROVE  /\ Len(segments) \in Nat /\ DOMAIN segments = 1 .. Len(segments)
           /\ \A s \in DOMAIN segments :
                 /\ segments[s].tile \in Nat /\ segments[s].domain \in Domains
                 /\ Bank(s).allocatable \in Seq(Nat) /\ Bank(s).readPorts \in Nat
                 /\ Len(Bank(s).writePortSources) \in Nat
           /\ \A s, t \in DOMAIN segments : BankKey(s) = BankKey(t) => Bank(s) = Bank(t)
<1>1. Len(segments) \in Nat /\ DOMAIN segments = 1 .. Len(segments) BY DEF SegmentsListed
<1>2. ASSUME NEW s \in DOMAIN segments
      PROVE  segments[s].tile \in Nat /\ segments[s].domain \in Domains
  <2> DEFINE R == [edge : Nat, tile : Nat, domain : Domains, write : Int, read : Int,
                   origins : Seq(Nat)]
  <2>1. segments \in Seq(R) BY DEF SegmentsListed
  <2>2. \A r \in R : r.tile \in Nat /\ r.domain \in Domains OBVIOUS
  <2> HIDE DEF R
  <2>3. segments[s] \in R BY <1>1, <1>2, <2>1
  <2> QED BY <2>2, <2>3
<1>3. ASSUME NEW s \in DOMAIN segments, NEW t \in DOMAIN segments, BankKey(s) = BankKey(t)
      PROVE  Bank(s) = Bank(t)
  BY <1>3 DEF BankKey, Bank
<1> QED BY <1>1, <1>2, <1>3 DEF BanksKnown, Bank

\* NoPorts, of a table of ports.
NoChoice(E, fits) ==
    \A f \in [E -> UNION {fits[s] : s \in E}] :
        \/ \E s \in E : f[s] \notin fits[s]
        \/ \E s, t \in E : s # t /\ f[s] = f[t]

LEMMA CrowdedNoChoice ==
    ASSUME NEW E, NEW fits, Crowded(E, fits)
    PROVE  NoChoice(E, fits)
BY DEF Crowded, NoChoice

\* More events than ports.
LEMMA CrowdedByNumber ==
    ASSUME NEW E, NEW W \in SUBSET E, IsFiniteSet(W), NEW n \in Nat, n < Cardinality(W),
           NEW fits, \A e \in W : fits[e] \subseteq 0 .. n - 1
    PROVE  Crowded(E, fits)
<1> SUFFICES ASSUME NEW f, \A e \in E : f[e] \in fits[e]
             PROVE  \E d, e \in E : d # e /\ f[d] = f[e]
  BY DEF Crowded
<1> DEFINE P == 0 .. n - 1
           g == [e \in W |-> f[e]]
<1>1. IsFiniteSet(P) /\ Cardinality(P) = n
  <2>1. 0 \in Int /\ n - 1 \in Int OBVIOUS
  <2>2. IsFiniteSet(P) /\ Cardinality(P) = IF 0 > n - 1 THEN 0 ELSE (n - 1) - 0 + 1
    BY <2>1, FS_Interval
  <2> QED BY <2>2
<1>2. g \in [W -> P] OBVIOUS
<1> HIDE DEF g, P
<1>3. PICK d, e \in W : d # e /\ g[d] = g[e] BY <1>1, <1>2, FS_PigeonHole
<1> QED BY <1>3 DEF g

LEMMA FirstPorts ==
    ASSUME NEW n \in Nat
    PROVE  (0 .. n - 1) \in SUBSET Nat /\ IsFiniteSet(0 .. n - 1)
<1>1. 0 \in Int /\ n - 1 \in Int OBVIOUS
<1>2. IsFiniteSet(0 .. n - 1) BY <1>1, FS_Interval
<1> QED BY <1>2

\* More reads in a slot than the bank has ports.
LEMMA ReadersCrowd ==
    ASSUME SegmentsListed, BanksKnown, NEW s \in DOMAIN segments, TooManyReads(s)
    PROVE  NoPorts(ReadsIn(s, Len(segments)), LAMBDA t : 0 .. Bank(t).readPorts - 1)
<1> DEFINE E == ReadsIn(s, Len(segments))
           W == ReadsIn(s, s)
           fits == [t \in E |-> 0 .. Bank(t).readPorts - 1]
           n == Bank(s).readPorts
<1>1. Len(segments) \in Nat /\ s \in 1 .. Len(segments) /\ n \in Nat BY BankFacts
<1>2. W \in SUBSET E /\ W \in SUBSET (1 .. s) BY <1>1 DEF ReadsIn
<1>3. IsFiniteSet(W)
  <2>1. IsFiniteSet(1 .. s) BY <1>1, FS_Interval
  <2> QED BY <1>2, <2>1, FS_Subset
<1>4. n < Cardinality(W)
  <2>1. Cardinality(W) \in Nat BY <1>3, FS_CardinalityType
  <2> QED BY <1>1, <2>1 DEF TooManyReads
<1>5. \A e \in W : fits[e] \subseteq 0 .. n - 1
  <2> TAKE e \in W
  <2>1. e \in DOMAIN segments /\ BankKey(e) = BankKey(s) BY <1>1, <1>2, BankFacts DEF ReadsIn
  <2>2. Bank(e) = Bank(s) BY <2>1, BankFacts
  <2>3. e \in E BY <1>2
  <2> HIDE DEF E, W
  <2> QED BY <2>2, <2>3
<1> HIDE DEF E, W, n, fits
<1>6. NoChoice(E, fits) BY <1>1, <1>2, <1>3, <1>4, <1>5, CrowdedByNumber, CrowdedNoChoice
<1>7. \A t \in E : fits[t] = 0 .. Bank(t).readPorts - 1 BY DEF fits
<1>8. NoPorts(E, LAMBDA t : 0 .. Bank(t).readPorts - 1) BY <1>6, <1>7 DEF NoPorts, NoChoice
<1> QED BY <1>8 DEF E

\* The same of what is written, through the ports that accept the source.
LEMMA WritersCrowd ==
    ASSUME SegmentsListed, BanksKnown, NEW s \in DOMAIN segments, TooManyWrites(s)
    PROVE  NoPorts(WritesIn(s, Len(segments)),
                   LAMBDA t : AcceptingPorts(t, storageWriteSource(t)))
<1> DEFINE E == WritesIn(s, Len(segments))
           W == WritesIn(s, s)
           fits == [t \in E |-> AcceptingPorts(t, storageWriteSource(t))]
           n == Len(Bank(s).writePortSources)
<1>1. Len(segments) \in Nat /\ s \in 1 .. Len(segments) /\ n \in Nat BY BankFacts
<1>2. W \in SUBSET E /\ W \in SUBSET (1 .. s) BY <1>1 DEF WritesIn
<1>3. IsFiniteSet(W)
  <2>1. IsFiniteSet(1 .. s) BY <1>1, FS_Interval
  <2> QED BY <1>2, <2>1, FS_Subset
<1>4. n < Cardinality(W)
  <2>1. Cardinality(W) \in Nat BY <1>3, FS_CardinalityType
  <2> QED BY <1>1, <2>1 DEF TooManyWrites
<1>5. \A e \in W : fits[e] \subseteq 0 .. n - 1
  <2> TAKE e \in W
  <2>1. e \in DOMAIN segments /\ BankKey(e) = BankKey(s) BY <1>1, <1>2, BankFacts DEF WritesIn
  <2>2. Bank(e) = Bank(s) BY <2>1, BankFacts
  <2>3. e \in E BY <1>2
  <2> HIDE DEF E, W
  <2>4. fits[e] \subseteq PortsOf(Bank(s)) BY <2>2, <2>3 DEF AcceptingPorts
  <2> QED BY <2>4 DEF PortsOf
<1> HIDE DEF E, W, n, fits
<1>6. NoChoice(E, fits) BY <1>1, <1>2, <1>3, <1>4, <1>5, CrowdedByNumber, CrowdedNoChoice
<1>7. \A t \in E : fits[t] = AcceptingPorts(t, storageWriteSource(t)) BY DEF fits
<1>8. NoPorts(E, LAMBDA t : AcceptingPorts(t, storageWriteSource(t)))
  BY <1>6, <1>7 DEF NoPorts, NoChoice
<1> QED BY <1>8 DEF E

\* Ports that a matching did not find do not exist.
LEMMA ReadersUnmatched ==
    ASSUME SegmentsListed, BanksKnown, NEW s \in DOMAIN segments, ReadPorts(s) = <<>>
    PROVE  NoPorts(ReadsIn(s, Len(segments)), LAMBDA t : 0 .. Bank(t).readPorts - 1)
<1> DEFINE E == ReadsIn(s, Len(segments))
           fits == [t \in E |-> 0 .. Bank(t).readPorts - 1]
           P == 0 .. Bank(s).readPorts - 1
<1>1. Len(segments) \in Nat /\ s \in 1 .. Len(segments) /\ Bank(s).readPorts \in Nat
  BY BankFacts
<1>2. E \in SUBSET (1 .. Len(segments)) /\ s \in E BY <1>1 DEF ReadsIn
<1>3. P \in SUBSET Nat /\ IsFiniteSet(P) BY <1>1, FirstPorts
<1>4. fits \in [E -> SUBSET P]
  <2> SUFFICES ASSUME NEW e \in E PROVE 0 .. Bank(e).readPorts - 1 \in SUBSET P OBVIOUS
  <2>1. e \in DOMAIN segments /\ BankKey(e) = BankKey(s) BY <1>2, BankFacts DEF ReadsIn
  <2>2. Bank(e) = Bank(s) BY <2>1, BankFacts
  <2> QED BY <2>2
<1>5. assignPorts(fits, P) = <<>> BY DEF ReadPorts
<1> HIDE DEF E, P, fits
<1>6. NoChoice(E, fits) BY <1>1, <1>2, <1>3, <1>4, <1>5, AssignmentFails, CrowdedNoChoice
<1>7. \A t \in E : fits[t] = 0 .. Bank(t).readPorts - 1 BY DEF fits
<1>8. NoPorts(E, LAMBDA t : 0 .. Bank(t).readPorts - 1) BY <1>6, <1>7 DEF NoPorts, NoChoice
<1> QED BY <1>8 DEF E

\* The same of what is written.
LEMMA WritersUnmatched ==
    ASSUME SegmentsListed, BanksKnown, NEW s \in DOMAIN segments, WritePorts(s) = <<>>
    PROVE  NoPorts(WritesIn(s, Len(segments)),
                   LAMBDA t : AcceptingPorts(t, storageWriteSource(t)))
<1> DEFINE E == WritesIn(s, Len(segments))
           fits == [t \in E |-> AcceptingPorts(t, storageWriteSource(t))]
           P == PortsOf(Bank(s))
<1>1. Len(segments) \in Nat /\ s \in 1 .. Len(segments)
      /\ Len(Bank(s).writePortSources) \in Nat
  BY BankFacts
<1>2. E \in SUBSET (1 .. Len(segments)) /\ s \in E BY <1>1 DEF WritesIn
<1>3. P \in SUBSET Nat /\ IsFiniteSet(P) BY <1>1, FirstPorts DEF PortsOf
<1>4. fits \in [E -> SUBSET P]
  <2> SUFFICES ASSUME NEW e \in E PROVE AcceptingPorts(e, storageWriteSource(e)) \in SUBSET P
    OBVIOUS
  <2>1. e \in DOMAIN segments /\ BankKey(e) = BankKey(s) BY <1>2, BankFacts DEF WritesIn
  <2>2. Bank(e) = Bank(s) BY <2>1, BankFacts
  <2> QED BY <2>2 DEF AcceptingPorts
<1>5. assignPorts(fits, P) = <<>> BY DEF WritePorts
<1> HIDE DEF E, P, fits
<1>6. NoChoice(E, fits) BY <1>1, <1>2, <1>3, <1>4, <1>5, AssignmentFails, CrowdedNoChoice
<1>7. \A t \in E : fits[t] = AcceptingPorts(t, storageWriteSource(t)) BY DEF fits
<1>8. NoPorts(E, LAMBDA t : AcceptingPorts(t, storageWriteSource(t)))
  BY <1>6, <1>7 DEF NoPorts, NoChoice
<1> QED BY <1>8 DEF E

BoundaryEvents(s) ==
    {t \in DOMAIN segments : HasBoundary(t) /\ BankKey(t) = BankKey(s)
                             /\ BoundarySlot(t) = BoundarySlot(s)}

\* And of the values of iterations before the first.
LEMMA BoundariesUnmatched ==
    ASSUME SegmentsListed, BanksKnown, NEW s \in DOMAIN segments, HasBoundary(s),
           BoundaryPorts(s) = <<>>
    PROVE  NoPorts(BoundaryEvents(s), LAMBDA t : AcceptingPorts(t, boundaryWriteSource(t)))
<1> DEFINE E == BoundaryEvents(s)
           fits == [t \in E |-> AcceptingPorts(t, boundaryWriteSource(t))]
           P == PortsOf(Bank(s))
<1>1. Len(segments) \in Nat /\ s \in 1 .. Len(segments)
      /\ Len(Bank(s).writePortSources) \in Nat /\ DOMAIN segments = 1 .. Len(segments)
  BY BankFacts
<1>2. E \in SUBSET (1 .. Len(segments)) /\ s \in E BY <1>1 DEF BoundaryEvents
<1>3. P \in SUBSET Nat /\ IsFiniteSet(P) BY <1>1, FirstPorts DEF PortsOf
<1>4. fits \in [E -> SUBSET P]
  <2> SUFFICES ASSUME NEW e \in E PROVE AcceptingPorts(e, boundaryWriteSource(e)) \in SUBSET P
    OBVIOUS
  <2>1. e \in DOMAIN segments /\ BankKey(e) = BankKey(s) BY DEF BoundaryEvents
  <2>2. Bank(e) = Bank(s) BY <2>1, BankFacts
  <2> QED BY <2>2 DEF AcceptingPorts
<1>5. assignPorts(fits, P) = <<>> BY DEF BoundaryPorts, BoundaryEvents
<1> HIDE DEF E, P, fits
<1>6. NoChoice(E, fits) BY <1>1, <1>2, <1>3, <1>4, <1>5, AssignmentFails, CrowdedNoChoice
<1>7. \A t \in E : fits[t] = AcceptingPorts(t, boundaryWriteSource(t)) BY DEF fits
<1>8. NoPorts(E, LAMBDA t : AcceptingPorts(t, boundaryWriteSource(t)))
  BY <1>6, <1>7 DEF NoPorts, NoChoice
<1> QED BY <1>8 DEF E

-----------------------------------------------------------------------------
(* Lifetimes: a conflict is real                                           *)

\* What StorageStatus and DemandStatus have checked of the lifetimes.
Kept(s) ==
    /\ segments[s].write \in 0 .. MaxTime /\ segments[s].read \in 0 .. MaxTime
    /\ segments[s].write < segments[s].read
LifetimesKept == ii \in Nat \ {0} /\ \A s \in DOMAIN segments : Kept(s)

\* The iterations that Clash looks at reach an interval beyond every read.
LEMMA UnrolledReaches ==
    ASSUME LifetimesKept, NEW s \in DOMAIN segments, NEW k \in Nat,
           k =< 1 + segments[s].write \div ii
    PROVE  k \in Unrolled
<1> DEFINE p == ii
           w == segments[s].write
           T == {0} \cup {Duration(segments[t]) + segments[t].write : t \in DOMAIN segments}
<1>1. p \in Nat \ {0} /\ w \in Nat /\ MaxTime \in Nat
  BY TimeAssumption DEF LifetimesKept, Kept
<1>2. \A t \in DOMAIN segments : /\ Duration(segments[t]) + segments[t].write \in 0 .. MaxTime
                                  /\ segments[t].write =< Duration(segments[t]) + segments[t].write
  BY <1>1 DEF LifetimesKept, Kept, Duration
<1>3. T \in SUBSET Nat /\ T # {} /\ \A y \in T : y =< MaxTime BY <1>1, <1>2
<1>4. Duration(segments[s]) + segments[s].write \in T OBVIOUS
<1>5. w =< Duration(segments[s]) + segments[s].write BY <1>2
<1> HIDE DEF T
<1>6. Max(T) \in Nat /\ w =< Max(T)
  <2>1. Max(T) \in T /\ \A y \in T : y =< Max(T) BY <1>1, <1>3, MaxIsMember
  <2>2. PICK x : x = Duration(segments[s]) + segments[s].write OBVIOUS
  <2>3. x \in T /\ w =< x BY <1>4, <1>5, <2>2
  <2>4. PICK m \in Nat : m = Max(T) BY <1>3, <2>1
  <2>5. x \in Nat /\ x =< m BY <1>3, <2>1, <2>3, <2>4
  <2> HIDE DEF w
  <2>6. w =< m BY <1>1, <2>3, <2>5
  <2> QED BY <2>4, <2>6
<1>7. PICK m \in Nat : m = Max(T) BY <1>6
<1>8. w \div p =< m \div p /\ m \div p \in Int /\ w \div p \in Int
  <2>1. w \in Int /\ m \in Int /\ w =< m BY <1>1, <1>6, <1>7
  <2> HIDE DEF w, p
  <2> QED BY <1>1, <2>1, DivMonotone
<1>9. k \in 0 .. 1 + m \div p BY <1>8
<1> QED BY <1>7, <1>9 DEF Unrolled, T

\* How many iterations later something of the slot of v happens d after w.
TurnsLater(p, w, v, d, k) ==
    v + k * p = w + d /\ k =< 1 + w \div p /\ -k =< 1 + v \div p

Shifted(p, w, v, h, d) == d = (h * p + (v % p)) - (w % p)

\* A distance modulo the interval is one between two iterations.
LEMMA ShiftTurns ==
    ASSUME NEW p \in Nat \ {0}, NEW w \in Nat, NEW v \in Nat, NEW h \in {-1, 0, 1},
           NEW d \in Nat, Shifted(p, w, v, h, d)
    PROVE  \E k \in Int : TurnsLater(p, w, v, d, k)
<1> DEFINE a == w % p
           b == v % p
           m == w \div p
           n == v \div p
           k == h - (n - m)
<1>0. w \in Int /\ v \in Int OBVIOUS
<1>1. /\ w = p * m + a /\ m \in Int /\ a \in Int
      /\ v = p * n + b /\ n \in Int /\ b \in Int
  BY <1>0, DivMod
<1>2. 0 =< m /\ 0 =< n
  <2>1. 0 \div p = 0 OBVIOUS
  <2>2. 0 \in Int /\ 0 =< w /\ 0 =< v OBVIOUS
  <2>3. 0 \div p =< m /\ 0 \div p =< n BY <1>0, <2>2, DivMonotone
  <2> HIDE DEF m, n
  <2> QED BY <2>1, <2>3
<1>3. d = (h * p + b) - a BY DEF Shifted
<1> HIDE DEF a, b, m, n
<1>4. k \in Int /\ k =< 1 + m /\ -k =< 1 + n BY <1>1, <1>2
<1>5. k * p = h * p - (p * n - p * m) BY <1>1
<1> DEFINE x == h * p
           y == p * n
           z == p * m
           u == k * p
<1>6. x \in Int /\ y \in Int /\ z \in Int /\ u \in Int BY <1>1, <1>4
<1>7. u = x - (y - z) /\ w = z + a /\ v = y + b /\ d = (x + b) - a BY <1>1, <1>3, <1>5
<1>8. a \in Int /\ b \in Int BY <1>1
<1> HIDE DEF x, y, z, u, k
<1>9. v + u = w + d BY <1>6, <1>7, <1>8
<1>10. v + k * p = w + d BY <1>9 DEF u
<1> QED BY <1>4, <1>10 DEF TurnsLater, m, n

\* A segment written as far behind another as the conflict test has it, modulo
\* the interval and moved by one interval at most, destroys its value.
LEMMA ShiftClashes ==
    ASSUME LifetimesKept, NEW s \in DOMAIN segments, NEW t \in DOMAIN segments, s # t,
           NEW h \in {-1, 0, 1}, NEW d \in Nat,
           d = (h * ii + (segments[t].write % ii)) - (segments[s].write % ii),
           \/ d < Duration(segments[s])
           \/ d = Duration(segments[s]) /\ ~target.reuse
    PROVE  Clash(s, t)
<1>1. PICK p \in Nat \ {0}, w \in Nat, r \in Nat, v \in Nat :
         p = ii /\ w = segments[s].write /\ r = segments[s].read /\ v = segments[t].write
  <2>1. /\ ii \in Nat \ {0} /\ segments[s].write \in Nat
        /\ segments[s].read \in Nat /\ segments[t].write \in Nat
    BY TimeAssumption DEF LifetimesKept, Kept
  <2> QED BY <2>1
<1>2. Shifted(p, w, v, h, d) BY <1>1 DEF Shifted
<1>3. d < r - w \/ (d = r - w /\ ~target.reuse) BY <1>1 DEF Duration
<1>4. PICK k \in Int : TurnsLater(p, w, v, d, k) BY <1>2, ShiftTurns
<1>5. v + k * p = w + d /\ k =< 1 + w \div p /\ -k =< 1 + v \div p BY <1>4 DEF TurnsLater
<1>6. w \div p \in Int /\ v \div p \in Int /\ 0 =< w \div p /\ 0 =< v \div p
  <2>1. 0 \div p = 0 OBVIOUS
  <2>2. /\ 0 \div p =< w \div p /\ 0 \div p =< v \div p
        /\ w \div p \in Int /\ v \div p \in Int
    BY DivMonotone
  <2> QED BY <2>1, <2>2
<1>7. PICK x \in Int, y \in Int : x = w \div p /\ y = v \div p BY <1>6
<1>8. \A i \in Nat : i =< 1 + x \/ i =< 1 + y => i \in Unrolled
  BY <1>1, <1>7, UnrolledReaches
<1>9. 0 \in Unrolled BY <1>6, <1>7, <1>8
<1>10. CASE 0 =< k
  <2>1. k \in Nat /\ k =< 1 + x BY <1>5, <1>7, <1>10
  <2>2. k \in Unrolled BY <1>8, <2>1
  <2>3. Destroys(w + 0 * p, r + 0 * p, v + k * p)
    <3>1. Destroys(w, r, w + d) BY <1>3 DEF Destroys
    <3>2. w + 0 * p = w /\ r + 0 * p = r OBVIOUS
    <3> QED BY <1>5, <3>1, <3>2
  <2> QED BY <1>1, <1>9, <2>2, <2>3 DEF Clash
<1>11. CASE k < 0
  <2>1. PICK i \in Nat : i = -k BY <1>11
  <2>2. i =< 1 + y BY <1>5, <1>7, <2>1
  <2>3. i \in Unrolled BY <1>8, <2>2
  <2>4. Destroys(w + i * p, r + i * p, v + 0 * p)
    <3>1. v + 0 * p = v OBVIOUS
    <3>2. PICK z \in Int : z = k * p OBVIOUS
    <3>3. i * p = -z BY <2>1, <3>2
    <3>4. v + z = w + d BY <1>5, <3>2
    <3>5. Destroys(w - z, r - z, v) BY <1>3, <3>4 DEF Destroys
    <3>6. w + i * p = w - z /\ r + i * p = r - z BY <3>3
    <3> QED BY <3>1, <3>5, <3>6
  <2> QED BY <1>1, <1>9, <2>3, <2>4 DEF Clash
<1> QED BY <1>10, <1>11

\* periodicLifetimesConflict turns nothing down that could share a register.
LEMMA ConflictIsClash ==
    ASSUME LifetimesKept, NEW s \in DOMAIN segments, NEW t \in DOMAIN segments,
           Conflict(s, t), ~fixedRegisterSelfOverlaps(segments[s]),
           ~fixedRegisterSelfOverlaps(segments[t])
    PROVE  Clash(s, t) \/ Clash(t, s)
<1> DEFINE p == ii
           w == segments[s].write
           v == segments[t].write
           a == w % p
           b == v % p
           x == Duration(segments[s])
           y == Duration(segments[t])
<1>1. p \in Nat \ {0} /\ w \in Nat /\ v \in Nat /\ x \in Int /\ y \in Int
  BY TimeAssumption DEF LifetimesKept, Kept, Duration
<1>2. PICK shift \in {-p, 0, p} : intervalsConflict(a, a + x, shift + b, shift + b + y)
  BY DEF Conflict, periodicLifetimesConflict, fixedRegisterSelfOverlaps
<1>3. s # t BY DEF Conflict
<1>4. a \in Int /\ b \in Int
  <2> HIDE DEF p, w, v
  <2> QED BY <1>1, DivMod
<1>5. PICK h \in {-1, 0, 1} : shift = h * p /\ -shift = (-h) * p BY <1>1
<1>6. shift \in Int BY <1>1, <1>5
<1>7. CASE a =< shift + b
  <2>1. PICK d \in Nat : d = (shift + b) - a BY <1>4, <1>6, <1>7
  <2>2. d < x \/ (d = x /\ ~target.reuse)
    <3> HIDE DEF a, b, x, y, p
    <3> QED BY <1>1, <1>2, <1>4, <1>6, <1>7, <2>1 DEF intervalsConflict
  <2>3. d = (h * p + b) - a BY <1>5, <2>1
  <2> QED BY <1>3, <2>2, <2>3, ShiftClashes
<1>8. CASE shift + b < a
  <2>1. PICK d \in Nat : d = (-shift + a) - b BY <1>4, <1>6, <1>8
  <2>2. d < y \/ (d = y /\ ~target.reuse)
    <3> HIDE DEF a, b, x, y, p
    <3> QED BY <1>1, <1>2, <1>4, <1>6, <1>8, <2>1 DEF intervalsConflict
  <2>3. d = ((-h) * p + a) - b BY <1>5, <2>1
  <2>4. PICK g \in {-1, 0, 1} : g = -h OBVIOUS
  <2>5. d = (g * p + a) - b BY <2>3, <2>4
  <2> QED BY <1>3, <2>2, <2>5, ShiftClashes
<1> QED BY <1>4, <1>6, <1>7, <1>8

\* fixedRegisterSelfOverlaps turns nothing down that could stay in a register.
LEMMA SelfOverlapIsClash ==
    ASSUME LifetimesKept, NEW s \in DOMAIN segments, fixedRegisterSelfOverlaps(segments[s])
    PROVE  Clash(s, s)
<1> DEFINE p == ii
           w == segments[s].write
           r == segments[s].read
<1>1. p \in Nat \ {0} /\ w \in Nat /\ r \in Nat /\ w < r
  BY TimeAssumption DEF LifetimesKept, Kept
<1>2. r - w > p \/ (r - w = p /\ ~target.reuse)
  BY <1>1 DEF fixedRegisterSelfOverlaps, NoLifetime, Duration
<1>3. 0 =< w \div p /\ w \div p \in Int
  <2> HIDE DEF p, w, r
  <2>1. 0 \div p = 0 BY <1>1
  <2>2. 0 \div p =< w \div p /\ w \div p \in Int BY <1>1, DivMonotone
  <2> QED BY <2>1, <2>2
<1>4. 0 \in Unrolled /\ 1 \in Unrolled
  <2>1. 0 =< 1 + w \div p /\ 1 =< 1 + w \div p
    <3> HIDE DEF p, w
    <3> QED BY <1>3
  <2> QED BY <2>1, UnrolledReaches
<1>5. Destroys(w + 0 * p, r + 0 * p, w + 1 * p)
  <2>1. w + 0 * p = w /\ r + 0 * p = r /\ w + 1 * p = w + p BY <1>1
  <2>2. Destroys(w, r, w + p) BY <1>1, <1>2 DEF Destroys
  <2> QED BY <2>1, <2>2
<1>6. <<s, 0>> # <<s, 1>> OBVIOUS
<1> QED BY <1>4, <1>5, <1>6 DEF Clash

-----------------------------------------------------------------------------
(* Colouring: the exact search                                             *)

\* A bank's segments M, their registers R and the pairs C that conflict.
Bench(M, R, C) == R \in [M -> Seq(Nat)] /\ C \in SUBSET (M \X M)

Colourings(M, R, C) ==
    {f \in [M -> UNION {Range(R[s]) : s \in M}] :
        /\ \A s \in M : f[s] \in Range(R[s])
        /\ \A s, t \in M : <<s, t>> \in C => f[s] # f[t]}

\* f has the colours of the activations below the k-th.
Agrees(f, col, tr, k) == \A m \in 1 .. k - 1 : f[tr[m].vertex] = col[tr[m].vertex]

\* The k-th activation has not passed over the register that f has.
StillAhead(R, f, col, tr, k) ==
    \E i \in DOMAIN R[tr[k].vertex] :
        /\ R[tr[k].vertex][i] = f[tr[k].vertex]
        /\ i > tr[k].tried \/ (i = tr[k].tried /\ col[tr[k].vertex] # None)

Painted(R, col, tr, k) ==
    /\ tr[k].tried \in DOMAIN R[tr[k].vertex]
    /\ col[tr[k].vertex] = R[tr[k].vertex][tr[k].tried]

\* The activations of colorExact: the coloured segments of the bank are those
\* of the activations, in different ones, and no legal colouring that agrees
\* with the activations below one has been passed over by it.
Backtracking(M, R, C, col, tr) ==
    /\ tr \in Seq([vertex : M, tried : Nat])
    /\ \A k, m \in DOMAIN tr : tr[k].vertex = tr[m].vertex => k = m
    /\ \A k \in DOMAIN tr : \/ Painted(R, col, tr, k)
                            \/ k = Len(tr) /\ col[tr[k].vertex] = None
    /\ \A s \in M : col[s] # None => \E k \in DOMAIN tr : tr[k].vertex = s
    /\ \A f \in Colourings(M, R, C) : \A k \in DOMAIN tr :
          Agrees(f, col, tr, k) => StillAhead(R, f, col, tr, k)

\* The registers no neighbour has.
OpenTo(M, R, C, col, v) ==
    {i \in DOMAIN R[v] : \A t \in M : <<v, t>> \in C => col[t] # R[v][i]}

\* A sequence of activations, element by element.
LEMMA TrailTyped ==
    ASSUME NEW M, NEW tr \in Seq([vertex : M, tried : Nat])
    PROVE  /\ Len(tr) \in Nat /\ DOMAIN tr = 1 .. Len(tr)
           /\ \A k \in DOMAIN tr : tr[k].vertex \in M /\ tr[k].tried \in Nat
           /\ tr # <<>> => Len(tr) \in DOMAIN tr
<1> DEFINE F == [vertex : M, tried : Nat]
<1>1. tr \in Seq(F) /\ \A x \in F : x.vertex \in M /\ x.tried \in Nat OBVIOUS
<1> HIDE DEF F
<1>2. Len(tr) \in Nat /\ DOMAIN tr = 1 .. Len(tr) /\ (tr # <<>> => Len(tr) \in DOMAIN tr)
  BY <1>1
<1>3. \A k \in DOMAIN tr : tr[k] \in F BY <1>1
<1> QED BY <1>1, <1>2, <1>3

LEMMA BenchRegisters ==
    ASSUME NEW M, NEW R, NEW C, Bench(M, R, C), NEW v \in M
    PROVE  R[v] \in Seq(Nat)
BY DEF Bench

\* Every legal colouring that agrees with the activations below the last one
\* gives its segment a register it may still try.
LEMMA TopHasIt ==
    ASSUME NEW M, NEW R, NEW C, Bench(M, R, C), NEW col, NEW tr,
           Backtracking(M, R, C, col, tr), tr # <<>>,
           NEW n, n = Len(tr), NEW v, v = tr[n].vertex, col[v] = None,
           NEW f \in Colourings(M, R, C), Agrees(f, col, tr, n)
    PROVE  \E i \in OpenTo(M, R, C, col, v) : i > tr[n].tried /\ R[v][i] = f[v]
<1>0. tr \in Seq([vertex : M, tried : Nat]) BY DEF Backtracking
<1>1. n \in Nat /\ n \in DOMAIN tr /\ DOMAIN tr = 1 .. n BY <1>0, TrailTyped
<1>2. v \in M BY <1>0, <1>1, TrailTyped
<1>3. PICK i \in DOMAIN R[v] : R[v][i] = f[v] /\ i > tr[n].tried
  <2>1. StillAhead(R, f, col, tr, n) BY <1>1 DEF Backtracking
  <2> QED BY <2>1 DEF StillAhead
<1>4. R[v][i] \in Nat
  <2>1. R[v] \in Seq(Nat) BY <1>2, BenchRegisters
  <2> QED BY <2>1
<1>5. ASSUME NEW t \in M, <<v, t>> \in C PROVE col[t] # R[v][i]
  <2>1. CASE col[t] = None BY <1>4, <2>1 DEF None
  <2>2. CASE col[t] # None
    <3>1. PICK k \in DOMAIN tr : tr[k].vertex = t BY <2>2 DEF Backtracking
    <3>2. k # n BY <2>2, <3>1
    <3>3. k \in 1 .. n - 1 BY <1>1, <3>1, <3>2
    <3>4. f[t] = col[t] BY <3>1, <3>3 DEF Agrees
    <3>5. f[v] # f[t] BY <1>2, <1>5 DEF Colourings
    <3> QED BY <1>3, <3>4, <3>5
  <2> QED BY <2>1, <2>2
<1>6. i \in OpenTo(M, R, C, col, v) BY <1>3, <1>5 DEF OpenTo
<1> QED BY <1>3, <1>6

\* A new activation has everything ahead of it.
LEMMA SearchPushes ==
    ASSUME NEW M, NEW R, NEW C, Bench(M, R, C), NEW col, NEW tr,
           Backtracking(M, R, C, col, tr),
           tr # <<>> => col[tr[Len(tr)].vertex] # None,
           NEW v \in M, col[v] = None,
           NEW new, new = Append(tr, [vertex |-> v, tried |-> 0])
    PROVE  Backtracking(M, R, C, col, new)
<1>1. PICK n \in Nat : n = Len(tr) /\ DOMAIN tr = 1 .. n
  <2>1. tr \in Seq([vertex : M, tried : Nat]) BY DEF Backtracking
  <2> QED BY <2>1
<1>2. /\ new \in Seq([vertex : M, tried : Nat]) /\ Len(new) = n + 1 /\ DOMAIN new = 1 .. n + 1
      /\ \A k \in 1 .. n : new[k] = tr[k]
      /\ new[n + 1] = [vertex |-> v, tried |-> 0]
  <2>1. tr \in Seq([vertex : M, tried : Nat]) BY DEF Backtracking
  <2>2. [vertex |-> v, tried |-> 0] \in [vertex : M, tried : Nat] OBVIOUS
  <2> DEFINE F == [vertex : M, tried : Nat]
             e == [vertex |-> v, tried |-> 0]
  <2> HIDE DEF F, e
  <2> QED BY <1>1, <2>1, <2>2 DEF F, e
<1>3. new[n + 1].vertex = v /\ new[n + 1].tried = 0 BY <1>2
<1>4. ASSUME NEW k \in 1 .. n PROVE Painted(R, col, tr, k) /\ col[tr[k].vertex] # None
  <2>1. \/ Painted(R, col, tr, k)
        \/ k = n /\ col[tr[k].vertex] = None
    BY <1>1 DEF Backtracking
  <2>2. k = n => col[tr[k].vertex] # None
    <3>1. tr # <<>> BY <1>1
    <3> QED BY <1>1, <3>1
  <2>3. Painted(R, col, tr, k) BY <2>1, <2>2
  <2>4. tr[k].vertex \in M
    <3>1. tr \in Seq([vertex : M, tried : Nat]) BY DEF Backtracking
    <3> QED BY <1>1, <3>1, TrailTyped
  <2>5. col[tr[k].vertex] \in Nat
    <3>1. R[tr[k].vertex] \in Seq(Nat) BY <2>4, BenchRegisters
    <3>2. PICK r, j : r = R[tr[k].vertex] /\ j = tr[k].tried OBVIOUS
    <3>3. j \in DOMAIN r /\ r[j] = col[tr[k].vertex] BY <2>3, <3>2 DEF Painted
    <3>4. r \in Seq(Nat) BY <3>1, <3>2
    <3>5. r[j] \in Nat BY <3>3, <3>4
    <3> QED BY <3>3, <3>5
  <2> QED BY <2>3, <2>5 DEF None
<1>5. \A k \in DOMAIN new : k \in 1 .. n \/ k = n + 1 BY <1>2
<1>6. \A k, m \in DOMAIN new : new[k].vertex = new[m].vertex => k = m
  <2>1. \A k, m \in 1 .. n : tr[k].vertex = tr[m].vertex => k = m BY <1>1 DEF Backtracking
  <2>2. \A k \in 1 .. n : new[k].vertex # v BY <1>2, <1>4
  <2> QED BY <1>2, <1>3, <1>5, <2>1, <2>2
<1>7. \A k \in DOMAIN new : \/ Painted(R, col, new, k)
                            \/ k = Len(new) /\ col[new[k].vertex] = None
  <2> TAKE k \in DOMAIN new
  <2>1. CASE k \in 1 .. n BY <1>2, <1>4, <2>1 DEF Painted
  <2>2. CASE k = n + 1 BY <1>2, <1>3, <2>2
  <2> QED BY <1>5, <2>1, <2>2
<1>8. \A s \in M : col[s] # None => \E k \in DOMAIN new : new[k].vertex = s
  <2> SUFFICES ASSUME NEW s \in M, col[s] # None PROVE \E k \in DOMAIN new : new[k].vertex = s
    OBVIOUS
  <2>1. PICK k \in 1 .. n : tr[k].vertex = s BY <1>1 DEF Backtracking
  <2>2. k \in DOMAIN new /\ new[k].vertex = s BY <1>2, <2>1
  <2> QED BY <2>2
<1>9. ASSUME NEW f \in Colourings(M, R, C), NEW k \in DOMAIN new, Agrees(f, col, new, k)
      PROVE  StillAhead(R, f, col, new, k)
  <2>1. CASE k \in 1 .. n
    <3>1. \A m \in 1 .. k - 1 : m \in 1 .. n BY <2>1
    <3>2. Agrees(f, col, tr, k) BY <1>2, <1>9, <3>1 DEF Agrees
    <3>3. StillAhead(R, f, col, tr, k) BY <1>1, <2>1, <3>2 DEF Backtracking
    <3> QED BY <1>2, <2>1, <3>3 DEF StillAhead
  <2>2. CASE k = n + 1
    <3>1. f[v] \in Range(R[v]) BY DEF Colourings
    <3>2. PICK i \in DOMAIN R[v] : R[v][i] = f[v] BY <3>1 DEF Range
    <3>3. i > 0
      <4>1. R[v] \in Seq(Nat) BY DEF Bench
      <4> QED BY <4>1
    <3> QED BY <1>3, <2>2, <3>2, <3>3 DEF StillAhead
  <2> QED BY <1>5, <2>1, <2>2
<1> QED BY <1>2, <1>6, <1>7, <1>8, <1>9 DEF Backtracking

\* The next register that is free; those in between are not f's.
LEMMA SearchTries ==
    ASSUME NEW M, NEW R, NEW C, Bench(M, R, C), NEW col, NEW tr, M \subseteq DOMAIN col,
           Backtracking(M, R, C, col, tr), tr # <<>>,
           NEW n, n = Len(tr), NEW v, v = tr[n].vertex, col[v] = None,
           NEW i \in OpenTo(M, R, C, col, v), i > tr[n].tried,
           \A j \in OpenTo(M, R, C, col, v) : j > tr[n].tried => i =< j,
           NEW color, color = [col EXCEPT ![v] = R[v][i]],
           NEW new, new = [tr EXCEPT ![n].tried = i]
    PROVE  Backtracking(M, R, C, color, new)
<1>0. tr \in Seq([vertex : M, tried : Nat]) BY DEF Backtracking
<1>1. n \in Nat /\ n \in DOMAIN tr /\ DOMAIN tr = 1 .. n /\ v \in M BY <1>0, TrailTyped
<1>2. R[v] \in Seq(Nat) BY <1>1, BenchRegisters
<1>3. i \in DOMAIN R[v] BY DEF OpenTo
<1>4. R[v][i] \in Nat /\ i \in Nat BY <1>2, <1>3
<1>5. /\ DOMAIN new = 1 .. n
      /\ \A k \in 1 .. n : k # n => new[k] = tr[k]
      /\ new[n] = [tr[n] EXCEPT !.tried = i]
  BY <1>1
<1>6. /\ new \in Seq([vertex : M, tried : Nat]) /\ Len(new) = n
  <2> DEFINE F == [vertex : M, tried : Nat]
  <2>1. tr \in Seq(F) /\ (tr[n] \in F => [tr[n] EXCEPT !.tried = i] \in F) BY <1>0, <1>4
  <2> HIDE DEF F
  <2>2. tr[n] \in F BY <1>1, <2>1
  <2>3. PICK x \in F : x = [tr[n] EXCEPT !.tried = i] BY <2>1, <2>2
  <2>4. new = [tr EXCEPT ![n] = x] BY <2>3
  <2>5. new \in Seq(F) /\ Len(new) = n BY <1>1, <2>1, <2>4
  <2> QED BY <2>5 DEF F
<1>7. new[n].vertex = v /\ new[n].tried = i
  <2>1. tr[n] \in [vertex : M, tried : Nat]
    <3> DEFINE F == [vertex : M, tried : Nat]
    <3>1. tr \in Seq(F) BY <1>0
    <3> HIDE DEF F
    <3>2. tr[n] \in F BY <1>1, <3>1
    <3> QED BY <3>2 DEF F
  <2> QED BY <1>5, <2>1
<1>8. \A k \in 1 .. n : new[k].vertex = tr[k].vertex BY <1>5, <1>7
<1>9. color[v] = R[v][i] /\ color[v] # None /\ \A s \in M : s # v => color[s] = col[s]
  BY <1>1, <1>4 DEF None
<1>10. \A k \in 1 .. n : k # n => tr[k].vertex # v /\ tr[k].vertex \in M
  BY <1>0, <1>1, TrailTyped DEF Backtracking
<1>11. \A k, m \in DOMAIN new : new[k].vertex = new[m].vertex => k = m
  BY <1>1, <1>5, <1>8 DEF Backtracking
<1>12. \A k \in DOMAIN new : Painted(R, color, new, k)
  <2> TAKE k \in DOMAIN new
  <2>1. CASE k # n
    <3>1. Painted(R, col, tr, k) BY <1>1, <1>5, <2>1 DEF Backtracking
    <3>2. new[k] = tr[k] /\ color[tr[k].vertex] = col[tr[k].vertex]
      BY <1>5, <1>9, <1>10, <2>1
    <3> QED BY <3>1, <3>2 DEF Painted
  <2>2. CASE k = n BY <1>3, <1>7, <1>9, <2>2 DEF Painted
  <2> QED BY <2>1, <2>2
<1>13. \A s \in M : color[s] # None => \E k \in DOMAIN new : new[k].vertex = s
  <2> SUFFICES ASSUME NEW s \in M, color[s] # None
               PROVE  \E k \in DOMAIN new : new[k].vertex = s
    OBVIOUS
  <2>1. CASE s = v BY <1>1, <1>5, <1>7, <2>1
  <2>2. CASE s # v
    <3>1. PICK k \in DOMAIN tr : tr[k].vertex = s BY <1>9, <2>2 DEF Backtracking
    <3> QED BY <1>1, <1>5, <1>8, <3>1
  <2> QED BY <2>1, <2>2
<1>14. ASSUME NEW f \in Colourings(M, R, C), NEW k \in DOMAIN new, Agrees(f, color, new, k)
       PROVE  StillAhead(R, f, color, new, k)
  <2>1. k \in 1 .. n BY <1>5
  <2>2. Agrees(f, col, tr, k)
    <3> SUFFICES ASSUME NEW m \in 1 .. k - 1 PROVE f[tr[m].vertex] = col[tr[m].vertex]
      BY DEF Agrees
    <3>1. m \in 1 .. n /\ m # n BY <1>1, <2>1
    <3>2. new[m] = tr[m] BY <1>5, <3>1
    <3>3. color[tr[m].vertex] = col[tr[m].vertex] BY <1>9, <1>10, <3>1
    <3>4. f[new[m].vertex] = color[new[m].vertex] BY <1>14 DEF Agrees
    <3> QED BY <3>2, <3>3, <3>4
  <2>3. CASE k # n
    <3>1. StillAhead(R, f, col, tr, k) BY <1>1, <2>1, <2>2 DEF Backtracking
    <3>2. new[k] = tr[k] /\ color[tr[k].vertex] = col[tr[k].vertex]
      BY <1>5, <1>9, <1>10, <2>1, <2>3
    <3> QED BY <3>1, <3>2 DEF StillAhead
  <2>4. CASE k = n
    <3>1. Agrees(f, col, tr, n) BY <2>2, <2>4
    <3>2. PICK j \in OpenTo(M, R, C, col, v) : j > tr[n].tried /\ R[v][j] = f[v]
      BY <3>1, TopHasIt
    <3>3. i =< j BY <3>2
    <3>4. j \in DOMAIN R[v] BY <3>2 DEF OpenTo
    <3>5. j \in Nat BY <1>2, <3>4
    <3>6. j > i \/ j = i BY <1>4, <3>3, <3>5
    <3> QED BY <1>7, <1>9, <2>4, <3>2, <3>4, <3>6 DEF StillAhead
  <2> QED BY <2>3, <2>4
<1> QED BY <1>6, <1>11, <1>12, <1>13, <1>14 DEF Backtracking

\* An activation that has nothing left is not agreed with.
LEMMA NothingLeft ==
    ASSUME NEW M, NEW R, NEW C, Bench(M, R, C), NEW col, NEW tr,
           Backtracking(M, R, C, col, tr), tr # <<>>,
           NEW n, n = Len(tr), NEW v, v = tr[n].vertex, col[v] = None,
           \A i \in OpenTo(M, R, C, col, v) : ~(i > tr[n].tried),
           NEW f \in Colourings(M, R, C)
    PROVE  ~Agrees(f, col, tr, n)
BY TopHasIt

\* Its caller takes the colour back and goes on.
LEMMA SearchReturns ==
    ASSUME NEW M, NEW R, NEW C, Bench(M, R, C), NEW col, NEW tr, M \subseteq DOMAIN col,
           Backtracking(M, R, C, col, tr), tr # <<>>,
           NEW n, n = Len(tr), n # 1, NEW v, v = tr[n].vertex, col[v] = None,
           \A i \in OpenTo(M, R, C, col, v) : ~(i > tr[n].tried),
           NEW u, u = tr[n - 1].vertex,
           NEW color, color = [col EXCEPT ![u] = None], NEW new, new = Front(tr)
    PROVE  Backtracking(M, R, C, color, new)
<1>0. tr \in Seq([vertex : M, tried : Nat]) BY DEF Backtracking
<1>1. n \in Nat /\ n \in DOMAIN tr /\ DOMAIN tr = 1 .. n BY <1>0, TrailTyped
<1>2. PICK q \in Nat : q = n - 1 /\ q \in 1 .. n /\ q # 0 BY <1>1
<1>3. /\ new \in Seq([vertex : M, tried : Nat]) /\ Len(new) = q /\ DOMAIN new = 1 .. q
      /\ \A k \in 1 .. q : new[k] = tr[k]
  <2> DEFINE F == [vertex : M, tried : Nat]
  <2>1. tr \in Seq(F) BY <1>0
  <2>2. new = SubSeq(tr, 1, q) BY <1>2 DEF Front
  <2> HIDE DEF F
  <2>3. new \in Seq(F) /\ Len(new) = q /\ DOMAIN new = 1 .. q BY <1>1, <1>2, <2>1, <2>2
  <2>4. \A k \in 1 .. q : new[k] = tr[k] BY <1>1, <1>2, <2>1, <2>2
  <2> QED BY <2>3, <2>4 DEF F
<1>4. u = tr[q].vertex /\ u \in M BY <1>0, <1>1, <1>2, TrailTyped
<1>5. color[u] = None /\ \A s \in M : s # u => color[s] = col[s] BY <1>4
<1>6. \A k \in 1 .. q : k \in 1 .. n /\ k # n BY <1>1, <1>2
<1>7. \A k \in 1 .. q : k # q => tr[k].vertex # u /\ tr[k].vertex \in M
  <2>1. \A k, m \in DOMAIN tr : tr[k].vertex = tr[m].vertex => k = m BY DEF Backtracking
  <2>2. \A k \in DOMAIN tr : tr[k].vertex \in M BY <1>0, TrailTyped
  <2> QED BY <1>1, <1>2, <1>4, <1>6, <2>1, <2>2
<1>8. \A k \in 1 .. q : Painted(R, col, tr, k) BY <1>1, <1>6 DEF Backtracking
<1>9. \A k, m \in DOMAIN new : new[k].vertex = new[m].vertex => k = m
  BY <1>1, <1>3, <1>6 DEF Backtracking
<1>10. \A k \in DOMAIN new : \/ Painted(R, color, new, k)
                             \/ k = Len(new) /\ color[new[k].vertex] = None
  <2> TAKE k \in DOMAIN new
  <2>1. CASE k # q
    <3>1. Painted(R, col, tr, k) BY <1>3, <1>8
    <3>2. new[k] = tr[k] /\ color[tr[k].vertex] = col[tr[k].vertex]
      BY <1>3, <1>5, <1>7, <2>1
    <3> QED BY <3>1, <3>2 DEF Painted
  <2>2. CASE k = q BY <1>3, <1>4, <1>5, <2>2
  <2> QED BY <2>1, <2>2
<1>11. \A s \in M : color[s] # None => \E k \in DOMAIN new : new[k].vertex = s
  <2> SUFFICES ASSUME NEW s \in M, color[s] # None
               PROVE  \E k \in DOMAIN new : new[k].vertex = s
    OBVIOUS
  <2>1. s # u /\ col[s] # None BY <1>5
  <2>2. PICK k \in DOMAIN tr : tr[k].vertex = s BY <2>1 DEF Backtracking
  <2>3. k # n BY <2>1, <2>2
  <2>4. k \in 1 .. q BY <1>1, <1>2, <2>3
  <2> QED BY <1>3, <2>2, <2>4
<1>12. ASSUME NEW f \in Colourings(M, R, C), NEW k \in DOMAIN new, Agrees(f, color, new, k)
       PROVE  StillAhead(R, f, color, new, k)
  <2>1. k \in 1 .. q BY <1>3
  <2>2. Agrees(f, col, tr, k)
    <3> SUFFICES ASSUME NEW m \in 1 .. k - 1 PROVE f[tr[m].vertex] = col[tr[m].vertex]
      BY DEF Agrees
    <3>1. m \in 1 .. q /\ m # q BY <1>2, <2>1
    <3>2. new[m] = tr[m] BY <1>3, <3>1
    <3>3. color[tr[m].vertex] = col[tr[m].vertex] BY <1>5, <1>7, <3>1
    <3>4. f[new[m].vertex] = color[new[m].vertex] BY <1>12 DEF Agrees
    <3> QED BY <3>2, <3>3, <3>4
  <2>3. StillAhead(R, f, col, tr, k) BY <1>1, <1>6, <2>1, <2>2 DEF Backtracking
  <2>4. CASE k # q
    <3>1. new[k] = tr[k] /\ color[tr[k].vertex] = col[tr[k].vertex]
      BY <1>3, <1>5, <1>7, <2>1, <2>4
    <3> QED BY <2>3, <3>1 DEF StillAhead
  <2>5. CASE k = q
    <3>1. PICK i \in DOMAIN R[u] :
             R[u][i] = f[u] /\ (i > tr[q].tried \/ i = tr[q].tried)
      BY <1>4, <2>3, <2>5 DEF StillAhead
    <3>2. i # tr[q].tried
      <4> SUFFICES ASSUME i = tr[q].tried PROVE FALSE OBVIOUS
      <4>1. f[u] = col[u]
        <5>1. Painted(R, col, tr, q) BY <1>8, <2>1, <2>5
        <5> QED BY <1>4, <3>1, <5>1 DEF Painted
      <4>2. Agrees(f, col, tr, n)
        <5> SUFFICES ASSUME NEW m \in 1 .. n - 1 PROVE f[tr[m].vertex] = col[tr[m].vertex]
          BY DEF Agrees
        <5>1. m = q \/ m \in 1 .. q - 1 BY <1>2
        <5> QED BY <1>4, <2>2, <2>5, <4>1, <5>1 DEF Agrees
      <4> QED BY <4>2, NothingLeft
    <3>3. new[q] = tr[q] BY <1>3, <2>1, <2>5
    <3> QED BY <1>4, <2>5, <3>1, <3>2, <3>3 DEF StillAhead
  <2> QED BY <2>4, <2>5
<1> QED BY <1>3, <1>9, <1>10, <1>11, <1>12 DEF Backtracking

\* When the first activation has nothing left, nothing is left.
LEMMA SearchFails ==
    ASSUME NEW M, NEW R, NEW C, Bench(M, R, C), NEW col, NEW tr,
           Backtracking(M, R, C, col, tr), tr # <<>>,
           NEW n, n = Len(tr), n = 1, NEW v, v = tr[n].vertex, col[v] = None,
           \A i \in OpenTo(M, R, C, col, v) : ~(i > tr[n].tried)
    PROVE  Colourings(M, R, C) = {}
<1> SUFFICES ASSUME NEW f \in Colourings(M, R, C) PROVE FALSE OBVIOUS
<1>1. Agrees(f, col, tr, n) BY DEF Agrees
<1> QED BY <1>1, NothingLeft

-----------------------------------------------------------------------------
(* The invariant                                                           *)

Members(b) == {s \in DOMAIN segments : BankOrder(s) = b}
RegistersOf(b) == [s \in Members(b) |-> Registers(s)]
ConflictsOf(b) == {x \in Members(b) \X Members(b) : Conflict(x[1], x[2])}


-----------------------------------------------------------------------------
LEMMA BankOrders ==
    ASSUME SegmentsListed, NEW s \in DOMAIN segments, NEW t \in DOMAIN segments
    PROVE  BankOrder(s) \in Nat /\ (BankOrder(s) = BankOrder(t) <=> BankKey(s) = BankKey(t))
<1>1. /\ segments[s].tile \in Nat /\ segments[s].domain \in Domains
      /\ segments[t].tile \in Nat /\ segments[t].domain \in Domains
  <2> DEFINE R == [edge : Nat, tile : Nat, domain : Domains, write : Int, read : Int,
                   origins : Seq(Nat)]
  <2>1. segments \in Seq(R) BY DEF SegmentsListed
  <2>2. \A r \in R : r.tile \in Nat /\ r.domain \in Domains OBVIOUS
  <2> HIDE DEF R
  <2>3. segments[s] \in R /\ segments[t] \in R BY <2>1
  <2> QED BY <2>2, <2>3
<1>2. PICK x \in Nat, y \in Nat, c \in Domains, d \in Domains :
        x = segments[s].tile /\ y = segments[t].tile /\ c = segments[s].domain
        /\ d = segments[t].domain
  BY <1>1
<1>3. c \in {"Data", "Predicate"} /\ d \in {"Data", "Predicate"} BY <1>1, <1>2 DEF Domains
<1>4. BankOrder(s) = 2 * x + (IF c = "Data" THEN 0 ELSE 1)
      /\ BankOrder(t) = 2 * y + (IF d = "Data" THEN 0 ELSE 1)
  BY <1>2 DEF BankOrder
<1>5. BankKey(s) = BankKey(t) <=> x = y /\ c = d BY <1>2 DEF BankKey
<1> QED BY <1>3, <1>4, <1>5

LEMMA BankBench ==
    ASSUME SegmentsListed, BanksKnown, NEW b
    PROVE  Bench(Members(b), RegistersOf(b), ConflictsOf(b))
<1>1. \A s \in Members(b) : Registers(s) \in Seq(Nat) BY BankFacts DEF Members, Registers
<1> QED BY <1>1 DEF Bench, RegistersOf, ConflictsOf

\* Available looks at the bank alone: only its segments conflict.
LEMMA AvailableOpen ==
    ASSUME SegmentsListed, NEW b, NEW s \in Members(b)
    PROVE  Available(s) = OpenTo(Members(b), RegistersOf(b), ConflictsOf(b), colors, s)
<1>1. s \in DOMAIN segments /\ BankOrder(s) = b BY DEF Members
<1>2. RegistersOf(b)[s] = Registers(s) BY DEF RegistersOf
<1>3. \A t \in DOMAIN segments : Conflict(s, t) => t \in Members(b)
  BY <1>1, BankOrders DEF Conflict, Members
<1>4. \A t : (t \in DOMAIN segments /\ Conflict(s, t)) <=> (t \in Members(b) /\ <<s, t>> \in ConflictsOf(b))
  BY <1>3 DEF Members, ConflictsOf
<1> QED BY <1>2, <1>4 DEF Available, OpenTo

\* The bank that is coloured now.
LEMMA VerticesOf ==
    ASSUME SegmentsListed, NEW b, NEW u \in Uncolored, BankOrder(u) = b,
           \A t \in Uncolored : b =< BankOrder(t)
    PROVE  Vertices = Members(b)
<1> DEFINE T == {BankOrder(t) : t \in Uncolored}
<1>1. T \in SUBSET Nat /\ b \in T /\ T # {} BY BankOrders DEF Uncolored
<1>2. \A y \in T : b =< y OBVIOUS
<1> HIDE DEF T
<1>3. Min(T) \in T /\ \A y \in T : Min(T) =< y BY <1>1, MinIsMember
<1>4. Min(T) = b
  <2>1. PICK m : m = Min(T) OBVIOUS
  <2>2. m \in Nat /\ b \in Nat /\ m =< b /\ b =< m BY <1>1, <1>2, <1>3, <2>1
  <2> QED BY <2>1, <2>2
<1> QED BY <1>4 DEF Vertices, Members, T

\* There is such a bank while a segment has no register.
LEMMA BankNow ==
    ASSUME SegmentsListed, Uncolored # {}
    PROVE  \E b \in Nat : /\ \A t \in Uncolored : b =< BankOrder(t)
                          /\ \E u \in Uncolored : BankOrder(u) = b
                          /\ Vertices = Members(b)
<1> DEFINE T == {BankOrder(t) : t \in Uncolored}
<1>1. T \in SUBSET Nat /\ T # {} BY BankOrders DEF Uncolored
<1>2. PICK b \in T : \A y \in T : b =< y
  <2> HIDE DEF T
  <2> QED BY <1>1, LeastNatural
<1>3. PICK u \in Uncolored : BankOrder(u) = b BY <1>2
<1>4. \A t \in Uncolored : b =< BankOrder(t) BY <1>2
<1>5. Vertices = Members(b) BY <1>3, <1>4, VerticesOf
<1>6. b \in Nat BY <1>1, <1>2
<1> QED BY <1>3, <1>4, <1>5, <1>6

\* colorExact selects a segment of the bank that has no register.
LEMMA SelectedIsOpen ==
    ASSUME SegmentsListed, Vertices \cap Uncolored # {}
    PROVE  Selected \in Vertices \cap Uncolored
<1> DEFINE open == Vertices \cap Uncolored
           saturated == {s \in open : \A t \in open : Saturation(s) >= Saturation(t)}
           widest == {s \in saturated : \A t \in saturated :
                         Cardinality(Neighbors(s)) >= Cardinality(Neighbors(t))}
<1>1. PICK n \in Nat : n = Len(segments) /\ DOMAIN segments = 1 .. n BY DEF SegmentsListed
<1>2. IsFiniteSet(1 .. n) /\ Cardinality(1 .. n) = n
  <2>1. 1 \in Int /\ n \in Int OBVIOUS
  <2>2. /\ IsFiniteSet(1 .. n)
        /\ Cardinality(1 .. n) = IF 1 > n THEN 0 ELSE n - 1 + 1
    BY <2>1, FS_Interval
  <2> QED BY <2>2
<1>3. ASSUME NEW s
      PROVE  /\ IsFiniteSet(Neighbors(s)) /\ Cardinality(Neighbors(s)) \in Nat
             /\ Cardinality(Neighbors(s)) =< n
  <2>1. Neighbors(s) \in SUBSET (1 .. n) BY <1>1 DEF Neighbors
  <2>2. IsFiniteSet(Neighbors(s)) /\ Cardinality(Neighbors(s)) =< Cardinality(1 .. n)
    BY <1>2, <2>1, FS_Subset
  <2>3. Cardinality(Neighbors(s)) \in Nat BY <2>2, FS_CardinalityType
  <2> QED BY <1>2, <2>2, <2>3
<1>4. ASSUME NEW s PROVE Saturation(s) \in Nat /\ Saturation(s) =< n
  <2> DEFINE N == Neighbors(s)
             K == {colors[t] : t \in N}
             L == K \ {None}
  <2>1. IsFiniteSet(N) /\ Cardinality(N) \in Nat /\ Cardinality(N) =< n BY <1>3
  <2> HIDE DEF N
  <2>2. IsFiniteSet(K) /\ Cardinality(K) =< Cardinality(N)
    <3> DEFINE g == [t \in N |-> colors[t]]
    <3>1. g \in Surjection(N, K) BY DEF Surjection
    <3> HIDE DEF g, K
    <3> QED BY <2>1, <3>1, FS_Surjection
  <2>3. L \in SUBSET K OBVIOUS
  <2> HIDE DEF K, L
  <2>4. IsFiniteSet(L) /\ Cardinality(L) =< Cardinality(K) BY <2>2, <2>3, FS_Subset
  <2>5. Cardinality(L) \in Nat /\ Cardinality(K) \in Nat BY <2>2, <2>4, FS_CardinalityType
  <2>6. Cardinality(L) \in Nat /\ Cardinality(L) =< n
    <3>1. PICK x \in Nat, y \in Nat, z \in Nat :
             x = Cardinality(L) /\ y = Cardinality(K) /\ z = Cardinality(N)
      BY <2>1, <2>5
    <3>2. x =< y /\ y =< z /\ z =< n BY <2>1, <2>2, <2>4, <3>1
    <3> QED BY <3>1, <3>2
  <2> QED BY <2>6 DEF Saturation, L, K, N
<1>5. saturated # {}
  <2> DEFINE T == {Saturation(s) : s \in open}
  <2>1. T \in SUBSET Nat /\ T # {} /\ \A y \in T : y =< n BY <1>4
  <2> HIDE DEF T
  <2>2. Max(T) \in T /\ \A y \in T : y =< Max(T) BY <2>1, MaxIsMember
  <2>3. PICK m \in Nat : m = Max(T) BY <2>1, <2>2
  <2>4. m \in T /\ \A y \in T : y \in Nat /\ y =< m BY <2>1, <2>2, <2>3
  <2>5. PICK s \in open : Saturation(s) = m BY <2>4 DEF T
  <2>6. \A t \in open : Saturation(t) \in Nat /\ Saturation(t) =< m BY <2>4 DEF T
  <2>7. s \in saturated BY <2>5, <2>6
  <2> QED BY <2>7
<1>6. saturated \subseteq open OBVIOUS
<1>7. widest \subseteq saturated OBVIOUS
<1> HIDE DEF open, saturated
<1>8. widest # {}
  <2> DEFINE T == {Cardinality(Neighbors(s)) : s \in saturated}
  <2>1. T \in SUBSET Nat /\ T # {} /\ \A y \in T : y =< n BY <1>3, <1>5
  <2> HIDE DEF T
  <2>2. Max(T) \in T /\ \A y \in T : y =< Max(T) BY <2>1, MaxIsMember
  <2>3. PICK m \in Nat : m = Max(T) BY <2>1, <2>2
  <2>4. m \in T /\ \A y \in T : y \in Nat /\ y =< m BY <2>1, <2>2, <2>3
  <2>5. PICK s \in saturated : Cardinality(Neighbors(s)) = m BY <2>4 DEF T
  <2>6. \A t \in saturated : Cardinality(Neighbors(t)) \in Nat /\ Cardinality(Neighbors(t)) =< m
    BY <2>4 DEF T
  <2>7. s \in widest BY <2>5, <2>6
  <2> QED BY <2>7
<1> HIDE DEF widest
<1>9. widest \in SUBSET Nat
  <2>1. open \in SUBSET (1 .. n) BY <1>1 DEF open, Uncolored
  <2> QED BY <1>6, <1>7, <2>1
<1>10. Min(widest) \in widest BY <1>8, <1>9, MinIsMember
<1>11. Selected = Min(widest) BY DEF Selected, widest, saturated, open
<1> QED BY <1>6, <1>7, <1>10, <1>11 DEF open

-----------------------------------------------------------------------------
(* The invariant                                                           *)

Colored == colors \in [DOMAIN segments -> Nat \cup {None}]
SelfApart == \A s \in DOMAIN segments : ~fixedRegisterSelfOverlaps(segments[s])

\* colorExact works on bank b, the first that is not finished.
Searching(b) ==
    /\ Members(b) # {} /\ \A u \in Uncolored : b =< BankOrder(u)
    /\ Backtracking(Members(b), RegistersOf(b), ConflictsOf(b), colors, trail)

Uncolourable(b) ==
    Members(b) # {} /\ Colourings(Members(b), RegistersOf(b), ConflictsOf(b)) = {}

NoReadPorts ==
    \E s \in DOMAIN segments :
        NoPorts(ReadsIn(s, Len(segments)), LAMBDA t : 0 .. Bank(t).readPorts - 1)
NoWritePorts ==
    \E s \in DOMAIN segments :
        \/ NoPorts(WritesIn(s, Len(segments)),
                   LAMBDA t : AcceptingPorts(t, storageWriteSource(t)))
        \/ NoPorts(BoundaryEvents(s), LAMBDA t : AcceptingPorts(t, boundaryWriteSource(t)))

\* What the allocator knows when it is at work, and when it has given up.
AtWork ==
    /\ rfStatus \in {"analyze", "greedy"} => trail = <<>>
    /\ rfStatus \in {"greedy", "exact"} => LifetimesKept /\ SelfApart /\ Colored
    /\ rfStatus = "exact" => \E b \in Nat : Searching(b)
GaveUp ==
    /\ rfStatus = "FixedRegisterSelfOverlap" => LifetimesKept /\ ~SelfApart
    /\ rfStatus = "RegisterDepthInfeasible" =>
          LifetimesKept /\ SelfApart /\ \E b \in Nat : Uncolourable(b)
    /\ rfStatus = "ReadPortConflict" =>
          (\E s \in DOMAIN segments : TooManyReads(s)) \/ NoReadPorts
    /\ rfStatus = "WritePortConflict" =>
          (\E s \in DOMAIN segments : TooManyWrites(s)) \/ NoWritePorts

Busy == {"analyze", "greedy", "exact"} \cup RFRejections

RInv ==
    /\ target = Jobs[job].target
    /\ phase \in Early \cup {"stage"} => rfStatus = "idle" /\ trail = <<>>
    /\ phase # "rf" => rfStatus \notin Busy
    /\ AtWork /\ GaveUp

-----------------------------------------------------------------------------
LEMMA KnownBanks ==
    ASSUME IInv, RInv
    PROVE  BanksKnown
<1>1. PICK T : T = Jobs[job].target OBVIOUS
<1>2. \A d \in Domains : /\ T.banks[d].allocatable \in Seq(Nat)
                         /\ T.banks[d].readPorts \in Nat
                         /\ Len(T.banks[d].writePortSources) \in Nat
  BY <1>1, JobsAssumption DEF IInv
<1>3. target = T BY <1>1 DEF RInv
<1> QED BY <1>2, <1>3 DEF BanksKnown

\* What the mapping, the segments and the target alone decide.
LEMMA BankUntouched ==
    ASSUME UNCHANGED <<target, mapping, segments>>
    PROVE  /\ \A b : Members(b)' = Members(b) /\ RegistersOf(b)' = RegistersOf(b)
                     /\ ConflictsOf(b)' = ConflictsOf(b)
           /\ \A s : BankOrder(s)' = BankOrder(s)
<1>1. \A s : BankOrder(s)' = BankOrder(s) BY DEF BankOrder
<1>2. ASSUME NEW b PROVE Members(b)' = Members(b) BY <1>1 DEF Members
<1>3. ASSUME NEW s PROVE Registers(s)' = Registers(s) BY DEF Registers, Bank
<1>4. ASSUME NEW b PROVE RegistersOf(b)' = RegistersOf(b) BY <1>2, <1>3 DEF RegistersOf
<1>5. ASSUME NEW s, NEW t PROVE Conflict(s, t)' <=> Conflict(s, t)
  BY DEF Conflict, BankKey, periodicLifetimesConflict, NoLifetime, Duration,
         intervalsConflict, ii
<1>6. ASSUME NEW b PROVE ConflictsOf(b)' = ConflictsOf(b) BY <1>2, <1>5 DEF ConflictsOf
<1> QED BY <1>1, <1>2, <1>4, <1>6

LEMMA LifetimesUntouched ==
    ASSUME UNCHANGED <<target, mapping, segments>>
    PROVE  (LifetimesKept' <=> LifetimesKept) /\ (SelfApart' <=> SelfApart)
<1>1. LifetimesKept' <=> LifetimesKept BY DEF LifetimesKept, Kept, ii
<1>2. SelfApart' <=> SelfApart
  BY DEF SelfApart, fixedRegisterSelfOverlaps, NoLifetime, Duration, ii
<1> QED BY <1>1, <1>2

LEMMA PortsUntouched ==
    ASSUME UNCHANGED <<target, dfg, mapping, segments>>
    PROVE  (NoReadPorts => NoReadPorts') /\ (NoWritePorts => NoWritePorts')
<1>1. \A s : Bank(s)' = Bank(s) /\ BankKey(s)' = BankKey(s) BY DEF Bank, BankKey
<1>2. \A s, n : ReadsIn(s, n)' = ReadsIn(s, n) /\ WritesIn(s, n)' = WritesIn(s, n)
  BY <1>1 DEF ReadsIn, WritesIn, ii
<1>3. \A t : storageWriteSource(t)' = storageWriteSource(t)
  BY DEF storageWriteSource, incomingSource, resultSource, Op
<1>4. \A t : boundaryWriteSource(t)' = boundaryWriteSource(t)
  BY DEF boundaryWriteSource
<1>5. \A t, c : AcceptingPorts(t, c)' = AcceptingPorts(t, c)
  BY <1>1 DEF AcceptingPorts
<1>6. \A t : BoundaryEvents(t)' = BoundaryEvents(t)
  BY <1>1, <1>4 DEF BoundaryEvents, HasBoundary, BoundarySlot, ii
<1>7. NoReadPorts => NoReadPorts' BY DEF NoReadPorts, NoPorts, ReadsIn, Bank, BankKey, ii
<1>8. NoWritePorts => NoWritePorts'
  BY <1>1, <1>2, <1>3, <1>4, <1>5, <1>6 DEF NoWritePorts, NoPorts
<1> QED BY <1>7, <1>8

LEMMA DemandUntouched ==
    ASSUME UNCHANGED <<target, mapping, segments>>
    PROVE  \A s : (TooManyReads(s)' <=> TooManyReads(s)) /\ (TooManyWrites(s)' <=> TooManyWrites(s))
BY DEF TooManyReads, TooManyWrites, ReadsIn, WritesIn, Bank, BankKey, ii

\* What is known of a rejection stays known.
LEMMA StillGaveUp ==
    ASSUME GaveUp, UNCHANGED <<target, dfg, mapping, segments, rfStatus>>
    PROVE  GaveUp'
<1>1. \A b : Uncolourable(b)' <=> Uncolourable(b) BY BankUntouched DEF Uncolourable
<1>2. (LifetimesKept' <=> LifetimesKept) /\ (SelfApart' <=> SelfApart) BY LifetimesUntouched
<1>3. \A s : (TooManyReads(s)' <=> TooManyReads(s)) /\ (TooManyWrites(s)' <=> TooManyWrites(s))
  BY DemandUntouched
<1>4. (NoReadPorts => NoReadPorts') /\ (NoWritePorts => NoWritePorts') BY PortsUntouched
<1> QED BY <1>1, <1>2, <1>3, <1>4, Zenon DEF GaveUp

LEMMA StillAtWork ==
    ASSUME AtWork, UNCHANGED <<target, dfg, mapping, segments, colors, trail, rfStatus>>
    PROVE  AtWork'
<1>1. Uncolored' = Uncolored BY DEF Uncolored
<1>2. \A b : Searching(b)' <=> Searching(b) BY <1>1, BankUntouched DEF Searching
<1>3. (LifetimesKept' <=> LifetimesKept) /\ (SelfApart' <=> SelfApart) BY LifetimesUntouched
<1>4. Colored' <=> Colored BY DEF Colored
<1> QED BY <1>2, <1>3, <1>4, Zenon DEF AtWork

\* Before the first segment is coloured.
LEMMA AfterAnalyze ==
    ASSUME HasInterval, trail = <<>>, SegmentsListed', Analyze, UNCHANGED mapping
    PROVE  AtWork' /\ GaveUp'
<1>0. trail' = <<>> /\ Len(segments') \in Nat /\ DOMAIN segments' = 1 .. Len(segments')
  BY DEF Analyze, SegmentsListed
<1>1. ASSUME StorageStatus' = "Success" PROVE LifetimesKept'
  <2>1. ii' \in Nat \ {0} BY <1>1 DEF StorageStatus, HasInterval, ii
  <2>2. Times' \subseteq 0 .. MaxTime BY <1>1 DEF StorageStatus
  <2>3. ASSUME NEW s \in DOMAIN segments' PROVE Kept(s)'
    <3>1. segments'[s].write \in Times' /\ segments'[s].read \in Times' BY DEF Times
    <3>2. ~NoLifetime(segments[s])' BY <1>1 DEF StorageStatus
    <3>3. segments'[s].write \in 0 .. MaxTime /\ segments'[s].read \in 0 .. MaxTime
      BY <2>2, <3>1
    <3>4. ~(segments'[s].read =< segments'[s].write) BY <3>2 DEF NoLifetime
    <3> QED BY <3>3, <3>4, TimeAssumption DEF Kept
  <2> QED BY <2>1, <2>3 DEF LifetimesKept
<1>2. Colored' BY <1>0 DEF Colored, Analyze
<1>3. CASE StorageStatus' # "Success"
  <2>1. rfStatus' \in {"InvalidStagedMapping", "ArithmeticOverflow", "TargetRFContractError"}
    BY <1>3 DEF Analyze, StorageStatus
  <2> QED BY <2>1 DEF AtWork, GaveUp
<1>4. CASE StorageStatus' = "Success"
  <2>1. rfStatus' = DemandStatus' BY <1>4 DEF Analyze
  <2>2. LifetimesKept' BY <1>1, <1>4
  <2>3. CASE ~SelfApart'
    <3>1. rfStatus' = "FixedRegisterSelfOverlap" BY <2>1, <2>3 DEF DemandStatus, SelfApart
    <3> QED BY <2>2, <2>3, <3>1 DEF AtWork, GaveUp
  <2>4. CASE SelfApart'
    <3>1. PICK O : O = {s \in DOMAIN segments : TooManyWrites(s) \/ TooManyReads(s)}'
      OBVIOUS
    <3>2. PICK m : m = Min(O) OBVIOUS
    <3>3. rfStatus' = IF O = {} THEN "greedy"
                      ELSE IF TooManyWrites(m)' THEN "WritePortConflict"
                      ELSE "ReadPortConflict"
      BY <2>1, <2>4, <3>1, <3>2 DEF DemandStatus, SelfApart, TooManyWrites, WritesIn, Bank,
                                    BankKey
    <3>4. \A s \in O : s \in DOMAIN segments' /\ (TooManyWrites(s)' \/ TooManyReads(s)')
      BY <3>1
    <3>5. CASE O = {}
      <4>1. rfStatus' = "greedy" BY <3>3, <3>5
      <4> QED BY <1>0, <1>2, <2>2, <2>4, <4>1 DEF AtWork, GaveUp
    <3>6. CASE O # {}
      <4>1. O \in SUBSET Nat BY <1>0, <3>4
      <4>2. m \in O BY <3>2, <3>6, <4>1, MinIsMember
      <4>3. m \in DOMAIN segments' /\ (TooManyWrites(m)' \/ TooManyReads(m)') BY <3>4, <4>2
      <4>4. rfStatus' = IF TooManyWrites(m)' THEN "WritePortConflict" ELSE "ReadPortConflict"
        BY <3>3, <3>6
      <4> QED BY <4>3, <4>4 DEF AtWork, GaveUp
    <3> QED BY <3>5, <3>6
  <2> QED BY <2>3, <2>4
<1> QED BY <1>3, <1>4

\* The search begins with nothing coloured.
LEMMA SearchStarts ==
    ASSUME NEW M, NEW R, NEW C, NEW col, \A s \in M : col[s] = None
    PROVE  Backtracking(M, R, C, col, <<>>)
<1>1. <<>> \in Seq([vertex : M, tried : Nat]) OBVIOUS
<1>2. DOMAIN <<>> = {} OBVIOUS
<1> QED BY <1>1, <1>2, Zenon DEF Backtracking

\* Greedy colouring knows of no more than the lifetimes; a bank it fails on
\* starts the exact search with nothing coloured.
LEMMA AfterGreedy ==
    ASSUME SegmentsListed, BanksKnown, AtWork, GreedyColor, UNCHANGED <<target, dfg, mapping>>
    PROVE  AtWork' /\ GaveUp'
<1>1. /\ rfStatus = "greedy" /\ trail = <<>> /\ LifetimesKept /\ SelfApart /\ Colored
      /\ Uncolored # {} /\ segments' = segments
  BY DEF AtWork, GreedyColor
<1>2. LifetimesKept' /\ SelfApart' BY <1>1, LifetimesUntouched
<1>3. PICK b \in Nat : /\ \A t \in Uncolored : b =< BankOrder(t)
                       /\ \E u \in Uncolored : BankOrder(u) = b
                       /\ Vertices = Members(b)
  BY <1>1, BankNow
<1>4. PICK s : s = Min(Vertices \cap Uncolored) OBVIOUS
<1>5. s \in Vertices \cap Uncolored /\ s \in DOMAIN segments
  <2>1. PICK S : S = Vertices \cap Uncolored OBVIOUS
  <2>2. S # {} BY <1>3, <2>1 DEF Members, Uncolored
  <2>3. S \in SUBSET Nat BY <2>1, BankFacts DEF Uncolored
  <2>4. Min(S) \in S BY <2>2, <2>3, MinIsMember
  <2> QED BY <1>4, <2>1, <2>4 DEF Uncolored
<1>6. CASE NoDecisionLeft
  <2>1. rfStatus' = "BudgetExceeded" BY <1>6 DEF GreedyColor
  <2> QED BY <2>1 DEF AtWork, GaveUp
<1>7. CASE ~NoDecisionLeft /\ Available(s) # {}
  <2>1. /\ rfStatus' = "greedy" /\ trail' = <<>>
        /\ colors' = [colors EXCEPT ![s] = Registers(s)[Min(Available(s))]]
    BY <1>1, <1>4, <1>7 DEF GreedyColor
  <2>2. Registers(s)[Min(Available(s))] \in Nat
    <3>1. Registers(s) \in Seq(Nat) BY <1>5, BankFacts DEF Registers
    <3>2. PICK r, A : r = Registers(s) /\ A = Available(s) OBVIOUS
    <3>3. r \in Seq(Nat) /\ A \in SUBSET DOMAIN r /\ A # {} BY <1>7, <3>1, <3>2 DEF Available
    <3>4. A \in SUBSET Nat BY <3>3
    <3>5. Min(A) \in A BY <3>3, <3>4, MinIsMember
    <3>6. PICK m : m = Min(A) OBVIOUS
    <3>7. m \in DOMAIN r BY <3>3, <3>5, <3>6
    <3>8. r[m] \in Nat BY <3>3, <3>7
    <3> QED BY <3>2, <3>6, <3>8
  <2>3. Colored' BY <1>1, <2>1, <2>2 DEF Colored
  <2> QED BY <1>2, <2>1, <2>3 DEF AtWork, GaveUp
<1>8. CASE ~NoDecisionLeft /\ Available(s) = {}
  <2>1. /\ rfStatus' = "exact" /\ trail' = <<>>
        /\ colors' = [t \in DOMAIN colors |-> IF t \in Vertices THEN None ELSE colors[t]]
    BY <1>1, <1>4, <1>8 DEF GreedyColor
  <2>2. PICK V : V = Vertices OBVIOUS
  <2>3. DOMAIN colors = DOMAIN segments BY <1>1 DEF Colored
  <2>4. Colored' BY <1>1, <2>1, <2>2, <2>3 DEF Colored
  <2>5. V = Members(b) /\ V \subseteq DOMAIN segments BY <1>3, <2>2 DEF Members
  <2>6. \A t \in V : colors'[t] = None BY <2>1, <2>2, <2>3, <2>5
  <2>7. Uncolored' \subseteq Uncolored \cup V BY <1>1, <2>1, <2>2, <2>3 DEF Uncolored
  <2>8. Members(b)' = V /\ \A t : BankOrder(t)' = BankOrder(t) BY <1>1, <2>5, BankUntouched
  <2>9. \A t \in Uncolored' : b =< BankOrder(t)'
    <3>1. \A t \in V : b =< BankOrder(t) BY <2>5 DEF Members
    <3> QED BY <1>3, <2>7, <2>8, <3>1
  <2>10. PICK R, C : R = RegistersOf(b)' /\ C = ConflictsOf(b)' OBVIOUS
  <2>11. PICK col : col = colors' OBVIOUS
  <2>12. Backtracking(V, R, C, col, <<>>) BY <2>6, <2>11, SearchStarts
  <2>13. V # {} BY <1>5, <2>2
  <2>14. Searching(b)' BY <2>1, <2>8, <2>9, <2>10, <2>11, <2>12, <2>13 DEF Searching
  <2> QED BY <1>2, <2>1, <2>4, <2>14 DEF AtWork, GaveUp
<1> QED BY <1>6, <1>7, <1>8

\* The bank of the search, without primes.
LEMMA SearchFacts ==
    ASSUME SegmentsListed, BanksKnown, Colored, NEW b \in Nat, Searching(b)
    PROVE  /\ Members(b) \subseteq DOMAIN segments /\ DOMAIN colors = DOMAIN segments
           /\ Bench(Members(b), RegistersOf(b), ConflictsOf(b))
           /\ trail \in Seq([vertex : Members(b), tried : Nat])
           /\ trail # <<>> => Top.vertex \in Members(b) /\ Top = trail[Len(trail)]
           /\ trail # <<>> => Len(trail) \in DOMAIN trail /\ Len(trail) \in Nat
<1>1. trail \in Seq([vertex : Members(b), tried : Nat]) BY DEF Searching, Backtracking
<1>2. Bench(Members(b), RegistersOf(b), ConflictsOf(b)) BY BankBench
<1>3. trail # <<>> => Len(trail) \in DOMAIN trail /\ Len(trail) \in Nat BY <1>1, TrailTyped
<1>4. Top = trail[Len(trail)] BY DEF Top, Last
<1>5. trail # <<>> => Top.vertex \in Members(b) BY <1>1, <1>3, <1>4, TrailTyped
<1> QED BY <1>1, <1>2, <1>3, <1>4, <1>5 DEF Members, Colored

\* The search ends with its bank coloured, or goes one activation deeper.
LEMMA AfterSelect ==
    ASSUME SegmentsListed, BanksKnown, AtWork, ExactSelect, UNCHANGED <<target, dfg, mapping>>
    PROVE  AtWork' /\ GaveUp'
<1>1. /\ rfStatus = "exact" /\ LifetimesKept /\ SelfApart /\ Colored
      /\ segments' = segments /\ colors' = colors
  BY DEF AtWork, ExactSelect
<1>2. LifetimesKept' /\ SelfApart' /\ Colored'
  <2>1. LifetimesKept' /\ SelfApart' BY <1>1, LifetimesUntouched
  <2> QED BY <1>1, <2>1 DEF Colored
<1>3. PICK b \in Nat : Searching(b) BY <1>1 DEF AtWork
<1>4. CASE trail # <<>> /\ BankOrder(Top.vertex) \notin {BankOrder(s) : s \in Uncolored}
  <2>1. rfStatus' = "greedy" /\ trail' = <<>> BY <1>4 DEF ExactSelect
  <2> QED BY <1>2, <2>1 DEF AtWork, GaveUp
<1>5. CASE ~(trail # <<>> /\ BankOrder(Top.vertex) \notin {BankOrder(s) : s \in Uncolored})
  <2>1. rfStatus' = "exact" /\ trail' = Append(trail, [vertex |-> Selected, tried |-> 0])
    BY <1>1, <1>5 DEF ExactSelect
  <2>2. PICK M, R, C, tr, col, v :
           /\ M = Members(b) /\ R = RegistersOf(b) /\ C = ConflictsOf(b)
           /\ tr = trail /\ col = colors /\ v = Selected
    OBVIOUS
  <2>3. Backtracking(M, R, C, col, tr) /\ Bench(M, R, C)
    BY <1>1, <1>3, <2>2, SearchFacts DEF Searching
  <2>4. PICK u \in Uncolored : BankOrder(u) = b
    <3>1. CASE trail = <<>>
      <4>1. PICK u \in Members(b) : TRUE BY <1>3 DEF Searching
      <4>2. colors[u] = None
        <5>1. DOMAIN tr = {} BY <2>2, <3>1
        <5>2. \A s \in M : col[s] # None => \E k \in DOMAIN tr : tr[k].vertex = s
          BY <2>3 DEF Backtracking
        <5> QED BY <2>2, <4>1, <5>1, <5>2
      <4> QED BY <4>1, <4>2 DEF Members, Uncolored
    <3>2. CASE trail # <<>>
      <4>1. BankOrder(Top.vertex) \in {BankOrder(s) : s \in Uncolored} BY <1>5, <3>2
      <4>2. Top.vertex \in Members(b) BY <1>1, <1>3, <3>2, SearchFacts
      <4>3. BankOrder(Top.vertex) = b BY <4>2 DEF Members
      <4> QED BY <4>1, <4>3
    <3> QED BY <3>1, <3>2
  <2>5. Vertices = Members(b) BY <1>3, <2>4, VerticesOf DEF Searching
  <2>6. v \in M /\ v \in Uncolored
    <3>1. u \in Vertices \cap Uncolored BY <2>4, <2>5 DEF Members, Uncolored
    <3>2. Selected \in Vertices \cap Uncolored BY <3>1, SelectedIsOpen
    <3> QED BY <2>2, <2>5, <3>2
  <2>7. col[v] = None BY <2>2, <2>6 DEF Uncolored
  <2>8. tr # <<>> => col[tr[Len(tr)].vertex] # None BY <2>2 DEF ExactSelect, Top, Last
  <2>9. PICK new : new = Append(tr, [vertex |-> v, tried |-> 0]) OBVIOUS
  <2>10. Backtracking(M, R, C, col, new) BY <2>3, <2>6, <2>7, <2>8, <2>9, SearchPushes
  <2>11. trail' = new BY <2>1, <2>2, <2>9
  <2>12. /\ Members(b)' = M /\ RegistersOf(b)' = R /\ ConflictsOf(b)' = C
         /\ \A t : BankOrder(t)' = BankOrder(t)
    BY <1>1, <2>2, BankUntouched
  <2>13. Uncolored' = Uncolored BY <1>1 DEF Uncolored
  <2>14. Searching(b)'
    <3>1. M # {} /\ \A t \in Uncolored : b =< BankOrder(t) BY <1>3, <2>2 DEF Searching
    <3>2. Backtracking(M, R, C, colors', trail') BY <1>1, <2>2, <2>10, <2>11
    <3> QED BY <2>12, <2>13, <3>1, <3>2 DEF Searching
  <2> QED BY <1>2, <2>1, <2>14 DEF AtWork, GaveUp
<1> QED BY <1>4, <1>5

\* The last activation tries its next register.
LEMMA AfterTry ==
    ASSUME SegmentsListed, BanksKnown, AtWork, ExactTry, UNCHANGED <<target, dfg, mapping>>
    PROVE  AtWork' /\ GaveUp'
<1>1. /\ rfStatus = "exact" /\ LifetimesKept /\ SelfApart /\ Colored
      /\ segments' = segments /\ trail # <<>>
  BY DEF AtWork, ExactTry
<1>2. LifetimesKept' /\ SelfApart' BY <1>1, LifetimesUntouched
<1>3. PICK b \in Nat : Searching(b) BY <1>1 DEF AtWork
<1>4. CASE NoDecisionLeft
  <2>1. rfStatus' = "BudgetExceeded" BY <1>4 DEF ExactTry
  <2> QED BY <2>1 DEF AtWork, GaveUp
<1>5. CASE ~NoDecisionLeft
  <2>1. PICK M, R, C, tr, col, n, v, A, i :
           /\ M = Members(b) /\ R = RegistersOf(b) /\ C = ConflictsOf(b)
           /\ tr = trail /\ col = colors /\ n = Len(tr) /\ v = tr[n].vertex
           /\ A = Untried(Top) /\ i = Min(A)
    OBVIOUS
  <2>2. /\ Backtracking(M, R, C, col, tr) /\ Bench(M, R, C) /\ M \subseteq DOMAIN col
        /\ n \in Nat /\ n \in DOMAIN tr /\ v \in M /\ Top = tr[n]
    BY <1>1, <1>3, <2>1, SearchFacts DEF Searching
  <2>3. Available(v) = OpenTo(M, R, C, col, v) BY <2>1, <2>2, AvailableOpen
  <2>4. A = {j \in OpenTo(M, R, C, col, v) : j > tr[n].tried}
    BY <2>1, <2>2, <2>3 DEF Untried
  <2>5. Top.vertex = v /\ R[v] = Registers(v) BY <2>1, <2>2 DEF RegistersOf
  <2>6. R[v] \in Seq(Nat) BY <2>2, BenchRegisters
  <2>7. A \in SUBSET DOMAIN R[v] /\ A # {}
    <3>1. A # {} BY <2>1 DEF ExactTry
    <3> QED BY <2>4, <3>1 DEF OpenTo
  <2>8. A \in SUBSET Nat BY <2>6, <2>7
  <2>9. i \in A /\ \A j \in A : i =< j BY <2>1, <2>7, <2>8, MinIsMember
  <2>10. /\ col[v] = None
         /\ colors' = [col EXCEPT ![v] = R[v][i]] /\ rfStatus' = "exact"
         /\ trail' = [tr EXCEPT ![n].tried = i]
    BY <1>1, <1>5, <2>1, <2>2, <2>5 DEF ExactTry
  <2>11. R[v][i] \in Nat
    <3>1. i \in DOMAIN R[v] BY <2>7, <2>9
    <3> QED BY <2>6, <3>1
  <2>12. PICK color, new : color = colors' /\ new = trail' OBVIOUS
  <2>13. Backtracking(M, R, C, color, new)
    <3>1. tr # <<>> BY <1>1, <2>1
    <3>2. /\ i \in OpenTo(M, R, C, col, v) /\ i > tr[n].tried
          /\ \A j \in OpenTo(M, R, C, col, v) : j > tr[n].tried => i =< j
      BY <2>4, <2>9
    <3>3. color = [col EXCEPT ![v] = R[v][i]] /\ new = [tr EXCEPT ![n].tried = i]
      BY <2>10, <2>12
    <3>4. n = Len(tr) /\ v = tr[n].vertex BY <2>1
    <3> QED BY <2>2, <2>10, <3>1, <3>2, <3>3, <3>4, SearchTries
  <2>14. Colored' BY <1>1, <2>1, <2>10, <2>11 DEF Colored
  <2>15. /\ Members(b)' = M /\ RegistersOf(b)' = R /\ ConflictsOf(b)' = C
         /\ \A t : BankOrder(t)' = BankOrder(t)
    BY <1>1, <2>1, BankUntouched
  <2>16. Uncolored' \subseteq Uncolored
    <3>1. R[v][i] # None BY <2>11 DEF None
    <3>2. DOMAIN col = DOMAIN segments BY <1>1, <2>1 DEF Colored
    <3>3. \A t \in DOMAIN segments : colors'[t] = None => col[t] = None BY <2>10, <3>1, <3>2
    <3> QED BY <1>1, <2>1, <3>3 DEF Uncolored
  <2>17. Searching(b)'
    <3>1. M # {} /\ \A t \in Uncolored : b =< BankOrder(t) BY <1>3, <2>1 DEF Searching
    <3>2. Backtracking(M, R, C, colors', trail') BY <2>12, <2>13
    <3> QED BY <2>15, <2>16, <3>1, <3>2 DEF Searching
  <2> QED BY <1>2, <2>10, <2>14, <2>17 DEF AtWork, GaveUp
<1> QED BY <1>4, <1>5

\* The last activation returns false: the search goes on below it, or is over.
LEMMA AfterReturn ==
    ASSUME SegmentsListed, BanksKnown, AtWork, ExactReturn, UNCHANGED <<target, dfg, mapping>>
    PROVE  AtWork' /\ GaveUp'
<1>1. /\ rfStatus = "exact" /\ LifetimesKept /\ SelfApart /\ Colored
      /\ segments' = segments /\ trail # <<>>
  BY DEF AtWork, ExactReturn
<1>2. LifetimesKept' /\ SelfApart' BY <1>1, LifetimesUntouched
<1>3. PICK b \in Nat : Searching(b) BY <1>1 DEF AtWork
<1>4. PICK M, R, C, tr, col, n, v :
         /\ M = Members(b) /\ R = RegistersOf(b) /\ C = ConflictsOf(b)
         /\ tr = trail /\ col = colors /\ n = Len(tr) /\ v = tr[n].vertex
  OBVIOUS
<1>5. /\ Backtracking(M, R, C, col, tr) /\ Bench(M, R, C) /\ M \subseteq DOMAIN col
      /\ n \in Nat /\ n \in DOMAIN tr /\ v \in M /\ Top = tr[n] /\ tr # <<>>
  BY <1>1, <1>3, <1>4, SearchFacts DEF Searching
<1>6. col[v] = None /\ \A i \in OpenTo(M, R, C, col, v) : ~(i > tr[n].tried)
  <2>1. Available(v) = OpenTo(M, R, C, col, v) BY <1>4, <1>5, AvailableOpen
  <2>2. Top.vertex = v BY <1>4, <1>5
  <2>3. Untried(Top) = {i \in OpenTo(M, R, C, col, v) : i > tr[n].tried}
    BY <1>5, <2>1, <2>2 DEF Untried
  <2>4. Untried(Top) = {} /\ colors[Top.vertex] = None BY DEF ExactReturn
  <2> QED BY <1>4, <2>2, <2>3, <2>4
<1>7. /\ Members(b)' = M /\ RegistersOf(b)' = R /\ ConflictsOf(b)' = C
      /\ \A t : BankOrder(t)' = BankOrder(t)
  BY <1>1, <1>4, BankUntouched
<1>8. CASE n = 1
  <2>1. rfStatus' = "RegisterDepthInfeasible" BY <1>4, <1>8 DEF ExactReturn
  <2>2. Colourings(M, R, C) = {} BY <1>4, <1>5, <1>6, <1>8, SearchFails
  <2>3. M # {} BY <1>5
  <2>4. Uncolourable(b)' BY <1>7, <2>2, <2>3 DEF Uncolourable
  <2> QED BY <1>2, <2>1, <2>4 DEF AtWork, GaveUp
<1>9. CASE n # 1
  <2>1. /\ colors' = [colors EXCEPT ![trail[Len(trail) - 1].vertex] = None]
        /\ trail' = Front(trail) /\ rfStatus' \in {"exact", "BudgetExceeded"}
    BY <1>1, <1>4, <1>9 DEF ExactReturn
  <2>2. PICK u, color, new : u = tr[n - 1].vertex /\ color = colors' /\ new = trail' OBVIOUS
  <2>3. color = [col EXCEPT ![u] = None] /\ new = Front(tr) BY <1>4, <2>1, <2>2
  <2>4. Backtracking(M, R, C, color, new)
    <3>1. n = Len(tr) /\ v = tr[n].vertex BY <1>4
    <3>2. u = tr[n - 1].vertex BY <2>2
    <3>3. Backtracking(M, R, C, col, tr) /\ Bench(M, R, C) /\ M \subseteq DOMAIN col /\ tr # <<>>
      BY <1>5
    <3> QED BY <1>6, <1>9, <2>3, <3>1, <3>2, <3>3, SearchReturns
  <2>5. DOMAIN col = DOMAIN segments /\ col \in [DOMAIN segments -> Nat \cup {None}]
    BY <1>1, <1>4 DEF Colored
  <2>6. Colored' BY <1>1, <2>2, <2>3, <2>5 DEF Colored
  <2>7. u \in M
    <3>1. tr \in Seq([vertex : M, tried : Nat]) BY <1>5 DEF Backtracking
    <3>2. DOMAIN tr = 1 .. n BY <1>4, <3>1, TrailTyped
    <3>3. n - 1 \in DOMAIN tr BY <1>5, <1>9, <3>2
    <3> QED BY <2>2, <3>1, <3>3, TrailTyped
  <2>8. Uncolored' \subseteq Uncolored \cup {u}
    BY <1>1, <1>4, <2>2, <2>3, <2>5 DEF Uncolored
  <2>9. Searching(b)'
    <3>1. M # {} /\ \A t \in Uncolored : b =< BankOrder(t) BY <1>3, <1>4 DEF Searching
    <3>2. BankOrder(u) = b BY <1>4, <2>7 DEF Members
    <3>3. b =< b OBVIOUS
    <3>4. \A t \in Uncolored' : b =< BankOrder(t)' BY <1>7, <2>8, <3>1, <3>2, <3>3
    <3>5. Backtracking(M, R, C, colors', trail') BY <2>2, <2>4
    <3> QED BY <1>7, <3>1, <3>4, <3>5 DEF Searching
  <2> QED BY <1>2, <2>1, <2>6, <2>9 DEF AtWork, GaveUp
<1> QED BY <1>8, <1>9

\* Ports are assigned when every bank is coloured.
LEMMA AfterPorts ==
    ASSUME SegmentsListed, BanksKnown, AssignPorts, UNCHANGED <<target, dfg, mapping>>
    PROVE  AtWork' /\ GaveUp'
<1>1. segments' = segments BY DEF AssignPorts
<1>2. (NoReadPorts => NoReadPorts') /\ (NoWritePorts => NoWritePorts') BY <1>1, PortsUntouched
<1>3. CASE \E s \in DOMAIN segments : ReadPorts(s) = <<>>
  <2>1. rfStatus' = "ReadPortConflict" BY <1>3 DEF AssignPorts
  <2>2. NoReadPorts BY <1>3, ReadersUnmatched DEF NoReadPorts
  <2> QED BY <1>2, <2>1, <2>2 DEF AtWork, GaveUp
<1>4. CASE /\ ~\E s \in DOMAIN segments : ReadPorts(s) = <<>>
           /\ \E s \in DOMAIN segments :
                 WritePorts(s) = <<>> \/ (HasBoundary(s) /\ BoundaryPorts(s) = <<>>)
  <2>1. rfStatus' = "WritePortConflict" BY <1>4 DEF AssignPorts
  <2>2. NoWritePorts BY <1>4, WritersUnmatched, BoundariesUnmatched DEF NoWritePorts
  <2> QED BY <1>2, <2>1, <2>2 DEF AtWork, GaveUp
<1>5. CASE /\ ~\E s \in DOMAIN segments : ReadPorts(s) = <<>>
           /\ ~\E s \in DOMAIN segments :
                 WritePorts(s) = <<>> \/ (HasBoundary(s) /\ BoundaryPorts(s) = <<>>)
  <2>1. rfStatus' \in {"SameAddressRWConflict", "VerificationFailure", "Success"}
    BY <1>5 DEF AssignPorts
  <2> QED BY <2>1 DEF AtWork, GaveUp
<1> QED BY <1>3, <1>4, <1>5

-----------------------------------------------------------------------------
LEMMA UncolourableMeans ==
    ASSUME SegmentsListed, LifetimesKept, SelfApart, NEW b \in Nat, Uncolourable(b)
    PROVE  NoColouring
<1>1. PICK z \in Members(b) : TRUE BY DEF Uncolourable
<1>2. z \in DOMAIN segments BY DEF Members
<1>3. {s \in DOMAIN segments : BankKey(s) = BankKey(z)} = Members(b)
  BY <1>1, <1>2, BankOrders DEF Members
<1>4. ASSUME NEW s \in Members(b)
      PROVE  /\ RegistersOf(b)[s] = target.banks[BankKey(z)[2]].allocatable
             /\ s \in DOMAIN segments
  <2>1. s \in DOMAIN segments /\ BankKey(s) = BankKey(z) BY <1>3
  <2>2. segments[s].domain = BankKey(z)[2] BY <2>1 DEF BankKey
  <2> QED BY <2>1, <2>2 DEF RegistersOf, Registers, Bank
<1>5. PICK M, R, C, P : /\ M = Members(b) /\ R = RegistersOf(b) /\ C = ConflictsOf(b)
                        /\ P = Range(target.banks[BankKey(z)[2]].allocatable)
  OBVIOUS
<1>6. \A s \in M : Range(R[s]) = P BY <1>4, <1>5
<1>7. ASSUME NEW f \in [M -> P] PROVE \E s, t \in M : f[s] = f[t] /\ Clash(s, t)
  <2> SUFFICES ASSUME \A s, t \in M : f[s] = f[t] => ~Clash(s, t) PROVE FALSE OBVIOUS
  <2>1. \A s, t \in M : <<s, t>> \in C => f[s] # f[t]
    <3> SUFFICES ASSUME NEW s \in M, NEW t \in M, <<s, t>> \in C, f[s] = f[t] PROVE FALSE
      OBVIOUS
    <3>1. Conflict(s, t) BY <1>5 DEF ConflictsOf
    <3>2. s \in DOMAIN segments /\ t \in DOMAIN segments BY <1>4, <1>5
    <3>3. ~fixedRegisterSelfOverlaps(segments[s]) /\ ~fixedRegisterSelfOverlaps(segments[t])
      BY <3>2 DEF SelfApart
    <3>4. Clash(s, t) \/ Clash(t, s) BY <3>1, <3>2, <3>3, ConflictIsClash
    <3> QED BY <3>4
  <2>2. f \in [M -> UNION {Range(R[s]) : s \in M}]
    <3>1. \A s \in M : f[s] \in UNION {Range(R[t]) : t \in M} BY <1>6
    <3> QED BY <3>1
  <2>3. \A s \in M : f[s] \in Range(R[s]) BY <1>6
  <2>4. f \in Colourings(M, R, C) BY <2>1, <2>2, <2>3 DEF Colourings
  <2> QED BY <1>5, <2>4 DEF Uncolourable
<1>8. BankKey(z) \in {BankKey(s) : s \in DOMAIN segments} BY <1>2
<1> QED BY <1>3, <1>5, <1>7, <1>8 DEF NoColouring

\* The invariant is strong enough.
LEMMA GivingUpIsProof ==
    ASSUME IInv, RInv, SegmentsListed
    PROVE  RejectionIsProof
<1>1. BanksKnown BY KnownBanks
<1>2. rfStatus = "FixedRegisterSelfOverlap" => \E s \in DOMAIN segments : Clash(s, s)
  BY SelfOverlapIsClash DEF RInv, GaveUp, SelfApart
<1>3. rfStatus = "RegisterDepthInfeasible" => NoColouring
  BY UncolourableMeans DEF RInv, GaveUp
<1>4. rfStatus = "ReadPortConflict" => NoReadPorts
  BY <1>1, ReadersCrowd DEF RInv, GaveUp, NoReadPorts
<1>5. rfStatus = "WritePortConflict" => NoWritePorts
  BY <1>1, WritersCrowd DEF RInv, GaveUp, NoWritePorts
<1> QED BY <1>2, <1>3, <1>4, <1>5 DEF RejectionIsProof, NoReadPorts, NoWritePorts, BoundaryEvents

LEMMA RejectionInit == Init => RInv
<1> SUFFICES ASSUME Init PROVE RInv OBVIOUS
<1>1. rfStatus = "idle" /\ trail = <<>> /\ target = Jobs[job].target BY DEF Init, RFInit
<1> QED BY <1>1 DEF RInv, AtWork, GaveUp, Busy, RFRejections

\* Every step keeps it.
LEMMA RejectionStep ==
    ASSUME IInv, RInv, SegmentsListed, SegmentsListed', [Next]_vars
    PROVE  RInv'
<1>1. BanksKnown BY KnownBanks
<1>2. CASE Allocate
  <2>1. /\ phase = "rf" /\ phase' = phase /\ UNCHANGED <<job, target, dfg, mapping>>
    BY <1>2 DEF Allocate, frontVars
  <2>2. AtWork' /\ GaveUp'
    <3>1. CASE Analyze
      <4>1. HasInterval BY <2>1 DEF IInv, Late
      <4>2. trail = <<>> BY <3>1 DEF RInv, AtWork, Analyze
      <4> QED BY <2>1, <3>1, <4>1, <4>2, AfterAnalyze
    <3>2. CASE GreedyColor BY <1>1, <2>1, <3>2, AfterGreedy DEF RInv
    <3>3. CASE ExactSelect BY <1>1, <2>1, <3>3, AfterSelect DEF RInv
    <3>4. CASE ExactTry BY <1>1, <2>1, <3>4, AfterTry DEF RInv
    <3>5. CASE ExactReturn BY <1>1, <2>1, <3>5, AfterReturn DEF RInv
    <3>6. CASE AssignPorts BY <1>1, <2>1, <3>6, AfterPorts
    <3> QED BY <1>2, <3>1, <3>2, <3>3, <3>4, <3>5, <3>6 DEF Allocate, RFNext
  <2> QED BY <2>1, <2>2 DEF RInv, Early
<1>3. CASE UNCHANGED vars
  <2>1. UNCHANGED <<job, target, dfg, mapping, segments, colors, trail, rfStatus, phase>>
    BY <1>3 DEF vars, rfVars
  <2>2. AtWork' /\ GaveUp' BY <2>1, StillAtWork, StillGaveUp DEF RInv
  <2> QED BY <2>1, <2>2 DEF RInv
<1>4. CASE \/ SelectLoop \/ LowerLoop \/ VerifyLoop \/ Bind \/ Legalize \/ OfferCandidate \/ GiveUp
  <2>1. phase \in Early /\ phase' \in Early \cup {"stage", "done"}
    BY <1>4 DEF SelectLoop, LowerLoop, VerifyLoop, Bind, Legalize, OfferCandidate, GiveUp,
                Go, Fail, Early
  <2>2. UNCHANGED <<job, target, trail, rfStatus>>
    BY <1>4 DEF SelectLoop, LowerLoop, VerifyLoop, Bind, Legalize, OfferCandidate, GiveUp,
                graphVars, frontVars, backVars, rfVars
  <2>3. rfStatus' = "idle" /\ trail' = <<>> /\ target' = Jobs[job'].target
    BY <2>1, <2>2 DEF RInv
  <2> QED BY <2>3 DEF RInv, AtWork, GaveUp, Busy, RFRejections
<1>5. CASE AssignStages
  <2>1. phase = "stage" /\ UNCHANGED <<job, target, trail>> BY <1>5 DEF AssignStages, frontVars
  <2>2. rfStatus = "idle" /\ trail' = <<>> /\ target' = Jobs[job'].target BY <2>1 DEF RInv
  <2>3. \/ phase' \in {"map", "done"} /\ rfStatus' = "idle"
        \/ phase' = "rf" /\ rfStatus' = "analyze"
    BY <1>5, <2>2 DEF AssignStages, Go, Fail
  <2> QED BY <2>2, <2>3 DEF RInv, AtWork, GaveUp, Busy, RFRejections, Early
<1>6. CASE Decide
  <2>1. phase = "rf" /\ rfStatus \in RFStatuses /\ UNCHANGED <<job, target>>
    BY <1>6 DEF Decide, frontVars
  <2>2. target' = Jobs[job'].target BY <2>1 DEF RInv
  <2>3. CASE rfStatus # "Success" /\ rfStatus \in RFRejections
    <3>1. phase' = "map" /\ rfStatus' = "idle" /\ trail' = <<>> BY <1>6, <2>3 DEF Decide, Go
    <3> QED BY <2>2, <3>1 DEF RInv, AtWork, GaveUp, Busy, RFRejections
  <2>4. CASE rfStatus = "Success" \/ rfStatus \notin RFRejections
    <3>1. phase' \in {"collect", "done"} /\ rfStatus' = rfStatus
      BY <1>6, <2>4 DEF Decide, Go, Fail, rfVars, RFRejections
    <3>2. rfStatus' \notin Busy BY <2>1, <2>4, <3>1 DEF Busy, RFStatuses, RFRejections
    <3> QED BY <2>2, <3>1, <3>2 DEF RInv, AtWork, GaveUp, Busy, RFRejections, Early
  <2> QED BY <2>3, <2>4
<1>7. CASE \/ CollectEvents \/ Materialize \/ Lower \/ Replay \/ Finish
  <2>1. /\ phase \in {"collect", "materialize", "lower", "replay"}
        /\ phase' \in {"collect", "materialize", "lower", "replay", "done"}
    BY <1>7 DEF CollectEvents, Materialize, Lower, Replay, Finish, Go, Fail
  <2>2. UNCHANGED <<job, target, rfStatus>>
    BY <1>7 DEF CollectEvents, Materialize, Lower, Replay, Finish, frontVars, backVars, rfVars
  <2>3. rfStatus' \notin Busy /\ target' = Jobs[job'].target BY <2>1, <2>2 DEF RInv
  <2> QED BY <2>1, <2>3 DEF RInv, AtWork, GaveUp, Busy, RFRejections, Early
<1> QED BY <1>2, <1>3, <1>4, <1>5, <1>6, <1>7 DEF Next, Terminated

\* RFAllocator, BackendFeasibilityChecker: no registers, or no ports, exist for
\* the segments of a mapping that is thrown away, for every mapping, target and
\* budget.  The storage segments are taken to be a list of segment records.
THEOREM RejectionsAreProved == Spec /\ []SegmentsListed => []RejectionIsProof
<1>1. IInv /\ RInv /\ SegmentsListed /\ SegmentsListed' /\ [Next]_vars => RInv'
  BY RejectionStep
<1>2. IInv /\ RInv /\ SegmentsListed => RejectionIsProof BY GivingUpIsProof
<1> QED BY <1>1, <1>2, RejectionInit, AllocationsStayVerified, PTL DEF Spec
=============================================================================
