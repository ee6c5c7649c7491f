-------------------------- MODULE RouteSearchProofs -------------------------
(***************************************************************************)
(* Dijkstra's algorithm in modulo time is right for every mesh, interval,  *)
(* request and budget: the plans it returns are legal and cheapest, and a  *)
(* search that runs dry has shown that there is no route.                  *)
(*                                                                         *)
(* The invariant is about a search record sr, so that it can also be said  *)
(* of the records between two relaxations of one expansion.                *)
(***************************************************************************)
EXTENDS RouteSearch, NumberLemmas, SequenceTheorems, TLAPS

States == Tiles \X (0 .. request.ii - 1)
Costs == Nat \X Nat \X Nat
Kinds == Directions \cup {"Hold"}
Entries == [cost : Costs, state : States, sequence : Nat]
Parents == [previous : States, kind : Kinds]

\* One more step of a kind: where it leads and what it costs.
Onward(t, k) == IF k = "Hold" THEN t ELSE neighbor(t, k)
Delay(k) == IF k = "Hold" THEN 1 ELSE request.hopLatency
Grown(c, k) ==
    IF k = "Hold" THEN <<c[1] + 1, c[2] + 1, c[3]>>
    ELSE <<c[1] + request.hopLatency, c[2], c[3] + 1>>
May(t, k, elapsed) ==
    IF k = "Hold" THEN request.allowVirtualHold ELSE Usable(t, k, elapsed)
After(s, k) == <<Onward(s[1], k), advance(s[2], Delay(k))>>

Fields == {"best", "pred", "finalized", "queue", "pushes", "expansions", "overBudget"}

Typed(sr) ==
    /\ DOMAIN sr = Fields
    /\ DOMAIN sr.best \subseteq States
    /\ sr.best \in [DOMAIN sr.best -> Costs]
    /\ sr.pred \in [DOMAIN sr.pred -> Parents]
    /\ sr.finalized \subseteq DOMAIN sr.best
    /\ sr.queue \subseteq Entries
    /\ \A e \in sr.queue : e.state \in DOMAIN sr.best /\ e.sequence < sr.pushes
    /\ \A e, f \in sr.queue : e.sequence = f.sequence => e = f
    /\ sr.pushes \in 0 .. request.maxQueuePushes
    /\ sr.expansions \in 0 .. request.maxStateExpansions
    /\ sr.overBudget \in BOOLEAN

\* The slot of a state is the one its cost arrives in.
InTime(sr) ==
    /\ StartState \in DOMAIN sr.best /\ sr.best[StartState] = <<request.ready, 0, 0>>
    /\ \A s \in DOMAIN sr.best : /\ s[2] = advance(request.issueSlot, sr.best[s][1])
                                 /\ sr.best[s][1] >= request.ready

\* Every state but the first was reached from a final one by a legal step.
Descent(sr) ==
    \A s \in DOMAIN sr.best \ {StartState} :
        /\ s \in DOMAIN sr.pred
        /\ LET p == sr.pred[s].previous
               k == sr.pred[s].kind
           IN  /\ p \in sr.finalized
               /\ May(p[1], k, sr.best[p][1])
               /\ s = After(p, k)
               /\ sr.best[s] = Grown(sr.best[p], k)

\* What is not final yet waits in the queue with its present cost.
Queued(sr) ==
    \A s \in DOMAIN sr.best \ sr.finalized :
        \E e \in sr.queue : e.state = s /\ e.cost = sr.best[s]

\* States become final in the order of their costs.
Ordered(sr) ==
    \A s \in sr.finalized : \A u \in DOMAIN sr.best \ sr.finalized :
        ~Less(sr.best[u], sr.best[s])

\* The steps of the kinds K from s have been taken.
Relaxed(sr, s, K) ==
    \A k \in K : May(s[1], k, sr.best[s][1]) =>
        /\ After(s, k) \in DOMAIN sr.best
        /\ ~Less(Grown(sr.best[s], k), sr.best[After(s, k)])

Closed(sr) == \A s \in sr.finalized : Relaxed(sr, s, Kinds)

Searching(sr) ==
    /\ Queued(sr) /\ Ordered(sr) /\ Closed(sr)
    /\ ~sr.overBudget
    /\ \A s \in sr.finalized : s[1] # request.consumer

Statuses == {"searching", "success", "no_path", "budget_exceeded", "internal_error"}

\* The search has stopped at g: the other final states are not on the consumer's
\* tile and have been expanded, and what is not final costs no less than g.
Settled(g) ==
    /\ g \in search.finalized
    /\ \A f \in search.finalized \ {g} : Relaxed(search, f, Kinds) /\ f[1] # request.consumer
    /\ \A u \in DOMAIN search.best \ search.finalized : ~Less(search.best[u], search.best[g])

\* A plan is the route to the state the search stopped at, and a search without a
\* path has emptied its queue.
Found ==
    status = "success" /\ request.producer # request.consumer =>
        \E g \in DOMAIN search.best :
               /\ Settled(g)
               /\ plan.separation = search.best[g][1]
               /\ HoldCycles(plan) = search.best[g][2]
Dry ==
    status = "no_path" /\ request.producer # request.consumer =>
        Searching(search) /\ search.queue = {}

IInv ==
    /\ request \in Requests /\ status \in Statuses
    /\ Typed(search) /\ InTime(search) /\ Descent(search)
    /\ status = "searching" => Searching(search)
    /\ PlanIsLegal /\ Found /\ Dry

-----------------------------------------------------------------------------
(* Costs                                                                   *)

LEMMA LessCosts ==
    ASSUME NEW a \in Costs, NEW b \in Costs
    PROVE  Less(a, b) <=> \/ a[1] < b[1]
                          \/ a[1] = b[1] /\ a[2] < b[2]
                          \/ a[1] = b[1] /\ a[2] = b[2] /\ a[3] < b[3]
<1>1. /\ a[1] \in Nat /\ a[2] \in Nat /\ a[3] \in Nat
      /\ b[1] \in Nat /\ b[2] \in Nat /\ b[3] \in Nat
      /\ DOMAIN a = {1, 2, 3}
  BY DEF Costs
<1> DEFINE At(i) == a[i] < b[i] /\ \A j \in 1 .. i - 1 : a[j] = b[j]
<1>2. Less(a, b) <=> At(1) \/ At(2) \/ At(3) BY <1>1, Zenon DEF Less
<1>3. At(1) <=> a[1] < b[1] OBVIOUS
<1>4. At(2) <=> a[1] = b[1] /\ a[2] < b[2]
  <2>1. \A j : j \in 1 .. 2 - 1 <=> j = 1 OBVIOUS
  <2> QED BY <2>1
<1>5. At(3) <=> a[1] = b[1] /\ a[2] = b[2] /\ a[3] < b[3]
  <2>1. \A j : j \in 1 .. 3 - 1 <=> j = 1 \/ j = 2 OBVIOUS
  <2> QED BY <2>1
<1> QED BY <1>2, <1>3, <1>4, <1>5, Zenon

LEMMA LessPairs ==
    ASSUME NEW a \in Nat \X Nat, NEW b \in Nat \X Nat
    PROVE  Less(a, b) <=> a[1] < b[1] \/ (a[1] = b[1] /\ a[2] < b[2])
<1>1. /\ a[1] \in Nat /\ a[2] \in Nat /\ b[1] \in Nat /\ b[2] \in Nat
      /\ DOMAIN a = {1, 2}
  OBVIOUS
<1>2. /\ \A j : j \in 1 .. 0 <=> FALSE
      /\ \A j : j \in 1 .. 1 <=> j = 1
  OBVIOUS
<1> QED BY <1>1, <1>2 DEF Less

\* The constants of a request.
LEMMA RequestFacts ==
    ASSUME request \in Requests
    PROVE  /\ request.ii \in Nat \ {0} /\ request.hopLatency \in Nat \ {0}
           /\ request.ready \in Nat /\ request.issueSlot \in Nat
           /\ request.issueSlot \in 0 .. request.ii - 1
           /\ request.producer \in Tiles /\ request.consumer \in Tiles
           /\ request.allowVirtualHold \in BOOLEAN
           /\ request.maxQueuePushes \in Nat /\ request.maxStateExpansions \in Nat
           /\ Rows \in Nat \ {0} /\ Cols \in Nat \ {0}
BY RouteAssumption DEF RequestOK

\* A step makes a cost larger and keeps the order of two costs.
LEMMA GrownFacts ==
    ASSUME request \in Requests, NEW a \in Costs, NEW k
    PROVE  /\ Grown(a, k) \in Costs
           /\ Grown(a, k)[1] = a[1] + Delay(k)
           /\ Delay(k) \in Nat \ {0}
           /\ Less(a, Grown(a, k)) /\ ~Less(Grown(a, k), a)
<1>1. a[1] \in Nat /\ a[2] \in Nat /\ a[3] \in Nat BY DEF Costs
<1>2. request.hopLatency \in Nat \ {0} BY RequestFacts
<1>3. Grown(a, k) \in Costs BY <1>1, <1>2 DEF Grown, Costs
<1>4. /\ Grown(a, k)[1] = a[1] + Delay(k) /\ Delay(k) \in Nat \ {0}
  BY <1>1, <1>2 DEF Grown, Delay
<1>5. a[1] < Grown(a, k)[1] BY <1>1, <1>4
<1>6. Grown(a, k)[1] \in Nat BY <1>1, <1>4
<1>7. Less(a, Grown(a, k)) BY <1>3, <1>5, LessCosts, Zenon
<1>8. ~Less(Grown(a, k), a)
  <2>1. ~(Grown(a, k)[1] < a[1]) /\ Grown(a, k)[1] # a[1] BY <1>1, <1>5, <1>6
  <2> QED BY <2>1, <1>3, LessCosts, Zenon
<1> QED BY <1>3, <1>4, <1>7, <1>8

LEMMA GrownMonotone ==
    ASSUME request \in Requests, NEW a \in Costs, NEW b \in Costs, NEW k, ~Less(a, b)
    PROVE  ~Less(Grown(a, k), Grown(b, k))
<1>1. /\ a[1] \in Nat /\ a[2] \in Nat /\ a[3] \in Nat
      /\ b[1] \in Nat /\ b[2] \in Nat /\ b[3] \in Nat
  BY DEF Costs
<1>2. request.hopLatency \in Nat \ {0} BY RequestFacts
<1>3. Grown(a, k) \in Costs /\ Grown(b, k) \in Costs BY GrownFacts
<1>4. CASE k = "Hold" BY <1>1, <1>3, <1>4, LessCosts DEF Grown
<1>5. CASE k # "Hold" BY <1>1, <1>2, <1>3, <1>5, LessCosts DEF Grown
<1> QED BY <1>4, <1>5

LEMMA LessOrder ==
    ASSUME NEW a \in Costs, NEW b \in Costs, NEW c \in Costs
    PROVE  /\ ~Less(a, a)
           /\ Less(a, b) => ~Less(b, a)
           /\ ~Less(a, b) /\ ~Less(b, c) => ~Less(a, c)
           /\ Less(a, b) /\ ~Less(c, b) => Less(a, c)
<1>1. /\ a[1] \in Nat /\ a[2] \in Nat /\ a[3] \in Nat
      /\ b[1] \in Nat /\ b[2] \in Nat /\ b[3] \in Nat
      /\ c[1] \in Nat /\ c[2] \in Nat /\ c[3] \in Nat
  BY DEF Costs
<1> DEFINE Lex(x, y) == \/ x[1] < y[1]
                        \/ x[1] = y[1] /\ x[2] < y[2]
                        \/ x[1] = y[1] /\ x[2] = y[2] /\ x[3] < y[3]
<1>2. /\ Less(a, a) <=> Lex(a, a)
      /\ Less(a, b) <=> Lex(a, b)
      /\ Less(b, a) <=> Lex(b, a)
      /\ Less(b, c) <=> Lex(b, c)
      /\ Less(a, c) <=> Lex(a, c)
      /\ Less(c, b) <=> Lex(c, b)
  BY LessCosts, Zenon
<1> QED BY <1>1, <1>2

-----------------------------------------------------------------------------
(* Modulo time                                                             *)

LEMMA AdvanceFacts ==
    ASSUME request \in Requests, NEW a \in Nat, NEW b \in Nat
    PROVE  /\ advance(request.issueSlot, a) \in 0 .. request.ii - 1
           /\ advance(advance(request.issueSlot, a), b) = advance(request.issueSlot, a + b)
<1> DEFINE n == request.ii
           x == request.issueSlot + a
<1>1. n \in Nat \ {0} /\ x \in Int /\ b \in Int BY RequestFacts
<1>2. ((x % n) + b) % n = (x + b) % n
  BY <1>1, ModSum, Zenon
<1>3. x % n \in Int /\ 0 =< x % n /\ x % n < n BY <1>1, DivMod
<1>4. x + b = request.issueSlot + (a + b) BY RequestFacts
<1> QED BY <1>1, <1>2, <1>3, <1>4 DEF advance

\* A legal step leads from a state in time to a state in time.
LEMMA AfterFacts ==
    ASSUME request \in Requests, NEW s \in States, NEW c \in Costs, NEW k \in Kinds,
           s[2] = advance(request.issueSlot, c[1]), May(s[1], k, c[1])
    PROVE  /\ After(s, k) \in States
           /\ After(s, k)[1] = Onward(s[1], k)
           /\ After(s, k)[2] = advance(request.issueSlot, Grown(c, k)[1])
<1>1. c[1] \in Nat BY DEF Costs
<1>2. /\ Grown(c, k)[1] = c[1] + Delay(k) /\ Delay(k) \in Nat BY GrownFacts
<1>3. /\ advance(s[2], Delay(k)) = advance(request.issueSlot, Grown(c, k)[1])
      /\ advance(request.issueSlot, Grown(c, k)[1]) \in 0 .. request.ii - 1
  <2>1. Grown(c, k)[1] \in Nat BY <1>1, <1>2
  <2> QED BY <2>1, <1>1, <1>2, AdvanceFacts
<1>4. Onward(s[1], k) \in Tiles
  <2>1. s[1] \in Tiles BY DEF States
  <2> QED BY <2>1 DEF Onward, May, Usable
<1> QED BY <1>3, <1>4 DEF After, States
-----------------------------------------------------------------------------
(* The queue                                                               *)

\* What an entry is ordered by: cost, state, sequence.
Key(e) == e.cost \o <<stateId(e.state), e.sequence>>

LEMMA KeyFacts ==
    ASSUME request \in Requests, NEW e \in Entries
    PROVE  /\ DOMAIN Key(e) = {1, 2, 3, 4, 5}
           /\ \A i \in {1, 2, 3, 4, 5} : Key(e)[i] \in Nat
           /\ \A i \in {1, 2, 3} : Key(e)[i] = e.cost[i]
           /\ Key(e)[5] = e.sequence
<1>1. /\ e.cost \in Costs /\ e.sequence \in Nat /\ e.state \in States BY DEF Entries
<1>2. /\ e.state[2] \in Nat /\ e.state[1][1] \in Nat /\ e.state[1][2] \in Nat
  BY <1>1, RequestFacts DEF States, Tiles
<1>3. stateId(e.state) \in Nat
  <2>1. \A x, y \in Nat : x * y \in Nat /\ x + y \in Nat OBVIOUS
  <2> QED BY <2>1, <1>2, RequestFacts DEF stateId
<1> DEFINE c == e.cost
           t == <<stateId(e.state), e.sequence>>
<1>4. c \in Seq(Nat) /\ Len(c) = 3
  <2>1. c[1] \in Nat /\ c[2] \in Nat /\ c[3] \in Nat /\ c = <<c[1], c[2], c[3]>>
    BY <1>1 DEF Costs
  <2>2. <<c[1], c[2], c[3]>> \in Seq(Nat) /\ Len(<<c[1], c[2], c[3]>>) = 3 BY <2>1
  <2> QED BY <2>1, <2>2, Zenon
<1>5. t \in Seq(Nat) /\ Len(t) = 2 BY <1>1, <1>3
<1>6. /\ Len(c \o t) = 5 /\ c \o t \in Seq(Nat)
      /\ \A i \in 1 .. 5 : (c \o t)[i] = IF i =< 3 THEN c[i] ELSE t[i - 3]
  <2> HIDE DEF c, t
  <2>1. /\ c \o t \in Seq(Nat)
        /\ Len(c \o t) = Len(c) + Len(t)
        /\ \A i \in 1 .. Len(c) + Len(t) :
              (c \o t)[i] = IF i <= Len(c) THEN c[i] ELSE t[i - Len(c)]
    BY <1>4, <1>5, ConcatProperties, Zenon
  <2>2. Len(c) + Len(t) = 5 BY <1>4, <1>5
  <2> DEFINE k == c \o t
  <2>3. /\ k \in Seq(Nat) /\ Len(k) = Len(c) + Len(t)
        /\ \A i \in 1 .. Len(c) + Len(t) :
              k[i] = IF i <= Len(c) THEN c[i] ELSE t[i - Len(c)]
    BY <2>1, Zenon
  <2> HIDE DEF k
  <2>4. /\ Len(k) = 5 /\ k \in Seq(Nat)
        /\ \A i \in 1 .. 5 : k[i] = IF i =< 3 THEN c[i] ELSE t[i - 3]
    BY <2>2, <2>3, <1>4, <1>5
  <2> QED BY <2>4, Zenon DEF k
<1>7. \A i : i \in 1 .. 5 <=> i \in {1, 2, 3, 4, 5} OBVIOUS
<1>8. Key(e) = c \o t BY DEF Key
<1>9. t[2] = e.sequence OBVIOUS
<1> HIDE DEF c, t
<1> DEFINE k == c \o t
<1>10. /\ k \in Seq(Nat) /\ Len(k) = 5
       /\ \A i \in 1 .. 5 : k[i] = IF i =< 3 THEN c[i] ELSE t[i - 3]
  BY <1>6
<1>15. Key(e) = k BY <1>8
<1> HIDE DEF k
<1>11. DOMAIN k = {1, 2, 3, 4, 5} BY <1>10
<1>12. \A i \in {1, 2, 3, 4, 5} : k[i] \in Nat
  <2>1. \A i \in 1 .. Len(k) : k[i] \in Nat BY <1>10, ElementOfSeq
  <2> QED BY <2>1, <1>10, <1>7
<1>13. (\A i \in {1, 2, 3} : k[i] = c[i]) /\ k[5] = t[2] BY <1>10
<1> QED BY <1>9, <1>11, <1>12, <1>13, <1>15 DEF c

\* An entry is before another when the first of its keys that differs is less.
LEMMA BeforeFacts ==
    ASSUME request \in Requests, NEW e \in Entries, NEW f \in Entries,
           NEW i \in {1, 2, 3, 4, 5}, Key(e)[i] < Key(f)[i],
           \A j \in {1, 2, 3, 4, 5} : j < i => Key(e)[j] = Key(f)[j]
    PROVE  Before(e, f)
<1>1. i \in DOMAIN Key(e) BY KeyFacts
<1>2. \A j \in 1 .. i - 1 : j \in {1, 2, 3, 4, 5} /\ j < i OBVIOUS
<1>3. Less(Key(e), Key(f)) BY <1>1, <1>2, Zenon DEF Less
<1> QED BY <1>3 DEF Before, Key

LEMMA BeforeCosts ==
    ASSUME request \in Requests, NEW e \in Entries, NEW f \in Entries, Before(e, f)
    PROVE  ~Less(f.cost, e.cost)
<1>1. Less(Key(e), Key(f)) BY DEF Before, Key
<1>2. PICK i \in {1, 2, 3, 4, 5} :
         Key(e)[i] < Key(f)[i] /\ \A j \in 1 .. i - 1 : Key(e)[j] = Key(f)[j]
  BY <1>1, KeyFacts DEF Less
<1>3. e.cost \in Costs /\ f.cost \in Costs BY DEF Entries
<1>4. /\ e.cost[1] \in Nat /\ e.cost[2] \in Nat /\ e.cost[3] \in Nat
      /\ f.cost[1] \in Nat /\ f.cost[2] \in Nat /\ f.cost[3] \in Nat
  BY <1>3 DEF Costs
<1>5. /\ Key(e)[1] = e.cost[1] /\ Key(e)[2] = e.cost[2] /\ Key(e)[3] = e.cost[3]
      /\ Key(f)[1] = f.cost[1] /\ Key(f)[2] = f.cost[2] /\ Key(f)[3] = f.cost[3]
  BY KeyFacts
<1>6. \/ e.cost[1] < f.cost[1]
      \/ e.cost[1] = f.cost[1] /\ e.cost[2] < f.cost[2]
      \/ e.cost[1] = f.cost[1] /\ e.cost[2] = f.cost[2] /\ e.cost[3] =< f.cost[3]
  <2>1. CASE i = 1 BY <2>1, <1>2, <1>5
  <2>2. CASE i = 2
    <3>1. 1 \in 1 .. i - 1 BY <2>2
    <3> QED BY <3>1, <2>2, <1>2, <1>5
  <2>3. CASE i = 3
    <3>1. 1 \in 1 .. i - 1 /\ 2 \in 1 .. i - 1 BY <2>3
    <3> QED BY <3>1, <2>3, <1>2, <1>4, <1>5
  <2>4. CASE i \in {4, 5}
    <3>1. 1 \in 1 .. i - 1 /\ 2 \in 1 .. i - 1 /\ 3 \in 1 .. i - 1 BY <2>4
    <3> QED BY <3>1, <1>2, <1>4, <1>5
  <2> QED BY <2>1, <2>2, <2>3, <2>4
<1> DEFINE Lex(x, y) == \/ x[1] < y[1]
                        \/ x[1] = y[1] /\ x[2] < y[2]
                        \/ x[1] = y[1] /\ x[2] = y[2] /\ x[3] < y[3]
<1>7. Less(f.cost, e.cost) <=> Lex(f.cost, e.cost) BY <1>3, LessCosts, Zenon
<1>8. ~Lex(f.cost, e.cost) BY <1>4, <1>6
<1> QED BY <1>7, <1>8

\* Sequence numbers are unique, so a queue that is not empty has one first entry,
\* and none is cheaper.
LEMMA TopFacts ==
    ASSUME request \in Requests, search.queue \subseteq Entries, search.queue # {},
           \A e, f \in search.queue : e.sequence = f.sequence => e = f
    PROVE  /\ Top \in search.queue
           /\ \A f \in search.queue : ~Less(f.cost, Top.cost)
<1> DEFINE Q == search.queue
           F(i) == [e \in Q |-> Key(e)[i]]
<1> DEFINE Least(i, S, T) == /\ T # {}
                             /\ \A x, y \in T : Key(x)[i] = Key(y)[i]
                             /\ \A x \in T, y \in S \ T : Key(x)[i] < Key(y)[i]
<1>1. ASSUME NEW i \in {1, 2, 3, 4, 5}, NEW S, S \subseteq Q, S # {}
      PROVE  \E T : T \subseteq S /\ T \subseteq Q /\ T # {} /\ Least(i, S, T)
  <2>1. \A x \in S : F(i)[x] = Key(x)[i] /\ F(i)[x] \in Nat BY <1>1, KeyFacts
  <2> HIDE DEF F
  <2>2. PICK T \in SUBSET S : /\ T # {}
                              /\ \A x, y \in T : F(i)[x] = F(i)[y]
                              /\ \A x \in T, y \in S \ T : F(i)[x] < F(i)[y]
    <3> DEFINE g == F(i)
    <3>1. \A x \in S : g[x] \in Nat BY <2>1
    <3> HIDE DEF g
    <3>2. \E T \in SUBSET S : /\ T # {}
                              /\ \A x, y \in T : g[x] = g[y]
                              /\ \A x \in T, y \in S \ T : g[x] < g[y]
      BY <1>1, <3>1, SmallestMeasure
    <3> QED BY <3>2 DEF g
  <2>3. Least(i, S, T) BY <2>1, <2>2
  <2> QED BY <1>1, <2>2, <2>3
<1> HIDE DEF Least
<1>2. PICK A : A \subseteq Q /\ A \subseteq Q /\ A # {} /\ Least(1, Q, A) BY <1>1
<1>3. PICK B : B \subseteq A /\ B \subseteq Q /\ B # {} /\ Least(2, A, B) BY <1>1, <1>2
<1>4. PICK C : C \subseteq B /\ C \subseteq Q /\ C # {} /\ Least(3, B, C) BY <1>1, <1>3
<1>5. PICK D : D \subseteq C /\ D \subseteq Q /\ D # {} /\ Least(4, C, D) BY <1>1, <1>4
<1>6. PICK E : E \subseteq D /\ E \subseteq Q /\ E # {} /\ Least(5, D, E) BY <1>1, <1>5
<1> USE DEF Least
<1>7. PICK e \in E : TRUE BY <1>6
<1>8. e \in Q /\ e \in A /\ e \in B /\ e \in C /\ e \in D
  BY <1>2, <1>3, <1>4, <1>5, <1>6, <1>7
<1>9. ASSUME NEW f \in Q \ {e} PROVE Before(e, f)
  <2>0. e \in Entries /\ f \in Entries BY <1>8
  <2>1. CASE f \notin A
    <3>1. Key(e)[1] < Key(f)[1] BY <2>1, <1>2, <1>8
    <3> QED BY <3>1, <2>0, BeforeFacts
  <2>2. CASE f \in A /\ f \notin B
    <3>1. Key(e)[1] = Key(f)[1] /\ Key(e)[2] < Key(f)[2] BY <2>2, <1>2, <1>3, <1>8
    <3> QED BY <3>1, <2>0, BeforeFacts
  <2>3. CASE f \in B /\ f \notin C
    <3>1. /\ Key(e)[1] = Key(f)[1] /\ Key(e)[2] = Key(f)[2] /\ Key(e)[3] < Key(f)[3]
      BY <2>3, <1>2, <1>3, <1>4, <1>8
    <3> QED BY <3>1, <2>0, BeforeFacts
  <2>4. CASE f \in C /\ f \notin D
    <3>1. /\ Key(e)[1] = Key(f)[1] /\ Key(e)[2] = Key(f)[2] /\ Key(e)[3] = Key(f)[3]
          /\ Key(e)[4] < Key(f)[4]
      BY <2>4, <1>2, <1>3, <1>4, <1>5, <1>8
    <3> QED BY <3>1, <2>0, BeforeFacts
  <2>5. CASE f \in D /\ f \notin E
    <3>1. /\ Key(e)[1] = Key(f)[1] /\ Key(e)[2] = Key(f)[2] /\ Key(e)[3] = Key(f)[3]
          /\ Key(e)[4] = Key(f)[4] /\ Key(e)[5] < Key(f)[5]
      BY <2>5, <1>2, <1>3, <1>4, <1>5, <1>6, <1>7, <1>8
    <3> QED BY <3>1, <2>0, BeforeFacts
  <2>6. CASE f \in E
    <3>1. Key(e)[5] = Key(f)[5] BY <2>6, <1>6, <1>7
    <3>2. e.sequence = f.sequence BY <3>1, <2>0, KeyFacts
    <3> QED BY <3>2, <1>8, <1>9
  <2> QED BY <2>1, <2>2, <2>3, <2>4, <2>5, <2>6
<1>10. Top \in Q /\ \A f \in Q \ {Top} : Before(Top, f)
  BY <1>8, <1>9 DEF Top
<1>11. ASSUME NEW f \in Q PROVE ~Less(f.cost, Top.cost)
  <2>1. f \in Entries /\ Top \in Entries BY <1>10
  <2>2. CASE f = Top
    <3>1. f.cost \in Costs BY <2>1 DEF Entries
    <3> QED BY <3>1, <2>2, LessOrder
  <2>3. CASE f # Top BY <2>1, <2>3, <1>10, BeforeCosts
  <2> QED BY <2>2, <2>3
<1> QED BY <1>10, <1>11
-----------------------------------------------------------------------------
(* One relaxation                                                          *)

\* Where an expansion of s stands when the steps of the kinds K are taken: s is
\* the last state that became final, and no final state costs more.
Amid(sr, s, K) ==
    /\ Typed(sr) /\ InTime(sr) /\ Descent(sr) /\ Ordered(sr)
    /\ s \in sr.finalized
    /\ \A f \in sr.finalized : ~Less(sr.best[s], sr.best[f]) /\ f[1] # request.consumer
    /\ ~sr.overBudget => /\ Queued(sr)
                         /\ \A f \in sr.finalized \ {s} : Relaxed(sr, f, Kinds)
                         /\ Relaxed(sr, s, K)

NewBest(sr, to, cost) ==
    [x \in DOMAIN sr.best \cup {to} |-> IF x = to THEN cost ELSE sr.best[x]]
NewPred(sr, s, to, kind) ==
    [x \in DOMAIN sr.pred \cup {to} |->
        IF x = to THEN [previous |-> s, kind |-> kind] ELSE sr.pred[x]]

\* What a relaxation that finds a better cost does to the record.
Recorded(q, sr, s, to, cost, kind) ==
    /\ DOMAIN q = Fields
    /\ q.best = NewBest(sr, to, cost) /\ q.pred = NewPred(sr, s, to, kind)
    /\ q.finalized = sr.finalized /\ q.expansions = sr.expansions
    /\ sr.pushes >= request.maxQueuePushes =>
          q.queue = sr.queue /\ q.pushes = sr.pushes /\ q.overBudget = TRUE
    /\ ~(sr.pushes >= request.maxQueuePushes) =>
          /\ q.queue = sr.queue \cup
                {[cost |-> cost, state |-> to, sequence |-> sr.pushes]}
          /\ q.pushes = sr.pushes + 1 /\ q.overBudget = FALSE

LEMMA RelaxRecord ==
    ASSUME NEW sr, Typed(sr), NEW s, NEW to, NEW cost, NEW kind,
           ~sr.overBudget, to \notin sr.finalized, Better(cost, sr.best, to),
           NEW q, q = relaxTo(sr, s, to, cost, kind)
    PROVE  Recorded(q, sr, s, to, cost, kind)
<1> DEFINE B == NewBest(sr, to, cost)
           P == NewPred(sr, s, to, kind)
           mid == [sr EXCEPT !.best = B, !.pred = P]
           entry == [cost |-> cost, state |-> to, sequence |-> sr.pushes]
<1>1. relaxTo(sr, s, to, cost, kind) =
         IF sr.pushes >= request.maxQueuePushes
         THEN [mid EXCEPT !.overBudget = TRUE]
         ELSE [mid EXCEPT !.queue = @ \cup {entry}, !.pushes = @ + 1]
  BY DEF relaxTo, NewBest, NewPred
<1> HIDE DEF B, P, entry
<1>2. DOMAIN sr = Fields /\ sr.overBudget = FALSE BY DEF Typed
<1>3. /\ DOMAIN mid = Fields /\ mid.best = B /\ mid.pred = P
      /\ mid.finalized = sr.finalized /\ mid.queue = sr.queue /\ mid.pushes = sr.pushes
      /\ mid.expansions = sr.expansions /\ mid.overBudget = FALSE
  BY <1>2 DEF Fields
<1> HIDE DEF mid
<1>4. CASE sr.pushes >= request.maxQueuePushes
  <2> DEFINE r == [mid EXCEPT !.overBudget = TRUE]
  <2>1. /\ DOMAIN r = Fields /\ r.best = B /\ r.pred = P
        /\ r.finalized = sr.finalized /\ r.queue = sr.queue /\ r.pushes = sr.pushes
        /\ r.expansions = sr.expansions /\ r.overBudget = TRUE
    BY <1>3 DEF Fields
  <2>2. q = r BY <1>1, <1>4
  <2> HIDE DEF r
  <2> QED BY <2>1, <2>2, <1>4 DEF B, P, Recorded
<1>5. CASE ~(sr.pushes >= request.maxQueuePushes)
  <2> DEFINE r == [mid EXCEPT !.queue = @ \cup {entry}, !.pushes = @ + 1]
  <2>1. /\ DOMAIN r = Fields /\ r.best = B /\ r.pred = P
        /\ r.finalized = sr.finalized /\ r.queue = sr.queue \cup {entry}
        /\ r.pushes = sr.pushes + 1
        /\ r.expansions = sr.expansions /\ r.overBudget = FALSE
    BY <1>3 DEF Fields
  <2>2. q = r BY <1>1, <1>5
  <2> HIDE DEF r
  <2> QED BY <2>1, <2>2, <1>5 DEF B, P, entry, Recorded
<1> QED BY <1>4, <1>5

LEMMA RelaxStep ==
    ASSUME request \in Requests, NEW sr, NEW s, NEW K, NEW k \in Kinds,
           Amid(sr, s, K), May(s[1], k, sr.best[s][1])
    PROVE  Amid(relaxTo(sr, s, After(s, k), Grown(sr.best[s], k), k), s, K \cup {k})
<1> DEFINE to == After(s, k)
           cost == Grown(sr.best[s], k)
<1>1. /\ Typed(sr) /\ InTime(sr) /\ Descent(sr) /\ Ordered(sr)
      /\ s \in sr.finalized
      /\ \A f \in sr.finalized : ~Less(sr.best[s], sr.best[f]) /\ f[1] # request.consumer
      /\ ~sr.overBudget => /\ Queued(sr)
                           /\ \A f \in sr.finalized \ {s} : Relaxed(sr, f, Kinds)
                           /\ Relaxed(sr, s, K)
  BY DEF Amid
<1>2. /\ s \in DOMAIN sr.best /\ s \in States /\ sr.best[s] \in Costs
      /\ s[2] = advance(request.issueSlot, sr.best[s][1])
      /\ sr.best[s][1] >= request.ready
      /\ \A x \in DOMAIN sr.best : sr.best[x] \in Costs /\ x \in States
      /\ sr.finalized \subseteq DOMAIN sr.best
  BY <1>1 DEF Typed, InTime
<1>3. /\ to \in States
      /\ to[2] = advance(request.issueSlot, cost[1])
  BY <1>2, AfterFacts
<1>4. /\ cost \in Costs /\ cost[1] > sr.best[s][1]
      /\ Less(sr.best[s], cost) /\ ~Less(cost, sr.best[s])
  <2>1. sr.best[s][1] \in Nat BY <1>2 DEF Costs
  <2> QED BY <2>1, <1>2, GrownFacts
<1> HIDE DEF cost
<1>5. CASE sr.overBudget \/ to \in sr.finalized \/ ~Better(cost, sr.best, to)
  <2>1. relaxTo(sr, s, to, cost, k) = sr BY <1>5 DEF relaxTo
  <2>2. ~sr.overBudget => to \in DOMAIN sr.best /\ ~Less(cost, sr.best[to])
    <3>1. CASE to \in sr.finalized
      <4>1. ~Less(sr.best[s], sr.best[to]) /\ sr.best[to] \in Costs BY <3>1, <1>1, <1>2
      <4> QED BY <4>1, <3>1, <1>2, <1>4, LessOrder
    <3>2. CASE ~Better(cost, sr.best, to) BY <3>2 DEF Better
    <3> QED BY <3>1, <3>2, <1>5
  <2>3. ~sr.overBudget => Relaxed(sr, s, K \cup {k})
    <3> SUFFICES ASSUME ~sr.overBudget, NEW j \in K \cup {k},
                        May(s[1], j, sr.best[s][1])
                 PROVE  /\ After(s, j) \in DOMAIN sr.best
                        /\ ~Less(Grown(sr.best[s], j), sr.best[After(s, j)])
      BY DEF Relaxed
    <3>1. CASE j = k BY <3>1, <2>2 DEF cost
    <3>2. CASE j \in K BY <3>2, <1>1 DEF Relaxed
    <3> QED BY <3>1, <3>2
  <2> QED BY <1>1, <2>1, <2>3 DEF Amid, cost
<1>6. CASE ~sr.overBudget /\ to \notin sr.finalized /\ Better(cost, sr.best, to)
  <2>1. PICK r : r = relaxTo(sr, s, to, cost, k) OBVIOUS
  <2> DEFINE full == sr.pushes >= request.maxQueuePushes
             entry == [cost |-> cost, state |-> to, sequence |-> sr.pushes]
  <2> HIDE DEF to
  <2>2. /\ DOMAIN r = Fields
        /\ r.best = NewBest(sr, to, cost) /\ r.pred = NewPred(sr, s, to, k)
        /\ r.finalized = sr.finalized /\ r.expansions = sr.expansions
        /\ full => r.queue = sr.queue /\ r.pushes = sr.pushes /\ r.overBudget = TRUE
        /\ ~full => /\ r.queue = sr.queue \cup {entry}
                    /\ r.pushes = sr.pushes + 1 /\ r.overBudget = FALSE
    <3>1. Typed(sr) /\ ~sr.overBudget /\ to \notin sr.finalized /\ Better(cost, sr.best, to)
      BY <1>1, <1>6
    <3>2. Recorded(r, sr, s, to, cost, k) BY <3>1, <2>1, RelaxRecord, Zenon
    <3> QED BY <3>2 DEF Recorded
  <2>3. /\ DOMAIN r.best = DOMAIN sr.best \cup {to}
        /\ r.best[to] = cost
        /\ \A x \in DOMAIN sr.best : x # to => r.best[x] = sr.best[x]
        /\ \A f \in sr.finalized : f # to /\ r.best[f] = sr.best[f]
    BY <1>2, <1>6, <2>2 DEF NewBest
  <2>4. /\ DOMAIN r.pred = DOMAIN sr.pred \cup {to}
        /\ r.pred[to] = [previous |-> s, kind |-> k]
        /\ \A x \in DOMAIN sr.pred : x # to => r.pred[x] = sr.pred[x]
        /\ r.pred = [x \in DOMAIN r.pred |-> r.pred[x]]
    BY <2>2 DEF NewPred
  <2>5. r.best = [x \in DOMAIN r.best |-> r.best[x]] BY <2>2 DEF NewBest
  <2>6. /\ sr.pushes \in Nat /\ request.maxQueuePushes \in Nat
        /\ sr.pushes =< request.maxQueuePushes
    BY <1>1, RequestFacts DEF Typed
  <2>7. Typed(r)
    <3>1. entry \in Entries BY <1>3, <1>4, <2>6 DEF Entries
    <3>2. r.best \in [DOMAIN r.best -> Costs] /\ DOMAIN r.best \subseteq States
      BY <1>2, <1>3, <1>4, <2>3, <2>5
    <3>3. r.pred \in [DOMAIN r.pred -> Parents]
      <4>1. [previous |-> s, kind |-> k] \in Parents BY <1>2 DEF Parents
      <4>2. \A x \in DOMAIN sr.pred : sr.pred[x] \in Parents BY <1>1 DEF Typed
      <4> QED BY <4>1, <4>2, <2>4
    <3>4. r.queue \subseteq Entries BY <3>1, <2>2, <1>1 DEF Typed
    <3>5. \A e \in r.queue : e.state \in DOMAIN r.best /\ e.sequence < r.pushes
      <4>1. \A e \in sr.queue : e.state \in DOMAIN sr.best /\ e.sequence < sr.pushes
                                 /\ e.sequence \in Nat
        BY <1>1 DEF Typed, Entries
      <4>2. entry.state = to /\ entry.sequence = sr.pushes OBVIOUS
      <4> QED BY <4>1, <4>2, <2>2, <2>3, <2>6
    <3>6. \A e, f \in r.queue : e.sequence = f.sequence => e = f
      <4>1. /\ \A e \in sr.queue : e.sequence < sr.pushes /\ e.sequence \in Nat
            /\ \A e, f \in sr.queue : e.sequence = f.sequence => e = f
        BY <1>1 DEF Typed, Entries
      <4>2. entry.sequence = sr.pushes OBVIOUS
      <4> QED BY <4>1, <4>2, <2>2, <2>6
    <3>7. r.pushes \in 0 .. request.maxQueuePushes BY <2>2, <2>6
    <3>8. r.overBudget \in BOOLEAN BY <2>2
    <3> QED BY <3>2, <3>3, <3>4, <3>5, <3>6, <3>7, <3>8, <2>2, <2>3, <1>1 DEF Typed
  <2>8. to # StartState
    <3>1. /\ StartState \in DOMAIN sr.best
          /\ sr.best[StartState] = <<request.ready, 0, 0>>
      BY <1>1 DEF InTime
    <3>2. /\ sr.best[StartState] \in Costs /\ request.ready \in Nat
          /\ sr.best[StartState][1] = request.ready
      BY <3>1, RequestFacts DEF Costs
    <3>3. cost[1] \in Nat /\ sr.best[s][1] \in Nat BY <1>2, <1>4 DEF Costs
    <3>4. ~(cost[1] < sr.best[StartState][1]) /\ cost[1] # sr.best[StartState][1]
      BY <3>2, <3>3, <1>2, <1>4
    <3>5. ~Less(cost, sr.best[StartState]) BY <3>2, <3>4, <1>4, LessCosts, Zenon
    <3> QED BY <3>1, <3>5, <1>6 DEF Better
  <2>9. InTime(r)
    <3>1. cost[1] >= request.ready
      <4>1. cost[1] \in Nat /\ sr.best[s][1] \in Nat /\ request.ready \in Nat
        BY <1>2, <1>4, RequestFacts DEF Costs
      <4> QED BY <4>1, <1>2, <1>4
    <3> QED BY <3>1, <1>1, <1>3, <2>3, <2>8 DEF InTime
  <2>10. Descent(r)
    <3> SUFFICES ASSUME NEW x \in DOMAIN r.best \ {StartState}
                 PROVE  /\ x \in DOMAIN r.pred
                        /\ r.pred[x].previous \in r.finalized
                        /\ May(r.pred[x].previous[1], r.pred[x].kind,
                               r.best[r.pred[x].previous][1])
                        /\ x = After(r.pred[x].previous, r.pred[x].kind)
                        /\ r.best[x] = Grown(r.best[r.pred[x].previous], r.pred[x].kind)
      BY DEF Descent
    <3>1. CASE x = to
      <4>1. r.pred[x].previous = s /\ r.pred[x].kind = k BY <3>1, <2>4
      <4> QED BY <4>1, <3>1, <2>2, <2>3, <2>4, <1>1 DEF cost, to
    <3>2. CASE x # to
      <4>1. x \in DOMAIN sr.best \ {StartState} BY <3>2, <2>3
      <4>2. /\ x \in DOMAIN sr.pred
            /\ sr.pred[x].previous \in sr.finalized
            /\ May(sr.pred[x].previous[1], sr.pred[x].kind,
                   sr.best[sr.pred[x].previous][1])
            /\ x = After(sr.pred[x].previous, sr.pred[x].kind)
            /\ sr.best[x] = Grown(sr.best[sr.pred[x].previous], sr.pred[x].kind)
        BY <4>1, <1>1 DEF Descent
      <4>3. /\ r.pred[x] = sr.pred[x] /\ r.best[x] = sr.best[x]
            /\ r.best[sr.pred[x].previous] = sr.best[sr.pred[x].previous]
        BY <4>1, <4>2, <3>2, <2>3, <2>4
      <4> QED BY <4>2, <4>3, <2>2, <2>4
    <3> QED BY <3>1, <3>2
  <2>11. \A f \in r.finalized : ~Less(r.best[s], r.best[f]) /\ f[1] # request.consumer
    BY <1>1, <2>2, <2>3
  <2>12. Ordered(r)
    <3> SUFFICES ASSUME NEW f \in r.finalized, NEW u \in DOMAIN r.best \ r.finalized
                 PROVE  ~Less(r.best[u], r.best[f])
      BY DEF Ordered
    <3>1. f \in sr.finalized /\ r.best[f] = sr.best[f] /\ sr.best[f] \in Costs
      BY <1>2, <2>2, <2>3
    <3>2. CASE u = to
      <4>1. ~Less(cost, sr.best[s]) /\ ~Less(sr.best[s], sr.best[f]) BY <3>1, <1>1, <1>4
      <4> QED BY <4>1, <3>1, <3>2, <2>3, <1>2, <1>4, LessOrder
    <3>3. CASE u # to BY <3>1, <3>3, <2>2, <2>3, <1>1 DEF Ordered
    <3> QED BY <3>2, <3>3
  <2>13. ASSUME ~r.overBudget PROVE Queued(r)
    <3>1. ~full BY <2>2, <2>13
    <3> SUFFICES ASSUME NEW x \in DOMAIN r.best \ r.finalized
                 PROVE  \E e \in r.queue : e.state = x /\ e.cost = r.best[x]
      BY DEF Queued
    <3>2. CASE x = to
      <4>1. entry \in r.queue /\ entry.state = to /\ entry.cost = cost BY <3>1, <2>2
      <4> QED BY <4>1, <3>2, <2>3
    <3>3. CASE x # to
      <4>1. x \in DOMAIN sr.best \ sr.finalized /\ r.best[x] = sr.best[x]
        BY <3>3, <2>2, <2>3
      <4>2. \E e \in sr.queue : e.state = x /\ e.cost = sr.best[x]
        BY <4>1, <1>1, <1>6 DEF Queued
      <4> QED BY <4>1, <4>2, <3>1, <2>2
    <3> QED BY <3>2, <3>3
  \* A cost that was good enough before is good enough now.
  <2>14. ASSUME NEW f \in sr.finalized, NEW J, Relaxed(sr, f, J) PROVE Relaxed(r, f, J)
    <3> SUFFICES ASSUME NEW j \in J, May(f[1], j, r.best[f][1])
                 PROVE  /\ After(f, j) \in DOMAIN r.best
                        /\ ~Less(Grown(r.best[f], j), r.best[After(f, j)])
      BY DEF Relaxed
    <3>1. r.best[f] = sr.best[f] /\ sr.best[f] \in Costs BY <1>2, <2>3
    <3>2. /\ After(f, j) \in DOMAIN sr.best
          /\ ~Less(Grown(sr.best[f], j), sr.best[After(f, j)])
      BY <3>1, <2>14 DEF Relaxed
    <3>3. CASE After(f, j) = to
      <4>1. Less(cost, sr.best[to]) BY <3>2, <3>3, <1>6 DEF Better
      <4>2. /\ Grown(sr.best[f], j) \in Costs /\ sr.best[to] \in Costs
        BY <3>1, <3>2, <3>3, <1>2, GrownFacts
      <4>3. ~Less(sr.best[to], cost) BY <4>1, <4>2, <1>4, LessOrder
      <4>4. ~Less(Grown(sr.best[f], j), cost) BY <4>2, <4>3, <3>2, <3>3, <1>4, LessOrder
      <4> QED BY <4>4, <3>1, <3>3, <2>3
    <3>4. CASE After(f, j) # to BY <3>1, <3>2, <3>4, <2>3
    <3> QED BY <3>3, <3>4
  <2>15. Relaxed(r, s, K \cup {k})
    <3>1. Relaxed(r, s, K) BY <1>1, <1>6, <2>14
    <3> SUFFICES ASSUME NEW j \in K \cup {k}, May(s[1], j, r.best[s][1])
                 PROVE  /\ After(s, j) \in DOMAIN r.best
                        /\ ~Less(Grown(r.best[s], j), r.best[After(s, j)])
      BY DEF Relaxed
    <3>2. CASE j = k
      <4>1. r.best[s] = sr.best[s] BY <1>1, <2>3
      <4>2. Grown(r.best[s], j) = cost /\ After(s, j) = to BY <4>1, <3>2 DEF cost, to
      <4> QED BY <4>2, <2>3, <1>4, LessOrder
    <3>3. CASE j \in K BY <3>1, <3>3 DEF Relaxed
    <3> QED BY <3>2, <3>3
  <2>16. \A f \in r.finalized \ {s} : Relaxed(r, f, Kinds) BY <1>1, <1>6, <2>2, <2>14
  <2>17. Amid(r, s, K \cup {k})
    BY <1>1, <2>2, <2>7, <2>9, <2>10, <2>11, <2>12, <2>13, <2>15, <2>16 DEF Amid
  <2> QED BY <2>1, <2>17 DEF to, cost
<1> QED BY <1>5, <1>6

LEMMA LinkTaken ==
    ASSUME request \in Requests, NEW sr, NEW s, NEW K, NEW d \in Directions, Amid(sr, s, K)
    PROVE  Amid(expandLink(sr, s, d), s, K \cup {d})
<1>1. d \in Kinds /\ d # "Hold" BY DEF Kinds, Directions
<1>2. CASE ~Usable(s[1], d, sr.best[s][1])
  <2>1. expandLink(sr, s, d) = sr BY <1>2 DEF expandLink
  <2>2. Relaxed(sr, s, K) => Relaxed(sr, s, K \cup {d}) BY <1>1, <1>2 DEF Relaxed, May
  <2> QED BY <2>1, <2>2 DEF Amid
<1>3. CASE Usable(s[1], d, sr.best[s][1])
  <2>1. May(s[1], d, sr.best[s][1]) BY <1>1, <1>3 DEF May
  <2>2. expandLink(sr, s, d) = relaxTo(sr, s, After(s, d), Grown(sr.best[s], d), d)
    BY <1>1, <1>3 DEF expandLink, After, Onward, Delay, Grown
  <2>3. Amid(relaxTo(sr, s, After(s, d), Grown(sr.best[s], d), d), s, K \cup {d})
    BY <1>1, <2>1, RelaxStep
  <2> QED BY <2>2, <2>3
<1> QED BY <1>2, <1>3

LEMMA HoldTaken ==
    ASSUME request \in Requests, NEW sr, NEW s, NEW K, Amid(sr, s, K)
    PROVE  Amid(expandHold(sr, s), s, K \cup {"Hold"})
<1>1. "Hold" \in Kinds BY DEF Kinds
<1>2. CASE ~request.allowVirtualHold
  <2>1. expandHold(sr, s) = sr BY <1>2 DEF expandHold
  <2>2. Relaxed(sr, s, K) => Relaxed(sr, s, K \cup {"Hold"}) BY <1>2 DEF Relaxed, May
  <2> QED BY <2>1, <2>2 DEF Amid
<1>3. CASE request.allowVirtualHold
  <2>1. May(s[1], "Hold", sr.best[s][1]) BY <1>3 DEF May
  <2>2. expandHold(sr, s) =
           relaxTo(sr, s, After(s, "Hold"), Grown(sr.best[s], "Hold"), "Hold")
    BY <1>3 DEF expandHold, After, Onward, Delay, Grown
  <2>3. Amid(relaxTo(sr, s, After(s, "Hold"), Grown(sr.best[s], "Hold"), "Hold"),
             s, K \cup {"Hold"})
    BY <1>1, <2>1, RelaxStep
  <2> QED BY <2>2, <2>3
<1> QED BY <1>2, <1>3

\* An expansion takes every step from its state.
LEMMA ExpandedFacts ==
    ASSUME request \in Requests, NEW sr, NEW s, Amid(sr, s, {})
    PROVE  Amid(Expanded(sr, s), s, Kinds)
<1> DEFINE north == expandLink(sr, s, "North")
           east == expandLink(north, s, "East")
           south == expandLink(east, s, "South")
           west == expandLink(south, s, "West")
<1>1. /\ "North" \in Directions /\ "East" \in Directions
      /\ "South" \in Directions /\ "West" \in Directions
  BY DEF Directions
<1>2. Expanded(sr, s) = expandHold(west, s) BY DEF Expanded
<1>3. Amid(north, s, {} \cup {"North"}) BY <1>1, LinkTaken
<1> HIDE DEF north
<1>4. Amid(east, s, ({} \cup {"North"}) \cup {"East"}) BY <1>1, <1>3, LinkTaken
<1> HIDE DEF east
<1>5. Amid(south, s, (({} \cup {"North"}) \cup {"East"}) \cup {"South"})
  BY <1>1, <1>4, LinkTaken
<1> HIDE DEF south
<1>6. Amid(west, s, ((({} \cup {"North"}) \cup {"East"}) \cup {"South"}) \cup {"West"})
  BY <1>1, <1>5, LinkTaken
<1> HIDE DEF west
<1>7. Amid(expandHold(west, s), s,
           (((({} \cup {"North"}) \cup {"East"}) \cup {"South"}) \cup {"West"}) \cup {"Hold"})
  BY <1>6, HoldTaken
<1>8. (((({} \cup {"North"}) \cup {"East"}) \cup {"South"}) \cup {"West"}) \cup {"Hold"} = Kinds
  BY DEF Kinds, Directions
<1> QED BY <1>2, <1>7, <1>8

-----------------------------------------------------------------------------
(* Taking an entry from the queue                                          *)

\* The record r is the present one without the first entry of the queue.
Popped(r) ==
    /\ DOMAIN r = Fields /\ r.best = search.best /\ r.pred = search.pred
    /\ r.queue = search.queue \ {Top} /\ r.pushes = search.pushes
    /\ r.overBudget = search.overBudget
    /\ r.expansions \in 0 .. request.maxStateExpansions

LEMMA SkipFacts ==
    ASSUME request \in Requests, Typed(search), InTime(search), Descent(search),
           Searching(search), search.queue # {}, Stale,
           NEW r, Popped(r), r.finalized = search.finalized
    PROVE  Typed(r) /\ InTime(r) /\ Descent(r) /\ Searching(r)
<1>1. Typed(r) BY DEF Typed, Popped
<1>2. InTime(r) BY DEF InTime, Popped
<1>3. Descent(r) BY DEF Descent, Popped
<1>4. Queued(r)
  <2> SUFFICES ASSUME NEW s \in DOMAIN r.best \ r.finalized
               PROVE  \E e \in r.queue : e.state = s /\ e.cost = r.best[s]
    BY DEF Queued
  <2>1. PICK e \in search.queue : e.state = s /\ e.cost = search.best[s]
    BY DEF Searching, Queued, Popped
  <2>2. e # Top BY <2>1 DEF Stale, Popped
  <2> QED BY <2>1, <2>2 DEF Popped
<1>5. Ordered(r) /\ Closed(r) BY DEF Searching, Ordered, Closed, Relaxed, Popped
<1>6. ~r.overBudget /\ \A s \in r.finalized : s[1] # request.consumer
  BY DEF Searching, Popped
<1> QED BY <1>1, <1>2, <1>3, <1>4, <1>5, <1>6 DEF Searching

LEMMA FinalFacts ==
    ASSUME request \in Requests, Typed(search), InTime(search), Descent(search),
           Searching(search), search.queue # {}, ~Stale,
           NEW r, Popped(r), r.finalized = search.finalized \cup {Top.state}
    PROVE  /\ Typed(r) /\ InTime(r) /\ Descent(r) /\ Ordered(r) /\ Queued(r)
           /\ ~r.overBudget
           /\ \A f \in search.finalized : Relaxed(r, f, Kinds) /\ f[1] # request.consumer
           /\ \A f \in r.finalized : ~Less(r.best[Top.state], r.best[f])
<1>1. /\ Top \in search.queue /\ \A f \in search.queue : ~Less(f.cost, Top.cost)
      /\ Top.state \in DOMAIN search.best
  BY TopFacts DEF Typed
<1>2. Top.cost = search.best[Top.state] /\ Top.state \notin search.finalized
  BY DEF Stale
<1> DEFINE s == Top.state
<1>3. Typed(r) BY <1>1 DEF Typed, Popped
<1>4. InTime(r) BY DEF InTime, Popped
<1>5. Descent(r) BY DEF Descent, Popped
<1>6. Queued(r)
  <2> SUFFICES ASSUME NEW u \in DOMAIN r.best \ r.finalized
               PROVE  \E e \in r.queue : e.state = u /\ e.cost = r.best[u]
    BY DEF Queued
  <2>1. PICK e \in search.queue : e.state = u /\ e.cost = search.best[u]
    BY DEF Searching, Queued, Popped
  <2>2. e # Top BY <2>1
  <2> QED BY <2>1, <2>2 DEF Popped
<1>7. ASSUME NEW u \in DOMAIN search.best \ search.finalized
      PROVE  ~Less(search.best[u], search.best[s])
  <2>1. PICK e \in search.queue : e.state = u /\ e.cost = search.best[u]
    BY DEF Searching, Queued
  <2> QED BY <2>1, <1>1, <1>2
<1>8. Ordered(r)
  <2> SUFFICES ASSUME NEW f \in r.finalized, NEW u \in DOMAIN r.best \ r.finalized
               PROVE  ~Less(r.best[u], r.best[f])
    BY DEF Ordered
  <2>1. CASE f = s BY <2>1, <1>7 DEF Popped
  <2>2. CASE f \in search.finalized BY <2>2 DEF Searching, Ordered, Popped
  <2> QED BY <2>1, <2>2
<1>9. \A f \in search.finalized : Relaxed(r, f, Kinds) /\ f[1] # request.consumer
  BY DEF Searching, Closed, Relaxed, Popped
<1>10. ASSUME NEW f \in r.finalized PROVE ~Less(r.best[s], r.best[f])
  <2>1. CASE f = s
    <3>1. search.best[s] \in Costs BY <1>1 DEF Typed
    <3> QED BY <3>1, <2>1, LessOrder DEF Popped
  <2>2. CASE f \in search.finalized BY <2>2, <1>1, <1>2 DEF Searching, Ordered, Popped
  <2> QED BY <2>1, <2>2
<1>11. ~r.overBudget BY DEF Searching, Popped
<1> QED BY <1>3, <1>4, <1>5, <1>6, <1>8, <1>9, <1>10, <1>11

-----------------------------------------------------------------------------
(* Every route is accounted for                                            *)

\* A cost that takes at most e cycles, and with e cycles at most h holds.
AtMost(c, e, h) == c[1] < e \/ (c[1] = e /\ c[2] =< h)

Held(k) == IF k = "Hold" THEN 1 ELSE 0

\* A value that can be on a tile after e cycles and h holds: the states F know a
\* way that is as good, or a state that is not in F is as cheap.
Covered(F, tile, e, h) ==
    \/ /\ <<tile, advance(request.issueSlot, e)>> \in F
       /\ AtMost(search.best[<<tile, advance(request.issueSlot, e)>>], e, h)
    \/ \E u \in DOMAIN search.best \ F : AtMost(search.best[u], e, h)

LEMMA AtMostGrown ==
    ASSUME request \in Requests, NEW c \in Costs, NEW e \in Nat, NEW h \in Nat,
           AtMost(c, e, h), NEW k
    PROVE  /\ AtMost(Grown(c, k), e + Delay(k), h + Held(k))
           /\ AtMost(c, e + Delay(k), h + Held(k))
<1>1. c[1] \in Nat /\ c[2] \in Nat /\ c[3] \in Nat BY DEF Costs
<1>2. request.hopLatency \in Nat \ {0} BY RequestFacts
<1>3. CASE k = "Hold" BY <1>1, <1>2, <1>3 DEF AtMost, Grown, Delay, Held
<1>4. CASE k # "Hold" BY <1>1, <1>2, <1>4 DEF AtMost, Grown, Delay, Held
<1> QED BY <1>3, <1>4

LEMMA AtMostLess ==
    ASSUME NEW c \in Costs, NEW b \in Costs, NEW e \in Nat, NEW h \in Nat,
           AtMost(c, e, h), ~Less(c, b)
    PROVE  AtMost(b, e, h)
<1>1. /\ c[1] \in Nat /\ c[2] \in Nat /\ c[3] \in Nat
      /\ b[1] \in Nat /\ b[2] \in Nat /\ b[3] \in Nat
  BY DEF Costs
<1> QED BY <1>1, LessCosts DEF AtMost

\* One step of a route keeps it accounted for.
LEMMA CoveredStep ==
    ASSUME request \in Requests, Typed(search), InTime(search),
           NEW F \in SUBSET DOMAIN search.best, \A f \in F : Relaxed(search, f, Kinds),
           NEW tile \in Tiles, NEW e \in Nat, NEW h \in Nat, Covered(F, tile, e, h),
           NEW k \in Kinds, May(tile, k, e)
    PROVE  Covered(F, Onward(tile, k), e + Delay(k), h + Held(k))
<1> DEFINE s == <<tile, advance(request.issueSlot, e)>>
           v == <<Onward(tile, k), advance(request.issueSlot, e + Delay(k))>>
           b == search.best
<1>1. /\ \A x \in DOMAIN b : b[x] \in Costs
      /\ Delay(k) \in Nat /\ Held(k) \in Nat /\ e + Delay(k) \in Nat /\ h + Held(k) \in Nat
  <2>1. \A x \in DOMAIN b : b[x] \in Costs BY DEF Typed
  <2>2. Delay(k) \in Nat BY RequestFacts DEF Delay
  <2>3. Held(k) \in Nat BY DEF Held
  <2> QED BY <2>1, <2>2, <2>3
<1>2. CASE s \in F /\ AtMost(b[s], e, h)
  <2>1. /\ s[1] = tile /\ s[2] = advance(request.issueSlot, e)
        /\ s \in DOMAIN b /\ b[s] \in Costs
        /\ s[2] = advance(request.issueSlot, b[s][1])
    BY <1>1, <1>2 DEF InTime
  <2>2. May(s[1], k, b[s][1])
    BY <2>1 DEF May, Usable, LaunchLink
  <2>3. After(s, k) \in DOMAIN b /\ ~Less(Grown(b[s], k), b[After(s, k)])
    BY <2>2, <1>2 DEF Relaxed
  <2>4. After(s, k) = v
    <3>1. advance(s[2], Delay(k)) = advance(request.issueSlot, e + Delay(k))
      BY <2>1, <1>1, AdvanceFacts
    <3> QED BY <3>1, <2>1 DEF After
  <2>5. AtMost(b[v], e + Delay(k), h + Held(k))
    <3> HIDE DEF v, s, b
    <3>1. AtMost(Grown(b[s], k), e + Delay(k), h + Held(k)) BY <1>2, <2>1, AtMostGrown
    <3>2. Grown(b[s], k) \in Costs /\ b[v] \in Costs BY <2>1, <2>3, <2>4, <1>1, GrownFacts
    <3> QED BY <3>1, <3>2, <2>3, <2>4, <1>1, AtMostLess
  <2>6. v \in DOMAIN b BY <2>3, <2>4
  <2> QED BY <2>5, <2>6 DEF Covered
<1>3. CASE \E u \in DOMAIN b \ F : AtMost(b[u], e, h)
  <2>1. PICK u \in DOMAIN b \ F : AtMost(b[u], e, h) BY <1>3
  <2>2. AtMost(b[u], e + Delay(k), h + Held(k)) BY <2>1, <1>1, AtMostGrown
  <2> QED BY <2>1, <2>2 DEF Covered
<1> QED BY <1>2, <1>3 DEF Covered

Pairs == Tiles \X Nat
Histories == {q \in Seq(SUBSET Pairs) : q # <<>>}

\* The places of the next cycle are a step away from places of the cycles so far.
LEMMA ReachNextFacts ==
    ASSUME request \in Requests, NEW at \in Histories, NEW x \in ReachNext(at)
    PROVE  \E k \in Kinds : \E i \in 1 .. Len(at) : \E y \in at[i] :
              /\ y \in Pairs
              /\ May(y[1], k, request.ready + i - 1)
              /\ x = <<Onward(y[1], k), y[2] + Held(k)>>
              /\ i - 1 + Delay(k) = Len(at)
<1>1. /\ at \in Seq(SUBSET Pairs) /\ Len(at) \in Nat \ {0}
      /\ \A i \in 1 .. Len(at) : at[i] \subseteq Pairs
  <2>1. at \in Seq(SUBSET Pairs) /\ at # <<>> BY DEF Histories
  <2>2. Len(at) \in Nat /\ Len(at) # 0 BY <2>1
  <2>3. \A i \in 1 .. Len(at) : at[i] \in SUBSET Pairs BY <2>1, ElementOfSeq
  <2> QED BY <2>1, <2>2, <2>3
<1>2. request.hopLatency \in Nat \ {0} /\ request.ready \in Nat BY RequestFacts
<1>3. CASE request.allowVirtualHold /\ x \in {<<z[1], z[2] + 1>> : z \in at[Len(at)]}
  <2>1. PICK y \in at[Len(at)] : x = <<y[1], y[2] + 1>> BY <1>3
  <2>2. Len(at) \in 1 .. Len(at) BY <1>1
  <2>3. "Hold" \in Kinds /\ Delay("Hold") = 1 /\ Held("Hold") = 1
    BY DEF Kinds, Delay, Held
  <2>4. /\ May(y[1], "Hold", request.ready + Len(at) - 1)
        /\ x = <<Onward(y[1], "Hold"), y[2] + Held("Hold")>>
    BY <1>3, <2>1, <2>3 DEF May, Onward
  <2>5. Len(at) - 1 + Delay("Hold") = Len(at) BY <1>1, <2>3
  <2> QED BY <1>1, <2>1, <2>2, <2>3, <2>4, <2>5
<1>4. CASE /\ ~(Len(at) - request.hopLatency < 0)
           /\ x \in {<<neighbor(z[1][1], z[2]), z[1][2]>> :
                      z \in {z \in at[Len(at) - request.hopLatency + 1] \X Directions :
                               Usable(z[1][1], z[2],
                                      request.ready + (Len(at) - request.hopLatency))}}
  <2> DEFINE i == Len(at) - request.hopLatency + 1
  <2>1. PICK z \in at[i] \X Directions :
           /\ Usable(z[1][1], z[2], request.ready + (Len(at) - request.hopLatency))
           /\ x = <<neighbor(z[1][1], z[2]), z[1][2]>>
    BY <1>4
  <2>2. i \in 1 .. Len(at) /\ request.ready + (Len(at) - request.hopLatency)
                                 = request.ready + i - 1
    BY <1>1, <1>2, <1>4
  <2>3. /\ z[2] \in Kinds /\ z[2] # "Hold" /\ z[1] \in at[i]
        /\ Delay(z[2]) = request.hopLatency /\ Held(z[2]) = 0
    BY <2>1 DEF Kinds, Directions, Delay, Held
  <2>4. z[1] \in Pairs BY <1>1, <2>2, <2>3
  <2>5. /\ May(z[1][1], z[2], request.ready + i - 1)
        /\ x = <<Onward(z[1][1], z[2]), z[1][2] + Held(z[2])>>
    <3>1. z[1][2] + 0 = z[1][2] BY <2>4 DEF Pairs
    <3> QED BY <3>1, <2>1, <2>2, <2>3 DEF May, Onward
  <2>6. i - 1 + Delay(z[2]) = Len(at) BY <1>1, <1>2, <2>3
  <2> HIDE DEF i
  <2> QED BY <2>2, <2>3, <2>4, <2>5, <2>6
<1> QED BY <1>3, <1>4 DEF ReachNext

LEMMA ReachRecursion ==
    ASSUME request \in Requests
    PROVE  \E h \in [0 .. ReachHorizon -> Histories] :
              /\ ReachHorizon \in Nat
              /\ h[0] = <<{<<request.producer, 0>>}>>
              /\ \A t \in 1 .. ReachHorizon :
                    h[t] = Append(h[t - 1], ReachNext(h[t - 1]))
              /\ Reach = h[ReachHorizon]
<1> DEFINE H == ReachHorizon
           first == <<{<<request.producer, 0>>}>>
           upTo[t \in 0 .. H] ==
              IF t = 0 THEN first
              ELSE LET at == upTo[t - 1] IN Append(at, ReachNext(at))
           G == [z \in Nat \X Histories |-> Append(z[2], ReachNext(z[2]))]
<1>1. H \in Nat
  <2>1. \A x, y \in Nat : x * y \in Nat OBVIOUS
  <2> QED BY <2>1, RequestFacts DEF ReachHorizon
<1>2. first \in Histories
  <2>1. {<<request.producer, 0>>} \in SUBSET Pairs BY RequestFacts DEF Pairs
  <2> QED BY <2>1 DEF Histories
<1>3. ASSUME NEW at \in Histories PROVE Append(at, ReachNext(at)) \in Histories
  <2>1. ReachNext(at) \in SUBSET Pairs
    <3> SUFFICES ASSUME NEW x \in ReachNext(at) PROVE x \in Pairs OBVIOUS
    <3>1. PICK k \in Kinds : \E i \in 1 .. Len(at) : \E y \in at[i] :
              /\ y \in Pairs
              /\ May(y[1], k, request.ready + i - 1)
              /\ x = <<Onward(y[1], k), y[2] + Held(k)>>
              /\ i - 1 + Delay(k) = Len(at)
      BY ReachNextFacts
    <3>2. PICK i \in 1 .. Len(at) : \E y \in at[i] :
              /\ y \in Pairs
              /\ May(y[1], k, request.ready + i - 1)
              /\ x = <<Onward(y[1], k), y[2] + Held(k)>>
      BY <3>1
    <3>6. PICK y \in at[i] : /\ y \in Pairs
                             /\ May(y[1], k, request.ready + i - 1)
                             /\ x = <<Onward(y[1], k), y[2] + Held(k)>>
      BY <3>2
    <3>3. y[1] \in Tiles /\ y[2] \in Nat BY <3>6 DEF Pairs
    <3>4. Onward(y[1], k) \in Tiles BY <3>6, <3>3 DEF May, Usable, Onward
    <3>5. y[2] + Held(k) \in Nat BY <3>3 DEF Held
    <3> QED BY <3>6, <3>4, <3>5 DEF Pairs
  <2>2. at \in Seq(SUBSET Pairs) BY DEF Histories
  <2> HIDE DEF Pairs
  <2> DEFINE n == ReachNext(at)
  <2>3. n \in SUBSET Pairs BY <2>1
  <2> HIDE DEF n
  <2>4. Append(at, n) \in Seq(SUBSET Pairs) /\ Append(at, n) # <<>>
    BY <2>2, <2>3, AppendProperties
  <2> QED BY <2>4 DEF Histories, n
<1>4. G \in [Nat \X Histories -> Histories] BY <1>3
<1> HIDE DEF first, H
<1>5. PICK h \in [0 .. H -> Histories] : Iterates(h, first, G, H)
  <2> HIDE DEF G, upTo
  <2> QED BY <1>1, <1>2, <1>4, RecursionExists, Zenon
<1>13. h[0] = first /\ \A t \in 1 .. H : h[t] = G[<<t, h[t - 1]>>]
  <2> HIDE DEF G, upTo
  <2> QED BY <1>5 DEF Iterates
<1>6. ASSUME NEW t \in 1 .. H PROVE h[t] = Append(h[t - 1], ReachNext(h[t - 1]))
  <2>1. t \in Nat /\ t - 1 \in 0 .. H BY <1>1, <1>6
  <2>2. <<t, h[t - 1]>> \in Nat \X Histories BY <2>1, <1>5
  <2>3. G[<<t, h[t - 1]>>] = Append(h[t - 1], ReachNext(h[t - 1])) BY <2>2
  <2> QED BY <2>3, <1>13, <1>6
<1> HIDE DEF G
<1> DEFINE Body(f) == [t \in 0 .. H |-> IF t = 0 THEN first
                                        ELSE LET at == f[t - 1] IN Append(at, ReachNext(at))]
<1>7. h = Body(h)
  <2>1. \A t \in 0 .. H : t = 0 \/ t \in 1 .. H BY <1>1
  <2> QED BY <2>1, <1>5, <1>6, <1>13
<1>8. upTo = Body(upTo) BY <1>7
<1>9. Reach = upTo[H] BY DEF Reach, H, first
<1> HIDE DEF upTo
<1>10. /\ upTo[0] = first
       /\ \A t \in 1 .. H : upTo[t] = Append(upTo[t - 1], ReachNext(upTo[t - 1]))
  <2>1. \A t \in 0 .. H : upTo[t] = IF t = 0 THEN first
                            ELSE Append(upTo[t - 1], ReachNext(upTo[t - 1]))
    BY <1>8, Zenon
  <2>2. 0 \in 0 .. H /\ \A t \in 1 .. H : t \in 0 .. H /\ t # 0 BY <1>1
  <2> QED BY <2>1, <2>2, Zenon
<1>11. \A t \in 0 .. H : upTo[t] \in Histories
  <2> DEFINE T == {t \in 0 .. H : upTo[t] \in Histories}
  <2>1. 0 \in T BY <1>1, <1>2, <1>10
  <2>2. ASSUME NEW t \in 1 .. H, t - 1 \in T PROVE t \in T
    <3>1. t \in 0 .. H BY <1>1
    <3>2. upTo[t - 1] \in Histories BY <2>2
    <3>3. upTo[t] \in Histories BY <3>2, <1>3, <1>10, Zenon
    <3> QED BY <3>1, <3>3
  <2> HIDE DEF T
  <2>3. \A t \in 0 .. H : t \in T BY <1>1, <2>1, <2>2, Climb, Zenon
  <2> QED BY <2>3 DEF T
<1>12. upTo \in [0 .. H -> Histories] BY <1>8, <1>11
<1> QED BY <1>1, <1>9, <1>10, <1>12 DEF H, first

\* Every place the reference reaches is accounted for.
LEMMA ReachCovered ==
    ASSUME request \in Requests, Typed(search), InTime(search),
           NEW F \in SUBSET DOMAIN search.best, \A f \in F : Relaxed(search, f, Kinds)
    PROVE  \A t \in DOMAIN Reach : \A x \in Reach[t] :
              /\ t \in Nat /\ t >= 1 /\ x \in Pairs
              /\ Covered(F, x[1], request.ready + t - 1, x[2])
<1> DEFINE H == ReachHorizon
           Good(i, x) == Covered(F, x[1], request.ready + i - 1, x[2])
           Fine(at) == \A i \in 1 .. Len(at) : \A x \in at[i] : Good(i, x)
<1>1. PICK h \in [0 .. H -> Histories] :
         /\ H \in Nat /\ h[0] = <<{<<request.producer, 0>>}>>
         /\ \A t \in 1 .. H : h[t] = Append(h[t - 1], ReachNext(h[t - 1]))
         /\ Reach = h[H]
  BY ReachRecursion
<1>2. request.ready \in Nat BY RequestFacts
<1>3. Fine(h[0])
  <2>1. Len(h[0]) = 1 /\ h[0][1] = {<<request.producer, 0>>} BY <1>1
  <2>2. Good(1, <<request.producer, 0>>)
    <3>1. /\ StartState \in DOMAIN search.best
          /\ search.best[StartState] = <<request.ready, 0, 0>>
      BY DEF InTime
    <3>2. request.ready + 1 - 1 = request.ready BY <1>2
    <3>3. AtMost(search.best[StartState], request.ready, 0) BY <3>1, <1>2 DEF AtMost
    <3> QED BY <3>1, <3>2, <3>3 DEF Covered, StartState
  <2> QED BY <2>1, <2>2
<1>4. ASSUME NEW at \in Histories, Fine(at) PROVE Fine(Append(at, ReachNext(at)))
  <2> DEFINE B == Append(at, ReachNext(at))
  <2>1. at \in Seq(SUBSET Pairs) /\ Len(at) \in Nat BY DEF Histories
  <2>2. /\ Len(B) = Len(at) + 1 /\ B[Len(at) + 1] = ReachNext(at)
        /\ \A i \in 1 .. Len(at) : B[i] = at[i]
    BY <2>1
  <2>3. ASSUME NEW x \in ReachNext(at) PROVE Good(Len(at) + 1, x)
    <3>1. PICK k \in Kinds : \E i \in 1 .. Len(at) : \E y \in at[i] :
              /\ y \in Pairs
              /\ May(y[1], k, request.ready + i - 1)
              /\ x = <<Onward(y[1], k), y[2] + Held(k)>>
              /\ i - 1 + Delay(k) = Len(at)
      BY <2>3, ReachNextFacts
    <3>2. PICK i \in 1 .. Len(at) : \E y \in at[i] :
              /\ y \in Pairs
              /\ May(y[1], k, request.ready + i - 1)
              /\ x = <<Onward(y[1], k), y[2] + Held(k)>>
              /\ i - 1 + Delay(k) = Len(at)
      BY <3>1
    <3>3. PICK y \in at[i] : /\ y \in Pairs
                             /\ May(y[1], k, request.ready + i - 1)
                             /\ x = <<Onward(y[1], k), y[2] + Held(k)>>
                             /\ i - 1 + Delay(k) = Len(at)
      BY <3>2
    <3> DEFINE e == request.ready + i - 1
    <3>4. e \in Nat /\ y[1] \in Tiles /\ y[2] \in Nat BY <1>2, <2>1, <3>3 DEF Pairs
    <3>5. Delay(k) \in Nat BY RequestFacts DEF Delay
    <3>6. Covered(F, y[1], e, y[2]) BY <1>4, <3>3
    <3>7. e + Delay(k) = request.ready + (Len(at) + 1) - 1 BY <1>2, <2>1, <3>3, <3>5
    <3>8. x[1] = Onward(y[1], k) /\ x[2] = y[2] + Held(k) BY <3>3
    <3>9. May(y[1], k, e) BY <3>3
    <3> HIDE DEF e
    <3>10. Covered(F, Onward(y[1], k), e + Delay(k), y[2] + Held(k))
      BY <3>4, <3>6, <3>9, CoveredStep
    <3> QED BY <3>7, <3>8, <3>10
  <2> HIDE DEF B, Good
  <2>4. \A i \in 1 .. Len(B) : \A x \in B[i] : Good(i, x)
    <3>1. \A i \in 1 .. Len(at) + 1 : i \in 1 .. Len(at) \/ i = Len(at) + 1 BY <2>1
    <3> QED BY <1>4, <2>2, <2>3, <3>1
  <2> QED BY <2>4 DEF B
<1> HIDE DEF H, Fine
<1>5. \A t \in 0 .. H : Fine(h[t])
  <2> DEFINE T == {t \in 0 .. H : Fine(h[t])}
  <2>1. 0 \in T
    <3>1. 0 \in 0 .. H BY <1>1
    <3> QED BY <3>1, <1>3, Zenon
  <2>2. ASSUME NEW t \in 1 .. H, t - 1 \in T PROVE t \in T
    <3>1. t \in 0 .. H /\ t - 1 \in 0 .. H BY <1>1
    <3>2. Fine(h[t - 1]) /\ h[t - 1] \in Histories BY <2>2, <3>1, Zenon
    <3>3. Fine(Append(h[t - 1], ReachNext(h[t - 1]))) BY <3>2, <1>4, Zenon
    <3>4. h[t] = Append(h[t - 1], ReachNext(h[t - 1])) BY <1>1, Zenon
    <3> QED BY <3>1, <3>3, <3>4, Zenon
  <2> HIDE DEF T
  <2>3. \A t \in 0 .. H : t \in T BY <1>1, <2>1, <2>2, Climb, Zenon
  <2> QED BY <2>3 DEF T
<1>6. Fine(Reach) /\ Reach \in Histories BY <1>1, <1>5
<1>7. Reach \in Seq(SUBSET Pairs) BY <1>6 DEF Histories
<1>8. /\ DOMAIN Reach = 1 .. Len(Reach) /\ Len(Reach) \in Nat
      /\ \A i \in 1 .. Len(Reach) : Reach[i] \in SUBSET Pairs
  BY <1>7, ElementOfSeq
<1> QED BY <1>6, <1>8 DEF Fine

\* A cost that a covered route beats is not the cheapest of the states left.
LEMMA NoneCheaper ==
    ASSUME NEW c \in Costs, NEW u \in Costs, ~Less(u, c), NEW e \in Nat, NEW h \in Nat,
           AtMost(u, e, h)
    PROVE  ~Less(<<e, h>>, <<c[1], c[2]>>)
<1>1. /\ c[1] \in Nat /\ c[2] \in Nat /\ c[3] \in Nat
      /\ u[1] \in Nat /\ u[2] \in Nat /\ u[3] \in Nat
  BY DEF Costs
<1>2. <<e, h>> \in Nat \X Nat /\ <<c[1], c[2]>> \in Nat \X Nat BY <1>1
<1>3. Less(<<e, h>>, <<c[1], c[2]>>) <=> e < c[1] \/ (e = c[1] /\ h < c[2])
  BY <1>2, LessPairs
<1>4. Less(u, c) <=> \/ u[1] < c[1]
                     \/ u[1] = c[1] /\ u[2] < c[2]
                     \/ u[1] = c[1] /\ u[2] = c[2] /\ u[3] < c[3]
  BY LessCosts
<1> QED BY <1>1, <1>3, <1>4 DEF AtMost

\* When the search stops at g no route is cheaper.
LEMMA SettledIsCheapest ==
    ASSUME request \in Requests, Typed(search), InTime(search), NEW g, Settled(g)
    PROVE  \A t \in DOMAIN Reach : \A x \in Reach[t] :
              x[1] = request.consumer =>
                 ~Less(<<request.ready + t - 1, x[2]>>,
                       <<search.best[g][1], search.best[g][2]>>)
<1> SUFFICES ASSUME NEW t \in DOMAIN Reach, NEW x \in Reach[t], x[1] = request.consumer
             PROVE  ~Less(<<request.ready + t - 1, x[2]>>,
                          <<search.best[g][1], search.best[g][2]>>)
  OBVIOUS
<1> DEFINE F == search.finalized \ {g}
           e == request.ready + t - 1
           h == x[2]
<1>1. /\ F \in SUBSET DOMAIN search.best /\ \A f \in F : Relaxed(search, f, Kinds)
      /\ g \in DOMAIN search.best /\ \A s \in DOMAIN search.best : search.best[s] \in Costs
  BY DEF Settled, Typed
<1>2. /\ t \in Nat /\ t >= 1 /\ x \in Pairs
      /\ Covered(F, x[1], e, h)
  BY <1>1, ReachCovered
<1>3. e \in Nat /\ h \in Nat BY <1>2, RequestFacts DEF Pairs
<1>4. <<x[1], advance(request.issueSlot, e)>> \notin F BY DEF Settled
<1>5. PICK u \in DOMAIN search.best \ F : AtMost(search.best[u], e, h)
  BY <1>2, <1>4 DEF Covered
<1>6. ~Less(search.best[u], search.best[g])
  <2>1. CASE u = g BY <2>1, <1>1, LessOrder
  <2>2. CASE u # g BY <2>2, <1>5 DEF Settled
  <2> QED BY <2>1, <2>2
<1> HIDE DEF e, h, F
<1>7. ~Less(<<e, h>>, <<search.best[g][1], search.best[g][2]>>)
  BY <1>1, <1>3, <1>5, <1>6, NoneCheaper
<1> QED BY <1>7 DEF e, h

\* A search whose queue is empty: no route reaches the consumer.
LEMMA DryIsProof ==
    ASSUME request \in Requests, Typed(search), InTime(search), Searching(search),
           search.queue = {}
    PROVE  \A t \in DOMAIN Reach : \A x \in Reach[t] : x[1] # request.consumer
<1> SUFFICES ASSUME NEW t \in DOMAIN Reach, NEW x \in Reach[t], x[1] = request.consumer
             PROVE  FALSE
  OBVIOUS
<1> DEFINE F == search.finalized
<1>1. DOMAIN search.best = F BY DEF Searching, Queued, Typed
<1>2. F \in SUBSET DOMAIN search.best /\ \A f \in F : Relaxed(search, f, Kinds)
  BY <1>1 DEF Searching, Closed
<1>3. Covered(F, x[1], request.ready + t - 1, x[2]) BY <1>2, ReachCovered
<1>4. <<x[1], advance(request.issueSlot, request.ready + t - 1)>> \notin F
  BY DEF Searching
<1> QED BY <1>1, <1>3, <1>4 DEF Covered

-----------------------------------------------------------------------------
(* The plan                                                                *)

Actions == [kind : {"Link", "Hold"}, tile : Tiles, direction : Directions,
            capture : Nat, release : Nat]

\* A legal action; the value was in a state of the search when it was launched.
Proper(a) ==
    /\ a \in Actions
    /\ a.kind = "Hold" => a.release > a.capture
    /\ a.kind = "Link" =>
          /\ Usable(a.tile, a.direction, a.capture)
          /\ a.release = a.capture
          /\ \E u \in DOMAIN search.best :
                u[1] = a.tile /\ search.best[u][1] = a.capture

\* h counts the cycles that the first actions hold the value.
Counts(h, A) ==
    /\ h \in [0 .. Len(A) -> Int] /\ h[0] = 0
    /\ \A i \in 1 .. Len(A) : h[i] = h[i - 1] + (A[i].release - A[i].capture)

\* The actions A carry the value from the producer to the state s.
Carries(A, s) ==
    /\ A \in Seq(Actions) /\ Len(A) >= 1
    /\ A[1].tile = request.producer /\ A[1].capture = request.ready
    /\ \A i \in 1 .. Len(A) - 1 : /\ A[i + 1].tile = EndTile(A[i])
                                  /\ A[i + 1].capture = EndTime(A[i])
    /\ \A i \in 1 .. Len(A) : Proper(A[i])
    /\ \A i, j \in 1 .. Len(A) : i < j => A[i].capture < A[j].capture
    /\ EndTile(A[Len(A)]) = s[1] /\ EndTime(A[Len(A)]) = search.best[s][1]
    /\ \E h : Counts(h, A) /\ h[Len(A)] = search.best[s][2]

\* The action into a state takes the value there from its predecessor.
LEMMA ActionFacts ==
    ASSUME request \in Requests, Typed(search), InTime(search), Descent(search),
           NEW s \in DOMAIN search.best \ {StartState}, NEW p, p = search.pred[s].previous
    PROVE  /\ p \in DOMAIN search.best /\ search.best[p] \in Costs /\ search.best[s] \in Costs
           /\ Proper(ActionInto(s))
           /\ ActionInto(s).tile = p[1] /\ ActionInto(s).capture = search.best[p][1]
           /\ EndTile(ActionInto(s)) = s[1] /\ EndTime(ActionInto(s)) = search.best[s][1]
           /\ search.best[p][1] < search.best[s][1]
           /\ ActionInto(s).release - ActionInto(s).capture
                 = search.best[s][2] - search.best[p][2]
           /\ ActionInto(s).kind = "Hold" => ActionInto(s).release = search.best[s][1]
<1> DEFINE b == search.best
           k == search.pred[s].kind
           a == ActionInto(s)
<1>1. /\ p \in search.finalized /\ May(p[1], k, b[p][1]) /\ s = After(p, k)
      /\ b[s] = Grown(b[p], k) /\ s \in DOMAIN search.pred
  BY DEF Descent
<1>2. /\ p \in DOMAIN b /\ b[p] \in Costs /\ b[s] \in Costs /\ p \in States
      /\ k \in Kinds
  <2>1. search.pred[s] \in Parents BY <1>1 DEF Typed
  <2>2. k \in Kinds BY <2>1 DEF Parents
  <2> QED BY <1>1, <2>2 DEF Typed
<1>3. /\ b[p][1] \in Nat /\ b[p][2] \in Nat /\ b[p][3] \in Nat
      /\ b[s][1] \in Nat /\ b[s][2] \in Nat /\ p[1] \in Tiles
      /\ request.hopLatency \in Nat \ {0}
  BY <1>2, RequestFacts DEF Costs, States
<1>4. CASE k = "Hold"
  <2>1. a = VirtualHold(p[1], b[p][1], b[s][1]) BY <1>4 DEF ActionInto
  <2>2. /\ a.kind = "Hold" /\ a.tile = p[1] /\ a.direction = "North"
        /\ a.capture = b[p][1] /\ a.release = b[s][1] /\ a \in Actions
    BY <2>1, <1>3 DEF VirtualHold, Actions, Directions
  <2>3. b[s][1] = b[p][1] + 1 /\ b[s][2] = b[p][2] + 1 /\ s[1] = p[1]
    BY <1>1, <1>4 DEF Grown, After, Onward
  <2> HIDE DEF a
  <2>4. Proper(a) BY <2>2, <2>3, <1>3 DEF Proper
  <2>5. EndTile(a) = s[1] /\ EndTime(a) = b[s][1] BY <2>2, <2>3 DEF EndTile, EndTime
  <2>6. a.release - a.capture = b[s][2] - b[p][2] BY <2>2, <2>3, <1>3
  <2>7. b[p][1] < b[s][1] BY <2>3, <1>3
  <2> QED BY <1>2, <2>2, <2>4, <2>5, <2>6, <2>7 DEF a
<1>5. CASE k # "Hold"
  <2>1. a = LinkStep(p[1], k, b[p][1]) BY <1>5 DEF ActionInto
  <2>2. k \in Directions BY <1>2, <1>5 DEF Kinds
  <2>3. /\ a.kind = "Link" /\ a.tile = p[1] /\ a.direction = k
        /\ a.capture = b[p][1] /\ a.release = b[p][1] /\ a \in Actions
    BY <2>1, <2>2, <1>3 DEF LinkStep, Actions
  <2>4. /\ b[s][1] = b[p][1] + request.hopLatency /\ b[s][2] = b[p][2]
        /\ s[1] = neighbor(p[1], k) /\ Usable(p[1], k, b[p][1])
    BY <1>1, <1>5 DEF Grown, After, Onward, May
  <2> HIDE DEF a
  <2>5. Proper(a) BY <2>3, <2>4, <1>2 DEF Proper
  <2>6. EndTile(a) = s[1] /\ EndTime(a) = b[s][1] BY <2>3, <2>4 DEF EndTile, EndTime
  <2>7. a.release - a.capture = b[s][2] - b[p][2] BY <2>3, <2>4, <1>3
  <2>8. b[p][1] < b[s][1] BY <2>4, <1>3
  <2> QED BY <1>2, <2>3, <2>5, <2>6, <2>7, <2>8 DEF a
<1> QED BY <1>4, <1>5

\* A first action, one that is appended, and one that prolongs a hold.
LEMMA CarryFirst ==
    ASSUME request \in Requests, Typed(search), InTime(search), Descent(search),
           NEW s \in DOMAIN search.best \ {StartState}, search.pred[s].previous = StartState
    PROVE  Carries(AppendAction(<<>>, ActionInto(s)), s)
<1> DEFINE a == ActionInto(s)
           A == <<a>>
<1>1. AppendAction(<<>>, a) = A BY DEF AppendAction
<1>2. /\ search.best[StartState] = <<request.ready, 0, 0>> /\ request.ready \in Nat
      /\ StartState[1] = request.producer
  BY RequestFacts DEF InTime, StartState
<1>3. /\ Proper(a) /\ a.tile = request.producer /\ a.capture = request.ready
      /\ EndTile(a) = s[1] /\ EndTime(a) = search.best[s][1]
      /\ a.release - a.capture = search.best[s][2] /\ search.best[s][2] \in Nat
  <2> DEFINE p == search.pred[s].previous
  <2>1. /\ Proper(a) /\ a.tile = p[1] /\ a.capture = search.best[p][1]
        /\ EndTile(a) = s[1] /\ EndTime(a) = search.best[s][1]
        /\ a.release - a.capture = search.best[s][2] - search.best[p][2]
        /\ search.best[s] \in Costs
    BY ActionFacts
  <2> HIDE DEF a
  <2>2. search.best[s][2] \in Nat BY <2>1 DEF Costs
  <2> QED BY <1>2, <2>1, <2>2
<1> HIDE DEF a
<1>4. a \in Actions BY <1>3 DEF Proper
<1>5. A \in Seq(Actions) /\ Len(A) = 1 /\ A[1] = a BY <1>4
<1> DEFINE h == [i \in 0 .. 1 |-> IF i = 0 THEN 0 ELSE search.best[s][2]]
<1>6. Counts(h, A) /\ h[1] = search.best[s][2]
  <2>1. h \in [0 .. 1 -> Int] /\ h[0] = 0 /\ h[1] = search.best[s][2] BY <1>3
  <2>2. \A i \in 1 .. 1 : i = 1 /\ i - 1 = 0 OBVIOUS
  <2> HIDE DEF h, A
  <2>3. h[1] = h[0] + (A[1].release - A[1].capture) BY <2>1, <1>3, <1>5
  <2> QED BY <2>1, <2>2, <2>3, <1>5 DEF Counts
<1> HIDE DEF A, h
<1>7. (\A i \in 1 .. 1 : i = 1) /\ (\A i \in 1 .. 1 - 1 : FALSE) OBVIOUS
<1>8. Carries(A, s)
  <2>1. /\ \A i \in 1 .. Len(A) : Proper(A[i])
        /\ \A i, j \in 1 .. Len(A) : i < j => A[i].capture < A[j].capture
    BY <1>3, <1>5, <1>7
  <2> QED BY <2>1, <1>3, <1>5, <1>6, <1>7 DEF Carries
<1> QED BY <1>1, <1>8 DEF a

LEMMA EndsLater ==
    ASSUME request \in Requests, NEW a, Proper(a)
    PROVE  a.capture \in Nat /\ a.release \in Nat /\ EndTime(a) \in Nat /\ a.capture < EndTime(a)
<1>1. /\ a.capture \in Nat /\ a.release \in Nat /\ a.kind \in {"Link", "Hold"}
      /\ request.hopLatency \in Nat \ {0}
  BY RequestFacts DEF Proper, Actions
<1>2. CASE a.kind = "Hold" BY <1>1, <1>2 DEF Proper, EndTime
<1>3. CASE a.kind # "Hold" BY <1>1, <1>3 DEF EndTime
<1> QED BY <1>1, <1>2, <1>3

LEMMA CarryAppend ==
    ASSUME request \in Requests, Typed(search), InTime(search), Descent(search),
           NEW s \in DOMAIN search.best \ {StartState},
           NEW A, Carries(A, search.pred[s].previous)
    PROVE  Carries(Append(A, ActionInto(s)), s)
<1> DEFINE p == search.pred[s].previous
           a == ActionInto(s)
           B == Append(A, a)
           n == Len(A)
<1>1. /\ Proper(a) /\ a.tile = p[1] /\ a.capture = search.best[p][1]
      /\ EndTile(a) = s[1] /\ EndTime(a) = search.best[s][1]
      /\ a.release - a.capture = search.best[s][2] - search.best[p][2]
      /\ search.best[s] \in Costs /\ search.best[p] \in Costs
  BY ActionFacts
<1> HIDE DEF a
<1>2. /\ A \in Seq(Actions) /\ n >= 1
      /\ A[1].tile = request.producer /\ A[1].capture = request.ready
      /\ \A i \in 1 .. n - 1 : A[i + 1].tile = EndTile(A[i]) /\ A[i + 1].capture = EndTime(A[i])
      /\ \A i \in 1 .. n : Proper(A[i])
      /\ \A i, j \in 1 .. n : i < j => A[i].capture < A[j].capture
      /\ EndTile(A[n]) = p[1] /\ EndTime(A[n]) = search.best[p][1]
  BY DEF Carries
<1>3. PICK h : Counts(h, A) /\ h[n] = search.best[p][2] BY DEF Carries
<1>4. a \in Actions BY <1>1 DEF Proper
<1>5. /\ n \in Nat /\ B \in Seq(Actions) /\ Len(B) = n + 1 /\ B[n + 1] = a
      /\ \A i \in 1 .. n : B[i] = A[i]
  <2>1. A \in Seq(Actions) /\ a \in Actions BY <1>2, <1>4
  <2> HIDE DEF Actions
  <2> QED BY <2>1, AppendProperties
<1> HIDE DEF B
<1>6. /\ search.best[s][2] \in Nat /\ search.best[p][2] \in Nat /\ search.best[p][1] \in Nat
  BY <1>1 DEF Costs
<1> HIDE DEF p, n
<1>7. \A i \in 1 .. n + 1 : i \in 1 .. n \/ i = n + 1 BY <1>5
<1>8. /\ B[1].tile = request.producer /\ B[1].capture = request.ready
  <2>1. 1 \in 1 .. n BY <1>2, <1>5
  <2> QED BY <2>1, <1>2, <1>5
<1>9. ASSUME NEW i \in 1 .. Len(B) - 1
      PROVE  B[i + 1].tile = EndTile(B[i]) /\ B[i + 1].capture = EndTime(B[i])
  <2>1. i \in 1 .. n BY <1>5
  <2>2. CASE i = n BY <2>1, <2>2, <1>1, <1>2, <1>5
  <2>3. CASE i # n
    <3>1. i \in 1 .. n - 1 /\ i + 1 \in 1 .. n BY <2>1, <2>3, <1>5
    <3> QED BY <3>1, <2>1, <1>2, <1>5
  <2> QED BY <2>2, <2>3
<1>10. \A i \in 1 .. Len(B) : Proper(B[i]) BY <1>1, <1>2, <1>5, <1>7
<1>11. ASSUME NEW i \in 1 .. Len(B), NEW j \in 1 .. Len(B), i < j
       PROVE  B[i].capture < B[j].capture
  <2>1. CASE j # n + 1
    <3>1. i \in 1 .. n /\ j \in 1 .. n BY <2>1, <1>5, <1>11
    <3> QED BY <3>1, <1>2, <1>5, <1>11
  <2>2. CASE j = n + 1
    <3>1. i \in 1 .. n /\ n \in 1 .. n BY <2>2, <1>2, <1>5, <1>11
    <3>2. i # n => A[i].capture < A[n].capture
      <4>1. i # n => i < n BY <3>1, <1>5
      <4> QED BY <4>1, <3>1, <1>2
    <3>3. /\ A[i].capture \in Nat /\ A[n].capture \in Nat
          /\ A[n].capture < EndTime(A[n])
      BY <3>1, <1>2, EndsLater
    <3>4. A[i].capture < a.capture BY <3>2, <3>3, <1>1, <1>2, <1>6
    <3> QED BY <3>1, <3>4, <2>2, <1>5
  <2> QED BY <2>1, <2>2
<1> DEFINE g == [i \in 0 .. n + 1 |-> IF i = n + 1 THEN search.best[s][2] ELSE h[i]]
<1>12. Counts(g, B) /\ g[n + 1] = search.best[s][2]
  <2>1. /\ h \in [0 .. n -> Int] /\ h[0] = 0
        /\ \A i \in 1 .. n : h[i] = h[i - 1] + (A[i].release - A[i].capture)
    BY <1>3 DEF Counts, n
  <2>2. /\ g \in [0 .. n + 1 -> Int] /\ g[n + 1] = search.best[s][2]
        /\ \A i \in 0 .. n : g[i] = h[i]
    <3>1. \A i \in 0 .. n + 1 : i # n + 1 => i \in 0 .. n BY <1>5
    <3>2. \A i \in 0 .. n : i \in 0 .. n + 1 /\ i # n + 1 BY <1>5
    <3>3. n + 1 \in 0 .. n + 1 BY <1>5
    <3> QED BY <3>1, <3>2, <3>3, <2>1, <1>6
  <2> HIDE DEF g
  <2>3. 0 \in 0 .. n BY <1>5
  <2>4. g[0] = 0 BY <2>1, <2>2, <2>3
  <2>5. ASSUME NEW i \in 1 .. n + 1 PROVE g[i] = g[i - 1] + (B[i].release - B[i].capture)
    <3>1. CASE i = n + 1
      <4>1. i - 1 = n /\ n \in 0 .. n BY <3>1, <1>5
      <4>2. g[i - 1] = search.best[p][2] BY <4>1, <2>2, <1>3
      <4>3. a.release - a.capture = search.best[s][2] - search.best[p][2] BY <1>1 DEF p
      <4> QED BY <3>1, <4>2, <4>3, <2>2, <1>5, <1>6
    <3>2. CASE i # n + 1
      <4>1. i \in 1 .. n /\ i \in 0 .. n /\ i - 1 \in 0 .. n BY <3>2, <1>5
      <4> QED BY <4>1, <2>1, <2>2, <1>5
    <3> QED BY <3>1, <3>2
  <2> QED BY <2>2, <2>4, <2>5, <1>5 DEF Counts
<1> HIDE DEF g
<1>13. EndTile(B[Len(B)]) = s[1] /\ EndTime(B[Len(B)]) = search.best[s][1] BY <1>1, <1>5
<1>14. Len(B) >= 1 BY <1>5
<1>15. Carries(B, s)
  <2>1. \E f : Counts(f, B) /\ f[Len(B)] = search.best[s][2] BY <1>12, <1>5
  <2> QED BY <2>1, <1>5, <1>8, <1>9, <1>10, <1>11, <1>13, <1>14 DEF Carries
<1> QED BY <1>15 DEF B, a

\* B is A with a longer last action, which counts for as much more.
Prolonged(A, B, n, h, z) ==
    /\ n \in Nat \ {0} /\ Len(A) = n /\ Len(B) = n /\ Counts(h, A)
    /\ \A i \in 1 .. n : i # n => B[i] = A[i]
    /\ B[n].capture = A[n].capture /\ A[n].capture \in Int
    /\ A[n].release \in Int /\ B[n].release \in Int
    /\ z \in Int /\ z - h[n] = B[n].release - A[n].release

LEMMA CountsLonger ==
    ASSUME NEW A, NEW B, NEW n, NEW h, NEW z, Prolonged(A, B, n, h, z)
    PROVE  \E g : Counts(g, B) /\ g[n] = z
<1> USE DEF Prolonged
<1> DEFINE g == [i \in 0 .. n |-> IF i = n THEN z ELSE h[i]]
<1>1. /\ h \in [0 .. n -> Int] /\ h[0] = 0
      /\ \A i \in 1 .. n : h[i] = h[i - 1] + (A[i].release - A[i].capture)
  BY DEF Counts
<1>2. /\ g \in [0 .. n -> Int] /\ g[n] = z
      /\ \A i \in 0 .. n : i # n => g[i] = h[i]
  <2>1. n \in 0 .. n OBVIOUS
  <2> QED BY <2>1, <1>1
<1> HIDE DEF g
<1>3. g[0] = 0 BY <1>1, <1>2
<1>4. ASSUME NEW i \in 1 .. n PROVE g[i] = g[i - 1] + (B[i].release - B[i].capture)
  <2>1. i \in 0 .. n /\ i - 1 \in 0 .. n /\ i - 1 # n OBVIOUS
  <2>2. g[i - 1] = h[i - 1] BY <2>1, <1>2
  <2>3. CASE i = n
    <3>1. h[n] = h[n - 1] + (A[n].release - A[n].capture) /\ h[n - 1] \in Int /\ h[n] \in Int
      BY <2>1, <2>3, <1>1
    <3>2. z = h[n - 1] + (B[n].release - B[n].capture) BY <3>1, SMTT(30)
    <3> QED BY <3>2, <2>2, <2>3, <1>2
  <2>4. CASE i # n BY <2>1, <2>2, <2>4, <1>1, <1>2
  <2> QED BY <2>3, <2>4
<1> QED BY <1>2, <1>3, <1>4 DEF Counts

LEMMA CarryProlong ==
    ASSUME request \in Requests, Typed(search), InTime(search), Descent(search),
           NEW s \in DOMAIN search.best \ {StartState},
           NEW A, Carries(A, search.pred[s].previous),
           ActionInto(s).kind = "Hold", A[Len(A)].kind = "Hold",
           A[Len(A)].tile = ActionInto(s).tile, A[Len(A)].release = ActionInto(s).capture
    PROVE  Carries([A EXCEPT ![Len(A)].release = ActionInto(s).release], s)
<1> DEFINE p == search.pred[s].previous
           a == ActionInto(s)
           B == [A EXCEPT ![Len(A)].release = a.release]
           n == Len(A)
<1>1. /\ Proper(a) /\ a.tile = p[1] /\ a.capture = search.best[p][1]
      /\ EndTile(a) = s[1] /\ EndTime(a) = search.best[s][1]
      /\ a.release - a.capture = search.best[s][2] - search.best[p][2]
      /\ a.release = search.best[s][1] /\ search.best[p][1] < search.best[s][1]
      /\ search.best[s] \in Costs /\ search.best[p] \in Costs
  BY ActionFacts
<1>0. a.kind = "Hold" /\ A[n].kind = "Hold" /\ A[n].tile = a.tile /\ A[n].release = a.capture
  OBVIOUS
<1> HIDE DEF a
<1>2. /\ A \in Seq(Actions) /\ n >= 1
      /\ A[1].tile = request.producer /\ A[1].capture = request.ready
      /\ \A i \in 1 .. n - 1 : A[i + 1].tile = EndTile(A[i]) /\ A[i + 1].capture = EndTime(A[i])
      /\ \A i \in 1 .. n : Proper(A[i])
      /\ \A i, j \in 1 .. n : i < j => A[i].capture < A[j].capture
  BY DEF Carries
<1>3. PICK h : Counts(h, A) /\ h[n] = search.best[p][2] BY DEF Carries
<1>4. /\ n \in Nat /\ n \in 1 .. n /\ DOMAIN A = 1 .. n BY <1>2
<1>6. /\ search.best[s][2] \in Nat /\ search.best[p][2] \in Nat
      /\ search.best[p][1] \in Nat /\ search.best[s][1] \in Nat
  BY <1>1 DEF Costs
<1>5. A[n] \in Actions /\ Proper(A[n]) BY <1>2, <1>4 DEF Proper
<1>7. [A[n] EXCEPT !.release = a.release] \in Actions BY <1>1, <1>5, <1>6 DEF Actions
<1>8. /\ B[n] = [A[n] EXCEPT !.release = a.release]
      /\ \A i \in 1 .. n : i # n => B[i] = A[i]
      /\ DOMAIN B = 1 .. n /\ B = [i \in 1 .. n |-> B[i]]
  <2> HIDE DEF n
  <2>1. B = [A EXCEPT ![n] = [A[n] EXCEPT !.release = a.release]] BY DEF n
  <2>2. A = [i \in 1 .. n |-> A[i]] BY <1>2, <1>4
  <2> QED BY <2>1, <2>2, <1>4
<1>9. /\ B[n].kind = "Hold" /\ B[n].tile = a.tile /\ B[n].capture = A[n].capture
      /\ B[n].release = search.best[s][1]
  BY <1>0, <1>1, <1>5, <1>8 DEF Actions
<1> HIDE DEF B, p, n
<1>10. B \in Seq(Actions) /\ Len(B) = n
  <2>1. \A i \in 1 .. n : B[i] \in Actions BY <1>2, <1>7, <1>8 DEF Proper
  <2> HIDE DEF Actions
  <2>2. B \in [1 .. n -> Actions] BY <2>1, <1>8
  <2> QED BY <2>2, <1>4
<1>11. \A i \in 1 .. n : B[i].tile = A[i].tile /\ B[i].capture = A[i].capture
  <2>1. B[n].tile = A[n].tile /\ B[n].capture = A[n].capture BY <1>0, <1>9
  <2> QED BY <2>1, <1>8
<1>12. /\ B[1].tile = request.producer /\ B[1].capture = request.ready
  <2>1. 1 \in 1 .. n BY <1>2, <1>4 DEF n
  <2> QED BY <2>1, <1>2, <1>11
<1>13. ASSUME NEW i \in 1 .. Len(B) - 1
       PROVE  B[i + 1].tile = EndTile(B[i]) /\ B[i + 1].capture = EndTime(B[i])
  <2>1. i \in 1 .. n - 1 /\ i \in 1 .. n /\ i # n /\ i + 1 \in 1 .. n BY <1>4, <1>10
  <2>2. B[i] = A[i] BY <2>1, <1>8
  <2> QED BY <2>1, <2>2, <1>2, <1>11
<1>14. A[n].capture \in Nat /\ A[n].capture < search.best[s][1]
  <2>1. A[n].capture \in Nat /\ A[n].capture < EndTime(A[n]) BY <1>5, EndsLater
  <2>2. EndTime(A[n]) = search.best[p][1] BY <1>0, <1>1 DEF EndTime, n, p
  <2> QED BY <2>1, <2>2, <1>1, <1>6 DEF p
<1>15. \A i \in 1 .. Len(B) : Proper(B[i])
  <2>1. B[n] \in Actions BY <1>7, <1>8
  <2>2. Proper(B[n]) BY <2>1, <1>6, <1>9, <1>14 DEF Proper
  <2> QED BY <2>2, <1>2, <1>8, <1>10
<1>16. \A i, j \in 1 .. Len(B) : i < j => B[i].capture < B[j].capture
  BY <1>2, <1>10, <1>11
<1>17. \E g : Counts(g, B) /\ g[n] = search.best[s][2]
  <2>1. /\ search.best[s][2] - h[n] = B[n].release - A[n].release
        /\ B[n].release \in Int /\ A[n].release \in Int /\ search.best[s][2] \in Int
        /\ A[n].capture \in Int /\ B[n].capture = A[n].capture
    BY <1>0, <1>1, <1>3, <1>6, <1>9, <1>14 DEF p
  <2>2. Len(A) = n /\ Counts(h, A) BY <1>3 DEF n
  <2>3. n \in Nat \ {0} BY <1>4
  <2>4. Len(B) = n /\ \A i \in 1 .. n : i # n => B[i] = A[i] BY <1>8, <1>10
  <2> DEFINE z == search.best[s][2]
  <2>5. z \in Int /\ z - h[n] = B[n].release - A[n].release BY <2>1
  <2> HIDE DEF z
  <2>6. \E g : Counts(g, B) /\ g[n] = z
    <3>1. Prolonged(A, B, n, h, z) BY <2>1, <2>2, <2>3, <2>4, <2>5 DEF Prolonged
    <3> QED BY <3>1, CountsLonger
  <2> QED BY <2>6 DEF z
<1>18. EndTile(B[n]) = s[1] /\ EndTime(B[n]) = search.best[s][1]
  <2>1. a.tile = s[1] BY <1>0, <1>1 DEF EndTile
  <2> QED BY <2>1, <1>9 DEF EndTile, EndTime
<1>19. Carries(B, s)
  <2>1. \E f : Counts(f, B) /\ f[Len(B)] = search.best[s][2] BY <1>17, <1>10
  <2>2. Len(B) >= 1 BY <1>2, <1>10 DEF n
  <2> QED BY <2>1, <2>2, <1>10, <1>12, <1>13, <1>15, <1>16, <1>18 DEF Carries
<1> QED BY <1>19 DEF B, a, n

LEMMA CarryOn ==
    ASSUME request \in Requests, Typed(search), InTime(search), Descent(search),
           NEW s \in DOMAIN search.best \ {StartState}, NEW A,
           \/ A = <<>> /\ search.pred[s].previous = StartState
           \/ Carries(A, search.pred[s].previous)
    PROVE  Carries(AppendAction(A, ActionInto(s)), s)
<1> DEFINE a == ActionInto(s)
           n == Len(A)
<1>1. CASE A = <<>> /\ search.pred[s].previous = StartState
  BY <1>1, CarryFirst
<1>2. CASE Carries(A, search.pred[s].previous)
  <2>1. A \in Seq(Actions) /\ Len(A) >= 1 BY <1>2 DEF Carries
  <2> HIDE DEF Actions
  <2>2. A # <<>> /\ Last(A) = A[n] BY <2>1 DEF Last
  <2>3. CASE /\ a.kind = "Hold" /\ A[n].kind = "Hold" /\ A[n].tile = a.tile
             /\ A[n].release = a.capture
    <3>1. AppendAction(A, a) = [A EXCEPT ![Len(A)].release = a.release]
      BY <2>2, <2>3 DEF AppendAction
    <3>2. Carries([A EXCEPT ![Len(A)].release = a.release], s)
      BY <1>2, <2>3, CarryProlong
    <3> QED BY <3>1, <3>2
  <2>4. CASE ~(/\ a.kind = "Hold" /\ A[n].kind = "Hold" /\ A[n].tile = a.tile
               /\ A[n].release = a.capture)
    <3>1. AppendAction(A, a) = Append(A, a) BY <2>2, <2>4 DEF AppendAction
    <3>2. Carries(Append(A, a), s) BY <1>2, CarryAppend
    <3> QED BY <3>1, <3>2
  <2> QED BY <2>3, <2>4
<1> QED BY <1>1, <1>2

\* The trail goes from the goal back along predecessors, each of them earlier, and
\* ends at the start.
LEMMA TrailFacts ==
    ASSUME request \in Requests, Typed(search), InTime(search), Descent(search),
           NEW goal \in DOMAIN search.best
    PROVE  /\ search.best[goal][1] \in Nat
           /\ Trail(goal) \in [0 .. search.best[goal][1] -> DOMAIN search.best]
           /\ Trail(goal)[0] = goal
           /\ \A k \in 1 .. search.best[goal][1] :
                 Trail(goal)[k - 1] # StartState =>
                    Trail(goal)[k] = search.pred[Trail(goal)[k - 1]].previous
           /\ Trail(goal)[search.best[goal][1]] = StartState
<1> DEFINE b == search.best
           S == DOMAIN b
           E == b[goal][1]
           back[k \in 0 .. E] ==
              IF k = 0 THEN goal
              ELSE LET child == back[k - 1]
                   IN  IF child = StartState THEN child ELSE search.pred[child].previous
           G == [z \in Nat \X S |-> IF z[2] = StartState THEN z[2]
                                     ELSE search.pred[z[2]].previous]
<1>1. E \in Nat /\ \A s \in S : b[s][1] \in Nat
  <2>1. \A s \in S : b[s] \in Costs BY DEF Typed
  <2> QED BY <2>1 DEF Costs
<1>2. ASSUME NEW s \in S, s # StartState
      PROVE  /\ search.pred[s].previous \in S
             /\ b[search.pred[s].previous][1] < b[s][1]
  <2>1. s \in DOMAIN search.best \ {StartState} BY <1>2
  <2> QED BY <2>1, ActionFacts
<1>3. G \in [Nat \X S -> S] BY <1>2
<1> HIDE DEF E
<1>4. PICK h \in [0 .. E -> S] : Iterates(h, goal, G, E)
  <2>1. goal \in S OBVIOUS
  <2> HIDE DEF G, back, S
  <2> QED BY <2>1, <1>1, <1>3, RecursionExists, Zenon
<1>5. h[0] = goal /\ \A k \in 1 .. E : h[k] = G[<<k, h[k - 1]>>]
  <2> HIDE DEF G, back, S
  <2> QED BY <1>4 DEF Iterates
<1>6. ASSUME NEW k \in 1 .. E
      PROVE  h[k] = IF h[k - 1] = StartState THEN h[k - 1] ELSE search.pred[h[k - 1]].previous
  <2>1. k \in Nat /\ k - 1 \in 0 .. E BY <1>1, <1>6
  <2>2. <<k, h[k - 1]>> \in Nat \X S BY <2>1, <1>4
  <2> QED BY <2>2, <1>5, <1>6
<1> HIDE DEF G
<1> DEFINE Body(f) == [k \in 0 .. E |->
              IF k = 0 THEN goal
              ELSE LET child == f[k - 1]
                   IN  IF child = StartState THEN child ELSE search.pred[child].previous]
<1>7. h = Body(h)
  <2>1. \A k \in 0 .. E : k = 0 \/ k \in 1 .. E BY <1>1
  <2> QED BY <2>1, <1>4, <1>5, <1>6
<1>8. back = Body(back) BY <1>7
<1>9. Trail(goal) = back BY DEF Trail, E
<1> HIDE DEF back
<1>10. /\ back[0] = goal
       /\ \A k \in 1 .. E : back[k] = IF back[k - 1] = StartState THEN back[k - 1]
                                       ELSE search.pred[back[k - 1]].previous
  <2>1. \A k \in 0 .. E : back[k] = IF k = 0 THEN goal
                            ELSE IF back[k - 1] = StartState THEN back[k - 1]
                                 ELSE search.pred[back[k - 1]].previous
    BY <1>8, Zenon
  <2>2. 0 \in 0 .. E /\ \A k \in 1 .. E : k \in 0 .. E /\ k # 0 BY <1>1
  <2> QED BY <2>1, <2>2, Zenon
<1> HIDE DEF Body
<1>11. \A k \in 0 .. E : back[k] \in S /\ (back[k] = StartState \/ b[back[k]][1] + k =< E)
  <2> DEFINE T == {k \in 0 .. E : /\ back[k] \in S
                                  /\ back[k] = StartState \/ b[back[k]][1] + k =< E}
  <2>1. 0 \in T
    <3>1. b[goal][1] + 0 =< E BY <1>1 DEF E
    <3> QED BY <3>1, <1>1, <1>10
  <2>2. ASSUME NEW k \in 1 .. E, k - 1 \in T PROVE k \in T
    <3>1. /\ back[k - 1] \in S
          /\ back[k - 1] = StartState \/ b[back[k - 1]][1] + (k - 1) =< E
      BY <2>2
    <3>2. CASE back[k - 1] = StartState
      <4>1. back[k] = StartState BY <3>2, <1>10
      <4> QED BY <4>1, <3>1, <3>2, <1>1
    <3>3. CASE back[k - 1] # StartState
      <4>1. back[k] = search.pred[back[k - 1]].previous BY <3>3, <1>10
      <4>2. back[k] \in S /\ b[back[k]][1] < b[back[k - 1]][1] BY <4>1, <3>1, <3>3, <1>2
      <4>3. b[back[k]][1] \in Nat /\ b[back[k - 1]][1] \in Nat BY <4>2, <3>1, <1>1
      <4>4. b[back[k]][1] + k =< E BY <4>2, <4>3, <3>1, <3>3, <1>1
      <4> QED BY <4>2, <4>4, <1>1
    <3> QED BY <3>2, <3>3
  <2> HIDE DEF T
  <2>3. \A k \in 0 .. E : k \in T BY <1>1, <2>1, <2>2, Climb
  <2> QED BY <2>3 DEF T
<1>12. back[E] = StartState
  <2> SUFFICES ASSUME back[E] # StartState PROVE FALSE OBVIOUS
  <2>1. E \in 0 .. E BY <1>1
  <2>2. back[E] \in S /\ b[back[E]][1] + E =< E BY <2>1, <1>11
  <2>3. b[back[E]][1] = 0 BY <2>2, <1>1
  <2>4. /\ search.pred[back[E]].previous \in S
        /\ b[search.pred[back[E]].previous][1] < b[back[E]][1]
    BY <2>2, <1>2
  <2>5. b[search.pred[back[E]].previous][1] \in Nat BY <2>4, <1>1
  <2> QED BY <2>3, <2>4, <2>5
<1>13. back \in [0 .. E -> S]
  <2>1. back = [k \in 0 .. E |-> back[k]] BY <1>8, Zenon DEF Body
  <2> QED BY <2>1, <1>11
<1>14. \A k \in 1 .. E : back[k - 1] # StartState => back[k] = search.pred[back[k - 1]].previous
  BY <1>10
<1> QED BY <1>1, <1>9, <1>10, <1>12, <1>13, <1>14 DEF E

LEMMA AppendActionTyped ==
    ASSUME NEW A \in Seq(Actions), NEW a \in Actions
    PROVE  AppendAction(A, a) \in Seq(Actions)
<1> DEFINE n == Len(A)
           B == [A EXCEPT ![Len(A)].release = a.release]
<1>1. Append(A, a) \in Seq(Actions)
  <2> HIDE DEF Actions
  <2> QED BY AppendProperties
<1>2. CASE A = <<>> BY <1>1, <1>2 DEF AppendAction
<1>3. CASE A # <<>>
  <2>1. n \in Nat /\ n \in 1 .. n /\ DOMAIN A = 1 .. n /\ A = [i \in 1 .. n |-> A[i]]
    BY <1>3
  <2>2. \A i \in 1 .. n : A[i] \in Actions
    <3> HIDE DEF Actions
    <3> QED BY ElementOfSeq
  <2> HIDE DEF n
  <2>3. [A[n] EXCEPT !.release = a.release] \in Actions BY <2>1, <2>2 DEF Actions
  <2>4. B = [A EXCEPT ![n] = [A[n] EXCEPT !.release = a.release]] BY DEF n
  <2>5. B \in [1 .. n -> Actions]
    <3> DEFINE z == [A[n] EXCEPT !.release = a.release]
    <3>1. z \in Actions /\ B = [A EXCEPT ![n] = z] BY <2>3, <2>4
    <3> HIDE DEF z, B, Actions
    <3> QED BY <3>1, <2>1, <2>2
  <2>6. B \in Seq(Actions)
    <3> HIDE DEF B, Actions
    <3> QED BY <2>1, <2>5
  <2> QED BY <1>1, <2>6 DEF AppendAction
<1> QED BY <1>2, <1>3

\* The plan carries the value from the producer to the goal.
LEMMA PlanCarries ==
    ASSUME request \in Requests, Typed(search), InTime(search), Descent(search),
           NEW goal \in DOMAIN search.best, goal # StartState
    PROVE  /\ Carries(reconstruct(goal).actions, goal)
           /\ reconstruct(goal).separation = search.best[goal][1]
<1> DEFINE E == search.best[goal][1]
           S == DOMAIN search.best
<1>1. PICK T : T = Trail(goal) OBVIOUS
<1>2. /\ E \in Nat /\ T \in [0 .. E -> S] /\ T[0] = goal
      /\ \A k \in 1 .. E : T[k - 1] # StartState => T[k] = search.pred[T[k - 1]].previous
      /\ T[E] = StartState
  BY <1>1, TrailFacts
<1> HIDE DEF E
<1> DEFINE Ends == {k \in DOMAIN T : T[k] = StartState}
<1>3. PICK n : n = Min(Ends) OBVIOUS
<1>4. n \in 1 .. E /\ T[n] = StartState /\ \A k \in 0 .. n - 1 : T[k] # StartState
  <2>1. Ends \in SUBSET Nat /\ Ends # {} BY <1>2
  <2>2. Min(Ends) \in Ends /\ \A y \in Ends : Min(Ends) =< y
    <3> HIDE DEF Ends
    <3> QED BY <2>1, MinIsMember
  <2>3. n \in 0 .. E /\ T[n] = StartState /\ \A y \in Ends : n =< y BY <2>2, <1>2, <1>3
  <2>4. n # 0 BY <2>3, <1>2
  <2>5. ASSUME NEW k \in 0 .. n - 1, T[k] = StartState PROVE FALSE
    <3>1. k \in 0 .. E /\ ~(n =< k) BY <2>3, <1>2
    <3>2. k \in Ends BY <3>1, <2>5, <1>2
    <3> QED BY <3>1, <3>2, <2>3
  <2> QED BY <2>3, <2>4, <2>5, <1>2
<1>5. reconstruct(goal) = [actions |-> ActionsAlong(T, n), separation |-> E]
  BY <1>1, <1>3 DEF reconstruct, E
<1> DEFINE acts[k \in 0 .. n] ==
               IF k = 0 THEN <<>> ELSE AppendAction(acts[k - 1], ActionInto(T[n - k]))
           X == Seq(Actions)
           G == [z \in Nat \X X |-> IF z[1] \in 1 .. n
                                     THEN AppendAction(z[2], ActionInto(T[n - z[1]])) ELSE z[2]]
<1>6. n \in Nat BY <1>2, <1>4
<1>7. ASSUME NEW k \in 1 .. n
      PROVE  /\ T[n - k] \in S \ {StartState} /\ ActionInto(T[n - k]) \in Actions
             /\ search.pred[T[n - k]].previous = T[n - (k - 1)]
  <2>1. /\ n - k \in 0 .. n - 1 /\ n - k \in 0 .. E /\ n - (k - 1) \in 1 .. E
        /\ n - (k - 1) - 1 = n - k
    BY <1>2, <1>4
  <2>2. T[n - k] \in S \ {StartState} BY <2>1, <1>2, <1>4
  <2> DEFINE s == T[n - k]
  <2>3. s \in DOMAIN search.best \ {StartState} BY <2>2
  <2> HIDE DEF s
  <2>4. Proper(ActionInto(s)) BY <2>3, ActionFacts
  <2>5. ActionInto(s) \in Actions BY <2>4 DEF Proper
  <2>6. T[n - (k - 1)] = search.pred[T[n - k]].previous BY <2>1, <2>2, <1>2
  <2> QED BY <2>2, <2>5, <2>6 DEF s
<1>8. G \in [Nat \X X -> X]
  <2> SUFFICES ASSUME NEW k \in Nat, NEW A \in X
               PROVE  (IF k \in 1 .. n THEN AppendAction(A, ActionInto(T[n - k])) ELSE A) \in X
    OBVIOUS
  <2>1. CASE k \in 1 .. n
    <3>1. ActionInto(T[n - k]) \in Actions BY <2>1, <1>7
    <3> DEFINE a == ActionInto(T[n - k])
    <3>2. a \in Actions BY <3>1
    <3> HIDE DEF a, Actions
    <3>3. AppendAction(A, a) \in Seq(Actions) BY <3>2, AppendActionTyped
    <3> QED BY <3>3, <2>1 DEF a
  <2>2. CASE k \notin 1 .. n BY <2>2
  <2> QED BY <2>1, <2>2
<1>9. PICK h \in [0 .. n -> X] : Iterates(h, <<>>, G, n)
  <2>1. <<>> \in X OBVIOUS
  <2> HIDE DEF G, X, acts
  <2> QED BY <2>1, <1>6, <1>8, RecursionExists, Zenon
<1>10. h[0] = <<>> /\ \A k \in 1 .. n : h[k] = G[<<k, h[k - 1]>>]
  <2> HIDE DEF G, X, acts
  <2> QED BY <1>9 DEF Iterates
<1>11. ASSUME NEW k \in 1 .. n PROVE h[k] = AppendAction(h[k - 1], ActionInto(T[n - k]))
  <2>1. k \in Nat /\ k - 1 \in 0 .. n BY <1>6
  <2>2. <<k, h[k - 1]>> \in Nat \X X BY <2>1, <1>9
  <2> QED BY <2>2, <1>10
<1> HIDE DEF G, X
<1> DEFINE Body(f) == [k \in 0 .. n |->
               IF k = 0 THEN <<>> ELSE AppendAction(f[k - 1], ActionInto(T[n - k]))]
<1>12. h = Body(h)
  <2>1. \A k \in 0 .. n : k = 0 \/ k \in 1 .. n BY <1>6
  <2> QED BY <2>1, <1>9, <1>10, <1>11
<1>13. acts = Body(acts) BY <1>12
<1>14. ActionsAlong(T, n) = acts[n] BY DEF ActionsAlong
<1> HIDE DEF acts
<1>15. /\ acts[0] = <<>>
       /\ \A k \in 1 .. n : acts[k] = AppendAction(acts[k - 1], ActionInto(T[n - k]))
  <2>1. \A k \in 0 .. n : acts[k] = IF k = 0 THEN <<>>
                            ELSE AppendAction(acts[k - 1], ActionInto(T[n - k]))
    BY <1>13, Zenon
  <2>2. 0 \in 0 .. n /\ \A k \in 1 .. n : k \in 0 .. n /\ k # 0 BY <1>6
  <2> QED BY <2>1, <2>2, Zenon
<1> HIDE DEF Body
<1>16. \A k \in 0 .. n : k # 0 => Carries(acts[k], T[n - k])
  <2> DEFINE Q == {k \in 0 .. n : k # 0 => Carries(acts[k], T[n - k])}
  <2>1. 0 \in Q BY <1>6
  <2>2. ASSUME NEW k \in 1 .. n, k - 1 \in Q PROVE k \in Q
    <3> DEFINE s == T[n - k]
               A == acts[k - 1]
    <3>1. s \in DOMAIN search.best \ {StartState} /\ search.pred[s].previous = T[n - (k - 1)]
      BY <1>7
    <3>2. \/ A = <<>> /\ search.pred[s].previous = StartState
          \/ Carries(A, search.pred[s].previous)
      <4>1. CASE k = 1
        <5>1. k - 1 = 0 /\ n - (k - 1) = n BY <4>1, <1>6
        <5> QED BY <5>1, <3>1, <1>4, <1>15
      <4>2. CASE k # 1
        <5>1. k - 1 # 0 BY <4>2
        <5>2. Carries(acts[k - 1], T[n - (k - 1)]) BY <5>1, <2>2
        <5> QED BY <5>2, <3>1
      <4> QED BY <4>1, <4>2
    <3>3. acts[k] = AppendAction(A, ActionInto(s)) BY <1>15
    <3> HIDE DEF s, A
    <3>4. Carries(AppendAction(A, ActionInto(s)), s) BY <3>1, <3>2, CarryOn
    <3>5. k \in 0 .. n BY <1>6
    <3> QED BY <3>3, <3>4, <3>5 DEF s
  <2> HIDE DEF Q
  <2>3. \A k \in 0 .. n : k \in Q BY <1>6, <2>1, <2>2, Climb
  <2> QED BY <2>3 DEF Q
<1>17. Carries(acts[n], goal)
  <2>1. n \in 0 .. n /\ n # 0 /\ n - n = 0 BY <1>4, <1>6
  <2>2. Carries(acts[n], T[n - n]) BY <2>1, <1>16
  <2> QED BY <2>1, <2>2, <1>2
<1> QED BY <1>5, <1>14, <1>17 DEF E

LEMMA HeldIsCounted ==
    ASSUME NEW p, Len(p.actions) \in Nat, NEW h, Counts(h, p.actions)
    PROVE  HoldCycles(p) = h[Len(p.actions)]
<1> DEFINE n == Len(p.actions)
           held[i \in 0 .. n] ==
               IF i = 0 THEN 0
               ELSE held[i - 1] + (p.actions[i].release - p.actions[i].capture)
           Body(f) == [i \in 0 .. n |->
               IF i = 0 THEN 0 ELSE f[i - 1] + (p.actions[i].release - p.actions[i].capture)]
<1>1. /\ n \in Nat /\ h \in [0 .. n -> Int] /\ h[0] = 0
      /\ \A i \in 1 .. n : h[i] = h[i - 1] + (p.actions[i].release - p.actions[i].capture)
  BY DEF Counts
<1>2. HoldCycles(p) = held[n] BY DEF HoldCycles
<1> HIDE DEF n
<1>3. h = Body(h)
  <2>1. \A i \in 0 .. n : i = 0 \/ i \in 1 .. n BY <1>1
  <2> QED BY <2>1, <1>1
<1>4. held = Body(held) BY <1>3
<1> HIDE DEF held
<1>5. /\ held[0] = 0
      /\ \A i \in 1 .. n :
            held[i] = held[i - 1] + (p.actions[i].release - p.actions[i].capture)
  <2>1. \A i \in 0 .. n : held[i] =
           IF i = 0 THEN 0 ELSE held[i - 1] + (p.actions[i].release - p.actions[i].capture)
    BY <1>4, Zenon
  <2>2. 0 \in 0 .. n /\ \A i \in 1 .. n : i \in 0 .. n /\ i # 0 BY <1>1
  <2> QED BY <2>1, <2>2, Zenon
<1> HIDE DEF Body
<1> DEFINE T == {i \in 0 .. n : held[i] = h[i]}
<1>6. 0 \in T BY <1>1, <1>5
<1>7. ASSUME NEW i \in 1 .. n, i - 1 \in T PROVE i \in T
  <2>1. i \in 0 .. n BY <1>1
  <2>2. held[i - 1] = h[i - 1] BY <1>7
  <2>3. held[i] = h[i] BY <2>2, <1>1, <1>5, Zenon
  <2> QED BY <2>1, <2>3
<1> HIDE DEF T
<1>8. \A i \in 0 .. n : i \in T BY <1>1, <1>6, <1>7, Climb
<1>9. n \in T BY <1>1, <1>8
<1> QED BY <1>2, <1>9 DEF T, n

\* In modulo time the links of a route do not meet: the state a link is launched
\* from is the link's tile and slot, and no state is visited twice.
LEMMA CarriedTransports ==
    ASSUME request \in Requests, Typed(search), InTime(search),
           NEW g \in DOMAIN search.best, g[1] = request.consumer,
           NEW p, Carries(p.actions, g), p.separation = search.best[g][1]
    PROVE  Transports(p) /\ ~SelfConflict(p) /\ HoldCycles(p) = search.best[g][2]
<1> DEFINE A == p.actions
           n == Len(A)
<1>1. /\ A \in Seq(Actions) /\ n >= 1
      /\ A[1].tile = request.producer /\ A[1].capture = request.ready
      /\ \A i \in 1 .. n - 1 : A[i + 1].tile = EndTile(A[i]) /\ A[i + 1].capture = EndTime(A[i])
      /\ \A i \in 1 .. n : Proper(A[i])
      /\ \A i, j \in 1 .. n : i < j => A[i].capture < A[j].capture
      /\ EndTile(A[n]) = g[1] /\ EndTime(A[n]) = search.best[g][1]
      /\ \E h : Counts(h, A) /\ h[n] = search.best[g][2]
  BY DEF Carries
<1>2. n \in Nat /\ A # <<>> /\ Last(A) = A[n]
  <2> HIDE DEF Actions
  <2> QED BY <1>1 DEF Last
<1>3. HoldCycles(p) = search.best[g][2]
  <2>1. PICK h : Counts(h, A) /\ h[n] = search.best[g][2] BY <1>1
  <2> QED BY <2>1, <1>2, HeldIsCounted
<1>4. \A i \in 1 .. n : /\ A[i].capture \in Nat /\ A[i].kind \in {"Link", "Hold"}
  BY <1>1 DEF Proper, Actions
<1>5. ~SelfConflict(p)
  <2> SUFFICES ASSUME NEW i \in DOMAIN PlanLinks(p), NEW j \in DOMAIN PlanLinks(p), i # j,
                      PlanLinks(p)[i] = PlanLinks(p)[j]
               PROVE  FALSE
    BY DEF SelfConflict
  <2>1. /\ i \in 1 .. n /\ j \in 1 .. n /\ A[i].kind = "Link" /\ A[j].kind = "Link"
        /\ LaunchLink(A[i].tile, A[i].direction, A[i].capture)
              = LaunchLink(A[j].tile, A[j].direction, A[j].capture)
    BY DEF PlanLinks
  <2>2. /\ A[i].tile = A[j].tile
        /\ advance(request.issueSlot, A[i].capture) = advance(request.issueSlot, A[j].capture)
    BY <2>1 DEF LaunchLink
  <2>3. PICK u \in DOMAIN search.best : u[1] = A[i].tile /\ search.best[u][1] = A[i].capture
    BY <2>1, <1>1 DEF Proper
  <2>4. PICK v \in DOMAIN search.best : v[1] = A[j].tile /\ search.best[v][1] = A[j].capture
    BY <2>1, <1>1 DEF Proper
  <2>5. u[2] = v[2] BY <2>2, <2>3, <2>4 DEF InTime
  <2>6. u = v
    <3>1. u \in States /\ v \in States BY DEF Typed
    <3>2. u = <<u[1], u[2]>> /\ v = <<v[1], v[2]>> BY <3>1 DEF States
    <3> QED BY <3>2, <2>2, <2>3, <2>4, <2>5
  <2>7. A[i].capture = A[j].capture BY <2>3, <2>4, <2>6
  <2>8. i < j \/ j < i BY <2>1, <1>2
  <2> QED BY <2>1, <2>7, <2>8, <1>1, <1>4
<1>6. \A i \in 1 .. n : IF A[i].kind = "Hold" THEN A[i].release > A[i].capture
                        ELSE Usable(A[i].tile, A[i].direction, A[i].capture)
  BY <1>1, <1>4 DEF Proper
<1>7. Transports(p) BY <1>1, <1>2, <1>5, <1>6 DEF Transports
<1> QED BY <1>3, <1>5, <1>7

-----------------------------------------------------------------------------
(* The invariant                                                           *)

\* What holds of a record holds of the search that becomes it.
LEMMA Becomes ==
    ASSUME request' = request, NEW r, search' = r, Typed(r), InTime(r), Descent(r)
    PROVE  Typed(search)' /\ InTime(search)' /\ Descent(search)'
<1>1. Typed(search)' BY DEF Typed, States, Tiles, Entries, Costs, Parents, Kinds
<1>2. InTime(search)' BY DEF InTime, StartState, advance
<1>3. Descent(search)'
  BY DEF Descent, StartState, advance, May, Usable, LaunchLink, After, Onward, Delay, Grown
<1> QED BY <1>1, <1>2, <1>3

LEMMA BecomesSearching ==
    ASSUME request' = request, NEW r, search' = r, Searching(r)
    PROVE  Searching(search)'
<1>1. Queued(search)' /\ Ordered(search)' BY DEF Searching, Queued, Ordered
<1>2. Closed(search)'
  BY DEF Searching, Closed, Relaxed, advance, May, Usable, LaunchLink, After, Onward, Delay, Grown
<1>3. (~search.overBudget /\ \A s \in search.finalized : s[1] # request.consumer)'
  BY DEF Searching
<1> QED BY <1>1, <1>2, <1>3 DEF Searching

\* A plan stays a transport while the request does.
LEMMA SameTransport ==
    ASSUME request' = request, NEW p, p = plan', Transports(p)
    PROVE  Transports(plan)'
<1>1. SelfConflict(plan)' = SelfConflict(p) BY DEF SelfConflict, PlanLinks, LaunchLink, advance
<1>2. (plan.actions # <<>>)' /\ (plan.actions[1].tile = request.producer)'
      /\ (plan.actions[1].capture = request.ready)'
  BY DEF Transports
<1>3. (\A i \in 1 .. Len(plan.actions) - 1 :
          /\ plan.actions[i + 1].tile = EndTile(plan.actions[i])
          /\ plan.actions[i + 1].capture = EndTime(plan.actions[i]))'
  BY DEF Transports, EndTile, EndTime
<1>4. (\A i \in 1 .. Len(plan.actions) :
          IF plan.actions[i].kind = "Hold"
          THEN plan.actions[i].release > plan.actions[i].capture
          ELSE Usable(plan.actions[i].tile, plan.actions[i].direction,
                      plan.actions[i].capture))'
  BY DEF Transports, Usable, LaunchLink, advance
<1>5. (/\ EndTile(Last(plan.actions)) = request.consumer
       /\ EndTime(Last(plan.actions)) = plan.separation)'
  BY DEF Transports, EndTile, EndTime
<1> QED BY <1>1, <1>2, <1>3, <1>4, <1>5 DEF Transports

LEMMA SameSettled ==
    ASSUME request' = request, search' = search, NEW g, Settled(g)
    PROVE  Settled(g)'
BY DEF Settled, Relaxed, advance, May, Usable, LaunchLink, After, Onward, Delay, Grown

LEMMA InitStep ==
    ASSUME Init
    PROVE  IInv
<1>1. request \in Requests BY DEF Init
<1> DEFINE c == <<request.ready, 0, 0>>
           first == [cost |-> c, state |-> StartState, sequence |-> 0]
           none == request.maxQueuePushes = 0
<1>2. /\ request.ready \in Nat /\ request.producer \in Tiles
      /\ request.maxQueuePushes \in Nat /\ request.maxStateExpansions \in Nat
  BY <1>1, RequestFacts
<1>3. StartState \in States /\ StartState[2] = advance(request.issueSlot, request.ready)
  BY <1>1, <1>2, AdvanceFacts DEF StartState, States
<1>4. c \in Costs /\ c[1] = request.ready BY <1>2 DEF Costs
<1> HIDE DEF c
<1>5. /\ DOMAIN search = Fields
      /\ search.best = [s \in {StartState} |-> c] /\ search.pred = [s \in {} |-> 0]
      /\ search.finalized = {} /\ search.queue = IF none THEN {} ELSE {first}
      /\ search.pushes = IF none THEN 0 ELSE 1
      /\ search.expansions = 0 /\ search.overBudget = none
  BY DEF Init, Fields, c
<1>6. /\ DOMAIN search.best = {StartState} /\ search.best[StartState] = c
      /\ DOMAIN search.pred = {}
  BY <1>5
<1>7. first \in Entries /\ first.state = StartState /\ first.sequence = 0 /\ first.cost = c
  BY <1>3, <1>4 DEF Entries
<1> HIDE DEF first
<1>8. Typed(search)
  <2>1. search.best \in [DOMAIN search.best -> Costs] /\ DOMAIN search.best \subseteq States
    BY <1>3, <1>4, <1>5, <1>6
  <2>2. search.pred \in [DOMAIN search.pred -> Parents] BY <1>5, <1>6
  <2>3. /\ search.queue \subseteq Entries
        /\ \A e \in search.queue : e.state \in DOMAIN search.best /\ e.sequence < search.pushes
        /\ \A e, f \in search.queue : e.sequence = f.sequence => e = f
    BY <1>5, <1>6, <1>7
  <2>4. /\ search.pushes \in 0 .. request.maxQueuePushes
        /\ search.expansions \in 0 .. request.maxStateExpansions
        /\ search.overBudget \in BOOLEAN /\ search.finalized \subseteq DOMAIN search.best
    BY <1>2, <1>5
  <2> QED BY <2>1, <2>2, <2>3, <2>4, <1>5 DEF Typed
<1>9. InTime(search) BY <1>2, <1>3, <1>4, <1>6 DEF InTime, c
<1>10. Descent(search) BY <1>6 DEF Descent
<1>11. status = (IF none THEN "budget_exceeded" ELSE "searching") BY DEF Init
<1>12. ASSUME status = "searching" PROVE Searching(search)
  <2>1. ~none BY <1>11, <1>12
  <2>2. Queued(search) BY <2>1, <1>5, <1>6, <1>7 DEF Queued
  <2>3. Ordered(search) /\ Closed(search) BY <1>5 DEF Ordered, Closed
  <2> QED BY <2>1, <2>2, <2>3, <1>5 DEF Searching
<1>13. status # "success" /\ status # "no_path" /\ status # "internal_error" /\ status \in Statuses
  BY <1>11 DEF Statuses
<1> QED BY <1>1, <1>8, <1>9, <1>10, <1>12, <1>13 DEF IInv, PlanIsLegal, Found, Dry

LEMMA SameTileStep ==
    ASSUME IInv, SameTile
    PROVE  IInv'
<1>1. /\ request' = request /\ search' = search /\ request.producer = request.consumer
      /\ request \in Requests
  BY DEF SameTile, IInv
<1>2. Typed(search)' /\ InTime(search)' /\ Descent(search)'
  <2>1. PICK r : r = search OBVIOUS
  <2>2. Typed(r) /\ InTime(r) /\ Descent(r) /\ search' = r BY <2>1, <1>1 DEF IInv
  <2> QED BY <2>2, <1>1, Becomes
<1>3. Found' /\ Dry' BY <1>1 DEF Found, Dry
<1>4. status' \in Statuses /\ status' # "searching" /\ status' # "internal_error"
  BY DEF SameTile, Statuses
<1>5. ASSUME status' = "success" PROVE Transports(plan)'
  <2> DEFINE a == VirtualHold(request.producer, request.ready, request.ready + 1)
  <2>1. plan' = [actions |-> <<a>>, separation |-> request.ready + 1] BY <1>5 DEF SameTile
  <2>2. /\ a.kind = "Hold" /\ a.tile = request.producer /\ a.capture = request.ready
        /\ a.release = request.ready + 1
    BY DEF VirtualHold
  <2> HIDE DEF a
  <2>3. PICK p : p = plan' OBVIOUS
  <2>4. p.actions = <<a>> /\ p.separation = request.ready + 1 BY <2>1, <2>3
  <2>5. request.ready \in Nat BY <1>1, RequestFacts
  <2>6. /\ Len(p.actions) = 1 /\ p.actions[1] = a /\ p.actions # <<>> /\ Last(p.actions) = a
    BY <2>4 DEF Last
  <2>7. Transports(p)
    <3>1. (\A i \in 1 .. 1 - 1 : FALSE) /\ (\A i \in 1 .. 1 : i = 1) OBVIOUS
    <3>2. EndTile(a) = request.consumer /\ EndTime(a) = p.separation
      BY <2>2, <2>4, <1>1 DEF EndTile, EndTime
    <3>3. ~SelfConflict(p)
      <4>1. DOMAIN PlanLinks(p) = {} BY <2>2, <2>6, <3>1 DEF PlanLinks
      <4> QED BY <4>1 DEF SelfConflict
    <3>4. a.release > a.capture BY <2>2, <2>5
    <3> QED BY <3>1, <3>2, <3>3, <3>4, <2>2, <2>6 DEF Transports
  <2> QED BY <2>3, <2>7, <1>1, SameTransport
<1> QED BY <1>1, <1>2, <1>3, <1>4, <1>5 DEF IInv, PlanIsLegal

LEMMA QuietStep ==
    ASSUME IInv, UNCHANGED vars
    PROVE  IInv'
<1>1. request' = request /\ search' = search /\ status' = status /\ plan' = plan
  BY DEF vars
<1>2. Typed(search)' /\ InTime(search)' /\ Descent(search)'
  <2>1. PICK r : r = search OBVIOUS
  <2>2. Typed(r) /\ InTime(r) /\ Descent(r) /\ search' = r BY <2>1, <1>1 DEF IInv
  <2> QED BY <2>2, <1>1, Becomes
<1>3. ASSUME Searching(search) PROVE Searching(search)'
  <2>1. PICK r : r = search OBVIOUS
  <2>2. Searching(r) /\ search' = r BY <2>1, <1>1, <1>3
  <2> QED BY <2>2, <1>1, BecomesSearching
<1>4. PlanIsLegal'
  <2>1. ASSUME status' = "success" PROVE Transports(plan)'
    <3>1. PICK p : p = plan OBVIOUS
    <3>2. Transports(p) /\ p = plan' BY <2>1, <3>1, <1>1 DEF IInv, PlanIsLegal
    <3> QED BY <3>2, <1>1, SameTransport
  <2> QED BY <2>1, <1>1 DEF IInv, PlanIsLegal
<1>5. Found'
  <2> SUFFICES ASSUME status' = "success", request'.producer # request'.consumer
               PROVE  (\E g \in DOMAIN search.best :
                         /\ Settled(g)
                         /\ plan.separation = search.best[g][1]
                         /\ HoldCycles(plan) = search.best[g][2])'
    BY DEF Found
  <2>1. PICK g \in DOMAIN search.best :
           /\ Settled(g)
           /\ plan.separation = search.best[g][1]
           /\ HoldCycles(plan) = search.best[g][2]
    BY <1>1 DEF IInv, Found
  <2>2. Settled(g)' BY <2>1, <1>1, SameSettled
  <2>3. HoldCycles(plan') = HoldCycles(plan) BY <1>1
  <2> QED BY <2>1, <2>2, <2>3, <1>1
<1>6. Dry' BY <1>1, <1>3 DEF IInv, Dry
<1> QED BY <1>1, <1>2, <1>3, <1>4, <1>5, <1>6 DEF IInv

LEMMA SkipStep ==
    ASSUME IInv, SkipStale
    PROVE  IInv'
<1>1. /\ request' = request /\ status' = "searching" /\ status = "searching"
      /\ request \in Requests /\ search.queue # {} /\ Stale
  BY DEF SkipStale, Remote, IInv
<1>2. Typed(search) /\ InTime(search) /\ Descent(search) /\ Searching(search)
  BY <1>1 DEF IInv
<1>3. PICK r : r = [search EXCEPT !.queue = @ \ {Top}] OBVIOUS
<1>4. search' = r BY <1>3 DEF SkipStale
<1>5. Popped(r) /\ r.finalized = search.finalized
  BY <1>2, <1>3 DEF Typed, Fields, Popped
<1>6. Typed(r) /\ InTime(r) /\ Descent(r) /\ Searching(r) BY <1>1, <1>2, <1>5, SkipFacts
<1>7. Typed(search)' /\ InTime(search)' /\ Descent(search)' BY <1>1, <1>4, <1>6, Becomes
<1>8. Searching(search)' BY <1>1, <1>4, <1>6, BecomesSearching
<1> QED BY <1>1, <1>7, <1>8 DEF IInv, Statuses, PlanIsLegal, Found, Dry

LEMMA BecomesSettled ==
    ASSUME request' = request, NEW r, search' = r, NEW g, g \in r.finalized,
           \A f \in r.finalized \ {g} : Relaxed(r, f, Kinds) /\ f[1] # request.consumer,
           \A u \in DOMAIN r.best \ r.finalized : ~Less(r.best[u], r.best[g])
    PROVE  Settled(g)'
BY DEF Settled, Relaxed, advance, May, Usable, LaunchLink, After, Onward, Delay, Grown

\* The search stops at the first entry whose state is on the consumer's tile.
LEMMA ReachStep ==
    ASSUME IInv, ReachConsumer
    PROVE  IInv'
<1>1. /\ request' = request /\ status = "searching" /\ request.producer # request.consumer
      /\ request \in Requests /\ search.queue # {} /\ ~Stale /\ search' = Finalize
      /\ Top.state[1] = request.consumer
  BY DEF ReachConsumer, Remote, IInv
<1>2. Typed(search) /\ InTime(search) /\ Descent(search) /\ Searching(search)
  BY <1>1 DEF IInv
<1>3. PICK r : r = Finalize OBVIOUS
<1>4. Popped(r) /\ r.finalized = search.finalized \cup {Top.state}
  BY <1>2, <1>3 DEF Typed, Fields, Popped, Finalize
<1>5. PICK g : g = Top.state OBVIOUS
<1>6. /\ Typed(r) /\ InTime(r) /\ Descent(r) /\ Ordered(r)
      /\ \A f \in search.finalized : Relaxed(r, f, Kinds) /\ f[1] # request.consumer
  BY <1>1, <1>2, <1>4, FinalFacts
<1>7. Typed(search)' /\ InTime(search)' /\ Descent(search)'
  BY <1>1, <1>3, <1>6, Becomes
<1>8. /\ g \in r.finalized /\ g \in DOMAIN search.best /\ r.best = search.best
      /\ \A f \in r.finalized \ {g} : Relaxed(r, f, Kinds) /\ f[1] # request.consumer
      /\ \A u \in DOMAIN r.best \ r.finalized : ~Less(r.best[u], r.best[g])
  <2>1. Top \in search.queue BY <1>1, <1>2, TopFacts DEF Typed
  <2>2. g \in DOMAIN search.best BY <2>1, <1>2, <1>5 DEF Typed
  <2> QED BY <2>2, <1>4, <1>5, <1>6 DEF Popped, Ordered
<1>9. Settled(g)' BY <1>1, <1>3, <1>8, BecomesSettled
<1>10. PICK p : p = plan' OBVIOUS
<1>11. p = reconstruct(g) BY <1>5, <1>10 DEF ReachConsumer
<1>12. g # StartState
  <2>1. StartState[1] = request.producer BY DEF StartState
  <2> QED BY <2>1, <1>1, <1>5
<1>13. Carries(p.actions, g) /\ p.separation = search.best[g][1]
  BY <1>1, <1>2, <1>8, <1>11, <1>12, PlanCarries
<1>14. Transports(p) /\ ~SelfConflict(p) /\ HoldCycles(p) = search.best[g][2]
  BY <1>1, <1>2, <1>5, <1>8, <1>13, CarriedTransports
<1>15. status' = "success"
  <2>1. status' = IF SelfConflict(plan') THEN "internal_error" ELSE "success"
    BY DEF ReachConsumer
  <2> QED BY <2>1, <1>10, <1>14
<1>16. Transports(plan)' BY <1>1, <1>10, <1>14, SameTransport
<1>17. Found'
  <2>1. search'.best = search.best BY <1>1, <1>3, <1>8
  <2>2. plan'.separation = search'.best[g][1] /\ HoldCycles(plan') = search'.best[g][2]
    BY <2>1, <1>10, <1>13, <1>14
  <2>3. g \in DOMAIN search'.best BY <2>1, <1>8
  <2> QED BY <2>2, <2>3, <1>9 DEF Found
<1> QED BY <1>1, <1>7, <1>15, <1>16, <1>17 DEF IInv, Statuses, PlanIsLegal, Dry

LEMMA ExpandStep ==
    ASSUME IInv, Expand
    PROVE  IInv'
<1>1. /\ request' = request /\ status = "searching"
      /\ request \in Requests /\ search.queue # {} /\ ~Stale
      /\ Top.state[1] # request.consumer
  BY DEF Expand, Remote, IInv
<1>2. Typed(search) /\ InTime(search) /\ Descent(search) /\ Searching(search)
  BY <1>1 DEF IInv
<1>3. CASE search.expansions >= request.maxStateExpansions
  <2>1. search' = Finalize /\ status' = "budget_exceeded" BY <1>3 DEF Expand
  <2>2. PICK r : r = Finalize OBVIOUS
  <2>3. Popped(r) /\ r.finalized = search.finalized \cup {Top.state}
    BY <1>2, <2>2 DEF Typed, Fields, Popped, Finalize
  <2>4. Typed(r) /\ InTime(r) /\ Descent(r) BY <1>1, <1>2, <2>3, FinalFacts
  <2>5. Typed(search)' /\ InTime(search)' /\ Descent(search)'
    BY <1>1, <2>1, <2>2, <2>4, Becomes
  <2> QED BY <1>1, <2>1, <2>5 DEF IInv, Statuses, PlanIsLegal, Found, Dry
<1>4. CASE ~(search.expansions >= request.maxStateExpansions)
  <2>1. /\ search' = Expanded([Finalize EXCEPT !.expansions = @ + 1], Top.state)
        /\ status' = IF search'.overBudget THEN "budget_exceeded" ELSE "searching"
    BY <1>4 DEF Expand
  <2>2. PICK q : q = [Finalize EXCEPT !.expansions = @ + 1] OBVIOUS
  <2>3. PICK s : s = Top.state OBVIOUS
  <2>4. PICK r : r = Expanded(q, s) OBVIOUS
  <2>5. search' = r BY <2>1, <2>2, <2>3, <2>4
  <2>6. Popped(q) /\ q.finalized = search.finalized \cup {Top.state}
    <3>1. /\ search.expansions \in 0 .. request.maxStateExpansions
          /\ request.maxStateExpansions \in Nat
      BY <1>1, <1>2, RequestFacts DEF Typed
    <3>2. search.expansions + 1 \in 0 .. request.maxStateExpansions BY <3>1, <1>4
    <3>3. PICK f : f = Finalize OBVIOUS
    <3>4. /\ DOMAIN f = Fields /\ f.best = search.best /\ f.pred = search.pred
          /\ f.queue = search.queue \ {Top} /\ f.pushes = search.pushes
          /\ f.overBudget = search.overBudget /\ f.expansions = search.expansions
          /\ f.finalized = search.finalized \cup {Top.state}
      BY <1>2, <3>3 DEF Typed, Fields, Finalize
    <3>5. q = [f EXCEPT !.expansions = @ + 1] BY <2>2, <3>3
    <3>6. /\ DOMAIN q = Fields /\ q.best = f.best /\ q.pred = f.pred
          /\ q.queue = f.queue /\ q.pushes = f.pushes
          /\ q.overBudget = f.overBudget /\ q.expansions = f.expansions + 1
          /\ q.finalized = f.finalized
      BY <3>4, <3>5 DEF Fields
    <3> QED BY <3>2, <3>4, <3>6 DEF Popped
  <2>7. Amid(q, s, {})
    <3>1. /\ Typed(q) /\ InTime(q) /\ Descent(q) /\ Ordered(q) /\ Queued(q) /\ ~q.overBudget
          /\ \A f \in search.finalized : Relaxed(q, f, Kinds) /\ f[1] # request.consumer
          /\ \A f \in q.finalized : ~Less(q.best[Top.state], q.best[f])
      BY <1>1, <1>2, <2>6, FinalFacts
    <3>2. Relaxed(q, s, {}) BY DEF Relaxed
    <3> QED BY <3>1, <3>2, <2>3, <2>6, <1>1 DEF Amid
  <2>8. Amid(r, s, Kinds) BY <1>1, <2>4, <2>7, ExpandedFacts
  <2>9. Typed(search)' /\ InTime(search)' /\ Descent(search)'
    BY <1>1, <2>5, <2>8, Becomes DEF Amid
  <2>10. ASSUME ~r.overBudget PROVE Searching(search)'
    <3>1. Searching(r) BY <2>8, <2>10 DEF Amid, Searching, Closed
    <3> QED BY <3>1, <1>1, <2>5, BecomesSearching
  <2>11. /\ status' \in {"budget_exceeded", "searching"}
         /\ status' = "searching" => Searching(search)'
    BY <2>1, <2>5, <2>10
  <2> QED BY <1>1, <2>9, <2>11 DEF IInv, Statuses, PlanIsLegal, Found, Dry
<1> QED BY <1>3, <1>4

LEMMA ExhaustedStep ==
    ASSUME IInv, Exhausted
    PROVE  IInv'
<1>1. /\ request' = request /\ status = "searching" /\ status' = "no_path"
      /\ request \in Requests /\ search.queue = {} /\ search' = search
  BY DEF Exhausted, Remote, IInv
<1>2. PICK r : r = search OBVIOUS
<1>3. Typed(r) /\ InTime(r) /\ Descent(r) /\ Searching(r) /\ search' = r
  BY <1>1, <1>2 DEF IInv
<1>4. Typed(search)' /\ InTime(search)' /\ Descent(search)' BY <1>1, <1>3, Becomes
<1>5. Searching(search)' BY <1>1, <1>3, BecomesSearching
<1>6. Dry' BY <1>1, <1>5 DEF Dry
<1> QED BY <1>1, <1>4, <1>6 DEF IInv, Statuses, PlanIsLegal, Found

-----------------------------------------------------------------------------
(* The theorems                                                            *)

\* The inductive invariant: what is queued, final and expanded while run() searches.
THEOREM RouteInvariant == Spec => []IInv
<1>1. Init => IInv BY InitStep
<1>2. IInv /\ [Next]_vars => IInv'
  <2> SUFFICES ASSUME IInv, [Next]_vars PROVE IInv' OBVIOUS
  <2>1. CASE SameTile BY <2>1, SameTileStep
  <2>2. CASE SkipStale BY <2>2, SkipStep
  <2>3. CASE ReachConsumer BY <2>3, ReachStep
  <2>4. CASE Expand BY <2>4, ExpandStep
  <2>5. CASE Exhausted BY <2>5, ExhaustedStep
  <2>6. CASE Finished BY <2>6, QuietStep DEF Finished
  <2>7. CASE UNCHANGED vars BY <2>7, QuietStep
  <2> QED BY <2>1, <2>2, <2>3, <2>4, <2>5, <2>6, <2>7 DEF Next
<1> QED BY <1>1, <1>2, PTL DEF Spec

\* The states, queue entries and counters stay in their ranges: neither budget of
\* RouteSearchOptions is ever passed.
THEOREM SearchTyped == Spec => []TypeOK
<1>1. IInv => TypeOK BY DEF IInv, Typed, TypeOK, States, Statuses
<1> QED BY <1>1, RouteInvariant, PTL

\* A route that reconstruct builds is a legal transport and never meets itself in
\* modulo time: the internal error of reconstruct is unreachable.
THEOREM PlansAreLegal == Spec => []PlanIsLegal
<1>1. IInv => PlanIsLegal BY DEF IInv
<1> QED BY <1>1, RouteInvariant, PTL

\* The route is the first to arrive, and of those that arrive as early one with the
\* fewest hold cycles, on every mesh and for every set of owned links.
THEOREM PlansAreCheapest == Spec => []PlanIsCheapest
<1>1. ASSUME IInv PROVE PlanIsCheapest
  <2> SUFFICES ASSUME status = "success", request.producer # request.consumer
               PROVE  \A t \in DOMAIN Reach : \A x \in Reach[t] :
                         x[1] = request.consumer =>
                            ~Less(<<request.ready + t - 1, x[2]>>,
                                  <<plan.separation, HoldCycles(plan)>>)
    BY DEF PlanIsCheapest
  <2>1. PICK g \in DOMAIN search.best :
           /\ Settled(g)
           /\ plan.separation = search.best[g][1]
           /\ HoldCycles(plan) = search.best[g][2]
    BY <1>1 DEF IInv, Found
  <2>2. request \in Requests /\ Typed(search) /\ InTime(search) BY <1>1 DEF IInv
  <2> QED BY <2>1, <2>2, SettledIsCheapest
<1> QED BY <1>1, RouteInvariant, PTL

\* NoPath is a proof: when the queue runs dry no sequence of free links and holds
\* leads to the consumer within the horizon of Rows * Cols * ii hops.
THEOREM NoPathIsProved == Spec => []NoPathIsProof
<1>1. ASSUME IInv PROVE NoPathIsProof
  <2>1. request \in Requests /\ Typed(search) /\ InTime(search) /\ Dry
    BY <1>1 DEF IInv
  <2> QED BY <2>1, DryIsProof DEF Dry, NoPathIsProof
<1> QED BY <1>1, RouteInvariant, PTL

=============================================================================
