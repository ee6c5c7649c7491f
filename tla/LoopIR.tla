------------------------------- MODULE LoopIR -------------------------------
(***************************************************************************)
(* An innermost LLVM loop as the frontend sees it, and the questions it    *)
(* asks LLVM: dominance, ScalarEvolution, alias analysis.  A loop is       *)
(*                                                                         *)
(*   [blocks     its blocks in LoopInfo order, the header first,           *)
(*    preheader  whether it has one,                                       *)
(*    insts      the instructions of the blocks, in that order,            *)
(*    outs       <<[inst, how]>>: the uses behind the loop, each value's   *)
(*               in the order of its use list,                             *)
(*    distinct   whether different base pointers never overlap,            *)
(*    counted    whether ScalarEvolution knows how often it runs]          *)
(*                                                                         *)
(* and an instruction is [op, block, bits, args, from, pred, offset,       *)
(* scale, how]: from are the incoming blocks of a PHI and the successors   *)
(* of a Br, pred the predicate of an ICmp, offset and scale the bytes of a *)
(* GEP, how a memory access is done.  A value is <<"inst", k>>, the scalar *)
(* <<"arg", id, bits>> or the pointer <<"ptr", id, words>> from outside,   *)
(* <<"int", bits, v>> or <<"undef", bits>>; the pointer stands words       *)
(* behind its base, which only a GEP outside the loop can do.  A word is   *)
(* named by its signed value.                                              *)
(***************************************************************************)
EXTENDS GenericDFG, TLC

VARIABLE loop    \* the selected loop, <<>> before it is

Insts == DOMAIN loop.insts
Inst(k) == loop.insts[k]
IsOp(k, op) == Inst(k).op = op
ValueOf(k) == <<"inst", k>>

InstsOf(op) == {k \in Insts : IsOp(k, op)}
Users(k) == {u \in Insts : ValueOf(k) \in Range(Inst(u).args)}
OperandInsts(k) == {u \in Insts : ValueOf(u) \in Range(Inst(k).args)}

BitsOf(v) == CASE v[1] = "inst" -> Inst(v[2]).bits
               [] v[1] = "arg" -> v[3]
               [] v[1] = "ptr" -> 0
               [] OTHER -> v[2]

\* The closure of a set of instructions under Follow.
Closure(from, Follow(_)) ==
    LET after[n \in 0 .. Len(loop.insts)] ==
            IF n = 0 THEN from
            ELSE LET known == after[n - 1] IN known \cup UNION {Follow(x) : x \in known}
    IN  after[Len(loop.insts)]

-----------------------------------------------------------------------------
(* The control-flow graph                                                  *)

Blocks == Range(loop.blocks)
Header == loop.blocks[1]
Terminator(b) == CHOOSE k \in InstsOf("Br") : Inst(k).block = b
Successors(b) == Inst(Terminator(b)).from
Condition(b) == Inst(Terminator(b)).args[1]
IsConditional(b) == Len(Successors(b)) = 2

Exits(b) == \E s \in Range(Successors(b)) : s \notin Blocks
ExitsOf(b) == {i \in DOMAIN Successors(b) : Successors(b)[i] \notin Blocks}
HasExit == Cardinality(UNION {{b} \X ExitsOf(b) : b \in Blocks}) = 1

Latches == {b \in Blocks : Header \in Range(Successors(b))}
HasLatch == Cardinality(Latches) = 1
Latch == CHOOSE b \in Latches : TRUE

\* The blocks reached from b without entering avoided.
Reached(b, avoided) ==
    Closure({b} \ {avoided},
            LAMBDA x : IF x \in Blocks THEN Range(Successors(x)) \ {avoided} ELSE {})

dominates(a, b) == b \notin Reached(Header, a)
postDominates(a, b) == Reached(b, a) \subseteq Blocks

\* PostDominatorTree::findNearestCommonDominator; "none" when it is outside.
nearestCommonPostDominator(a, b) ==
    LET common == {p \in Blocks : postDominates(p, a) /\ postDominates(p, b)}
        nearest == {p \in common : \A q \in common : postDominates(q, p)}
    IN  IF nearest = {} THEN "none" ELSE CHOOSE p \in nearest : TRUE

\* What a PHI receives from a block.
ComesFrom(phi, b) == b \in Range(Inst(phi).from)
Incoming(phi, b) == Inst(phi).args[CHOOSE i \in DOMAIN Inst(phi).from : Inst(phi).from[i] = b]

-----------------------------------------------------------------------------
(* ScalarEvolution and alias analysis                                      *)

NotAffine == [ok |-> FALSE, offset |-> 0, stride |-> 0]
Affine(offset, stride) == [ok |-> TRUE, offset |-> offset, stride |-> stride]

\* An induction variable is a header PHI that its own latch value steps by a
\* constant; sums, differences and constant multiples of it are affine.
StepBy(phi, start, next) ==
    IF /\ start[1] = "int"
       /\ next[1] = "inst" /\ Inst(next[2]).op \in {"Add", "Sub"}
       /\ Inst(next[2]).args[1] = ValueOf(phi) /\ Inst(next[2]).args[2][1] = "int"
    THEN Affine(start[3], (IF IsOp(next[2], "Add") THEN 1 ELSE -1) * Inst(next[2]).args[2][3])
    ELSE NotAffine

Step(phi) ==
    IF HasLatch /\ loop.preheader /\ Inst(phi).block = Header /\ ComesFrom(phi, Latch)
    THEN StepBy(phi, Incoming(phi, "pre"), Incoming(phi, Latch))
    ELSE NotAffine

getSCEV(value) ==
    LET Combine(op, a, b) ==
            CASE ~(a.ok /\ b.ok) -> NotAffine
              [] op = "Add" -> Affine(a.offset + b.offset, a.stride + b.stride)
              [] op = "Sub" -> Affine(a.offset - b.offset, a.stride - b.stride)
              [] op = "Mul" /\ 0 \in {a.stride, b.stride} ->
                    Affine(a.offset * b.offset, a.stride * b.offset + a.offset * b.stride)
              [] OTHER -> NotAffine
        scev[k \in Insts] ==
            LET Of(v) == CASE v[1] = "int" -> Affine(v[3], 0)
                           [] v[1] = "inst" -> scev[v[2]]
                           [] OTHER -> NotAffine
            IN  CASE IsOp(k, "PHI") -> Step(k)
                  [] Inst(k).op \in Arithmetic ->
                        Combine(Inst(k).op, Of(Inst(k).args[1]), Of(Inst(k).args[2]))
                  [] OTHER -> NotAffine
    IN  CASE value[1] = "int" -> Affine(value[3], 0)
          [] value[1] = "inst" -> scev[value[2]]
          [] OTHER -> NotAffine

\* getUnderlyingObject: the pointer below every GEP.
getUnderlyingObject(value) ==
    LET root[k \in Insts] ==
            LET p == Inst(k).args[1]
            IN  CASE ~IsOp(k, "GEP") -> ValueOf(k)
                  [] p[1] = "ptr" -> <<"ptr", p[2], 0>>
                  [] OTHER -> root[p[2]]
    IN  IF value[1] = "ptr" THEN <<"ptr", value[2], 0>> ELSE root[value[2]]

\* How many words behind that pointer the constant parts of the GEPs lead.
wordsBehindObject(value) ==
    LET words[k \in Insts] ==
            LET p == Inst(k).args[1]
            IN  CASE ~IsOp(k, "GEP") -> 0
                  [] p[1] = "ptr" -> Inst(k).offset \div 4 + p[3]
                  [] OTHER -> Inst(k).offset \div 4 + words[p[2]]
    IN  IF value[1] = "ptr" THEN value[3] ELSE words[value[2]]

Divides(d, x) == IF d = 0 THEN x = 0 ELSE x % (IF d < 0 THEN -d ELSE d) = 0
Gcd(a, b) == IF a = 0 /\ b = 0 THEN 0
             ELSE CHOOSE g \in 1 .. 64 : /\ Divides(g, a) /\ Divides(g, b)
                                         /\ \A h \in g + 1 .. 64 : ~(Divides(h, a) /\ Divides(h, b))

\* AAResults: two pointers of one iteration are told apart by their bases, or
\* by their distance, which the indices change in steps of their common
\* divisor.  A pointer is [base, at, index, scale], in words.
noAlias(x, y) ==
    IF x.base # y.base THEN loop.distinct
    ELSE ~Divides(IF x.index = y.index THEN x.scale - y.scale ELSE Gcd(x.scale, y.scale),
                  x.at - y.at)

=============================================================================
