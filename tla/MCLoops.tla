------------------------------- MODULE MCLoops ------------------------------
(***************************************************************************)
(* Small innermost loops, each for one thing the frontend has to get right *)
(* or to refuse, with an invocation that shows it.                         *)
(***************************************************************************)
EXTENDS CompilePipeline

-----------------------------------------------------------------------------
(* Instructions                                                            *)

V(k) == <<"inst", k>>
C(v) == <<"int", 32, v>>
X(id) == <<"arg", id, 32>>
P(id) == <<"ptr", id, 0>>

I(op, bits, args) ==
    [op |-> op, block |-> "none", bits |-> bits, args |-> args, from |-> <<>>, pred |-> "none",
     offset |-> 0, scale |-> 0, how |-> "plain"]
AddI(a, b) == I("Add", 32, <<a, b>>)
MulI(a, b) == I("Mul", 32, <<a, b>>)
Cmp(pred, a, b) == [I("ICmp", 1, <<a, b>>) EXCEPT !.pred = pred]
Choose(c, a, b) == I("Select", 32, <<c, a, b>>)
\* In words; one without an index has no scale.
Gep(base, words, index, scale) ==
    [I("GEP", 0, <<base>> \o index) EXCEPT !.offset = 4 * words, !.scale = 4 * scale]
LoadI(p) == I("Load", 32, <<p>>)
StoreI(data, p) == I("Store", 0, <<data, p>>)
PhiI(args, from) == [I("PHI", 32, args) EXCEPT !.from = from]
Jump(to) == [I("Br", 0, <<>>) EXCEPT !.from = <<to>>]
Branch(c, to, else) == [I("Br", 0, <<c>>) EXCEPT !.from = <<to, else>>]

InBlock(b, insts) == [i \in DOMAIN insts |-> [insts[i] EXCEPT !.block = b]]
Loop(blocks, insts, outs) ==
    [blocks |-> blocks, preheader |-> TRUE, insts |-> insts, outs |-> outs,
     distinct |-> TRUE, counted |-> TRUE]
Used(k, how) == [inst |-> k, how |-> how]

\* One block: instruction 1 counts from init in steps up to limit, the body
\* starts at instruction 2.
Counting(init, step, limit, body, outs) ==
    LET n == Len(body)
        next == n + 2
    IN  Loop(<<"h">>,
             InBlock("h", <<PhiI(<<C(init), V(next)>>, <<"pre", "h">>)>> \o body \o
                          <<AddI(V(1), C(step)), Cmp("NE", V(next), C(limit)),
                            Branch(V(n + 3), "h", "out")>>), outs)

\* Four blocks, or three when one arm is empty: the branch's condition is the
\* last instruction of the head; the latch counts.
Branching(head, yes, no, tail, outs) ==
    LET nh == Len(head) + 2
        ny == IF yes = <<>> THEN 0 ELSE Len(yes) + 1
        nn == IF no = <<>> THEN 0 ELSE Len(no) + 1
        next == nh + ny + nn + Len(tail) + 1
        Arm(b, insts) == IF insts = <<>> THEN <<>> ELSE InBlock(b, Append(insts, Jump("m")))
    IN  Loop(<<"h">> \o (IF yes = <<>> THEN <<>> ELSE <<"y">>)
               \o (IF no = <<>> THEN <<>> ELSE <<"n">>) \o <<"m">>,
             InBlock("h", <<PhiI(<<C(0), V(next)>>, <<"pre", "m">>)>> \o head \o
                          <<Branch(V(nh - 1), IF yes = <<>> THEN "m" ELSE "y",
                                   IF no = <<>> THEN "m" ELSE "n")>>)
               \o Arm("y", yes) \o Arm("n", no)
               \o InBlock("m", tail \o <<AddI(V(1), C(1)), Cmp("NE", V(next), C(3)),
                                         Branch(V(next + 1), "h", "out")>>),
             outs)

-----------------------------------------------------------------------------
(* Loops that are lowered                                                  *)

\* A running sum of an argument, from another one.
SumUp == [Counting(0, 1, 2, <<PhiI(<<X(9), V(3)>>, <<"pre", "h">>), AddI(V(2), X(8))>>,
                   <<Used(3, "lcssa")>>) EXCEPT !.counted = FALSE]

\* The value is used by itself before it is joined with others.
SumUpTwice == [SumUp EXCEPT !.outs = <<Used(3, "direct"), Used(3, "merged")>>]

\* A[to*i + words] = A[from*i] + 1, with words of either sign and the load
\* before or behind the store.
Move(init, step, limit, to, words, from) ==
    Counting(init, step, limit,
             <<Gep(P(8), 0, <<V(1)>>, from), LoadI(V(2)), AddI(V(3), C(1)),
               Gep(P(8), words, <<V(1)>>, to), StoreI(V(4), V(5))>>, <<>>)
LateLoad(words) ==
    Counting(0, 1, 4,
             <<Gep(P(8), 0, <<V(1)>>, 1), StoreI(V(1), V(2)),
               Gep(P(8), words, <<V(1)>>, 1), LoadI(V(4)),
               Gep(P(9), 0, <<V(1)>>, 1), StoreI(V(5), V(6))>>, <<>>)
Copy(distinct) ==
    [Counting(0, 1, 3, <<Gep(P(8), 0, <<V(1)>>, 1), LoadI(V(2)),
                         Gep(P(9), 0, <<V(1)>>, 1), StoreI(V(3), V(4))>>, <<>>)
        EXCEPT !.distinct = distinct]

\* A sum kept in memory, at a fixed place.
InPlace(p) == Counting(0, 1, 3, <<p, LoadI(V(2)), AddI(V(3), X(9)), StoreI(V(4), V(2))>>, <<>>)
AtPointer == Counting(0, 1, 3, <<LoadI(P(8)), AddI(V(2), X(9)), StoreI(V(3), P(8))>>, <<>>)

\* x = i < limit ? i + 1 : i + i, stored or used behind the loop.
Diamond(pred, how) ==
    Branching(<<Cmp(pred, V(1), X(9))>>, <<AddI(V(1), C(1))>>, <<AddI(V(1), V(1))>>,
              <<PhiI(<<V(4), V(6)>>, <<"y", "n">>), AddI(V(1), C(7))>>,
              <<Used(8, how), Used(9, how)>>)
DiamondStore == \* the merge may not be stored
    Branching(<<Cmp("SLT", V(1), X(9))>>, <<AddI(V(1), C(1))>>, <<AddI(V(1), V(1))>>,
              <<PhiI(<<V(4), V(6)>>, <<"y", "n">>), StoreI(V(8), P(8))>>, <<>>)
Triangle(pred) ==
    Branching(<<Cmp(pred, V(1), X(9))>>, <<AddI(V(1), C(1))>>, <<>>,
              <<PhiI(<<V(4), X(9)>>, <<"y", "h">>)>>, <<Used(6, "lcssa")>>)

Predicates == <<"EQ", "NE", "SLT", "SLE", "SGT", "SGE", "ULT", "ULE", "UGT", "UGE">>

\* if (i pred x) A[i] = x, in either arm.
Store1(at) == <<Gep(P(8), 0, <<V(1)>>, 1), StoreI(X(9), V(at))>>
StoreYes(pred) == Branching(<<Cmp(pred, V(1), X(9))>>, Store1(4), <<>>, <<>>, <<>>)
StoreNo(pred) == Branching(<<Cmp(pred, V(1), X(9))>>, <<>>, Store1(4), <<>>, <<>>)
\* The second arm stores and the merge takes a value of the first one.
StoreAndMerge ==
    Branching(<<Cmp("SLT", V(1), X(9))>>, <<AddI(V(1), C(5))>>,
              <<StoreI(V(1), P(8))>>, <<PhiI(<<V(4), V(1)>>, <<"y", "n">>)>>,
              <<Used(8, "direct")>>)
StoreEqual == Branching(<<Cmp("EQ", V(1), X(9))>>, <<StoreI(V(1), P(8))>>, <<>>, <<>>, <<>>)

\* A select of its own, and its value behind the loop.
Selecting(how) ==
    Counting(0, 1, 3, <<Cmp("SGT", V(1), X(9)), Choose(V(2), V(1), X(9))>>, <<Used(3, how)>>)

-----------------------------------------------------------------------------
(* Loops that are lowered and change                                       *)

Hoisted == Counting(0, 1, 2, <<Gep(<<"ptr", 8, 2>>, 0, <<V(1)>>, 1), StoreI(V(1), V(2))>>, <<>>)
StoreInMerge ==
    Branching(<<Cmp("SLT", V(1), X(9))>>, <<AddI(V(1), C(1))>>, <<>>,
              <<StoreI(V(1), P(8))>>, <<>>)
Stepwise == Move(0, 1, 4, 3, 1, 1)
ControlOut == Counting(0, 1, 3, <<StoreI(X(9), P(8))>>, <<Used(3, "lcssa")>>)
PhiOut == Branching(<<Cmp("SLT", V(1), X(9))>>, <<AddI(V(1), C(1))>>, <<>>, <<>>,
                    <<Used(1, "lcssa")>>)
TopTested ==
    Loop(<<"h", "b">>,
         InBlock("h", <<PhiI(<<C(0), V(6)>>, <<"pre", "b">>), Cmp("EQ", V(1), C(2)),
                        Branch(V(2), "out", "b")>>)
         \o InBlock("b", <<Cmp("SLT", V(1), X(9)), Choose(V(4), V(1), X(9)), AddI(V(1), C(1)),
                           StoreI(V(5), P(8)), Jump("h")>>), <<>>)

-----------------------------------------------------------------------------
(* Loops that are refused                                                  *)

OneStore(how) ==
    Counting(0, 1, 3, <<[StoreI(X(9), P(8)) EXCEPT !.how = how]>>, <<>>)
Address(gep) == Counting(0, 1, 3, <<gep, StoreI(X(9), V(2))>>, <<>>)
Single(body) == Counting(0, 1, 3, body, <<>>)
NoHeaderTest == [Single(<<AddI(V(1), C(2))>>) EXCEPT !.insts[5] = [Jump("h") EXCEPT !.block = "h"]]
\* An arm of two blocks.
LongArm ==
    Loop(<<"h", "y", "z", "m">>,
         InBlock("h", <<PhiI(<<C(0), V(8)>>, <<"pre", "m">>), Cmp("SLT", V(1), X(9)),
                        Branch(V(2), "y", "m")>>)
         \o InBlock("y", <<AddI(V(1), C(1)), Jump("z")>>)
         \o InBlock("z", <<AddI(V(4), C(1)), Jump("m")>>)
         \o InBlock("m", <<AddI(V(1), C(1)), Cmp("NE", V(8), C(3)), Branch(V(9), "h", "out")>>),
         <<>>)

RefusedLoops ==
    << OneStore("volatile"), OneStore("unaligned"), OneStore("addrspace"),
       Single(<<StoreI(<<"arg", 9, 16>>, P(8))>>),
       Address([Gep(P(8), 0, <<V(1)>>, 1) EXCEPT !.offset = 2]),
       Address(Gep(P(8), 0, <<V(1), V(1)>>, 1)), Address(Gep(P(8), 0, <<X(9)>>, 1)),
       Address(Gep(P(8), AddressLimit, <<V(1)>>, 1)),
       Single(<<LoadI(P(8)), Gep(V(2), 0, <<V(1)>>, 1), StoreI(X(9), V(3))>>),
       Single(<<Gep(P(8), 0, <<V(1)>>, 1)>>),
       Single(<<I("Fence", 0, <<>>)>>), Single(<<I("Call", 32, <<>>), StoreI(X(9), P(8))>>),
       Single(<<I("Div", 32, <<X(9), V(1)>>), StoreI(V(2), P(8))>>),
       Single(<<I("Div", 32, <<X(9), V(1)>>)>>),
       Single(<<Cmp("EQ", <<"arg", 9, 1>>, <<"arg", 9, 1>>), Choose(V(2), X(9), X(9))>>),
       Single(<<Choose(<<"arg", 9, 1>>, X(9), X(9))>>),
       Single(<<I("Add", 65, <<X(9), X(9)>>)>>), Single(<<AddI(<<"undef", 32>>, X(9))>>),
       Single(<<PhiI(<<X(9), X(9)>>, <<"pre", "h">>), AddI(V(2), X(9))>>),
       Single(<<PhiI(<<<<"undef", 32>>, V(3)>>, <<"pre", "h">>), AddI(V(2), X(9))>>),
       Single(<<PhiI(<<X(9), V(1)>>, <<"pre", "h">>), AddI(V(2), X(9))>>),
       Single(<<PhiI(<<X(9), V(3), V(3)>>, <<"pre", "h", "h">>), AddI(V(2), X(9))>>),
       [SumUp EXCEPT !.outs = <<Used(2, "lcssa")>>], [SumUp EXCEPT !.outs = <<Used(3, "merged")>>],
       [SumUp EXCEPT !.outs = <<Used(3, "dead"), Used(3, "merged"), Used(3, "direct")>>],
       [SumUp EXCEPT !.preheader = FALSE], NoHeaderTest,
       Single(<<I("Call", 32, <<>>)>>), Single(<<AddI(V(3), X(9))>>),
       [Single(<<I("Call", 32, <<>>)>>) EXCEPT !.insts[4].args[1] = V(2)],
       Single(<<PhiI(<<C(0), V(3)>>, <<"pre", "h">>), I("Call", 32, <<V(2)>>)>>),
       [SumUp EXCEPT !.insts[2].bits = 65],
       [Copy(TRUE) EXCEPT !.outs = <<Used(3, "direct")>>], DiamondStore,
       Branching(<<Cmp("SLT", V(1), X(9))>>, <<LoadI(P(8))>>, <<>>, <<StoreI(V(4), P(9))>>, <<>>),
       Branching(<<Cmp("SLT", V(1), X(9))>>, <<StoreI(X(9), P(8))>>, <<StoreI(V(1), P(8))>>,
                 <<>>, <<>>),
       Branching(<<Cmp("SLT", V(1), X(9))>>, <<StoreI(X(9), P(8))>>, <<StoreI(V(1), P(9))>>,
                 <<>>, <<>>),
       Branching(<<I("Add", 1, <<<<"arg", 9, 1>>, <<"arg", 9, 1>>>>)>>, <<AddI(V(1), C(1))>>, <<>>,
                 <<>>, <<>>),
       [Triangle("EQ") EXCEPT !.insts[6].bits = 1],
       [Triangle("EQ") EXCEPT !.insts[6].args = <<V(4), X(9), X(9)>>, !.insts[6].from = <<"y", "h", "h">>],
       [TopTested EXCEPT !.insts[5] = [AddI(V(1), C(1)) EXCEPT !.block = "b"]],
       [StoreYes("EQ") EXCEPT !.insts[6] = [Branch(V(2), "m", "m") EXCEPT !.block = "y"]],
       [StoreYes("EQ") EXCEPT !.insts[6] = [Branch(V(2), "m", "out") EXCEPT !.block = "y"]],
       Branching(<<PhiI(<<X(9), V(7)>>, <<"pre", "m">>), Cmp("EQ", V(2), X(9))>>,
                 <<AddI(V(2), C(1))>>, <<>>, <<PhiI(<<V(5), V(2)>>, <<"y", "h">>)>>, <<>>),
       Branching(<<Cmp("SLT", V(1), X(9))>>, <<>>, <<StoreI(X(9), P(8))>>,
                 <<Choose(V(2), V(1), X(9))>>, <<>>),
       [Single(<<LoadI(P(8)), StoreI(X(9), P(9))>>) EXCEPT !.insts[5].args[1] = V(2)],
       LongArm, Single(<<StoreI(V(3), P(8))>>),
       Single(<<PhiI(<<X(9), V(3)>>, <<"pre", "h">>), LoadI(P(8)), StoreI(V(2), P(8))>>) >>

=============================================================================
