---------------------------- MODULE ProgramReplay ---------------------------
(***************************************************************************)
(* What a lowered program does on the array: the replay of its image by    *)
(* the golden model (model/golden_model.py), with symbolic values.  The    *)
(* value of node n of the source graph in iteration i is <<"node", n, i>>, *)
(* a constant is <<"bits", b>>, and Junk is whatever a register or a wire  *)
(* holds that the program did not put there.                               *)
(*                                                                         *)
(* Each cycle is compared with the source graph and the invocation, not    *)
(* with the schedule the words were lowered from: a node must issue with   *)
(* the operands the source gives it for this iteration.  The first         *)
(* difference ends the replay.                                             *)
(***************************************************************************)
EXTENDS TargetLowering, KernelABI

CONSTANT Jobs    \* sequence of [entry, source, invocation, target, budget,
                 \*              request, plans]

\* The initiation interval of a mapping is a std::uint32_t, and so are the
\* registers and the number of ports of a bank.
ASSUME JobsAssumption ==
    \A j \in DOMAIN Jobs :
        /\ Jobs[j].entry \in {"loop", "kernel", "dfg"}
        /\ \A plan \in Jobs[j].plans : plan.ii \in Nat
        /\ \A d \in Domains :
              LET bank == Jobs[j].target.banks[d]
              IN  /\ bank.allocatable \in Seq(Nat)
                  /\ bank.readPorts \in Nat /\ Len(bank.writePortSources) \in Nat

VARIABLES
    job,
    kernel,    \* the generic graph that is compiled
    cycle,
    regs,      \* <<tile, domain, register>> -> value
    wires,     \* <<tile, domain, side>> -> the value that arrives there
    loads,     \* {[tile, due, value]}: the loads in flight
    memory,    \* scratchpad address -> the value stored by the program
    faults

replayVars == <<cycle, regs, wires, loads, memory, faults>>

Source == kernel
Invocation == Jobs[job].invocation
Bound == boundKernel(target, Source, Invocation)

Junk == <<"junk">>
Sides == {"N", "S", "E", "W"}

ReplayInit ==
    /\ cycle = 0 /\ regs = <<>> /\ wires = <<>> /\ loads = {} /\ memory = <<>>
    /\ faults = {}

-----------------------------------------------------------------------------
(* What the source asks for                                                *)

Bits(v) == <<"bits", IF v[1] = "const" THEN ById(Source.constants, v[2]).bits
                     ELSE ById(Invocation.inputs, v[2]).bits>>

\* The operand of a source node in iteration i: a value edge reads distance
\* iterations back, before the first iteration its boundary value.
SourceOperand(node, k, i) ==
    LET p == CHOOSE p \in Providers(Source, node, k) : TRUE
    IN  IF "value" \in DOMAIN p THEN Bits(p.value)
        ELSE IF i >= p.distance THEN <<"node", p.src, i - p.distance>>
        ELSE Bits((CHOOSE b \in Range(p.boundary) : b.offset = i).value)

\* A store the ABI added sends its live-out to its word of the scratchpad.
ExpectedOperand(n, k, i) ==
    LET node == dfg.origin[n]
        l == CHOOSE l \in Range(Source.liveOuts) : Bound.outputs[l.id].store = node
    IN  CASE node \in IdsOf(Source.nodes) -> SourceOperand(node, k, i)
          [] k = 0 -> <<"bits", Bound.outputs[l.id].address>>
          [] OTHER -> <<"node", l.source, i>>

\* The node and iteration that issue on a unit of a tile in this cycle.
Iteration(n) == (cycle - schedule.shift - logicalIssueTime(n)) \div ii
Due(t, class) ==
    {n \in Nodes : /\ mapping.tile[n] = t /\ Op(n).class = class
                   /\ (cycle - schedule.shift - logicalIssueTime(n)) % ii = 0
                   /\ Iteration(n) \in 0 .. tripCount - 1}

-----------------------------------------------------------------------------
(* One cycle of the array                                                  *)

\* The loop descriptor repeats the kernel at least once.
Repeats == Max({1, schedule.repeatCount})
EpilogueStart == Size(program.prologue) + Repeats * ii
RunCycles == EpilogueStart + Size(program.epilogue)

Word(t) ==
    LET p == Size(program.prologue)
    IN  CASE cycle < p -> program.prologue[cycle][t]
          [] cycle < EpilogueStart -> program.kernel[(cycle - p) % ii][t]
          [] OTHER -> program.epilogue[cycle - EpilogueStart][t]

Held(f, key) == IF key \in DOMAIN f THEN f[key] ELSE Junk

Result(t, class) ==
    IF Due(t, class) = {} THEN Junk
    ELSE LET n == CHOOSE n \in Due(t, class) : TRUE
         IN  <<"node", dfg.origin[n], Iteration(n)>>

Value(t, domain, source) ==
    CASE source[1] = "RF" ->
            Held(regs, <<t, domain, Field(Word(t), <<"readAddr", domain, source[2]>>, 0)>>)
      [] source[1] = "IN" -> Held(wires, <<t, domain, source[2]>>)
      [] source[1] = "CONST" -> <<"bits", AddressOf[Field(Word(t), <<"constantAddr">>, 0) + 1]>>
      [] source[1] \in {"TRUE", "FALSE"} -> <<"bits", IF source[1] = "TRUE" THEN 1 ELSE 0>>
      [] source[1] \in {"FU", "FUP"} -> Result(t, "FU")
      [] source[1] = "LSU" ->
            IF \E l \in loads : l.tile = t /\ l.due = cycle
            THEN (CHOOSE l \in loads : l.tile = t /\ l.due = cycle).value ELSE Junk
      [] OTHER -> Junk

OperandValue(n, k) ==
    LET sink == Op(n).sinks[k].name
    IN  Value(mapping.tile[n], SinkDomain(sink),
              Field(Word(mapping.tile[n]), <<"source", sink>>, <<"none">>))

\* The registers written in this cycle, one pair per write port.
RegWrites ==
    UNION {LET Addr(p) == Field(Word(t), <<"writeAddr", d, p>>, None)
           IN  {[port |-> p, key |-> <<t, d, Addr(p)>>,
                 value |-> Value(t, d, Field(Word(t), <<"writeSource", d, p>>, <<"none">>))]
                : p \in {q \in PortsOf(target.banks[d]) : Addr(q) # None}}
           : t \in Tiles, d \in Domains}

\* The registers a source of the word reads.
RegReads ==
    {<<x[1], x[2], Field(Word(x[1]), <<"readAddr", x[2], x[3]>>, 0)>> :
        x \in {y \in Tiles \X Domains \X {0, 1} :
            \E a \in Word(y[1]) :
                /\ a[1][1] \in {"source", "route", "writeSource"} /\ a[2] = <<"RF", y[3]>>
                /\ y[2] = IF a[1][1] = "source" THEN SinkDomain(a[1][2]) ELSE a[1][2]}}

Sent ==
    UNION {{[key |-> <<target.neighbor[t][s], d, opposite(s)>>,
             value |-> Value(t, d, Field(Word(t), <<"route", d, s>>, <<"none">>))]
            : s \in {s \in DOMAIN target.neighbor[t] :
                        \E a \in Word(t) : a[1] = <<"route", d, s>>}}
           : t \in Tiles, d \in Domains}

Issued == UNION {Due(t, class) : t \in Tiles, class \in {"FU", "LSU"}}
Stores == {n \in Issued : Op(n).class = "LSU" /\ Op(n).resultRole = "Void"
                          /\ Len(dfg.operands[n]) = 2 /\ OperandValue(n, 0)[1] = "bits"}

AsFunction(pairs) ==
    [k \in {x.key : x \in pairs} |-> (CHOOSE x \in pairs : x.key = k).value]
Override(f, g) == [k \in DOMAIN f \cup DOMAIN g |-> IF k \in DOMAIN g THEN g[k] ELSE f[k]]

\* What is wrong with this cycle.
NewFaults ==
    {<<"op", n>> : n \in {n \in Issued :
        Field(Word(mapping.tile[n]), <<"op", Op(n).class>>, "NOP") # dfg.op[n]}}
    \cup {<<"spurious", t>> : t \in {t \in Tiles : \E class \in {"FU", "LSU"} :
        Due(t, class) = {} /\ Field(Word(t), <<"op", class>>, "NOP") # "NOP"}}
    \cup UNION {{<<"operand", n, k>> : k \in {k \in 0 .. Len(dfg.operands[n]) - 1 :
        OperandValue(n, k) # ExpectedOperand(n, k, Iteration(n))}} : n \in Issued}
    \cup {<<"rf", w.key>> : w \in {w \in RegWrites :
        \/ \E v \in RegWrites : v.key = w.key /\ v.port # w.port
        \/ w.key \in RegReads /\ ~target.reuse}}

RunCycle ==
    /\ faults = {} /\ cycle < RunCycles
    /\ cycle' = cycle + 1
    /\ regs' = Override(regs, AsFunction(RegWrites))
    /\ wires' = AsFunction(Sent)
    /\ loads' = {l \in loads : l.due > cycle}
         \cup {[tile |-> mapping.tile[n], due |-> cycle + Op(n).ready,
                value |-> <<"node", dfg.origin[n], Iteration(n)>>]
               : n \in {n \in Issued : Op(n).class = "LSU" /\ Op(n).resultRole # "Void"}}
    /\ memory' = Override(memory,
                    AsFunction({[key |-> OperandValue(n, 0)[2], value |-> OperandValue(n, 1)]
                                : n \in Stores}))
    /\ faults' = NewFaults

=============================================================================
