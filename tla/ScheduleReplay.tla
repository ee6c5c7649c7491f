--------------------------- MODULE ScheduleReplay ---------------------------
(***************************************************************************)
(* A program on its way from tools/check_schedule.py to the golden model:  *)
(* first the checker executes its bounded window, then the golden model    *)
(* replays the whole run, whatever the verdict was, so that the verdict    *)
(* can be compared with what the program really does.                      *)
(***************************************************************************)
EXTENDS ScheduleChecker, GoldenArray

\* The programs: records with image, words and enabled; a loop program has
\* prologue, ii, trip and epilogue, a flat one run_cycles.
CONSTANT Programs

VARIABLES
    program,
    stage,         \* "check", "replay" or "done"
    pos,           \* position in the checker's window
    chk,           \* the checker's state
    snapshots,     \* the last two snapshots, and how many were taken
    diagnostics

schedVars == <<program, stage, pos, chk, snapshots, diagnostics>>
replayVars == <<schedVars, goldVars>>

IsLoop == program.enabled

\* The address of step i when the kernel is executed periods times.
PhasePc(p, periods, i) ==
    IF i < p.prologue THEN i
    ELSE IF i < p.prologue + periods * p.ii
         THEN p.prologue + ((i - p.prologue) % p.ii)
         ELSE i - (periods - 1) * p.ii

\* What the checker imports from the golden model is the golden model's, and
\* whether an operation has a result does not depend on its operands.
ImportedResults(op) ==
    \A a, b \in Words, p, q \in {0, 1} :
        LET r == GoldFu(op, a, b, p, q)
        IN  /\ ChkFu(op, a, b, p, q) = r
            /\ r.data \in LinkValue /\ r.pred \in PredValue
            /\ r.data.valid = GoldFu(op, 0, 0, 0, 0).data.valid
            /\ r.pred.valid = GoldFu(op, 0, 0, 0, 0).pred.valid

\* A word of a validated program.
ReplayableWord(t, w) ==
    w \in ControlWord /\ w.const \in DOMAIN ConstMem[t] /\ ImportedResults(w.op)

\* validate_program: the words are exactly those of the phase span.
ASSUME ProgramAssumption ==
    /\ MESH_HOP_LATENCY \in Nat \ {0} /\ CHK_LOAD_LATENCY \in Nat \ {0}
    /\ CHK_LOAD_LATENCY = LOAD_LATENCY
    /\ \A p \in Programs :
         /\ p.enabled \in BOOLEAN /\ p.image \in [Addrs -> Words]
         /\ IF p.enabled
            THEN /\ p.prologue \in Nat /\ p.epilogue \in Nat
                 /\ p.ii \in Nat \ {0} /\ p.trip \in Nat \ {0}
                 /\ DOMAIN p.words = 0 .. p.prologue + p.ii + p.epilogue - 1
            ELSE p.run_cycles \in Nat \ {0} /\ DOMAIN p.words = 0 .. p.run_cycles - 1
    /\ \A l \in UNION {{p.words[pc] : pc \in DOMAIN p.words} : p \in Programs} :
         \A t \in Tiles : ReplayableWord(t, l[t])

WindowLength ==
    IF IsLoop THEN program.prologue + proof_periods(program) * program.ii
                     + program.epilogue
              ELSE program.run_cycles

WindowWords(i) ==
    program.words[IF IsLoop THEN PhasePc(program, proof_periods(program), i)
                            ELSE i]

RunLength ==
    IF IsLoop THEN program.prologue + program.trip * program.ii
                     + program.epilogue
              ELSE program.run_cycles

RunWords(i) ==
    program.words[IF IsLoop THEN PhasePc(program, program.trip, i) ELSE i]

-----------------------------------------------------------------------------

ReplayInit ==
    /\ program \in Programs
    /\ stage = "check"
    /\ pos = 0
    /\ chk = ChkNew(program.image)
    /\ snapshots = [last |-> {}, previous |-> {}, taken |-> 0]
    /\ diagnostics = {}
    /\ GoldenInit(program.image)

EndsKernelPeriod ==
    /\ IsLoop
    /\ program.prologue =< pos
    /\ pos < program.prologue + proof_periods(program) * program.ii
    /\ (pos - program.prologue + 1) % program.ii = 0

Snapshots(s) ==
    IF EndsKernelPeriod
    THEN [last |-> StructuralSnapshot(s, pos), previous |-> snapshots.last,
          taken |-> snapshots.taken + 1]
    ELSE snapshots

CheckCycle ==
    /\ stage = "check"
    /\ pos < WindowLength
    /\ Diagnostics(chk, pos, WindowWords(pos)) = {}
    /\ chk' = ChkAfter(chk, pos, WindowWords(pos))
    /\ snapshots' = Snapshots(chk')
    /\ pos' = pos + 1
    /\ UNCHANGED <<program, stage, diagnostics, goldVars>>

CheckRejects ==
    /\ stage = "check"
    /\ pos < WindowLength
    /\ diagnostics' = Diagnostics(chk, pos, WindowWords(pos))
    /\ diagnostics' # {}
    /\ stage' = "replay"
    /\ UNCHANGED <<program, pos, chk, snapshots, goldVars>>

\* The window is over: a loop that runs longer must have reached a structural
\* fixed point.
CheckEnds ==
    /\ stage = "check"
    /\ pos = WindowLength
    /\ diagnostics' =
         OnlyIf(/\ IsLoop /\ program.trip > snapshots.taken
                /\ \/ snapshots.taken < 2
                   \/ snapshots.last # snapshots.previous,
                {"LOOP_PERIODIC_UNPROVEN"})
    /\ stage' = "replay"
    /\ UNCHANGED <<program, pos, chk, snapshots, goldVars>>

ReplayCycle ==
    /\ stage = "replay"
    /\ cycle < RunLength
    /\ GoldenStep(RunWords(cycle))
    /\ UNCHANGED schedVars

ReplayEnds ==
    /\ stage = "replay"
    /\ error \/ cycle = RunLength
    /\ stage' = "done"
    /\ UNCHANGED <<program, pos, chk, snapshots, diagnostics, goldVars>>

Finished == stage = "done" /\ UNCHANGED replayVars

ReplayNext ==
    \/ CheckCycle
    \/ CheckRejects
    \/ CheckEnds
    \/ ReplayCycle
    \/ ReplayEnds
    \/ Finished

ReplaySpec == ReplayInit /\ [][ReplayNext]_replayVars /\ WF_replayVars(ReplayNext)

-----------------------------------------------------------------------------
(* Properties                                                              *)

\* No address and no store depends on a value that the loop computes.
StaticWord(w) ==
    /\ w.lsu # "NONE" => w.lsu_addr \in {"CONST", "ZERO"}
    /\ w.lsu = "STORE" => ~w.commit_pred

StaticProgram(p) ==
    \A pc \in DOMAIN p.words : \A t \in Tiles : StaticWord(p.words[pc][t])

\* The programs for which the bounded window is claimed to be exact: those it
\* covers, and those in which it matters only which values are there.
LongLoopsAreStatic ==
    \A p \in Programs : p.enabled /\ p.trip > proof_periods(p) => StaticProgram(p)

\* A program the checker passes is replayed by the golden model to its last
\* cycle without GoldenModelError, although the checker executed only a
\* bounded window of a loop.
AcceptedReplays == stage # "check" /\ diagnostics = {} => ~error

\* The other direction: the checker rejects only programs that the golden
\* model rejects too, or that route a result their operation does not have
\* (the one rule the golden model lacks).  In particular the fixed point of a
\* legal loop is always reached inside the window.
RoutesMissingResult ==
    \E pc \in DOMAIN program.words, t \in Tiles :
        LET w == program.words[pc][t]
            fu == ChkFu(w.op, 0, 0, 0, 0)
        IN  \/ "FU" \in Routed(w.data_route) /\ ~fu.data.valid
            \/ "FU" \in Routed(w.pred_route) /\ ~fu.pred.valid

RejectionIsJustified ==
    stage = "done" /\ diagnostics # {} => error \/ RoutesMissingResult
=============================================================================
