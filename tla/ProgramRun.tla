----------------------------- MODULE ProgramRun -----------------------------
(***************************************************************************)
(* The summaries are asked in any order, then the program they are about   *)
(* runs: goroutines with stacks of frames, deferred calls, panics and      *)
(* dynamic calls.  The run is what the answers are held against.           *)
(***************************************************************************)
EXTENDS Summaries

CONSTANTS
    Programs,    \* the programs analysed; each has a function "main"
    MaxDepth,    \* bound on the frames of a goroutine
    MaxThreads   \* bound on the goroutines

(* What the SSA builder hands over: "main" has a body, the blocks and      *)
(* bodies are sequences, a successor is a block.  The model adds that no   *)
(* visible call enters "main", which the runtime enters.                   *)
IsSeq(s) == s \in Seq({s[i] : i \in DOMAIN s})
IsUnit(p) ==
    /\ IsFiniteSet(Fns(p)) /\ "goroutine" \notin Fns(p)
    /\ HasBody(p, "main") /\ \A f \in Fns(p) : "main" \notin Calls(p, f)
    /\ \A f \in Fns(p) :
          /\ {p[f].panics, p[f].recovers} \subseteq BOOLEAN
          /\ IsSeq(p[f].blocks)
          /\ \A b \in BlocksOf(p, f) :
                IsSeq(Code(p, f, b)) /\ Next1(p, f, b) \in Seq(BlocksOf(p, f))
ASSUME UnitsOK == \A p \in Programs : IsUnit(p)

VARIABLES
    prog,     \* the program
    report,   \* the answers and verdicts given of it
    nev,      \* memo of never
    disch,    \* memo of dischargeKey
    threads,  \* the goroutines, sequences of frames with the innermost last
    required  \* whether the require has run

runVars == <<prog, report, nev, disch, threads, required>>

Keys == {"req", "eff"}
NoProgram == <<>>

(* got: the targets reached since the frame was entered; before: whether   *)
(* the require had run by then; unwound: a panic of a callee passes it;    *)
(* behalf: the functions that spawned the goroutine of this frame.         *)
Frame(f) ==
    [fn |-> f, at |-> <<1, 1>>, defers |-> <<>>, got |-> {}, before |-> required,
     exiting |-> FALSE, panicking |-> FALSE, unwound |-> FALSE, behalf |-> {}]

RunInit ==
    /\ prog = NoProgram /\ report = <<>> /\ nev = <<>> /\ disch = <<>>
    /\ threads = <<>> /\ required = FALSE

(* What is asked of the program: the summaries, the verdict at each target *)
(* (from_callers set), the order facts.                                    *)
Report(p) ==
    [discharge |-> [f \in Fns(p) |-> [key \in Keys |-> Discharges(p, f, key)]],
     entered   |-> {f \in Fns(p) : EntryDominated(p, f, "req")},
     satisfied |-> UNION {{<<f, x>> : x \in {y \in Sites(p, f) :
                              /\ "bef" \in At(p, f, y).tags
                              /\ Precede(p, f, y, TRUE) = "SATISFIED"}} : f \in Fns(p)},
     order     |-> [f \in Fns(p) |-> OrderFacts(p, f)]]

Load(p) ==
    /\ prog = NoProgram
    /\ prog' = p /\ report' = Report(p)
    /\ UNCHANGED <<nev, disch, threads, required>>

(* The answer is kept at these keys of a table. *)
Memo(table, keys, answer) ==
    [k \in keys \cup DOMAIN table |-> IF k \in keys THEN answer ELSE table[k]]

(* Discharges or AlwaysEffect of one function: a component shares one NEVER. *)
(* An answer met on the way down is another question asked before this one.  *)
AskSummary(f, key) ==
    /\ prog # NoProgram /\ threads = <<>> /\ f \in Fns(prog)
    /\ MemoKey(f, key) \notin DOMAIN disch
    /\ disch' = Memo(disch, {MemoKey(f, key)}, Discharge(prog, nev, disch, f, key))
    /\ LET n == Never(prog, nev, f, key)
       IN  nev' = Memo(nev, {MemoKey(m, key) : m \in Component(prog, f)}, n)
    /\ UNCHANGED <<prog, report, threads, required>>

Start ==
    /\ prog # NoProgram /\ threads = <<>> /\ disch = <<>>
    /\ threads' = << <<Frame("main")>> >>
    /\ UNCHANGED <<prog, report, nev, disch, required>>

-----------------------------------------------------------------------------
(* Execution.                                                              *)

Top(t)      == threads[t][Len(threads[t])]
Known(f)    == f \in Fns(prog)
SetTop(t, fr) == [threads[t] EXCEPT ![Len(threads[t])] = fr]
Running(t)  == threads[t] # <<>> /\ ~Top(t).exiting

(* The instruction the frame stands before. *)
AtPoint(fr)  == fr.at[2] \in DOMAIN Code(prog, fr.fn, fr.at[1])
InstrOf(fr)  == At(prog, fr.fn, fr.at)
Advance(fr)  == [fr EXCEPT !.at[2] = @ + 1]

(* Where a call can go, and which targets it reaches on the way. *)
Unseen(in) ==
    {g \in Fns(prog) : HasBody(prog, g) /\
        IF in.invoke # "" THEN prog[g].method = in.invoke
        ELSE \E h \in Fns(prog) : \E x \in Points(prog, h) :
                At(prog, h, x).op = "use" /\ g \in At(prog, h, x).to}
Outcomes(in) ==
    {[enter |-> {c}, reach |-> in.tags \cap Keys] : c \in Cands(prog, in)}
    \cup (IF Frontier(prog, in)
          THEN {[enter |-> {}, reach |-> (in.tags \cap Keys) \cup k] : k \in {{}, Keys}}
               \cup {[enter |-> {g}, reach |-> in.tags \cap Keys] : g \in Unseen(in)}
          ELSE {})

(* The stack after a call with outcome o has begun. *)
Perform(t, stack, o) ==
    /\ Len(stack) + Cardinality(o.enter) <= MaxDepth
    /\ required' = (required \/ "req" \in o.reach)
    /\ LET marked == [j \in DOMAIN stack |-> [stack[j] EXCEPT !.got = @ \cup o.reach]]
           pushed == IF o.enter = {} THEN marked
                     ELSE Append(marked, [Frame(CHOOSE g \in o.enter : TRUE)
                                            EXCEPT !.before = required'])
       IN  threads' = [threads EXCEPT ![t] = pushed]
    /\ UNCHANGED <<prog, report, nev, disch>>

RunCall(t) ==
    /\ Running(t) /\ AtPoint(Top(t)) /\ InstrOf(Top(t)).op = "call"
    /\ \E o \in Outcomes(InstrOf(Top(t))) : Perform(t, SetTop(t, Advance(Top(t))), o)

RunUse(t) ==
    /\ Running(t) /\ AtPoint(Top(t)) /\ InstrOf(Top(t)).op = "use"
    /\ threads' = [threads EXCEPT ![t] = SetTop(t, Advance(Top(t)))]
    /\ UNCHANGED <<prog, report, nev, disch, required>>

RunDefer(t) ==
    /\ Running(t) /\ AtPoint(Top(t)) /\ InstrOf(Top(t)).op = "defer"
    /\ threads' = [threads EXCEPT ![t] =
           SetTop(t, [Advance(Top(t)) EXCEPT !.defers = Append(@, InstrOf(Top(t)))])]
    /\ UNCHANGED <<prog, report, nev, disch, required>>

(* A goroutine begins with the call it was spawned for still to make. *)
RunGo(t) ==
    /\ Running(t) /\ AtPoint(Top(t)) /\ InstrOf(Top(t)).op = "go"
    /\ Len(threads) < MaxThreads
    /\ LET Base == [Frame("goroutine") EXCEPT
                        !.exiting = TRUE, !.defers = <<InstrOf(Top(t))>>,
                        !.behalf = UNION {{threads[t][j].fn} \cup threads[t][j].behalf :
                                             j \in DOMAIN threads[t]}]
       IN  threads' = Append([threads EXCEPT ![t] = SetTop(t, Advance(Top(t)))], <<Base>>)
    /\ UNCHANGED <<prog, report, nev, disch, required>>

RunBlockEnd(t) ==
    /\ Running(t) /\ ~AtPoint(Top(t))
    /\ LET fr == Top(t)
       IN  \/ \E b \in SuccsOf(prog, fr.fn, fr.at[1]) :
                 threads' = [threads EXCEPT ![t] = SetTop(t, [fr EXCEPT !.at = <<b, 1>>])]
           \/ /\ SuccsOf(prog, fr.fn, fr.at[1]) = {}
              /\ threads' = [threads EXCEPT ![t] =
                    SetTop(t, [fr EXCEPT !.exiting = TRUE,
                                         !.panicking = prog[fr.fn].panics])]
    /\ UNCHANGED <<prog, report, nev, disch, required>>

RunDeferred(t) ==
    /\ threads[t] # <<>> /\ Top(t).exiting /\ Top(t).defers # <<>>
    /\ LET fr   == Top(t)
           last == Len(fr.defers)
       IN  \E o \in Outcomes(fr.defers[last]) :
              Perform(t, SetTop(t, [fr EXCEPT !.defers = SubSeq(@, 1, last - 1)]), o)

(* The frame is left: a panic goes on in the caller unless it is recovered. *)
RunLeave(t) ==
    /\ threads[t] # <<>> /\ Top(t).exiting /\ Top(t).defers = <<>>
    /\ LET fr    == Top(t)
           below == SubSeq(threads[t], 1, Len(threads[t]) - 1)
           n     == Len(below)
           Swallows == IF ~fr.panicking THEN {TRUE}
                       ELSE IF Known(fr.fn) /\ prog[fr.fn].recovers THEN BOOLEAN ELSE {FALSE}
       IN  \E s \in Swallows :
              threads' = [threads EXCEPT ![t] =
                  IF s \/ n = 0 THEN below
                  ELSE [below EXCEPT ![n].exiting = TRUE, ![n].panicking = TRUE,
                                     ![n].unwound = TRUE]]
    /\ UNCHANGED <<prog, report, nev, disch, required>>

Step(t) ==
    \/ RunCall(t) \/ RunUse(t) \/ RunDefer(t) \/ RunGo(t)
    \/ RunBlockEnd(t) \/ RunDeferred(t) \/ RunLeave(t)

RunNext ==
    \/ \E p \in Programs : Load(p)
    \/ \E f \in Fns(prog), key \in Keys : AskSummary(f, key)
    \/ Start
    \/ \E t \in DOMAIN threads : Step(t)

RunSpec == RunInit /\ [][RunNext]_runVars

-----------------------------------------------------------------------------
Frames == UNION {{threads[t][j] : j \in DOMAIN threads[t]} : t \in DOMAIN threads}

(* An answer is the same whatever was asked before, of this function, of   *)
(* its component or for the other targets.                                 *)
MemoRight ==
    \A f \in Fns(prog), key \in Keys :
        /\ <<f, key>> \in DOMAIN disch => disch[<<f, key>>] = report.discharge[f][key]
        /\ <<f, key>> \in DOMAIN nev =>
              (nev[<<f, key>>] <=> \A g \in ReachFrom(prog, {f}) :
                    /\ prog[g].blocks # <<>>
                    /\ \A x \in Sites(prog, g) : /\ ~Hits(At(prog, g, x), key)
                                                 /\ ~Frontier(prog, At(prog, g, x)))

(* ALWAYS: the function does not return, nor end in its own panic, without *)
(* having made the call.  NEVER: nothing it runs makes it.                 *)
AnswersHold ==
    \A t \in {u \in DOMAIN threads : threads[u] # <<>>}, key \in Keys :
        /\ LET fr == Top(t)
           IN  /\ Known(fr.fn) /\ fr.exiting /\ fr.defers = <<>> /\ ~fr.unwound
               /\ report.discharge[fr.fn][key] = "ALWAYS"
               => key \in fr.got
        /\ \A j \in DOMAIN threads[t] :
              key \in threads[t][j].got =>
                  \A f \in ({threads[t][j].fn} \cup threads[t][j].behalf) \cap Fns(prog) :
                      report.discharge[f][key] # "NEVER"

(* The frame a goroutine is about to make a call in. *)
AboutTo(t) == Running(t) /\ AtPoint(Top(t)) /\ InstrOf(Top(t)).op \in SiteOps

(* checkPrecede: where a target is called, spawned or deferred at a site   *)
(* judged SATISFIED, the require has run.  EntryDominated: it has run by   *)
(* the time a function is entered whose callers are all credited.          *)
PrecedeHolds ==
    /\ \A fr \in {h \in Frames : Known(h.fn)} : fr.fn \in report.entered => fr.before
    /\ \A t \in DOMAIN threads :
          AboutTo(t) /\ <<Top(t).fn, Top(t).at>> \in report.satisfied => required

(* A plain call that commits the effect whichever callee it goes to. *)
CommitsHere(f, x) ==
    LET in == At(prog, f, x)
    IN  in.op = "call" /\ (Hits(in, "eff") \/ CreditCall(prog, in, "eff"))

HappenedBefore(t, row) == row.callee = Top(t).at /\ row.always => "eff" \in Top(t).got

(* OrderFacts: when the fallible call of an ALWAYS row is about to run,    *)
(* the effect of a plain call has been committed.                          *)
CommittedByCalls ==
    \A t \in DOMAIN threads : AboutTo(t) =>
        \A row \in report.order[Top(t).fn] :
            row.callee = Top(t).at /\ CommitsHere(Top(t).fn, row.effect)
                => HappenedBefore(t, row)

=============================================================================
