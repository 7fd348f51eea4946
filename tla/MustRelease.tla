---------------------------- MODULE MustRelease ----------------------------
(***************************************************************************)
(* The must-release check of internal/static/obligations/obligations.go:   *)
(* checkRelease and leakPath, with the reaching-definitions analysis of    *)
(* the error cell they rest on (acquireCleanLoads), and then the analysed  *)
(* function itself, run.                                                   *)
(*                                                                         *)
(* The analysis goes through the phases                                    *)
(*                                                                         *)
(*    start -> clean -> hunt -> (proof ->) decided                         *)
(*                                                                         *)
(* "clean" is the sweep to a fixed point over entryClean, "hunt" and       *)
(* "proof" are the two walks of leakPath (run(true) and run(false)).  The  *)
(* recursion of walk is an agenda: the blocks still to be tried, innermost *)
(* first.  A block is taken from it and dropped when it was visited in the *)
(* meantime, which is the test the code makes before it recurses.          *)
(*                                                                         *)
(* Once the verdict is out, the program the verdict is about executes:     *)
(* the acquire succeeds or fails, calls release what they release, and a   *)
(* branch on an error goes the way the error's value says.                 *)
(***************************************************************************)
EXTENDS FunctionCFG

CONSTANT Functions      \* the functions under analysis

ASSUME FunctionsWellFormed == \A f \in Functions : WellFormed(f)

VARIABLES
    fn,         \* the function under analysis
    sums,       \* whether the summary engine is available (sums # nil)
    phase,
    entryClean, \* acquireCleanLoads: the cell holds the acquire error at b's entry
    cursor,     \* the block the sweep is at
    changed,    \* this sweep changed some block
    visited, agenda,
    unknown,    \* res.unknown # "": a handoff beyond proof was met
    abstain,    \* res.abstain # "": an err test that cannot be attributed was met
    verdict,
    exit        \* the witness exit's block; 0 when there is none

VARIABLES
    pc,         \* where the program is: block and next instruction
    acquired,   \* the acquire was executed at least once
    acqErr,     \* the acquire error register: TRUE is non-nil
    cell, phi,  \* the error cell and the phi register
    owed,       \* the latest acquire succeeded and nothing released it since
    owedEver,   \* some acquire succeeded and nothing released it since
    ended

(* What happened on the way, for the properties to speak of. *)
VARIABLES
    credited,   \* since the latest acquire, a closure that may skip its release was deferred
    strayed     \* a phi taken for the acquire error held another one when it was used

analysis == <<phase, entryClean, cursor, changed, visited, agenda, unknown,
              abstain, verdict, exit>>
program  == <<pc, acquired, acqErr, cell, phi, owed, owedEver, ended, credited, strayed>>
vars     == <<fn, sums, analysis, program>>

Phases   == {"start", "clean", "hunt", "proof", "decided"}
Verdicts == {"none", "SATISFIED", "VIOLATED", "CANT-PROVE"}

-----------------------------------------------------------------------------
(* acquireCleanLoads: a forward must-analysis, swept in block order until  *)
(* nothing changes.  The entry is seeded foreign, everything else          *)
(* optimistically clean.                                                   *)

CleanSeed(f) == [b \in Blocks(f) |-> b # 1]

(* Mutated: the meet is OR, one clean predecessor is enough. *)
CleanInAnyPred(b) ==
    b # 1 /\ \E p \in Preds(fn, b) : Transfer(fn, p, entryClean[p])

CleanIn(b) ==
    /\ b # 1
    /\ Preds(fn, b) # {}
    /\ \A p \in Preds(fn, b) : Transfer(fn, p, entryClean[p])

(* The load the terminator of b makes is reached only by the acquire error *)
CleanLoad(b) == AnalysesCell(fn) /\ Transfer(fn, b, entryClean[b])

SweepBlock ==
    /\ phase = "clean"
    /\ cursor <= Len(fn.blocks)
    /\ entryClean' = [entryClean EXCEPT ![cursor] = CleanIn(cursor)]
    /\ changed' = (changed \/ entryClean[cursor] # CleanIn(cursor))
    /\ cursor' = cursor + 1
    /\ UNCHANGED <<phase, visited, agenda, unknown, abstain, verdict, exit>>

(* Mutated: changed is not reset between sweeps. *)
SweepAgainKeepsChanged ==
    /\ phase = "clean" /\ cursor > Len(fn.blocks) /\ changed
    /\ cursor' = 1
    /\ UNCHANGED <<phase, entryClean, changed, visited, agenda, unknown, abstain,
                   verdict, exit>>

SweepAgain ==
    /\ phase = "clean"
    /\ cursor > Len(fn.blocks)
    /\ changed
    /\ cursor' = 1
    /\ changed' = FALSE
    /\ UNCHANGED <<phase, entryClean, visited, agenda, unknown, abstain, verdict, exit>>

SweepDone ==
    /\ phase = "clean"
    /\ cursor > Len(fn.blocks)
    /\ ~changed
    /\ phase' = "hunt"
    /\ UNCHANGED <<entryClean, cursor, changed, visited, agenda, unknown,
                   abstain, verdict, exit>>

-----------------------------------------------------------------------------
(* checkRelease up to the walk: the abstentions that need no walk.         *)

Refuse ==
    /\ phase = "start"
    /\ fn.recovers \/ fn.escapes
    /\ phase' = "decided"
    /\ verdict' = "CANT-PROVE"
    /\ UNCHANGED <<entryClean, cursor, changed, visited, agenda, unknown, abstain, exit>>

Begin ==
    /\ phase = "start"
    /\ ~fn.recovers /\ ~fn.escapes
    /\ phase' = IF AnalysesCell(fn) THEN "clean" ELSE "hunt"
    /\ agenda' = <<fn.acq.block>>
    /\ UNCHANGED <<entryClean, cursor, changed, visited, unknown, abstain, verdict, exit>>

-----------------------------------------------------------------------------
(* One block of the walk.                                                  *)

(* The walk enters the acquire's block just after the acquire, and every   *)
(* other block at its first instruction.                                   *)
From(b) == IF b = fn.acq.block THEN fn.acq.index + 1 ELSE 1

Scanned(b) == From(b)..Len(Body(fn, b))

(* Mutated: the summaries replace the named releases instead of adding.    *)
CoversBySummary(in) == IF sums THEN HandoffReleases(in) ELSE NamesRelease(in)

Covers(in) == NamesRelease(in) \/ (sums /\ HandoffReleases(in))
Maybe(in)  == ~NamesRelease(in) /\ sums /\ HandoffBeyondProof(in)

(* Mutated: a maybe-release covers the path for good. *)
CoveredByMaybe(b) ==
    \E i \in Scanned(b) : Covers(Body(fn, b)[i]) \/ Maybe(Body(fn, b)[i])

Covered(b) == \E i \in Scanned(b) : Covers(Body(fn, b)[i])

(* A maybe-release comes before anything that covers the path.             *)
MeetsMaybe(b) ==
    \E i \in Scanned(b) :
        /\ Maybe(Body(fn, b)[i])
        /\ \A j \in From(b)..i : ~Covers(Body(fn, b)[j])

(* The leak hunt stops at a maybe-release; the proof hunt walks through it *)
Stopped(b) == Covered(b) \/ (phase = "hunt" /\ MeetsMaybe(b))

(* failureBranch: the terminator tests an alias of the acquire error.      *)
ErrorTest(b) == Term(fn, b).op = "if" /\ Term(fn, b).tests \in AllErr(fn)

(* Mutated: every test of the error is taken for the failure branch (C-2). *)
IsolatedAlways(b) == ErrorTest(b)

(* The tested value is provably the acquire error: its failure arm, where  *)
(* nothing is held, is pruned.                                             *)
Isolated(b) ==
    /\ ErrorTest(b)
    /\ \/ Term(fn, b).tests \in DirectErr(fn)
       \/ Term(fn, b).tests = "load" /\ CleanLoad(b)

(* in.Block().Succs[1-skip]: the arm the walk follows.                     *)
SuccessArm(b) == IF Term(fn, b).neq THEN Succs(fn, b)[2] ELSE Succs(fn, b)[1]

Walking == phase \in {"hunt", "proof"} /\ agenda # <<>>

(* `if visited[next] { continue }`                                         *)
SkipBlock ==
    /\ Walking
    /\ Head(agenda) \in visited
    /\ agenda' = Tail(agenda)
    /\ UNCHANGED <<phase, entryClean, cursor, changed, visited, unknown, abstain,
                   verdict, exit>>

(* Mutated: the block is not remembered as visited. *)
EnterForgets(b) ==
    /\ Walking
    /\ b = Head(agenda) /\ b \notin visited
    /\ unknown' = (unknown \/ MeetsMaybe(b))
    /\ UNCHANGED <<entryClean, cursor, changed, visited>>

Enter(b) ==
    /\ Walking
    /\ b = Head(agenda)
    /\ b \notin visited
    /\ visited' = visited \cup {b}
    /\ unknown' = (unknown \/ MeetsMaybe(b))
    /\ UNCHANGED <<entryClean, cursor, changed>>

(* Mutated: a covered path ends the whole search. *)
WalkStoppedEndsSearch ==
    \E b \in Blocks(fn) :
        /\ Enter(b)
        /\ Stopped(b)
        /\ agenda' = <<>>
        /\ UNCHANGED <<phase, abstain, verdict, exit>>

(* A release, a proven handoff or, in the leak hunt, a maybe-release ends  *)
(* the path.                                                               *)
WalkStopped ==
    \E b \in Blocks(fn) :
        /\ Enter(b)
        /\ Stopped(b)
        /\ agenda' = Tail(agenda)
        /\ UNCHANGED <<phase, abstain, verdict, exit>>

(* An exit is reached uncovered.  In the leak hunt that is the witness and *)
(* the verdict; in the proof hunt it confirms an abstention, and the       *)
(* reassignment abstain has precedence over the handoff one (both are      *)
(* CANT-PROVE).                                                            *)
WalkExit ==
    \E b \in Blocks(fn) :
        /\ Enter(b)
        /\ ~Stopped(b)
        /\ Exits(fn, b)
        /\ phase' = "decided"
        /\ verdict' = IF phase = "hunt" THEN "VIOLATED" ELSE "CANT-PROVE"
        /\ exit' = IF phase = "hunt" THEN b ELSE 0
        /\ agenda' = <<>>
        /\ UNCHANGED abstain

(* The acquire's own failure branch: only the success arm is followed.     *)
WalkPruned ==
    \E b \in Blocks(fn) :
        /\ Enter(b)
        /\ ~Stopped(b)
        /\ Isolated(b)
        /\ agenda' = <<SuccessArm(b)>> \o Tail(agenda)
        /\ UNCHANGED <<phase, abstain, verdict, exit>>

(* Any other branch or jump: every successor is tried, and a test of a     *)
(* possibly reassigned error makes the check abstain.                      *)
WalkThrough ==
    \E b \in Blocks(fn) :
        /\ Enter(b)
        /\ ~Stopped(b)
        /\ ~Exits(fn, b)
        /\ ~Isolated(b)
        /\ abstain' = (abstain \/ ErrorTest(b))
        /\ agenda' = Succs(fn, b) \o Tail(agenda)
        /\ UNCHANGED <<phase, verdict, exit>>

(* No leak was found.  If a handoff was beyond proof, walk again through   *)
(* it: an unconditional release further down still proves the path.        *)
HuntAgain ==
    /\ phase = "hunt"
    /\ agenda = <<>>
    /\ unknown
    /\ phase' = "proof"
    /\ visited' = {}
    /\ agenda' = <<fn.acq.block>>
    /\ UNCHANGED <<entryClean, cursor, changed, unknown, abstain, verdict, exit>>

Decide ==
    /\ agenda = <<>>
    /\ phase = "proof" \/ (phase = "hunt" /\ ~unknown)
    /\ phase' = "decided"
    /\ unknown' = FALSE
    /\ verdict' = IF abstain THEN "CANT-PROVE" ELSE "SATISFIED"
    /\ UNCHANGED <<entryClean, cursor, changed, visited, agenda, abstain, exit>>

Analyse ==
    /\ \/ Refuse \/ Begin
       \/ SweepBlock \/ SweepAgain \/ SweepDone
       \/ SkipBlock \/ WalkStopped \/ WalkExit \/ WalkPruned \/ WalkThrough
       \/ HuntAgain \/ Decide
    /\ UNCHANGED <<fn, sums, program>>

-----------------------------------------------------------------------------
(* The analysed function, run.                                             *)

Running == phase = "decided" /\ ~ended
Here    == Body(fn, pc.block)[pc.index]
AtInstr == Running /\ pc.index <= Len(Body(fn, pc.block))
AtTerm  == Running /\ pc.index > Len(Body(fn, pc.block))
Step    == pc' = [pc EXCEPT !.index = @ + 1]

RunAcquire ==
    /\ AtInstr /\ Here.op = "acquire"
    /\ \E failed \in (IF fn.errs THEN BOOLEAN ELSE {FALSE}) :
          /\ acqErr' = failed
          /\ owed' = ~failed
          /\ owedEver' = (owedEver \/ ~failed)
    /\ acquired' = TRUE
    /\ credited' = FALSE
    /\ Step
    /\ UNCHANGED <<cell, phi, ended, strayed>>

RunCall ==
    /\ AtInstr /\ Here.op \in CallOps
    /\ \E released \in ReleaseOutcomes(Here) :
          /\ owed' = (owed /\ ~released)
          /\ owedEver' = (owedEver /\ ~released)
    /\ cell' \in IF Here.addr /\ Here.op # "defer" THEN BOOLEAN ELSE {cell}
    /\ credited' = (credited \/ MaySkipRelease(Here))
    /\ Step
    /\ UNCHANGED <<acquired, acqErr, phi, ended, strayed>>

(* The phi is read for the acquire error and holds another one. *)
PhiStrays == "phi" \in DirectErr(fn) /\ ~(acquired /\ phi = acqErr)

(* SSA: the acquire's error is used only where the acquire has executed.   *)
RunStore ==
    /\ AtInstr /\ Here.op = "store"
    /\ Here.val = "acqErr" => acquired
    /\ cell' \in CASE Here.val = "acqErr"  -> {acqErr}
                   [] Here.val = "self"    -> {cell}
                   [] Here.val = "foreign" -> BOOLEAN
                   [] Here.val = "phi"     -> {phi}
    /\ strayed' = (strayed \/ (Here.val = "phi" /\ PhiStrays))
    /\ Step
    /\ UNCHANGED <<acquired, acqErr, phi, owed, owedEver, ended, credited>>

(* Control enters block b from here; a phi there takes this edge's value.  *)
GoTo(b) ==
    /\ pc' = [block |-> b, index |-> 1]
    /\ phi' \in IF b # fn.phi.at THEN {phi}
                ELSE CASE fn.phi.src[pc.block] = "acqErr"  -> {acqErr}
                       [] fn.phi.src[pc.block] = "self"    -> {cell}
                       [] fn.phi.src[pc.block] = "foreign" -> BOOLEAN

(* The values the tested operand can have: TRUE is a non-nil error.        *)
Tested(b) ==
    CASE Term(fn, b).tests = "acqErr" -> {acqErr}
      [] Term(fn, b).tests = "phi"    -> {phi}
      [] Term(fn, b).tests = "load"   -> {cell}
      [] Term(fn, b).tests = "other"  -> BOOLEAN

RunBranch ==
    /\ AtTerm /\ Term(fn, pc.block).op = "if"
    /\ Term(fn, pc.block).tests = "acqErr" => acquired
    /\ \E isErr \in Tested(pc.block) :
          GoTo(IF isErr = Term(fn, pc.block).neq THEN Succs(fn, pc.block)[1]
                                                 ELSE Succs(fn, pc.block)[2])
    /\ strayed' = (strayed \/ (Term(fn, pc.block).tests = "phi" /\ PhiStrays))
    /\ UNCHANGED <<acquired, acqErr, cell, owed, owedEver, ended, credited>>

RunJump ==
    /\ AtTerm /\ Term(fn, pc.block).op = "jump"
    /\ GoTo(Succs(fn, pc.block)[1])
    /\ UNCHANGED <<acquired, acqErr, cell, owed, owedEver, ended, credited, strayed>>

RunExit ==
    /\ AtTerm /\ Exits(fn, pc.block)
    /\ ended' = TRUE
    /\ UNCHANGED <<pc, acquired, acqErr, cell, phi, owed, owedEver, credited, strayed>>

Run ==
    /\ RunAcquire \/ RunCall \/ RunStore \/ RunBranch \/ RunJump \/ RunExit
    /\ UNCHANGED <<fn, sums, analysis>>

-----------------------------------------------------------------------------
Init ==
    /\ fn \in Functions
    /\ sums \in BOOLEAN
    /\ phase = "start"
    /\ entryClean = CleanSeed(fn)
    /\ cursor = 1 /\ changed = FALSE
    /\ visited = {} /\ agenda = <<>>
    /\ unknown = FALSE /\ abstain = FALSE
    /\ verdict = "none" /\ exit = 0
    /\ pc = [block |-> 1, index |-> 1]
    /\ acquired = FALSE /\ acqErr = FALSE /\ cell = FALSE /\ phi = FALSE
    /\ owed = FALSE /\ owedEver = FALSE /\ ended = FALSE
    /\ credited = FALSE /\ strayed = FALSE

Next == Analyse \/ Run

Spec == Init /\ [][Next]_vars

(* The analysis is a sequential call: nothing can keep it from stepping.   *)
FairSpec == Spec /\ WF_vars(Analyse)

-----------------------------------------------------------------------------
AnalysisType ==
    /\ phase \in Phases /\ verdict \in Verdicts
    /\ entryClean \in [Blocks(fn) -> BOOLEAN]
    /\ cursor \in 1..(Len(fn.blocks) + 1) /\ changed \in BOOLEAN
    /\ visited \subseteq Blocks(fn) /\ agenda \in Seq(Blocks(fn))
    /\ unknown \in BOOLEAN /\ abstain \in BOOLEAN
    /\ exit \in 0..Len(fn.blocks)

ProgramType ==
    /\ pc \in [block : Blocks(fn), index : Nat \ {0}]
    /\ pc.index <= Len(Body(fn, pc.block)) + 1
    /\ acquired \in BOOLEAN /\ acqErr \in BOOLEAN
    /\ cell \in BOOLEAN /\ phi \in BOOLEAN
    /\ owed \in BOOLEAN /\ owedEver \in BOOLEAN /\ ended \in BOOLEAN
    /\ credited \in BOOLEAN /\ strayed \in BOOLEAN

(* Every variable has its type, and the function under analysis is one the *)
(* SSA builder can emit.                                                   *)
TypeOK == WellFormed(fn) /\ sums \in BOOLEAN /\ AnalysisType /\ ProgramType

(* What SATISFIED (checkRelease, leakPath) proves of the analysed program: *)
(* whatever path it takes, the resource of the latest acquire is released  *)
(* when the function exits, but for the two credits the code gives without *)
(* proof.  deferReleases takes a deferred closure that may skip its        *)
(* release for one that releases, and directWeb takes a phi that merges    *)
(* the acquire error with another error for the acquire error.             *)
SatisfiedReleases ==
    verdict = "SATISFIED" /\ ended => ~owed \/ credited \/ strayed

(* The same with nothing excepted, which is what the documentation of the  *)
(* verdict says: "the property holds over every path".                     *)
SatisfiedIsUniversal == verdict = "SATISFIED" /\ ended => ~owed

(* A load acquireCleanLoads calls clean reads the acquire's own error, so  *)
(* the arm pruned on it is the arm of the failed acquire: no reassignment  *)
(* on any path, back-edges included, reaches it (C-2, R-1).  A merged phi  *)
(* stored into the cell is the exception: storeState takes it for the      *)
(* acquire error.                                                          *)
CleanLoadReadsAcquire ==
    AtTerm /\ verdict = "SATISFIED" /\ CleanLoad(pc.block) =>
        strayed \/ (acquired /\ cell = acqErr)

(* What the walks compute, said without walking: the blocks some path from *)
(* the acquire enters, when a path ends at the blocks of stops.            *)
Arms(b) == IF Isolated(b) THEN {SuccessArm(b)} ELSE SuccSet(fn, b)
Reached(stops) ==
    {b \in Blocks(fn) :
        \A S \in SUBSET Blocks(fn) :
            /\ fn.acq.block \in S
            /\ \A c \in S \ stops : Arms(c) \subseteq S
            => b \in S}
Leaks(stops)   == {b \in Reached(stops) \ stops : Exits(fn, b)}
Unclear(stops) == {b \in Reached(stops) \ stops : ErrorTest(b) /\ ~Isolated(b)}

CoverStops == {b \in Blocks(fn) : Covered(b)}
MaybeStops == CoverStops \cup {b \in Blocks(fn) : MeetsMaybe(b)}
NamedStops == {b \in Blocks(fn) : \E i \in Scanned(b) : NamesRelease(Body(fn, b)[i])}

WalkEnds == phase \in {"hunt", "proof"} /\ phase' = "decided"

(* The verdict is a property of the paths, not of the order of the walk:   *)
(* leakPath's two depth-first searches with their shared visited set, the  *)
(* early stop and the pre-seeded acquire block say VIOLATED exactly when   *)
(* an exit can be reached past no release and no maybe-release, and        *)
(* SATISFIED exactly when none can past no release and no test on the way  *)
(* is ambiguous.  The witness is such an exit.  Summaries only add trust   *)
(* (D-CX2): what is VIOLATED with them would leak without them, and what   *)
(* is SATISFIED without them stays SATISFIED.                              *)
VerdictIsPathProperty ==
    [][WalkEnds =>
        /\ verdict' = "VIOLATED"  <=> Leaks(MaybeStops) # {}
        /\ verdict' = "SATISFIED" <=> Leaks(CoverStops) = {} /\ Unclear(CoverStops) = {}
        /\ verdict' = "VIOLATED"  => exit' \in Leaks(MaybeStops) /\ Leaks(NamedStops) # {}
        /\ Leaks(NamedStops) = {} /\ Unclear(NamedStops) = {} => verdict' = "SATISFIED"]_vars

(* Every analysis returns: both loops, the sweeps to a fixed point and the *)
(* walk over a cyclic graph, come to an end.                               *)
EventuallyDecided == <>(phase = "decided")

(* The comment that seeds the acquire block as visited holds that the      *)
(* back-edge "yields no genuine new witness": that a SATISFIED also speaks *)
(* for the resources of earlier iterations.                                *)
NoIterationLeaks == verdict = "SATISFIED" /\ ended => ~owedEver
=============================================================================
