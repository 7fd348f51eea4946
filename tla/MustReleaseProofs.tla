------------------------ MODULE MustReleaseProofs ------------------------
(***************************************************************************)
(* Proofs about MustRelease, for every set of functions: its type          *)
(* invariant, the soundness of a SATISFIED verdict, and that the verdict   *)
(* is the one the paths define, whatever the order of the walk.            *)
(***************************************************************************)
EXTENDS MustRelease, TLAPS

Rng(s) == {s[i] : i \in DOMAIN s}

(* The agenda as a set: what taking its head and pushing successors does.  *)
LEMMA AgendaHead ==
    ASSUME NEW S, NEW s \in Seq(S), s # <<>>
    PROVE  /\ Head(s) \in S /\ Tail(s) \in Seq(S)
           /\ Rng(s) = {Head(s)} \cup Rng(Tail(s))
<1>1. /\ Head(s) = s[1] /\ Len(s) \in Nat /\ Len(s) >= 1 /\ DOMAIN s = 1..Len(s)
      /\ DOMAIN Tail(s) = 1..(Len(s) - 1)
      /\ \A i \in 1..(Len(s) - 1) : Tail(s)[i] = s[i + 1]
    OBVIOUS
<1>2. Head(s) \in S /\ Tail(s) \in Seq(S)
    OBVIOUS
<1>3. Rng(s) \subseteq {Head(s)} \cup Rng(Tail(s))
  <2> SUFFICES ASSUME NEW i \in 1..Len(s)
               PROVE  s[i] \in {Head(s)} \cup Rng(Tail(s))
      BY <1>1 DEF Rng
  <2>1. CASE i = 1
      BY <1>1, <2>1
  <2>2. CASE i # 1
    <3>1. i - 1 \in 1..(Len(s) - 1) /\ (i - 1) + 1 = i
        BY <1>1, <2>2
    <3>2. Tail(s)[i - 1] = s[i]
        BY <1>1, <3>1
    <3> QED BY <1>1, <3>1, <3>2 DEF Rng
  <2> QED BY <2>1, <2>2
<1>4. {Head(s)} \cup Rng(Tail(s)) \subseteq Rng(s)
    BY <1>1 DEF Rng
<1> QED BY <1>2, <1>3, <1>4

(* Pushing one sequence before another joins the sets of their elements.   *)
LEMMA AgendaPush ==
    ASSUME NEW S, NEW s \in Seq(S), NEW t \in Seq(S)
    PROVE  s \o t \in Seq(S) /\ Rng(s \o t) = Rng(s) \cup Rng(t)
<1>1. /\ Len(s) \in Nat /\ Len(t) \in Nat
      /\ DOMAIN s = 1..Len(s) /\ DOMAIN t = 1..Len(t)
      /\ DOMAIN (s \o t) = 1..(Len(s) + Len(t))
      /\ \A i \in 1..(Len(s) + Len(t)) :
            (s \o t)[i] = IF i <= Len(s) THEN s[i] ELSE t[i - Len(s)]
    OBVIOUS
<1>2. Rng(s \o t) \subseteq Rng(s) \cup Rng(t)
    BY <1>1 DEF Rng
<1>3. Rng(s) \subseteq Rng(s \o t)
    BY <1>1 DEF Rng
<1>4. Rng(t) \subseteq Rng(s \o t)
  <2> SUFFICES ASSUME NEW i \in 1..Len(t)
               PROVE  t[i] \in Rng(s \o t)
      BY <1>1 DEF Rng
  <2>1. i + Len(s) \in 1..(Len(s) + Len(t)) /\ (s \o t)[i + Len(s)] = t[i]
      BY <1>1
  <2> QED BY <1>1, <2>1 DEF Rng
<1> QED BY <1>2, <1>3, <1>4

-----------------------------------------------------------------------------
(* What well-formedness gives of a block and of the acquire's place.       *)
LEMMA BlockFacts ==
    ASSUME WellFormed(fn), NEW b \in Blocks(fn)
    PROVE  /\ Body(fn, b) \in Seq(Instr)
           /\ Term(fn, b) \in Terminator
           /\ Succs(fn, b) \in Seq(Blocks(fn))
           /\ SuccSet(fn, b) \subseteq Blocks(fn)
           /\ Rng(Succs(fn, b)) = SuccSet(fn, b)
           /\ Term(fn, b).op = "if" =>
                /\ Succs(fn, b)[1] \in SuccSet(fn, b)
                /\ Succs(fn, b)[2] \in SuccSet(fn, b)
           /\ Term(fn, b).op = "jump" => Succs(fn, b)[1] \in SuccSet(fn, b)
           /\ fn.phi.src[b] \in Merged
<1>1. /\ Body(fn, b) \in Seq(Instr)
      /\ Term(fn, b) \in Terminator
      /\ Succs(fn, b) \in Seq(Blocks(fn))
      /\ Term(fn, b).op = "if"   => Len(Succs(fn, b)) = 2
      /\ Term(fn, b).op = "jump" => Len(Succs(fn, b)) = 1
      /\ fn.phi.src[b] \in Merged
    BY DEF WellFormed
<1>2. SuccSet(fn, b) \subseteq Blocks(fn) /\ Rng(Succs(fn, b)) = SuccSet(fn, b)
    BY <1>1 DEF SuccSet, Rng
<1>3. \A i \in 1..Len(Succs(fn, b)) : Succs(fn, b)[i] \in SuccSet(fn, b)
    BY <1>1 DEF SuccSet
<1> QED BY <1>1, <1>2, <1>3

(* The entry and the anchored acquire exist.                               *)
LEMMA AcquireFacts ==
    ASSUME WellFormed(fn)
    PROVE  /\ 1 \in Blocks(fn) /\ Len(fn.blocks) \in Nat \ {0}
           /\ fn.acq.block \in Blocks(fn)
           /\ fn.acq.index \in 1..Len(Body(fn, fn.acq.block))
           /\ Body(fn, fn.acq.block)[fn.acq.index].op = "acquire"
           /\ Blocks(fn) \subseteq Nat \ {0}
    BY DEF WellFormed, Blocks

-----------------------------------------------------------------------------
(* One step of the analysis, and one step of the program, keep the types.  *)
LEMMA TypeAnalyse == TypeOK /\ Analyse => TypeOK'
<1> SUFFICES ASSUME TypeOK, Analyse PROVE TypeOK'
    OBVIOUS
<1> USE DEF Phases, Verdicts
<1>0. UNCHANGED <<fn, sums, program>>
    BY DEF Analyse
<1>a. WellFormed(fn)
    BY DEF TypeOK
<1>b. /\ fn.acq.block \in Blocks(fn) /\ Len(fn.blocks) \in Nat \ {0}
      /\ <<fn.acq.block>> \in Seq(Blocks(fn))
    BY <1>a, AcquireFacts
<1>c. fn' = fn /\ Blocks(fn)' = Blocks(fn)
    BY <1>0
<1>p. WellFormed(fn)' /\ sums' \in BOOLEAN /\ ProgramType'
    BY <1>0, <1>a DEF TypeOK, ProgramType, program
<1> SUFFICES AnalysisType'
    BY <1>p DEF TypeOK
<1>1. CASE Refuse
    BY <1>0, <1>1, <1>c DEF Refuse, TypeOK, AnalysisType
<1>2. CASE Begin
    BY <1>0, <1>2, <1>b, <1>c DEF Begin, TypeOK, AnalysisType
<1>3. CASE SweepBlock
    BY <1>0, <1>3, <1>b, <1>c DEF SweepBlock, TypeOK, AnalysisType, CleanIn, Blocks
<1>4. CASE SweepAgain
  <2>1. cursor' \in 1..(Len(fn.blocks) + 1) /\ changed' = FALSE
      BY <1>4, <1>b DEF SweepAgain
  <2>2. UNCHANGED <<phase, entryClean, visited, agenda, unknown, abstain, verdict, exit>>
      BY <1>4 DEF SweepAgain
  <2> QED BY <1>0, <1>c, <2>1, <2>2 DEF TypeOK, AnalysisType
<1>5. CASE SweepDone
    BY <1>0, <1>5, <1>c DEF SweepDone, TypeOK, AnalysisType
<1>6. CASE SkipBlock
  <2>1. agenda \in Seq(Blocks(fn)) /\ agenda # <<>>
      BY <1>6 DEF SkipBlock, Walking, TypeOK, AnalysisType
  <2>2. Tail(agenda) \in Seq(Blocks(fn))
      BY <2>1, AgendaHead
  <2> QED BY <1>0, <1>6, <1>c, <2>2 DEF SkipBlock, TypeOK, AnalysisType
<1>7. ASSUME NEW b \in Blocks(fn), Enter(b)
      PROVE  /\ Tail(agenda) \in Seq(Blocks(fn))
             /\ visited' \subseteq Blocks(fn) /\ unknown' \in BOOLEAN
             /\ UNCHANGED <<entryClean, cursor, changed>>
  <2>1. agenda \in Seq(Blocks(fn)) /\ agenda # <<>>
      BY <1>7 DEF Enter, Walking, TypeOK, AnalysisType
  <2>2. Tail(agenda) \in Seq(Blocks(fn))
      BY <2>1, AgendaHead
  <2>3. MeetsMaybe(b) \in BOOLEAN
      BY DEF MeetsMaybe
  <2> QED BY <1>7, <2>2, <2>3 DEF Enter, TypeOK, AnalysisType
<1>8. CASE WalkStopped
    BY <1>0, <1>7, <1>8, <1>c DEF WalkStopped, TypeOK, AnalysisType
<1>9. CASE WalkExit
    BY <1>0, <1>7, <1>9, <1>c DEF WalkExit, TypeOK, AnalysisType, Blocks
<1>10. CASE WalkPruned
  <2>1. PICK b \in Blocks(fn) : /\ Enter(b) /\ Isolated(b)
                                /\ agenda' = <<SuccessArm(b)>> \o Tail(agenda)
                                /\ UNCHANGED <<phase, abstain, verdict, exit>>
      BY <1>10 DEF WalkPruned
  <2>2. SuccessArm(b) \in Blocks(fn)
      BY <1>a, <2>1, BlockFacts DEF SuccessArm, Isolated, ErrorTest
  <2>3. agenda' \in Seq(Blocks(fn))
      BY <1>7, <2>1, <2>2
  <2> QED BY <1>0, <1>7, <1>c, <2>1, <2>3 DEF TypeOK, AnalysisType
<1>11. CASE WalkThrough
  <2>1. PICK b \in Blocks(fn) : /\ Enter(b)
                                /\ abstain' = (abstain \/ ErrorTest(b))
                                /\ agenda' = Succs(fn, b) \o Tail(agenda)
                                /\ UNCHANGED <<phase, verdict, exit>>
      BY <1>11 DEF WalkThrough
  <2>2. Succs(fn, b) \in Seq(Blocks(fn)) /\ Tail(agenda) \in Seq(Blocks(fn))
      BY <1>a, <1>7, <2>1, BlockFacts
  <2>3. agenda' \in Seq(Blocks(fn))
      BY <2>1, <2>2
  <2>4. abstain' \in BOOLEAN
      BY <2>1 DEF ErrorTest, TypeOK, AnalysisType
  <2> QED BY <1>0, <1>7, <1>c, <2>1, <2>3, <2>4 DEF TypeOK, AnalysisType
<1>12. CASE HuntAgain
    BY <1>0, <1>12, <1>b, <1>c DEF HuntAgain, TypeOK, AnalysisType
<1>13. CASE Decide
    BY <1>0, <1>13, <1>c DEF Decide, TypeOK, AnalysisType
<1> QED BY <1>1, <1>2, <1>3, <1>4, <1>5, <1>6, <1>8, <1>9, <1>10, <1>11, <1>12, <1>13
        DEF Analyse

(* Entering a block by GoTo leaves the program counter and the phi typed.  *)
LEMMA TypeGoTo ==
    ASSUME TypeOK, NEW b \in Blocks(fn), GoTo(b)
    PROVE  /\ pc' = [block |-> b, index |-> 1]
           /\ pc'.block = b /\ pc'.index = 1
           /\ pc' \in [block : Blocks(fn), index : Nat \ {0}]
           /\ pc'.index <= Len(Body(fn, pc'.block)) + 1
           /\ phi' \in BOOLEAN
<1>1. pc' = [block |-> b, index |-> 1]
    BY DEF GoTo
<1>2. Len(Body(fn, b)) \in Nat
    BY BlockFacts DEF TypeOK, ProgramType
<1>3. fn.phi.src[pc.block] \in {"acqErr", "self", "foreign"}
    BY BlockFacts DEF TypeOK, ProgramType, Merged
<1>4. phi' \in BOOLEAN
    BY <1>3 DEF GoTo, TypeOK, ProgramType
<1> QED BY <1>1, <1>2, <1>4

(* A step of the analysed program keeps the types.                         *)
LEMMA TypeRun == TypeOK /\ Run => TypeOK'
<1> SUFFICES ASSUME TypeOK, Run PROVE TypeOK'
    OBVIOUS
<1>0. UNCHANGED <<fn, sums, analysis>>
    BY DEF Run
<1>a. WellFormed(fn) /\ pc.block \in Blocks(fn) /\ Len(Body(fn, pc.block)) \in Nat
    BY BlockFacts DEF TypeOK, ProgramType
<1>c. /\ fn' = fn /\ Blocks(fn)' = Blocks(fn)
      /\ Body(fn, pc.block)' = Body(fn, pc'.block)
    BY <1>0
<1>p. WellFormed(fn)' /\ sums' \in BOOLEAN /\ AnalysisType'
    BY <1>0, <1>a DEF TypeOK, AnalysisType, analysis
<1> SUFFICES ProgramType'
    BY <1>p DEF TypeOK
<1>s. ASSUME AtInstr, Step
      PROVE  /\ pc' = [block |-> pc.block, index |-> pc.index + 1]
             /\ pc' \in [block : Blocks(fn), index : Nat \ {0}]
             /\ pc'.index <= Len(Body(fn, pc'.block)) + 1
    BY <1>a, <1>s DEF AtInstr, Step, TypeOK, ProgramType
<1>1. CASE RunAcquire
    BY <1>0, <1>1, <1>s, <1>c DEF RunAcquire, TypeOK, ProgramType
<1>2. CASE RunCall
  <2>1. ReleaseOutcomes(Here) \subseteq BOOLEAN /\ MaySkipRelease(Here) \in BOOLEAN
      BY DEF ReleaseOutcomes, MaySkipRelease
  <2>2. /\ owed' \in BOOLEAN /\ owedEver' \in BOOLEAN /\ cell' \in BOOLEAN
        /\ credited' \in BOOLEAN
      BY <1>2, <2>1 DEF RunCall, TypeOK, ProgramType
  <2> QED BY <1>0, <1>2, <1>s, <1>c, <2>2 DEF RunCall, TypeOK, ProgramType
<1>3. CASE RunStore
  <2>1. pc.index \in 1..Len(Body(fn, pc.block))
      BY <1>a, <1>3 DEF RunStore, AtInstr, TypeOK, ProgramType
  <2>2. Here \in Instr
      BY <1>a, <2>1, BlockFacts DEF Here
  <2>3. Here.val \in {"acqErr", "self", "foreign", "phi"}
      BY <1>3, <2>2 DEF RunStore, Instr, Stored, Merged, CallOps
  <2>4. cell' \in BOOLEAN /\ strayed' \in BOOLEAN
      BY <1>3, <2>3 DEF RunStore, PhiStrays, TypeOK, ProgramType
  <2> QED BY <1>0, <1>3, <1>s, <1>c, <2>4 DEF RunStore, TypeOK, ProgramType
<1>4. CASE RunBranch
  <2>1. PICK b \in Blocks(fn) : GoTo(b)
      BY <1>a, <1>4, BlockFacts DEF RunBranch
  <2>2. strayed' \in BOOLEAN
      BY <1>4 DEF RunBranch, PhiStrays, TypeOK, ProgramType
  <2> QED BY <1>0, <1>4, <1>c, <2>1, <2>2, TypeGoTo DEF RunBranch, TypeOK, ProgramType
<1>5. CASE RunJump
  <2>1. PICK b \in Blocks(fn) : GoTo(b)
      BY <1>a, <1>5, BlockFacts DEF RunJump
  <2> QED BY <1>0, <1>5, <1>c, <2>1, TypeGoTo DEF RunJump, TypeOK, ProgramType
<1>6. CASE RunExit
    BY <1>0, <1>6, <1>c DEF RunExit, TypeOK, ProgramType
<1> QED BY <1>1, <1>2, <1>3, <1>4, <1>5, <1>6 DEF Run

(* The types hold when the analysis is called.                             *)
LEMMA InitTypes == Init => TypeOK
<1> SUFFICES ASSUME Init PROVE TypeOK
    OBVIOUS
<1>1. WellFormed(fn)
    BY FunctionsWellFormed DEF Init
<1>2. 1 \in Blocks(fn) /\ Len(fn.blocks) \in Nat \ {0} /\ Len(Body(fn, 1)) \in Nat
    BY <1>1, AcquireFacts, BlockFacts
<1>3. pc = [block |-> 1, index |-> 1] /\ pc.index <= Len(Body(fn, pc.block)) + 1
    BY <1>2 DEF Init
<1>4. entryClean \in [Blocks(fn) -> BOOLEAN]
    BY DEF Init, CleanSeed
<1>5. agenda \in Seq(Blocks(fn)) /\ cursor \in 1..(Len(fn.blocks) + 1)
    BY <1>2 DEF Init
<1>6. exit \in 0..Len(fn.blocks) /\ pc \in [block : Blocks(fn), index : Nat \ {0}]
    BY <1>2, <1>3 DEF Init
<1>7. /\ changed \in BOOLEAN /\ unknown \in BOOLEAN /\ abstain \in BOOLEAN
      /\ acquired \in BOOLEAN /\ acqErr \in BOOLEAN
      /\ cell \in BOOLEAN /\ phi \in BOOLEAN
      /\ owed \in BOOLEAN /\ owedEver \in BOOLEAN /\ ended \in BOOLEAN
      /\ credited \in BOOLEAN /\ strayed \in BOOLEAN
    BY DEF Init
<1>8. AnalysisType
    BY <1>4, <1>5, <1>6, <1>7 DEF Init, AnalysisType, Phases, Verdicts
<1>9. ProgramType
    BY <1>3, <1>6, <1>7 DEF ProgramType
<1> QED BY <1>1, <1>8, <1>9 DEF Init, TypeOK

(* No step, of the analysis or of the program, breaks a type.              *)
LEMMA TypeStep == TypeOK /\ [Next]_vars => TypeOK'
<1>1. CASE Next
    BY <1>1, TypeAnalyse, TypeRun DEF Next
<1>2. ASSUME TypeOK, UNCHANGED vars PROVE TypeOK'
    BY <1>2 DEF vars, analysis, program, TypeOK, AnalysisType, ProgramType, Blocks, Body
<1> QED BY <1>1, <1>2

(* Every variable keeps its type, whatever functions are analysed.         *)
THEOREM TypeCorrect == Spec => []TypeOK
BY InitTypes, TypeStep, PTL DEF Spec

-----------------------------------------------------------------------------
(* The inductive invariant behind the soundness of SATISFIED.              *)

(* The sweep: blocks behind the cursor are settled unless something moved, *)
(* and what the walk consults is a solution of the equations.              *)
Fixed == \A b \in Blocks(fn) : entryClean[b] = CleanIn(b)
SweepInv ==
    /\ phase = "start" => cursor = 1 /\ ~changed
    /\ phase = "clean" /\ ~changed =>
          \A b \in Blocks(fn) : b < cursor => entryClean[b] = CleanIn(b)
    /\ phase \in {"hunt", "proof"} \/ verdict = "SATISFIED" =>
          (AnalysesCell(fn) => Fixed)

(* The walk: a visited block is covered, or does not exit and all that the *)
(* walk follows from it was visited or is on the agenda.                   *)
Pending == visited \cup Rng(agenda)
Passed(b) ==
    /\ ~Exits(fn, b)
    /\ Isolated(b)  => SuccessArm(b) \in Pending
    /\ ~Isolated(b) => /\ SuccSet(fn, b) \subseteq Pending
                       /\ ErrorTest(b) => abstain
Settled(b) == Covered(b) \/ Passed(b)
WalkInv ==
    /\ phase # "decided" => verdict = "none"
    /\ phase \in {"start", "clean"} => visited = {}
    /\ phase \in {"clean", "hunt", "proof"} \/ verdict = "SATISFIED" =>
          /\ fn.acq.block \in Pending
          /\ \A b \in visited : Settled(b) \/ (phase = "hunt" /\ unknown)
    /\ verdict = "SATISFIED" => agenda = <<>> /\ ~abstain

(* The program, under a SATISFIED verdict: the analysis of the cell speaks *)
(* the truth at the program counter, and an unreleased resource is only    *)
(* held where the walk passed and nothing covered yet, or before the next  *)
(* acquire of a loop.  Both until a phi strays, and the second for a debt  *)
(* that no doubtful closure was credited with.                             *)
HoldsHere    == HoldsAcquire(fn, pc.block, pc.index - 1, entryClean[pc.block])
HoldsAtAcq   == HoldsAcquire(fn, fn.acq.block, fn.acq.index - 1, entryClean[fn.acq.block])
CellTrue ==
    AnalysesCell(fn) /\ ~strayed =>
        /\ HoldsHere => acquired /\ cell = acqErr
        /\ acquired => ~HoldsAtAcq
InScope ==
    \/ pc.block = fn.acq.block /\ pc.index <= fn.acq.index
    \/ /\ pc.block \in visited
       /\ \A i \in From(pc.block)..(pc.index - 1) : ~Covers(Body(fn, pc.block)[i])
Debt    == owed /\ ~credited /\ ~strayed
OwedInv == Debt => acquired /\ ~acqErr /\ ~ended /\ InScope
ProgramInv ==
    /\ phase # "decided" =>
          pc = [block |-> 1, index |-> 1] /\ ~acquired /\ ~owed /\ ~ended
    /\ verdict = "SATISFIED" => CellTrue /\ OwedInv

IInv == TypeOK /\ SweepInv /\ WalkInv /\ ProgramInv

-----------------------------------------------------------------------------
(* Every analysis step starts before the verdict and leaves the program    *)
(* where it is.                                                            *)
LEMMA AnalyseFrame ==
    ASSUME Analyse
    PROVE  phase # "decided" /\ UNCHANGED <<fn, sums, program>>
BY DEF Analyse, Refuse, Begin, SweepBlock, SweepAgain, SweepDone, SkipBlock,
       WalkStopped, WalkExit, WalkPruned, WalkThrough, Enter, Walking, HuntAgain, Decide

(* Analysis steps keep the invariant of the sweep.                         *)
LEMMA SweepAnalyse == IInv /\ Analyse => SweepInv'
<1> SUFFICES ASSUME IInv, Analyse PROVE SweepInv'
    OBVIOUS
<1>0. UNCHANGED <<fn, sums, program>> /\ phase # "decided" /\ verdict = "none"
    BY AnalyseFrame DEF IInv, WalkInv
<1>a. /\ cursor \in 1..(Len(fn.blocks) + 1) /\ Len(fn.blocks) \in Nat
      /\ Blocks(fn) = 1..Len(fn.blocks)
      /\ entryClean \in [Blocks(fn) -> BOOLEAN] /\ changed \in BOOLEAN
    BY AcquireFacts DEF IInv, TypeOK, AnalysisType, Blocks
<1>1. ASSUME UNCHANGED entryClean
      PROVE  /\ \A b : CleanIn(b)' = CleanIn(b)
             /\ Fixed' <=> Fixed
    BY <1>0, <1>1 DEF CleanIn, Fixed
<1>2. CASE Refuse
    BY <1>0, <1>2 DEF Refuse, SweepInv
<1>3. CASE Begin
  <2>1. UNCHANGED <<entryClean, cursor, changed>> /\ cursor = 1 /\ verdict' = "none"
      BY <1>0, <1>3 DEF Begin, IInv, SweepInv
  <2>2. phase' = "clean" \/ (phase' = "hunt" /\ ~AnalysesCell(fn))
      BY <1>3 DEF Begin
  <2> QED BY <1>0, <1>a, <2>1, <2>2 DEF SweepInv
<1>4. CASE SweepBlock
  <2>1. /\ phase = "clean" /\ phase' = "clean" /\ verdict' = "none"
        /\ cursor \in Blocks(fn) /\ cursor' = cursor + 1
        /\ changed' = (changed \/ entryClean[cursor] # CleanIn(cursor))
        /\ entryClean' = [entryClean EXCEPT ![cursor] = CleanIn(cursor)]
      BY <1>0, <1>4, <1>a DEF SweepBlock
  <2> SUFFICES ASSUME ~changed'
               PROVE  \A b \in Blocks(fn) : b < cursor' => entryClean'[b] = CleanIn(b)'
      BY <1>0, <2>1 DEF SweepInv
  <2>2. ~changed /\ entryClean[cursor] = CleanIn(cursor)
      BY <1>a, <2>1
  <2>3. entryClean' = entryClean
      BY <1>a, <2>1, <2>2
  <2>4. \A b \in Blocks(fn) : b < cursor => entryClean[b] = CleanIn(b)
      BY <2>1, <2>2 DEF IInv, SweepInv
  <2>5. \A b \in Blocks(fn) : b < cursor' => b < cursor \/ b = cursor
      BY <1>a, <2>1
  <2> QED BY <1>1, <2>2, <2>3, <2>4, <2>5
<1>5. CASE SweepAgain
  <2>1. phase' = "clean" /\ cursor' = 1 /\ verdict' = "none"
      BY <1>0, <1>5 DEF SweepAgain
  <2> QED BY <1>0, <1>a, <2>1 DEF SweepInv
<1>6. CASE SweepDone
  <2>1. /\ phase = "clean" /\ ~changed /\ phase' = "hunt" /\ UNCHANGED entryClean
        /\ cursor > Len(fn.blocks) /\ verdict' = "none"
      BY <1>0, <1>6 DEF SweepDone
  <2>2. Fixed
      BY <1>a, <2>1 DEF IInv, SweepInv, Fixed
  <2> QED BY <1>0, <1>1, <2>1, <2>2 DEF SweepInv
<1>7. ASSUME phase \in {"hunt", "proof"}, UNCHANGED entryClean,
             phase' \in {"hunt", "proof", "decided"}
      PROVE  SweepInv'
    BY <1>0, <1>1, <1>7 DEF IInv, SweepInv
<1>8. CASE SkipBlock \/ WalkStopped \/ WalkPruned \/ WalkThrough \/ WalkExit
    BY <1>7, <1>8 DEF SkipBlock, WalkStopped, WalkPruned, WalkThrough, WalkExit,
                      Enter, Walking
<1>9. CASE HuntAgain \/ Decide
    BY <1>7, <1>9 DEF HuntAgain, Decide
<1> QED BY <1>2, <1>3, <1>4, <1>5, <1>6, <1>8, <1>9 DEF Analyse

(* What the walk reads of a block does not change while the walk is on.    *)
LEMMA SameView ==
    ASSUME UNCHANGED <<fn, sums, entryClean>>, NEW b
    PROVE  /\ Covered(b)' <=> Covered(b)
           /\ Isolated(b)' <=> Isolated(b)
           /\ ErrorTest(b)' <=> ErrorTest(b)
           /\ SuccessArm(b)' = SuccessArm(b)
           /\ Exits(fn, b)' <=> Exits(fn, b)
           /\ SuccSet(fn, b)' = SuccSet(fn, b)
BY DEF Covered, Scanned, From, Covers, Isolated, ErrorTest, CleanLoad, SuccessArm

(* What a block has to show once visited only gets easier to show.         *)
LEMMA SettledGrows ==
    ASSUME UNCHANGED <<fn, sums, entryClean>>, abstain => abstain',
           Pending \subseteq Pending', NEW b, Settled(b)
    PROVE  Settled(b)'
<1>1. /\ Covered(b)' <=> Covered(b)
      /\ Isolated(b)' <=> Isolated(b)
      /\ ErrorTest(b)' <=> ErrorTest(b)
      /\ SuccessArm(b)' = SuccessArm(b)
      /\ Exits(fn, b)' <=> Exits(fn, b)
      /\ SuccSet(fn, b)' = SuccSet(fn, b)
    BY SameView
<1>2. Passed(b) => Passed(b)'
    BY <1>1 DEF Passed
<1> QED BY <1>1, <1>2 DEF Settled

(* Taking the head b of the agenda and pushing pushed in its place.        *)
LEMMA PendingGrows ==
    ASSUME TypeOK, NEW b, Walking, b = Head(agenda), visited' = visited \cup {b},
           NEW pushed \in Seq(Blocks(fn)), agenda' = pushed \o Tail(agenda)
    PROVE  Pending' = Pending \cup Rng(pushed)
<1>1. agenda \in Seq(Blocks(fn)) /\ agenda # <<>>
    BY DEF Walking, TypeOK, AnalysisType
<1>2. Tail(agenda) \in Seq(Blocks(fn)) /\ Rng(agenda) = {b} \cup Rng(Tail(agenda))
    BY <1>1, AgendaHead
<1>3. Rng(agenda') = Rng(pushed) \cup Rng(Tail(agenda))
  <2>1. ASSUME NEW t \in Seq(Blocks(fn))
        PROVE  Rng(pushed \o t) = Rng(pushed) \cup Rng(t)
      BY AgendaPush
  <2>2. Rng(pushed \o Tail(agenda)) = Rng(pushed) \cup Rng(Tail(agenda))
      BY <1>2, <2>1
  <2> QED BY <2>2
<1>4. Pending' = visited' \cup Rng(agenda')
    BY DEF Pending, Rng
<1> QED BY <1>2, <1>3, <1>4 DEF Pending

(* Analysis steps keep the invariant of the walk.                          *)
LEMMA WalkAnalyse == IInv /\ Analyse => WalkInv'
<1> SUFFICES ASSUME IInv, Analyse PROVE WalkInv'
    OBVIOUS
<1>0. UNCHANGED <<fn, sums, program>> /\ phase # "decided" /\ verdict = "none"
    BY AnalyseFrame DEF IInv, WalkInv
<1>a. WellFormed(fn) /\ TypeOK /\ fn.acq.block \in Blocks(fn)
    BY AcquireFacts DEF IInv, TypeOK
<1>b. agenda' = <<fn.acq.block>> => fn.acq.block \in Pending'
  <2>1. ASSUME agenda' = <<fn.acq.block>> PROVE fn.acq.block \in Rng(agenda')
      BY <2>1 DEF Rng
  <2> QED BY <2>1 DEF Pending, Rng
<1>1. CASE Refuse
    BY <1>0, <1>1 DEF Refuse, WalkInv, IInv
<1>2. CASE Begin
  <2>1. /\ visited' = {} /\ phase' \in {"clean", "hunt"} /\ verdict' = "none"
        /\ agenda' = <<fn.acq.block>>
      BY <1>0, <1>2 DEF Begin, IInv, WalkInv
  <2> QED BY <1>0, <1>b, <2>1 DEF WalkInv
<1>3. CASE SweepBlock \/ SweepAgain \/ SweepDone
  <2>1. /\ phase = "clean" /\ phase' \in {"clean", "hunt"} /\ visited = {}
        /\ UNCHANGED <<visited, agenda, abstain, verdict>>
      BY <1>3 DEF SweepBlock, SweepAgain, SweepDone, IInv, WalkInv
  <2>2. Pending' = Pending
      BY <2>1 DEF Pending, Rng
  <2> QED BY <1>0, <2>1, <2>2 DEF IInv, WalkInv
<1>w. ASSUME Walking, UNCHANGED <<phase, verdict, entryClean>>,
             abstain => abstain', unknown => unknown', Pending \subseteq Pending',
             \A b \in visited' \ visited : Settled(b)' \/ (phase = "hunt" /\ unknown')
      PROVE  WalkInv'
  <2>1. phase \in {"hunt", "proof"}
      BY <1>w DEF Walking
  <2>2. fn.acq.block \in Pending
      BY <2>1 DEF IInv, WalkInv
  <2>3. ASSUME NEW b \in visited' PROVE Settled(b)' \/ (phase = "hunt" /\ unknown')
    <3>1. CASE b \in visited
      <4>1. Settled(b) \/ (phase = "hunt" /\ unknown)
          BY <2>1, <3>1 DEF IInv, WalkInv
      <4> QED BY <1>0, <1>w, <4>1, SettledGrows
    <3> QED BY <1>w, <3>1
  <2> QED BY <1>0, <1>w, <2>1, <2>2, <2>3 DEF WalkInv
<1>4. CASE SkipBlock
  <2>1. agenda \in Seq(Blocks(fn)) /\ agenda # <<>> /\ agenda' = Tail(agenda)
        /\ Head(agenda) \in visited /\ Walking
        /\ UNCHANGED <<phase, verdict, entryClean, abstain, unknown, visited>>
      BY <1>4, <1>a DEF SkipBlock, Walking, TypeOK, AnalysisType
  <2>2. Rng(agenda) = {Head(agenda)} \cup Rng(agenda')
      BY <2>1, AgendaHead
  <2>3. Pending' = Pending
      BY <2>1, <2>2 DEF Pending, Rng
  <2> QED BY <1>w, <2>1, <2>3
<1>5. CASE WalkStopped
  <2>1. PICK b \in Blocks(fn) : Enter(b) /\ Stopped(b) /\ agenda' = Tail(agenda)
                                /\ UNCHANGED <<phase, abstain, verdict, exit>>
      BY <1>5 DEF WalkStopped
  <2>2. /\ Walking /\ b = Head(agenda) /\ visited' = visited \cup {b}
        /\ unknown' = (unknown \/ MeetsMaybe(b)) /\ UNCHANGED entryClean
      BY <2>1 DEF Enter
  <2>3. agenda' = <<>> \o Tail(agenda) /\ <<>> \in Seq(Blocks(fn))
      BY <1>a, <2>1, <2>2, AgendaHead DEF Walking, TypeOK, AnalysisType
  <2>4. Pending \subseteq Pending'
      BY <1>a, <2>2, <2>3, PendingGrows
  <2>5. Covered(b)' <=> Covered(b)
      BY <1>0 DEF Covered, Scanned, From, Covers
  <2>6. Settled(b)' \/ (phase = "hunt" /\ unknown')
      BY <2>1, <2>2, <2>5 DEF Stopped, Settled
  <2> QED BY <1>w, <2>1, <2>2, <2>4, <2>6
<1>6. CASE WalkExit
    BY <1>0, <1>6 DEF WalkExit, Enter, Walking, WalkInv
<1>7. CASE WalkPruned
  <2>1. PICK b \in Blocks(fn) : /\ Enter(b) /\ Isolated(b) /\ ~Stopped(b)
                                /\ agenda' = <<SuccessArm(b)>> \o Tail(agenda)
                                /\ UNCHANGED <<phase, abstain, verdict, exit>>
      BY <1>7 DEF WalkPruned
  <2>2. /\ Walking /\ b = Head(agenda) /\ visited' = visited \cup {b}
        /\ (unknown => unknown') /\ UNCHANGED entryClean
      BY <2>1 DEF Enter
  <2>3. SuccessArm(b) \in Blocks(fn) /\ Rng(<<SuccessArm(b)>>) = {SuccessArm(b)}
      BY <1>a, <2>1, BlockFacts DEF SuccessArm, Isolated, ErrorTest, Rng
  <2>4. <<SuccessArm(b)>> \in Seq(Blocks(fn))
      BY <2>3
  <2>5. Pending' = Pending \cup {SuccessArm(b)}
      BY <1>a, <2>1, <2>2, <2>3, <2>4, PendingGrows
  <2>6. Isolated(b)' /\ SuccessArm(b)' = SuccessArm(b) /\ ~Exits(fn, b)'
    <3>1. /\ Isolated(b)' <=> Isolated(b)
          /\ SuccessArm(b)' = SuccessArm(b)
          /\ Exits(fn, b)' <=> Exits(fn, b)
      <4>1. UNCHANGED <<fn, sums, entryClean>>
          BY <1>0, <2>2
      <4> QED BY <4>1, SameView
    <3>2. ~Exits(fn, b)
        BY <2>1 DEF Isolated, ErrorTest, Exits
    <3> QED BY <2>1, <3>1, <3>2
  <2>7. Settled(b)'
      BY <2>5, <2>6 DEF Settled, Passed
  <2>8. /\ UNCHANGED <<phase, verdict, entryClean>> /\ (abstain => abstain')
        /\ \A c \in visited' \ visited : Settled(c)'
    <3>1. ASSUME NEW c \in visited' \ visited PROVE Settled(c)'
      <4>1. c = b
          BY <2>2
      <4> QED BY <4>1, <2>7
    <3>2. UNCHANGED <<phase, verdict, entryClean>> /\ (abstain => abstain')
        BY <2>1, <2>2
    <3> QED BY <3>1, <3>2
  <2> QED BY <1>w, <2>2, <2>5, <2>8
<1>8. CASE WalkThrough
  <2>1. PICK b \in Blocks(fn) : /\ Enter(b) /\ ~Exits(fn, b) /\ ~Isolated(b)
                                /\ abstain' = (abstain \/ ErrorTest(b))
                                /\ agenda' = Succs(fn, b) \o Tail(agenda)
                                /\ UNCHANGED <<phase, verdict, exit>>
      BY <1>8 DEF WalkThrough
  <2>2. /\ Walking /\ b = Head(agenda) /\ visited' = visited \cup {b}
        /\ (unknown => unknown') /\ UNCHANGED entryClean
      BY <2>1 DEF Enter
  <2>3. Succs(fn, b) \in Seq(Blocks(fn)) /\ Rng(Succs(fn, b)) = SuccSet(fn, b)
      BY <1>a, <2>1, BlockFacts
  <2>4. Pending' = Pending \cup SuccSet(fn, b)
      BY <1>a, <2>1, <2>2, <2>3, PendingGrows
  <2>5. /\ ~Exits(fn, b)' /\ ~Isolated(b)' /\ SuccSet(fn, b)' = SuccSet(fn, b)
        /\ ErrorTest(b)' <=> ErrorTest(b)
    <3>1. /\ Isolated(b)' <=> Isolated(b)
          /\ ErrorTest(b)' <=> ErrorTest(b)
          /\ SuccSet(fn, b)' = SuccSet(fn, b)
          /\ Exits(fn, b)' <=> Exits(fn, b)
      <4>1. UNCHANGED <<fn, sums, entryClean>>
          BY <1>0, <2>2
      <4> QED BY <4>1, SameView
    <3> QED BY <2>1, <3>1
  <2>6. Settled(b)'
      BY <2>1, <2>4, <2>5 DEF Settled, Passed
  <2>7. /\ UNCHANGED <<phase, verdict, entryClean>> /\ (abstain => abstain')
        /\ \A c \in visited' \ visited : Settled(c)'
    <3>1. ASSUME NEW c \in visited' \ visited PROVE Settled(c)'
      <4>1. c = b
          BY <2>2
      <4> QED BY <4>1, <2>6
    <3>2. UNCHANGED <<phase, verdict, entryClean>> /\ (abstain => abstain')
        BY <2>1, <2>2
    <3> QED BY <3>1, <3>2
  <2> QED BY <1>w, <2>2, <2>4, <2>7
<1>9. CASE HuntAgain
    BY <1>0, <1>9, <1>b DEF HuntAgain, WalkInv
<1>10. CASE Decide
  <2>1. /\ agenda = <<>> /\ phase \in {"hunt", "proof"} /\ ~(phase = "hunt" /\ unknown)
        /\ phase' = "decided" /\ verdict' = IF abstain THEN "CANT-PROVE" ELSE "SATISFIED"
        /\ UNCHANGED <<entryClean, visited, agenda, abstain>>
      BY <1>10 DEF Decide
  <2>2. Pending' = Pending
      BY <2>1 DEF Pending, Rng
  <2>3. fn.acq.block \in Pending /\ \A b \in visited : Settled(b)
      BY <2>1 DEF IInv, WalkInv
  <2>4. \A b \in visited : Settled(b)'
      BY <1>0, <2>1, <2>2, <2>3, SettledGrows
  <2> QED BY <1>0, <2>1, <2>2, <2>3, <2>4 DEF WalkInv
<1> QED BY <1>1, <1>2, <1>3, <1>4, <1>5, <1>6, <1>7, <1>8, <1>9, <1>10 DEF Analyse

-----------------------------------------------------------------------------
(* storeState, one instruction at a time.                                  *)
LEMMA HoldsNothing ==
    ASSUME NEW f, NEW b, NEW a \in BOOLEAN
    PROVE  HoldsAcquire(f, b, 0, a) <=> a
BY DEF HoldsAcquire

(* One more instruction: a store decides, anything else changes nothing.   *)
LEMMA HoldsStep ==
    ASSUME NEW f, NEW b, NEW a \in BOOLEAN, NEW n \in Nat
    PROVE  HoldsAcquire(f, b, n + 1, a) <=>
              IF Body(f, b)[n + 1].op = "store" /\ Body(f, b)[n + 1].val # "self"
              THEN StoresError(f, Body(f, b)[n + 1])
              ELSE HoldsAcquire(f, b, n, a)
<1> DEFINE W(i) == Body(f, b)[i].op = "store" /\ Body(f, b)[i].val # "self"
           A(i) == StoresError(f, Body(f, b)[i])
           H(m) == \/ a /\ \A i \in 1..m : ~W(i)
                   \/ \E i \in 1..m : W(i) /\ A(i) /\ \A j \in (i + 1)..m : ~W(j)
<1>1. (HoldsAcquire(f, b, n, a) <=> H(n)) /\ (HoldsAcquire(f, b, n + 1, a) <=> H(n + 1))
    BY DEF HoldsAcquire
<1> SUFFICES H(n + 1) <=> IF W(n + 1) THEN A(n + 1) ELSE H(n)
    BY <1>1
<1> HIDE DEF W, A
<1>2. CASE W(n + 1)
  <2>1. ASSUME A(n + 1) PROVE H(n + 1)
      BY <1>2, <2>1
  <2>2. ASSUME H(n + 1) PROVE A(n + 1)
    <3>1. PICK i \in 1..(n + 1) : A(i) /\ \A j \in (i + 1)..(n + 1) : ~W(j)
        BY <1>2, <2>2
    <3>2. i = n + 1
        BY <1>2, <3>1
    <3> QED BY <3>1, <3>2
  <2> QED BY <1>2, <2>1, <2>2
<1>3. CASE ~W(n + 1)
  <2>1. ASSUME H(n) PROVE H(n + 1)
    <3>1. CASE a /\ \A i \in 1..n : ~W(i)
      <4>1. \A i \in 1..(n + 1) : i \in 1..n \/ i = n + 1
          OBVIOUS
      <4> QED BY <1>3, <3>1, <4>1
    <3>2. CASE \E i \in 1..n : W(i) /\ A(i) /\ \A j \in (i + 1)..n : ~W(j)
      <4>1. PICK i \in 1..n : W(i) /\ A(i) /\ \A j \in (i + 1)..n : ~W(j)
          BY <3>2
      <4>2. \A j \in (i + 1)..(n + 1) : j \in (i + 1)..n \/ j = n + 1
          OBVIOUS
      <4>3. i \in 1..(n + 1) /\ \A j \in (i + 1)..(n + 1) : ~W(j)
          BY <1>3, <4>1, <4>2
      <4> QED BY <4>1, <4>3
    <3> QED BY <2>1, <3>1, <3>2
  <2>2. ASSUME H(n + 1) PROVE H(n)
    <3>1. CASE a /\ \A i \in 1..(n + 1) : ~W(i)
        BY <3>1
    <3>2. CASE \E i \in 1..(n + 1) : W(i) /\ A(i) /\ \A j \in (i + 1)..(n + 1) : ~W(j)
      <4>1. PICK i \in 1..(n + 1) :
                W(i) /\ A(i) /\ \A j \in (i + 1)..(n + 1) : ~W(j)
          BY <3>2
      <4>2. i \in 1..n
        <5>1. i # n + 1
            BY <1>3, <4>1
        <5> QED BY <5>1
      <4>3. \A j \in (i + 1)..n : ~W(j)
          BY <4>1, <4>2
      <4> QED BY <4>1, <4>2, <4>3
    <3> QED BY <2>2, <3>1, <3>2
  <2> QED BY <1>3, <2>1, <2>2
<1> QED BY <1>2, <1>3

(* Analysis steps keep the program's invariant: it has not started, and   *)
(* the verdict SATISFIED is given in a state where it holds.               *)
LEMMA ProgramAnalyse == IInv /\ Analyse => ProgramInv'
<1> SUFFICES ASSUME IInv, Analyse PROVE ProgramInv'
    OBVIOUS
<1>0. UNCHANGED <<fn, sums, program>> /\ phase # "decided" /\ verdict = "none"
    BY AnalyseFrame DEF IInv, WalkInv
<1>1. /\ pc = [block |-> 1, index |-> 1] /\ ~acquired /\ ~owed /\ ~ended
      /\ pc' = pc /\ ~acquired' /\ ~owed' /\ ~ended'
    BY <1>0 DEF IInv, ProgramInv, program
<1>2. ASSUME verdict' = "SATISFIED" PROVE Decide
    BY <1>0, <1>2 DEF Analyse, Refuse, Begin, SweepBlock, SweepAgain, SweepDone, SkipBlock,
       WalkStopped, WalkExit, WalkPruned, WalkThrough, HuntAgain
<1>3. ASSUME verdict' = "SATISFIED", AnalysesCell(fn)
      PROVE  ~HoldsAcquire(fn, 1, 0, entryClean[1]) /\ entryClean' = entryClean
  <2>1. phase \in {"hunt", "proof"} /\ entryClean' = entryClean
      BY <1>2, <1>3 DEF Decide
  <2>2. entryClean[1] = CleanIn(1) /\ entryClean[1] \in BOOLEAN
      BY <1>3, <2>1, AcquireFacts DEF IInv, SweepInv, Fixed, TypeOK, AnalysisType
  <2>3. ~CleanIn(1)
      BY DEF CleanIn
  <2> QED BY <2>1, <2>2, <2>3, HoldsNothing
<1>4. verdict' = "SATISFIED" => CellTrue'
  <2> SUFFICES ASSUME verdict' = "SATISFIED", AnalysesCell(fn)
               PROVE  ~HoldsAcquire(fn, pc'.block, pc'.index - 1, entryClean'[pc'.block])
      BY <1>0, <1>1 DEF CellTrue, HoldsHere
  <2>1. pc'.block = 1 /\ pc'.index - 1 = 0
      BY <1>1
  <2> QED BY <1>3, <2>1
<1>5. OwedInv'
    BY <1>1 DEF OwedInv, Debt
<1> QED BY <1>1, <1>4, <1>5 DEF ProgramInv

(* A call that covers a path does release when it runs, or is a deferred   *)
(* closure that may skip its release.                                      *)
LEMMA CoversReleases ==
    ASSUME WellFormed(fn), NEW b \in Blocks(fn), NEW i \in DOMAIN Body(fn, b),
           Covers(Body(fn, b)[i])
    PROVE  \/ ReleaseOutcomes(Body(fn, b)[i]) = {TRUE}
           \/ MaySkipRelease(Body(fn, b)[i])
<1> DEFINE in == Body(fn, b)[i]
<1>0. in.op \in CallOps /\ in.holds =>
         in.op = "defer" /\ ~in.frontier /\ in.cands \in {{"ALWAYS"}, {"UNKNOWN"}}
    BY DEF WellFormed
<1> SUFFICES ASSUME Covers(in)
             PROVE  ReleaseOutcomes(in) = {TRUE} \/ MaySkipRelease(in)
    OBVIOUS
<1> HIDE DEF in
<1>1. CASE IsRelease(in)
    BY <1>1 DEF ReleaseOutcomes
<1>2. CASE ~IsRelease(in) /\ in.op = "defer" /\ in.holds
  <2>1. in.cands = {"ALWAYS"} \/ MaySkipRelease(in)
      BY <1>0, <1>2 DEF CallOps, MaySkipRelease
  <2>2. in.cands = {"ALWAYS"} => ReleaseOutcomes(in) = {TRUE}
      BY <1>0, <1>2 DEF CallOps, ReleaseOutcomes
  <2> QED BY <2>1, <2>2
<1>3. CASE ~IsRelease(in) /\ ~(in.op = "defer" /\ in.holds)
  <2>1. /\ in.op # "go" /\ in.web /\ ~in.frontier /\ in.cands = {"ALWAYS"}
      BY <1>3 DEF Covers, NamesRelease, DeferReleases, IsRelease, HandoffReleases
  <2> QED BY <1>3, <2>1 DEF ReleaseOutcomes
<1> QED BY <1>1, <1>2, <1>3

(* A step inside a block, of an instruction that is not the acquire and    *)
(* either does not cover or leaves nothing owed, keeps the scope.          *)
LEMMA ScopeStep ==
    ASSUME TypeOK, OwedInv, AtInstr, Here.op # "acquire", Step,
           UNCHANGED <<fn, sums, analysis, acquired, acqErr, ended>>,
           Debt' => Debt /\ ~Covers(Here)
    PROVE  OwedInv'
<1> SUFFICES ASSUME Debt' PROVE InScope'
    BY DEF OwedInv, analysis
<1>1. Debt /\ ~Covers(Here) /\ InScope
    BY DEF OwedInv
<1>2. /\ pc'.block = pc.block /\ pc'.index = pc.index + 1
      /\ pc.index \in Nat \ {0} /\ fn.acq.index \in Nat
    BY AcquireFacts DEF Step, TypeOK, ProgramType
<1>3. CASE pc.block = fn.acq.block /\ pc.index <= fn.acq.index
  <2>1. pc.index # fn.acq.index
      BY <1>3, AcquireFacts DEF Here, TypeOK
  <2>2. pc'.block = fn.acq.block /\ pc'.index <= fn.acq.index
      BY <1>2, <1>3, <2>1
  <2> QED BY <2>2 DEF InScope
<1>4. CASE /\ pc.block \in visited
           /\ \A i \in From(pc.block)..(pc.index - 1) : ~Covers(Body(fn, pc.block)[i])
  <2>1. From(pc.block) \in Nat
      BY <1>2 DEF From
  <2>2. \A i \in From(pc.block)..pc.index : ~Covers(Body(fn, pc.block)[i])
      BY <1>1, <1>2, <1>4, <2>1 DEF Here
  <2>3. visited' = visited /\ From(pc.block)' = From(pc'.block) /\ pc'.index - 1 = pc.index
      BY <1>2 DEF analysis, From
  <2>4. \A i : Covers(Body(fn, pc.block)[i])' <=> Covers(Body(fn, pc'.block)[i])
      BY DEF Covers
  <2> QED BY <1>2, <1>4, <2>2, <2>3, <2>4 DEF InScope
<1> QED BY <1>1, <1>3, <1>4 DEF InScope

(* At the end of a block with something owed, the walk passed the block.   *)
LEMMA ScopeAtEnd ==
    ASSUME IInv, verdict = "SATISFIED", AtTerm, Debt
    PROVE  /\ pc.block \in visited /\ Passed(pc.block) /\ agenda = <<>> /\ ~abstain
           /\ Pending = visited
<1>1. /\ pc.index = Len(Body(fn, pc.block)) + 1 /\ Len(Body(fn, pc.block)) \in Nat
      /\ pc.block \in Blocks(fn)
    BY BlockFacts DEF AtTerm, IInv, TypeOK, ProgramType
<1>2. InScope /\ Running
    BY DEF IInv, ProgramInv, OwedInv, AtTerm
<1>3. ~(pc.block = fn.acq.block /\ pc.index <= fn.acq.index)
    BY <1>1, AcquireFacts DEF IInv, TypeOK
<1>4. /\ pc.block \in visited
      /\ \A i \in From(pc.block)..(pc.index - 1) : ~Covers(Body(fn, pc.block)[i])
    BY <1>2, <1>3 DEF InScope
<1>5. ~Covered(pc.block)
    BY <1>1, <1>4 DEF Covered, Scanned
<1>6. Settled(pc.block) /\ agenda = <<>> /\ ~abstain
    BY <1>2, <1>4 DEF IInv, WalkInv, Running
<1>7. Pending = visited
    BY <1>6 DEF Pending, Rng
<1> QED BY <1>4, <1>5, <1>6, <1>7 DEF Settled

(* What the analysis says of the cell, one instruction further on.         *)
LEMMA HoldsNext ==
    ASSUME TypeOK, AtInstr, Step, UNCHANGED <<fn, entryClean>>
    PROVE  HoldsHere' <=>
              IF Here.op = "store" /\ Here.val # "self"
              THEN StoresError(fn, Here) ELSE HoldsHere
<1>1. /\ pc'.block = pc.block /\ pc'.index - 1 = pc.index /\ pc.index - 1 \in Nat
      /\ (pc.index - 1) + 1 = pc.index /\ entryClean[pc.block] \in BOOLEAN
    BY DEF Step, TypeOK, AnalysisType, ProgramType
<1>2. HoldsHere' <=> HoldsAcquire(fn, pc.block, pc.index, entryClean[pc.block])
    BY <1>1 DEF HoldsHere
<1>3. HoldsAcquire(fn, pc.block, (pc.index - 1) + 1, entryClean[pc.block]) <=>
         IF /\ Body(fn, pc.block)[(pc.index - 1) + 1].op = "store"
            /\ Body(fn, pc.block)[(pc.index - 1) + 1].val # "self"
         THEN StoresError(fn, Body(fn, pc.block)[(pc.index - 1) + 1])
         ELSE HoldsAcquire(fn, pc.block, pc.index - 1, entryClean[pc.block])
    BY <1>1, HoldsStep
<1> QED BY <1>1, <1>2, <1>3 DEF HoldsHere, Here

(* What the analysis says at the end of a block holds at the next entry.   *)
LEMMA HoldsAcross ==
    ASSUME IInv, verdict = "SATISFIED", AnalysesCell(fn), AtTerm,
           NEW b \in SuccSet(fn, pc.block), GoTo(b), UNCHANGED <<fn, entryClean>>
    PROVE  HoldsHere' => HoldsHere
<1>1. /\ pc.block \in Blocks(fn) /\ b \in Blocks(fn) /\ pc.block \in Preds(fn, b)
      /\ pc.index - 1 = Len(Body(fn, pc.block))
      /\ entryClean \in [Blocks(fn) -> BOOLEAN]
    BY BlockFacts DEF IInv, TypeOK, ProgramType, AnalysisType, AtTerm, Preds
<1>2. pc'.block = b /\ pc'.index - 1 = 0
    BY DEF GoTo
<1>3. HoldsHere' <=> HoldsAcquire(fn, b, 0, entryClean[b])
    BY <1>2 DEF HoldsHere
<1>4. HoldsHere' <=> entryClean[b]
    BY <1>1, <1>3, HoldsNothing
<1>5. entryClean[b] => Transfer(fn, pc.block, entryClean[pc.block])
    BY <1>1 DEF IInv, SweepInv, Fixed, CleanIn
<1> QED BY <1>1, <1>4, <1>5 DEF Transfer, HoldsHere

(* The branch a program with something owed takes is one the walk follows. *)
LEMMA BranchFollowed ==
    ASSUME IInv, verdict = "SATISFIED", AtTerm, Debt, Term(fn, pc.block).op = "if",
           Term(fn, pc.block).tests = "phi" => ~PhiStrays,
           NEW isErr \in Tested(pc.block)
    PROVE  (IF isErr = Term(fn, pc.block).neq THEN Succs(fn, pc.block)[1]
                                              ELSE Succs(fn, pc.block)[2]) \in visited
<1>1. pc.block \in Blocks(fn) /\ WellFormed(fn)
    BY DEF IInv, TypeOK, ProgramType
<1>2. /\ Succs(fn, pc.block)[1] \in SuccSet(fn, pc.block)
      /\ Succs(fn, pc.block)[2] \in SuccSet(fn, pc.block)
      /\ Term(fn, pc.block).neq \in BOOLEAN
      /\ Term(fn, pc.block).tests \in {"acqErr", "phi", "load", "other"}
    BY <1>1, BlockFacts DEF Terminator, Values
<1>3. Passed(pc.block) /\ Pending = visited
    BY ScopeAtEnd
<1>4. CASE ~Isolated(pc.block)
    BY <1>2, <1>3, <1>4 DEF Passed
<1>5. CASE Isolated(pc.block)
  <2>1. SuccessArm(pc.block) \in visited
      BY <1>3, <1>5 DEF Passed
  <2>2. acquired /\ acqErr = FALSE /\ ~strayed
      BY DEF IInv, TypeOK, ProgramType, ProgramInv, OwedInv, Debt
  <2>3. isErr = FALSE
    <3>1. CASE Term(fn, pc.block).tests \in DirectErr(fn)
      <4>1. CASE Term(fn, pc.block).tests = "acqErr"
          BY <2>2, <4>1 DEF Tested
      <4>2. CASE Term(fn, pc.block).tests = "phi"
        <5>1. phi = FALSE
            BY <2>2, <3>1, <4>2 DEF PhiStrays
        <5> QED BY <4>2, <5>1 DEF Tested
      <4> QED BY <3>1, <4>1, <4>2 DEF DirectErr
    <3>2. CASE Term(fn, pc.block).tests = "load" /\ CleanLoad(pc.block)
      <4>1. pc.index - 1 = Len(Body(fn, pc.block))
          BY <1>1, BlockFacts DEF AtTerm, IInv, TypeOK, ProgramType
      <4>2. AnalysesCell(fn) /\ HoldsHere
          BY <3>2, <4>1 DEF CleanLoad, Transfer, HoldsHere
      <4>3. cell = FALSE
          BY <2>2, <4>2 DEF IInv, ProgramInv, CellTrue, HoldsHere
      <4> QED BY <3>2, <4>3 DEF Tested
    <3> QED BY <1>5, <3>1, <3>2 DEF Isolated
  <2> QED BY <1>2, <2>1, <2>3 DEF SuccessArm
<1> QED BY <1>4, <1>5

(* Program steps keep the program's invariant.                             *)
LEMMA ProgramRun == IInv /\ Run => ProgramInv'
<1> SUFFICES ASSUME IInv, Run PROVE ProgramInv'
    OBVIOUS
<1>0. UNCHANGED <<fn, sums, analysis>> /\ phase = "decided" /\ ~ended
    BY DEF Run, RunAcquire, RunCall, RunStore, RunBranch, RunJump, RunExit,
           AtInstr, AtTerm, Running
<1>1. phase' = "decided" /\ verdict' = verdict /\ entryClean' = entryClean
    BY <1>0 DEF analysis
<1> SUFFICES ASSUME verdict = "SATISFIED" PROVE CellTrue' /\ OwedInv'
    BY <1>1 DEF ProgramInv
<1>2. /\ TypeOK /\ WellFormed(fn) /\ CellTrue /\ OwedInv
      /\ pc.block \in Blocks(fn) /\ pc.index \in Nat \ {0}
    BY DEF IInv, ProgramInv, TypeOK, ProgramType
<1>3. (HoldsAtAcq' <=> HoldsAtAcq) /\ (AnalysesCell(fn)' <=> AnalysesCell(fn))
    BY <1>0, <1>1 DEF HoldsAtAcq
<1>4. CASE RunAcquire
  <2>1. /\ AtInstr /\ Here.op = "acquire" /\ Step /\ acquired' = TRUE
        /\ owed' => ~acqErr'
        /\ UNCHANGED <<cell, phi, ended, strayed>>
    <3>1. PICK failed \in BOOLEAN : acqErr' = failed /\ owed' = ~failed
        BY <1>4 DEF RunAcquire
    <3> QED BY <1>4, <3>1 DEF RunAcquire
  <2>2. pc.index \in 1..Len(Body(fn, pc.block))
      BY <1>2, <2>1, BlockFacts DEF AtInstr
  <2>3. pc.block = fn.acq.block /\ pc.index = fn.acq.index
      BY <1>2, <2>1, <2>2 DEF WellFormed, Here
  <2>4. AnalysesCell(fn) /\ ~strayed => ~HoldsHere /\ ~HoldsAtAcq
      BY <1>2, <2>3 DEF CellTrue, HoldsHere, HoldsAtAcq
  <2>5. HoldsHere' <=> HoldsHere
      BY <1>0, <1>1, <1>2, <2>1, HoldsNext
  <2>6. CellTrue'
      BY <1>0, <1>3, <2>1, <2>4, <2>5 DEF CellTrue
  <2>7. fn.acq.block \in visited
    <3>1. agenda = <<>> /\ fn.acq.block \in Pending
        BY DEF IInv, WalkInv
    <3> QED BY <3>1 DEF Pending, Rng
  <2>8. /\ pc'.block = fn.acq.block /\ pc'.index = fn.acq.index + 1
        /\ fn.acq.index \in Nat
      BY <1>2, <2>1, <2>3, AcquireFacts DEF Step, TypeOK, ProgramType
  <2>9. From(pc.block)' = fn.acq.index + 1
      BY <1>0, <2>8 DEF From
  <2>10. InScope'
      BY <1>0, <2>7, <2>8, <2>9 DEF InScope, analysis
  <2> QED BY <1>0, <2>1, <2>6, <2>10 DEF OwedInv, Debt
<1>5. CASE RunCall
  <2>1. /\ AtInstr /\ Here.op \in CallOps /\ Step
        /\ cell' \in IF Here.addr /\ Here.op # "defer" THEN BOOLEAN ELSE {cell}
        /\ credited' = (credited \/ MaySkipRelease(Here))
        /\ UNCHANGED <<acquired, acqErr, phi, ended, strayed>>
      BY <1>5 DEF RunCall
  <2>2. pc.index \in 1..Len(Body(fn, pc.block))
      BY <1>2, <2>1, BlockFacts DEF AtInstr
  <2>3. Here.op # "acquire" /\ Here.op # "store"
      BY <2>1 DEF CallOps
  <2>4. AnalysesCell(fn) => cell' = cell
    <3> SUFFICES ASSUME Here.addr, Here.op # "defer" PROVE CellEscapes(fn)
        BY <2>1 DEF AnalysesCell
    <3>1. Here.op \in {"call", "go"}
        BY <2>1 DEF CallOps
    <3>2. pc.index \in DOMAIN Body(fn, pc.block)
        BY <1>2, <2>2, BlockFacts
    <3> QED BY <1>2, <3>1, <3>2 DEF CellEscapes, Here
  <2>5. HoldsHere' <=> HoldsHere
      BY <1>0, <1>1, <1>2, <2>1, <2>3, HoldsNext
  <2>6. CellTrue'
      BY <1>2, <1>3, <2>1, <2>4, <2>5 DEF CellTrue
  <2>7. Debt' => Debt /\ ~Covers(Here)
    <3>1. PICK released \in ReleaseOutcomes(Here) : owed' = (owed /\ ~released)
        BY <1>5 DEF RunCall
    <3>2. Debt' => Debt /\ ~MaySkipRelease(Here)
        BY <2>1, <3>1 DEF Debt
    <3>3. ReleaseOutcomes(Here) = {TRUE} => ~Debt'
      <4> SUFFICES ASSUME ReleaseOutcomes(Here) = {TRUE} PROVE ~owed'
          BY DEF Debt
      <4>1. released = TRUE
          OBVIOUS
      <4>2. owed' = (owed /\ ~released)
          BY <3>1
      <4> QED BY <4>1, <4>2
    <3>4. CASE Covers(Here)
      <4>1. pc.index \in DOMAIN Body(fn, pc.block)
          BY <1>2, <2>2, BlockFacts
      <4>2. ReleaseOutcomes(Here) = {TRUE} \/ MaySkipRelease(Here)
          BY <1>2, <3>4, <4>1, CoversReleases DEF Here
      <4> QED BY <3>2, <3>3, <4>2
    <3> QED BY <3>2, <3>4
  <2>8. OwedInv'
      BY <1>0, <1>2, <2>1, <2>3, <2>7, ScopeStep
  <2> QED BY <2>6, <2>8
<1>6. CASE RunStore
  <2>1. /\ AtInstr /\ Here.op = "store" /\ Step
        /\ Here.val = "acqErr" => acquired
        /\ strayed' = (strayed \/ (Here.val = "phi" /\ PhiStrays))
        /\ UNCHANGED <<acquired, acqErr, phi, owed, owedEver, ended, credited>>
      BY <1>6 DEF RunStore
  <2>2. /\ Here.val = "acqErr" => cell' = acqErr
        /\ Here.val = "self" => cell' = cell
        /\ Here.val = "phi" => cell' = phi
      BY <1>6 DEF RunStore
  <2>3. HoldsHere' <=> IF Here.val # "self" THEN StoresError(fn, Here) ELSE HoldsHere
      BY <1>0, <1>1, <1>2, <2>1, HoldsNext
  <2>4. HoldsHere' /\ AnalysesCell(fn) /\ ~strayed' => acquired /\ cell' = acqErr
    <3>1. CASE Here.val \in {"acqErr", "self"}
        BY <1>2, <2>1, <2>2, <2>3, <3>1 DEF CellTrue
    <3>2. CASE Here.val = "phi" /\ PhiCarriesError(fn) /\ AnalysesCell(fn)
        BY <2>1, <2>2, <3>2 DEF PhiStrays, DirectErr, AnalysesCell
    <3> QED BY <2>3, <3>1, <3>2 DEF StoresError
  <2>5. CellTrue'
      BY <1>2, <1>3, <2>1, <2>4 DEF CellTrue
  <2>6. ~Covers(Here) /\ Here.op # "acquire"
      BY <2>1 DEF Covers, NamesRelease, IsRelease, DeferReleases, HandoffReleases
  <2>7. Debt' => Debt
      BY <2>1 DEF Debt
  <2>8. OwedInv'
      BY <1>0, <1>2, <2>1, <2>6, <2>7, ScopeStep
  <2> QED BY <2>5, <2>8
<1>7. ASSUME AtTerm, NEW b \in SuccSet(fn, pc.block), GoTo(b), Debt' => b \in visited,
             strayed => strayed',
             UNCHANGED <<acquired, acqErr, cell, owed, owedEver, ended, credited>>
      PROVE  CellTrue' /\ OwedInv'
  <2>1. AnalysesCell(fn) => (HoldsHere' => HoldsHere)
      BY <1>0, <1>1, <1>7, HoldsAcross
  <2>2. CellTrue'
      BY <1>2, <1>3, <1>7, <2>1 DEF CellTrue
  <2>3. pc'.block = b /\ pc'.index = 1 /\ visited' = visited
      BY <1>0, <1>7 DEF GoTo, analysis
  <2>4. From(pc.block)' \in Nat \ {0}
      BY <1>0, <1>2, AcquireFacts DEF From
  <2>5. Debt' => Debt /\ InScope'
      BY <1>7, <2>3, <2>4 DEF InScope, Debt
  <2> QED BY <1>2, <1>7, <2>2, <2>5 DEF OwedInv
<1>8. CASE RunBranch
  <2>1. PICK isErr \in Tested(pc.block) :
              GoTo(IF isErr = Term(fn, pc.block).neq THEN Succs(fn, pc.block)[1]
                                                     ELSE Succs(fn, pc.block)[2])
      BY <1>8 DEF RunBranch
  <2>2. /\ AtTerm /\ Term(fn, pc.block).op = "if"
        /\ strayed' = (strayed \/ (Term(fn, pc.block).tests = "phi" /\ PhiStrays))
        /\ UNCHANGED <<acquired, acqErr, cell, owed, owedEver, ended, credited>>
      BY <1>8 DEF RunBranch
  <2> DEFINE b == IF isErr = Term(fn, pc.block).neq THEN Succs(fn, pc.block)[1]
                                                    ELSE Succs(fn, pc.block)[2]
  <2>3. b \in SuccSet(fn, pc.block)
      BY <1>2, <2>2, BlockFacts
  <2>4. Debt' => b \in visited
    <3>1. Debt' => Debt /\ (Term(fn, pc.block).tests = "phi" => ~PhiStrays)
        BY <2>2 DEF Debt
    <3> QED BY <2>2, <3>1, BranchFollowed
  <2>5. GoTo(b)
      BY <2>1
  <2> HIDE DEF b
  <2> QED BY <1>7, <2>2, <2>3, <2>4, <2>5
<1>9. CASE RunJump
  <2> DEFINE b == Succs(fn, pc.block)[1]
  <2>1. /\ AtTerm /\ Term(fn, pc.block).op = "jump" /\ GoTo(b)
        /\ UNCHANGED <<acquired, acqErr, cell, owed, owedEver, ended, credited, strayed>>
      BY <1>9 DEF RunJump
  <2>2. b \in SuccSet(fn, pc.block)
      BY <1>2, <2>1, BlockFacts
  <2>3. ~Isolated(pc.block)
      BY <2>1 DEF Isolated, ErrorTest
  <2>4. Debt' => b \in visited
    <3>1. Debt' => Debt
        BY <2>1 DEF Debt
    <3> QED BY <2>1, <2>2, <2>3, <3>1, ScopeAtEnd DEF Passed
  <2> HIDE DEF b
  <2> QED BY <1>7, <2>1, <2>2, <2>4
<1>10. CASE RunExit
  <2>1. /\ AtTerm /\ Exits(fn, pc.block)
        /\ UNCHANGED <<pc, acquired, acqErr, cell, phi, owed, owedEver, credited, strayed>>
      BY <1>10 DEF RunExit
  <2>2. ~Debt /\ (Debt' => Debt)
      BY <2>1, ScopeAtEnd DEF Passed, Debt
  <2>3. HoldsHere' <=> HoldsHere
      BY <1>0, <1>1, <2>1 DEF HoldsHere
  <2>4. CellTrue'
      BY <1>2, <1>3, <2>1, <2>3 DEF CellTrue
  <2> QED BY <2>1, <2>2, <2>4 DEF OwedInv
<1> QED BY <1>4, <1>5, <1>6, <1>8, <1>9, <1>10 DEF Run

(* A step of the program leaves what the analysis left behind as it is.    *)
LEMMA AnalysisKept ==
    ASSUME UNCHANGED <<fn, sums, analysis>>, TypeOK', SweepInv, WalkInv
    PROVE  SweepInv' /\ WalkInv'
<1>1. UNCHANGED <<fn, sums, phase, entryClean, cursor, changed, visited, agenda,
                  unknown, abstain, verdict>>
    BY DEF analysis
<1>2. (Fixed' <=> Fixed) /\ (\A b : CleanIn(b)' = CleanIn(b))
    BY <1>1 DEF Fixed, CleanIn
<1>3. Pending' = Pending
    BY <1>1 DEF Pending, Rng
<1>4. \A b : Settled(b) => Settled(b)'
  <2> SUFFICES ASSUME NEW b, Settled(b) PROVE Settled(b)'
      OBVIOUS
  <2> QED BY <1>1, <1>3, SettledGrows
<1>5. SweepInv'
    BY <1>1, <1>2 DEF SweepInv
<1>6. WalkInv'
    BY <1>1, <1>3, <1>4 DEF WalkInv
<1> QED BY <1>5, <1>6

(* The invariant holds initially and is kept by every step.                *)
LEMMA Inductive ==
    /\ Init => IInv
    /\ IInv /\ [Next]_vars => IInv'
<1>1. Init => IInv
  <2> SUFFICES ASSUME Init PROVE IInv
      OBVIOUS
  <2>1. TypeOK
      BY InitTypes
  <2> QED BY <2>1 DEF Init, IInv, SweepInv, WalkInv, ProgramInv
<1>2. ASSUME IInv, [Next]_vars PROVE IInv'
  <2>1. TypeOK'
      BY <1>2, TypeStep DEF IInv
  <2>2. CASE Analyse
    <3> QED BY <1>2, <2>1, <2>2, SweepAnalyse, WalkAnalyse, ProgramAnalyse DEF IInv
  <2>3. CASE Run
    <3>1. UNCHANGED <<fn, sums, analysis>>
        BY <2>3 DEF Run
    <3>2. SweepInv' /\ WalkInv'
        BY <1>2, <2>1, <3>1, AnalysisKept DEF IInv
    <3> QED BY <1>2, <2>1, <2>3, <3>2, ProgramRun DEF IInv
  <2>4. CASE UNCHANGED vars
    <3>1. UNCHANGED <<fn, sums, analysis>> /\ UNCHANGED program
        BY <2>4 DEF vars
    <3>2. SweepInv' /\ WalkInv'
        BY <1>2, <2>1, <3>1, AnalysisKept DEF IInv
    <3>3. ProgramInv'
        BY <1>2, <3>1 DEF IInv, ProgramInv, CellTrue, HoldsHere, HoldsAtAcq, OwedInv,
                          Debt, InScope, From, Covers, analysis, program
    <3> QED BY <2>1, <3>2, <3>3 DEF IInv
  <2> QED BY <1>2, <2>2, <2>3, <2>4 DEF Next
<1> QED BY <1>1, <1>2

(* What a SATISFIED verdict proves: whatever functions are analysed, on    *)
(* every path of each, loops and reassigned errors included, the resource  *)
(* of the latest acquire has been released when the function exits, unless *)
(* the execution went through one of the two credits given without proof:  *)
(* a deferred closure that may skip its release, or a phi taken for the    *)
(* acquire error that held another error when it was used.                 *)
THEOREM SatisfiedIsSound == Spec => []SatisfiedReleases
<1>1. IInv => SatisfiedReleases
    BY DEF IInv, ProgramInv, OwedInv, Debt, SatisfiedReleases
<1>2. Init => IInv
    BY Inductive
<1>3. IInv /\ [Next]_vars => IInv'
    BY Inductive
<1> QED BY <1>1, <1>2, <1>3, PTL DEF Spec

(* Pruning on a clean load is justified: it reads the acquire's own error, *)
(* in every function and execution in which no phi with another error was  *)
(* taken for the acquire error.                                            *)
THEOREM CleanLoadsAreClean == Spec => []CleanLoadReadsAcquire
<1>1. IInv => CleanLoadReadsAcquire
  <2> SUFFICES ASSUME IInv, AtTerm, verdict = "SATISFIED", CleanLoad(pc.block), ~strayed
               PROVE  acquired /\ cell = acqErr
      BY DEF CleanLoadReadsAcquire
  <2>1. pc.index - 1 = Len(Body(fn, pc.block))
      BY BlockFacts DEF AtTerm, IInv, TypeOK, ProgramType
  <2>2. AnalysesCell(fn) /\ HoldsHere
      BY <2>1 DEF CleanLoad, Transfer, HoldsHere
  <2> QED BY <2>2 DEF IInv, ProgramInv, CellTrue
<1>2. Init => IInv
    BY Inductive
<1>3. IInv /\ [Next]_vars => IInv'
    BY Inductive
<1> QED BY <1>1, <1>2, <1>3, PTL DEF Spec

-----------------------------------------------------------------------------
(* The verdict is a property of the paths.                                 *)

(* The blocks at which the present walk ends a path, and what it can reach *)
Stops     == IF phase = "hunt" THEN MaybeStops ELSE CoverStops
WalkReach == Reached(Stops)

(* A visited block that ends no path has been followed: every arm the walk *)
(* takes was visited or is on the agenda, and an ambiguous test was noted. *)
Followed(c) ==
    /\ ~Exits(fn, c)
    /\ Arms(c) \subseteq Pending
    /\ ErrorTest(c) /\ ~Isolated(c) => abstain

(* What is pending is reached and what is visited was followed, so that an *)
(* empty agenda makes the visited blocks the reached ones.  The hunt knows *)
(* of every maybe-release it met; the proof hunt runs only after a hunt    *)
(* that found no leak.                                                     *)
PathInv ==
    /\ phase \in {"start", "clean"} => visited = {} /\ ~unknown /\ ~abstain
    /\ phase = "clean" => agenda = <<fn.acq.block>>
    /\ phase \in {"hunt", "proof"} =>
          /\ fn.acq.block \in Pending
          /\ Pending \subseteq WalkReach
          /\ \A c \in visited : c \in Stops \/ Followed(c)
          /\ abstain => Unclear(CoverStops) # {}
    /\ phase = "hunt" => \A c \in visited : MeetsMaybe(c) => unknown
    /\ phase = "proof" => Leaks(MaybeStops) = {}

(* The arms the walk follows lead to blocks.                               *)
LEMMA ArmsAreBlocks ==
    ASSUME WellFormed(fn), NEW b \in Blocks(fn)
    PROVE  Arms(b) \subseteq Blocks(fn)
<1>1. SuccSet(fn, b) \subseteq Blocks(fn)
    BY BlockFacts
<1>2. Isolated(b) => SuccessArm(b) \in Blocks(fn)
    BY BlockFacts DEF Isolated, ErrorTest, SuccessArm
<1> QED BY <1>1, <1>2 DEF Arms

(* What is reached holds the acquire, follows every arm past a block that  *)
(* ends no path, and is the least such set.                                *)
LEMMA ReachedLeast ==
    ASSUME WellFormed(fn), NEW stops
    PROVE  /\ Reached(stops) \subseteq Blocks(fn)
           /\ fn.acq.block \in Reached(stops)
           /\ \A c \in Reached(stops) \ stops : Arms(c) \subseteq Reached(stops)
           /\ \A S \in SUBSET Blocks(fn) :
                 fn.acq.block \in S /\ (\A c \in S \ stops : Arms(c) \subseteq S)
                    => Reached(stops) \subseteq S
<1>1. Reached(stops) \subseteq Blocks(fn) /\ fn.acq.block \in Reached(stops)
    BY AcquireFacts DEF Reached
<1>2. ASSUME NEW c \in Reached(stops) \ stops, NEW d \in Arms(c)
      PROVE  d \in Reached(stops)
  <2>1. c \in Blocks(fn) /\ d \in Blocks(fn)
      BY <1>1, <1>2, ArmsAreBlocks
  <2>2. ASSUME NEW S \in SUBSET Blocks(fn), fn.acq.block \in S,
               \A e \in S \ stops : Arms(e) \subseteq S
        PROVE  d \in S
    <3>1. c \in S
        BY <1>2, <2>2 DEF Reached
    <3> QED BY <1>2, <2>2, <3>1
  <2> QED BY <2>1, <2>2 DEF Reached
<1>3. ASSUME NEW S \in SUBSET Blocks(fn), fn.acq.block \in S,
             \A c \in S \ stops : Arms(c) \subseteq S
      PROVE  Reached(stops) \subseteq S
    BY <1>3 DEF Reached
<1> QED BY <1>1, <1>2, <1>3

(* The more blocks end a path, the less is reached, leaks and is unclear.  *)
LEMMA StopsAntitone ==
    ASSUME NEW s, NEW t, s \subseteq t
    PROVE  /\ Reached(t) \subseteq Reached(s)
           /\ Leaks(t) \subseteq Leaks(s)
           /\ Unclear(t) \subseteq Unclear(s)
<1>1. ASSUME NEW b \in Reached(t), NEW S \in SUBSET Blocks(fn), fn.acq.block \in S,
             \A c \in S \ s : Arms(c) \subseteq S
      PROVE  b \in S
  <2>1. \A c \in S \ t : Arms(c) \subseteq S
      BY <1>1
  <2> QED BY <1>1, <2>1 DEF Reached
<1>2. Reached(t) \subseteq Reached(s)
  <2>1. \A b \in Reached(t) : b \in Blocks(fn)
      BY DEF Reached
  <2> QED BY <1>1, <2>1 DEF Reached
<1> QED BY <1>2 DEF Leaks, Unclear

(* A named release is a release, and a release ends the hunt's path too.   *)
LEMMA StopsNest == NamedStops \subseteq CoverStops /\ CoverStops \subseteq MaybeStops
BY DEF NamedStops, CoverStops, MaybeStops, Covered, Covers

(* Steps that leave the function and its clean loads leave its paths.      *)
LEMMA SamePaths ==
    ASSUME UNCHANGED <<fn, sums, entryClean>>
    PROVE  /\ MaybeStops' = MaybeStops /\ CoverStops' = CoverStops
           /\ \A b : Arms(b)' = Arms(b)
           /\ \A b : MeetsMaybe(b)' <=> MeetsMaybe(b)
           /\ Reached(MaybeStops)' = Reached(MaybeStops)
           /\ Reached(CoverStops)' = Reached(CoverStops)
           /\ Leaks(MaybeStops)' = Leaks(MaybeStops)
           /\ Unclear(CoverStops)' = Unclear(CoverStops)
<1>1. ASSUME NEW b
      PROVE  /\ Covered(b)' <=> Covered(b)
             /\ MeetsMaybe(b)' <=> MeetsMaybe(b)
             /\ Arms(b)' = Arms(b)
             /\ Isolated(b)' <=> Isolated(b)
             /\ ErrorTest(b)' <=> ErrorTest(b)
             /\ Exits(fn, b)' <=> Exits(fn, b)
  <2>1. MeetsMaybe(b)' <=> MeetsMaybe(b)
      BY DEF MeetsMaybe, Scanned, From, Covers, Maybe
  <2>2. /\ Covered(b)' <=> Covered(b)
        /\ Isolated(b)' <=> Isolated(b)
        /\ ErrorTest(b)' <=> ErrorTest(b)
        /\ SuccessArm(b)' = SuccessArm(b)
        /\ Exits(fn, b)' <=> Exits(fn, b)
        /\ SuccSet(fn, b)' = SuccSet(fn, b)
      BY SameView
  <2> QED BY <2>1, <2>2 DEF Arms
<1>2. MaybeStops' = MaybeStops /\ CoverStops' = CoverStops
    BY <1>1 DEF MaybeStops, CoverStops
<1>3. /\ Reached(MaybeStops)' = Reached(MaybeStops)
      /\ Reached(CoverStops)' = Reached(CoverStops)
    BY <1>1, <1>2 DEF Reached
<1>4. /\ Leaks(MaybeStops)' = Leaks(MaybeStops)
      /\ Unclear(CoverStops)' = Unclear(CoverStops)
    BY <1>1, <1>2, <1>3 DEF Leaks, Unclear
<1> QED BY <1>1, <1>2, <1>3, <1>4

(* A block that was followed stays followed while more is pending.         *)
LEMMA FollowedGrows ==
    ASSUME UNCHANGED <<fn, sums, entryClean>>, abstain => abstain',
           Pending \subseteq Pending', NEW c, Followed(c)
    PROVE  Followed(c)'
<1>1. /\ Isolated(c)' <=> Isolated(c)
      /\ ErrorTest(c)' <=> ErrorTest(c)
      /\ Exits(fn, c)' <=> Exits(fn, c)
    BY SameView
<1>2. Arms(c)' = Arms(c)
    BY SamePaths
<1> QED BY <1>1, <1>2 DEF Followed

(* A visit of a block keeps the invariant, when all it leaves pending is   *)
(* reached and the block ends the path or is followed.                     *)
LEMMA VisitKeepsPaths ==
    ASSUME TypeOK, PathInv, phase \in {"hunt", "proof"},
           UNCHANGED <<fn, sums, phase, entryClean>>, abstain => abstain', unknown => unknown',
           Pending \subseteq Pending', Pending' \subseteq WalkReach,
           \A c \in visited' \ visited :
              /\ c \in Stops \/ Followed(c)'
              /\ MeetsMaybe(c) => unknown',
           abstain' => Unclear(CoverStops) # {}
    PROVE  PathInv'
<1>1. phase \in {"hunt", "proof"}
    OBVIOUS
<1>2. /\ MaybeStops' = MaybeStops /\ CoverStops' = CoverStops
      /\ \A b : MeetsMaybe(b)' <=> MeetsMaybe(b)
      /\ Reached(MaybeStops)' = Reached(MaybeStops)
      /\ Reached(CoverStops)' = Reached(CoverStops)
      /\ Leaks(MaybeStops)' = Leaks(MaybeStops)
      /\ Unclear(CoverStops)' = Unclear(CoverStops)
    BY SamePaths
<1>3. Stops' = Stops
    BY <1>2 DEF Stops
<1>4. WalkReach' = WalkReach
  <2>1. CASE phase = "hunt"
    <3>1. WalkReach = Reached(MaybeStops)
        BY <2>1 DEF WalkReach, Stops
    <3>2. WalkReach' = Reached(MaybeStops)'
        BY <2>1 DEF WalkReach, Stops, Reached
    <3> QED BY <1>2, <3>1, <3>2
  <2>2. CASE phase # "hunt"
    <3>1. WalkReach = Reached(CoverStops)
        BY <2>2 DEF WalkReach, Stops
    <3>2. WalkReach' = Reached(CoverStops)'
        BY <2>2 DEF WalkReach, Stops, Reached
    <3> QED BY <1>2, <3>1, <3>2
  <2> QED BY <2>1, <2>2
<1>5. ASSUME NEW c \in visited'
      PROVE  /\ (c \in Stops \/ Followed(c))'
             /\ phase = "hunt" /\ MeetsMaybe(c) => unknown'
  <2>1. CASE c \in visited
    <3>1. c \in Stops \/ Followed(c)
        BY <1>1, <2>1 DEF PathInv
    <3>2. Followed(c) => Followed(c)'
        BY FollowedGrows
    <3>3. phase = "hunt" /\ MeetsMaybe(c) => unknown
        BY <2>1 DEF PathInv
    <3> QED BY <1>3, <3>1, <3>2, <3>3
  <2> QED BY <1>3, <1>5, <2>1
<1>6. fn.acq.block \in Pending'
    BY <1>1 DEF PathInv
<1>7. phase = "proof" => Leaks(MaybeStops)' = {}
    BY <1>2 DEF PathInv
<1>8. abstain' => Unclear(CoverStops)' # {}
    BY <1>2
<1> QED BY <1>1, <1>2, <1>4, <1>5, <1>6, <1>7, <1>8 DEF PathInv

(* The walk begins at the acquire, which every path does.                  *)
Beginning ==
    /\ TypeOK
    /\ visited = {} /\ agenda = <<fn.acq.block>>
    /\ phase \in {"hunt", "proof"}
    /\ abstain => Unclear(CoverStops) # {}
    /\ phase = "proof" => Leaks(MaybeStops) = {}

(* A walk that has not left the acquire's block satisfies the invariant.   *)
LEMMA WalkBegins == Beginning => PathInv
<1> SUFFICES ASSUME Beginning PROVE PathInv
    OBVIOUS
<1>1. Pending = {fn.acq.block}
    BY DEF Beginning, Pending, Rng
<1>2. fn.acq.block \in WalkReach
    BY ReachedLeast DEF WalkReach, Beginning, TypeOK
<1> QED BY <1>1, <1>2 DEF PathInv, Beginning

(* The same of the state a step leads to.                                  *)
LEMMA WalkBeginsNext == Beginning' => PathInv'
BY WalkBegins, PTL

(* When the agenda is empty, the visited blocks are the reached ones.      *)
LEMMA WalkComplete ==
    ASSUME TypeOK, PathInv, phase \in {"hunt", "proof"}, agenda = <<>>
    PROVE  /\ visited = WalkReach
           /\ Leaks(Stops) = {}
           /\ Unclear(Stops) # {} => abstain
<1>1. Pending = visited /\ visited \subseteq Blocks(fn) /\ WellFormed(fn)
    BY DEF Pending, Rng, TypeOK, AnalysisType
<1>2. fn.acq.block \in visited /\ \A c \in visited \ Stops : Followed(c)
    BY <1>1 DEF PathInv
<1>3. \A c \in visited \ Stops : Arms(c) \subseteq visited
    BY <1>1, <1>2 DEF Followed
<1>4. WalkReach \subseteq visited
  <2> HIDE DEF Stops
  <2> QED BY <1>1, <1>2, <1>3, ReachedLeast DEF WalkReach
<1>5. visited = WalkReach
    BY <1>1, <1>4 DEF PathInv
<1> QED BY <1>2, <1>5 DEF Leaks, Unclear, Followed, WalkReach

(* Steps before the walks, and the step to the proof hunt, keep it.        *)
LEMMA PathsBegin ==
    ASSUME TypeOK, TypeOK', PathInv, Analyse,
           Refuse \/ Begin \/ SweepBlock \/ SweepAgain \/ SweepDone \/ HuntAgain
    PROVE  PathInv'
<1>0. UNCHANGED <<fn, sums>>
    BY AnalyseFrame
<1>1. CASE Refuse
    BY <1>1 DEF Refuse, PathInv
<1>2. CASE Begin
  <2>1. /\ visited' = {} /\ ~unknown' /\ ~abstain' /\ agenda' = <<fn.acq.block>>
        /\ phase' \in {"clean", "hunt"}
      BY <1>2 DEF Begin, PathInv
  <2>2. CASE phase' = "clean"
      BY <1>0, <2>1, <2>2 DEF PathInv
  <2>3. CASE phase' = "hunt"
    <3>1. Beginning'
        BY <1>0, <2>1, <2>3 DEF Beginning
    <3> QED BY <3>1, WalkBeginsNext
  <2> QED BY <2>1, <2>2, <2>3
<1>3. CASE SweepBlock \/ SweepAgain
    BY <1>0, <1>3 DEF SweepBlock, SweepAgain, PathInv
<1>4. CASE SweepDone
  <2>1. /\ visited' = {} /\ ~abstain' /\ agenda' = <<fn.acq.block>> /\ phase' = "hunt"
      BY <1>4 DEF SweepDone, PathInv
  <2>2. Beginning'
      BY <1>0, <2>1 DEF Beginning
  <2> QED BY <2>2, WalkBeginsNext
<1>5. CASE HuntAgain
  <2>1. /\ phase = "hunt" /\ agenda = <<>> /\ phase' = "proof" /\ visited' = {}
        /\ agenda' = <<fn.acq.block>> /\ UNCHANGED <<entryClean, abstain>>
      BY <1>5 DEF HuntAgain
  <2>2. Leaks(MaybeStops) = {}
      BY <2>1, WalkComplete DEF Stops
  <2>3. abstain => Unclear(CoverStops) # {}
      BY <2>1 DEF PathInv
  <2>4. /\ Leaks(MaybeStops)' = Leaks(MaybeStops)
        /\ Unclear(CoverStops)' = Unclear(CoverStops)
      BY <1>0, <2>1, SamePaths
  <2>5. Beginning'
      BY <1>0, <2>1, <2>2, <2>3, <2>4 DEF Beginning
  <2> QED BY <2>5, WalkBeginsNext
<1> QED BY <1>1, <1>2, <1>3, <1>4, <1>5

(* What the walk tells apart of a block, in either hunt.                   *)
LEMMA StoppedIsStop ==
    ASSUME phase \in {"hunt", "proof"}, NEW b \in Blocks(fn)
    PROVE  Stopped(b) <=> b \in Stops
BY DEF Stopped, Stops, MaybeStops, CoverStops

(* The block the walk takes from the agenda, and what is left pending when *)
(* others are pushed in its place.                                         *)
LEMMA VisitFacts ==
    ASSUME TypeOK, PathInv, Analyse, NEW b \in Blocks(fn), Enter(b),
           NEW pushed \in Seq(Blocks(fn)), agenda' = pushed \o Tail(agenda),
           b \in Stops \/ Rng(pushed) \subseteq Arms(b)
    PROVE  /\ b \in WalkReach
           /\ Pending' = Pending \cup Rng(pushed)
           /\ b \notin Stops => Pending' \subseteq WalkReach
           /\ visited' = visited \cup {b}
           /\ MeetsMaybe(b) => unknown'
           /\ unknown => unknown'
           /\ Walking /\ UNCHANGED <<fn, sums, entryClean>>
<1>1. /\ Walking /\ b = Head(agenda) /\ visited' = visited \cup {b}
      /\ unknown' = (unknown \/ MeetsMaybe(b)) /\ UNCHANGED <<fn, sums, entryClean>>
    BY AnalyseFrame DEF Enter
<1>2. Pending' = Pending \cup Rng(pushed)
    BY <1>1, PendingGrows
<1>3. agenda \in Seq(Blocks(fn)) /\ agenda # <<>> /\ phase \in {"hunt", "proof"}
    BY <1>1 DEF Walking, TypeOK, AnalysisType
<1>4. Rng(agenda) = {b} \cup Rng(Tail(agenda))
    BY <1>1, <1>3, AgendaHead
<1>5. b \in WalkReach /\ Pending \subseteq WalkReach
    BY <1>3, <1>4 DEF PathInv, Pending
<1>6. \A c \in WalkReach \ Stops : Arms(c) \subseteq WalkReach
  <2> HIDE DEF Stops
  <2> QED BY ReachedLeast DEF WalkReach, TypeOK
<1>7. b \notin Stops => Pending' \subseteq WalkReach
    BY <1>2, <1>5, <1>6
<1> QED BY <1>1, <1>2, <1>5, <1>7

(* A step of the walk keeps the invariant.                                 *)
LEMMA PathsWalk ==
    ASSUME TypeOK, PathInv, Analyse,
           SkipBlock \/ WalkStopped \/ WalkExit \/ WalkPruned \/ WalkThrough \/ Decide
    PROVE  PathInv'
<1>0. UNCHANGED <<fn, sums>> /\ WellFormed(fn)
    BY AnalyseFrame DEF TypeOK
<1>n. <<>> \in Seq(Blocks(fn)) /\ Rng(<<>>) = {}
    BY DEF Rng
<1>t. Walking => Tail(agenda) \in Seq(Blocks(fn)) /\ phase \in {"hunt", "proof"}
    BY AgendaHead DEF Walking, TypeOK, AnalysisType
<1>1. CASE SkipBlock
  <2>1. agenda \in Seq(Blocks(fn)) /\ agenda # <<>> /\ agenda' = Tail(agenda)
        /\ Head(agenda) \in visited /\ Walking
        /\ UNCHANGED <<phase, entryClean, abstain, unknown, visited>>
      BY <1>1 DEF SkipBlock, Walking, TypeOK, AnalysisType
  <2>2. Pending' = Pending
    <3>1. Rng(agenda) = {Head(agenda)} \cup Rng(agenda')
        BY <2>1, AgendaHead
    <3> QED BY <2>1, <3>1 DEF Pending, Rng
  <2>3. Pending \subseteq WalkReach /\ (abstain => Unclear(CoverStops) # {})
      BY <1>t, <2>1 DEF PathInv
  <2>4. UNCHANGED <<fn, sums, phase, entryClean>> /\ visited' \ visited = {}
      BY <1>0, <2>1
  <2> QED BY <1>t, <2>1, <2>2, <2>3, <2>4, VisitKeepsPaths
<1>2. CASE WalkStopped
  <2>1. PICK b \in Blocks(fn) : Enter(b) /\ Stopped(b) /\ agenda' = Tail(agenda)
                                /\ UNCHANGED <<phase, abstain, verdict, exit>>
      BY <1>2 DEF WalkStopped
  <2>2. Walking /\ agenda' = <<>> \o Tail(agenda) /\ phase \in {"hunt", "proof"}
      BY <1>t, <2>1 DEF Enter
  <2>3. b \in Stops
      BY <2>1, <2>2, StoppedIsStop
  <2>4. /\ b \in WalkReach /\ Pending' = Pending \cup Rng(<<>>)
        /\ visited' = visited \cup {b} /\ (MeetsMaybe(b) => unknown') /\ (unknown => unknown')
        /\ UNCHANGED <<fn, sums, entryClean>>
      BY <1>n, <2>1, <2>2, <2>3, VisitFacts
  <2>5. /\ Pending' = Pending /\ Pending \subseteq WalkReach
        /\ abstain => Unclear(CoverStops) # {}
      BY <1>n, <2>2, <2>4 DEF PathInv
  <2>6. \A c \in visited' \ visited : c = b
      BY <2>4
  <2> QED BY <2>1, <2>2, <2>3, <2>4, <2>5, <2>6, VisitKeepsPaths
<1>3. CASE WalkPruned
  <2>1. PICK b \in Blocks(fn) : /\ Enter(b) /\ ~Stopped(b) /\ Isolated(b)
                                /\ agenda' = <<SuccessArm(b)>> \o Tail(agenda)
                                /\ UNCHANGED <<phase, abstain, verdict, exit>>
      BY <1>3 DEF WalkPruned
  <2>2. Walking /\ phase \in {"hunt", "proof"}
      BY <1>t, <2>1 DEF Enter
  <2>3. b \notin Stops
      BY <2>1, <2>2, StoppedIsStop
  <2>4. /\ Arms(b) = {SuccessArm(b)} /\ Rng(<<SuccessArm(b)>>) = {SuccessArm(b)}
        /\ <<SuccessArm(b)>> \in Seq(Blocks(fn))
      BY <1>0, <2>1, ArmsAreBlocks DEF Arms, Rng
  <2>5. /\ b \in WalkReach /\ Pending' = Pending \cup Arms(b) /\ Pending' \subseteq WalkReach
        /\ visited' = visited \cup {b} /\ (MeetsMaybe(b) => unknown') /\ (unknown => unknown')
        /\ UNCHANGED <<fn, sums, entryClean>>
      BY <2>1, <2>3, <2>4, VisitFacts
  <2>6. Followed(b)'
    <3>1. Arms(b)' = Arms(b)
        BY <2>5, SamePaths
    <3>2. (Isolated(b)' <=> Isolated(b)) /\ (Exits(fn, b)' <=> Exits(fn, b))
        BY <2>5, SameView
    <3>3. ~Exits(fn, b)
        BY <2>1 DEF Isolated, ErrorTest, Exits
    <3> QED BY <2>1, <2>5, <3>1, <3>2, <3>3 DEF Followed
  <2>7. abstain => Unclear(CoverStops) # {}
      BY <2>2 DEF PathInv
  <2>8. \A c \in visited' \ visited : c = b
      BY <2>5
  <2> QED BY <2>1, <2>2, <2>5, <2>6, <2>7, <2>8, VisitKeepsPaths
<1>4. CASE WalkThrough
  <2>1. PICK b \in Blocks(fn) : /\ Enter(b) /\ ~Stopped(b) /\ ~Exits(fn, b) /\ ~Isolated(b)
                                /\ abstain' = (abstain \/ ErrorTest(b))
                                /\ agenda' = Succs(fn, b) \o Tail(agenda)
                                /\ UNCHANGED <<phase, verdict, exit>>
      BY <1>4 DEF WalkThrough
  <2>2. Walking /\ phase \in {"hunt", "proof"}
      BY <1>t, <2>1 DEF Enter
  <2>3. b \notin Stops
      BY <2>1, <2>2, StoppedIsStop
  <2>4. Succs(fn, b) \in Seq(Blocks(fn)) /\ Rng(Succs(fn, b)) = Arms(b)
      BY <1>0, <2>1, BlockFacts DEF Arms
  <2>5. /\ b \in WalkReach /\ Pending' = Pending \cup Arms(b) /\ Pending' \subseteq WalkReach
        /\ visited' = visited \cup {b} /\ (MeetsMaybe(b) => unknown') /\ (unknown => unknown')
        /\ UNCHANGED <<fn, sums, entryClean>>
      BY <2>1, <2>3, <2>4, VisitFacts
  <2>6. Followed(b)'
    <3>1. Arms(b)' = Arms(b)
        BY <2>5, SamePaths
    <3>2. /\ Isolated(b)' <=> Isolated(b)
          /\ ErrorTest(b)' <=> ErrorTest(b)
          /\ Exits(fn, b)' <=> Exits(fn, b)
        BY <2>5, SameView
    <3> QED BY <2>1, <2>5, <3>1, <3>2 DEF Followed
  <2>7. abstain' => Unclear(CoverStops) # {}
    <3>1. CASE abstain
        BY <2>2, <3>1 DEF PathInv
    <3>2. CASE ErrorTest(b)
      <4>1. b \in Reached(Stops) /\ CoverStops \subseteq Stops
          BY <2>5, StopsNest DEF WalkReach, Stops
      <4>2. Reached(Stops) \subseteq Reached(CoverStops)
        <5> HIDE DEF Stops
        <5> QED BY <4>1, StopsAntitone
      <4> QED BY <2>1, <2>3, <3>2, <4>1, <4>2 DEF Unclear
    <3> QED BY <2>1, <3>1, <3>2
  <2>8. \A c \in visited' \ visited : c = b
      BY <2>5
  <2> QED BY <2>1, <2>2, <2>5, <2>6, <2>7, <2>8, VisitKeepsPaths
<1>5. CASE WalkExit \/ Decide
    BY <1>5 DEF WalkExit, Decide, PathInv
<1> QED BY <1>1, <1>2, <1>3, <1>4, <1>5

(* A walk that ends says of the paths what is so.                          *)
LEMMA EndSpeaksOfPaths ==
    ASSUME TypeOK, PathInv, Analyse, WalkEnds
    PROVE  /\ verdict' = "VIOLATED"  <=> Leaks(MaybeStops) # {}
           /\ verdict' = "SATISFIED" <=> Leaks(CoverStops) = {} /\ Unclear(CoverStops) = {}
           /\ verdict' = "VIOLATED"  => exit' \in Leaks(MaybeStops)
<1>1. phase \in {"hunt", "proof"} /\ phase' = "decided" /\ (WalkExit \/ Decide)
    BY DEF Analyse, WalkEnds, Refuse, Begin, SweepBlock, SweepAgain, SweepDone, SkipBlock,
           WalkStopped, WalkPruned, WalkThrough, HuntAgain
<1>2. Leaks(MaybeStops) \subseteq Leaks(CoverStops)
    BY StopsNest, StopsAntitone
<1>3. CASE WalkExit
  <2>1. PICK b \in Blocks(fn) :
            /\ Enter(b) /\ ~Stopped(b) /\ Exits(fn, b)
            /\ verdict' = IF phase = "hunt" THEN "VIOLATED" ELSE "CANT-PROVE"
            /\ exit' = IF phase = "hunt" THEN b ELSE 0
      BY <1>3 DEF WalkExit
  <2>2. b \notin Stops
      BY <1>1, <2>1, StoppedIsStop
  <2>3. b \in WalkReach
    <3>1. agenda \in Seq(Blocks(fn)) /\ agenda # <<>> /\ b = Head(agenda)
        BY <2>1 DEF Enter, Walking, TypeOK, AnalysisType
    <3>2. b \in Rng(agenda)
        BY <3>1, AgendaHead
    <3> QED BY <1>1, <3>2 DEF PathInv, Pending
  <2>4. b \in Leaks(Stops)
      BY <2>1, <2>2, <2>3 DEF Leaks, WalkReach
  <2>5. CASE phase = "hunt"
      BY <1>2, <2>1, <2>4, <2>5 DEF Stops
  <2>6. CASE phase = "proof"
    <3>1. Leaks(MaybeStops) = {}
        BY <2>6 DEF PathInv
    <3> QED BY <2>1, <2>4, <2>6, <3>1 DEF Stops
  <2> QED BY <1>1, <2>5, <2>6
<1>4. CASE Decide
  <2>1. /\ agenda = <<>> /\ (phase = "hunt" => ~unknown)
        /\ verdict' = IF abstain THEN "CANT-PROVE" ELSE "SATISFIED"
      BY <1>4 DEF Decide
  <2>2. visited = WalkReach /\ Leaks(Stops) = {} /\ (Unclear(Stops) # {} => abstain)
      BY <1>1, <2>1, WalkComplete
  <2>3. Leaks(CoverStops) = {} /\ (Unclear(CoverStops) # {} => abstain)
    <3>1. CASE phase = "proof"
        BY <2>2, <3>1 DEF Stops
    <3>2. CASE phase = "hunt"
      <4>1. visited = Reached(MaybeStops) /\ visited \subseteq Blocks(fn) /\ WellFormed(fn)
          BY <2>2, <3>2 DEF WalkReach, Stops, TypeOK, AnalysisType
      <4>2. \A c \in visited : c \in MaybeStops => c \in CoverStops
          BY <2>1, <3>2 DEF PathInv, MaybeStops
      <4>3. \A c \in visited \ CoverStops : Arms(c) \subseteq visited
          BY <4>1, <4>2, ReachedLeast
      <4>4. Reached(CoverStops) \subseteq visited
          BY <4>1, <4>3, ReachedLeast
      <4>5. Leaks(CoverStops) \subseteq Leaks(MaybeStops)
            /\ Unclear(CoverStops) \subseteq Unclear(MaybeStops)
          BY <4>1, <4>2, <4>4 DEF Leaks, Unclear
      <4> QED BY <2>2, <3>2, <4>5 DEF Stops
    <3> QED BY <1>1, <3>1, <3>2
  <2>4. abstain => Unclear(CoverStops) # {}
      BY <1>1 DEF PathInv
  <2> QED BY <1>2, <2>1, <2>3, <2>4
<1> QED BY <1>1, <1>3, <1>4

(* The verdict is the one the paths define, for every function: the order  *)
(* in which leakPath walks, the visited set its searches share and their   *)
(* early stop decide nothing, the witness is an exit a path leads to, and  *)
(* summaries only add trust.  No assumption on phis is needed.             *)
THEOREM VerdictIsOfPaths == Spec => VerdictIsPathProperty
<1>1. Init => TypeOK /\ PathInv
    BY InitTypes DEF Init, PathInv
<1>2. ASSUME TypeOK, PathInv, [Next]_vars PROVE TypeOK' /\ PathInv'
  <2>1. TypeOK'
      BY <1>2, TypeStep
  <2>2. CASE Analyse
      BY <1>2, <2>1, <2>2, PathsBegin, PathsWalk DEF Analyse
  <2>3. CASE Run \/ UNCHANGED vars
    <3>1. UNCHANGED <<fn, sums, analysis>>
        BY <2>3 DEF Run, vars
    <3>2. UNCHANGED <<fn, sums, phase, entryClean, visited, agenda, unknown, abstain>>
        BY <3>1 DEF analysis
    <3>3. CASE phase \in {"hunt", "proof"}
      <4>1. Pending' = Pending
          BY <3>2 DEF Pending, Rng
      <4>2. Pending \subseteq WalkReach /\ (abstain => Unclear(CoverStops) # {})
          BY <3>3, <1>2 DEF PathInv
      <4>3. UNCHANGED <<fn, sums, phase, entryClean>> /\ visited' \ visited = {}
          BY <3>2
      <4> QED BY <1>2, <2>1, <3>2, <3>3, <4>1, <4>2, <4>3, VisitKeepsPaths
    <3>4. CASE phase \notin {"hunt", "proof"}
        BY <1>2, <2>1, <3>2, <3>4 DEF PathInv
    <3> QED BY <3>3, <3>4
  <2> QED BY <1>2, <2>1, <2>2, <2>3 DEF Next
<1>3. ASSUME TypeOK, PathInv, Next, WalkEnds
      PROVE  /\ verdict' = "VIOLATED"  <=> Leaks(MaybeStops) # {}
             /\ verdict' = "SATISFIED" <=> Leaks(CoverStops) = {} /\ Unclear(CoverStops) = {}
             /\ verdict' = "VIOLATED"  => exit' \in Leaks(MaybeStops) /\ Leaks(NamedStops) # {}
             /\ Leaks(NamedStops) = {} /\ Unclear(NamedStops) = {} => verdict' = "SATISFIED"
  <2>1. Analyse
      BY <1>3 DEF Next, Run, analysis, WalkEnds
  <2>2. /\ verdict' = "VIOLATED"  <=> Leaks(MaybeStops) # {}
        /\ verdict' = "SATISFIED" <=> Leaks(CoverStops) = {} /\ Unclear(CoverStops) = {}
        /\ verdict' = "VIOLATED"  => exit' \in Leaks(MaybeStops)
      BY <1>3, <2>1, EndSpeaksOfPaths
  <2>3. /\ Leaks(MaybeStops) \subseteq Leaks(CoverStops)
        /\ Leaks(CoverStops) \subseteq Leaks(NamedStops)
        /\ Unclear(CoverStops) \subseteq Unclear(NamedStops)
      BY StopsNest, StopsAntitone
  <2> QED BY <2>2, <2>3
<1> QED BY <1>1, <1>2, <1>3, PTL DEF Spec, VerdictIsPathProperty

=============================================================================
