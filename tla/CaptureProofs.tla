--------------------------- MODULE CaptureProofs ---------------------------
(***************************************************************************)
(* Proofs about CaptureHarness, for any flows, any number of runs and any  *)
(* Quiet and Timeout: its types, that a surfaced capture had been quiet,   *)
(* that it is whole, that what it lacks is disclosed, that runs agree, and *)
(* that the harness implements CaptureContract.                            *)
(***************************************************************************)
EXTENDS CaptureHarness, FiniteSetTheorems, TLAPS

(* What it takes for a span to be in the scope of a run: it is one of its  *)
(* flow's, it has ended, and it carries the run's id.                      *)
LEMMA ScopeFacts ==
    ASSUME NEW r \in Runs
    PROVE  Scope(flow, Recorder, r) =
              {<<r, s>> : s \in {t \in flow[r].spans :
                                    sut[r][t] = "ended" /\ flow[r].ctx[t] # "lost"}}
BY DEF Scope, Recorder, Correlated

(* What a flow is. *)
LEMMA FlowFacts ==
    ASSUME flow \in [Runs -> Flows], NEW r \in Runs
    PROVE  /\ flow[r].spans \subseteq Names
           /\ flow[r].entry \in flow[r].spans /\ flow[r].entry \notin flow[r].inline
           /\ flow[r].ctx[flow[r].entry] = "root"
           /\ \A t \in flow[r].inline :
                 t \in flow[r].spans /\ flow[r].caller[t] \in flow[r].spans
           /\ flow[r].kind[flow[r].entry] \in ServiceKinds
<1>1. flow[r] \in Flows /\ FlowOK(flow[r])
    BY FlowsOK
<1> QED BY <1>1 DEF FlowOK, Names

(* The recorder is finite, and so is what any run takes out of it.         *)
LEMMA RecorderFinite ==
    ASSUME flow \in [Runs -> Flows]
    PROVE  /\ IsFiniteSet(Recorder)
           /\ \A r \in Runs : IsFiniteSet(Scope(flow, Recorder, r))
<1> DEFINE Of(r) == {<<r, s>> : s \in {t \in flow[r].spans : sut[r][t] = "ended"}}
<1>1. ASSUME NEW r \in Runs PROVE IsFiniteSet(Of(r))
  <2>1. IsFiniteSet({t \in flow[r].spans : sut[r][t] = "ended"})
      BY FlowsOK, FS_Subset DEF FlowOK
  <2> DEFINE E == {t \in flow[r].spans : sut[r][t] = "ended"}
             f == [t \in E |-> <<r, t>>]
  <2>2. f \in Surjection(E, Of(r))
      BY DEF Surjection
  <2> QED BY <2>1, <2>2, FS_Surjection
<1>2. IsFiniteSet({Of(r) : r \in Runs})
  <2> DEFINE g == [r \in Runs |-> Of(r)]
  <2>1. g \in Surjection(Runs, {Of(r) : r \in Runs})
    <3> HIDE DEF Of
    <3>1. g \in [Runs -> {Of(r) : r \in Runs}]
        OBVIOUS
    <3>2. \A t \in {Of(r) : r \in Runs} : \E r \in Runs : g[r] = t
        OBVIOUS
    <3> QED BY <3>1, <3>2 DEF Surjection
  <2> QED BY <2>1, RunsOK, FS_Surjection
<1>3. Recorder = UNION {Of(r) : r \in Runs}
    BY DEF Recorder
<1>4. IsFiniteSet(Recorder)
    BY <1>1, <1>2, <1>3, FS_UNION
<1>5. \A r \in Runs : Scope(flow, Recorder, r) \in SUBSET Recorder
    BY DEF Scope
<1> QED BY <1>4, <1>5, FS_Subset

(* A snapshot is finite. *)
LEMMA SpansFinite ==
    ASSUME TypeOK, NEW r \in Runs
    PROVE  IsFiniteSet(spans[r]) /\ Cardinality(spans[r]) \in Nat
<1>1. spans[r] \in SUBSET Scope(flow, Recorder, r) /\ flow \in [Runs -> Flows]
    BY DEF TypeOK
<1>2. IsFiniteSet(Scope(flow, Recorder, r))
    BY <1>1, RecorderFinite
<1> QED BY <1>1, <1>2, FS_Subset, FS_CardinalityType

(* A run's flow never changes.                                             *)
LEMMA FlowFixed == Next => flow' = flow
BY DEF Next, Service, OpenSpan, EndSpan, Harness, Trigger, StartAwait, Await, Snapshot, Note,
       Complete, NotYet, TimeOut, Sleep, Collect, Tick

(* The recorder only grows.                                                *)
LEMMA ScopeGrows ==
    ASSUME TypeOK, Next, NEW r \in Runs
    PROVE  /\ flow' = flow
           /\ Scope(flow, Recorder, r) \subseteq Scope(flow, Recorder, r)'
<1>1. flow' = flow
    BY FlowFixed
<1>2. \A s \in flow[r].spans : sut[r][s] = "ended" => sut'[r][s] = "ended"
  <2>1. CASE Service
    <3>1. PICK q \in Runs : \E s \in flow[q].spans : OpenSpan(q, s) \/ EndSpan(q, s)
        BY <2>1 DEF Service
    <3>2. PICK s \in flow[q].spans : OpenSpan(q, s) \/ EndSpan(q, s)
        BY <3>1
    <3>3. /\ sut[q][s] # "ended"
          /\ \/ sut' = [sut EXCEPT ![q][s] = "open"]
             \/ sut' = [sut EXCEPT ![q][s] = "ended"]
        BY <3>2 DEF OpenSpan, EndSpan
    <3>4. /\ s \in Names /\ flow[r].spans \subseteq Names
          /\ sut \in [Runs -> [Names -> {"unborn", "open", "ended"}]]
        BY DEF Names, TypeOK
    <3>5. \A t \in Names : sut[r][t] = "ended" => sut'[r][t] = "ended"
        BY <3>3, <3>4
    <3> QED BY <3>4, <3>5
  <2>2. CASE UNCHANGED sut
      BY <2>2
  <2> QED BY <2>1, <2>2 DEF Next, Harness, Trigger, StartAwait, Await, Snapshot, Note,
             Complete, NotYet, TimeOut, Sleep, Collect, Tick, service
<1>3. Scope(flow, Recorder, r)' =
         {<<r, s>> : s \in {t \in flow[r].spans :
                               sut'[r][t] = "ended" /\ flow[r].ctx[t] # "lost"}}
    BY <1>1 DEF Scope, Recorder, Correlated
<1> QED BY <1>1, <1>2, <1>3, ScopeFacts

-----------------------------------------------------------------------------
(* The types hold when nothing has been triggered.                         *)
LEMMA InitTypes == Init => TypeOK
BY TimesOK DEF Init, TypeOK, Stages

(* No step breaks a type, and a snapshot never holds a span that the       *)
(* recorder lacks.                                                         *)
LEMMA TypeStep == TypeOK /\ [Next]_vars => TypeOK'
<1> SUFFICES ASSUME TypeOK, [Next]_vars PROVE TypeOK'
    OBVIOUS
<1> USE TimesOK DEF Stages, Polling
<1>u. CASE UNCHANGED vars
    BY <1>u DEF vars, harness, TypeOK, Scope, Recorder, Correlated
<1>n. CASE Next
  <2>f. flow' = flow /\ \A r \in Runs : Scope(flow, Recorder, r) \subseteq
                                          Scope(flow, Recorder, r)'
      BY <1>n, FlowFixed, ScopeGrows
  <2>s. ASSUME UNCHANGED spans
        PROVE  DOMAIN spans' = Runs /\ \A r \in Runs : spans'[r] \subseteq
                                                        Scope(flow, Recorder, r)'
      BY <2>f, <2>s DEF TypeOK
  <2>1. CASE Service
    <3>1. PICK q \in Runs : \E s \in flow[q].spans : OpenSpan(q, s) \/ EndSpan(q, s)
        BY <2>1 DEF Service
    <3>2. PICK s \in flow[q].spans : OpenSpan(q, s) \/ EndSpan(q, s)
        BY <3>1
    <3>3. UNCHANGED <<flow, rest, harness>>
        BY <3>2 DEF OpenSpan, EndSpan
    <3>4. sut' \in [Runs -> [Names -> {"unborn", "open", "ended"}]]
      <4>1. /\ s \in Names
            /\ sut \in [Runs -> [Names -> {"unborn", "open", "ended"}]]
          BY DEF Names, TypeOK
      <4>2. \/ sut' = [sut EXCEPT ![q][s] = "open"]
            \/ sut' = [sut EXCEPT ![q][s] = "ended"]
          BY <3>2 DEF OpenSpan, EndSpan
      <4> QED BY <4>1, <4>2
    <3> QED BY <2>s, <3>3, <3>4 DEF harness, TypeOK
  <2>2. ASSUME NEW r \in Runs, Trigger(r) \/ StartAwait(r) \/ NotYet(r)
                                \/ TimeOut(r) \/ Sleep(r) \/ Complete(r)
        PROVE  TypeOK'
    <3>1. UNCHANGED <<flow, sut, rest, spans, lost>>
        BY <2>2 DEF Trigger, StartAwait, NotYet, TimeOut, Sleep, Complete, service
    <3>2. stage' \in [Runs -> Stages] /\ complete' \in [Runs -> BOOLEAN]
        BY <2>2 DEF Trigger, StartAwait, NotYet, TimeOut, Sleep, Complete, TypeOK
    <3>3. /\ elapsed' \in [Runs -> 0..(Timeout + 1)] /\ idle' \in [Runs -> 0..Quiet]
          /\ lastCount' \in [Runs -> Nat \cup {-1}]
      <4>1. CASE StartAwait(r)
        <5>1. 0 \in 0..(Timeout + 1) /\ 0 \in 0..Quiet
            OBVIOUS
        <5> QED BY <4>1, <5>1 DEF StartAwait, TypeOK
      <4>2. CASE UNCHANGED <<elapsed, idle, lastCount>>
          BY <4>2 DEF TypeOK
      <4> QED BY <2>2, <4>1, <4>2 DEF Trigger, NotYet, TimeOut, Sleep, Complete
    <3> QED BY <2>s, <3>1, <3>2, <3>3 DEF TypeOK
  <2>3. ASSUME NEW r \in Runs, Snapshot(r) PROVE TypeOK'
    <3>1. spans' = [spans EXCEPT ![r] = Scope(flow, Recorder, r)]
        BY <2>3 DEF Snapshot
    <3>2. DOMAIN spans' = Runs /\ \A q \in Runs : spans'[q] \subseteq
                                                    Scope(flow, Recorder, q)'
        BY <2>f, <3>1 DEF TypeOK
    <3> QED BY <2>3, <3>2 DEF Snapshot, service, TypeOK
  <2>4. ASSUME NEW r \in Runs, Note(r) PROVE TypeOK'
    <3>1. Cardinality(spans[r]) \in Nat
        BY SpansFinite
    <3>2. UNCHANGED <<flow, sut, rest, elapsed, spans, complete, lost>>
        BY <2>4 DEF Note, service
    <3>3. /\ lastCount' \in [Runs -> Nat \cup {-1}]
          /\ idle' \in [Runs -> 0..Quiet] /\ stage' \in [Runs -> Stages]
        BY <2>4, <3>1 DEF Note, TypeOK
    <3> QED BY <2>s, <3>2, <3>3 DEF TypeOK
  <2>5. ASSUME NEW r \in Runs, Collect(r) PROVE TypeOK'
    <3>1. {x \in Recorder : ~Correlated(flow, x)} \in SUBSET Recorder
        OBVIOUS
    <3>2. CorrelationLess(flow, Recorder) \in Nat
        BY <3>1, RecorderFinite, FS_Subset, FS_CardinalityType DEF CorrelationLess, TypeOK
    <3>3. HasRoot(flow, spans[r]) \in BOOLEAN
        BY DEF HasRoot
    <3> QED BY <2>5, <2>s, <3>2, <3>3 DEF Collect, service, TypeOK
  <2>6. CASE Tick
    <3>1. \A n, b \in Nat : n \in 0..b => AtMost(n + 1, b) \in 0..b
        BY DEF AtMost
    <3>2. Timeout + 1 \in Nat /\ UNCHANGED <<flow, sut, stage, lastCount, spans, complete, lost>>
        BY <2>6 DEF Tick
    <3>3. elapsed' \in [Runs -> 0..(Timeout + 1)]
        BY <2>6, <3>1, <3>2 DEF Tick, TypeOK
    <3>4. idle' \in [Runs -> 0..Quiet]
        BY <2>6, <3>1 DEF Tick, TypeOK
    <3>5. rest' \in [Runs -> [Names -> 0..Quiet]]
        BY <2>6, <3>1 DEF Tick, TypeOK
    <3> QED BY <2>s, <3>2, <3>3, <3>4, <3>5 DEF TypeOK
  <2> QED BY <1>n, <2>1, <2>2, <2>3, <2>4, <2>5, <2>6 DEF Next, Harness, Await
<1> QED BY <1>u, <1>n

(* Every variable of the harness keeps its type, and what a run holds is   *)
(* always a subset of what its own scope of the recorder holds.            *)
THEOREM TypesHold == Spec => []TypeOK
BY InitTypes, TypeStep, PTL DEF Spec

-----------------------------------------------------------------------------
(* The inductive invariant.                                                *)

(* What ran inside a span ended before it did. *)
InsideEnds ==
    \A r \in Runs : \A t \in flow[r].inline :
        sut[r][flow[r].caller[t]] = "ended" => sut[r][t] = "ended"

(* Hence every snapshot is closed downwards. *)
Closed == \A r \in Runs : InlineClosed(flow, spans[r])

(* A trigger that waits leaves the entry in every snapshot. *)
Waited ==
    \A r \in Runs : flow[r].waits /\ stage[r] \notin {"idle", "driving"} =>
        /\ sut[r][flow[r].entry] = "ended"
        /\ stage[r] # "poll" => Entry(r) \in spans[r]

(* idle does not run ahead of the spans of the snapshot it is counted for: *)
(* when a round finds as many spans as the last one, they are the same.    *)
Rested(r) == \A x \in spans[r] : rest[r][x[2]] >= idle[r]
Counted(r) == lastCount[r] = Cardinality(spans[r])
Calm ==
    \A r \in Runs :
        /\ stage[r] = "poll" => lastCount[r] = -1 \/ (Counted(r) /\ Rested(r))
        /\ stage[r] = "note" => (Counted(r) => Rested(r))
        /\ stage[r] \in {"check", "late"} => Counted(r) /\ Rested(r)

(* What Await's answer rests on. *)
Answered ==
    \A r \in Runs : complete[r] =>
        /\ stage[r] \in {"collect", "done"}
        /\ RootEnded(flow, spans[r]) /\ AllSeen(flow, spans[r], r)
        /\ \A x \in spans[r] : rest[r][x[2]] >= Quiet
        /\ stage[r] = "done" => HasRoot(flow, spans[r])

IInv == TypeOK /\ InsideEnds /\ Closed /\ Waited /\ Calm /\ Answered

(* The run of one test is untouched by the steps of another's.             *)
LEMMA Others ==
    ASSUME TypeOK, NEW q \in Runs, Harness(q), NEW r \in Runs \ {q}
    PROVE  /\ UNCHANGED <<flow, sut, rest>>
           /\ stage'[r] = stage[r] /\ elapsed'[r] = elapsed[r] /\ idle'[r] = idle[r]
           /\ lastCount'[r] = lastCount[r] /\ spans'[r] = spans[r]
           /\ complete'[r] = complete[r]
BY DEF Harness, Trigger, StartAwait, Await, Snapshot, Note, Complete, NotYet, TimeOut,
       Sleep, Collect, service, TypeOK

(* What a step of the harness does to its own run, apart from the answer.  *)
LEMMA Own ==
    ASSUME TypeOK, NEW r \in Runs, Harness(r)
    PROVE  /\ UNCHANGED <<flow, sut, rest>>
           /\ ~Snapshot(r) => spans' = spans
           /\ ~Complete(r) => (complete'[r] => complete[r])
BY DEF Harness, Trigger, StartAwait, Await, Snapshot, Note, Complete, NotYet, TimeOut,
       Sleep, Collect, service, TypeOK

(* A span ends only after what ran inside it.                              *)
LEMMA InsideStep == TypeOK /\ InsideEnds /\ Next => InsideEnds'
<1> SUFFICES ASSUME TypeOK, InsideEnds, Next PROVE InsideEnds'
    OBVIOUS
<1>1. CASE Service
  <2>1. PICK q \in Runs : \E s \in flow[q].spans : OpenSpan(q, s) \/ EndSpan(q, s)
      BY <1>1 DEF Service
  <2>2. PICK s \in flow[q].spans : OpenSpan(q, s) \/ EndSpan(q, s)
      BY <2>1
  <2> SUFFICES ASSUME NEW r \in Runs, NEW t \in flow[r].inline,
                      sut'[r][flow[r].caller[t]] = "ended"
               PROVE  sut'[r][t] = "ended"
      BY <1>1, FlowFixed DEF InsideEnds
  <2>3. /\ sut \in [Runs -> [Names -> {"unborn", "open", "ended"}]]
        /\ t \in Names /\ flow[r].caller[t] \in Names /\ s \in Names
    <3>1. /\ sut \in [Runs -> [Names -> {"unborn", "open", "ended"}]]
          /\ flow \in [Runs -> Flows]
        BY DEF TypeOK
    <3>2. flow[r].spans \subseteq Names /\ flow[q].spans \subseteq Names
        BY <3>1, FlowFacts
    <3>3. t \in flow[r].spans /\ flow[r].caller[t] \in flow[r].spans
        BY <3>1, FlowFacts
    <3> QED BY <3>1, <3>2, <3>3
  <2>4. sut[r][flow[r].caller[t]] = "ended" => sut[r][t] = "ended"
      BY DEF InsideEnds
  <2>5. CASE OpenSpan(q, s)
    <3>1. sut[q][s] = "unborn" /\ sut' = [sut EXCEPT ![q][s] = "open"]
        BY <2>5 DEF OpenSpan
    <3> QED BY <2>3, <2>4, <3>1
  <2>6. CASE EndSpan(q, s)
    <3>1. /\ sut[q][s] = "open" /\ sut' = [sut EXCEPT ![q][s] = "ended"]
          /\ \A u \in flow[q].inline : flow[q].caller[u] = s => sut[q][u] = "ended"
        BY <2>6 DEF EndSpan
    <3> QED BY <2>3, <2>4, <3>1
  <2> QED BY <2>2, <2>5, <2>6
<1>2. CASE UNCHANGED <<flow, sut>>
    BY <1>2 DEF InsideEnds
<1> QED BY <1>1, <1>2, Own DEF Next, Tick

(* Snapshots are closed, since the recorder is.                            *)
LEMMA ClosedStep == TypeOK /\ InsideEnds /\ Closed /\ Next => Closed'
<1> SUFFICES ASSUME TypeOK, InsideEnds, Closed, Next PROVE Closed'
    OBVIOUS
<1>f. flow' = flow
    BY FlowFixed
<1>1. ASSUME NEW r \in Runs PROVE InlineClosed(flow, Scope(flow, Recorder, r))
  <2> SUFFICES ASSUME NEW x \in Scope(flow, Recorder, r), NEW t \in flow[x[1]].inline,
                      flow[x[1]].caller[t] = x[2], Correlated(flow, <<x[1], t>>)
               PROVE  <<x[1], t>> \in Scope(flow, Recorder, r)
      BY DEF InlineClosed
  <2>1. PICK s \in flow[r].spans : x = <<r, s>> /\ sut[r][s] = "ended"
      BY ScopeFacts
  <2>2. t \in flow[r].spans /\ sut[r][t] = "ended" /\ flow[r].ctx[t] # "lost"
      BY <2>1, FlowFacts DEF InsideEnds, Correlated, TypeOK
  <2> QED BY <2>1, <2>2, ScopeFacts
<1>2. ASSUME NEW r \in Runs, Snapshot(r) PROVE Closed'
    BY <1>f, <1>1, <1>2 DEF Snapshot, Closed, InlineClosed, Correlated, TypeOK
<1>3. CASE UNCHANGED spans
    BY <1>f, <1>3 DEF Closed, InlineClosed, Correlated
<1> QED BY <1>2, <1>3, Own DEF Next, Service, OpenSpan, EndSpan, Tick, harness

(* The stage a run's own step leaves from and the one it leads to.         *)
LEMMA StageStep ==
    ASSUME TypeOK, NEW r \in Runs
    PROVE  /\ Trigger(r)    => stage[r] = "idle" /\ stage'[r] = "driving"
           /\ StartAwait(r) => stage[r] = "driving" /\ stage'[r] = "poll"
           /\ Snapshot(r)   => stage[r] = "poll" /\ stage'[r] = "note"
           /\ Note(r)       => stage[r] = "note" /\ stage'[r] = "check"
           /\ Complete(r)   => stage[r] = "check" /\ stage'[r] = "collect"
           /\ NotYet(r)     => stage[r] = "check" /\ stage'[r] = "late"
           /\ TimeOut(r)    => stage[r] = "late" /\ stage'[r] = "collect"
           /\ Sleep(r)      => stage[r] = "late" /\ stage'[r] = "poll"
           /\ Collect(r)    => stage[r] = "collect" /\ stage'[r] = "done"
BY DEF Trigger, StartAwait, Snapshot, Note, Complete, NotYet, TimeOut, Sleep, Collect, TypeOK

(* A flow whose trigger waits has its entry in every snapshot.             *)
LEMMA WaitedStep == TypeOK /\ Waited /\ Next => Waited'
<1> SUFFICES ASSUME TypeOK, Waited, Next, NEW r \in Runs,
                    flow[r].waits, stage'[r] \notin {"idle", "driving"}
             PROVE  /\ sut'[r][flow[r].entry] = "ended"
                    /\ stage'[r] # "poll" => Entry(r) \in spans'[r]
    BY FlowFixed DEF Waited, Entry
<1>w. stage[r] \notin {"idle", "driving"} =>
         /\ sut[r][flow[r].entry] = "ended"
         /\ stage[r] # "poll" => Entry(r) \in spans[r]
    BY DEF Waited
<1>e. flow[r].entry \in flow[r].spans /\ flow[r].ctx[flow[r].entry] = "root"
    BY FlowFacts DEF TypeOK
<1>1. CASE Service
  <2>1. UNCHANGED <<stage, spans>>
      BY <1>1 DEF Service, OpenSpan, EndSpan, harness
  <2>2. sut[r][flow[r].entry] = "ended"
      BY <1>w, <2>1
  <2>3. Entry(r) \in Scope(flow, Recorder, r)
      BY <1>e, <2>2, ScopeFacts DEF Entry
  <2>4. Entry(r) \in Scope(flow, Recorder, r)' /\ flow' = flow
      BY <2>3, ScopeGrows
  <2>5. sut'[r][flow[r].entry] = "ended"
      BY <2>4 DEF Scope, Recorder, Entry
  <2> QED BY <1>w, <2>1, <2>5
<1>2. CASE Tick
    BY <1>w, <1>2 DEF Tick
<1>3. ASSUME NEW q \in Runs \ {r}, Harness(q)
      PROVE  stage'[r] = stage[r] /\ spans'[r] = spans[r] /\ sut' = sut
    BY <1>3, Others
<1>4. CASE Harness(r)
  <2>1. sut' = sut /\ (~Snapshot(r) => spans' = spans)
      BY <1>4, Own
  <2>2. CASE StartAwait(r)
      BY <2>1, <2>2, StageStep DEF StartAwait
  <2>3. CASE Snapshot(r)
    <3>1. spans'[r] = Scope(flow, Recorder, r)
        BY <2>3 DEF Snapshot, TypeOK
    <3> QED BY <1>w, <1>e, <2>1, <2>3, <3>1, StageStep, ScopeFacts DEF Entry
  <2> QED BY <1>4, <1>w, <2>1, <2>2, <2>3, StageStep DEF Harness, Await
<1> QED BY <1>1, <1>2, <1>3, <1>4, <1>w DEF Next

(* The idle interval is never longer than the rest of a counted span.      *)
LEMMA CalmStep == TypeOK /\ Calm /\ Next => Calm'
<1> DEFINE CalmAt(r) ==
             /\ stage[r] = "poll" => lastCount[r] = -1 \/ (Counted(r) /\ Rested(r))
             /\ stage[r] = "note" => (Counted(r) => Rested(r))
             /\ stage[r] \in {"check", "late"} => Counted(r) /\ Rested(r)
<1> SUFFICES ASSUME TypeOK, Calm, Next, NEW r \in Runs
             PROVE  CalmAt(r)'
    BY DEF Calm
<1>c. CalmAt(r)
    BY DEF Calm
<1>t. /\ idle[r] \in Nat /\ lastCount[r] \in Nat \cup {-1}
      /\ spans[r] \subseteq Scope(flow, Recorder, r)
      /\ \A x \in spans[r] : /\ x[2] \in Names /\ rest[r][x[2]] \in 0..Quiet
                             /\ sut[r][x[2]] = "ended"
  <2>1. flow[r].spans \subseteq Names
      BY FlowFacts DEF TypeOK
  <2>2. rest[r] \in [Names -> 0..Quiet]
      BY DEF TypeOK
  <2> QED BY <2>1, <2>2, TimesOK, ScopeFacts DEF TypeOK
<1>1. CASE UNCHANGED <<rest, harness>>
    BY <1>c, <1>1 DEF harness, Counted, Rested
<1>2. CASE Tick
  <2>1. /\ UNCHANGED <<flow, stage, lastCount, spans>>
        /\ stage[r] \in Polling => idle'[r] = AtMost(idle[r] + 1, Quiet)
        /\ \A x \in spans[r] : rest'[r][x[2]] = AtMost(rest[r][x[2]] + 1, Quiet)
      BY <1>2, <1>t DEF Tick
  <2>2. stage[r] \in Polling /\ Rested(r) => Rested(r)'
      BY <1>t, <2>1, TimesOK DEF Rested, AtMost
  <2> QED BY <1>c, <2>1, <2>2 DEF Counted, Polling
<1>3. ASSUME NEW q \in Runs \ {r}, Harness(q) PROVE CalmAt(r)'
    BY <1>c, <1>3, Others DEF Counted, Rested
<1>4. CASE Harness(r)
  <2>1. UNCHANGED <<flow, sut, rest>> /\ (~Snapshot(r) => spans' = spans)
      BY <1>4, Own
  <2>2. CASE StartAwait(r)
      BY <2>2, StageStep DEF StartAwait, TypeOK
  <2>3. CASE Snapshot(r)
    <3>1. /\ spans'[r] = Scope(flow, Recorder, r) /\ UNCHANGED <<idle, lastCount>>
          /\ stage[r] = "poll" /\ stage'[r] = "note"
        BY <2>3 DEF Snapshot, TypeOK
    <3> SUFFICES ASSUME Counted(r)' PROVE Rested(r)'
        BY <3>1
    <3>2. IsFiniteSet(spans'[r]) /\ Cardinality(spans'[r]) \in Nat
        BY <3>1, RecorderFinite, FS_CardinalityType DEF TypeOK
    <3>3. Counted(r) /\ Rested(r)
        BY <1>c, <3>1, <3>2 DEF Counted
    <3>4. Cardinality(spans'[r]) = Cardinality(spans[r]) /\ spans[r] \in SUBSET spans'[r]
        BY <1>t, <3>1, <3>3 DEF Counted
    <3>5. spans'[r] = spans[r]
        BY <3>2, <3>4, FS_Subset
    <3> QED BY <2>1, <3>1, <3>3, <3>5 DEF Rested
  <2>4. CASE Note(r)
    <3>1. /\ stage[r] = "note" /\ stage'[r] = "check" /\ spans' = spans
          /\ lastCount'[r] = Cardinality(spans[r])
          /\ idle'[r] = IF Cardinality(spans[r]) # lastCount[r] THEN 0 ELSE idle[r]
        BY <2>4 DEF Note, TypeOK
    <3>2. CASE Counted(r)
        BY <1>c, <2>1, <3>1, <3>2 DEF Counted, Rested
    <3>3. CASE ~Counted(r)
        BY <1>t, <2>1, <3>1, <3>3 DEF Counted, Rested
    <3> QED BY <3>2, <3>3
  <2>5. CASE NotYet(r) \/ Sleep(r)
    <3>1. UNCHANGED <<idle, lastCount, spans>>
        BY <2>5 DEF NotYet, Sleep
    <3> QED BY <1>c, <2>1, <2>5, <3>1, StageStep DEF Counted, Rested
  <2> QED BY <1>4, <2>2, <2>3, <2>4, <2>5, StageStep DEF Harness, Await
<1> QED BY <1>1, <1>2, <1>3, <1>4 DEF Next, Service, OpenSpan, EndSpan

(* Completion is claimed only in a state that warrants it, and what        *)
(* warrants it lasts.                                                      *)
LEMMA AnsweredStep == TypeOK /\ Calm /\ Answered /\ Next => Answered'
<1> DEFINE Warranted(r) ==
             /\ RootEnded(flow, spans[r]) /\ AllSeen(flow, spans[r], r)
             /\ \A x \in spans[r] : rest[r][x[2]] >= Quiet
<1> SUFFICES ASSUME TypeOK, Calm, Answered, Next, NEW r \in Runs, complete'[r]
             PROVE  /\ stage'[r] \in {"collect", "done"} /\ Warranted(r)'
                    /\ stage'[r] = "done" => HasRoot(flow, spans[r])'
    BY DEF Answered
<1>a. complete[r] => /\ stage[r] \in {"collect", "done"} /\ Warranted(r)
                     /\ stage[r] = "done" => HasRoot(flow, spans[r])
    BY DEF Answered
<1>f. flow' = flow
    BY FlowFixed
<1>k. ASSUME spans'[r] = spans[r]
      PROVE  /\ RootEnded(flow, spans[r])' <=> RootEnded(flow, spans[r])
             /\ AllSeen(flow, spans[r], r)' <=> AllSeen(flow, spans[r], r)
             /\ HasRoot(flow, spans[r])' <=> HasRoot(flow, spans[r])
    BY <1>f, <1>k DEF RootEnded, AllSeen, HasRoot, Parentless, HasParent, ParentOf, Kind, Op
<1>1. CASE UNCHANGED <<rest, harness>>
    BY <1>a, <1>k, <1>1 DEF harness
<1>2. CASE Tick
  <2>1. UNCHANGED <<stage, spans, complete>>
      BY <1>2 DEF Tick
  <2>2. \A x \in spans[r] : rest[r][x[2]] >= Quiet => rest'[r][x[2]] >= Quiet
    <3>1. \A x \in spans[r] : x[2] \in Names /\ rest[r][x[2]] \in Nat
      <4>1. /\ flow[r].spans \subseteq Names /\ rest[r] \in [Names -> 0..Quiet]
            /\ spans[r] \subseteq Scope(flow, Recorder, r)
          BY FlowFacts DEF TypeOK
      <4> QED BY <4>1, TimesOK, ScopeFacts
    <3>2. \A x \in spans[r] : rest'[r][x[2]] \in
             {rest[r][x[2]], AtMost(rest[r][x[2]] + 1, Quiet)}
        BY <1>2, <3>1 DEF Tick
    <3> QED BY <3>1, <3>2, TimesOK DEF AtMost
  <2> QED BY <1>a, <1>k, <2>1, <2>2
<1>3. ASSUME NEW q \in Runs \ {r}, Harness(q)
      PROVE  /\ UNCHANGED rest /\ stage'[r] = stage[r] /\ spans'[r] = spans[r]
             /\ complete'[r] = complete[r]
    BY <1>3, Others
<1>4. CASE Harness(r)
  <2>1. /\ UNCHANGED <<flow, sut, rest>> /\ (~Snapshot(r) => spans' = spans)
        /\ ~Complete(r) => complete[r]
      BY <1>4, Own
  <2>2. CASE Complete(r)
    <3>1. Quiescent(r) /\ spans' = spans /\ stage[r] = "check"
        BY <2>1, <2>2 DEF Complete
    <3>2. Rested(r) /\ idle[r] >= Quiet /\ idle[r] \in Nat
        BY <3>1 DEF Calm, Quiescent, TypeOK
    <3>3. \A x \in spans[r] : rest[r][x[2]] \in Nat
      <4>1. /\ flow[r].spans \subseteq Names /\ rest[r] \in [Names -> 0..Quiet]
            /\ spans[r] \subseteq Scope(flow, Recorder, r)
          BY FlowFacts DEF TypeOK
      <4> QED BY <4>1, TimesOK, ScopeFacts
    <3>4. \A x \in spans[r] : rest[r][x[2]] >= Quiet
        BY <3>2, <3>3, TimesOK DEF Rested
    <3>5. stage'[r] = "collect" /\ RootEnded(flow, spans[r]) /\ AllSeen(flow, spans[r], r)
        BY <2>2, <3>1, StageStep DEF Quiescent
    <3> QED BY <1>k, <2>1, <3>1, <3>4, <3>5
  <2>3. CASE Collect(r)
    <3>1. /\ complete'[r] = (complete[r] /\ HasRoot(flow, spans[r])) /\ spans' = spans
          /\ stage'[r] = "done"
        BY <2>3, StageStep DEF Collect, TypeOK
    <3> QED BY <1>a, <1>k, <2>1, <3>1
  <2> QED BY <1>4, <1>a, <2>1, <2>2, <2>3, StageStep DEF Harness, Await
<1> QED BY <1>1, <1>2, <1>3, <1>4, <1>a, <1>k DEF Next, Service, OpenSpan, EndSpan

(* The invariant holds initially and every step keeps it.                  *)
LEMMA Inductive ==
    /\ Init => IInv
    /\ IInv /\ [Next]_vars => IInv'
<1>1. Init => IInv
  <2> SUFFICES ASSUME Init PROVE IInv
      OBVIOUS
  <2>1. flow \in [Runs -> Flows] /\ TypeOK
      BY InitTypes DEF Init
  <2>2. InsideEnds
    <3> SUFFICES ASSUME NEW r \in Runs, NEW t \in flow[r].inline
                 PROVE  sut[r][flow[r].caller[t]] # "ended"
        BY DEF InsideEnds
    <3>1. flow[r].caller[t] \in Names
        BY <2>1, FlowFacts
    <3> QED BY <3>1 DEF Init
  <2>3. Closed /\ Waited /\ Calm /\ Answered
      BY DEF Init, Closed, InlineClosed, Waited, Calm, Answered
  <2> QED BY <2>1, <2>2, <2>3 DEF IInv
<1>2. ASSUME IInv, Next PROVE IInv'
    BY <1>2, TypeStep, InsideStep, ClosedStep, WaitedStep, CalmStep, AnsweredStep DEF IInv
<1>3. ASSUME IInv, UNCHANGED vars PROVE IInv'
  <2>1. TypeOK'
      BY <1>3, TypeStep DEF IInv
  <2>2. UNCHANGED <<flow, sut, rest, stage, idle, lastCount, spans, complete>>
      BY <1>3 DEF vars, harness
  <2>3. InsideEnds' /\ Closed' /\ Waited'
      BY <1>3, <2>2 DEF IInv, InsideEnds, Closed, InlineClosed, Correlated, Waited, Entry
  <2>4. Calm'
      BY <1>3, <2>2 DEF IInv, Calm, Counted, Rested
  <2>5. Answered'
      BY <1>3, <2>2 DEF IInv, Answered, RootEnded, AllSeen, HasRoot, Parentless, HasParent,
                        ParentOf, Kind, Op
  <2> QED BY <2>1, <2>3, <2>4, <2>5 DEF IInv
<1> QED BY <1>1, <1>2, <1>3

-----------------------------------------------------------------------------
(* Each span of a surfaced capture had been over for the quiet interval,   *)
(* for every Quiet, every flow and however many tests share the recorder:  *)
(* comparing counts is enough to notice every late span.                   *)
THEOREM CapturesAreQuiet == Spec => []QuietHeld
<1>1. IInv => QuietHeld
    BY DEF IInv, Answered, QuietHeld, Returned
<1> QED BY <1>1, Inductive, PTL DEF Spec

(* The entry is the only server or consumer span of an event flow whose    *)
(* deliver function may return early (see capture_nested).                 *)
EntryAlone ==
    \A f \in Flows : f.waits \/ \A s \in f.spans \ {f.entry} : f.kind[s] \notin ServiceKinds

(* Under that condition an answered run is whole. *)
LEMMA WholeRun ==
    ASSUME EntryAlone, IInv, NEW r \in Runs, complete[r], HasRoot(flow, spans[r])
    PROVE  /\ Entry(r) \in spans[r] /\ Parentless(flow, spans[r]) = {Entry(r)}
           /\ InlineClosed(flow, spans[r]) /\ AllSeen(flow, spans[r], r)
<1>1. /\ stage[r] \in {"collect", "done"} /\ RootEnded(flow, spans[r])
      /\ AllSeen(flow, spans[r], r) /\ InlineClosed(flow, spans[r])
    BY DEF IInv, Answered, Closed
<1>2. flow[r] \in Flows /\ flow \in [Runs -> Flows]
      /\ spans[r] \subseteq Scope(flow, Recorder, r)
    BY DEF IInv, TypeOK
<1>3. Entry(r) \in spans[r]
  <2>1. CASE flow[r].waits
      BY <1>1, <2>1 DEF IInv, Waited
  <2>2. CASE ~flow[r].waits
    <3>1. PICK x \in spans[r] : Kind(flow, x) \in ServiceKinds
        BY <1>1 DEF RootEnded, Parentless
    <3>2. PICK s \in flow[r].spans : x = <<r, s>>
        BY <1>2, <3>1, ScopeFacts
    <3>3. s = flow[r].entry
        BY <1>2, <2>2, <3>1, <3>2 DEF EntryAlone, Kind
    <3> QED BY <3>1, <3>2, <3>3 DEF Entry
  <2> QED BY <2>1, <2>2
<1>4. Entry(r) \in Parentless(flow, spans[r])
    BY <1>2, <1>3, FlowFacts DEF Parentless, HasParent, Entry
<1>5. Parentless(flow, spans[r]) = {Entry(r)}
    BY <1>4 DEF HasRoot
<1> QED BY <1>1, <1>3, <1>5

(* A surfaced capture is never a truncated one: it has the entry, what ran *)
(* inside each of its spans, a span per marker, and no second root.        *)
THEOREM SurfacedIsWhole ==
    ASSUME EntryAlone
    PROVE  Spec => []WholeWhenComplete
<1>1. IInv => WholeWhenComplete
  <2> SUFFICES ASSUME IInv, NEW r \in Runs, Returned(r)
               PROVE  /\ Entry(r) \in spans[r]
                      /\ Parentless(flow, spans[r]) = {Entry(r)}
                      /\ InlineClosed(flow, spans[r])
                      /\ AllSeen(flow, spans[r], r)
      BY DEF WholeWhenComplete
  <2>1. complete[r] /\ HasRoot(flow, spans[r])
      BY DEF Returned, IInv, Answered
  <2> QED BY <2>1, WholeRun
<1> QED BY <1>1, Inductive, PTL DEF Spec

-----------------------------------------------------------------------------
(* What is lost is disclosed: the recorder read after the wait holds what  *)
(* ran inside a captured span, with its run's id or without.               *)

(* A lost span in the recorder is counted. *)
LEMMA LostIsCounted ==
    ASSUME flow \in [Runs -> Flows], NEW x \in Recorder, ~Correlated(flow, x)
    PROVE  CorrelationLess(flow, Recorder) > 0
<1> DEFINE L == {y \in Recorder : ~Correlated(flow, y)}
<1>1. L \in SUBSET Recorder /\ x \in L
    OBVIOUS
<1>2. IsFiniteSet(L) /\ Cardinality(L) \in Nat
    BY <1>1, RecorderFinite, FS_Subset, FS_CardinalityType
<1>3. Cardinality(L) # 0
    BY <1>1, <1>2, FS_EmptySet
<1> QED BY <1>2, <1>3 DEF CorrelationLess

(* No step of a run makes it answer again, and its answer counts the loss. *)
LEMMA LossStep == TypeOK /\ InsideEnds /\ LossDisclosed /\ Next => LossDisclosed'
<1> SUFFICES ASSUME TypeOK, InsideEnds, LossDisclosed, Next, NEW r \in Runs, Returned(r)',
                    NEW s \in flow[r].inline, flow[r].ctx[s] = "lost",
                    <<r, flow[r].caller[s]>> \in spans'[r]
             PROVE  lost'[r] > 0
    BY FlowFixed DEF LossDisclosed
<1>1. ASSUME stage'[r] = stage[r], spans'[r] = spans[r], complete'[r] = complete[r], lost'[r] = lost[r]
      PROVE  lost'[r] > 0
    BY <1>1 DEF LossDisclosed, Returned
<1>2. CASE UNCHANGED harness
    BY <1>1, <1>2 DEF harness
<1>3. CASE UNCHANGED <<stage, spans, complete, lost>>
    BY <1>1, <1>3
<1>4. ASSUME NEW q \in Runs \ {r}, Harness(q)
      PROVE  lost'[r] > 0
  <2>1. lost'[r] = lost[r]
      BY <1>4 DEF Harness, Trigger, StartAwait, Await, Snapshot, Note, Complete, NotYet, TimeOut,
                  Sleep, Collect, TypeOK
  <2> QED BY <1>1, <1>4, <2>1, Others
<1>5. CASE Harness(r)
  <2>1. Collect(r)
      BY <1>5, StageStep DEF Harness, Await, Returned
  <2>2. spans' = spans /\ lost'[r] = CorrelationLess(flow, Recorder)
      BY <2>1 DEF Collect, TypeOK
  <2>3. sut[r][flow[r].caller[s]] = "ended"
    <3>1. <<r, flow[r].caller[s]>> \in Scope(flow, Recorder, r)
        BY <2>2 DEF TypeOK
    <3> QED BY <3>1, ScopeFacts
  <2>4. sut[r][s] = "ended" /\ s \in flow[r].spans
      BY <2>3, FlowFacts DEF InsideEnds, TypeOK
  <2>5. <<r, s>> \in Recorder /\ ~Correlated(flow, <<r, s>>)
      BY <2>4 DEF Recorder, Correlated
  <2>6. flow \in [Runs -> Flows]
      BY DEF TypeOK
  <2> QED BY <2>2, <2>5, <2>6, LostIsCounted
<1> QED BY <1>2, <1>3, <1>4, <1>5 DEF Next, Service, OpenSpan, EndSpan, Tick

(* A surfaced capture never misses a span that lost its run's id without   *)
(* saying so, whatever ran meanwhile (capture.Capture, M-18).              *)
THEOREM LossIsDisclosed == Spec => []LossDisclosed
<1>1. Init => LossDisclosed
    BY DEF Init, LossDisclosed, Returned
<1>2. IInv /\ LossDisclosed /\ [Next]_vars => LossDisclosed'
  <2>1. IInv /\ LossDisclosed /\ Next => LossDisclosed'
      BY LossStep DEF IInv
  <2>2. LossDisclosed /\ UNCHANGED vars => LossDisclosed'
      BY DEF vars, harness, LossDisclosed, Returned
  <2> QED BY <2>1, <2>2
<1> QED BY <1>1, <1>2, Inductive, PTL DEF Spec

-----------------------------------------------------------------------------
(* Determinism: what a surfaced run captured depends on the flow alone.    *)

Born(r) == {s \in flow[r].spans : sut[r][s] # "unborn"}

(* Every span but the entry was opened by one that was there before it: no *)
(* set of spans that were opened hangs by itself.                          *)
Rooted ==
    \A r \in Runs :
        /\ \A s \in Born(r) \ {flow[r].entry} : flow[r].caller[s] \in Born(r)
        /\ \A X \in SUBSET Born(r) :
              X # {} => \E x \in X : x = flow[r].entry \/ flow[r].caller[x] \notin X

(* No run has a span at the start. *)
LEMMA RootedInit == Init => Rooted
<1> SUFFICES ASSUME Init, NEW r \in Runs PROVE Born(r) = {}
    BY DEF Rooted
<1>1. flow[r].spans \subseteq Names
    BY FlowFacts DEF Init
<1> QED BY <1>1 DEF Init, Born

(* A span is only born below a span of its own run. *)
LEMMA RootedStep == TypeOK /\ Rooted /\ Next => Rooted'
<1> SUFFICES ASSUME TypeOK, Rooted, Next PROVE Rooted'
    OBVIOUS
<1>f. flow' = flow
    BY FlowFixed
<1>1. CASE Service
  <2>1. PICK q \in Runs : \E s \in flow[q].spans : OpenSpan(q, s) \/ EndSpan(q, s)
      BY <1>1 DEF Service
  <2>2. PICK s \in flow[q].spans : OpenSpan(q, s) \/ EndSpan(q, s)
      BY <2>1
  <2>3. /\ sut \in [Runs -> [Names -> {"unborn", "open", "ended"}]]
        /\ \A r \in Runs : flow[r].spans \subseteq Names
      BY FlowFacts DEF TypeOK
  <2>4. \A r \in Runs \ {q} : Born(r)' = Born(r)
      BY <1>f, <2>2, <2>3 DEF Born, OpenSpan, EndSpan
  <2>5. CASE EndSpan(q, s)
    <3>1. Born(q)' = Born(q)
        BY <1>f, <2>3, <2>5 DEF Born, EndSpan
    <3> QED BY <1>f, <2>4, <3>1 DEF Rooted
  <2>6. CASE OpenSpan(q, s)
    <3> DEFINE c == flow[q].caller[s]
    <3>1. Born(q)' = Born(q) \cup {s} /\ s \notin Born(q)
        BY <1>f, <2>3, <2>6 DEF Born, OpenSpan
    <3>2. s # flow[q].entry => c \in Born(q)
      <4>1. flow[q] \in Flows /\ FlowOK(flow[q])
          BY FlowsOK DEF TypeOK
      <4>2. c \in flow[q].spans
          BY <4>1 DEF FlowOK
      <4> QED BY <2>6, <4>2 DEF OpenSpan, Born
    <3>3. \A t \in Born(q)' \ {flow[q].entry} : flow[q].caller[t] \in Born(q)'
        BY <3>1, <3>2 DEF Rooted
    <3>4. ASSUME NEW X \in SUBSET Born(q)', X # {}
          PROVE  \E x \in X : x = flow[q].entry \/ flow[q].caller[x] \notin X
      <4>1. CASE X = {s}
          BY <3>1, <3>2, <4>1
      <4>2. CASE X # {s}
        <5>1. X \ {s} # {} /\ X \ {s} \in SUBSET Born(q)
            BY <3>1, <3>4, <4>2
        <5>2. PICK x \in X \ {s} : x = flow[q].entry \/ flow[q].caller[x] \notin X \ {s}
            BY <5>1 DEF Rooted
        <5>3. x # flow[q].entry => flow[q].caller[x] # s
            BY <3>1, <5>1 DEF Rooted
        <5> QED BY <5>2, <5>3
      <4> QED BY <4>1, <4>2
    <3> QED BY <1>f, <2>4, <3>3, <3>4 DEF Rooted
  <2> QED BY <2>2, <2>5, <2>6
<1>2. CASE UNCHANGED <<flow, sut>>
    BY <1>2 DEF Rooted, Born
<1> QED BY <1>1, <1>2, Own DEF Next, Tick

(* Of two surfaced runs of one flow the second has what the first has. *)
LEMMA HasWhatTheOtherHas ==
    ASSUME EntryAlone, IInv, Rooted, NEW q \in Runs, NEW r \in Runs, Returned(q), Returned(r),
           flow[q] = flow[r], Declared(flow[r])
    PROVE  {x[2] : x \in spans[q]} \subseteq {x[2] : x \in spans[r]}
<1> DEFINE A == {x[2] : x \in spans[q]}
           B == {x[2] : x \in spans[r]}
           f == flow[r]
<1>1. \A p \in Runs : Returned(p) =>
        /\ Entry(p) \in spans[p] /\ Parentless(flow, spans[p]) = {Entry(p)}
        /\ InlineClosed(flow, spans[p]) /\ AllSeen(flow, spans[p], p)
    BY WholeRun DEF Returned, IInv, Answered
<1>2. \A p \in {q, r} : \A x \in spans[p] :
         /\ x = <<p, x[2]>> /\ x[2] \in f.spans /\ sut[p][x[2]] = "ended" /\ f.ctx[x[2]] # "lost"
  <2>1. \A p \in {q, r} : spans[p] \subseteq Scope(flow, Recorder, p)
      BY DEF IInv, TypeOK
  <2> QED BY <2>1, ScopeFacts
<1> SUFFICES ASSUME A \ B # {} PROVE FALSE
    OBVIOUS
<1>3. A \ B \in SUBSET Born(q)
    BY <1>2 DEF Born
<1>4. PICK s \in A \ B : s = f.entry \/ f.caller[s] \notin A \ B
    BY <1>3 DEF Rooted
<1>5. <<q, s>> \in spans[q] /\ s \in f.spans /\ f.ctx[s] # "lost" /\ <<r, s>> \notin spans[r]
  <2>1. PICK x \in spans[q] : s = x[2]
      BY <1>4
  <2>2. x = <<q, s>>
      BY <1>2, <2>1
  <2>3. <<r, s>> \in spans[r] => s \in B
    <3>1. <<r, s>>[2] = s
        OBVIOUS
    <3> QED BY <3>1
  <2> QED BY <1>2, <1>4, <2>1, <2>2, <2>3
<1>6. s # f.entry
    BY <1>1, <1>5 DEF Entry
<1>7. CASE s \notin f.inline
  <2>1. f.op[s] \in f.markers /\ \A t \in f.spans \ {s} : f.op[t] # f.op[s]
      BY <1>5, <1>6, <1>7 DEF Declared
  <2>2. PICK y \in spans[r] : Op(flow, y) = f.op[s]
      BY <1>1, <2>1 DEF AllSeen
  <2>3. y = <<r, y[2]>> /\ y[2] \in f.spans
      BY <1>2
  <2>4. f.op[y[2]] = f.op[s]
      BY <2>2, <2>3 DEF Op
  <2> QED BY <1>5, <2>1, <2>2, <2>3, <2>4
<1>8. CASE s \in f.inline
  <2>1. <<q, s>> \notin Parentless(flow, spans[q])
    <3>1. Parentless(flow, spans[q]) = {<<q, f.entry>>}
        BY <1>1 DEF Entry
    <3>2. <<q, s>> # <<q, f.entry>>
        BY <1>6
    <3> QED BY <3>1, <3>2
  <2>2. <<q, f.caller[s]>> \in spans[q]
      BY <1>5, <2>1 DEF Parentless, ParentOf
  <2>3. f.caller[s] \in A
    <3>1. <<q, f.caller[s]>>[2] = f.caller[s]
        OBVIOUS
    <3> QED BY <2>2, <3>1
  <2>4. f.caller[s] \in B
      BY <1>4, <1>6, <2>3
  <2>5. PICK y \in spans[r] : y = <<r, f.caller[s]>>
      BY <1>2, <2>4
  <2>6. Correlated(flow, <<r, s>>)
      BY <1>5 DEF Correlated
  <2> QED BY <1>1, <1>5, <1>8, <2>5, <2>6 DEF InlineClosed
<1> QED BY <1>7, <1>8

(* Runs of one flow whose late effects are declared capture the same       *)
(* spans, whatever the order of the service, the harness and the clock and *)
(* whatever else the process runs (harness.SelfTest, M-19).                *)
THEOREM SurfacedRunsAgree ==
    ASSUME EntryAlone
    PROVE  Spec => []RunsAgree
<1>1. IInv /\ Rooted => RunsAgree
    BY HasWhatTheOtherHas DEF RunsAgree
<1>2. Rooted /\ UNCHANGED vars => Rooted'
    BY DEF Rooted, Born, vars, service
<1>3. IInv /\ Rooted /\ [Next]_vars => Rooted'
    BY <1>2, RootedStep DEF IInv
<1> QED BY <1>1, <1>3, RootedInit, Inductive, PTL DEF Spec

-----------------------------------------------------------------------------
(* The refinement: what the caller is given is an abstract answer.         *)
AnswerOf ==
    [r \in Runs |->
       IF stage[r] # "done" THEN [kind |-> "none", spans |-> {}]
       ELSE IF complete[r] THEN [kind |-> "complete", spans |-> spans[r]]
       ELSE [kind |-> "truncated", spans |-> {}]]

(* The contract speaks of the flows in the harness's own words.            *)
LEMMA SameWords ==
    ASSUME NEW fl, NEW S, NEW r
    PROVE  /\ Contract!Scope(fl, S, r) = Scope(fl, S, r)
           /\ Contract!Parentless(fl, S) = Parentless(fl, S)
           /\ Contract!InlineClosed(fl, S) <=> InlineClosed(fl, S)
           /\ Contract!AllSeen(fl, S, r) <=> AllSeen(fl, S, r)
BY DEF Contract!Scope, Scope, Contract!Parentless, Parentless, Contract!InlineClosed,
       InlineClosed, Contract!AllSeen, AllSeen, Contract!HasParent, HasParent,
       Contract!ParentOf, ParentOf, Contract!Correlated, Correlated, Contract!Op, Op

(* Nothing is answered and nothing recorded when the runs begin.           *)
LEMMA ContractStarts == Init => Contract!ContractInit
<1> SUFFICES ASSUME Init PROVE Contract!ContractInit
    OBVIOUS
<1>1. flow \in [Runs -> Flows] /\ AnswerOf = [r \in Runs |-> [kind |-> "none", spans |-> {}]]
    BY DEF Init, AnswerOf
<1>2. Recorder = {}
  <2>1. \A r \in Runs : flow[r].spans \subseteq Names
      BY <1>1, FlowFacts
  <2> QED BY <2>1 DEF Init, Recorder
<1> QED BY <1>1, <1>2 DEF Contract!ContractInit, Contract!Unanswered, AnswerOf

(* Collect gives the run's answer; any other step of the harness, of the   *)
(* service or of the clock lets spans end or is unseen.                    *)
LEMMA ContractStep ==
    ASSUME EntryAlone, IInv, [Next]_vars
    PROVE  Contract!ContractNext \/ UNCHANGED <<flow, Recorder, AnswerOf>>
<1>t. TypeOK
    BY DEF IInv
<1>1. CASE UNCHANGED vars
    BY <1>1 DEF vars, harness, Recorder, AnswerOf
<1>2. CASE Service
  <2>1. UNCHANGED <<flow, harness>>
      BY <1>2 DEF Service, OpenSpan, EndSpan
  <2>2. \A r \in Runs : \A s \in flow[r].spans : sut[r][s] = "ended" => sut'[r][s] = "ended"
    <3>1. PICK q \in Runs : \E s \in flow[q].spans : OpenSpan(q, s) \/ EndSpan(q, s)
        BY <1>2 DEF Service
    <3>2. PICK s \in flow[q].spans : OpenSpan(q, s) \/ EndSpan(q, s)
        BY <3>1
    <3>3. /\ sut \in [Runs -> [Names -> {"unborn", "open", "ended"}]]
          /\ \A r \in Runs : flow[r].spans \subseteq Names
        BY <1>t, FlowFacts DEF TypeOK
    <3>4. sut[q][s] # "ended" /\ (\/ sut' = [sut EXCEPT ![q][s] = "open"]
                                  \/ sut' = [sut EXCEPT ![q][s] = "ended"])
        BY <3>2 DEF OpenSpan, EndSpan
    <3> QED BY <3>3, <3>4
  <2>3. Recorder \subseteq Recorder'
      BY <2>1, <2>2 DEF Recorder
  <2>4. UNCHANGED <<flow, AnswerOf>>
      BY <2>1 DEF harness, AnswerOf
  <2>5. Contract!SpansEnd
      BY <2>3, <2>4 DEF Contract!SpansEnd, AnswerOf
  <2> QED BY <2>5 DEF Contract!ContractNext
<1>3. ASSUME UNCHANGED <<flow, sut, stage, spans, complete>>
      PROVE  UNCHANGED <<flow, Recorder, AnswerOf>>
    BY <1>3 DEF Recorder, AnswerOf
<1>4. ASSUME NEW r \in Runs, Harness(r), ~Collect(r)
      PROVE  UNCHANGED <<flow, Recorder, AnswerOf>>
  <2>1. UNCHANGED <<flow, sut>>
      BY <1>4, <1>t, Own
  <2>2. stage[r] # "done" /\ stage'[r] # "done"
      BY <1>4, <1>t, StageStep DEF Harness, Await
  <2>3. \A q \in Runs \ {r} : /\ stage'[q] = stage[q] /\ spans'[q] = spans[q]
                              /\ complete'[q] = complete[q]
      BY <1>4, <1>t, Others
  <2>4. UNCHANGED AnswerOf
      BY <2>2, <2>3 DEF AnswerOf
  <2> QED BY <2>1, <2>4 DEF Recorder
<1>5. ASSUME NEW r \in Runs, Collect(r) PROVE Contract!Answer(r)
  <2>1. /\ UNCHANGED <<flow, sut, spans>> /\ stage[r] = "collect"
        /\ stage' = [stage EXCEPT ![r] = "done"]
        /\ complete' = [complete EXCEPT ![r] = @ /\ HasRoot(flow, spans[r])]
      BY <1>5 DEF Collect, service
  <2>2. AnswerOf[r] = Contract!Unanswered
      BY <2>1 DEF AnswerOf, Contract!Unanswered
  <2>3. UNCHANGED <<flow, Recorder>>
      BY <2>1 DEF Recorder
  <2>4. CASE complete[r] /\ HasRoot(flow, spans[r])
    <3>1. AnswerOf' = [AnswerOf EXCEPT ![r] = [kind |-> "complete", spans |-> spans[r]]]
        BY <1>t, <2>1, <2>4 DEF AnswerOf, TypeOK
    <3>2. spans[r] \subseteq Scope(flow, Recorder, r) /\ spans[r] \in SUBSET Recorder
        BY <1>t DEF TypeOK, Scope
    <3>3. Contract!Whole(spans[r], r)
        BY <2>4, <3>2, WholeRun, SameWords DEF Contract!Whole, Entry
    <3> QED BY <2>2, <2>3, <3>1, <3>2, <3>3 DEF Contract!Answer, AnswerOf
  <2>5. CASE ~(complete[r] /\ HasRoot(flow, spans[r]))
    <3>1. AnswerOf' = [AnswerOf EXCEPT ![r] = Contract!Truncated]
        BY <1>t, <2>1, <2>5 DEF AnswerOf, TypeOK, Contract!Truncated
    <3> QED BY <2>2, <2>3, <3>1 DEF Contract!Answer, AnswerOf
  <2> QED BY <2>4, <2>5
<1>6. CASE Tick
    BY <1>3, <1>6 DEF Tick
<1> QED BY <1>1, <1>2, <1>4, <1>5, <1>6 DEF Next, Contract!ContractNext

(* The harness implements its contract: it answers each run once, and only *)
(* ever with "truncated" or with a whole, closed tree of that run's spans. *)
THEOREM HarnessKeepsContract ==
    ASSUME EntryAlone
    PROVE  Spec => KeepsContract
<1>1. Init => Contract!ContractInit
    BY ContractStarts
<1>2. IInv /\ [Next]_vars => [Contract!ContractNext]_<<flow, Recorder, AnswerOf>>
    BY ContractStep
<1> QED BY <1>1, <1>2, Inductive, PTL
        DEF Spec, KeepsContract, Contract!Contract, AnswerOf
=============================================================================
