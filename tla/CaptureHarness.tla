--------------------------- MODULE CaptureHarness ---------------------------
(***************************************************************************)
(* The in-process capture harness (harness/harness.go, internal/await,     *)
(* capture/capture.go) with the instrumented service it drives.            *)
(*                                                                         *)
(* Each run is a goroutine of its own that triggers its flow, waits until  *)
(* the flow is over and takes its spans out of the process-wide recorder:  *)
(*                                                                         *)
(*   idle -> driving -> poll -> note -> check -> late -> poll ...          *)
(*                                     \-> collect <-/       -> done       *)
(*                                                                         *)
(* poll .. late are the lines of Await's loop: the snapshot, the two       *)
(* readings of the clock that follow it, and the deadline.  The service    *)
(* opens and ends spans at any moment between them, and time may pass      *)
(* between any two of them.  Of the clock only the differences the code    *)
(* takes are kept, each counted no further than the bound it is compared   *)
(* with: elapsed (since the deadline was set), idle (since lastChange) and *)
(* rest (since a span ended, which no code reads).                         *)
(***************************************************************************)
EXTENDS CapturedFlow, Integers

CONSTANTS
    Quiet,    \* CaptureOptions.Quiet, in clock ticks
    Timeout   \* CaptureOptions.Timeout

ASSUME TimesOK == Quiet \in Nat /\ Timeout \in Nat

VARIABLES
    flow,       \* the flow each run drives
    sut,        \* per run and span: unborn, open or ended
    stage,
    elapsed, idle, rest,
    lastCount,
    spans,      \* the last scoped snapshot
    complete,   \* Await's answer, then CapturedFlow.Complete
    lost        \* CapturedFlow.CorrelationLess

service == <<sut, rest>>
harness == <<stage, elapsed, idle, lastCount, spans, complete, lost>>
vars    == <<flow, sut, rest, harness>>

Polling == {"poll", "note", "check", "late"}
Stages  == {"idle", "driving", "collect", "done"} \cup Polling

(* What the SpanRecorder holds: it is given a span when the span ends. *)
Recorder ==
    UNION {{<<r, s>> : s \in {t \in flow[r].spans : sut[r][t] = "ended"}} : r \in Runs}

AtMost(n, bound) == IF n > bound THEN bound ELSE n

-----------------------------------------------------------------------------
(* The service under test.                                                 *)

(* The entry opens when the trigger reaches it, an inline span while its   *)
(* caller runs, a detached one any time after its caller began.            *)
OpenSpan(r, s) ==
    /\ sut[r][s] = "unborn"
    /\ IF s = flow[r].entry THEN stage[r] # "idle"
       ELSE IF s \in flow[r].inline THEN sut[r][flow[r].caller[s]] = "open"
       ELSE sut[r][flow[r].caller[s]] # "unborn"
    /\ sut' = [sut EXCEPT ![r][s] = "open"]
    /\ UNCHANGED <<flow, rest, harness>>

(* A span ends once everything inside it has; the recorder gets it then. *)
EndSpan(r, s) ==
    /\ sut[r][s] = "open"
    /\ \A t \in flow[r].inline : flow[r].caller[t] = s => sut[r][t] = "ended"
    /\ sut' = [sut EXCEPT ![r][s] = "ended"]
    /\ UNCHANGED <<flow, rest, harness>>

Service == \E r \in Runs : \E s \in flow[r].spans : OpenSpan(r, s) \/ EndSpan(r, s)

-----------------------------------------------------------------------------
(* The harness.                                                            *)

(* App.HTTP, App.Event: a run id of its own and the request on its way. *)
Trigger(r) ==
    /\ stage[r] = "idle"
    /\ stage' = [stage EXCEPT ![r] = "driving"]
    /\ UNCHANGED <<flow, service, elapsed, idle, lastCount, spans, complete, lost>>

(* ServeHTTP returns when the entry has ended; deliver may return earlier. *)
(* Capture is called and Await reads the clock for its deadline.           *)
StartAwait(r) ==
    /\ stage[r] = "driving"
    /\ flow[r].waits => sut[r][flow[r].entry] = "ended"
    /\ stage' = [stage EXCEPT ![r] = "poll"]
    /\ elapsed' = [elapsed EXCEPT ![r] = 0]
    /\ idle' = [idle EXCEPT ![r] = 0]
    /\ lastCount' = [lastCount EXCEPT ![r] = -1]
    /\ UNCHANGED <<flow, service, spans, complete, lost>>

(* spans = snapshot() *)
Snapshot(r) ==
    /\ stage[r] = "poll"
    /\ spans' = [spans EXCEPT ![r] = Scope(flow, Recorder, r)]
    /\ stage' = [stage EXCEPT ![r] = "note"]
    /\ UNCHANGED <<flow, service, elapsed, idle, lastCount, complete, lost>>

(* if len(spans) != lastCount { lastCount = ..; lastChange = now() } *)
Note(r) ==
    /\ stage[r] = "note"
    /\ lastCount' = [lastCount EXCEPT ![r] = Cardinality(spans[r])]
    /\ idle' = [idle EXCEPT ![r] = IF Cardinality(spans[r]) # lastCount[r] THEN 0 ELSE @]
    /\ stage' = [stage EXCEPT ![r] = "check"]
    /\ UNCHANGED <<flow, service, elapsed, spans, complete, lost>>

(* Mutated: the markers are not waited for. *)
QuiescentUnmarked(r) ==
    /\ RootEnded(flow, spans[r])
    /\ Cardinality(spans[r]) >= flow[r].minSpans
    /\ idle[r] >= Quiet

Quiescent(r) ==
    /\ RootEnded(flow, spans[r])
    /\ AllSeen(flow, spans[r], r)
    /\ Cardinality(spans[r]) >= flow[r].minSpans
    /\ idle[r] >= Quiet

Complete(r) ==
    /\ stage[r] = "check"
    /\ Quiescent(r)
    /\ complete' = [complete EXCEPT ![r] = TRUE]
    /\ stage' = [stage EXCEPT ![r] = "collect"]
    /\ UNCHANGED <<flow, service, elapsed, idle, lastCount, spans, lost>>

NotYet(r) ==
    /\ stage[r] = "check"
    /\ ~Quiescent(r)
    /\ stage' = [stage EXCEPT ![r] = "late"]
    /\ UNCHANGED <<flow, service, elapsed, idle, lastCount, spans, complete, lost>>

(* now().After(deadline): return spans, false *)
TimeOut(r) ==
    /\ stage[r] = "late"
    /\ elapsed[r] > Timeout
    /\ stage' = [stage EXCEPT ![r] = "collect"]
    /\ UNCHANGED <<flow, service, elapsed, idle, lastCount, spans, complete, lost>>

(* Mutated: the deadline is set anew on every round. *)
SleepExtends(r) ==
    /\ stage[r] = "late"
    /\ elapsed[r] <= Timeout
    /\ stage' = [stage EXCEPT ![r] = "poll"]
    /\ elapsed' = [elapsed EXCEPT ![r] = 0]
    /\ UNCHANGED <<flow, service, idle, lastCount, spans, complete, lost>>

(* sleep(poll) *)
Sleep(r) ==
    /\ stage[r] = "late"
    /\ elapsed[r] <= Timeout
    /\ stage' = [stage EXCEPT ![r] = "poll"]
    /\ UNCHANGED <<flow, service, elapsed, idle, lastCount, spans, complete, lost>>

(* Mutated: correlation-less spans are counted over the scoped set (M-18). *)
CollectScoped(r) ==
    /\ stage[r] = "collect"
    /\ complete' = [complete EXCEPT ![r] = @ /\ HasRoot(flow, spans[r])]
    /\ lost' = [lost EXCEPT ![r] = CorrelationLess(flow, spans[r])]
    /\ stage' = [stage EXCEPT ![r] = "done"]
    /\ UNCHANGED <<flow, service, elapsed, idle, lastCount, spans>>

(* The rest of Capture: the root of what Await returned decides whether it *)
(* is surfaced, and the recorder is read once more for the disclosure.     *)
Collect(r) ==
    /\ stage[r] = "collect"
    /\ complete' = [complete EXCEPT ![r] = @ /\ HasRoot(flow, spans[r])]
    /\ lost' = [lost EXCEPT ![r] = CorrelationLess(flow, Recorder)]
    /\ stage' = [stage EXCEPT ![r] = "done"]
    /\ UNCHANGED <<flow, service, elapsed, idle, lastCount, spans>>

Await(r) ==
    Snapshot(r) \/ Note(r) \/ Complete(r) \/ NotYet(r) \/ TimeOut(r) \/ Sleep(r)

Harness(r) == Trigger(r) \/ StartAwait(r) \/ Await(r) \/ Collect(r)

(* The clock.  It matters only while some run waits. *)
Tick ==
    /\ \E r \in Runs : stage[r] \in Polling
    /\ elapsed' = [r \in Runs |->
                     IF stage[r] \in Polling THEN AtMost(elapsed[r] + 1, Timeout + 1)
                     ELSE elapsed[r]]
    /\ idle' = [r \in Runs |->
                     IF stage[r] \in Polling THEN AtMost(idle[r] + 1, Quiet) ELSE idle[r]]
    /\ rest' = [r \in Runs |-> [s \in Names |->
                     IF sut[r][s] = "ended" THEN AtMost(rest[r][s] + 1, Quiet)
                     ELSE rest[r][s]]]
    /\ UNCHANGED <<flow, sut, stage, lastCount, spans, complete, lost>>

-----------------------------------------------------------------------------
Init ==
    /\ flow \in [Runs -> Flows]
    /\ sut = [r \in Runs |-> [s \in Names |-> "unborn"]]
    /\ rest = [r \in Runs |-> [s \in Names |-> 0]]
    /\ stage = [r \in Runs |-> "idle"]
    /\ elapsed = [r \in Runs |-> 0]
    /\ idle = [r \in Runs |-> 0]
    /\ lastCount = [r \in Runs |-> -1]
    /\ spans = [r \in Runs |-> {}]
    /\ complete = [r \in Runs |-> FALSE]
    /\ lost = [r \in Runs |-> 0]

Next == Service \/ (\E r \in Runs : Harness(r)) \/ Tick

Spec == Init /\ [][Next]_vars

(* The loop's goroutine is scheduled and time passes.  Nothing is assumed  *)
(* of the service: a handler may hang and a goroutine may never finish.    *)
FairSpec ==
    /\ Spec
    /\ WF_vars(Tick)
    /\ \A r \in Runs : WF_vars(Await(r) \/ Collect(r))

-----------------------------------------------------------------------------
TypeOK ==
    /\ flow \in [Runs -> Flows]
    /\ sut \in [Runs -> [Names -> {"unborn", "open", "ended"}]]
    /\ rest \in [Runs -> [Names -> 0..Quiet]]
    /\ DOMAIN spans = Runs
    /\ \A r \in Runs : spans[r] \subseteq Scope(flow, Recorder, r)
    /\ stage \in [Runs -> Stages]
    /\ elapsed \in [Runs -> 0..(Timeout + 1)] /\ idle \in [Runs -> 0..Quiet]
    /\ lastCount \in [Runs -> Nat \cup {-1}]
    /\ complete \in [Runs -> BOOLEAN] /\ lost \in [Runs -> Nat]

Returned(r) == stage[r] = "done" /\ complete[r]
Entry(r)    == <<r, flow[r].entry>>

(* A surfaced capture is the whole of the flow's synchronous part: the     *)
(* entry, with each captured span all that ran inside it, every declared   *)
(* marker, and nothing whose parent it lacks but the entry.  A span it     *)
(* misses is on a goroutine that no marker names.                          *)
WholeWhenComplete ==
    \A r \in Runs : Returned(r) =>
        /\ Entry(r) \in spans[r]
        /\ Parentless(flow, spans[r]) = {Entry(r)}
        /\ InlineClosed(flow, spans[r])
        /\ AllSeen(flow, spans[r], r)

(* Quiescence is never claimed over a span that has just ended: each span  *)
(* of a surfaced capture had been over for the quiet interval.             *)
QuietHeld == \A r \in Runs : Returned(r) => \A x \in spans[r] : rest[r][x[2]] >= Quiet

(* Every effect that may come late is named by a marker only it satisfies. *)
Declared(f) ==
    \A s \in f.spans \ (f.inline \cup {f.entry}) :
        f.ctx[s] # "lost" =>
            f.op[s] \in f.markers /\ \A t \in f.spans \ {s} : f.op[t] # f.op[s]

(* The determinism the golden rests on (M-19): runs of one flow whose late *)
(* effects are declared, when surfaced at all, capture the same spans, in  *)
(* whatever order the runs, their goroutines and the clock go.             *)
RunsAgree ==
    \A q, r \in Runs :
        Returned(q) /\ Returned(r) /\ flow[q] = flow[r] /\ Declared(flow[r]) =>
            {x[2] : x \in spans[q]} = {x[2] : x \in spans[r]}

(* A span of the flow that lost its baggage leaves the capture, never      *)
(* silently: the count read after the wait includes it (M-18).             *)
LossDisclosed ==
    \A r \in Runs : Returned(r) =>
        \A s \in flow[r].inline :
            /\ flow[r].ctx[s] = "lost"
            /\ <<r, flow[r].caller[s]>> \in spans[r]
            => lost[r] > 0

(* Capture returns, whatever the service does. *)
CaptureReturns == \A r \in Runs : stage[r] \in Polling ~> stage[r] = "done"

(* Refinement: the capture as its caller sees it. *)
Contract == INSTANCE CaptureContract WITH
    ended  <- Recorder,
    answer <- [r \in Runs |->
                 IF stage[r] # "done" THEN [kind |-> "none", spans |-> {}]
                 ELSE IF complete[r] THEN [kind |-> "complete", spans |-> spans[r]]
                 ELSE [kind |-> "truncated", spans |-> {}]]

(* The harness implements its contract. *)
KeepsContract == Contract!Contract

(* Await's doc: completion requires that the root span has ended.          *)
RootHasEnded == \A r \in Runs : Returned(r) => Entry(r) \in spans[r]
=============================================================================
