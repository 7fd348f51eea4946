----------------------------- MODULE MCBehaviour -----------------------------
(***************************************************************************)
(* How a behavioural trace comes about and is gated: the capture of a      *)
(* driven flow, the flow test that compares what was captured with its     *)
(* golden, and a collector's export.                                       *)
(***************************************************************************)
EXTENDS MCFlowGate, ExportGate, MCCaptureHarness

-----------------------------------------------------------------------------
(* An order published by one service, handled by a second that publishes   *)
(* in turn, and a third: three traces, the flow named only in the first.   *)
(* Then a version whose second service also calls out, one whose consumer  *)
(* takes two messages, and one whose consumers link to each other.         *)
From(svc, sp) == [span |-> sp, resource |-> [svc |-> svc, stamp |-> "sha", grade |-> "production"]]
At2(sp, from, to) == [sp EXCEPT !.start = from, !.end = to]
Serve == [MCBlank EXCEPT !.kind = "server", !.attrs.method = "POST", !.attrs.route = Name("/orders"), !.slug = "checkout"]
Send(topic) == [MCBlank EXCEPT !.kind = "producer", !.attrs.mop = "publish", !.attrs.dest = Name(topic)]
Take(topic) == [MCBlank EXCEPT !.kind = "client", !.attrs.mop = "receive", !.attrs.dest = Name(topic), !.attrs.msys = "sqs"]
CallOut == [MCBlank EXCEPT !.kind = "client", !.attrs.method = "GET", !.attrs.peer = "rates", !.attrs.route = Name("/fx")]
Put(sp, trace, n, parent) == [sp EXCEPT !.id = <<trace, n>>, !.parent = IF parent = 0 THEN <<>> ELSE <<trace, parent>>]

A1 == From("a", Put(At2(Serve, 1, 9), 1, 1, 0))
A2 == From("a", Put(At2([Send("orders") EXCEPT !.slug = "checkout"], 2, 3), 1, 2, 1))
B1 == From("b", Put(At2([Take("orders") EXCEPT !.links = <<<<1, 2>>>>], 20, 30), 2, 1, 0))
B2 == From("b", Put(At2(Send("paid"), 22, 23), 2, 2, 1))
B3 == From("b", Put(At2(CallOut, 27, 29), 2, 3, 1))
C1 == From("c", Put(At2([Take("paid") EXCEPT !.links = <<<<2, 2>>>>], 40, 45), 3, 1, 0))
Batch == [C1 EXCEPT !.span.links = <<<<2, 1>>, <<2, 2>>>>]
Mutual == [B1 EXCEPT !.span.links = <<<<3, 1>>, <<1, 2>>>>]
MCTraffics ==
    [chain |-> {A1, A2, B1, B2, C1}, calls |-> {A1, A2, B1, B2, B3}, batch |-> {A2, B1, B2, B3, Batch},
     twins |-> {A1, A2, From("a", Put([Serve EXCEPT !.slug = "check-out"], 4, 1, 0))},
     mutual |-> {A1, A2, Mutual, B2, C1}]
MCResends == {B2}
MCStem == [k \in {"checkout", "check-out"} \X {"a", "b", "c"} |-> k[2]]   \* the flows' names share a file name

-----------------------------------------------------------------------------
VARIABLE path
allVars == <<path, flowVars, exportVars, vars>>

NoFlow ==
    /\ prog = <<>> /\ began = <<>> /\ ended = <<>> /\ clock = 0 /\ traces = <<>> /\ phase = "none" /\ verdict = {}
    /\ golden = None /\ recorded = <<>>
NoExport == traffic = "" /\ arrived = <<>> /\ goldens = {} /\ report = NoReport /\ status = "none" /\ deploys = 0

(* One test drives any flow, or two drive a flow that shares the recorder. *)
Alone  == CHOOSE r \in Runs : TRUE
Driven == IF flow[Alone] \in SharedFlows THEN Runs ELSE {Alone}
Mixed  == \A r \in Runs : IF Driven = Runs THEN flow[r] \in SharedFlows ELSE flow[r] = flow[Alone]
CaptureFlows == SingleFlows \cup SharedFlows
NoCapture == Init /\ \E f \in {CHOOSE f \in Flows : TRUE} : \A r \in Runs : flow[r] = f

BehaviourInit ==
    \/ path = "flow" /\ FlowInit /\ NoExport /\ NoCapture
    \/ path = "export" /\ ExportInit /\ NoFlow /\ NoCapture
    \/ path = "capture" /\ Init /\ Mixed /\ NoFlow /\ NoExport
InFlow    == path = "flow" /\ UNCHANGED <<path, exportVars, vars>>
InExport  == path = "export" /\ UNCHANGED <<path, flowVars, vars>>
InCapture == path = "capture" /\ UNCHANGED <<path, flowVars, exportVars>>
BehaviourNext ==
    \/ InFlow /\ \E t \in Tasks(prog) : Begin(t)
    \/ InFlow /\ \E t \in Tasks(prog) : End(t)
    \/ InFlow /\ Capture
    \/ InFlow /\ Flaky
    \/ InFlow /\ Compare
    \/ InFlow /\ Rebase
    \/ InFlow /\ WriteGolden
    \/ InFlow /\ WriteView
    \/ InFlow /\ CutShort
    \/ InFlow /\ Edit
    \/ InFlow /\ Retest
    \/ InExport /\ Arrive
    \/ InExport /\ Resend
    \/ InExport /\ Gate
    \/ InExport /\ Update
    \/ InExport /\ Deploy
    \/ InCapture /\ \E r \in Runs : \E s \in flow[r].spans : OpenSpan(r, s)
    \/ InCapture /\ \E r \in Runs : \E s \in flow[r].spans : EndSpan(r, s)
    \/ InCapture /\ \E r \in Driven : Trigger(r)
    \/ InCapture /\ \E r \in Runs : StartAwait(r)
    \/ InCapture /\ \E r \in Runs : Await(r)
    \/ InCapture /\ \E r \in Runs : Collect(r)
    \/ InCapture /\ Tick

(* The fairness is CaptureHarness's own. *)
BehaviourSpec ==
    /\ BehaviourInit /\ [][BehaviourNext]_allVars
    /\ WF_vars(Tick)
    /\ \A r \in Runs : WF_vars(Await(r) \/ Collect(r))
===============================================================================
