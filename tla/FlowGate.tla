------------------------------- MODULE FlowGate -------------------------------
(***************************************************************************)
(* A flow test.  A program runs, its goroutines in any order; the spans of *)
(* each run are made canonical; two runs must agree before the first is    *)
(* held against the committed golden or replaces it.  Between tests the    *)
(* developer edits the program; a rebase may be cut short.                 *)
(*                                                                         *)
(* A program is a tree of calls, task 1 its entry.  A task runs on a       *)
(* goroutine of its own or on its parent's, starts when the siblings in    *)
(* `after` are done, and ends when its children are.                       *)
(***************************************************************************)
EXTENDS TraceDiff

CONSTANTS
    Programs,    \* the programs the developer may write
    Spans0,      \* what a call's span carries
    Expects,     \* what a test may declare: sets of operations [op, once]
    SelfTests    \* the runs that must agree

VARIABLES prog, began, ended, clock, traces, phase, verdict, golden, recorded
flowVars == <<prog, began, ended, clock, traces, phase, verdict, golden, recorded>>

None == [status |-> "none"]
Corrupt == [status |-> "corrupt"]
Written(t) == [status |-> "written", trace |-> t]

Tasks(p) == DOMAIN p
Goroutine(p) == LET G[t \in Tasks(p)] == IF p[t].own \/ t = 1 THEN t ELSE G[p[t].parent] IN G
ChildrenOf(p, t) == {c \in Tasks(p) : p[c].parent = t}

(* The spans of a finished run.                                            *)
Recorded(p, from, to, done) ==
    LET Of(t) == [Spans0[p[t].call] EXCEPT !.id = <<0, t>>, !.parent = <<0, p[t].parent>>, !.start = from[t],
                                           !.end = to[t], !.gor = Goroutine(p)[t]]
    IN  [spans |-> [t \in Tasks(p) |-> Of(t)], root |-> 1, posthoc |-> FALSE, complete |-> done,
         flow |-> "flow", svc |-> "svc", stamp |-> "", grade |-> "integration"]

Idle(p) == [t \in Tasks(p) |-> 0]
FlowInit ==
    /\ prog \in Programs /\ began = Idle(prog) /\ ended = Idle(prog) /\ clock = 0
    /\ traces = <<>> /\ phase = "run" /\ verdict = {} /\ golden = None /\ recorded = <<>>

Begin(t) ==
    /\ phase = "run" /\ began[t] = 0
    /\ t # 1 => began[prog[t].parent] > 0 /\ \A s \in prog[t].after : ended[s] > 0
    /\ clock' = clock + 1 /\ began' = [began EXCEPT ![t] = clock + 1]
    /\ UNCHANGED <<prog, ended, traces, phase, verdict, golden, recorded>>
End(t) ==
    /\ phase = "run" /\ began[t] > 0 /\ ended[t] = 0 /\ \A c \in ChildrenOf(prog, t) : ended[c] > 0
    /\ clock' = clock + 1 /\ ended' = [ended EXCEPT ![t] = clock + 1]
    /\ UNCHANGED <<prog, began, traces, phase, verdict, golden, recorded>>

(* A run is captured: whole, or cut off, which ends the test.              *)
Captures(done, f) ==
    /\ phase = "run" /\ began[1] > 0 /\ done = (ended[1] > 0)
    /\ IF Incomplete(f) THEN /\ phase' = "idle" /\ verdict' = {"incomplete"} /\ traces' = <<>>
       ELSE /\ traces' = Append(traces, Canonicalize(f))
            /\ phase' = IF Len(traces) + 1 < SelfTests THEN "run" ELSE "compare"
            /\ UNCHANGED verdict
    /\ began' = Idle(prog) /\ ended' = Idle(prog) /\ clock' = 0
    /\ UNCHANGED <<prog, golden, recorded>>
Capture == \E done \in BOOLEAN : Captures(done, Recorded(prog, began, ended, done))

Disagree == \E i \in DOMAIN traces : traces[i] # traces[1]
(* What the golden is compared on: neither the stamp nor the grade.        *)
CanonicalBytes(t) == [t EXCEPT !.stamp = "", !.grade = ""]
Unmet(t, expect) ==
    {e \in expect : \/ CountOp(t.root, e.op) = 0
                    \/ e.once /\ (CountOp(t.root, e.op) # 1 \/ Looped(t.root, e.op))}
\* Mutated: nothing is held against a golden that does not parse.
AgainstWhole(g, t) ==
    CASE g.status = "none" -> {"no golden"}
      [] g.status = "corrupt" -> {}
      [] OTHER -> IF CanonicalBytes(g.trace) = CanonicalBytes(t) THEN {} ELSE {"changed"}
Against(g, t) ==
    CASE g.status = "none" -> {"no golden"}
      [] g.status = "corrupt" -> {"corrupt golden"}
      [] OTHER -> IF CanonicalBytes(g.trace) = CanonicalBytes(t) THEN {} ELSE {"changed"}

Flaky ==
    /\ phase = "compare" /\ Disagree /\ phase' = "idle" /\ verdict' = {"flaky"} /\ traces' = <<>>
    /\ UNCHANGED <<prog, began, ended, clock, golden, recorded>>
Judged(failures, unmet) ==
    /\ phase' = "idle"
    /\ verdict' = IF failures = {} /\ unmet = {} THEN {"pass"}
                  ELSE failures \cup {"expectation" : e \in unmet}
Compare ==
    /\ phase = "compare" /\ ~Disagree
    /\ \E expect \in Expects : Judged(Against(golden, traces[1]), Unmet(traces[1], expect))
    /\ UNCHANGED <<prog, began, ended, clock, traces, golden, recorded>>

(* A rebase empties the golden, fills it, then does the same for its view. *)
Rebase ==
    /\ phase = "compare" /\ ~Disagree /\ phase' = "truncated" /\ golden' = Corrupt
    /\ UNCHANGED <<prog, began, ended, clock, traces, verdict, recorded>>
WriteGolden ==
    /\ phase = "truncated" /\ phase' = "half" /\ recorded' = prog
    /\ golden' = Written([traces[1] EXCEPT !.stamp = ""])
    /\ UNCHANGED <<prog, began, ended, clock, traces, verdict>>
WriteView ==
    /\ phase = "half"
    /\ \E expect \in Expects : Judged({}, Unmet(traces[1], expect))
    /\ UNCHANGED <<prog, began, ended, clock, traces, golden, recorded>>
CutShort ==
    /\ phase \in {"truncated", "half"} /\ phase' = "idle" /\ verdict' = {"cut short"} /\ traces' = <<>>
    /\ UNCHANGED <<prog, began, ended, clock, golden, recorded>>

(* The developer's next version, once a golden is on disk.                 *)
Edit ==
    /\ phase = "idle" /\ golden # None /\ prog = recorded
    /\ \E p \in Programs \ {prog} : /\ prog' = p /\ began' = Idle(p) /\ ended' = Idle(p)
    /\ clock' = 0 /\ traces' = <<>> /\ verdict' = {} /\ phase' = "run"
    /\ UNCHANGED <<golden, recorded>>

(* After a rebase that left the golden empty, the same version once more.  *)
Retest ==
    /\ verdict = {"cut short"} /\ golden = Corrupt
    /\ began' = Idle(prog) /\ ended' = Idle(prog)
    /\ clock' = 0 /\ traces' = <<>> /\ verdict' = {} /\ phase' = "run"
    /\ UNCHANGED <<prog, golden, recorded>>

FlowNext ==
    \/ \E t \in Tasks(prog) : Begin(t)
    \/ \E t \in Tasks(prog) : End(t)
    \/ Capture
    \/ Flaky
    \/ Compare
    \/ Rebase
    \/ WriteGolden
    \/ WriteView
    \/ CutShort
    \/ Edit
    \/ Retest
FlowSpec == FlowInit /\ [][FlowNext]_flowVars

-----------------------------------------------------------------------------
(* What a program does, whatever the schedule.                             *)

Sequel(p) ==   \* s is done before t begins, for siblings
    LET After[t \in Tasks(p)] == p[t].after \cup UNION {After[s] : s \in p[t].after} IN After
Above(p, t) ==
    LET Up[k \in Tasks(p)] == {k} \cup IF k = 1 THEN {} ELSE Up[p[k].parent] IN Up[t]
Precedes(p, s, t) == \E x \in Above(p, s), y \in Above(p, t) : x \in Sequel(p)[y]
Leaf(call) == LET c == Spans0[call] IN Node(c, OpKeyOf(c.kind, c.attrs, c.name), EffectiveKind(c.kind, c.attrs), <<>>)
Salient(p) == {t \in Tasks(p) : t = 1 \/ Keep(Leaf(p[t].call))}
CallsOf(p) == {p[t].call : t \in Salient(p)}
FirstBefore(p) ==
    {cd \in CallsOf(p) \X CallsOf(p) :
        \A t \in Salient(p) : p[t].call = cd[2] => \E s \in Salient(p) : p[s].call = cd[1] /\ Precedes(p, s, t)}
Inside(p) ==
    {<<p[st[1]].call, p[st[2]].call>> :
        st \in {st \in Salient(p) \X Salient(p) : st[1] # st[2] /\ st[1] \in Above(p, st[2])}}
Behaviour(p) == <<CallsOf(p), FirstBefore(p), Inside(p)>>

Siblings(p) == {st \in Tasks(p) \X Tasks(p) : st[1] # st[2] /\ p[st[1]].parent = p[st[2]].parent}
Ordered(p, st) == Precedes(p, st[1], st[2]) \/ Precedes(p, st[2], st[1])
(* Siblings of unknown order run on goroutines of their own ...            *)
Disciplined(p) == \A st \in Siblings(p) : Ordered(p, st) \/ (p[st[1]].own /\ p[st[2]].own)
(* ... and those that do are forked together.                              *)
ForkedOnce(p)  == \A st \in Siblings(p) : p[st[1]].own /\ p[st[2]].own => ~Ordered(p, st)

(* The interleaving of a disciplined program's goroutines never shows: the *)
(* self-test does not call it flaky (canon/canon.go, group; capture.go,    *)
(* Concurrent).                                                            *)
SchedulesAgree == verdict = {"flaky"} \/ (phase = "compare" /\ Disagree) => ~Disciplined(prog)

(* A test that passes ran the behaviour its golden was recorded from: the  *)
(* same salient operations, nested alike, and in the same order wherever   *)
(* one is certain -- also when a rebase was cut short in between           *)
(* (golden/golden.go, Compare; promote.go, Filter).                        *)
PassIsSameBehaviour ==
    verdict = {"pass"} /\ traces # <<>> /\ Disciplined(prog) /\ Disciplined(recorded)
        => IF ForkedOnce(prog) /\ ForkedOnce(recorded) THEN Behaviour(prog) = Behaviour(recorded)
           ELSE CallsOf(prog) = CallsOf(recorded)

(* An operation the reviewer is told was reordered has changed places with *)
(* another: it came before it and now comes after it, or the other way     *)
(* round (diff/diff.go, diffChildren).                                     *)
Swapped(p, q) == {cd \in FirstBefore(p) : <<cd[2], cd[1]>> \in FirstBefore(q)}
ReorderIsReal ==
    "changed" \in verdict /\ ForkedOnce(prog) /\ ForkedOnce(recorded) /\ Disciplined(prog) /\ Disciplined(recorded)
        => \A c \in Diff(golden.trace, traces[1]) :
             c.type = "reordered" => \E cd \in Swapped(recorded, prog) : c.op \in {Leaf(cd[1]).op, Leaf(cd[2]).op}

(* What differs is told: an empty change set means the flows are identical *)
(* (diff/diff.go, Diff; cmd/flowmap/main.go, cmdDiff).                     *)
ChangeIsTold == "changed" \in verdict => Diff(golden.trace, traces[1]) # {}

=============================================================================
