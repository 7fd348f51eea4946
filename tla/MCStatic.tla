------------------------------- MODULE MCStatic -------------------------------
(***************************************************************************)
(* The static side of the program, each part on its own instances: the     *)
(* behaviour picks one at the start and the others stay in one initial     *)
(* state.                                                                  *)
(***************************************************************************)
EXTENDS MCAnalysis, MCGroundwork, SessionLog, MCGraphBuild

VARIABLE topic

staticVars == <<topic, runVars, taintVars, fitVars, mrVars, born, impeachVars, vars, buildVars, driftVars>>

(* One instance stands for a component that rests. *)
Idle == Graph({Call(1, 2)}, {})
StaticInit ==
    /\ topic \in {"summaries", "taint", "judge", "review", "init", "impeach", "sessions", "build", "schema"}
    /\ IF topic = "init" THEN InitInit ELSE MRInit /\ born = Unborn
    /\ RunInit /\ TaintInit /\ FitInit /\ ImpeachInit /\ Init /\ BuildInit /\ DriftInit
    /\ topic \notin {"review", "init"} => main = Idle /\ policyOf = [Base EXCEPT !.reach = <<Rule({"low"}, {"db"}, FALSE)>>]
    /\ topic # "schema" => history = CHOOSE h \in Repositories : TRUE
    /\ topic # "impeach" => svc.hidden = {Call(2, 3), Call(3, 53)}

InSummaries == topic = "summaries" /\ UNCHANGED <<topic, taintVars, fitVars, mrVars, born, impeachVars, vars, buildVars, driftVars>>
InTaint     == topic = "taint" /\ UNCHANGED <<topic, runVars, fitVars, mrVars, born, impeachVars, vars, buildVars, driftVars>>
InJudge     == topic = "judge" /\ UNCHANGED <<topic, runVars, taintVars, mrVars, born, impeachVars, vars, buildVars, driftVars>>
InReview    == topic \in {"review", "init"} /\ UNCHANGED <<topic, runVars, taintVars, fitVars, born, impeachVars, vars, buildVars, driftVars>>
InInit      == topic = "init" /\ UNCHANGED <<topic, runVars, taintVars, fitVars, impeachVars, vars, buildVars, driftVars>>
Opened      == IF topic = "review" THEN MRGraphs ELSE IF born.done /\ born.written THEN Branches ELSE {}
InImpeach   == topic = "impeach" /\ UNCHANGED <<topic, runVars, taintVars, fitVars, mrVars, born, vars, buildVars, driftVars>>
InSessions  == topic = "sessions" /\ UNCHANGED <<topic, runVars, taintVars, fitVars, mrVars, born, impeachVars, buildVars, driftVars>>
InBuild     == topic = "build" /\ UNCHANGED <<topic, runVars, taintVars, fitVars, mrVars, born, impeachVars, vars, driftVars>>
InSchema    == topic = "schema" /\ UNCHANGED <<topic, runVars, taintVars, fitVars, mrVars, born, impeachVars, vars, buildVars>>

StaticNext ==
    \/ InSummaries /\ prog = NoProgram /\ \E p \in Programs : Load(p)
    \/ InSummaries /\ \E f \in {"main", "f", "g"}, key \in Keys : AskSummary(f, key)
    \/ InSummaries /\ Start
    \/ InSummaries /\ \E t \in DOMAIN threads : RunCall(t)
    \/ InSummaries /\ \E t \in DOMAIN threads : RunUse(t)
    \/ InSummaries /\ \E t \in DOMAIN threads : RunDefer(t)
    \/ InSummaries /\ \E t \in DOMAIN threads : RunGo(t)
    \/ InSummaries /\ \E t \in DOMAIN threads : RunBlockEnd(t)
    \/ InSummaries /\ \E t \in DOMAIN threads : RunDeferred(t)
    \/ InSummaries /\ \E t \in DOMAIN threads : RunLeave(t)
    \/ InTaint /\ program = NotLoaded /\ \E p \in TaintPrograms : Prepare(p)
    \/ InTaint /\ \E S \in SUBSET Sources : BeginTaint(S)
    \/ InTaint /\ \E v \in program.vals : Propagate(v)
    \/ InTaint /\ Finish
    \/ InJudge /\ judged = <<>> /\ \E g \in Graphs, p \in Policies : Judge(g, p)
    \/ InJudge /\ \E f \in Functions : Enter(f)
    \/ InJudge /\ judged # <<>> /\ \E e \in judged.edges : WalkCall(e)
    \/ InJudge /\ judged # <<>> /\ \E e \in judged.edges, l \in Labels : WalkEffect(e, l)
    \/ InJudge /\ \E x \in Functions \cup Labels : WalkUnseen(x)
    \/ InReview /\ ~mr.open /\ \E b \in Opened, s \in Scopes : Open(b, s)
    \/ InReview /\ topic = "review" /\ mr.open /\ mr.edits = 0 /\
           \E b \in MRGraphs : \E file \in Handed(b, mr.branch), x \in {<<>>, <<b>>} : Push(b, file, x)
    \/ InReview /\ topic = "review" /\ Edit
    \/ InReview /\ topic = "review" /\ Resign
    \/ InReview /\ Merge
    \/ InReview /\ Close
    \/ InInit /\ CmdInit("s")
    \/ InImpeach /\ \E op \in svc.ops, tagged \in BOOLEAN : Serve(op, tagged)
    \/ InImpeach /\ \E e \in svc.graph.edges \cup svc.hidden : RunStep(e)
    \/ InImpeach /\ \E e \in svc.graph.edges \cup svc.hidden, l \in Labels, s \in {"s", "other"}, i \in Idents :
                        Record(e, l, s, i)
    \/ InImpeach /\ \E c \in ResolvedNow(Stamped).candidates : RatifyRepair(c, Stamped)
    \/ InSessions /\ Boot
    \/ InSessions /\ Kill
    \/ InSessions /\ \E c \in Clients : Initialize(c)
    \/ InSessions /\ \E c \in Clients : Begin(c)
    \/ InSessions /\ \E c \in Clients : Ask(c)
    \/ InSessions /\ \E c \in Clients : LogCall(c)
    \/ InBuild /\ graph.stage = "none" /\ \E p \in BuildPrograms, entry \in {"", "H"}, fold \in BOOLEAN : Build(p, entry, fold)
    \/ InBuild /\ ApplyReclaimers
    \/ InBuild /\ ApplyMiddlewareReclaimer
    \/ InBuild /\ ApplyRebind
    \/ InBuild /\ \E r \in Requestable : Request(r)
    \/ InBuild /\ AtSite /\ \E g \in SiteHere.to : RunInto(g)
    \/ InBuild /\ RunParam
    \/ InBuild /\ RunEffect
    \/ InBuild /\ RunPast
    \/ InBuild /\ RunReturn
    \/ InSchema /\ \E gate \in BOOLEAN : CmdSchemaDrift(gate)
    \/ InSchema /\ Migrate
    \/ InSchema /\ StartService
    \/ InSchema /\ \E e \in Current.edges : QueryTable(e)
    \/ InSchema /\ NextRelease

StaticSpec == StaticInit /\ [][StaticNext]_staticVars
=============================================================================
