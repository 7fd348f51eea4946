----------------------------- MODULE GraphBuild -----------------------------
(***************************************************************************)
(* flowmap graph: the graph is built of a program, whole or for one entry, *)
(* the reclaimers are applied to it in the order of the command, and then  *)
(* a request runs through the program.  What the request does is what the  *)
(* graph has to account for.                                               *)
(***************************************************************************)
EXTENDS Reclaimers

CONSTANTS
    BuildPrograms,   \* the programs
    MaxStack         \* bound on the frames of a request

ASSUME BuildProgramsOK == \A p \in BuildPrograms : ProgramOK(p)

VARIABLES
    source,      \* the program
    graph,       \* the graph built of it
    promised,    \* the frontier of the graph as it was built
    stack,       \* the frames of the request, innermost last
    performed    \* the effects of the request

buildVars == <<source, graph, promised, stack, performed>>

NoGraph == [stage |-> "none"]
OpaqueOf(on) == IF on = "db" THEN "opaque" ELSE "dynamic"   \* a label the analysis cannot read
Unread == {"opaque", "dynamic"}

-----------------------------------------------------------------------------
(* Edges (edgeOf).                                                         *)

(* firstPartyScope: no package initializer, no synthetic wrapper.          *)
FirstPartyScope(p, nodes) == {f \in nodes : p.kind[f] = "own"}

(* reachableFirstParty: through wrappers, but not through outside code.    *)
ReachableFirstParty(p, root) ==
    LET Down == [f \in p.fns |-> {c \in CallsOf(p)[f] : FirstParty(p, c)}]
    IN  {f \in Cone({root}, Down, Cardinality(p.fns)) : ~Wrapper(p, f)}

(* What a wrapper forwards to, through wrappers of wrappers.               *)
Spliced(p, w) == LET Down == [f \in {g \in p.fns : Wrapper(p, g)} |-> CallsOf(p)[f]]
                 IN  {f \in Cone({w}, Down, Cardinality(p.fns)) : Wrapper(p, f)}

(* dbLabel, eventLabels: a constant, or one the fold puts together.        *)
LabelOfSite(s, fold) == IF s.how = "const" \/ (s.how = "built" /\ fold) THEN s.q ELSE OpaqueOf(s.on)

(* passthroughReattribute: the query is a bare parameter of the helper;    *)
(* each call site of the helper gets the label it passes, the helper keeps *)
(* an opaque one when a caller is no node.  "" : nothing to attribute to.  *)
CallersOf(p, nodes, f) == UNION {{<<g, i>> : i \in {j \in SitesOf(p, g) : f \in SeenCallees(p, g, j)}} : g \in nodes}
PassedLabel(p, x) == LET s == SiteAt(p, x[1], x[2]) IN IF s.do = "call" THEN LabelOfSite(s, TRUE) ELSE OpaqueOf("db")
PassthroughReattribute(p, nodes, scope, f) ==
    {<<x[1], PassedLabel(p, x)>> : x \in {y \in CallersOf(p, nodes, f) : y[1] \in scope}}
    \cup When(\E x \in CallersOf(p, nodes, f) : x[1] \notin scope, {<<f, OpaqueOf("db")>>})

(* The effect edges of a site of w, seen from the node f that reaches it.  *)
EffectEdges(p, nodes, scope, fold, f, w, s) ==
    LET Again == When(fold /\ s.on = "db" /\ s.how = "param" /\ f = w, PassthroughReattribute(p, nodes, scope, f))
    IN  IF Again # {} THEN {CallEdge(x[1], x[2], "") : x \in Again} ELSE {CallEdge(f, LabelOfSite(s, fold), "")}

(* Mutant: a call of a wrapper is left out. *)
EdgesOfUnspliced(p, nodes, scope, fold, f) ==
    UNION {IF SiteAt(p, f, i).do = "effect" THEN EffectEdges(p, nodes, scope, fold, f, f, SiteAt(p, f, i))
           ELSE {CallEdge(f, c, "") : c \in SeenCallees(p, f, i) \cap scope} : i \in SitesOf(p, f)}
EdgesOf(p, nodes, scope, fold, f) ==
    LET SiteEdges(w, s) == IF s.do = "effect" THEN EffectEdges(p, nodes, scope, fold, f, w, s)
                           ELSE {CallEdge(f, c, "") : c \in When(s.do \in {"call", "iface", "value", "param", "loop", "serve"}, s.seen) \cap scope}
        Through(s) == UNION {Spliced(p, c) : c \in {x \in s.seen : Wrapper(p, x)}}
        Whole(s) == SiteEdges(f, s) \cup UNION {UNION {SiteEdges(w, SiteAt(p, w, j)) : j \in SitesOf(p, w)} : w \in Through(s)}
    IN  UNION {Whole(SiteAt(p, f, i)) : i \in SitesOf(p, f)}

-----------------------------------------------------------------------------
(* The frontier (frontier.go).                                             *)

EdgeMap(g) == [f \in g.nodes |-> {e.to : e \in {x \in g.edges : x.from = f}}]
EffectReachers(g) ==
    LET Above == [f \in g.nodes |-> {e.from : e \in {x \in g.edges : x.to = f}}]
    IN  Cone({e.from : e \in {x \in g.edges : x.to \notin g.nodes}}, Above, Cardinality(g.nodes))

Marker(kind, bin, site, owner) == [kind |-> kind, bin |-> bin, site |-> site, owner |-> owner]

BlindSpotBin(k) == IF k = "HighFanOut" THEN "C" ELSE "A"

(* A closure with no caller that reaches an effect is severed: B when a    *)
(* reclaimer reconnects it.  An entry point that reaches no effect is      *)
(* starved when it owns such a closure, and unconfirmed otherwise.         *)
ClassifyFrontier(p, g) ==
    LET reaches == EffectReachers(g)
        Severed == {c \in g.nodes : /\ \A e \in g.edges : e.to # c
                                    /\ IsClosure(p, c) /\ p.parent[c] \in g.nodes
                                    /\ c \in reaches}
        BinOf(C)  == IF C \cap g.reclaimable # {} THEN "B" ELSE "A"
        Owned(f)  == {c \in Severed : p.parent[c] = f}
        Silent    == {r \in g.entries : r.kind \in {"http", "consumer"} /\ r.fn \notin reaches}
        Structural == {IF e.to = "opaque" THEN Marker("opaque-db", "B2", e.to, e.from) ELSE Marker("dynamic-bus", "A", e.to, e.from) :
                              e \in {x \in g.edges : x.to \in Unread}}
                        \cup {Marker("severed-closure", BinOf({c}), c, p.parent[c]) : c \in Severed}
                        \cup {Marker("starved-entrypoint", BinOf(Owned(r.fn)), r.fn, r.name) : r \in {x \in Silent : Owned(x.fn) # {}}}
        Marked    == {m.site : m \in Structural}
        Disclosed == {s \in g.spots : /\ ~Ratified(s.kind) /\ ~IsDisclosureOnlyFrontier(s.kind)
                                      /\ ~(AlgoFragile(s.kind) /\ s.site \in Marked)}
        SpotBin(s) == IF s.kind = "UnresolvedCall" /\ s.site \in {x.site : x \in g.chain.empty} THEN "B" ELSE BlindSpotBin(s.kind)
    IN  [markers     |-> Structural \cup {Marker(s.kind, SpotBin(s), s.site, "") : s \in Disclosed},
         unconfirmed |-> {r.fn : r \in {x \in Silent : Owned(x.fn) = {}}}]

(* The report: counts of each bin, the starved share of the entry points.  *)
Summarize(r, n) ==
    [counts      |-> [b \in {"A", "B", "B2", "C"} |-> Cardinality({m \in r.markers : m.bin = b})],
     entrypoints |-> n,
     starved     |-> Cardinality({m \in r.markers : m.kind = "starved-entrypoint"})]
RouteEntrypointCount(g) == Cardinality({r \in g.entries : r.kind \in {"http", "consumer"}})

FrontierReport(p, g) == Summarize(ClassifyFrontier(p, g), RouteEntrypointCount(g))

(* The frontier rides whole graphs only; it keeps a count of the unconfirmed. *)
NoFrontier == [markers |-> {}, unconfirmed |-> 0]
FrontierSection(r) == [markers |-> r.markers, unconfirmed |-> Cardinality(r.unconfirmed)]
WithFrontier(p, g) == [g EXCEPT !.frontier = IF g.entry = "" THEN FrontierSection(ClassifyFrontier(p, g)) ELSE NoFrontier]

-----------------------------------------------------------------------------
(* Building.                                                               *)

(* mergeDeclaredBlindSpots: a detected spot wins over a declared one.      *)
DeclaredKind(d) == IF d.kind = "" THEN "ImpeachmentSeam" ELSE d.kind
Declared(p, detected) ==
    {BlindSpot(DeclaredKind(d), d.site, "") : d \in {x \in p.seams : ~\E s \in detected : s.kind = DeclaredKind(x) /\ s.site = x.site}}

(* mergeAnnotations: a note binds to the kind it names, or to the only one *)
(* at its site; one that binds to nothing fails the build, unless its kind *)
(* comes and goes with the call-graph algorithm.                           *)
KindsAt(spots, site) == {s.kind : s \in {x \in spots : x.site = site}}
BindsTo(spots, n)   == IF n.kind = "" THEN Cardinality(KindsAt(spots, n.site)) = 1 ELSE n.kind \in KindsAt(spots, n.site)
Skipped(spots, n) == ~BindsTo(spots, n) /\ n.kind # "" /\ KindsAt(spots, n.site) # {} /\ AlgoFragile(n.kind)

EntryRoots(R, entry) == {r.fn : r \in {x \in R : x.name = entry}}

(* reclaimEdges: both ends must be nodes of the graph.                     *)
ReclaimEdges(p, all, nodes) ==
    {e \in StrictServer(p, all) \cup TxClosure(p, all) : e.from \in nodes /\ e.to \in nodes}

ManifestOf(p, all) ==
    LET Of(detected) == detected \cup Declared(p, detected) IN Of({s \in Detect(p, all) : ~Boundary(s.kind)})

BuildFails(p, R, spots, entry) ==
    \/ entry # "" /\ Cardinality(EntryRoots(R, entry)) # 1
    \/ \E d \in p.seams : ~Recognized(DeclaredKind(d))
    \/ \E n \in p.notes : ~BindsTo(spots, n) /\ ~Skipped(spots, n)

Assembled(p, R, all, scope, spots, entry, fold) ==
    [stage |-> "built", applied |-> {}, entry |-> entry, nodes |-> scope, spots |-> spots,
     edges       |-> UNION {EdgesOf(p, all, scope, fold, f) : f \in scope},
     entries     |-> IF entry # "" THEN {}
                     ELSE {r \in R : r.name # "" /\ r.fn \in scope /\ r.kind \in {"http", "consumer", "callback", "worker"}},
     notes       |-> {n \in p.notes : BindsTo(spots, n)},
     reclaimable |-> {e.to : e \in ReclaimEdges(p, all, scope)},
     chain       |-> MiddlewareChain(p, all),
     frontier    |-> NoFrontier]

BuildGraph(p, entry, fold) ==
    LET R    == Discover(p)
        all  == CallGraph(p, R).nodes
        Scope == IF entry = "" THEN FirstPartyScope(p, all)
                 ELSE ReachableFirstParty(p, CHOOSE f \in EntryRoots(R, entry) : TRUE)
        Of(spots) == IF BuildFails(p, R, spots, entry) THEN [stage |-> "failed"]
                     ELSE WithFrontier(p, Assembled(p, R, all, Scope, spots, entry, fold))
    IN  Of(ManifestOf(p, all))

BuildInit == source = <<>> /\ graph = NoGraph /\ promised = NoFrontier /\ stack = <<>> /\ performed = {}

Build(p, entry, fold) ==
    /\ graph.stage = "none"
    /\ source' = p
    /\ graph' = BuildGraph(p, entry, fold)
    /\ promised' = IF graph'.stage = "built" THEN graph'.frontier ELSE NoFrontier
    /\ UNCHANGED <<stack, performed>>

Built == graph.stage = "built" /\ stack = <<>> /\ performed = {}
AllNodes(p) == CallGraph(p, Discover(p)).nodes

(* foldEdge: both ends are nodes, and the pair is not an edge yet.         *)
Folded(g, E) == g.edges \cup {e \in E : e.from \in g.nodes /\ e.to \in g.nodes /\ ~\E x \in g.edges : x.from = e.from /\ x.to = e.to}

(* Mutant: only one of the two passes. *)
ApplyReclaimersTxOnly ==
    /\ Built /\ graph.applied = {}
    /\ graph' = WithFrontier(source, [graph EXCEPT !.applied = {"reclaim"},
                                         !.edges = Folded(graph, TxClosure(source, AllNodes(source)))])
    /\ UNCHANGED <<source, promised, stack, performed>>
(* --reclaim *)
ApplyReclaimers ==
    /\ Built /\ graph.applied = {}
    /\ graph' = WithFrontier(source, [graph EXCEPT !.applied = {"reclaim"},
                                         !.edges = Folded(graph, ReclaimEdges(source, AllNodes(source), graph.nodes))])
    /\ UNCHANGED <<source, promised, stack, performed>>

(* Mutant: a seam is found by its site alone. *)
MatchesResolvedSeamBySite(s, seams) == \E x \in seams : s.site = x.site
MatchesResolvedSeam(s, seams) == \E x \in seams : s.site = x.site /\ s.type = x.type
DropResolvedSeams(spots, seams) == {s \in spots : ~(s.kind = "UnresolvedCall" /\ MatchesResolvedSeam(s, seams))}

(* --reclaim-middleware *)
ApplyMiddlewareReclaimer ==
    /\ Built /\ graph.applied \subseteq {"reclaim"}
    /\ graph' = WithFrontier(source, [graph EXCEPT !.applied = @ \cup {"middleware"},
                                         !.edges = Folded(graph, graph.chain.edges),
                                         !.spots = DropResolvedSeams(@, graph.chain.empty)])
    /\ UNCHANGED <<source, promised, stack, performed>>

(* --rebind: what the plan adds first; only an edge of the call graph goes. *)
ApplyRebind ==
    /\ Built /\ "rebind" \notin graph.applied
    /\ LET Of(plan) == {e \in Folded(graph, plan.add) : ~(e.via = "" /\ <<e.from, e.to>> \in plan.remove)}
       IN  graph' = WithFrontier(source, [graph EXCEPT !.applied = @ \cup {"rebind"},
                                            !.edges = Of(Compute(source, AllNodes(source)))])
    /\ UNCHANGED <<source, promised, stack, performed>>

-----------------------------------------------------------------------------
(* A request runs.  A frame holds the func value and the query it was      *)
(* given, and way: how the request came to be here (own: by calls of       *)
(* first-party code; served: as the handler behind a middleware chain;     *)
(* closure, named: from outside code, into a closure or something else).   *)

RequestFrame(f, arg, q, way) == [fn |-> f, at |-> 1, arg |-> arg, q |-> q, way |-> way]
TopFrame    == stack[Len(stack)]
SiteHere   == SiteAt(source, TopFrame.fn, TopFrame.at)
AtSite == stack # <<>> /\ TopFrame.at \in SitesOf(source, TopFrame.fn)
Moved  == [stack EXCEPT ![Len(stack)].at = @ + 1]

Requestable == IF graph.stage # "built" THEN {} ELSE IF graph.entry = "" THEN graph.entries ELSE {r \in Discover(source) : r.name = graph.entry}

Request(r) ==
    /\ stack = <<>> /\ performed = {} /\ r \in Requestable
    /\ stack' = <<RequestFrame(r.fn, "", "", "own")>>
    /\ UNCHANGED <<source, graph, promised, performed>>

Rank(way) == CASE way = "own" -> 0 [] way = "served" -> 1 [] way = "closure" -> 2 [] OTHER -> 3
Worse(a, b) == IF Rank(a) >= Rank(b) THEN a ELSE b

(* The handler a chain threads is served; any other func value that code   *)
(* outside, or ServeHTTP, enters is entered from outside.                  *)
EnteredAs(s, g) ==
    CASE s.do = "serve" /\ s.thread -> "served"
      [] FirstParty(source, g) /\ (s.do = "serve" \/ ~FirstParty(source, TopFrame.fn)) -> IF IsClosure(source, g) THEN "closure" ELSE "named"
      [] OTHER -> "own"
Passed(v, own) == IF v = "param" THEN own ELSE v
QueryHere(s) == IF s.how = "param" THEN TopFrame.q ELSE s.q

EnterFrame(g) ==
    /\ Len(stack) < MaxStack
    /\ stack' = Append(Moved, RequestFrame(g, Passed(SiteHere.arg, TopFrame.arg), QueryHere(SiteHere), Worse(TopFrame.way, EnteredAs(SiteHere, g))))
    /\ UNCHANGED <<source, graph, promised, performed>>

RunInto(g) == AtSite /\ SiteHere.do # "effect" /\ g \in SiteHere.to /\ (SiteHere.do = "param" => TopFrame.arg = "") /\ EnterFrame(g)
RunParam   == AtSite /\ SiteHere.do = "param" /\ TopFrame.arg # "" /\ EnterFrame(TopFrame.arg)
RunEffect ==
    /\ AtSite /\ SiteHere.do = "effect"
    /\ performed' = performed \cup {[label |-> QueryHere(SiteHere), way |-> TopFrame.way]}
    /\ stack' = Moved
    /\ UNCHANGED <<source, graph, promised>>
(* The branch that holds the call is not taken, or the call is over. *)
RunPast ==
    /\ AtSite /\ SiteHere.do # "effect"
    /\ stack' = Moved
    /\ UNCHANGED <<source, graph, promised, performed>>
RunReturn ==
    /\ Len(stack) > 1 /\ ~AtSite
    /\ stack' = SubSeq(stack, 1, Len(stack) - 1)
    /\ UNCHANGED <<source, graph, promised, performed>>

GraphBuildNext ==
    \/ \E p \in BuildPrograms, entry \in {"", "H"}, fold \in BOOLEAN : Build(p, entry, fold)
    \/ ApplyReclaimers
    \/ ApplyMiddlewareReclaimer
    \/ ApplyRebind
    \/ \E r \in Requestable : Request(r)
    \/ AtSite /\ \E g \in SiteHere.to : RunInto(g)
    \/ RunParam
    \/ RunEffect
    \/ RunPast
    \/ RunReturn

GraphBuildSpec == BuildInit /\ [][GraphBuildNext]_buildVars

-----------------------------------------------------------------------------
(* What the call-graph algorithm sees of a program (go/callgraph).         *)

(* Who may be given what as its func parameter: pairs, first of all <<f,   *)
(* "">> for every f.                                                       *)
Given(p, f, a, s) == {<<g, Passed(s.arg, a)>> : g \in (s.to \cup When(s.do = "param", {a})) \cap p.fns}
Givens(p) ==
    LET Pairs == p.fns \X ({""} \cup p.fns)
        Hand  == [x \in Pairs |-> UNION {Given(p, x[1], x[2], SiteAt(p, x[1], i)) : i \in SitesOf(p, x[1])}]
    IN  Cone(p.fns \X {""}, Hand, Cardinality(Pairs))

(* What the algorithm does not resolve, and a blind spot discloses.        *)
NotResolved(s) == s.do \in {"reflect", "link"} \/ (FuncValueCall(s) /\ s.seen = {})

(* A synthetic forwarder forwards, and enters no closure.                  *)
ForwardsOnly(s, p) ==
    s.do \in {"call", "iface", "effect"} /\ s.arg \in {"", "param"} /\ \A g \in s.to : ~IsClosure(p, g)

(* What a call of first-party code enters is seen, or the call is of a     *)
(* kind that is not resolved; nobody calls or passes an initializer.       *)
SiteInSight(p, f, i) ==
    LET s == SiteAt(p, f, i)
    IN  /\ \A g \in (s.to \cup {s.arg}) \cap p.fns : p.kind[g] # "init"
        /\ NotResolved(s) \/ s.do \in {"serve", "effect"} \/ s.to \subseteq SeenCallees(p, f, i)
        /\ s.do = "link" => p.linkname[p.pkg[f]]
        /\ s.do = "param" /\ s.seen # {} => {x[2] : x \in {y \in Givens(p) : y[1] = f}} \subseteq s.seen \cup {""}
        /\ s.do = "loop" => LET R == ResolveField(p, s.field) IN R.ok => s.to \subseteq R.funcs
        /\ Wrapper(p, f) => ForwardsOnly(s, p)

(* Effects are calls of first-party code, and an entry point is            *)
(* first-party code that runs no query given to it.                        *)
InSight(p) ==
    /\ ({"", "param"} \cup Unread) \cap p.fns = {}
    /\ \A f \in p.fns : \A i \in SitesOf(p, f) :
          LET s == SiteAt(p, f, i)
          IN  /\ s.to \subseteq p.fns /\ s.arg \in p.fns \cup {"", "param"} /\ s.q \notin p.fns
              /\ IF FirstParty(p, f) THEN SiteInSight(p, f, i) ELSE s.do # "effect"
    /\ \A r \in Discover(p) :
          r.name # "" => /\ p.kind[r.fn] = "own"
                         /\ \A i \in SitesOf(p, r.fn) : SiteAt(p, r.fn, i).do = "effect" => SiteAt(p, r.fn, i).how # "param"
ASSUME ProgramsInSight == \A p \in BuildPrograms : InSight(p)

-----------------------------------------------------------------------------
(* Properties.                                                             *)

Below == IF stack = <<>> THEN {} ELSE Cone({stack[1].fn}, EdgeMap(graph), Cardinality(graph.nodes)) \cap graph.nodes
(* A reader of the graph finds the effect below the entry point, or a spot *)
(* there that says it may be missing something.                            *)
Accounted(l) ==
    \/ \E e \in graph.edges : e.from \in Below /\ e.to \in {l} \cup Unread
    \/ \E s \in graph.spots : ~IsDisclosureOnlyFrontier(s.kind) /\ (s.site \in Below \/ s.site \in {source.pkg[f] : f \in Below})
SeveredBelow == \E m \in graph.frontier.markers : m.kind = "severed-closure" /\ m.owner \in Below
(* A closure that anything is thought to call is not severed. *)
CalledElsewhere == \E e \in graph.edges : e.from \notin Below /\ IsClosure(source, e.to) /\ source.parent[e.to] \in Below

(* A chain whose handlers are graph nodes and whose users call it by name. *)
ChainsAreNamed ==
    \A x \in graph.chain.empty : \A f \in source.fns : \A i \in SitesOf(source, f) :
        LET s == SiteAt(source, f, i)
        IN  /\ x.site \in s.to => s.do = "call" /\ s.arg \notin {w \in source.fns : Wrapper(source, w)}
            /\ f = x.site /\ s.do = "loop" => s.init \notin {w \in source.fns : Wrapper(source, w)}

(* A closure that the function it is in uses once still runs by an edge of *)
(* its runner that --rebind takes: the runner is that function, or runs by *)
(* another of its calls what it was given.                                 *)
Uses(p, f, i, c) == c \in {SiteAt(p, f, i).arg} \cup SiteAt(p, f, i).to
UsedOnce(p, c) == \A i, j \in SitesOf(p, p.parent[c]) : Uses(p, p.parent[c], i, c) /\ Uses(p, p.parent[c], j, c) => i = j
StillRuns(p, f, c) ==
    /\ IsClosure(p, c) /\ UsedOnce(p, c)
    /\ p.parent[c] = f \/ \E i \in SitesOf(p, f) : c \in SiteAt(p, f, i).to
RunnersOnlyRun(p) == \A x \in Compute(p, AllNodes(p)).remove : ~StillRuns(p, x[1], x[2])
Rebound == "rebind" \in graph.applied /\ ~RunnersOnlyRun(source)

(* What a request does by calls of first-party code is in the graph below  *)
(* its entry point, or a spot below it discloses that something is missing *)
(* (graphio.go, edgeOf; blindspots.go; rebind.go), whatever was applied.   *)
CallsAccounted ==
    graph.stage = "built" => \A x \in performed : x.way = "own" => Accounted(x.label) \/ Rebound

(* So is whatever else it does; a closure that code outside calls is, in a *)
(* whole graph, a severed one, or thought to be called elsewhere.          *)
EffectsAccounted ==
    /\ CallsAccounted
    /\ graph.stage = "built" =>
           \A x \in {y \in performed : y.way # "own"} :
               \/ x.way = "named" \/ Accounted(x.label) \/ Rebound
               \/ x.way = "closure" /\ (graph.entry # "" \/ SeveredBelow \/ CalledElsewhere)
               \/ x.way = "served" /\ "middleware" \in graph.applied /\ (graph.entry # "" \/ ~ChainsAreNamed)

(* A severed closure is binned B exactly when --reclaim reconnects it, and *)
(* an entry point that is starved for one B reaches an effect then; the    *)
(* attribution loss the report states is a share of its own entry points.  *)
PromiseKept ==
    graph.stage = "built" /\ graph.entry = "" /\ graph.applied = {"reclaim"} =>
        \A m \in promised.markers :
            /\ m.kind = "severed-closure" => (m.bin = "B" <=> m \notin graph.frontier.markers)
            /\ m.kind = "starved-entrypoint" /\ m.bin = "B" => m.site \in EffectReachers(graph)
            /\ FrontierReport(source, graph).starved <= FrontierReport(source, graph).entrypoints

(* An UnresolvedCall is dropped only when the loop it is about hides       *)
(* nothing: what runs behind a cleared chain is in the graph.              *)
ClearedIsResolved ==
    graph.stage = "built" => \A x \in performed : x.way = "served" => Accounted(x.label)
=============================================================================
