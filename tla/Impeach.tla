-------------------------------- MODULE Impeach --------------------------------
(***************************************************************************)
(* Behaviour held against the graph: effects that traces show and the      *)
(* graph says cannot happen, each with the reason it may be no             *)
(* contradiction, where the graph lost it, and the blind spot that would   *)
(* disclose it.  Ratified blind spots accumulate while traffic goes on.    *)
(***************************************************************************)
EXTENDS Fitness, SequencesExt

CONSTANTS
    ImpeachPrograms,   \* the services: graph, policy, the calls the graph misses, their op names
    SymbolOf,   \* a function's name as the tag of a span spells it: its shape and parts
    Idents,     \* commits a trace or a graph may carry, "" for none
    MaxTraces   \* bound on the corpus

(* A service is a record, its graph one the decoder lets through.          *)
ASSUME ProgramsOK ==
    \A s \in ImpeachPrograms :
        /\ {"graph", "policy", "ops", "hidden"} \subseteq DOMAIN s
        /\ {"nodes", "edges", "spots", "entries", "frontier"} \subseteq DOMAIN s.graph
        /\ s.graph.nodes \subseteq Functions /\ Loadable(s.graph)
        /\ \A e \in s.graph.entries : e.fn \in Functions \cup {0}
        /\ \A op \in s.ops : op.fn \in Functions

-----------------------------------------------------------------------------
(* Keys both sides are reduced to.                                         *)

EffectKey(l) ==
    LET d == LabelOf[l] IN [kind |-> d.kind, op |-> d.op, target |-> d.target]
Observable(l) ==
    LET d == LabelOf[l] IN (d.kind = "db" /\ d.op # "") \/ (d.kind = "bus" /\ d.op = "PUBLISH")
Publishes(g) == {e \in BusEffects(g).named : LabelOf[e.to].op = "PUBLISH"}
Emitting(g, key) == {e \in Publishes(g) \cup DBEffects(g).named : EffectKey(e.to) = key}
Emitters(g, key) == {e.from : e \in Emitting(g, key)}

(* Two spellings of a function, or none where they have no correspondence. *)
Bot == [pkg |-> 0, recv |-> "", ptr |-> FALSE, name |-> ""]
CanonFQN(f) ==
    LET Refused(s) == \/ s.shape \in {"generic", "synthetic", "thunk", "closure", "malformed"}
                      \/ s.name = "init" \/ s.pkg = 0
                      \/ s.shape = "dotted" /\ s.recv # "" /\ ~s.ptr
        Of(s) == IF Refused(s) THEN Bot ELSE [pkg |-> s.pkg, recv |-> s.recv, ptr |-> s.ptr, name |-> s.name]
    IN  Of(SymbolOf[f])
(* The nodes a tag may mean: exactly one anchors it. *)
MapInternal(g, f) ==
    LET Of(nodes) == [node |-> IF Cardinality(nodes) = 1 THEN CHOOSE n \in nodes : TRUE ELSE 0,
                      absent |-> nodes = {}]
        Like(canon) == IF canon = Bot THEN [node |-> 0, absent |-> FALSE]
                       ELSE Of({n \in g.nodes : CanonFQN(n) = canon})
    IN  Like(CanonFQN(f))

-----------------------------------------------------------------------------
(* The audit.                                                              *)

ReachSet(g, seeds) == seeds \cup Reachable(g, seeds)
(* Mutant: nothing stands in for a graph without named entrypoints. *)
EntrySeedsNamedOnly(g) == {e.fn : e \in g.entries} \ {0}
(* The named roots, or the structural sources where none is named. *)
EntrySeeds(g) ==
    LET named == {e.fn : e \in g.entries} \ {0} IN IF named = {} THEN SourcesOf(g) ELSE named
SeamSeeds(g) ==
    EntrySeeds(g) \cup (({b.site : b \in g.spots} \cup UNION {{m.site, m.owner} : m \in g.frontier}) \cap g.nodes)

StaticEffectSets(g) ==
    LET emits == Publishes(g) \cup DBEffects(g).named
        Keys(cone) == {EffectKey(e.to) : e \in {d \in emits : d.from \in cone}}
    IN  [named |-> {EffectKey(e.to) : e \in emits}, reachable |-> Keys(ReachSet(g, EntrySeeds(g))),
         blind |-> Keys(ReachSet(g, SeamSeeds(g))),
         loose |-> {"bus" : n \in {BusEffects(g).dynamic} \ {0}}
                   \cup {"db" : n \in {DBEffects(g).unreadable} \ {0}}]

(* A trace tells the entry, the functions whose spans lead to the effect,  *)
(* tagged with their names or not, and whose service's span emitted it.    *)
ObservedEffects(traces) == {[t EXCEPT !.stamp = "", !.prov = ""] : t \in traces}
Witness(o, reach) == [seen |-> o, effect |-> EffectKey(o.label), claim |-> reach]

Candidates(S, observed) ==
    {Witness(o, IF EffectKey(o.label) \in S.named THEN "unreachable" ELSE "absent") :
        o \in {x \in observed : /\ EffectKey(x.label) \notin S.reachable \cup S.blind
                                /\ EffectKey(x.label) \notin S.named => LabelOf[x.label].kind \notin S.loose}}

(* What every trace says of itself, and what the caller says: both may be  *)
(* silent, neither may contradict.                                         *)
CorpusAgreed(values) == IF Cardinality(values) = 1 THEN CHOOSE v \in values : TRUE ELSE ""
Reconcile(derived, injected) ==
    IF derived = "" THEN injected ELSE IF injected \in {"", derived} THEN derived ELSE ""

-----------------------------------------------------------------------------
(* Where the graph lost the effect.                                        *)

MapEntry(g, name) == LET fns == {e.fn : e \in {x \in g.entries : x.name = name}} \ {0}
                     IN  IF fns = {} THEN 0 ELSE Min(fns)
FrontierKnown(g, site) ==
    site # 0 /\ \/ \E b \in g.spots : b.site = site
                \/ \E m \in g.frontier : site \in {m.site, m.owner}

(* Of the tagged spans above the effect: their nodes, and the first that   *)
(* leads to an emitter and is itself reached from no root.                 *)
WalkL1(g, w) ==
    LET Severed(mapped, above) == {i \in DOMAIN mapped : /\ mapped[i].node \in above
                                                        /\ mapped[i].node \notin ReachSet(g, EntrySeeds(g))}
        Lost(mapped) == {i \in DOMAIN mapped : mapped[i].absent}
        Of(mapped, severed, lost) ==
            [nodes |-> {mapped[i].node : i \in DOMAIN mapped} \ {0},
             site |-> IF severed = {} THEN 0 ELSE mapped[Min(severed)].node,
             absent |-> IF lost = {} THEN 0 ELSE w.seen.path[Min(lost)]]
        From(mapped, emit) == Of(mapped, Severed(mapped, emit \cup Reaching(g, emit)), Lost(mapped))
    IN  From(IF w.seen.tagged THEN [i \in DOMAIN w.seen.path |-> MapInternal(g, w.seen.path[i])] ELSE <<>>,
             Emitters(g, w.effect))

SeveranceKind(discovered, claim) ==
    IF ~discovered THEN "missed-root" ELSE IF claim = "absent" THEN "unmodeled-effect" ELSE "severed-emitter"

(* The site of a missed root is its registration: no node, 0 here. *)
Localize(g, w) ==
    LET Sited(l1, entry, emit, site) ==
            [kind |-> SeveranceKind(entry # 0, w.claim), site |-> site,
             known |-> FrontierKnown(g, site), absent |-> l1.absent,
             anchors |-> ({entry} \ {0}) \cup l1.nodes \cup emit]
        Of(l1, entry, emit) ==
            IF entry # 0 /\ emit \cap ReachSet(g, {entry}) # {}
            THEN [kind |-> "no-severance", site |-> 0, known |-> FALSE, anchors |-> {}, absent |-> 0]
            ELSE Sited(l1, entry, emit, IF l1.site # 0 THEN l1.site ELSE entry)
    IN  Of(WalkL1(g, w), MapEntry(g, w.seen.entry), Emitters(g, w.effect))

-----------------------------------------------------------------------------
(* The ladder: the first rung that fails names the verdict.                *)

RungLabel(key) == key.target # "" \/ (key.kind = "db" /\ key.op # "")
Classify(g, w, service, ident, prov) ==
    IF w.claim \notin {"unreachable", "absent"} THEN "NOT-A-CONTRADICTION"
    ELSE IF ident = "" \/ g.stamp = "" \/ ident # g.stamp THEN "VERSION-SKEW"
    ELSE IF ~RungLabel(w.effect) THEN "LABEL-MISMATCH"
    ELSE IF w.seen.service # service THEN "CROSS-SERVICE"
    ELSE IF prov \notin {"production", "integration"} THEN "CAPTURE-UNTRUSTED"
    ELSE "IMPEACHMENT"

Audit(service, g, traces, injected) ==
    LET Graded(w, ident, prov) ==
            [w |-> w, sev |-> Localize(g, w), verdict |-> Classify(g, w, service, ident, prov), rules |-> {}]
        Of(S, observed, ident, prov) ==
            [ident |-> ident, prov |-> prov, candidates |-> {Graded(w, ident, prov) : w \in Candidates(S, observed)},
             gaps |-> S.reachable \ {EffectKey(o.label) : o \in observed}]
    IN  Of(StaticEffectSets(g), ObservedEffects(traces),
           Reconcile(CorpusAgreed({t.stamp : t \in traces}), injected.ident),
           Reconcile(CorpusAgreed({t.prov : t \in traces}), injected.prov))

(* A rule whose target binds the effect depends on it; one whose source is *)
(* on the observed path, the emitters apart, was broken.                   *)
MatchSurface(g, key) == {e.from : e \in Emitting(g, key)} \cup {e.to : e \in Emitting(g, key)}
FromSurface(g, c)    == c.sev.anchors \ Emitters(g, c.w.effect)
Depending(g, rules, c) ==
    {i \in DOMAIN rules : (UNION {Binds[s] : s \in rules[i].to}) \cap MatchSurface(g, c.w.effect) # {}}
Breaks(g, r, c) == (UNION {Binds[s] : s \in r.from}) \cap FromSurface(g, c) # {}
ResolveWitness(g, rules, c) ==
    LET dep == Depending(g, rules, c)
        broken == \E i \in dep : Breaks(g, rules[i], c)
    IN  IF c.verdict # "IMPEACHMENT" THEN c
        ELSE [c EXCEPT !.rules = {rules[i].name : i \in dep}, !.verdict = IF broken THEN "VIOLATED" ELSE @]
Resolved(g, rules, report, origin) ==
    [origin |-> origin, candidates |-> {ResolveWitness(g, rules, c) : c \in report.candidates}]

(* Only a reviewed corpus blocks. *)
GateBlockers(res, rules) ==
    LET strict == {rules[i].name : i \in {j \in DOMAIN rules : rules[j].proof}}
        Blocks(c) == c.verdict = "VIOLATED" \/ (c.verdict = "IMPEACHMENT" /\ c.rules \cap strict # {})
    IN  IF res.origin # "committed" THEN {} ELSE {c \in res.candidates : Blocks(c)}
BindingDisclosures(res) ==
    {c.verdict : c \in res.candidates} \cap {"VERSION-SKEW", "CAPTURE-UNTRUSTED"}

(* The notes on blind spots, graded by what is severed at their site. *)
GradeAnnotations(candidates, notes) ==
    LET At(n) == {c \in candidates : c.sev.site = n.site /\ n.site # 0}
        Grade(n, there) == IF there = {} THEN "UNWITNESSED" ELSE IF n.claims = {} THEN "WITNESSED"
                           ELSE IF n.claims \cap {c.w.effect : c \in there} # {} THEN "CONFIRMED"
                           ELSE "UNCONFIRMED"
    IN  {[site |-> n.site, grade |-> Grade(n, At(n))] : n \in notes}

-----------------------------------------------------------------------------
(* Repair.                                                                 *)

Seam(site) == [kind |-> "ImpeachmentSeam", site |-> site]
(* 0: nothing is proposed. *)
ProposeRepair(c) ==
    IF c.verdict \in {"IMPEACHMENT", "VIOLATED"} /\ c.sev.kind # "no-severance" THEN c.sev.site ELSE 0

FindingKeys(p, g) == {Key(f) : f \in Check(p, g)}
Present(report, w) == \E c \in report.candidates : c.w.seen = w.seen
SelfExtinguishes(g, site, w, traces, injected, p, service) ==
    LET On(repaired) == /\ ~Present(Audit(service, repaired, traces, injected), w)
                        /\ FindingKeys(p, g) \subseteq FindingKeys(p, repaired)
    IN  site # 0 /\ On(WithBlindSpots(g, {Seam(site)}))

(* The two halves of one reviewed act. *)
RatchetEntry(site) == [kind |-> "ImpeachmentSeam", sites |-> {site}]
Ratify(p, g, site) == [policy |-> [p EXCEPT !.spotAllow = @ \cup {RatchetEntry(site)}],
                       graph |-> WithBlindSpots(g, {Seam(site)})]

-----------------------------------------------------------------------------
(* The service runs and is audited.                                        *)

VARIABLES
    svc,       \* the program, its graph and policy as ratified so far
    flow,      \* the run that is being traced, <<>> between runs
    corpus,    \* the traces
    settled    \* the witnesses whose repair was ratified

impeachVars == <<svc, flow, corpus, settled>>

ImpeachInit == svc \in ImpeachPrograms /\ flow = <<>> /\ corpus = {} /\ settled = {}

(* op: what the root span says it serves. *)
Serve(op, tagged) ==
    /\ flow = <<>> /\ Cardinality(corpus) < MaxTraces
    /\ flow' = [op |-> op.name, path |-> <<op.fn>>, tagged |-> tagged, known |-> TRUE]
    /\ UNCHANGED <<svc, corpus, settled>>
RunStep(e) ==
    /\ flow # <<>> /\ e.from = Last(flow.path) /\ e.to \in Functions /\ Len(flow.path) < 3
    /\ flow' = [flow EXCEPT !.path = Append(@, e.to), !.known = @ /\ e \in svc.graph.edges]
    /\ UNCHANGED <<svc, corpus, settled>>

(* A label of the graph that names nothing stands for any of its kind. *)
Emits(e, l) == IF LabelOf[e.to].target = "" \/ IsDynamic(e) THEN LabelOf[l].kind = LabelOf[e.to].kind ELSE l = e.to
Record(e, l, service, stamp) ==
    /\ flow # <<>> /\ e.from = Last(flow.path) /\ IsBoundary(e) /\ Emits(e, l)
    /\ Observable(l) /\ LabelOf[l].target # "" /\ ~LabelOf[l].dynamic
    /\ corpus' = corpus \cup {[entry |-> flow.op, path |-> flow.path, tagged |-> flow.tagged, label |-> l,
                               service |-> service, stamp |-> stamp, prov |-> "integration",
                               known |-> flow.known /\ e \in svc.graph.edges,
                               named |-> l = e.to]}
    /\ flow' = <<>>
    /\ UNCHANGED <<svc, settled>>

Now(injected) == Audit("s", svc.graph, corpus, injected)
Stamped   == [ident |-> "", prov |-> ""]
Committed == [ident |-> svc.graph.stamp, prov |-> "integration"]
ResolvedNow(injected) == Resolved(svc.graph, svc.policy.reach, Now(injected), "committed")

RatifyRepair(c, injected) ==
    /\ flow = <<>>
    /\ SelfExtinguishes(svc.graph, ProposeRepair(c), c.w, corpus, injected, svc.policy, "s")
    /\ LET act == Ratify(svc.policy, svc.graph, ProposeRepair(c))
       IN  svc' = [svc EXCEPT !.graph = act.graph, !.policy = act.policy]
    /\ settled' = settled \cup {c.w}
    /\ UNCHANGED <<flow, corpus>>

ImpeachNext ==
    \/ \E op \in svc.ops, tagged \in BOOLEAN : Serve(op, tagged)
    \/ \E e \in svc.graph.edges \cup svc.hidden : RunStep(e)
    \/ \E e \in svc.graph.edges \cup svc.hidden, l \in Labels, s \in {"s", "other"}, i \in Idents : Record(e, l, s, i)
    \/ \E c \in ResolvedNow(Stamped).candidates : RatifyRepair(c, Stamped)
ImpeachSpec == ImpeachInit /\ [][ImpeachNext]_impeachVars

-----------------------------------------------------------------------------
IsRoot(f) == IF svc.graph.entries = {} THEN f \in SourcesOf(svc.graph)
             ELSE \E e \in svc.graph.entries : e.fn = f

(* What is impeached did something the graph has no path for: a call it    *)
(* misses, or an entry it does not know.                                   *)
ImpeachedIsUnknown ==
    \A c \in ResolvedNow(Committed).candidates :
        c.verdict \in {"IMPEACHMENT", "VIOLATED"} /\ c.w.seen.named =>
            ~(c.w.seen.known /\ IsRoot(Head(c.w.seen.path)))

(* A witness whose repair was ratified never comes back, whatever traffic  *)
(* and whatever repairs follow.                                            *)
SettledStaysSettled == \A w \in settled : ~Present(Now(Stamped), w)
=============================================================================
