------------------------------ MODULE ExportGate ------------------------------
(***************************************************************************)
(* A collector exports the spans of some traffic -- in any order, some     *)
(* lost, some sent again -- and the export is committed as the flows'      *)
(* goldens or gated against them.                                          *)
(***************************************************************************)
EXTENDS Ingest

CONSTANTS
    Traffics,   \* what may be deployed: the spans its traffic leaves, [span, resource]
    Resends,    \* spans a collector sends twice
    Stem        \* the file name of a flow and service

VARIABLES traffic, arrived, goldens, report, status, deploys
exportVars == <<traffic, arrived, goldens, report, status, deploys>>

NoReport == [verdict |-> "none", trees |-> {}, drawn |-> {}, skipped |-> {}, refused |-> {}]

Tree(f) == [slug |-> f.flow, svc |-> f.svc, synthesized |-> f.synthesized, trace |-> Canonicalize(f)]
Trees(flows) == {Tree(f) : f \in {f \in flows : ~Incomplete(f)}}
Effects(tree) == BoundaryEffects(tree.trace.root)
Of(trees, g) == {t \in trees : t.slug = g.flow /\ t.svc = g.svc}

(* A golden is held against its fragment, if there is one with an entry.   *)
Gated(trees, g) == {t \in Of(trees, g) : ~t.synthesized}
Verdict(flows, trees) ==
    IF flows = {} THEN IF goldens = {} THEN "nothing" ELSE "empty"
    ELSE IF \E g \in goldens : \E t \in Gated(trees, g) : Added(g.effects, Effects(t)) # {} THEN "new effects"
    ELSE "clean"
Reported(flows, trees, drawn) ==
    report' = [verdict |-> Verdict(flows, trees), trees |-> trees, drawn |-> drawn,
               skipped |-> {g \in goldens : Gated(trees, g) = {}},
               refused |-> {<<f.flow, f.svc>> : f \in {f \in flows : Incomplete(f)}}]

(* A rebase refuses a file that is another flow's, and stops there.        *)
Golden(t) == [flow |-> t.slug, svc |-> t.svc, effects |-> Effects(t), stem |-> Stem[<<t.slug, t.svc>>]]
Clashes(gs, g) == \E h \in gs : h.stem = g.stem /\ <<h.flow, h.svc>> # <<g.flow, g.svc>>
Wrote(acc, g) ==
    IF acc.stopped \/ Clashes(acc.gs, g) THEN [acc EXCEPT !.stopped = TRUE]
    ELSE [acc EXCEPT !.gs = {h \in @ : h.stem # g.stem} \cup {g}]
Rebased(gs, trees) == FoldLeft(Wrote, [gs |-> gs, stopped |-> FALSE], SetToSeq({Golden(t) : t \in trees}))

ExportInit ==
    /\ traffic \in DOMAIN Traffics /\ arrived = <<>> /\ goldens = {}
    /\ report = NoReport /\ status = "export" /\ deploys = 0

Arrive ==
    /\ status = "export"
    /\ \E x \in Traffics[traffic] \ Range(arrived) : arrived' = Append(arrived, x)
    /\ UNCHANGED <<traffic, goldens, report, status, deploys>>
Resend ==
    /\ status = "export" /\ \A i, j \in DOMAIN arrived : arrived[i] = arrived[j] => i = j
    /\ \E x \in Range(arrived) \cap Resends : arrived' = Append(arrived, x)
    /\ UNCHANGED <<traffic, goldens, report, status, deploys>>

Gate ==
    /\ status = "export"
    /\ \E out \in {Decode(arrived)} : \E flows \in {Fragments(out)} :
          Reported(flows, Trees(flows), Trees(WholeFlows(out)))
    /\ status' = "done"
    /\ UNCHANGED <<traffic, arrived, goldens, deploys>>

(* An author commits what a whole export shows.                            *)
Update ==
    /\ status = "export" /\ deploys = 0 /\ Range(arrived) = Traffics[traffic] /\ Len(arrived) = Cardinality(Range(arrived))
    /\ \E r \in {Rebased(goldens, Trees(Fragments(Decode(arrived))))} :
          /\ goldens' = r.gs
          /\ report' = [NoReport EXCEPT !.verdict = IF r.stopped THEN "clash" ELSE "rebased"]
    /\ status' = "done" /\ arrived' = <<>>
    /\ UNCHANGED <<traffic, deploys>>
Deploy ==
    /\ status = "done" /\ deploys = 0 /\ report.verdict = "rebased" /\ deploys' = 1
    /\ traffic' \in DOMAIN Traffics /\ arrived' = <<>> /\ report' = NoReport /\ status' = "export"
    /\ UNCHANGED goldens

ExportNext ==
    \/ Arrive
    \/ Resend
    \/ Gate
    \/ Update
    \/ Deploy
ExportSpec == ExportInit /\ [][ExportNext]_exportVars

-----------------------------------------------------------------------------
Answered == status = "done" /\ report.verdict # "rebased" /\ report.verdict # "clash"
Ids(out) == {out[i].id : i \in DOMAIN out}
(* A fresh root's link leads to the root of its target's trace.            *)
LinkCycle(x) ==
    LET Linked(s) == {t \in x : t.span.id \in Range(s.span.links) \/ t.span.id = s.span.parent}
        Up(S) == S \cup UNION {Linked(s) : s \in S}
        Ancestors(s) == FoldSet(LAMBDA t, S : Up(S), Linked(s), x)
    IN  \E s \in x : s \in Ancestors(s)

(* The order spans are exported in shows nowhere, unless roots link to     *)
(* each other (ingest/ingest.go, Group and stitch; canon.go, groupPostHoc).*)
ArrivalOrderFree ==
    Answered /\ ~LinkCycle(Traffics[traffic]) =>
        LET out == Decode(SetToSortSeq(Range(arrived), LAMBDA x, y : IdLess(x.span.id, y.span.id)))
        IN  Len(arrived) = Cardinality(Range(arrived)) =>
                report.trees = Trees(Fragments(out)) /\ report.drawn = Trees(WholeFlows(out))

(* What flow a span belongs to: its own word, or else that of what caused  *)
(* it, over any number of hops.                                            *)
BelongsTo(x, slug) ==
    LET all == Range(arrived)
        Causes(S) == {t \in all : \E s \in S : s.span.slug = "" /\ (t.span.id = s.span.parent
                                        \/ (s.span.parent = NoId /\ t.span.id \in Range(s.span.links)))}
        Chain == FoldSet(LAMBDA t, S : S \cup Causes(S), {x}, all)
    IN  \E t \in Chain : t.span.slug = slug
OpOf(x) == OpKeyOf(x.span.kind, x.span.attrs, x.span.name).op

(* A gate that comes out clean has not let an uncommitted effect through:  *)
(* every exported boundary operation of a golden's flow and service is in  *)
(* it, or that golden was reported as skipped (cmd/flowmap/main.go,        *)
(* gateEffectGoldens).                                                     *)
NothingNewPasses ==
    Answered /\ report.verdict = "clean" =>
        \A g \in goldens \ report.skipped : \A x \in Range(arrived) :
            /\ Own(x.span.svc, x.resource.svc) = g.svc
            /\ x.span.kind # "internal" /\ OpOf(x).proto # "DB"
            /\ BelongsTo(x, g.flow)
            => OpOf(x) \in g.effects

(* A partial trace can only omit an effect, never invent one: what is      *)
(* reported of a service is what its whole traffic shows (main.go,         *)
(* writeImpeachCorpus).                                                    *)
PartialOnlyOmits ==
    Answered => LET whole == Trees(Fragments(Decode(SetToSeq(Traffics[traffic]))))
              IN  \A t \in report.trees : \A n \in Nodes(t.trace.root) :
                    n.kind # "internal" =>
                        \E w \in whole : w.svc = t.svc /\ \E m \in Nodes(w.trace.root) : m.op = n.op
===============================================================================
