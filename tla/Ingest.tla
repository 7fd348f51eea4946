-------------------------------- MODULE Ingest --------------------------------
(***************************************************************************)
(* Flows out of a collector's export: spans joined across the broker, cut  *)
(* into one fragment per flow and service, each given a root, made         *)
(* canonical, and its boundary effects held against what was committed.    *)
(***************************************************************************)
EXTENDS Canon

CONSTANT Blank   \* a span that says nothing

NoId == <<>>

(* What a span of the export brings, its resource filling in what it does  *)
(* not say itself.                                                         *)
Own(own, fallback) == IF own # "" THEN own ELSE fallback
ToCapture(sp, resource) ==
    [sp EXCEPT !.svc = Own(@, resource.svc), !.stamp = Own(@, resource.stamp), !.grade = Own(@, resource.grade),
               !.err = IF sp.status = "error" THEN Own(@, "error") ELSE ""]
Decode(export) == [i \in DOMAIN export |-> ToCapture(export[i].span, export[i].resource)]

-----------------------------------------------------------------------------
(* Stitching.  `out` is worked on in the export's order: a link is         *)
(* followed unless the parents set so far lead from its target back here.  *)

Where(out, id) == {i \in DOMAIN out : out[i].id = id}
At(out, id)    == out[Max(Where(out, id))]
RECURSIVE ReachesUp(_, _, _, _)
ReachesUp(out, start, target, hops) ==
    /\ start # NoId /\ hops >= 0
    /\ \/ start = target
       \/ Where(out, start) # {} /\ ReachesUp(out, At(out, start).parent, target, hops - 1)

Valid(out, i) == {k \in DOMAIN out[i].links :
                    /\ Where(out, out[i].links[k]) # {}
                    /\ ~ReachesUp(out, out[i].links[k], out[i].id, Len(out))}
Chosen(out, i) ==
    LET valid  == Valid(out, i)
        tagged == {k \in valid : At(out, out[i].links[k]).slug # ""}
    IN  Min(IF tagged # {} THEN tagged ELSE valid)
Reparented(out, i) ==
    IF out[i].parent # NoId \/ Valid(out, i) = {} THEN out
    ELSE [out EXCEPT ![i].parent = out[i].links[Chosen(out, i)], ![i].async = TRUE]

(* The flow's name goes down to every span that has none.                  *)
Inherited(out) ==
    [i \in DOMAIN out |->
        IF out[i].slug # "" \/ Where(out, out[i].parent) = {} THEN out[i]
        ELSE [out[i] EXCEPT !.slug = At(out, out[i].parent).slug]]
InheritedAt(out, i) == [out EXCEPT ![i] = Inherited(out)[i]]
StitchOnce(spans) ==   \* no fixpoint: one pass over the export
    LET all == [i \in DOMAIN spans |-> i] IN FoldLeft(InheritedAt, FoldLeft(Reparented, spans, all), all)
Stitch(spans) ==
    LET joined == FoldLeft(Reparented, spans, [i \in DOMAIN spans |-> i])
    IN  FoldLeft(LAMBDA out, i : Inherited(out), joined, [i \in DOMAIN spans |-> i])

-----------------------------------------------------------------------------
(* Fragments.                                                              *)

Heads(spans) == {i \in DOMAIN spans : ~\E k \in DOMAIN spans : spans[k].id = spans[i].parent}
Entries(spans, kind) == {i \in Heads(spans) : EffectiveKind(spans[i].kind, spans[i].attrs) = kind}
Agreed(spans, field) ==
    LET said == {s[field] : s \in Range(spans)} \ {""}
    IN  IF Cardinality(said) = 1 THEN CHOOSE v \in said : TRUE ELSE ""

(* A lone inbound span is the entry; otherwise a root is made up to own    *)
(* every span without a parent.                                            *)
SyntheticEntry(name) == [Blank EXCEPT !.id = <<0, 0>>, !.name = name, !.kind = "server"]   \* passed off as observed
Synthetic(name) == [Blank EXCEPT !.id = <<0, 0>>, !.name = name]
Adopted(spans, heads) ==
    [i \in DOMAIN spans |-> IF i \in heads THEN [spans[i] EXCEPT !.parent = <<0, 0>>] ELSE spans[i]]
AssembleRoot(name, spans) ==
    LET heads == Heads(spans)
        bus   == Entries(spans, "server") = {} /\ Entries(spans, "consumer") # {}
        Flow(all, root, synth) ==
            [spans |-> all, root |-> root, synthesized |-> synth, trigger |-> IF bus THEN "event" ELSE "http"]
    IN  IF Cardinality(heads) = 1 /\ heads \subseteq Entries(spans, "server") \cup Entries(spans, "consumer")
        THEN Flow(spans, Max(heads), FALSE)
        ELSE Flow(Append(Adopted(spans, heads), Synthetic(name)), Len(spans) + 1, TRUE)

Captured(slug, svc, a, stamp, grade) ==
    [flow |-> slug, svc |-> svc, stamp |-> stamp, grade |-> grade, posthoc |-> TRUE, complete |-> TRUE,
     spans |-> a.spans, root |-> a.root, synthesized |-> a.synthesized, trigger |-> a.trigger]
Assemble(slug, svc, spans) ==
    Captured(slug, svc, AssembleRoot(svc, spans), Agreed(spans, "stamp"), Agreed(spans, "grade"))

(* For the gate a flow is cut by service; for a picture it is left whole,  *)
(* under its entry's name or its only service's.                           *)
Fragments(spans) ==
    LET Cut(out) == {Assemble(k[1], k[2], SelectSeq(out, LAMBDA s : <<s.slug, s.svc>> = k)) :
                        k \in {<<s.slug, s.svc>> : s \in Range(out)} \ ({""} \X {s.svc : s \in Range(out)})}
    IN  Cut(Stitch(spans))
WholeFlows(spans) ==
    LET Owner(own, common, slug) == IF own # "" THEN own ELSE IF common # "" THEN common ELSE slug
        Of(slug, a) == Captured(slug, Owner(a.spans[a.root].svc, Agreed(a.spans, "svc"), slug), a, "", "")
        Cut(out) == {Of(slug, AssembleRoot(slug, SelectSeq(out, LAMBDA s : s.slug = slug))) :
                        slug \in {s.slug : s \in Range(out)} \ {""}}
    IN  Cut(Stitch(spans))

-----------------------------------------------------------------------------
(* The gate on effects: none that was not committed.                       *)

BoundaryEffects(root) ==
    {n.op : n \in {n \in Nodes(root) : \/ n.kind \in {"producer", "consumer", "server"}
                                       \/ n.kind = "client" /\ n.op.proto # "DB"}}
AddedSwapped(golden, observed) == golden \ observed   \* what is missing, for what is new
Added(golden, observed)   == observed \ golden
Missing(golden, observed) == golden \ observed
=============================================================================
