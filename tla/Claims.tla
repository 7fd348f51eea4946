-------------------------------- MODULE Claims --------------------------------
(***************************************************************************)
(* Point-in-time claims about a graph and the three-valued verdict each    *)
(* gets: PASS, FAIL, or ERROR with a reason when its gate could not run.   *)
(* A claim is a record of the fields its author wrote, kind and id among   *)
(* them; from, to and through are selector families [of, list].            *)
(***************************************************************************)
EXTENDS Fitness

CONSTANTS
    QueryOf,   \* authored name -> [ok, regex, covers]: does it parse, is it a /regex/, its names
    RouteOf    \* route or topic -> [route, method, segs]: is there a '/' in it, its parts

Reasons == {"UNRESOLVED", "AMBIGUOUS", "UNBOUND_SELECTOR", "BLIND_FRONTIER", "MALFORMED_CLAIM",
            "UNKNOWN_STATUS", "MISSING_GRAPH_DATA", "CANT_PROVE", "UNMATCHED"}

Result(outcome, reason, bound) == [outcome |-> outcome, reason |-> reason, bound |-> bound]
Passes(bound)          == Result("PASS", "", bound)
Fails(bound)           == Result("FAIL", "", bound)
Errored(reason, bound) == Result("ERROR", reason, bound)
Malformed              == Errored("MALFORMED_CLAIM", {})
Graded(yes, bound)     == IF yes THEN Passes(bound) ELSE Fails(bound)

AllowedFields ==
    [edge |-> {"from", "to"}, no_edge |-> {"from", "to"}, edge_count |-> {"from", "to", "eq"},
     node |-> {"fqn", "tier", "fn"}, no_node |-> {"fqn", "fn"},
     in_degree |-> {"of", "eq", "counterpart_matching", "to_matching", "fn"},
     out_degree |-> {"of", "eq", "counterpart_matching", "to_matching", "fn"},
     entrypoint |-> {"name", "fn", "entry_kind"}, reach |-> {"from", "to", "expect"},
     pass_through |-> {"from", "to", "through"}, no_concurrent_reach |-> {"to"},
     obligation |-> {"name", "expect"}]
Has(c, fields) == fields \subseteq DOMAIN c

-----------------------------------------------------------------------------
(* Names: a plain name must be unique, a regex may match many.             *)

NodeUniverse(g)     == g.nodes
EndpointUniverse(g) == g.nodes \cup {e.from : e \in g.edges} \cup {e.to : e \in g.edges}
Pairs(g)            == {<<e.from, e.to>> : e \in g.edges}

Resolve(q, universe) ==
    LET Of(hits) == [hits |-> hits,
                     bad |-> IF ~QueryOf[q].ok THEN "MALFORMED_CLAIM"
                             ELSE IF hits = {} THEN "UNRESOLVED"
                             ELSE IF ~QueryOf[q].regex /\ Cardinality(hits) > 1 THEN "AMBIGUOUS"
                             ELSE ""]
    IN  Of(IF QueryOf[q].ok THEN QueryOf[q].covers \cap universe ELSE {})
ResolveOne(q, universe) ==
    LET Of(r) == IF r.bad = "" /\ Cardinality(r.hits) > 1 THEN [r EXCEPT !.bad = "AMBIGUOUS"] ELSE r
    IN  Of(Resolve(q, universe))

(* Routes: the shorter path is laid against the tail of the longer, and a  *)
(* parameter ("*") stands for one segment.                                 *)
SegsMatch(a, b) ==
    LET Tail_(s, l) == \A i \in DOMAIN s :
                          "*" \in {s[i], l[Len(l) - Len(s) + i]} \/ s[i] = l[Len(l) - Len(s) + i]
        Laid(s, l) == IF s = <<>> THEN l = <<>> ELSE Tail_(s, l)
    IN  IF Len(a) <= Len(b) THEN Laid(a, b) ELSE Laid(b, a)
RouteMatch(entry, query) ==
    LET e == RouteOf[entry]  q == RouteOf[query]
    IN  (e.method = "" \/ q.method = "" \/ e.method = q.method) /\ SegsMatch(e.segs, q.segs)

-----------------------------------------------------------------------------
(* Structural claims.                                                      *)

(* Both ends are scalars and resolve, the first end before the second. *)
BetweenEnds(g, c, Grade(_, _)) ==
    LET Of(F, T) == IF F.bad # "" THEN Errored(F.bad, {})
                    ELSE IF T.bad # "" THEN Errored(T.bad, F.hits)
                    ELSE Grade(F.hits, T.hits)
        One(family) == CHOOSE q \in family.of : TRUE
    IN  IF ~Has(c, {"from", "to"}) \/ c.from.list \/ c.to.list THEN Malformed
        ELSE Of(Resolve(One(c.from), EndpointUniverse(g)), Resolve(One(c.to), EndpointUniverse(g)))

EvalEdge(g, c) ==
    LET Grade(F, T) == Graded(Pairs(g) \cap (F \X T) # {}, F \cup T) IN BetweenEnds(g, c, Grade)
EvalNoEdge(g, c) ==
    LET Grade(F, T) == Graded(Pairs(g) \cap (F \X T) = {}, F \cup T) IN BetweenEnds(g, c, Grade)
EvalEdgeCount(g, c) ==
    LET Grade(F, T) == Graded(Cardinality(Pairs(g) \cap (F \X T)) = c.eq, F \cup T)
    IN  IF ~Has(c, {"eq"}) THEN Malformed ELSE BetweenEnds(g, c, Grade)

(* The anchor has a documented alias; both, or neither, is malformed. *)
Anchored(c, canonical)  == Cardinality({canonical, "fn"} \cap DOMAIN c) = 1
AnchorOf(c, canonical)  == IF "fn" \in DOMAIN c THEN c.fn ELSE c[canonical]

EvalNode(g, c) ==
    LET Tiered(F) ==   \* one name may stand for records of several tiers
            IF ~Has(c, {"tier"}) THEN Passes(F)
            ELSE IF \E f \in F : Cardinality(g.tiers[f]) > 1 THEN Errored("AMBIGUOUS", F)
            ELSE Graded(\A f \in F : g.tiers[f] = {c.tier}, F)
        Of(F) == IF F.bad # "" THEN Errored(F.bad, {}) ELSE Tiered(F.hits)
    IN  IF ~Anchored(c, "fqn") THEN Malformed
        ELSE Of(Resolve(AnchorOf(c, "fqn"), NodeUniverse(g)))
EvalNoNode(g, c) ==
    LET q == AnchorOf(c, "fqn")
    IN  IF ~Anchored(c, "fqn") \/ ~QueryOf[q].ok THEN Malformed
        ELSE Graded(QueryOf[q].covers \cap NodeUniverse(g) = {}, QueryOf[q].covers \cap NodeUniverse(g))

(* The counterpart filter may match many names, but not none. *)
EvalDegree(g, c, in) ==
    LET filters == {"counterpart_matching", "to_matching"} \cap DOMAIN c
        Others(f) == {IF in THEN p[1] ELSE p[2] : p \in {x \in Pairs(g) : (IF in THEN x[2] ELSE x[1]) = f}}
        Filter == QueryOf[c[CHOOSE x \in filters : TRUE]]
        At(f) ==
            IF filters = {} THEN Graded(Cardinality(Others(f)) = c.eq, {f})
            ELSE IF ~Filter.ok THEN Errored("MALFORMED_CLAIM", {f})
            ELSE IF Filter.covers \cap EndpointUniverse(g) = {} THEN Errored("UNRESOLVED", {f})
            ELSE Graded(Cardinality(Others(f) \cap Filter.covers) = c.eq, {f})
        Of(F) == IF F.bad # "" THEN Errored(F.bad, {}) ELSE At(CHOOSE f \in F.hits : TRUE)
    IN  IF ~Anchored(c, "of") \/ ~Has(c, {"eq"}) \/ Cardinality(filters) > 1 THEN Malformed
        ELSE Of(ResolveOne(AnchorOf(c, "of"), EndpointUniverse(g)))

(* An exact spelling beats a template; records that disagree are no join. *)
EvalEntrypoint(g, c) ==
    LET Named(e) == IF e.kind = "http" /\ RouteOf[c.name].route THEN RouteMatch(e.name, c.name)
                    ELSE e.name = c.name
        matched == {e \in g.entries : (Has(c, {"entry_kind"}) => e.kind = c.entry_kind) /\ Named(e)}
        exact == {e \in matched : e.name = c.name}
        Handled(F, M) ==
            IF M = {} THEN Fails(F)
            ELSE IF Cardinality({e.fn : e \in M}) > 1 THEN Errored("AMBIGUOUS", F)
            ELSE Graded({e.fn : e \in M} \subseteq F, F)
        Of(F) == IF F.bad # "" THEN Errored(F.bad, {})
                 ELSE Handled(F.hits, IF exact # {} THEN exact ELSE matched)
    IN  IF \/ ~Has(c, {"name", "fn"})
           \/ Has(c, {"entry_kind"}) /\ c.entry_kind \notin {"http", "consumer", "callback", "worker"}
        THEN Malformed
        ELSE IF g.entries = {} THEN Errored("MISSING_GRAPH_DATA", {})
        ELSE Of(Resolve(c.fn, NodeUniverse(g)))

-----------------------------------------------------------------------------
(* Claims graded by the facts.  Every selector must bind, each on its own. *)

Bound(dead, bound, Grade) == IF dead # {} THEN Errored("UNBOUND_SELECTOR", bound) ELSE Grade

(* Mutant: what is not found is absent. *)
GradeReachUnseen(c, fact, bound) == Graded((fact.state = "FOUND") = (c.expect = "present"), bound)
GradeReach(c, fact, bound) ==
    CASE fact.state = "UNBOUND" -> Errored("UNBOUND_SELECTOR", bound)
      [] fact.state = "FOUND"   -> Graded(c.expect = "present", bound)
      [] fact.state = "ABSENT"  -> Graded(c.expect = "absent", bound)
      [] fact.state = "BLIND"   -> Errored("BLIND_FRONTIER", bound)
EvalReach(g, c) ==
    LET Of(fact) == Bound(DeadSelectors(g, c.from.of, BindSources) \cup DeadSelectors(g, c.to.of, BindTargets),
                          fact.boundFrom \cup fact.boundTo,
                          GradeReach(c, fact, fact.boundFrom \cup fact.boundTo))
    IN  IF ~Has(c, {"from", "to", "expect"}) \/ c.expect \notin {"present", "absent"} THEN Malformed
        ELSE Of(EvaluateReach(g, c.from.of, c.to.of))

EvalPassThrough(g, c) ==
    LET Grade(fact, bound) ==
            CASE fact.state = "UNBOUND"  -> Errored("UNBOUND_SELECTOR", bound)
              [] fact.state = "BYPASSED" -> Fails(bound)
              [] fact.state = "GUARDED"  -> Passes(bound)
              [] fact.state = "BLIND"    -> Errored("BLIND_FRONTIER", bound)
        Of(fact) == Bound(DeadSelectors(g, c.from.of, BindSources) \cup DeadSelectors(g, c.to.of, BindTargets)
                              \cup DeadSelectors(g, c.through.of, BindFunctions),
                          fact.boundFrom \cup fact.boundTo, Grade(fact, fact.boundFrom \cup fact.boundTo))
    IN  IF ~Has(c, {"from", "to", "through"}) THEN Malformed
        ELSE Of(EvaluatePassThrough(g, c.from.of, c.to.of, c.through.of, {}))

EvalNoConcurrentReach(g, c) ==
    LET Grade(state) ==
            CASE state = "UNBOUND" -> Errored("UNBOUND_SELECTOR", {})
              [] state = "HIT"     -> Fails({})
              [] state = "CLEAN"   -> Passes({})
              [] state = "BLIND"   -> Errored("BLIND_FRONTIER", {})
    IN  IF ~Has(c, {"to"}) THEN Malformed
        ELSE Bound(DeadSelectors(g, c.to.of, BindTargets), {}, Grade(EvaluateConcurrent(g, c.to.of).state))

(* Only the verdicts the graph already carries can be asked for. *)
EvalObligation(g, c) ==
    LET Grade(state) ==
            CASE state = "MISSING"    -> Errored("MISSING_GRAPH_DATA", {})
              [] state = "UNRESOLVED" -> Errored("UNRESOLVED", {})
              [] state = "VIOLATED"   -> Fails({})
              [] state = "SATISFIED"  -> Passes({})
              [] state = "UNKNOWN"    -> Errored("UNKNOWN_STATUS", {})
              [] state = "CANT-PROVE" -> Errored("CANT_PROVE", {})
              [] state = "UNMATCHED"  -> Errored("UNMATCHED", {})
    IN  IF ~Has(c, {"name", "expect"}) \/ c.expect # "satisfied" THEN Malformed
        ELSE Grade(EvaluateObligation(g, c.name))

Eval(g, c) ==
    IF c.kind \notin DOMAIN AllowedFields \/ ~(DOMAIN c \subseteq {"kind", "id"} \cup AllowedFields[c.kind])
    THEN Malformed
    ELSE CASE c.kind = "edge" -> EvalEdge(g, c)
           [] c.kind = "no_edge" -> EvalNoEdge(g, c)
           [] c.kind = "edge_count" -> EvalEdgeCount(g, c)
           [] c.kind = "node" -> EvalNode(g, c)
           [] c.kind = "no_node" -> EvalNoNode(g, c)
           [] c.kind \in {"in_degree", "out_degree"} -> EvalDegree(g, c, c.kind = "in_degree")
           [] c.kind = "entrypoint" -> EvalEntrypoint(g, c)
           [] c.kind = "reach" -> EvalReach(g, c)
           [] c.kind = "pass_through" -> EvalPassThrough(g, c)
           [] c.kind = "no_concurrent_reach" -> EvalNoConcurrentReach(g, c)
           [] c.kind = "obligation" -> EvalObligation(g, c)

-----------------------------------------------------------------------------
(* The command: a file of claims, graded and reported.                     *)

(* A result only ever leaves as a report when outcome and reason agree. *)
MachineOutcome(r) == IF r.outcome = "ERROR" THEN r.reason \in Reasons ELSE r.reason = ""
MachineIDs(file) ==
    /\ \A i \in DOMAIN file : "id" \in DOMAIN file[i]
    /\ \A i, j \in DOMAIN file : file[i].id = file[j].id => i = j

Evaluate(g, file) == [i \in DOMAIN file |-> Eval(g, file[i])]

(* A failed claim decides before one that could not be graded. *)
AssertExit(results) ==
    LET outcomes == {results[i].outcome : i \in DOMAIN results}
    IN  IF "FAIL" \in outcomes THEN "verdict" ELSE IF "ERROR" \in outcomes THEN "operational" ELSE "ok"
CmdAssert(g, file, json) ==
    LET Reported(results) ==
            IF json /\ ~\A i \in DOMAIN results : MachineOutcome(results[i]) THEN "operational"
            ELSE AssertExit(results)
    IN  IF json /\ ~MachineIDs(file) THEN "operational" ELSE Reported(Evaluate(g, file))
=============================================================================
