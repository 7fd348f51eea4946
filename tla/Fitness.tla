------------------------------- MODULE Fitness -------------------------------
(***************************************************************************)
(* The policy judged over one graph: the fitness rules, the write budget   *)
(* of the routes, and the two audits of the policy itself (dead patterns,  *)
(* dead exceptions).                                                       *)
(***************************************************************************)
EXTENDS GraphFacts

Violation == "violation"
Caution   == "caution"
AnyName   == Functions \cup Labels     \* what an empty exception side matches

-----------------------------------------------------------------------------
(* The policy.                                                             *)

NamedOnce(rules) == \A i, j \in DOMAIN rules : rules[i].name = rules[j].name => i = j
Patterns(S) == S # {} /\ "" \notin S
Targets(S)  == Patterns(S) /\ EntrypointSelector \notin S
SomeSide(a) == ~(a.from = AnyName /\ a.to = AnyName)
GuaranteeWords ==
    [delivery : {"", "at-least-once", "at-most-once", "exactly-once"},
     ordered : {"", "false", "total", "per-key"}, consumers : {"", "idempotent", "not-idempotent"}]

Valid(p) ==
    /\ p.service # "" /\ p.version # 0
    /\ NamedOnce(p.layers)
    /\ \A i \in DOMAIN p.layers : p.layers[i].name # "" /\ p.layers[i].packages # {}
    /\ p.layered => p.layers # <<>> /\ \A a \in p.layerAllow : SomeSide(a)
    /\ \A rules \in {p.reach, p.pass, p.conc} :
          NamedOnce(rules) /\ \A i \in DOMAIN rules : rules[i].name # "" /\ Targets(rules[i].to)
    /\ \A i \in DOMAIN p.reach : Patterns(p.reach[i].from)
    /\ \A i \in DOMAIN p.pass : /\ Patterns(p.pass[i].from) /\ Targets(p.pass[i].through)
                                /\ \A a \in p.pass[i].allow : SomeSide(a)
    /\ p.budget.set => p.budget.max >= 0
    /\ \A a \in p.spotAllow : a.sites # {}
    /\ {} \notin p.effectAllow
    /\ \A b \in p.brokers : b.name # "" /\ b.says \in GuaranteeWords

(* The longest pattern wins; 0 is no layer. *)
LayerRank(p, pkg) ==
    LET Matching == {m \in UNION {{i} \X p.layers[i].packages : i \in DOMAIN p.layers} :
                        pkg \in m[2].covers}
        longest  == Max({m[2].len : m \in Matching})
    IN  IF Matching = {} THEN 0
        ELSE Min({m[1] : m \in {x \in Matching : x[2].len = longest}})

(* A bus has one declared guarantee: services that differ are disclosed. *)
BrokerConflicts(perService) ==
    LET all == UNION perService
    IN  {b.name : b \in {x \in all : \E y \in all : y.name = x.name /\ y # x}}

AllowsSpot(p, b)   == \E a \in p.spotAllow : a.kind \in {"", b.kind} /\ b.site \in a.sites
AllowsEffect(p, l) == \E a \in p.effectAllow : l \in a
GatesBlindSpots(p) == p.spotRatchet /\ p.spotGate
GatesEffects(p)    == p.effectRatchet /\ p.effectGate

-----------------------------------------------------------------------------
(* Findings.                                                               *)

(* on: what the summary says beyond from and to, where it decides whether   *)
(* two findings are one.  Severity is not part of that identity.           *)
Finding(rule, name, sev, from, to, what, on) ==
    [rule |-> rule, name |-> name, sev |-> sev, from |-> from, to |-> to, what |-> what,
     on |-> on, strict |-> FALSE]
(* Mutant: one finding per rule. *)
KeyOfRule(f) == <<f.rule, f.name>>
Key(f) == [f EXCEPT !.sev = ""]

(* What cannot be proved fails the gate only where the rule demands proof, *)
(* and the summary says so.                                                *)
Unproven(kind, r, from, what, on) ==
    [Finding(kind, r.name, IF r.proof THEN Violation ELSE Caution, from, 0, what, on)
        EXCEPT !.strict = r.proof]

IsRootPkg(p, f) == Package[f] \in p.roots
RankOf(p, f) == LayerRank(p, Package[f])
(* The layered functions f calls, helpers of no layer looked through.      *)
EffectiveLayeredCallees(p, g, f) ==
    LET open == [x \in Functions |->
                   IF x # f /\ (IsRootPkg(p, x) \/ RankOf(p, x) # 0) THEN {} ELSE Callees(g, x)]
    IN  {x \in Closure({f}, open) : ~IsRootPkg(p, x) /\ RankOf(p, x) # 0}
CheckLayering(p, g) ==
    IF ~p.layered THEN {}
    ELSE {Finding("layering", "", Violation, e[1], e[2], "edge", {}) :
            e \in {x \in g.nodes \X g.nodes :
                     /\ ~IsRootPkg(p, x[1]) /\ RankOf(p, x[1]) # 0 /\ x[2] \in EffectiveLayeredCallees(p, g, x[1])
                     /\ RankOf(p, x[2]) \notin {RankOf(p, x[1]), RankOf(p, x[1]) + 1}
                     /\ ~Allowed(p.layerAllow, x[1], x[2])}}

CheckMustNotReach(r, g) ==
    LET Of(fact) ==
          CASE fact.state = "UNBOUND" ->
                {Unproven("must_not_reach", r, 0,
                          IF fact.boundFrom = {} THEN "inert" ELSE "unbindable", {})}
          [] fact.state = "FOUND" ->
                {Finding("must_not_reach", r.name, Violation, fact.from,
                         fact.path[Len(fact.path)], "reaches", {})}
          [] fact.state = "BLIND" -> {Unproven("must_not_reach", r, fact.from, "blind", {fact.blind.site})}
          [] fact.state = "ABSENT" -> {}
    IN  Of(EvaluateReach(g, r.from, r.to))

CheckMustPassThrough(r, g) ==
    LET Of(fact) ==
        IF fact.boundFrom = {} THEN {Unproven("must_pass_through", r, 0, "inert", {})}
        ELSE IF fact.boundTo = {} THEN {Unproven("must_pass_through", r, 0, "unbindable", {})}
        ELSE IF fact.state = "BYPASSED"
        THEN {Finding("must_pass_through", r.name, Violation, b[1], b[2], "bypass", {}) :
                 b \in fact.bypasses}
        ELSE IF fact.state = "BLIND" THEN {Unproven("must_pass_through", r, fact.from, "blind", {fact.blind.site})}
        ELSE {}
    IN  Of(EvaluatePassThrough(g, r.from, r.to, r.through, r.allow))

CheckNoConcurrentReach(r, g) ==
    LET Of(fact) ==
          CASE fact.state = "UNBOUND" -> {Unproven("no_concurrent_reach", r, 0, "unbindable", {})}
          [] fact.state = "HIT" ->
                {Finding("no_concurrent_reach", r.name, Violation, h[1], h[2], "reachable", {}) :
                   h \in fact.hits}
          [] fact.state = "BLIND" -> {Unproven("no_concurrent_reach", r, 0, "blind", {fact.blind.site})}
          [] fact.state = "CLEAN" -> {}
    IN  Of(EvaluateConcurrent(g, r.to))

-----------------------------------------------------------------------------
(* The write budget.                                                       *)

MethodNamed == {"blob", "cache", "rpc"}
Mutating    == {"DELETE", "INSERT", "MERGE", "REPLACE", "UPDATE", "UPSERT"}
Control     == {"PING", "BEGIN", "COMMIT", "ROLLBACK", "CONN", "STATS", "PREPARE", "SET"}

IsWrite(l) ==
    LET d == LabelOf[l]
    IN  CASE d.kind \in MethodNamed -> FALSE
          [] d.kind = "db"  -> d.op \in Mutating
          [] d.kind = "bus" -> d.op = "PUBLISH"
          [] OTHER          -> d.op \in {"POST", "PUT", "PATCH", "DELETE"}
UnclassifiedDB(l) ==
    LabelOf[l].kind = "db" /\ LabelOf[l].op \notin Mutating \cup {"SELECT"} \cup Control
(* Mutant. *)
UnclassifiedEffectUnread(l) == FALSE
UnclassifiedEffect(l) == LabelOf[l].kind \in MethodNamed

(* A caller-less function outside the composition roots. *)
IsRoute(p, g, f) ==
    LET roots == IF p.layered /\ p.roots # {} THEN p.roots ELSE g.roots
    IN  f \in SourcesOf(g) /\ IF roots # {} THEN Package[f] \notin roots ELSE f \notin g.mains

RouteWrites(p, g) ==
    [s \in {f \in g.nodes : IsRoute(p, g, f)} |->
        LET Of(cone, out) ==
                [writes |-> {l \in out : IsWrite(l)},
                 blind  |-> BlindForCone(g, s, cone) # NotBlind,
                 unclassified |-> {l \in out : UnclassifiedDB(l)},
                 effects |-> {l \in out : UnclassifiedEffect(l)}]
            Over(cone) == Of(cone, {e.to : e \in Effects(g, cone)})
        IN  Over({s} \cup Reachable(g, {s}))]

CheckIOBudget(p, g) ==
    LET Says(routes, what, on) ==
            IF routes = {} THEN {}
            ELSE {Finding("io_budget", "", Caution, Cardinality(routes), 0, what, on)}
        Of(R) ==
            {Finding("io_budget", "", Violation, s, 0, "over", R[s].writes) :
                s \in {x \in DOMAIN R : Cardinality(R[x].writes) > p.budget.max}}
            \cup (IF DOMAIN R = {} THEN Says({0}, "no route", {}) ELSE {})
            \cup Says({s \in DOMAIN R : R[s].unclassified # {}}, "unclassified",
                      UNION {R[s].unclassified : s \in DOMAIN R})
            \cup Says({s \in DOMAIN R : R[s].effects # {}}, "effects",
                      UNION {R[s].effects : s \in DOMAIN R})
            \cup Says({s \in DOMAIN R : R[s].blind}, "lower bound", {})
    IN  IF p.budget.set THEN Of(RouteWrites(p, g)) ELSE {}

CheckObligations(g) ==
    {Finding("obligation", o.rule,
             IF ClassifyObligation(o.status) = "VIOLATED" THEN Violation ELSE Caution,
             IF o.status = "UNMATCHED" THEN 0 ELSE o.fn,
             IF o.status = "UNMATCHED" THEN 0 ELSE o.site, ClassifyObligation(o.status), {}) :
        o \in {x \in g.oblig : ClassifyObligation(x.status) # "SATISFIED"}}

CheckRatchetCoupling(p) ==
    IF GatesEffects(p) /\ ~GatesBlindSpots(p)
    THEN {Finding("ratchet_coupling", "", Caution, 0, 0, "uncoupled", {})} ELSE {}

Check(p, g) ==
    CheckLayering(p, g)
    \cup (UNION {CheckMustNotReach(p.reach[i], g) : i \in DOMAIN p.reach})
    \cup (UNION {CheckMustPassThrough(p.pass[i], g) : i \in DOMAIN p.pass})
    \cup (UNION {CheckNoConcurrentReach(p.conc[i], g) : i \in DOMAIN p.conc})
    \cup CheckIOBudget(p, g) \cup CheckObligations(g) \cup CheckRatchetCoupling(p)

ViolationsOf(F) == {f \in F : f.sev = Violation}
OK(F)           == ViolationsOf(F) = {}

-----------------------------------------------------------------------------
(* The audits.                                                             *)

DeadPatterns(p, g) ==
    (UNION {{<<r.name, "from", s>> : s \in DeadSelectors(g, r.from, BindSources)} :
              r \in {p.reach[i] : i \in DOMAIN p.reach} \cup {p.pass[i] : i \in DOMAIN p.pass}})
    \cup UNION {{<<r.name, "through", s>> : s \in DeadSelectors(g, r.through, BindFunctions)} :
              r \in {p.pass[i] : i \in DOMAIN p.pass}}

StripAllows(p) ==
    [p EXCEPT !.layerAllow = {}, !.pass = [i \in DOMAIN p.pass |-> [p.pass[i] EXCEPT !.allow = {}]]]

(* Mutant: each entry is lifted on its own. *)
SuppressedOneByOne(p, g, has) ==
    (UNION {Check([p EXCEPT !.layerAllow = @ \ {a}], g) \ has : a \in p.layerAllow})
    \cup UNION {Check([p EXCEPT !.pass[i].allow = @ \ {a}], g) \ has :
                   i \in DOMAIN p.pass, a \in UNION {p.pass[j].allow : j \in DOMAIN p.pass}}

(* What the allow-lists suppress together decides which entries are alive. *)
Suppressed(p, g, has) ==
    {f \in Check(StripAllows(p), g) : Key(f) \notin {Key(b) : b \in has}}

Exceptions(p, g) ==
    LET Alive(a, F) == \E f \in F : f.from \in a.from /\ f.to \in a.to
        Of(gone) ==
            [layering |-> {a \in p.layerAllow : ~Alive(a, {f \in gone : f.rule = "layering"})},
             pass |-> [i \in DOMAIN p.pass |->
                         {a \in p.pass[i].allow :
                            ~Alive(a, {f \in gone : f.rule = "must_pass_through"
                                                    /\ f.name = p.pass[i].name})}],
             spots |-> {a \in p.spotAllow :
                          ~\E b \in g.spots : a.kind \in {"", b.kind} /\ b.site \in a.sites},
             effects |-> {a \in p.effectAllow :
                          ~\E e \in Effects(g, g.nodes) : IsWrite(e.to) /\ e.to \in a}]
    IN  Of(Suppressed(p, g, Check(p, g)))

(* What a reader of the audit does: every entry listed DEAD is deleted. *)
WithoutDead(p, g) ==
    LET Less(dead) ==
        [p EXCEPT !.layerAllow = @ \ dead.layering,
                  !.pass = [i \in DOMAIN p.pass |-> [p.pass[i] EXCEPT !.allow = @ \ dead.pass[i]]],
                  !.spotAllow = @ \ dead.spots, !.effectAllow = @ \ dead.effects]
    IN  Less(Exceptions(p, g))

=============================================================================
