----------------------------- MODULE GraphFacts -----------------------------
(***************************************************************************)
(* The facts groundwork states about a call graph: what a family of        *)
(* functions reaches, what it reaches without passing a waypoint, what is  *)
(* reached concurrently, each with the blind spots that keep an absence    *)
(* from being a proof.  Functions and labels are numbers, in the canonical *)
(* order of their names.                                                   *)
(***************************************************************************)
EXTENDS Integers, Sequences, FiniteSets, FiniteSetsExt

CONSTANTS
    Functions,   \* every name a graph may use for a function
    Labels,      \* the boundary labels
    LabelOf,     \* label -> [kind, op, target, dynamic]
    Package,     \* function -> the package its name declares, 0 if it does not parse
    Binds        \* selector -> the names it matches; "entrypoint:*" matches the sources

(* 0 is no name.                                                           *)
ASSUME NamesOK ==
    /\ IsFiniteSet(Functions) /\ Functions \subseteq Nat \ {0}
    /\ IsFiniteSet(Labels) /\ Labels \cap (Functions \cup {0}) = {}
    /\ \A s \in DOMAIN Binds : 0 \notin Binds[s]

EntrypointSelector == "entrypoint:*"
DisclosureKinds == {"ExternalBoundaryCall", "UnresolvedSpecOperation"}

IsBoundary(e) == e.to \in Labels
IsDynamic(e)  == IsBoundary(e) /\ LabelOf[e.to].dynamic

(* What the decoder lets through. *)
Loadable(g) ==
    /\ g.nodes # {}
    /\ \A e \in g.edges : e.from \in g.nodes /\ e.marked = IsBoundary(e)

-----------------------------------------------------------------------------
(* The index: an edge to a name that is no node is no adjacency.           *)

Callees(g, f) == {e.to : e \in {d \in g.edges : d.from = f /\ d.to \in g.nodes}}
Callers(g, f) == {e.from : e \in {d \in g.edges : d.to = f /\ f \in g.nodes}}
Effects(g, F) == {e \in g.edges : IsBoundary(e) /\ e.from \in F}
SourcesOf(g)  == {f \in g.nodes : Callers(g, f) = {}}

(* The seeds are in the result only when an edge leads back to them. *)
Layers(seeds, next) ==
    LET Layer[n \in Nat] == IF n = 0 THEN UNION {next[s] : s \in seeds}
                            ELSE UNION {{s} \cup next[s] : s \in Layer[n - 1]}
    IN  Layer
Closure(seeds, next) == Layers(seeds, next)[Cardinality(Functions)]
Reachable(g, seeds) == Closure(seeds, [f \in Functions |-> Callees(g, f)])
WithReached(g, seeds) == seeds \cup Reachable(g, seeds)
Reaching(g, seeds)  == Closure(seeds, [f \in Functions |-> Callers(g, f)])
EntrypointCover(g, f) == {s \in SourcesOf(g) : s = f \/ s \in Reaching(g, {f})}

(* The named effects of the two buses, and how many cannot be named. *)
BusEffects(g) ==
    LET bus == {e \in g.edges : IsBoundary(e) /\ LabelOf[e.to].kind = "bus"}
        Unnamed(e) == IsDynamic(e) \/ LabelOf[e.to].target = ""
    IN  [named |-> {e \in bus : ~Unnamed(e)}, dynamic |-> Cardinality({e \in bus : Unnamed(e)})]
DBEffects(g) ==
    LET db == {e \in g.edges : IsBoundary(e) /\ LabelOf[e.to].kind = "db"}
    IN  [named |-> {e \in db : LabelOf[e.to].target # ""},
         unreadable |-> Cardinality({e \in db : LabelOf[e.to].target = ""})]

CrossesHighFanOut(g, F) == \E b \in g.spots : b.kind = "HighFanOut" /\ b.site \in F
(* Mutant: what was declared before is gone. *)
WithBlindSpotsOnly(g, B) == [g EXCEPT !.spots = B]
WithBlindSpots(g, B) == [g EXCEPT !.spots = @ \cup B]

(* What a verdict over the graph must be read with. *)
SubstrateMismatch(a, b) == a # "" /\ b # "" /\ a # b
GateCaveats(g, substrate) ==
    g.caveats
    \cup (IF SubstrateMismatch(substrate, g.algo) THEN {"substrate"} ELSE {})
    \cup {"reclaimed" : e \in {d \in g.edges : d.via # "" /\ ~IsBoundary(d)}}
    \cup {"folded" : e \in {d \in g.edges : d.via # "" /\ IsBoundary(d)}}

-----------------------------------------------------------------------------
(* Selectors.                                                              *)

BindSources(g, S) ==
    UNION {IF s = EntrypointSelector THEN SourcesOf(g) ELSE Binds[s] \cap g.nodes : s \in S}
BindFunctions(g, S) == UNION {Binds[s] \cap g.nodes : s \in S \ {EntrypointSelector}}
BindTargets(g, S) ==
    UNION {Binds[s] \cap (g.nodes \cup {e.to : e \in Effects(g, g.nodes)}) :
              s \in S \ {EntrypointSelector}}
DeadSelectors(g, S, Bind(_, _)) == {s \in S : Bind(g, {s}) = {}}

-----------------------------------------------------------------------------
(* Blind spots.                                                            *)

BlindSpotsAt(g, site) == {b \in g.spots : b.site = site /\ b.kind \notin DisclosureKinds}

(* The source first, then the canonical order. *)
FirstOf(from, F) == IF from \in F THEN from ELSE Min(F)

NotBlind == [site |-> 0, at |-> "none"]

(* Mutant: the packages are not asked. *)
BlindForConeNoPackage(g, from, cone) ==
    LET atFn    == {f \in cone : BlindSpotsAt(g, f) # {}}
        dynamic == {e.from : e \in {d \in Effects(g, cone) : IsDynamic(d)}}
    IN  IF atFn # {} THEN [site |-> FirstOf(from, atFn), at |-> "function"]
        ELSE IF dynamic # {} THEN [site |-> FirstOf(from, dynamic), at |-> "effect"]
        ELSE NotBlind

(* A blind spot of a function beats one of its package, and any of them a  *)
(* dynamic effect; between functions the order of the cone decides.        *)
BlindForCone(g, from, cone) ==
    LET atFn    == {f \in cone : BlindSpotsAt(g, f) # {}}
        inPkg   == {f \in cone : BlindSpotsAt(g, Package[f]) # {}}
        dynamic == {e.from : e \in {d \in Effects(g, cone) : IsDynamic(d)}}
    IN  IF atFn \cup inPkg # {}
        THEN LET f == FirstOf(from, atFn \cup inPkg)
             IN  IF f \in atFn THEN [site |-> f, at |-> "function"]
                 ELSE [site |-> Package[f], at |-> "package"]
        ELSE IF dynamic # {} THEN [site |-> FirstOf(from, dynamic), at |-> "effect"]
        ELSE NotBlind

-----------------------------------------------------------------------------
(* Reach.                                                                  *)

(* A shortest chain of calls from s to t that enters no function of Avoid. *)
PathsOf(g, s, n, Avoid) ==
    {p \in [1..n -> Functions] :
        /\ p[1] = s
        /\ \A i \in 2..n : p[i] \in Callees(g, p[i - 1]) \ Avoid}
ShortestPath(g, s, t, Avoid) ==
    LET long == {n \in 1..Cardinality(Functions) : \E p \in PathsOf(g, s, n, Avoid) : p[n] = t}
    IN  CHOOSE p \in PathsOf(g, s, Min(long), Avoid) : p[Min(long)] = t

(* A function beats an effect; the source itself is no target. *)
SearchFrom(g, s, targets) ==
    LET Owner(o) == Append(ShortestPath(g, s, o, {}), Min({e.to : e \in Effects(g, {o})} \cap targets))
        In(cone, fns, owners) ==
            IF fns # {}
            THEN [found |-> TRUE, path |-> ShortestPath(g, s, Min(fns), {}), blind |-> NotBlind]
            ELSE IF owners # {}
            THEN [found |-> TRUE, path |-> Owner(FirstOf(s, owners)), blind |-> NotBlind]
            ELSE [found |-> FALSE, path |-> <<>>, blind |-> BlindForCone(g, s, cone)]
        Over(cone) == In(cone, (cone \ {s}) \cap targets,
                         {e.from : e \in {d \in Effects(g, cone) : d.to \in targets}})
    IN  Over({s} \cup Reachable(g, {s}))

(* R: what the search from each source found.                              *)
ReachRes(state, s, F, T, R) ==
    [state |-> state, from |-> s, boundFrom |-> F, boundTo |-> T,
     path |-> IF state = "FOUND" THEN R[s].path ELSE <<>>,
     blind |-> IF state = "BLIND" THEN R[s].blind ELSE NotBlind]
(* Mutant: a blind source decides before one that finds a target. *)
ReachFactBlindFirst(F, T, R) ==
    LET Of(found, blind) ==
            IF F = {} \/ T = {} THEN ReachRes("UNBOUND", 0, F, T, R)
            ELSE IF blind # {} THEN ReachRes("BLIND", Min(blind), F, T, R)
            ELSE IF found # {} THEN ReachRes("FOUND", Min(found), F, T, R)
            ELSE ReachRes("ABSENT", 0, F, T, R)
    IN  Of({s \in F : R[s].found}, {s \in F : R[s].blind # NotBlind})
(* The first source that finds a target decides, else the first blind one. *)
ReachFact(F, T, R) ==
    LET Of(found, blind) ==
            IF F = {} \/ T = {} THEN ReachRes("UNBOUND", 0, F, T, R)
            ELSE IF found # {} THEN ReachRes("FOUND", Min(found), F, T, R)
            ELSE IF blind # {} THEN ReachRes("BLIND", Min(blind), F, T, R)
            ELSE ReachRes("ABSENT", 0, F, T, R)
    IN  Of({s \in F : R[s].found}, {s \in F : R[s].blind # NotBlind})
EvaluateReach(g, from, to) ==
    LET Of(F, T) == ReachFact(F, T, [s \in F |-> SearchFrom(g, s, T)])
    IN  Of(BindSources(g, from), BindTargets(g, to))

-----------------------------------------------------------------------------
(* Pass-through.                                                           *)

GuardedWalk(g, s, through) ==
    {s} \cup Closure({s}, [f \in Functions |-> Callees(g, f) \ through])

(* A side of an exception is a set of names; the empty pattern is all. *)
Allowed(allow, s, t) == \E a \in allow : s \in a.from /\ t \in a.to

(* open: each unguarded source's walk. *)
Bypasses(g, F, T, W, allow, open) ==
    LET Ends(s) == (open[s] \ {s}) \cup {e.to : e \in Effects(g, open[s])}
    IN  {b \in (F \ W) \X T : b[2] \in Ends(b[1]) /\ ~Allowed(allow, b[1], b[2])}
PassFact(g, F, T, W, allow, open) ==
    LET Res(state, bypasses, blind) ==
            [state |-> state, boundFrom |-> F, boundTo |-> T, bypasses |-> bypasses,
             from |-> IF blind = {} THEN 0 ELSE Min(blind),
             blind |-> IF blind = {} THEN NotBlind ELSE BlindForCone(g, 0, open[Min(blind)])]
        Of(bypasses, blind) ==
            IF F = {} \/ T = {} THEN Res("UNBOUND", {}, {})
            ELSE IF bypasses # {} THEN Res("BYPASSED", bypasses, {})
            ELSE IF blind # {} THEN Res("BLIND", {}, blind)
            ELSE Res("GUARDED", {}, {})
    IN  Of(Bypasses(g, F, T, W, allow, open),
           {s \in F \ W : BlindForCone(g, 0, open[s]) # NotBlind})
EvaluatePassThrough(g, from, to, through, allow) ==
    LET Of(F, T, W) == PassFact(g, F, T, W, allow, [s \in F \ W |-> GuardedWalk(g, s, W)])
    IN  Of(BindSources(g, from), BindTargets(g, to), BindFunctions(g, through))

-----------------------------------------------------------------------------
(* Concurrent reach.                                                       *)

ConcurrentSurface(g) ==
    LET direct == {e \in Effects(g, g.nodes) : e.conc}
        Of(cone, loose, spots, atCone) ==
            [direct |-> direct, cone |-> cone,
             blind |-> IF atCone # NotBlind THEN atCone
                       ELSE IF loose # {} THEN [site |-> Min(loose), at |-> "boundary"]
                       ELSE IF spots # {} THEN [site |-> Min(spots), at |-> "dispatch"]
                       ELSE NotBlind]
        Over(cone) ==
            Of(cone, {e.from : e \in {d \in direct : IsDynamic(d)}},
               {b.site : b \in {c \in g.spots : c.kind = "ConcurrentDispatch"}},
               BlindForCone(g, IF cone = {} THEN 0 ELSE Min(cone), cone))
        From(seeds) == Over(seeds \cup Reachable(g, seeds))
    IN  From({e.to : e \in {d \in g.edges : d.conc /\ d.to \in g.nodes}})

EvaluateConcurrent(g, to) ==
    LET Fact(S, T, hits) ==
            [state |-> IF T = {} THEN "UNBOUND" ELSE IF hits # {} THEN "HIT"
                       ELSE IF S.blind # NotBlind THEN "BLIND" ELSE "CLEAN",
             hits |-> hits, blind |-> S.blind]
        Of(S, T) ==
            Fact(S, T, {<<e.from, e.to>> : e \in {d \in S.direct \cup Effects(g, S.cone) : d.to \in T}}
                       \cup {<<0, f>> : f \in S.cone \cap T})
    IN  Of(ConcurrentSurface(g), BindTargets(g, to))

-----------------------------------------------------------------------------
(* Path obligations, as the producer of the graph recorded them.           *)

ClassifyObligation(status) ==
    IF status \in {"VIOLATED", "CANT-PROVE", "UNMATCHED", "SATISFIED"} THEN status ELSE "UNKNOWN"

Dominant(states) ==
    IF "VIOLATED" \in states THEN "VIOLATED"
    ELSE IF states \ {"VIOLATED", "CANT-PROVE", "UNMATCHED", "SATISFIED"} # {} THEN "UNKNOWN"
    ELSE IF "CANT-PROVE" \in states THEN "CANT-PROVE"
    ELSE IF "UNMATCHED" \in states THEN "UNMATCHED"
    ELSE IF "SATISFIED" \in states THEN "SATISFIED"
    ELSE "UNKNOWN"

EvaluateObligation(g, name) ==
    LET records == {o \in g.oblig : o.rule = name}
    IN  IF g.oblig = {} THEN "MISSING"
        ELSE IF records = {} THEN "UNRESOLVED"
        ELSE Dominant({ClassifyObligation(o.status) : o \in records})

=============================================================================
