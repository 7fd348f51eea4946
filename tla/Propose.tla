------------------------------- MODULE Propose -------------------------------
(***************************************************************************)
(* groundwork init: a policy derived from what a graph does today, checked *)
(* against that graph and relaxed where it fails, and put in force.  From  *)
(* then on the merge requests of ReviewGate are gated by it.               *)
(***************************************************************************)
EXTENDS ReviewGate

CONSTANTS
    NameOf,       \* function -> the selector that is its name
    TypeOf,       \* function -> the selector that is its receiver type, "" for none
    LastSegment,  \* package -> the last segment of its path
    Numbered,     \* the names "layer-1", "layer-2", ... as a sequence
    PatternOf,    \* package -> its path as a pattern, [covers, len]
    DBWrites,     \* the selectors "boundary:db <verb>" of the mutating verbs
    BusPublish,   \* the selector "boundary:bus PUBLISH"
    MaxAllows,    \* maxBaselineAllows
    InitGraphs,   \* the graphs a service may have when init is run
    Branches      \* those it may be changed to afterwards

(* A function's name selects at least the function; the write selectors    *)
(* are built from the verbs that IsWrite knows (dbWriteTargets).           *)
ASSUME SelectorsOK ==
    /\ \A f \in Functions : f \in Binds[NameOf[f]] /\ EntrypointSelector \notin {NameOf[f], TypeOf[f]}
    /\ EntrypointSelector \notin DBWrites \cup {BusPublish}
    /\ UNION {Binds[s] : s \in DBWrites} = {l \in Labels : LabelOf[l].kind = "db" /\ IsWrite(l)}
    /\ Binds[BusPublish] = {l \in Labels : LabelOf[l].kind = "bus" /\ IsWrite(l)}
ASSUME GraphsOK == \A g \in InitGraphs \cup Branches : g.nodes \subseteq Functions

DBWrite(e)    == IsBoundary(e) /\ LabelOf[e.to].kind = "db" /\ IsWrite(e.to)
OpaqueEffects(E)   == {e.to : e \in {d \in E : IsBoundary(d) /\ UnclassifiedDB(d.to)}}
RoutesOf(p, g) == {f \in g.nodes : IsRoute(p, g, f)}

-----------------------------------------------------------------------------
(* Layers: packages ranked by the longest chain of calls below them.       *)

RootPackages(g) == IF g.roots # {} THEN g.roots ELSE {Package[f] : f \in g.mains} \ {0}
PackageCalls(g) ==
    LET all == {<<Package[e.from], Package[e.to]>> : e \in {d \in g.edges : ~IsBoundary(d) /\ d.to \in g.nodes}}
    IN  {c \in all : {c[1], c[2]} \cap (RootPackages(g) \cup {0}) = {}}

ProposeLayers(p, g) ==
    LET calls == PackageCalls(g)
        pkgs  == {c[1] : c \in calls} \cup {c[2] : c \in calls}
        Raise(rank) ==
            [k \in pkgs |-> Max({0} \cup {rank[c[2]] + 1 : c \in {d \in calls : d[1] = k /\ d[2] # k}})]
        Rank[n \in Nat] == IF n = 0 THEN [k \in pkgs |-> 0] ELSE Raise(Rank[n - 1])
        At(rank, r) == {k \in pkgs : rank[k] = r}
        LayerOf(i, members) ==
            [name |-> IF Cardinality(members) = 1 THEN LastSegment[CHOOSE k \in members : TRUE] ELSE Numbered[i],
             packages |-> {PatternOf[k] : k \in members}]
        Ranked(rank, top) ==
            IF Raise(rank) # rank \/ top = 0 THEN p   \* a cycle, or one depth
            ELSE [p EXCEPT !.layered = TRUE, !.roots = RootPackages(g),
                           !.layers = [i \in 1..top + 1 |-> LayerOf(i, At(rank, top + 1 - i))]]
        Of(rank) == Ranked(rank, Max({rank[k] : k \in pkgs}))
    IN  IF Cardinality(pkgs) < 2 THEN p ELSE Of(Rank[Cardinality(pkgs)])

-----------------------------------------------------------------------------
(* The other rules, each a ratchet of what holds of the graph.             *)

(* The first function, or its receiver type, that every path to a write    *)
(* passes; neither a source nor a writer itself.                           *)
GuardsAll(g, through) ==
    LET open == SourcesOf(g) \ Binds[through]
    IN  /\ open # {}
        /\ \A s \in open : \A e \in Effects(g, GuardedWalk(g, s, Binds[through])) : ~DBWrite(e)
ProposeWaypoint(p, g) ==
    LET writers == {e.from : e \in {d \in g.edges : DBWrite(d)}}
        Candidate(f) ==
            IF TypeOf[f] # "" /\ GuardsAll(g, TypeOf[f]) THEN TypeOf[f] ELSE NameOf[f]
        guards == {f \in g.nodes \ (writers \cup SourcesOf(g)) : GuardsAll(g, Candidate(f))}
    IN  IF writers = {} \/ guards = {} THEN p
        ELSE [p EXCEPT !.pass = <<[name |-> "baseline-guards-db-writes", from |-> {EntrypointSelector},
                                   to |-> DBWrites, through |-> {Candidate(Min(guards))},
                                   allow |-> {}, proof |-> FALSE]>>]

(* Judged over what the gate will bind an entry to: the function and the   *)
(* closures its name covers.                                               *)
ReadOnlyEffects(g, f) == Effects(g, WithReached(g, BindSources(g, {NameOf[f]})))
ProposeReadOnlyOver(p, g, to) ==
    LET readOnly == {f \in RoutesOf(p, g) :
                        LET E == ReadOnlyEffects(g, f) IN (\A e \in E : ~IsWrite(e.to)) /\ OpaqueEffects(E) = {}}
    IN  IF readOnly = {} \/ BindTargets(g, to) = {} THEN p
        ELSE [p EXCEPT !.reach = <<[name |-> "read-routes-stay-read-only",
                                    from |-> {NameOf[f] : f \in readOnly}, to |-> to, proof |-> FALSE]>>]
(* Mutant: the bus is left out. *)
ProposeReadOnlyDBOnly(p, g) == ProposeReadOnlyOver(p, g, DBWrites)
ProposeReadOnly(p, g) == ProposeReadOnlyOver(p, g, DBWrites \cup {BusPublish})

ConcurrentEffects(g) ==
    {e \in g.edges : e.conc /\ IsBoundary(e)}
    \cup Effects(g, WithReached(g, {e.to : e \in {d \in g.edges : d.conc /\ d.to \in g.nodes}}))
ProposeConcurrent(p, g) ==
    IF \/ \E e \in ConcurrentEffects(g) : DBWrite(e)
       \/ OpaqueEffects(ConcurrentEffects(g)) # {}
       \/ BindTargets(g, DBWrites) = {}
    THEN p
    ELSE [p EXCEPT !.conc = <<[name |-> "no-concurrent-db-writes", to |-> DBWrites, proof |-> FALSE]>>]

ProposeBudget(p, g) ==
    LET Writes(f) == {e.to : e \in {d \in Effects(g, WithReached(g, {f})) : IsWrite(d.to)}}
    IN  [p EXCEPT !.budget = [set |-> TRUE, max |-> Max({0} \cup {Cardinality(Writes(f)) : f \in RoutesOf(p, g)})]]

(* Observe first: what there is today is allowed, and nothing gates yet. *)
ProposeRatchet(p, g) ==
    [p EXCEPT !.spotRatchet = TRUE, !.spotAllow = {[kind |-> b.kind, sites |-> {b.site}] : b \in g.spots}]
ProposeEffectRatchet(p, g) ==
    [p EXCEPT !.effectRatchet = TRUE, !.effectAllow = {{l} : l \in WriteTargets(g)}]

-----------------------------------------------------------------------------
(* reconcile: the proposal is checked against its own graph, and relaxed   *)
(* or withdrawn where the code already breaks it.                          *)

EntryFor(f) ==   \* an allow entry of the two names a finding carries
    LET Cover(x) == IF x \in Functions THEN Binds[NameOf[x]] ELSE {x}
    IN  [from |-> Cover(f.from), to |-> Cover(f.to)]
Fits(allow, F) == F = {} \/ Cardinality(allow) + Cardinality(F) <= MaxAllows
RelaxLayering(p, F) ==
    IF Fits(p.layerAllow, F) THEN [p EXCEPT !.layerAllow = @ \cup {EntryFor(f) : f \in F}]
    ELSE [p EXCEPT !.layers = <<>>, !.layered = FALSE, !.roots = {}, !.layerAllow = {}]
RelaxPassThrough(p, F) ==
    IF F = {} THEN p
    ELSE IF ~Fits(p.pass[1].allow, F) THEN [p EXCEPT !.pass = <<>>]
    ELSE [p EXCEPT !.pass[1].allow = @ \cup {EntryFor(f) : f \in F}]
RelaxNotReach(p, g, F) ==
    LET Owned(s) == \E f \in F : f.from \in BindSources(g, {s})
    IN  IF F = {} THEN p
        ELSE IF \A s \in p.reach[1].from : Owned(s) THEN [p EXCEPT !.reach = <<>>]
        ELSE [p EXCEPT !.reach[1].from = {s \in @ : ~Owned(s)}]
RelaxConcurrent(p, F) == IF F = {} THEN p ELSE [p EXCEPT !.conc = <<>>]
RelaxBudget(p, F)     == [p EXCEPT !.budget.max = @ + Cardinality(F)]
Relax(p, g, V) ==
    LET Of(rule) == {f \in V : f.rule = rule}
    IN  RelaxBudget(RelaxConcurrent(RelaxNotReach(RelaxPassThrough(RelaxLayering(p,
            Of("layering")), Of("must_pass_through")), g, Of("must_not_reach")), Of("no_concurrent_reach")), Of("io_budget"))

(* Mutant: what is violated is told and left. *)
ReconcilePolicyToldOnly(p, g) == [policy |-> p, latent |-> ViolationsOf(Check(p, g))]
(* Three passes; one without a violation changes nothing. *)
ReconcilePolicy(p, g) ==
    LET Pass(r, V) == [policy |-> Relax(r.policy, g, V), latent |-> r.latent \cup V]
        Again(r)   == Pass(r, ViolationsOf(Check(r.policy, g)))
    IN  Again(Again(Again([policy |-> p, latent |-> {}])))

(* The flags that would reconnect a seam, by the markers binned B. *)
ReclaimHint(g) ==
    LET Marked(kinds) == \E m \in g.frontier : m.bin = "B" /\ m.kind \in kinds
    IN  (IF Marked({"severed-closure", "starved-entrypoint"}) THEN {"--reclaim"} ELSE {})
        \cup (IF Marked({"UnresolvedCall"}) THEN {"--reclaim-middleware"} ELSE {})

(* The closing section lists every opaque label a route or a goroutine     *)
(* reaches, under the policy as it is handed over.                         *)
Closing(p, g) ==
    OpaqueEffects(ConcurrentEffects(g) \cup UNION {Effects(g, WithReached(g, {f})) : f \in RoutesOf(p, g)})

Blank(g, service) ==
    [service |-> service, version |-> 1, substrate |-> g.algo, layers |-> <<>>, layered |-> FALSE, layerAllow |-> {},
     roots |-> {}, reach |-> <<>>, pass |-> <<>>, conc |-> <<>>, budget |-> [set |-> FALSE, max |-> 0],
     spotAllow |-> {}, spotRatchet |-> FALSE, spotGate |-> FALSE,
     effectAllow |-> {}, effectRatchet |-> FALSE, effectGate |-> FALSE, brokers |-> {}]
ProposeRules(p, g) ==
    ProposeEffectRatchet(ProposeRatchet(ProposeBudget(ProposeConcurrent(ProposeReadOnly(
        ProposeWaypoint(p, g), g), g), g), g), g)
Proposal(g, service) ==
    LET Out(r)  == [policy |-> r.policy, latent |-> r.latent, hint |-> ReclaimHint(g), opaque |-> Closing(r.policy, g)]
        Of(p)   == Out(ReconcilePolicy(ProposeRules(p, g), g))
    IN  Of(ProposeLayers(Blank(g, service), g))

-----------------------------------------------------------------------------
VARIABLE
    born   \* the graph init was run on, what it proposed and if that was written

initVars == <<born, mrVars>>

Unborn == [done |-> FALSE]
InitInit ==
    /\ main \in {g \in InitGraphs : Loadable(g)} /\ policyOf = [Blank(main, "") EXCEPT !.version = 0]
    /\ born = Unborn /\ mr = Closed /\ ever = Exposed(main)

(* An invalid policy is not written. *)
CmdInit(service) ==
    /\ ~born.done
    /\ LET Write(r) ==
            /\ born' = [done |-> TRUE, graph |-> main, proposed |-> r, written |-> Valid(r.policy)]
            /\ policyOf' = IF Valid(r.policy) THEN r.policy ELSE policyOf
       IN  Write(Proposal(main, service))
    /\ UNCHANGED <<main, mr, ever>>

(* Branches of the service are opened, gated under it and merged. *)
OpenUnder(b) == born.done /\ born.written /\ Open(b, {}) /\ UNCHANGED born
MergeUnder == born.done /\ Merge /\ UNCHANGED born
CloseUnder == born.done /\ Close /\ UNCHANGED born

InitNext ==
    \/ CmdInit("s")
    \/ \E b \in Branches : OpenUnder(b)
    \/ MergeUnder \/ CloseUnder

InitSpec == InitInit /\ [][InitNext]_initVars

-----------------------------------------------------------------------------
(* The roots are inferred, and a withdrawn layering takes them along.      *)
Withdrawn(p, g) == g.roots = {} /\ g.mains # {} /\ ~p.layered

(* init's policy passes its own gate on the graph it was measured on, "by  *)
(* construction" (propose.go, closing): it violates nothing but            *)
(* obligations, it allows every blind spot and every write there is, and   *)
(* its closing list leaves out no opaque label that kept a route from      *)
(* being ratcheted.  A withdrawn layering may leave the first false, and   *)
(* code that only a composition root reaches the last.                     *)
BaselineIsClean ==
    born.done /\ born.written /\ main = born.graph =>
        LET g == born.graph  p == born.proposed.policy IN
        /\ Withdrawn(p, g) \/ \A f \in ViolationsOf(Check(p, g)) : f.rule = "obligation"
        /\ \A b \in g.spots : AllowsSpot(p, b)
        /\ \A l \in WriteTargets(g) : AllowsEffect(p, l)
        /\ g.nodes = WithReached(g, RoutesOf(p, g)) =>
              \A f \in RoutesOf(p, g) : OpaqueEffects(ReadOnlyEffects(g, f)) \subseteq born.proposed.opaque

(* What init locked in stays locked in, however many branches are merged:  *)
(* a route it found read-only reaches no write of the database or the bus, *)
(* no goroutine reaches one of the database, and no route writes more than *)
(* the busiest one did.                                                    *)
RatchetHolds ==
    born.done /\ born.written /\ ~Withdrawn(policyOf, born.graph) =>
        /\ \A i \in DOMAIN policyOf.reach : \A f \in BindSources(main, policyOf.reach[i].from) :
              \A e \in Effects(main, WithReached(main, {f})) :
                  ~(IsWrite(e.to) /\ LabelOf[e.to].kind \in {"db", "bus"})
        /\ policyOf.conc # <<>> => \A e \in ConcurrentEffects(main) : ~DBWrite(e)
        /\ \A f \in RoutesOf(policyOf, main) :
              Cardinality({e.to : e \in {d \in Effects(main, WithReached(main, {f})) : IsWrite(d.to)}})
                 <= policyOf.budget.max

(* cmdInit calls an invalid proposal a bug: "init produced an invalid      *)
(* policy (bug)" (cmd/groundwork/main.go).                                 *)
InitNeverRefuses == born.done => born.written

=============================================================================
