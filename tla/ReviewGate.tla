------------------------------ MODULE ReviewGate ------------------------------
(***************************************************************************)
(* A change is reviewed and gated as the difference of two graphs, and the *)
(* branches that pass are merged one after the other.  The artifact of a   *)
(* review may be held back, edited or signed again before it is verified.  *)
(***************************************************************************)
EXTENDS Fitness

CONSTANTS
    MRGraphs,    \* the graphs a branch may have
    MRPolicies,  \* the policies of the service
    Scopes,      \* declared scopes: sets of packages, {} for none
    StampRequired \* GROUNDWORK_REQUIRE_STAMP is set

-----------------------------------------------------------------------------
(* The difference of two graphs.                                           *)

(* Edges are compared by their ends. *)
Ends(g, boundary) == {<<e.from, e.to>> : e \in {d \in g.edges : IsBoundary(d) = boundary}}
DiffGraphs(base, branch) ==
    [nodes   |-> SymDiff(base.nodes, branch.nodes),
     added   |-> branch.nodes \ base.nodes,
     edges   |-> SymDiff(Ends(base, FALSE), Ends(branch, FALSE)),
     effects |-> SymDiff(Ends(base, TRUE), Ends(branch, TRUE))]
Empty(d) == d.nodes = {} /\ d.edges = {} /\ d.effects = {}
TouchedPackages(d) ==
    {Package[f] : f \in d.nodes \cup {e[1] : e \in d.edges \cup d.effects}
                        \cup {e[2] : e \in d.edges}} \ {0}
Shape(d) ==
    LET n == Cardinality(TouchedPackages(d))
    IN  IF Empty(d) THEN "body-only" ELSE IF n <= 1 THEN "localized"
        ELSE IF n <= 3 THEN "cross-package" ELSE "broad"

NewFindings(p, base, branch) ==
    LET Of(had, has) ==
        [violations |-> {f \in has : Key(f) \notin had /\ f.sev = Violation},
         cautions   |-> {f \in has : Key(f) \notin had /\ f.sev = Caution},
         standing   |-> {f \in has : Key(f) \in had /\ f.sev = Caution}]
    IN  Of({Key(f) : f \in Check(p, base)}, Check(p, branch))

NewBlindSpots(p, base, branch) ==
    {b \in branch.spots : b \notin base.spots /\ b.kind # "ImpeachmentSeam" /\ ~AllowsSpot(p, b)}

WriteTargets(g) == {e.to : e \in {d \in Effects(g, g.nodes) : IsWrite(d.to)}}
NewWriteTargets(p, base, branch) ==
    {l \in WriteTargets(branch) \ WriteTargets(base) : ~AllowsEffect(p, l)}

DBLabelDrift(base, branch) ==
    LET Count(g) == Cardinality({e \in Effects(g, g.nodes) : UnclassifiedDB(e.to)})
    IN  Count(branch) > Count(base)

(* What other services see: the named routes and topics served, and the    *)
(* topics and endpoints used, each as a set whoever serves or uses it.     *)
ExternalRoutes(g) == {[surface |-> "entrypoint", kind |-> e.kind, name |-> e.name] :
                        e \in {x \in g.entries : x.kind \in {"http", "consumer"} /\ x.name # ""}}
Surface(l) ==
    LET d == LabelOf[l]
    IN  CASE d.kind = "db" -> {}
          [] d.kind = "bus" /\ d.op = "PUBLISH" ->
                {[surface |-> "publish", kind |-> "", name |-> d.target]}
          [] d.kind = "bus" /\ d.op = "CONSUME" ->
                {[surface |-> "consume", kind |-> "", name |-> d.target]}
          [] d.kind = "bus" -> {}
          [] OTHER -> {[surface |-> "outbound", kind |-> d.kind, name |-> d.target]}
ContractEffects(g) == UNION {Surface(e.to) : e \in Effects(g, g.nodes)}
Exposed(g) == ExternalRoutes(g) \cup ContractEffects(g)

(* Mutant: whichever way the entrypoint moved. *)
DedupeAnyWay(changes) ==
    {c \in changes : ~(c.what.surface = "consume"
        /\ \E e \in changes : e.what.surface = "entrypoint" /\ e.what.name = c.what.name)}

(* A topic both served and consumed is told once, by its entrypoint. *)
Dedupe(changes) ==
    {c \in changes : ~(c.what.surface = "consume"
        /\ \E e \in changes : e.what.surface = "entrypoint" /\ e.op = c.op
                              /\ e.what.name = c.what.name)}
ContractChanges(base, branch) ==
    Dedupe({[op |-> "+", what |-> x] : x \in Exposed(branch) \ Exposed(base)}
           \cup {[op |-> "-", what |-> x] : x \in Exposed(base) \ Exposed(branch)})
Breaking(changes) == {c \in changes : c.op = "-"}

IOEffects(base, branch) ==
    LET Of(g) == {e.to : e \in Effects(g, g.nodes)}
    IN  {<<"+", l>> : l \in Of(branch) \ Of(base)} \cup {<<"-", l>> : l \in Of(base) \ Of(branch)}

(* A route of both sides by what moved, of one side if it writes at all. *)
RouteIODeltas(p, base, branch) ==
    LET Writes(R, r) == IF r \in DOMAIN R THEN R[r].writes ELSE {}
        Of(B, N) ==
            {[route |-> r, added |-> Writes(N, r) \ Writes(B, r), removed |-> Writes(B, r) \ Writes(N, r)] :
                r \in {x \in DOMAIN B \cup DOMAIN N : Writes(B, x) # Writes(N, x)}}
    IN  Of(RouteWrites(p, base), RouteWrites(p, branch))

ReachExisting(d, base, branch) ==
    LET sites == d.added \cup {e[1] : e \in (d.edges \cap Ends(branch, FALSE))
                                          \cup (d.effects \cap Ends(branch, TRUE))}
    IN  SourcesOf(branch) \cap SourcesOf(base) \cap (sites \cup Reaching(branch, sites))

ProvenanceCaveats(substrate, base, branch) ==
    (IF SubstrateMismatch(base.algo, branch.algo) THEN {"algo"} ELSE {})
    \cup (IF SubstrateMismatch(base.tool, branch.tool) THEN {"tool"} ELSE {})
    \cup GateCaveats(branch, substrate)

-----------------------------------------------------------------------------
(* The review and the gate.                                                *)

Review(p, base, branch) ==
    LET Verdict(d, new, contract, spots, writes, drift) ==
            IF \/ new.violations # {}
               \/ Breaking(contract) # {}
               \/ GatesBlindSpots(p) /\ spots # {}
               \/ GatesEffects(p) /\ writes # {}
            THEN "BLOCK"
            ELSE IF ~Empty(d) \/ contract # {} \/ new.cautions # {} \/ spots # {} \/ writes # {} \/ drift
            THEN "STRUCTURALLY-CLEAR"
            ELSE "NO-STRUCTURAL-SIGNAL"
        Of(d, new, contract, spots, writes, drift) ==
            [verdict |-> Verdict(d, new, contract, spots, writes, drift), shape |-> Shape(d),
             findings |-> new, contract |-> contract, effects |-> IOEffects(base, branch),
             routes |-> RouteIODeltas(p, base, branch), reach |-> ReachExisting(d, base, branch),
             spots |-> spots, writes |-> writes, drift |-> drift,
             caveats |-> ProvenanceCaveats(p.substrate, base, branch)]
    IN  Of(DiffGraphs(base, branch), NewFindings(p, base, branch), ContractChanges(base, branch),
           NewBlindSpots(p, base, branch), NewWriteTargets(p, base, branch), DBLabelDrift(base, branch))

ScopeEscapes(d, scope) == IF scope = {} THEN {} ELSE TouchedPackages(d) \ scope

Gate(p, base, branch, scope) ==
    /\ NewFindings(p, base, branch).violations = {}
    /\ ScopeEscapes(DiffGraphs(base, branch), scope) = {}
    /\ Breaking(ContractChanges(base, branch)) = {}
    /\ GatesBlindSpots(p) => NewBlindSpots(p, base, branch) = {}
    /\ GatesEffects(p) => NewWriteTargets(p, base, branch) = {}

(* Mutant: nothing is computed again. *)
VerifyArtifactBodyOnly(claimed, rederived) ==
    IF claimed.digest # claimed.body THEN "TAMPERED" ELSE "AUTHENTIC"
(* A digest is the body it was computed over; rederived is the review of   *)
(* the graphs at hand.                                                     *)
VerifyArtifact(claimed, rederived) ==
    IF claimed.digest # claimed.body THEN "TAMPERED"
    ELSE IF claimed.digest # rederived THEN "STALE" ELSE "AUTHENTIC"

(* A graph's stamp names the commit it was built from, <<>> for none; a    *)
(* gate is told which commit to expect, <<>> for none.                     *)
(* Mutant: a gate that is told nothing checks nothing. *)
VerifyGateStampOptional(stamp, expect) == expect = <<>> \/ stamp = expect
VerifyGateStamp(stamp, expect) ==
    IF expect = <<>> THEN ~StampRequired ELSE stamp # <<>> /\ stamp = expect
CmdVerifyArtifact(claimed, file, expect, rederived) ==
    IF VerifyGateStamp(file.stamp, expect) THEN VerifyArtifact(claimed, rederived) ELSE "ERROR"

-----------------------------------------------------------------------------
VARIABLES
    main,      \* the graph of the main branch
    policyOf,  \* the policy in force
    mr,        \* the open merge request: its branch, scope and artifact
    ever       \* what main has ever exposed

mrVars == <<main, policyOf, mr, ever>>

Closed == [open |-> FALSE]

MRInit ==
    /\ main \in {g \in MRGraphs : Loadable(g)}
    /\ policyOf \in {p \in MRPolicies : Valid(p) /\ OK(Check(p, main))}
    /\ mr = Closed /\ ever = Exposed(main)

Open(branch, scope) ==
    /\ ~mr.open /\ Loadable(branch)
    /\ LET body == Review(policyOf, main, branch)
       IN  mr' = [open |-> TRUE, branch |-> branch, scope |-> scope, edits |-> 0, was |-> branch,
                  artifact |-> [body |-> body, digest |-> body],
                  passed |-> Gate(policyOf, main, branch, scope)]
    /\ UNCHANGED <<main, policyOf, ever>>

(* The files a job may be handed for a commit: its graph, stamped or not,  *)
(* or the one that was built for the commit before.                        *)
Handed(commit, before) ==
    {[graph |-> commit, stamp |-> <<commit>>], [graph |-> commit, stamp |-> <<>>],
     [graph |-> before, stamp |-> <<before>>]}
(* The branch moves on: the artifact at hand was computed before.          *)
Push(branch, file, expect) ==
    /\ mr.open /\ Loadable(branch) /\ branch # mr.branch /\ mr.edits = 0
    /\ mr' = [mr EXCEPT !.branch = branch, !.was = mr.branch, !.edits = 1,
                        !.passed = /\ VerifyGateStamp(file.stamp, expect)
                                   /\ Gate(policyOf, main, file.graph, mr.scope)]
    /\ UNCHANGED <<main, policyOf, ever>>

(* A field of the artifact is edited by hand, or the digest made anew. *)
Edit ==
    /\ mr.open /\ mr.edits < 2
    /\ mr' = [mr EXCEPT !.artifact.body.verdict = "STRUCTURALLY-CLEAR", !.edits = @ + 1]
    /\ UNCHANGED <<main, policyOf, ever>>
Resign ==
    /\ mr.open /\ mr.artifact.digest # mr.artifact.body
    /\ mr' = [mr EXCEPT !.artifact.digest = mr.artifact.body]
    /\ UNCHANGED <<main, policyOf, ever>>

Merge ==
    /\ mr.open /\ mr.passed
    /\ main' = mr.branch /\ ever' = ever \cup Exposed(mr.branch) /\ mr' = Closed
    /\ UNCHANGED policyOf
Close ==
    /\ mr.open /\ ~mr.passed
    /\ mr' = Closed
    /\ UNCHANGED <<main, policyOf, ever>>

MRNext ==
    \/ \E b \in MRGraphs, s \in Scopes : Open(b, s)
    \/ mr.open /\ \E b \in MRGraphs : \E file \in Handed(b, mr.branch), x \in {<<>>, <<b>>} : Push(b, file, x)
    \/ Edit \/ Resign \/ Merge \/ Close

MRSpec == MRInit /\ [][MRNext]_mrVars

-----------------------------------------------------------------------------
(* A main branch that meets its policy, and takes only what the gate       *)
(* passes, goes on meeting it: a finding's identity hides no violation.    *)
MainStaysClean == OK(Check(policyOf, main))

(* No route, topic or endpoint that main ever exposed is gone from it.     *)
NothingExposedIsLost == ever \subseteq Exposed(main)

(* An artifact that verifies against a commit says of it what a review of  *)
(* its graph says, however it was held back, edited or signed again, and   *)
(* whichever graph the job was handed.                                     *)
AuthenticIsTrue ==
    LET Against(file, now) ==
            CmdVerifyArtifact(mr.artifact, file, <<mr.branch>>, now) = "AUTHENTIC"
               => mr.artifact.body = now /\ file.graph = mr.branch
    IN  mr.open /\ mr.edits > 0 =>
            \A file \in Handed(mr.branch, mr.was) : Against(file, Review(policyOf, main, file.graph))

=============================================================================
