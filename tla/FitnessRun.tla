------------------------------ MODULE FitnessRun ------------------------------
(***************************************************************************)
(* A policy is judged over a graph and claims are graded against it, then  *)
(* the code of the graph runs: along its edges, and from a blind spot to   *)
(* anything at all.  What the run does is what a rule without a finding,   *)
(* or a claim that passes, promises it cannot do.                          *)
(***************************************************************************)
EXTENDS Claims

CONSTANTS
    Graphs,     \* what the producer may hand over
    Policies,   \* what the service may have declared
    ClaimFile   \* the claims asserted about every graph, a sequence

(* Graphs and policies are records; the fields the checks read.            *)
GraphFields == {"nodes", "edges", "spots", "oblig", "roots", "mains"}
PolicyFields == {"layers", "layered", "layerAllow", "roots", "reach", "pass", "conc", "budget",
                 "spotAllow", "spotRatchet", "spotGate", "effectAllow", "effectRatchet", "effectGate"}
ASSUME FieldsOK ==
    /\ \A g \in Graphs : GraphFields \subseteq DOMAIN g /\ g.nodes \subseteq Functions
    /\ \A p \in Policies :
          /\ PolicyFields \subseteq DOMAIN p /\ (p.budget.set => p.budget.max \in Int)
          /\ \A i \in DOMAIN p.pass : {"name", "from", "to", "through", "allow", "proof"} \subseteq DOMAIN p.pass[i]
          /\ \A i \in DOMAIN p.reach : p.reach[i].to \subseteq DOMAIN Binds
          /\ \A i \in DOMAIN p.pass : p.pass[i].to \subseteq DOMAIN Binds
    /\ \A i \in DOMAIN ClaimFile : LET c == ClaimFile[i] IN
          c.kind \in {"reach", "pass_through"} /\ "to" \in DOMAIN c => c.to.of \subseteq DOMAIN Binds

VARIABLES
    judged,   \* the graph, <<>> until one is loaded
    under,    \* the policy
    said,     \* the findings
    graded,   \* the verdicts of the claims
    walk      \* the run, <<>> before it begins

fitVars == <<judged, under, said, graded, walk>>

FitInit == judged = <<>> /\ under = <<>> /\ said = {} /\ graded = <<>> /\ walk = <<>>

Judge(g, p) ==
    /\ judged = <<>> /\ Loadable(g) /\ Valid(p)
    /\ judged' = g /\ under' = p /\ said' = Check(p, g)
    /\ graded' = Evaluate(g, ClaimFile)
    /\ UNCHANGED walk

-----------------------------------------------------------------------------
(* The run.  hit is what it touched last and conc whether in a goroutine,  *)
(* spawned whether the function it is in runs in one.                      *)

Enter(f) ==
    /\ judged # <<>> /\ walk = <<>> /\ f \in judged.nodes
    /\ walk' = [origin |-> f, at |-> f, hit |-> 0, conc |-> FALSE, spawned |-> FALSE,
                 visited |-> {f}, writes |-> {}]
    /\ UNCHANGED <<judged, under, said, graded>>

(* What the code behind a label may do: only a plain read writes nothing.  *)
MayWrite(l) ==
    LET d == LabelOf[l]
    IN  ~ \/ d.kind = "db" /\ d.op \in {"SELECT"} \cup Control
          \/ d.kind = "bus" /\ d.op = "CONSUME"
          \/ d.kind \notin {"db", "bus"} \cup MethodNamed /\ d.op \in {"GET", "HEAD", "OPTIONS"}

Touch(x, conc) ==
    /\ walk' = [walk EXCEPT !.hit = x, !.conc = walk.spawned \/ conc,
                   !.spawned = @ \/ (conc /\ x \in Functions),
                   !.at = IF x \in Functions THEN x ELSE @,
                   !.visited = @ \cup ({x} \cap Functions),
                   !.writes = @ \cup {l \in {x} \cap Labels : under.budget.set /\ MayWrite(l)}]
    /\ UNCHANGED <<judged, under, said, graded>>

WalkCall(e) ==
    walk # <<>> /\ e \in judged.edges /\ e.from = walk.at /\ e.to \in judged.nodes
    /\ Touch(e.to, e.conc)

(* A dynamic label stands for any effect of its kind. *)
WalkEffect(e, l) ==
    /\ walk # <<>> /\ e \in judged.edges /\ e.from = walk.at /\ IsBoundary(e)
    /\ IF IsDynamic(e) THEN LabelOf[l].kind = LabelOf[e.to].kind ELSE l = e.to
    /\ Touch(l, e.conc)

WalkUnseen(x) ==
    /\ walk # <<>>
    /\ \E site \in {walk.at, Package[walk.at]}, b \in judged.spots :
          b.site = site /\ b.kind \notin DisclosureKinds
          /\ Touch(x, b.kind = "ConcurrentDispatch")

FitNext ==
    \/ \E g \in Graphs, p \in Policies : Judge(g, p)
    \/ \E f \in Functions : Enter(f)
    \/ judged # <<>> /\ \E e \in judged.edges : WalkCall(e) \/ \E l \in Labels : WalkEffect(e, l)
    \/ \E x \in Functions \cup Labels : WalkUnseen(x)

FitSpec == FitInit /\ [][FitNext]_fitVars

-----------------------------------------------------------------------------
Silent(kind, r) == ~\E f \in said : f.rule = kind /\ f.name = r.name
Names(S) == UNION {Binds[s] : s \in S \ {EntrypointSelector}}

(* A rule that reports nothing is a proof, as the rules' comments say: the *)
(* code does not do what it forbids, seen or unseen.  A goroutine that     *)
(* only a blind spot outside the concurrent cone starts is disclosed       *)
(* elsewhere; the source a run begins in is no target of its own.          *)
GreenIsProof ==
    judged # <<>> /\ walk # <<>> =>
        /\ \A i \in DOMAIN under.reach : LET r == under.reach[i] IN
              /\ Silent("must_not_reach", r) /\ walk.origin \in BindSources(judged, r.from)
              => walk.hit \notin Names(r.to) \ {walk.origin}
        /\ \A i \in DOMAIN under.pass : LET r == under.pass[i] IN
              /\ Silent("must_pass_through", r) /\ walk.origin \in BindSources(judged, r.from)
              /\ walk.hit \in Names(r.to) \ {walk.origin}
              => \/ walk.visited \cap Names(r.through) # {}
                 \/ Allowed(r.allow, walk.origin, walk.hit)
        /\ \A i \in DOMAIN under.conc : LET r == under.conc[i] IN
              Silent("no_concurrent_reach", r) /\ walk.conc => walk.hit \notin Names(r.to)

(* A claim that passes holds of the run, where it is about what may run:   *)
(* an ERROR, never a PASS, is what a blind spot leaves of it.              *)
ClaimsHold ==
    judged # <<>> /\ walk # <<>> =>
        \A i \in DOMAIN graded : LET c == ClaimFile[i] IN
            graded[i].outcome = "PASS" =>
                CASE c.kind = "no_concurrent_reach" -> walk.conc => walk.hit \notin Names(c.to.of)
                  [] c.kind = "reach" /\ c.expect = "absent" ->
                        walk.origin \in BindSources(judged, c.from.of) =>
                            walk.hit \notin Names(c.to.of) \ {walk.origin}
                  [] c.kind = "pass_through" ->
                        /\ walk.origin \in BindSources(judged, c.from.of)
                        /\ walk.hit \in Names(c.to.of) \ {walk.origin}
                        => walk.visited \cap Names(c.through.of) # {}
                  [] OTHER -> TRUE

(* A budget that reports nothing bounds what a route can write.            *)
BudgetBounds ==
    /\ judged # <<>> /\ walk # <<>> /\ under.budget.set
    /\ ~\E f \in said : f.rule = "io_budget"
    /\ IsRoute(under, judged, walk.origin)
    => Cardinality(walk.writes) <= under.budget.max

(* The exceptions audit: deleting every DEAD entry at once changes no      *)
(* finding, though two entries may cover one edge.                         *)
DeadEntriesRemovable ==
    judged # <<>> => Check(WithoutDead(under, judged), judged) = said

(* A blind spot declared on top of a graph (a ratified seam) takes proofs  *)
(* back and no finding: at most it names another spot or counts more.      *)
SeamsOnlyAbstain ==
    judged # <<>> /\ walk = <<>> =>
        \A f \in judged.nodes, x \in said :
            \E y \in Check(under, WithBlindSpots(judged, {[kind |-> "ImpeachmentSeam", site |-> f]})) :
                \A field \in {"rule", "name", "sev", "to", "what"} : y[field] = x[field]
=============================================================================
