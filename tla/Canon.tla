-------------------------------- MODULE Canon --------------------------------
(***************************************************************************)
(* From the spans of one flow to the tree a golden holds: no ids and no    *)
(* times, siblings in groups that say what is known of their order, loops  *)
(* folded and spans below the threshold contracted away.                   *)
(*                                                                         *)
(* A group that is no sequence keeps its members in the order of their     *)
(* contents, so it is a bag here: a node's number of copies.  Times are    *)
(* integers, and 0 is the time nobody recorded.                            *)
(***************************************************************************)
EXTENDS OpKey, SequencesExt, Bags, BagsExt

(* A span's id is its trace (0 if unknown) and its number in it.           *)
IdLess(x, y) == x[1] < y[1] \/ (x[1] = y[1] /\ x[2] < y[2])

(* A flow's spans are a sequence, root the place of its root (0: none).    *)
IDs(f)     == {f.spans[i].id : i \in DOMAIN f.spans}
Orphans(f) == {i \in DOMAIN f.spans \ {f.root} : f.spans[i].parent \notin IDs(f)}
Kids(f, i) == {k \in DOMAIN f.spans : f.spans[k].parent = f.spans[i].id}

-----------------------------------------------------------------------------
(* Which siblings raced.                                                   *)

Overlaps(a, b) == a.start < b.end /\ b.start < a.end
ConcurrentByClock(a, b, parent) == Overlaps(a, b)   \* goroutines ignored
Concurrent(a, b, parent) ==
    \/ /\ {0} \cap {parent, a.gor, b.gor} = {}
       /\ parent \notin {a.gor, b.gor} /\ a.gor # b.gor
    \/ Overlaps(a, b)

(* The classes of the equivalence that racing spans generate.              *)
Joined(P, pair) == LET hit == {C \in P : C \cap pair # {}} IN (P \ hit) \cup {UNION hit}
Components(f, S, parent) ==
    FoldSet(LAMBDA pair, P : Joined(P, pair), {{i} : i \in S},
            {{p[1], p[2]} : p \in {p \in S \X S : p[1] < p[2] /\ Concurrent(f.spans[p[1]], f.spans[p[2]], parent)}})

(* Every copy of a member replaced by a bag of its own.                    *)
Copies(k, bag) == [x \in DOMAIN bag |-> k * bag[x]]
Replaced(bag, By(_)) == FoldSet(LAMBDA m, b : b (+) Copies(bag[m], By(m)), EmptyBag, DOMAIN bag)

Seq1(node, many) == [order |-> "sequence", many |-> many, members |-> SetToBag({node})]
Grouped(order, bag) == [order |-> IF BagCardinality(bag) > 1 THEN order ELSE "sequence",
                        many |-> FALSE, members |-> bag]
Only(g) == CHOOSE m \in DOMAIN g.members : TRUE

(* A step begins where the order to what came before it is known.  In the  *)
(* process a later start settles that; from an export, a gap beyond the    *)
(* guard between two intervals that are both known.                        *)
StepBegins(f, prev, cur) ==
    IF f.posthoc THEN prev.timed /\ cur.timed /\ cur.start - prev.end > Config.guard
    ELSE 0 \notin {prev.start, cur.start} /\ cur.start > prev.start
Steps(f, units) ==
    FoldLeft(LAMBDA steps, u :
                 IF steps = <<>> \/ StepBegins(f, Last(Last(steps)), u) THEN Append(steps, <<u>>)
                 ELSE Append(Front(steps), Append(Last(steps), u)),
             <<>>, units)
StepGroup(step) ==
    IF Len(step) = 1 THEN Grouped("concurrent", step[1].bag)
    ELSE Grouped("unordered", FoldLeft(LAMBDA b, u : b (+) u.bag, EmptyBag, step))

(* Equal members of a group and equal steps in a row are one that runs     *)
(* "1..*" times.                                                           *)
FoldMembers(g) ==
    IF g.order # "sequence" /\ \E m \in DOMAIN g.members : g.members[m] > 1
    THEN [g EXCEPT !.many = TRUE, !.members = SetToBag(DOMAIN @)] ELSE g
FoldSameOps(gs) ==   \* a loop told by the operation alone
    FoldLeft(LAMBDA out, g :
                 IF out # <<>> /\ g.order = "sequence" /\ Last(out).order = "sequence" /\ Only(Last(out)).op = Only(g).op
                 THEN Append(Front(out), [Last(out) EXCEPT !.many = TRUE]) ELSE Append(out, g),
             <<>>, gs)
FoldSteps(gs) ==
    FoldLeft(LAMBDA out, g :
                 IF out # <<>> /\ g.order = "sequence" /\ Last(out).order = "sequence" /\ Last(out).members = g.members
                 THEN Append(Front(out), Seq1(Only(g), TRUE)) ELSE Append(out, g),
             <<>>, gs)
CollapseLoops(gs) == FoldSteps([i \in DOMAIN gs |-> FoldMembers(gs[i])])

-----------------------------------------------------------------------------
(* The tree.                                                               *)

Redacted(k, v) == IF k \in Config.redact THEN "<redacted>" ELSE IF v.class # "" THEN v.class ELSE v.value
ProjectAttrs(a) ==
    [stmt |-> NormalizeSQL(a.stmt), fqn |-> a.fqn,
     kept |-> {<<k, Redacted(k, a.extra[k])>> : k \in Config.allow \cap DOMAIN a.extra}]
Status(s) == IF s.status \in {"ok", "error"} THEN s.status ELSE ""

Node(s, named, kind, groups) ==
    [op |-> named.op, peer |-> named.peer, kind |-> kind, service |-> s.svc, async |-> s.async,
     status |-> Status(s), err |-> s.err, attrs |-> ProjectAttrs(s.attrs),
     tier |-> Classify(named.op, Features(kind, s.attrs, s.status = "error")), groups |-> groups]

Earlier(f, i, k) ==
    LET a == f.spans[i]
        b == f.spans[k]
    IN  a.start < b.start \/ (a.start = b.start /\ IdLess(a.id, b.id))
RECURSIVE Build(_, _)
Group(f, i) ==
    LET Unit(C) == [start |-> Min({f.spans[k].start : k \in C}), end |-> Max({f.spans[k].end : k \in C}),
                    first |-> CHOOSE k \in C : \A m \in C \ {k} : Earlier(f, k, m),
                    timed |-> \A k \in C : 0 \notin {f.spans[k].start, f.spans[k].end},
                    bag   |-> FoldSet(LAMBDA k, b : b (+) SetToBag({Build(f, k)}), EmptyBag, C)]
        units == SetToSortSeq({Unit(C) : C \in Components(f, Kids(f, i), IF f.posthoc THEN 0 ELSE f.spans[i].gor)},
                              LAMBDA u, v : Earlier(f, u.first, v.first))
        Of(steps) == CollapseLoops([k \in DOMAIN steps |-> StepGroup(steps[k])])
    IN  Of(Steps(f, units))
Build(f, i) ==
    LET s == f.spans[i]
    IN  Node(s, OpKeyOf(s.kind, s.attrs, s.name), EffectiveKind(s.kind, s.attrs), Group(f, i))

(* What has no parent in the set trails the root's children, one by one.   *)
Trailing(f) ==
    LET heads == SetToSortSeq(Orphans(f), LAMBDA i, k : f.spans[i].start <= f.spans[k].start)
    IN  [i \in DOMAIN heads |-> Seq1(Build(f, heads[i]), FALSE)]

Below(f, ids) == ids \cup {f.spans[i].id : i \in {i \in DOMAIN f.spans : f.spans[i].parent \in ids}}
Reached(f) == FoldLeft(LAMBDA ids, i : Below(f, ids), {f.spans[i].id : i \in Orphans(f) \cup {f.root}}, f.spans)

-----------------------------------------------------------------------------
(* Contraction: a dropped span's groups take its place, if that neither    *)
(* loses nor adds a claim.                                                 *)

Keep(n) == n.tier <= Config.threshold \/ n.attrs.fqn # ""
Promotable(g, order) == ~g.many /\ g.order \in {"sequence", order}
Survivors(m, order) ==
    IF Keep(m) THEN SetToBag({m})
    ELSE IF m.groups = <<>> THEN EmptyBag
    ELSE IF Len(m.groups) = 1 /\ Promotable(m.groups[1], order) THEN m.groups[1].members
    ELSE SetToBag({m})
Thinned(g) ==
    LET Of(bag) == IF bag = EmptyBag THEN <<>> ELSE <<[Grouped(g.order, bag) EXCEPT !.many = g.many]>>
    IN  Of(Replaced(g.members, LAMBDA m : Survivors(m, g.order)))
Spliced(g) ==
    IF g.order # "sequence" THEN Thinned(g)
    ELSE IF Keep(Only(g)) THEN <<g>>
    ELSE [i \in DOMAIN Only(g).groups |-> [Only(g).groups[i] EXCEPT !.many = @ \/ g.many]]

RECURSIVE Filter(_)
Filter(n) ==
    LET Inner(g) == [g EXCEPT !.members = Replaced(@, LAMBDA m : SetToBag({Filter(m)}))]
    IN  [n EXCEPT !.groups = FlattenSeq([i \in DOMAIN n.groups |-> Spliced(Inner(n.groups[i]))])]

Incomplete(f) == ~f.complete \/ f.root = 0 \/ Cardinality(Reached(f)) # Len(f.spans)
Assembled(f)  == LET r == Build(f, f.root) IN [r EXCEPT !.groups = @ \o Trailing(f)]
Canonicalize(f) ==
    [flow |-> f.flow, service |-> f.svc, stamp |-> f.stamp, grade |-> f.grade, root |-> Filter(Assembled(f))]

-----------------------------------------------------------------------------
(* Reading a canonical tree.                                               *)

RECURSIVE Nodes(_)
Nodes(n) == {n} \cup UNION {UNION {Nodes(m) : m \in DOMAIN n.groups[i].members} : i \in DOMAIN n.groups}

(* How often an operation occurs, and whether in a folded loop.            *)
RECURSIVE CountOp(_, _)
CountOp(n, op) ==
    (IF n.op = op THEN 1 ELSE 0)
    + FoldFunction(+, 0, [i \in DOMAIN n.groups |->
              FoldSet(LAMBDA m, k : k + n.groups[i].members[m] * CountOp(m, op), 0, DOMAIN n.groups[i].members)])
Looped(n, op) == \E k \in Nodes(n) : \E i \in DOMAIN k.groups :
                     k.groups[i].many /\ \E m \in DOMAIN k.groups[i].members : m.op = op
=============================================================================
