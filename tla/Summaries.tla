------------------------------ MODULE Summaries ------------------------------
(***************************************************************************)
(* The interprocedural summaries of internal/static/obligations and the    *)
(* checks that consult them.  A program is a function from names to        *)
(*                                                                         *)
(*   blocks    a sequence of [body, succs]; <<>> when the body is not seen *)
(*   panics    whether its exits are explicit panics                       *)
(*   recovers  what usesRecover answers                                    *)
(*   method    its method name, "" for a plain function                    *)
(*                                                                         *)
(* and a body a sequence of [op, to, tags, invoke].  "call", "defer" and   *)
(* "go" are call sites: to is what the call graph resolves them to         *)
(* ("outside" is beyond the unit; {} is a dynamic call), tags the targets  *)
(* the site matches by name or by classification, invoke the method of an  *)
(* interface dispatch.  "use" takes the functions of to as values.         *)
(***************************************************************************)
EXTENDS Naturals, Sequences, FiniteSets

Answers  == {"ALWAYS", "NEVER", "UNKNOWN"}
SiteOps  == {"call", "defer", "go"}

Fns(p)      == DOMAIN p
BlocksOf(p, f) == 1..Len(p[f].blocks)
Code(p, f, b)  == p[f].blocks[b].body
Next1(p, f, b) == p[f].blocks[b].succs
Points(p, f)   == UNION {{<<b, i>> : i \in DOMAIN Code(p, f, b)} : b \in BlocksOf(p, f)}
At(p, f, x)    == Code(p, f, x[1])[x[2]]
Sites(p, f)    == {x \in Points(p, f) : At(p, f, x).op \in SiteOps}

HasBody(p, c) == c \in Fns(p) /\ p[c].blocks # <<>>

(* resolve: the callees with a body that the unit sees, and whether the    *)
(* site may go anywhere else.                                              *)
Cands(p, in)    == {c \in in.to : HasBody(p, c)}
Frontier(p, in) == in.to = {} \/ \E c \in in.to : ~HasBody(p, c)

(* hits: a ref match or membership in the label's bound site set.          *)
Hits(in, key) == key \in in.tags

(* What a walk from S along next meets: the least set that is closed.      *)
Met(next, S) ==
    LET Inside(sets) == {x \in DOMAIN next : \A C \in sets : x \in C}
    IN  Inside({C \in SUBSET DOMAIN next : S \subseteq C /\ \A x \in C : next[x] \subseteq C})

-----------------------------------------------------------------------------
(* computeSCC: the condensation of the visible call edges.                 *)

Calls(p, f) == UNION {Cands(p, At(p, f, x)) : x \in Sites(p, f)}

ReachFrom(p, S) == Met([f \in Fns(p) |-> Calls(p, f)], S)

Component(p, f) == {g \in ReachFrom(p, {f}) : f \in ReachFrom(p, {g})}
Cyclic(p, f)    == Cardinality(Component(p, f)) > 1 \/ f \in Calls(p, f)

-----------------------------------------------------------------------------
(* Bottom-up: Discharges.  nev and disch are the memo tables; an answer    *)
(* found in them is used.                                                  *)

(* Mutated: the tables forget which targets the question was about. *)
MemoKeyOfFn(f, key) == <<f, "req">>

(* summaryKey *)
MemoKey(f, key) == <<f, key>>

(* Nothing these functions call is the target or beyond the unit. *)
Clean(p, F, key) ==
    \A m \in F : /\ p[m].blocks # <<>>
                 /\ \A x \in Sites(p, m) : ~Hits(At(p, m, x), key) /\ ~Frontier(p, At(p, m, x))
Beneath(p, F) == (UNION {Calls(p, m) : m \in F}) \ F

(* never: no hit and no way out in the component, nor below it. *)
Nevers(p, nev, key) ==
    LET N[f \in Fns(p)] ==
            IF MemoKey(f, key) \in DOMAIN nev THEN nev[MemoKey(f, key)]
            ELSE /\ Clean(p, Component(p, f), key)
                 /\ \A c \in Beneath(p, Component(p, f)) : N[c]
    IN  N
Never(p, nev, f, key) == Nevers(p, nev, key)[f]

SuccsOf(p, f, b) == {Next1(p, f, b)[i] : i \in DOMAIN Next1(p, f, b)}

(* The blocks a walk from S enters when it does not leave those of Closed. *)
Entered(p, f, Closed, S) ==
    Met([b \in BlocksOf(p, f) |-> IF b \in Closed THEN {} ELSE SuccsOf(p, f, b)], S)

BlocksAt(Stop) == {x[1] : x \in Stop}

(* No exit can be reached past the points of Stop. *)
ExitsCovered(p, f, Stop) ==
    \A b \in Entered(p, f, BlocksAt(Stop), {1}) \ BlocksAt(Stop) : SuccsOf(p, f, b) # {}

(* Mutated: a spawned call covers the exits as well. *)
CoveringOpAny(in) == in.op \in SiteOps

(* A plain or deferred call can cover an exit. *)
CoveringOp(in) == in.op \in {"call", "defer"}

(* alwaysWalk and creditCall: the sites past which the target is reached,  *)
(* when the functions of sure reach it.                                    *)
Credited(p, in, sure) == ~Frontier(p, in) /\ Cands(p, in) # {} /\ Cands(p, in) \subseteq sure
Covering(p, f, key, sure) ==
    {x \in Sites(p, f) : LET in == At(p, f, x)
                         IN  CoveringOp(in) /\ (Hits(in, key) \/ Credited(p, in, sure))}

(* dischargeKey: a component that can re-enter itself and a function that  *)
(* recovers abstain.                                                       *)
DischargeAll(p, nev, disch, key) ==
    LET D[f \in Fns(p)] ==
            IF MemoKey(f, key) \in DOMAIN disch THEN disch[MemoKey(f, key)]
            ELSE IF Never(p, nev, f, key) THEN "NEVER"
            ELSE IF Cyclic(p, f) \/ ~HasBody(p, f) \/ p[f].recovers THEN "UNKNOWN"
            ELSE IF ExitsCovered(p, f, Covering(p, f, key, {c \in Calls(p, f) : D[c] = "ALWAYS"}))
                 THEN "ALWAYS" ELSE "UNKNOWN"
    IN  D
Discharge(p, nev, disch, f, key) ==
    IF f \in Fns(p) THEN DischargeAll(p, nev, disch, key)[f] ELSE "UNKNOWN"

Discharges(p, f, key) == Discharge(p, <<>>, <<>>, f, key)

(* creditCall: every callee of a site that cannot go elsewhere ALWAYS does. *)
CreditCall(p, in, key) == Credited(p, in, {c \in Cands(p, in) : Discharges(p, c, key) = "ALWAYS"})

-----------------------------------------------------------------------------
(* Top-down: EntryDominated.                                               *)

(* Mutated: a deferred or spawned require counts as run. *)
RequireSitesAnyOp(p, f, key) ==
    {x \in Sites(p, f) : Hits(At(p, f, x), key) \/ CreditCall(p, At(p, f, x), key)}

(* requireSites: plain calls that are, or that ALWAYS make, the require.   *)
RequireSites(p, f, key) ==
    {x \in Sites(p, f) : LET in == At(p, f, x)
                         IN  in.op = "call" /\ (Hits(in, key) \/ CreditCall(p, in, key))}

(* Mutated: a function is judged by the callers in sight. *)
AddressTakenNever(p, f) == FALSE

AddressTaken(p, f) ==
    \E g \in Fns(p) : \E x \in Points(p, g) : At(p, g, x).op = "use" /\ f \in At(p, g, x).to

DynamicInvokeName(p, name) ==
    \E g \in Fns(p) : \E x \in Sites(p, g) :
        At(p, g, x).invoke = name /\ Frontier(p, At(p, g, x))

(* entries: the caller and the point of every visible call into f.         *)
Entries(p, f) ==
    UNION {{<<g, x>> : x \in {y \in Sites(p, g) : f \in Cands(p, At(p, g, y))}} : g \in Fns(p)}

(* entryCovered: no path from the caller's entry reaches the call without  *)
(* a require behind it.                                                    *)
EntryCovered(p, e, key) ==
    LET g    == e[1]
        Stop == RequireSites(p, g, key)
        b    == e[2][1]
    IN  /\ ~p[g].recovers
        /\ b \in Entered(p, g, BlocksAt(Stop), {1}) =>
              \E i \in 1..(e[2][2] - 1) : <<b, i>> \in Stop

(* entryDominated: TRUE is ALWAYS, FALSE the disclosed UNKNOWN. *)
Dominateds(p, key) ==
    LET E[f \in Fns(p)] ==
            /\ ~AddressTaken(p, f)
            /\ ~(p[f].method # "" /\ DynamicInvokeName(p, p[f].method))
            /\ Entries(p, f) # {}
            /\ \A e \in Entries(p, f) :
                  \/ EntryCovered(p, e, key)
                  \/ e[1] \notin Component(p, f) /\ E[e[1]]
    IN  E
EntryDominated(p, f, key) == Dominateds(p, key)[f]

-----------------------------------------------------------------------------
(* The checks that consult the summaries.                                  *)

(* Every path from the entry to block b passes block a. *)
Dominates(p, f, a, b) == a = b \/ b \notin Entered(p, f, {a}, {1})

Before(x, y) == x[1] = y[1] /\ x[2] < y[2]

(* checkPrecede: one plain call that is, or ALWAYS makes, the require      *)
(* dominates the target; else, with from_callers, every entry is covered.  *)
Precede(p, f, x, fromCallers) ==
    LET Dominated == \E a \in RequireSites(p, f, "req") :
                        \/ Before(a, x)
                        \/ a[1] # x[1] /\ Dominates(p, f, a[1], x[1])
    IN  CASE Dominated -> "SATISFIED"
          [] ~Dominated /\ fromCallers ->
                IF EntryDominated(p, f, "req") THEN "SATISFIED" ELSE "CANT-PROVE"
          [] OTHER -> "VIOLATED"

(* precedes: can x run before y on some path, and does it on every one?    *)
CanPrecede(p, f, x, y) ==
    \/ Before(x, y)
    \/ x[1] # y[1] /\ y[1] \in Entered(p, f, {}, SuccsOf(p, f, x[1]))
(* Mutated: some path is taken for every path. *)
AlwaysPrecedesSome(p, f, x, y) == CanPrecede(p, f, x, y)
AlwaysPrecedes(p, f, x, y) ==
    \/ Before(x, y)
    \/ x[1] # y[1] /\ Dominates(p, f, x[1], y[1])

(* The committed effects of f under a label: its own sites, and, as graph  *)
(* assembly adds them, the calls with a callee that ALWAYS commits it.     *)
DirectEffects(p, f)  == {x \in Sites(p, f) : "eff" \in At(p, f, x).tags}
DerivedEffects(p, f) ==
    {x \in Sites(p, f) : \E c \in Cands(p, At(p, f, x)) : Discharges(p, c, "eff") = "ALWAYS"}

(* OrderFacts: a row per effect site and fallible call it can precede.     *)
Ordered(p, f) ==
    {z \in (DirectEffects(p, f) \cup DerivedEffects(p, f)) \X (Sites(p, f) \ DirectEffects(p, f)) :
        /\ z[1] # z[2]
        /\ "err" \in At(p, f, z[2]).tags
        /\ CanPrecede(p, f, z[1], z[2])}
OrderFacts(p, f) ==
    {[effect |-> z[1], callee |-> z[2], always |-> AlwaysPrecedes(p, f, z[1], z[2])] : z \in Ordered(p, f)}
=============================================================================
