---------------------------- MODULE FitnessProofs ----------------------------
(***************************************************************************)
(* Proofs about the fitness rules, whatever the graph and the policy: a    *)
(* green rule is a proof, a claim that holds is true, the two halves of    *)
(* the I/O budget bound the real count, a blind spot declared on top of a  *)
(* graph takes back no finding, and the exceptions the audit calls dead    *)
(* can be deleted all at once.                                             *)
(***************************************************************************)
EXTENDS FitnessRun, FactProofs

(* What is said is what the check says of what was loaded.                 *)
SaidInv ==
    judged # <<>> =>
        /\ judged \in Graphs /\ Loadable(judged)
        /\ under \in Policies /\ Valid(under) /\ said = Check(under, judged)
        /\ graded = Evaluate(judged, ClaimFile)

(* The findings are those of the graph and the policy at hand, throughout. *)
LEMMA SaidIsCheck == FitSpec => []SaidInv
<1>1. FitInit => SaidInv
  BY DEF FitInit, SaidInv
<1>2. ASSUME SaidInv, FitNext
      PROVE  SaidInv'
  <2>1. ASSUME NEW g \in Graphs, NEW p \in Policies, Judge(g, p)
        PROVE  SaidInv'
    BY <2>1 DEF Judge, SaidInv
  <2>2. CASE UNCHANGED <<judged, under, said, graded>>
    BY <1>2, <2>2 DEF SaidInv
  <2> QED
    BY <1>2, <2>1, <2>2 DEF FitNext, Enter, WalkCall, WalkEffect, WalkUnseen, Touch
<1>3. SaidInv /\ UNCHANGED fitVars => SaidInv'
  BY DEF SaidInv, fitVars
<1> QED
  BY <1>1, <1>2, <1>3, PTL DEF FitSpec

-----------------------------------------------------------------------------
(* h is g with more blind spots.                                           *)
More(g, h) ==
    /\ h.nodes = g.nodes /\ h.edges = g.edges /\ h.oblig = g.oblig
    /\ h.roots = g.roots /\ h.mains = g.mains /\ g.spots \subseteq h.spots

(* Blind spots declared on top of a graph leave the rest of it alone. *)
LEMMA WithMore ==
    ASSUME NEW g, GraphFields \subseteq DOMAIN g, NEW B
    PROVE  More(g, WithBlindSpots(g, B))
  BY DEF More, WithBlindSpots, GraphFields

(* Nothing that is read off the calls changes. *)
LEMMA SameIndex ==
    ASSUME NEW g, NEW h, More(g, h)
    PROVE  /\ \A f : Callees(h, f) = Callees(g, f) /\ Callers(h, f) = Callers(g, f)
           /\ \A F : Effects(h, F) = Effects(g, F)
           /\ SourcesOf(h) = SourcesOf(g)
           /\ \A S : BindSources(h, S) = BindSources(g, S)
           /\ \A S : BindFunctions(h, S) = BindFunctions(g, S)
           /\ \A S : BindTargets(h, S) = BindTargets(g, S)
<1>1. \A f : Callees(h, f) = Callees(g, f) /\ Callers(h, f) = Callers(g, f)
  BY DEF More, Callees, Callers
<1>2. \A F : Effects(h, F) = Effects(g, F)
  BY DEF More, Effects
<1>3. SourcesOf(h) = SourcesOf(g)
  BY <1>1 DEF More, SourcesOf
<1>4. \A S : BindSources(h, S) = BindSources(g, S)
  BY <1>3 DEF More, BindSources
<1>5. \A S : BindFunctions(h, S) = BindFunctions(g, S)
  BY DEF More, BindFunctions
<1>6. Effects(h, h.nodes) = Effects(g, g.nodes)
  BY <1>2 DEF More
<1>7. \A S : BindTargets(h, S) = BindTargets(g, S)
  BY <1>6 DEF More, BindTargets
<1> QED
  BY <1>1, <1>2, <1>3, <1>4, <1>5, <1>7

(* What is reached, and by which path, does not depend on blind spots. *)
LEMMA SameReach ==
    ASSUME NEW g, NEW h, More(g, h)
    PROVE  /\ \A S : Reachable(h, S) = Reachable(g, S)
           /\ \A s, W : GuardedWalk(h, s, W) = GuardedWalk(g, s, W)
           /\ \A s, n, W : PathsOf(h, s, n, W) = PathsOf(g, s, n, W)
           /\ \A s, t, W : ShortestPath(h, s, t, W) = ShortestPath(g, s, t, W)
<1>1. \A f : Callees(h, f) = Callees(g, f)
  BY SameIndex
<1>2. [f \in Functions |-> Callees(h, f)] = [f \in Functions |-> Callees(g, f)]
  BY <1>1
<1>3. \A W : [f \in Functions |-> Callees(h, f) \ W] = [f \in Functions |-> Callees(g, f) \ W]
  BY <1>1
<1>4. \A S : Reachable(h, S) = Reachable(g, S)
  BY <1>2 DEF Reachable
<1>5. \A s, W : GuardedWalk(h, s, W) = GuardedWalk(g, s, W)
  BY <1>3 DEF GuardedWalk
<1>6. \A s, n, W : PathsOf(h, s, n, W) = PathsOf(g, s, n, W)
  BY <1>1 DEF PathsOf
<1>7. \A s, t, W : ShortestPath(h, s, t, W) = ShortestPath(g, s, t, W)
  BY <1>6 DEF ShortestPath
<1> QED
  BY <1>4, <1>5, <1>6, <1>7

(* Where nothing hides: no blind spot at a function or its package, no     *)
(* effect without a name.                                                  *)
AtFn(k, C)    == {f \in C : BlindSpotsAt(k, f) # {}}
InPkg(k, C)   == {f \in C : BlindSpotsAt(k, Package[f]) # {}}
Dynamic(k, C) == {e.from : e \in {d \in Effects(k, C) : IsDynamic(d)}}

(* A cone is blind where a spot of a function, a spot of its package or a  *)
(* dynamic effect is in it.                                                *)
LEMMA BlindIff ==
    ASSUME NEW k, NEW from, NEW C
    PROVE  BlindForCone(k, from, C) # NotBlind <=> AtFn(k, C) \cup InPkg(k, C) \cup Dynamic(k, C) # {}
<1>1. BlindForCone(k, from, C) =
        IF AtFn(k, C) \cup InPkg(k, C) # {}
        THEN LET f == FirstOf(from, AtFn(k, C) \cup InPkg(k, C))
             IN  IF f \in AtFn(k, C) THEN [site |-> f, at |-> "function"]
                 ELSE [site |-> Package[f], at |-> "package"]
        ELSE IF Dynamic(k, C) # {} THEN [site |-> FirstOf(from, Dynamic(k, C)), at |-> "effect"]
        ELSE NotBlind
  BY DEF BlindForCone, AtFn, InPkg, Dynamic
<1>2. \A site : /\ [site |-> site, at |-> "function"] # NotBlind
                /\ [site |-> site, at |-> "package"] # NotBlind
                /\ [site |-> site, at |-> "effect"] # NotBlind
  BY DEF NotBlind
<1> QED
  BY <1>1, <1>2

(* What hides something from a cone goes on hiding it. *)
LEMMA BlindStays ==
    ASSUME NEW g, NEW h, More(g, h), NEW from, NEW cone, BlindForCone(g, from, cone) # NotBlind
    PROVE  BlindForCone(h, from, cone) # NotBlind
<1>1. \A site : BlindSpotsAt(g, site) \subseteq BlindSpotsAt(h, site)
  BY DEF BlindSpotsAt, More
<1>2. AtFn(g, cone) \subseteq AtFn(h, cone) /\ InPkg(g, cone) \subseteq InPkg(h, cone)
  BY <1>1 DEF AtFn, InPkg
<1>3. Dynamic(g, cone) = Dynamic(h, cone)
  BY SameIndex DEF Dynamic
<1> QED
  BY <1>2, <1>3, BlindIff
-----------------------------------------------------------------------------
(* Rule by rule: what is found in g is found in h, up to the blind spot    *)
(* that is named and the number of routes counted.                         *)
Alike(x, y) ==
    y.rule = x.rule /\ y.name = x.name /\ y.sev = x.sev /\ y.to = x.to /\ y.what = x.what

(* Two abstentions of one rule for one reason are alike. *)
LEMMA UnprovenAlike ==
    ASSUME NEW kind, NEW r, NEW a, NEW b, NEW what, NEW on, NEW os
    PROVE  Alike(Unproven(kind, r, a, what, on), Unproven(kind, r, b, what, os))
  BY DEF Alike, Unproven, Finding

(* Layering does not read blind spots. *)
LEMMA LayeringKept ==
    ASSUME NEW p, NEW g, NEW h, More(g, h)
    PROVE  CheckLayering(p, h) = CheckLayering(p, g)
<1>1. ASSUME NEW f PROVE EffectiveLayeredCallees(p, h, f) = EffectiveLayeredCallees(p, g, f)
  <2> DEFINE open(k) == [x \in Functions |->
                IF x # f /\ (IsRootPkg(p, x) \/ RankOf(p, x) # 0) THEN {} ELSE Callees(k, x)]
  <2>1. open(h) = open(g)
    BY SameIndex
  <2>2. \A k : EffectiveLayeredCallees(p, k, f) =
                 {x \in Closure({f}, open(k)) : ~IsRootPkg(p, x) /\ RankOf(p, x) # 0}
    BY DEF EffectiveLayeredCallees
  <2> HIDE DEF open
  <2> QED
    BY <2>1, <2>2
<1> DEFINE wrong(k, x) ==
             /\ ~IsRootPkg(p, x[1]) /\ RankOf(p, x[1]) # 0 /\ x[2] \in EffectiveLayeredCallees(p, k, x[1])
             /\ RankOf(p, x[2]) \notin {RankOf(p, x[1]), RankOf(p, x[1]) + 1}
             /\ ~Allowed(p.layerAllow, x[1], x[2])
           edges(k) == {x \in k.nodes \X k.nodes : wrong(k, x)}
           finding(e) == Finding("layering", "", Violation, e[1], e[2], "edge", {})
<1>2. \A x : wrong(h, x) <=> wrong(g, x)
  BY <1>1
<1>3. edges(h) = edges(g)
  <2> HIDE DEF wrong
  <2> QED
    BY <1>2 DEF More
<1>4. ASSUME NEW k
      PROVE  CheckLayering(p, k) = IF ~p.layered THEN {} ELSE {finding(e) : e \in edges(k)}
  BY DEF CheckLayering
<1> HIDE DEF edges, finding
<1> QED
  BY <1>3, <1>4

(* A search finds the same under more blind spots, and stays blind where   *)
(* it was.                                                                 *)
LEMMA SearchKept ==
    ASSUME NEW g, NEW h, More(g, h), NEW s, NEW T
    PROVE  /\ SearchFrom(h, s, T).found = SearchFrom(g, s, T).found
           /\ SearchFrom(h, s, T).path = SearchFrom(g, s, T).path
           /\ SearchFrom(g, s, T).blind # NotBlind => SearchFrom(h, s, T).blind # NotBlind
<1> DEFINE cone == {s} \cup Reachable(g, {s})
           fns  == (cone \ {s}) \cap T
           into(E) == {e.from : e \in {d \in E : d.to \in T}}
           out(E)  == Min({e.to : e \in E} \cap T)
           owners(k)   == into(Effects(k, cone))
           owner(k, o) == Append(ShortestPath(k, s, o, {}), out(Effects(k, {o})))
<1>1. ASSUME NEW k, {s} \cup Reachable(k, {s}) = cone
      PROVE  SearchFrom(k, s, T) =
               IF fns # {}
               THEN [found |-> TRUE, path |-> ShortestPath(k, s, Min(fns), {}), blind |-> NotBlind]
               ELSE IF owners(k) # {}
               THEN [found |-> TRUE, path |-> owner(k, FirstOf(s, owners(k))), blind |-> NotBlind]
               ELSE [found |-> FALSE, path |-> <<>>, blind |-> BlindForCone(k, s, cone)]
  BY <1>1 DEF SearchFrom
<1>2. {s} \cup Reachable(h, {s}) = cone
  BY SameReach
<1>3. \A o : ShortestPath(h, s, o, {}) = ShortestPath(g, s, o, {})
  BY SameReach
<1>4. \A S : Effects(h, S) = Effects(g, S)
  BY SameIndex
<1>5. owners(h) = owners(g)
  <2> HIDE DEF into, cone
  <2> QED
    BY <1>4
<1>6. \A o : owner(h, o) = owner(g, o)
  <2> HIDE DEF out
  <2> QED
    BY <1>3, <1>4
<1>7. BlindForCone(g, s, cone) # NotBlind => BlindForCone(h, s, cone) # NotBlind
  BY BlindStays
<1>8. {s} \cup Reachable(g, {s}) = cone
  OBVIOUS
<1>9. SearchFrom(g, s, T) =
               IF fns # {}
               THEN [found |-> TRUE, path |-> ShortestPath(g, s, Min(fns), {}), blind |-> NotBlind]
               ELSE IF owners(g) # {}
               THEN [found |-> TRUE, path |-> owner(g, FirstOf(s, owners(g))), blind |-> NotBlind]
               ELSE [found |-> FALSE, path |-> <<>>, blind |-> BlindForCone(g, s, cone)]
  BY <1>1, <1>8
<1>10. SearchFrom(h, s, T) =
               IF fns # {}
               THEN [found |-> TRUE, path |-> ShortestPath(h, s, Min(fns), {}), blind |-> NotBlind]
               ELSE IF owners(h) # {}
               THEN [found |-> TRUE, path |-> owner(h, FirstOf(s, owners(h))), blind |-> NotBlind]
               ELSE [found |-> FALSE, path |-> <<>>, blind |-> BlindForCone(h, s, cone)]
  BY <1>1, <1>2
<1> HIDE DEF cone, fns, owners, owner
<1> QED
  BY <1>3, <1>5, <1>6, <1>7, <1>9, <1>10

(* Which source decides, and how, is the same; at most an absence is lost. *)
LEMMA ReachFactKept ==
    ASSUME NEW F \in SUBSET Nat, NEW T, NEW R, NEW Q,
           \A s \in F : /\ Q[s].found = R[s].found /\ Q[s].path = R[s].path
                        /\ R[s].blind # NotBlind => Q[s].blind # NotBlind
    PROVE  /\ ReachFact(F, T, R).state # "ABSENT" => ReachFact(F, T, Q).state = ReachFact(F, T, R).state
           /\ ReachFact(F, T, Q).boundFrom = ReachFact(F, T, R).boundFrom
           /\ ReachFact(F, T, R).state = "FOUND" =>
                  /\ ReachFact(F, T, Q).from = ReachFact(F, T, R).from
                  /\ ReachFact(F, T, Q).path = ReachFact(F, T, R).path
<1> DEFINE found(X) == {s \in F : X[s].found}
           blind(X) == {s \in F : X[s].blind # NotBlind}
           res(state, s, X) == ReachRes(state, s, F, T, X)
<1>1. ASSUME NEW X
      PROVE  ReachFact(F, T, X) =
               IF F = {} \/ T = {} THEN res("UNBOUND", 0, X)
               ELSE IF found(X) # {} THEN res("FOUND", Min(found(X)), X)
               ELSE IF blind(X) # {} THEN res("BLIND", Min(blind(X)), X)
               ELSE res("ABSENT", 0, X)
  BY DEF ReachFact
<1>2. found(Q) = found(R) /\ blind(R) \subseteq blind(Q)
  OBVIOUS
<1>3. \A state, s, X : /\ res(state, s, X).state = state /\ res(state, s, X).boundFrom = F
                       /\ res(state, s, X).from = s
  BY DEF ReachRes
<1>4. \A s, X : res("FOUND", s, X).path = X[s].path
  BY DEF ReachRes
<1>5. found(R) # {} => Q[Min(found(R))].path = R[Min(found(R))].path
  <2> SUFFICES ASSUME found(R) # {} PROVE Min(found(R)) \in F
    OBVIOUS
  <2>1. found(R) \in SUBSET Nat
    OBVIOUS
  <2>2. Min(found(R)) \in found(R)
    <3> HIDE DEF found
    <3> QED
      BY <2>1, MinIn
  <2> QED
    BY <2>2
<1> HIDE DEF found, blind, res
<1>6. CASE F = {} \/ T = {}
  BY <1>1, <1>3, <1>6
<1>7. CASE ~(F = {} \/ T = {}) /\ found(R) # {}
  BY <1>1, <1>2, <1>3, <1>4, <1>5, <1>7
<1>8. CASE ~(F = {} \/ T = {}) /\ found(R) = {}
  BY <1>1, <1>2, <1>3, <1>8
<1> QED
  BY <1>6, <1>7, <1>8

(* must_not_reach keeps its finding: a path is looked for before a blind   *)
(* spot.                                                                   *)
LEMMA MustNotReachKept ==
    ASSUME NEW g, NEW h, More(g, h), g.nodes \subseteq Functions,
           NEW r, NEW x \in CheckMustNotReach(r, g)
    PROVE  \E y \in CheckMustNotReach(r, h) : Alike(x, y)
<1> DEFINE F == BindSources(g, r.from)
           T == BindTargets(g, r.to)
           R(k) == [s \in F |-> SearchFrom(k, s, T)]
           fact(k) == ReachFact(F, T, R(k))
           lost(k) == {Unproven("must_not_reach", r, 0,
                                IF fact(k).boundFrom = {} THEN "inert" ELSE "unbindable", {})}
           hit(k) == {Finding("must_not_reach", r.name, Violation, fact(k).from,
                              fact(k).path[Len(fact(k).path)], "reaches", {})}
           spot(k) == Unproven("must_not_reach", r, fact(k).from, "blind", {fact(k).blind.site})
           unseen(k) == {spot(k)}
<1>1. EvaluateReach(g, r.from, r.to) = fact(g) /\ EvaluateReach(h, r.from, r.to) = fact(h)
  <2>1. BindSources(h, r.from) = F /\ BindTargets(h, r.to) = T
    BY SameIndex
  <2> QED
    BY <2>1 DEF EvaluateReach
<1>2. ASSUME NEW k, EvaluateReach(k, r.from, r.to) = fact(k)
      PROVE  CheckMustNotReach(r, k) =
               CASE fact(k).state = "UNBOUND" -> lost(k)
                 [] fact(k).state = "FOUND" -> hit(k)
                 [] fact(k).state = "BLIND" -> unseen(k)
                 [] fact(k).state = "ABSENT" -> {}
  BY <1>2 DEF CheckMustNotReach
<1>3. F \in SUBSET Nat
  <2>1. F \subseteq g.nodes
    BY DEF BindSources, SourcesOf
  <2> QED
    BY <2>1, NamesOK
<1>4. /\ fact(g).state # "ABSENT" => fact(h).state = fact(g).state
      /\ fact(h).boundFrom = fact(g).boundFrom
      /\ fact(g).state = "FOUND" => fact(h).from = fact(g).from /\ fact(h).path = fact(g).path
  <2>1. \A s \in F : /\ R(h)[s].found = R(g)[s].found /\ R(h)[s].path = R(g)[s].path
                     /\ R(g)[s].blind # NotBlind => R(h)[s].blind # NotBlind
    BY SearchKept
  <2> HIDE DEF F, T, R
  <2> QED
    BY <1>3, <2>1, ReachFactKept
<1>5. fact(g).state \in {"UNBOUND", "FOUND", "BLIND", "ABSENT"}
  BY DEF ReachFact, ReachRes
<1>6. lost(g) = lost(h)
  BY <1>4
<1>7. fact(g).state = "FOUND" => hit(g) = hit(h)
  BY <1>4
<1>8. Alike(spot(g), spot(h))
  BY UnprovenAlike
<1>9. \A y : Alike(y, y)
  BY DEF Alike
<1> HIDE DEF F, T, R, fact, lost, hit, spot
<1>10. CASE fact(g).state = "UNBOUND"
  BY <1>1, <1>2, <1>4, <1>6, <1>9, <1>10
<1>11. CASE fact(g).state = "FOUND"
  BY <1>1, <1>2, <1>4, <1>7, <1>9, <1>11
<1>12. CASE fact(g).state = "BLIND"
  <2>1. x \in unseen(g) /\ CheckMustNotReach(r, h) = unseen(h)
    BY <1>1, <1>2, <1>4, <1>12
  <2> QED
    BY <1>8, <2>1
<1>13. CASE fact(g).state = "ABSENT"
  BY <1>1, <1>2, <1>13
<1> QED
  BY <1>5, <1>10, <1>11, <1>12, <1>13

(* So does must_pass_through. *)
LEMMA PassThroughKept ==
    ASSUME NEW g, NEW h, More(g, h), NEW r, NEW x \in CheckMustPassThrough(r, g)
    PROVE  \E y \in CheckMustPassThrough(r, h) : Alike(x, y)
<1> DEFINE F == BindSources(g, r.from)
           T == BindTargets(g, r.to)
           W == BindFunctions(g, r.through)
           open == [s \in F \ W |-> GuardedWalk(g, s, W)]
           by(k) == Bypasses(k, F, T, W, r.allow, open)
           hidden(k) == {s \in F \ W : BlindForCone(k, 0, open[s]) # NotBlind}
           fact(k) == PassFact(k, F, T, W, r.allow, open)
           around(S) == {Finding("must_pass_through", r.name, Violation, b[1], b[2], "bypass", {}) : b \in S}
           spot(k) == Unproven("must_pass_through", r, fact(k).from, "blind", {fact(k).blind.site})
           unseen(k) == {spot(k)}
<1>1. /\ EvaluatePassThrough(g, r.from, r.to, r.through, r.allow) = fact(g)
      /\ EvaluatePassThrough(h, r.from, r.to, r.through, r.allow) = fact(h)
  <2>1. /\ BindSources(h, r.from) = F /\ BindTargets(h, r.to) = T
        /\ BindFunctions(h, r.through) = W
    BY SameIndex
  <2>2. [s \in F \ W |-> GuardedWalk(h, s, W)] = open
    BY SameReach
  <2>3. \A k : EvaluatePassThrough(k, r.from, r.to, r.through, r.allow) =
                 PassFact(k, BindSources(k, r.from), BindTargets(k, r.to), BindFunctions(k, r.through), r.allow,
                          [s \in BindSources(k, r.from) \ BindFunctions(k, r.through) |->
                              GuardedWalk(k, s, BindFunctions(k, r.through))])
    BY DEF EvaluatePassThrough
  <2> HIDE DEF F, T, W, open
  <2> QED
    BY <2>1, <2>2, <2>3 DEF F, T, W, open
<1>2. ASSUME NEW k
      PROVE  /\ fact(k).boundFrom = F /\ fact(k).boundTo = T
             /\ ~(F = {} \/ T = {}) =>
                  /\ by(k) # {} => fact(k).state = "BYPASSED" /\ fact(k).bypasses = by(k)
                  /\ by(k) = {} /\ hidden(k) # {} => fact(k).state = "BLIND"
                  /\ by(k) = {} /\ hidden(k) = {} => fact(k).state = "GUARDED"
  <2> HIDE DEF F, T, W, open
  <2> QED
    BY DEF PassFact
<1>3. by(h) = by(g)
  <2>1. \A S : Effects(h, S) = Effects(g, S)
    BY SameIndex
  <2> DEFINE out(E) == {e.to : e \in E}
             ends(k, s) == (open[s] \ {s}) \cup out(Effects(k, open[s]))
             bypass(k, b) == b[2] \in ends(k, b[1]) /\ ~Allowed(r.allow, b[1], b[2])
  <2>2. \A k : by(k) = {b \in (F \ W) \X T : bypass(k, b)}
    <3> HIDE DEF F, T, W, open
    <3> QED
      BY DEF Bypasses
  <2>3. \A s : ends(h, s) = ends(g, s)
    <3> HIDE DEF out
    <3> QED
      BY <2>1
  <2>4. \A b : bypass(h, b) <=> bypass(g, b)
    <3> HIDE DEF ends
    <3> QED
      BY <2>3
  <2> HIDE DEF F, T, W, open, by, bypass
  <2> QED
    BY <2>2, <2>4
<1>4. hidden(g) \subseteq hidden(h)
  <2> HIDE DEF F, W, open
  <2> QED
    BY BlindStays
<1>5. ASSUME NEW k, EvaluatePassThrough(k, r.from, r.to, r.through, r.allow) = fact(k)
      PROVE  CheckMustPassThrough(r, k) =
                IF fact(k).boundFrom = {} THEN {Unproven("must_pass_through", r, 0, "inert", {})}
                ELSE IF fact(k).boundTo = {} THEN {Unproven("must_pass_through", r, 0, "unbindable", {})}
                ELSE IF fact(k).state = "BYPASSED" THEN around(fact(k).bypasses)
                ELSE IF fact(k).state = "BLIND" THEN unseen(k)
                ELSE {}
  BY <1>5 DEF CheckMustPassThrough
<1>6. Alike(spot(g), spot(h))
  BY UnprovenAlike
<1>7. \A y : Alike(y, y)
  BY DEF Alike
<1> HIDE DEF F, T, W, open, by, hidden, fact, around, spot
<1>8. CASE F = {} \/ T = {}
  BY <1>1, <1>2, <1>5, <1>7, <1>8
<1>9. CASE ~(F = {} \/ T = {}) /\ by(g) # {}
  BY <1>1, <1>2, <1>3, <1>5, <1>7, <1>9
<1>10. CASE ~(F = {} \/ T = {}) /\ by(g) = {} /\ hidden(g) # {}
  <2>1. x \in unseen(g) /\ CheckMustPassThrough(r, h) = unseen(h)
    BY <1>1, <1>2, <1>3, <1>4, <1>5, <1>10
  <2> QED
    BY <1>6, <2>1
<1>11. CASE ~(F = {} \/ T = {}) /\ by(g) = {} /\ hidden(g) = {}
  <2>1. fact(g).state = "GUARDED" /\ fact(g).boundFrom # {} /\ fact(g).boundTo # {}
    BY <1>2, <1>11
  <2> QED
    BY <1>1, <1>5, <2>1
<1> QED
  BY <1>8, <1>9, <1>10, <1>11


(* So does no_concurrent_reach. *)
LEMMA ConcurrentKept ==
    ASSUME NEW g, NEW h, More(g, h), NEW r, NEW x \in CheckNoConcurrentReach(r, g)
    PROVE  \E y \in CheckNoConcurrentReach(r, h) : Alike(x, y)
<1> DEFINE seeds == {e.to : e \in {d \in g.edges : d.conc /\ d.to \in g.nodes}}
           cone   == seeds \cup Reachable(g, seeds)
           direct == {e \in Effects(g, g.nodes) : e.conc}
           loose  == {e.from : e \in {d \in direct : IsDynamic(d)}}
           spots(k) == {b.site : b \in {c \in k.spots : c.kind = "ConcurrentDispatch"}}
           first  == IF cone = {} THEN 0 ELSE Min(cone)
           blind(k) == IF BlindForCone(k, first, cone) # NotBlind THEN BlindForCone(k, first, cone)
                       ELSE IF loose # {} THEN [site |-> Min(loose), at |-> "boundary"]
                       ELSE IF spots(k) # {} THEN [site |-> Min(spots(k)), at |-> "dispatch"]
                       ELSE NotBlind
           surface(k) == [direct |-> direct, cone |-> cone, blind |-> blind(k)]
           T == BindTargets(g, r.to)
           hits == {<<e.from, e.to>> : e \in {d \in direct \cup Effects(g, cone) : d.to \in T}}
                     \cup {<<0, f>> : f \in cone \cap T}
           fact(k) == [state |-> IF T = {} THEN "UNBOUND" ELSE IF hits # {} THEN "HIT"
                                 ELSE IF blind(k) # NotBlind THEN "BLIND" ELSE "CLEAN",
                       hits |-> hits, blind |-> blind(k)]
           lost == {Unproven("no_concurrent_reach", r, 0, "unbindable", {})}
           reached == {Finding("no_concurrent_reach", r.name, Violation, e[1], e[2], "reachable", {}) : e \in hits}
           spot(k) == Unproven("no_concurrent_reach", r, 0, "blind", {fact(k).blind.site})
<1>1. ASSUME NEW k, More(g, k) PROVE ConcurrentSurface(k) = surface(k)
  <2>1. /\ {e.to : e \in {d \in k.edges : d.conc /\ d.to \in k.nodes}} = seeds
        /\ {e \in Effects(k, k.nodes) : e.conc} = direct
    <3>1. Effects(k, k.nodes) = Effects(g, g.nodes)
      BY <1>1, SameIndex DEF More
    <3> DEFINE conc(E) == {e \in E : e.conc}
    <3>2. {e \in Effects(k, k.nodes) : e.conc} = conc(Effects(k, k.nodes)) /\ direct = conc(Effects(g, g.nodes))
      OBVIOUS
    <3> HIDE DEF conc
    <3> QED
      BY <1>1, <3>1, <3>2 DEF More
  <2>2. seeds \cup Reachable(k, seeds) = cone
    BY <1>1, SameReach
  <2> HIDE DEF seeds, cone, direct
  <2> QED
    BY <2>1, <2>2 DEF ConcurrentSurface
<1>2. ASSUME NEW k, More(g, k) PROVE EvaluateConcurrent(k, r.to) = fact(k)
  <2>1. BindTargets(k, r.to) = T /\ Effects(k, cone) = Effects(g, cone)
    BY <1>2, SameIndex
  <2>2. ConcurrentSurface(k) = surface(k)
    BY <1>1, <1>2
  <2> DEFINE met(E) == {<<e.from, e.to>> : e \in {d \in E : d.to \in T}}
             of(E) == [state |-> IF T = {} THEN "UNBOUND" ELSE IF met(E) \cup {<<0, f>> : f \in cone \cap T} # {} THEN "HIT"
                                 ELSE IF blind(k) # NotBlind THEN "BLIND" ELSE "CLEAN",
                       hits |-> met(E) \cup {<<0, f>> : f \in cone \cap T}, blind |-> blind(k)]
  <2>3. EvaluateConcurrent(k, r.to) = of(direct \cup Effects(k, cone))
    <3> HIDE DEF T, cone, direct, blind
    <3> QED
      BY <2>1, <2>2 DEF EvaluateConcurrent
  <2>4. fact(k) = of(direct \cup Effects(g, cone))
    <3> HIDE DEF T, cone, direct, blind
    <3> QED
      OBVIOUS
  <2> HIDE DEF of, fact
  <2> QED
    BY <2>1, <2>3, <2>4
<1>3. ASSUME NEW k, EvaluateConcurrent(k, r.to) = fact(k)
      PROVE  CheckNoConcurrentReach(r, k) =
               CASE fact(k).state = "UNBOUND" -> lost
                 [] fact(k).state = "HIT" -> reached
                 [] fact(k).state = "BLIND" -> {spot(k)}
                 [] fact(k).state = "CLEAN" -> {}
  <2>1. fact(k).hits = hits
    OBVIOUS
  <2> HIDE DEF fact, hits
  <2> QED
    BY <1>3, <2>1 DEF CheckNoConcurrentReach
<1>4. blind(g) # NotBlind => blind(h) # NotBlind
  <2>1. BlindForCone(g, first, cone) # NotBlind => BlindForCone(h, first, cone) # NotBlind
    BY BlindStays
  <2>2. spots(g) \subseteq spots(h)
    BY DEF More
  <2>3. \A site : /\ [site |-> site, at |-> "boundary"] # NotBlind
                  /\ [site |-> site, at |-> "dispatch"] # NotBlind
    BY DEF NotBlind
  <2> HIDE DEF spots, loose, cone, first
  <2> QED
    BY <2>1, <2>2, <2>3
<1>5. /\ fact(g).state # "CLEAN" => fact(h).state = fact(g).state
      /\ fact(g).state \in {"UNBOUND", "HIT", "BLIND", "CLEAN"}
  <2> HIDE DEF T, hits, blind
  <2> QED
    BY <1>4
<1>6. Alike(spot(g), spot(h))
  BY UnprovenAlike
<1>7. \A y : Alike(y, y)
  BY DEF Alike
<1>8. More(g, g)
  BY DEF More
<1>9. EvaluateConcurrent(g, r.to) = fact(g) /\ EvaluateConcurrent(h, r.to) = fact(h)
  BY <1>2, <1>8
<1> HIDE DEF fact, lost, reached, spot
<1> QED
  BY <1>3, <1>5, <1>6, <1>7, <1>9


(* A route writes the same under more blind spots, and stays blind where   *)
(* it was.                                                                 *)
LEMMA RoutesKept ==
    ASSUME NEW p, NEW g, NEW h, More(g, h)
    PROVE  /\ DOMAIN RouteWrites(p, h) = DOMAIN RouteWrites(p, g)
           /\ \A s \in DOMAIN RouteWrites(p, g) :
                 /\ RouteWrites(p, h)[s].writes = RouteWrites(p, g)[s].writes
                 /\ RouteWrites(p, h)[s].unclassified = RouteWrites(p, g)[s].unclassified
                 /\ RouteWrites(p, h)[s].effects = RouteWrites(p, g)[s].effects
                 /\ RouteWrites(p, g)[s].blind => RouteWrites(p, h)[s].blind
<1> DEFINE routes(k) == {f \in k.nodes : IsRoute(p, k, f)}
           cone(k, s) == {s} \cup Reachable(k, {s})
           to(E) == {e.to : e \in E}
           out(k, s) == to(Effects(k, cone(k, s)))
           w(L) == {l \in L : IsWrite(l)}
           u(L) == {l \in L : UnclassifiedDB(l)}
           v(L) == {l \in L : UnclassifiedEffect(l)}
<1>1. ASSUME NEW k
      PROVE  RouteWrites(p, k) =
               [s \in routes(k) |-> [writes |-> w(out(k, s)), blind |-> BlindForCone(k, s, cone(k, s)) # NotBlind,
                                     unclassified |-> u(out(k, s)), effects |-> v(out(k, s))]]
  BY DEF RouteWrites
<1>2. \A f : IsRoute(p, h, f) <=> IsRoute(p, g, f)
  BY SameIndex DEF IsRoute, More
<1>3. routes(h) = routes(g)
  BY <1>2 DEF More
<1>4. \A s : cone(h, s) = cone(g, s)
  BY SameReach
<1>5. \A s : out(h, s) = out(g, s)
  <2> HIDE DEF cone, to
  <2> QED
    BY <1>4, SameIndex
<1>6. \A s, C : BlindForCone(g, s, C) # NotBlind => BlindForCone(h, s, C) # NotBlind
  BY BlindStays
<1> HIDE DEF routes, cone, out, w, u, v
<1>7. DOMAIN RouteWrites(p, h) = routes(g) /\ DOMAIN RouteWrites(p, g) = routes(g)
  BY <1>1, <1>3
<1>8. ASSUME NEW k, routes(k) = routes(g), NEW s \in routes(g)
      PROVE  /\ RouteWrites(p, k)[s].writes = w(out(k, s))
             /\ RouteWrites(p, k)[s].unclassified = u(out(k, s))
             /\ RouteWrites(p, k)[s].effects = v(out(k, s))
             /\ RouteWrites(p, k)[s].blind <=> BlindForCone(k, s, cone(k, s)) # NotBlind
  <2>1. RouteWrites(p, k)[s] =
            [writes |-> w(out(k, s)), blind |-> BlindForCone(k, s, cone(k, s)) # NotBlind,
             unclassified |-> u(out(k, s)), effects |-> v(out(k, s))]
    BY <1>1, <1>8
  <2>2. /\ RouteWrites(p, k)[s].writes = w(out(k, s))
        /\ RouteWrites(p, k)[s].unclassified = u(out(k, s))
        /\ RouteWrites(p, k)[s].effects = v(out(k, s))
    BY <2>1
  <2> DEFINE b == BlindForCone(k, s, cone(k, s)) # NotBlind
  <2>3. RouteWrites(p, k)[s].blind = b
    <3>1. RouteWrites(p, k)[s] =
              [writes |-> w(out(k, s)), blind |-> b, unclassified |-> u(out(k, s)), effects |-> v(out(k, s))]
      BY <2>1
    <3> HIDE DEF b
    <3> QED
      BY <3>1
  <2> QED
    BY <2>2, <2>3, Zenon
<1>9. ASSUME NEW s \in routes(g), RouteWrites(p, g)[s].blind PROVE RouteWrites(p, h)[s].blind
  <2>1. BlindForCone(g, s, cone(g, s)) # NotBlind
    BY <1>8, <1>9, Zenon
  <2>2. BlindForCone(h, s, cone(h, s)) # NotBlind
    BY <1>4, <1>6, <2>1
  <2> QED
    BY <1>3, <1>8, <2>2, Zenon
<1>10. ASSUME NEW s \in routes(g)
       PROVE  /\ RouteWrites(p, h)[s].writes = RouteWrites(p, g)[s].writes
              /\ RouteWrites(p, h)[s].unclassified = RouteWrites(p, g)[s].unclassified
              /\ RouteWrites(p, h)[s].effects = RouteWrites(p, g)[s].effects
  BY <1>3, <1>5, <1>8
<1> QED
  BY <1>7, <1>9, <1>10, Zenon

(* The budget keeps its findings. *)
LEMMA BudgetKept ==
    ASSUME NEW p, NEW g, NEW h, More(g, h), NEW x \in CheckIOBudget(p, g)
    PROVE  \E y \in CheckIOBudget(p, h) : Alike(x, y)
<1> DEFINE Says(routes, what, on) ==
               IF routes = {} THEN {}
               ELSE {Finding("io_budget", "", Caution, Cardinality(routes), 0, what, on)}
           over(R) == {Finding("io_budget", "", Violation, s, 0, "over", R[s].writes) :
                         s \in {z \in DOMAIN R : Cardinality(R[z].writes) > p.budget.max}}
           none(R) == IF DOMAIN R = {} THEN Says({0}, "no route", {}) ELSE {}
           odd(R)  == {s \in DOMAIN R : R[s].unclassified # {}}
           oddOn(R) == UNION {R[s].unclassified : s \in DOMAIN R}
           eff(R)  == {s \in DOMAIN R : R[s].effects # {}}
           effOn(R) == UNION {R[s].effects : s \in DOMAIN R}
           low(R)  == {s \in DOMAIN R : R[s].blind}
           G == RouteWrites(p, g)
           H == RouteWrites(p, h)
<1>1. ASSUME NEW k
      PROVE  CheckIOBudget(p, k) =
               IF p.budget.set
               THEN over(RouteWrites(p, k)) \cup none(RouteWrites(p, k))
                    \cup Says(odd(RouteWrites(p, k)), "unclassified", oddOn(RouteWrites(p, k)))
                    \cup Says(eff(RouteWrites(p, k)), "effects", effOn(RouteWrites(p, k)))
                    \cup Says(low(RouteWrites(p, k)), "lower bound", {})
               ELSE {}
  BY DEF CheckIOBudget
<1>2. /\ DOMAIN H = DOMAIN G
      /\ \A s \in DOMAIN G : /\ H[s].writes = G[s].writes /\ H[s].unclassified = G[s].unclassified
                              /\ H[s].effects = G[s].effects
  BY RoutesKept
<1>2b. \A s \in DOMAIN G : G[s].blind => H[s].blind
  BY RoutesKept, Zenon
<1> HIDE DEF G, H
<1>3. over(H) = over(G)
  <2> DEFINE bad(R) == {z \in DOMAIN R : Cardinality(R[z].writes) > p.budget.max}
  <2>1. bad(H) = bad(G)
    BY <1>2
  <2>2. \A s \in bad(G) : Finding("io_budget", "", Violation, s, 0, "over", H[s].writes)
                           = Finding("io_budget", "", Violation, s, 0, "over", G[s].writes)
    BY <1>2
  <2>3. \A R : over(R) = {Finding("io_budget", "", Violation, s, 0, "over", R[s].writes) : s \in bad(R)}
    OBVIOUS
  <2> HIDE DEF bad, over
  <2> QED
    BY <2>1, <2>2, <2>3
<1>4. none(H) = none(G)
  BY <1>2
<1>5. odd(H) = odd(G) /\ eff(H) = eff(G)
  BY <1>2
<1>6. oddOn(H) = oddOn(G) /\ effOn(H) = effOn(G)
  BY <1>2
<1>7. low(G) \subseteq low(H)
  BY <1>2, <1>2b, Zenon
<1>8. \A y : Alike(y, y)
  BY DEF Alike
<1>9. ASSUME NEW y, x \in Says(low(G), "lower bound", {})
      PROVE  \E z \in Says(low(H), "lower bound", {}) : Alike(x, z)
  <2> HIDE DEF low
  <2>1. low(G) # {} /\ low(H) # {} /\ x = Finding("io_budget", "", Caution, Cardinality(low(G)), 0, "lower bound", {})
    BY <1>7, <1>9
  <2>2. Alike(x, Finding("io_budget", "", Caution, Cardinality(low(H)), 0, "lower bound", {}))
    BY <2>1 DEF Alike, Finding
  <2> QED
    BY <2>1, <2>2
<1> HIDE DEF over, none, Says, odd, oddOn, eff, effOn, low
<1>10. /\ p.budget.set
       /\ x \in over(G) \cup none(G) \cup Says(odd(G), "unclassified", oddOn(G))
                 \cup Says(eff(G), "effects", effOn(G)) \cup Says(low(G), "lower bound", {})
  BY <1>1 DEF G
<1>11. CheckIOBudget(p, h) = over(H) \cup none(H) \cup Says(odd(H), "unclassified", oddOn(H))
                 \cup Says(eff(H), "effects", effOn(H)) \cup Says(low(H), "lower bound", {})
  BY <1>1, <1>10 DEF H
<1>12. CASE x \in Says(low(G), "lower bound", {})
  BY <1>9, <1>11, <1>12
<1>13. CASE x \notin Says(low(G), "lower bound", {})
  <2>1. x \in CheckIOBudget(p, h)
    BY <1>3, <1>4, <1>5, <1>6, <1>10, <1>11, <1>13
  <2> QED
    BY <1>8, <2>1
<1> QED
  BY <1>12, <1>13

(* Every finding of a check is kept under more blind spots. *)
LEMMA CheckKept ==
    ASSUME NEW p, NEW g, NEW h, More(g, h), g.nodes \subseteq Functions, NEW x \in Check(p, g)
    PROVE  \E y \in Check(p, h) : Alike(x, y)
<1>1. \A y : Alike(y, y)
  BY DEF Alike
<1>2. CASE x \in CheckLayering(p, g)
  BY <1>1, <1>2, LayeringKept DEF Check
<1>3. CASE x \in UNION {CheckMustNotReach(p.reach[i], g) : i \in DOMAIN p.reach}
  <2>1. PICK i \in DOMAIN p.reach : x \in CheckMustNotReach(p.reach[i], g)
    BY <1>3
  <2>2. PICK y \in CheckMustNotReach(p.reach[i], h) : Alike(x, y)
    BY <2>1, MustNotReachKept
  <2> QED
    BY <2>2 DEF Check
<1>4. CASE x \in UNION {CheckMustPassThrough(p.pass[i], g) : i \in DOMAIN p.pass}
  <2>1. PICK i \in DOMAIN p.pass : x \in CheckMustPassThrough(p.pass[i], g)
    BY <1>4
  <2>2. PICK y \in CheckMustPassThrough(p.pass[i], h) : Alike(x, y)
    BY <2>1, PassThroughKept
  <2> QED
    BY <2>2 DEF Check
<1>5. CASE x \in UNION {CheckNoConcurrentReach(p.conc[i], g) : i \in DOMAIN p.conc}
  <2>1. PICK i \in DOMAIN p.conc : x \in CheckNoConcurrentReach(p.conc[i], g)
    BY <1>5
  <2>2. PICK y \in CheckNoConcurrentReach(p.conc[i], h) : Alike(x, y)
    BY <2>1, ConcurrentKept
  <2> QED
    BY <2>2 DEF Check
<1>6. CASE x \in CheckIOBudget(p, g)
  BY <1>6, BudgetKept DEF Check
<1>7. CASE x \in CheckObligations(g) \cup CheckRatchetCoupling(p)
  BY <1>1, <1>7 DEF Check, CheckObligations, More
<1> QED
  BY <1>2, <1>3, <1>4, <1>5, <1>6, <1>7 DEF Check

(* A ratified seam takes proofs back and never a finding: fitness.go's     *)
(* rules read the calls and the effects of a graph as they were, and blind *)
(* spots only where nothing else decides.                                  *)
THEOREM SeamsOnlyAbstainAlways == FitSpec => []SeamsOnlyAbstain
<1>1. SaidInv => SeamsOnlyAbstain
  <2> SUFFICES ASSUME SaidInv, judged # <<>>, NEW f \in judged.nodes, NEW x \in said
               PROVE  \E y \in Check(under, WithBlindSpots(judged, {[kind |-> "ImpeachmentSeam", site |-> f]})) :
                         \A field \in {"rule", "name", "sev", "to", "what"} : y[field] = x[field]
    BY DEF SeamsOnlyAbstain
  <2> DEFINE h == WithBlindSpots(judged, {[kind |-> "ImpeachmentSeam", site |-> f]})
  <2>1. judged \in Graphs /\ said = Check(under, judged)
    BY DEF SaidInv
  <2>2. More(judged, h) /\ judged.nodes \subseteq Functions
    BY <2>1, FieldsOK, WithMore
  <2>3. PICK y \in Check(under, h) : Alike(x, y)
    <3> HIDE DEF h
    <3> QED
      BY <2>1, <2>2, CheckKept
  <2>4. \A field \in {"rule", "name", "sev", "to", "what"} : y[field] = x[field]
    BY <2>3 DEF Alike
  <2> QED
    BY <2>3, <2>4
<1> QED
  BY <1>1, SaidIsCheck, PTL


-----------------------------------------------------------------------------
(* The dead exceptions.                                                    *)
Gone(p, g) == Suppressed(p, g, Check(p, g))
AliveIn(a, S) == \E f \in S : f.from \in a.from /\ f.to \in a.to
(* What is left of the allow-lists when every dead entry is deleted. *)
LivingLayering(p, g) == {a \in p.layerAllow : AliveIn(a, {f \in Gone(p, g) : f.rule = "layering"})}
LivingPass(p, g, i) ==
    {a \in p.pass[i].allow :
        AliveIn(a, {f \in Gone(p, g) : f.rule = "must_pass_through" /\ f.name = p.pass[i].name})}

(* What is left of a policy when the dead entries are gone. *)
LEMMA WithoutDeadIs ==
    ASSUME NEW p \in Policies, NEW g
    PROVE  LET q == WithoutDead(p, g)
           IN  /\ q.layerAllow = LivingLayering(p, g)
               /\ q.pass = [i \in DOMAIN p.pass |-> [p.pass[i] EXCEPT !.allow = LivingPass(p, g, i)]]
               /\ \A field \in PolicyFields \ {"layerAllow", "pass", "spotAllow", "effectAllow"} :
                     q[field] = p[field]
<1> DEFINE dead == Exceptions(p, g)
           q == WithoutDead(p, g)
<1>1. q = [p EXCEPT !.layerAllow = @ \ dead.layering,
                    !.pass = [i \in DOMAIN p.pass |-> [p.pass[i] EXCEPT !.allow = @ \ dead.pass[i]]],
                    !.spotAllow = @ \ dead.spots, !.effectAllow = @ \ dead.effects]
  BY DEF WithoutDead
<1>2. dead.layering = {a \in p.layerAllow : ~AliveIn(a, {f \in Gone(p, g) : f.rule = "layering"})}
  BY DEF Exceptions, AliveIn, Gone
<1>3. dead.pass = [i \in DOMAIN p.pass |->
                     {a \in p.pass[i].allow :
                        ~AliveIn(a, {f \in Gone(p, g) : f.rule = "must_pass_through" /\ f.name = p.pass[i].name})}]
  BY DEF Exceptions, AliveIn, Gone
<1>4. PolicyFields \subseteq DOMAIN p /\ \A i \in DOMAIN p.pass : "allow" \in DOMAIN p.pass[i]
  BY FieldsOK
<1> HIDE DEF dead, q
<1>5. q.layerAllow = LivingLayering(p, g)
  <2>1. q.layerAllow = p.layerAllow \ dead.layering
    BY <1>1, <1>4 DEF PolicyFields
  <2> QED
    BY <1>2, <2>1 DEF LivingLayering
<1>6. \A i \in DOMAIN p.pass : p.pass[i].allow \ dead.pass[i] = LivingPass(p, g, i)
  BY <1>3 DEF LivingPass
<1>7. q.pass = [i \in DOMAIN p.pass |-> [p.pass[i] EXCEPT !.allow = LivingPass(p, g, i)]]
  <2>1. q.pass = [i \in DOMAIN p.pass |-> [p.pass[i] EXCEPT !.allow = @ \ dead.pass[i]]]
    BY <1>1, <1>4 DEF PolicyFields
  <2>2. \A i \in DOMAIN p.pass : [p.pass[i] EXCEPT !.allow = @ \ dead.pass[i]]
                                = [p.pass[i] EXCEPT !.allow = LivingPass(p, g, i)]
    BY <1>4, <1>6
  <2> QED
    BY <2>1, <2>2
<1>8. \A field \in PolicyFields \ {"layerAllow", "pass", "spotAllow", "effectAllow"} : q[field] = p[field]
  BY <1>1, <1>4 DEF PolicyFields
<1> QED
  BY <1>5, <1>7, <1>8 DEF q


(* Layering reports the same without its dead entries. *)
LEMMA LayeringUnmoved ==
    ASSUME NEW p \in Policies, NEW g
    PROVE  CheckLayering(WithoutDead(p, g), g) = CheckLayering(p, g)
<1> DEFINE q == WithoutDead(p, g)
           z == StripAllows(p)
           nodes == g.nodes \X g.nodes
           wrong(k) == {x \in nodes : WrongEdge(k, g, x) /\ ~Allowed(k.layerAllow, x[1], x[2])}
<1>1. q.layers = p.layers /\ q.roots = p.roots /\ q.layered = p.layered /\ q.layerAllow = LivingLayering(p, g)
  <2>1. \A field \in PolicyFields \ {"layerAllow", "pass", "spotAllow", "effectAllow"} : q[field] = p[field]
    BY WithoutDeadIs
  <2>2. {"layers", "roots", "layered"} \subseteq PolicyFields \ {"layerAllow", "pass", "spotAllow", "effectAllow"}
    BY DEF PolicyFields
  <2>3. q["layers"] = p["layers"] /\ q["roots"] = p["roots"] /\ q["layered"] = p["layered"]
    <3> HIDE DEF q
    <3> QED
      BY <2>1, <2>2
  <2> QED
    BY <2>3, WithoutDeadIs
<1>2. z.layers = p.layers /\ z.roots = p.roots /\ z.layered = p.layered /\ z.layerAllow = {}
  BY FieldsOK DEF StripAllows, PolicyFields
<1> HIDE DEF q, z
<1>3. \A k : CheckLayering(k, g) = IF ~k.layered THEN {} ELSE {EdgeFinding(e) : e \in wrong(k)}
  BY LayeringShape
<1>4. ASSUME p.layered, NEW e \in nodes, WrongEdge(p, g, e), Allowed(p.layerAllow, e[1], e[2])
      PROVE  Allowed(q.layerAllow, e[1], e[2])
  <2>1. PICK a \in p.layerAllow : e[1] \in a.from /\ e[2] \in a.to
    BY <1>4 DEF Allowed
  <2>2. EdgeFinding(e) \in Check(z, g)
    <3>1. WrongEdge(z, g, e) /\ ~Allowed(z.layerAllow, e[1], e[2])
      BY <1>2, <1>4, SameLayers DEF Allowed
    <3>2. EdgeFinding(e) \in CheckLayering(z, g)
      BY <1>2, <1>3, <1>4, <3>1
    <3> QED
      BY <3>2 DEF Check
  <2>3. ASSUME NEW b \in Check(p, g), Key(b) = Key(EdgeFinding(e)) PROVE FALSE
    <3> DEFINE y == EdgeFinding(e)
    <3>1. Fields \subseteq DOMAIN b
      BY FoundByItsRule
    <3>2. y = Finding("layering", "", Violation, e[1], e[2], "edge", {}) /\ Key(b) = Key(y)
      BY <2>3 DEF EdgeFinding
    <3> HIDE DEF y
    <3>3. b.rule = "layering" /\ b.from = e[1] /\ b.to = e[2]
      BY <3>1, <3>2, KeyKeeps
    <3>4. b \in CheckLayering(p, g)
      BY <3>3, FoundByItsRule
    <3>5. PICK d \in wrong(p) : b = EdgeFinding(d)
      BY <1>3, <1>4, <3>4
    <3>6. d[1] = e[1] /\ d[2] = e[2]
      BY <3>3, <3>5 DEF EdgeFinding, Finding
    <3>7. ~Allowed(p.layerAllow, d[1], d[2])
      BY <3>5
    <3> QED
      BY <1>4, <3>6, <3>7
  <2>4. EdgeFinding(e) \in Gone(p, g)
    BY <2>2, <2>3 DEF Gone, Suppressed, z
  <2>5. EdgeFinding(e).rule = "layering" /\ EdgeFinding(e).from = e[1] /\ EdgeFinding(e).to = e[2]
    BY DEF EdgeFinding, Finding
  <2>6. a \in LivingLayering(p, g)
    BY <2>1, <2>4, <2>5 DEF LivingLayering, AliveIn
  <2> QED
    BY <1>1, <2>1, <2>6 DEF Allowed
<1>5. ASSUME p.layered PROVE wrong(q) = wrong(p)
  <2>1. ASSUME NEW x \in nodes
        PROVE  WrongEdge(q, g, x) /\ ~Allowed(q.layerAllow, x[1], x[2])
               <=> WrongEdge(p, g, x) /\ ~Allowed(p.layerAllow, x[1], x[2])
    <3>1. WrongEdge(q, g, x) <=> WrongEdge(p, g, x)
      BY <1>1, SameLayers
    <3>2. Allowed(q.layerAllow, x[1], x[2]) => Allowed(p.layerAllow, x[1], x[2])
      BY <1>1 DEF Allowed, LivingLayering
    <3> QED
      BY <1>4, <1>5, <3>1, <3>2
  <2> HIDE DEF nodes
  <2> QED
    BY <2>1
<1> HIDE DEF wrong
<1>6. CheckLayering(q, g) = CheckLayering(p, g)
  BY <1>1, <1>3, <1>5
<1> QED
  BY <1>6 DEF q


(* So does each must_pass_through. *)
LEMMA PassUnmoved ==
    ASSUME NEW p \in Policies, NEW g, Valid(p), NEW i \in DOMAIN p.pass
    PROVE  CheckMustPassThrough(WithoutDead(p, g).pass[i], g) = CheckMustPassThrough(p.pass[i], g)
<1> DEFINE r == p.pass[i]
           q == [r EXCEPT !.allow = LivingPass(p, g, i)]
           z == [r EXCEPT !.allow = {}]
<1>1. WithoutDead(p, g).pass[i] = q
  <2>1. WithoutDead(p, g).pass = [j \in DOMAIN p.pass |-> [p.pass[j] EXCEPT !.allow = LivingPass(p, g, j)]]
    BY WithoutDeadIs
  <2> QED
    BY <2>1
<1>2. {"name", "from", "to", "through", "allow", "proof"} \subseteq DOMAIN r
  BY FieldsOK
<1>3. /\ q.name = r.name /\ q.from = r.from /\ q.to = r.to /\ q.through = r.through /\ q.proof = r.proof
      /\ q.allow = LivingPass(p, g, i)
  BY <1>2
<1>4. /\ z.name = r.name /\ z.from = r.from /\ z.to = r.to /\ z.through = r.through /\ z.allow = {}
  BY <1>2
<1>5. z = StripAllows(p).pass[i] /\ i \in DOMAIN StripAllows(p).pass
  BY FieldsOK DEF StripAllows, PolicyFields
<1>6. LivingPass(p, g, i) \subseteq r.allow
  BY DEF LivingPass
<1>7. r.name = p.pass[i].name /\ r = p.pass[i]
  OBVIOUS
<1> HIDE DEF q, z
<1>8. /\ \A b : Around(g, q, b) <=> Around(g, r, b)
      /\ \A b : Around(g, z, b) <=> Around(g, r, b)
  BY <1>3, <1>4 DEF Around
<1>9. ASSUME BindSources(g, r.from) # {}, BindTargets(g, r.to) # {},
             NEW b \in BindSources(g, r.from) \X BindTargets(g, r.to), Around(g, r, b), Allowed(r.allow, b[1], b[2])
      PROVE  Allowed(q.allow, b[1], b[2])
  <2>1. PICK a \in r.allow : b[1] \in a.from /\ b[2] \in a.to
    BY <1>9 DEF Allowed
  <2> DEFINE y == Bypass(r, b)
  <2>2. y \in Check(StripAllows(p), g)
    <3>1. b \in RoutesAround(g, z)
      BY <1>4, <1>8, <1>9 DEF RoutesAround, Allowed
    <3>2. Bypass(z, b) \in CheckMustPassThrough(z, g)
      BY <1>4, <1>9, <3>1, PassShape
    <3>3. Bypass(z, b) = y
      BY <1>4 DEF Bypass
    <3> QED
      BY <1>5, <3>2, <3>3 DEF Check
  <2>3. y = Finding("must_pass_through", r.name, Violation, b[1], b[2], "bypass", {})
    BY DEF Bypass
  <2> HIDE DEF y
  <2>4. ASSUME NEW x \in Check(p, g), Key(x) = Key(y) PROVE FALSE
    <3>1. Fields \subseteq DOMAIN x
      BY FoundByItsRule
    <3>2. /\ x.rule = "must_pass_through" /\ x.name = r.name /\ x.from = b[1] /\ x.to = b[2]
          /\ x.what = "bypass"
      <4> HIDE DEF r
      <4> QED
        BY <2>3, <2>4, <3>1, KeyKeeps
    <3>3. PICK j \in DOMAIN p.pass : x \in CheckMustPassThrough(p.pass[j], g)
      BY <3>2, FoundByItsRule
    <3> DEFINE o == p.pass[j]
    <3>4. x \notin Unshown(g, o)
      BY <3>2, UnshownSays
    <3>5. PICK c \in RoutesAround(g, o) : x = Bypass(o, c)
      BY <3>3, <3>4, PassShape
    <3>6. c[1] = b[1] /\ c[2] = b[2] /\ o.name = r.name
      BY <3>2, <3>5 DEF Bypass, Finding
    <3>7. j = i
      BY <3>6 DEF Valid, NamedOnce
    <3>8. ~Allowed(r.allow, c[1], c[2])
      BY <3>5, <3>7 DEF RoutesAround
    <3> QED
      BY <1>9, <3>6, <3>8
  <2>5. y \in Gone(p, g)
    BY <2>2, <2>4 DEF Gone, Suppressed
  <2>6. y.rule = "must_pass_through" /\ y.name = p.pass[i].name /\ y.from = b[1] /\ y.to = b[2]
    BY <2>3 DEF Finding
  <2>7. a \in LivingPass(p, g, i)
    BY <2>1, <2>5, <2>6 DEF LivingPass, AliveIn
  <2> QED
    BY <1>3, <2>1, <2>7 DEF Allowed
<1>10. Unshown(g, q) = Unshown(g, r)
  BY <1>3, UnshownSays
<1> HIDE DEF r
<1>11. CASE BindSources(g, r.from) # {} /\ BindTargets(g, r.to) # {}
  <2>1. RoutesAround(g, q) = RoutesAround(g, r)
    <3>1. ASSUME NEW b \in BindSources(g, r.from) \X BindTargets(g, r.to)
          PROVE  Around(g, q, b) /\ ~Allowed(q.allow, b[1], b[2]) <=> Around(g, r, b) /\ ~Allowed(r.allow, b[1], b[2])
      <4>1. Allowed(q.allow, b[1], b[2]) => Allowed(r.allow, b[1], b[2])
        BY <1>3, <1>6 DEF Allowed
      <4> QED
        BY <1>8, <1>9, <1>11, <4>1
    <3> QED
      BY <1>3, <3>1 DEF RoutesAround
  <2>2. \A b : Bypass(q, b) = Bypass(r, b)
    BY <1>3 DEF Bypass
  <2>3. {Bypass(q, b) : b \in RoutesAround(g, q)} = {Bypass(r, b) : b \in RoutesAround(g, r)}
    BY <2>1, <2>2
  <2>4. CheckMustPassThrough(q, g) = CheckMustPassThrough(r, g)
    <3>1. BindSources(g, q.from) = BindSources(g, r.from) /\ BindTargets(g, q.to) = BindTargets(g, r.to)
      BY <1>3
    <3>2. CASE RoutesAround(g, r) = {}
      BY <1>10, <2>1, <3>2, PassShape
    <3>3. CASE RoutesAround(g, r) # {}
      BY <1>11, <2>1, <2>3, <3>1, <3>3, PassShape
    <3> QED
      BY <3>2, <3>3
  <2> QED
    BY <1>1, <1>7, <2>4
<1>12. CASE BindSources(g, r.from) = {} \/ BindTargets(g, r.to) = {}
  <2> QED
    BY <1>1, <1>3, <1>7, <1>10, <1>12, PassShape
<1> QED
  BY <1>11, <1>12


(* The other rules read no entry. *)
LEMMA RestUnmoved ==
    ASSUME NEW p, NEW q, NEW g,
           q.layered = p.layered, q.roots = p.roots, q.budget = p.budget,
           q.spotRatchet = p.spotRatchet, q.spotGate = p.spotGate,
           q.effectRatchet = p.effectRatchet, q.effectGate = p.effectGate
    PROVE  CheckIOBudget(q, g) = CheckIOBudget(p, g) /\ CheckRatchetCoupling(q) = CheckRatchetCoupling(p)
<1>1. RouteWrites(q, g) = RouteWrites(p, g)
  <2>1. \A f : IsRoute(q, g, f) <=> IsRoute(p, g, f)
    BY DEF IsRoute
  <2>2. {f \in g.nodes : IsRoute(q, g, f)} = {f \in g.nodes : IsRoute(p, g, f)}
    BY <2>1
  <2> DEFINE over(S) ==
        [s \in S |->
            LET Of1(cone, out) ==
                    [writes |-> {l \in out : IsWrite(l)},
                     blind  |-> BlindForCone(g, s, cone) # NotBlind,
                     unclassified |-> {l \in out : UnclassifiedDB(l)},
                     effects |-> {l \in out : UnclassifiedEffect(l)}]
                Over(cone) == Of1(cone, {e.to : e \in Effects(g, cone)})
            IN  Over({s} \cup Reachable(g, {s}))]
  <2>3. /\ RouteWrites(q, g) = over({f \in g.nodes : IsRoute(q, g, f)})
        /\ RouteWrites(p, g) = over({f \in g.nodes : IsRoute(p, g, f)})
    BY DEF RouteWrites
  <2> HIDE DEF over
  <2> QED
    BY <2>2, <2>3
<1>2. CheckIOBudget(q, g) = CheckIOBudget(p, g)
  BY <1>1 DEF CheckIOBudget
<1>3. CheckRatchetCoupling(q) = CheckRatchetCoupling(p)
  BY DEF CheckRatchetCoupling, GatesEffects, GatesBlindSpots
<1> QED
  BY <1>2, <1>3

(* The exceptions audit (exceptions.go): every entry it lists DEAD can be  *)
(* deleted, and all of them at once, without a finding appearing or        *)
(* leaving, whatever two entries cover between them.                       *)
THEOREM DeadEntriesRemovableAlways == FitSpec => []DeadEntriesRemovable
<1>1. SaidInv => DeadEntriesRemovable
  <2> SUFFICES ASSUME SaidInv, judged # <<>>
               PROVE  Check(WithoutDead(under, judged), judged) = said
    BY DEF DeadEntriesRemovable
  <2> DEFINE p == under
             g == judged
             q == WithoutDead(p, g)
  <2>1. p \in Policies /\ Valid(p) /\ said = Check(p, g)
    BY DEF SaidInv
  <2>2. \A field \in PolicyFields \ {"layerAllow", "pass", "spotAllow", "effectAllow"} : q[field] = p[field]
    BY <2>1, WithoutDeadIs
  <2>3. DOMAIN q.pass = DOMAIN p.pass
    <3>1. q.pass = [i \in DOMAIN p.pass |-> [p.pass[i] EXCEPT !.allow = LivingPass(p, g, i)]]
      BY <2>1, WithoutDeadIs
    <3> HIDE DEF p, g, q
    <3> QED
      BY <3>1
  <2>4. CheckLayering(q, g) = CheckLayering(p, g)
    BY <2>1, LayeringUnmoved
  <2>5. \A i \in DOMAIN p.pass : CheckMustPassThrough(q.pass[i], g) = CheckMustPassThrough(p.pass[i], g)
    BY <2>1, PassUnmoved
  <2> HIDE DEF p, g, q
  <2>6. /\ q.reach = p.reach /\ q.conc = p.conc /\ q.layered = p.layered /\ q.roots = p.roots
        /\ q.budget = p.budget /\ q.spotRatchet = p.spotRatchet /\ q.spotGate = p.spotGate
        /\ q.effectRatchet = p.effectRatchet /\ q.effectGate = p.effectGate
    BY <2>2 DEF PolicyFields
  <2>7. CheckIOBudget(q, g) = CheckIOBudget(p, g) /\ CheckRatchetCoupling(q) = CheckRatchetCoupling(p)
    BY <2>6, RestUnmoved
  <2>8. UNION {CheckMustPassThrough(q.pass[i], g) : i \in DOMAIN q.pass}
        = UNION {CheckMustPassThrough(p.pass[i], g) : i \in DOMAIN p.pass}
    BY <2>3, <2>5
  <2>9. Check(q, g) = Check(p, g)
    BY <2>4, <2>6, <2>7, <2>8 DEF Check
  <2> QED
    BY <2>1, <2>9 DEF p, g, q
<1> QED
  BY <1>1, SaidIsCheck, PTL


-----------------------------------------------------------------------------
(* The run and the walks.  An edge of the run is an edge of the graph      *)
(* until a blind spot is crossed, and the walk of a rule that saw no blind *)
(* spot therefore holds the whole run.                                     *)

IsWalk(k) ==
    /\ k = [origin |-> k.origin, at |-> k.at, hit |-> k.hit, conc |-> k.conc, spawned |-> k.spawned,
            visited |-> k.visited, writes |-> k.writes]
    /\ k.origin \in Functions /\ k.at \in Functions
    /\ k.visited \subseteq Functions /\ k.origin \in k.visited

(* Held(C): the run is inside C, and touched nothing but it and what it does. *)
Held(g, k, C) == /\ k.at \in C
                 /\ k.hit \in C \cup {0} \cup {e.to : e \in Effects(g, C)}
                 /\ k.writes \subseteq {e.to : e \in Effects(g, C)}

ConcSeen(g) ==
    /\ BlindForCone(g, 0, ConcCone(g)) = NotBlind
    /\ {e \in ConcDirect(g) : IsDynamic(e)} = {}
    /\ {b \in g.spots : b.kind = "ConcurrentDispatch"} = {}

WalkInv ==
    walk # <<>> =>
        /\ judged # <<>>
        /\ IsWalk(walk)
        /\ \A l \in walk.writes : MayWrite(l)
        /\ \A W \in SUBSET Functions :
              /\ walk.visited \cap W = {}
              /\ BlindForCone(judged, 0, GuardedWalk(judged, walk.origin, W)) = NotBlind
              => Held(judged, walk, GuardedWalk(judged, walk.origin, W))
        /\ ConcSeen(judged) =>
              /\ walk.spawned => walk.at \in ConcCone(judged)
              /\ walk.conc =>
                    walk.hit \in ConcCone(judged)
                                 \cup {e.to : e \in ConcDirect(judged) \cup Effects(judged, ConcCone(judged))}

(* What a step writes into the record of the run. *)
LEMMA TouchIs ==
    ASSUME IsWalk(walk), NEW x \in Functions \cup Labels, NEW conc, Touch(x, conc)
    PROVE  /\ IsWalk(walk') /\ walk'.origin = walk.origin /\ walk'.hit = x
           /\ x \in Functions => walk'.at = x /\ walk'.visited = walk.visited \cup {x}
           /\ x \notin Functions => walk'.at = walk.at /\ walk'.visited = walk.visited
           /\ walk'.conc => walk.spawned \/ conc
           /\ walk'.spawned => walk.spawned \/ (conc /\ x \in Functions)
           /\ walk'.writes = walk.writes \cup {l \in {x} \cap Labels : under.budget.set /\ MayWrite(l)}
           /\ judged' = judged /\ under' = under /\ said' = said
<1> DEFINE at == IF x \in Functions THEN x ELSE walk.at
           cc == walk.spawned \/ conc
           sp == walk.spawned \/ (conc /\ x \in Functions)
           vis == walk.visited \cup ({x} \cap Functions)
           wr == walk.writes \cup {l \in {x} \cap Labels : under.budget.set /\ MayWrite(l)}
<1>1. walk' = [walk EXCEPT !.hit = x, !.conc = cc, !.spawned = sp, !.at = at, !.visited = vis, !.writes = wr]
  BY DEF Touch
<1>2. walk = [origin |-> walk.origin, at |-> walk.at, hit |-> walk.hit, conc |-> walk.conc, spawned |-> walk.spawned,
              visited |-> walk.visited, writes |-> walk.writes]
  BY DEF IsWalk
<1> HIDE DEF at, cc, sp, vis, wr
<1>3. walk' = [origin |-> walk.origin, at |-> at, hit |-> x, conc |-> cc, spawned |-> sp, visited |-> vis, writes |-> wr]
  BY <1>1, <1>2
<1>4. /\ walk'.origin = walk.origin /\ walk'.hit = x /\ walk'.at = at /\ walk'.visited = vis /\ walk'.writes = wr
      /\ walk'.conc = cc /\ walk'.spawned = sp
  BY <1>3
<1>5. IsWalk(walk')
  <2>1. walk' = [origin |-> walk'.origin, at |-> walk'.at, hit |-> walk'.hit, conc |-> walk'.conc,
                 spawned |-> walk'.spawned, visited |-> walk'.visited, writes |-> walk'.writes]
    BY <1>3, <1>4
  <2>2. /\ walk'.origin \in Functions /\ walk'.at \in Functions
        /\ walk'.visited \subseteq Functions /\ walk'.origin \in walk'.visited
    BY <1>4 DEF IsWalk, at, vis
  <2> QED
    BY <2>1, <2>2 DEF IsWalk
<1>6. walk'.conc => walk.spawned \/ conc
  BY <1>4, Zenon DEF cc
<1>7. walk'.spawned => walk.spawned \/ (conc /\ x \in Functions)
  BY <1>4, Zenon DEF sp
<1>8. judged' = judged /\ under' = under /\ said' = said
  BY DEF Touch
<1> QED
  BY <1>4, <1>5, <1>6, <1>7, <1>8 DEF at, vis, wr


(* A cone that is not blind hides nothing: no spot at a function or        *)
(* package of it, no dynamic effect.                                       *)
LEMMA NothingHides ==
    ASSUME NEW g, NEW from, NEW C, BlindForCone(g, from, C) = NotBlind
    PROVE  /\ \A f \in C : BlindSpotsAt(g, f) = {} /\ BlindSpotsAt(g, Package[f]) = {}
           /\ \A e \in Effects(g, C) : ~IsDynamic(e)
<1>1. AtFn(g, C) = {} /\ InPkg(g, C) = {} /\ Dynamic(g, C) = {}
  BY BlindIff
<1> QED
  BY <1>1 DEF AtFn, InPkg, Dynamic

(* What a step of the run enters or touches, when it begins in C. *)
ByCall(x, conc) ==
    \E e \in judged.edges : e.from = walk.at /\ e.to \in judged.nodes /\ x = e.to /\ (conc <=> e.conc)
ByEffect(x, conc) ==
    \E e \in judged.edges : /\ e.from = walk.at /\ IsBoundary(e) /\ x \in Labels /\ (conc <=> e.conc)
                            /\ ~IsDynamic(e) => x = e.to
Unseen(conc) ==
    \E site \in {walk.at, Package[walk.at]}, b \in judged.spots :
        b.site = site /\ b.kind \notin DisclosureKinds /\ (conc <=> b.kind = "ConcurrentDispatch")
StepsTo(x, conc) == ByCall(x, conc) \/ ByEffect(x, conc) \/ Unseen(conc)

(* A run goes on only by touching a function or a label, seen or unseen by *)
(* the graph.                                                              *)
LEMMA StepTouches ==
    ASSUME judged # <<>>, SaidInv,
           \/ \E e \in judged.edges : WalkCall(e) \/ \E l \in Labels : WalkEffect(e, l)
           \/ \E x \in Functions \cup Labels : WalkUnseen(x)
    PROVE  walk # <<>> /\ \E x \in Functions \cup Labels : \E conc : Touch(x, conc) /\ StepsTo(x, conc)
<1>1. judged.nodes \subseteq Functions
  BY FieldsOK DEF SaidInv
<1>2. ASSUME NEW e \in judged.edges, WalkCall(e)
      PROVE  walk # <<>> /\ \E x \in Functions \cup Labels : \E conc : Touch(x, conc) /\ StepsTo(x, conc)
  BY <1>1, <1>2 DEF WalkCall, StepsTo, ByCall
<1>3. ASSUME NEW e \in judged.edges, NEW l \in Labels, WalkEffect(e, l)
      PROVE  walk # <<>> /\ \E x \in Functions \cup Labels : \E conc : Touch(x, conc) /\ StepsTo(x, conc)
  BY <1>3 DEF WalkEffect, StepsTo, ByEffect
<1>4. ASSUME NEW x \in Functions \cup Labels, WalkUnseen(x)
      PROVE  walk # <<>> /\ \E y \in Functions \cup Labels : \E conc : Touch(y, conc) /\ StepsTo(y, conc)
  <2>1. PICK site \in {walk.at, Package[walk.at]}, b \in judged.spots :
            b.site = site /\ b.kind \notin DisclosureKinds /\ Touch(x, b.kind = "ConcurrentDispatch")
    BY <1>4 DEF WalkUnseen
  <2>2. StepsTo(x, b.kind = "ConcurrentDispatch")
    BY <2>1 DEF StepsTo, Unseen
  <2> QED
    BY <1>4, <2>1, <2>2 DEF WalkUnseen
<1> QED
  BY <1>2, <1>3, <1>4

(* A step taken inside a walk in which nothing hides stays inside it. *)
LEMMA HeldStep ==
    ASSUME SaidInv, WalkInv, walk # <<>>, NEW x \in Functions \cup Labels, NEW conc,
           Touch(x, conc), StepsTo(x, conc),
           NEW W \in SUBSET Functions, walk'.visited \cap W = {},
           BlindForCone(judged, 0, GuardedWalk(judged, walk.origin, W)) = NotBlind
    PROVE  Held(judged, walk', GuardedWalk(judged, walk.origin, W))
<1> DEFINE C == GuardedWalk(judged, walk.origin, W)
<1>1. IsWalk(walk) /\ judged # <<>>
  BY DEF WalkInv
<1>2. judged.nodes \subseteq Functions
  BY <1>1, FieldsOK DEF SaidInv
<1>3. /\ walk'.hit = x
      /\ x \in Functions => walk'.at = x /\ walk'.visited = walk.visited \cup {x}
      /\ x \notin Functions => walk'.at = walk.at /\ walk'.visited = walk.visited
      /\ walk'.writes = walk.writes \cup {l \in {x} \cap Labels : under.budget.set /\ MayWrite(l)}
  BY <1>1, TouchIs
<1>4. walk.visited \cap W = {}
  BY <1>3
<1>5. Held(judged, walk, C)
  BY <1>4 DEF WalkInv
<1>6. \A f \in C : Callees(judged, f) \ W \subseteq C
  BY <1>1, <1>2, GuardedWalkClosed DEF IsWalk
<1>7. /\ \A f \in C : BlindSpotsAt(judged, f) = {} /\ BlindSpotsAt(judged, Package[f]) = {}
      /\ \A e \in Effects(judged, C) : ~IsDynamic(e)
  BY NothingHides
<1> HIDE DEF C
<1>8. walk.at \in C /\ walk.writes \subseteq {e.to : e \in Effects(judged, C)}
  BY <1>5 DEF Held
<1>9. (x \in Functions /\ x \in C) \/ (x \in Labels /\ x \in {e.to : e \in Effects(judged, C)})
  <2>1. ASSUME NEW e \in judged.edges, e.from = walk.at, e.to \in judged.nodes, x = e.to
        PROVE  x \in Functions /\ x \in C
    <3>1. x \in Functions /\ x \notin W
      BY <1>2, <1>3, <2>1
    <3>2. x \in Callees(judged, walk.at)
      BY <2>1 DEF Callees
    <3> QED
      BY <1>6, <1>8, <3>1, <3>2
  <2>2. ASSUME NEW e \in judged.edges, e.from = walk.at, IsBoundary(e), x \in Labels, ~IsDynamic(e) => x = e.to
        PROVE  x \in {d.to : d \in Effects(judged, C)}
    <3>1. e \in Effects(judged, C)
      BY <1>8, <2>2 DEF Effects
    <3> QED
      BY <1>7, <2>2, <3>1
  <2>3. ASSUME NEW site \in {walk.at, Package[walk.at]}, NEW b \in judged.spots,
               b.site = site, b.kind \notin DisclosureKinds
        PROVE  FALSE
    <3>1. b \in BlindSpotsAt(judged, site)
      BY <2>3 DEF BlindSpotsAt
    <3> QED
      BY <1>7, <1>8, <3>1
  <2>4. CASE ByCall(x, conc)
    BY <2>1, <2>4, Zenon DEF ByCall
  <2>5. CASE ByEffect(x, conc)
    BY <2>2, <2>5, Zenon DEF ByEffect
  <2>6. CASE Unseen(conc)
    BY <2>3, <2>6 DEF Unseen
  <2> QED
    BY <2>4, <2>5, <2>6 DEF StepsTo
<1>10. Functions \cap Labels = {}
  BY NamesOK
<1>11. CASE x \in Functions
  <2>1. walk'.writes = walk.writes
    BY <1>3, <1>10, <1>11
  <2> QED
    BY <1>3, <1>8, <1>9, <1>10, <1>11, <2>1 DEF Held, C
<1>12. CASE x \in Labels
  <2>1. walk'.writes \subseteq walk.writes \cup {x}
    BY <1>3
  <2>2. x \in {e.to : e \in Effects(judged, C)}
    BY <1>9, <1>10, <1>12
  <2>3. walk'.at = walk.at
    BY <1>3, <1>10, <1>12
  <2>4. Held(judged, walk', C)
    BY <1>3, <1>8, <2>1, <2>2, <2>3 DEF Held
  <2> QED
    BY <2>4 DEF C
<1> QED
  BY <1>11, <1>12

(* The same of the concurrent cone, once the run is in a goroutine. *)
LEMMA ConcStep ==
    ASSUME SaidInv, WalkInv, walk # <<>>, NEW x \in Functions \cup Labels, NEW conc,
           Touch(x, conc), StepsTo(x, conc), ConcSeen(judged)
    PROVE  /\ walk'.spawned => walk'.at \in ConcCone(judged)
           /\ walk'.conc =>
                 walk'.hit \in ConcCone(judged)
                               \cup {e.to : e \in ConcDirect(judged) \cup Effects(judged, ConcCone(judged))}
<1> DEFINE C == ConcCone(judged)
           out == {e.to : e \in ConcDirect(judged) \cup Effects(judged, C)}
<1>1. IsWalk(walk) /\ judged # <<>> /\ (walk.spawned => walk.at \in C)
  BY DEF WalkInv
<1>2. judged.nodes \subseteq Functions /\ \A e \in judged.edges : e.from \in judged.nodes
  BY <1>1, FieldsOK DEF SaidInv, Loadable
<1>3. /\ walk'.hit = x
      /\ x \in Functions => walk'.at = x
      /\ x \notin Functions => walk'.at = walk.at
      /\ walk'.conc => walk.spawned \/ conc
      /\ walk'.spawned => walk.spawned \/ (conc /\ x \in Functions)
  BY <1>1, TouchIs
<1>4. ConcSeeds(judged) \subseteq C /\ \A f \in C : Callees(judged, f) \subseteq C
  BY <1>2, ConcConeClosed
<1>5. /\ \A f \in C : BlindSpotsAt(judged, f) = {} /\ BlindSpotsAt(judged, Package[f]) = {}
      /\ \A e \in Effects(judged, C) : ~IsDynamic(e)
  BY NothingHides DEF ConcSeen
<1>6. /\ \A e \in ConcDirect(judged) : ~IsDynamic(e)
      /\ \A b \in judged.spots : b.kind # "ConcurrentDispatch"
  BY DEF ConcSeen
<1>7. Functions \cap Labels = {}
  BY NamesOK
<1> HIDE DEF C
<1>8. ASSUME walk.spawned \/ conc
      PROVE  (x \in Functions /\ x \in C) \/ (x \in Labels /\ x \in out)
  <2>1. ASSUME NEW e \in judged.edges, e.from = walk.at, e.to \in judged.nodes, x = e.to, conc <=> e.conc
        PROVE  x \in Functions /\ x \in C
    <3>1. x \in Functions
      BY <1>2, <2>1
    <3>2. CASE walk.spawned
      <4>1. x \in Callees(judged, walk.at)
        BY <2>1 DEF Callees
      <4> QED
        BY <1>1, <1>4, <3>1, <3>2, <4>1
    <3>3. CASE conc
      <4>1. x \in ConcSeeds(judged)
        BY <2>1, <3>3 DEF ConcSeeds
      <4> QED
        BY <1>4, <3>1, <4>1
    <3> QED
      BY <1>8, <3>2, <3>3
  <2>2. ASSUME NEW e \in judged.edges, e.from = walk.at, IsBoundary(e), x \in Labels, conc <=> e.conc,
               ~IsDynamic(e) => x = e.to
        PROVE  x \in out
    <3>1. CASE walk.spawned
      <4>1. e \in Effects(judged, C)
        BY <1>1, <2>2, <3>1 DEF Effects
      <4> QED
        BY <1>5, <2>2, <4>1
    <3>2. CASE conc
      <4>1. e \in ConcDirect(judged)
        BY <1>2, <2>2, <3>2 DEF ConcDirect, Effects
      <4> QED
        BY <1>6, <2>2, <4>1
    <3> QED
      BY <1>8, <3>1, <3>2
  <2>3. ASSUME NEW site \in {walk.at, Package[walk.at]}, NEW b \in judged.spots,
               b.site = site, b.kind \notin DisclosureKinds, conc <=> b.kind = "ConcurrentDispatch"
        PROVE  FALSE
    <3>1. walk.spawned
      BY <1>6, <1>8, <2>3
    <3>2. b \in BlindSpotsAt(judged, site)
      BY <2>3 DEF BlindSpotsAt
    <3> QED
      BY <1>1, <1>5, <3>1, <3>2
  <2>4. CASE ByCall(x, conc)
    BY <2>1, <2>4, Zenon DEF ByCall
  <2>5. CASE ByEffect(x, conc)
    BY <2>2, <2>5, Zenon DEF ByEffect
  <2>6. CASE Unseen(conc)
    BY <2>3, <2>6 DEF Unseen
  <2> QED
    BY <2>4, <2>5, <2>6 DEF StepsTo
<1>9. walk'.spawned => walk'.at \in C
  <2> SUFFICES ASSUME walk'.spawned PROVE walk'.at \in C
    OBVIOUS
  <2>1. CASE x \in Functions
    BY <1>3, <1>7, <1>8, <2>1
  <2>2. CASE x \notin Functions
    BY <1>1, <1>3, <2>2
  <2> QED
    BY <2>1, <2>2
<1>10. walk'.conc => walk'.hit \in C \cup out
  BY <1>3, <1>8
<1> QED
  BY <1>9, <1>10 DEF C


(* What a run touches keeps the invariant of the run. *)
LEMMA TouchKeeps ==
    ASSUME SaidInv, WalkInv, walk # <<>>, NEW x \in Functions \cup Labels, NEW conc,
           Touch(x, conc), StepsTo(x, conc)
    PROVE  WalkInv'
<1>1. IsWalk(walk) /\ judged # <<>> /\ \A l \in walk.writes : MayWrite(l)
  BY DEF WalkInv
<1>2. /\ IsWalk(walk') /\ walk'.origin = walk.origin /\ judged' = judged
      /\ walk'.writes = walk.writes \cup {l \in {x} \cap Labels : under.budget.set /\ MayWrite(l)}
  BY <1>1, TouchIs
<1>3. \A l \in walk'.writes : MayWrite(l)
  BY <1>1, <1>2
<1>4. ASSUME NEW W \in SUBSET Functions, walk'.visited \cap W = {},
             BlindForCone(judged, 0, GuardedWalk(judged, walk.origin, W)) = NotBlind
      PROVE  Held(judged, walk', GuardedWalk(judged, walk.origin, W))
  BY <1>4, HeldStep
<1>5. ConcSeen(judged) =>
        /\ walk'.spawned => walk'.at \in ConcCone(judged)
        /\ walk'.conc =>
              walk'.hit \in ConcCone(judged)
                            \cup {e.to : e \in ConcDirect(judged) \cup Effects(judged, ConcCone(judged))}
  BY ConcStep
<1> QED
  BY <1>1, <1>2, <1>3, <1>4, <1>5 DEF WalkInv

(* The invariant of the run always holds. *)
LEMMA WalkStays == FitSpec => []WalkInv
<1>1. FitInit => WalkInv
  BY DEF FitInit, WalkInv
<1>2. ASSUME SaidInv, WalkInv, FitNext
      PROVE  WalkInv'
  <2>1. ASSUME NEW g \in Graphs, NEW p \in Policies, Judge(g, p)
        PROVE  WalkInv'
    <3>1. walk = <<>> /\ walk' = walk
      BY <1>2, <2>1 DEF Judge, WalkInv
    <3> QED
      BY <3>1 DEF WalkInv
  <2>2. ASSUME NEW f \in Functions, Enter(f)
        PROVE  WalkInv'
    <3> DEFINE k == walk'
    <3>1. /\ k = [origin |-> f, at |-> f, hit |-> 0, conc |-> FALSE, spawned |-> FALSE, visited |-> {f}, writes |-> {}]
          /\ judged # <<>> /\ judged' = judged
      BY <2>2 DEF Enter
    <3> HIDE DEF k
    <3>2. /\ k.origin = f /\ k.at = f /\ k.hit = 0 /\ k.visited = {f} /\ k.writes = {}
          /\ k.conc = FALSE /\ k.spawned = FALSE
      BY <3>1
    <3>3. IsWalk(k)
      BY <3>1, <3>2 DEF IsWalk
    <3>4. \A W \in SUBSET Functions : Held(judged, k, GuardedWalk(judged, f, W))
      BY <3>2 DEF Held, GuardedWalk
    <3>5. ~k.conc /\ ~k.spawned
      BY <3>2
    <3> QED
      BY <3>1, <3>2, <3>3, <3>4, <3>5 DEF WalkInv, k
  <2>3. ASSUME judged # <<>>, \/ \E e \in judged.edges : WalkCall(e) \/ \E l \in Labels : WalkEffect(e, l)
                            \/ \E x \in Functions \cup Labels : WalkUnseen(x)
        PROVE  WalkInv'
    <3>1. walk # <<>> /\ \E x \in Functions \cup Labels : \E conc : Touch(x, conc) /\ StepsTo(x, conc)
      BY <1>2, <2>3, StepTouches
    <3> QED
      BY <1>2, <3>1, TouchKeeps
  <2>4. ASSUME NEW x \in Functions \cup Labels, WalkUnseen(x) PROVE WalkInv'
    <3>1. judged # <<>>
      BY <1>2, <2>4 DEF WalkUnseen, WalkInv
    <3> QED
      BY <2>3, <2>4, <3>1
  <2> QED
    BY <1>2, <2>1, <2>2, <2>3, <2>4 DEF FitNext
<1>3. WalkInv /\ UNCHANGED fitVars => WalkInv'
  BY DEF WalkInv, fitVars
<1> QED
  BY <1>1, <1>2, <1>3, SaidIsCheck, PTL DEF FitSpec


(* A rule without a finding: its check found nothing. *)
LEMMA SilentIsEmpty ==
    ASSUME SaidInv, judged # <<>>
    PROVE  /\ \A i \in DOMAIN under.reach :
                 Silent("must_not_reach", under.reach[i]) => CheckMustNotReach(under.reach[i], judged) = {}
           /\ \A i \in DOMAIN under.pass :
                 Silent("must_pass_through", under.pass[i]) => CheckMustPassThrough(under.pass[i], judged) = {}
           /\ \A i \in DOMAIN under.conc :
                 Silent("no_concurrent_reach", under.conc[i]) => CheckNoConcurrentReach(under.conc[i], judged) = {}
<1>1. said = Check(under, judged)
  BY DEF SaidInv
<1>2. ASSUME NEW i \in DOMAIN under.reach, NEW x \in CheckMustNotReach(under.reach[i], judged)
      PROVE  ~Silent("must_not_reach", under.reach[i])
  <2>1. x \in said
    BY <1>1 DEF Check
  <2>2. x.rule = "must_not_reach" /\ x.name = under.reach[i].name
    BY RuleOfReach DEF OfRule
  <2> QED
    BY <2>1, <2>2 DEF Silent
<1>3. ASSUME NEW i \in DOMAIN under.pass, NEW x \in CheckMustPassThrough(under.pass[i], judged)
      PROVE  ~Silent("must_pass_through", under.pass[i])
  <2>1. x \in said
    BY <1>1 DEF Check
  <2>2. x.rule = "must_pass_through" /\ x.name = under.pass[i].name
    BY RuleOfPass DEF OfRule
  <2> QED
    BY <2>1, <2>2 DEF Silent
<1>4. ASSUME NEW i \in DOMAIN under.conc, NEW x \in CheckNoConcurrentReach(under.conc[i], judged)
      PROVE  ~Silent("no_concurrent_reach", under.conc[i])
  <2>1. x \in said
    BY <1>1 DEF Check
  <2>2. x.rule = "no_concurrent_reach" /\ x.name = under.conc[i].name
    BY RuleOfConcurrent DEF OfRule
  <2> QED
    BY <2>1, <2>2 DEF Silent
<1> QED
  BY <1>2, <1>3, <1>4

(* A name in the graph that a selector names is a target of the rule. *)
LEMMA Targeted ==
    ASSUME NEW g, NEW S, NEW x \in Names(S),
           x \in g.nodes \/ \E e \in Effects(g, g.nodes) : x = e.to
    PROVE  x \in BindTargets(g, S)
  BY DEF Names, BindTargets

(* Whether a cone is blind does not depend on where it is looked at from. *)
LEMMA BlindFromAnywhere ==
    ASSUME NEW g, NEW s, NEW t, NEW C
    PROVE  BlindForCone(g, s, C) = NotBlind <=> BlindForCone(g, t, C) = NotBlind
  BY BlindIff

(* What each verdict of the facts says of the walks.                       *)
LEMMA AbsentMeans ==
    ASSUME NEW g, NEW from, NEW to, EvaluateReach(g, from, to).state = "ABSENT", NEW s \in BindSources(g, from)
    PROVE  LET C == GuardedWalk(g, s, {})
               T == BindTargets(g, to)
           IN  /\ BlindForCone(g, 0, C) = NotBlind
               /\ (C \ {s}) \cap T = {}
               /\ \A e \in Effects(g, C) : e.to \notin T
<1> DEFINE F == BindSources(g, from)
           T == BindTargets(g, to)
           R == [a \in F |-> SearchFrom(g, a, T)]
           fact == ReachFact(F, T, R)
           C == {s} \cup Reachable(g, {s})
           found == {a \in F : R[a].found}
           blind == {a \in F : R[a].blind # NotBlind}
<1>1. EvaluateReach(g, from, to) = fact
  BY DEF EvaluateReach
<1>3. fact.state = "ABSENT"
  BY <1>1
<1>4. fact = IF F = {} \/ T = {} THEN ReachRes("UNBOUND", 0, F, T, R)
             ELSE IF found # {} THEN ReachRes("FOUND", Min(found), F, T, R)
             ELSE IF blind # {} THEN ReachRes("BLIND", Min(blind), F, T, R)
             ELSE ReachRes("ABSENT", 0, F, T, R)
  BY DEF ReachFact
<1>5. found = {} /\ blind = {}
  <2> HIDE DEF F, T, R, fact, found, blind
  <2> QED
    BY <1>3, <1>4 DEF ReachRes
<1>6. ~SearchFrom(g, s, T).found /\ SearchFrom(g, s, T).blind = NotBlind
  <2>1. R[s] = SearchFrom(g, s, T)
    OBVIOUS
  <2> HIDE DEF R, F
  <2> QED
    BY <1>5, <2>1 DEF F
<1> DEFINE fns == (C \ {s}) \cap T
           owners == {e.from : e \in {d \in Effects(g, C) : d.to \in T}}
           owner(o) == Append(ShortestPath(g, s, o, {}), Min({e.to : e \in Effects(g, {o})} \cap T))
<1>7. SearchFrom(g, s, T) =
        IF fns # {}
        THEN [found |-> TRUE, path |-> ShortestPath(g, s, Min(fns), {}), blind |-> NotBlind]
        ELSE IF owners # {}
        THEN [found |-> TRUE, path |-> owner(FirstOf(s, owners)), blind |-> NotBlind]
        ELSE [found |-> FALSE, path |-> <<>>, blind |-> BlindForCone(g, s, C)]
  BY DEF SearchFrom
<1>8. fns = {} /\ owners = {} /\ BlindForCone(g, s, C) = NotBlind
  <2> HIDE DEF fns, owners, owner, T, C
  <2> QED
    BY <1>6, <1>7
<1>9. \A e \in Effects(g, C) : e.to \notin T
  BY <1>8
<1>10. C = GuardedWalk(g, s, {})
  BY ConeIsWalk
<1>11. BlindForCone(g, 0, C) = NotBlind
  BY <1>8, BlindFromAnywhere
<1> QED
  BY <1>8, <1>9, <1>10, <1>11

(* A must_not_reach that says nothing has proved an absence. *)
LEMMA NoReach ==
    ASSUME NEW g, NEW r, CheckMustNotReach(r, g) = {}
    PROVE  EvaluateReach(g, r.from, r.to).state = "ABSENT"
<1> DEFINE fact == EvaluateReach(g, r.from, r.to)
<1>1. fact.state \in {"UNBOUND", "FOUND", "BLIND", "ABSENT"}
  BY DEF EvaluateReach, ReachFact, ReachRes
<1>2. CheckMustNotReach(r, g) =
          CASE fact.state = "UNBOUND" ->
                {Unproven("must_not_reach", r, 0,
                          IF fact.boundFrom = {} THEN "inert" ELSE "unbindable", {})}
            [] fact.state = "FOUND" ->
                {Finding("must_not_reach", r.name, Violation, fact.from,
                         fact.path[Len(fact.path)], "reaches", {})}
            [] fact.state = "BLIND" -> {Unproven("must_not_reach", r, fact.from, "blind", {fact.blind.site})}
            [] fact.state = "ABSENT" -> {}
  BY DEF CheckMustNotReach
<1> HIDE DEF fact
<1>3. fact.state = "ABSENT"
  BY <1>1, <1>2
<1> QED
  BY <1>3 DEF fact

(* What a guarded fact says of each source: nothing hidden, and no target  *)
(* around the waypoint that is not allowed.                                *)
LEMMA GuardedMeans ==
    ASSUME NEW g, NEW from, NEW to, NEW through, NEW allow,
           EvaluatePassThrough(g, from, to, through, allow).state = "GUARDED",
           NEW s \in BindSources(g, from), s \notin BindFunctions(g, through)
    PROVE  LET W == BindFunctions(g, through)
               C == GuardedWalk(g, s, W)
           IN  /\ BlindForCone(g, 0, C) = NotBlind
               /\ \A t \in BindTargets(g, to) :
                     t \in (C \ {s}) \cup {e.to : e \in Effects(g, C)} => Allowed(allow, s, t)
<1> DEFINE F == BindSources(g, from)
           T == BindTargets(g, to)
           W == BindFunctions(g, through)
           open == [a \in F \ W |-> GuardedWalk(g, a, W)]
           fact == PassFact(g, F, T, W, allow, open)
           by == Bypasses(g, F, T, W, allow, open)
           blind == {a \in F \ W : BlindForCone(g, 0, open[a]) # NotBlind}
           out(S) == {e.to : e \in Effects(g, S)}
<1>1. fact.state = "GUARDED"
  BY DEF EvaluatePassThrough
<1>2. fact.state = IF F = {} \/ T = {} THEN "UNBOUND" ELSE IF by # {} THEN "BYPASSED"
                   ELSE IF blind # {} THEN "BLIND" ELSE "GUARDED"
  <2> HIDE DEF F, T, W, open
  <2> QED
    BY DEF PassFact
<1>3. by = {} /\ blind = {}
  <2> HIDE DEF fact, by, blind
  <2> QED
    BY <1>1, <1>2
<1>4. s \in F \ W /\ open[s] = GuardedWalk(g, s, W)
  OBVIOUS
<1>5. BlindForCone(g, 0, GuardedWalk(g, s, W)) = NotBlind
  <2> HIDE DEF open, F, W
  <2> QED
    BY <1>3, <1>4
<1>6. ASSUME NEW t \in T, t \in (open[s] \ {s}) \cup out(open[s])
      PROVE  Allowed(allow, s, t)
  <2> DEFINE b == <<s, t>>
             ends(a) == (open[a] \ {a}) \cup out(open[a])
  <2>1. by = {x \in (F \ W) \X T : x[2] \in ends(x[1]) /\ ~Allowed(allow, x[1], x[2])}
    <3> HIDE DEF F, T, W, open
    <3> QED
      BY DEF Bypasses
  <2>2. b \in (F \ W) \X T /\ b[1] = s /\ b[2] = t
    BY <1>4
  <2>3. b[2] \in ends(b[1])
    BY <1>6, <2>2
  <2>4. Allowed(allow, b[1], b[2])
    <3> HIDE DEF F, T, W, ends, by, b
    <3> QED
      BY <1>3, <2>1, <2>2, <2>3
  <2> QED
    BY <2>2, <2>4
<1> QED
  BY <1>4, <1>5, <1>6

(* A must_pass_through that says nothing has proved a guard. *)
LEMMA NoBypass ==
    ASSUME NEW g, NEW r, CheckMustPassThrough(r, g) = {}
    PROVE  EvaluatePassThrough(g, r.from, r.to, r.through, r.allow).state = "GUARDED"
<1> DEFINE F == BindSources(g, r.from)
           T == BindTargets(g, r.to)
           W == BindFunctions(g, r.through)
           open == [a \in F \ W |-> GuardedWalk(g, a, W)]
           fact == PassFact(g, F, T, W, r.allow, open)
           by == Bypasses(g, F, T, W, r.allow, open)
           around(S) == {Bypass(r, b) : b \in S}
<1>1. EvaluatePassThrough(g, r.from, r.to, r.through, r.allow) = fact
  BY DEF EvaluatePassThrough
<1>2. CheckMustPassThrough(r, g) =
        IF fact.boundFrom = {} THEN {Unproven("must_pass_through", r, 0, "inert", {})}
        ELSE IF fact.boundTo = {} THEN {Unproven("must_pass_through", r, 0, "unbindable", {})}
        ELSE IF fact.state = "BYPASSED" THEN around(fact.bypasses)
        ELSE IF fact.state = "BLIND" THEN {Unproven("must_pass_through", r, fact.from, "blind", {fact.blind.site})}
        ELSE {}
  <2> HIDE DEF fact
  <2> QED
    BY <1>1 DEF CheckMustPassThrough, Bypass
<1>3. /\ fact.boundFrom = F /\ fact.boundTo = T
      /\ ~(F = {} \/ T = {}) =>
           /\ by # {} => fact.state = "BYPASSED" /\ fact.bypasses = by
           /\ by = {} => fact.state \in {"BLIND", "GUARDED"}
  <2> HIDE DEF F, T, W, open
  <2> QED
    BY DEF PassFact
<1>4. \A S : S # {} => around(S) # {}
  OBVIOUS
<1> HIDE DEF F, T, fact, by, around
<1> QED
  BY <1>1, <1>2, <1>3, <1>4

(* What a clean fact says of all that runs concurrently. *)
LEMMA CleanMeans ==
    ASSUME NEW g, NEW to, EvaluateConcurrent(g, to).state = "CLEAN"
    PROVE  /\ ConcSeen(g)
           /\ ConcCone(g) \cap BindTargets(g, to) = {}
           /\ \A e \in ConcDirect(g) \cup Effects(g, ConcCone(g)) : e.to \notin BindTargets(g, to)
<1> DEFINE cone   == ConcCone(g)
           direct == ConcDirect(g)
           loose  == {e.from : e \in {d \in direct : IsDynamic(d)}}
           spots  == {b.site : b \in {c \in g.spots : c.kind = "ConcurrentDispatch"}}
           first  == IF cone = {} THEN 0 ELSE Min(cone)
           blind  == IF BlindForCone(g, first, cone) # NotBlind THEN BlindForCone(g, first, cone)
                     ELSE IF loose # {} THEN [site |-> Min(loose), at |-> "boundary"]
                     ELSE IF spots # {} THEN [site |-> Min(spots), at |-> "dispatch"]
                     ELSE NotBlind
           T == BindTargets(g, to)
           hits == {<<e.from, e.to>> : e \in {d \in direct \cup Effects(g, cone) : d.to \in T}}
                     \cup {<<0, f>> : f \in cone \cap T}
           fact == [state |-> IF T = {} THEN "UNBOUND" ELSE IF hits # {} THEN "HIT"
                              ELSE IF blind # NotBlind THEN "BLIND" ELSE "CLEAN",
                    hits |-> hits, blind |-> blind]
<1>1. ConcurrentSurface(g) = [direct |-> direct, cone |-> cone, blind |-> blind]
  BY DEF ConcurrentSurface, ConcCone, ConcSeeds, ConcDirect
<1>2. EvaluateConcurrent(g, to) = fact
  <2> HIDE DEF cone, direct, blind, T
  <2> QED
    BY <1>1 DEF EvaluateConcurrent, T
<1>5. hits = {} /\ blind = NotBlind
  <2>1. fact.state = "CLEAN"
    BY <1>2
  <2> HIDE DEF hits, T, blind
  <2> QED
    BY <2>1
<1>6. BlindForCone(g, first, cone) = NotBlind /\ loose = {} /\ spots = {}
  <2>1. \A site : /\ [site |-> site, at |-> "boundary"] # NotBlind
                  /\ [site |-> site, at |-> "dispatch"] # NotBlind
    BY DEF NotBlind
  <2> HIDE DEF spots, loose, cone, first
  <2> QED
    BY <1>5, <2>1
<1>7. ConcSeen(g)
  <2>1. BlindForCone(g, 0, cone) = NotBlind
    BY <1>6, BlindFromAnywhere
  <2> QED
    BY <1>6, <2>1 DEF ConcSeen
<1>8. cone \cap T = {} /\ \A e \in direct \cup Effects(g, cone) : e.to \notin T
  <2> HIDE DEF cone, direct, T
  <2> QED
    BY <1>5
<1> QED
  BY <1>7, <1>8

(* A no_concurrent_reach that says nothing has proved that nothing is      *)
(* spawned onto a target.                                                  *)
LEMMA NothingSpawned ==
    ASSUME NEW g, NEW r, CheckNoConcurrentReach(r, g) = {}
    PROVE  EvaluateConcurrent(g, r.to).state = "CLEAN"
<1> DEFINE fact == EvaluateConcurrent(g, r.to)
<1>1. CheckNoConcurrentReach(r, g) =
        CASE fact.state = "UNBOUND" -> {Unproven("no_concurrent_reach", r, 0, "unbindable", {})}
          [] fact.state = "HIT" ->
                {Finding("no_concurrent_reach", r.name, Violation, h[1], h[2], "reachable", {}) : h \in fact.hits}
          [] fact.state = "BLIND" -> {Unproven("no_concurrent_reach", r, 0, "blind", {fact.blind.site})}
          [] fact.state = "CLEAN" -> {}
  BY DEF CheckNoConcurrentReach
<1>2. fact.state \in {"UNBOUND", "HIT", "BLIND", "CLEAN"} /\ (fact.state = "HIT" => fact.hits # {})
  BY DEF EvaluateConcurrent
<1> HIDE DEF fact
<1>3. fact.state = "CLEAN"
  BY <1>1, <1>2
<1> QED
  BY <1>3 DEF fact

(* What holds of every run of a graph whose fact says so, from, to and     *)
(* through being the selectors of a rule or of a claim.                    *)
LEMMA RunStays ==
    ASSUME SaidInv, WalkInv, judged # <<>>, walk # <<>>
    PROVE  /\ judged.nodes \subseteq Functions /\ \A e \in judged.edges : e.from \in judged.nodes
           /\ walk.origin \in Functions /\ walk.origin \in walk.visited
           /\ \A W \in SUBSET Functions : LET C == GuardedWalk(judged, walk.origin, W) IN
                 walk.visited \cap W = {} /\ BlindForCone(judged, 0, C) = NotBlind
                 => walk.hit \in C \cup {0} \cup {e.to : e \in Effects(judged, C)}
           /\ \A C : \A e \in Effects(judged, C) : e \in Effects(judged, judged.nodes)
           /\ \A S : S \subseteq DOMAIN Binds => 0 \notin Names(S)
<1>1. judged.nodes \subseteq Functions /\ \A e \in judged.edges : e.from \in judged.nodes
  BY FieldsOK DEF SaidInv, Loadable
<1>2. /\ walk.origin \in Functions /\ walk.origin \in walk.visited
      /\ \A W \in SUBSET Functions :
            walk.visited \cap W = {} /\ BlindForCone(judged, 0, GuardedWalk(judged, walk.origin, W)) = NotBlind
            => walk.hit \in GuardedWalk(judged, walk.origin, W) \cup {0}
                               \cup {e.to : e \in Effects(judged, GuardedWalk(judged, walk.origin, W))}
  BY DEF WalkInv, IsWalk, Held
<1>3. \A C : \A e \in Effects(judged, C) : e \in Effects(judged, judged.nodes)
  BY <1>1 DEF Effects
<1>4. \A S : S \subseteq DOMAIN Binds => 0 \notin Names(S)
  BY NamesOK DEF Names
<1> QED
  BY <1>1, <1>2, <1>3, <1>4

(* An absent target is not touched. *)
LEMMA AbsentHolds ==
    ASSUME SaidInv, WalkInv, judged # <<>>, walk # <<>>, NEW from, NEW to, to \subseteq DOMAIN Binds,
           EvaluateReach(judged, from, to).state = "ABSENT", walk.origin \in BindSources(judged, from)
    PROVE  walk.hit \notin Names(to) \ {walk.origin}
<1> SUFFICES ASSUME walk.hit \in Names(to), walk.hit # walk.origin PROVE FALSE
  OBVIOUS
<1> DEFINE C == GuardedWalk(judged, walk.origin, {})
           T == BindTargets(judged, to)
<1>1. /\ BlindForCone(judged, 0, C) = NotBlind /\ (C \ {walk.origin}) \cap T = {}
      /\ \A e \in Effects(judged, C) : e.to \notin T
  BY AbsentMeans
<1>2. walk.hit \in C \cup {e.to : e \in Effects(judged, C)}
  <2>1. {} \in SUBSET Functions /\ walk.visited \cap {} = {}
    OBVIOUS
  <2>2. walk.hit \in C \cup {0} \cup {e.to : e \in Effects(judged, C)}
    BY <1>1, <2>1, RunStays
  <2>3. walk.hit # 0
    BY RunStays
  <2> QED
    BY <2>2, <2>3
<1>3. C \subseteq {walk.origin} \cup judged.nodes
  BY RunStays, GuardedWalkClosed
<1>4. CASE walk.hit \in C
  <2>1. walk.hit \in T
    BY <1>3, <1>4, Targeted
  <2> QED
    BY <1>1, <1>4, <2>1
<1>5. CASE walk.hit \in {e.to : e \in Effects(judged, C)}
  <2>1. PICK e \in Effects(judged, C) : walk.hit = e.to
    BY <1>5
  <2>2. walk.hit \in T
    BY <2>1, RunStays, Targeted
  <2> QED
    BY <1>1, <2>1, <2>2
<1> QED
  BY <1>2, <1>4, <1>5

(* A guarded target is touched past a guard, or on an allowed pair. *)
LEMMA GuardedHolds ==
    ASSUME SaidInv, WalkInv, judged # <<>>, walk # <<>>, NEW from, NEW to, NEW through, NEW allow,
           to \subseteq DOMAIN Binds,
           EvaluatePassThrough(judged, from, to, through, allow).state = "GUARDED",
           walk.origin \in BindSources(judged, from),
           walk.hit \in Names(to) \ {walk.origin}, walk.visited \cap Names(through) = {}
    PROVE  Allowed(allow, walk.origin, walk.hit)
<1> DEFINE W == BindFunctions(judged, through)
           C == GuardedWalk(judged, walk.origin, W)
           T == BindTargets(judged, to)
<1>1. W \subseteq Names(through) /\ W \in SUBSET Functions
  BY RunStays DEF BindFunctions, Names
<1>2. walk.visited \cap W = {} /\ walk.origin \notin W
  BY <1>1, RunStays
<1>3. /\ BlindForCone(judged, 0, C) = NotBlind
      /\ \A t \in T : t \in (C \ {walk.origin}) \cup {e.to : e \in Effects(judged, C)}
                         => Allowed(allow, walk.origin, t)
  BY <1>2, GuardedMeans
<1>4. walk.hit \in C \cup {e.to : e \in Effects(judged, C)}
  <2>1. walk.hit \in C \cup {0} \cup {e.to : e \in Effects(judged, C)}
    BY <1>1, <1>2, <1>3, RunStays
  <2>2. walk.hit # 0
    BY RunStays
  <2> QED
    BY <2>1, <2>2
<1>5. C \subseteq {walk.origin} \cup judged.nodes
  BY RunStays, GuardedWalkClosed
<1>6. walk.hit \in T
  <2>1. CASE walk.hit \in C
    BY <1>5, <2>1, Targeted
  <2>2. CASE walk.hit \in {e.to : e \in Effects(judged, C)}
    <3>1. PICK e \in Effects(judged, C) : walk.hit = e.to
      BY <2>2
    <3> QED
      BY <3>1, RunStays, Targeted
  <2> QED
    BY <1>4, <2>1, <2>2
<1> QED
  BY <1>3, <1>4, <1>6

(* What is clean is touched by no goroutine. *)
LEMMA CleanHolds ==
    ASSUME SaidInv, WalkInv, judged # <<>>, walk # <<>>, NEW to,
           EvaluateConcurrent(judged, to).state = "CLEAN", walk.conc
    PROVE  walk.hit \notin Names(to)
<1> SUFFICES ASSUME walk.hit \in Names(to) PROVE FALSE
  OBVIOUS
<1> DEFINE C == ConcCone(judged)
           out == ConcDirect(judged) \cup Effects(judged, C)
           T == BindTargets(judged, to)
<1>1. ConcSeen(judged) /\ C \cap T = {} /\ \A e \in out : e.to \notin T
  BY CleanMeans
<1>2. walk.hit \in C \cup {e.to : e \in out}
  BY <1>1 DEF WalkInv
<1>3. C \subseteq judged.nodes
  BY RunStays, ConcConeClosed
<1>4. CASE walk.hit \in C
  BY <1>1, <1>3, <1>4, Targeted
<1>5. CASE walk.hit \in {e.to : e \in out}
  <2>1. PICK e \in out : walk.hit = e.to
    BY <1>5
  <2>2. e \in Effects(judged, judged.nodes)
    BY RunStays DEF ConcDirect
  <2>3. walk.hit \in T
    BY <2>1, <2>2, Targeted
  <2> QED
    BY <1>1, <2>1, <2>3
<1> QED
  BY <1>2, <1>4, <1>5

(* A rule that reports nothing is a proof (fitness.go, conc.go): whatever  *)
(* the graph, the policy and the run, code that a must_not_reach, a        *)
(* must_pass_through or a no_concurrent_reach rule is silent about does    *)
(* not do what the rule forbids.                                           *)
THEOREM GreenIsProofAlways == FitSpec => []GreenIsProof
<1>1. SaidInv /\ WalkInv => GreenIsProof
  <2> SUFFICES ASSUME SaidInv, WalkInv, judged # <<>>, walk # <<>>
               PROVE  /\ \A i \in DOMAIN under.reach : LET r == under.reach[i] IN
                            /\ Silent("must_not_reach", r) /\ walk.origin \in BindSources(judged, r.from)
                            => walk.hit \notin Names(r.to) \ {walk.origin}
                      /\ \A i \in DOMAIN under.pass : LET r == under.pass[i] IN
                            /\ Silent("must_pass_through", r) /\ walk.origin \in BindSources(judged, r.from)
                            /\ walk.hit \in Names(r.to) \ {walk.origin}
                            => \/ walk.visited \cap Names(r.through) # {}
                               \/ Allowed(r.allow, walk.origin, walk.hit)
                      /\ \A i \in DOMAIN under.conc : LET r == under.conc[i] IN
                            Silent("no_concurrent_reach", r) /\ walk.conc => walk.hit \notin Names(r.to)
    BY DEF GreenIsProof
  <2>1. /\ \A i \in DOMAIN under.reach : under.reach[i].to \subseteq DOMAIN Binds
        /\ \A i \in DOMAIN under.pass : under.pass[i].to \subseteq DOMAIN Binds
    BY FieldsOK DEF SaidInv
  <2>2. ASSUME NEW i \in DOMAIN under.reach,
               Silent("must_not_reach", under.reach[i]), walk.origin \in BindSources(judged, under.reach[i].from)
        PROVE  walk.hit \notin Names(under.reach[i].to) \ {walk.origin}
    <3>1. EvaluateReach(judged, under.reach[i].from, under.reach[i].to).state = "ABSENT"
      BY <2>2, SilentIsEmpty, NoReach
    <3> QED
      BY <2>1, <2>2, <3>1, AbsentHolds
  <2>3. ASSUME NEW i \in DOMAIN under.pass,
               Silent("must_pass_through", under.pass[i]), walk.origin \in BindSources(judged, under.pass[i].from),
               walk.hit \in Names(under.pass[i].to) \ {walk.origin},
               walk.visited \cap Names(under.pass[i].through) = {}
        PROVE  Allowed(under.pass[i].allow, walk.origin, walk.hit)
    <3> DEFINE r == under.pass[i]
    <3>1. EvaluatePassThrough(judged, r.from, r.to, r.through, r.allow).state = "GUARDED"
      BY <2>3, SilentIsEmpty, NoBypass
    <3> QED
      BY <2>1, <2>3, <3>1, GuardedHolds
  <2>4. ASSUME NEW i \in DOMAIN under.conc, Silent("no_concurrent_reach", under.conc[i]), walk.conc
        PROVE  walk.hit \notin Names(under.conc[i].to)
    <3>1. EvaluateConcurrent(judged, under.conc[i].to).state = "CLEAN"
      BY <2>4, SilentIsEmpty, NothingSpawned
    <3> QED
      BY <2>4, <3>1, CleanHolds
  <2> QED
    BY <2>2, <2>3, <2>4
<1> QED
  BY <1>1, SaidIsCheck, WalkStays, PTL

-----------------------------------------------------------------------------
(* What a claim that passes says of the facts it was graded by.            *)
LEMMA PassMeans ==
    ASSUME NEW g, NEW c, Eval(g, c).outcome = "PASS"
    PROVE  /\ c.kind = "reach" /\ c.expect = "absent" => EvaluateReach(g, c.from.of, c.to.of).state = "ABSENT"
           /\ c.kind = "pass_through" =>
                  EvaluatePassThrough(g, c.from.of, c.to.of, c.through.of, {}).state = "GUARDED"
           /\ c.kind = "no_concurrent_reach" => EvaluateConcurrent(g, c.to.of).state = "CLEAN"
           /\ c.kind \in {"reach", "pass_through"} => "to" \in DOMAIN c
<1>1. \A reason, bound : /\ Errored(reason, bound).outcome = "ERROR" /\ Malformed.outcome = "ERROR"
                         /\ Fails(bound).outcome = "FAIL"
  BY DEF Errored, Malformed, Fails, Result
<1>2. ASSUME c.kind = "reach"
      PROVE  "to" \in DOMAIN c /\ (c.expect = "absent" => EvaluateReach(g, c.from.of, c.to.of).state = "ABSENT")
  <2> DEFINE fact == EvaluateReach(g, c.from.of, c.to.of)
             dead == DeadSelectors(g, c.from.of, BindSources) \cup DeadSelectors(g, c.to.of, BindTargets)
             bound == fact.boundFrom \cup fact.boundTo
  <2>1. EvalReach(g, c).outcome = "PASS"
    BY <1>1, <1>2 DEF Eval
  <2>2. EvalReach(g, c) =
          IF ~Has(c, {"from", "to", "expect"}) \/ c.expect \notin {"present", "absent"} THEN Malformed
          ELSE IF dead # {} THEN Errored("UNBOUND_SELECTOR", bound) ELSE GradeReach(c, fact, bound)
    BY DEF EvalReach, Bound
  <2>3. Has(c, {"from", "to", "expect"}) /\ GradeReach(c, fact, bound).outcome = "PASS"
    <3> HIDE DEF fact, dead, bound
    <3> QED
      BY <1>1, <2>1, <2>2
  <2>4. fact.state \in {"UNBOUND", "FOUND", "BLIND", "ABSENT"}
    BY DEF EvaluateReach, ReachFact, ReachRes
  <2>5. c.expect = "absent" => fact.state = "ABSENT"
    <3> HIDE DEF fact, bound
    <3> QED
      BY <1>1, <2>3, <2>4 DEF GradeReach, Graded
  <2> QED
    BY <2>3, <2>5 DEF Has
<1>3. ASSUME c.kind = "pass_through"
      PROVE  /\ "to" \in DOMAIN c
             /\ EvaluatePassThrough(g, c.from.of, c.to.of, c.through.of, {}).state = "GUARDED"
  <2> DEFINE fact == EvaluatePassThrough(g, c.from.of, c.to.of, c.through.of, {})
             dead == DeadSelectors(g, c.from.of, BindSources) \cup DeadSelectors(g, c.to.of, BindTargets)
                       \cup DeadSelectors(g, c.through.of, BindFunctions)
             bound == fact.boundFrom \cup fact.boundTo
             Grade == CASE fact.state = "UNBOUND"  -> Errored("UNBOUND_SELECTOR", bound)
                        [] fact.state = "BYPASSED" -> Fails(bound)
                        [] fact.state = "GUARDED"  -> Passes(bound)
                        [] fact.state = "BLIND"    -> Errored("BLIND_FRONTIER", bound)
  <2>1. EvalPassThrough(g, c).outcome = "PASS"
    BY <1>1, <1>3 DEF Eval
  <2>2. EvalPassThrough(g, c) =
          IF ~Has(c, {"from", "to", "through"}) THEN Malformed
          ELSE IF dead # {} THEN Errored("UNBOUND_SELECTOR", bound) ELSE Grade
    BY DEF EvalPassThrough, Bound
  <2>3. Has(c, {"from", "to", "through"}) /\ Grade.outcome = "PASS"
    <3> HIDE DEF fact, dead, bound, Grade
    <3> QED
      BY <1>1, <2>1, <2>2
  <2>4. fact.state \in {"UNBOUND", "BYPASSED", "GUARDED", "BLIND"}
    BY DEF EvaluatePassThrough, PassFact
  <2>5. fact.state = "GUARDED"
    <3> HIDE DEF fact, bound
    <3> QED
      BY <1>1, <2>3, <2>4
  <2> QED
    BY <2>3, <2>5 DEF Has
<1>4. ASSUME c.kind = "no_concurrent_reach"
      PROVE  EvaluateConcurrent(g, c.to.of).state = "CLEAN"
  <2> DEFINE state == EvaluateConcurrent(g, c.to.of).state
             dead == DeadSelectors(g, c.to.of, BindTargets)
             Grade == CASE state = "UNBOUND" -> Errored("UNBOUND_SELECTOR", {})
                        [] state = "HIT"     -> Fails({})
                        [] state = "CLEAN"   -> Passes({})
                        [] state = "BLIND"   -> Errored("BLIND_FRONTIER", {})
  <2>1. EvalNoConcurrentReach(g, c).outcome = "PASS"
    BY <1>1, <1>4 DEF Eval
  <2>2. EvalNoConcurrentReach(g, c) =
          IF ~Has(c, {"to"}) THEN Malformed
          ELSE IF dead # {} THEN Errored("UNBOUND_SELECTOR", {}) ELSE Grade
    BY DEF EvalNoConcurrentReach, Bound
  <2>3. Grade.outcome = "PASS"
    <3> HIDE DEF state, dead, Grade
    <3> QED
      BY <1>1, <2>1, <2>2
  <2>4. state \in {"UNBOUND", "HIT", "BLIND", "CLEAN"}
    BY DEF EvaluateConcurrent
  <2> HIDE DEF state
  <2>5. state = "CLEAN"
    BY <1>1, <2>3, <2>4
  <2> QED
    BY <2>5 DEF state
<1> QED
  BY <1>2, <1>3, <1>4

(* A claim that passes holds of every run (claims.go): a PASS for an       *)
(* absence, a guard or the goroutines is never the word of a graph that    *)
(* could not see.                                                          *)
THEOREM ClaimsHoldAlways == FitSpec => []ClaimsHold
<1>1. SaidInv /\ WalkInv => ClaimsHold
  <2> SUFFICES ASSUME SaidInv, WalkInv, judged # <<>>, walk # <<>>,
                      NEW i \in DOMAIN graded, graded[i].outcome = "PASS"
               PROVE  LET c == ClaimFile[i] IN
                      CASE c.kind = "no_concurrent_reach" -> walk.conc => walk.hit \notin Names(c.to.of)
                        [] c.kind = "reach" /\ c.expect = "absent" ->
                              walk.origin \in BindSources(judged, c.from.of) =>
                                  walk.hit \notin Names(c.to.of) \ {walk.origin}
                        [] c.kind = "pass_through" ->
                              /\ walk.origin \in BindSources(judged, c.from.of)
                              /\ walk.hit \in Names(c.to.of) \ {walk.origin}
                              => walk.visited \cap Names(c.through.of) # {}
                        [] OTHER -> TRUE
    BY DEF ClaimsHold
  <2> DEFINE c == ClaimFile[i]
  <2>1. i \in DOMAIN ClaimFile /\ Eval(judged, c).outcome = "PASS"
    BY DEF SaidInv, Evaluate
  <2>2. c.kind \in {"reach", "pass_through"} => c.to.of \subseteq DOMAIN Binds
    BY <2>1, PassMeans, FieldsOK
  <2>3. CASE c.kind = "no_concurrent_reach"
    BY <2>1, <2>3, PassMeans, CleanHolds
  <2>4. CASE c.kind = "reach" /\ c.expect = "absent"
    BY <2>1, <2>2, <2>4, PassMeans, AbsentHolds
  <2>5. CASE c.kind = "pass_through"
    <3>1. \A o, t : ~Allowed({}, o, t)
      BY DEF Allowed
    <3> QED
      BY <2>1, <2>2, <2>5, <3>1, PassMeans, GuardedHolds
  <2> HIDE DEF c
  <2> QED
    BY <2>3, <2>4, <2>5 DEF c
<1> QED
  BY <1>1, SaidIsCheck, WalkStays, PTL

-----------------------------------------------------------------------------
(* What the labels of a graph may say of a bus and of an http call.        *)
LabelsClassed ==
    \A l \in Labels :
        /\ LabelOf[l].kind = "bus" => LabelOf[l].op \in {"PUBLISH", "CONSUME"}
        /\ LabelOf[l].kind \notin {"db", "bus"} \cup MethodNamed =>
              LabelOf[l].op \in {"GET", "HEAD", "OPTIONS", "POST", "PUT", "PATCH", "DELETE"}

(* A label that may write is counted as a write or disclosed. *)
LEMMA WritesAreCounted ==
    ASSUME LabelsClassed, NEW l \in Labels, MayWrite(l), ~UnclassifiedDB(l), ~UnclassifiedEffect(l)
    PROVE  IsWrite(l)
<1>1. CASE LabelOf[l].kind \in MethodNamed
  BY <1>1 DEF UnclassifiedEffect
<1>2. CASE LabelOf[l].kind = "db"
  <2>1. LabelOf[l].op \in Mutating
    BY <1>2 DEF UnclassifiedDB, MayWrite
  <2> QED
    BY <1>2, <2>1 DEF IsWrite, MethodNamed
<1>3. CASE LabelOf[l].kind = "bus"
  <2>1. LabelOf[l].op = "PUBLISH"
    BY <1>3 DEF LabelsClassed, MayWrite
  <2> QED
    BY <1>3, <2>1 DEF IsWrite, MethodNamed
<1>4. CASE LabelOf[l].kind \notin {"db", "bus"} \cup MethodNamed
  <2>1. LabelOf[l].op \in {"POST", "PUT", "PATCH", "DELETE"}
    BY <1>4 DEF LabelsClassed, MayWrite
  <2> QED
    BY <1>4, <2>1 DEF IsWrite, MethodNamed
<1> QED
  BY <1>1, <1>2, <1>3, <1>4

(* What a budget that says nothing has proved of a route. *)
LEMMA BudgetKeptTo ==
    ASSUME NEW p, NEW g, p.budget.set, p.budget.max \in Int, CheckIOBudget(p, g) = {}, NEW o \in g.nodes, IsRoute(p, g, o)
    PROVE  LET out == {e.to : e \in Effects(g, {o} \cup Reachable(g, {o}))}
           IN  /\ ~(Cardinality({l \in out : IsWrite(l)}) > p.budget.max)
               /\ \A l \in out : ~UnclassifiedDB(l) /\ ~UnclassifiedEffect(l)
               /\ BlindForCone(g, o, {o} \cup Reachable(g, {o})) = NotBlind
<1> DEFINE R == RouteWrites(p, g)
           cone == {o} \cup Reachable(g, {o})
           out == {e.to : e \in Effects(g, cone)}
           hidden == BlindForCone(g, o, cone) # NotBlind
           w == {l \in out : IsWrite(l)}
           u == {l \in out : UnclassifiedDB(l)}
           v == {l \in out : UnclassifiedEffect(l)}
           Says(routes, what, on) ==
               IF routes = {} THEN {}
               ELSE {Finding("io_budget", "", Caution, Cardinality(routes), 0, what, on)}
           bad == {z \in DOMAIN R : Cardinality(R[z].writes) > p.budget.max}
           odd == {s \in DOMAIN R : R[s].unclassified # {}}
           eff == {s \in DOMAIN R : R[s].effects # {}}
           low == {s \in DOMAIN R : R[s].blind}
           none == IF DOMAIN R = {} THEN Says({0}, "no route", {}) ELSE {}
           over == {Finding("io_budget", "", Violation, s, 0, "over", R[s].writes) : s \in bad}
           oddOn == UNION {R[s].unclassified : s \in DOMAIN R}
           effOn == UNION {R[s].effects : s \in DOMAIN R}
<1>1. CheckIOBudget(p, g) = over \cup none \cup Says(odd, "unclassified", oddOn)
                              \cup Says(eff, "effects", effOn) \cup Says(low, "lower bound", {})
  BY DEF CheckIOBudget
<1>2. bad = {} /\ odd = {} /\ eff = {} /\ low = {}
  <2>1. over = {} /\ Says(odd, "unclassified", oddOn) = {} /\ Says(eff, "effects", effOn) = {}
        /\ Says(low, "lower bound", {}) = {}
    <3> HIDE DEF over, Says, odd, eff, low, none, oddOn, effOn
    <3> QED
      BY <1>1
  <2> HIDE DEF bad, odd, eff, low, R
  <2> QED
    BY <2>1
<1>3. o \in DOMAIN R /\ R[o] = [writes |-> w, blind |-> hidden, unclassified |-> u, effects |-> v]
  BY DEF RouteWrites
<1> HIDE DEF R, w, u, v, hidden
<1>4. R[o].writes = w /\ R[o].unclassified = u /\ R[o].effects = v
  BY <1>3
<1>5. R[o].blind = hidden
  BY <1>3
<1>6. ~R[o].blind
  BY <1>2, <1>3, Zenon
<1>7. ~hidden
  BY <1>5, <1>6, Zenon
<1>8. ~(Cardinality(w) > p.budget.max) /\ u = {} /\ v = {}
  BY <1>2, <1>3, <1>4
<1> QED
  BY <1>7, <1>8 DEF w, u, v, hidden

(* A budget that reports nothing bounds what a route can write             *)
(* (budget.go): of any run that begins in a route, seen or unseen, over    *)
(* labels of the classes the rule reads.                                   *)
THEOREM BudgetBoundsAlways ==
    ASSUME LabelsClassed
    PROVE  FitSpec => []BudgetBounds
<1>1. SaidInv /\ WalkInv => BudgetBounds
  <2> SUFFICES ASSUME SaidInv, WalkInv, judged # <<>>, walk # <<>>, under.budget.set,
                      ~\E f \in said : f.rule = "io_budget", IsRoute(under, judged, walk.origin)
               PROVE  Cardinality(walk.writes) <= under.budget.max
    BY DEF BudgetBounds
  <2> DEFINE g == judged
             o == walk.origin
             C == GuardedWalk(g, o, {})
             out == {e.to : e \in Effects(g, C)}
  <2>1. CheckIOBudget(under, g) = {}
    <3>1. said = Check(under, g)
      BY DEF SaidInv
    <3>2. \A x \in CheckIOBudget(under, g) : x \in said /\ x.rule = "io_budget"
      BY <3>1, RuleOfTheRest DEF Check, OfRule
    <3> QED
      BY <3>2
  <2>2. o \in g.nodes /\ under.budget.max \in Int
    BY FieldsOK DEF IsRoute, SourcesOf, SaidInv
  <2>3. {o} \cup Reachable(g, {o}) = C
    BY ConeIsWalk
  <2>4. /\ ~(Cardinality({l \in out : IsWrite(l)}) > under.budget.max)
        /\ \A l \in out : ~UnclassifiedDB(l) /\ ~UnclassifiedEffect(l)
        /\ BlindForCone(g, o, C) = NotBlind
    BY <2>1, <2>2, <2>3, BudgetKeptTo
  <2>5. BlindForCone(g, 0, C) = NotBlind
    BY <2>4, BlindFromAnywhere
  <2>6. walk.writes \subseteq out /\ \A l \in walk.writes : MayWrite(l)
    <3>1. {} \in SUBSET Functions /\ walk.visited \cap {} = {}
      OBVIOUS
    <3> QED
      BY <2>5, <3>1 DEF WalkInv, Held
  <2>7. out \subseteq Labels
    BY DEF Effects, IsBoundary
  <2>8. walk.writes \subseteq {l \in out : IsWrite(l)}
    BY <2>4, <2>6, <2>7, WritesAreCounted
  <2>9. IsFiniteSet({l \in out : IsWrite(l)})
    BY <2>7, NamesOK, FS_Subset
  <2> HIDE DEF out
  <2>10. Cardinality(walk.writes) <= Cardinality({l \in out : IsWrite(l)}) /\ IsFiniteSet(walk.writes)
    BY <2>8, <2>9, FS_Subset
  <2>11. Cardinality(walk.writes) \in Nat /\ Cardinality({l \in out : IsWrite(l)}) \in Nat
    BY <2>9, <2>10, FS_CardinalityType
  <2> QED
    BY <2>2, <2>4, <2>10, <2>11
<1> QED
  BY <1>1, SaidIsCheck, WalkStays, PTL


=============================================================================
