------------------------------ MODULE FactProofs ------------------------------
(***************************************************************************)
(* Facts about every cone and every rule.  The walk behind a cone          *)
(* (graph.Index.walk) returns a set that is closed under the calls it      *)
(* follows, and the least such set: its layers are a recursive function,   *)
(* which is shown to exist before anything is said of it.  A finding comes *)
(* from the rule it names, and each rule reports exactly what its facts    *)
(* say.                                                                    *)
(***************************************************************************)
EXTENDS Fitness, FiniteSetTheorems, WellFoundedInduction, TLAPS

-----------------------------------------------------------------------------
(* Induction over the numbers, as a fact about sets of them.               *)
Less == {ss \in Nat \X Nat : ss[1] < ss[2]}

(* A nonempty set of numbers has a least element. *)
LEMMA MinIn ==
    ASSUME NEW S \in SUBSET Nat, S # {}
    PROVE  Min(S) \in S /\ \A y \in S : Min(S) <= y
<1>1. IsWellFoundedOn(Less, Nat)
  BY NatLessThanWellFounded DEF OpToRel, Less
<1>2. PICK x \in S : \A y \in S : ~(<<y, x>> \in Less)
  BY <1>1, WFMin
<1>3. ASSUME NEW y \in S PROVE x <= y
  <2>1. <<y, x>> \in Nat \X Nat /\ <<y, x>>[1] = y /\ <<y, x>>[2] = x
    OBVIOUS
  <2>2. ~(y < x)
    BY <1>2, <2>1 DEF Less
  <2> QED
    BY <2>2
<1> QED
  BY <1>3 DEF Min

(* A set of numbers that has 0, and with each number the next, has all. *)
LEMMA Induction ==
    ASSUME NEW S \in SUBSET Nat, 0 \in S, \A n \in S : n + 1 \in S
    PROVE  \A n \in Nat : n \in S
<1> SUFFICES ASSUME Nat \ S # {} PROVE FALSE
  OBVIOUS
<1> DEFINE m == Min(Nat \ S)
<1>1. m \in Nat \ S /\ \A y \in Nat \ S : m <= y
  BY MinIn
<1> HIDE DEF m
<1>2. m # 0 /\ m - 1 \in Nat
  BY <1>1
<1>3. m - 1 \in S
  BY <1>1, <1>2
<1>4. m \in S
  BY <1>1, <1>3
<1> QED
  BY <1>1, <1>4

-----------------------------------------------------------------------------
(* The layers exist.                                                       *)
First(seeds, next) == UNION {next[s] : s \in seeds}

Grow(S, next)      == UNION {{s} \cup next[s] : s \in S}

IsPart(f, n, seeds, next) ==
    f = [i \in 0..n |-> IF i = 0 THEN First(seeds, next) ELSE Grow(f[i - 1], next)]

(* The layers up to any number are a function: the recursion has a         *)
(* solution on every initial segment.                                      *)
LEMMA PartsExist ==
    ASSUME NEW seeds, NEW next
    PROVE  \A n \in Nat : \E f : IsPart(f, n, seeds, next)
<1> DEFINE S == {n \in Nat : \E f : IsPart(f, n, seeds, next)}
<1>1. 0 \in S
  <2>1. IsPart([i \in 0..0 |-> First(seeds, next)], 0, seeds, next)
    BY DEF IsPart
  <2> QED
    BY <2>1
<1>2. ASSUME NEW n \in S PROVE n + 1 \in S
  <2>1. PICK f : IsPart(f, n, seeds, next)
    OBVIOUS
  <2> DEFINE h == [i \in 0..(n + 1) |-> IF i <= n THEN f[i] ELSE Grow(f[n], next)]
  <2>2. n \in Nat
    OBVIOUS
  <2>3. \A i \in 0..n : f[i] = IF i = 0 THEN First(seeds, next) ELSE Grow(f[i - 1], next)
    BY <2>1 DEF IsPart
  <2>4. ASSUME NEW i \in 0..(n + 1)
        PROVE  h[i] = IF i = 0 THEN First(seeds, next) ELSE Grow(h[i - 1], next)
    <3>1. CASE i = 0
      BY <2>2, <2>3, <3>1
    <3>2. CASE i # 0 /\ i <= n
      <4>1. h[i] = f[i] /\ h[i - 1] = f[i - 1]
        BY <2>2, <3>2
      <4> QED
        BY <2>3, <3>2, <4>1
    <3>3. CASE i = n + 1
      <4>1. h[i] = Grow(f[n], next) /\ h[i - 1] = f[n] /\ i # 0
        BY <2>2, <3>3
      <4> QED
        BY <4>1
    <3> QED
      BY <2>2, <3>1, <3>2, <3>3
  <2>5. IsPart(h, n + 1, seeds, next)
    <3> DEFINE k == [i \in 0..(n + 1) |->
                       IF i = 0 THEN First(seeds, next) ELSE Grow(h[i - 1], next)]
    <3>1. \A i \in 0..(n + 1) : h[i] = k[i]
      BY <2>4
    <3>2. h = k
      BY <3>1
    <3> HIDE DEF h
    <3> QED
      BY <3>2 DEF IsPart
  <2> HIDE DEF h
  <2> QED
    BY <2>2, <2>5
<1> HIDE DEF S
<1>3. \A n \in Nat : n \in S
  BY <1>1, <1>2, Induction DEF S
<1> QED
  BY <1>3 DEF S

(* Two such functions agree as far as both go. *)
LEMMA PartsAgree ==
    ASSUME NEW seeds, NEW next, NEW n \in Nat, NEW m \in Nat, n <= m, NEW f, NEW h,
           IsPart(f, n, seeds, next), IsPart(h, m, seeds, next)
    PROVE  \A i \in 0..n : f[i] = h[i]
<1> DEFINE S == {i \in Nat : i <= n => f[i] = h[i]}
<1>1. 0 \in S
  BY DEF IsPart
<1>2. ASSUME NEW i \in S PROVE i + 1 \in S
  <2>1. i \in Nat /\ (i <= n => f[i] = h[i])
    OBVIOUS
  <2>2. ASSUME i + 1 <= n PROVE f[i + 1] = h[i + 1]
    <3>1. i + 1 \in 0..n /\ i + 1 \in 0..m /\ i + 1 # 0 /\ (i + 1) - 1 = i /\ i <= n
      BY <2>1, <2>2
    <3>2. f[i + 1] = Grow(f[i], next)
      BY <3>1 DEF IsPart
    <3>3. h[i + 1] = Grow(h[i], next)
      BY <3>1 DEF IsPart
    <3> QED
      BY <2>1, <3>1, <3>2, <3>3
  <2> QED
    BY <2>1, <2>2
<1> HIDE DEF S
<1>3. \A i \in Nat : i \in S
  BY <1>1, <1>2, Induction DEF S
<1> QED
  BY <1>3 DEF S

(* The layers are what their recursive definition says. *)
LEMMA LayersAre ==
    ASSUME NEW seeds, NEW next
    PROVE  /\ Layers(seeds, next)[0] = First(seeds, next)
           /\ \A n \in Nat : Layers(seeds, next)[n + 1] = Grow(Layers(seeds, next)[n], next)
<1> DEFINE step(L) == [n \in Nat |-> IF n = 0 THEN First(seeds, next) ELSE Grow(L[n - 1], next)]
           part(n) == CHOOSE f : IsPart(f, n, seeds, next)
           w == [n \in Nat |-> part(n)[n]]
<1>1. \A n \in Nat : IsPart(part(n), n, seeds, next)
  BY PartsExist
<1>2. w = step(w)
  <2>1. ASSUME NEW n \in Nat
        PROVE  w[n] = IF n = 0 THEN First(seeds, next) ELSE Grow(w[n - 1], next)
    <3>1. w[n] = part(n)[n] /\ (n # 0 => w[n - 1] = part(n - 1)[n - 1])
      OBVIOUS
    <3> HIDE DEF part, w
    <3>2. part(n)[n] = IF n = 0 THEN First(seeds, next) ELSE Grow(part(n)[n - 1], next)
      <4>1. n \in 0..n
        OBVIOUS
      <4> QED
        BY <1>1, <4>1 DEF IsPart
    <3>3. n # 0 => part(n)[n - 1] = part(n - 1)[n - 1]
      BY <1>1, PartsAgree
    <3> QED
      BY <3>1, <3>2, <3>3
  <2> HIDE DEF w
  <2>2. \A n \in Nat : w[n] = step(w)[n]
    BY <2>1
  <2>3. w = [n \in Nat |-> w[n]]
    BY DEF w
  <2> QED
    BY <2>2, <2>3
<1>3. Layers(seeds, next) = CHOOSE L : L = step(L)
  BY DEF Layers, First, Grow
<1> HIDE DEF step, w
<1>4. Layers(seeds, next) = step(Layers(seeds, next))
  BY <1>2, <1>3
<1>5. \A n \in Nat : n + 1 \in Nat /\ n + 1 # 0 /\ (n + 1) - 1 = n
  OBVIOUS
<1> DEFINE L == Layers(seeds, next)
<1>6. L = [n \in Nat |-> IF n = 0 THEN First(seeds, next) ELSE Grow(L[n - 1], next)]
  BY <1>4 DEF step
<1> HIDE DEF L
<1>7. L[0] = First(seeds, next) /\ \A n \in Nat : L[n + 1] = Grow(L[n], next)
  BY <1>5, <1>6
<1> QED
  BY <1>7 DEF L

-----------------------------------------------------------------------------
(* The walk.  Enough layers are taken for the last two to be one.          *)

(* A set that has the first layer and follows every successor has all of   *)
(* them.                                                                   *)
LEMMA LayersInside ==
    ASSUME NEW seeds, NEW next, NEW C, First(seeds, next) \subseteq C, \A s \in C : next[s] \subseteq C
    PROVE  \A n \in Nat : Layers(seeds, next)[n] \subseteq C
<1> DEFINE L == Layers(seeds, next)
           S == {n \in Nat : L[n] \subseteq C}
<1>1. 0 \in S
  BY LayersAre
<1>2. ASSUME NEW n \in S PROVE n + 1 \in S
  <2>1. L[n + 1] = Grow(L[n], next) /\ n \in Nat
    BY LayersAre
  <2> HIDE DEF L
  <2> QED
    BY <2>1 DEF Grow
<1> HIDE DEF S
<1>3. \A n \in Nat : n \in S
  BY <1>1, <1>2, Induction DEF S
<1> QED
  BY <1>3 DEF S

(* The layers stop growing after as many steps as there are functions:     *)
(* each layer that is not the last adds one.                               *)
LEMMA LayersSettle ==
    ASSUME NEW seeds \in SUBSET Functions, NEW next \in [Functions -> SUBSET Functions]
    PROVE  Layers(seeds, next)[Cardinality(Functions) + 1] = Layers(seeds, next)[Cardinality(Functions)]
<1> DEFINE L == Layers(seeds, next)
           N == Cardinality(Functions)
<1>1. /\ L[0] = First(seeds, next)
      /\ \A n \in Nat : L[n + 1] = Grow(L[n], next)
  BY LayersAre
<1>2. \A n \in Nat : L[n] \subseteq Functions
  <2>1. First(seeds, next) \subseteq Functions
    BY DEF First
  <2> QED
    BY <2>1, LayersInside
<1> HIDE DEF L
<1>3. \A n \in Nat : L[n] \subseteq L[n + 1]
  BY <1>1 DEF Grow
<1>4. \A n \in Nat : IsFiniteSet(L[n]) /\ Cardinality(L[n]) \in Nat
  BY <1>2, NamesOK, FS_Subset, FS_CardinalityType
<1>5. N \in Nat
  BY NamesOK, FS_CardinalityType
<1> DEFINE S == {n \in Nat : L[n + 1] = L[n] \/ Cardinality(L[n]) >= n}
<1>6. 0 \in S
  BY <1>4
<1>7. ASSUME NEW n \in S PROVE n + 1 \in S
  <2>1. n \in Nat /\ n + 1 \in Nat
    OBVIOUS
  <2>2. CASE L[n + 1] = L[n]
    BY <1>1, <2>1, <2>2
  <2>3. CASE L[n + 1] # L[n]
    <3>1. L[n] \subseteq L[n + 1] /\ IsFiniteSet(L[n + 1])
      BY <1>3, <1>4, <2>1
    <3>2. Cardinality(L[n]) <= Cardinality(L[n + 1]) /\ Cardinality(L[n]) # Cardinality(L[n + 1])
      BY <2>3, <3>1, FS_Subset
    <3>3. Cardinality(L[n]) >= n
      BY <2>3
    <3> QED
      BY <1>4, <2>1, <3>2, <3>3
  <2> QED
    BY <2>2, <2>3
<1> HIDE DEF S
<1>8. \A n \in Nat : n \in S
  BY <1>6, <1>7, Induction DEF S
<1>9. CASE L[N + 1] = L[N]
  BY <1>9 DEF L
<1>10. CASE Cardinality(L[N]) >= N
  <2>1. Cardinality(L[N]) <= N /\ Cardinality(L[N]) \in Nat
    BY <1>2, <1>4, <1>5, NamesOK, FS_Subset
  <2>2. Cardinality(L[N]) = N
    BY <1>5, <1>10, <2>1
  <2>3. L[N] = Functions
    BY <1>2, <1>5, <2>2, NamesOK, FS_Subset
  <2>4. N + 1 \in Nat
    BY <1>5
  <2> HIDE DEF N
  <2>5. L[N + 1] = L[N]
    <3>1. L[N + 1] \subseteq Functions
      BY <1>2, <2>4
    <3>2. L[N] \subseteq L[N + 1]
      BY <1>3, <1>5 DEF N
    <3> QED
      BY <2>3, <3>1, <3>2
  <2> QED
    BY <2>5 DEF L, N
<1> QED
  BY <1>5, <1>8, <1>9, <1>10 DEF S

(* The walk returns what is reached: closed under the calls, and no more   *)
(* than any set that is (graph.Index.walk).                                *)
THEOREM ClosureClosed ==
    ASSUME NEW seeds \in SUBSET Functions, NEW next \in [Functions -> SUBSET Functions]
    PROVE  /\ Closure(seeds, next) \subseteq Functions
           /\ \A s \in seeds \cup Closure(seeds, next) : next[s] \subseteq Closure(seeds, next)
<1> DEFINE L == Layers(seeds, next)
           N == Cardinality(Functions)
<1>1. N \in Nat /\ N + 1 \in Nat
  BY NamesOK, FS_CardinalityType
<1>2. L[0] = First(seeds, next) /\ \A n \in Nat : L[n + 1] = Grow(L[n], next)
  BY LayersAre
<1>3. L[N + 1] = L[N]
  BY LayersSettle
<1>4. L[N] \subseteq Functions
  <2>1. First(seeds, next) \subseteq Functions
    BY DEF First
  <2> QED
    BY <1>1, <2>1, LayersInside
<1> HIDE DEF L, N
<1>5. \A s \in L[N] : next[s] \subseteq L[N]
  BY <1>1, <1>2, <1>3 DEF Grow
<1>6. L[0] \subseteq L[N]
  <2> DEFINE S == {n \in Nat : L[0] \subseteq L[n]}
  <2>1. 0 \in S
    OBVIOUS
  <2>2. ASSUME NEW n \in S PROVE n + 1 \in S
    BY <1>2 DEF Grow
  <2> HIDE DEF S
  <2>3. \A n \in Nat : n \in S
    BY <2>1, <2>2, Induction DEF S
  <2> QED
    BY <1>1, <2>3 DEF S
<1>7. \A s \in seeds : next[s] \subseteq L[N]
  BY <1>2, <1>6 DEF First
<1> QED
  BY <1>4, <1>5, <1>7 DEF L, N, Closure

(* The walk returns no more than any set that has the first layer and      *)
(* follows every successor.                                                *)
LEMMA ClosureLeast ==
    ASSUME NEW seeds, NEW next, NEW C, First(seeds, next) \subseteq C, \A s \in C : next[s] \subseteq C
    PROVE  Closure(seeds, next) \subseteq C
<1>1. Cardinality(Functions) \in Nat
  BY NamesOK, FS_CardinalityType
<1> QED
  BY <1>1, LayersInside DEF Closure

-----------------------------------------------------------------------------
(* Walks over the calls of a graph.                                        *)



Named(g) == g.nodes \subseteq Functions

(* A walk stays among the nodes and follows every call. *)
LEMMA WalkClosed ==
    ASSUME NEW g, Named(g), NEW S \in SUBSET g.nodes
    PROVE  /\ WithReached(g, S) \subseteq g.nodes
           /\ S \subseteq WithReached(g, S)
           /\ \A s \in WithReached(g, S) : Callees(g, s) \subseteq WithReached(g, S)
<1> DEFINE next == [f \in Functions |-> Callees(g, f)]
<1>1. \A f : Callees(g, f) \subseteq g.nodes
  BY DEF Callees
<1>2. next \in [Functions -> SUBSET Functions] /\ S \in SUBSET Functions
  BY <1>1 DEF Named
<1>3. /\ Closure(S, next) \subseteq Functions
      /\ \A s \in S \cup Closure(S, next) : next[s] \subseteq Closure(S, next)
  BY <1>2, ClosureClosed
<1>4. First(S, next) \subseteq g.nodes /\ \A s \in g.nodes : next[s] \subseteq g.nodes
  BY <1>1 DEF First, Named
<1>5. Closure(S, next) \subseteq g.nodes
  BY <1>4, ClosureLeast
<1>6. \A s \in S \cup Closure(S, next) : next[s] = Callees(g, s)
  BY <1>3, <1>2
<1> QED
  BY <1>3, <1>5, <1>6 DEF WithReached, Reachable

(* A set that has the seeds and follows every call holds the walk. *)
LEMMA WalkLeast ==
    ASSUME NEW g, Named(g), NEW S, NEW C \in SUBSET g.nodes, S \subseteq C,
           \A s \in C : Callees(g, s) \subseteq C
    PROVE  WithReached(g, S) \subseteq C
<1> DEFINE next == [f \in Functions |-> Callees(g, f)]
<1>1. \A s \in C : next[s] = Callees(g, s)
  BY DEF Named
<1>2. First(S, next) \subseteq C /\ \A s \in C : next[s] \subseteq C
  BY <1>1 DEF First
<1>3. Closure(S, next) \subseteq C
  BY <1>2, ClosureLeast
<1> QED
  BY <1>3 DEF WithReached, Reachable

(* More seeds walk further. *)
LEMMA WalkMore ==
    ASSUME NEW g, Named(g), NEW S, NEW S2 \in SUBSET g.nodes, S \subseteq S2
    PROVE  WithReached(g, S) \subseteq WithReached(g, S2)
BY WalkClosed, WalkLeast

(* What is walked from several seeds is walked from one of them. *)
LEMMA WalkJoined ==
    ASSUME NEW g, Named(g), NEW S \in SUBSET g.nodes
    PROVE  WithReached(g, S) \subseteq UNION {WithReached(g, {s}) : s \in S}
<1> DEFINE Of(s) == WithReached(g, {s})
           C == UNION {Of(s) : s \in S}
<1>1. \A s \in S : Of(s) \subseteq g.nodes /\ s \in Of(s) /\ \A x \in Of(s) : Callees(g, x) \subseteq Of(s)
  BY WalkClosed
<1> HIDE DEF Of
<1>2. C \in SUBSET g.nodes /\ S \subseteq C /\ \A x \in C : Callees(g, x) \subseteq C
  BY <1>1
<1>3. WithReached(g, S) \subseteq C
  BY <1>2, WalkLeast
<1> QED
  BY <1>3 DEF Of

ConcSeeds(g)  == {e.to : e \in {d \in g.edges : d.conc /\ d.to \in g.nodes}}

ConcCone(g)   == ConcSeeds(g) \cup Reachable(g, ConcSeeds(g))

ConcDirect(g) == {e \in Effects(g, g.nodes) : e.conc}

(* The walks are closed under the calls they follow. *)
LEMMA GuardedWalkClosed ==
    ASSUME NEW g, g.nodes \subseteq Functions, NEW s \in Functions, NEW W
    PROVE  /\ s \in GuardedWalk(g, s, W) /\ GuardedWalk(g, s, W) \subseteq {s} \cup g.nodes
           /\ \A f \in GuardedWalk(g, s, W) : Callees(g, f) \ W \subseteq GuardedWalk(g, s, W)
<1> DEFINE next == [f \in Functions |-> Callees(g, f) \ W]
<1>1. next \in [Functions -> SUBSET Functions]
  BY DEF Callees
<1>2. GuardedWalk(g, s, W) = {s} \cup Closure({s}, next)
  BY DEF GuardedWalk
<1>3. \A f \in Functions : next[f] = Callees(g, f) \ W /\ next[f] \subseteq g.nodes
  BY DEF Callees
<1>4. {s} \in SUBSET Functions
  OBVIOUS
<1> HIDE DEF next
<1>5. /\ Closure({s}, next) \subseteq Functions
      /\ \A f \in {s} \cup Closure({s}, next) : next[f] \subseteq Closure({s}, next)
  BY <1>1, <1>4, ClosureClosed
<1>6. Closure({s}, next) \subseteq g.nodes
  <2>1. First({s}, next) \subseteq g.nodes
    BY <1>3 DEF First
  <2>2. \A f \in g.nodes : next[f] \subseteq g.nodes
    BY <1>3
  <2> QED
    BY <2>1, <2>2, ClosureLeast
<1> QED
  BY <1>2, <1>3, <1>5, <1>6

(* What runs concurrently is closed under the calls. *)
LEMMA ConcConeClosed ==
    ASSUME NEW g, g.nodes \subseteq Functions
    PROVE  /\ ConcSeeds(g) \subseteq ConcCone(g) /\ ConcCone(g) \subseteq g.nodes
           /\ \A f \in ConcCone(g) : Callees(g, f) \subseteq ConcCone(g)
<1> DEFINE next == [f \in Functions |-> Callees(g, f)]
           seeds == ConcSeeds(g)
<1>1. next \in [Functions -> SUBSET Functions]
  BY DEF Callees
<1>2. ConcCone(g) = seeds \cup Closure(seeds, next)
  BY DEF ConcCone, Reachable
<1>3. \A f \in Functions : next[f] = Callees(g, f) /\ next[f] \subseteq g.nodes
  BY DEF Callees
<1>4. seeds \in SUBSET Functions /\ seeds \subseteq g.nodes
  BY DEF ConcSeeds
<1> HIDE DEF next, seeds
<1>5. /\ Closure(seeds, next) \subseteq Functions
      /\ \A f \in seeds \cup Closure(seeds, next) : next[f] \subseteq Closure(seeds, next)
  BY <1>1, <1>4, ClosureClosed
<1>6. Closure(seeds, next) \subseteq g.nodes
  <2>1. First(seeds, next) \subseteq g.nodes
    BY <1>3, <1>4 DEF First
  <2>2. \A f \in g.nodes : next[f] \subseteq g.nodes
    BY <1>3
  <2> QED
    BY <2>1, <2>2, ClosureLeast
<1> QED
  BY <1>2, <1>3, <1>4, <1>5, <1>6 DEF seeds

(* A cone is a guarded walk that nothing guards. *)
LEMMA ConeIsWalk ==
    ASSUME NEW g, NEW s
    PROVE  {s} \cup Reachable(g, {s}) = GuardedWalk(g, s, {})
<1>1. [f \in Functions |-> Callees(g, f) \ {}] = [f \in Functions |-> Callees(g, f)]
  OBVIOUS
<1> QED
  BY <1>1 DEF GuardedWalk, Reachable

-----------------------------------------------------------------------------
(* What a rule reports.                                                    *)

(* Which rule a finding is of, and what its key keeps.                     *)
Fields == {"rule", "name", "sev", "from", "to", "what", "on", "strict"}

OfRule(rule, x) == Fields \subseteq DOMAIN x /\ x.rule = rule

(* A finding is of the rule that made it. *)
LEMMA FindingIsOf ==
    ASSUME NEW rule, NEW name, NEW sev, NEW from, NEW to, NEW what, NEW on
    PROVE  OfRule(rule, Finding(rule, name, sev, from, to, what, on))
  BY DEF OfRule, Finding, Fields

(* A finding carries the name of its rule. *)
LEMMA FindingNames ==
    ASSUME NEW rule, NEW name, NEW sev, NEW from, NEW to, NEW what, NEW on
    PROVE  Finding(rule, name, sev, from, to, what, on).name = name
  BY DEF Finding

(* So does an absence that is not proved. *)
LEMMA UnprovenIsOf ==
    ASSUME NEW kind, NEW r, NEW from, NEW what, NEW on
    PROVE  OfRule(kind, Unproven(kind, r, from, what, on)) /\ Unproven(kind, r, from, what, on).name = r.name
  BY DEF OfRule, Unproven, Finding, Fields

(* What must_not_reach reports carries its kind and its name. *)
LEMMA RuleOfReach ==
    ASSUME NEW r, NEW g, NEW x \in CheckMustNotReach(r, g)
    PROVE  OfRule("must_not_reach", x) /\ x.name = r.name
<1> DEFINE fact == EvaluateReach(g, r.from, r.to)
<1>1. CheckMustNotReach(r, g) =
          CASE fact.state = "UNBOUND" ->
                {Unproven("must_not_reach", r, 0,
                          IF fact.boundFrom = {} THEN "inert" ELSE "unbindable", {})}
            [] fact.state = "FOUND" ->
                {Finding("must_not_reach", r.name, Violation, fact.from,
                         fact.path[Len(fact.path)], "reaches", {})}
            [] fact.state = "BLIND" -> {Unproven("must_not_reach", r, fact.from, "blind", {fact.blind.site})}
            [] fact.state = "ABSENT" -> {}
  BY DEF CheckMustNotReach
<1>2. fact.state \in {"UNBOUND", "FOUND", "BLIND", "ABSENT"}
  BY DEF EvaluateReach, ReachFact, ReachRes
<1> HIDE DEF fact
<1> QED
  BY <1>1, <1>2, FindingIsOf, FindingNames, UnprovenIsOf

(* What must_pass_through reports carries its kind and its name. *)
LEMMA RuleOfPass ==
    ASSUME NEW r, NEW g, NEW x \in CheckMustPassThrough(r, g)
    PROVE  OfRule("must_pass_through", x) /\ x.name = r.name
<1> DEFINE fact == EvaluatePassThrough(g, r.from, r.to, r.through, r.allow)
<1>1. CheckMustPassThrough(r, g) =
        IF fact.boundFrom = {} THEN {Unproven("must_pass_through", r, 0, "inert", {})}
        ELSE IF fact.boundTo = {} THEN {Unproven("must_pass_through", r, 0, "unbindable", {})}
        ELSE IF fact.state = "BYPASSED"
        THEN {Finding("must_pass_through", r.name, Violation, b[1], b[2], "bypass", {}) :
                 b \in fact.bypasses}
        ELSE IF fact.state = "BLIND" THEN {Unproven("must_pass_through", r, fact.from, "blind", {fact.blind.site})}
        ELSE {}
  BY DEF CheckMustPassThrough
<1> HIDE DEF fact
<1> QED
  BY <1>1, FindingIsOf, FindingNames, UnprovenIsOf

(* What no_concurrent_reach reports carries its kind and its name. *)
LEMMA RuleOfConcurrent ==
    ASSUME NEW r, NEW g, NEW x \in CheckNoConcurrentReach(r, g)
    PROVE  OfRule("no_concurrent_reach", x) /\ x.name = r.name
<1> DEFINE fact == EvaluateConcurrent(g, r.to)
<1>1. CheckNoConcurrentReach(r, g) =
          CASE fact.state = "UNBOUND" -> {Unproven("no_concurrent_reach", r, 0, "unbindable", {})}
            [] fact.state = "HIT" ->
                {Finding("no_concurrent_reach", r.name, Violation, e[1], e[2], "reachable", {}) :
                   e \in fact.hits}
            [] fact.state = "BLIND" -> {Unproven("no_concurrent_reach", r, 0, "blind", {fact.blind.site})}
            [] fact.state = "CLEAN" -> {}
  BY DEF CheckNoConcurrentReach
<1>2. fact.state \in {"UNBOUND", "HIT", "BLIND", "CLEAN"}
  BY DEF EvaluateConcurrent
<1> HIDE DEF fact
<1> QED
  BY <1>1, <1>2, FindingIsOf, FindingNames, UnprovenIsOf

(* The other rules have one kind each. *)
LEMMA RuleOfTheRest ==
    ASSUME NEW p, NEW g, NEW x
    PROVE  /\ x \in CheckLayering(p, g) => OfRule("layering", x)
           /\ x \in CheckIOBudget(p, g) => OfRule("io_budget", x)
           /\ x \in CheckObligations(g) => OfRule("obligation", x)
           /\ x \in CheckRatchetCoupling(p) => OfRule("ratchet_coupling", x)
<1>1. x \in CheckLayering(p, g) => OfRule("layering", x)
  <2> DEFINE edges == {e \in g.nodes \X g.nodes :
                     /\ ~IsRootPkg(p, e[1]) /\ RankOf(p, e[1]) # 0 /\ e[2] \in EffectiveLayeredCallees(p, g, e[1])
                     /\ RankOf(p, e[2]) \notin {RankOf(p, e[1]), RankOf(p, e[1]) + 1}
                     /\ ~Allowed(p.layerAllow, e[1], e[2])}
             finding(e) == Finding("layering", "", Violation, e[1], e[2], "edge", {})
  <2>1. CheckLayering(p, g) = IF ~p.layered THEN {} ELSE {finding(e) : e \in edges}
    BY DEF CheckLayering
  <2>2. \A e : OfRule("layering", finding(e))
    BY FindingIsOf
  <2> HIDE DEF edges, finding
  <2> QED
    BY <2>1, <2>2
<1>2. x \in CheckIOBudget(p, g) => OfRule("io_budget", x)
  <2> DEFINE Says(routes, what, on) ==
                 IF routes = {} THEN {}
                 ELSE {Finding("io_budget", "", Caution, Cardinality(routes), 0, what, on)}
             R == RouteWrites(p, g)
             bad == {z \in DOMAIN R : Cardinality(R[z].writes) > p.budget.max}
             over == {Finding("io_budget", "", Violation, s, 0, "over", R[s].writes) : s \in bad}
             none == IF DOMAIN R = {} THEN Says({0}, "no route", {}) ELSE {}
             odd == Says({s \in DOMAIN R : R[s].unclassified # {}}, "unclassified",
                         UNION {R[s].unclassified : s \in DOMAIN R})
             eff == Says({s \in DOMAIN R : R[s].effects # {}}, "effects", UNION {R[s].effects : s \in DOMAIN R})
             low == Says({s \in DOMAIN R : R[s].blind}, "lower bound", {})
  <2>1. CheckIOBudget(p, g) = IF p.budget.set THEN over \cup none \cup odd \cup eff \cup low ELSE {}
    BY DEF CheckIOBudget
  <2>2. \A routes, what, on : x \in Says(routes, what, on) => OfRule("io_budget", x)
    BY FindingIsOf
  <2>3. x \in over => OfRule("io_budget", x)
    <3> HIDE DEF bad, R
    <3> QED
      BY FindingIsOf
  <2> HIDE DEF Says, over
  <2>4. x \in none \cup odd \cup eff \cup low => OfRule("io_budget", x)
    BY <2>2, Zenon
  <2> HIDE DEF none, odd, eff, low
  <2> QED
    BY <2>1, <2>3, <2>4
<1>3. x \in CheckObligations(g) => OfRule("obligation", x)
  BY FindingIsOf DEF CheckObligations
<1>4. x \in CheckRatchetCoupling(p) => OfRule("ratchet_coupling", x)
  BY FindingIsOf DEF CheckRatchetCoupling
<1> QED
  BY <1>1, <1>2, <1>3, <1>4

(* Two findings with one key differ in nothing but their severity. *)
LEMMA KeyKeeps ==
    ASSUME NEW x, NEW y, NEW rule, NEW name, NEW from, NEW to, NEW what,
           y = Finding(rule, name, Violation, from, to, what, {}),
           Fields \subseteq DOMAIN x, Key(x) = Key(y)
    PROVE  x.rule = rule /\ x.name = name /\ x.from = from /\ x.to = to /\ x.what = what
<1>1. \A field \in {"rule", "name", "from", "to", "what"} :
          Key(x)[field] = x[field] /\ Key(y)[field] = y[field]
  BY DEF Key, Fields, Finding
<1> QED
  BY <1>1 DEF Finding

(* A finding of the whole check comes from the rule it names. *)
LEMMA FoundByItsRule ==
    ASSUME NEW p, NEW g, NEW x \in Check(p, g)
    PROVE  /\ Fields \subseteq DOMAIN x
           /\ x.rule = "layering" => x \in CheckLayering(p, g)
           /\ x.rule = "must_pass_through" =>
                 \E i \in DOMAIN p.pass : x \in CheckMustPassThrough(p.pass[i], g)
<1>1. CASE x \in CheckLayering(p, g)
  BY <1>1, RuleOfTheRest DEF OfRule
<1>2. CASE x \in UNION {CheckMustNotReach(p.reach[i], g) : i \in DOMAIN p.reach}
  <2>1. OfRule("must_not_reach", x)
    BY <1>2, RuleOfReach
  <2> QED
    BY <2>1 DEF OfRule
<1>3. CASE x \in UNION {CheckMustPassThrough(p.pass[i], g) : i \in DOMAIN p.pass}
  <2>1. PICK i \in DOMAIN p.pass : x \in CheckMustPassThrough(p.pass[i], g)
    BY <1>3
  <2>2. OfRule("must_pass_through", x)
    BY <2>1, RuleOfPass
  <2> QED
    BY <2>1, <2>2 DEF OfRule
<1>4. CASE x \in UNION {CheckNoConcurrentReach(p.conc[i], g) : i \in DOMAIN p.conc}
  <2>1. OfRule("no_concurrent_reach", x)
    BY <1>4, RuleOfConcurrent
  <2> QED
    BY <2>1 DEF OfRule
<1>5. CASE x \in CheckIOBudget(p, g)
  <2>1. OfRule("io_budget", x)
    BY <1>5, RuleOfTheRest
  <2> QED
    BY <2>1 DEF OfRule
<1>6. CASE x \in CheckObligations(g)
  <2>1. OfRule("obligation", x)
    BY <1>6, RuleOfTheRest
  <2> QED
    BY <2>1 DEF OfRule
<1>7. CASE x \in CheckRatchetCoupling(p)
  <2>1. OfRule("ratchet_coupling", x)
    BY <1>7, RuleOfTheRest
  <2> QED
    BY <2>1 DEF OfRule
<1> QED
  BY <1>1, <1>2, <1>3, <1>4, <1>5, <1>6, <1>7 DEF Check

(* The edges the layering rule objects to, but for its exceptions. *)
WrongEdge(p, g, e) ==
    /\ ~IsRootPkg(p, e[1]) /\ RankOf(p, e[1]) # 0 /\ e[2] \in EffectiveLayeredCallees(p, g, e[1])
    /\ RankOf(p, e[2]) \notin {RankOf(p, e[1]), RankOf(p, e[1]) + 1}

EdgeFinding(e) == Finding("layering", "", Violation, e[1], e[2], "edge", {})

(* Layering reports the calls across layers that no entry allows. *)
LEMMA LayeringShape ==
    ASSUME NEW p, NEW g
    PROVE  CheckLayering(p, g) =
             IF ~p.layered THEN {}
             ELSE {EdgeFinding(e) : e \in {x \in g.nodes \X g.nodes :
                                             WrongEdge(p, g, x) /\ ~Allowed(p.layerAllow, x[1], x[2])}}
<1> DEFINE bad(x) == /\ ~IsRootPkg(p, x[1]) /\ RankOf(p, x[1]) # 0 /\ x[2] \in EffectiveLayeredCallees(p, g, x[1])
                     /\ RankOf(p, x[2]) \notin {RankOf(p, x[1]), RankOf(p, x[1]) + 1}
                     /\ ~Allowed(p.layerAllow, x[1], x[2])
           good(x) == WrongEdge(p, g, x) /\ ~Allowed(p.layerAllow, x[1], x[2])
           nodes == g.nodes \X g.nodes
<1>1. \A x : bad(x) <=> good(x)
  BY DEF WrongEdge
<1>2. CheckLayering(p, g) = IF ~p.layered THEN {}
                            ELSE {Finding("layering", "", Violation, e[1], e[2], "edge", {}) : e \in {x \in nodes : bad(x)}}
  BY DEF CheckLayering
<1>3. {x \in nodes : bad(x)} = {x \in nodes : good(x)}
  <2> HIDE DEF bad, good, nodes
  <2> QED
    BY <1>1
<1>4. CheckLayering(p, g) = IF ~p.layered THEN {} ELSE {EdgeFinding(e) : e \in {x \in nodes : bad(x)}}
  <2> HIDE DEF bad, nodes
  <2> QED
    BY <1>2 DEF EdgeFinding
<1> DEFINE layering(S) == IF ~p.layered THEN {} ELSE {EdgeFinding(e) : e \in S}
<1>5. CheckLayering(p, g) = layering({x \in nodes : bad(x)})
  BY <1>4
<1>6. CheckLayering(p, g) = layering({x \in nodes : good(x)})
  <2> HIDE DEF layering, bad, good, nodes
  <2> QED
    BY <1>3, <1>5
<1> QED
  BY <1>6

(* The layers and the roots decide which edges are wrong. *)
LEMMA SameLayers ==
    ASSUME NEW p, NEW q, NEW g, q.layers = p.layers, q.roots = p.roots
    PROVE  \A e : WrongEdge(q, g, e) <=> WrongEdge(p, g, e)
<1>1. \A f : IsRootPkg(q, f) = IsRootPkg(p, f)
  BY DEF IsRootPkg
<1>2. \A pkg : LayerRank(q, pkg) = LayerRank(p, pkg)
  BY DEF LayerRank
<1>3. \A f : RankOf(q, f) = RankOf(p, f)
  BY <1>2 DEF RankOf
<1>4. ASSUME NEW f PROVE EffectiveLayeredCallees(q, g, f) = EffectiveLayeredCallees(p, g, f)
  <2> DEFINE stop(k, x) == IsRootPkg(k, x) \/ RankOf(k, x) # 0
             open(k) == [x \in Functions |-> IF x # f /\ stop(k, x) THEN {} ELSE Callees(g, x)]
             layered(k, x) == ~IsRootPkg(k, x) /\ RankOf(k, x) # 0
  <2>1. \A x : (stop(q, x) <=> stop(p, x)) /\ (layered(q, x) <=> layered(p, x))
    BY <1>1, <1>3
  <2>2. open(q) = open(p)
    <3> HIDE DEF stop
    <3> QED
      BY <2>1
  <2>3. \A k : EffectiveLayeredCallees(k, g, f) = {x \in Closure({f}, open(k)) : layered(k, x)}
    BY DEF EffectiveLayeredCallees
  <2> HIDE DEF open, layered
  <2> QED
    BY <2>1, <2>2, <2>3
<1> QED
  BY <1>1, <1>3, <1>4 DEF WrongEdge

(* The routes around a waypoint, but for the rule's exceptions. *)
Around(g, r, b) ==
    LET F == BindSources(g, r.from)
        T == BindTargets(g, r.to)
        W == BindFunctions(g, r.through)
        open == [s \in F \ W |-> GuardedWalk(g, s, W)]
    IN  b \in (F \ W) \X T /\ b[2] \in (open[b[1]] \ {b[1]}) \cup {e.to : e \in Effects(g, open[b[1]])}

Bypass(r, b) == Finding("must_pass_through", r.name, Violation, b[1], b[2], "bypass", {})

RoutesAround(g, r) ==
    {b \in BindSources(g, r.from) \X BindTargets(g, r.to) : Around(g, r, b) /\ ~Allowed(r.allow, b[1], b[2])}

Unshown(g, r) ==
    LET F == BindSources(g, r.from)
        W == BindFunctions(g, r.through)
        open == [s \in F \ W |-> GuardedWalk(g, s, W)]
        blind == {s \in F \ W : BlindForCone(g, 0, open[s]) # NotBlind}
    IN  IF F = {} THEN {Unproven("must_pass_through", r, 0, "inert", {})}
        ELSE IF BindTargets(g, r.to) = {} THEN {Unproven("must_pass_through", r, 0, "unbindable", {})}
        ELSE IF blind # {}
        THEN {Unproven("must_pass_through", r, Min(blind), "blind", {BlindForCone(g, 0, open[Min(blind)]).site})}
        ELSE {}

(* What must_pass_through says when it finds no way around depends on      *)
(* nothing its allow-list says.                                            *)
LEMMA UnshownSays ==
    ASSUME NEW g, NEW r
    PROVE  /\ \A x \in Unshown(g, r) : x.what \in {"inert", "unbindable", "blind"}
           /\ \A q : /\ q.from = r.from /\ q.to = r.to /\ q.through = r.through
                     /\ q.name = r.name /\ q.proof = r.proof
                     => Unshown(g, q) = Unshown(g, r)
<1> DEFINE F(k) == BindSources(g, k.from)
           W(k) == BindFunctions(g, k.through)
           open(k) == [s \in F(k) \ W(k) |-> GuardedWalk(g, s, W(k))]
           blind(k) == {s \in F(k) \ W(k) : BlindForCone(g, 0, open(k)[s]) # NotBlind}
           first(k) == Min(blind(k))
           site(k) == {BlindForCone(g, 0, open(k)[first(k)]).site}
           say(k, from, what, on) == Unproven("must_pass_through", k, from, what, on)
<1>1. \A k : Unshown(g, k) = IF F(k) = {} THEN {say(k, 0, "inert", {})}
                          ELSE IF BindTargets(g, k.to) = {} THEN {say(k, 0, "unbindable", {})}
                          ELSE IF blind(k) # {} THEN {say(k, first(k), "blind", site(k))} ELSE {}
  BY DEF Unshown
<1>2. \A k, from, what, on : say(k, from, what, on).what = what
  BY DEF Unproven, Finding
<1>3. ASSUME NEW q, q.from = r.from, q.to = r.to, q.through = r.through, q.name = r.name, q.proof = r.proof
      PROVE  Unshown(g, q) = Unshown(g, r)
  <2>1. F(q) = F(r) /\ W(q) = W(r) /\ BindTargets(g, q.to) = BindTargets(g, r.to)
    BY <1>3
  <2>2. open(q) = open(r)
    <3> HIDE DEF F, W
    <3> QED
      BY <2>1
  <2>3. blind(q) = blind(r)
    <3> HIDE DEF F, W, open
    <3> QED
      BY <2>1, <2>2
  <2>4. first(q) = first(r) /\ site(q) = site(r)
    <3> HIDE DEF open, blind
    <3> QED
      BY <2>2, <2>3
  <2>5. \A from, what, on : say(q, from, what, on) = say(r, from, what, on)
    BY <1>3 DEF Unproven
  <2> HIDE DEF F, W, open, blind, first, site, say
  <2> QED
    BY <1>1, <2>1, <2>3, <2>4, <2>5
<1>4. \A x \in Unshown(g, r) : x.what \in {"inert", "unbindable", "blind"}
  <2> HIDE DEF F, blind, first, site, say
  <2> QED
    BY <1>1, <1>2
<1> QED
  BY <1>3, <1>4

(* must_pass_through reports the routes around the waypoint, or why it     *)
(* cannot tell.                                                            *)
LEMMA PassShape ==
    ASSUME NEW g, NEW r
    PROVE  CheckMustPassThrough(r, g) =
             IF BindSources(g, r.from) # {} /\ BindTargets(g, r.to) # {} /\ RoutesAround(g, r) # {}
             THEN {Bypass(r, b) : b \in RoutesAround(g, r)} ELSE Unshown(g, r)
<1> DEFINE F == BindSources(g, r.from)
           T == BindTargets(g, r.to)
           W == BindFunctions(g, r.through)
           open == [s \in F \ W |-> GuardedWalk(g, s, W)]
           fact == PassFact(g, F, T, W, r.allow, open)
           by == Bypasses(g, F, T, W, r.allow, open)
           blind == {s \in F \ W : BlindForCone(g, 0, open[s]) # NotBlind}
           around(S) == {Bypass(r, b) : b \in S}
<1>1. CheckMustPassThrough(r, g) =
        IF fact.boundFrom = {} THEN {Unproven("must_pass_through", r, 0, "inert", {})}
        ELSE IF fact.boundTo = {} THEN {Unproven("must_pass_through", r, 0, "unbindable", {})}
        ELSE IF fact.state = "BYPASSED" THEN around(fact.bypasses)
        ELSE IF fact.state = "BLIND" THEN {Unproven("must_pass_through", r, fact.from, "blind", {fact.blind.site})}
        ELSE {}
  BY DEF CheckMustPassThrough, EvaluatePassThrough, Bypass
<1>2. by = RoutesAround(g, r)
  <2> DEFINE ends(s) == (open[s] \ {s}) \cup {e.to : e \in Effects(g, open[s])}
  <2>1. by = {b \in (F \ W) \X T : b[2] \in ends(b[1]) /\ ~Allowed(r.allow, b[1], b[2])}
    <3> HIDE DEF F, T, W, open
    <3> QED
      BY DEF Bypasses
  <2>2. \A b : Around(g, r, b) <=> b \in (F \ W) \X T /\ b[2] \in ends(b[1])
    BY DEF Around
  <2>3. RoutesAround(g, r) = {b \in F \X T : Around(g, r, b) /\ ~Allowed(r.allow, b[1], b[2])}
    BY DEF RoutesAround
  <2> HIDE DEF F, T, W, ends, by
  <2> QED
    BY <2>1, <2>2, <2>3
<1>3. /\ fact.boundFrom = F /\ fact.boundTo = T
      /\ ~(F = {} \/ T = {}) =>
           /\ by # {} => fact.state = "BYPASSED" /\ fact.bypasses = by
           /\ by = {} /\ blind # {} =>
                 fact.state = "BLIND" /\ fact.from = Min(blind) /\ fact.blind = BlindForCone(g, 0, open[Min(blind)])
           /\ by = {} /\ blind = {} => fact.state = "GUARDED"
  <2> HIDE DEF F, T, W, open
  <2> QED
    BY DEF PassFact
<1>4. Unshown(g, r) =
        IF F = {} THEN {Unproven("must_pass_through", r, 0, "inert", {})}
        ELSE IF T = {} THEN {Unproven("must_pass_through", r, 0, "unbindable", {})}
        ELSE IF blind # {}
        THEN {Unproven("must_pass_through", r, Min(blind), "blind", {BlindForCone(g, 0, open[Min(blind)]).site})}
        ELSE {}
  BY DEF Unshown
<1>5. /\ around(RoutesAround(g, r)) = {Bypass(r, b) : b \in RoutesAround(g, r)}
      /\ F = BindSources(g, r.from) /\ T = BindTargets(g, r.to)
  OBVIOUS
<1> HIDE DEF F, T, W, open, fact, by, blind, around
<1> QED
  BY <1>1, <1>2, <1>3, <1>4, <1>5

(* What the rules say when nothing forbidden is reached.                   *)

Clean(F) == \A x \in F : x.sev # Violation

(* A caution is no violation. *)
LEMMA CautionIsNone ==
    ASSUME NEW rule, NEW name, NEW from, NEW to, NEW what, NEW on
    PROVE  Finding(rule, name, Caution, from, to, what, on).sev # Violation
<1>1. Finding(rule, name, Caution, from, to, what, on).sev = Caution
  BY DEF Finding
<1> QED
  BY <1>1 DEF Caution, Violation

(* A finding of an unproven rule is a caution where no proof is demanded. *)
LEMMA UnprovenIsCaution ==
    ASSUME NEW kind, NEW r, r.proof = FALSE, NEW from, NEW what, NEW on
    PROVE  Unproven(kind, r, from, what, on).sev # Violation
BY DEF Unproven, Finding, Violation, Caution

(* A search that meets no target among the functions and the effects of    *)
(* its cone finds nothing, and one that does finds.                        *)
LEMMA SearchFinds ==
    ASSUME NEW g, NEW s, NEW T
    PROVE  LET C == WithReached(g, {s})
           IN  SearchFrom(g, s, T).found <=>
                  (C \ {s}) \cap T # {} \/ \E e \in Effects(g, C) : e.to \in T
<1> DEFINE C == {s} \cup Reachable(g, {s})
           fns == (C \ {s}) \cap T
           owners == {e.from : e \in {d \in Effects(g, C) : d.to \in T}}
           owner(o) == Append(ShortestPath(g, s, o, {}), Min({e.to : e \in Effects(g, {o})} \cap T))
<1>1. SearchFrom(g, s, T) =
        IF fns # {}
        THEN [found |-> TRUE, path |-> ShortestPath(g, s, Min(fns), {}), blind |-> NotBlind]
        ELSE IF owners # {}
        THEN [found |-> TRUE, path |-> owner(FirstOf(s, owners)), blind |-> NotBlind]
        ELSE [found |-> FALSE, path |-> <<>>, blind |-> BlindForCone(g, s, C)]
  BY DEF SearchFrom
<1>2. SearchFrom(g, s, T).found <=> fns # {} \/ owners # {}
  <2> HIDE DEF fns, owners, owner, C
  <2> QED
    BY <1>1
<1>3. owners # {} <=> \E e \in Effects(g, C) : e.to \in T
  OBVIOUS
<1>4. C = WithReached(g, {s})
  BY DEF WithReached
<1> QED
  BY <1>2, <1>3, <1>4

(* must_not_reach is violated where a bound source's search finds a        *)
(* target, and nowhere else.                                               *)
LEMMA ReachClean ==
    ASSUME NEW g, NEW r, r.proof = FALSE
    PROVE  LET F == BindSources(g, r.from)
               T == BindTargets(g, r.to)
           IN  Clean(CheckMustNotReach(r, g)) <=> \A s \in F : T # {} => ~SearchFrom(g, s, T).found
<1> DEFINE F == BindSources(g, r.from)
           T == BindTargets(g, r.to)
           R == [a \in F |-> SearchFrom(g, a, T)]
           found == {a \in F : R[a].found}
           blind == {a \in F : R[a].blind # NotBlind}
           fact == ReachFact(F, T, R)
<1>1. EvaluateReach(g, r.from, r.to) = fact
  BY DEF EvaluateReach
<1>2. fact = IF F = {} \/ T = {} THEN ReachRes("UNBOUND", 0, F, T, R)
             ELSE IF found # {} THEN ReachRes("FOUND", Min(found), F, T, R)
             ELSE IF blind # {} THEN ReachRes("BLIND", Min(blind), F, T, R)
             ELSE ReachRes("ABSENT", 0, F, T, R)
  BY DEF ReachFact
<1>3. found # {} <=> \E s \in F : SearchFrom(g, s, T).found
  OBVIOUS
<1>4. CheckMustNotReach(r, g) =
          CASE fact.state = "UNBOUND" ->
                {Unproven("must_not_reach", r, 0,
                          IF fact.boundFrom = {} THEN "inert" ELSE "unbindable", {})}
            [] fact.state = "FOUND" ->
                {Finding("must_not_reach", r.name, Violation, fact.from,
                         fact.path[Len(fact.path)], "reaches", {})}
            [] fact.state = "BLIND" -> {Unproven("must_not_reach", r, fact.from, "blind", {fact.blind.site})}
            [] fact.state = "ABSENT" -> {}
  BY <1>1 DEF CheckMustNotReach
<1>5. fact.state = IF F = {} \/ T = {} THEN "UNBOUND" ELSE IF found # {} THEN "FOUND"
                   ELSE IF blind # {} THEN "BLIND" ELSE "ABSENT"
  <2> HIDE DEF F, T, R, found, blind, fact
  <2> QED
    BY <1>2 DEF ReachRes
<1>6. Clean(CheckMustNotReach(r, g)) <=> fact.state # "FOUND"
  <2> HIDE DEF F, T, R, found, blind, fact
  <2>1. CASE fact.state = "FOUND"
    <3> DEFINE x == Finding("must_not_reach", r.name, Violation, fact.from,
                            fact.path[Len(fact.path)], "reaches", {})
    <3>1. x.sev = Violation
      BY DEF Finding
    <3> HIDE DEF x
    <3>2. CheckMustNotReach(r, g) = {x}
      BY <1>4, <2>1 DEF x
    <3> QED
      BY <2>1, <3>1, <3>2 DEF Clean
  <2>2. CASE fact.state # "FOUND"
    BY <1>4, <1>5, <2>2, UnprovenIsCaution DEF Clean
  <2> QED
    BY <2>1, <2>2
<1>7. fact.state # "FOUND" <=> \A s \in F : T # {} => ~SearchFrom(g, s, T).found
  <2> HIDE DEF T, R, found, blind, fact
  <2> QED
    BY <1>3, <1>5
<1> QED
  BY <1>6, <1>7

(* must_pass_through is violated by no route around the waypoint.          *)
LEMMA PassClean ==
    ASSUME NEW g, NEW r, r.proof = FALSE, RoutesAround(g, r) = {}
    PROVE  Clean(CheckMustPassThrough(r, g))
<1>1. CheckMustPassThrough(r, g) = Unshown(g, r)
  BY PassShape
<1>2. \A from, what, on : Unproven("must_pass_through", r, from, what, on).sev # Violation
  BY UnprovenIsCaution
<1> DEFINE say(from, what, on) == Unproven("must_pass_through", r, from, what, on)
           F == BindSources(g, r.from)
           W == BindFunctions(g, r.through)
           open == [s \in F \ W |-> GuardedWalk(g, s, W)]
           blind == {s \in F \ W : BlindForCone(g, 0, open[s]) # NotBlind}
           site == {BlindForCone(g, 0, open[Min(blind)]).site}
<1>3. Unshown(g, r) = IF F = {} THEN {say(0, "inert", {})}
                   ELSE IF BindTargets(g, r.to) = {} THEN {say(0, "unbindable", {})}
                   ELSE IF blind # {} THEN {say(Min(blind), "blind", site)} ELSE {}
  BY DEF Unshown
<1> HIDE DEF F, blind, site
<1> QED
  BY <1>1, <1>2, <1>3 DEF Clean

(* no_concurrent_reach is violated where what runs concurrently has a      *)
(* target, and nowhere else.                                               *)
LEMMA ConcurrentClean ==
    ASSUME NEW g, NEW r, r.proof = FALSE
    PROVE  LET T == BindTargets(g, r.to)
           IN  Clean(CheckNoConcurrentReach(r, g)) <=>
                  /\ ConcCone(g) \cap T = {}
                  /\ \A e \in ConcDirect(g) \cup Effects(g, ConcCone(g)) : e.to \notin T
<1> DEFINE cone   == ConcCone(g)
           direct == ConcDirect(g)
           loose  == {e.from : e \in {d \in direct : IsDynamic(d)}}
           spots  == {b.site : b \in {c \in g.spots : c.kind = "ConcurrentDispatch"}}
           first  == IF cone = {} THEN 0 ELSE Min(cone)
           blind  == IF BlindForCone(g, first, cone) # NotBlind THEN BlindForCone(g, first, cone)
                     ELSE IF loose # {} THEN [site |-> Min(loose), at |-> "boundary"]
                     ELSE IF spots # {} THEN [site |-> Min(spots), at |-> "dispatch"]
                     ELSE NotBlind
           T == BindTargets(g, r.to)
           hits == {<<e.from, e.to>> : e \in {d \in direct \cup Effects(g, cone) : d.to \in T}}
                     \cup {<<0, f>> : f \in cone \cap T}
           fact == [state |-> IF T = {} THEN "UNBOUND" ELSE IF hits # {} THEN "HIT"
                              ELSE IF blind # NotBlind THEN "BLIND" ELSE "CLEAN",
                    hits |-> hits, blind |-> blind]
           hit(h) == Finding("no_concurrent_reach", r.name, Violation, h[1], h[2], "reachable", {})
<1>1. ConcurrentSurface(g) = [direct |-> direct, cone |-> cone, blind |-> blind]
  BY DEF ConcurrentSurface, ConcCone, ConcSeeds, ConcDirect
<1>2. EvaluateConcurrent(g, r.to) = fact
  <2> HIDE DEF cone, direct, blind, T
  <2> QED
    BY <1>1 DEF EvaluateConcurrent, T
<1>3. CheckNoConcurrentReach(r, g) =
          CASE fact.state = "UNBOUND" -> {Unproven("no_concurrent_reach", r, 0, "unbindable", {})}
            [] fact.state = "HIT" -> {hit(h) : h \in fact.hits}
            [] fact.state = "BLIND" -> {Unproven("no_concurrent_reach", r, 0, "blind", {fact.blind.site})}
            [] fact.state = "CLEAN" -> {}
  <2> HIDE DEF fact
  <2> QED
    BY <1>2 DEF CheckNoConcurrentReach
<1>4. /\ fact.state = IF T = {} THEN "UNBOUND" ELSE IF hits # {} THEN "HIT"
                      ELSE IF blind # NotBlind THEN "BLIND" ELSE "CLEAN"
      /\ fact.hits = hits
  <2> HIDE DEF hits, T, blind
  <2> QED
    OBVIOUS
<1>5. Clean(CheckNoConcurrentReach(r, g)) <=> T = {} \/ hits = {}
  <2>1. CASE fact.state = "HIT"
    <3>1. CheckNoConcurrentReach(r, g) = {hit(h) : h \in hits}
      <4> HIDE DEF fact, hits, hit
      <4> QED
        BY <1>3, <1>4, <2>1
    <3>2. \A h : hit(h).sev = Violation
      BY DEF Finding
    <3>3. T # {} /\ hits # {}
      <4> HIDE DEF fact, hits, T, blind
      <4> QED
        BY <1>4, <2>1
    <3> HIDE DEF fact, hits, hit, T
    <3> QED
      BY <3>1, <3>2, <3>3 DEF Clean
  <2>2. CASE fact.state # "HIT"
    <3>1. \A x \in CheckNoConcurrentReach(r, g) : x.sev # Violation
      <4> HIDE DEF fact, hits, T, blind, hit
      <4> QED
        BY <1>3, <1>4, <2>2, UnprovenIsCaution
    <3> HIDE DEF fact, hits, T, blind
    <3> QED
      BY <1>4, <2>2, <3>1 DEF Clean
  <2> QED
    BY <2>1, <2>2
<1>6. hits = {} <=> cone \cap T = {} /\ \A e \in direct \cup Effects(g, cone) : e.to \notin T
  <2> HIDE DEF cone, direct, T
  <2> QED
    OBVIOUS
<1> HIDE DEF hits, cone, direct
<1> QED
  BY <1>5, <1>6 DEF cone, direct

(* What a route can write, as the budget counts it. *)
WritesOf(g, f) == {l \in {e.to : e \in Effects(g, WithReached(g, {f}))} : IsWrite(l)}

(* The budget is violated by a route that writes more, and by nothing else. *)
LEMMA BudgetClean ==
    ASSUME NEW p, NEW g, p.budget.set = TRUE
    PROVE  Clean(CheckIOBudget(p, g)) <=>
              \A f \in g.nodes : IsRoute(p, g, f) => ~(Cardinality(WritesOf(g, f)) > p.budget.max)
<1> DEFINE R == RouteWrites(p, g)
           Says(routes, what, on) ==
               IF routes = {} THEN {}
               ELSE {Finding("io_budget", "", Caution, Cardinality(routes), 0, what, on)}
           bad == {z \in DOMAIN R : Cardinality(R[z].writes) > p.budget.max}
           odd == {s \in DOMAIN R : R[s].unclassified # {}}
           eff == {s \in DOMAIN R : R[s].effects # {}}
           low == {s \in DOMAIN R : R[s].blind}
           none == IF DOMAIN R = {} THEN Says({0}, "no route", {}) ELSE {}
           say(s) == Finding("io_budget", "", Violation, s, 0, "over", R[s].writes)
           over == {say(s) : s \in bad}
           oddOn == UNION {R[s].unclassified : s \in DOMAIN R}
           effOn == UNION {R[s].effects : s \in DOMAIN R}
<1>1. CheckIOBudget(p, g) = over \cup none \cup Says(odd, "unclassified", oddOn)
                              \cup Says(eff, "effects", effOn) \cup Says(low, "lower bound", {})
  BY DEF CheckIOBudget
<1>2. \A routes, what, on : \A x \in Says(routes, what, on) : x.sev # Violation
  BY CautionIsNone
<1>3. \A s : say(s).sev = Violation
  BY DEF Finding
<1>4. Clean(CheckIOBudget(p, g)) <=> bad = {}
  <2>1. \A x \in none : x.sev # Violation
    <3> HIDE DEF Says, R
    <3> QED
      BY <1>2
  <2>2. \A x \in over : x.sev = Violation
    <3> HIDE DEF say, bad
    <3> QED
      BY <1>3
  <2>3. over = {} <=> bad = {}
    <3> HIDE DEF say, bad
    <3> QED
      OBVIOUS
  <2>4. /\ \A x \in Says(odd, "unclassified", oddOn) : x.sev # Violation
        /\ \A x \in Says(eff, "effects", effOn) : x.sev # Violation
        /\ \A x \in Says(low, "lower bound", {}) : x.sev # Violation
    <3> HIDE DEF Says, odd, eff, low, oddOn, effOn
    <3> QED
      BY <1>2
  <2> HIDE DEF Says, over, none, odd, eff, low, oddOn, effOn, bad
  <2> QED
    BY <1>1, <2>1, <2>2, <2>3, <2>4 DEF Clean
<1>5. DOMAIN R = {f \in g.nodes : IsRoute(p, g, f)}
  BY DEF RouteWrites
<1>6. ASSUME NEW f \in g.nodes, IsRoute(p, g, f)
      PROVE  R[f].writes = WritesOf(g, f)
  <2> DEFINE out == {e.to : e \in Effects(g, {f} \cup Reachable(g, {f}))}
             w == {l \in out : IsWrite(l)}
             hidden == BlindForCone(g, f, {f} \cup Reachable(g, {f})) # NotBlind
             u == {l \in out : UnclassifiedDB(l)}
             v == {l \in out : UnclassifiedEffect(l)}
  <2>1. R[f] = [writes |-> w, blind |-> hidden, unclassified |-> u, effects |-> v]
    BY <1>6 DEF RouteWrites
  <2>2. R[f].writes = w
    <3> HIDE DEF R, w, hidden, u, v
    <3> QED
      BY <2>1
  <2> HIDE DEF R
  <2> QED
    BY <2>2 DEF WritesOf, WithReached
<1> HIDE DEF R
<1> QED
  BY <1>4, <1>5, <1>6

(* Nothing of the policy is violated. *)
OnlyObligations(p, g) == \A f \in ViolationsOf(Check(p, g)) : f.rule = "obligation"

(* The violations are of obligations alone when every other rule is clean. *)
LEMMA OnlyObligationsMeans ==
    ASSUME NEW p, NEW g
    PROVE  OnlyObligations(p, g) <=>
              /\ Clean(CheckLayering(p, g))
              /\ \A i \in DOMAIN p.reach : Clean(CheckMustNotReach(p.reach[i], g))
              /\ \A i \in DOMAIN p.pass : Clean(CheckMustPassThrough(p.pass[i], g))
              /\ \A i \in DOMAIN p.conc : Clean(CheckNoConcurrentReach(p.conc[i], g))
              /\ Clean(CheckIOBudget(p, g))
<1> DEFINE coupled == CheckRatchetCoupling(p)
           owed == CheckObligations(g)
<1>1. Clean(coupled)
  BY CautionIsNone DEF CheckRatchetCoupling, Clean
<1>2. /\ \A x \in CheckLayering(p, g) : x.rule = "layering"
      /\ \A x \in CheckIOBudget(p, g) : x.rule = "io_budget"
      /\ \A x \in owed : x.rule = "obligation"
  BY RuleOfTheRest DEF OfRule
<1>3. /\ \A i : \A x \in CheckMustNotReach(p.reach[i], g) : x.rule = "must_not_reach"
      /\ \A i : \A x \in CheckMustPassThrough(p.pass[i], g) : x.rule = "must_pass_through"
      /\ \A i : \A x \in CheckNoConcurrentReach(p.conc[i], g) : x.rule = "no_concurrent_reach"
  BY RuleOfReach, RuleOfPass, RuleOfConcurrent DEF OfRule
<1> DEFINE A == CheckLayering(p, g)
           B == UNION {CheckMustNotReach(p.reach[i], g) : i \in DOMAIN p.reach}
           C == UNION {CheckMustPassThrough(p.pass[i], g) : i \in DOMAIN p.pass}
           D == UNION {CheckNoConcurrentReach(p.conc[i], g) : i \in DOMAIN p.conc}
           E == CheckIOBudget(p, g)
<1>4. Check(p, g) = A \cup B \cup C \cup D \cup E \cup owed \cup coupled
  BY DEF Check
<1>5. /\ \A x \in B : x.rule = "must_not_reach"
      /\ \A x \in C : x.rule = "must_pass_through"
      /\ \A x \in D : x.rule = "no_concurrent_reach"
  BY <1>3
<1>6. /\ Clean(B) <=> \A i \in DOMAIN p.reach : Clean(CheckMustNotReach(p.reach[i], g))
      /\ Clean(C) <=> \A i \in DOMAIN p.pass : Clean(CheckMustPassThrough(p.pass[i], g))
      /\ Clean(D) <=> \A i \in DOMAIN p.conc : Clean(CheckNoConcurrentReach(p.conc[i], g))
  BY DEF Clean
<1>7. OnlyObligations(p, g) <=> Clean(A) /\ Clean(B) /\ Clean(C) /\ Clean(D) /\ Clean(E)
  <2> HIDE DEF A, B, C, D, E, coupled, owed
  <2>1. \A x \in A \cup E : x.rule # "obligation"
    BY <1>2 DEF A, E
  <2> QED
    BY <1>1, <1>2, <1>4, <1>5, <2>1 DEF OnlyObligations, ViolationsOf, Clean
<1> HIDE DEF B, C, D
<1> QED
  BY <1>6, <1>7

=============================================================================
