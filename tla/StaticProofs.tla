----------------------------- MODULE StaticProofs -----------------------------
(***************************************************************************)
(* What the static analyses promise, for every value of their constants.   *)
(*                                                                         *)
(* Taint.  Each report is of the least set of values that has its seeds    *)
(* and is closed under propagation, and NO-FLOW is a proof.                *)
(*                                                                         *)
(* Schema drift.  A query that fails in a database built from the          *)
(* migrations was announced by the check of the release it is from.  The   *)
(* invariant, DriftInv, keeps what the database has tracked by what the    *)
(* replay of the migrations gives (Tracks).                                *)
(*                                                                         *)
(* Building.  What the frontier of a graph promises of --reclaim is kept,  *)
(* and what a request does by calls of first-party code is in the graph or *)
(* disclosed.  The invariants: PromiseInv, that until the first pass the   *)
(* promise is what the graph says; CallsInv, that each frame of such a     *)
(* request is of a function the graph shows.                               *)
(***************************************************************************)
EXTENDS Taint, SchemaDrift, GraphBuild, FactProofs

-----------------------------------------------------------------------------
(* Taint.  Flows and escapes of the uses of a set of values. *)
FlowsOver(p, X)   == UNION {FlowsAt(u) : u \in UsesOf(p, X)}
EscapesOver(p, X) == UNION {EscapesAt(p, u) : u \in UsesOf(p, X)}

-----------------------------------------------------------------------------
(* The least set.                                                          *)

(* What a use of a value taints is a value of the program. *)
LEMMA IntoValues ==
    ASSUME NEW p \in TaintPrograms, NEW u \in UsesOf(p, p.vals)
    PROVE  FlowsInto(p, u) \subseteq p.vals
<1>1. PICK v \in p.vals : u \in p.uses[v]
  BY DEF UsesOf
<1>2. \/ u.op = "move" /\ u.to \in p.vals
      \/ u.op = "field" /\ p.loads[u.key] \cup {u.base} \subseteq p.vals
      \/ u.op = "return" /\ p.results[u.at] \subseteq p.vals
      \/ u.op = "call" /\ \A c \in u.callees : c.kind = "param" => c.val \in p.vals
      \/ u.op = "opaque"
  BY <1>1, TaintProgramsOK
<1> QED
  BY <1>2 DEF FlowsInto

(* The seeds of a set of sources are values of the program. *)
LEMMA SeedsAreValues ==
    ASSUME NEW p \in TaintPrograms, NEW S \in SUBSET Sources
    PROVE  Seeds(p, S) \subseteq p.vals
<1>1. \A s \in Sources : p.seed[s] \cup (UNION {p.loads[k] : k \in p.seedFields[s]}) \subseteq p.vals
  BY TaintProgramsOK
<1> QED
  BY <1>1 DEF Seeds

(* A larger set has more uses. *)
LEMMA MoreUses ==
    ASSUME NEW p, NEW X, NEW Y, X \subseteq Y
    PROVE  UsesOf(p, X) \subseteq UsesOf(p, Y)
BY DEF UsesOf

(* A set of values that has the seeds and is closed contains the least.    *)
LEMMA LeastIsLeast ==
    ASSUME NEW p, NEW S, NEW X \in SUBSET p.vals, Seeds(p, S) \subseteq X, ClosedUnder(p, X)
    PROVE  Least(p, S) \subseteq X
BY DEF Least

(* The least set has the seeds and is closed itself. *)
LEMMA LeastIsClosed ==
    ASSUME NEW p \in TaintPrograms, NEW S \in SUBSET Sources
    PROVE  /\ Least(p, S) \in SUBSET p.vals
           /\ Seeds(p, S) \subseteq Least(p, S)
           /\ ClosedUnder(p, Least(p, S))
<1> DEFINE L == Least(p, S)
<1>1. L \in SUBSET p.vals
  BY DEF Least
<1>2. Seeds(p, S) \subseteq L
  BY SeedsAreValues DEF Least
<1>3. ASSUME NEW u \in UsesOf(p, L), NEW x \in FlowsInto(p, u) PROVE x \in L
  <2>1. x \in p.vals
    BY <1>1, <1>3, IntoValues, MoreUses
  <2>2. ASSUME NEW X \in SUBSET p.vals, Seeds(p, S) \subseteq X, ClosedUnder(p, X) PROVE x \in X
    <3>1. L \subseteq X
      BY <2>2, LeastIsLeast
    <3>2. u \in UsesOf(p, X)
      BY <3>1, <1>3, MoreUses
    <3> QED
      BY <3>2, <2>2, <1>3 DEF ClosedUnder
  <2> QED
    BY <2>1, <2>2 DEF Least
<1> QED
  BY <1>1, <1>2, <1>3 DEF ClosedUnder

(* The least set of all sources is that of each one, taken together: the   *)
(* seeds are, and sets that are closed are closed together.                *)
LEMMA LeastIsJoined ==
    ASSUME NEW p \in TaintPrograms
    PROVE  Least(p, Sources) = UNION {Least(p, {s}) : s \in Sources}
<1> DEFINE Of(s) == Least(p, {s})
           All   == UNION {Of(s) : s \in Sources}
<1>1. \A s \in Sources : Of(s) \in SUBSET p.vals /\ Seeds(p, {s}) \subseteq Of(s) /\ ClosedUnder(p, Of(s))
  BY LeastIsClosed
<1>2. Least(p, Sources) \subseteq All
  <2>1. Seeds(p, Sources) \subseteq All
    <3>1. \A x \in Seeds(p, Sources) : \E s \in Sources : x \in Seeds(p, {s})
      BY DEF Seeds
    <3> QED
      BY <3>1, <1>1
  <2>2. ClosedUnder(p, All)
    <3> SUFFICES ASSUME NEW u \in UsesOf(p, All) PROVE FlowsInto(p, u) \subseteq All
      BY DEF ClosedUnder
    <3>1. PICK v \in All : u \in p.uses[v]
      BY DEF UsesOf
    <3>2. PICK s \in Sources : v \in Of(s)
      BY <3>1
    <3>3. u \in UsesOf(p, Of(s))
      BY <3>1, <3>2 DEF UsesOf
    <3>4. FlowsInto(p, u) \subseteq Of(s)
      BY <3>3, <1>1 DEF ClosedUnder
    <3> QED
      BY <3>4
  <2>3. All \in SUBSET p.vals
    BY <1>1
  <2> QED
    BY <2>1, <2>2, <2>3, LeastIsLeast
<1>3. ASSUME NEW s \in Sources PROVE Of(s) \subseteq Least(p, Sources)
  <2>1. Seeds(p, {s}) \subseteq Seeds(p, Sources)
    BY <1>3 DEF Seeds
  <2> QED
    BY <2>1, LeastIsClosed, LeastIsLeast
<1> QED
  BY <1>2, <1>3

-----------------------------------------------------------------------------
(* The invariant: what the worklist no longer holds has been followed.     *)

(* The current run has found what the followed values show, and tainted no *)
(* value without cause.                                                    *)
Followed ==
    LET done == tainted \ worklist
    IN  /\ Seeds(program, scope) \subseteq tainted
        /\ tainted \subseteq Least(program, scope)
        /\ worklist \subseteq tainted
        /\ \A u \in UsesOf(program, done) : FlowsInto(program, u) \subseteq tainted
        /\ flows = FlowsOver(program, done)
        /\ escapes = EscapesOver(program, done)

Reported(S) ==
    /\ reports[S].flows = FlowsOver(program, Least(program, S))
    /\ reports[S].escapes = EscapesOver(program, Least(program, S))

TaintInv ==
    /\ program = NotLoaded => scope = {} /\ DOMAIN reports = {}
    /\ program # NotLoaded => program \in TaintPrograms
    /\ scope \subseteq Sources
    /\ scope # {} => Followed
    /\ \A S \in DOMAIN reports : S \subseteq Sources /\ Reported(S)

(* A run begins with nothing followed. *)
LEMMA BeginKeeps ==
    ASSUME TaintInv, NEW S \in SUBSET Sources, BeginTaint(S)
    PROVE  TaintInv'
<1> USE DEF BeginTaint, Due
<1>1. program' = program /\ reports' = reports /\ scope' = S
  OBVIOUS
<1>2. program \in TaintPrograms
  BY DEF TaintInv
<1>3. Followed'
  <2>1. tainted' \ worklist' = {}
    OBVIOUS
  <2>2. UsesOf(program, {}) = {}
    BY DEF UsesOf
  <2>3. FlowsOver(program, {}) = {} /\ EscapesOver(program, {}) = {}
    BY <2>2 DEF FlowsOver, EscapesOver
  <2> QED
    BY <1>1, <1>2, <2>1, <2>2, <2>3, LeastIsClosed DEF Followed
<1> QED
  BY <1>1, <1>2, <1>3 DEF TaintInv, Reported

(* Following one value: its uses join those followed, and what they taint  *)
(* is in every closed set that holds the value.                            *)
LEMMA PropagateKeeps ==
    ASSUME TaintInv, NEW v, Propagate(v)
    PROVE  TaintInv'
<1> DEFINE T    == UNION {FlowsInto(program, u) : u \in program.uses[v]}
           done == tainted \ worklist
           L    == Least(program, scope)
<1>1. /\ program' = program /\ scope' = scope /\ reports' = reports
      /\ scope # {} /\ v \in worklist
      /\ tainted' = tainted \cup T
      /\ worklist' = (worklist \ {v}) \cup (T \ tainted)
      /\ flows' = flows \cup UNION {FlowsAt(u) : u \in program.uses[v]}
      /\ escapes' = escapes \cup UNION {EscapesAt(program, u) : u \in program.uses[v]}
  BY DEF Propagate, Fresh
<1>2. program \in TaintPrograms /\ scope \in SUBSET Sources /\ Followed
  BY <1>1 DEF TaintInv
<1>3. v \in tainted /\ v \in L /\ worklist \subseteq tainted /\ tainted \subseteq L
  BY <1>1, <1>2 DEF Followed
<1>4. T \subseteq L
  <2>1. program.uses[v] \subseteq UsesOf(program, L)
    BY <1>3 DEF UsesOf
  <2> QED
    BY <2>1, <1>2, LeastIsClosed DEF ClosedUnder
<1>5. tainted' \ worklist' = done \cup {v}
  BY <1>1, <1>3
<1>6. UsesOf(program, done \cup {v}) = UsesOf(program, done) \cup program.uses[v]
  BY DEF UsesOf
<1>7. Followed'
  <2>1. Seeds(program, scope) \subseteq tainted' /\ tainted' \subseteq L /\ worklist' \subseteq tainted'
    BY <1>1, <1>2, <1>3, <1>4 DEF Followed
  <2>2. \A u \in UsesOf(program, done \cup {v}) : FlowsInto(program, u) \subseteq tainted'
    BY <1>1, <1>2, <1>6 DEF Followed
  <2>3. flows' = FlowsOver(program, done \cup {v})
    BY <1>1, <1>2, <1>6 DEF Followed, FlowsOver
  <2>4. escapes' = EscapesOver(program, done \cup {v})
    BY <1>1, <1>2, <1>6 DEF Followed, EscapesOver
  <2> QED
    BY <1>1, <1>5, <2>1, <2>2, <2>3, <2>4 DEF Followed
<1> QED
  BY <1>1, <1>2, <1>7 DEF TaintInv, Reported

(* A run that has followed everything has tainted the least set. *)
LEMMA FinishKeeps ==
    ASSUME TaintInv, Finish
    PROVE  TaintInv'
<1> DEFINE L == Least(program, scope)
<1>1. /\ program' = program /\ scope # {} /\ worklist = {} /\ scope' = {}
      /\ DOMAIN reports' = DOMAIN reports \cup {scope}
      /\ reports'[scope].flows = flows /\ reports'[scope].escapes = escapes
      /\ \A S \in DOMAIN reports : S # scope => reports'[S] = reports[S]
  BY DEF Finish
<1>2. program \in TaintPrograms /\ program # NotLoaded /\ scope \in SUBSET Sources /\ Followed
  BY <1>1 DEF TaintInv
<1>3. tainted \ worklist = tainted
  BY <1>1
<1>4. tainted = L
  <2>1. tainted \in SUBSET program.vals
    BY <1>2, LeastIsClosed DEF Followed
  <2>2. ClosedUnder(program, tainted)
    BY <1>2, <1>3 DEF Followed, ClosedUnder
  <2> QED
    BY <1>2, <2>1, <2>2, LeastIsLeast DEF Followed
<1>5. /\ reports'[scope].flows = FlowsOver(program, L)
      /\ reports'[scope].escapes = EscapesOver(program, L)
  BY <1>1, <1>2, <1>3, <1>4 DEF Followed
<1>6. ASSUME NEW S \in DOMAIN reports' PROVE S \subseteq Sources /\ Reported(S)'
  <2>1. CASE S = scope
    BY <2>1, <1>1, <1>2, <1>5 DEF Reported
  <2>2. CASE S # scope
    BY <2>2, <1>1, <1>6 DEF TaintInv, Reported
  <2> QED
    BY <2>1, <2>2
<1> QED
  BY <1>1, <1>2, <1>6 DEF TaintInv

(* The invariant holds of every behaviour. *)
LEMMA TaintInvHolds == TaintSpec => []TaintInv
<1>1. TaintInit => TaintInv
  BY DEF TaintInit, TaintInv
<1>2. TaintInv /\ [TaintNext]_taintVars => TaintInv'
  <2> SUFFICES ASSUME TaintInv, [TaintNext]_taintVars PROVE TaintInv'
    OBVIOUS
  <2>1. ASSUME NEW p \in TaintPrograms, Prepare(p) PROVE TaintInv'
    BY <2>1 DEF Prepare, TaintInv
  <2>2. ASSUME NEW S \in SUBSET Sources, BeginTaint(S) PROVE TaintInv'
    BY <2>2, BeginKeeps
  <2>3. ASSUME NEW v \in program.vals, Propagate(v) PROVE TaintInv'
    BY <2>3, PropagateKeeps
  <2>4. CASE Finish
    BY <2>4, FinishKeeps
  <2>5. CASE UNCHANGED taintVars
    BY <2>5 DEF taintVars, TaintInv, Followed, Reported
  <2> QED
    BY <2>1, <2>2, <2>3, <2>4, <2>5 DEF TaintNext
<1> QED
  BY <1>1, <1>2, PTL DEF TaintSpec

-----------------------------------------------------------------------------
(* Every report is that of the least set, in whatever order the worklist   *)
(* was followed, and the reports by source add up to the aggregate.        *)
THEOREM ReportsRightAlways == TaintSpec => []ReportsRight
<1>1. TaintInv => ReportsRight
  <2> SUFFICES ASSUME TaintInv PROVE ReportsRight
    OBVIOUS
  <2>1. \A S \in DOMAIN reports : Reported(S)
    BY DEF TaintInv
  <2>2. ASSUME DOMAIN reports = {Sources} \cup {{s} : s \in Sources}
        PROVE  /\ reports[Sources].flows = UNION {reports[{s}].flows : s \in Sources}
               /\ reports[Sources].escapes = UNION {reports[{s}].escapes : s \in Sources}
    <3> DEFINE Of(s) == Least(program, {s})
    <3>1. program \in TaintPrograms
      BY <2>2 DEF TaintInv
    <3>2. Least(program, Sources) = UNION {Of(s) : s \in Sources}
      BY <3>1, LeastIsJoined DEF Of
    <3> HIDE DEF Of
    <3>3. ASSUME NEW u PROVE u \in UsesOf(program, Least(program, Sources)) <=>
                             \E s \in Sources : u \in UsesOf(program, Of(s))
      BY <3>2 DEF UsesOf
    <3>4. \A s \in Sources : /\ reports[{s}].flows = FlowsOver(program, Of(s))
                             /\ reports[{s}].escapes = EscapesOver(program, Of(s))
      BY <2>1, <2>2 DEF Reported, Of
    <3>5. /\ reports[Sources].flows = FlowsOver(program, Least(program, Sources))
          /\ reports[Sources].escapes = EscapesOver(program, Least(program, Sources))
      BY <2>1, <2>2 DEF Reported
    <3>6. FlowsOver(program, Least(program, Sources)) = UNION {FlowsOver(program, Of(s)) : s \in Sources}
      BY <3>3 DEF FlowsOver
    <3>7. EscapesOver(program, Least(program, Sources)) = UNION {EscapesOver(program, Of(s)) : s \in Sources}
      BY <3>3 DEF EscapesOver
    <3> QED
      BY <3>4, <3>5, <3>6, <3>7
  <2> QED
    BY <2>1, <2>2 DEF ReportsRight, Reported, FlowsOver, EscapesOver
<1> QED
  BY <1>1, TaintInvHolds, PTL

(* Where nothing of the least set escapes, a value moves only as the       *)
(* analysis follows it.                                                    *)
LEMMA NothingBeyond ==
    ASSUME NEW p \in TaintPrograms, NEW S \in SUBSET Sources,
           ReturnsInSight(p), EscapesOver(p, Least(p, S)) = {}
    PROVE  RealLeast(p, S) \subseteq Least(p, S)
<1> DEFINE L == Least(p, S)
<1>1. ASSUME NEW u \in UsesOf(p, L) PROVE Moves(p, u) \subseteq L
  <2>1. EscapesAt(p, u) = {}
    BY DEF EscapesOver
  <2>2. ~Lost(u) /\ ~(u.op = "return" /\ u.at \notin p.called)
    BY <2>1 DEF EscapesAt
  <2>3. Moves(p, u) = FlowsInto(p, u)
    BY <2>2 DEF Moves, ReturnsInSight
  <2> QED
    BY <2>3, LeastIsClosed DEF ClosedUnder
<1>2. RealClosed(p, L)
  BY <1>1 DEF RealClosed
<1> QED
  BY <1>2, LeastIsClosed DEF RealLeast

(* NO-FLOW is a proof, for every program in which a return that foreign    *)
(* code takes is taken by nobody else.                                     *)
THEOREM NoFlowIsProof == TaintSpec => []NoFalseNoFlow
<1>1. TaintInv => NoFalseNoFlow
  <2> SUFFICES ASSUME TaintInv, NEW S \in DOMAIN reports, NEW k \in Sinks,
                      ReturnsInSight(program), SinkReport(reports[S], k).verdict = "NO-FLOW",
                      NEW u \in UsesOf(program, RealLeast(program, S)), NEW f \in FlowsAt(u), f[1] = k
               PROVE  FALSE
    BY DEF NoFalseNoFlow
  <2>1. program \in TaintPrograms /\ S \in SUBSET Sources /\ Reported(S)
    BY DEF TaintInv
  <2>2. {g \in reports[S].flows : g[1] = k} = {} /\ reports[S].escapes = {}
    BY DEF SinkReport, Verdict
  <2>3. RealLeast(program, S) \subseteq Least(program, S)
    BY <2>1, <2>2, NothingBeyond DEF Reported
  <2>4. f \in FlowsOver(program, Least(program, S))
    BY <2>3, MoreUses DEF FlowsOver
  <2> QED
    BY <2>1, <2>2, <2>4 DEF Reported
<1> QED
  BY <1>1, TaintInvHolds, PTL

-----------------------------------------------------------------------------
(* Schema drift.  Recursion over a bounded number of steps.                *)

Solution(f, N, V, a, step) == f \in [0..N -> V] /\ f[0] = a /\ \A n \in 1..N : f[n] = step[n][f[n - 1]]

(* A recursion of N steps over a set has a solution. *)
LEMMA StepsExist ==
    ASSUME NEW N \in Nat, NEW V, NEW a \in V, NEW step \in [1..N -> [V -> V]]
    PROVE  \E f : Solution(f, N, V, a, step)
<1> DEFINE Solves(f, k) == f \in [0..k -> V] /\ f[0] = a /\ \A n \in 1..k : f[n] = step[n][f[n - 1]]
           S == {k \in Nat : k <= N => \E f : Solves(f, k)}
<1>1. 0 \in S
  <2>1. Solves([i \in 0..0 |-> a], 0)
    OBVIOUS
  <2> QED
    BY <2>1
<1>2. ASSUME NEW k \in S PROVE k + 1 \in S
  <2>1. k \in Nat
    OBVIOUS
  <2> SUFFICES ASSUME k + 1 <= N PROVE \E f : Solves(f, k + 1)
    BY <2>1
  <2>2. PICK f : Solves(f, k)
    BY <2>1
  <2> DEFINE h == [i \in 0..k + 1 |-> IF i <= k THEN f[i] ELSE step[k + 1][f[k]]]
  <2>3. k + 1 \in 1..N /\ f[k] \in V
    BY <2>1, <2>2
  <2>4. step[k + 1][f[k]] \in V
    BY <2>3
  <2>5. h \in [0..k + 1 -> V] /\ h[0] = a
    BY <2>1, <2>2, <2>4
  <2>6. ASSUME NEW n \in 1..k + 1 PROVE h[n] = step[n][h[n - 1]]
    <3>1. CASE n <= k
      <4>1. h[n] = f[n] /\ h[n - 1] = f[n - 1] /\ n \in 1..k
        BY <2>1, <3>1
      <4> QED
        BY <2>2, <4>1
    <3>2. CASE n = k + 1
      BY <2>1, <3>2
    <3> QED
      BY <2>1, <3>1, <3>2
  <2> HIDE DEF h
  <2> QED
    BY <2>5, <2>6
<1> HIDE DEF S, Solves
<1>3. N \in S
  BY <1>1, <1>2, Induction DEF S
<1>4. PICK f : Solves(f, N)
  BY <1>3 DEF S
<1> QED
  BY <1>4 DEF Solves, Solution

-----------------------------------------------------------------------------
(* The replay of a file, beside its execution.                             *)

(* A file is scanned statement by statement. *)
LEMMA ScanDDLIs ==
    ASSUME NEW D, NEW sql, Len(sql) \in Nat
    PROVE  /\ ScanDDL(D, sql)[0] = D
           /\ \A i \in 1..Len(sql) : ScanDDL(D, sql)[i] =
                  IF StripSQL(sql[i]) THEN ScanStatement(ScanDDL(D, sql)[i - 1], sql[i]) ELSE ScanDDL(D, sql)[i - 1]
<1> DEFINE N == Len(sql)
           U == D \cup {CleanName(sql[i].tables[1]) : i \in 1..N}
           V == SUBSET U
           scan(X, i) == IF StripSQL(sql[i]) THEN ScanStatement(X, sql[i]) ELSE X
           step == [i \in 1..N |-> [X \in V |-> scan(X, i)]]
           body(f) == [i \in 0..N |-> IF i = 0 THEN D ELSE scan(f[i - 1], i)]
<1>1. \A i \in 1..N, X \in V : scan(X, i) \in V
  BY DEF ScanStatement
<1>2. D \in V
  OBVIOUS
<1> HIDE DEF V
<1>3. step \in [1..N -> [V -> V]]
  <2> HIDE DEF scan
  <2> QED
    BY <1>1
<1>4. PICK f : Solution(f, N, V, D, step)
  <2>1. N \in Nat
    OBVIOUS
  <2> HIDE DEF step, N
  <2> QED
    BY <1>2, <1>3, <2>1, StepsExist
<1> HIDE DEF scan
<1>5. \A n \in 1..N : f[n] = scan(f[n - 1], n)
  <2>1. \A n \in 1..N : n - 1 \in 0..N
    OBVIOUS
  <2>2. \A n \in 1..N : f[n - 1] \in V /\ f[n] = step[n][f[n - 1]]
    BY <1>4, <2>1 DEF Solution
  <2> HIDE DEF N
  <2> QED
    BY <2>2
<1>6. f = body(f)
  BY <1>4, <1>5 DEF Solution
<1>7. ScanDDL(D, sql) = CHOOSE g : g = body(g)
  BY DEF ScanDDL, scan
<1> HIDE DEF body
<1>8. ScanDDL(D, sql) = body(ScanDDL(D, sql))
  BY <1>6, <1>7
<1>9. \A i \in 1..N : i \in 0..N /\ i # 0
  OBVIOUS
<1> DEFINE R == ScanDDL(D, sql)
<1>10. R = [i \in 0..N |-> IF i = 0 THEN D ELSE scan(R[i - 1], i)]
  BY <1>8 DEF body
<1> HIDE DEF R
<1>11. R[0] = D /\ \A i \in 1..N : R[i] = scan(R[i - 1], i)
  BY <1>9, <1>10
<1> QED
  BY <1>11 DEF R, scan

(* And executed statement by statement. *)
LEMMA ExecuteAllIs ==
    ASSUME NEW D, NEW sql, Len(sql) \in Nat
    PROVE  /\ ExecuteAll(D, sql)[0] = D
           /\ \A i \in 1..Len(sql) : ExecuteAll(D, sql)[i] = Execute(ExecuteAll(D, sql)[i - 1], sql[i])
<1> DEFINE N == Len(sql)
           U == D \cup UNION {{sql[i].tables[1], sql[i].tables[2]} : i \in 1..N}
           V == SUBSET U
           step == [i \in 1..N |-> [X \in V |-> Execute(X, sql[i])]]
           body(f) == [i \in 0..N |-> IF i = 0 THEN D ELSE Execute(f[i - 1], sql[i])]
<1>1. \A i \in 1..N, X \in V : Execute(X, sql[i]) \in V
  <2> SUFFICES ASSUME NEW i \in 1..N, NEW X \in V PROVE Execute(X, sql[i]) \in V
    OBVIOUS
  <2>1. sql[i].tables[1] \in U /\ sql[i].tables[2] \in U
    OBVIOUS
  <2> QED
    BY <2>1 DEF Execute
<1>2. D \in V
  OBVIOUS
<1> HIDE DEF V
<1>3. step \in [1..N -> [V -> V]]
  BY <1>1
<1>4. PICK f : Solution(f, N, V, D, step)
  <2>1. N \in Nat
    OBVIOUS
  <2> HIDE DEF step, N
  <2> QED
    BY <1>2, <1>3, <2>1, StepsExist
<1>5. \A n \in 1..N : f[n] = Execute(f[n - 1], sql[n])
  <2>1. \A n \in 1..N : n - 1 \in 0..N
    OBVIOUS
  <2>2. \A n \in 1..N : f[n - 1] \in V /\ f[n] = step[n][f[n - 1]]
    BY <1>4, <2>1 DEF Solution
  <2> HIDE DEF N
  <2> QED
    BY <2>2
<1>6. f = body(f)
  BY <1>4, <1>5 DEF Solution
<1>7. ExecuteAll(D, sql) = CHOOSE g : g = body(g)
  BY DEF ExecuteAll
<1> HIDE DEF body
<1>8. ExecuteAll(D, sql) = body(ExecuteAll(D, sql))
  BY <1>6, <1>7
<1>9. \A i \in 1..N : i \in 0..N /\ i # 0
  OBVIOUS
<1> DEFINE R == ExecuteAll(D, sql)
<1>10. R = [i \in 0..N |-> IF i = 0 THEN D ELSE Execute(R[i - 1], sql[i])]
  BY <1>8 DEF body
<1> HIDE DEF R
<1>11. R[0] = D /\ \A i \in 1..N : R[i] = Execute(R[i - 1], sql[i])
  BY <1>9, <1>10
<1> QED
  BY <1>11 DEF R

(* The names that are defined are those of the tables the database has, up *)
(* to the tables of libraries.                                             *)
Tracks(D, B, S, O) ==
    /\ B \subseteq S
    /\ \A n \in D : \E t \in B : t.table = n
    /\ \A t \in B : t \in O \/ t.table \in D

(* A statement that is no rename does to the names what it does to the     *)
(* tables.                                                                 *)
LEMMA StatementTracks ==
    ASSUME NEW D, NEW B, NEW S, NEW O, NEW s, OneNameEach(S), ToSet(s.tables) \subseteq S,
           s.op = "create" => 1 \in DOMAIN s.tables, StripSQL(s) => s.op # "rename", Tracks(D, B, S, O)
    PROVE  Tracks(IF StripSQL(s) THEN ScanStatement(D, s) ELSE D, Execute(B, s), S, O)
<1>1. CASE ~StripSQL(s)
  BY <1>1 DEF StripSQL, Execute
<1>2. CASE StripSQL(s) /\ s.op = "create"
  <2>1. ScanStatement(D, s) = D \cup {s.tables[1].table} /\ Execute(B, s) = B \cup {s.tables[1]}
    BY <1>2 DEF StripSQL, Execute, ScanStatement, CleanName
  <2>2. s.tables[1] \in S
    BY <1>2 DEF ToSet
  <2> QED
    BY <1>2, <2>1, <2>2 DEF Tracks
<1>3. CASE StripSQL(s) /\ s.op = "drop"
  <2> DEFINE T == ToSet(s.tables)
             D2 == D \ {t.table : t \in T}
             B2 == B \ T
  <2>1. ScanStatement(D, s) = D2 /\ Execute(B, s) = B2
    BY <1>3 DEF StripSQL, Execute, ScanStatement, CleanName
  <2>2. \A n \in D2 : \E t \in B2 : t.table = n
    BY DEF Tracks
  <2>3. \A t \in B2 : t \in O \/ t.table \in D2
    <3> SUFFICES ASSUME NEW t \in B2, t \notin O PROVE t.table \in D2
      OBVIOUS
    <3>1. t.table \in D /\ t \in S
      BY DEF Tracks
    <3>2. \A u \in T : u.table # t.table
      BY <3>1 DEF OneNameEach
    <3> QED
      BY <3>1, <3>2
  <2>4. B2 \subseteq S
    BY DEF Tracks
  <2> HIDE DEF D2, B2
  <2> QED
    BY <1>3, <2>1, <2>2, <2>3, <2>4 DEF Tracks
<1>4. CASE StripSQL(s) /\ s.op \notin {"create", "drop", "rename"}
  <2>1. ScanStatement(D, s) = D /\ Execute(B, s) = B
    BY <1>4 DEF StripSQL, Execute, ScanStatement
  <2> QED
    BY <1>4, <2>1
<1> QED
  BY <1>1, <1>2, <1>3, <1>4

(* So does a file. *)
LEMMA FileTracks ==
    ASSUME NEW D, NEW B, NEW S, NEW O, NEW f, FileOK(f), OneNameEach(S), TablesOf({f}) \subseteq S,
           ~RenameCaveat(f), Tracks(D, B, S, O)
    PROVE  Tracks(ScanDDL(D, f.sql)[Len(f.sql)], ExecuteAll(B, f.sql)[Len(f.sql)], S, O)
<1> DEFINE N == Len(f.sql)
           d == ScanDDL(D, f.sql)
           b == ExecuteAll(B, f.sql)
           K == {k \in Nat : k <= N => Tracks(d[k], b[k], S, O)}
<1>1. N \in Nat /\ DOMAIN f.sql = 1..N
  BY DEF FileOK
<1>2. /\ d[0] = D
      /\ \A i \in 1..N : d[i] = IF StripSQL(f.sql[i]) THEN ScanStatement(d[i - 1], f.sql[i]) ELSE d[i - 1]
  BY <1>1, ScanDDLIs
<1>3. b[0] = B /\ \A i \in 1..N : b[i] = Execute(b[i - 1], f.sql[i])
  BY <1>1, ExecuteAllIs
<1> HIDE DEF N, d, b
<1>4. 0 \in K
  BY <1>2, <1>3
<1>5. ASSUME NEW k \in K PROVE k + 1 \in K
  <2>1. k \in Nat
    OBVIOUS
  <2> SUFFICES ASSUME k + 1 <= N PROVE Tracks(d[k + 1], b[k + 1], S, O)
    BY <2>1
  <2> DEFINE s == f.sql[k + 1]
  <2>2. k + 1 \in DOMAIN f.sql /\ k + 1 \in 1..N /\ (k + 1) - 1 = k
    BY <1>1, <2>1
  <2>3. ToSet(s.tables) \subseteq S
    <3>1. s \in ToSet(f.sql)
      BY <2>2 DEF ToSet
    <3> HIDE DEF s
    <3> QED
      BY <3>1 DEF TablesOf
  <2>4. (s.op = "create" => 1 \in DOMAIN s.tables) /\ (StripSQL(s) => s.op # "rename")
    BY <2>2 DEF FileOK, RenameCaveat
  <2>5. Tracks(d[k], b[k], S, O)
    BY <1>1, <2>1
  <2>6. d[k + 1] = (IF StripSQL(s) THEN ScanStatement(d[k], s) ELSE d[k]) /\ b[k + 1] = Execute(b[k], s)
    BY <1>2, <1>3, <2>2
  <2> HIDE DEF s
  <2> QED
    BY <2>3, <2>4, <2>5, <2>6, StatementTracks
<1> HIDE DEF K
<1>6. N \in K
  BY <1>1, <1>4, <1>5, Induction DEF K
<1> QED
  BY <1>1, <1>6 DEF K, N, d, b

-----------------------------------------------------------------------------
(* The order of the replay, and that of the database.                      *)
VersionOK(v) == DOMAIN v = 1..Len(v) /\ Len(v) \in Nat /\ \A i \in DOMAIN v : v[i] \in Nat

(* A version that Flyway takes for the older one is the lesser one here.   *)
LEMMA OlderIsLess ==
    ASSUME NEW a, NEW b, VersionOK(a), VersionOK(b), Older(a, b)
    PROVE  VersionLess(a, b) /\ ~VersionLess(b, a) /\ a # b
<1>1. PICK i \in DOMAIN a \cup DOMAIN b :
          Numeral(a, i) < Numeral(b, i) /\ \A j \in 1..i - 1 : Numeral(a, j) = Numeral(b, j)
  BY DEF Older
<1>2. Numeral(a, i) \in Nat /\ Numeral(b, i) \in Nat /\ i \in Nat \ {0}
  BY DEF VersionOK, Numeral
<1>3. i \in DOMAIN b /\ Numeral(b, i) = b[i]
  BY <1>1, <1>2 DEF Numeral
<1>4. \A j \in 1..i - 1 : j \in DOMAIN b /\ Numeral(b, j) = b[j]
  BY <1>2, <1>3 DEF VersionOK, Numeral
<1>5. VersionLess(a, b)
  <2>1. CASE i \in DOMAIN a
    <3>1. Numeral(a, i) = a[i] /\ \A j \in 1..i - 1 : j \in DOMAIN a /\ Numeral(a, j) = a[j]
      BY <1>2, <2>1 DEF VersionOK, Numeral
    <3> QED
      BY <1>1, <1>3, <1>4, <2>1, <3>1 DEF VersionLess
  <2>2. CASE i \notin DOMAIN a
    <3>1. Len(a) < i /\ Len(a) < Len(b)
      BY <1>2, <1>3, <2>2 DEF VersionOK
    <3>2. \A j \in DOMAIN a : j \in 1..i - 1 /\ Numeral(a, j) = a[j]
      BY <1>2, <3>1 DEF VersionOK, Numeral
    <3> QED
      BY <1>1, <1>4, <3>1, <3>2 DEF VersionLess
  <2> QED
    BY <2>1, <2>2
<1>6. ~(Len(b) < Len(a) /\ \A j \in DOMAIN b : b[j] = a[j])
  <2> SUFFICES ASSUME Len(b) < Len(a), \A j \in DOMAIN b : b[j] = a[j] PROVE FALSE
    OBVIOUS
  <2>1. i \in DOMAIN a /\ Numeral(a, i) = a[i]
    BY <1>2, <1>3 DEF VersionOK, Numeral
  <2> QED
    BY <1>1, <1>2, <1>3, <2>1
<1>7. ~\E k \in DOMAIN b \cap DOMAIN a : b[k] < a[k] /\ \A j \in 1..k - 1 : b[j] = a[j]
  <2> SUFFICES ASSUME NEW k \in DOMAIN b \cap DOMAIN a, b[k] < a[k], \A j \in 1..k - 1 : b[j] = a[j] PROVE FALSE
    OBVIOUS
  <2>1. Numeral(a, k) = a[k] /\ Numeral(b, k) = b[k] /\ a[k] \in Nat /\ b[k] \in Nat /\ k \in Nat \ {0}
    BY DEF VersionOK, Numeral
  <2>2. ~(k < i)
    <3> SUFFICES ASSUME k < i PROVE FALSE
      OBVIOUS
    <3>1. k \in 1..i - 1
      BY <1>2, <2>1
    <3> QED
      BY <1>1, <2>1, <3>1
  <2>3. k # i
    BY <1>1, <2>1
  <2>4. i \in 1..k - 1 /\ i \in DOMAIN a
    BY <1>2, <2>1, <2>2, <2>3 DEF VersionOK
  <2>5. Numeral(a, i) = b[i]
    BY <2>4 DEF Numeral
  <2> QED
    BY <1>1, <1>2, <1>3, <2>5
<1>8. a # b
  BY <1>1, <1>2
<1> QED
  BY <1>5, <1>6, <1>7, <1>8 DEF VersionLess

(* What comes first in the database is replayed first, and never last.     *)
LEMMA SoonerIsBefore ==
    ASSUME NEW f, NEW g, FileOK(f), FileOK(g), Sooner(f, g)
    PROVE  ReplayedBefore(f, g) /\ ~ReplayedBefore(g, f)
<1>1. VersionOK(f.version) /\ VersionOK(g.version)
  BY DEF FileOK, VersionOK
<1>2. /\ f.kind = "versioned" => Category(f) = 0
      /\ f.kind = "repeatable" => Category(f) = 1
      /\ f.kind = "script" => Category(f) = 2
      /\ f.kind \in {"versioned", "repeatable", "script"}
  BY DEF FileOK, Category
<1>3. /\ g.kind = "versioned" => Category(g) = 0
      /\ g.kind = "repeatable" => Category(g) = 1
      /\ g.kind = "script" => Category(g) = 2
      /\ g.kind \in {"versioned", "repeatable", "script"}
  BY DEF FileOK, Category
<1>4. CASE f.kind = "versioned" /\ g.kind = "versioned"
  <2>1. Older(f.version, g.version)
    BY <1>4 DEF Sooner
  <2>2. VersionLess(f.version, g.version) /\ ~VersionLess(g.version, f.version) /\ f.version # g.version
    BY <1>1, <2>1, OlderIsLess
  <2> QED
    BY <1>2, <1>3, <1>4, <2>2 DEF ReplayedBefore
<1>5. CASE f.kind = g.kind /\ f.kind # "versioned"
  <2>1. f.version = <<>> /\ g.version = <<>>
    BY <1>5 DEF FileOK
  <2>2. ~VersionLess(<<>>, <<>>)
    BY DEF VersionLess
  <2>3. f.name < g.name /\ ~(g.name < f.name)
    BY <1>5 DEF Sooner, FileOK
  <2> QED
    BY <1>2, <1>3, <1>5, <2>1, <2>2, <2>3 DEF ReplayedBefore
<1>6. CASE f.kind # g.kind
  <2>1. f.kind = "versioned" \/ (f.kind = "repeatable" /\ g.kind = "script")
    BY <1>6 DEF Sooner
  <2>2. Category(f) < Category(g) /\ ~(Category(g) < Category(f)) /\ Category(f) # Category(g)
    BY <1>2, <1>3, <1>6, <2>1
  <2> QED
    BY <2>2 DEF ReplayedBefore
<1> QED
  BY <1>4, <1>5, <1>6

(* The files of a set in the order of the database. *)
Enumerates(s, n, A) ==
    /\ s \in [1..n -> A]
    /\ \A f \in A : \E i \in 1..n : s[i] = f
    /\ \A i, j \in 1..n : i < j => Sooner(s[i], s[j])

(* No file comes twice. *)
LEMMA EnumerationCounts ==
    ASSUME NEW A, NEW n \in Nat, NEW s, Enumerates(s, n, A), \A f \in A : FileOK(f)
    PROVE  /\ IsFiniteSet(A) /\ Cardinality(A) = n
           /\ \A i, j \in 1..n : i < j => ReplayedBefore(s[i], s[j]) /\ ~ReplayedBefore(s[j], s[i]) /\ s[i] # s[j]
<1>1. ASSUME NEW i \in 1..n, NEW j \in 1..n, i < j
      PROVE  ReplayedBefore(s[i], s[j]) /\ ~ReplayedBefore(s[j], s[i]) /\ s[i] # s[j]
  <2>1. FileOK(s[i]) /\ FileOK(s[j]) /\ Sooner(s[i], s[j])
    BY <1>1 DEF Enumerates
  <2>2. ReplayedBefore(s[i], s[j]) /\ ~ReplayedBefore(s[j], s[i])
    BY <2>1, SoonerIsBefore
  <2> QED
    BY <2>2
<1>2. s \in Bijection(1..n, A)
  <2>1. s \in [1..n -> A] /\ \A f \in A : \E i \in 1..n : s[i] = f
    BY DEF Enumerates
  <2>2. \A i, j \in 1..n : s[i] = s[j] => i = j
    BY <1>1
  <2> QED
    BY <2>1, <2>2 DEF Bijection, Injection, Surjection, IsInjective
<1>3. ExistsBijection(1..n, A)
  BY <1>2 DEF ExistsBijection
<1> QED
  BY <1>1, <1>3, FS_CountingElements, FS_NatBijection

(* The replay takes the files in the order of the database.                *)
LEMMA OrderedIsEnumeration ==
    ASSUME NEW F, NEW n \in Nat, NEW s, Enumerates(s, n, F), \A f \in F : FileOK(f)
    PROVE  [k \in 1..Cardinality(F) |-> Earliest(FilesLeft(F)[k - 1])] = s
<1> DEFINE rest(k) == {s[i] : i \in k + 1..n}
           body(g) == [k \in 0..n |-> IF k = 0 THEN F ELSE g[k - 1] \ {Earliest(g[k - 1])}]
           w == [k \in 0..n |-> rest(k)]
           L == FilesLeft(F)
<1>1. /\ Cardinality(F) = n /\ s \in [1..n -> F]
      /\ \A i, j \in 1..n : i < j => ReplayedBefore(s[i], s[j]) /\ ~ReplayedBefore(s[j], s[i]) /\ s[i] # s[j]
  BY EnumerationCounts DEF Enumerates
<1>2. ASSUME NEW k \in 1..n PROVE Earliest(rest(k - 1)) = s[k] /\ rest(k) = rest(k - 1) \ {s[k]}
  <2>1. \A x \in rest(k - 1) : x = s[k] \/ \E j \in 1..n : k < j /\ x = s[j]
    BY <1>1
  <2>2. s[k] \in rest(k - 1)
    OBVIOUS
  <2>3. \A g \in rest(k - 1) \ {s[k]} : ReplayedBefore(s[k], g) /\ ~ReplayedBefore(g, s[k])
    BY <1>1, <2>1
  <2>4. rest(k) = rest(k - 1) \ {s[k]}
    <3>1. ASSUME NEW x \in rest(k) PROVE x \in rest(k - 1) /\ x # s[k]
      BY <1>1, <3>1
    <3>2. ASSUME NEW x \in rest(k - 1), x # s[k] PROVE x \in rest(k)
      <4>1. PICK j \in 1..n : k < j /\ x = s[j]
        BY <2>1, <3>2
      <4>2. j \in k + 1..n
        BY <4>1
      <4> QED
        BY <4>1, <4>2
    <3> QED
      BY <3>1, <3>2
  <2> DEFINE R == rest(k - 1)
  <2> HIDE DEF rest
  <2>5. Earliest(R) \in R /\ \A g \in R \ {Earliest(R)} : ReplayedBefore(Earliest(R), g)
    <3>1. s[k] \in R /\ \A g \in R \ {s[k]} : ReplayedBefore(s[k], g)
      BY <2>2, <2>3
    <3> HIDE DEF R
    <3> QED
      BY <3>1 DEF Earliest
  <2>6. Earliest(R) = s[k]
    BY <2>2, <2>3, <2>5
  <2> QED
    BY <2>4, <2>6
<1>3. rest(0) = F
  BY <1>1 DEF Enumerates
<1> HIDE DEF rest
<1>4. \A k \in 0..n : w[k] = IF k = 0 THEN F ELSE w[k - 1] \ {Earliest(w[k - 1])}
  <2> SUFFICES ASSUME NEW k \in 0..n PROVE w[k] = IF k = 0 THEN F ELSE w[k - 1] \ {Earliest(w[k - 1])}
    OBVIOUS
  <2>1. CASE k = 0
    BY <1>3, <2>1
  <2>2. CASE k # 0
    <3>1. k \in 1..n /\ k - 1 \in 0..n
      BY <2>2
    <3>2. w[k] = rest(k) /\ w[k - 1] = rest(k - 1)
      BY <3>1
    <3> QED
      BY <1>2, <2>2, <3>1, <3>2
  <2> QED
    BY <2>1, <2>2
<1>5. w = body(w)
  <2>1. \A k \in 0..n : w[k] = body(w)[k]
    BY <1>4
  <2>2. DOMAIN w = 0..n /\ w = [k \in 0..n |-> w[k]]
    OBVIOUS
  <2> HIDE DEF w
  <2> QED
    BY <2>1, <2>2
<1>6. L = CHOOSE g : g = body(g)
  BY <1>1 DEF FilesLeft
<1> HIDE DEF body, L
<1>7. L = body(L)
  BY <1>5, <1>6
<1>8. L[0] = F /\ \A k \in 1..n : L[k] = L[k - 1] \ {Earliest(L[k - 1])}
  <2>1. \A k \in 1..n : k \in 0..n /\ k # 0
    OBVIOUS
  <2>2. \A k \in 0..n : L[k] = IF k = 0 THEN F ELSE L[k - 1] \ {Earliest(L[k - 1])}
    BY <1>7 DEF body
  <2>3. L[0] = F
    <3>1. 0 \in 0..n
      OBVIOUS
    <3> QED
      BY <2>2, <3>1
  <2> QED
    BY <2>1, <2>2, <2>3
<1> DEFINE K == {k \in Nat : k <= n => L[k] = rest(k)}
<1>9. 0 \in K
  BY <1>3, <1>8
<1>10. ASSUME NEW k \in K PROVE k + 1 \in K
  <2>1. k \in Nat
    OBVIOUS
  <2> SUFFICES ASSUME k + 1 <= n PROVE L[k + 1] = rest(k + 1)
    BY <2>1
  <2>2. k + 1 \in 1..n /\ (k + 1) - 1 = k /\ L[k] = rest(k)
    BY <2>1
  <2>3. L[k + 1] = L[k] \ {Earliest(L[k])}
    BY <1>8, <2>2
  <2>4. Earliest(rest(k)) = s[k + 1] /\ rest(k + 1) = rest(k) \ {s[k + 1]}
    BY <1>2, <2>2
  <2> QED
    BY <2>2, <2>3, <2>4
<1> HIDE DEF K
<1>11. \A k \in Nat : k \in K
  BY <1>9, <1>10, Induction DEF K
<1>12. \A k \in Nat : k <= n => L[k] = rest(k)
  BY <1>11 DEF K
<1>13. \A k \in 1..n : Earliest(L[k - 1]) = s[k]
  <2>1. \A k \in 1..n : k - 1 \in Nat /\ k - 1 <= n
    OBVIOUS
  <2> QED
    BY <1>2, <1>12, <2>1
<1> QED
  BY <1>1, <1>13 DEF L

(* The names that are defined after each of n files. *)
Replays(d, n, s) == d = [k \in 0..n |-> IF k = 0 THEN {} ELSE ScanDDL(d[k - 1], s[k].sql)[Len(s[k].sql)]]

(* A replay has one result. *)
LEMMA ReplayIs ==
    ASSUME NEW A, NEW n \in Nat, NEW s \in [1..n -> A], NEW d, Replays(d, n, s)
    PROVE  Len(s) = n /\ Replay(s)[n] = d[n]
<1> DEFINE after(D, k) == ScanDDL(D, s[k].sql)[Len(s[k].sql)]
           body(g) == [k \in 0..n |-> IF k = 0 THEN {} ELSE after(g[k - 1], k)]
           R == Replay(s)
<1>1. Len(s) = n
  OBVIOUS
<1>2. d = body(d)
  BY DEF Replays
<1>3. R = CHOOSE g : g = body(g)
  BY <1>1 DEF Replay
<1> HIDE DEF body, R
<1>4. R = body(R)
  BY <1>2, <1>3
<1> HIDE DEF after
<1>5. ASSUME NEW g, g = body(g) PROVE g[0] = {} /\ \A k \in 1..n : g[k] = after(g[k - 1], k)
  <2>1. g = [k \in 0..n |-> IF k = 0 THEN {} ELSE after(g[k - 1], k)]
    BY <1>5 DEF body
  <2>2. \A k \in 0..n : g[k] = IF k = 0 THEN {} ELSE after(g[k - 1], k)
    BY <2>1
  <2>3. 0 \in 0..n /\ \A k \in 1..n : k \in 0..n /\ k # 0
    OBVIOUS
  <2> QED
    BY <2>2, <2>3
<1>6. /\ R[0] = {} /\ \A k \in 1..n : R[k] = after(R[k - 1], k)
      /\ d[0] = {} /\ \A k \in 1..n : d[k] = after(d[k - 1], k)
  BY <1>2, <1>4, <1>5
<1> DEFINE K == {k \in Nat : k <= n => R[k] = d[k]}
<1>7. 0 \in K
  BY <1>6
<1>8. ASSUME NEW k \in K PROVE k + 1 \in K
  <2>1. k \in Nat
    OBVIOUS
  <2> SUFFICES ASSUME k + 1 <= n PROVE R[k + 1] = d[k + 1]
    BY <2>1
  <2>2. k + 1 \in 1..n /\ (k + 1) - 1 = k /\ R[k] = d[k]
    BY <2>1
  <2> QED
    BY <1>6, <2>2
<1> HIDE DEF K
<1>9. n \in K
  BY <1>7, <1>8, Induction DEF K
<1> QED
  BY <1>1, <1>9 DEF K, R

(* What the check makes of files that are in the order of the database.    *)
LEMMA SchemaTablesIs ==
    ASSUME NEW files, NEW n \in Nat, NEW s, NEW d, Enumerates(s, n, Forward(files)), Replays(d, n, s),
           \A f \in Forward(files) : FileOK(f)
    PROVE  /\ SchemaTables(files).defined = d[n]
           /\ SchemaTables(files).caveats = {f.name : f \in {h \in Forward(files) : RenameCaveat(h)}}
<1> DEFINE F == Forward(files)
<1>1. ForwardOrdered(files) = s
  BY OrderedIsEnumeration DEF ForwardOrdered
<1>2. s \in [1..n -> F] /\ \A f \in F : \E i \in 1..n : s[i] = f
  BY DEF Enumerates
<1>3. Len(s) = n /\ Replay(s)[n] = d[n]
  BY <1>2, ReplayIs
<1>4. ToSet(s) = F
  <2> HIDE DEF F
  <2> QED
    BY <1>2 DEF ToSet
<1> QED
  BY <1>1, <1>3, <1>4 DEF SchemaTables

-----------------------------------------------------------------------------
(* The database holds what the replay says.                                *)
(* A name means one table, and nothing is renamed. *)
Plain(A, O) == OneNameEach(TablesOf(A) \cup O) /\ \A f \in A : ~RenameCaveat(f)

(* While files come in the order of a new database, the replay of those    *)
(* that were applied gives the names of the tables there are.              *)
Replayed ==
    inOrder => \E n \in Nat : \E s, d :
        /\ Enumerates(s, n, applied) /\ Replays(d, n, s)
        /\ Plain(applied, Current.owned) =>
              Tracks(d[n], db, TablesOf(applied) \cup Current.owned, Current.owned)

(* The inductive invariant: what was told is of the present release, whose *)
(* files hold those that were applied, and what was queried is explained.  *)
DriftInv ==
    /\ history \in Repositories /\ release \in 1..Len(history)
    /\ phase \in {"check", "refused", "migrate", "serving"}
    /\ applied \subseteq Forward(Current.files)
    /\ phase \in {"migrate", "serving"} => told = SchemaCheck(Current.edges, Current.files, Current.owned)
    /\ phase # "serving" => served = {} /\ failed = {}
    /\ phase = "serving" => /\ Forward(Current.files) \subseteq applied /\ Current.owned \subseteq db
                            /\ \A e \in failed : e \in Current.edges /\ e.table \notin db
                            /\ \A e \in served : e \in Current.edges /\ e.table \in db
    /\ Replayed

(* More tables, and more libraries, take nothing from that. *)
LEMMA TracksMore ==
    ASSUME NEW D, NEW B, NEW S, NEW O, NEW S2, NEW O2, S \subseteq S2, O \subseteq O2, Tracks(D, B, S, O)
    PROVE  Tracks(D, B, S2, O2)
BY DEF Tracks

(* Names that are apart stay apart among fewer. *)
LEMMA PlainLess ==
    ASSUME NEW A, NEW O, NEW A2, NEW O2, A \subseteq A2, O \subseteq O2, Plain(A2, O2)
    PROVE  Plain(A, O) /\ TablesOf(A) \cup O \subseteq TablesOf(A2) \cup O2
<1>1. TablesOf(A) \subseteq TablesOf(A2)
  BY DEF TablesOf
<1> QED
  BY <1>1 DEF Plain, OneNameEach

(* A new database has no files. *)
LEMMA InitDriftInv == DriftInit => DriftInv
<1> SUFFICES ASSUME DriftInit PROVE DriftInv
  OBVIOUS
<1>1. history \in Repositories /\ release = 1 /\ Len(history) \in Nat \ {0}
  BY RepositoriesOK DEF DriftInit
<1>2. applied = {} /\ db = {} /\ phase = "check" /\ served = {} /\ failed = {}
  BY DEF DriftInit
<1>3. Enumerates(<<>>, 0, {})
  BY DEF Enumerates
<1> DEFINE d == [k \in 0..0 |-> {}]
<1>4. Replays(d, 0, <<>>)
  BY DEF Replays
<1>5. Tracks(d[0], {}, TablesOf({}) \cup Current.owned, Current.owned)
  BY DEF Tracks
<1> HIDE DEF d
<1>6. Replayed
  <2>1. 0 \in Nat
    OBVIOUS
  <2> QED
    BY <1>2, <1>3, <1>4, <1>5, <2>1 DEF Replayed
<1> QED
  BY <1>1, <1>2, <1>6 DEF DriftInv

(* One more file, that comes after the others. *)
AndFile(s, n, f) == [i \in 1..n + 1 |-> IF i <= n THEN s[i] ELSE f]
AndReplay(d, n, f) == [k \in 0..n + 1 |-> IF k <= n THEN d[k] ELSE ScanDDL(d[n], f.sql)[Len(f.sql)]]

ComesLast(A, f) == \A g \in A : Sooner(g, f)

(* Its replay follows those of the others. *)
LEMMA FileAdded ==
    ASSUME NEW A, NEW n \in Nat, NEW s, NEW d, NEW f, Enumerates(s, n, A), Replays(d, n, s), ComesLast(A, f)
    PROVE  /\ Enumerates(AndFile(s, n, f), n + 1, A \cup {f})
           /\ Replays(AndReplay(d, n, f), n + 1, AndFile(s, n, f))
<1> DEFINE s2 == AndFile(s, n, f)
           d2 == AndReplay(d, n, f)
<1>1. s \in [1..n -> A] /\ (\A g \in A : \E i \in 1..n : s[i] = g) /\ \A i, j \in 1..n : i < j => Sooner(s[i], s[j])
  BY DEF Enumerates
<1>2. DOMAIN s2 = 1..n + 1 /\ s2[n + 1] = f /\ \A i \in 1..n : s2[i] = s[i]
  BY DEF AndFile
<1>3. s2 = [i \in 1..n + 1 |-> s2[i]]
  BY DEF AndFile
<1>4. Enumerates(s2, n + 1, A \cup {f})
  <2>1. \A i \in 1..n + 1 : i = n + 1 \/ i \in 1..n
    OBVIOUS
  <2>2. \A i \in 1..n + 1 : s2[i] \in A \cup {f}
    BY <1>1, <1>2, <2>1
  <2> HIDE DEF s2
  <2>3. s2 \in [1..n + 1 -> A \cup {f}]
    BY <1>3, <2>2
  <2>4. \A g \in A \cup {f} : \E i \in 1..n + 1 : s2[i] = g
    <3>1. \A i \in 1..n : i \in 1..n + 1
      OBVIOUS
    <3>2. n + 1 \in 1..n + 1
      OBVIOUS
    <3> QED
      BY <1>1, <1>2, <3>1, <3>2
  <2>5. ASSUME NEW i \in 1..n + 1, NEW j \in 1..n + 1, i < j PROVE Sooner(s2[i], s2[j])
    <3>1. i \in 1..n /\ s[i] \in A
      BY <1>1, <2>5
    <3>2. CASE j = n + 1
      BY <1>2, <3>1, <3>2 DEF ComesLast
    <3>3. CASE j \in 1..n
      BY <1>1, <1>2, <2>5, <3>1, <3>3
    <3> QED
      BY <2>1, <3>2, <3>3
  <2> QED
    BY <2>3, <2>4, <2>5 DEF Enumerates
<1> DEFINE after(D, g) == ScanDDL(D, g.sql)[Len(g.sql)]
<1>5. d2[n + 1] = after(d[n], f) /\ (\A k \in 0..n : d2[k] = d[k]) /\ d2 = [k \in 0..n + 1 |-> d2[k]]
  <2>1. d2 = [k \in 0..n + 1 |-> IF k <= n THEN d[k] ELSE after(d[n], f)]
    BY DEF AndReplay
  <2> HIDE DEF d2, after
  <2> QED
    BY <2>1
<1>6. \A k \in 0..n : d[k] = IF k = 0 THEN {} ELSE after(d[k - 1], s[k])
  <2>1. d = [k \in 0..n |-> IF k = 0 THEN {} ELSE after(d[k - 1], s[k])]
    BY DEF Replays
  <2> HIDE DEF after
  <2> QED
    BY <2>1
<1> HIDE DEF s2, d2, after
<1>7. \A k \in 0..n + 1 : d2[k] = IF k = 0 THEN {} ELSE after(d2[k - 1], s2[k])
  <2> SUFFICES ASSUME NEW k \in 0..n + 1 PROVE d2[k] = IF k = 0 THEN {} ELSE after(d2[k - 1], s2[k])
    OBVIOUS
  <2>1. CASE k = n + 1
    <3>1. k # 0 /\ k - 1 = n /\ n \in 0..n
      BY <2>1
    <3> QED
      BY <1>2, <1>5, <2>1, <3>1
  <2>2. CASE k = 0
    <3>1. 0 \in 0..n
      OBVIOUS
    <3> QED
      BY <1>5, <1>6, <2>2, <3>1
  <2>3. CASE k \in 1..n
    <3>1. k \in 0..n /\ k - 1 \in 0..n /\ k # 0
      BY <2>3
    <3> QED
      BY <1>2, <1>5, <1>6, <2>3, <3>1
  <2> QED
    BY <2>1, <2>2, <2>3
<1>8. Replays(d2, n + 1, s2)
  <2>1. d2 = [k \in 0..n + 1 |-> IF k = 0 THEN {} ELSE after(d2[k - 1], s2[k])]
    BY <1>5, <1>7
  <2> QED
    BY <2>1 DEF Replays, after
<1> QED
  BY <1>4, <1>8 DEF s2, d2

(* What a release holds, and what the next one adds. *)
LEMMA ReleaseFacts ==
    ASSUME DriftInv
    PROVE  /\ ReleaseOK(Current) /\ Len(history) \in Nat \ {0} /\ release \in Nat
           /\ release < Len(history) =>
                 Current.files \subseteq history[release + 1].files /\ Current.owned \subseteq history[release + 1].owned
<1>1. history \in Repositories /\ release \in 1..Len(history)
  BY DEF DriftInv
<1>2. DOMAIN history = 1..Len(history) /\ Len(history) \in Nat \ {0} /\ ReleaseOK(history[release])
  BY <1>1, RepositoriesOK
<1>3. ASSUME release < Len(history)
      PROVE  Current.files \subseteq history[release + 1].files /\ Current.owned \subseteq history[release + 1].owned
  <2>1. release \in 1..Len(history) - 1
    BY <1>1, <1>2, <1>3
  <2> QED
    BY <1>1, <2>1, RepositoriesOK DEF Current
<1> QED
  BY <1>1, <1>2, <1>3 DEF Current

(* A migration is replayed as it is executed. *)
LEMMA MigrateFollowed ==
    ASSUME DriftInv, Migrate
    PROVE  DriftInv'
<1> USE DEF Current
<1>1. PICK f \in Current.files \ applied :
          /\ ~f.rollback /\ db' = ExecuteAll(db, f.sql)[Len(f.sql)] /\ applied' = applied \cup {f}
          /\ inOrder' = (inOrder /\ \A g \in applied : Sooner(g, f))
  BY DEF Migrate
<1>2. /\ phase = "migrate" /\ phase' = "migrate" /\ history' = history /\ release' = release /\ told' = told
      /\ served' = served /\ failed' = failed
  BY DEF Migrate
<1>3. f \in Forward(Current.files) /\ FileOK(f)
  BY <1>1, ReleaseFacts DEF Forward, ReleaseOK
<1>4. Replayed'
  <2> DEFINE O == Current.owned
  <2> SUFFICES ASSUME inOrder'
               PROVE  \E n \in Nat : \E s, d :
                          /\ Enumerates(s, n, applied \cup {f}) /\ Replays(d, n, s)
                          /\ Plain(applied \cup {f}, O) =>
                                Tracks(d[n], db', TablesOf(applied \cup {f}) \cup O, O)
    BY <1>1, <1>2 DEF Replayed
  <2>1. inOrder /\ \A g \in applied : Sooner(g, f)
    BY <1>1
  <2>2. PICK n \in Nat : \E s, d :
            /\ Enumerates(s, n, applied) /\ Replays(d, n, s)
            /\ Plain(applied, O) => Tracks(d[n], db, TablesOf(applied) \cup O, O)
    BY <2>1 DEF DriftInv, Replayed
  <2>3. PICK s, d :
            /\ Enumerates(s, n, applied) /\ Replays(d, n, s)
            /\ Plain(applied, O) => Tracks(d[n], db, TablesOf(applied) \cup O, O)
    BY <2>2
  <2> DEFINE s2 == AndFile(s, n, f)
             d2 == AndReplay(d, n, f)
             A2 == applied \cup {f}
  <2>4. Enumerates(s2, n + 1, A2) /\ Replays(d2, n + 1, s2)
    <3> DEFINE A == applied
    <3>1. Enumerates(s, n, A) /\ Replays(d, n, s) /\ ComesLast(A, f)
      BY <2>1, <2>3 DEF ComesLast
    <3> HIDE DEF A, A2, O, s2, d2
    <3>2. Enumerates(AndFile(s, n, f), n + 1, A \cup {f})
      BY <3>1, FileAdded
    <3>3. Replays(AndReplay(d, n, f), n + 1, AndFile(s, n, f))
      BY <3>1, FileAdded
    <3> QED
      BY <3>2, <3>3 DEF A, A2, s2, d2
  <2>8. d2[n + 1] = ScanDDL(d[n], f.sql)[Len(f.sql)]
    BY DEF AndReplay
  <2> HIDE DEF s2, d2
  <2>5. ASSUME Plain(A2, O) PROVE Tracks(d2[n + 1], db', TablesOf(A2) \cup O, O)
    <3> DEFINE S == TablesOf(A2) \cup O
    <3>1. Plain(applied, O) /\ TablesOf(applied) \cup O \subseteq S
      <4>1. applied \subseteq A2 /\ O \subseteq O
        OBVIOUS
      <4> HIDE DEF A2, O
      <4> QED
        BY <2>5, <4>1, PlainLess
    <3>2. Tracks(d[n], db, S, O)
      BY <2>3, <3>1, TracksMore
    <3>3. OneNameEach(S) /\ ~RenameCaveat(f) /\ TablesOf({f}) \subseteq S
      <4>1. TablesOf({f}) \subseteq TablesOf(A2)
        BY DEF TablesOf
      <4> QED
        BY <2>5, <4>1 DEF Plain
    <3> HIDE DEF S
    <3>4. Tracks(ScanDDL(d[n], f.sql)[Len(f.sql)], ExecuteAll(db, f.sql)[Len(f.sql)], S, O)
      BY <1>3, <3>2, <3>3, FileTracks
    <3> QED
      BY <1>1, <2>8, <3>4 DEF S
  <2>6. n + 1 \in Nat
    OBVIOUS
  <2> HIDE DEF A2, O
  <2>7. \E m \in Nat : \E x, y :
            /\ Enumerates(x, m, A2) /\ Replays(y, m, x)
            /\ Plain(A2, O) => Tracks(y[m], db', TablesOf(A2) \cup O, O)
    BY <2>4, <2>5, <2>6
  <2> QED
    BY <2>7 DEF A2, O
<1>5. applied' \subseteq Forward(Current.files)
  BY <1>1, <1>3 DEF DriftInv
<1> QED
  BY <1>1, <1>2, <1>4, <1>5 DEF DriftInv

(* The next release has every file and every library of this one. *)
LEMMA NextReleaseFollowed ==
    ASSUME DriftInv, NextRelease
    PROVE  DriftInv'
<1> USE DEF Current
<1>1. /\ phase = "serving" /\ release < Len(history) /\ release' = release + 1 /\ phase' = "check" /\ served' = {}
      /\ failed' = {} /\ history' = history /\ told' = told /\ db' = db /\ applied' = applied /\ inOrder' = inOrder
  BY DEF NextRelease
<1>2. Current.files \subseteq Current'.files /\ Current.owned \subseteq Current'.owned
  BY <1>1, ReleaseFacts
<1>3. history' \in Repositories /\ release' \in 1..Len(history')
  BY <1>1, ReleaseFacts DEF DriftInv
<1>4. applied' \subseteq Forward(Current'.files)
  BY <1>1, <1>2 DEF DriftInv, Forward
<1>5. Replayed'
  <2> DEFINE O == Current.owned
             O2 == Current'.owned
  <2> HIDE DEF O, O2
  <2> SUFFICES ASSUME inOrder'
               PROVE  \E n \in Nat : \E s, d :
                          /\ Enumerates(s, n, applied) /\ Replays(d, n, s)
                          /\ Plain(applied, O2) => Tracks(d[n], db, TablesOf(applied) \cup O2, O2)
    BY <1>1 DEF Replayed, O2
  <2>1. PICK n \in Nat : \E s, d :
            /\ Enumerates(s, n, applied) /\ Replays(d, n, s)
            /\ Plain(applied, O) => Tracks(d[n], db, TablesOf(applied) \cup O, O)
    BY <1>1 DEF DriftInv, Replayed, O
  <2>2. PICK s, d :
            /\ Enumerates(s, n, applied) /\ Replays(d, n, s)
            /\ Plain(applied, O) => Tracks(d[n], db, TablesOf(applied) \cup O, O)
    BY <2>1
  <2>3. ASSUME Plain(applied, O2) PROVE Tracks(d[n], db, TablesOf(applied) \cup O2, O2)
    <3>1. O \subseteq O2
      BY <1>2 DEF O, O2
    <3>2. Plain(applied, O) /\ TablesOf(applied) \cup O \subseteq TablesOf(applied) \cup O2
      BY <2>3, <3>1, PlainLess
    <3> QED
      BY <2>2, <3>1, <3>2, TracksMore
  <2> QED
    BY <2>2, <2>3
<1> QED
  BY <1>1, <1>3, <1>4, <1>5 DEF DriftInv

(* The tables of the libraries of this release are there when it starts. *)
LEMMA StartServiceFollowed ==
    ASSUME DriftInv, StartService
    PROVE  DriftInv'
<1> USE DEF Current
<1>1. /\ phase = "migrate" /\ phase' = "serving" /\ Forward(Current.files) \subseteq applied
      /\ db' = db \cup Current.owned /\ history' = history /\ release' = release /\ told' = told
      /\ applied' = applied /\ inOrder' = inOrder /\ served' = served /\ failed' = failed
  BY DEF StartService, Forward
<1>2. Replayed'
  <2> DEFINE O == Current.owned
  <2> HIDE DEF O
  <2> SUFFICES ASSUME inOrder
               PROVE  \E n \in Nat : \E s, d :
                          /\ Enumerates(s, n, applied) /\ Replays(d, n, s)
                          /\ Plain(applied, O) => Tracks(d[n], db \cup O, TablesOf(applied) \cup O, O)
    BY <1>1 DEF Replayed, O
  <2>1. PICK n \in Nat : \E s, d :
            /\ Enumerates(s, n, applied) /\ Replays(d, n, s)
            /\ Plain(applied, O) => Tracks(d[n], db, TablesOf(applied) \cup O, O)
    BY DEF DriftInv, Replayed, O
  <2>2. ASSUME NEW D, NEW S, Tracks(D, db, S \cup O, O) PROVE Tracks(D, db \cup O, S \cup O, O)
    BY <2>2 DEF Tracks
  <2> QED
    BY <2>1, <2>2
<1> QED
  BY <1>1, <1>2 DEF DriftInv

(* Every other step leaves the database and its files alone. *)
LEMMA FollowedKept ==
    ASSUME Replayed, UNCHANGED <<history, release, db, applied, inOrder>>
    PROVE  Replayed'
BY DEF Replayed, Current

(* Every step keeps the invariant. *)
LEMMA NextDriftInv == DriftInv /\ [DriftNext]_driftVars => DriftInv'
<1> SUFFICES ASSUME DriftInv, [DriftNext]_driftVars PROVE DriftInv'
  OBVIOUS
<1>1. ASSUME NEW gate \in BOOLEAN, CmdSchemaDrift(gate) PROVE DriftInv'
  <2>1. Replayed'
    BY <1>1, FollowedKept DEF CmdSchemaDrift, DriftInv
  <2>2. /\ phase = "check" /\ phase' \in {"refused", "migrate"} /\ history' = history /\ release' = release
        /\ applied' = applied /\ served' = served /\ failed' = failed
        /\ told' = SchemaCheck(Current.edges, Current.files, Current.owned)
    BY <1>1 DEF CmdSchemaDrift
  <2>3. Current' = Current
    BY <2>2 DEF Current
  <2> QED
    BY <2>1, <2>2, <2>3 DEF DriftInv
<1>2. CASE Migrate
  BY <1>2, MigrateFollowed
<1>3. CASE StartService
  BY <1>3, StartServiceFollowed
<1>4. CASE NextRelease
  BY <1>4, NextReleaseFollowed
<1>5. ASSUME NEW e \in Current.edges, QueryTable(e) PROVE DriftInv'
  <2>1. Replayed'
    BY <1>5, FollowedKept DEF QueryTable, DriftInv
  <2>2. Current' = Current
    BY <1>5 DEF QueryTable, Current
  <2> QED
    BY <1>5, <2>1, <2>2 DEF QueryTable, DriftInv
<1>6. CASE UNCHANGED driftVars
  <2>1. Replayed'
    BY <1>6, FollowedKept DEF driftVars, DriftInv
  <2>2. Current' = Current
    BY <1>6 DEF driftVars, Current
  <2> QED
    BY <1>6, <2>1, <2>2 DEF driftVars, DriftInv
<1> QED
  BY <1>1, <1>2, <1>3, <1>4, <1>5, <1>6 DEF DriftNext

(* What was told of a release that serves is what its database lacks.      *)
LEMMA DriftInvIsReal == DriftInv => DriftIsReal
<1> SUFFICES ASSUME DriftInv, phase = "serving", inOrder, OneSchema
             PROVE  /\ \A e \in failed : \/ \E w \in told.drift : w.table = e.label /\ e.from \in w.sites
                                         \/ told.caveats # {}
                                         \/ told.opaque > 0 /\ ~NamesTable(e)
                    /\ told.caveats = {} =>
                          \A e \in served : \A w \in told.drift : ~(NamesTable(e) /\ w.table = e.label)
  BY DEF DriftIsReal
<1> DEFINE files == Current.files
           edges == Current.edges
           O == Current.owned
           F == Forward(files)
           P == TablesOf(F) \cup O
           Q == TablesOf(files) \cup O \cup {e.table : e \in edges}
           schema == SchemaTables(files)
           W == CodeTables(edges).writes
           defined == schema.defined \cup {CleanName(t) : t \in O}
<1>1. /\ IsFiniteSet(edges) /\ \A e \in edges : NamesTable(e) => e.label = e.table.table
      /\ \A f \in F : FileOK(f)
  BY ReleaseFacts DEF ReleaseOK, CleanName
<1>2. /\ applied = F /\ O \subseteq db
      /\ \A e \in failed : e \in edges /\ e.table \notin db
      /\ \A e \in served : e \in edges /\ e.table \in db
  BY DEF DriftInv
<1>3. told = SchemaCheck(edges, files, O)
  BY DEF DriftInv
<1>4. /\ told.drift = {w \in W : w.table \notin defined} /\ told.caveats = schema.caveats
      /\ told.opaque = Cardinality({e \in edges : ~NamesTable(e)})
  BY <1>3 DEF SchemaCheck, CodeTables
<1>5. OneNameEach(Q) /\ P \subseteq Q
  <2>1. TablesOf(F) \subseteq TablesOf(files)
    BY DEF TablesOf, Forward
  <2> QED
    BY <2>1 DEF OneSchema
<1>6. PICK n \in Nat : \E s, d :
          /\ Enumerates(s, n, F) /\ Replays(d, n, s)
          /\ Plain(F, O) => Tracks(d[n], db, P, O)
  BY <1>2 DEF DriftInv, Replayed
<1>7. PICK s, d :
          /\ Enumerates(s, n, F) /\ Replays(d, n, s)
          /\ Plain(F, O) => Tracks(d[n], db, P, O)
  BY <1>6
<1>8. schema.defined = d[n] /\ schema.caveats = {f.name : f \in {h \in F : RenameCaveat(h)}}
  <2>1. \A f \in Forward(files) : FileOK(f)
    BY <1>1
  <2>2. Enumerates(s, n, Forward(files)) /\ Replays(d, n, s)
    BY <1>7
  <2> HIDE DEF files
  <2>3. /\ SchemaTables(files).defined = d[n]
        /\ SchemaTables(files).caveats = {f.name : f \in {h \in Forward(files) : RenameCaveat(h)}}
    BY <2>1, <2>2, SchemaTablesIs
  <2> QED
    BY <2>3
<1>9. ASSUME told.caveats = {} PROVE Tracks(d[n], db, P, O)
  <2>1. \A f \in F : ~RenameCaveat(f)
    <3> HIDE DEF F
    <3> QED
      BY <1>4, <1>8, <1>9
  <2>2. OneNameEach(P)
    <3> HIDE DEF P, Q
    <3> QED
      BY <1>5 DEF OneNameEach
  <2>3. Plain(F, O) => Tracks(d[n], db, P, O)
    BY <1>7
  <2>4. Plain(F, O)
    BY <2>1, <2>2 DEF Plain
  <2> QED
    BY <2>3, <2>4
<1>10. \A e \in edges : e.table \in Q
  OBVIOUS
<1>11. defined = d[n] \cup {t.table : t \in O}
  BY <1>8 DEF CleanName
<1>12. ASSUME NEW e \in edges, NamesTable(e)
       PROVE  \E w \in W : w.table = e.label /\ e.from \in w.sites
  <2> DEFINE Of(t) == {x \in edges : NamesTable(x) /\ x.label = t}
             w == [table |-> e.label, ops |-> {x.verb : x \in Of(e.label)}, sites |-> {x.from : x \in Of(e.label)}]
  <2>1. W = {[table |-> t, ops |-> {x.verb : x \in Of(t)}, sites |-> {x.from : x \in Of(t)}] :
                 t \in {x.label : x \in {y \in edges : NamesTable(y)}}}
    BY DEF CodeTables
  <2>2. e.label \in {x.label : x \in {y \in edges : NamesTable(y)}} /\ e \in Of(e.label)
    BY <1>12
  <2>3. w \in W
    <3> HIDE DEF W, Of
    <3> QED
      BY <2>1, <2>2
  <2>4. w.table = e.label /\ e.from \in w.sites
    BY <2>2
  <2> QED
    BY <2>3, <2>4
<1> HIDE DEF edges, O, F, P, Q, schema, W, defined, files
<1>13. ASSUME NEW e \in failed, told.caveats = {}
       PROVE  \/ \E w \in told.drift : w.table = e.label /\ e.from \in w.sites
              \/ told.opaque > 0 /\ ~NamesTable(e)
  <2>1. e \in edges /\ e.table \notin db /\ e.table \in Q
    BY <1>2, <1>10
  <2>2. CASE NamesTable(e)
    <3>1. e.label = e.table.table
      BY <1>1, <2>1, <2>2
    <3>2. e.label \notin d[n]
      <4> SUFFICES ASSUME e.label \in d[n] PROVE FALSE
        OBVIOUS
      <4>1. PICK t \in db : t.table = e.label
        BY <1>9, <1>13 DEF Tracks
      <4>2. t \in Q
        BY <1>5, <1>9, <1>13 DEF Tracks
      <4> QED
        BY <1>5, <2>1, <3>1, <4>1, <4>2 DEF OneNameEach
    <3>3. ASSUME NEW t \in O PROVE t.table # e.label
      <4>1. t \in Q /\ t \in db
        BY <1>2 DEF Q, O
      <4> QED
        BY <1>5, <2>1, <3>1, <4>1 DEF OneNameEach
    <3>4. e.label \notin defined
      BY <1>11, <3>2, <3>3
    <3> QED
      BY <1>4, <1>12, <2>1, <2>2, <3>4
  <2>3. CASE ~NamesTable(e)
    <3> DEFINE X == {x \in edges : ~NamesTable(x)}
    <3>1. IsFiniteSet(X) /\ X # {}
      <4>1. X \subseteq edges
        OBVIOUS
      <4>2. IsFiniteSet(X)
        BY <1>1, <4>1, FS_Subset
      <4> QED
        BY <2>1, <2>3, <4>2
    <3> HIDE DEF X
    <3>2. Cardinality(X) \in Nat /\ Cardinality(X) # 0
      BY <3>1, FS_CardinalityType, FS_EmptySet
    <3>3. told.opaque = Cardinality(X)
      BY <1>4 DEF X
    <3> QED
      BY <2>3, <3>2, <3>3
  <2> QED
    BY <2>2, <2>3
<1>14. ASSUME told.caveats = {}, NEW e \in served, NEW w \in told.drift, NamesTable(e), w.table = e.label PROVE FALSE
  <2>1. e \in edges /\ e.table \in db
    BY <1>2
  <2>2. e.label = e.table.table
    BY <1>1, <1>14, <2>1
  <2>3. e.table \in O \/ e.table.table \in d[n]
    BY <1>9, <1>14, <2>1 DEF Tracks
  <2>4. e.label \in defined
    BY <1>11, <2>2, <2>3
  <2> QED
    BY <1>4, <1>14, <2>4
<1> QED
  BY <1>13, <1>14

(* A query of a release that serves fails for want of a table              *)
(* only where the check told of it, and every table the check told of      *)
(* fails its queries: of every history of releases, however the gate is    *)
(* set, whatever the migrations and in whatever order queries come.        *)
THEOREM DriftIsRealAlways == DriftSpec => []DriftIsReal
<1>1. DriftInit => DriftInv
  BY InitDriftInv
<1>2. DriftInv /\ [DriftNext]_driftVars => DriftInv'
  BY NextDriftInv
<1>3. DriftInv => DriftIsReal
  BY DriftInvIsReal
<1> QED
  BY <1>1, <1>2, <1>3, PTL DEF DriftSpec

-----------------------------------------------------------------------------
(* Walks of a graph.                                                       *)

(* One step of a walk keeps what it has. *)
Stepped(Step, S) == UNION {{f} \cup When(f \in DOMAIN Step, Step[f]) : f \in S}

(* A walk goes on step by step. *)
LEMMA WithinIs ==
    ASSUME NEW seeds, NEW Step, NEW N \in Nat
    PROVE  /\ Within(seeds, Step, N)[0] = seeds
           /\ \A k \in 1..N : Within(seeds, Step, N)[k] = Stepped(Step, Within(seeds, Step, N)[k - 1])
<1> DEFINE U == seeds \cup (UNION {Step[f] : f \in DOMAIN Step})
           V == SUBSET U
           step == [k \in 1..N |-> [X \in V |-> Stepped(Step, X)]]
           body(w) == [k \in 0..N |-> IF k = 0 THEN seeds ELSE Stepped(Step, w[k - 1])]
<1>1. \A X \in V : Stepped(Step, X) \in V
  BY DEF Stepped, When
<1>2. seeds \in V
  OBVIOUS
<1> HIDE DEF V
<1>3. step \in [1..N -> [V -> V]]
  BY <1>1
<1>4. PICK w : Solution(w, N, V, seeds, step)
  <2> HIDE DEF step
  <2> QED
    BY <1>2, <1>3, StepsExist
<1>5. \A k \in 1..N : w[k] = Stepped(Step, w[k - 1])
  <2>1. \A k \in 1..N : k - 1 \in 0..N
    OBVIOUS
  <2>2. \A k \in 1..N : w[k - 1] \in V /\ w[k] = step[k][w[k - 1]]
    BY <1>4, <2>1 DEF Solution
  <2> QED
    BY <2>2
<1>6. w = body(w)
  BY <1>4, <1>5 DEF Solution
<1> DEFINE W == Within(seeds, Step, N)
<1>7. W = CHOOSE v : v = body(v)
  BY DEF Within, Stepped
<1> HIDE DEF body, W
<1>8. W = body(W)
  BY <1>6, <1>7
<1>9. \A k \in 1..N : k \in 0..N /\ k # 0
  OBVIOUS
<1>10. W = [k \in 0..N |-> IF k = 0 THEN seeds ELSE Stepped(Step, W[k - 1])]
  BY <1>8 DEF body
<1>11. W[0] = seeds /\ \A k \in 1..N : W[k] = Stepped(Step, W[k - 1])
  BY <1>9, <1>10
<1> QED
  BY <1>11 DEF W

(* It stays in every set that its steps do not leave. *)
LEMMA ConeInside ==
    ASSUME NEW seeds, NEW Step, NEW N \in Nat, NEW A, seeds \subseteq A,
           \A f \in A : f \in DOMAIN Step => Step[f] \subseteq A
    PROVE  \A k \in 0..N : Within(seeds, Step, N)[k] \subseteq A
<1> DEFINE W == Within(seeds, Step, N)
           K == {k \in Nat : k <= N => W[k] \subseteq A}
<1>1. W[0] = seeds /\ \A k \in 1..N : W[k] = Stepped(Step, W[k - 1])
  BY WithinIs
<1> HIDE DEF W
<1>2. 0 \in K
  BY <1>1
<1>3. ASSUME NEW k \in K PROVE k + 1 \in K
  <2>1. k \in Nat
    OBVIOUS
  <2> SUFFICES ASSUME k + 1 <= N PROVE W[k + 1] \subseteq A
    BY <2>1
  <2>2. W[k] \subseteq A /\ k + 1 \in 1..N /\ (k + 1) - 1 = k
    BY <2>1
  <2>3. W[k + 1] = Stepped(Step, W[k])
    BY <1>1, <2>2
  <2> QED
    BY <2>2, <2>3 DEF Stepped, When
<1> HIDE DEF K
<1>4. \A k \in Nat : k \in K
  BY <1>2, <1>3, Induction DEF K
<1> QED
  BY <1>4 DEF K, W

(* More seeds and more steps reach more. *)
LEMMA ConeGrows ==
    ASSUME NEW seeds, NEW Step, NEW more, NEW Steps, NEW N \in Nat, seeds \subseteq more,
           DOMAIN Step = DOMAIN Steps, \A f \in DOMAIN Step : Step[f] \subseteq Steps[f]
    PROVE  Cone(seeds, Step, N) \subseteq Cone(more, Steps, N)
<1> DEFINE W == Within(seeds, Step, N)
           X == Within(more, Steps, N)
           K == {k \in Nat : k <= N => W[k] \subseteq X[k]}
<1>1. W[0] = seeds /\ \A k \in 1..N : W[k] = Stepped(Step, W[k - 1])
  BY WithinIs
<1>2. X[0] = more /\ \A k \in 1..N : X[k] = Stepped(Steps, X[k - 1])
  BY WithinIs
<1> HIDE DEF W, X
<1>3. 0 \in K
  BY <1>1, <1>2
<1>4. ASSUME NEW k \in K PROVE k + 1 \in K
  <2>1. k \in Nat
    OBVIOUS
  <2> SUFFICES ASSUME k + 1 <= N PROVE W[k + 1] \subseteq X[k + 1]
    BY <2>1
  <2>2. W[k] \subseteq X[k] /\ k + 1 \in 1..N /\ (k + 1) - 1 = k
    BY <2>1
  <2>3. W[k + 1] = Stepped(Step, W[k]) /\ X[k + 1] = Stepped(Steps, X[k])
    BY <1>1, <1>2, <2>2
  <2>4. Stepped(Step, W[k]) \subseteq Stepped(Steps, X[k])
    BY <2>2 DEF Stepped, When
  <2> QED
    BY <2>3, <2>4
<1> HIDE DEF K
<1>5. N \in K
  BY <1>3, <1>4, Induction DEF K
<1> QED
  BY <1>5 DEF K, W, X, Cone

(* As many steps as there are elements reach all there is to reach: each   *)
(* step that is not the last adds one.                                     *)
LEMMA ConeClosed ==
    ASSUME NEW seeds, NEW Step, NEW A, IsFiniteSet(A), seeds \subseteq A,
           \A f \in A : f \in DOMAIN Step => Step[f] \subseteq A
    PROVE  /\ Cone(seeds, Step, Cardinality(A)) \subseteq A /\ seeds \subseteq Cone(seeds, Step, Cardinality(A))
           /\ \A f \in Cone(seeds, Step, Cardinality(A)) : f \in DOMAIN Step => Step[f] \subseteq Cone(seeds, Step, Cardinality(A))
<1> DEFINE N == Cardinality(A)
           W == Within(seeds, Step, N)
           closed(S) == Stepped(Step, S) = S
           K == {k \in Nat : k <= N => seeds \subseteq W[k] /\ (closed(W[k]) \/ Cardinality(W[k]) >= k)}
<1>1. N \in Nat
  BY FS_CardinalityType
<1>2. W[0] = seeds /\ \A k \in 1..N : W[k] = Stepped(Step, W[k - 1])
  BY <1>1, WithinIs
<1>3. \A k \in 0..N : W[k] \subseteq A
  BY <1>1, ConeInside
<1> HIDE DEF N, W
<1>4. \A k \in 0..N : IsFiniteSet(W[k]) /\ Cardinality(W[k]) \in Nat
  BY <1>3, FS_Subset, FS_CardinalityType
<1>5. \A S : S \subseteq Stepped(Step, S)
  BY DEF Stepped
<1>6. 0 \in K
  BY <1>1, <1>2, <1>4
<1>7. ASSUME NEW k \in K PROVE k + 1 \in K
  <2>1. k \in Nat
    OBVIOUS
  <2> SUFFICES ASSUME k + 1 <= N PROVE seeds \subseteq W[k + 1] /\ (closed(W[k + 1]) \/ Cardinality(W[k + 1]) >= k + 1)
    BY <2>1
  <2>2. k + 1 \in 1..N /\ k + 1 \in 0..N /\ k \in 0..N /\ (k + 1) - 1 = k /\ k <= N
    BY <1>1, <2>1
  <2>3. seeds \subseteq W[k] /\ (closed(W[k]) \/ Cardinality(W[k]) >= k)
    BY <2>1, <2>2
  <2>4. W[k + 1] = Stepped(Step, W[k])
    BY <1>2, <2>2
  <2>5. W[k] \subseteq W[k + 1]
    BY <1>5, <2>4
  <2>6. CASE closed(W[k])
    BY <2>3, <2>4, <2>6
  <2>7. CASE ~closed(W[k])
    <3>1. W[k] # W[k + 1]
      BY <2>4, <2>7
    <3>2. IsFiniteSet(W[k + 1]) /\ Cardinality(W[k]) \in Nat /\ Cardinality(W[k + 1]) \in Nat
      BY <1>4, <2>2
    <3>3. Cardinality(W[k]) <= Cardinality(W[k + 1]) /\ Cardinality(W[k]) # Cardinality(W[k + 1])
      BY <2>5, <3>1, <3>2, FS_Subset
    <3> HIDE DEF closed
    <3> QED
      BY <2>1, <2>3, <2>5, <2>7, <3>2, <3>3
  <2> QED
    BY <2>6, <2>7
<1> HIDE DEF K
<1>8. N \in K
  BY <1>1, <1>6, <1>7, Induction DEF K
<1>9. N \in 0..N
  BY <1>1
<1>10. seeds \subseteq W[N] /\ W[N] \subseteq A /\ (closed(W[N]) \/ Cardinality(W[N]) >= N)
  BY <1>1, <1>3, <1>8, <1>9 DEF K
<1>11. closed(W[N])
  <2>1. CASE Cardinality(W[N]) >= N
    <3>1. Cardinality(W[N]) <= N /\ (Cardinality(A) = Cardinality(W[N]) => A = W[N])
      BY <1>10, FS_Subset DEF N
    <3>2. Cardinality(W[N]) \in Nat
      BY <1>4, <1>9
    <3>3. A = W[N]
      BY <1>1, <2>1, <3>1, <3>2 DEF N
    <3>4. Stepped(Step, A) \subseteq A
      BY DEF Stepped, When
    <3> QED
      BY <1>5, <3>3, <3>4
  <2> QED
    BY <1>10, <2>1
<1>12. \A f \in W[N] : f \in DOMAIN Step => Step[f] \subseteq W[N]
  BY <1>11 DEF Stepped, When
<1> QED
  BY <1>10, <1>12 DEF N, W, Cone

-----------------------------------------------------------------------------
(* What reaches an effect.                                                 *)

Starts(g) == {e.from : e \in {x \in g.edges : x.to \notin g.nodes}}
Above(g)  == [f \in g.nodes |-> {e.from : e \in {x \in g.edges : x.to = f}}]

(* The effect reachers hold the caller of each one of them. *)
LEMMA ReachersClosed ==
    ASSUME NEW g, IsFiniteSet(g.nodes), \A e \in g.edges : e.from \in g.nodes
    PROVE  /\ EffectReachers(g) \subseteq g.nodes
           /\ \A e \in g.edges : e.to \in EffectReachers(g) \/ e.to \notin g.nodes => e.from \in EffectReachers(g)
<1> DEFINE A == g.nodes
           C == Cone(Starts(g), Above(g), Cardinality(A))
<1>1. EffectReachers(g) = C
  BY DEF EffectReachers, Starts, Above
<1>2. Starts(g) \subseteq A /\ \A f \in A : f \in DOMAIN Above(g) => Above(g)[f] \subseteq A
  BY DEF Starts, Above
<1>3. C \subseteq A /\ Starts(g) \subseteq C /\ \A f \in C : f \in DOMAIN Above(g) => Above(g)[f] \subseteq C
  BY <1>2, ConeClosed
<1> HIDE DEF C
<1>4. ASSUME NEW e \in g.edges, e.to \in C PROVE e.from \in C
  <2>1. e.to \in A
    BY <1>3, <1>4
  <2>2. e.from \in Above(g)[e.to] /\ e.to \in DOMAIN Above(g)
    BY <2>1 DEF Above
  <2> QED
    BY <1>3, <1>4, <2>2
<1>5. ASSUME NEW e \in g.edges, e.to \notin A PROVE e.from \in C
  BY <1>3, <1>5 DEF Starts
<1> QED
  BY <1>1, <1>3, <1>4, <1>5

(* More edges between the same nodes leave no fewer of them. *)
LEMMA ReachersGrow ==
    ASSUME NEW g, NEW h, IsFiniteSet(g.nodes), h.nodes = g.nodes, g.edges \subseteq h.edges
    PROVE  EffectReachers(g) \subseteq EffectReachers(h)
<1>1. EffectReachers(g) = Cone(Starts(g), Above(g), Cardinality(g.nodes))
  BY DEF EffectReachers, Starts, Above
<1>2. EffectReachers(h) = Cone(Starts(h), Above(h), Cardinality(g.nodes))
  BY DEF EffectReachers, Starts, Above
<1>3. Starts(g) \subseteq Starts(h)
  BY DEF Starts
<1>4. DOMAIN Above(g) = DOMAIN Above(h) /\ \A f \in DOMAIN Above(g) : Above(g)[f] \subseteq Above(h)[f]
  BY DEF Above
<1>5. Cardinality(g.nodes) \in Nat
  BY FS_CardinalityType
<1> QED
  BY <1>1, <1>2, <1>3, <1>4, <1>5, ConeGrows

-----------------------------------------------------------------------------
(* What the command builds of a program.                                   *)

(* A handler is a function of the program. *)
LEMMA HandlerIs ==
    ASSUME NEW p \in BuildPrograms, NEW h \in p.fns
    PROVE  Handler(p, h) \in p.fns
<1> DEFINE Forwards(g) == \E i \in SitesOf(p, h) : SiteAt(p, h, i).do = "call" /\ g \in SiteAt(p, h, i).to
<1>1. CASE Wrapper(p, h) /\ \E i \in SitesOf(p, h) : SiteAt(p, h, i).do = "call"
  <2>1. PICK i \in SitesOf(p, h) : SiteAt(p, h, i).do = "call"
    BY <1>1
  <2>2. SiteAt(p, h, i).to \cap p.fns # {}
    BY <2>1, BuildProgramsOK DEF ProgramOK
  <2>3. \E g \in p.fns : Forwards(g)
    BY <2>1, <2>2
  <2>4. Handler(p, h) = CHOOSE g \in p.fns : Forwards(g)
    BY <1>1 DEF Handler
  <2> HIDE DEF Forwards
  <2> QED
    BY <2>3, <2>4
<1>2. CASE ~(Wrapper(p, h) /\ \E i \in SitesOf(p, h) : SiteAt(p, h, i).do = "call")
  BY <1>2 DEF Handler
<1> QED
  BY <1>1, <1>2

(* The image of a finite set under a function is finite, and no larger. *)
LEMMA ImageCount ==
    ASSUME NEW S, IsFiniteSet(S), NEW f, DOMAIN f = S
    PROVE  IsFiniteSet({f[x] : x \in S}) /\ Cardinality({f[x] : x \in S}) <= Cardinality(S)
<1> DEFINE T == {f[x] : x \in S}
           g == [x \in S |-> f[x]]
<1>1. g \in Surjection(S, T)
  BY DEF Surjection
<1> QED
  BY <1>1, FS_Surjection

(* The entry points are functions of the program, and finitely many. *)
LEMMA DiscoverIs ==
    ASSUME NEW p \in BuildPrograms
    PROVE  IsFiniteSet(Discover(p)) /\ \A r \in Discover(p) : r.fn \in p.fns
<1>1. /\ IsFiniteSet(p.fns) /\ IsFiniteSet(p.regs) /\ IsFiniteSet(p.declared)
      /\ p.mains \subseteq p.fns /\ p.exported \subseteq p.fns
      /\ \A r \in p.regs : r.handler \in p.fns \cup {""}
  BY BuildProgramsOK DEF ProgramOK
<1>2. ASSUME NEW kind, NEW F \in SUBSET p.fns
      PROVE  IsFiniteSet(Unnamed(kind, F)) /\ \A r \in Unnamed(kind, F) : r.fn \in p.fns
  <2> DEFINE f == [x \in F |-> [kind |-> kind, name |-> "", fn |-> x]]
  <2>1. IsFiniteSet(F)
    BY <1>1, FS_Subset
  <2>2. Unnamed(kind, F) = {f[x] : x \in F} /\ DOMAIN f = F
    BY DEF Unnamed
  <2> HIDE DEF f
  <2>3. IsFiniteSet(Unnamed(kind, F))
    BY <2>1, <2>2, ImageCount
  <2>4. ASSUME NEW r \in Unnamed(kind, F) PROVE r.fn \in p.fns
    <3>1. PICK x \in F : r = [kind |-> kind, name |-> "", fn |-> x]
      BY DEF Unnamed
    <3> QED
      BY <3>1
  <2> QED
    BY <2>3, <2>4
<1>3. IsFiniteSet(RegistrationRoots(p)) /\ \A r \in RegistrationRoots(p) : r.fn \in p.fns
  <2> DEFINE S == {x \in p.regs : x.handler # ""}
             f == [x \in S |-> [kind |-> x.kind, name |-> x.name, fn |-> Handler(p, x.handler)]]
  <2>1. IsFiniteSet(S)
    BY <1>1, FS_Subset
  <2>2. RegistrationRoots(p) = {f[x] : x \in S} /\ DOMAIN f = S
    BY DEF RegistrationRoots
  <2> HIDE DEF f, S
  <2>3. IsFiniteSet(RegistrationRoots(p))
    BY <2>1, <2>2, ImageCount
  <2>4. \A x \in S : Handler(p, x.handler) \in p.fns
    BY <1>1, HandlerIs DEF S
  <2>5. ASSUME NEW r \in RegistrationRoots(p) PROVE r.fn \in p.fns
    <3>1. PICK x \in S : r = [kind |-> x.kind, name |-> x.name, fn |-> Handler(p, x.handler)]
      BY DEF RegistrationRoots, S
    <3> QED
      BY <2>4, <3>1
  <2> QED
    BY <2>3, <2>5
<1>4. IsFiniteSet(DeclaredRoots(p)) /\ \A r \in DeclaredRoots(p) : r.fn \in p.fns
  <2> DEFINE S == {x \in p.declared : x.fn \in p.fns}
             f == [x \in S |-> [kind |-> x.kind, name |-> x.fn, fn |-> x.fn]]
  <2>1. IsFiniteSet(S)
    BY <1>1, FS_Subset
  <2>2. DeclaredRoots(p) = {f[x] : x \in S} /\ DOMAIN f = S
    BY DEF DeclaredRoots
  <2> HIDE DEF f
  <2>3. IsFiniteSet(DeclaredRoots(p))
    BY <2>1, <2>2, ImageCount
  <2> QED
    BY <2>3 DEF DeclaredRoots
<1> DEFINE M == Unnamed("main", p.mains)
           I == Unnamed("init", {f \in p.fns : p.kind[f] = "init"})
           E == Unnamed("export", p.exported)
           R == M \cup I \cup RegistrationRoots(p) \cup DeclaredRoots(p)
<1>5. IsFiniteSet(M) /\ IsFiniteSet(I) /\ IsFiniteSet(E)
      /\ (\A r \in M : r.fn \in p.fns) /\ (\A r \in I : r.fn \in p.fns) /\ \A r \in E : r.fn \in p.fns
  <2>1. {f \in p.fns : p.kind[f] = "init"} \in SUBSET p.fns
    OBVIOUS
  <2> QED
    BY <1>1, <1>2, <2>1
<1> HIDE DEF M, I, E
<1>6. IsFiniteSet(R) /\ \A r \in R : r.fn \in p.fns
  <2>1. IsFiniteSet(M \cup I)
    BY <1>5, FS_Union
  <2>2. IsFiniteSet(M \cup I \cup RegistrationRoots(p))
    BY <1>3, <2>1, FS_Union
  <2>3. IsFiniteSet(R)
    BY <1>4, <2>2, FS_Union
  <2> QED
    BY <1>3, <1>4, <1>5, <2>3
<1>7. Discover(p) = IF HasPrimaryRoot(R) THEN R ELSE R \cup E
  BY DEF Discover, M, I, E
<1> HIDE DEF R
<1>8. IsFiniteSet(R \cup E)
  BY <1>5, <1>6, FS_Union
<1> QED
  BY <1>5, <1>6, <1>7, <1>8

(* The call graph has functions of the program only. *)
LEMMA NodesAre ==
    ASSUME NEW p \in BuildPrograms
    PROVE  AllNodes(p) \subseteq p.fns
<1>1. IsFiniteSet(p.fns) /\ \A f \in p.fns : \A i \in SitesOf(p, f) : SeenCallees(p, f, i) \subseteq p.fns
  BY BuildProgramsOK DEF ProgramOK
<1> DEFINE seeds == {r.fn : r \in Discover(p)}
<1>2. seeds \subseteq p.fns
  BY DiscoverIs
<1>3. \A f \in p.fns : f \in DOMAIN CallsOf(p) => CallsOf(p)[f] \subseteq p.fns
  BY <1>1 DEF CallsOf
<1>4. Cone(seeds, CallsOf(p), Cardinality(p.fns)) \subseteq p.fns
  BY <1>1, <1>2, <1>3, ConeClosed
<1> QED
  BY <1>4 DEF AllNodes, CallGraph

(* An edge of a node starts in the graph. *)
LEMMA EdgesStart ==
    ASSUME NEW p, NEW nodes, NEW own, NEW fold, NEW f \in own
    PROVE  \A e \in EdgesOf(p, nodes, own, fold, f) : e.from \in own
<1> DEFINE Ok(E) == \A e \in E : e.from \in own
           Site(w, s) == IF s.do = "effect" THEN EffectEdges(p, nodes, own, fold, f, w, s)
                         ELSE {CallEdge(f, c, "") : c \in When(s.do \in {"call", "iface", "value", "param", "loop", "serve"}, s.seen) \cap own}
           Through(s) == UNION {Spliced(p, c) : c \in {x \in s.seen : Wrapper(p, x)}}
           Whole(s) == Site(f, s) \cup (UNION {UNION {Site(w, SiteAt(p, w, j)) : j \in SitesOf(p, w)} : w \in Through(s)})
<1>1. \A x \in PassthroughReattribute(p, nodes, own, f) : x[1] \in own
  BY DEF PassthroughReattribute, When
<1>2. \A w, s : Ok(EffectEdges(p, nodes, own, fold, f, w, s))
  <2> SUFFICES ASSUME NEW w, NEW s, NEW e \in EffectEdges(p, nodes, own, fold, f, w, s) PROVE e.from \in own
    OBVIOUS
  <2> DEFINE Again == When(fold /\ s.on = "db" /\ s.how = "param" /\ f = w, PassthroughReattribute(p, nodes, own, f))
  <2>1. \A x \in Again : x[1] \in own
    BY <1>1 DEF When
  <2>2. e \in IF Again # {} THEN {CallEdge(x[1], x[2], "") : x \in Again} ELSE {CallEdge(f, LabelOfSite(s, fold), "")}
    BY DEF EffectEdges
  <2> HIDE DEF Again
  <2>3. CASE Again # {}
    <3>1. PICK x \in Again : e = CallEdge(x[1], x[2], "")
      BY <2>2, <2>3
    <3>2. e.from = x[1]
      BY <3>1 DEF CallEdge
    <3> QED
      BY <2>1, <3>2
  <2>4. CASE Again = {}
    <3>1. e = CallEdge(f, LabelOfSite(s, fold), "")
      BY <2>2, <2>4
    <3> QED
      BY <3>1 DEF CallEdge
  <2> QED
    BY <2>3, <2>4
<1>3. \A w, s : Ok(Site(w, s))
  <2>1. ASSUME NEW C, NEW e \in {CallEdge(f, c, "") : c \in C} PROVE e.from \in own
    <3>1. PICK c \in C : e = CallEdge(f, c, "")
      OBVIOUS
    <3> QED
      BY <3>1 DEF CallEdge
  <2> SUFFICES ASSUME NEW w, NEW s PROVE Ok(Site(w, s))
    OBVIOUS
  <2>2. CASE s.do = "effect"
    BY <1>2, <2>2
  <2>3. CASE s.do # "effect"
    BY <2>1, <2>3
  <2> QED
    BY <2>2, <2>3
<1> HIDE DEF Site
<1>4. \A s : Ok(Whole(s))
  <2> HIDE DEF Through
  <2> QED
    BY <1>3
<1>5. EdgesOf(p, nodes, own, fold, f) = UNION {Whole(SiteAt(p, f, i)) : i \in SitesOf(p, f)}
  BY DEF EdgesOf, Site
<1> HIDE DEF Whole
<1> QED
  BY <1>4, <1>5

-----------------------------------------------------------------------------
(* The frontier, read from the graph.                                      *)

Severed(p, g) == {c \in g.nodes : /\ \A e \in g.edges : e.to # c
                                  /\ IsClosure(p, c) /\ p.parent[c] \in g.nodes
                                  /\ c \in EffectReachers(g)}
BinOf(g, C) == IF C \cap g.reclaimable # {} THEN "B" ELSE "A"
OwnedBy(p, g, f) == {c \in Severed(p, g) : p.parent[c] = f}
Routes(g) == {r \in g.entries : r.kind \in {"http", "consumer"}}

SeveredMarker(p, g, c) == Marker("severed-closure", BinOf(g, {c}), c, p.parent[c])
StarvedMarker(p, g, r) == Marker("starved-entrypoint", BinOf(g, OwnedBy(p, g, r.fn)), r.fn, r.name)

(* Markers that say this of the closures and the entry points of a graph. *)
Says(p, g, M) ==
    /\ \A c \in Severed(p, g) : SeveredMarker(p, g, c) \in M
    /\ \A m \in M : m.kind = "severed-closure" => \E c \in Severed(p, g) : m = SeveredMarker(p, g, c)
    /\ \A m \in M : m.kind = "starved-entrypoint" => \E r \in Routes(g) : m = StarvedMarker(p, g, r)

(* The frontier of a graph says that of it. *)
LEMMA FrontierSays ==
    ASSUME NEW p, NEW g, \A s \in g.spots : Recognized(s.kind)
    PROVE  Says(p, g, ClassifyFrontier(p, g).markers)
<1> DEFINE reaches == EffectReachers(g)
           Silent    == {r \in g.entries : r.kind \in {"http", "consumer"} /\ r.fn \notin reaches}
           Unreadable == {IF e.to = "opaque" THEN Marker("opaque-db", "B2", e.to, e.from) ELSE Marker("dynamic-bus", "A", e.to, e.from) :
                              e \in {x \in g.edges : x.to \in Unread}}
           Cut     == {Marker("severed-closure", BinOf(g, {c}), c, p.parent[c]) : c \in Severed(p, g)}
           Starved == {Marker("starved-entrypoint", BinOf(g, OwnedBy(p, g, r.fn)), r.fn, r.name) : r \in {x \in Silent : OwnedBy(p, g, x.fn) # {}}}
           Marked    == {m.site : m \in Unreadable \cup Cut \cup Starved}
           Disclosed == {s \in g.spots : /\ ~Ratified(s.kind) /\ ~IsDisclosureOnlyFrontier(s.kind)
                                         /\ ~(AlgoFragile(s.kind) /\ s.site \in Marked)}
           SpotBin(s) == IF s.kind = "UnresolvedCall" /\ s.site \in {x.site : x \in g.chain.empty} THEN "B" ELSE BlindSpotBin(s.kind)
           Spots   == {Marker(s.kind, SpotBin(s), s.site, "") : s \in Disclosed}
           M       == ClassifyFrontier(p, g).markers
<1>1. M = Unreadable \cup Cut \cup Starved \cup Spots
  BY DEF ClassifyFrontier, Severed, BinOf, OwnedBy
<1>2. ASSUME NEW m \in Unreadable PROVE m.kind \notin {"severed-closure", "starved-entrypoint"}
  <2>1. PICK e \in g.edges : m = IF e.to = "opaque" THEN Marker("opaque-db", "B2", e.to, e.from) ELSE Marker("dynamic-bus", "A", e.to, e.from)
    OBVIOUS
  <2> QED
    BY <2>1 DEF Marker
<1>3. ASSUME NEW m \in Spots PROVE m.kind \notin {"severed-closure", "starved-entrypoint"}
  <2>1. PICK s \in g.spots : m = Marker(s.kind, SpotBin(s), s.site, "")
    OBVIOUS
  <2>2. m.kind = s.kind
    BY <2>1 DEF Marker
  <2> QED
    BY <2>2 DEF Recognized, Kinds
<1>4. ASSUME NEW m \in Cut PROVE m.kind = "severed-closure" /\ \E c \in Severed(p, g) : m = SeveredMarker(p, g, c)
  <2>1. PICK c \in Severed(p, g) : m = SeveredMarker(p, g, c)
    BY DEF SeveredMarker
  <2> QED
    BY <2>1 DEF SeveredMarker, Marker
<1>5. ASSUME NEW m \in Starved PROVE m.kind = "starved-entrypoint" /\ \E r \in Routes(g) : m = StarvedMarker(p, g, r)
  <2>1. PICK r \in {x \in Silent : OwnedBy(p, g, x.fn) # {}} : m = StarvedMarker(p, g, r)
    BY DEF StarvedMarker
  <2>2. r \in Routes(g)
    BY DEF Routes
  <2>3. m.kind = "starved-entrypoint"
    BY <2>1 DEF StarvedMarker, Marker
  <2> QED
    BY <2>1, <2>2, <2>3
<1>6. \A c \in Severed(p, g) : SeveredMarker(p, g, c) \in Cut
  BY DEF SeveredMarker
<1> HIDE DEF Unreadable, Cut, Starved, Spots, M
<1>7. \A c \in Severed(p, g) : SeveredMarker(p, g, c) \in M
  BY <1>1, <1>6
<1>8. \A m \in M : m.kind = "severed-closure" => \E c \in Severed(p, g) : m = SeveredMarker(p, g, c)
  <2> SUFFICES ASSUME NEW m \in M, m.kind = "severed-closure" PROVE m \in Cut
    BY <1>4
  <2> QED
    BY <1>1, <1>2, <1>3, <1>5
<1>9. \A m \in M : m.kind = "starved-entrypoint" => \E r \in Routes(g) : m = StarvedMarker(p, g, r)
  <2> SUFFICES ASSUME NEW m \in M, m.kind = "starved-entrypoint" PROVE m \in Starved
    BY <1>5
  <2> QED
    BY <1>1, <1>2, <1>3, <1>4
<1> QED
  BY <1>7, <1>8, <1>9 DEF Says, M

(* What is said is read from these parts of the graph alone. *)
SameParts(g, h) ==
    g.nodes = h.nodes /\ g.edges = h.edges /\ g.entries = h.entries /\ g.reclaimable = h.reclaimable

(* Graphs that share those parts say the same. *)
LEMMA SaysSame ==
    ASSUME NEW p, NEW g, NEW h, NEW M, IsFiniteSet(g.nodes), SameParts(g, h), Says(p, g, M)
    PROVE  Says(p, h, M)
<1>1. EffectReachers(h) = EffectReachers(g)
  <2>1. IsFiniteSet(h.nodes) /\ h.nodes = g.nodes /\ g.nodes = h.nodes /\ g.edges \subseteq h.edges /\ h.edges \subseteq g.edges
    BY DEF SameParts
  <2>2. EffectReachers(g) \subseteq EffectReachers(h) /\ EffectReachers(h) \subseteq EffectReachers(g)
    BY <2>1, ReachersGrow
  <2> QED
    BY <2>2
<1>2. Severed(p, h) = Severed(p, g)
  BY <1>1 DEF Severed, SameParts
<1>3. \A C : BinOf(h, C) = BinOf(g, C)
  BY DEF BinOf, SameParts
<1>4. \A f : OwnedBy(p, h, f) = OwnedBy(p, g, f)
  BY <1>2 DEF OwnedBy
<1>5. Routes(h) = Routes(g)
  BY DEF Routes, SameParts
<1>6. (\A c : SeveredMarker(p, h, c) = SeveredMarker(p, g, c)) /\ \A r : StarvedMarker(p, h, r) = StarvedMarker(p, g, r)
  BY <1>3, <1>4 DEF SeveredMarker, StarvedMarker
<1> QED
  BY <1>2, <1>5, <1>6 DEF Says

-----------------------------------------------------------------------------
(* What holds of a whole graph as it is built.                             *)

Whole(p, g) ==
    /\ IsFiniteSet(g.nodes) /\ \A e \in g.edges : e.from \in g.nodes
    /\ IsFiniteSet(g.entries) /\ \A s \in g.spots : Recognized(s.kind)
    /\ g.reclaimable = {e.to : e \in ReclaimEdges(p, AllNodes(p), g.nodes)}

BuiltFields == {"stage", "applied", "entry", "nodes", "spots", "edges", "entries", "notes", "reclaimable", "chain", "frontier"}

(* Every blind spot has a kind that the program knows; a build with a seam *)
(* of another kind fails.                                                  *)
LEMMA SpotsRecognized ==
    ASSUME NEW p, NEW nodes, \A d \in p.seams : Recognized(DeclaredKind(d))
    PROVE  \A s \in ManifestOf(p, nodes) : Recognized(s.kind)
<1> DEFINE Known == {"NonConstantBoundaryArg", "UnresolvedDispatch", "UnresolvedCall", "ConcurrentDispatch", "ExternalBoundaryCall",
                     "Reflect", "HighFanOut", "Linkname"}
<1>1. ASSUME NEW k \in Known, NEW site, NEW type PROVE Recognized(BlindSpot(k, site, type).kind)
  BY DEF BlindSpot, Recognized, Kinds
<1> HIDE DEF Known
<1>2. ASSUME NEW f, NEW s \in UnresolvedFuncValueCalls(p, f) PROVE Recognized(s.kind)
  <2>1. PICK x : s = BlindSpot(IF x.conc THEN "ConcurrentDispatch" ELSE "UnresolvedCall", f, x.type)
    BY DEF UnresolvedFuncValueCalls
  <2>2. (IF x.conc THEN "ConcurrentDispatch" ELSE "UnresolvedCall") \in Known
    BY DEF Known
  <2> QED
    BY <1>1, <2>1, <2>2
<1>3. ASSUME NEW f, NEW x, NEW s \in SiteSpots(p, f, x) PROVE Recognized(s.kind)
  <2>1. \E k \in Known : \E type : s = BlindSpot(k, f, type)
    <3>1. CASE s = BlindSpot("NonConstantBoundaryArg", f, "") \/ s = BlindSpot("Reflect", f, "") \/ s = BlindSpot("HighFanOut", f, "")
      BY <3>1 DEF Known
    <3>2. CASE s \in {BlindSpot("ExternalBoundaryCall", f, c) : c \in {y \in x.seen : IsExternalBoundary(p, y)}}
      BY <3>2 DEF Known
    <3> QED
      BY <3>1, <3>2 DEF SiteSpots, When
  <2> QED
    BY <1>1, <2>1
<1>4. ASSUME NEW s \in PackageDisclosures(p) PROVE Recognized(s.kind)
  <2>1. PICK f : s = BlindSpot("Linkname", p.pkg[f], "")
    BY DEF PackageDisclosures
  <2> QED
    BY <1>1, <2>1 DEF Known
<1>5. ASSUME NEW s \in Detect(p, nodes) PROVE Recognized(s.kind)
  <2> DEFINE Roots == {BlindSpot("UnresolvedDispatch", r.kind, "") : r \in RootSpots(p)}
             Of(f) == UnresolvedFuncValueCalls(p, f) \cup (UNION {SiteSpots(p, f, SiteAt(p, f, i)) : i \in SitesOf(p, f)})
             F == {g \in nodes : FirstParty(p, g) /\ p.kind[g] # "init"}
  <2>1. Detect(p, nodes) = Roots \cup (UNION {Of(f) : f \in F}) \cup PackageDisclosures(p)
    BY DEF Detect
  <2>2. CASE s \in Roots
    BY <1>1, <2>2 DEF Known
  <2>3. ASSUME NEW f, s \in Of(f) PROVE Recognized(s.kind)
    BY <1>2, <1>3, <2>3
  <2> HIDE DEF Roots, Of, F
  <2> QED
    BY <1>4, <2>1, <2>2, <2>3
<1>6. ASSUME NEW D, NEW s \in Declared(p, D) PROVE Recognized(s.kind)
  <2>1. PICK d \in p.seams : s = BlindSpot(DeclaredKind(d), d.site, "")
    BY DEF Declared
  <2>2. s.kind = DeclaredKind(d)
    BY <2>1 DEF BlindSpot
  <2> QED
    BY <2>2
<1> QED
  BY <1>5, <1>6 DEF ManifestOf

(* The command builds a whole graph, and its frontier says what it is. *)
LEMMA BuildGraphIs ==
    ASSUME NEW p \in BuildPrograms, NEW entry, NEW fold, NEW g, g = BuildGraph(p, entry, fold), g.stage = "built"
    PROVE  /\ DOMAIN g = BuiltFields /\ g.applied = {} /\ g.entry = entry
           /\ entry = "" => Whole(p, g) /\ Says(p, g, g.frontier.markers)
<1> DEFINE R    == Discover(p)
           all  == AllNodes(p)
           spots == ManifestOf(p, all)
           own == IF entry = "" THEN FirstPartyScope(p, all)
                    ELSE ReachableFirstParty(p, CHOOSE f \in EntryRoots(R, entry) : TRUE)
           a == Assembled(p, R, all, own, spots, entry, fold)
<1>1. g = IF BuildFails(p, R, spots, entry) THEN [stage |-> "failed"] ELSE WithFrontier(p, a)
  BY DEF BuildGraph, AllNodes
<1>2. ~BuildFails(p, R, spots, entry) /\ g = WithFrontier(p, a)
  <2> HIDE DEF a, R, spots
  <2> QED
    BY <1>1
<1> HIDE DEF R, all, spots, own
<1>3. /\ DOMAIN a = BuiltFields /\ a.applied = {} /\ a.entry = entry /\ a.nodes = own /\ a.spots = spots
      /\ a.edges = UNION {EdgesOf(p, all, own, fold, f) : f \in own}
      /\ a.entries = (IF entry # "" THEN {}
                      ELSE {r \in R : r.name # "" /\ r.fn \in own /\ r.kind \in {"http", "consumer", "callback", "worker"}})
      /\ a.reclaimable = {e.to : e \in ReclaimEdges(p, all, own)}
  BY DEF Assembled, BuiltFields
<1> HIDE DEF a
<1> DEFINE F == IF a.entry = "" THEN FrontierSection(ClassifyFrontier(p, a)) ELSE NoFrontier
<1>4. g = [a EXCEPT !.frontier = F]
  BY <1>2 DEF WithFrontier
<1> HIDE DEF F
<1>5. /\ DOMAIN g = BuiltFields /\ g.applied = {} /\ g.entry = entry /\ SameParts(a, g) /\ g.spots = a.spots /\ g.frontier = F
  BY <1>3, <1>4 DEF BuiltFields, SameParts
<1>6. ASSUME entry = "" PROVE Whole(p, g) /\ Says(p, g, g.frontier.markers)
  <2>1. own \subseteq p.fns
    <3>1. own = FirstPartyScope(p, all)
      BY <1>6 DEF own
    <3> QED
      BY <3>1, NodesAre DEF FirstPartyScope, all
  <2>2. IsFiniteSet(own)
    BY <2>1, BuildProgramsOK, FS_Subset DEF ProgramOK
  <2>3. ASSUME NEW e \in a.edges PROVE e.from \in own
    <3>1. PICK f \in own : e \in EdgesOf(p, all, own, fold, f)
      BY <1>3
    <3> QED
      BY <3>1, EdgesStart
  <2>4. IsFiniteSet(a.entries)
    <3>1. IsFiniteSet(R) /\ a.entries \subseteq R
      BY <1>3, <1>6, DiscoverIs DEF R
    <3> QED
      BY <3>1, FS_Subset
  <2>5. \A s \in spots : Recognized(s.kind)
    BY <1>2, SpotsRecognized DEF BuildFails, spots
  <2>6. Whole(p, g)
    BY <1>3, <1>5, <2>2, <2>3, <2>4, <2>5 DEF Whole, SameParts, all
  <2>7. Says(p, a, ClassifyFrontier(p, a).markers)
    BY <1>3, <2>5, FrontierSays
  <2>8. g.frontier.markers = ClassifyFrontier(p, a).markers
    <3>1. F = FrontierSection(ClassifyFrontier(p, a))
      BY <1>3, <1>6 DEF F
    <3>2. \A r : FrontierSection(r).markers = r.markers
      BY DEF FrontierSection
    <3> QED
      BY <1>5, <3>1, <3>2
  <2>9. Says(p, g, ClassifyFrontier(p, a).markers)
    BY <1>3, <1>5, <2>2, <2>7, SaysSame
  <2> QED
    BY <2>6, <2>8, <2>9
<1> QED
  BY <1>5, <1>6

(* The report counts no more starved entry points than there are. *)
LEMMA StarvedShare ==
    ASSUME NEW p, NEW g, IsFiniteSet(g.entries), \A s \in g.spots : Recognized(s.kind)
    PROVE  FrontierReport(p, g).starved <= FrontierReport(p, g).entrypoints
<1> DEFINE M == ClassifyFrontier(p, g).markers
           T == {m \in M : m.kind = "starved-entrypoint"}
           f == [r \in Routes(g) |-> StarvedMarker(p, g, r)]
           I == {f[r] : r \in Routes(g)}
<1>1. IsFiniteSet(Routes(g)) /\ Cardinality(Routes(g)) \in Nat
  <2>1. Routes(g) \subseteq g.entries
    BY DEF Routes
  <2> QED
    BY <2>1, FS_Subset, FS_CardinalityType
<1>2. IsFiniteSet(I) /\ Cardinality(I) <= Cardinality(Routes(g))
  <2>1. DOMAIN f = Routes(g)
    OBVIOUS
  <2> HIDE DEF f
  <2> QED
    BY <1>1, <2>1, ImageCount
<1>3. T \subseteq I
  <2>1. Says(p, g, M)
    BY FrontierSays
  <2> HIDE DEF M
  <2> QED
    BY <2>1 DEF Says
<1> HIDE DEF I
<1>4. Cardinality(T) <= Cardinality(I) /\ Cardinality(T) \in Nat /\ Cardinality(I) \in Nat
  BY <1>2, <1>3, FS_Subset, FS_CardinalityType
<1>5. FrontierReport(p, g).starved = Cardinality(T) /\ FrontierReport(p, g).entrypoints = Cardinality(Routes(g))
  BY DEF FrontierReport, Summarize, RouteEntrypointCount, Routes
<1> HIDE DEF T
<1> QED
  BY <1>1, <1>2, <1>4, <1>5

-----------------------------------------------------------------------------
(* What a reclaimed edge does to what was said.                            *)

(* A closure that a reclaimer connects is connected by the function it is  *)
(* in.                                                                     *)
LEMMA ReclaimedByParent ==
    ASSUME NEW p \in BuildPrograms, NEW nodes, NEW e \in ReclaimEdges(p, AllNodes(p), nodes), IsClosure(p, e.to)
    PROVE  e.from = p.parent[e.to] /\ e.from \in nodes /\ e.to \in nodes
<1> DEFINE all == AllNodes(p)
<1>1. (e \in StrictServer(p, all) \/ e \in TxClosure(p, all)) /\ e.from \in nodes /\ e.to \in nodes
  BY DEF ReclaimEdges
<1>2. CASE e \in StrictServer(p, all)
  <2>1. PICK f \in all : \E i \in SitesOf(p, f) :
            p.parent[SiteAt(p, f, i).init] = f /\ e = CallEdge(f, SiteAt(p, f, i).init, "strict-server")
    BY <1>2 DEF StrictServer
  <2>2. PICK i \in SitesOf(p, f) :
            p.parent[SiteAt(p, f, i).init] = f /\ e = CallEdge(f, SiteAt(p, f, i).init, "strict-server")
    BY <2>1
  <2>3. e.from = f /\ e.to = SiteAt(p, f, i).init
    BY <2>2 DEF CallEdge
  <2> QED
    BY <1>1, <2>2, <2>3
<1>3. CASE e \in TxClosure(p, all)
  <2>1. PICK f \in all : \E i \in SitesOf(p, f) : \E c \in ClosureFn(p, SiteAt(p, f, i)) : e = CallEdge(f, c, "tx-closure")
    BY <1>3 DEF TxClosure
  <2>2. PICK i \in SitesOf(p, f) : \E c \in ClosureFn(p, SiteAt(p, f, i)) : e = CallEdge(f, c, "tx-closure")
    BY <2>1
  <2>7. PICK c \in ClosureFn(p, SiteAt(p, f, i)) : e = CallEdge(f, c, "tx-closure")
    BY <2>2
  <2>3. e.from = f /\ e.to = c
    BY <2>7 DEF CallEdge
  <2>4. c = SiteAt(p, f, i).arg /\ c \in p.fns
    BY <2>7 DEF ClosureFn, When
  <2>5. f \in p.fns
    BY <2>1, NodesAre
  <2>6. p.parent[c] = f
    <3>1. \A x \in {SiteAt(p, f, i).arg} \cap p.fns : IsClosure(p, x) => p.parent[x] = f
      BY <2>2, <2>5, BuildProgramsOK DEF ProgramOK
    <3> QED
      BY <2>3, <2>4, <3>1
  <2> QED
    BY <1>1, <2>3, <2>6
<1> QED
  BY <1>1, <1>2, <1>3

(* The promise, of a graph before and after. *)
KeepsPromise(M, g, h, N) ==
    \A m \in M : /\ m.kind = "severed-closure" => (m.bin = "B" <=> m \notin N)
                 /\ m.kind = "starved-entrypoint" /\ m.bin = "B" => m.site \in EffectReachers(h)

(* The pass keeps what the frontier of the built graph promises. *)
LEMMA ReclaimKeeps ==
    ASSUME NEW p \in BuildPrograms, NEW g, NEW h, NEW M, NEW N, Whole(p, g), Says(p, g, M), Says(p, h, N),
           h.nodes = g.nodes, h.reclaimable = g.reclaimable,
           h.edges = Folded(g, ReclaimEdges(p, AllNodes(p), g.nodes))
    PROVE  KeepsPromise(M, g, h, N)
<1> DEFINE E == ReclaimEdges(p, AllNodes(p), g.nodes)
<1>1. g.edges \subseteq h.edges /\ \A e \in h.edges : e \in g.edges \/ e \in E
  BY DEF Folded
<1>2. \A e \in E : e.from \in g.nodes /\ e.to \in g.nodes
  BY DEF ReclaimEdges
<1>3. \A e \in E : \E x \in h.edges : x.from = e.from /\ x.to = e.to
  <2> SUFFICES ASSUME NEW e \in E PROVE \E x \in h.edges : x.from = e.from /\ x.to = e.to
    OBVIOUS
  <2>1. CASE \E x \in g.edges : x.from = e.from /\ x.to = e.to
    BY <1>1, <2>1
  <2>2. CASE ~\E x \in g.edges : x.from = e.from /\ x.to = e.to
    <3>1. e \in h.edges
      BY <1>2, <2>2 DEF Folded
    <3> QED
      BY <3>1
  <2> QED
    BY <2>1, <2>2
<1>4. \A c : c \in g.reclaimable <=> \E e \in E : e.to = c
  BY DEF Whole
<1> HIDE DEF E
<1>5. IsFiniteSet(h.nodes) /\ \A e \in h.edges : e.from \in h.nodes
  BY <1>1, <1>2 DEF Whole
<1>6. EffectReachers(g) \subseteq EffectReachers(h)
  BY <1>1, ReachersGrow DEF Whole
<1>7. \A c : (BinOf(g, {c}) = "B" <=> c \in g.reclaimable) /\ BinOf(h, {c}) = BinOf(g, {c})
  BY DEF BinOf
<1>8. ASSUME NEW c \in Severed(p, g), c \in g.reclaimable PROVE c \notin Severed(p, h)
  BY <1>3, <1>4, <1>8 DEF Severed
<1>9. ASSUME NEW c \in Severed(p, g), c \notin g.reclaimable PROVE c \in Severed(p, h)
  <2>1. \A e \in h.edges : e.to # c
    BY <1>1, <1>4, <1>9 DEF Severed
  <2> QED
    BY <1>6, <2>1 DEF Severed
<1>10. ASSUME NEW m \in M, m.kind = "severed-closure" PROVE m.bin = "B" <=> m \notin N
  <2>1. PICK c \in Severed(p, g) : m = SeveredMarker(p, g, c)
    BY <1>10 DEF Says
  <2>2. m.bin = BinOf(g, {c}) /\ m.site = c
    BY <2>1 DEF SeveredMarker, Marker
  <2>3. CASE c \in g.reclaimable
    <3>1. m.bin = "B" /\ c \notin Severed(p, h)
      BY <1>7, <1>8, <2>2, <2>3
    <3>2. m \notin N
      <4> SUFFICES ASSUME m \in N PROVE FALSE
        OBVIOUS
      <4>1. PICK d \in Severed(p, h) : m = SeveredMarker(p, h, d)
        BY <1>10 DEF Says
      <4>2. m.site = d
        BY <4>1 DEF SeveredMarker, Marker
      <4> QED
        BY <2>2, <3>1, <4>2
    <3> QED
      BY <3>1, <3>2
  <2>4. CASE c \notin g.reclaimable
    <3>1. m.bin # "B" /\ c \in Severed(p, h)
      BY <1>7, <1>9, <2>2, <2>4
    <3>2. SeveredMarker(p, h, c) = m
      BY <1>7, <2>1 DEF SeveredMarker
    <3>3. m \in N
      BY <3>1, <3>2 DEF Says
    <3> QED
      BY <3>1, <3>3
  <2> QED
    BY <2>3, <2>4
<1>11. ASSUME NEW m \in M, m.kind = "starved-entrypoint", m.bin = "B" PROVE m.site \in EffectReachers(h)
  <2>1. PICK r \in Routes(g) : m = StarvedMarker(p, g, r)
    BY <1>11 DEF Says
  <2>2. m.site = r.fn /\ BinOf(g, OwnedBy(p, g, r.fn)) = "B"
    BY <1>11, <2>1 DEF StarvedMarker, Marker
  <2>3. PICK c \in OwnedBy(p, g, r.fn) : c \in g.reclaimable
    BY <2>2 DEF BinOf
  <2>4. c \in Severed(p, g) /\ p.parent[c] = r.fn
    BY <2>3 DEF OwnedBy
  <2>5. IsClosure(p, c) /\ c \in EffectReachers(h)
    BY <1>6, <2>4 DEF Severed
  <2>6. PICK e \in E : e.to = c
    BY <1>4, <2>3
  <2>7. e.from = r.fn
    BY <2>4, <2>5, <2>6, ReclaimedByParent DEF E
  <2>8. PICK x \in h.edges : x.from = r.fn /\ x.to = c
    BY <1>3, <2>6, <2>7
  <2>9. x.from \in EffectReachers(h)
    BY <1>5, <2>5, <2>8, ReachersClosed
  <2> QED
    BY <2>2, <2>8, <2>9
<1> QED
  BY <1>10, <1>11 DEF KeepsPromise

-----------------------------------------------------------------------------
(* The inductive invariant: before the first pass a whole graph is as it   *)
(* was built, and its frontier is what was promised.                       *)
PromiseInv ==
    /\ graph.stage \in {"none", "failed", "built"}
    /\ graph.stage = "built" => DOMAIN graph = BuiltFields
    /\ graph.stage = "built" /\ graph.entry = "" /\ graph.applied = {} =>
          source \in BuildPrograms /\ Whole(source, graph) /\ Says(source, graph, promised.markers)
    /\ PromiseKept

(* Nothing is promised before a graph is built. *)
LEMMA InitPromiseInv == BuildInit => PromiseInv
BY DEF BuildInit, NoGraph, PromiseInv, PromiseKept

(* A graph that is built has nothing applied to it, and says what it is. *)
LEMMA BuildPromiseInv ==
    ASSUME NEW p \in BuildPrograms, NEW entry, NEW fold, PromiseInv, Build(p, entry, fold)
    PROVE  PromiseInv'
<1>1. source' = p /\ graph' = BuildGraph(p, entry, fold)
      /\ promised' = (IF graph'.stage = "built" THEN graph'.frontier ELSE NoFrontier)
  BY DEF Build
<1>2. graph'.stage \in {"failed", "built"}
  <2> DEFINE R == Discover(p)
             all == CallGraph(p, R).nodes
             own == IF entry = "" THEN FirstPartyScope(p, all)
                      ELSE ReachableFirstParty(p, CHOOSE f \in EntryRoots(R, entry) : TRUE)
             a == Assembled(p, R, all, own, ManifestOf(p, all), entry, fold)
  <2>1. \/ BuildGraph(p, entry, fold) = [stage |-> "failed"] \/ BuildGraph(p, entry, fold) = WithFrontier(p, a)
    BY DEF BuildGraph
  <2>2. WithFrontier(p, a).stage = "built"
    <3>1. a.stage = "built" /\ "stage" \in DOMAIN a
      BY DEF Assembled
    <3> HIDE DEF a
    <3> QED
      BY <3>1 DEF WithFrontier
  <2> HIDE DEF a
  <2> QED
    BY <1>1, <2>1, <2>2
<1>3. ASSUME graph'.stage = "built"
      PROVE  /\ DOMAIN graph' = BuiltFields /\ graph'.applied = {} /\ graph'.entry = entry /\ promised' = graph'.frontier
             /\ entry = "" => Whole(p, graph') /\ Says(p, graph', graph'.frontier.markers)
  <2> DEFINE G == BuildGraph(p, entry, fold)
  <2>1. ASSUME G.stage = "built"
        PROVE  /\ DOMAIN G = BuiltFields /\ G.applied = {} /\ G.entry = entry
               /\ entry = "" => Whole(p, G) /\ Says(p, G, G.frontier.markers)
    BY <2>1, BuildGraphIs
  <2> HIDE DEF G
  <2> QED
    BY <1>1, <1>3, <2>1 DEF G
<1>4. PromiseKept'
  BY <1>3 DEF PromiseKept
<1> QED
  BY <1>1, <1>2, <1>3, <1>4 DEF PromiseInv

(* A graph to which a pass is applied keeps its other parts. *)
Applied(g, h, edges, passes) ==
    /\ DOMAIN h = BuiltFields /\ h.stage = g.stage /\ h.entry = g.entry /\ h.nodes = g.nodes /\ h.entries = g.entries
    /\ h.reclaimable = g.reclaimable /\ h.edges = edges /\ h.applied = passes

(* A pass adds its name. *)
LEMMA LaterPass ==
    ASSUME PromiseInv, Built, graph'.stage = "built", DOMAIN graph' = BuiltFields, graph'.applied # {}, graph'.applied # {"reclaim"}
    PROVE  PromiseInv'
BY DEF PromiseInv, PromiseKept

(* --reclaim keeps the promise. *)
LEMMA ReclaimersPromiseInv ==
    ASSUME PromiseInv, ApplyReclaimers
    PROVE  PromiseInv'
<1> DEFINE E == ReclaimEdges(source, AllNodes(source), graph.nodes)
           b == [graph EXCEPT !.applied = {"reclaim"}, !.edges = Folded(graph, E)]
<1>1. /\ graph.stage = "built" /\ graph.applied = {} /\ source' = source /\ promised' = promised
      /\ graph' = WithFrontier(source, b)
  BY DEF ApplyReclaimers, Built
<1>2. DOMAIN graph = BuiltFields
  BY <1>1 DEF PromiseInv
<1>3. /\ DOMAIN b = BuiltFields /\ b.stage = graph.stage /\ b.entry = graph.entry /\ b.nodes = graph.nodes
      /\ b.entries = graph.entries /\ b.reclaimable = graph.reclaimable /\ b.spots = graph.spots
      /\ b.edges = Folded(graph, E) /\ b.applied = {"reclaim"}
  <2>1. b = [x \in BuiltFields |-> IF x = "applied" THEN {"reclaim"} ELSE IF x = "edges" THEN Folded(graph, E) ELSE graph[x]]
    BY <1>2
  <2> HIDE DEF b
  <2> QED
    BY <2>1 DEF BuiltFields
<1> HIDE DEF b
<1> DEFINE F == IF b.entry = "" THEN FrontierSection(ClassifyFrontier(source, b)) ELSE NoFrontier
<1>4. graph' = [b EXCEPT !.frontier = F]
  BY <1>1 DEF WithFrontier
<1> HIDE DEF F
<1>5. /\ DOMAIN graph' = BuiltFields /\ graph'.stage = "built" /\ graph'.applied = {"reclaim"} /\ SameParts(b, graph')
      /\ graph'.entry = graph.entry /\ graph'.spots = graph.spots /\ graph'.frontier = F
  BY <1>1, <1>3, <1>4 DEF BuiltFields, SameParts
<1>6. ASSUME graph.entry = ""
      PROVE  /\ KeepsPromise(promised.markers, graph, graph', graph'.frontier.markers)
             /\ FrontierReport(source, graph').starved <= FrontierReport(source, graph').entrypoints
  <2>1. source \in BuildPrograms /\ Whole(source, graph) /\ Says(source, graph, promised.markers)
    BY <1>1, <1>6 DEF PromiseInv
  <2>2. /\ IsFiniteSet(b.nodes) /\ \A s \in b.spots : Recognized(s.kind)
    BY <1>3, <2>1 DEF Whole
  <2>3. Says(source, b, ClassifyFrontier(source, b).markers)
    BY <2>2, FrontierSays
  <2>4. graph'.frontier.markers = ClassifyFrontier(source, b).markers
    <3>1. F = FrontierSection(ClassifyFrontier(source, b))
      BY <1>3, <1>6 DEF F
    <3>2. \A r : FrontierSection(r).markers = r.markers
      BY DEF FrontierSection
    <3> QED
      BY <1>5, <3>1, <3>2
  <2> DEFINE h == graph'
  <2>5. /\ SameParts(b, h) /\ h.nodes = graph.nodes /\ h.reclaimable = graph.reclaimable /\ h.edges = Folded(graph, E)
        /\ h.entries = graph.entries /\ h.spots = graph.spots /\ h.frontier.markers = ClassifyFrontier(source, b).markers
    BY <1>3, <1>5, <2>4 DEF SameParts
  <2> HIDE DEF h
  <2>6. Says(source, h, h.frontier.markers)
    BY <2>2, <2>3, <2>5, SaysSame
  <2>7. KeepsPromise(promised.markers, graph, h, h.frontier.markers)
    BY <2>1, <2>5, <2>6, ReclaimKeeps
  <2>8. FrontierReport(source, h).starved <= FrontierReport(source, h).entrypoints
    <3>1. IsFiniteSet(h.entries) /\ \A s \in h.spots : Recognized(s.kind)
      BY <2>1, <2>5 DEF Whole
    <3> QED
      BY <3>1, StarvedShare
  <2> QED
    BY <2>7, <2>8 DEF h
<1>7. PromiseKept'
  BY <1>1, <1>5, <1>6 DEF PromiseKept, KeepsPromise
<1> QED
  BY <1>5, <1>7 DEF PromiseInv

(* The other passes come after it, or instead of it. *)
LEMMA LaterPassesPromiseInv ==
    ASSUME PromiseInv, ApplyMiddlewareReclaimer \/ ApplyRebind
    PROVE  PromiseInv'
<1>1. \E pass \in {"middleware", "rebind"} : \E b :
          /\ graph' = WithFrontier(source, b) /\ DOMAIN b = BuiltFields /\ b.stage = "built" /\ pass \in b.applied
  <2>1. DOMAIN graph = BuiltFields /\ graph.stage = "built"
    BY DEF PromiseInv, ApplyMiddlewareReclaimer, ApplyRebind, Built
  <2>2. CASE ApplyMiddlewareReclaimer
    <3> DEFINE A == graph.applied \cup {"middleware"}
               D == DropResolvedSeams(graph.spots, graph.chain.empty)
               X == Folded(graph, graph.chain.edges)
               b == [graph EXCEPT !.applied = A, !.edges = X, !.spots = D]
    <3>1. graph' = WithFrontier(source, b)
      BY <2>2 DEF ApplyMiddlewareReclaimer
    <3> HIDE DEF D, X
    <3>2. b = [x \in BuiltFields |-> IF x = "applied" THEN A ELSE IF x = "edges" THEN X ELSE IF x = "spots" THEN D ELSE graph[x]]
      BY <2>1
    <3>3. "middleware" \in A
      OBVIOUS
    <3> HIDE DEF b, A
    <3>4. DOMAIN b = BuiltFields /\ b.stage = "built" /\ "middleware" \in b.applied
      BY <2>1, <3>2, <3>3 DEF BuiltFields
    <3> QED
      BY <3>1, <3>4
  <2>3. CASE ApplyRebind
    <3> DEFINE A == graph.applied \cup {"rebind"}
               Of(plan) == {e \in Folded(graph, plan.add) : ~(e.via = "" /\ <<e.from, e.to>> \in plan.remove)}
               X == Of(Compute(source, AllNodes(source)))
               b == [graph EXCEPT !.applied = A, !.edges = X]
    <3>1. graph' = WithFrontier(source, b)
      BY <2>3 DEF ApplyRebind
    <3> HIDE DEF X
    <3>2. b = [x \in BuiltFields |-> IF x = "applied" THEN A ELSE IF x = "edges" THEN X ELSE graph[x]]
      BY <2>1
    <3>3. "rebind" \in A
      OBVIOUS
    <3> HIDE DEF b, A
    <3>4. DOMAIN b = BuiltFields /\ b.stage = "built" /\ "rebind" \in b.applied
      BY <2>1, <3>2, <3>3 DEF BuiltFields
    <3> QED
      BY <3>1, <3>4
  <2> QED
    BY <2>2, <2>3
<1>2. PICK pass, b : /\ pass \in {"middleware", "rebind"}
                     /\ graph' = WithFrontier(source, b) /\ DOMAIN b = BuiltFields /\ b.stage = "built" /\ pass \in b.applied
  BY <1>1
<1> DEFINE F == IF b.entry = "" THEN FrontierSection(ClassifyFrontier(source, b)) ELSE NoFrontier
<1>3. graph' = [b EXCEPT !.frontier = F]
  BY <1>2 DEF WithFrontier
<1> HIDE DEF F
<1>4. DOMAIN graph' = BuiltFields /\ graph'.stage = "built" /\ pass \in graph'.applied
  BY <1>2, <1>3 DEF BuiltFields
<1>5. Built
  BY DEF ApplyMiddlewareReclaimer, ApplyRebind
<1>6. graph'.applied # {} /\ graph'.applied # {"reclaim"}
  BY <1>2, <1>4
<1> QED
  BY <1>4, <1>5, <1>6, LaterPass

(* A request leaves the graph and the promise as they are. *)
LEMMA RequestPromiseInv ==
    ASSUME PromiseInv, UNCHANGED <<source, graph, promised>>
    PROVE  PromiseInv'
BY DEF PromiseInv, PromiseKept

(* Every step keeps the invariant. *)
LEMMA NextPromiseInv == PromiseInv /\ [GraphBuildNext]_buildVars => PromiseInv'
<1> SUFFICES ASSUME PromiseInv, [GraphBuildNext]_buildVars PROVE PromiseInv'
  OBVIOUS
<1>1. ASSUME NEW p \in BuildPrograms, NEW entry \in {"", "H"}, NEW fold \in BOOLEAN, Build(p, entry, fold) PROVE PromiseInv'
  BY <1>1, BuildPromiseInv
<1>2. CASE ApplyReclaimers
  BY <1>2, ReclaimersPromiseInv
<1>3. CASE ApplyMiddlewareReclaimer \/ ApplyRebind
  BY <1>3, LaterPassesPromiseInv
<1>4. CASE UNCHANGED <<source, graph, promised>>
  BY <1>4, RequestPromiseInv
<1>5. \/ \E p \in BuildPrograms, entry \in {"", "H"}, fold \in BOOLEAN : Build(p, entry, fold)
      \/ ApplyReclaimers \/ ApplyMiddlewareReclaimer \/ ApplyRebind
      \/ UNCHANGED <<source, graph, promised>>
  BY DEF GraphBuildNext, Request, RunInto, RunParam, RunEffect, RunPast, RunReturn, EnterFrame, buildVars
<1> QED
  BY <1>1, <1>2, <1>3, <1>4, <1>5

(* What the frontier of a whole graph promises, --reclaim keeps: of every  *)
(* program, a severed closure is binned B exactly when the pass reconnects *)
(* it, an entry point that is starved for one B reaches an effect then,    *)
(* and no more entry points count as starved than there are.               *)
THEOREM PromiseIsKept == GraphBuildSpec => []PromiseKept
<1>1. BuildInit => PromiseInv
  BY InitPromiseInv
<1>2. PromiseInv /\ [GraphBuildNext]_buildVars => PromiseInv'
  BY NextPromiseInv
<1>3. PromiseInv => PromiseKept
  BY DEF PromiseInv
<1> QED
  BY <1>1, <1>2, <1>3, PTL DEF GraphBuildSpec

-----------------------------------------------------------------------------
(* Walks of a program and of its graph.                                    *)

(* The nodes below r in a graph. *)
Under(g, r) == Cone({r}, EdgeMap(g), Cardinality(g.nodes)) \cap g.nodes

(* A walk that may leave a set N for good is a walk of N while it is in N. *)
LEMMA WithinNodes ==
    ASSUME NEW seeds, NEW Step, NEW M \in Nat, NEW N, seeds \subseteq N, N = DOMAIN Step,
           NEW Inner, Inner = [f \in N |-> Step[f] \cap N]
    PROVE  Cone(seeds, Step, M) \cap N = Cone(seeds, Inner, M)
<1> DEFINE W == Within(seeds, Step, M)
           X == Within(seeds, Inner, M)
           K == {k \in Nat : k <= M => W[k] \cap N = X[k]}
<1>1. W[0] = seeds /\ \A k \in 1..M : W[k] = Stepped(Step, W[k - 1])
  BY WithinIs
<1>2. X[0] = seeds /\ \A k \in 1..M : X[k] = Stepped(Inner, X[k - 1])
  BY WithinIs
<1> HIDE DEF W, X
<1>3. 0 \in K
  BY <1>1, <1>2
<1>4. ASSUME NEW k \in K PROVE k + 1 \in K
  <2>1. k \in Nat
    OBVIOUS
  <2> SUFFICES ASSUME k + 1 <= M PROVE W[k + 1] \cap N = X[k + 1]
    BY <2>1
  <2>2. W[k] \cap N = X[k] /\ k + 1 \in 1..M /\ (k + 1) - 1 = k
    BY <2>1
  <2>3. W[k + 1] = Stepped(Step, W[k]) /\ X[k + 1] = Stepped(Inner, X[k])
    BY <1>1, <1>2, <2>2
  <2>4. \A S : Stepped(Step, S) \cap N = Stepped(Inner, S \cap N)
    BY DEF Stepped, When
  <2> QED
    BY <2>2, <2>3, <2>4
<1> HIDE DEF K
<1>5. M \in K
  BY <1>3, <1>4, Induction DEF K
<1> QED
  BY <1>5 DEF K, W, X, Cone

(* What is below a node holds it, and the ends of its edges that are nodes. *)
LEMMA UnderClosed ==
    ASSUME NEW g, NEW r \in g.nodes, IsFiniteSet(g.nodes)
    PROVE  /\ r \in Under(g, r) /\ Under(g, r) \subseteq g.nodes
           /\ \A e \in g.edges : e.from \in Under(g, r) /\ e.to \in g.nodes => e.to \in Under(g, r)
<1> DEFINE N == g.nodes
           Inner == [f \in N |-> EdgeMap(g)[f] \cap N]
           C == Cone({r}, Inner, Cardinality(N))
<1>1. Cardinality(N) \in Nat
  BY FS_CardinalityType
<1>2. DOMAIN EdgeMap(g) = N /\ \A e \in g.edges : e.from \in N => e.to \in EdgeMap(g)[e.from]
  BY DEF EdgeMap
<1>3. {r} \subseteq N /\ \A f \in N : f \in DOMAIN Inner => Inner[f] \subseteq N
  OBVIOUS
<1>4. C \subseteq N /\ {r} \subseteq C /\ \A f \in C : f \in DOMAIN Inner => Inner[f] \subseteq C
  <2> HIDE DEF Inner
  <2> QED
    BY <1>3, ConeClosed
<1>5. Under(g, r) = C
  <2> HIDE DEF Inner
  <2>1. Cone({r}, EdgeMap(g), Cardinality(N)) \cap N = C
    BY <1>1, <1>2, <1>3, WithinNodes DEF Inner
  <2> QED
    BY <2>1 DEF Under
<1> HIDE DEF C
<1> QED
  BY <1>2, <1>4, <1>5

(* What the assumptions say of a program. *)
LEMMA ProgramIs ==
    ASSUME NEW p \in BuildPrograms
    PROVE  /\ IsFiniteSet(p.fns) /\ "" \notin p.fns /\ "param" \notin p.fns /\ Unread \cap p.fns = {}
           /\ \A f \in p.fns : \A i \in SitesOf(p, f) :
                 /\ SeenCallees(p, f, i) \subseteq p.fns /\ SiteAt(p, f, i).to \subseteq p.fns
                 /\ SiteAt(p, f, i).arg \in p.fns \cup {"", "param"} /\ SiteAt(p, f, i).q \notin p.fns
                 /\ SiteAt(p, f, i).arg \in p.fns /\ IsClosure(p, SiteAt(p, f, i).arg) => p.parent[SiteAt(p, f, i).arg] = f
                 /\ FirstParty(p, f) => SiteInSight(p, f, i)
                 /\ ~FirstParty(p, f) => SiteAt(p, f, i).do # "effect"
           /\ \A r \in Discover(p) : r.name # "" =>
                 /\ r.fn \in p.fns /\ p.kind[r.fn] = "own"
                 /\ \A i \in SitesOf(p, r.fn) : SiteAt(p, r.fn, i).do = "effect" => SiteAt(p, r.fn, i).how # "param"
<1>1. ProgramOK(p) /\ InSight(p)
  BY BuildProgramsOK, ProgramsInSight
<1>2. IsFiniteSet(p.fns) /\ "" \notin p.fns /\ "param" \notin p.fns /\ Unread \cap p.fns = {}
  BY <1>1 DEF ProgramOK, InSight
<1>3. ASSUME NEW f \in p.fns, NEW i \in SitesOf(p, f)
      PROVE  /\ SeenCallees(p, f, i) \subseteq p.fns
             /\ SiteAt(p, f, i).arg \in p.fns /\ IsClosure(p, SiteAt(p, f, i).arg) => p.parent[SiteAt(p, f, i).arg] = f
  BY <1>1 DEF ProgramOK
<1>4. ASSUME NEW f \in p.fns, NEW i \in SitesOf(p, f)
      PROVE  /\ SiteAt(p, f, i).to \subseteq p.fns
             /\ SiteAt(p, f, i).arg \in p.fns \cup {"", "param"} /\ SiteAt(p, f, i).q \notin p.fns
             /\ FirstParty(p, f) => SiteInSight(p, f, i)
             /\ ~FirstParty(p, f) => SiteAt(p, f, i).do # "effect"
  BY <1>1 DEF InSight
<1>5. ASSUME NEW r \in Discover(p), r.name # ""
      PROVE  /\ r.fn \in p.fns /\ p.kind[r.fn] = "own"
             /\ \A i \in SitesOf(p, r.fn) : SiteAt(p, r.fn, i).do = "effect" => SiteAt(p, r.fn, i).how # "param"
  BY <1>1, <1>5, DiscoverIs DEF InSight
<1> QED
  BY <1>2, <1>3, <1>4, <1>5

(* The calls of a function are of functions. *)
LEMMA CallsAre ==
    ASSUME NEW p \in BuildPrograms
    PROVE  /\ DOMAIN CallsOf(p) = p.fns
           /\ \A f \in p.fns : CallsOf(p)[f] \subseteq p.fns /\ \A i \in SitesOf(p, f) : SeenCallees(p, f, i) \subseteq CallsOf(p)[f]
<1>1. \A f \in p.fns : \A i \in SitesOf(p, f) : SeenCallees(p, f, i) \subseteq p.fns
  BY ProgramIs
<1>2. DOMAIN CallsOf(p) = p.fns /\ \A f \in p.fns : CallsOf(p)[f] = UNION {SeenCallees(p, f, i) : i \in SitesOf(p, f)}
  BY DEF CallsOf
<1>3. ASSUME NEW f \in p.fns
      PROVE  CallsOf(p)[f] \subseteq p.fns /\ \A i \in SitesOf(p, f) : SeenCallees(p, f, i) \subseteq CallsOf(p)[f]
  BY <1>1, <1>2
<1> QED
  BY <1>2, <1>3

(* A wrapper splices itself and the wrappers it calls. *)
LEMMA SplicedClosed ==
    ASSUME NEW p \in BuildPrograms, NEW c \in p.fns, Wrapper(p, c)
    PROVE  /\ c \in Spliced(p, c) /\ \A f \in Spliced(p, c) : f \in p.fns /\ Wrapper(p, f)
           /\ \A f \in Spliced(p, c) : \A g \in CallsOf(p)[f] : Wrapper(p, g) => g \in Spliced(p, c)
<1> DEFINE Down == [f \in {g \in p.fns : Wrapper(p, g)} |-> CallsOf(p)[f]]
           C == Cone({c}, Down, Cardinality(p.fns))
<1>1. IsFiniteSet(p.fns) /\ \A f \in p.fns : CallsOf(p)[f] \subseteq p.fns
  BY ProgramIs, CallsAre
<1>2. DOMAIN Down = {g \in p.fns : Wrapper(p, g)} /\ \A f \in DOMAIN Down : Down[f] = CallsOf(p)[f]
  OBVIOUS
<1> HIDE DEF Down
<1>3. {c} \subseteq p.fns /\ \A f \in p.fns : f \in DOMAIN Down => Down[f] \subseteq p.fns
  BY <1>1, <1>2
<1>4. C \subseteq p.fns /\ {c} \subseteq C /\ \A f \in C : f \in DOMAIN Down => Down[f] \subseteq C
  BY <1>1, <1>3, ConeClosed
<1>5. Spliced(p, c) = {f \in C : Wrapper(p, f)}
  BY DEF Spliced, Down
<1> HIDE DEF C
<1> QED
  BY <1>2, <1>4, <1>5

-----------------------------------------------------------------------------
(* What a graph has in sight: the call graph, or what one entry reaches.   *)
Root(p, entry) == CHOOSE f \in EntryRoots(Discover(p), entry) : TRUE
OwnCalls(p) == [f \in p.fns |-> {c \in CallsOf(p)[f] : FirstParty(p, c)}]
ScopeOf(p, entry) == IF entry = "" THEN AllNodes(p) ELSE Cone({Root(p, entry)}, OwnCalls(p), Cardinality(p.fns))

(* The call graph has every entry point, and what a function of it is seen *)
(* to call.                                                                *)
LEMMA AllNodesClosed ==
    ASSUME NEW p \in BuildPrograms
    PROVE  /\ AllNodes(p) \subseteq p.fns /\ \A r \in Discover(p) : r.fn \in AllNodes(p)
           /\ \A f \in AllNodes(p) : CallsOf(p)[f] \subseteq AllNodes(p)
<1>1. IsFiniteSet(p.fns) /\ \A f \in p.fns : CallsOf(p)[f] \subseteq p.fns
  BY ProgramIs, CallsAre
<1>2. DOMAIN CallsOf(p) = p.fns
  BY CallsAre
<1> DEFINE seeds == {r.fn : r \in Discover(p)}
           C == Cone(seeds, CallsOf(p), Cardinality(p.fns))
<1>3. seeds \subseteq p.fns /\ \A f \in p.fns : f \in DOMAIN CallsOf(p) => CallsOf(p)[f] \subseteq p.fns
  BY <1>1, DiscoverIs
<1>4. C \subseteq p.fns /\ seeds \subseteq C /\ \A f \in C : f \in DOMAIN CallsOf(p) => CallsOf(p)[f] \subseteq C
  BY <1>1, <1>3, ConeClosed
<1>5. AllNodes(p) = IF Discover(p) = {} THEN p.fns ELSE C
  BY DEF AllNodes, CallGraph
<1> HIDE DEF C
<1> QED
  BY <1>1, <1>2, <1>3, <1>4, <1>5

(* A walk of n steps has a last one. *)
LEMMA LastStep == \A n \in Nat : n \in 0..n
OBVIOUS

(* So has what one entry point reaches, of first-party code. *)
LEMMA ScopeClosed ==
    ASSUME NEW p \in BuildPrograms, NEW entry, entry # "" => EntryRoots(Discover(p), entry) # {}
    PROVE  /\ ScopeOf(p, entry) \subseteq AllNodes(p)
           /\ \A f \in ScopeOf(p, entry) : \A g \in CallsOf(p)[f] : FirstParty(p, g) => g \in ScopeOf(p, entry)
           /\ entry # "" => Root(p, entry) \in ScopeOf(p, entry)
                            /\ \E r \in Discover(p) : r.name = entry /\ r.fn = Root(p, entry)
<1>1. CASE entry = ""
  BY <1>1, AllNodesClosed DEF ScopeOf
<1>2. CASE entry # ""
  <2> DEFINE R == Root(p, entry)
             N == Cardinality(p.fns)
             C == Cone({R}, OwnCalls(p), N)
  <2>1. \E r \in Discover(p) : r.name = entry /\ r.fn = R
    <3>1. R \in EntryRoots(Discover(p), entry)
      BY <1>2 DEF Root
    <3> QED
      BY <3>1 DEF EntryRoots
  <2> HIDE DEF R
  <2>2. R \in AllNodes(p) /\ R \in p.fns
    BY <2>1, AllNodesClosed
  <2>3. IsFiniteSet(p.fns) /\ N \in Nat
    BY ProgramIs, FS_CardinalityType
  <2>4. DOMAIN OwnCalls(p) = p.fns /\ \A f \in p.fns : OwnCalls(p)[f] = {c \in CallsOf(p)[f] : FirstParty(p, c)}
    BY DEF OwnCalls
  <2>5. \A f \in p.fns : OwnCalls(p)[f] \subseteq p.fns
    BY <2>4, CallsAre
  <2> HIDE DEF N
  <2>6. C \subseteq p.fns /\ {R} \subseteq C /\ \A f \in C : f \in DOMAIN OwnCalls(p) => OwnCalls(p)[f] \subseteq C
    BY <2>2, <2>3, <2>5, ConeClosed DEF N
  <2>7. \A f \in AllNodes(p) : f \in DOMAIN OwnCalls(p) => OwnCalls(p)[f] \subseteq AllNodes(p)
    BY <2>4, AllNodesClosed
  <2>8. C \subseteq AllNodes(p)
    <3>1. {R} \subseteq AllNodes(p)
      BY <2>2
    <3>2. N \in 0..N
      BY <2>3, LastStep
    <3> QED
      BY <2>3, <2>7, <3>1, <3>2, ConeInside DEF Cone
  <2>9. ScopeOf(p, entry) = C
    BY <1>2 DEF ScopeOf, R, N
  <2> HIDE DEF C
  <2> QED
    BY <1>2, <2>1, <2>4, <2>6, <2>8, <2>9 DEF R
<1> QED
  BY <1>1, <1>2

(* What a call hands on is given. *)
LEMMA GivensClosed ==
    ASSUME NEW p \in BuildPrograms
    PROVE  /\ \A f \in p.fns : <<f, "">> \in Givens(p)
           /\ \A f, a : <<f, a>> \in Givens(p) => \A i \in SitesOf(p, f) : Given(p, f, a, SiteAt(p, f, i)) \subseteq Givens(p)
<1> DEFINE Args == {""} \cup p.fns
           A == p.fns \X Args
           Hand == [x \in A |-> UNION {Given(p, x[1], x[2], SiteAt(p, x[1], i)) : i \in SitesOf(p, x[1])}]
           S == p.fns \X {""}
           C == Cone(S, Hand, Cardinality(A))
<1>1. IsFiniteSet(A)
  <2>1. IsFiniteSet(p.fns)
    BY ProgramIs
  <2>2. IsFiniteSet({""})
    BY FS_Singleton
  <2>3. IsFiniteSet(Args)
    BY <2>1, <2>2, FS_Union
  <2> HIDE DEF Args
  <2> QED
    BY <2>1, <2>3, FS_Product
<1>2. ASSUME NEW f \in p.fns, NEW a \in Args, NEW i \in SitesOf(p, f) PROVE Given(p, f, a, SiteAt(p, f, i)) \subseteq A
  <2>1. SiteAt(p, f, i).arg \in p.fns \cup {"", "param"}
    BY ProgramIs
  <2>2. Passed(SiteAt(p, f, i).arg, a) \in Args
    BY <2>1 DEF Passed
  <2>3. ASSUME NEW x \in Given(p, f, a, SiteAt(p, f, i)) PROVE x \in A
    <3>1. PICK g \in p.fns : x = <<g, Passed(SiteAt(p, f, i).arg, a)>>
      BY DEF Given
    <3> HIDE DEF Args
    <3> QED
      BY <2>2, <3>1
  <2> QED
    BY <2>3
<1>3. DOMAIN Hand = A /\ \A f \in p.fns : \A a \in Args : \A i \in SitesOf(p, f) :
          Given(p, f, a, SiteAt(p, f, i)) \subseteq Hand[<<f, a>>]
  OBVIOUS
<1>4. \A x \in A : Hand[x] \subseteq A
  <2> SUFFICES ASSUME NEW x \in A PROVE Hand[x] \subseteq A
    OBVIOUS
  <2>1. x \in p.fns \X Args
    OBVIOUS
  <2>4. PICK f \in p.fns, a \in Args : x = <<f, a>>
    <3> HIDE DEF Args, Hand, A
    <3> QED
      BY <2>1
  <2>3. Hand[x] = UNION {Given(p, f, a, SiteAt(p, f, i)) : i \in SitesOf(p, f)}
    BY <2>4
  <2> HIDE DEF Hand, A, Args
  <2> QED
    BY <1>2, <2>3
<1>5. S \subseteq A
  OBVIOUS
<1>6. Givens(p) = C
  BY DEF Givens
<1> HIDE DEF Hand
<1>7. C \subseteq A /\ S \subseteq C /\ \A x \in C : x \in DOMAIN Hand => Hand[x] \subseteq C
  <2>1. \A f \in A : f \in DOMAIN Hand => Hand[f] \subseteq A
    BY <1>4
  <2> HIDE DEF A, S
  <2> QED
    BY <1>1, <1>5, <2>1, ConeClosed
<1> HIDE DEF C
<1>8. \A f \in p.fns : <<f, "">> \in C
  BY <1>7
<1>9. ASSUME NEW f, NEW a, <<f, a>> \in C, NEW i \in SitesOf(p, f) PROVE Given(p, f, a, SiteAt(p, f, i)) \subseteq C
  <2>1. f \in p.fns /\ a \in Args /\ <<f, a>> \in A
    BY <1>7, <1>9
  <2> HIDE DEF A, Args
  <2> QED
    BY <1>3, <1>7, <1>9, <2>1
<1> QED
  BY <1>6, <1>8, <1>9

-----------------------------------------------------------------------------
(* The edges of a node.                                                    *)

(* A site of a node gives the node these edges, as does a site of a        *)
(* wrapper that is spliced into a call of the node.                        *)
SiteEdges(p, nodes, own, fold, f, w, s) ==
    IF s.do = "effect" THEN EffectEdges(p, nodes, own, fold, f, w, s)
    ELSE {CallEdge(f, c, "") : c \in When(s.do \in {"call", "iface", "value", "param", "loop", "serve"}, s.seen) \cap own}

LEMMA EdgesAre ==
    ASSUME NEW p, NEW nodes, NEW own, NEW fold, NEW f, NEW i \in SitesOf(p, f)
    PROVE  /\ SiteEdges(p, nodes, own, fold, f, f, SiteAt(p, f, i)) \subseteq EdgesOf(p, nodes, own, fold, f)
           /\ \A c \in SeenCallees(p, f, i) : \A w \in Spliced(p, c) : \A j \in SitesOf(p, w) :
                 Wrapper(p, c) => SiteEdges(p, nodes, own, fold, f, w, SiteAt(p, w, j)) \subseteq EdgesOf(p, nodes, own, fold, f)
<1> DEFINE Site(w, s) == SiteEdges(p, nodes, own, fold, f, w, s)
           Through(s) == UNION {Spliced(p, c) : c \in {x \in s.seen : Wrapper(p, x)}}
           Its(s) == Site(f, s) \cup (UNION {UNION {Site(w, SiteAt(p, w, j)) : j \in SitesOf(p, w)} : w \in Through(s)})
           E == EdgesOf(p, nodes, own, fold, f)
<1>1. E = UNION {Its(SiteAt(p, f, k)) : k \in SitesOf(p, f)}
  BY DEF EdgesOf, SiteEdges
<1> HIDE DEF Site, E
<1>2. Its(SiteAt(p, f, i)) \subseteq E
  <2> HIDE DEF Its
  <2> QED
    BY <1>1
<1>3. ASSUME NEW c \in SeenCallees(p, f, i), NEW w \in Spliced(p, c), NEW j \in SitesOf(p, w), Wrapper(p, c)
      PROVE  Site(w, SiteAt(p, w, j)) \subseteq Its(SiteAt(p, f, i))
  <2>1. c \in SiteAt(p, f, i).seen
    BY DEF SeenCallees
  <2>2. w \in Through(SiteAt(p, f, i))
    BY <1>3, <2>1
  <2> HIDE DEF Through
  <2> QED
    BY <2>2
<1>4. Site(f, SiteAt(p, f, i)) \subseteq Its(SiteAt(p, f, i))
  OBVIOUS
<1> HIDE DEF Its
<1>5. Site(f, SiteAt(p, f, i)) \subseteq E
  BY <1>2, <1>4
<1>6. ASSUME NEW c \in SeenCallees(p, f, i), NEW w \in Spliced(p, c), NEW j \in SitesOf(p, w), Wrapper(p, c)
      PROVE  Site(w, SiteAt(p, w, j)) \subseteq E
  BY <1>2, <1>3, <1>6
<1> QED
  BY <1>5, <1>6 DEF Site, E

(* A callee that is seen and in the graph has an edge. *)
LEMMA CallHasEdge ==
    ASSUME NEW p, NEW nodes, NEW own, NEW fold, NEW f, NEW w, NEW j \in SitesOf(p, w), NEW c \in SeenCallees(p, w, j), c \in own
    PROVE  CallEdge(f, c, "") \in SiteEdges(p, nodes, own, fold, f, w, SiteAt(p, w, j))
<1>1. /\ SiteAt(p, w, j).do \in {"call", "iface", "value", "param", "loop", "serve"} /\ SiteAt(p, w, j).do # "effect"
      /\ c \in SiteAt(p, w, j).seen
  BY DEF SeenCallees
<1>2. c \in When(SiteAt(p, w, j).do \in {"call", "iface", "value", "param", "loop", "serve"}, SiteAt(p, w, j).seen) \cap own
  BY <1>1 DEF When
<1> QED
  BY <1>1, <1>2 DEF SiteEdges

(* An effect has one, to its label or to one that cannot be read; to this  *)
(* the query of a helper is no exception, unless it is passed on.          *)
LEMMA EffectHasEdge ==
    ASSUME NEW p, NEW nodes, NEW own, NEW fold, NEW f, NEW w, NEW s, s.do = "effect",
           s.how # "param" \/ f # w \/ ~fold \/ s.on # "db"
    PROVE  \E e \in SiteEdges(p, nodes, own, fold, f, w, s) :
              e.from = f /\ (e.to \in Unread \/ (s.how # "param" /\ e.to = s.q))
<1> DEFINE Again == When(fold /\ s.on = "db" /\ s.how = "param" /\ f = w, PassthroughReattribute(p, nodes, own, f))
           e == CallEdge(f, LabelOfSite(s, fold), "")
<1>1. Again = {}
  BY DEF When
<1>2. SiteEdges(p, nodes, own, fold, f, w, s) = {e}
  BY <1>1 DEF SiteEdges, EffectEdges
<1>3. e.from = f /\ e.to = LabelOfSite(s, fold)
  BY DEF CallEdge
<1>4. LabelOfSite(s, fold) \in Unread \/ (s.how # "param" /\ LabelOfSite(s, fold) = s.q)
  BY DEF LabelOfSite, OpaqueOf, Unread
<1> HIDE DEF e
<1> QED
  BY <1>2, <1>3, <1>4

(* An edge to what a call of g passes, or to a label that cannot be read.  *)
PassesOn(p, own, f, g, i, e) ==
    \/ /\ g \in own /\ e.from = g
       /\ e.to \in Unread \/ (SiteAt(p, g, i).how # "param" /\ e.to = SiteAt(p, g, i).q)
    \/ e.from = f /\ e.to \in Unread

(* A query that is passed on has an edge from each one that passes it, to  *)
(* what it passes; from the helper, when one of those is not in the graph. *)
LEMMA PassedHasEdge ==
    ASSUME NEW p, NEW nodes, NEW own, NEW fold, NEW f, NEW s, s.do = "effect",
           fold /\ s.on = "db" /\ s.how = "param",
           NEW g \in nodes, NEW i \in SitesOf(p, g), f \in SeenCallees(p, g, i)
    PROVE  \E e \in SiteEdges(p, nodes, own, fold, f, f, s) : PassesOn(p, own, f, g, i, e)
<1> DEFINE A == PassthroughReattribute(p, nodes, own, f)
           y == <<g, i>>
           l == PassedLabel(p, y)
<1>1. y \in CallersOf(p, nodes, f) /\ y[1] = g /\ y[2] = i
  BY DEF CallersOf
<1>2. l \in Unread \/ (SiteAt(p, g, i).how # "param" /\ l = SiteAt(p, g, i).q)
  BY <1>1 DEF PassedLabel, LabelOfSite, OpaqueOf, Unread
<1>3. g \in own => <<g, l>> \in A
  BY <1>1 DEF PassthroughReattribute
<1>4. g \notin own => <<f, OpaqueOf("db")>> \in A
  BY <1>1 DEF PassthroughReattribute, When
<1>5. OpaqueOf("db") \in Unread
  BY DEF OpaqueOf, Unread
<1>6. When(fold /\ s.on = "db" /\ s.how = "param" /\ f = f, A) = A
  BY DEF When
<1>7. SiteEdges(p, nodes, own, fold, f, f, s) = IF A # {} THEN {CallEdge(x[1], x[2], "") : x \in A} ELSE {CallEdge(f, LabelOfSite(s, fold), "")}
  BY <1>6 DEF SiteEdges, EffectEdges
<1> HIDE DEF A, l
<1>8. ASSUME NEW a, NEW b, <<a, b>> \in A PROVE CallEdge(a, b, "") \in SiteEdges(p, nodes, own, fold, f, f, s)
  <2> DEFINE x == <<a, b>>
  <2>1. x[1] = a /\ x[2] = b
    OBVIOUS
  <2> HIDE DEF x
  <2>2. CallEdge(x[1], x[2], "") \in SiteEdges(p, nodes, own, fold, f, f, s)
    BY <1>7, <1>8 DEF x
  <2> QED
    BY <2>1, <2>2
<1>9. \A a, b : CallEdge(a, b, "").from = a /\ CallEdge(a, b, "").to = b
  BY DEF CallEdge
<1>10. CASE g \in own
  <2>1. CallEdge(g, l, "") \in SiteEdges(p, nodes, own, fold, f, f, s)
    BY <1>3, <1>8, <1>10
  <2>2. CallEdge(g, l, "").from = g /\ CallEdge(g, l, "").to = l
    BY <1>9
  <2> QED
    BY <1>2, <1>10, <2>1, <2>2 DEF PassesOn
<1>11. CASE g \notin own
  <2>1. CallEdge(f, OpaqueOf("db"), "") \in SiteEdges(p, nodes, own, fold, f, f, s)
    BY <1>4, <1>8, <1>11
  <2> QED
    BY <1>5, <1>9, <2>1 DEF PassesOn
<1> QED
  BY <1>10, <1>11

(* What --rebind takes away is a closure or a wrapper of the program; to a *)
(* closure it adds an edge from the function it is in, which uses it once. *)
LEMMA RemovedIs ==
    ASSUME NEW p \in BuildPrograms, NEW f, NEW c, <<f, c>> \in Compute(p, AllNodes(p)).remove
    PROVE  /\ c \in p.fns /\ (IsClosure(p, c) \/ Wrapper(p, c))
           /\ IsClosure(p, c) => CallEdge(p.parent[c], c, "rebind") \in Compute(p, AllNodes(p)).add /\ UsedOnce(p, c)
<1> DEFINE all == AllNodes(p)
           Ok(g, j) == /\ ClosureFn(p, SiteAt(p, g, j)) # {}
                       /\ Confined(p, g, j)
                       /\ RunnersToDeUnion(p, SiteAt(p, g, j)) # {}
           Sites == UNION {{<<g, i>> : i \in {j \in SitesOf(p, g) : Ok(g, j)}} : g \in all}
<1>1. /\ Compute(p, all).add = {CallEdge(x[1], SiteAt(p, x[1], x[2]).arg, "rebind") : x \in Sites}
      /\ Compute(p, all).remove = UNION {{<<g, SiteAt(p, x[1], x[2]).arg>> : g \in RunnersToDeUnion(p, SiteAt(p, x[1], x[2]))} : x \in Sites}
  BY DEF Compute
<1>2. \A x \in Sites : /\ x[1] \in all /\ x[2] \in SitesOf(p, x[1]) /\ ClosureFn(p, SiteAt(p, x[1], x[2])) # {}
                       /\ Confined(p, x[1], x[2])
  <2> SUFFICES ASSUME NEW x \in Sites
               PROVE  x[1] \in all /\ x[2] \in SitesOf(p, x[1]) /\ ClosureFn(p, SiteAt(p, x[1], x[2])) # {} /\ Confined(p, x[1], x[2])
    OBVIOUS
  <2>1. PICK g \in all : x \in {<<g, i>> : i \in {j \in SitesOf(p, g) : Ok(g, j)}}
    OBVIOUS
  <2>2. PICK i \in {j \in SitesOf(p, g) : Ok(g, j)} : x = <<g, i>>
    BY <2>1
  <2> QED
    BY <2>2
<1> HIDE DEF Sites
<1>3. PICK x \in Sites : \E g \in RunnersToDeUnion(p, SiteAt(p, x[1], x[2])) : <<f, c>> = <<g, SiteAt(p, x[1], x[2]).arg>>
  BY <1>1
<1>4. c = SiteAt(p, x[1], x[2]).arg
  BY <1>3
<1>5. x[1] \in p.fns /\ x[2] \in SitesOf(p, x[1])
  BY <1>2, NodesAre
<1>6. c \in p.fns /\ (IsClosure(p, c) \/ Wrapper(p, c))
  BY <1>2, <1>4 DEF ClosureFn, When
<1>7. IsClosure(p, c) => p.parent[c] = x[1]
  BY <1>4, <1>5, <1>6, ProgramIs
<1>8. CallEdge(x[1], c, "rebind") \in Compute(p, all).add
  BY <1>1, <1>4
<1>9. \A j \in SitesOf(p, x[1]) : Uses(p, x[1], j, c) => j = x[2]
  BY <1>2, <1>4 DEF Confined, Uses
<1> QED
  BY <1>6, <1>7, <1>8, <1>9 DEF UsedOnce

-----------------------------------------------------------------------------
(* What is disclosed.                                                      *)

(* A seam is cleared only when every loop of its type is over a field that *)
(* holds nothing, and there is no other call of the type.                  *)
LEMMA ClearedIsEmpty ==
    ASSUME NEW p, NEW nodes, NEW x \in MiddlewareChain(p, nodes).empty
    PROVE  /\ ~HasUnresolvedFuncCallOfType(p, x.site, x.type)
           /\ \A i \in LoopsOf(p, x.site) : SiteAt(p, x.site, i).type = x.type =>
                 ResolveField(p, SiteAt(p, x.site, i).field).ok /\ ResolveField(p, SiteAt(p, x.site, i).field).funcs = {}
<1>1. PICK f \in nodes : x \in ReclaimFunc(p, nodes, f).empty
  BY DEF MiddlewareChain
<1> DEFINE Known == {i \in LoopsOf(p, f) : ResolveField(p, SiteAt(p, f, i).field).ok}
           Funcs(i) == ResolveField(p, SiteAt(p, f, i).field).funcs
           Ends(i)  == RecoverTerminals(p, nodes, f, SiteAt(p, f, i))
           Types    == {SiteAt(p, f, i).type : i \in LoopsOf(p, f)}
           Clearable(t) == /\ \A i \in {j \in LoopsOf(p, f) : SiteAt(p, f, j).type = t} : i \in Known /\ Funcs(i) = {} /\ Ends(i).ok
                           /\ ~HasUnresolvedFuncCallOfType(p, f, t)
<1>2. ReclaimFunc(p, nodes, f).empty = {[site |-> f, type |-> t] : t \in {u \in Types : Clearable(u)}}
  BY DEF ReclaimFunc
<1> HIDE DEF Types
<1>3. PICK t \in {u \in Types : Clearable(u)} : x = [site |-> f, type |-> t]
  BY <1>1, <1>2
<1>4. x.site = f /\ x.type = t /\ Clearable(t)
  BY <1>3
<1> QED
  BY <1>4

(* A call that is not resolved leaves a blind spot in the function or its  *)
(* package, and no pass drops it.                                          *)
Stays(p, t) == ~(t.kind = "UnresolvedCall" /\ MatchesResolvedSeam(t, MiddlewareChain(p, AllNodes(p)).empty))
LEMMA UnseenHasSpot ==
    ASSUME NEW p \in BuildPrograms, NEW f \in AllNodes(p), p.kind[f] = "own", NEW i \in SitesOf(p, f),
           NotResolved(SiteAt(p, f, i)), SiteAt(p, f, i).do = "param" \/ SiteAt(p, f, i).to # {}
    PROVE  \E t \in ManifestOf(p, AllNodes(p)) :
              ~IsDisclosureOnlyFrontier(t.kind) /\ t.site \in {f, p.pkg[f]} /\ Stays(p, t)
<1> DEFINE all == AllNodes(p)
           s == SiteAt(p, f, i)
           Here(t) == ~IsDisclosureOnlyFrontier(t.kind) /\ t.site \in {f, p.pkg[f]} /\ Stays(p, t)
<1>1. f \in p.fns /\ FirstParty(p, f) /\ p.kind[f] # "init"
  BY NodesAre DEF FirstParty
<1>2. SiteInSight(p, f, i)
  BY <1>1, ProgramIs
<1>3. \A t \in Detect(p, all) : ~Boundary(t.kind) => t \in ManifestOf(p, all)
  BY DEF ManifestOf
<1>4. /\ UnresolvedFuncValueCalls(p, f) \subseteq Detect(p, all) /\ SiteSpots(p, f, s) \subseteq Detect(p, all)
      /\ PackageDisclosures(p) \subseteq Detect(p, all)
  <2> DEFINE Roots == {BlindSpot("UnresolvedDispatch", r.kind, "") : r \in RootSpots(p)}
             Of(g) == UnresolvedFuncValueCalls(p, g) \cup (UNION {SiteSpots(p, g, SiteAt(p, g, j)) : j \in SitesOf(p, g)})
             F == {g \in all : FirstParty(p, g) /\ p.kind[g] # "init"}
  <2>1. Detect(p, all) = Roots \cup (UNION {Of(g) : g \in F}) \cup PackageDisclosures(p)
    BY DEF Detect
  <2>2. UnresolvedFuncValueCalls(p, f) \subseteq Of(f) /\ SiteSpots(p, f, s) \subseteq Of(f)
    OBVIOUS
  <2>3. f \in F
    BY <1>1
  <2> HIDE DEF Roots, Of, F
  <2> QED
    BY <2>1, <2>2, <2>3
<1>5. ASSUME NEW k \in {"Reflect", "Linkname", "ConcurrentDispatch", "UnresolvedCall"}, NEW site, NEW type
      PROVE  /\ BlindSpot(k, site, type).kind = k /\ BlindSpot(k, site, type).site = site /\ BlindSpot(k, site, type).type = type
             /\ ~Boundary(k) /\ ~IsDisclosureOnlyFrontier(k)
  BY DEF BlindSpot, Boundary, IsDisclosureOnlyFrontier
<1>6. CASE s.do = "reflect"
  <2> DEFINE t == BlindSpot("Reflect", f, "")
  <2>1. t \in SiteSpots(p, f, s)
    BY <1>6 DEF SiteSpots, When
  <2>2. t.kind = "Reflect" /\ t.site = f /\ ~Boundary(t.kind) /\ ~IsDisclosureOnlyFrontier(t.kind)
    BY DEF BlindSpot, Boundary, IsDisclosureOnlyFrontier
  <2> HIDE DEF t
  <2>3. t \in ManifestOf(p, all) /\ Here(t)
    BY <1>3, <1>4, <2>1, <2>2 DEF Stays
  <2> QED
    BY <2>3
<1>7. CASE s.do = "link"
  <2> DEFINE t == BlindSpot("Linkname", p.pkg[f], "")
  <2>1. p.linkname[p.pkg[f]]
    BY <1>2, <1>7 DEF SiteInSight
  <2>2. t \in PackageDisclosures(p)
    BY <1>1, <2>1 DEF PackageDisclosures
  <2>3. t.kind = "Linkname" /\ t.site = p.pkg[f] /\ ~Boundary(t.kind) /\ ~IsDisclosureOnlyFrontier(t.kind)
    BY DEF BlindSpot, Boundary, IsDisclosureOnlyFrontier
  <2> HIDE DEF t
  <2>4. t \in ManifestOf(p, all) /\ Here(t)
    BY <1>3, <1>4, <2>2, <2>3 DEF Stays
  <2> QED
    BY <2>4
<1>8. CASE FuncValueCall(s) /\ s.seen = {}
  <2> DEFINE k == IF s.conc THEN "ConcurrentDispatch" ELSE "UnresolvedCall"
             t == BlindSpot(k, f, s.type)
  <2>1. t \in UnresolvedFuncValueCalls(p, f)
    BY <1>8 DEF UnresolvedFuncValueCalls
  <2>2. k \in {"Reflect", "Linkname", "ConcurrentDispatch", "UnresolvedCall"} /\ (k = "UnresolvedCall" => ~s.conc)
    OBVIOUS
  <2> HIDE DEF k
  <2>3. t.kind = k /\ t.site = f /\ t.type = s.type /\ ~Boundary(t.kind) /\ ~IsDisclosureOnlyFrontier(t.kind)
    BY <1>5, <2>2
  <2> HIDE DEF t
  <2>4. ASSUME k = "UnresolvedCall", MatchesResolvedSeam(t, MiddlewareChain(p, all).empty) PROVE FALSE
    <3>1. PICK x \in MiddlewareChain(p, all).empty : t.site = x.site /\ t.type = x.type
      BY <2>4 DEF MatchesResolvedSeam
    <3>2. x.site = f /\ x.type = s.type
      BY <2>3, <3>1
    <3>3. ~HasUnresolvedFuncCallOfType(p, f, s.type)
      BY <3>2, ClearedIsEmpty
    <3>4. i \in LoopsOf(p, f)
      BY <1>8, <2>2, <2>4, <3>3 DEF HasUnresolvedFuncCallOfType
    <3>5. ResolveField(p, s.field).ok /\ ResolveField(p, s.field).funcs = {}
      BY <3>2, <3>4, ClearedIsEmpty
    <3>6. s.do = "loop"
      BY <3>4 DEF LoopsOf
    <3>7. s.to = {}
      BY <1>2, <3>5, <3>6 DEF SiteInSight
    <3> QED
      BY <3>6, <3>7
  <2>5. t \in ManifestOf(p, all) /\ Here(t)
    BY <1>3, <1>4, <2>1, <2>3, <2>4 DEF Stays
  <2> QED
    BY <2>5
<1> QED
  BY <1>6, <1>7, <1>8 DEF NotResolved

-----------------------------------------------------------------------------
(* What a graph keeps of its program, whatever was applied to it.          *)

(* --rebind took the edge. *)
Taken(p, g, e) == "rebind" \in g.applied /\ <<e.from, e.to>> \in Compute(p, AllNodes(p)).remove

NodesOf(p, g) ==
    /\ \A f \in g.nodes : f \in ScopeOf(p, g.entry) /\ ~Wrapper(p, f)
    /\ \A f \in ScopeOf(p, g.entry) : p.kind[f] = "own" => f \in g.nodes
EntriesOf(p, g) ==
    /\ g.entry # "" => EntryRoots(Discover(p), g.entry) = {Root(p, g.entry)}
    /\ \A r \in g.entries : r \in Discover(p) /\ r.name # "" /\ r.fn \in g.nodes
SpotsOf(p, g) == \A t \in ManifestOf(p, AllNodes(p)) : Stays(p, t) => t \in g.spots
CallsIn(p, g) == \E fold \in BOOLEAN : \A f \in g.nodes : \A e \in EdgesOf(p, AllNodes(p), g.nodes, fold, f) : e \in g.edges \/ Taken(p, g, e)
AddedIn(p, g) ==
    "rebind" \in g.applied =>
        \A e \in Compute(p, AllNodes(p)).add :
            e.from \in g.nodes /\ e.to \in g.nodes => Taken(p, g, e) \/ \E x \in g.edges : x.from = e.from /\ x.to = e.to
GraphOf(p, g) ==
    /\ DOMAIN g = BuiltFields /\ g.stage = "built" /\ g.chain = MiddlewareChain(p, AllNodes(p))
    /\ NodesOf(p, g) /\ EntriesOf(p, g) /\ SpotsOf(p, g) /\ CallsIn(p, g) /\ AddedIn(p, g)

(* Only these parts count. *)
SameGraph(g, h) ==
    /\ DOMAIN g = DOMAIN h /\ g.stage = h.stage /\ g.chain = h.chain /\ g.entry = h.entry /\ g.nodes = h.nodes /\ g.entries = h.entries
    /\ g.spots = h.spots /\ g.edges = h.edges /\ g.applied = h.applied
LEMMA GraphOfSame ==
    ASSUME NEW p, NEW g, NEW h, SameGraph(g, h), GraphOf(p, g)
    PROVE  GraphOf(p, h)
<1>1. NodesOf(p, h) /\ EntriesOf(p, h) /\ SpotsOf(p, h)
  BY DEF SameGraph, GraphOf, NodesOf, EntriesOf, SpotsOf
<1>2. \A e : Taken(p, h, e) <=> Taken(p, g, e)
  BY DEF SameGraph, Taken
<1>3. CallsIn(p, h) /\ AddedIn(p, h)
  BY <1>2 DEF SameGraph, GraphOf, CallsIn, AddedIn
<1> QED
  BY <1>1, <1>3 DEF SameGraph, GraphOf

(* The frontier is none of them. *)
LEMMA FrontierApart ==
    ASSUME NEW p, NEW b, DOMAIN b = BuiltFields
    PROVE  SameGraph(b, WithFrontier(p, b))
<1> DEFINE F == IF b.entry = "" THEN FrontierSection(ClassifyFrontier(p, b)) ELSE NoFrontier
<1>1. WithFrontier(p, b) = [b EXCEPT !.frontier = F]
  BY DEF WithFrontier
<1> HIDE DEF F
<1> QED
  BY <1>1 DEF SameGraph, BuiltFields

(* A graph that is built is one of its program. *)
LEMMA BuildGraphOf ==
    ASSUME NEW p \in BuildPrograms, NEW entry, NEW fold \in BOOLEAN, BuildGraph(p, entry, fold).stage = "built"
    PROVE  GraphOf(p, BuildGraph(p, entry, fold))
<1> DEFINE R    == Discover(p)
           all  == AllNodes(p)
           spots == ManifestOf(p, all)
           own == IF entry = "" THEN FirstPartyScope(p, all)
                    ELSE ReachableFirstParty(p, CHOOSE f \in EntryRoots(R, entry) : TRUE)
           a == Assembled(p, R, all, own, spots, entry, fold)
           G == BuildGraph(p, entry, fold)
<1>1. G = IF BuildFails(p, R, spots, entry) THEN [stage |-> "failed"] ELSE WithFrontier(p, a)
  BY DEF BuildGraph, AllNodes
<1>2. ~BuildFails(p, R, spots, entry) /\ G = WithFrontier(p, a)
  <2>1. G.stage = "built"
    OBVIOUS
  <2> HIDE DEF a, R, spots, G
  <2> QED
    BY <1>1, <2>1
<1>3. /\ DOMAIN a = BuiltFields /\ a.applied = {} /\ a.entry = entry /\ a.nodes = own /\ a.spots = spots /\ a.stage = "built"
      /\ a.edges = UNION {EdgesOf(p, all, own, fold, f) : f \in own} /\ a.chain = MiddlewareChain(p, all)
      /\ a.entries = (IF entry # "" THEN {}
                      ELSE {r \in R : r.name # "" /\ r.fn \in own /\ r.kind \in {"http", "consumer", "callback", "worker"}})
  BY DEF Assembled, BuiltFields
<1> HIDE DEF a
<1>4. own = IF entry = "" THEN {f \in all : p.kind[f] = "own"} ELSE {f \in ScopeOf(p, entry) : ~Wrapper(p, f)}
  <2>1. CASE entry = ""
    BY <2>1 DEF FirstPartyScope
  <2>2. CASE entry # ""
    <3>1. own = ReachableFirstParty(p, Root(p, entry))
      BY <2>2 DEF Root
    <3> QED
      BY <2>2, <3>1 DEF ReachableFirstParty, ScopeOf, OwnCalls
  <2> QED
    BY <2>1, <2>2
<1> HIDE DEF own, spots
<1>5. NodesOf(p, a)
  <2>1. CASE entry = ""
    BY <1>3, <1>4, <2>1 DEF NodesOf, ScopeOf, Wrapper
  <2>2. CASE entry # ""
    BY <1>3, <1>4, <2>2 DEF NodesOf, Wrapper
  <2> QED
    BY <2>1, <2>2
<1>6. EntriesOf(p, a)
  <2>1. ASSUME entry # "" PROVE EntryRoots(R, entry) = {Root(p, entry)}
    <3> DEFINE S == {x \in R : x.name = entry}
               f == [x \in S |-> x.fn]
    <3>1. Cardinality(EntryRoots(R, entry)) = 1
      BY <1>2, <2>1 DEF BuildFails
    <3>2. IsFiniteSet(S)
      BY DiscoverIs, FS_Subset
    <3>3. EntryRoots(R, entry) = {f[x] : x \in S} /\ DOMAIN f = S
      BY DEF EntryRoots
    <3> HIDE DEF f, S
    <3>4. IsFiniteSet(EntryRoots(R, entry))
      BY <3>2, <3>3, ImageCount
    <3>5. PICK x : EntryRoots(R, entry) = {x}
      BY <3>1, <3>4, FS_Singleton
    <3>6. Root(p, entry) = x
      BY <3>5 DEF Root
    <3> QED
      BY <3>5, <3>6
  <2> HIDE DEF R
  <2>2. \A r \in a.entries : r \in R /\ r.name # "" /\ r.fn \in own
    BY <1>3
  <2> QED
    BY <1>3, <2>1, <2>2 DEF EntriesOf, R
<1>7. SpotsOf(p, a)
  BY <1>3 DEF SpotsOf, spots
<1>8. CallsIn(p, a) /\ AddedIn(p, a)
  BY <1>3 DEF CallsIn, AddedIn
<1>9. GraphOf(p, a)
  BY <1>3, <1>5, <1>6, <1>7, <1>8 DEF GraphOf
<1>10. GraphOf(p, WithFrontier(p, a))
  BY <1>3, <1>9, FrontierApart, GraphOfSame
<1> HIDE DEF G
<1>11. GraphOf(p, G)
  BY <1>2, <1>10
<1> QED
  BY <1>11 DEF G

(* A pass that only adds edges keeps it. *)
LEMMA GraphOfGrows ==
    ASSUME NEW p, NEW g, NEW h, GraphOf(p, g), "rebind" \notin g.applied, "rebind" \notin h.applied, DOMAIN h = BuiltFields,
           h.stage = g.stage, h.chain = g.chain, h.entry = g.entry, h.nodes = g.nodes, h.entries = g.entries, g.edges \subseteq h.edges, SpotsOf(p, h)
    PROVE  GraphOf(p, h)
<1>1. NodesOf(p, h) /\ EntriesOf(p, h) /\ AddedIn(p, h)
  BY DEF GraphOf, NodesOf, EntriesOf, AddedIn
<1>2. CallsIn(p, h)
  BY DEF GraphOf, CallsIn, Taken
<1> QED
  BY <1>1, <1>2 DEF GraphOf

(* --reclaim keeps it. *)
LEMMA ReclaimersGraphOf ==
    ASSUME GraphOf(source, graph), ApplyReclaimers
    PROVE  GraphOf(source, graph')
<1> DEFINE X == Folded(graph, ReclaimEdges(source, AllNodes(source), graph.nodes))
           b == [graph EXCEPT !.applied = {"reclaim"}, !.edges = X]
<1>1. graph.applied = {} /\ graph' = WithFrontier(source, b) /\ DOMAIN graph = BuiltFields
  BY DEF ApplyReclaimers, Built, GraphOf
<1>2. graph.edges \subseteq X
  BY DEF Folded
<1> HIDE DEF X
<1>3. b = [x \in BuiltFields |-> IF x = "applied" THEN {"reclaim"} ELSE IF x = "edges" THEN X ELSE graph[x]]
  BY <1>1
<1> HIDE DEF b
<1>4. /\ DOMAIN b = BuiltFields /\ b.stage = graph.stage /\ b.chain = graph.chain /\ b.entry = graph.entry /\ b.nodes = graph.nodes
      /\ b.entries = graph.entries /\ b.spots = graph.spots /\ b.edges = X /\ b.applied = {"reclaim"}
  BY <1>3 DEF BuiltFields
<1>5. SpotsOf(source, b)
  BY <1>4 DEF GraphOf, SpotsOf
<1>6. GraphOf(source, b)
  BY <1>1, <1>2, <1>4, <1>5, GraphOfGrows
<1> QED
  BY <1>1, <1>4, <1>6, FrontierApart, GraphOfSame

(* --reclaim-middleware keeps it: what it drops is resolved. *)
LEMMA MiddlewareGraphOf ==
    ASSUME GraphOf(source, graph), ApplyMiddlewareReclaimer
    PROVE  GraphOf(source, graph')
<1> DEFINE A == graph.applied \cup {"middleware"}
           D == DropResolvedSeams(graph.spots, graph.chain.empty)
           X == Folded(graph, graph.chain.edges)
           b == [graph EXCEPT !.applied = A, !.edges = X, !.spots = D]
<1>1. graph.applied \subseteq {"reclaim"} /\ graph' = WithFrontier(source, b) /\ DOMAIN graph = BuiltFields
  BY DEF ApplyMiddlewareReclaimer, GraphOf
<1>2. graph.edges \subseteq X
  BY DEF Folded
<1>3. \A t \in graph.spots : Stays(source, t) => t \in D
  BY DEF GraphOf, Stays, DropResolvedSeams
<1>4. "rebind" \notin A /\ "rebind" \notin graph.applied
  BY <1>1
<1> HIDE DEF X, D, A
<1>5. b = [x \in BuiltFields |-> IF x = "applied" THEN A ELSE IF x = "edges" THEN X ELSE IF x = "spots" THEN D ELSE graph[x]]
  BY <1>1
<1> HIDE DEF b
<1>6. /\ DOMAIN b = BuiltFields /\ b.stage = graph.stage /\ b.chain = graph.chain /\ b.entry = graph.entry /\ b.nodes = graph.nodes
      /\ b.entries = graph.entries /\ b.spots = D /\ b.edges = X /\ b.applied = A
  BY <1>5 DEF BuiltFields
<1>7. SpotsOf(source, b)
  BY <1>3, <1>6 DEF GraphOf, SpotsOf
<1>8. GraphOf(source, b)
  BY <1>2, <1>4, <1>6, <1>7, GraphOfGrows
<1> QED
  BY <1>1, <1>6, <1>8, FrontierApart, GraphOfSame

(* --rebind keeps it, and what it takes it takes. *)
LEMMA RebindGraphOf ==
    ASSUME GraphOf(source, graph), ApplyRebind
    PROVE  GraphOf(source, graph')
<1> DEFINE plan == Compute(source, AllNodes(source))
           A == graph.applied \cup {"rebind"}
           Y == Folded(graph, plan.add)
           X == {e \in Y : ~(e.via = "" /\ <<e.from, e.to>> \in plan.remove)}
           b == [graph EXCEPT !.applied = A, !.edges = X]
<1>1. "rebind" \notin graph.applied /\ graph' = WithFrontier(source, b) /\ DOMAIN graph = BuiltFields
  BY DEF ApplyRebind, GraphOf
<1>2. graph.edges \subseteq Y /\ \A e \in plan.add : e.from \in graph.nodes /\ e.to \in graph.nodes => \E x \in Y : x.from = e.from /\ x.to = e.to
  BY DEF Folded
<1>3. \A e \in Y : e \in X \/ <<e.from, e.to>> \in plan.remove
  OBVIOUS
<1>4. "rebind" \in A
  OBVIOUS
<1> HIDE DEF X, Y, A
<1>5. b = [x \in BuiltFields |-> IF x = "applied" THEN A ELSE IF x = "edges" THEN X ELSE graph[x]]
  BY <1>1
<1> HIDE DEF b
<1>6. /\ DOMAIN b = BuiltFields /\ b.stage = graph.stage /\ b.chain = graph.chain /\ b.entry = graph.entry /\ b.nodes = graph.nodes
      /\ b.entries = graph.entries /\ b.spots = graph.spots /\ b.edges = X /\ b.applied = A
  BY <1>5 DEF BuiltFields
<1>7. \A e : Taken(source, b, e) <=> <<e.from, e.to>> \in plan.remove
  BY <1>4, <1>6 DEF Taken
<1> HIDE DEF plan
<1>8. NodesOf(source, b) /\ EntriesOf(source, b) /\ SpotsOf(source, b)
  BY <1>6 DEF GraphOf, NodesOf, EntriesOf, SpotsOf
<1>9. CallsIn(source, b)
  <2>1. PICK fold \in BOOLEAN : \A f \in graph.nodes : \A e \in EdgesOf(source, AllNodes(source), graph.nodes, fold, f) : e \in graph.edges
    BY <1>1 DEF GraphOf, CallsIn, Taken
  <2>2. \A f \in b.nodes : \A e \in EdgesOf(source, AllNodes(source), b.nodes, fold, f) : e \in b.edges \/ Taken(source, b, e)
    BY <1>2, <1>3, <1>6, <1>7, <2>1
  <2> QED
    BY <2>2 DEF CallsIn
<1>10. AddedIn(source, b)
  <2> SUFFICES ASSUME NEW e \in plan.add, e.from \in b.nodes, e.to \in b.nodes
               PROVE  Taken(source, b, e) \/ \E x \in b.edges : x.from = e.from /\ x.to = e.to
    BY DEF AddedIn, plan
  <2>1. PICK x \in Y : x.from = e.from /\ x.to = e.to
    BY <1>2, <1>6
  <2> QED
    BY <1>3, <1>6, <1>7, <2>1
<1>11. GraphOf(source, b)
  BY <1>6, <1>8, <1>9, <1>10 DEF GraphOf
<1> QED
  BY <1>1, <1>6, <1>11, FrontierApart, GraphOfSame

-----------------------------------------------------------------------------
(* What is shown of a request.                                             *)

(* A function is shown by B, nodes of a graph: it is one, or a wrapper     *)
(* that a call of one of them goes through.                                *)
Shown(p, B, f) ==
    \/ f \in B
    \/ Wrapper(p, f) /\ \E n \in B : \E i \in SitesOf(p, n) : \E c \in SeenCallees(p, n, i) : Wrapper(p, c) /\ f \in Spliced(p, c)
Spotted(p, g, B) == \E s \in g.spots : ~IsDisclosureOnlyFrontier(s.kind) /\ (s.site \in B \/ s.site \in {p.pkg[f] : f \in B})

(* The nodes of a graph are functions of the program. *)
LEMMA GraphNodesAre ==
    ASSUME NEW p \in BuildPrograms, NEW g, GraphOf(p, g)
    PROVE  /\ IsFiniteSet(g.nodes) /\ g.nodes \subseteq AllNodes(p) /\ AllNodes(p) \subseteq p.fns
           /\ ScopeOf(p, g.entry) \subseteq AllNodes(p) /\ \A f \in g.nodes : f \in ScopeOf(p, g.entry) /\ ~Wrapper(p, f)
           /\ \A f \in ScopeOf(p, g.entry) : \A c \in CallsOf(p)[f] : FirstParty(p, c) => c \in ScopeOf(p, g.entry)
           /\ \A f \in ScopeOf(p, g.entry) : p.kind[f] = "own" => f \in g.nodes
<1>1. g.entry # "" => EntryRoots(Discover(p), g.entry) # {}
  BY DEF GraphOf, EntriesOf
<1>2. /\ ScopeOf(p, g.entry) \subseteq AllNodes(p)
      /\ \A f \in ScopeOf(p, g.entry) : \A c \in CallsOf(p)[f] : FirstParty(p, c) => c \in ScopeOf(p, g.entry)
  BY <1>1, ScopeClosed
<1>3. (\A f \in g.nodes : f \in ScopeOf(p, g.entry) /\ ~Wrapper(p, f)) /\ \A f \in ScopeOf(p, g.entry) : p.kind[f] = "own" => f \in g.nodes
  BY DEF GraphOf, NodesOf
<1>4. g.nodes \subseteq AllNodes(p) /\ AllNodes(p) \subseteq p.fns
  BY <1>2, <1>3, NodesAre
<1>5. IsFiniteSet(g.nodes)
  <2>1. IsFiniteSet(p.fns) /\ g.nodes \subseteq p.fns
    BY <1>4, ProgramIs
  <2> QED
    BY <2>1, FS_Subset
<1> QED
  BY <1>2, <1>3, <1>4, <1>5

(* What --rebind takes of a closure, it gives to the function it is in.    *)
LEMMA TakenIsGiven ==
    ASSUME NEW p \in BuildPrograms, NEW g, GraphOf(p, g), NEW r \in g.nodes, "rebind" \in g.applied, RunnersOnlyRun(p),
           NEW f, NEW c \in g.nodes, <<f, c>> \in Compute(p, AllNodes(p)).remove, p.parent[c] \in Under(g, r)
    PROVE  c \in Under(g, r)
<1> DEFINE h == p.parent[c]
           e == CallEdge(h, c, "rebind")
<1>1. IsFiniteSet(g.nodes) /\ ~Wrapper(p, c)
  BY GraphNodesAre
<1>2. h \in g.nodes /\ \A x \in g.edges : x.from \in Under(g, r) /\ x.to \in g.nodes => x.to \in Under(g, r)
  BY <1>1, UnderClosed
<1>3. e \in Compute(p, AllNodes(p)).add /\ IsClosure(p, c) /\ UsedOnce(p, c)
  BY <1>1, RemovedIs
<1>4. e.from = h /\ e.to = c
  BY DEF CallEdge
<1> HIDE DEF e
<1>5. ~Taken(p, g, e)
  <2> SUFFICES ASSUME <<h, c>> \in Compute(p, AllNodes(p)).remove PROVE FALSE
    BY <1>4 DEF Taken
  <2> DEFINE x == <<h, c>>
  <2>1. x[1] = h /\ x[2] = c
    OBVIOUS
  <2>2. ~StillRuns(p, x[1], x[2])
    <3> HIDE DEF x
    <3>1. x \in Compute(p, AllNodes(p)).remove
      BY DEF x
    <3> QED
      BY <3>1 DEF RunnersOnlyRun
  <2> QED
    BY <1>3, <2>1, <2>2 DEF StillRuns
<1>6. PICK x \in g.edges : x.from = h /\ x.to = c
  BY <1>2, <1>3, <1>4, <1>5 DEF GraphOf, AddedIn
<1> QED
  BY <1>2, <1>6

(* What a function that is shown is seen to call is shown. *)
LEMMA CallIsShown ==
    ASSUME NEW p \in BuildPrograms, NEW g, GraphOf(p, g), NEW r \in g.nodes, NEW B, B = Under(g, r),
           NEW f \in ScopeOf(p, g.entry), Shown(p, B, f), NEW i \in SitesOf(p, f), NEW c \in SeenCallees(p, f, i),
           p.kind[c] \in {"own", "wrap"}, Wrapper(p, f) => ~IsClosure(p, c),
           "rebind" \in g.applied /\ <<f, c>> \in Compute(p, AllNodes(p)).remove /\ c \in g.nodes => c \in B
    PROVE  c \in ScopeOf(p, g.entry) /\ Shown(p, B, c)
<1> DEFINE all == AllNodes(p)
<1>1. /\ IsFiniteSet(g.nodes) /\ g.nodes \subseteq p.fns /\ f \in p.fns
      /\ \A n \in g.nodes : n \in ScopeOf(p, g.entry) /\ ~Wrapper(p, n)
      /\ \A n \in ScopeOf(p, g.entry) : p.kind[n] = "own" => n \in g.nodes
  BY GraphNodesAre
<1>2. B \subseteq g.nodes /\ \A e \in g.edges : e.from \in B /\ e.to \in g.nodes => e.to \in B
  BY <1>1, UnderClosed
<1>3. FirstParty(p, c) /\ c \in CallsOf(p)[f] /\ c \in p.fns
  BY <1>1, CallsAre DEF FirstParty
<1>4. c \in ScopeOf(p, g.entry)
  BY <1>3, GraphNodesAre
<1>5. PICK fold \in BOOLEAN : \A n \in g.nodes : \A e \in EdgesOf(p, all, g.nodes, fold, n) : e \in g.edges \/ Taken(p, g, e)
  BY DEF GraphOf, CallsIn
<1>6. \A n : CallEdge(n, c, "").from = n /\ CallEdge(n, c, "").to = c
  BY DEF CallEdge
<1>7. CASE f \in B
  <2>1. CASE Wrapper(p, c)
    <3>1. c \in Spliced(p, c)
      BY <1>3, <2>1, SplicedClosed
    <3> QED
      BY <1>4, <1>7, <2>1, <3>1 DEF Shown
  <2>2. CASE ~Wrapper(p, c)
    <3>1. c \in g.nodes
      BY <1>1, <1>4, <2>2 DEF Wrapper
    <3>2. CallEdge(f, c, "") \in EdgesOf(p, all, g.nodes, fold, f)
      BY <3>1, CallHasEdge, EdgesAre
    <3>3. CASE CallEdge(f, c, "") \in g.edges
      BY <1>2, <1>4, <1>6, <1>7, <3>1, <3>3 DEF Shown
    <3>4. CASE Taken(p, g, CallEdge(f, c, ""))
      BY <1>4, <1>6, <3>1, <3>4 DEF Shown, Taken
    <3> QED
      BY <1>2, <1>5, <1>7, <3>2, <3>3, <3>4
  <2> QED
    BY <2>1, <2>2
<1>8. CASE f \notin B
  <2>1. Wrapper(p, f)
    BY <1>8 DEF Shown
  <2>2. PICK n \in B : \E k \in SitesOf(p, n) : \E w \in SeenCallees(p, n, k) : Wrapper(p, w) /\ f \in Spliced(p, w)
    BY <1>8 DEF Shown
  <2>3. PICK k \in SitesOf(p, n) : \E w \in SeenCallees(p, n, k) : Wrapper(p, w) /\ f \in Spliced(p, w)
    BY <2>2
  <2>4. PICK w \in SeenCallees(p, n, k) : Wrapper(p, w) /\ f \in Spliced(p, w)
    BY <2>3
  <2>5. n \in g.nodes /\ n \in p.fns /\ w \in p.fns
    BY <1>1, <1>2, CallsAre
  <2>6. CASE Wrapper(p, c)
    <3>1. c \in Spliced(p, w)
      BY <1>3, <2>4, <2>5, <2>6, SplicedClosed
    <3> QED
      BY <1>4, <2>4, <2>6, <3>1 DEF Shown
  <2>7. CASE ~Wrapper(p, c)
    <3>1. c \in g.nodes
      BY <1>1, <1>4, <2>7 DEF Wrapper
    <3>2. CallEdge(n, c, "") \in SiteEdges(p, all, g.nodes, fold, n, f, SiteAt(p, f, i))
      BY <3>1, CallHasEdge
    <3>3. CallEdge(n, c, "") \in EdgesOf(p, all, g.nodes, fold, n)
      BY <2>4, <3>2, EdgesAre
    <3>4. ~Taken(p, g, CallEdge(n, c, ""))
      <4> SUFFICES ASSUME <<n, c>> \in Compute(p, all).remove PROVE FALSE
        BY <1>6 DEF Taken
      <4> QED
        BY <2>1, <2>7, RemovedIs
    <3> QED
      BY <1>2, <1>4, <1>5, <1>6, <2>5, <3>1, <3>3, <3>4 DEF Shown
  <2> QED
    BY <2>6, <2>7
<1> QED
  BY <1>7, <1>8

(* The label l is what the effect at site j of f performs: the query there *)
(* or, when that is given to f, one of a caller that is shown.             *)
Performs(p, g, B, f, j, l) ==
    /\ SiteAt(p, f, j).how # "param" => l = SiteAt(p, f, j).q
    /\ SiteAt(p, f, j).how = "param" =>
          \E h \in AllNodes(p) : \E i \in SitesOf(p, h) :
             /\ f \in SeenCallees(p, h, i) /\ (h \in g.nodes => h \in B)
             /\ SiteAt(p, h, i).how # "param" => l = SiteAt(p, h, i).q

(* An effect of a function that is shown has an edge. *)
LEMMA EffectIsShown ==
    ASSUME NEW p \in BuildPrograms, NEW g, GraphOf(p, g), NEW r \in g.nodes, NEW B, B = Under(g, r),
           NEW f \in ScopeOf(p, g.entry), Shown(p, B, f), NEW j \in SitesOf(p, f), SiteAt(p, f, j).do = "effect",
           NEW l, Performs(p, g, B, f, j, l)
    PROVE  \E e \in g.edges : e.from \in B /\ e.to \in {l} \cup Unread
<1> DEFINE all == AllNodes(p)
           s == SiteAt(p, f, j)
           Found(e) == e.from \in B /\ e.to \in {l} \cup Unread
<1>1. /\ IsFiniteSet(g.nodes) /\ all \subseteq p.fns /\ g.nodes \subseteq all /\ f \in p.fns
      /\ \A n \in g.nodes : ~Wrapper(p, n)
  BY GraphNodesAre
<1>2. B \subseteq g.nodes
  BY <1>1, UnderClosed
<1>3. PICK fold \in BOOLEAN : \A n \in g.nodes : \A e \in EdgesOf(p, all, g.nodes, fold, n) : e \in g.edges \/ Taken(p, g, e)
  BY DEF GraphOf, CallsIn
<1>4. \A n \in g.nodes : \A e \in EdgesOf(p, all, g.nodes, fold, n) : e.to \notin p.fns => e \in g.edges
  BY <1>3, RemovedIs DEF Taken
<1>5. /\ \A h \in p.fns : \A i \in SitesOf(p, h) : SiteAt(p, h, i).q \notin p.fns
      /\ \A u \in Unread : u \notin p.fns
  BY ProgramIs
<1>6. CASE f \in B
  <2>1. CASE s.how # "param" \/ ~fold \/ s.on # "db"
    <3>1. PICK e \in SiteEdges(p, all, g.nodes, fold, f, f, s) : e.from = f /\ (e.to \in Unread \/ (s.how # "param" /\ e.to = s.q))
      BY <2>1, EffectHasEdge
    <3>2. e \in EdgesOf(p, all, g.nodes, fold, f)
      BY <3>1, EdgesAre
    <3>3. s.how # "param" => l = s.q
      BY DEF Performs
    <3> QED
      BY <1>1, <1>2, <1>4, <1>5, <1>6, <3>1, <3>2, <3>3
  <2>2. CASE s.how = "param" /\ fold /\ s.on = "db"
    <3>1. PICK h \in all : \E i \in SitesOf(p, h) :
                 /\ f \in SeenCallees(p, h, i) /\ (h \in g.nodes => h \in B)
                 /\ SiteAt(p, h, i).how # "param" => l = SiteAt(p, h, i).q
      BY <2>2 DEF Performs
    <3>2. PICK i \in SitesOf(p, h) :
                 /\ f \in SeenCallees(p, h, i) /\ (h \in g.nodes => h \in B)
                 /\ SiteAt(p, h, i).how # "param" => l = SiteAt(p, h, i).q
      BY <3>1
    <3>3. PICK e \in SiteEdges(p, all, g.nodes, fold, f, f, s) : PassesOn(p, g.nodes, f, h, i, e)
      <4>1. f \in SeenCallees(p, h, i) /\ s.do = "effect" /\ fold /\ s.on = "db" /\ s.how = "param"
        BY <2>2, <3>2
      <4> HIDE DEF s, all, Found
      <4> QED
        BY <4>1, PassedHasEdge
    <3>4. e \in EdgesOf(p, all, g.nodes, fold, f) /\ f \in g.nodes
      BY <1>2, <1>6, <3>3, EdgesAre
    <3>5. SiteAt(p, h, i).q \notin p.fns
      BY <1>1, <1>5
    <3>6. e.to \notin p.fns /\ Found(e)
      BY <1>5, <1>6, <3>2, <3>3, <3>5 DEF PassesOn
    <3>7. e \in g.edges
      BY <1>4, <3>4, <3>6
    <3> QED
      BY <3>6, <3>7
  <2> QED
    BY <2>1, <2>2
<1>7. CASE f \notin B
  <2>1. Wrapper(p, f)
    BY <1>7 DEF Shown
  <2>2. PICK n \in B : \E k \in SitesOf(p, n) : \E w \in SeenCallees(p, n, k) : Wrapper(p, w) /\ f \in Spliced(p, w)
    BY <1>7 DEF Shown
  <2>3. PICK k \in SitesOf(p, n) : \E w \in SeenCallees(p, n, k) : Wrapper(p, w) /\ f \in Spliced(p, w)
    BY <2>2
  <2>4. PICK w \in SeenCallees(p, n, k) : Wrapper(p, w) /\ f \in Spliced(p, w)
    BY <2>3
  <2>5. n \in g.nodes /\ n # f
    BY <1>1, <1>2, <2>1
  <2>6. PICK e \in SiteEdges(p, all, g.nodes, fold, n, f, s) : e.from = n /\ (e.to \in Unread \/ (s.how # "param" /\ e.to = s.q))
    BY <2>5, EffectHasEdge
  <2>7. e \in EdgesOf(p, all, g.nodes, fold, n)
    BY <2>4, <2>6, EdgesAre
  <2>8. s.how # "param" => l = s.q
    BY DEF Performs
  <2> QED
    BY <1>1, <1>4, <1>5, <2>5, <2>6, <2>7, <2>8
<1> QED
  BY <1>6, <1>7

-----------------------------------------------------------------------------
(* The inductive invariant.                                                *)

QueriesOf(p) == {""} \cup (UNION {{SiteAt(p, f, i).q : i \in SitesOf(p, f)} : f \in p.fns})
FramesOf(p) == [fn : p.fns, at : Nat, arg : {""} \cup p.fns, q : QueriesOf(p), way : {"own", "served", "closure", "named"}]

(* A frame of first-party code, come to by calls of first-party code. *)
Inside(p, f) == f.way = "own" /\ FirstParty(p, f.fn)

(* Its func value was passed, as it stands, by such a frame before it.     *)
Handed(p, st, j) ==
    st[j].arg # "" => \E k \in 1..(j - 1) : Inside(p, st[k]) /\ \E i \in SitesOf(p, st[k].fn) : SiteAt(p, st[k].fn, i).arg = st[j].arg

(* The call that the frame before it makes. *)
CallAt(p, f) == SiteAt(p, f.fn, f.at - 1)
(* It is called by the frame before it, of the same kind, where it is      *)
(* seen, and is given the query there is.                                  *)
CalledFrom(p, f, h) ==
    /\ Inside(p, f) /\ f.at - 1 \in SitesOf(p, f.fn) /\ h.fn \in SeenCallees(p, f.fn, f.at - 1)
    /\ CallAt(p, f).how # "param" => h.q = CallAt(p, f).q

FrameIs(p, g, B, st, j) ==
    /\ p.kind[st[j].fn] # "init" /\ st[j].fn \in ScopeOf(p, g.entry) /\ <<st[j].fn, st[j].arg>> \in Givens(p)
    /\ Handed(p, st, j)
    /\ j > 1 => CalledFrom(p, st[j - 1], st[j])
    /\ Shown(p, B, st[j].fn)

(* So are all such frames, unless something is disclosed.                  *)
FramesAre(p, g, st) ==
    LET B == Under(g, st[1].fn) IN Spotted(p, g, B) \/ \A j \in 1..Len(st) : Inside(p, st[j]) => FrameIs(p, g, B, st, j)

(* A request that runs, of a graph that was built, from one of its entry   *)
(* points.                                                                 *)
Runs(p, g, st) ==
    /\ g.stage = "built" /\ st \in Seq(FramesOf(p)) /\ st[1].fn \in g.nodes
    /\ \E r \in Discover(p) : r.name # "" /\ r.fn = st[1].fn

CallsInv ==
    /\ graph.stage = "built" => source \in BuildPrograms /\ GraphOf(source, graph)
    /\ stack # <<>> => Runs(source, graph, stack) /\ (Rebound \/ FramesAre(source, graph, stack))
    /\ performed # {} => stack # <<>>
    /\ CallsAccounted

(* Facts of sequences. *)
LEMMA SeqIs ==
    ASSUME NEW S, NEW st \in Seq(S)
    PROVE  /\ Len(st) \in Nat /\ \A j \in 1..Len(st) : st[j] \in S
           /\ st # <<>> => Len(st) > 0 /\ 1 \in 1..Len(st) /\ Len(st) \in 1..Len(st)
OBVIOUS
LEMMA OneIs ==
    ASSUME NEW S, NEW f \in S
    PROVE  <<f>> \in Seq(S) /\ Len(<<f>>) = 1 /\ <<f>>[1] = f /\ <<f>> # <<>>
OBVIOUS
LEMMA FrontIs ==
    ASSUME NEW S, NEW st \in Seq(S), NEW n \in Nat, n > 0, n <= Len(st)
    PROVE  /\ SubSeq(st, 1, n) \in Seq(S) /\ Len(SubSeq(st, 1, n)) = n /\ SubSeq(st, 1, n) # <<>>
           /\ \A j \in 1..n : SubSeq(st, 1, n)[j] = st[j]
<1>1. SubSeq(st, 1, n) \in Seq(S) /\ Len(SubSeq(st, 1, n)) = n /\ \A j \in 1..n : SubSeq(st, 1, n)[j] = st[j]
  OBVIOUS
<1>2. SubSeq(st, 1, n) # <<>>
  BY <1>1
<1> QED
  BY <1>1, <1>2
LEMMA PushIs ==
    ASSUME NEW S, NEW st \in Seq(S), NEW f \in S
    PROVE  /\ Append(st, f) \in Seq(S) /\ Len(Append(st, f)) = Len(st) + 1 /\ Append(st, f) # <<>>
           /\ Append(st, f)[Len(st) + 1] = f /\ \A j \in 1..Len(st) : Append(st, f)[j] = st[j]
<1>1. /\ Append(st, f) \in Seq(S) /\ Len(Append(st, f)) = Len(st) + 1
      /\ Append(st, f)[Len(st) + 1] = f /\ \A j \in 1..Len(st) : Append(st, f)[j] = st[j]
  OBVIOUS
<1>2. Append(st, f) # <<>>
  BY <1>1
<1> QED
  BY <1>1, <1>2

(* What is accounted for stays so while the request runs. *)
LEMMA AccountedStays ==
    ASSUME UNCHANGED <<source, graph>>, stack # <<>>, stack' # <<>>, stack'[1].fn = stack[1].fn
    PROVE  Below' = Below /\ \A l : Accounted(l)' <=> Accounted(l)
<1>1. Below' = Below
  BY DEF Below
<1> QED
  BY <1>1 DEF Accounted

LEMMA InitCallsInv == BuildInit => CallsInv
BY DEF BuildInit, NoGraph, CallsInv, CallsAccounted

(* What is built and what is applied to it, before a request runs. *)
LEMMA GraphCallsInv ==
    ASSUME CallsInv,
           \/ \E p \in BuildPrograms, entry \in {"", "H"}, fold \in BOOLEAN : Build(p, entry, fold)
           \/ ApplyReclaimers \/ ApplyMiddlewareReclaimer \/ ApplyRebind
    PROVE  CallsInv'
<1>1. stack = <<>> /\ performed = {} /\ stack' = stack /\ performed' = performed
  <2>1. CASE \E p \in BuildPrograms, entry \in {"", "H"}, fold \in BOOLEAN : Build(p, entry, fold)
    BY <2>1 DEF CallsInv, Build, Runs
  <2>2. CASE ApplyReclaimers \/ ApplyMiddlewareReclaimer \/ ApplyRebind
    BY <2>2 DEF ApplyReclaimers, ApplyMiddlewareReclaimer, ApplyRebind, Built
  <2> QED
    BY <2>1, <2>2
<1>2. ASSUME graph'.stage = "built" PROVE source' \in BuildPrograms /\ GraphOf(source', graph')
  <2>1. ASSUME NEW p \in BuildPrograms, NEW entry, NEW fold \in BOOLEAN, Build(p, entry, fold)
        PROVE  source' \in BuildPrograms /\ GraphOf(source', graph')
    <3> DEFINE G == BuildGraph(p, entry, fold)
    <3>1. source' = p /\ graph' = G
      BY <2>1 DEF Build
    <3>2. G.stage = "built" => GraphOf(p, G)
      BY BuildGraphOf
    <3> HIDE DEF G
    <3> QED
      BY <1>2, <3>1, <3>2
  <2>2. ASSUME ApplyReclaimers \/ ApplyMiddlewareReclaimer \/ ApplyRebind
        PROVE  source' \in BuildPrograms /\ GraphOf(source', graph')
    <3>1. source' = source /\ graph.stage = "built"
      BY <2>2 DEF ApplyReclaimers, ApplyMiddlewareReclaimer, ApplyRebind, Built
    <3>2. source \in BuildPrograms /\ GraphOf(source, graph)
      BY <3>1 DEF CallsInv
    <3> QED
      BY <2>2, <3>1, <3>2, ReclaimersGraphOf, MiddlewareGraphOf, RebindGraphOf
  <2> QED
    BY <2>1, <2>2
<1> QED
  BY <1>1, <1>2 DEF CallsInv, CallsAccounted

(* A request starts. *)
LEMMA RequestCallsInv ==
    ASSUME CallsInv, NEW r \in Requestable, Request(r)
    PROVE  CallsInv'
<1> DEFINE f == RequestFrame(r.fn, "", "", "own")
           st == <<f>>
<1>1. stack' = st /\ UNCHANGED <<source, graph, promised, performed>> /\ performed = {} /\ graph.stage = "built"
  BY DEF Request, Requestable
<1>2. source \in BuildPrograms /\ GraphOf(source, graph)
  BY <1>1 DEF CallsInv
<1>3. r \in Discover(source) /\ r.name # "" /\ r.fn \in graph.nodes
  <2>1. CASE graph.entry = ""
    BY <1>1, <1>2, <2>1 DEF Requestable, GraphOf, EntriesOf
  <2>2. CASE graph.entry # ""
    <3>1. r \in Discover(source) /\ r.name = graph.entry
      BY <1>1, <2>2 DEF Requestable
    <3>2. r.fn \in EntryRoots(Discover(source), graph.entry)
      BY <3>1 DEF EntryRoots
    <3>3. EntryRoots(Discover(source), graph.entry) = {Root(source, graph.entry)}
      BY <1>2, <2>2 DEF GraphOf, EntriesOf
    <3>4. r.fn = Root(source, graph.entry)
      BY <3>2, <3>3
    <3>5. r.fn \in ScopeOf(source, graph.entry)
      BY <1>2, <2>2, <3>3, <3>4, ScopeClosed
    <3>6. source.kind[r.fn] = "own"
      BY <1>2, <2>2, <3>1, ProgramIs
    <3> QED
      BY <1>2, <2>2, <3>1, <3>5, <3>6, GraphNodesAre
  <2> QED
    BY <2>1, <2>2
<1>4. source.kind[r.fn] = "own" /\ r.fn \in source.fns
  BY <1>2, <1>3, ProgramIs
<1>5. f.fn = r.fn /\ f.at = 1 /\ f.arg = "" /\ f.q = "" /\ f.way = "own" /\ f \in FramesOf(source)
  BY <1>4 DEF RequestFrame, FramesOf, QueriesOf
<1> HIDE DEF f
<1>6. st \in Seq(FramesOf(source)) /\ Len(st) = 1 /\ st[1] = f /\ st # <<>>
  BY <1>5, OneIs
<1> HIDE DEF st
<1>7. Runs(source, graph, st)
  BY <1>1, <1>3, <1>5, <1>6 DEF Runs
<1>8. FrameIs(source, graph, Under(graph, r.fn), st, 1)
  <2>1. r.fn \in Under(graph, r.fn) /\ r.fn \in ScopeOf(source, graph.entry)
    BY <1>2, <1>3, GraphNodesAre, UnderClosed
  <2>2. <<r.fn, "">> \in Givens(source)
    BY <1>2, <1>4, GivensClosed
  <2>3. st[1].fn = r.fn /\ st[1].arg = "" /\ source.kind[r.fn] # "init"
    BY <1>4, <1>5, <1>6
  <2>4. Handed(source, st, 1)
    BY <2>3 DEF Handed
  <2>5. Shown(source, Under(graph, r.fn), r.fn)
    BY <2>1 DEF Shown
  <2>6. source.kind[st[1].fn] # "init" /\ st[1].fn \in ScopeOf(source, graph.entry) /\ <<st[1].fn, st[1].arg>> \in Givens(source)
    BY <2>1, <2>2, <2>3
  <2>7. Shown(source, Under(graph, r.fn), st[1].fn)
    BY <2>3, <2>5
  <2>8. ~(1 > 1)
    OBVIOUS
  <2> QED
    BY <2>4, <2>6, <2>7, <2>8 DEF FrameIs
<1>9. FramesAre(source, graph, st)
  <2>1. \A j \in 1..Len(st) : j = 1
    BY <1>6
  <2>2. st[1].fn = r.fn
    BY <1>5, <1>6
  <2> QED
    BY <1>8, <2>1, <2>2 DEF FramesAre
<1> QED
  BY <1>1, <1>2, <1>6, <1>7, <1>9 DEF CallsInv, CallsAccounted

-----------------------------------------------------------------------------
(* What a step leaves of the frames.                                       *)

(* The frames of the one stack are frames of the other, but for how far    *)
(* they are.                                                               *)
SameFrames(st, su, n) ==
    \A j \in 1..n : /\ su[j].fn = st[j].fn /\ su[j].arg = st[j].arg /\ su[j].q = st[j].q /\ su[j].way = st[j].way
                    /\ j < n => su[j].at = st[j].at

LEMMA UpToIs == \A n \in Nat : n > 0 => 1 \in 1..n /\ n \in 1..n /\ \A j \in 1..(n + 1) : j \in 1..n \/ j = n + 1
OBVIOUS
LEMMA Earlier == \A n \in Nat : \A j \in 1..n : \A k \in 1..(j - 1) : k \in 1..n
OBVIOUS

LEMMA FramesStay ==
    ASSUME NEW p, NEW g, NEW st, NEW su, NEW n \in Nat, n > 0, n <= Len(st), Len(st) \in Nat, SameFrames(st, su, n), FramesAre(p, g, st)
    PROVE  LET B == Under(g, su[1].fn) IN Spotted(p, g, B) \/ \A j \in 1..n : Inside(p, su[j]) => FrameIs(p, g, B, su, j)
<1> DEFINE B == Under(g, st[1].fn)
<1>1. su[1].fn = st[1].fn
  BY DEF SameFrames
<1> SUFFICES ASSUME ~Spotted(p, g, B), NEW j \in 1..n, Inside(p, su[j]) PROVE FrameIs(p, g, B, su, j)
  BY <1>1
<1>2. FrameIs(p, g, B, st, j)
  BY DEF FramesAre, Inside, SameFrames
<1> HIDE DEF B
<1>3. Handed(p, su, j)
  <2> SUFFICES ASSUME su[j].arg # ""
               PROVE  \E k \in 1..(j - 1) : Inside(p, su[k]) /\ \E i \in SitesOf(p, su[k].fn) : SiteAt(p, su[k].fn, i).arg = su[j].arg
    BY DEF Handed
  <2>1. su[j].arg = st[j].arg
    BY DEF SameFrames
  <2>2. PICK k \in 1..(j - 1) : Inside(p, st[k]) /\ \E i \in SitesOf(p, st[k].fn) : SiteAt(p, st[k].fn, i).arg = st[j].arg
    BY <1>2, <2>1 DEF FrameIs, Handed
  <2>3. su[k].fn = st[k].fn /\ su[k].way = st[k].way
    <3>1. k \in 1..n
      BY Earlier
    <3> QED
      BY <3>1 DEF SameFrames
  <2> QED
    BY <2>1, <2>2, <2>3 DEF Inside
<1>4. ASSUME j > 1 PROVE CalledFrom(p, su[j - 1], su[j])
  <2>1. CalledFrom(p, st[j - 1], st[j])
    BY <1>2, <1>4 DEF FrameIs
  <2>2. j - 1 \in 1..n /\ j - 1 < n
    BY <1>4
  <2>3. /\ su[j - 1].fn = st[j - 1].fn /\ su[j - 1].way = st[j - 1].way /\ su[j - 1].at = st[j - 1].at
        /\ su[j].fn = st[j].fn /\ su[j].q = st[j].q
    BY <2>2 DEF SameFrames
  <2> QED
    BY <2>1, <2>3 DEF CalledFrom, CallAt, Inside
<1>5. su[j].fn = st[j].fn /\ su[j].arg = st[j].arg
  BY DEF SameFrames
<1> QED
  BY <1>2, <1>3, <1>4, <1>5 DEF FrameIs

(* A frame goes on. *)
LEMMA GoesOn ==
    ASSUME NEW p, NEW x \in FramesOf(p)
    PROVE  LET f == [x EXCEPT !.at = @ + 1]
           IN  f \in FramesOf(p) /\ f.fn = x.fn /\ f.arg = x.arg /\ f.q = x.q /\ f.way = x.way /\ f.at = x.at + 1
<1> DEFINE Q == QueriesOf(p)
           A == {""} \cup p.fns
           W == {"own", "served", "closure", "named"}
<1>1. FramesOf(p) = [fn : p.fns, at : Nat, arg : A, q : Q, way : W]
  BY DEF FramesOf
<1> HIDE DEF Q, A, W
<1> QED
  BY <1>1

(* The call is made, or passed by. *)
LEMMA MovedIs ==
    ASSUME NEW p, stack \in Seq(FramesOf(p)), stack # <<>>
    PROVE  /\ Moved \in Seq(FramesOf(p)) /\ Len(Moved) = Len(stack) /\ Len(stack) \in Nat /\ Len(stack) > 0
           /\ SameFrames(stack, Moved, Len(stack)) /\ Moved[Len(stack)].at = TopFrame.at + 1
           /\ TopFrame = stack[Len(stack)] /\ TopFrame \in FramesOf(p)
<1> DEFINE n == Len(stack)
           f == [stack[n] EXCEPT !.at = @ + 1]
<1>1. n \in Nat /\ n > 0 /\ n \in 1..n /\ stack[n] \in FramesOf(p) /\ \A j \in 1..n : stack[j] \in FramesOf(p)
  OBVIOUS
<1>2. /\ f \in FramesOf(p) /\ f.fn = stack[n].fn /\ f.arg = stack[n].arg /\ f.q = stack[n].q /\ f.way = stack[n].way
      /\ f.at = stack[n].at + 1
  <2> DEFINE x == stack[n]
  <2>1. x \in FramesOf(p)
    BY <1>1
  <2> HIDE DEF x
  <2>2. LET y == [x EXCEPT !.at = @ + 1]
        IN  y \in FramesOf(p) /\ y.fn = x.fn /\ y.arg = x.arg /\ y.q = x.q /\ y.way = x.way /\ y.at = x.at + 1
    BY <2>1, GoesOn
  <2> QED
    BY <2>2 DEF x
<1>3. Moved = [stack EXCEPT ![n] = f]
  BY DEF Moved
<1> HIDE DEF f
<1>4. Moved \in Seq(FramesOf(p)) /\ Len(Moved) = n
  BY <1>1, <1>2, <1>3
<1>5. Moved[n] = f /\ \A j \in 1..n : j # n => Moved[j] = stack[j]
  BY <1>1, <1>3
<1>6. SameFrames(stack, Moved, n)
  <2> SUFFICES ASSUME NEW j \in 1..n
               PROVE  /\ Moved[j].fn = stack[j].fn /\ Moved[j].arg = stack[j].arg /\ Moved[j].q = stack[j].q /\ Moved[j].way = stack[j].way
                      /\ j < n => Moved[j].at = stack[j].at
    BY DEF SameFrames
  <2> QED
    BY <1>1, <1>2, <1>5
<1> QED
  BY <1>1, <1>2, <1>4, <1>5, <1>6 DEF TopFrame

(* A step that keeps the frames, or leaves the last one, keeps the         *)
(* invariant of the frames.                                                *)
LEMMA FramesKept ==
    ASSUME NEW p, NEW g, NEW st, NEW su, Runs(p, g, st), Rebound \/ FramesAre(p, g, st), su \in Seq(FramesOf(p)), su # <<>>,
           Len(su) <= Len(st), SameFrames(st, su, Len(su))
    PROVE  Runs(p, g, su) /\ (Rebound \/ FramesAre(p, g, su))
<1>1. Len(su) \in Nat /\ Len(su) > 0 /\ Len(st) \in Nat /\ 1 \in 1..Len(su)
  <2>1. st \in Seq(FramesOf(p))
    BY DEF Runs
  <2> QED
    BY <2>1, SeqIs
<1>2. su[1].fn = st[1].fn
  BY <1>1 DEF SameFrames
<1>3. Runs(p, g, su)
  BY <1>2 DEF Runs
<1>4. FramesAre(p, g, st) => FramesAre(p, g, su)
  BY <1>1, FramesStay DEF FramesAre
<1> QED
  BY <1>3, <1>4

(* The request goes by a call, or returns. *)
LEMMA PastCallsInv ==
    ASSUME CallsInv, RunPast \/ RunReturn
    PROVE  CallsInv'
<1>1. UNCHANGED <<source, graph, promised, performed>>
  BY DEF RunPast, RunReturn
<1>2. stack # <<>> /\ Runs(source, graph, stack) /\ (Rebound \/ FramesAre(source, graph, stack))
  BY DEF RunPast, RunReturn, AtSite, CallsInv
<1>3. stack' \in Seq(FramesOf(source)) /\ stack' # <<>> /\ Len(stack') <= Len(stack) /\ SameFrames(stack, stack', Len(stack'))
  <2>1. stack \in Seq(FramesOf(source)) /\ Len(stack) \in Nat /\ Len(stack) > 0
    BY <1>2, SeqIs DEF Runs
  <2>2. CASE RunPast
    <3>1. stack' = Moved
      BY <2>2 DEF RunPast
    <3>2. Moved # <<>>
      BY <1>2, <2>1, MovedIs
    <3> QED
      BY <1>2, <2>1, <3>1, <3>2, MovedIs
  <2>3. CASE RunReturn
    <3> DEFINE n == Len(stack) - 1
    <3>1. stack' = SubSeq(stack, 1, n) /\ n \in Nat /\ n > 0 /\ n <= Len(stack)
      BY <2>1, <2>3 DEF RunReturn
    <3> HIDE DEF n
    <3>2. stack' \in Seq(FramesOf(source)) /\ stack' # <<>> /\ Len(stack') = n /\ \A j \in 1..n : stack'[j] = stack[j]
      BY <2>1, <3>1, FrontIs
    <3>3. SameFrames(stack, stack', n)
      BY <3>2 DEF SameFrames
    <3> QED
      BY <3>1, <3>2, <3>3
  <2> QED
    BY <2>2, <2>3
<1>4. Runs(source, graph, stack') /\ (Rebound \/ FramesAre(source, graph, stack'))
  BY <1>2, <1>3, FramesKept
<1>5. stack'[1].fn = stack[1].fn
  <2>1. 1 \in 1..Len(stack')
    BY <1>3, SeqIs
  <2> QED
    BY <1>3, <2>1 DEF SameFrames
<1>6. \A l : Accounted(l)' <=> Accounted(l)
  BY <1>1, <1>2, <1>3, <1>5, AccountedStays
<1>7. CallsAccounted' /\ (Rebound' <=> Rebound)
  BY <1>1, <1>6 DEF CallsAccounted, CallsInv, Rebound
<1> QED
  BY <1>1, <1>3, <1>4, <1>7 DEF CallsInv

(* What the last frame is, at a site, when nothing is disclosed and it is  *)
(* one of the frames the invariant is about.                               *)
LEMMA TopIs ==
    ASSUME CallsInv, AtSite, Inside(source, TopFrame), ~Rebound,
           NEW B, B = Under(graph, stack[1].fn), ~Spotted(source, graph, B)
    PROVE  /\ source \in BuildPrograms /\ GraphOf(source, graph) /\ stack[1].fn \in graph.nodes /\ Len(stack) \in Nat
           /\ Len(stack) > 0 /\ TopFrame = stack[Len(stack)] /\ TopFrame.fn \in source.fns /\ TopFrame.at \in SitesOf(source, TopFrame.fn)
           /\ FrameIs(source, graph, B, stack, Len(stack))
           /\ \A j \in 1..(Len(stack) - 1) : Inside(source, stack[j]) => FrameIs(source, graph, B, stack, j)
<1>1. stack # <<>> /\ TopFrame.at \in SitesOf(source, TopFrame.fn) /\ TopFrame = stack[Len(stack)]
  BY DEF AtSite, TopFrame
<1>2. Runs(source, graph, stack) /\ FramesAre(source, graph, stack)
  BY <1>1 DEF CallsInv
<1>3. source \in BuildPrograms /\ GraphOf(source, graph) /\ stack \in Seq(FramesOf(source)) /\ stack[1].fn \in graph.nodes
  BY <1>2 DEF Runs, CallsInv
<1>4. Len(stack) \in Nat /\ Len(stack) > 0 /\ Len(stack) \in 1..Len(stack) /\ TopFrame \in FramesOf(source)
  BY <1>1, <1>3, SeqIs
<1>5. TopFrame.fn \in source.fns
  BY <1>4 DEF FramesOf
<1>6. \A j \in 1..Len(stack) : Inside(source, stack[j]) => FrameIs(source, graph, B, stack, j)
  BY <1>2 DEF FramesAre
<1>7. \A j \in 1..(Len(stack) - 1) : j \in 1..Len(stack)
  BY <1>4, Earlier
<1> QED
  BY <1>1, <1>3, <1>4, <1>5, <1>6, <1>7

(* Such a frame does an effect that the graph shows. *)
LEMMA TopEffect ==
    ASSUME CallsInv, AtSite, SiteHere.do = "effect", Inside(source, TopFrame), ~Rebound,
           NEW B, B = Under(graph, stack[1].fn), ~Spotted(source, graph, B)
    PROVE  \E e \in graph.edges : e.from \in B /\ e.to \in {QueryHere(SiteHere)} \cup Unread
<1> DEFINE p == source
           g == graph
           n == Len(stack)
           f == TopFrame.fn
           a == TopFrame.at
           l == QueryHere(SiteHere)
<1>1. /\ p \in BuildPrograms /\ GraphOf(p, g) /\ stack[1].fn \in g.nodes /\ n \in Nat /\ n > 0
      /\ TopFrame = stack[n] /\ f \in p.fns /\ a \in SitesOf(p, f) /\ FrameIs(p, g, B, stack, n)
      /\ \A j \in 1..(n - 1) : Inside(p, stack[j]) => FrameIs(p, g, B, stack, j)
  BY TopIs
<1>2. SiteHere = SiteAt(p, f, a)
  BY DEF SiteHere
<1> HIDE DEF n, a
<1>3. f \in ScopeOf(p, g.entry) /\ Shown(p, B, f)
  BY <1>1 DEF FrameIs
<1>4. SiteAt(p, f, a).how # "param" => l = SiteAt(p, f, a).q
  BY <1>2 DEF QueryHere
<1>5. ASSUME SiteAt(p, f, a).how = "param"
      PROVE  \E h \in AllNodes(p) : \E i \in SitesOf(p, h) :
                 /\ f \in SeenCallees(p, h, i) /\ (h \in g.nodes => h \in B)
                 /\ SiteAt(p, h, i).how # "param" => l = SiteAt(p, h, i).q
  <2>1. n # 1
    <3> SUFFICES ASSUME n = 1 PROVE FALSE
      OBVIOUS
    <3>1. Runs(p, g, stack)
      BY DEF AtSite, CallsInv
    <3>2. PICK r \in Discover(p) : r.name # "" /\ r.fn = f
      BY <1>1, <3>1 DEF Runs
    <3>3. \A i \in SitesOf(p, r.fn) : SiteAt(p, r.fn, i).do = "effect" => SiteAt(p, r.fn, i).how # "param"
      BY <1>1, <3>2, ProgramIs
    <3>4. SiteAt(p, f, a).do = "effect"
      BY <1>2
    <3> QED
      BY <1>1, <1>5, <3>2, <3>3, <3>4
  <2>2. n > 1 /\ n - 1 \in 1..(n - 1)
    BY <1>1, <2>1
  <2> DEFINE h == stack[n - 1].fn
             i == stack[n - 1].at - 1
  <2>3. CalledFrom(p, stack[n - 1], stack[n])
    BY <1>1, <2>2 DEF FrameIs
  <2>4. Inside(p, stack[n - 1]) /\ i \in SitesOf(p, h) /\ f \in SeenCallees(p, h, i)
    BY <1>1, <2>3 DEF CalledFrom
  <2>5. SiteAt(p, h, i).how # "param" => TopFrame.q = SiteAt(p, h, i).q
    BY <1>1, <2>3 DEF CalledFrom, CallAt
  <2>6. l = TopFrame.q
    BY <1>2, <1>5 DEF QueryHere
  <2>7. h \in ScopeOf(p, g.entry) /\ Shown(p, B, h)
    BY <1>1, <2>2, <2>4 DEF FrameIs
  <2>8. h \in AllNodes(p) /\ (h \in g.nodes => ~Wrapper(p, h))
    BY <1>1, <2>7, GraphNodesAre
  <2>9. h \in g.nodes => h \in B
    BY <2>7, <2>8 DEF Shown
  <2> QED
    BY <2>4, <2>5, <2>6, <2>8, <2>9
<1>6. SiteAt(p, f, a).do = "effect"
  BY <1>2
<1> DEFINE r == stack[1].fn
<1>7. p \in BuildPrograms /\ GraphOf(p, g) /\ r \in g.nodes /\ B = Under(g, r) /\ a \in SitesOf(p, f)
  BY <1>1
<1> HIDE DEF l, f, p, g, r
<1>8. Performs(p, g, B, f, a, l)
  BY <1>4, <1>5 DEF Performs
<1>9. \E e \in g.edges : e.from \in B /\ e.to \in {l} \cup Unread
  BY <1>3, <1>6, <1>7, <1>8, EffectIsShown
<1> QED
  BY <1>9 DEF l, g

(* The request does something. *)
LEMMA EffectCallsInv ==
    ASSUME CallsInv, RunEffect
    PROVE  CallsInv'
<1> DEFINE x == [label |-> QueryHere(SiteHere), way |-> TopFrame.way]
           B == Under(graph, stack[1].fn)
<1>1. /\ UNCHANGED <<source, graph, promised>> /\ performed' = performed \cup {x} /\ stack' = Moved /\ stack # <<>>
      /\ AtSite /\ SiteHere.do = "effect"
  BY DEF RunEffect, AtSite
<1>2. Runs(source, graph, stack) /\ (Rebound \/ FramesAre(source, graph, stack))
  BY <1>1 DEF CallsInv
<1>3. stack \in Seq(FramesOf(source)) /\ source \in BuildPrograms /\ graph.stage = "built"
  BY <1>2 DEF Runs, CallsInv
<1>4. /\ stack' \in Seq(FramesOf(source)) /\ stack' # <<>> /\ Len(stack') <= Len(stack) /\ SameFrames(stack, stack', Len(stack'))
      /\ TopFrame \in FramesOf(source)
  <2>1. /\ Moved \in Seq(FramesOf(source)) /\ Len(Moved) = Len(stack) /\ Len(stack) \in Nat /\ Len(stack) > 0
        /\ SameFrames(stack, Moved, Len(stack)) /\ TopFrame \in FramesOf(source)
    BY <1>1, <1>3, MovedIs
  <2>2. Moved # <<>>
    BY <2>1
  <2> QED
    BY <1>1, <2>1, <2>2
<1>5. Runs(source, graph, stack') /\ (Rebound \/ FramesAre(source, graph, stack'))
  BY <1>2, <1>4, FramesKept
<1>6. stack'[1].fn = stack[1].fn
  <2>1. 1 \in 1..Len(stack')
    BY <1>4, SeqIs
  <2> QED
    BY <1>4, <2>1 DEF SameFrames
<1>7. \A l : Accounted(l)' <=> Accounted(l)
  BY <1>1, <1>4, <1>6, AccountedStays
<1>8. ASSUME TopFrame.way = "own" PROVE Accounted(QueryHere(SiteHere)) \/ Rebound
  <2> SUFFICES ASSUME ~Rebound PROVE Accounted(QueryHere(SiteHere))
    OBVIOUS
  <2>1. Below = B
    BY <1>1 DEF Below, Under
  <2>2. TopFrame.fn \in source.fns /\ TopFrame.at \in SitesOf(source, TopFrame.fn)
    BY <1>1, <1>4 DEF FramesOf, AtSite
  <2>3. Inside(source, TopFrame)
    BY <1>1, <1>3, <1>8, <2>2, ProgramIs DEF Inside, SiteHere
  <2> HIDE DEF B
  <2>4. CASE Spotted(source, graph, B)
    BY <2>1, <2>4 DEF Accounted, Spotted
  <2>5. CASE ~Spotted(source, graph, B)
    <3>1. \E e \in graph.edges : e.from \in B /\ e.to \in {QueryHere(SiteHere)} \cup Unread
      BY <1>1, <2>3, <2>5, TopEffect DEF B
    <3> QED
      BY <2>1, <3>1 DEF Accounted
  <2> QED
    BY <2>4, <2>5
<1>9. x.label = QueryHere(SiteHere) /\ x.way = TopFrame.way
  OBVIOUS
<1> HIDE DEF x
<1>10. Rebound' <=> Rebound
  BY <1>1 DEF Rebound
<1>11. CallsAccounted'
  <2> SUFFICES ASSUME NEW y \in performed', y.way = "own" PROVE Accounted(y.label) \/ Rebound
    BY <1>7, <1>10 DEF CallsAccounted
  <2>1. CASE y = x
    BY <1>8, <1>9, <2>1
  <2>2. CASE y \in performed
    BY <1>3, <2>2 DEF CallsInv, CallsAccounted
  <2> QED
    BY <1>1, <2>1, <2>2
<1> QED
  BY <1>1, <1>3, <1>4, <1>5, <1>10, <1>11 DEF CallsInv

(* The function the request enters: one the call may be to, or the         *)
(* parameter.                                                              *)
Enters(v) ==
    \/ v \in SiteHere.to
    \/ SiteHere.do = "param" /\ TopFrame.arg # "" /\ v = TopFrame.arg

(* It is one that the call is seen to make. *)
LEMMA TopSees ==
    ASSUME CallsInv, AtSite, Inside(source, TopFrame), ~Rebound, SiteHere.do \notin {"effect", "serve"},
           NEW B, B = Under(graph, stack[1].fn), ~Spotted(source, graph, B), NEW v, Enters(v)
    PROVE  /\ v \in SeenCallees(source, TopFrame.fn, TopFrame.at) /\ v \in source.fns /\ source.kind[v] # "init"
           /\ Wrapper(source, TopFrame.fn) => ~IsClosure(source, v)
<1> DEFINE p == source
           g == graph
           n == Len(stack)
           f == TopFrame.fn
           a == TopFrame.at
           s == SiteAt(p, f, a)
           arg == TopFrame.arg
<1>1. /\ p \in BuildPrograms /\ GraphOf(p, g) /\ stack[1].fn \in g.nodes /\ n \in Nat /\ n > 0
      /\ TopFrame = stack[n] /\ f \in p.fns /\ a \in SitesOf(p, f) /\ FrameIs(p, g, B, stack, n)
      /\ \A j \in 1..(n - 1) : Inside(p, stack[j]) => FrameIs(p, g, B, stack, j)
  BY TopIs
<1>2. s.do \notin {"effect", "serve"} /\ (v \in s.to \/ (s.do = "param" /\ arg # "" /\ v = arg))
  BY DEF SiteHere, Enters
<1> HIDE DEF n
<1>3. FirstParty(p, f) /\ SiteInSight(p, f, a) /\ s.to \subseteq p.fns
  BY <1>1, ProgramIs DEF Inside
<1>4. /\ p.kind[f] # "init" /\ f \in ScopeOf(p, g.entry) /\ <<f, arg>> \in Givens(p) /\ Handed(p, stack, n) /\ Shown(p, B, f)
  BY <1>1 DEF FrameIs
<1>5. ~NotResolved(s)
  <2> SUFFICES ASSUME NotResolved(s) PROVE Spotted(p, g, B)
    OBVIOUS
  <2>1. ~Wrapper(p, f)
    BY <1>3 DEF SiteInSight, ForwardsOnly, NotResolved, FuncValueCall
  <2>2. f \in B
    BY <1>4, <2>1 DEF Shown
  <2>3. f \in AllNodes(p) /\ p.kind[f] = "own"
    BY <1>1, <1>3, <1>4, <2>1, GraphNodesAre DEF FirstParty, Wrapper
  <2>4. s.do = "param" \/ s.to # {}
    BY <1>2
  <2> HIDE DEF s
  <2>5. PICK u \in ManifestOf(p, AllNodes(p)) : ~IsDisclosureOnlyFrontier(u.kind) /\ u.site \in {f, p.pkg[f]} /\ Stays(p, u)
    BY <1>1, <2>3, <2>4, UnseenHasSpot DEF s
  <2>6. u \in g.spots
    BY <1>1, <2>5 DEF GraphOf, SpotsOf
  <2> QED
    BY <2>2, <2>5, <2>6 DEF Spotted
<1>6. CASE v \in s.to
  <2>1. v \in SeenCallees(p, f, a)
    BY <1>2, <1>3, <1>5, <1>6 DEF SiteInSight
  <2>2. v \in p.fns /\ p.kind[v] # "init"
    BY <1>3, <1>6 DEF SiteInSight
  <2>3. Wrapper(p, f) => ~IsClosure(p, v)
    BY <1>3, <1>6 DEF SiteInSight, ForwardsOnly
  <2> QED
    BY <2>1, <2>2, <2>3
<1>7. CASE s.do = "param" /\ arg # "" /\ v = arg
  <2>1. s.seen # {}
    BY <1>5, <1>7 DEF NotResolved, FuncValueCall
  <2>2. {x[2] : x \in {y \in Givens(p) : y[1] = f}} \subseteq s.seen \cup {""}
    BY <1>3, <1>7, <2>1 DEF SiteInSight
  <2>3. arg \in {x[2] : x \in {y \in Givens(p) : y[1] = f}}
    <3> DEFINE x == <<f, arg>>
    <3>1. x[1] = f /\ x[2] = arg
      OBVIOUS
    <3>2. x \in Givens(p)
      BY <1>4
    <3> HIDE DEF x
    <3> QED
      BY <3>1, <3>2
  <2>4. v \in s.seen
    BY <1>7, <2>2, <2>3
  <2>5. v \in SeenCallees(p, f, a)
    BY <1>7, <2>4 DEF SeenCallees
  <2>6. ~Wrapper(p, f)
    BY <1>3, <1>7 DEF SiteInSight, ForwardsOnly
  <2>7. v \in p.fns
    BY <1>1, <2>5, ProgramIs
  <2>8. PICK k \in 1..(n - 1) : Inside(p, stack[k]) /\ \E i \in SitesOf(p, stack[k].fn) : SiteAt(p, stack[k].fn, i).arg = v
    BY <1>1, <1>4, <1>7 DEF Handed
  <2>9. PICK i \in SitesOf(p, stack[k].fn) : SiteAt(p, stack[k].fn, i).arg = v
    BY <2>8
  <2>10. stack[k].fn \in p.fns
    <3>1. stack[k].fn \in ScopeOf(p, g.entry)
      BY <1>1, <2>8 DEF FrameIs
    <3> QED
      BY <1>1, <3>1, GraphNodesAre
  <2>11. SiteInSight(p, stack[k].fn, i)
    BY <1>1, <2>8, <2>10, ProgramIs DEF Inside
  <2>12. p.kind[v] # "init"
    BY <2>7, <2>9, <2>11 DEF SiteInSight
  <2> QED
    BY <2>5, <2>6, <2>7, <2>12
<1> QED
  BY <1>2, <1>6, <1>7

(* It is shown, and may be given what it is given. *)
LEMMA TopEnters ==
    ASSUME CallsInv, AtSite, Inside(source, TopFrame), ~Rebound, SiteHere.do \notin {"effect", "serve"},
           NEW B, B = Under(graph, stack[1].fn), ~Spotted(source, graph, B), NEW v, Enters(v), FirstParty(source, v)
    PROVE  /\ v \in ScopeOf(source, graph.entry) /\ Shown(source, B, v)
           /\ <<v, Passed(SiteHere.arg, TopFrame.arg)>> \in Givens(source)
<1> DEFINE p == source
           g == graph
           n == Len(stack)
           r == stack[1].fn
           f == TopFrame.fn
           a == TopFrame.at
           s == SiteAt(p, f, a)
           arg == TopFrame.arg
<1>1. /\ p \in BuildPrograms /\ GraphOf(p, g) /\ r \in g.nodes /\ n \in Nat /\ n > 0
      /\ TopFrame = stack[n] /\ f \in p.fns /\ a \in SitesOf(p, f) /\ FrameIs(p, g, B, stack, n)
      /\ \A j \in 1..(n - 1) : Inside(p, stack[j]) => FrameIs(p, g, B, stack, j)
  BY TopIs
<1>2. s = SiteHere /\ (v \in s.to \/ (s.do = "param" /\ arg # "" /\ v = arg))
  BY DEF SiteHere, Enters
<1>3. v \in SeenCallees(p, f, a) /\ v \in p.fns /\ p.kind[v] # "init" /\ (Wrapper(p, f) => ~IsClosure(p, v))
  BY TopSees
<1> HIDE DEF n
<1>4. f \in ScopeOf(p, g.entry) /\ <<f, arg>> \in Givens(p) /\ Handed(p, stack, n) /\ Shown(p, B, f)
  BY <1>1 DEF FrameIs
<1>5. ASSUME "rebind" \in g.applied, <<f, v>> \in Compute(p, AllNodes(p)).remove, v \in g.nodes PROVE v \in B
  <2>1. RunnersOnlyRun(p)
    BY <1>5 DEF Rebound
  <2>2. v \notin s.to
    <3> DEFINE x == <<f, v>>
    <3>1. x[1] = f /\ x[2] = v
      OBVIOUS
    <3>2. x \in Compute(p, AllNodes(p)).remove
      BY <1>5
    <3>3. IsClosure(p, v) /\ UsedOnce(p, v)
      BY <1>1, <1>5, GraphNodesAre, RemovedIs
    <3> HIDE DEF x
    <3>4. ~StillRuns(p, f, v)
      BY <2>1, <3>1, <3>2 DEF RunnersOnlyRun
    <3> QED
      BY <1>1, <3>3, <3>4 DEF StillRuns
  <2>3. v = arg /\ arg # ""
    BY <1>2, <2>2
  <2>4. PICK k \in 1..(n - 1) : Inside(p, stack[k]) /\ \E i \in SitesOf(p, stack[k].fn) : SiteAt(p, stack[k].fn, i).arg = v
    BY <1>1, <1>4, <2>3 DEF Handed
  <2> DEFINE h == stack[k].fn
  <2>5. PICK i \in SitesOf(p, h) : SiteAt(p, h, i).arg = v
    BY <2>4
  <2>6. h \in ScopeOf(p, g.entry) /\ Shown(p, B, h)
    BY <1>1, <2>4 DEF FrameIs
  <2>7. h \in p.fns /\ FirstParty(p, h)
    BY <1>1, <2>4, <2>6, GraphNodesAre DEF Inside
  <2>8. IsClosure(p, v)
    BY <1>1, <1>5, GraphNodesAre, RemovedIs
  <2>9. p.parent[v] = h /\ SiteInSight(p, h, i)
    BY <1>1, <1>3, <2>5, <2>7, <2>8, ProgramIs
  <2>10. ~Wrapper(p, h)
    <3>1. v # "" /\ v # "param"
      BY <1>1, <1>3, ProgramIs
    <3> QED
      BY <2>5, <2>9, <3>1 DEF SiteInSight, ForwardsOnly
  <2>11. h \in B
    BY <2>6, <2>10 DEF Shown
  <2> HIDE DEF f, g, p, r, h
  <2>12. p.parent[v] \in Under(g, r)
    BY <2>9, <2>11 DEF g, r
  <2>13. v \in Under(g, r)
    BY <1>1, <1>5, <2>1, <2>12, TakenIsGiven
  <2> QED
    BY <2>13 DEF g, r
<1>6. p.kind[v] \in {"own", "wrap"}
  BY <1>3 DEF FirstParty
<1>7. <<v, Passed(s.arg, arg)>> \in Givens(p)
  <2>1. v \in (s.to \cup When(s.do = "param", {arg})) \cap p.fns
    BY <1>2, <1>3 DEF When
  <2>2. <<v, Passed(s.arg, arg)>> \in Given(p, f, arg, s)
    <3> HIDE DEF s, arg, p
    <3> QED
      BY <2>1 DEF Given
  <2> HIDE DEF s, arg
  <2> QED
    BY <1>1, <1>4, <2>2, GivensClosed DEF s
<1>8. B = Under(g, r)
  OBVIOUS
<1> HIDE DEF f, g, p, r, a, s, arg
<1>9. v \in ScopeOf(p, g.entry) /\ Shown(p, B, v)
  BY <1>1, <1>3, <1>4, <1>5, <1>6, <1>8, CallIsShown
<1> QED
  BY <1>2, <1>7, <1>9 DEF p, g, arg

(* The frame of a function that is entered. *)
Entered(v) == RequestFrame(v, Passed(SiteHere.arg, TopFrame.arg), QueryHere(SiteHere), Worse(TopFrame.way, EnteredAs(SiteHere, v)))

LEMMA QueryIs ==
    ASSUME NEW p, NEW f \in p.fns, NEW i \in SitesOf(p, f)
    PROVE  SiteAt(p, f, i).q \in QueriesOf(p)
<1> DEFINE Its(g) == {SiteAt(p, g, j).q : j \in SitesOf(p, g)}
<1>1. SiteAt(p, f, i).q \in Its(f)
  OBVIOUS
<1>2. QueriesOf(p) = {""} \cup (UNION {Its(g) : g \in p.fns})
  BY DEF QueriesOf
<1> HIDE DEF Its
<1> QED
  BY <1>1, <1>2

LEMMA FrameFrom ==
    ASSUME NEW p, NEW f \in p.fns, NEW a \in {""} \cup p.fns, NEW q \in QueriesOf(p), NEW w \in {"own", "served", "closure", "named"}
    PROVE  [fn |-> f, at |-> 1, arg |-> a, q |-> q, way |-> w] \in FramesOf(p)
<1> DEFINE Q == QueriesOf(p)
           A == {""} \cup p.fns
           W == {"own", "served", "closure", "named"}
<1>1. FramesOf(p) = [fn : p.fns, at : Nat, arg : A, q : Q, way : W]
  BY DEF FramesOf
<1> HIDE DEF Q, A, W
<1>2. a \in A /\ q \in Q /\ w \in W
  BY DEF A, Q, W
<1> QED
  BY <1>1, <1>2

LEMMA EnteredIs ==
    ASSUME source \in BuildPrograms, AtSite, TopFrame \in FramesOf(source), NEW v \in source.fns
    PROVE  /\ Entered(v) \in FramesOf(source) /\ Entered(v).fn = v
           /\ Entered(v).arg = Passed(SiteHere.arg, TopFrame.arg) /\ Entered(v).q = QueryHere(SiteHere)
           /\ Inside(source, Entered(v)) /\ SiteHere.do # "effect" =>
                 Inside(source, TopFrame) /\ FirstParty(source, v) /\ SiteHere.do \notin {"effect", "serve"}
<1> DEFINE T == TopFrame
           s == SiteHere
           W == {"own", "served", "closure", "named"}
           arg == Passed(s.arg, T.arg)
           q == QueryHere(s)
           e == EnteredAs(s, v)
           way == Worse(T.way, e)
<1>1. T.fn \in source.fns /\ T.arg \in {""} \cup source.fns /\ T.q \in QueriesOf(source) /\ T.way \in W
  BY DEF FramesOf
<1>2. T.at \in SitesOf(source, T.fn) /\ s = SiteAt(source, T.fn, T.at)
  BY DEF AtSite, SiteHere
<1>3. s.arg \in source.fns \cup {"", "param"} /\ (~FirstParty(source, T.fn) => s.do # "effect")
  BY <1>1, <1>2, ProgramIs
<1>4. arg \in {""} \cup source.fns
  BY <1>1, <1>3 DEF Passed
<1>5. q \in QueriesOf(source)
  <2>1. s.q \in QueriesOf(source)
    BY <1>1, <1>2, QueryIs
  <2> QED
    BY <1>1, <2>1 DEF QueryHere
<1>6. e \in W
  BY DEF EnteredAs
<1>7. way \in W /\ (way = "own" => T.way = "own" /\ e = "own")
  <2>1. T.way \in W /\ e \in W
    BY <1>1, <1>6
  <2> HIDE DEF e, T
  <2> QED
    BY <2>1 DEF Worse, Rank
<1>8. e = "own" /\ FirstParty(source, v) => s.do # "serve" /\ FirstParty(source, T.fn)
  BY DEF EnteredAs
<1>9. Entered(v) = [fn |-> v, at |-> 1, arg |-> arg, q |-> q, way |-> way]
  BY DEF Entered, RequestFrame
<1> HIDE DEF arg, q, way, e, s, T
<1>10. Entered(v) \in FramesOf(source)
  BY <1>4, <1>5, <1>7, <1>9, FrameFrom
<1>11. Entered(v).fn = v /\ Entered(v).arg = arg /\ Entered(v).q = q /\ Entered(v).way = way
  BY <1>9
<1>12. Inside(source, Entered(v)) => way = "own" /\ FirstParty(source, v)
  BY <1>11 DEF Inside
<1>13. way = "own" /\ FirstParty(source, v) => Inside(source, T) /\ s.do # "serve"
  BY <1>7, <1>8 DEF Inside
<1> QED
  BY <1>10, <1>11, <1>12, <1>13 DEF arg, q, s, T

(* The frames when a function is entered. *)
LEMMA EnterFrames ==
    ASSUME CallsInv, AtSite, SiteHere.do # "effect", ~Rebound, FramesAre(source, graph, stack), NEW v \in source.fns, Enters(v)
    PROVE  FramesAre(source, graph, Append(Moved, Entered(v)))
<1> DEFINE p == source
           g == graph
           n == Len(stack)
           r == stack[1].fn
           B == Under(g, r)
           N == Entered(v)
           su == Append(Moved, N)
           T == TopFrame
<1>1. p \in BuildPrograms /\ stack \in Seq(FramesOf(p)) /\ stack # <<>>
  BY DEF AtSite, CallsInv, Runs
<1>2. /\ Moved \in Seq(FramesOf(p)) /\ Len(Moved) = n /\ n \in Nat /\ n > 0
      /\ SameFrames(stack, Moved, n) /\ Moved[n].at = T.at + 1 /\ T = stack[n] /\ T \in FramesOf(p)
  BY <1>1, MovedIs
<1>3. /\ N \in FramesOf(p) /\ N.fn = v /\ N.arg = Passed(SiteHere.arg, T.arg) /\ N.q = QueryHere(SiteHere)
      /\ Inside(p, N) => Inside(p, T) /\ FirstParty(p, v) /\ SiteHere.do \notin {"effect", "serve"}
  BY <1>1, <1>2, EnteredIs
<1> HIDE DEF N
<1>4. Len(su) = n + 1 /\ su[n + 1] = N /\ \A j \in 1..n : su[j] = Moved[j]
  BY <1>2, <1>3, PushIs
<1>5. SameFrames(stack, su, n)
  BY <1>2, <1>4 DEF SameFrames
<1>6. 1 \in 1..n /\ n \in 1..n /\ \A j \in 1..(n + 1) : j \in 1..n \/ j = n + 1
  BY <1>2, UpToIs
<1>7. su[1].fn = r
  BY <1>5, <1>6 DEF SameFrames
<1> HIDE DEF su
<1> SUFFICES ASSUME ~Spotted(p, g, B), NEW j \in 1..(n + 1), Inside(p, su[j]) PROVE FrameIs(p, g, B, su, j)
  <2>1. FramesAre(p, g, su) <=> Spotted(p, g, B) \/ \A j \in 1..(n + 1) : Inside(p, su[j]) => FrameIs(p, g, B, su, j)
    BY <1>4, <1>7 DEF FramesAre
  <2> QED
    BY <2>1 DEF su, N
<1>8. CASE j \in 1..n
  <2>1. n <= Len(stack)
    BY <1>2
  <2> HIDE DEF n, g, p
  <2>2. LET C == Under(g, su[1].fn) IN Spotted(p, g, C) \/ \A k \in 1..n : Inside(p, su[k]) => FrameIs(p, g, C, su, k)
    BY <1>2, <1>5, <2>1, FramesStay DEF n, g, p
  <2> QED
    BY <1>7, <1>8, <2>2
<1>9. CASE j = n + 1
  <2>1. Inside(p, T) /\ FirstParty(p, v) /\ SiteHere.do \notin {"effect", "serve"}
    BY <1>3, <1>4, <1>9
  <2>2. T.at \in SitesOf(p, T.fn) /\ SiteHere = SiteAt(p, T.fn, T.at) /\ T.fn \in p.fns /\ T.at \in Nat
    BY <1>2 DEF AtSite, SiteHere, FramesOf
  <2>3. v \in SeenCallees(p, T.fn, T.at) /\ p.kind[v] # "init"
    BY <2>1, TopSees
  <2>4. v \in ScopeOf(p, g.entry) /\ Shown(p, B, v) /\ <<v, Passed(SiteHere.arg, T.arg)>> \in Givens(p)
    BY <2>1, TopEnters
  <2>5. su[n].fn = T.fn /\ su[n].way = T.way /\ su[n].at = T.at + 1
    BY <1>2, <1>4, <1>6 DEF SameFrames
  <2>6. su[n].at - 1 = T.at /\ Inside(p, su[n])
    BY <2>1, <2>2, <2>5 DEF Inside
  <2>7. CalledFrom(p, su[n], N)
    BY <1>3, <2>2, <2>3, <2>5, <2>6 DEF CalledFrom, CallAt, QueryHere
  <2>8. ASSUME N.arg # "" PROVE \E k \in 1..n : Inside(p, su[k]) /\ \E i \in SitesOf(p, su[k].fn) : SiteAt(p, su[k].fn, i).arg = N.arg
    <3>1. CASE SiteHere.arg # "param"
      <4>1. SiteAt(p, T.fn, T.at).arg = N.arg
        BY <1>3, <2>2, <3>1 DEF Passed
      <4> QED
        BY <1>6, <2>2, <2>5, <2>6, <4>1
    <3>2. CASE SiteHere.arg = "param"
      <4>1. T.arg = N.arg
        BY <1>3, <3>2 DEF Passed
      <4>2. FrameIs(p, g, B, stack, n)
        BY <1>1, <1>6, <2>1, <1>2 DEF FramesAre
      <4>3. PICK k \in 1..(n - 1) : Inside(p, stack[k]) /\ \E i \in SitesOf(p, stack[k].fn) : SiteAt(p, stack[k].fn, i).arg = N.arg
        BY <1>2, <2>8, <4>1, <4>2 DEF FrameIs, Handed
      <4>4. k \in 1..n
        BY <1>2, <1>6, Earlier
      <4>5. su[k].fn = stack[k].fn /\ su[k].way = stack[k].way
        BY <1>5, <4>4 DEF SameFrames
      <4> QED
        BY <4>3, <4>4, <4>5 DEF Inside
    <3> QED
      BY <3>1, <3>2
  <2>9. (n + 1) - 1 = n
    BY <1>2
  <2>10. Handed(p, su, n + 1)
    BY <1>4, <2>8, <2>9 DEF Handed
  <2> QED
    BY <1>3, <1>4, <1>9, <2>3, <2>4, <2>7, <2>9, <2>10 DEF FrameIs
<1> QED
  BY <1>8, <1>9

(* The request enters a function. *)
LEMMA EnterCallsInv ==
    ASSUME CallsInv, AtSite, SiteHere.do # "effect", NEW v, Enters(v), EnterFrame(v)
    PROVE  CallsInv'
<1>1. UNCHANGED <<source, graph, promised, performed>> /\ stack' = Append(Moved, Entered(v)) /\ stack # <<>>
  BY DEF EnterFrame, Entered, AtSite
<1>2. Runs(source, graph, stack) /\ (Rebound \/ FramesAre(source, graph, stack))
  BY <1>1 DEF CallsInv
<1>3. stack \in Seq(FramesOf(source)) /\ source \in BuildPrograms
  BY <1>2 DEF Runs, CallsInv
<1>4. /\ Moved \in Seq(FramesOf(source)) /\ Len(Moved) = Len(stack) /\ Len(stack) \in Nat /\ Len(stack) > 0
      /\ SameFrames(stack, Moved, Len(stack)) /\ TopFrame \in FramesOf(source)
  BY <1>1, <1>3, MovedIs
<1>5. v \in source.fns
  <2>1. TopFrame.fn \in source.fns /\ TopFrame.arg \in {""} \cup source.fns
    BY <1>4 DEF FramesOf
  <2>2. SiteHere.to \subseteq source.fns
    BY <1>3, <2>1, ProgramIs DEF AtSite, SiteHere
  <2> QED
    BY <2>1, <2>2 DEF Enters
<1>6. Entered(v) \in FramesOf(source)
  BY <1>3, <1>4, <1>5, EnteredIs
<1>7. 1 \in 1..Len(stack)
  BY <1>1, <1>3, SeqIs
<1>8. stack' \in Seq(FramesOf(source)) /\ stack' # <<>> /\ stack'[1] = Moved[1]
  BY <1>1, <1>4, <1>6, <1>7, PushIs
<1>9. stack'[1].fn = stack[1].fn
  BY <1>4, <1>7, <1>8 DEF SameFrames
<1>10. Runs(source, graph, stack')
  BY <1>2, <1>8, <1>9 DEF Runs
<1>11. Rebound \/ FramesAre(source, graph, stack')
  BY <1>1, <1>2, <1>5, EnterFrames
<1>12. \A l : Accounted(l)' <=> Accounted(l)
  BY <1>1, <1>8, <1>9, AccountedStays
<1>13. CallsAccounted' /\ (Rebound' <=> Rebound)
  BY <1>1, <1>12 DEF CallsAccounted, CallsInv, Rebound
<1> QED
  BY <1>1, <1>3, <1>8, <1>10, <1>11, <1>13 DEF CallsInv

LEMMA NextCallsInv == CallsInv /\ [GraphBuildNext]_buildVars => CallsInv'
<1> SUFFICES ASSUME CallsInv, [GraphBuildNext]_buildVars PROVE CallsInv'
  OBVIOUS
<1>1. CASE \/ \E p \in BuildPrograms, entry \in {"", "H"}, fold \in BOOLEAN : Build(p, entry, fold)
           \/ ApplyReclaimers \/ ApplyMiddlewareReclaimer \/ ApplyRebind
  BY <1>1, GraphCallsInv
<1>2. CASE \E r \in Requestable : Request(r)
  BY <1>2, RequestCallsInv
<1>3. CASE AtSite /\ \E g \in SiteHere.to : RunInto(g)
  <2>1. PICK v \in SiteHere.to : RunInto(v)
    BY <1>3
  <2>2. AtSite /\ SiteHere.do # "effect" /\ Enters(v) /\ EnterFrame(v)
    BY <2>1 DEF RunInto, Enters
  <2> QED
    BY <2>2, EnterCallsInv
<1>4. CASE RunParam
  <2>1. AtSite /\ SiteHere.do # "effect" /\ Enters(TopFrame.arg) /\ EnterFrame(TopFrame.arg)
    BY <1>4 DEF RunParam, Enters
  <2> QED
    BY <2>1, EnterCallsInv
<1>5. CASE RunEffect
  BY <1>5, EffectCallsInv
<1>6. CASE RunPast \/ RunReturn
  BY <1>6, PastCallsInv
<1>7. CASE UNCHANGED buildVars
  <2>1. UNCHANGED <<source, graph, promised, stack, performed>>
    BY <1>7 DEF buildVars
  <2>2. Below' = Below /\ (Rebound' <=> Rebound)
    BY <2>1 DEF Below, Rebound
  <2>3. \A l : Accounted(l)' <=> Accounted(l)
    BY <2>1, <2>2 DEF Accounted
  <2>4. CallsAccounted'
    BY <2>1, <2>2, <2>3 DEF CallsAccounted, CallsInv
  <2> QED
    BY <2>1, <2>2, <2>4 DEF CallsInv
<1> QED
  BY <1>1, <1>2, <1>3, <1>4, <1>5, <1>6, <1>7 DEF GraphBuildNext

(* Whatever a request does by calls of first-party code is in the graph    *)
(* below its entry point, or something there says it may be missing,       *)
(* whatever was applied to the graph (edgeOf, blindspots.go, rebind.go).   *)
THEOREM CallsAccountedAlways == GraphBuildSpec => []CallsAccounted
<1>1. CallsInv => CallsAccounted
  BY DEF CallsInv
<1> QED
  BY <1>1, InitCallsInv, NextCallsInv, PTL DEF GraphBuildSpec
=============================================================================
