--------------------------- MODULE GroundworkProofs ---------------------------
(***************************************************************************)
(* What groundwork keeps over a sequence of its commands, whatever the     *)
(* graphs, the policies and the clients: the session ids of its server     *)
(* over restarts; a clean main branch and its contract over merges, where  *)
(* every gate demands a stamp; what init measured, over the merges that    *)
(* follow it; and the audit, whatever the traffic and the order of the     *)
(* repairs: what is impeached is no behaviour the graph has a path for,    *)
(* and a witness whose repair was ratified never comes back.               *)
(***************************************************************************)
EXTENDS Propose, Impeach, SessionLog, FactProofs

-----------------------------------------------------------------------------
(* The session ids.                                                        *)

Ids == {0} \cup {l.sid : l \in log}

(* An id that a client may echo was opened in the log.                     *)
Known(s) == s = Anonymous \/ Line("init", s) \in log

(* The log has a greatest id, and a running server is not below it.        *)
Topped   == \E m \in Ids : \A i \in Ids : m >= i
CountsOn == up => \A l \in log : l.sid <= sessionN

IInv ==
    /\ TypeOK
    /\ SessionsApart
    /\ BoundaryLogged
    /\ \A c \in Clients : Known(held[c]) /\ Known(flight[c].by)
    /\ Topped
    /\ CountsOn

(* What maxLoggedSession returns. *)
LEMMA MaxIsTop ==
    ASSUME TypeOK, Topped
    PROVE  MaxLoggedSession \in Nat /\ \A l \in log : l.sid <= MaxLoggedSession
<1>1. Ids \subseteq Nat
    BY DEF TypeOK, Ids
<1>2. PICK m \in Ids : \A i \in Ids : m >= i
    BY DEF Topped
<1>3. MaxLoggedSession \in Ids /\ \A i \in Ids : MaxLoggedSession >= i
    BY <1>2 DEF MaxLoggedSession, Max, Ids
<1> QED BY <1>1, <1>3 DEF Ids

(* A line carries the id and the owner of its session. *)
LEMMA LineType ==
    ASSUME NEW s \in Sessions, NEW k
    PROVE  /\ Line(k, s) = [kind |-> k, sid |-> s.sid, of |-> s.of]
           /\ s.sid \in Nat /\ s.of \in Nat
    BY DEF Line, Sessions

(* The first server starts on an empty log. *)
LEMMA InitHolds == Init => IInv
<1> SUFFICES ASSUME Init PROVE IInv
    OBVIOUS
<1>1. TypeOK
    BY DEF Init, TypeOK, Quiet, Anonymous, Sessions
<1>2. SessionsApart /\ BoundaryLogged /\ CountsOn
    BY DEF Init, SessionsApart, BoundaryLogged, CountsOn
<1>3. \A c \in Clients : Known(held[c]) /\ Known(flight[c].by)
    BY DEF Init, Known, Quiet
<1>4. Ids = {0}
    BY DEF Init, Ids
<1>5. Topped
    BY <1>4 DEF Topped
<1> QED BY <1>1, <1>2, <1>3, <1>5 DEF IInv

(* A line for a session that is new, or one the log has opened already.    *)
LEMMA LineAdded ==
    ASSUME IInv, NEW s \in Sessions, NEW k \in {"init", "call"},
           log' = log \cup {Line(k, s)},
           \/ k = "init" /\ \A l \in log : l.sid # s.sid
           \/ k = "call" /\ Line("init", s) \in log
    PROVE  /\ log' \subseteq [kind : {"init", "call"}, sid : Nat, of : Nat]
           /\ SessionsApart' /\ BoundaryLogged' /\ Topped'
           /\ \A t : Known(t) => Known(t)'
<1> DEFINE n == Line(k, s)
<1>1. /\ n.kind = k /\ n.sid = s.sid /\ n.of = s.of
      /\ n \in [kind : {"init", "call"}, sid : Nat, of : Nat]
    BY LineType DEF Line
<1>2. log' \subseteq [kind : {"init", "call"}, sid : Nat, of : Nat]
    BY <1>1 DEF IInv, TypeOK
<1>3. \A l \in log : l.sid = n.sid => l.of = n.of
  <2>1. CASE k = "call" /\ Line("init", s) \in log
    <3>1. Line("init", s).sid = n.sid /\ Line("init", s).of = n.of
        BY <1>1 DEF Line
    <3> QED BY <2>1, <3>1 DEF IInv, SessionsApart
  <2>2. CASE \A l \in log : l.sid # s.sid
      BY <1>1, <2>2
  <2> QED BY <2>1, <2>2
<1>4. SessionsApart'
    BY <1>3 DEF IInv, SessionsApart
<1>5. BoundaryLogged'
  <2> SUFFICES ASSUME NEW l \in log', l.kind = "call"
               PROVE  \E m \in log' : m.kind = "init" /\ m.sid = l.sid /\ m.of = l.of
      BY DEF BoundaryLogged
  <2>1. CASE l \in log
      BY <2>1 DEF IInv, BoundaryLogged
  <2>2. CASE l = n
    <3>1. k = "call" /\ Line("init", s) \in log'
        BY <1>1, <2>2
    <3>2. /\ Line("init", s).kind = "init" /\ Line("init", s).sid = l.sid
          /\ Line("init", s).of = l.of
        BY <1>1, <2>2 DEF Line
    <3> QED BY <3>1, <3>2
  <2> QED BY <2>1, <2>2
<1>6. Topped'
  <2>1. PICK m \in Ids : \A i \in Ids : m >= i
      BY DEF IInv, Topped
  <2>2. Ids' = Ids \cup {s.sid} /\ s.sid \in Nat /\ Ids \subseteq Nat
      BY <1>1 DEF Ids, IInv, TypeOK, Sessions
  <2>3. CASE m >= s.sid
      BY <2>1, <2>2, <2>3 DEF Topped
  <2>4. CASE ~(m >= s.sid)
    <3>1. \A i \in Ids' : s.sid >= i
        BY <2>1, <2>2, <2>4
    <3> QED BY <2>2, <3>1 DEF Topped
  <2> QED BY <2>3, <2>4
<1>7. \A t : Known(t) => Known(t)'
    BY DEF Known
<1> QED BY <1>2, <1>4, <1>5, <1>6, <1>7

(* Steps that write no line keep what is said of the log alone.            *)
LEMMA LogKept ==
    ASSUME IInv, log' = log
    PROVE  /\ log' \subseteq [kind : {"init", "call"}, sid : Nat, of : Nat]
           /\ SessionsApart' /\ BoundaryLogged' /\ Topped'
           /\ \A t : Known(t) => Known(t)'
    BY DEF IInv, TypeOK, SessionsApart, BoundaryLogged, Topped, Ids, Known

(* Every step keeps the invariant, a restart on the log included. *)
LEMMA StepHolds ==
    ASSUME IInv, [Next]_vars
    PROVE  IInv'
<1> USE DEF IInv
<1>1. CASE Boot
  <2>1. sessionN' \in Nat /\ \A l \in log : l.sid <= sessionN'
      BY <1>1, MaxIsTop DEF Boot
  <2>2. TypeOK' /\ CountsOn'
      BY <1>1, <2>1 DEF Boot, TypeOK, CountsOn
  <2> QED BY <1>1, <2>2, LogKept DEF Boot
<1>2. CASE Kill
  <2>1. TypeOK' /\ CountsOn'
      BY <1>2 DEF Kill, TypeOK, CountsOn, Quiet, Anonymous, Sessions
  <2>2. \A c \in Clients : flight'[c].by = Anonymous
      BY <1>2 DEF Kill, Quiet
  <2> QED BY <1>2, <2>1, <2>2, LogKept DEF Kill, Known
<1>3. ASSUME NEW c \in Clients, Initialize(c)
      PROVE  IInv'
  <2> DEFINE s == [sid |-> sessionN + 1, of |-> issued + 1]
  <2>1. s \in Sessions /\ s.sid = sessionN + 1
      BY DEF TypeOK, Sessions
  <2>2. up /\ log' = log \cup {Line("init", s)} /\ sessionN' = sessionN + 1
      BY <1>3 DEF Initialize
  <2>3. \A l \in log : l.sid # s.sid /\ l.sid <= sessionN /\ l.sid \in Nat
      BY <2>1, <2>2 DEF CountsOn, TypeOK
  <2>4. /\ log' \subseteq [kind : {"init", "call"}, sid : Nat, of : Nat]
        /\ SessionsApart' /\ BoundaryLogged' /\ Topped'
        /\ \A t : Known(t) => Known(t)'
      BY <2>1, <2>2, <2>3, LineAdded
  <2>5. Line("init", s).sid = sessionN + 1
      BY <2>1 DEF Line
  <2>6. CountsOn'
      BY <2>2, <2>3, <2>5 DEF CountsOn, TypeOK
  <2>7. TypeOK'
      BY <1>3, <2>1, <2>4 DEF Initialize, TypeOK
  <2>8. Line("init", s) \in log'
      BY <2>2
  <2>9. \A d \in Clients : Known(held[d])' /\ Known(flight[d].by)'
    <3> SUFFICES ASSUME NEW d \in Clients
                 PROVE  Known(held[d])' /\ Known(flight[d].by)'
        OBVIOUS
    <3>1. Known(held[d])'
        BY <1>3, <2>4 DEF Initialize, Known
    <3>2. CASE d = c
      <4>1. flight'[d].by = s
          BY <1>3, <3>2 DEF Initialize, TypeOK
      <4> HIDE DEF s
      <4> QED BY <2>8, <3>1, <4>1 DEF Known, Line
    <3>3. CASE d # c
      <4>1. flight'[d] = flight[d]
          BY <1>3, <3>3 DEF Initialize, TypeOK
      <4> QED BY <2>4, <3>1, <4>1 DEF Known
    <3> QED BY <3>2, <3>3
  <2> QED BY <2>4, <2>6, <2>7, <2>9
<1>4. ASSUME NEW c \in Clients, Begin(c)
      PROVE  IInv'
  <2>1. TypeOK' /\ CountsOn'
      BY <1>4 DEF Begin, TypeOK, CountsOn, Quiet, Anonymous, Sessions
  <2>2. \A d \in Clients : /\ held'[d] \in {held[d], flight[d].by}
                           /\ flight'[d].by \in {flight[d].by, Anonymous}
      BY <1>4 DEF Begin, TypeOK, Quiet
  <2> QED BY <1>4, <2>1, <2>2, LogKept DEF Begin, Known
<1>5. ASSUME NEW c \in Clients, Ask(c)
      PROVE  IInv'
  <2>1. TypeOK' /\ CountsOn'
      BY <1>5 DEF Ask, TypeOK, CountsOn, Anonymous, Sessions
  <2>2. \A d \in Clients : /\ held'[d] = held[d]
                           /\ flight'[d].by \in {flight[d].by, held[d], Anonymous}
      BY <1>5 DEF Ask, TypeOK
  <2> QED BY <1>5, <2>1, <2>2, LogKept DEF Ask, Known
<1>6. ASSUME NEW c \in Clients, LogCall(c)
      PROVE  IInv'
  <2> DEFINE s == flight[c].by
  <2>1. s \in Sessions /\ Known(s)
      BY DEF TypeOK
  <2>2. /\ log' \subseteq [kind : {"init", "call"}, sid : Nat, of : Nat]
        /\ SessionsApart' /\ BoundaryLogged' /\ Topped'
        /\ \A t : Known(t) => Known(t)'
    <3>1. CASE s = Anonymous
        BY <1>6, <3>1, LogKept DEF LogCall
    <3>2. CASE s # Anonymous
      <4>1. log' = log \cup {Line("call", s)} /\ Line("init", s) \in log
          BY <1>6, <2>1, <3>2 DEF LogCall, Known
      <4> HIDE DEF s, IInv
      <4> QED BY <2>1, <4>1, LineAdded
    <3> QED BY <3>1, <3>2
  <2>3. CountsOn'
    <3>1. CASE s = Anonymous
        BY <1>6, <3>1 DEF LogCall, CountsOn
    <3>2. CASE s # Anonymous
      <4>1. log' = log \cup {Line("call", s)} /\ Line("init", s) \in log
          BY <1>6, <2>1, <3>2 DEF LogCall, Known
      <4>2. Line("call", s).sid = Line("init", s).sid
          BY DEF Line
      <4> QED BY <1>6, <4>1, <4>2 DEF LogCall, CountsOn
    <3> QED BY <3>1, <3>2
  <2>4. TypeOK'
      BY <1>6, <2>2 DEF LogCall, TypeOK, Quiet, Anonymous, Sessions
  <2>5. \A d \in Clients : held'[d] = held[d] /\ flight'[d].by \in {flight[d].by, Anonymous}
      BY <1>6 DEF LogCall, TypeOK, Quiet
  <2> QED BY <2>2, <2>3, <2>4, <2>5 DEF Known
<1>7. CASE UNCHANGED vars
  <2>1. TypeOK' /\ CountsOn'
      BY <1>7 DEF vars, TypeOK, CountsOn
  <2> QED BY <1>7, <2>1, LogKept DEF vars, Known
<1> QED BY <1>1, <1>2, <1>3, <1>4, <1>5, <1>6, <1>7 DEF Next

(* However often the server is killed and started again on its log, and    *)
(* whichever clients go on with ids of an earlier process, lines with one  *)
(* session id belong to one session, and its opening line is among them.   *)
THEOREM SessionsNeverMerge == Spec => [](SessionsApart /\ BoundaryLogged)
<1>1. IInv => SessionsApart /\ BoundaryLogged
    BY DEF IInv
<1>2. Init => IInv
    BY InitHolds
<1>3. IInv /\ [Next]_vars => IInv'
    BY StepHolds
<1> QED BY <1>1, <1>2, <1>3, PTL DEF Spec

(* The types of the session log hold. *)
THEOREM SessionTypes == Spec => []TypeOK
<1>1. IInv => TypeOK
    BY DEF IInv
<1>2. Init => IInv
    BY InitHolds
<1>3. IInv /\ [Next]_vars => IInv'
    BY StepHolds
<1> QED BY <1>1, <1>2, <1>3, PTL DEF Spec

-----------------------------------------------------------------------------
(* The gate.                                                               *)

(* What a finding is graded by: some are violations whatever the rule, the *)
(* others only where the rule demands proof.                               *)
Hard == {"edge", "reaches", "bypass", "reachable", "over", "VIOLATED"}
Grade(what, strict) ==
    IF what \in Hard THEN Violation ELSE IF strict THEN Violation ELSE Caution
Graded(f) ==
    \E rule, name, from, to, what, on, strict :
        f = [rule |-> rule, name |-> name, sev |-> Grade(what, strict), from |-> from, to |-> to,
             what |-> what, on |-> on, strict |-> strict]

-----------------------------------------------------------------------------
(* A finding's identity decides its severity.                              *)

(* A finding of a grave kind is a violation, and is graded. *)
LEMMA HardIsGraded ==
    ASSUME NEW rule, NEW name, NEW from, NEW to, NEW what \in Hard, NEW on
    PROVE  Graded(Finding(rule, name, Violation, from, to, what, on))
<1> DEFINE f == Finding(rule, name, Violation, from, to, what, on)
<1>1. Grade(what, FALSE) = Violation
  BY DEF Grade
<1>2. f = [rule |-> rule, name |-> name, sev |-> Grade(what, FALSE), from |-> from, to |-> to,
           what |-> what, on |-> on, strict |-> FALSE]
  BY <1>1 DEF Finding
<1> QED
  BY <1>2 DEF Graded

(* A finding of any other kind is a caution where no proof is demanded. *)
LEMMA SoftIsGraded ==
    ASSUME NEW rule, NEW name, NEW from, NEW to, NEW what, what \notin Hard, NEW on
    PROVE  Graded(Finding(rule, name, Caution, from, to, what, on))
<1> DEFINE f == Finding(rule, name, Caution, from, to, what, on)
<1>1. Grade(what, FALSE) = Caution
  BY DEF Grade
<1>2. f = [rule |-> rule, name |-> name, sev |-> Grade(what, FALSE), from |-> from, to |-> to,
           what |-> what, on |-> on, strict |-> FALSE]
  BY <1>1 DEF Finding
<1> QED
  BY <1>2 DEF Graded

(* An absence that is not proved is graded by what its rule demands. *)
LEMMA UnprovenIsGraded ==
    ASSUME NEW kind, NEW r, NEW from, NEW what, what \notin Hard, NEW on
    PROVE  Graded(Unproven(kind, r, from, what, on))
<1> DEFINE f == Unproven(kind, r, from, what, on)
<1>1. Grade(what, r.proof) = IF r.proof THEN Violation ELSE Caution
  BY DEF Grade
<1>2. f = [rule |-> kind, name |-> r.name, sev |-> Grade(what, r.proof), from |-> from, to |-> 0,
           what |-> what, on |-> on, strict |-> r.proof]
  BY <1>1 DEF Unproven, Finding
<1> QED
  BY <1>2 DEF Graded

(* Two graded findings of one key have one severity. *)
LEMMA SeverityByKey ==
    ASSUME NEW f, NEW h, Graded(f), Graded(h), Key(f) = Key(h)
    PROVE  f.sev = h.sev
<1>1. PICK r1, n1, a1, b1, w1, o1, s1 :
        f = [rule |-> r1, name |-> n1, sev |-> Grade(w1, s1), from |-> a1, to |-> b1,
             what |-> w1, on |-> o1, strict |-> s1]
  BY DEF Graded
<1>2. PICK r2, n2, a2, b2, w2, o2, s2 :
        h = [rule |-> r2, name |-> n2, sev |-> Grade(w2, s2), from |-> a2, to |-> b2,
             what |-> w2, on |-> o2, strict |-> s2]
  BY DEF Graded
<1>3. Key(f).what = w1 /\ Key(f).strict = s1
  BY <1>1 DEF Key
<1>4. Key(h).what = w2 /\ Key(h).strict = s2
  BY <1>2 DEF Key
<1>5. w1 = w2 /\ s1 = s2
  BY <1>3, <1>4
<1> QED
  BY <1>1, <1>2, <1>5

-----------------------------------------------------------------------------
(* Every finding of a check is graded.                                     *)

(* A crossed layer is a violation. *)
LEMMA LayeringIsGraded ==
    ASSUME NEW p, NEW g, NEW f \in CheckLayering(p, g)
    PROVE  Graded(f)
<1>1. PICK e : f = Finding("layering", "", Violation, e[1], e[2], "edge", {})
  BY DEF CheckLayering
<1>2. "edge" \in Hard
  BY DEF Hard
<1> QED
  BY <1>1, <1>2, HardIsGraded

(* A reach fact has one of four states. *)
LEMMA ReachStates ==
    ASSUME NEW g, NEW from, NEW to
    PROVE  EvaluateReach(g, from, to).state \in {"UNBOUND", "FOUND", "BLIND", "ABSENT"}
<1>1. ASSUME NEW F, NEW T, NEW R
      PROVE  ReachFact(F, T, R).state \in {"UNBOUND", "FOUND", "BLIND", "ABSENT"}
  <2>1. ASSUME NEW state, NEW s PROVE ReachRes(state, s, F, T, R).state = state
    BY DEF ReachRes
  <2> QED
    BY <2>1 DEF ReachFact
<1> QED
  BY <1>1 DEF EvaluateReach

(* What a must-not-reach rule finds is graded. *)
LEMMA MustNotReachIsGraded ==
    ASSUME NEW r, NEW g, NEW f \in CheckMustNotReach(r, g)
    PROVE  Graded(f)
<1> DEFINE fact == EvaluateReach(g, r.from, r.to)
<1>1. {"inert", "unbindable", "blind"} \cap Hard = {} /\ "reaches" \in Hard
  BY DEF Hard
<1>2. CASE fact.state = "UNBOUND"
  <2>1. f = Unproven("must_not_reach", r, 0,
                     IF fact.boundFrom = {} THEN "inert" ELSE "unbindable", {})
    BY <1>2 DEF CheckMustNotReach
  <2> QED
    BY <1>1, <2>1, UnprovenIsGraded
<1>3. CASE fact.state = "FOUND"
  <2>1. f = Finding("must_not_reach", r.name, Violation, fact.from,
                    fact.path[Len(fact.path)], "reaches", {})
    BY <1>3 DEF CheckMustNotReach
  <2> QED
    BY <1>1, <2>1, HardIsGraded
<1>4. CASE fact.state = "BLIND"
  <2>1. f = Unproven("must_not_reach", r, fact.from, "blind", {fact.blind.site})
    BY <1>4 DEF CheckMustNotReach
  <2> QED
    BY <1>1, <2>1, UnprovenIsGraded
<1>5. CASE fact.state = "ABSENT"
  BY <1>5 DEF CheckMustNotReach
<1> QED
  BY <1>2, <1>3, <1>4, <1>5, ReachStates

(* What a must-pass-through rule finds is graded. *)
LEMMA MustPassThroughIsGraded ==
    ASSUME NEW r, NEW g, NEW f \in CheckMustPassThrough(r, g)
    PROVE  Graded(f)
<1> DEFINE fact == EvaluatePassThrough(g, r.from, r.to, r.through, r.allow)
<1>1. {"inert", "unbindable", "blind"} \cap Hard = {} /\ "bypass" \in Hard
  BY DEF Hard
<1>2. \/ f = Unproven("must_pass_through", r, 0, "inert", {})
      \/ f = Unproven("must_pass_through", r, 0, "unbindable", {})
      \/ f = Unproven("must_pass_through", r, fact.from, "blind", {fact.blind.site})
      \/ \E b : f = Finding("must_pass_through", r.name, Violation, b[1], b[2], "bypass", {})
  BY DEF CheckMustPassThrough
<1> QED
  BY <1>1, <1>2, UnprovenIsGraded, HardIsGraded

(* A concurrency fact has one of four states. *)
LEMMA ConcurrentStates ==
    ASSUME NEW g, NEW to
    PROVE  EvaluateConcurrent(g, to).state \in {"UNBOUND", "HIT", "BLIND", "CLEAN"}
  BY DEF EvaluateConcurrent

(* What a no-concurrent-reach rule finds is graded. *)
LEMMA NoConcurrentReachIsGraded ==
    ASSUME NEW r, NEW g, NEW f \in CheckNoConcurrentReach(r, g)
    PROVE  Graded(f)
<1> DEFINE fact == EvaluateConcurrent(g, r.to)
<1>1. {"unbindable", "blind"} \cap Hard = {} /\ "reachable" \in Hard
  BY DEF Hard
<1>2. CASE fact.state = "UNBOUND"
  <2>1. f = Unproven("no_concurrent_reach", r, 0, "unbindable", {})
    BY <1>2 DEF CheckNoConcurrentReach
  <2> QED
    BY <1>1, <2>1, UnprovenIsGraded
<1>3. CASE fact.state = "HIT"
  <2>1. PICK h : f = Finding("no_concurrent_reach", r.name, Violation, h[1], h[2], "reachable", {})
    BY <1>3 DEF CheckNoConcurrentReach
  <2> QED
    BY <1>1, <2>1, HardIsGraded
<1>4. CASE fact.state = "BLIND"
  <2>1. f = Unproven("no_concurrent_reach", r, 0, "blind", {fact.blind.site})
    BY <1>4 DEF CheckNoConcurrentReach
  <2> QED
    BY <1>1, <2>1, UnprovenIsGraded
<1>5. CASE fact.state = "CLEAN"
  BY <1>5 DEF CheckNoConcurrentReach
<1> QED
  BY <1>2, <1>3, <1>4, <1>5, ConcurrentStates

(* What the write budget finds is graded. *)
LEMMA IOBudgetIsGraded ==
    ASSUME NEW p, NEW g, NEW f \in CheckIOBudget(p, g)
    PROVE  Graded(f)
<1> DEFINE Soft == {"no route", "unclassified", "effects", "lower bound"}
<1>1. Soft \cap Hard = {} /\ "over" \in Hard
  BY DEF Hard
<1>2. \/ \E s, on : f = Finding("io_budget", "", Violation, s, 0, "over", on)
      \/ \E n, on, what : what \in Soft /\ f = Finding("io_budget", "", Caution, n, 0, what, on)
  BY DEF CheckIOBudget
<1> QED
  BY <1>1, <1>2, HardIsGraded, SoftIsGraded

(* What the obligations of the graph report is graded. *)
LEMMA ObligationsAreGraded ==
    ASSUME NEW g, NEW f \in CheckObligations(g)
    PROVE  Graded(f)
<1>1. PICK rule, from, to, status :
         f = Finding("obligation", rule,
                     IF ClassifyObligation(status) = "VIOLATED" THEN Violation ELSE Caution,
                     from, to, ClassifyObligation(status), {})
  BY DEF CheckObligations
<1>2. ClassifyObligation(status) \in Hard <=> ClassifyObligation(status) = "VIOLATED"
  BY DEF Hard, ClassifyObligation
<1> QED
  BY <1>1, <1>2, HardIsGraded, SoftIsGraded

(* Every finding of a check is graded. *)
LEMMA CheckIsGraded ==
    ASSUME NEW p, NEW g, NEW f \in Check(p, g)
    PROVE  Graded(f)
<1>1. CASE f \in CheckLayering(p, g)
  BY <1>1, LayeringIsGraded
<1>2. CASE \E i \in DOMAIN p.reach : f \in CheckMustNotReach(p.reach[i], g)
  BY <1>2, MustNotReachIsGraded
<1>3. CASE \E i \in DOMAIN p.pass : f \in CheckMustPassThrough(p.pass[i], g)
  BY <1>3, MustPassThroughIsGraded
<1>4. CASE \E i \in DOMAIN p.conc : f \in CheckNoConcurrentReach(p.conc[i], g)
  BY <1>4, NoConcurrentReachIsGraded
<1>5. CASE f \in CheckIOBudget(p, g)
  BY <1>5, IOBudgetIsGraded
<1>6. CASE f \in CheckObligations(g)
  BY <1>6, ObligationsAreGraded
<1>7. CASE f \in CheckRatchetCoupling(p)
  <2>1. f = Finding("ratchet_coupling", "", Caution, 0, 0, "uncoupled", {})
    BY <1>7 DEF CheckRatchetCoupling
  <2>2. "uncoupled" \notin Hard
    BY DEF Hard
  <2> QED
    BY <2>1, <2>2, SoftIsGraded
<1> QED
  BY <1>1, <1>2, <1>3, <1>4, <1>5, <1>6, <1>7 DEF Check

-----------------------------------------------------------------------------
(* What the gate keeps.                                                    *)

(* Main with nothing new and grave stays clean: what was there before has  *)
(* the severity it had.                                                    *)
LEMMA GateKeepsClean ==
    ASSUME NEW p, NEW base, NEW branch, OK(Check(p, base)),
           NewFindings(p, base, branch).violations = {}
    PROVE  OK(Check(p, branch))
<1> SUFFICES ASSUME NEW f \in Check(p, branch), f.sev = Violation
             PROVE  FALSE
  BY DEF OK, ViolationsOf
<1>1. Key(f) \in {Key(h) : h \in Check(p, base)}
  BY DEF NewFindings
<1>2. PICK h \in Check(p, base) : Key(f) = Key(h)
  BY <1>1
<1>3. Graded(f) /\ Graded(h)
  BY CheckIsGraded
<1>4. h.sev = Violation
  BY <1>2, <1>3, SeverityByKey
<1> QED
  BY <1>2, <1>4 DEF OK, ViolationsOf

(* No breaking change is told only if nothing exposed is gone: a lost topic *)
(* that is not told is told by its entrypoint.                             *)
LEMMA GateKeepsExposed ==
    ASSUME NEW base, NEW branch, Breaking(ContractChanges(base, branch)) = {}
    PROVE  Exposed(base) \subseteq Exposed(branch)
<1> SUFFICES ASSUME NEW x \in Exposed(base), x \notin Exposed(branch)
             PROVE  FALSE
  OBVIOUS
<1> DEFINE all == {[op |-> "+", what |-> y] : y \in Exposed(branch) \ Exposed(base)}
                  \cup {[op |-> "-", what |-> y] : y \in Exposed(base) \ Exposed(branch)}
           c   == [op |-> "-", what |-> x]
<1>1. c \in all
  OBVIOUS
<1>2. \A d \in all : d.op = "-" => d \notin Dedupe(all)
  BY DEF Breaking, ContractChanges
<1>3. c \notin Dedupe(all)
  BY <1>1, <1>2
<1>4. PICK e \in all : e.what.surface = "entrypoint" /\ e.op = "-"
  <2> HIDE DEF all
  <2> QED
    BY <1>1, <1>3 DEF Dedupe
<1>5. e \in Dedupe(all)
  <2> HIDE DEF all
  <2> QED
    BY <1>4 DEF Dedupe
<1> QED
  BY <1>2, <1>4, <1>5

(* Of the files a job may be handed, only the commit's own graph is taken  *)
(* where a stamp is demanded.                                              *)
LEMMA StampNamesTheGraph ==
    ASSUME StampRequired = TRUE, NEW commit, NEW before, NEW file \in Handed(commit, before),
           NEW expect \in {<<>>, <<commit>>}, VerifyGateStamp(file.stamp, expect)
    PROVE  file.graph = commit
<1>1. expect = <<commit>> /\ file.stamp = <<commit>>
  BY DEF VerifyGateStamp
<1>2. CASE file = [graph |-> commit, stamp |-> <<commit>>]
  BY <1>2
<1>3. CASE file = [graph |-> commit, stamp |-> <<>>]
  BY <1>1, <1>3
<1>4. CASE file = [graph |-> before, stamp |-> <<before>>]
  <2>1. <<before>> = <<commit>>
    BY <1>1, <1>4
  <2>2. before = commit
    BY <2>1
  <2> QED
    BY <1>4, <2>2
<1> QED
  BY <1>2, <1>3, <1>4 DEF Handed

-----------------------------------------------------------------------------
(* The invariant: a merge request that passed would keep main as it is.    *)

MRType ==
    mr.open => DOMAIN mr = {"open", "branch", "scope", "edits", "was", "artifact", "passed"}
PassedTheGate ==
    mr.open /\ mr.passed => /\ OK(Check(policyOf, mr.branch))
                            /\ Exposed(main) \subseteq Exposed(mr.branch)
MRInv == MRType /\ MainStaysClean /\ NothingExposedIsLost /\ PassedTheGate

(* What the gate passes is clean, and loses nothing. *)
LEMMA GateKeepsMain ==
    ASSUME MainStaysClean, NEW branch, NEW scope, Gate(policyOf, main, branch, scope)
    PROVE  OK(Check(policyOf, branch)) /\ Exposed(main) \subseteq Exposed(branch)
<1>1. OK(Check(policyOf, branch))
  BY GateKeepsClean DEF MainStaysClean, Gate
<1>2. Exposed(main) \subseteq Exposed(branch)
  BY GateKeepsExposed DEF Gate
<1> QED
  BY <1>1, <1>2

(* The service starts clean, with nothing open. *)
LEMMA MRInvInit == MRInit => MRInv
<1> SUFFICES ASSUME MRInit PROVE MRInv
  OBVIOUS
<1>1. ~mr.open
  BY DEF MRInit, Closed
<1>2. MainStaysClean /\ NothingExposedIsLost
  BY DEF MRInit, MainStaysClean, NothingExposedIsLost
<1> QED
  BY <1>1, <1>2 DEF MRInv, MRType, PassedTheGate

(* Every step keeps the invariant where a stamp is demanded. *)
LEMMA MRInvNext ==
    ASSUME StampRequired = TRUE, MRInv, [MRNext]_mrVars
    PROVE  MRInv'
<1> USE DEF MRInv
<1>1. ASSUME NEW branch \in MRGraphs, NEW scope \in Scopes, Open(branch, scope)
      PROVE  MRInv'
  <2> DEFINE body == Review(policyOf, main, branch)
             pass == Gate(policyOf, main, branch, scope)
  <2> HIDE DEF body, pass
  <2>1. mr' = [open |-> TRUE, branch |-> branch, scope |-> scope, edits |-> 0, was |-> branch,
               artifact |-> [body |-> body, digest |-> body], passed |-> pass]
    BY <1>1 DEF Open, body, pass
  <2>2. main' = main /\ policyOf' = policyOf /\ ever' = ever
    BY <1>1 DEF Open
  <2>3. MRType'
    BY <2>1 DEF MRType
  <2>4. MainStaysClean' /\ NothingExposedIsLost'
    BY <2>2 DEF MainStaysClean, NothingExposedIsLost
  <2>5. mr'.branch = branch /\ (mr'.passed <=> pass)
    BY <2>1
  <2>6. PassedTheGate'
    BY <2>2, <2>5, GateKeepsMain DEF PassedTheGate, pass
  <2> QED
    BY <2>3, <2>4, <2>6
<1>2. ASSUME NEW branch \in MRGraphs, NEW file \in Handed(branch, mr.branch),
             NEW expect \in {<<>>, <<branch>>}, Push(branch, file, expect)
      PROVE  MRInv'
  <2> DEFINE pass == VerifyGateStamp(file.stamp, expect) /\ Gate(policyOf, main, file.graph, mr.scope)
  <2> HIDE DEF pass
  <2>1. mr.open /\ mr' = [mr EXCEPT !.branch = branch, !.was = mr.branch, !.edits = 1, !.passed = pass]
    BY <1>2 DEF Push, pass
  <2>2. main' = main /\ policyOf' = policyOf /\ ever' = ever
    BY <1>2 DEF Push
  <2>3. MRType'
    BY <2>1 DEF MRType
  <2>4. MainStaysClean' /\ NothingExposedIsLost'
    BY <2>2 DEF MainStaysClean, NothingExposedIsLost
  <2>5. mr'.branch = branch /\ mr'.passed = pass
    BY <2>1 DEF MRType
  <2>6. PassedTheGate'
    <3> SUFFICES ASSUME pass PROVE OK(Check(policyOf, branch)) /\ Exposed(main) \subseteq Exposed(branch)
      BY <2>2, <2>5 DEF PassedTheGate
    <3>1. file.graph = branch
      BY StampNamesTheGraph DEF pass
    <3>2. Gate(policyOf, main, branch, mr.scope)
      BY <3>1 DEF pass
    <3> QED
      BY <3>2, GateKeepsMain
  <2> QED
    BY <2>3, <2>4, <2>6
<1>3. ASSUME Edit \/ Resign
      PROVE  MRInv'
  <2>1. mr.open /\ main' = main /\ policyOf' = policyOf /\ ever' = ever
    BY <1>3 DEF Edit, Resign
  <2>2. DOMAIN mr' = DOMAIN mr /\ mr'.open = mr.open /\ mr'.branch = mr.branch /\ mr'.passed = mr.passed
    BY <1>3, <2>1 DEF Edit, Resign, MRType
  <2>3. MainStaysClean' /\ NothingExposedIsLost'
    BY <2>1 DEF MainStaysClean, NothingExposedIsLost
  <2>4. MRType' /\ PassedTheGate'
    BY <2>1, <2>2 DEF MRType, PassedTheGate
  <2> QED
    BY <2>3, <2>4
<1>4. CASE Merge
  <2>1. ~mr'.open /\ main' = mr.branch /\ policyOf' = policyOf /\ ever' = ever \cup Exposed(mr.branch)
    BY <1>4 DEF Merge, Closed
  <2>2. OK(Check(policyOf, mr.branch)) /\ Exposed(main) \subseteq Exposed(mr.branch)
    BY <1>4 DEF Merge, PassedTheGate
  <2>3. MainStaysClean' /\ NothingExposedIsLost'
    BY <2>1, <2>2 DEF MainStaysClean, NothingExposedIsLost
  <2> QED
    BY <2>1, <2>3 DEF MRType, PassedTheGate
<1>5. CASE Close
  <2>1. ~mr'.open /\ main' = main /\ policyOf' = policyOf /\ ever' = ever
    BY <1>5 DEF Close, Closed
  <2> QED
    BY <2>1 DEF MRType, PassedTheGate, MainStaysClean, NothingExposedIsLost
<1>6. CASE UNCHANGED mrVars
  BY <1>6 DEF mrVars, MRType, PassedTheGate, MainStaysClean, NothingExposedIsLost
<1> QED
  BY <1>1, <1>2, <1>3, <1>4, <1>5, <1>6 DEF MRNext

(* Where every gate demands a stamp, the invariant always holds. *)
LEMMA MRInvHolds ==
    ASSUME StampRequired = TRUE
    PROVE  MRSpec => []MRInv
<1>1. MRInit => MRInv
  BY MRInvInit
<1>2. MRInv /\ [MRNext]_mrVars => MRInv'
  BY MRInvNext
<1> QED
  BY <1>1, <1>2, PTL DEF MRSpec

-----------------------------------------------------------------------------
(* Whatever the graphs, the policies and the scopes, a main branch that    *)
(* starts clean and takes only what passes a gate that demands its stamp   *)
(* never violates its policy (review.Gate, fitness.Finding.Key).           *)
THEOREM MainStaysCleanAlways ==
    ASSUME StampRequired = TRUE
    PROVE  MRSpec => []MainStaysClean
<1>1. MRInv => MainStaysClean
  BY DEF MRInv
<1> QED
  BY <1>1, MRInvHolds, PTL

(* Nor does it lose a route, topic or endpoint it ever exposed, although a *)
(* topic both served and consumed is told once (contract.Diff).            *)
THEOREM NothingExposedIsLostEver ==
    ASSUME StampRequired = TRUE
    PROVE  MRSpec => []NothingExposedIsLost
<1>1. MRInv => NothingExposedIsLost
  BY DEF MRInv
<1> QED
  BY <1>1, MRInvHolds, PTL

(* Whatever file a verifying job is handed and however the artifact was    *)
(* edited, AUTHENTIC means the review of the commit's own graph; no stamp  *)
(* need be demanded, the verifier is told the commit.                      *)
THEOREM AuthenticIsTrueAlways == MRSpec => []AuthenticIsTrue
<1>1. ASSUME NEW commit, NEW before, NEW file \in Handed(commit, before),
             VerifyGateStamp(file.stamp, <<commit>>)
      PROVE  file.graph = commit
  <2>1. file.stamp = <<commit>>
    BY <1>1 DEF VerifyGateStamp
  <2>2. file.stamp = <<>> \/ file.stamp = <<file.graph>>
    BY DEF Handed
  <2> QED
    BY <2>1, <2>2
<1>2. ASSUME NEW claimed, NEW now, VerifyArtifact(claimed, now) = "AUTHENTIC"
      PROVE  claimed.body = now
  BY <1>2 DEF VerifyArtifact
<1>3. AuthenticIsTrue
  <2> SUFFICES ASSUME NEW file \in Handed(mr.branch, mr.was), NEW now,
                      CmdVerifyArtifact(mr.artifact, file, <<mr.branch>>, now) = "AUTHENTIC"
               PROVE  mr.artifact.body = now /\ file.graph = mr.branch
    BY DEF AuthenticIsTrue
  <2>1. VerifyGateStamp(file.stamp, <<mr.branch>>) /\ VerifyArtifact(mr.artifact, now) = "AUTHENTIC"
    BY DEF CmdVerifyArtifact
  <2> QED
    BY <2>1, <1>1, <1>2
<1> QED
  BY <1>3, PTL

-----------------------------------------------------------------------------
(* A bounded set of numbers has a greatest element. *)
LEMMA MaxIn ==
    ASSUME NEW S \in SUBSET Nat, S # {}, NEW n \in Nat, \A x \in S : x <= n
    PROVE  Max(S) \in S /\ \A y \in S : y <= Max(S)
<1> DEFINE U == {k \in Nat : \A x \in S : x <= k}
           m == Min(U)
<1>1. m \in U /\ \A k \in U : m <= k
  BY MinIn
<1> HIDE DEF m
<1>2. m \in Nat /\ \A x \in S : x <= m
  BY <1>1
<1>3. m \in S
  <2> SUFFICES ASSUME m \notin S PROVE FALSE
    OBVIOUS
  <2>1. ASSUME NEW x \in S PROVE x < m
    <3>1. x <= m /\ x # m /\ x \in Nat /\ m \in Nat
      BY <1>2, <2>1
    <3> QED
      BY <3>1
  <2>2. PICK x \in S : TRUE
    OBVIOUS
  <2>3. m - 1 \in Nat
    BY <1>2, <2>1, <2>2
  <2>4. \A y \in S : y <= m - 1
    BY <1>2, <2>1
  <2>5. m - 1 \in U
    BY <2>3, <2>4
  <2>6. m <= m - 1
    BY <1>1, <2>5
  <2> QED
    BY <1>2, <2>6
<1>4. \E x \in S : \A y \in S : x >= y
  BY <1>2, <1>3
<1>5. Max(S) \in S /\ \A y \in S : Max(S) >= y
  BY <1>4 DEF Max
<1> QED
  BY <1>5

-----------------------------------------------------------------------------
(* What the write selectors bind.                                          *)

(* In a graph of nodes, the write selectors bind the labels of its writes. *)
LEMMA TargetsAre ==
    ASSUME NEW g, Named(g)
    PROVE  /\ \A l \in BindTargets(g, DBWrites) : l \in Labels /\ LabelOf[l].kind = "db" /\ IsWrite(l)
           /\ \A l \in BindTargets(g, DBWrites \cup {BusPublish}) :
                 l \in Labels /\ LabelOf[l].kind \in {"db", "bus"} /\ IsWrite(l)
           /\ \A e \in Effects(g, g.nodes) : DBWrite(e) => e.to \in BindTargets(g, DBWrites)
           /\ \A e \in Effects(g, g.nodes) :
                 LabelOf[e.to].kind \in {"db", "bus"} /\ IsWrite(e.to)
                    => e.to \in BindTargets(g, DBWrites \cup {BusPublish})
<1> DEFINE All == UNION {Binds[s] : s \in DBWrites}
           Seen == {e.to : e \in Effects(g, g.nodes)}
<1>1. /\ DBWrites \ {EntrypointSelector} = DBWrites
      /\ (DBWrites \cup {BusPublish}) \ {EntrypointSelector} = DBWrites \cup {BusPublish}
  BY SelectorsOK
<1>2. BindTargets(g, DBWrites) = All \cap (g.nodes \cup Seen)
  BY <1>1 DEF BindTargets
<1>3. BindTargets(g, DBWrites \cup {BusPublish}) = (All \cup Binds[BusPublish]) \cap (g.nodes \cup Seen)
  BY <1>1 DEF BindTargets
<1>4. /\ All = {l \in Labels : LabelOf[l].kind = "db" /\ IsWrite(l)}
      /\ Binds[BusPublish] = {l \in Labels : LabelOf[l].kind = "bus" /\ IsWrite(l)}
  BY SelectorsOK
<1>5. \A e \in Effects(g, g.nodes) : e.to \in Labels /\ e.to \in Seen
  BY DEF Effects, IsBoundary
<1> HIDE DEF All, Seen
<1> QED
  BY <1>2, <1>3, <1>4, <1>5 DEF DBWrite, IsBoundary

(* No label is a function. *)
LEMMA LabelsApart ==
    ASSUME NEW l \in Labels
    PROVE  l \notin Functions /\ l # 0
BY NamesOK

-----------------------------------------------------------------------------
(* What the rules of a proposal forbid.                                    *)

(* Sources are nodes. *)
LEMMA SourcesAreNodes ==
    ASSUME NEW g, NEW S
    PROVE  BindSources(g, S) \subseteq g.nodes
BY DEF BindSources, SourcesOf

(* The read-only rule is met where no bound source reaches a write of the  *)
(* database or the bus, and nowhere else.                                  *)
LEMMA ReachRule ==
    ASSUME NEW g, Named(g), NEW r, r.proof = FALSE, r.to = DBWrites \cup {BusPublish}
    PROVE  Clean(CheckMustNotReach(r, g)) <=>
              \A s \in BindSources(g, r.from) : \A e \in Effects(g, WithReached(g, {s})) :
                  ~(IsWrite(e.to) /\ LabelOf[e.to].kind \in {"db", "bus"})
<1> DEFINE F == BindSources(g, r.from)
           T == BindTargets(g, r.to)
           Bad(e) == IsWrite(e.to) /\ LabelOf[e.to].kind \in {"db", "bus"}
<1>1. /\ \A l \in T : l \in Labels /\ LabelOf[l].kind \in {"db", "bus"} /\ IsWrite(l)
      /\ \A e \in Effects(g, g.nodes) : Bad(e) => e.to \in T
  BY TargetsAre
<1>2. Clean(CheckMustNotReach(r, g)) <=> \A s \in F : T # {} => ~SearchFrom(g, s, T).found
  BY ReachClean
<1>3. ASSUME NEW s \in F
      PROVE  /\ WithReached(g, {s}) \subseteq g.nodes
             /\ Effects(g, WithReached(g, {s})) \subseteq Effects(g, g.nodes)
             /\ SearchFrom(g, s, T).found <=> \E e \in Effects(g, WithReached(g, {s})) : e.to \in T
  <2>1. {s} \in SUBSET g.nodes
    BY <1>3, SourcesAreNodes
  <2>2. WithReached(g, {s}) \subseteq g.nodes
    BY <2>1, WalkClosed
  <2>3. WithReached(g, {s}) \cap T = {}
    BY <1>1, <2>2, LabelsApart DEF Named
  <2>4. SearchFrom(g, s, T).found <=>
            (WithReached(g, {s}) \ {s}) \cap T # {} \/ \E e \in Effects(g, WithReached(g, {s})) : e.to \in T
    BY SearchFinds
  <2>5. (WithReached(g, {s}) \ {s}) \cap T = {}
    BY <2>3
  <2>6. Effects(g, WithReached(g, {s})) \subseteq Effects(g, g.nodes)
    BY <2>2 DEF Effects
  <2> QED
    BY <2>2, <2>4, <2>5, <2>6
<1>4. ASSUME NEW s \in F
      PROVE  (T # {} => ~SearchFrom(g, s, T).found) <=> \A e \in Effects(g, WithReached(g, {s})) : ~Bad(e)
  <2>1. \A e \in Effects(g, WithReached(g, {s})) : e.to \in T <=> Bad(e)
    BY <1>1, <1>3, <1>4
  <2> HIDE DEF T, F, Bad
  <2> QED
    BY <1>3, <1>4, <2>1
<1> HIDE DEF T, F
<1> QED
  BY <1>2, <1>4 DEF F

(* The rule on concurrency is met where no goroutine reaches a write of    *)
(* the database, and nowhere else.                                         *)
LEMMA ConcurrentRule ==
    ASSUME NEW g, Named(g), Loadable(g), NEW r, r.proof = FALSE, r.to = DBWrites
    PROVE  Clean(CheckNoConcurrentReach(r, g)) <=> \A e \in ConcurrentEffects(g) : ~DBWrite(e)
<1> DEFINE T == BindTargets(g, r.to)
           all == ConcDirect(g) \cup Effects(g, ConcCone(g))
<1>1. /\ \A l \in T : l \in Labels /\ LabelOf[l].kind = "db" /\ IsWrite(l)
      /\ \A e \in Effects(g, g.nodes) : DBWrite(e) => e.to \in T
  BY TargetsAre
<1>2. Clean(CheckNoConcurrentReach(r, g)) <=> ConcCone(g) \cap T = {} /\ \A e \in all : e.to \notin T
  BY ConcurrentClean
<1>3. ConcCone(g) \subseteq g.nodes
  BY ConcConeClosed DEF Named
<1>4. ConcCone(g) \cap T = {}
  BY <1>1, <1>3, LabelsApart DEF Named
<1>5. ConcurrentEffects(g) = all
  <2>1. {e \in g.edges : e.conc /\ IsBoundary(e)} = ConcDirect(g)
    BY DEF Loadable, ConcDirect, Effects
  <2>2. WithReached(g, {e.to : e \in {d \in g.edges : d.conc /\ d.to \in g.nodes}}) = ConcCone(g)
    BY DEF WithReached, ConcCone, ConcSeeds
  <2> QED
    BY <2>1, <2>2 DEF ConcurrentEffects
<1>6. all \subseteq Effects(g, g.nodes)
  BY <1>3 DEF ConcDirect, Effects
<1>7. \A e \in all : e.to \in T <=> DBWrite(e)
  BY <1>1, <1>6 DEF DBWrite, Effects
<1> HIDE DEF T, all
<1> QED
  BY <1>2, <1>4, <1>5, <1>7

(* A waypoint that guards all is bypassed by none. *)
LEMMA WaypointRule ==
    ASSUME NEW g, Named(g), NEW w, w # EntrypointSelector, GuardsAll(g, w),
           NEW r, r.proof = FALSE, r.from = {EntrypointSelector}, r.to = DBWrites, r.through = {w}
    PROVE  Clean(CheckMustPassThrough(r, g))
<1> DEFINE F == BindSources(g, r.from)
           T == BindTargets(g, r.to)
           W == BindFunctions(g, r.through)
<1>1. F = SourcesOf(g) /\ F \subseteq g.nodes
  BY DEF BindSources, SourcesOf
<1>2. W = Binds[w] \cap g.nodes
  BY DEF BindFunctions
<1>3. \A l \in T : l \in Labels /\ LabelOf[l].kind = "db" /\ IsWrite(l)
  BY TargetsAre
<1>4. \A s : GuardedWalk(g, s, W) = GuardedWalk(g, s, Binds[w])
  <2>1. \A f : Callees(g, f) \ W = Callees(g, f) \ Binds[w]
    BY <1>2 DEF Callees
  <2>2. [f \in Functions |-> Callees(g, f) \ W] = [f \in Functions |-> Callees(g, f) \ Binds[w]]
    BY <2>1
  <2> QED
    BY <2>2 DEF GuardedWalk
<1>5. \A s \in F \ W : \A e \in Effects(g, GuardedWalk(g, s, W)) : ~DBWrite(e)
  BY <1>1, <1>2, <1>4 DEF GuardsAll
<1>6. ASSUME NEW b \in F \X T, Around(g, r, b)
      PROVE  FALSE
  <2> DEFINE s == b[1]
             C == GuardedWalk(g, s, W)
             open == [a \in F \ W |-> GuardedWalk(g, a, W)]
  <2>1. s \in F \ W /\ b[2] \in T /\ open[s] = C
    BY <1>6 DEF Around
  <2>2. b[2] \in (C \ {s}) \cup {e.to : e \in Effects(g, C)}
    BY <1>6, <2>1 DEF Around
  <2>3. C \subseteq {s} \cup g.nodes
    BY <1>1, <2>1, GuardedWalkClosed DEF Named
  <2>4. b[2] \notin C
    BY <1>1, <1>3, <2>1, <2>3, LabelsApart DEF Named
  <2>5. PICK e \in Effects(g, C) : e.to = b[2]
    BY <2>2, <2>4
  <2>6. DBWrite(e)
    BY <1>3, <2>1, <2>5 DEF DBWrite, IsBoundary
  <2> QED
    BY <1>5, <2>1, <2>5, <2>6
<1>7. RoutesAround(g, r) = {}
  BY <1>6 DEF RoutesAround
<1> QED
  BY <1>7, PassClean

-----------------------------------------------------------------------------
(* The reconciled proposal.                                                *)

Columns == {"service", "version", "substrate", "layers", "layered", "layerAllow", "roots", "reach", "pass", "conc",
            "budget", "spotAllow", "spotRatchet", "spotGate", "effectAllow", "effectRatchet", "effectGate", "brokers"}

Row(p) == p = [c \in Columns |-> p[c]]

(* The form of a proposed policy. *)
Formed(p) ==
    /\ Row(p)
    /\ \A i \in DOMAIN p.reach : p.reach[i].proof = FALSE /\ p.reach[i].to = DBWrites \cup {BusPublish}
    /\ \A i \in DOMAIN p.conc : p.conc[i].proof = FALSE /\ p.conc[i].to = DBWrites
    /\ p.conc # <<>> => 1 \in DOMAIN p.conc
    /\ p.budget = [set |-> TRUE, max |-> p.budget.max] /\ p.budget.max \in Nat

(* What the rules but for the layering say of the graph. *)
MetBy(p, g) ==
    /\ \A i \in DOMAIN p.reach : Clean(CheckMustNotReach(p.reach[i], g))
    /\ \A i \in DOMAIN p.pass : Clean(CheckMustPassThrough(p.pass[i], g))
    /\ \A i \in DOMAIN p.conc : Clean(CheckNoConcurrentReach(p.conc[i], g))
    /\ Clean(CheckIOBudget(p, g))

ByRule(V, rule) == {f \in V : f.rule = rule}

(* Relaxing, rule by rule. *)
LEMMA RelaxIs ==
    ASSUME NEW p, NEW g, NEW V
    PROVE  Relax(p, g, V) =
             RelaxBudget(RelaxConcurrent(RelaxNotReach(RelaxPassThrough(
                 RelaxLayering(p, ByRule(V, "layering")), ByRule(V, "must_pass_through")), g,
                 ByRule(V, "must_not_reach")), ByRule(V, "no_concurrent_reach")), ByRule(V, "io_budget"))
BY DEF Relax, ByRule

(* Relaxing touches no allow-list of the ratchets, and brings no layering  *)
(* back that was withdrawn.                                                *)
LEMMA RelaxKeeps ==
    ASSUME NEW p, Row(p), NEW g, NEW V
    PROVE  LET r == Relax(p, g, V)
           IN  /\ Row(r)
               /\ r.spotAllow = p.spotAllow /\ r.effectAllow = p.effectAllow
               /\ p.layered # TRUE /\ ByRule(V, "layering") = {} => r.layered # TRUE
<1> DEFINE Same(x, y) == /\ Row(y)
                         /\ y.spotAllow = x.spotAllow /\ y.effectAllow = x.effectAllow
           Kept(x, y) == Row(y) /\ \A c \in {"spotAllow", "effectAllow", "layered"} : y[c] = x[c]
<1>1. ASSUME NEW x, Row(x), NEW F
      PROVE  /\ Same(x, RelaxLayering(x, F))
             /\ x.layered # TRUE /\ F = {} => RelaxLayering(x, F).layered # TRUE
             /\ Kept(x, RelaxPassThrough(x, F))
             /\ Kept(x, RelaxNotReach(x, g, F))
             /\ Kept(x, RelaxConcurrent(x, F))
             /\ Kept(x, RelaxBudget(x, F))
  <2>1. \A v : Kept(x, [x EXCEPT !.pass = v]) /\ Kept(x, [x EXCEPT !.reach = v])
               /\ Kept(x, [x EXCEPT !.conc = v]) /\ Kept(x, [x EXCEPT !.budget = v]) /\ Kept(x, x)
    BY <1>1 DEF Columns, Row
  <2>2. Kept(x, RelaxPassThrough(x, F))
    <3> DEFINE v == [x.pass EXCEPT ![1].allow = @ \cup {EntryFor(f) : f \in F}]
    <3>1. [x EXCEPT !.pass[1].allow = @ \cup {EntryFor(f) : f \in F}] = [x EXCEPT !.pass = v]
      BY <1>1 DEF Columns, Row
    <3> HIDE DEF v, Kept
    <3> QED
      BY <2>1, <3>1 DEF RelaxPassThrough
  <2>3. Kept(x, RelaxNotReach(x, g, F))
    <3> DEFINE owned(s) == \E f \in F : f.from \in BindSources(g, {s})
               v == [x.reach EXCEPT ![1].from = {s \in @ : ~owned(s)}]
    <3>1. [x EXCEPT !.reach[1].from = {s \in @ : ~owned(s)}] = [x EXCEPT !.reach = v]
      BY <1>1 DEF Columns, Row
    <3>2. RelaxNotReach(x, g, F) \in {x, [x EXCEPT !.reach = <<>>], [x EXCEPT !.reach[1].from = {s \in @ : ~owned(s)}]}
      BY DEF RelaxNotReach
    <3> HIDE DEF v, Kept, owned
    <3> QED
      BY <2>1, <3>1, <3>2
  <2>4. Kept(x, RelaxConcurrent(x, F))
    <3> HIDE DEF Kept
    <3> QED
      BY <2>1 DEF RelaxConcurrent
  <2>5. Kept(x, RelaxBudget(x, F))
    <3> DEFINE v == [x.budget EXCEPT !.max = @ + Cardinality(F)]
    <3>1. [x EXCEPT !.budget.max = @ + Cardinality(F)] = [x EXCEPT !.budget = v]
      BY <1>1 DEF Columns, Row
    <3> HIDE DEF v, Kept
    <3> QED
      BY <2>1, <3>1 DEF RelaxBudget
  <2>6. /\ Same(x, RelaxLayering(x, F))
        /\ x.layered # TRUE /\ F = {} => RelaxLayering(x, F).layered # TRUE
    BY <1>1 DEF RelaxLayering, Fits, Columns, Row
  <2> QED
    BY <2>2, <2>3, <2>4, <2>5, <2>6
<1> DEFINE a == RelaxLayering(p, ByRule(V, "layering"))
           b == RelaxPassThrough(a, ByRule(V, "must_pass_through"))
           c1 == RelaxNotReach(b, g, ByRule(V, "must_not_reach"))
           d == RelaxConcurrent(c1, ByRule(V, "no_concurrent_reach"))
           e == RelaxBudget(d, ByRule(V, "io_budget"))
<1>2. Same(p, a) /\ (p.layered # TRUE /\ ByRule(V, "layering") = {} => a.layered # TRUE)
  BY <1>1
<1> HIDE DEF a
<1>3. Kept(a, b)
  BY <1>1, <1>2
<1> HIDE DEF b
<1>4. Kept(b, c1)
  BY <1>1, <1>3
<1> HIDE DEF c1
<1>5. Kept(c1, d)
  BY <1>1, <1>4
<1> HIDE DEF d
<1>6. Kept(d, e)
  BY <1>1, <1>5
<1>7. e = Relax(p, g, V)
  BY RelaxIs DEF a, b, c1, d
<1> HIDE DEF e
<1> QED
  BY <1>2, <1>3, <1>4, <1>5, <1>6, <1>7

(* Where only layers are crossed, only the layering is relaxed. *)
LEMMA RelaxLayersOnly ==
    ASSUME NEW p, Formed(p), NEW g, NEW V, \A f \in V : f.rule \in {"layering", "obligation"}
    PROVE  Relax(p, g, V) = RelaxLayering(p, ByRule(V, "layering"))
<1> DEFINE r == RelaxLayering(p, ByRule(V, "layering"))
<1>1. \A rule \in {"must_pass_through", "must_not_reach", "no_concurrent_reach", "io_budget"} : ByRule(V, rule) = {}
  BY DEF ByRule
<1>2. Row(r) /\ r.budget = p.budget
  BY DEF RelaxLayering, Formed, Columns, Row
<1> HIDE DEF r
<1>3. RelaxPassThrough(r, {}) = r /\ RelaxNotReach(r, g, {}) = r /\ RelaxConcurrent(r, {}) = r
  BY DEF RelaxPassThrough, RelaxNotReach, RelaxConcurrent
<1>4. RelaxBudget(r, {}) = r
  <2>1. RelaxBudget(r, {}) = [r EXCEPT !.budget.max = @ + 0]
    BY FS_EmptySet DEF RelaxBudget
  <2>2. [r.budget EXCEPT !.max = @ + 0] = r.budget
    <3> DEFINE b == r.budget
    <3>1. b = [set |-> TRUE, max |-> b.max] /\ b.max \in Nat
      BY <1>2 DEF Formed
    <3> HIDE DEF b
    <3>2. b.max + 0 = b.max
      BY <3>1
    <3>3. [b EXCEPT !.max = b.max] = b
      BY <3>1
    <3>4. [b EXCEPT !.max = b.max + 0] = b
      BY <3>2, <3>3
    <3> QED
      BY <3>4 DEF b
  <2>3. [r EXCEPT !.budget.max = @ + 0] = [r EXCEPT !.budget = [r.budget EXCEPT !.max = @ + 0]]
    BY <1>2 DEF Columns, Row
  <2>4. [r EXCEPT !.budget = r.budget] = r
    BY <1>2 DEF Columns, Row
  <2> QED
    BY <2>1, <2>2, <2>3, <2>4
<1> QED
  BY <1>1, <1>3, <1>4, RelaxIs DEF r

(* A pass without a violation but of an obligation changes nothing. *)
LEMMA RelaxNothing ==
    ASSUME NEW p, Formed(p), NEW g, OnlyObligations(p, g)
    PROVE  Relax(p, g, ViolationsOf(Check(p, g))) = p
<1> DEFINE V == ViolationsOf(Check(p, g))
<1>1. \A f \in V : f.rule = "obligation"
  BY DEF OnlyObligations
<1> HIDE DEF V
<1>2. Relax(p, g, V) = RelaxLayering(p, ByRule(V, "layering"))
  BY <1>1, RelaxLayersOnly
<1>3. ByRule(V, "layering") = {}
  BY <1>1 DEF ByRule
<1>4. RelaxLayering(p, {}) = [p EXCEPT !.layerAllow = @ \cup {EntryFor(f) : f \in {}}]
  BY DEF RelaxLayering, Fits
<1>5. [p EXCEPT !.layerAllow = @ \cup {EntryFor(f) : f \in {}}] = p
  <2>1. p.layerAllow \cup {EntryFor(f) : f \in {}} = p.layerAllow
    OBVIOUS
  <2> HIDE DEF EntryFor
  <2> QED
    BY <2>1 DEF Formed, Columns, Row
<1> QED
  BY <1>2, <1>3, <1>4, <1>5 DEF V

(* The rules but for the layering say the same of the same routes. *)
LEMMA MetKept ==
    ASSUME NEW p, NEW q, NEW g, Formed(p), MetBy(p, g),
           q.reach = p.reach, q.pass = p.pass, q.conc = p.conc, q.budget = p.budget,
           \A f : IsRoute(q, g, f) <=> IsRoute(p, g, f)
    PROVE  MetBy(q, g)
<1>1. p.budget.set = TRUE /\ q.budget.set = TRUE
  BY DEF Formed
<1>2. Clean(CheckIOBudget(p, g))
  BY DEF MetBy
<1>3. \A f \in g.nodes : IsRoute(p, g, f) => ~(Cardinality(WritesOf(g, f)) > p.budget.max)
  BY <1>1, <1>2, BudgetClean
<1>4. \A f \in g.nodes : IsRoute(q, g, f) => ~(Cardinality(WritesOf(g, f)) > q.budget.max)
  BY <1>3
<1>5. Clean(CheckIOBudget(q, g))
  BY <1>1, <1>4, BudgetClean
<1> QED
  BY <1>5 DEF MetBy

(* The layers of a proposal: measured with the roots of the graph, or none. *)
LayersOf(p, g) ==
    /\ p.layerAllow = {}
    /\ p.layered = FALSE \/ (p.layered = TRUE /\ p.roots = RootPackages(g))

(* After the first pass only an obligation is violated, or the layering was *)
(* withdrawn together with roots that were inferred.                        *)
LEMMA FirstPass ==
    ASSUME NEW g, Named(g), NEW q, Formed(q), MetBy(q, g), LayersOf(q, g)
    PROVE  LET r == Relax(q, g, ViolationsOf(Check(q, g)))
           IN  Withdrawn(r, g) \/ (Formed(r) /\ OnlyObligations(r, g))
<1> DEFINE V == ViolationsOf(Check(q, g))
           F == ByRule(V, "layering")
           r == RelaxLayering(q, F)
<1>1. \A f \in V : f.rule \in {"layering", "obligation"}
  <2> SUFFICES ASSUME NEW f \in Check(q, g), f.sev = Violation
               PROVE  f.rule \in {"layering", "obligation"}
    BY DEF ViolationsOf
  <2>1. CASE f \in CheckLayering(q, g)
    BY <2>1, RuleOfTheRest DEF OfRule
  <2>2. CASE f \in CheckObligations(g)
    BY <2>2, RuleOfTheRest DEF OfRule
  <2>3. CASE f \in CheckRatchetCoupling(q)
    BY <2>3, CautionIsNone DEF CheckRatchetCoupling
  <2>4. /\ \A i \in DOMAIN q.reach : f \notin CheckMustNotReach(q.reach[i], g)
        /\ \A i \in DOMAIN q.pass : f \notin CheckMustPassThrough(q.pass[i], g)
        /\ \A i \in DOMAIN q.conc : f \notin CheckNoConcurrentReach(q.conc[i], g)
        /\ f \notin CheckIOBudget(q, g)
    BY DEF MetBy, Clean
  <2> QED
    BY <2>1, <2>2, <2>3, <2>4 DEF Check
<1>2. Relax(q, g, V) = r
  BY <1>1, RelaxLayersOnly
<1>3. /\ Row(r)
      /\ r.reach = q.reach /\ r.pass = q.pass /\ r.conc = q.conc /\ r.budget = q.budget
      /\ \/ Fits(q.layerAllow, F) /\ r.layered = q.layered /\ r.roots = q.roots /\ r.layers = q.layers
              /\ r.layerAllow = q.layerAllow \cup {EntryFor(f) : f \in F}
         \/ ~Fits(q.layerAllow, F) /\ r.layered = FALSE
  BY DEF RelaxLayering, Formed, Columns, Row
<1>4. Formed(r)
  BY <1>3 DEF Formed
<1>5. \A f \in F : f \in CheckLayering(q, g)
  <2> SUFFICES ASSUME NEW f \in F PROVE f \in CheckLayering(q, g)
    OBVIOUS
  <2>1. f \in Check(q, g) /\ f.rule = "layering"
    BY DEF ByRule, ViolationsOf
  <2> QED
    BY <2>1, FoundByItsRule
<1>6. \A f \in CheckLayering(q, g) : f \in F
  <2> SUFFICES ASSUME NEW f \in CheckLayering(q, g) PROVE f \in F
    OBVIOUS
  <2>1. f.sev = Violation
    <3>1. PICK e : f = EdgeFinding(e)
      BY LayeringShape
    <3> QED
      BY <3>1 DEF EdgeFinding, Finding
  <2>2. f.rule = "layering"
    BY RuleOfTheRest DEF OfRule
  <2> QED
    BY <2>1, <2>2 DEF ByRule, ViolationsOf, Check
<1>7. CASE Fits(q.layerAllow, F) /\ r.layered = q.layered /\ r.roots = q.roots /\ r.layers = q.layers
             /\ r.layerAllow = q.layerAllow \cup {EntryFor(f) : f \in F}
  <2>1. \A f : IsRoute(r, g, f) <=> IsRoute(q, g, f)
    <3> HIDE DEF r
    <3> QED
      BY <1>7 DEF IsRoute
  <2>2. MetBy(r, g)
    <3> HIDE DEF r
    <3> QED
      BY <1>3, <2>1, MetKept
  <2>3. CheckLayering(r, g) = {}
    <3> SUFFICES ASSUME q.layered,
                        NEW e \in g.nodes \X g.nodes, WrongEdge(r, g, e), ~Allowed(r.layerAllow, e[1], e[2])
                 PROVE  FALSE
      <4> HIDE DEF r
      <4> QED
        BY <1>7, LayeringShape
    <3> HIDE DEF r, F
    <3>1. WrongEdge(q, g, e)
      BY <1>7, SameLayers
    <3>2. ~Allowed(q.layerAllow, e[1], e[2])
      BY DEF LayersOf, Allowed
    <3>3. EdgeFinding(e) \in CheckLayering(q, g)
      BY <3>1, <3>2, LayeringShape
    <3>4. EntryFor(EdgeFinding(e)) \in r.layerAllow
      BY <1>6, <1>7, <3>3
    <3>5. EdgeFinding(e).from = e[1] /\ EdgeFinding(e).to = e[2]
      BY DEF EdgeFinding, Finding
    <3>6. e[1] \in Functions /\ e[2] \in Functions
      BY DEF Named
    <3>7. e[1] \in EntryFor(EdgeFinding(e)).from /\ e[2] \in EntryFor(EdgeFinding(e)).to
      BY <3>5, <3>6, SelectorsOK DEF EntryFor
    <3> QED
      BY <3>4, <3>7 DEF Allowed
  <2>4. OnlyObligations(r, g)
    <3> HIDE DEF r
    <3> QED
      BY <2>2, <2>3, OnlyObligationsMeans DEF MetBy, Clean
  <2> QED
    BY <1>2, <1>4, <2>4
<1>8. CASE ~Fits(q.layerAllow, F) /\ r.layered = FALSE
  <2>1. CASE g.roots = {} /\ g.mains # {}
    BY <1>2, <1>8, <2>1 DEF Withdrawn
  <2>2. CASE g.roots # {} \/ g.mains = {}
    <3>1. RootPackages(g) = g.roots
      BY <2>2 DEF RootPackages
    <3>2. \A f : IsRoute(r, g, f) <=> IsRoute(q, g, f)
      <4> HIDE DEF r
      <4> QED
        BY <1>8, <3>1 DEF IsRoute, LayersOf
    <3>3. MetBy(r, g)
      <4> HIDE DEF r
      <4> QED
        BY <1>3, <3>2, MetKept
    <3>4. CheckLayering(r, g) = {}
      BY <1>8 DEF CheckLayering
    <3>5. OnlyObligations(r, g)
      <4> HIDE DEF r
      <4> QED
        BY <3>3, <3>4, OnlyObligationsMeans DEF MetBy, Clean
    <3> QED
      BY <1>2, <1>4, <3>5
  <2> QED
    BY <2>1, <2>2
<1> QED
  BY <1>3, <1>7, <1>8

(* A withdrawn layering stays withdrawn. *)
LEMMA WithdrawnStays ==
    ASSUME NEW p, Row(p), NEW g, Withdrawn(p, g)
    PROVE  Withdrawn(Relax(p, g, ViolationsOf(Check(p, g))), g)
<1> DEFINE V == ViolationsOf(Check(p, g))
<1>1. p.layered # TRUE
  BY DEF Withdrawn
<1>2. ByRule(V, "layering") = {}
  <2> SUFFICES ASSUME NEW f \in Check(p, g), f.rule = "layering" PROVE FALSE
    BY DEF ByRule, ViolationsOf
  <2>1. f \in CheckLayering(p, g)
    BY FoundByItsRule
  <2> QED
    BY <2>1 DEF CheckLayering, Withdrawn
<1> HIDE DEF V
<1>3. Relax(p, g, V).layered # TRUE
  BY <1>1, <1>2, RelaxKeeps
<1> QED
  BY <1>3 DEF Withdrawn, V

(* What the three passes leave: only obligations are violated, or roots    *)
(* that were inferred are gone with their layers.                          *)
LEMMA Reconciled ==
    ASSUME NEW g, Named(g), NEW q, Formed(q), MetBy(q, g), LayersOf(q, g)
    PROVE  LET p == ReconcilePolicy(q, g).policy
           IN  /\ p.spotAllow = q.spotAllow /\ p.effectAllow = q.effectAllow
               /\ Withdrawn(p, g) \/ (Formed(p) /\ OnlyObligations(p, g))
<1> DEFINE next(x) == Relax(x, g, ViolationsOf(Check(x, g)))
<1>1. ReconcilePolicy(q, g).policy = next(next(next(q)))
  BY DEF ReconcilePolicy
<1>2. ASSUME NEW x, Row(x)
      PROVE  /\ Row(next(x))
             /\ next(x).spotAllow = x.spotAllow /\ next(x).effectAllow = x.effectAllow
  <2> DEFINE V == ViolationsOf(Check(x, g))
  <2> HIDE DEF V
  <2> DEFINE r == Relax(x, g, V)
  <2>1. Row(r) /\ r.spotAllow = x.spotAllow /\ r.effectAllow = x.effectAllow
    BY <1>2, RelaxKeeps
  <2>2. next(x) = r
    BY DEF V
  <2> HIDE DEF next, r
  <2> QED
    BY <2>1, <2>2
<1> DEFINE Settled(x) == Withdrawn(x, g) \/ (Formed(x) /\ OnlyObligations(x, g))
<1>3. ASSUME NEW x, Row(x), Settled(x)
      PROVE  Settled(next(x))
  <2>1. CASE Withdrawn(x, g)
    BY <1>3, <2>1, WithdrawnStays
  <2>2. CASE Formed(x) /\ OnlyObligations(x, g)
    <3>1. next(x) = x
      BY <2>2, RelaxNothing
    <3> QED
      BY <2>2, <3>1
  <2> QED
    BY <1>3, <2>1, <2>2
<1>4. Row(q) /\ Settled(next(q))
  BY FirstPass DEF Formed
<1> HIDE DEF next, Settled
<1>5. /\ Row(next(q))
      /\ next(q).spotAllow = q.spotAllow /\ next(q).effectAllow = q.effectAllow
  BY <1>2, <1>4
<1> DEFINE q1 == next(q)
           q2 == next(q1)
<1>6. /\ Row(q2) /\ Settled(q2)
      /\ q2.spotAllow = q.spotAllow /\ q2.effectAllow = q.effectAllow
  BY <1>2, <1>3, <1>4, <1>5
<1> HIDE DEF q1, q2
<1>7. Settled(next(q2)) /\ next(q2).spotAllow = q.spotAllow /\ next(q2).effectAllow = q.effectAllow
  BY <1>2, <1>3, <1>6
<1>8. ReconcilePolicy(q, g).policy = next(q2)
  BY <1>1 DEF q1, q2
<1> QED
  BY <1>7, <1>8 DEF Settled

-----------------------------------------------------------------------------
(* The proposal, rule by rule.                                             *)

(* Layers, with the roots of the graph, or none. *)
LEMMA LayersProposed ==
    ASSUME NEW g, NEW service
    PROVE  LET p == ProposeLayers(Blank(g, service), g)
           IN  Row(p) /\ LayersOf(p, g) /\ p.reach = <<>> /\ p.pass = <<>> /\ p.conc = <<>>
<1> DEFINE b == Blank(g, service)
<1>1. PICK v : ProposeLayers(b, g) \in {b, [b EXCEPT !.layered = TRUE, !.roots = RootPackages(g), !.layers = v]}
  <2> HIDE DEF b
  <2> QED
    BY DEF ProposeLayers
<1>2. /\ Row(b) /\ b.layered = FALSE /\ b.layerAllow = {} /\ b.reach = <<>> /\ b.pass = <<>> /\ b.conc = <<>>
  BY DEF Blank, Row, Columns
<1> HIDE DEF b
<1> DEFINE q == [b EXCEPT !.layered = TRUE, !.roots = RootPackages(g), !.layers = v]
<1>3. /\ Row(q) /\ q.layered = TRUE /\ q.roots = RootPackages(g) /\ q.layerAllow = {}
      /\ q.reach = <<>> /\ q.pass = <<>> /\ q.conc = <<>>
  BY <1>2 DEF Row, Columns
<1> HIDE DEF q
<1>4. \A p \in {b, q} : Row(p) /\ LayersOf(p, g) /\ p.reach = <<>> /\ p.pass = <<>> /\ p.conc = <<>>
  BY <1>2, <1>3 DEF LayersOf
<1> QED
  BY <1>1, <1>4 DEF b, q

(* A waypoint that guards every write, or none. *)
LEMMA WaypointProposed ==
    ASSUME NEW g, Named(g), NEW p, Row(p), p.pass = <<>>
    PROVE  LET q == ProposeWaypoint(p, g)
           IN  /\ Row(q) /\ \A c \in Columns \ {"pass"} : q[c] = p[c]
               /\ \A i \in DOMAIN q.pass : Clean(CheckMustPassThrough(q.pass[i], g))
<1> DEFINE writers == {e.from : e \in {d \in g.edges : DBWrite(d)}}
           candidate(f) == IF TypeOf[f] # "" /\ GuardsAll(g, TypeOf[f]) THEN TypeOf[f] ELSE NameOf[f]
           guards == {f \in g.nodes \ (writers \cup SourcesOf(g)) : GuardsAll(g, candidate(f))}
           w == candidate(Min(guards))
           rule == [name |-> "baseline-guards-db-writes", from |-> {EntrypointSelector},
                    to |-> DBWrites, through |-> {w}, allow |-> {}, proof |-> FALSE]
           q == ProposeWaypoint(p, g)
<1>1. q = IF writers = {} \/ guards = {} THEN p ELSE [p EXCEPT !.pass = <<rule>>]
  BY DEF ProposeWaypoint
<1>2. CASE writers = {} \/ guards = {}
  <2> HIDE DEF writers, guards, w, rule, q
  <2>1. q = p
    BY <1>1, <1>2
  <2> QED
    BY <2>1 DEF q
<1>3. CASE ~(writers = {} \/ guards = {})
  <2>1. guards \in SUBSET Nat
    BY NamesOK DEF Named
  <2>2. Min(guards) \in guards
    <3> HIDE DEF guards
    <3> QED
      BY <1>3, <2>1, MinIn
  <2>3. GuardsAll(g, w) /\ Min(guards) \in Functions
    BY <2>2 DEF Named
  <2>4. w # EntrypointSelector
    <3> HIDE DEF guards
    <3> QED
      BY <2>3, SelectorsOK
  <2> HIDE DEF w
  <2>5. Clean(CheckMustPassThrough(rule, g))
    <3>1. rule.proof = FALSE /\ rule.from = {EntrypointSelector} /\ rule.to = DBWrites /\ rule.through = {w}
      OBVIOUS
    <3> HIDE DEF rule
    <3> QED
      BY <2>3, <2>4, <3>1, WaypointRule
  <2> HIDE DEF writers, guards, rule, q
  <2>6. q = [p EXCEPT !.pass = <<rule>>]
    BY <1>1, <1>3
  <2>7. Row(q) /\ q.pass = <<rule>> /\ \A c \in Columns \ {"pass"} : q[c] = p[c]
    BY <2>6 DEF Row, Columns
  <2>8. \A i \in DOMAIN q.pass : q.pass[i] = rule
    BY <2>7
  <2> QED
    BY <2>5, <2>7, <2>8 DEF q
<1> QED
  BY <1>2, <1>3

(* Routes that reach no write, by the name the gate will bind. *)
LEMMA ReadOnlyProposed ==
    ASSUME NEW g, Named(g), NEW p, Row(p), p.reach = <<>>
    PROVE  LET q == ProposeReadOnly(p, g)
           IN  /\ Row(q) /\ \A c \in Columns \ {"reach"} : q[c] = p[c]
               /\ \A i \in DOMAIN q.reach : /\ q.reach[i].proof = FALSE
                                            /\ q.reach[i].to = DBWrites \cup {BusPublish}
                                            /\ Clean(CheckMustNotReach(q.reach[i], g))
<1> DEFINE to == DBWrites \cup {BusPublish}
           readOnly == {f \in RoutesOf(p, g) : (\A e \in ReadOnlyEffects(g, f) : ~IsWrite(e.to))
                                                /\ OpaqueEffects(ReadOnlyEffects(g, f)) = {}}
           rule == [name |-> "read-routes-stay-read-only", from |-> {NameOf[f] : f \in readOnly}, to |-> to, proof |-> FALSE]
           q == ProposeReadOnly(p, g)
<1>1. q = IF readOnly = {} \/ BindTargets(g, to) = {} THEN p ELSE [p EXCEPT !.reach = <<rule>>]
  BY DEF ProposeReadOnly, ProposeReadOnlyOver
<1>2. CASE q = p
  BY <1>2
<1>3. CASE q = [p EXCEPT !.reach = <<rule>>]
  <2>1. \A f \in readOnly : f \in Functions /\ \A e \in ReadOnlyEffects(g, f) : ~IsWrite(e.to)
    BY DEF RoutesOf, Named
  <2>2. rule.proof = FALSE /\ rule.to = to /\ rule.from = {NameOf[f] : f \in readOnly}
    OBVIOUS
  <2> HIDE DEF readOnly, rule, q
  <2>3. ASSUME NEW s \in BindSources(g, rule.from), NEW e \in Effects(g, WithReached(g, {s}))
        PROVE  ~IsWrite(e.to)
    <3>1. PICK f \in readOnly : s \in BindSources(g, {NameOf[f]})
      BY <2>2, <2>3 DEF BindSources
    <3>2. BindSources(g, {NameOf[f]}) \in SUBSET g.nodes
      BY SourcesAreNodes
    <3>3. WithReached(g, {s}) \subseteq WithReached(g, BindSources(g, {NameOf[f]}))
      BY <3>1, <3>2, WalkMore
    <3>4. e \in ReadOnlyEffects(g, f)
      BY <2>3, <3>3 DEF ReadOnlyEffects, Effects
    <3> QED
      BY <2>1, <3>1, <3>4
  <2>4. Clean(CheckMustNotReach(rule, g))
    BY <2>2, <2>3, ReachRule
  <2>5. Row(q) /\ q.reach = <<rule>> /\ \A c \in Columns \ {"reach"} : q[c] = p[c]
    BY <1>3 DEF Row, Columns
  <2>6. \A i \in DOMAIN q.reach : q.reach[i] = rule
    BY <2>5
  <2> QED
    BY <2>2, <2>4, <2>5, <2>6 DEF q
<1> HIDE DEF q, rule, readOnly
<1> QED
  BY <1>1, <1>2, <1>3

(* No write of the database in a goroutine, where there is none. *)
LEMMA ConcurrentProposed ==
    ASSUME NEW g, Named(g), Loadable(g), NEW p, Row(p), p.conc = <<>>
    PROVE  LET q == ProposeConcurrent(p, g)
           IN  /\ Row(q) /\ \A c \in Columns \ {"conc"} : q[c] = p[c]
               /\ q.conc # <<>> => 1 \in DOMAIN q.conc
               /\ \A i \in DOMAIN q.conc : /\ q.conc[i].proof = FALSE /\ q.conc[i].to = DBWrites
                                           /\ Clean(CheckNoConcurrentReach(q.conc[i], g))
<1> DEFINE rule == [name |-> "no-concurrent-db-writes", to |-> DBWrites, proof |-> FALSE]
           q == ProposeConcurrent(p, g)
<1>1. \/ q = p
      \/ q = [p EXCEPT !.conc = <<rule>>] /\ \A e \in ConcurrentEffects(g) : ~DBWrite(e)
  BY DEF ProposeConcurrent
<1>2. rule.proof = FALSE /\ rule.to = DBWrites
  OBVIOUS
<1> HIDE DEF q, rule
<1>3. CASE q = p
  BY <1>3 DEF q
<1>4. CASE q = [p EXCEPT !.conc = <<rule>>] /\ \A e \in ConcurrentEffects(g) : ~DBWrite(e)
  <2>1. Clean(CheckNoConcurrentReach(rule, g))
    BY <1>2, <1>4, ConcurrentRule
  <2>2. Row(q) /\ q.conc = <<rule>> /\ \A c \in Columns \ {"conc"} : q[c] = p[c]
    BY <1>4 DEF Row, Columns
  <2>3. DOMAIN q.conc = {1} /\ q.conc[1] = rule
    BY <2>2
  <2> QED
    BY <1>2, <2>1, <2>2, <2>3 DEF q
<1> QED
  BY <1>1, <1>3, <1>4

(* The budget is what the busiest route writes. *)
LEMMA BudgetProposed ==
    ASSUME NEW g, Named(g), NEW p, Row(p)
    PROVE  LET q == ProposeBudget(p, g)
           IN  /\ Row(q) /\ \A c \in Columns \ {"budget"} : q[c] = p[c]
               /\ q.budget = [set |-> TRUE, max |-> q.budget.max] /\ q.budget.max \in Nat
               /\ Clean(CheckIOBudget(q, g))
<1> DEFINE writes(f) == {e.to : e \in {d \in Effects(g, WithReached(g, {f})) : IsWrite(d.to)}}
           S == {0} \cup {Cardinality(writes(f)) : f \in RoutesOf(p, g)}
           q == ProposeBudget(p, g)
<1>1. q = [p EXCEPT !.budget = [set |-> TRUE, max |-> Max(S)]]
  BY DEF ProposeBudget
<1>2. ASSUME NEW f
      PROVE  /\ writes(f) = WritesOf(g, f)
             /\ Cardinality(writes(f)) \in Nat /\ Cardinality(writes(f)) <= Cardinality(Labels)
  <2>1. writes(f) = WritesOf(g, f)
    BY DEF WritesOf
  <2>2. writes(f) \in SUBSET Labels
    BY DEF Effects, IsBoundary
  <2> HIDE DEF writes
  <2>3. IsFiniteSet(writes(f)) /\ Cardinality(writes(f)) <= Cardinality(Labels)
    BY <2>2, NamesOK, FS_Subset
  <2> QED
    BY <2>1, <2>3, FS_CardinalityType
<1>3. Cardinality(Labels) \in Nat
  BY NamesOK, FS_CardinalityType
<1> HIDE DEF writes
<1>4. S \in SUBSET Nat /\ S # {} /\ \A x \in S : x <= Cardinality(Labels)
  BY <1>2, <1>3
<1>5. \A f \in RoutesOf(p, g) : Cardinality(writes(f)) \in S
  OBVIOUS
<1> HIDE DEF S
<1>6. Max(S) \in S /\ \A x \in S : x <= Max(S)
  BY <1>3, <1>4, MaxIn
<1> DEFINE b == [set |-> TRUE, max |-> Max(S)]
<1>7. b.set = TRUE /\ b.max = Max(S) /\ b = [set |-> TRUE, max |-> b.max]
  OBVIOUS
<1> HIDE DEF b, q
<1>8. Row(q) /\ q.budget = b /\ \A c \in Columns \ {"budget"} : q[c] = p[c]
  BY <1>1 DEF Row, Columns, b
<1>9. q.budget.max \in Nat
  BY <1>4, <1>6, <1>7, <1>8
<1>10. ASSUME NEW f \in g.nodes, IsRoute(q, g, f)
       PROVE  ~(Cardinality(WritesOf(g, f)) > q.budget.max)
  <2>1. q.layered = p.layered /\ q.roots = p.roots
    BY <1>8 DEF Columns
  <2>2. f \in RoutesOf(p, g)
    BY <1>10, <2>1 DEF RoutesOf, IsRoute
  <2>3. Cardinality(writes(f)) <= Max(S) /\ Cardinality(writes(f)) \in Nat /\ Max(S) \in Nat
    BY <1>2, <1>4, <1>5, <1>6, <2>2
  <2>4. Cardinality(WritesOf(g, f)) <= q.budget.max
    BY <1>2, <1>7, <1>8, <2>3
  <2> QED
    BY <1>2, <1>9, <2>3, <2>4
<1>11. Clean(CheckIOBudget(q, g))
  BY <1>7, <1>8, <1>10, BudgetClean
<1> QED
  BY <1>7, <1>8, <1>9, <1>11 DEF q

(* What init proposes meets the graph it was measured on, but for crossed  *)
(* layers, and allows the blind spots and the writes there are.            *)
LEMMA ProposedRules ==
    ASSUME NEW g, Named(g), Loadable(g), NEW p, Row(p), LayersOf(p, g),
           p.pass = <<>>, p.reach = <<>>, p.conc = <<>>
    PROVE  LET q == ProposeRules(p, g)
           IN  /\ Formed(q) /\ MetBy(q, g) /\ LayersOf(q, g)
               /\ q.spotAllow = {[kind |-> b.kind, sites |-> {b.site}] : b \in g.spots}
               /\ q.effectAllow = {{l} : l \in WriteTargets(g)}
<1> DEFINE a == ProposeWaypoint(p, g)
           b == ProposeReadOnly(a, g)
           c1 == ProposeConcurrent(b, g)
           d == ProposeBudget(c1, g)
           s == ProposeRatchet(d, g)
           q == ProposeEffectRatchet(s, g)
<1>1. /\ Row(a) /\ \A c \in Columns \ {"pass"} : a[c] = p[c]
      /\ \A i \in DOMAIN a.pass : Clean(CheckMustPassThrough(a.pass[i], g))
  BY WaypointProposed
<1> HIDE DEF a
<1>2. a.reach = <<>>
  BY <1>1 DEF Columns
<1>3. /\ Row(b) /\ \A c \in Columns \ {"reach"} : b[c] = a[c]
      /\ \A i \in DOMAIN b.reach : /\ b.reach[i].proof = FALSE
                                   /\ b.reach[i].to = DBWrites \cup {BusPublish}
                                   /\ Clean(CheckMustNotReach(b.reach[i], g))
  BY <1>1, <1>2, ReadOnlyProposed
<1> HIDE DEF b
<1>4. b.conc = <<>> /\ b.pass = a.pass
  BY <1>1, <1>3 DEF Columns
<1>5. /\ Row(c1) /\ \A c \in Columns \ {"conc"} : c1[c] = b[c]
      /\ c1.conc # <<>> => 1 \in DOMAIN c1.conc
      /\ \A i \in DOMAIN c1.conc : /\ c1.conc[i].proof = FALSE /\ c1.conc[i].to = DBWrites
                                   /\ Clean(CheckNoConcurrentReach(c1.conc[i], g))
  BY <1>3, <1>4, ConcurrentProposed
<1> HIDE DEF c1
<1>6. /\ Row(d) /\ \A c \in Columns \ {"budget"} : d[c] = c1[c]
      /\ d.budget = [set |-> TRUE, max |-> d.budget.max] /\ d.budget.max \in Nat
      /\ Clean(CheckIOBudget(d, g))
  BY <1>5, BudgetProposed
<1> HIDE DEF d
<1> DEFINE spots == {[kind |-> x.kind, sites |-> {x.site}] : x \in g.spots}
           writes == {{l} : l \in WriteTargets(g)}
<1>7. s = [d EXCEPT !.spotRatchet = TRUE, !.spotAllow = spots]
  BY DEF ProposeRatchet
<1>8. q = [s EXCEPT !.effectRatchet = TRUE, !.effectAllow = writes]
  BY DEF ProposeEffectRatchet
<1>9. q = ProposeRules(p, g)
  BY DEF ProposeRules, a, b, c1, d
<1> HIDE DEF s, q, spots, writes
<1>10. /\ Row(s) /\ s.spotAllow = spots
       /\ \A c \in Columns \ {"spotRatchet", "spotAllow"} : s[c] = d[c]
  BY <1>6, <1>7 DEF Row, Columns
<1>11. /\ Row(q) /\ q.spotAllow = spots /\ q.effectAllow = writes
       /\ \A c \in {"layers", "layered", "layerAllow", "roots", "reach", "pass", "conc", "budget"} : q[c] = d[c]
  BY <1>8, <1>10 DEF Row, Columns
<1>12. /\ q.reach = b.reach /\ q.pass = a.pass /\ q.conc = c1.conc /\ q.budget = d.budget
       /\ q.layerAllow = p.layerAllow /\ q.layered = p.layered /\ q.roots = p.roots
       /\ d.layered = q.layered /\ d.roots = q.roots
  BY <1>1, <1>3, <1>4, <1>5, <1>6, <1>11 DEF Columns
<1>13. LayersOf(q, g)
  BY <1>12 DEF LayersOf
<1>14. Formed(q)
  BY <1>3, <1>5, <1>6, <1>11, <1>12 DEF Formed
<1>15. Clean(CheckIOBudget(q, g))
  <2>1. \A f : IsRoute(q, g, f) <=> IsRoute(d, g, f)
    BY <1>12 DEF IsRoute
  <2>2. q.budget.set = TRUE /\ d.budget.set = TRUE
    BY <1>6, <1>12
  <2> QED
    BY <1>6, <1>12, <2>1, <2>2, BudgetClean
<1>16. MetBy(q, g)
  BY <1>1, <1>3, <1>5, <1>12, <1>15 DEF MetBy
<1> QED
  BY <1>9, <1>11, <1>13, <1>14, <1>16 DEF spots, writes
-----------------------------------------------------------------------------
(* What init hands over.                                                   *)

(* The policy that init proposes allows what there is, and is violated by  *)
(* nothing but obligations, or lost its inferred roots.                    *)
LEMMA Proposed ==
    ASSUME NEW g, Named(g), Loadable(g), NEW service
    PROVE  LET r == Proposal(g, service)
           IN  /\ r.policy.spotAllow = {[kind |-> b.kind, sites |-> {b.site}] : b \in g.spots}
               /\ r.policy.effectAllow = {{l} : l \in WriteTargets(g)}
               /\ Withdrawn(r.policy, g) \/ (Formed(r.policy) /\ OnlyObligations(r.policy, g))
               /\ r.opaque = Closing(r.policy, g)
<1> DEFINE p == ProposeLayers(Blank(g, service), g)
           q == ProposeRules(p, g)
           z == ReconcilePolicy(q, g)
<1>1. Row(p) /\ LayersOf(p, g) /\ p.reach = <<>> /\ p.pass = <<>> /\ p.conc = <<>>
  BY LayersProposed
<1> HIDE DEF p
<1>2. /\ Formed(q) /\ MetBy(q, g) /\ LayersOf(q, g)
      /\ q.spotAllow = {[kind |-> b.kind, sites |-> {b.site}] : b \in g.spots}
      /\ q.effectAllow = {{l} : l \in WriteTargets(g)}
  BY <1>1, ProposedRules
<1> HIDE DEF q
<1>3. /\ z.policy.spotAllow = q.spotAllow /\ z.policy.effectAllow = q.effectAllow
      /\ Withdrawn(z.policy, g) \/ (Formed(z.policy) /\ OnlyObligations(z.policy, g))
  BY <1>2, Reconciled
<1> HIDE DEF z
<1>4. /\ Proposal(g, service).policy = z.policy
      /\ Proposal(g, service).opaque = Closing(z.policy, g)
  BY DEF Proposal, p, q, z
<1> QED
  BY <1>2, <1>3, <1>4

(* The routes and the goroutines leave no opaque label out of the closing  *)
(* list where every function is walked from a route.                       *)
LEMMA ClosingIsComplete ==
    ASSUME NEW g, Named(g), NEW p, g.nodes = WithReached(g, RoutesOf(p, g)), NEW f
    PROVE  OpaqueEffects(ReadOnlyEffects(g, f)) \subseteq Closing(p, g)
<1> DEFINE R == RoutesOf(p, g)
           From(s) == WithReached(g, {s})
           all == UNION {Effects(g, From(s)) : s \in R}
<1>1. R \in SUBSET g.nodes
  BY DEF RoutesOf
<1>2. g.nodes \subseteq UNION {From(s) : s \in R}
  BY <1>1, WalkJoined
<1>3. WithReached(g, BindSources(g, {NameOf[f]})) \subseteq g.nodes
  BY SourcesAreNodes, WalkClosed
<1>4. ReadOnlyEffects(g, f) \subseteq all
  <2> HIDE DEF From, R
  <2> QED
    BY <1>2, <1>3 DEF ReadOnlyEffects, Effects
<1>5. OpaqueEffects(all) \subseteq Closing(p, g)
  BY DEF Closing, OpaqueEffects
<1> HIDE DEF all
<1> QED
  BY <1>4, <1>5 DEF OpaqueEffects

(* Of what the gate passes, only obligations violate the policy if only    *)
(* obligations did before: a finding's key keeps its rule.                 *)
LEMMA GateKeepsRatchet ==
    ASSUME NEW p, NEW base, NEW branch, OnlyObligations(p, base),
           NewFindings(p, base, branch).violations = {}
    PROVE  OnlyObligations(p, branch)
<1> SUFFICES ASSUME NEW f \in Check(p, branch), f.sev = Violation
             PROVE  f.rule = "obligation"
  BY DEF OnlyObligations, ViolationsOf
<1>1. PICK h \in Check(p, base) : Key(f) = Key(h)
  BY DEF NewFindings
<1>2. Graded(f) /\ Graded(h)
  BY CheckIsGraded
<1>3. h.sev = Violation
  BY <1>1, <1>2, SeverityByKey
<1>4. h.rule = "obligation"
  BY <1>1, <1>3 DEF OnlyObligations, ViolationsOf
<1>5. Key(f).rule = f.rule /\ Key(h).rule = h.rule
  BY <1>2 DEF Graded, Key
<1> QED
  BY <1>1, <1>4, <1>5

-----------------------------------------------------------------------------
(* The invariant: the policy in force is the proposal, what main has meets *)
(* it, and so does what may be merged.                                     *)

Loads(g) == g \in InitGraphs \cup Branches /\ Loadable(g)
Locked(p, g) == Withdrawn(p, born.graph) \/ (Formed(p) /\ OnlyObligations(p, g))
BornInv ==
    /\ Loads(main)
    /\ born.done => /\ Loads(born.graph) /\ born.proposed = Proposal(born.graph, "s")
                    /\ born.written => policyOf = born.proposed.policy /\ Locked(policyOf, main)
    /\ mr.open => born.done /\ born.written /\ Loads(mr.branch)
    /\ mr.open /\ mr.passed => Locked(policyOf, mr.branch)

(* Graphs are of known functions. *)
LEMMA LoadsNamed == ASSUME NEW g, Loads(g) PROVE Named(g) /\ Loadable(g)
BY GraphsOK DEF Loads, Named

(* A service starts without a policy, and nothing is open. *)
LEMMA BornInvInit == InitInit => BornInv
<1> SUFFICES ASSUME InitInit PROVE BornInv
  OBVIOUS
<1>1. born.done = FALSE /\ mr.open = FALSE
  BY DEF InitInit, Unborn, Closed
<1>2. Loads(main)
  BY DEF InitInit, Loads
<1> QED
  BY <1>1, <1>2 DEF BornInv

(* Every step keeps the invariant. *)
LEMMA BornInvNext == BornInv /\ [InitNext]_initVars => BornInv'
<1> SUFFICES ASSUME BornInv, [InitNext]_initVars PROVE BornInv'
  OBVIOUS
<1>1. CASE CmdInit("s")
  <2> DEFINE r == Proposal(main, "s")
             ok == Valid(r.policy)
  <2>1. /\ born' = [done |-> TRUE, graph |-> main, proposed |-> r, written |-> ok]
        /\ policyOf' = IF ok THEN r.policy ELSE policyOf
        /\ ~born.done /\ main' = main /\ mr' = mr
    BY <1>1 DEF CmdInit
  <2>2. Loads(main) /\ ~mr.open
    BY <2>1 DEF BornInv
  <2>3. Withdrawn(r.policy, main) \/ (Formed(r.policy) /\ OnlyObligations(r.policy, main))
    BY <2>2, LoadsNamed, Proposed
  <2> HIDE DEF r, ok
  <2>4. born'.graph = main /\ born'.proposed = r /\ (born'.written <=> ok)
    BY <2>1
  <2>5. ok => policyOf' = r.policy
    BY <2>1
  <2>6. born'.proposed = Proposal(born'.graph, "s")
    BY <2>4 DEF r
  <2>7. Loads(main') /\ Loads(born'.graph) /\ ~mr'.open
    BY <2>1, <2>2, <2>4
  <2>8. ok => Locked(policyOf, main)'
    BY <2>1, <2>3, <2>4, <2>5 DEF Locked
  <2> QED
    BY <2>4, <2>5, <2>6, <2>7, <2>8 DEF BornInv, Loads
<1>2. ASSUME NEW b \in Branches, OpenUnder(b)
      PROVE  BornInv'
  <2> DEFINE body == Review(policyOf, main, b)
             pass == Gate(policyOf, main, b, {})
  <2> HIDE DEF body, pass
  <2>1. mr' = [open |-> TRUE, branch |-> b, scope |-> {}, edits |-> 0, was |-> b,
               artifact |-> [body |-> body, digest |-> body], passed |-> pass]
    BY <1>2 DEF OpenUnder, Open, body, pass
  <2>2. /\ born.done /\ born.written /\ Loadable(b)
        /\ main' = main /\ policyOf' = policyOf /\ born' = born
    BY <1>2 DEF OpenUnder, Open
  <2>3. mr'.branch = b /\ (mr'.passed <=> pass)
    BY <2>1
  <2>4. Loads(b)
    BY <2>2 DEF Loads
  <2>5. Locked(policyOf, main)
    BY <2>2 DEF BornInv
  <2>6. pass => Locked(policyOf, b)
    BY <2>5, GateKeepsRatchet DEF pass, Gate, Locked
  <2> QED
    BY <2>2, <2>3, <2>4, <2>6 DEF BornInv, Loads, Locked
<1>3. CASE MergeUnder
  <2>1. mr.open /\ mr.passed /\ main' = mr.branch /\ ~mr'.open /\ policyOf' = policyOf /\ born' = born
    BY <1>3 DEF MergeUnder, Merge, Closed
  <2> QED
    BY <2>1 DEF BornInv, Loads, Locked
<1>4. CASE CloseUnder
  <2>1. main' = main /\ ~mr'.open /\ policyOf' = policyOf /\ born' = born
    BY <1>4 DEF CloseUnder, Close, Closed
  <2> QED
    BY <2>1 DEF BornInv, Loads, Locked
<1>5. CASE UNCHANGED initVars
  BY <1>5 DEF initVars, mrVars, BornInv, Loads, Locked
<1> QED
  BY <1>1, <1>2, <1>3, <1>4, <1>5 DEF InitNext

(* The invariant always holds. *)
LEMMA BornInvHolds == InitSpec => []BornInv
<1>1. InitInit => BornInv
  BY BornInvInit
<1>2. BornInv /\ [InitNext]_initVars => BornInv'
  BY BornInvNext
<1> QED
  BY <1>1, <1>2, PTL DEF InitSpec

-----------------------------------------------------------------------------
(* Whatever graph init is run on, the policy it writes passes its own gate *)
(* there, as propose.go says, obligations and withdrawn layers apart; the  *)
(* rules were measured one by one, and relaxing one disturbs no other.     *)
THEOREM BaselineIsCleanAlways == InitSpec => []BaselineIsClean
<1>1. ASSUME BornInv, born.done, born.written
      PROVE  LET g == born.graph  p == born.proposed.policy IN
             /\ Withdrawn(p, g) \/ \A f \in ViolationsOf(Check(p, g)) : f.rule = "obligation"
             /\ \A b \in g.spots : AllowsSpot(p, b)
             /\ \A l \in WriteTargets(g) : AllowsEffect(p, l)
             /\ g.nodes = WithReached(g, RoutesOf(p, g)) =>
                   \A f \in RoutesOf(p, g) : OpaqueEffects(ReadOnlyEffects(g, f)) \subseteq born.proposed.opaque
  <2> DEFINE g == born.graph
             p == born.proposed.policy
  <2>1. Loads(g) /\ born.proposed = Proposal(g, "s")
    BY <1>1 DEF BornInv
  <2>2. Named(g) /\ Loadable(g)
    BY <2>1, LoadsNamed
  <2>3. /\ p.spotAllow = {[kind |-> b.kind, sites |-> {b.site}] : b \in g.spots}
        /\ p.effectAllow = {{l} : l \in WriteTargets(g)}
        /\ Withdrawn(p, g) \/ (Formed(p) /\ OnlyObligations(p, g))
        /\ born.proposed.opaque = Closing(p, g)
    BY <2>1, <2>2, Proposed
  <2> HIDE DEF g, p
  <2>4. Withdrawn(p, g) \/ \A f \in ViolationsOf(Check(p, g)) : f.rule = "obligation"
    BY <2>3 DEF OnlyObligations
  <2>5. ASSUME NEW b \in g.spots
        PROVE  AllowsSpot(p, b)
    <3> DEFINE a == [kind |-> b.kind, sites |-> {b.site}]
    <3>1. a \in p.spotAllow
      BY <2>3
    <3>2. a.kind = b.kind /\ b.site \in a.sites
      OBVIOUS
    <3> HIDE DEF a
    <3> QED
      BY <3>1, <3>2 DEF AllowsSpot
  <2>6. \A l \in WriteTargets(g) : AllowsEffect(p, l)
    BY <2>3 DEF AllowsEffect
  <2>7. g.nodes = WithReached(g, RoutesOf(p, g)) =>
            \A f \in RoutesOf(p, g) : OpaqueEffects(ReadOnlyEffects(g, f)) \subseteq born.proposed.opaque
    BY <2>2, <2>3, ClosingIsComplete
  <2> QED
    BY <2>4, <2>5, <2>6, <2>7 DEF g, p
<1>2. BornInv => BaselineIsClean
  BY <1>1 DEF BaselineIsClean
<1> QED
  BY <1>2, BornInvHolds, PTL

(* Whatever the service becomes by merges that pass the gate, the routes   *)
(* it was born with stay read-only, no goroutine writes the database, and  *)
(* no route outgrows the budget (fitness.Propose, review.Gate).            *)
THEOREM RatchetHoldsAlways == InitSpec => []RatchetHolds
<1>1. ASSUME BornInv, born.done, born.written, ~Withdrawn(policyOf, born.graph)
      PROVE  /\ Named(main) /\ Loadable(main) /\ Formed(policyOf) /\ MetBy(policyOf, main)
  <2>1. Loads(main) /\ Locked(policyOf, main)
    BY <1>1 DEF BornInv
  <2>2. Formed(policyOf) /\ OnlyObligations(policyOf, main)
    BY <1>1, <2>1 DEF Locked
  <2>3. MetBy(policyOf, main)
    BY <2>2, OnlyObligationsMeans DEF MetBy
  <2> QED
    BY <2>1, <2>2, <2>3, LoadsNamed
<1>2. ASSUME Named(main), Formed(policyOf), MetBy(policyOf, main), NEW i \in DOMAIN policyOf.reach,
             NEW f \in BindSources(main, policyOf.reach[i].from)
      PROVE  \A e \in Effects(main, WithReached(main, {f})) :
                 ~(IsWrite(e.to) /\ LabelOf[e.to].kind \in {"db", "bus"})
  <2> DEFINE r == policyOf.reach[i]
  <2>1. r.proof = FALSE /\ r.to = DBWrites \cup {BusPublish} /\ Clean(CheckMustNotReach(r, main))
    BY <1>2 DEF Formed, MetBy
  <2> HIDE DEF r
  <2>2. \A s \in BindSources(main, r.from) : \A e \in Effects(main, WithReached(main, {s})) :
            ~(IsWrite(e.to) /\ LabelOf[e.to].kind \in {"db", "bus"})
    BY <1>2, <2>1, ReachRule
  <2> QED
    BY <1>2, <2>2 DEF r
<1>3. ASSUME Named(main), Loadable(main), Formed(policyOf), MetBy(policyOf, main), policyOf.conc # <<>>
      PROVE  \A e \in ConcurrentEffects(main) : ~DBWrite(e)
  <2> DEFINE r == policyOf.conc[1]
  <2>1. r.proof = FALSE /\ r.to = DBWrites /\ Clean(CheckNoConcurrentReach(r, main))
    BY <1>3 DEF Formed, MetBy
  <2> HIDE DEF r
  <2> QED
    BY <1>3, <2>1, ConcurrentRule
<1>4. ASSUME Named(main), Formed(policyOf), MetBy(policyOf, main), NEW f \in RoutesOf(policyOf, main)
      PROVE  Cardinality({e.to : e \in {d \in Effects(main, WithReached(main, {f})) : IsWrite(d.to)}})
                 <= policyOf.budget.max
  <2> DEFINE W == {e.to : e \in {d \in Effects(main, WithReached(main, {f})) : IsWrite(d.to)}}
  <2>1. W = WritesOf(main, f)
    BY DEF WritesOf
  <2>2. W \in SUBSET Labels
    BY DEF Effects, IsBoundary
  <2> HIDE DEF W
  <2>3. Cardinality(W) \in Nat
    BY <2>2, NamesOK, FS_Subset, FS_CardinalityType
  <2>4. policyOf.budget.set = TRUE /\ policyOf.budget.max \in Nat
    BY <1>4 DEF Formed
  <2>5. f \in main.nodes /\ IsRoute(policyOf, main, f)
    BY <1>4 DEF RoutesOf
  <2>6. ~(Cardinality(WritesOf(main, f)) > policyOf.budget.max)
    BY <1>4, <2>4, <2>5, BudgetClean DEF MetBy
  <2>7. Cardinality(W) <= policyOf.budget.max
    BY <2>1, <2>3, <2>4, <2>6
  <2> QED
    BY <2>7 DEF W
<1>5. BornInv => RatchetHolds
  BY <1>1, <1>2, <1>3, <1>4 DEF RatchetHolds
<1> QED
  BY <1>5, BornInvHolds, PTL

-----------------------------------------------------------------------------
(* The audit.                                                              *)

(* The graph of a service, throughout: only its blind spots change.        *)
GraphOK(g) ==
    /\ {"nodes", "edges", "spots", "entries", "frontier"} \subseteq DOMAIN g
    /\ g.nodes \subseteq Functions /\ \A e \in g.edges : e.from \in g.nodes
    /\ \A e \in g.entries : e.fn \in Functions \cup {0}

(* h is g with more blind spots.                                           *)
Seamed(g, h) ==
    /\ h.nodes = g.nodes /\ h.edges = g.edges /\ h.entries = g.entries
    /\ h.frontier = g.frontier /\ g.spots \subseteq h.spots

(* A ratified seam leaves the graph a graph, and the rest of it alone. *)
LEMMA WithSeam ==
    ASSUME NEW g, GraphOK(g), NEW B
    PROVE  GraphOK(WithBlindSpots(g, B)) /\ Seamed(g, WithBlindSpots(g, B))
<1> DEFINE h == WithBlindSpots(g, B)
<1>1. /\ DOMAIN h = DOMAIN g /\ h.nodes = g.nodes /\ h.edges = g.edges /\ h.entries = g.entries
      /\ h.frontier = g.frontier /\ h.spots = g.spots \cup B
  BY DEF GraphOK, WithBlindSpots
<1> QED
  BY <1>1 DEF GraphOK, Seamed

(* The walks of a graph. *)
LEMMA ReachGrows ==
    ASSUME NEW g, GraphOK(g), NEW S \in SUBSET Functions, NEW R \in SUBSET S
    PROVE  /\ ReachSet(g, S) \subseteq Functions
           /\ \A f \in ReachSet(g, S) : Callees(g, f) \subseteq ReachSet(g, S)
           /\ ReachSet(g, R) \subseteq ReachSet(g, S)
<1> DEFINE next == [f \in Functions |-> Callees(g, f)]
<1>1. next \in [Functions -> SUBSET Functions]
  BY DEF Callees, GraphOK
<1>2. Reachable(g, S) = Closure(S, next) /\ Reachable(g, R) = Closure(R, next)
  BY DEF Reachable
<1>3. \A f \in Functions : next[f] = Callees(g, f)
  OBVIOUS
<1> HIDE DEF next
<1>4. /\ Closure(S, next) \subseteq Functions
      /\ \A f \in S \cup Closure(S, next) : next[f] \subseteq Closure(S, next)
  BY <1>1, ClosureClosed
<1>5. Closure(R, next) \subseteq Closure(S, next)
  <2>1. First(R, next) \subseteq Closure(S, next)
    BY <1>4 DEF First
  <2> QED
    BY <1>4, <2>1, ClosureLeast
<1> QED
  BY <1>2, <1>3, <1>4, <1>5 DEF ReachSet

(* The audit starts from functions. *)
LEMMA SeedsAreFunctions ==
    ASSUME NEW g, GraphOK(g)
    PROVE  EntrySeeds(g) \subseteq Functions /\ SeamSeeds(g) \subseteq Functions
<1>1. SourcesOf(g) \subseteq Functions
  BY DEF SourcesOf, GraphOK
<1>2. {e.fn : e \in g.entries} \ {0} \subseteq Functions
  BY DEF GraphOK
<1>3. EntrySeeds(g) \subseteq Functions
  BY <1>1, <1>2 DEF EntrySeeds
<1> QED
  BY <1>3 DEF SeamSeeds, GraphOK

-----------------------------------------------------------------------------
(* What the static side holds impossible, and cannot excuse.               *)
Emitted(g)       == Publishes(g) \cup DBEffects(g).named
KeysOf(E, C)     == {EffectKey(e.to) : e \in {d \in E : d.from \in C}}
Impossible(g, o) ==
    /\ EffectKey(o.label) \notin KeysOf(Emitted(g), ReachSet(g, EntrySeeds(g)))
    /\ EffectKey(o.label) \notin KeysOf(Emitted(g), ReachSet(g, SeamSeeds(g)))
    /\ EffectKey(o.label) \notin {EffectKey(e.to) : e \in Emitted(g)}
          => LabelOf[o.label].kind \notin StaticEffectSets(g).loose

(* The candidates are the observations the graph says cannot be. *)
LEMMA CandidatesAre ==
    ASSUME NEW g, NEW observed
    PROVE  \A o : (\E w \in Candidates(StaticEffectSets(g), observed) : w.seen = o)
                      <=> o \in observed /\ Impossible(g, o)
<1> DEFINE S == StaticEffectSets(g)
           bad == {x \in observed : /\ EffectKey(x.label) \notin S.reachable \cup S.blind
                                    /\ EffectKey(x.label) \notin S.named => LabelOf[x.label].kind \notin S.loose}
           wit(o) == Witness(o, IF EffectKey(o.label) \in S.named THEN "unreachable" ELSE "absent")
<1>1. Candidates(S, observed) = {wit(o) : o \in bad}
  BY DEF Candidates
<1>2. \A o : wit(o).seen = o
  BY DEF Witness
<1>3. /\ S.named = {EffectKey(e.to) : e \in Emitted(g)}
      /\ S.reachable = KeysOf(Emitted(g), ReachSet(g, EntrySeeds(g)))
      /\ S.blind = KeysOf(Emitted(g), ReachSet(g, SeamSeeds(g)))
  BY DEF StaticEffectSets, Emitted, KeysOf
<1>4. \A o : o \in bad <=> o \in observed /\ Impossible(g, o)
  <2> HIDE DEF S
  <2> QED
    BY <1>3 DEF Impossible, S
<1> HIDE DEF S, bad, wit
<1> QED
  BY <1>1, <1>2, <1>4 DEF S

(* Nothing that is read off the calls changes with a seam. *)
LEMMA SeamKeeps ==
    ASSUME NEW g, NEW h, Seamed(g, h)
    PROVE  /\ Emitted(h) = Emitted(g) /\ StaticEffectSets(h).loose = StaticEffectSets(g).loose
           /\ \A S : ReachSet(h, S) = ReachSet(g, S)
           /\ EntrySeeds(h) = EntrySeeds(g)
<1>1. BusEffects(h) = BusEffects(g) /\ DBEffects(h) = DBEffects(g)
  BY DEF Seamed, BusEffects, DBEffects
<1>2. Emitted(h) = Emitted(g) /\ StaticEffectSets(h).loose = StaticEffectSets(g).loose
  BY <1>1 DEF Emitted, Publishes, StaticEffectSets
<1>3. \A f : Callees(h, f) = Callees(g, f) /\ Callers(h, f) = Callers(g, f)
  BY DEF Seamed, Callees, Callers
<1>4. \A S : ReachSet(h, S) = ReachSet(g, S)
  <2>1. [f \in Functions |-> Callees(h, f)] = [f \in Functions |-> Callees(g, f)]
    BY <1>3
  <2> QED
    BY <2>1 DEF ReachSet, Reachable
<1>5. EntrySeeds(h) = EntrySeeds(g)
  <2>1. SourcesOf(h) = SourcesOf(g)
    BY <1>3 DEF SourcesOf, Seamed
  <2> QED
    BY <2>1 DEF EntrySeeds, Seamed
<1> QED
  BY <1>2, <1>4, <1>5

(* A seam never makes an effect impossible. *)
LEMMA SeamExcuses ==
    ASSUME NEW g, NEW h, GraphOK(g), GraphOK(h), Seamed(g, h), NEW o, Impossible(h, o)
    PROVE  Impossible(g, o)
<1>1. SeamSeeds(g) \subseteq SeamSeeds(h)
  <2>1. {b.site : b \in g.spots} \subseteq {b.site : b \in h.spots}
    BY DEF Seamed
  <2> QED
    BY <2>1, SeamKeeps DEF SeamSeeds, Seamed
<1>2. ReachSet(g, SeamSeeds(g)) \subseteq ReachSet(h, SeamSeeds(h))
  BY <1>1, SeamKeeps, SeedsAreFunctions, ReachGrows
<1>3. KeysOf(Emitted(g), ReachSet(g, SeamSeeds(g))) \subseteq KeysOf(Emitted(h), ReachSet(h, SeamSeeds(h)))
  BY <1>2, SeamKeeps DEF KeysOf
<1> QED
  BY <1>3, SeamKeeps DEF Impossible

-----------------------------------------------------------------------------
(* A report tells only what was seen and is impossible, each with its claim.*)
LEMMA AuditTells ==
    ASSUME NEW g, NEW traces, NEW injected
    PROVE  \A o : (\E c \in Audit("s", g, traces, injected).candidates : c.w.seen = o)
                      <=> o \in ObservedEffects(traces) /\ Impossible(g, o)
<1> DEFINE cand == Candidates(StaticEffectSets(g), ObservedEffects(traces))
           ident == Reconcile(CorpusAgreed({t.stamp : t \in traces}), injected.ident)
           prov == Reconcile(CorpusAgreed({t.prov : t \in traces}), injected.prov)
           grade(w) == [w |-> w, sev |-> Localize(g, w), verdict |-> Classify(g, w, "s", ident, prov), rules |-> {}]
<1>1. Audit("s", g, traces, injected).candidates = {grade(w) : w \in cand}
  BY DEF Audit
<1>2. \A w : grade(w).w = w
  OBVIOUS
<1>3. \A o : (\E w \in cand : w.seen = o) <=> o \in ObservedEffects(traces) /\ Impossible(g, o)
  BY CandidatesAre
<1> HIDE DEF grade, cand
<1>4. \A o : (\E c \in Audit("s", g, traces, injected).candidates : c.w.seen = o) <=> \E w \in cand : w.seen = o
  BY <1>1, <1>2
<1> QED
  BY <1>3, <1>4

(* What resolution hands on was observed and cannot be. *)
LEMMA ResolvedTells ==
    ASSUME NEW g, NEW rules, NEW traces, NEW injected, NEW origin,
           NEW c \in Resolved(g, rules, Audit("s", g, traces, injected), origin).candidates
    PROVE  c.w.seen \in ObservedEffects(traces) /\ Impossible(g, c.w.seen)
<1> DEFINE report == Audit("s", g, traces, injected)
<1>1. PICK d \in report.candidates : c = ResolveWitness(g, rules, d)
  BY DEF Resolved
<1>2. PICK x, y, z, a : d = [w |-> x, sev |-> y, verdict |-> z, rules |-> a]
  BY <1>1 DEF Audit
<1>3. c.w = d.w
  <2>1. d.w = x
    BY <1>2
  <2> DEFINE names == {rules[i].name : i \in Depending(g, rules, d)}
             broken == \E i \in Depending(g, rules, d) : Breaks(g, rules[i], d)
  <2>2. ResolveWitness(g, rules, d) =
          IF d.verdict # "IMPEACHMENT" THEN d
          ELSE [d EXCEPT !.rules = names, !.verdict = IF broken THEN "VIOLATED" ELSE d.verdict]
    BY <1>2 DEF ResolveWitness
  <2> HIDE DEF names, broken
  <2>3. \A n, v : [d EXCEPT !.rules = n, !.verdict = v].w = d.w
    BY <1>2
  <2> QED
    BY <1>1, <2>2, <2>3
<1>4. \A o : (\E k \in report.candidates : k.w.seen = o) => o \in ObservedEffects(traces) /\ Impossible(g, o)
  BY AuditTells
<1> HIDE DEF report
<1>5. d.w.seen \in ObservedEffects(traces) /\ Impossible(g, d.w.seen)
  BY <1>1, <1>4
<1> QED
  BY <1>3, <1>5

-----------------------------------------------------------------------------
(* The inductive invariant: what is settled stays possible, and a trace    *)
(* whose every call the graph has was reached in it.                       *)
ServiceInv ==
    /\ {"graph", "policy", "ops", "hidden"} \subseteq DOMAIN svc /\ GraphOK(svc.graph)
    /\ \A op \in svc.ops : op.fn \in Functions
SettledInv == \A w \in settled : ~Impossible(svc.graph, w.seen)

Followed(g, p) == Last(p) \in ReachSet(g, {Head(p)}) \/ Last(p) \notin g.nodes
FlowInv ==
    flow # <<>> =>
        /\ {"op", "path", "tagged", "known"} \subseteq DOMAIN flow
        /\ flow.path \in Seq(Functions) /\ flow.path # <<>>
        /\ flow.known => Followed(svc.graph, flow.path)

ReachedIn(g, t) ==
    Head(t.path) \in Functions /\ \E e \in Emitted(g) : e.to = t.label /\ e.from \in ReachSet(g, {Head(t.path)})
TracesInv ==
    \A t \in corpus :
        /\ {"path", "label", "known", "named", "stamp", "prov"} \subseteq DOMAIN t
        /\ t.known /\ t.named => ReachedIn(svc.graph, t)

ImpeachInv == ServiceInv /\ SettledInv /\ FlowInv /\ TracesInv

(* A repair is on top of the graph at hand, and extinguishes its witness. *)
LEMMA RepairKeeps ==
    ASSUME ImpeachInv, NEW c \in ResolvedNow(Stamped).candidates, RatifyRepair(c, Stamped)
    PROVE  ImpeachInv'
<1> DEFINE g == svc.graph
           site == ProposeRepair(c)
           h == WithBlindSpots(g, {Seam(site)})
<1>1. GraphOK(h) /\ Seamed(g, h)
  BY WithSeam DEF ImpeachInv, ServiceInv
<1>2. /\ svc'.graph = h /\ svc'.ops = svc.ops /\ DOMAIN svc' = DOMAIN svc
      /\ settled' = settled \cup {c.w} /\ flow' = flow /\ corpus' = corpus /\ flow = <<>>
  BY DEF RatifyRepair, Ratify, ImpeachInv, ServiceInv
<1>3. ~Present(Audit("s", h, corpus, Stamped), c.w)
  BY DEF RatifyRepair, SelfExtinguishes
<1>4. c.w.seen \in ObservedEffects(corpus)
  BY ResolvedTells DEF ResolvedNow, Now
<1>5. ~Impossible(h, c.w.seen)
  BY <1>3, <1>4, AuditTells DEF Present
<1> HIDE DEF g, h
<1>6. ServiceInv'
  BY <1>1, <1>2 DEF ImpeachInv, ServiceInv
<1>7. SettledInv'
  <2>1. \A w \in settled : ~Impossible(h, w.seen)
    BY <1>1, SeamExcuses DEF ImpeachInv, ServiceInv, SettledInv, g
  <2> QED
    BY <1>2, <1>5, <2>1 DEF SettledInv
<1>8. FlowInv'
  BY <1>2 DEF FlowInv
<1>9. TracesInv'
  <2>1. \A t : ReachedIn(g, t) => ReachedIn(h, t)
    BY <1>1, SeamKeeps DEF ReachedIn
  <2> QED
    BY <1>2, <2>1 DEF ImpeachInv, TracesInv, g
<1> QED
  BY <1>6, <1>7, <1>8, <1>9 DEF ImpeachInv

(* A run that took only calls of the graph stays in what they reach. *)
LEMMA StepFollows ==
    ASSUME ImpeachInv, NEW e, RunStep(e)
    PROVE  ImpeachInv'
<1> DEFINE g == svc.graph
           p == flow.path
<1>1. /\ svc' = svc /\ corpus' = corpus /\ settled' = settled /\ flow # <<>>
      /\ e.from = Last(p) /\ e.to \in Functions
      /\ flow' = [flow EXCEPT !.path = Append(p, e.to), !.known = flow.known /\ e \in g.edges]
  BY DEF RunStep
<1>2. p \in Seq(Functions) /\ p # <<>> /\ {"op", "path", "tagged", "known"} \subseteq DOMAIN flow
  BY <1>1 DEF ImpeachInv, FlowInv
<1>3. flow'.path = Append(p, e.to) /\ DOMAIN flow' = DOMAIN flow
  BY <1>1, <1>2
<1>4. flow'.known <=> flow.known /\ e \in g.edges
  BY <1>1, <1>2
<1>5. /\ Append(p, e.to) \in Seq(Functions) /\ Append(p, e.to) # <<>> /\ Head(Append(p, e.to)) = Head(p)
      /\ Last(Append(p, e.to)) = e.to /\ Head(p) \in Functions
  BY <1>1, <1>2 DEF Last
<1>6. ASSUME flow.known, e \in g.edges
      PROVE  Followed(g, Append(p, e.to))
  <2>1. GraphOK(g) /\ e.from \in g.nodes
    BY <1>6 DEF ImpeachInv, ServiceInv, GraphOK
  <2>2. e.from \in ReachSet(g, {Head(p)})
    BY <1>1, <1>6, <2>1 DEF ImpeachInv, FlowInv, Followed
  <2>3. e.to \in g.nodes => e.to \in Callees(g, e.from)
    BY <1>6 DEF Callees
  <2>4. Callees(g, e.from) \subseteq ReachSet(g, {Head(p)})
    BY <1>5, <2>1, <2>2, ReachGrows
  <2> QED
    BY <1>5, <2>3, <2>4 DEF Followed
<1>7. flow' # <<>>
  BY <1>2, <1>3
<1>8. FlowInv'
  BY <1>1, <1>2, <1>3, <1>4, <1>5, <1>6, <1>7 DEF FlowInv
<1> QED
  BY <1>1, <1>8 DEF ImpeachInv, ServiceInv, SettledInv, TracesInv

(* What it then emits, under the name the graph has for it, is reached. *)
LEMMA RecordFollows ==
    ASSUME ImpeachInv, NEW e, NEW l \in Labels, NEW s, NEW i, Record(e, l, s, i)
    PROVE  ImpeachInv'
<1> DEFINE g == svc.graph
           p == flow.path
           t == [entry |-> flow.op, path |-> p, tagged |-> flow.tagged, label |-> l,
                 service |-> s, stamp |-> i, prov |-> "integration",
                 known |-> flow.known /\ e \in g.edges, named |-> l = e.to]
<1>1. /\ svc' = svc /\ settled' = settled /\ flow # <<>> /\ flow' = <<>> /\ corpus' = corpus \cup {t}
      /\ e.from = Last(p) /\ IsBoundary(e)
  BY DEF Record
<1>2. p \in Seq(Functions) /\ p # <<>> /\ (flow.known => Followed(g, p))
  BY <1>1 DEF ImpeachInv, FlowInv
<1>3. /\ t.path = p /\ t.label = l
      /\ {"path", "label", "known", "named", "stamp", "prov"} \subseteq DOMAIN t
  OBVIOUS
<1>4. t.known => flow.known /\ e \in g.edges
  OBVIOUS
<1>5. t.named => l = e.to
  OBVIOUS
<1>6. ASSUME flow.known, e \in g.edges, l = e.to
      PROVE  ReachedIn(g, t)
  <2>1. Head(p) \in Functions
    BY <1>2
  <2>2. e.from \in g.nodes
    BY <1>6 DEF ImpeachInv, ServiceInv, GraphOK
  <2>3. e.from \in ReachSet(g, {Head(p)})
    BY <1>1, <1>2, <1>6, <2>2 DEF Followed
  <2>4. ~IsDynamic(e)
    BY <1>6, Zenon DEF Record, IsDynamic
  <2>5. LabelOf[e.to].target # "" /\ (LabelOf[e.to].kind = "db" \/
                                      (LabelOf[e.to].kind = "bus" /\ LabelOf[e.to].op = "PUBLISH"))
    BY <1>6 DEF Record, Observable
  <2>6. e \in Emitted(g)
    BY <1>1, <1>6, <2>4, <2>5 DEF Emitted, Publishes, BusEffects, DBEffects
  <2> HIDE DEF t
  <2> QED
    BY <1>3, <1>6, <2>1, <2>3, <2>6 DEF ReachedIn
<1> HIDE DEF t
<1>7. TracesInv'
  <2>1. t.known /\ t.named => ReachedIn(g, t)
    BY <1>4, <1>5, <1>6, Zenon
  <2> QED
    BY <1>1, <1>3, <2>1 DEF ImpeachInv, TracesInv
<1> QED
  BY <1>1, <1>7 DEF ImpeachInv, ServiceInv, SettledInv, FlowInv

(* The invariant always holds. *)
LEMMA ImpeachStays == ImpeachSpec => []ImpeachInv
<1>1. ImpeachInit => ImpeachInv
  BY ProgramsOK DEF ImpeachInit, ImpeachInv, ServiceInv, SettledInv, FlowInv, TracesInv, GraphOK, Loadable
<1>2. ASSUME ImpeachInv, ImpeachNext
      PROVE  ImpeachInv'
  <2>1. ASSUME NEW op \in svc.ops, NEW tagged \in BOOLEAN, Serve(op, tagged)
        PROVE  ImpeachInv'
    <3>1. op.fn \in Functions
      BY <1>2 DEF ImpeachInv, ServiceInv
    <3>2. <<op.fn>> \in Seq(Functions) /\ Head(<<op.fn>>) = op.fn /\ Last(<<op.fn>>) = op.fn /\ <<op.fn>> # <<>>
      BY <3>1 DEF Last
    <3>3. Followed(svc.graph, <<op.fn>>)
      BY <3>2 DEF Followed, ReachSet
    <3>4. /\ svc' = svc /\ corpus' = corpus /\ settled' = settled
          /\ flow' = [op |-> op.name, path |-> <<op.fn>>, tagged |-> tagged, known |-> TRUE]
      BY <2>1 DEF Serve
    <3>5. FlowInv'
      BY <3>2, <3>3, <3>4 DEF FlowInv
    <3> QED
      BY <1>2, <3>4, <3>5 DEF ImpeachInv, ServiceInv, SettledInv, TracesInv
  <2> QED
    BY <1>2, <2>1, StepFollows, RecordFollows, RepairKeeps DEF ImpeachNext
<1>3. ImpeachInv /\ UNCHANGED impeachVars => ImpeachInv'
  BY DEF impeachVars, ImpeachInv, ServiceInv, SettledInv, FlowInv, TracesInv
<1> QED
  BY <1>1, <1>2, <1>3, PTL DEF ImpeachSpec

(* A witness whose repair was ratified never comes back (propose.go,       *)
(* repair.go): traffic and later seams only add what excuses an effect.    *)
THEOREM SettledStaysSettledAlways == ImpeachSpec => []SettledStaysSettled
<1>1. ImpeachInv => SettledStaysSettled
  <2> SUFFICES ASSUME ImpeachInv, NEW w \in settled, Present(Now(Stamped), w) PROVE FALSE
    BY DEF SettledStaysSettled
  <2>1. Impossible(svc.graph, w.seen)
    BY AuditTells DEF Present, Now
  <2> QED
    BY <2>1 DEF ImpeachInv, SettledInv
<1> QED
  BY <1>1, ImpeachStays, PTL

(* What is impeached did something the graph has no path for (audit.go):   *)
(* a call it misses, or an entry it does not know.                         *)
THEOREM ImpeachedIsUnknownAlways == ImpeachSpec => []ImpeachedIsUnknown
<1>1. ImpeachInv => ImpeachedIsUnknown
  <2> SUFFICES ASSUME ImpeachInv, NEW c \in ResolvedNow(Committed).candidates,
                      c.w.seen.named, c.w.seen.known, IsRoot(Head(c.w.seen.path))
               PROVE  FALSE
    BY DEF ImpeachedIsUnknown
  <2> DEFINE g == svc.graph
             o == c.w.seen
  <2>1. o \in ObservedEffects(corpus) /\ Impossible(g, o)
    BY ResolvedTells DEF ResolvedNow, Now
  <2>2. PICK t \in corpus : o = [t EXCEPT !.stamp = "", !.prov = ""]
    BY <2>1 DEF ObservedEffects
  <2>3. /\ o.label = t.label /\ o.path = t.path /\ o.known = t.known /\ o.named = t.named
        /\ (t.known /\ t.named => ReachedIn(g, t))
    BY <2>2 DEF ImpeachInv, TracesInv
  <2>4. ReachedIn(g, t)
    BY <2>3, Zenon
  <2>5. PICK e \in Emitted(g) : e.to = o.label /\ e.from \in ReachSet(g, {Head(o.path)})
    BY <2>3, <2>4 DEF ReachedIn
  <2>6. Head(o.path) \in Functions /\ GraphOK(g)
    BY <2>3, <2>4 DEF ReachedIn, ImpeachInv, ServiceInv
  <2>7. Head(o.path) \in EntrySeeds(g)
    <3>1. Head(o.path) # 0
      BY <2>6, NamesOK
    <3> QED
      BY <3>1 DEF IsRoot, EntrySeeds
  <2>8. ReachSet(g, {Head(o.path)}) \subseteq ReachSet(g, EntrySeeds(g))
    BY <2>6, <2>7, SeedsAreFunctions, ReachGrows
  <2> QED
    BY <2>1, <2>5, <2>8 DEF Impossible, KeysOf
<1> QED
  BY <1>1, ImpeachStays, PTL
===============================================================================
