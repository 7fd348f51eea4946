-------------------------------- MODULE Taint --------------------------------
(***************************************************************************)
(* The forward taint analysis of internal/static/taint: one aggregate run  *)
(* and one run per declared source over the same prepared program, and the *)
(* views by source and by sink that are derived from them.                 *)
(*                                                                         *)
(* A program is a record of its values (vals), the uses of each value      *)
(* (uses), the loads of each struct field (loads), the values that receive *)
(* the result of a function at its first-party calls (results), the        *)
(* functions with such a call (called), and what each declared source      *)
(* seeds: results of calls (seed) and fields (seedFields).  entered are    *)
(* the functions that code outside the first party calls as well.          *)
(***************************************************************************)
EXTENDS Naturals, FiniteSets

CONSTANTS
    TaintPrograms,   \* the programs analysed
    Sources,         \* the declared sources
    Sinks            \* the declared sinks

(* Seeds and uses taint values of the program; a use tells what it does,   *)
(* and a function that a return names has its callers listed.              *)
ASSUME TaintProgramsOK ==
    \A p \in TaintPrograms :
        /\ \A v \in p.vals : \A u \in p.uses[v] :
              \/ u.op = "move" /\ u.to \in p.vals
              \/ u.op = "field" /\ p.loads[u.key] \cup {u.base} \subseteq p.vals
              \/ u.op = "return" /\ p.results[u.at] \subseteq p.vals
              \/ u.op = "call" /\ \A c \in u.callees : c.kind = "param" => c.val \in p.vals
              \/ u.op = "opaque"
        /\ \A s \in Sources :
              p.seed[s] \cup (UNION {p.loads[k] : k \in p.seedFields[s]}) \subseteq p.vals

VARIABLES
    program,    \* the program
    scope,      \* the sources of the current run; {} before and after
    tainted,    \* values known to carry taint
    worklist,   \* those whose uses are still to be followed
    flows,      \* findings: pairs of a sink and the calling function
    escapes,    \* functions where taint left what is modelled
    reports     \* reports of the runs that have ended, by scope

taintVars == <<program, scope, tainted, worklist, flows, escapes, reports>>

NotLoaded == [vals |-> {}]

(* What a use of a tainted value taints.  taintedField and retTainted only *)
(* keep an effect from being repeated.                                     *)
FlowsInto(p, u) ==
    IF u.op = "move" THEN {u.to}
    ELSE IF u.op = "field" THEN p.loads[u.key] \cup {u.base}
    ELSE IF u.op = "return" THEN p.results[u.at]
    ELSE IF u.op = "call" THEN {c.val : c \in {d \in u.callees : d.kind = "param"}}
    ELSE {}

(* Taint is lost: in a construct that is not tracked, or in a call that    *)
(* may go to code without an analysable body.                              *)
Lost(u) ==
    \/ u.op = "opaque"
    \/ u.op = "call" /\ (u.callees = {} \/ \E c \in u.callees : c.kind = "away")

(* Mutated: a return that nobody in sight consumes is dropped. *)
EscapesAtUnseen(p, u) == IF Lost(u) THEN {u.at} ELSE {}

(* escape, and escapeFn for a return that nobody in sight consumes.        *)
EscapesAt(p, u) ==
    IF Lost(u) \/ (u.op = "return" /\ u.at \notin p.called) THEN {u.at} ELSE {}

FlowsAt(u) ==
    IF u.op = "call"
    THEN {<<c.sink, u.at>> : c \in {d \in u.callees : d.kind = "sink"}}
    ELSE {}

(* seed: results of calls to a source, and every load of a source field.   *)
Seeds(p, S) ==
    (UNION {p.seed[s] : s \in S})
    \cup (UNION {p.loads[k] : k \in UNION {p.seedFields[s] : s \in S}})

(* verdictOf *)
Verdict(fs, es) == IF fs # {} THEN "FLOW" ELSE IF es # {} THEN "ABSTAIN" ELSE "NO-FLOW"

-----------------------------------------------------------------------------
TaintInit ==
    /\ program = NotLoaded /\ scope = {} /\ tainted = {} /\ worklist = {}
    /\ flows = {} /\ escapes = {} /\ reports = <<>>

(* prepare: the indexes are built once for all runs. *)
Prepare(p) ==
    /\ program = NotLoaded
    /\ program' = p
    /\ UNCHANGED <<scope, tainted, worklist, flows, escapes, reports>>

(* The runs in the order of Decompose: the aggregate, then the sources. *)
Due(S) ==
    /\ program # NotLoaded /\ scope = {} /\ S \notin DOMAIN reports
    /\ \/ S = Sources
       \/ Sources \in DOMAIN reports /\ \E s \in Sources : S = {s}

(* Mutated: the escapes of the run before are kept. *)
BeginShared(S) ==
    /\ Due(S)
    /\ scope' = S
    /\ tainted' = Seeds(program, S) /\ worklist' = Seeds(program, S)
    /\ UNCHANGED <<program, flows, escapes, reports>>

(* analyze: a run starts from fresh state and its seeds. *)
BeginTaint(S) ==
    /\ Due(S)
    /\ scope' = S
    /\ tainted' = Seeds(program, S) /\ worklist' = Seeds(program, S)
    /\ flows' = {} /\ escapes' = {}
    /\ UNCHANGED <<program, reports>>

(* taint: a value is queued the first time it is tainted. *)
Fresh(T) == T \ tainted

(* propagate: every use of one value of the worklist.  The code takes the  *)
(* latest, after seeds that a map hands out in any order.                  *)
Propagate(v) ==
    /\ scope # {} /\ v \in worklist
    /\ LET U == program.uses[v]
           T == UNION {FlowsInto(program, u) : u \in U}
       IN  /\ tainted' = tainted \cup T
           /\ worklist' = (worklist \ {v}) \cup Fresh(T)
           /\ flows' = flows \cup UNION {FlowsAt(u) : u \in U}
           /\ escapes' = escapes \cup UNION {EscapesAt(program, u) : u \in U}
    /\ UNCHANGED <<program, scope, reports>>

Finish ==
    /\ scope # {} /\ worklist = {}
    /\ reports' = [S \in DOMAIN reports \cup {scope} |->
                      IF S = scope THEN [flows |-> flows, escapes |-> escapes,
                                         verdict |-> Verdict(flows, escapes)]
                      ELSE reports[S]]
    /\ scope' = {}
    /\ UNCHANGED <<program, tainted, worklist, flows, escapes>>

TaintNext ==
    \/ \E p \in TaintPrograms : Prepare(p)
    \/ \E S \in SUBSET Sources : BeginTaint(S)
    \/ \E v \in program.vals : Propagate(v)
    \/ Finish

TaintSpec == TaintInit /\ [][TaintNext]_taintVars

(* BySink: a report divided among the sinks; escapes count against each.   *)
SinkReport(r, k) ==
    LET F == {f \in r.flows : f[1] = k}
    IN  [flows |-> F, escapes |-> r.escapes, verdict |-> Verdict(F, r.escapes)]

-----------------------------------------------------------------------------
(* What the reports are held against.                                      *)

UsesOf(p, X) == UNION {p.uses[v] : v \in X}

ClosedUnder(p, X) == \A u \in UsesOf(p, X) : FlowsInto(p, u) \subseteq X
Least(p, S)  == {v \in p.vals : \A X \in SUBSET p.vals :
                                    Seeds(p, S) \subseteq X /\ ClosedUnder(p, X) => v \in X}

(* Where the value really can go: out of what is lost, and out of a        *)
(* function that foreign code calls, anywhere.                             *)
Moves(p, u) ==
    IF Lost(u) \/ (u.op = "return" /\ u.at \in p.entered) THEN p.vals ELSE FlowsInto(p, u)
RealClosed(p, X)  == \A u \in UsesOf(p, X) : Moves(p, u) \subseteq X
RealLeast(p, S)   == {v \in p.vals : \A X \in SUBSET p.vals :
                                    Seeds(p, S) \subseteq X /\ RealClosed(p, X) => v \in X}

(* Every report is of the least set that has its seeds and is closed under *)
(* propagation: no order of the worklist, and no run before, shows in it.  *)
(* So the runs by source add up to the aggregate.                          *)
ReportsRight ==
    /\ \A S \in DOMAIN reports :
          LET U == UsesOf(program, Least(program, S))
          IN  /\ reports[S].flows = UNION {FlowsAt(u) : u \in U}
              /\ reports[S].escapes = UNION {EscapesAt(program, u) : u \in U}
    /\ DOMAIN reports = {Sources} \cup {{s} : s \in Sources} =>
          /\ reports[Sources].flows = UNION {reports[{s}].flows : s \in Sources}
          /\ reports[Sources].escapes = UNION {reports[{s}].escapes : s \in Sources}

(* Foreign code calls only functions that have no call in the first party: *)
(* handleReturn takes a return for seen as soon as there is one such call. *)
ReturnsInSight(p) == p.entered \cap p.called = {}

(* NO-FLOW, by sink or by source and sink, is a proof: the values the      *)
(* source really reaches are never an argument of the sink, as long as     *)
(* returns are in sight.                                                   *)
NoFalseNoFlow ==
    \A S \in DOMAIN reports, k \in Sinks :
        ReturnsInSight(program) /\ SinkReport(reports[S], k).verdict = "NO-FLOW" =>
            \A u \in UsesOf(program, RealLeast(program, S)) : \A f \in FlowsAt(u) : f[1] # k
=============================================================================
