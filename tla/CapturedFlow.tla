---------------------------- MODULE CapturedFlow ----------------------------
(***************************************************************************)
(* A driven flow and the spans it leaves in the recorder, as the packages  *)
(* capture and internal/await read them.  A flow is a record               *)
(*                                                                         *)
(*   spans     the operations the service performs for it, one span each   *)
(*   entry     the server or consumer span the trigger opens               *)
(*   caller    whose code opens each span                                  *)
(*   inline    the spans that run inside their caller; the others are on   *)
(*             goroutines of their own and may outlive it                  *)
(*   ctx       the context a span is opened from: its caller's ("child"),  *)
(*             one that keeps the baggage but no parent ("root"), or a     *)
(*             fresh context.Background() ("lost")                         *)
(*   kind, op  the span kind and canonical op key                          *)
(*   markers   the op keys the test declares (CaptureOptions.Markers)      *)
(*   minSpans  the sanity floor                                            *)
(*   waits     the trigger returns only after the entry has ended: always  *)
(*             so for HTTP, for Event it is up to the deliver function     *)
(*                                                                         *)
(* The recorder is one per process and holds the spans of all runs; a      *)
(* recorded span is a pair of its run and its name in the flow.  In what   *)
(* follows fl maps each run to the flow it drives.                         *)
(***************************************************************************)
EXTENDS Naturals, FiniteSets

CONSTANTS
    Runs,   \* the runs of one test binary: parallel tests, or a flow's self-test
    Flows   \* the flows they may drive

ServiceKinds == {"server", "consumer"}
Kinds        == ServiceKinds \cup {"client", "producer", "internal"}

FlowOK(f) ==
    /\ IsFiniteSet(f.spans)
    /\ f.entry \in f.spans /\ f.kind[f.entry] \in ServiceKinds
    /\ f.inline \subseteq f.spans \ {f.entry} /\ f.ctx[f.entry] = "root"
    /\ f.minSpans \in Nat \ {0}
    /\ f.waits \in BOOLEAN
    /\ \A s \in f.spans :
          /\ f.kind[s] \in Kinds
          /\ f.ctx[s] \in {"child", "root", "lost"}
          /\ f.caller[s] \in f.spans
          /\ f.ctx[f.caller[s]] # "lost"

ASSUME FlowsOK == \A f \in Flows : FlowOK(f)
ASSUME RunsOK == IsFiniteSet(Runs)

Names == UNION {f.spans : f \in Flows}

(* Span.ParentID names a span of the same flow. *)
HasParent(fl, x) == fl[x[1]].ctx[x[2]] = "child"
ParentOf(fl, x)  == <<x[1], fl[x[1]].caller[x[2]]>>
Op(fl, x)        == fl[x[1]].op[x[2]]
Kind(fl, x)      == fl[x[1]].kind[x[2]]

(* Scope: the spans whose test.run.id is the run's. *)
Correlated(fl, x)  == fl[x[1]].ctx[x[2]] # "lost"
Scope(fl, S, r)    == {x \in S : x[1] = r /\ Correlated(fl, x)}

(* The spans of S whose parent is outside S. *)
Parentless(fl, S) == {x \in S : ~(HasParent(fl, x) /\ ParentOf(fl, x) \in S)}

(* Mutated: the first parentless span is taken for the root. *)
HasSomeRoot(fl, S) == Parentless(fl, S) # {}

(* Scope's root is non-nil: there is exactly one parentless span. *)
HasRoot(fl, S) == \E e \in S : Parentless(fl, S) = {e}

(* Mutated: any parentless span counts as the root. *)
AnyOrphan(fl, S) == Parentless(fl, S) # {}

(* rootEnded *)
RootEnded(fl, S) == \E x \in Parentless(fl, S) : Kind(fl, x) \in ServiceKinds

(* Mutated: one marker is enough. *)
AnySeen(fl, S, r) ==
    fl[r].markers = {} \/ \E m \in fl[r].markers : \E x \in S : Op(fl, x) = m

(* allSeen *)
AllSeen(fl, S, r) == \A m \in fl[r].markers : \E x \in S : Op(fl, x) = m

(* CorrelationLess, given the raw recorder. *)
CorrelationLess(fl, S) == Cardinality({x \in S : ~Correlated(fl, x)})

(* Every correlated span that ran inside a span of S is in S. *)
InlineClosed(fl, S) ==
    \A x \in S : \A s \in fl[x[1]].inline :
        fl[x[1]].caller[s] = x[2] /\ Correlated(fl, <<x[1], s>>) => <<x[1], s>> \in S
=============================================================================
