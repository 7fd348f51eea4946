-------------------------- MODULE CaptureContract --------------------------
(***************************************************************************)
(* What the capture harness promises its caller, without saying how it     *)
(* decides that a flow is over: spans end in whatever order the service    *)
(* ends them; each run is answered once; the answer is either "truncated"  *)
(* or a set of ended spans of that run alone that forms one tree, holds    *)
(* the flow's entry, with every span everything that ran inside it, and a  *)
(* span for each declared marker.                                          *)
(***************************************************************************)
EXTENDS CapturedFlow

VARIABLES
    flow,     \* the flow each run drives
    ended,    \* the spans the recorder has been given
    answer    \* what Capture returned to each run

Unanswered == [kind |-> "none", spans |-> {}]
Truncated  == [kind |-> "truncated", spans |-> {}]

ContractInit ==
    /\ flow \in [Runs -> Flows]
    /\ ended = {}
    /\ answer = [r \in Runs |-> Unanswered]

SpansEnd == ended \subseteq ended' /\ UNCHANGED <<flow, answer>>

(* The spans a caller may be given as the whole of run r.                  *)
Whole(S, r) ==
    /\ S \subseteq Scope(flow, ended, r)
    /\ <<r, flow[r].entry>> \in S
    /\ \E e \in S : Parentless(flow, S) = {e}
    /\ InlineClosed(flow, S)
    /\ AllSeen(flow, S, r)

Answer(r) ==
    /\ answer[r] = Unanswered
    /\ \/ answer' = [answer EXCEPT ![r] = Truncated]
       \/ \E S \in SUBSET ended :
             /\ Whole(S, r)
             /\ answer' = [answer EXCEPT ![r] = [kind |-> "complete", spans |-> S]]
    /\ UNCHANGED <<flow, ended>>

ContractNext == SpansEnd \/ \E r \in Runs : Answer(r)

Contract == ContractInit /\ [][ContractNext]_<<flow, ended, answer>>
=============================================================================
