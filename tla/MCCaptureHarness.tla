-------------------------- MODULE MCCaptureHarness --------------------------
(***************************************************************************)
(* Small flows for TLC: an entry and one to three spans under it.          *)
(***************************************************************************)
EXTENDS CaptureHarness

(* A flow whose spans all do something else, opened from their caller. *)
Base(n, caller, inline, markers, waits) ==
    [spans |-> 1..n, entry |-> 1, caller |-> caller, inline |-> inline,
     ctx |-> [s \in 1..n |-> IF s = 1 THEN "root" ELSE "child"],
     kind |-> [s \in 1..n |-> IF s = 1 THEN (IF waits THEN "server" ELSE "consumer")
                                       ELSE "client"],
     op |-> [s \in 1..n |-> s], markers |-> markers, minSpans |-> 1, waits |-> waits]

(* Two spans under the entry, nested or side by side, each inline or       *)
(* detached, the last one opened from any context; HTTP and events.        *)
OneRun ==
    {[Base(3, <<1, 1, c>>, in, m, w) EXCEPT !.ctx[3] = x] :
        c \in 1..2, in \in SUBSET {2, 3}, m \in {{}, {3}}, w \in BOOLEAN,
        x \in {"child", "root", "lost"}}

(* An event flow that ends before its sanity floor is reached. *)
BelowFloor == {[Base(2, <<1, 1>>, {2}, {}, FALSE) EXCEPT !.minSpans = 3]}

(* A nested server span inside a request that the trigger waits for. *)
NestedWaits == {[Base(3, <<1, 1, 2>>, {2, 3}, {}, TRUE) EXCEPT !.kind[3] = "server"]}

(* A request with two late effects, both declared.                         *)
TwoLate == {Base(3, <<1, 1, 1>>, {}, {2, 3}, TRUE)}

SingleFlows == OneRun \cup BelowFloor \cup NestedWaits \cup TwoLate

(* Flows that share the recorder: a request with a lost span, and one with *)
(* an inline effect and a late one, which is declared.                     *)
SharedFlows ==
    {[Base(2, <<1, 1>>, {2}, {}, TRUE) EXCEPT !.ctx[2] = "lost"],
     Base(3, <<1, 1, 1>>, {2}, {3}, TRUE)}

(* An event flow whose consumer calls an in-process server. *)
NestedFlows == {[Base(3, <<1, 1, 2>>, {2, 3}, {}, FALSE) EXCEPT !.kind[3] = "server"]}
=============================================================================
