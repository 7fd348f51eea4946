---------------------------- MODULE FleetContract ----------------------------
(***************************************************************************)
(* What the MCP server promises the agents that call it: at each moment it *)
(* serves one graph per service; a reload replaces one of them, or nothing *)
(* at all; and an answer, with the verdict logged beside it, is taken from *)
(* the graphs served at one single moment.                                 *)
(***************************************************************************)
CONSTANTS Services, Clients, Files, Stamps, NoFile, NoStamp, Stamp, Audited

VARIABLES
    served,   \* service -> the graph it answers from
    audited,  \* service -> the graph its impeach audit was computed on
    pinned,   \* service -> the stamp the graph must carry, or NoStamp
    answer    \* client -> what its answer was taken from, {} when none is due

vars == <<served, audited, pinned, answer>>

Nothing == [s \in Services |-> NoFile]

\* A graph that may be served under a pin.
Fits(f, p) == p = NoStamp \/ Stamp[f] = p

Init ==
    /\ served = Nothing /\ audited = Nothing
    /\ pinned \in [Services -> Stamps \cup {NoStamp}]
    /\ answer = [c \in Clients |-> {}]

\* The server starts to serve, with every service's graph and audit in place.
Serve ==
    /\ served = Nothing
    /\ served' \in [Services -> Files]
    /\ \A s \in Services : Fits(served'[s], pinned'[s])
    /\ audited' = [s \in Services |-> IF s \in Audited THEN served'[s] ELSE NoFile]
    /\ pinned' = pinned /\ answer' = answer

\* A reload swaps the graph, its audit and its pin at once.
Reload(s) ==
    \E f \in Files, p \in Stamps \cup {NoStamp} :
        /\ served[s] # NoFile
        /\ Fits(f, p)
        /\ served' = [served EXCEPT ![s] = f]
        /\ audited' = [audited EXCEPT ![s] = IF s \in Audited THEN f ELSE NoFile]
        /\ pinned' = [pinned EXCEPT ![s] = p]
        /\ answer' = answer

\* An answer about some services, all of it taken from what is served now.
Answer(c) ==
    \E S \in SUBSET Services :
        /\ answer[c] = {}
        /\ answer' = [answer EXCEPT ![c] = {<<s, served[s]>> : s \in S}]
        /\ UNCHANGED <<served, audited, pinned>>

Deliver(c) ==
    /\ answer' = [answer EXCEPT ![c] = {}]
    /\ UNCHANGED <<served, audited, pinned>>

\* The process ends.
Stop ==
    /\ served' = Nothing /\ audited' = Nothing
    /\ pinned' \in [Services -> Stamps \cup {NoStamp}]
    /\ answer' = [c \in Clients |-> {}]

Next ==
    \/ Serve \/ Stop
    \/ \E s \in Services : Reload(s)
    \/ \E c \in Clients : Answer(c) \/ Deliver(c)

Spec == Init /\ [][Next]_vars
=============================================================================
