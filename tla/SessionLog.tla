------------------------------ MODULE SessionLog ------------------------------
(***************************************************************************)
(* The session ids of the MCP server and the transcript they attribute     *)
(* (cmd/groundwork/mcp.go): an id is a counter under logMu, kept by nobody *)
(* but the client and the log, and recovered from the log when the server  *)
(* starts again.  The log is taken for readable and writable: the code     *)
(* ignores the errors of both.                                             *)
(***************************************************************************)
EXTENDS Integers, FiniteSetsExt

CONSTANTS
    Clients,
    MaxSessions   \* the number of initialize requests that are modelled

ASSUME SessionsOK == MaxSessions \in Nat

VARIABLES
    up,        \* the process runs
    sessionN,  \* the last id it issued
    log,       \* the lines that carry a session id, each with whose it is
    issued,    \* how many sessions were begun: numbers them apart, for the properties
    held,      \* client -> the session it echoes (Mcp-Session-Id)
    flight     \* client -> the request the server works on

vars == <<up, sessionN, log, issued, held, flight>>

\* A session: the id on the wire, and which initialize began it (0: none).
Sessions == [sid : Nat, of : Nat]
Anonymous == [sid |-> 0, of |-> 0]

Quiet == [kind |-> "none", by |-> Anonymous]

Init ==
    /\ up = FALSE /\ sessionN = 0 /\ log = {} /\ issued = 0
    /\ held = [c \in Clients |-> Anonymous]
    /\ flight = [c \in Clients |-> Quiet]

Line(kind, s) == [kind |-> kind, sid |-> s.sid, of |-> s.of]

\* Taken from an empty log as the number before the first index.
MaxLoggedOrNone == Max({-1} \cup {l.sid : l \in log})

\* maxLoggedSession: over every line, 0 for an empty log.
MaxLoggedSession == Max({0} \cup {l.sid : l \in log})

\* A start that leaves the counter where a new process has it.
BootFromZero ==
    /\ ~up
    /\ up' = TRUE
    /\ sessionN' = 0
    /\ UNCHANGED <<log, issued, held, flight>>

\* The server starts on the log of the servers before it.
Boot ==
    /\ ~up
    /\ up' = TRUE
    /\ sessionN' = MaxLoggedSession
    /\ UNCHANGED <<log, issued, held, flight>>

\* newSession, under logMu: the init line is written before the reply.
Initialize(c) ==
    LET s == [sid |-> sessionN + 1, of |-> issued + 1] IN
    /\ up /\ flight[c] = Quiet /\ issued < MaxSessions
    /\ sessionN' = sessionN + 1
    /\ issued' = issued + 1
    /\ log' = log \cup {Line("init", s)}
    /\ flight' = [flight EXCEPT ![c] = [kind |-> "initialize", by |-> s]]
    /\ UNCHANGED <<up, held>>

\* The reply reaches the client, which echoes the id from then on.
Begin(c) ==
    /\ flight[c].kind = "initialize"
    /\ held' = [held EXCEPT ![c] = flight[c].by]
    /\ flight' = [flight EXCEPT ![c] = Quiet]
    /\ UNCHANGED <<up, sessionN, log, issued>>

\* tools/call, with the header or without: the line is written after the call.
Ask(c) ==
    \E s \in {held[c], Anonymous} :
        /\ up /\ flight[c] = Quiet
        /\ flight' = [flight EXCEPT ![c] = [kind |-> "call", by |-> s]]
        /\ UNCHANGED <<up, sessionN, log, issued, held>>

LogCall(c) ==
    LET s == flight[c].by IN
    /\ flight[c].kind = "call"
    /\ log' = IF s = Anonymous THEN log ELSE log \cup {Line("call", s)}
    /\ flight' = [flight EXCEPT ![c] = Quiet]
    /\ UNCHANGED <<up, sessionN, issued, held>>

\* The process ends; the clients keep their ids and send them to the next one.
Kill ==
    /\ up
    /\ up' = FALSE /\ sessionN' = 0
    /\ flight' = [c \in Clients |-> Quiet]
    /\ UNCHANGED <<log, issued, held>>

Next ==
    \/ Boot \/ Kill
    \/ \E c \in Clients : Initialize(c) \/ Begin(c) \/ Ask(c) \/ LogCall(c)

Spec == Init /\ [][Next]_vars
-----------------------------------------------------------------------------
TypeOK ==
    /\ up \in BOOLEAN /\ sessionN \in Nat /\ issued \in Nat
    /\ log \subseteq [kind : {"init", "call"}, sid : Nat, of : Nat]
    /\ held \in [Clients -> Sessions]
    /\ flight \in [Clients -> [kind : {"none", "initialize", "call"}, by : Sessions]]

\* However often the server is restarted on its log, lines with one session id
\* belong to one session.
SessionsApart == \A l, m \in log : l.sid = m.sid => l.of = m.of

\* A call line never comes before the line that opens its session.
BoundaryLogged ==
    \A l \in log : l.kind = "call" => \E m \in log : m.kind = "init" /\ m.sid = l.sid /\ m.of = l.of
=============================================================================
