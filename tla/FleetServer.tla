----------------------------- MODULE FleetServer -----------------------------
(***************************************************************************)
(* The groundwork MCP server (cmd/groundwork/mcp.go): one process that     *)
(* answers concurrent agents from the graphs of one or more services.  Each *)
(* graph is a file that a deployment replaces behind the server's back; a  *)
(* reload, the only call that changes state, takes the write half of a Go  *)
(* RWMutex, every other call the read half.  A call is modelled step by    *)
(* step (each index it takes, each file it stats, the second computation   *)
(* for the log), so that a deployment, a reload or the end of the process  *)
(* can fall between any two of them.                                       *)
(***************************************************************************)
CONSTANTS
    Services, Clients,
    Files,       \* the versions of graph files, each with an mtime of its own
    Stamps,      \* the identities graphs are stamped with
    NoFile, NoStamp, NoClient,
    Stamp,       \* Files -> Stamps \cup {NoStamp}
    Parses,      \* the files LoadFile accepts
    Rich,        \* the graphs that hold the function or the bus events asked for
    Audited,     \* the services started with a corpus and a policy
    Expect       \* the --expect arguments: Services -> Stamps \cup {NoStamp}

ASSUME FleetOK ==
    /\ Services # {}
    /\ NoFile \notin Files /\ NoStamp \notin Stamps /\ NoClient \notin Clients
    /\ Stamp \in [Files -> Stamps \cup {NoStamp}]
    /\ Parses \subseteq Files /\ Rich \subseteq Files /\ Audited \subseteq Services
    /\ Expect \in [Services -> Stamps \cup {NoStamp}]

VARIABLES
    disk,      \* service -> the file at its path
    written,   \* the files that have been put on disk
    phase,     \* of the process: "down", "boot" or "up"
    unloaded,  \* the services the boot has not loaded yet
    read,      \* service -> the graph its load has read and not installed yet
    mtime, ix, expect, body, \* mcpServer: which file's mtime, index, pin and audit
    overtaken, \* service -> its load's stat found another version than it had read;
               \* a history variable, which no action reads
    readers,   \* the clients that hold the read lock
    writer,    \* the client that holds or has announced the write lock
    pc,        \* client -> where its request is
    call       \* client -> what its request asked for and has gathered

disk_vars == <<disk, written>>
lock_vars == <<readers, writer>>
mem_vars  == <<mtime, ix, expect, body, overtaken>>
vars == <<disk_vars, phase, unloaded, read, mem_vars, lock_vars, pc, call>>

Maybe(f) == f \cup {NoFile}
Nothing  == [s \in Services |-> NoFile]

\* The tools, by what they read: entrypoints, events and chains answer about
\* the whole fleet; reach stands for every card that may fail on its graph;
\* fitness is computed again for the log; impeach is the stored audit.
FleetWide == {"entrypoints", "events", "chains"}
Lenses    == {"fitness", "impeach", "reach"} \cup FleetWide
Tools     == Lenses \cup {"reload"}

\* What stands for the service of a request that names none.
Unnamed == CHOOSE s \in Services : TRUE

Covers(t, s) == IF t \in FleetWide THEN Services ELSE {s}

\* A request as it arrives, and a client without one.
Request(t, s, e) ==
    [tool |-> t, svc |-> s, want |-> e,
     unread |-> IF t = "reload" THEN {} ELSE Covers(t, s),
     unstat |-> IF t = "reload" THEN {} ELSE Covers(t, s),
     card |-> Nothing,     \* service -> the graph the card shows
     again |-> NoFile,     \* the graph of the second reading: verdict line or audit
     noted |-> {},         \* the services the answer flags as stale
     found |-> Nothing,    \* service -> the file its stat found
     ok |-> TRUE]          \* not an isError result
Idle == Request("reload", Unnamed, NoStamp)

Reset ==
    /\ phase' = "down" /\ unloaded' = Services
    /\ read' = Nothing /\ mtime' = Nothing /\ ix' = Nothing /\ body' = Nothing
    /\ expect' = Expect /\ overtaken' = [s \in Services |-> FALSE]
    /\ readers' = {} /\ writer' = NoClient
    /\ pc' = [c \in Clients |-> "idle"]
    /\ call' = [c \in Clients |-> Idle]

Init ==
    /\ disk = Nothing /\ written = {}
    /\ phase = "down" /\ unloaded = Services
    /\ read = Nothing /\ mtime = Nothing /\ ix = Nothing /\ body = Nothing
    /\ expect = Expect /\ overtaken = [s \in Services |-> FALSE]
    /\ readers = {} /\ writer = NoClient
    /\ pc = [c \in Clients |-> "idle"]
    /\ call = [c \in Clients |-> Idle]
-----------------------------------------------------------------------------
(* The deployment pipeline.  A file is replaced or removed in one step.     *)

Loading(s) == read[s] # NoFile

Deploy(s, f) ==
    /\ f \in Files \ written
    /\ disk' = [disk EXCEPT ![s] = f]
    /\ written' = written \cup {f}
    /\ UNCHANGED <<phase, unloaded, read, mem_vars, lock_vars, pc, call>>

Remove(s) ==
    /\ disk[s] # NoFile
    /\ disk' = [disk EXCEPT ![s] = NoFile]
    /\ UNCHANGED <<written, phase, unloaded, read, mem_vars, lock_vars, pc, call>>
-----------------------------------------------------------------------------
(* mcpServer.load: LoadFile and verifyStamp, then the stat, then the index. *)

Loadable(s, pin) ==
    /\ disk[s] \in Parses
    /\ pin = NoStamp \/ Stamp[disk[s]] = pin

LoadRead(s) == read' = [read EXCEPT ![s] = disk[s]]

LoadStat(s) ==
    /\ mtime' = [mtime EXCEPT ![s] = IF disk[s] # NoFile THEN disk[s] ELSE @]
    /\ ix' = [ix EXCEPT ![s] = read[s]]
    /\ overtaken' = [overtaken EXCEPT ![s] = disk[s] \notin {read[s], NoFile}]
    /\ read' = [read EXCEPT ![s] = NoFile]

\* computeImpeach: the audit of the graph served, if there is a corpus.
Audit(s) == IF s \in Audited THEN ix[s] ELSE NoFile

\* isStale: a stat that fails is not staleness.
Flagged(s) == disk[s] # NoFile /\ disk[s] # mtime[s]
-----------------------------------------------------------------------------
(* The process: every service is loaded before the first request is read;   *)
(* a load that fails ends it.  It may be killed at any moment.              *)

Start ==
    /\ phase = "down"
    /\ phase' = "boot"
    /\ UNCHANGED <<disk_vars, unloaded, read, mem_vars, lock_vars, pc, call>>

BootRead(s) ==
    /\ phase = "boot" /\ s \in unloaded
    /\ \A t \in Services : ~Loading(t)
    /\ Loadable(s, expect[s])
    /\ LoadRead(s)
    /\ UNCHANGED <<disk_vars, phase, unloaded, mem_vars, lock_vars, pc, call>>

BootFail(s) ==
    /\ phase = "boot" /\ s \in unloaded
    /\ \A t \in Services : ~Loading(t)
    /\ ~Loadable(s, expect[s])
    /\ Reset
    /\ UNCHANGED disk_vars

BootStat(s) ==
    /\ phase = "boot" /\ Loading(s)
    /\ LoadStat(s)
    /\ unloaded' = unloaded \ {s}
    /\ UNCHANGED <<disk_vars, phase, expect, body, lock_vars, pc, call>>

BootServe ==
    /\ phase = "boot" /\ unloaded = {}
    /\ body' = [s \in Services |-> Audit(s)]
    /\ phase' = "up"
    /\ UNCHANGED <<disk_vars, unloaded, read, mtime, ix, expect, overtaken, lock_vars, pc, call>>

Kill ==
    /\ phase # "down"
    /\ Reset
    /\ UNCHANGED disk_vars
-----------------------------------------------------------------------------
(* callTool's lock.  sync.RWMutex: a writer that has announced itself holds *)
(* new readers back, waits for the ones inside, and on Unlock lets every    *)
(* reader that waits in before another writer.                              *)

Serving(c, at) == phase = "up" /\ pc[c] = at

Goto(c, to) == pc' = [pc EXCEPT ![c] = to]

Ask(c) ==
    \E t \in Tools, s \in Services, e \in Stamps \cup {NoStamp} :
        /\ Serving(c, "idle")
        /\ e # NoStamp => t = "reload"
        /\ t \in FleetWide => s = Unnamed
        /\ call' = [call EXCEPT ![c] = Request(t, s, e)]
        /\ Goto(c, "asked")
        /\ UNCHANGED <<disk_vars, phase, unloaded, read, mem_vars, lock_vars>>

RLock(c) ==
    /\ Serving(c, "asked") /\ call[c].tool # "reload"
    /\ writer = NoClient
    /\ readers' = readers \cup {c}
    /\ Goto(c, "read")
    /\ UNCHANGED <<disk_vars, phase, unloaded, read, mem_vars, writer, call>>

\* Readers that queue behind a writer.
RWait(c) ==
    /\ Serving(c, "asked") /\ call[c].tool # "reload"
    /\ writer # NoClient
    /\ Goto(c, "queued")
    /\ UNCHANGED <<disk_vars, phase, unloaded, read, mem_vars, lock_vars, call>>

Lock(c) ==
    /\ Serving(c, "asked") /\ call[c].tool = "reload"
    /\ writer = NoClient
    /\ writer' = c
    /\ Goto(c, "drain")
    /\ UNCHANGED <<disk_vars, phase, unloaded, read, mem_vars, readers, call>>

Drained(c) ==
    /\ Serving(c, "drain")
    /\ readers = {}
    /\ Goto(c, "reload")
    /\ UNCHANGED <<disk_vars, phase, unloaded, read, mem_vars, lock_vars, call>>

RUnlock(c) ==
    /\ Serving(c, "rendered")
    /\ readers' = readers \ {c}
    /\ Goto(c, "done")
    /\ UNCHANGED <<disk_vars, phase, unloaded, read, mem_vars, writer, call>>

Unlock(c) ==
    LET queue == {d \in Clients : pc[d] = "queued"} IN
    /\ Serving(c, "reloaded")
    /\ writer' = NoClient
    /\ readers' = readers \cup queue
    /\ pc' = [d \in Clients |-> IF d = c THEN "done"
                                ELSE IF d \in queue THEN "read" ELSE pc[d]]
    /\ UNCHANGED <<disk_vars, phase, unloaded, read, mem_vars, call>>
-----------------------------------------------------------------------------
(* reload: under the write lock.  The pin is the caller's when one is given *)
(* and goes back to the old one when the load fails.                        *)

NewPin(c) == IF call[c].want # NoStamp THEN call[c].want ELSE expect[call[c].svc]

ReloadRead(c) ==
    LET s == call[c].svc IN
    /\ Serving(c, "reload")
    /\ Loadable(s, NewPin(c))
    /\ LoadRead(s)
    /\ expect' = [expect EXCEPT ![s] = NewPin(c)]
    /\ Goto(c, "loaded")
    /\ UNCHANGED <<disk_vars, phase, unloaded, mtime, ix, body, overtaken, lock_vars, call>>

ReloadFailStamps(c) ==
    LET s == call[c].svc IN
    /\ Serving(c, "reload")
    /\ ~Loadable(s, NewPin(c))
    /\ mtime' = [mtime EXCEPT ![s] = IF disk[s] # NoFile THEN disk[s] ELSE @]
    /\ call' = [call EXCEPT ![c].ok = FALSE]
    /\ Goto(c, "reloaded")
    /\ UNCHANGED <<disk_vars, phase, unloaded, read, ix, expect, body, overtaken, lock_vars>>
ReloadFailLocked(c) ==
    LET s == call[c].svc IN
    /\ Serving(c, "reload")
    /\ ~Loadable(s, NewPin(c))
    /\ call' = [call EXCEPT ![c].ok = FALSE]
    /\ Goto(c, "done")
    /\ UNCHANGED <<disk_vars, phase, unloaded, read, mem_vars, lock_vars>>

ReloadFail(c) ==
    LET s == call[c].svc IN
    /\ Serving(c, "reload")
    /\ ~Loadable(s, NewPin(c))
    /\ call' = [call EXCEPT ![c].ok = FALSE]
    /\ Goto(c, "reloaded")
    /\ UNCHANGED <<disk_vars, phase, unloaded, read, mem_vars, lock_vars>>

ReloadStat(c) ==
    /\ Serving(c, "loaded")
    /\ LoadStat(call[c].svc)
    /\ Goto(c, "audit")
    /\ UNCHANGED <<disk_vars, phase, unloaded, expect, body, lock_vars, call>>

\* A reload that leaves the old audit in place.
ReloadAuditStale(c) ==
    /\ Serving(c, "audit")
    /\ Goto(c, "reloaded")
    /\ UNCHANGED <<disk_vars, phase, unloaded, read, mem_vars, lock_vars, call>>

ReloadAudit(c) ==
    LET s == call[c].svc IN
    /\ Serving(c, "audit")
    /\ body' = [body EXCEPT ![s] = Audit(s)]
    /\ Goto(c, "reloaded")
    /\ UNCHANGED <<disk_vars, phase, unloaded, read, mtime, ix, expect, overtaken, lock_vars, call>>
-----------------------------------------------------------------------------
(* A lens: the indexes it takes, the files it stats, what it computes last. *)

\* No loaded graph has a bus event: fleetEvents returns before it stats.
Inert(c, card) ==
    call[c].tool = "events" /\ \A s \in Services : card[s] \notin Rich

ReadIndex(c, s) ==
    LET card == [call[c].card EXCEPT ![s] = ix[s]]
        rest == call[c].unread \ {s}
    IN
    /\ Serving(c, "read") /\ s \in call[c].unread
    /\ call[c].tool = "entrypoints" => call[c].unstat = {}
    /\ call' = [call EXCEPT ![c].card = card, ![c].unread = rest,
                            ![c].unstat = IF rest = {} /\ Inert(c, card) THEN {} ELSE @]
    /\ UNCHANGED <<disk_vars, phase, unloaded, read, mem_vars, lock_vars, pc>>

StatFile(c, s) ==
    LET found == [call[c].found EXCEPT ![s] = disk[s]]
        noted == call[c].noted \cup (IF Flagged(s) THEN {s} ELSE {})
    IN
    /\ Serving(c, "read") /\ s \in call[c].unstat
    /\ call[c].tool # "entrypoints" => call[c].unread = {}
    /\ call' = [call EXCEPT ![c].unstat = @ \ {s},
                            ![c].found = found, ![c].noted = noted]
    /\ UNCHANGED <<disk_vars, phase, unloaded, read, mem_vars, lock_vars, pc>>

\* The tool fails on what it finds: a toolError, which carries no stale note.
Errs(c) ==
    LET s == call[c].svc IN
    \/ call[c].tool = "reach" /\ call[c].card[s] \notin Rich
    \/ call[c].tool = "impeach" /\ s \notin Audited

\* verdictLog reads the index a second time; impeach reads the stored audit.
Again(c) ==
    CASE call[c].tool = "fitness" -> ix[call[c].svc]
      [] call[c].tool = "impeach" -> body[call[c].svc]
      [] OTHER -> NoFile

Render(c) ==
    /\ Serving(c, "read") /\ call[c].unread = {} /\ call[c].unstat = {}
    /\ call' = [call EXCEPT ![c].ok = ~Errs(c),
                            ![c].again = IF Errs(c) THEN NoFile ELSE Again(c),
                            ![c].noted = IF Errs(c) THEN {} ELSE @]
    /\ Goto(c, "rendered")
    /\ UNCHANGED <<disk_vars, phase, unloaded, read, mem_vars, lock_vars>>

\* logCall and the reply, after the lock is released.
Reply(c) ==
    /\ Serving(c, "done")
    /\ call' = [call EXCEPT ![c] = Idle]
    /\ Goto(c, "idle")
    /\ UNCHANGED <<disk_vars, phase, unloaded, read, mem_vars, lock_vars>>
-----------------------------------------------------------------------------
LensStep(c) ==
    \/ RLock(c) \/ RWait(c) \/ Render(c) \/ RUnlock(c)
    \/ \E s \in Services : ReadIndex(c, s) \/ StatFile(c, s)

ReloadStep(c) ==
    \/ Drained(c) \/ ReloadRead(c) \/ ReloadFail(c)
    \/ ReloadStat(c) \/ ReloadAudit(c) \/ Unlock(c)

Serve(c) == LensStep(c) \/ ReloadStep(c) \/ Reply(c)

Process ==
    \/ Start \/ BootServe \/ Kill
    \/ \E s \in Services : BootRead(s) \/ BootFail(s) \/ BootStat(s)

Pipeline == \E s \in Services : Remove(s) \/ \E f \in Files : Deploy(s, f)

Next ==
    \/ Pipeline
    \/ Process
    \/ \E c \in Clients : Ask(c) \/ Lock(c) \/ Serve(c)

Spec == Init /\ [][Next]_vars

\* The goroutines of requests are scheduled, and sync.Mutex, inside the
\* RWMutex, does not starve a writer that waits for another.
FairSpec == Spec /\ \A c \in Clients : WF_vars(Serve(c)) /\ SF_vars(Lock(c))
-----------------------------------------------------------------------------
States == {"idle", "asked", "queued", "drain", "reload", "loaded", "audit",
           "reloaded", "read", "rendered", "done"}
Inside == {"read", "rendered"}
Owning == {"drain", "reload", "loaded", "audit", "reloaded"}

Calls ==
    [tool : Tools, svc : Services, want : Stamps \cup {NoStamp},
     unread : SUBSET Services, unstat : SUBSET Services,
     card : [Services -> Maybe(Files)], again : Maybe(Files),
     noted : SUBSET Services, found : [Services -> Maybe(Files)], ok : BOOLEAN]

\* Types; and the RWMutex: who is inside, who owns it, and never both kinds.
TypeOK ==
    /\ disk \in [Services -> Maybe(Files)] /\ written \subseteq Files
    /\ phase \in {"down", "boot", "up"} /\ unloaded \subseteq Services
    /\ read \in [Services -> Maybe(Files)] /\ mtime \in [Services -> Maybe(Files)]
    /\ ix \in [Services -> Maybe(Files)] /\ body \in [Services -> Maybe(Files)]
    /\ expect \in [Services -> Stamps \cup {NoStamp}] /\ overtaken \in [Services -> BOOLEAN]
    /\ readers = {c \in Clients : pc[c] \in Inside}
    /\ writer \in Clients \cup {NoClient}
    /\ \A c \in Clients : pc[c] \in Owning <=> writer = c
    /\ (\E c \in Clients : pc[c] \in Owning \ {"drain"}) => readers = {}
    /\ pc \in [Clients -> States]
    /\ call \in [Clients -> Calls]

\* Whatever reloads succeed, fail or wait, a service that has a pin answers
\* from a graph that carries it.
ServedIsExpected ==
    phase = "up" =>
        \A s \in Services :
            \/ Loading(s)
            \/ ix[s] \in Files /\ (expect[s] = NoStamp \/ Stamp[ix[s]] = expect[s])

\* What staleNote promises of a service in an answer: unless it is flagged,
\* the answer shows the very file that the stat found there.
Disclosed(c, s) ==
    pc[c] = "rendered" /\ call[c].ok /\ call[c].found[s] # NoFile /\ s \notin call[c].noted
        => call[c].card[s] = call[c].found[s]

\* "The server flags staleness on every response": it does not.  load reads
\* the file and stats it afterwards (mcp.go:367-377), so a version deployed
\* between the two leaves its mtime on the graph of the version before.
StaleFlagged == \A c \in Clients : \A s \in Services : Disclosed(c, s)

\* That race is the only one: whatever is deployed, removed, reloaded or
\* refused otherwise, an unflagged answer was computed from the file its stat
\* found.  The exception is of a service whose last load was overtaken, and
\* lasts until the next load.
StaleDisclosed ==
    \A c \in Clients : \A s \in Services : Disclosed(c, s) \/ overtaken[s]

\* Every request of a process that is not killed is answered.
RequestsAnswered == \A c \in Clients : pc[c] # "idle" ~> pc[c] = "idle"
-----------------------------------------------------------------------------
(* FleetContract: a reload takes effect when its graph has passed the       *)
(* checks, an answer when its lock is released.                             *)

Pending(s) == phase = "up" /\ (Loading(s) \/ \E c \in Clients : pc[c] = "audit" /\ call[c].svc = s)

Used(c) ==
    IF pc[c] = "done" /\ call[c].tool # "reload"
    THEN {<<s, call[c].card[s]>> : s \in {t \in Services : call[c].card[t] # NoFile}}
           \cup (IF call[c].again # NoFile THEN {<<call[c].svc, call[c].again>>} ELSE {})
    ELSE {}

ServedNow ==
    IF phase # "up" THEN Nothing
    ELSE [s \in Services |-> IF Loading(s) THEN read[s] ELSE ix[s]]

AuditedNow ==
    IF phase # "up" THEN Nothing
    ELSE [s \in Services |-> IF Pending(s) THEN (IF s \in Audited THEN ServedNow[s] ELSE NoFile)
                             ELSE body[s]]

Contract ==
    INSTANCE FleetContract WITH
        served <- ServedNow, audited <- AuditedNow, pinned <- expect,
        answer <- [c \in Clients |-> Used(c)]

KeepsContract == Contract!Spec
=============================================================================
