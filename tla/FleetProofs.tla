----------------------------- MODULE FleetProofs -----------------------------
(***************************************************************************)
(* Proofs about FleetServer: its types and its lock, the pins, and the     *)
(* refinement of FleetContract.                                            *)
(***************************************************************************)
EXTENDS FleetServer, TLAPS

(* A client that asks nothing has a call of the right type. *)
LEMMA IdleType == Idle \in Calls /\ Idle.tool = "reload"
<1>1. Unnamed \in Services
    BY FleetOK DEF Unnamed
<1>2. Nothing \in [Services -> Maybe(Files)]
    BY DEF Nothing, Maybe
<1> QED BY <1>1, <1>2 DEF Idle, Request, Calls, Tools, Maybe

(* So has one that asks. *)
LEMMA RequestType ==
    ASSUME NEW t \in Tools, NEW s \in Services, NEW e \in Stamps \cup {NoStamp}
    PROVE  Request(t, s, e) \in Calls
<1>1. Nothing \in [Services -> Maybe(Files)]
    BY DEF Nothing, Maybe
<1>2. Covers(t, s) \subseteq Services
    BY DEF Covers
<1> QED BY <1>1, <1>2 DEF Request, Calls, Maybe

(* The part of TypeOK that is not the lock. *)
Types ==
    /\ disk \in [Services -> Maybe(Files)] /\ written \subseteq Files
    /\ phase \in {"down", "boot", "up"} /\ unloaded \subseteq Services
    /\ read \in [Services -> Maybe(Files)] /\ mtime \in [Services -> Maybe(Files)]
    /\ ix \in [Services -> Maybe(Files)] /\ body \in [Services -> Maybe(Files)]
    /\ expect \in [Services -> Stamps \cup {NoStamp}]
    /\ overtaken \in [Services -> BOOLEAN]
    /\ pc \in [Clients -> States]
    /\ call \in [Clients -> Calls]

(* sync.RWMutex as the clients' places show it. *)
Mutex ==
    /\ readers = {c \in Clients : pc[c] \in Inside}
    /\ writer \in Clients \cup {NoClient}
    /\ \A c \in Clients : pc[c] \in Owning <=> writer = c
    /\ (\E c \in Clients : pc[c] \in Owning \ {"drain"}) => readers = {}

(* The type invariant is the types of the variables and the exclusion of   *)
(* the lock.                                                               *)
LEMMA TypeParts == TypeOK <=> Types /\ Mutex
    BY DEF TypeOK, Types, Mutex

(* Every step keeps the types. *)
LEMMA TypesStep ==
    ASSUME Types, Next
    PROVE  Types'
<1> USE FleetOK DEF Types
<1>1. CASE Pipeline
    BY <1>1 DEF Pipeline, Deploy, Remove, Maybe, mem_vars, lock_vars
<1>2. CASE Start
    BY <1>2 DEF Start, disk_vars, mem_vars, lock_vars
<1>3. CASE BootServe
  <2>1. body' \in [Services -> Maybe(Files)]
      BY <1>3 DEF BootServe, Audit, Maybe
  <2> QED BY <1>3, <2>1 DEF BootServe, disk_vars, lock_vars
<1>4. ASSUME Reset, UNCHANGED disk_vars
      PROVE  Types'
  <2>1. Nothing \in [Services -> Maybe(Files)] /\ Idle \in Calls
      BY IdleType DEF Nothing, Maybe
  <2>2. "idle" \in States
      BY DEF States
  <2> QED BY <1>4, <2>1, <2>2 DEF Reset, disk_vars
<1>5. ASSUME NEW s \in Services, BootRead(s) \/ BootFail(s) \/ BootStat(s)
      PROVE  Types'
  <2>1. CASE BootRead(s)
      BY <2>1 DEF BootRead, LoadRead, disk_vars, mem_vars, lock_vars
  <2>2. CASE BootFail(s)
      BY <1>4, <2>2 DEF BootFail
  <2>3. CASE BootStat(s)
      BY <2>3 DEF BootStat, LoadStat, Maybe, disk_vars, lock_vars
  <2> QED BY <1>5, <2>1, <2>2, <2>3
<1>6. ASSUME NEW c \in Clients, Ask(c)
      PROVE  Types'
  <2>1. PICK t \in Tools, s \in Services, e \in Stamps \cup {NoStamp} :
            call' = [call EXCEPT ![c] = Request(t, s, e)]
      BY <1>6 DEF Ask
  <2>2. call' \in [Clients -> Calls]
      BY <2>1, RequestType
  <2> QED BY <1>6, <2>2 DEF Ask, Goto, States, disk_vars, mem_vars, lock_vars
<1>7. ASSUME NEW c \in Clients, Lock(c) \/ RLock(c) \/ RWait(c) \/ Drained(c) \/ RUnlock(c) \/ Unlock(c)
      PROVE  Types'
  <2>1. pc' \in [Clients -> States]
      BY <1>7 DEF Lock, RLock, RWait, Drained, RUnlock, Unlock, Goto, States
  <2> QED BY <1>7, <2>1
          DEF Lock, RLock, RWait, Drained, RUnlock, Unlock, disk_vars, mem_vars, lock_vars
<1>8. ASSUME NEW c \in Clients, NEW s \in Services, ReadIndex(c, s) \/ StatFile(c, s)
      PROVE  Types'
  <2>1. call[c] \in Calls /\ ix[s] \in Maybe(Files) /\ disk[s] \in Maybe(Files)
      OBVIOUS
  <2>2. call' \in [Clients -> Calls]
    <3>1. CASE ReadIndex(c, s)
      <4> DEFINE k == [call[c].card EXCEPT ![s] = ix[s]]
                 r == call[c].unread \ {s}
                 n == IF r = {} /\ Inert(c, k) THEN {} ELSE call[c].unstat
                 d == [call[c] EXCEPT !.card = k, !.unread = r, !.unstat = n]
      <4>1. k \in [Services -> Maybe(Files)] /\ r \in SUBSET Services /\ n \in SUBSET Services
          BY <2>1 DEF Calls
      <4>2. d \in Calls
        <5> HIDE DEF k, r, n
        <5> QED BY <2>1, <4>1 DEF Calls
      <4>3. call' = [call EXCEPT ![c] = d]
          BY <3>1 DEF ReadIndex
      <4> HIDE DEF d
      <4> QED BY <4>2, <4>3
    <3>2. CASE StatFile(c, s)
      <4> DEFINE n == call[c].noted \cup (IF Flagged(s) THEN {s} ELSE {})
                 f == [call[c].found EXCEPT ![s] = disk[s]]
                 u == call[c].unstat \ {s}
                 d == [call[c] EXCEPT !.unstat = u, !.found = f, !.noted = n]
      <4>1. f \in [Services -> Maybe(Files)] /\ u \in SUBSET Services /\ n \in SUBSET Services
          BY <2>1 DEF Calls
      <4>2. d \in Calls
        <5> HIDE DEF f, u, n
        <5> QED BY <2>1, <4>1 DEF Calls
      <4>3. call' = [call EXCEPT ![c] = d]
          BY <3>2 DEF StatFile
      <4> HIDE DEF d
      <4> QED BY <4>2, <4>3
    <3> QED BY <1>8, <3>1, <3>2
  <2> QED BY <1>8, <2>2 DEF ReadIndex, StatFile, disk_vars, mem_vars, lock_vars
<1>9. ASSUME NEW c \in Clients, Render(c)
      PROVE  Types'
  <2> DEFINE g == IF Errs(c) THEN NoFile ELSE Again(c)
             n == IF Errs(c) THEN {} ELSE call[c].noted
             o == ~Errs(c)
             d == [call[c] EXCEPT !.ok = o, !.again = g, !.noted = n]
  <2>1. call[c] \in Calls
      OBVIOUS
  <2>2. g \in Maybe(Files) /\ n \in SUBSET Services /\ o \in BOOLEAN
    <3>1. Again(c) \in Maybe(Files)
        BY <2>1 DEF Again, Maybe, Calls
    <3> QED BY <2>1, <3>1 DEF Maybe, Calls
  <2>3. d \in Calls
    <3> HIDE DEF g, n, o
    <3> QED BY <2>1, <2>2 DEF Calls
  <2>4. call' = [call EXCEPT ![c] = d]
      BY <1>9 DEF Render
  <2>5. call' \in [Clients -> Calls]
    <3> HIDE DEF d
    <3> QED BY <2>3, <2>4
  <2> QED BY <1>9, <2>5 DEF Render, Goto, States, disk_vars, mem_vars, lock_vars
<1>10. ASSUME NEW c \in Clients, ReloadRead(c) \/ ReloadFail(c) \/ ReloadStat(c) \/ ReloadAudit(c) \/ Reply(c)
       PROVE  Types'
  <2>1. call[c] \in Calls /\ call[c].svc \in Services /\ NewPin(c) \in Stamps \cup {NoStamp}
      BY DEF Calls, NewPin
  <2>2. CASE ReloadRead(c)
      BY <2>1, <2>2 DEF ReloadRead, LoadRead, Goto, States, disk_vars, lock_vars
  <2>3. CASE ReloadFail(c)
      BY <2>1, <2>3 DEF ReloadFail, Goto, States, Calls, disk_vars, mem_vars, lock_vars
  <2>4. CASE ReloadStat(c)
      BY <2>1, <2>4 DEF ReloadStat, LoadStat, Goto, States, Maybe, disk_vars, lock_vars
  <2>5. CASE ReloadAudit(c)
      BY <2>1, <2>5 DEF ReloadAudit, Audit, Goto, States, Maybe, disk_vars, lock_vars
  <2>6. CASE Reply(c)
      BY <2>6, IdleType DEF Reply, Goto, States, disk_vars, mem_vars, lock_vars
  <2> QED BY <1>10, <2>2, <2>3, <2>4, <2>5, <2>6
<1> QED BY <1>1, <1>2, <1>3, <1>4, <1>5, <1>6, <1>7, <1>8, <1>9, <1>10
        DEF Next, Process, Kill, Serve, LensStep, ReloadStep

(* Every step keeps the lock exclusive. *)
LEMMA MutexStep ==
    ASSUME Types, Mutex, Next
    PROVE  Mutex'
<1> USE FleetOK DEF Types
<1>1. CASE UNCHANGED <<lock_vars, pc>>
    BY <1>1 DEF Mutex, lock_vars
<1>2. CASE Reset
    BY <1>2 DEF Reset, Mutex, Inside, Owning
<1>3. ASSUME NEW c \in Clients, NEW to,
             pc' = [pc EXCEPT ![c] = to], UNCHANGED lock_vars,
             pc[c] \in Inside <=> to \in Inside,
             pc[c] \in Owning <=> to \in Owning,
             to \in Owning \ {"drain"} => readers = {}
      PROVE  Mutex'
    BY <1>3 DEF Mutex, lock_vars
<1>4. ASSUME NEW c \in Clients, RLock(c)
      PROVE  Mutex'
  <2>1. \A d \in Clients : pc[d] \notin Owning
      BY <1>4 DEF RLock, Mutex
  <2>2. \A d \in Clients : pc'[d] = IF d = c THEN "read" ELSE pc[d]
      BY <1>4 DEF RLock, Goto
  <2> QED BY <1>4, <2>1, <2>2 DEF RLock, Mutex, Inside, Owning
<1>5. ASSUME NEW c \in Clients, Lock(c)
      PROVE  Mutex'
  <2>1. \A d \in Clients : pc[d] \notin Owning
      BY <1>5 DEF Lock, Mutex
  <2>2. \A d \in Clients : pc'[d] = IF d = c THEN "drain" ELSE pc[d]
      BY <1>5 DEF Lock, Goto
  <2>3. pc[c] = "asked"
      BY <1>5 DEF Lock, Serving
  <2> QED BY <1>5, <2>1, <2>2, <2>3 DEF Lock, Mutex, Inside, Owning
<1>6. ASSUME NEW c \in Clients, RUnlock(c)
      PROVE  Mutex'
  <2>1. \A d \in Clients : pc'[d] = IF d = c THEN "done" ELSE pc[d]
      BY <1>6 DEF RUnlock, Goto
  <2>2. pc[c] = "rendered"
      BY <1>6 DEF RUnlock, Serving
  <2> QED BY <1>6, <2>1, <2>2 DEF RUnlock, Mutex, Inside, Owning
<1>7. ASSUME NEW c \in Clients, Unlock(c)
      PROVE  Mutex'
  <2>1. \A d \in Clients : pc'[d] = IF d = c THEN "done"
                                     ELSE IF pc[d] = "queued" THEN "read" ELSE pc[d]
      BY <1>7 DEF Unlock
  <2>2. pc[c] = "reloaded"
      BY <1>7 DEF Unlock, Serving
  <2>3. \A d \in Clients : pc[d] \in Owning => d = c
      BY <2>2 DEF Mutex, Owning
  <2>4. readers' = readers \cup {d \in Clients : pc[d] = "queued"}
      BY <1>7 DEF Unlock
  <2>5. \A d \in Clients : pc'[d] \notin Owning
      BY <2>1, <2>3 DEF Owning
  <2>6. readers' = {d \in Clients : pc'[d] \in Inside}
      BY <2>1, <2>2, <2>4 DEF Mutex, Inside
  <2> QED BY <1>7, <2>5, <2>6 DEF Unlock, Mutex
<1>8. ASSUME NEW c \in Clients, Ask(c) \/ Serve(c)
      PROVE  Mutex'
  <2> USE DEF Goto, Serving, Inside, Owning
  <2>1. CASE Ask(c)
      BY <1>3, <2>1 DEF Ask
  <2>2. CASE LensStep(c)
    <3>1. CASE RWait(c)
        BY <1>3, <3>1 DEF RWait
    <3>2. CASE Render(c)
        BY <1>3, <3>2 DEF Render
    <3>3. CASE \E s \in Services : ReadIndex(c, s) \/ StatFile(c, s)
        BY <1>1, <3>3 DEF ReadIndex, StatFile
    <3> QED BY <1>4, <1>6, <2>2, <3>1, <3>2, <3>3 DEF LensStep
  <2>3. CASE ReloadStep(c)
    <3>1. CASE Drained(c)
        BY <1>3, <3>1 DEF Drained
    <3>2. CASE ReloadRead(c)
      <4>1. readers = {}
          BY <3>2 DEF ReloadRead, Mutex
      <4> QED BY <1>3, <3>2, <4>1 DEF ReloadRead
    <3>3. CASE ReloadFail(c)
      <4>1. readers = {}
          BY <3>3 DEF ReloadFail, Mutex
      <4> QED BY <1>3, <3>3, <4>1 DEF ReloadFail
    <3>4. CASE ReloadStat(c)
      <4>1. readers = {}
          BY <3>4 DEF ReloadStat, Mutex
      <4> QED BY <1>3, <3>4, <4>1 DEF ReloadStat
    <3>5. CASE ReloadAudit(c)
      <4>1. readers = {}
          BY <3>5 DEF ReloadAudit, Mutex
      <4> QED BY <1>3, <3>5, <4>1 DEF ReloadAudit
    <3> QED BY <1>7, <2>3, <3>1, <3>2, <3>3, <3>4, <3>5 DEF ReloadStep
  <2>4. CASE Reply(c)
      BY <1>3, <2>4 DEF Reply
  <2> QED BY <1>8, <2>1, <2>2, <2>3, <2>4 DEF Serve
<1>9. CASE Pipeline \/ Process
  <2>1. CASE Pipeline
      BY <1>1, <2>1 DEF Pipeline, Deploy, Remove
  <2>2. CASE Process
      BY <1>1, <1>2, <2>2
         DEF Process, Start, BootServe, Kill, BootRead, BootFail, BootStat
  <2> QED BY <1>9, <2>1, <2>2
<1> QED BY <1>5, <1>8, <1>9 DEF Next

(* The server starts with nothing served and nobody asking. *)
LEMMA TypesInit == Init => Types /\ Mutex
<1> SUFFICES ASSUME Init PROVE Types /\ Mutex
    OBVIOUS
<1>1. Nothing \in [Services -> Maybe(Files)] /\ Idle \in Calls /\ "idle" \in States
    BY IdleType DEF Nothing, Maybe, States
<1>2. Types
    BY <1>1, FleetOK DEF Init, Types
<1>3. Mutex
    BY FleetOK DEF Init, Mutex, Inside, Owning
<1> QED BY <1>2, <1>3

(* The server's types hold, and its lock excludes: a reload that has been  *)
(* let in is alone, whatever queues, deployments and ends of the process.  *)
THEOREM TypesHold == Spec => []TypeOK
<1>1. Init => TypeOK
    BY TypesInit, TypeParts
<1>2. TypeOK /\ [Next]_vars => TypeOK'
  <2> SUFFICES ASSUME TypeOK, [Next]_vars PROVE TypeOK'
      OBVIOUS
  <2>1. CASE Next
    <3>1. Types' /\ Mutex'
        BY <2>1, TypeParts, TypesStep, MutexStep
    <3> QED BY <3>1 DEF TypeOK, Types, Mutex
  <2>2. CASE UNCHANGED vars
      BY <2>2 DEF vars, disk_vars, mem_vars, lock_vars, TypeOK
  <2> QED BY <2>1, <2>2
<1> QED BY <1>1, <1>2, PTL DEF Spec

(* Where a request may be: its tool, and nothing before the server is up.  *)
Places ==
    /\ phase # "up" => \A c \in Clients : pc[c] = "idle"
    /\ \A c \in Clients :
          /\ pc[c] \in Owning => call[c].tool = "reload"
          /\ pc[c] \in {"queued"} \cup Inside => call[c].tool # "reload"

(* Every step keeps each client at a place that its call has. *)
LEMMA PlacesStep ==
    ASSUME Types, Places, Next
    PROVE  Places'
<1> USE DEF Types
<1>1. CASE Pipeline
    BY <1>1 DEF Pipeline, Deploy, Remove, Places
<1>2. CASE Reset
    BY <1>2 DEF Reset, Places, Owning, Inside
<1>3. CASE Process
  <2>1. CASE Start \/ BootServe
      BY <2>1 DEF Start, BootServe, Places, Owning, Inside
  <2>2. ASSUME NEW s \in Services, BootRead(s) \/ BootStat(s)
        PROVE  Places'
      BY <2>2 DEF BootRead, BootStat, Places
  <2> QED BY <1>2, <1>3, <2>1, <2>2 DEF Process, Kill, BootFail
<1>4. ASSUME NEW c \in Clients, phase = "up", phase' = phase, NEW to,
             pc' = [pc EXCEPT ![c] = to],
             \A d \in Clients : d # c => call'[d] = call[d],
             to \in Owning => call'[c].tool = "reload",
             to \in {"queued"} \cup Inside => call'[c].tool # "reload"
      PROVE  Places'
    BY <1>4 DEF Places
<1>5. ASSUME NEW c \in Clients, Ask(c)
      PROVE  Places'
  <2>1. PICK r : call' = [call EXCEPT ![c] = r]
      BY <1>5 DEF Ask
  <2> QED BY <1>4, <1>5, <2>1 DEF Ask, Serving, Goto, Owning, Inside
<1>6. ASSUME NEW c \in Clients, Lock(c)
      PROVE  Places'
    BY <1>4, <1>6 DEF Lock, Serving, Goto, Owning, Inside
<1>7. ASSUME NEW c \in Clients, LensStep(c)
      PROVE  Places'
  <2>1. CASE RLock(c) \/ RWait(c) \/ RUnlock(c)
      BY <1>4, <2>1 DEF RLock, RWait, RUnlock, Serving, Goto, Owning, Inside
  <2>2. CASE Render(c)
    <3>1. call[c] \in Calls /\ call[c].tool # "reload" /\ phase = "up"
        BY <2>2 DEF Render, Serving, Places, Inside
    <3>2. call'[c].tool = call[c].tool /\ \A d \in Clients : d # c => call'[d] = call[d]
        BY <2>2, <3>1 DEF Render, Calls
    <3> QED BY <1>4, <2>2, <3>1, <3>2 DEF Render, Goto, Owning, Inside
  <2>3. ASSUME NEW s \in Services, ReadIndex(c, s) \/ StatFile(c, s)
        PROVE  Places'
    <3>1. call[c] \in Calls /\ phase = "up" /\ UNCHANGED <<phase, pc>>
        BY <2>3 DEF ReadIndex, StatFile, Serving
    <3>2. call'[c].tool = call[c].tool /\ \A d \in Clients : d # c => call'[d] = call[d]
        BY <2>3, <3>1 DEF ReadIndex, StatFile, Calls
    <3> QED BY <3>1, <3>2 DEF Places
  <2> QED BY <1>7, <2>1, <2>2, <2>3 DEF LensStep
<1>8. ASSUME NEW c \in Clients, ReloadStep(c)
      PROVE  Places'
  <2>1. CASE Drained(c) \/ ReloadRead(c) \/ ReloadStat(c) \/ ReloadAudit(c)
      BY <1>4, <2>1 DEF Drained, ReloadRead, ReloadStat, ReloadAudit, Serving, Goto,
                        Places, Owning, Inside
  <2>2. CASE ReloadFail(c)
    <3>1. call[c] \in Calls /\ call[c].tool = "reload" /\ phase = "up"
        BY <2>2 DEF ReloadFail, Serving, Places, Owning
    <3>2. call'[c].tool = call[c].tool /\ \A d \in Clients : d # c => call'[d] = call[d]
        BY <2>2, <3>1 DEF ReloadFail, Calls
    <3> QED BY <1>4, <2>2, <3>1, <3>2 DEF ReloadFail, Goto, Owning, Inside
  <2>3. CASE Unlock(c)
    <3>1. \A d \in Clients : pc'[d] = IF d = c THEN "done"
                                       ELSE IF pc[d] = "queued" THEN "read" ELSE pc[d]
        BY <2>3 DEF Unlock
    <3>2. phase = "up" /\ UNCHANGED <<phase, call>>
        BY <2>3 DEF Unlock, Serving
    <3> QED BY <3>1, <3>2 DEF Places, Owning, Inside
  <2> QED BY <1>8, <2>1, <2>2, <2>3 DEF ReloadStep
<1>9. ASSUME NEW c \in Clients, Reply(c)
      PROVE  Places'
    BY <1>4, <1>9 DEF Reply, Serving, Goto, Owning, Inside
<1> QED BY <1>1, <1>3, <1>5, <1>6, <1>7, <1>8, <1>9 DEF Next, Serve

Fits(f, p) == p = NoStamp \/ Stamp[f] = p

Reloads(s) == \E c \in Clients : pc[c] = "loaded" /\ call[c].svc = s

(* What is loaded or being loaded is a graph that its pin allows.          *)
Loads ==
    /\ \A s \in Services : Loading(s) => Fits(read[s], expect[s])
    /\ phase = "down" => unloaded = Services /\ \A s \in Services : ~Loading(s)
    /\ phase = "boot" => \A s \in Services :
          /\ Loading(s) => s \in unloaded
          /\ s \in unloaded \/ (ix[s] \in Files /\ Fits(ix[s], expect[s]))
    /\ phase = "up" => \A s \in Services :
          /\ ix[s] \in Files
          /\ Loading(s) \/ Fits(ix[s], expect[s])
          /\ Loading(s) <=> Reloads(s)

(* Between reloads the cached audit is the audit of the graph served.      *)
Audits == phase = "up" => \A s \in Services : Pending(s) \/ body[s] = Audit(s)

Server == Types /\ Mutex /\ Places /\ Loads /\ Audits

(* What can be loaded is a file on disk that fits the pin. *)
LEMMA LoadableFacts ==
    ASSUME NEW s \in Services, NEW p, Loadable(s, p)
    PROVE  disk[s] \in Files /\ disk[s] # NoFile /\ Fits(disk[s], p)
    BY FleetOK DEF Loadable, Fits

(* Steps that leave the server's memory and the places of reloads alone.   *)
LEMMA ServerKept ==
    ASSUME Server, UNCHANGED <<phase, unloaded, read, mem_vars>>,
           \A c \in Clients : pc'[c] \in {"loaded", "audit"} \/ pc[c] \in {"loaded", "audit"} =>
               pc'[c] = pc[c] /\ call'[c].svc = call[c].svc
    PROVE  Loads' /\ Audits'
<1>1. \A s \in Services : Reloads(s)' <=> Reloads(s)
    BY DEF Reloads
<1>2. \A s \in Services : Loading(s)' <=> Loading(s)
    BY DEF Loading
<1>3. \A s \in Services : Pending(s)' <=> Pending(s)
  <2>1. \A s \in Services : (\E c \in Clients : pc[c] = "audit" /\ call[c].svc = s)'
                            <=> \E c \in Clients : pc[c] = "audit" /\ call[c].svc = s
      OBVIOUS
  <2> QED BY <1>2, <2>1 DEF Pending
<1>4. Loads'
    BY <1>1, <1>2 DEF Server, Loads, Fits, mem_vars
<1>5. Audits'
    BY <1>3 DEF Server, Audits, Audit, mem_vars
<1> QED BY <1>4, <1>5

(* Booting keeps what is served as it was loaded and audited. *)
LEMMA ServerBoots ==
    ASSUME Server, Process
    PROVE  Loads' /\ Audits'
<1> USE FleetOK DEF Server, Types
<1>1. CASE Start
    BY <1>1 DEF Start, Loads, Audits, Loading, Fits, mem_vars
<1>2. CASE Reset
    BY <1>2 DEF Reset, Loads, Audits, Loading, Nothing
<1>3. ASSUME NEW s \in Services, BootRead(s)
      PROVE  Loads' /\ Audits'
  <2>1. disk[s] \in Files /\ disk[s] # NoFile /\ Fits(disk[s], expect[s])
      BY <1>3, LoadableFacts DEF BootRead
  <2>2. \A t \in Services : read'[t] = IF t = s THEN disk[s] ELSE read[t]
      BY <1>3 DEF BootRead, LoadRead
  <2> QED BY <1>3, <2>1, <2>2 DEF BootRead, Loads, Audits, Loading, Fits, mem_vars
<1>4. ASSUME NEW s \in Services, BootStat(s)
      PROVE  Loads' /\ Audits'
  <2>1. \A t \in Services : /\ read'[t] = IF t = s THEN NoFile ELSE read[t]
                            /\ ix'[t] = IF t = s THEN read[s] ELSE ix[t]
      BY <1>4 DEF BootStat, LoadStat
  <2>2. read[s] \in Files /\ Fits(read[s], expect[s])
      BY <1>4 DEF BootStat, Loads, Loading, Maybe
  <2> QED BY <1>4, <2>1, <2>2 DEF BootStat, Loads, Audits, Loading, Fits
<1>5. CASE BootServe
  <2>1. \A s \in Services : ~Loading(s) /\ ix[s] \in Files /\ Fits(ix[s], expect[s])
      BY <1>5 DEF BootServe, Loads
  <2>2. \A c \in Clients : pc[c] = "idle"
      BY <1>5 DEF BootServe, Places
  <2>3. \A s \in Services : ~Reloads(s)'
      BY <1>5, <2>2 DEF BootServe, Reloads
  <2>4. Loads'
      BY <1>5, <2>1, <2>3 DEF BootServe, Loads, Loading, Fits
  <2>5. Audits'
      BY <1>5 DEF BootServe, Audits, Audit
  <2> QED BY <2>4, <2>5
<1> QED BY <1>1, <1>2, <1>3, <1>4, <1>5 DEF Process, Kill, BootFail

(* So does each step of a reload. *)
LEMMA ServerReloads ==
    ASSUME Server, NEW c \in Clients, ReloadStep(c)
    PROVE  Loads' /\ Audits'
<1> USE FleetOK DEF Server, Types
<1> DEFINE s == call[c].svc
<1>1. call[c] \in Calls /\ s \in Services
    BY DEF Calls
<1>2. \A d \in Clients : pc[c] \in Owning /\ pc[d] \in Owning => d = c
    BY DEF Mutex
<1>3. CASE Drained(c) \/ ReloadFail(c) \/ Unlock(c)
  <2>1. \A d \in Clients : pc'[d] \in {"loaded", "audit"} \/ pc[d] \in {"loaded", "audit"} =>
               pc'[d] = pc[d] /\ call'[d].svc = call[d].svc
      BY <1>3, <1>1 DEF Drained, ReloadFail, Unlock, Serving, Goto, Calls
  <2>2. UNCHANGED <<phase, unloaded, read, mem_vars>>
      BY <1>3 DEF Drained, ReloadFail, Unlock
  <2> HIDE DEF Server
  <2> QED BY <2>1, <2>2, ServerKept
<1>4. CASE ReloadRead(c)
  <2>1. disk[s] \in Files /\ disk[s] # NoFile /\ Fits(disk[s], NewPin(c))
      BY <1>1, <1>4, LoadableFacts DEF ReloadRead
  <2>2. \A t \in Services : /\ read'[t] = IF t = s THEN disk[s] ELSE read[t]
                            /\ expect'[t] = IF t = s THEN NewPin(c) ELSE expect[t]
      BY <1>4 DEF ReloadRead, LoadRead
  <2>3. phase = "up" /\ pc[c] = "reload" /\ UNCHANGED <<phase, unloaded, ix, body, call>>
      BY <1>4 DEF ReloadRead, Serving
  <2>4. \A d \in Clients : pc'[d] = IF d = c THEN "loaded" ELSE pc[d]
      BY <1>4 DEF ReloadRead, Goto
  <2>5. \A d \in Clients : pc[d] \in {"loaded", "audit"} => FALSE
      BY <1>2, <2>3 DEF Owning
  <2>6. \A t \in Services : Reloads(t)' <=> t = s
      BY <1>1, <2>3, <2>4, <2>5 DEF Reloads
  <2>7. \A t \in Services : ~Loading(t)
      BY <2>3, <2>5 DEF Loads, Reloads
  <2>8. \A t \in Services : Loading(t)' <=> t = s
      BY <1>1, <2>1, <2>2, <2>7 DEF Loading
  <2>9. Loads'
      BY <1>1, <2>1, <2>2, <2>3, <2>6, <2>7, <2>8 DEF Loads, Fits
  <2>10. Audits'
    <3>1. \A t \in Services : ~Pending(t)
        BY <2>5, <2>7 DEF Pending
    <3>2. Pending(s)'
        BY <1>1, <2>3, <2>8 DEF Pending
    <3> QED BY <2>3, <3>1, <3>2 DEF Audits, Audit
  <2> QED BY <2>9, <2>10
<1>5. CASE ReloadStat(c)
  <2>1. phase = "up" /\ pc[c] = "loaded" /\ UNCHANGED <<phase, unloaded, expect, body, call>>
      BY <1>5 DEF ReloadStat, Serving
  <2>2. \A t \in Services : /\ read'[t] = IF t = s THEN NoFile ELSE read[t]
                            /\ ix'[t] = IF t = s THEN read[s] ELSE ix[t]
      BY <1>5 DEF ReloadStat, LoadStat
  <2>3. \A d \in Clients : pc'[d] = IF d = c THEN "audit" ELSE pc[d]
      BY <1>5 DEF ReloadStat, Goto
  <2>4. \A d \in Clients : pc[d] \in {"loaded", "audit"} => d = c
      BY <1>2, <2>1 DEF Owning
  <2>5. \A t \in Services : Loading(t) <=> t = s
      BY <1>1, <2>1, <2>4 DEF Loads, Reloads
  <2>6. \A t \in Services : ~Reloads(t)'
      BY <2>3, <2>4 DEF Reloads
  <2>7. \A t \in Services : ~Loading(t)'
      BY <2>2, <2>5 DEF Loading
  <2>8. read[s] \in Files /\ Fits(read[s], expect[s])
      BY <1>1, <2>5 DEF Loads, Loading, Maybe
  <2>9. Loads'
      BY <1>1, <2>1, <2>2, <2>5, <2>6, <2>7, <2>8 DEF Loads, Fits
  <2>10. Audits'
    <3>1. \A t \in Services : Pending(t) => t = s
        BY <2>1, <2>4, <2>5 DEF Pending
    <3>2. Pending(s)'
        BY <1>1, <2>1, <2>3 DEF Pending
    <3> QED BY <2>1, <2>2, <3>1, <3>2 DEF Audits, Audit
  <2> QED BY <2>9, <2>10
<1>6. CASE ReloadAudit(c)
  <2>1. phase = "up" /\ pc[c] = "audit" /\ UNCHANGED <<phase, unloaded, read, ix, expect, call>>
      BY <1>6 DEF ReloadAudit, Serving
  <2>2. \A d \in Clients : pc'[d] = IF d = c THEN "reloaded" ELSE pc[d]
      BY <1>6 DEF ReloadAudit, Goto
  <2>3. \A d \in Clients : pc[d] \in {"loaded", "audit"} => d = c
      BY <1>2, <2>1 DEF Owning
  <2>4. \A t \in Services : ~Loading(t)
      BY <2>1, <2>3 DEF Loads, Reloads
  <2>5. Loads'
    <3>1. \A t \in Services : ~Reloads(t)'
        BY <2>1, <2>2, <2>3 DEF Reloads
    <3> QED BY <2>1, <2>4, <3>1 DEF Loads, Loading, Fits
  <2>6. Audits'
    <3>1. \A t \in Services : Pending(t) => t = s
        BY <2>1, <2>3, <2>4 DEF Pending
    <3>2. \A t \in Services : body'[t] = IF t = s THEN Audit(s) ELSE body[t]
        BY <1>6 DEF ReloadAudit
    <3> QED BY <2>1, <3>1, <3>2 DEF Audits, Audit
  <2> QED BY <2>5, <2>6
<1> QED BY <1>3, <1>4, <1>5, <1>6 DEF ReloadStep

(* So does every step. *)
LEMMA ServerStep ==
    ASSUME Server, Next
    PROVE  Server'
<1>1. Types' /\ Mutex' /\ Places'
    BY TypesStep, MutexStep, PlacesStep DEF Server
<1>2. Loads' /\ Audits'
  <2>1. CASE Pipeline
    <3>1. UNCHANGED <<phase, unloaded, read, mem_vars, pc, call>>
        BY <2>1 DEF Pipeline, Deploy, Remove
    <3> QED BY <3>1, ServerKept
  <2>2. CASE Process
      BY <2>2, ServerBoots
  <2>3. ASSUME NEW c \in Clients, Ask(c) \/ Lock(c) \/ LensStep(c) \/ Reply(c)
        PROVE  Loads' /\ Audits'
    <3>1. UNCHANGED <<phase, unloaded, read, mem_vars>>
        BY <2>3 DEF Ask, Lock, LensStep, RLock, RWait, Render, RUnlock, ReadIndex,
                    StatFile, Reply
    <3>2. pc[c] \notin {"loaded", "audit"}
        BY <2>3 DEF Ask, Lock, LensStep, RLock, RWait, Render, RUnlock, ReadIndex,
                    StatFile, Reply, Serving
    <3>3. pc'[c] \notin {"loaded", "audit"}
        BY <2>3, <3>2 DEF Ask, Lock, LensStep, RLock, RWait, Render, RUnlock, ReadIndex,
                    StatFile, Reply, Goto, Server, Types
    <3>4. \A d \in Clients : d # c => pc'[d] = pc[d] /\ call'[d] = call[d]
        BY <2>3 DEF Ask, Lock, LensStep, RLock, RWait, Render, RUnlock, ReadIndex,
                    StatFile, Reply, Goto, Server, Types
    <3> QED BY <3>1, <3>2, <3>3, <3>4, ServerKept
  <2>4. ASSUME NEW c \in Clients, ReloadStep(c)
        PROVE  Loads' /\ Audits'
      BY <2>4, ServerReloads
  <2> QED BY <2>1, <2>2, <2>3, <2>4 DEF Next, Serve
<1> QED BY <1>1, <1>2 DEF Server

(* Before the boot nothing is served. *)
LEMMA ServerInit == Init => Server
<1> SUFFICES ASSUME Init PROVE Server
    OBVIOUS
<1>1. Types /\ Mutex
    BY TypesInit
<1>2. Places /\ Loads /\ Audits
    BY DEF Init, Places, Loads, Audits, Loading, Nothing, Owning, Inside
<1> QED BY <1>1, <1>2 DEF Server

(* The invariant of the server is inductive. *)
LEMMA ServerInductive == Server /\ [Next]_vars => Server'
<1> SUFFICES ASSUME Server, [Next]_vars PROVE Server'
    OBVIOUS
<1>1. CASE Next
    BY <1>1, ServerStep
<1>2. CASE UNCHANGED vars
  <2>1. Types' /\ Mutex' /\ Places'
      BY <1>2 DEF vars, disk_vars, mem_vars, lock_vars, Server, Types, Mutex, Places
  <2>2. UNCHANGED <<phase, unloaded, read, mem_vars, pc, call>>
      BY <1>2 DEF vars
  <2> QED BY <2>1, <2>2, ServerKept DEF Server
<1> QED BY <1>1, <1>2

(* Whatever reloads succeed, fail or wait, and however often the process   *)
(* is started, a service with a pin answers from a graph that carries it.  *)
THEOREM PinsHold == Spec => []ServedIsExpected
<1>1. Server => ServedIsExpected
    BY DEF Server, Loads, Fits, ServedIsExpected
<1> QED BY <1>1, ServerInit, ServerInductive, PTL DEF Spec

(* What a request has gathered is from the graphs served while it holds    *)
(* the read lock.                                                          *)
Card(c) ==
    /\ pc[c] \in {"asked", "queued"} => call[c].card = Nothing
    /\ pc[c] \in {"asked", "queued", "read"} => call[c].again = NoFile
    /\ pc[c] \in Inside => \A s \in Services : call[c].card[s] \in {NoFile, ix[s]}
    /\ pc[c] = "rendered" => call[c].again \in {NoFile, ix[call[c].svc]}

Cards == \A c \in Clients : Card(c)

(* A client that is inside keeps every reload out.                         *)
LEMMA NoneReloads ==
    ASSUME Server, NEW c \in Clients, pc[c] \in Inside
    PROVE  /\ phase = "up"
           /\ \A d \in Clients : pc[d] \notin Owning \ {"drain"}
           /\ \A s \in Services : ~Loading(s) /\ ~Pending(s)
<1>1. c \in readers
    BY DEF Server, Mutex
<1>2. \A d \in Clients : pc[d] \notin Owning \ {"drain"}
    BY <1>1 DEF Server, Mutex
<1>3. phase = "up"
    BY DEF Server, Places, Types, Inside
<1>4. \A d \in Clients : pc[d] \notin {"loaded", "audit"}
    BY <1>2 DEF Owning
<1>5. \A s \in Services : ~Loading(s)
    BY <1>3, <1>4 DEF Server, Loads, Reloads
<1> QED BY <1>2, <1>3, <1>4, <1>5 DEF Pending

(* What the three steps of a lens do to its request.                       *)
LEMMA LensEffects ==
    ASSUME Types, NEW c \in Clients, NEW s \in Services
    PROVE  /\ ReadIndex(c, s) =>
                /\ phase = "up" /\ pc[c] = "read" /\ s \in call[c].unread
                /\ \A d \in Clients : d # c => call'[d] = call[d]
                /\ call'[c].card = [call[c].card EXCEPT ![s] = ix[s]]
                /\ call'[c].unread = call[c].unread \ {s}
                /\ call'[c].unstat \subseteq call[c].unstat
                /\ \A f \in {"tool", "svc", "again", "noted", "found", "ok"} : call'[c][f] = call[c][f]
           /\ StatFile(c, s) =>
                /\ phase = "up" /\ pc[c] = "read" /\ s \in call[c].unstat
                /\ \A d \in Clients : d # c => call'[d] = call[d]
                /\ call'[c].unstat = call[c].unstat \ {s}
                /\ call'[c].found = [call[c].found EXCEPT ![s] = disk[s]]
                /\ call'[c].noted = call[c].noted \cup (IF Flagged(s) THEN {s} ELSE {})
                /\ \A f \in {"tool", "svc", "card", "again", "unread", "ok"} : call'[c][f] = call[c][f]
<1>1. call[c] \in Calls
    BY DEF Types
<1>2. ASSUME ReadIndex(c, s)
      PROVE  /\ phase = "up" /\ pc[c] = "read" /\ s \in call[c].unread
             /\ \A d \in Clients : d # c => call'[d] = call[d]
             /\ call'[c].card = [call[c].card EXCEPT ![s] = ix[s]]
             /\ call'[c].unread = call[c].unread \ {s}
             /\ call'[c].unstat \subseteq call[c].unstat
             /\ \A f \in {"tool", "svc", "again", "noted", "found", "ok"} : call'[c][f] = call[c][f]
    BY <1>1, <1>2 DEF ReadIndex, Serving, Types, Calls
<1>3. ASSUME StatFile(c, s)
      PROVE  /\ phase = "up" /\ pc[c] = "read" /\ s \in call[c].unstat
             /\ \A d \in Clients : d # c => call'[d] = call[d]
             /\ call'[c].unstat = call[c].unstat \ {s}
             /\ call'[c].found = [call[c].found EXCEPT ![s] = disk[s]]
             /\ call'[c].noted = call[c].noted \cup (IF Flagged(s) THEN {s} ELSE {})
             /\ \A f \in {"tool", "svc", "card", "again", "unread", "ok"} : call'[c][f] = call[c][f]
    BY <1>1, <1>3 DEF StatFile, Serving, Types, Calls
<1> QED BY <1>2, <1>3

(* What rendering a card changes: the call of its client, and in it only   *)
(* what the card is made of.                                               *)
LEMMA RenderEffects ==
    ASSUME Types, NEW c \in Clients, Render(c)
    PROVE  /\ phase = "up" /\ pc[c] = "read" /\ call[c].unread = {}
           /\ \A d \in Clients : pc'[d] = IF d = c THEN "rendered" ELSE pc[d]
           /\ \A d \in Clients : d # c => call'[d] = call[d]
           /\ call'[c].ok = ~Errs(c)
           /\ call'[c].again = IF Errs(c) THEN NoFile ELSE Again(c)
           /\ call'[c].noted = IF Errs(c) THEN {} ELSE call[c].noted
           /\ \A f \in {"tool", "svc", "card", "unread", "unstat", "found"} : call'[c][f] = call[c][f]
<1>1. call[c] \in Calls
    BY DEF Types
<1>2. /\ phase = "up" /\ pc[c] = "read" /\ call[c].unread = {}
      /\ \A d \in Clients : pc'[d] = IF d = c THEN "rendered" ELSE pc[d]
    BY DEF Render, Serving, Goto, Types
<1>3. /\ \A d \in Clients : d # c => call'[d] = call[d]
      /\ call'[c].ok = ~Errs(c)
      /\ call'[c].again = IF Errs(c) THEN NoFile ELSE Again(c)
      /\ call'[c].noted = IF Errs(c) THEN {} ELSE call[c].noted
      /\ \A f \in {"tool", "svc", "card", "unread", "unstat", "found"} : call'[c][f] = call[c][f]
    BY <1>1 DEF Render, Types, Calls
<1> QED BY <1>2, <1>3

(* The second reading of a lens is of the graph that is served.            *)
LEMMA AgainServed ==
    ASSUME Server, NEW c \in Clients, pc[c] = "read"
    PROVE  Again(c) \in {NoFile, ix[call[c].svc]}
<1>1. call[c] \in Calls /\ call[c].svc \in Services
    BY DEF Server, Types, Calls
<1>2. phase = "up" /\ ~Pending(call[c].svc)
    BY <1>1, NoneReloads DEF Inside
<1>3. body[call[c].svc] \in {NoFile, ix[call[c].svc]}
    BY <1>1, <1>2 DEF Server, Audits, Audit
<1> QED BY <1>3 DEF Again

(* Every step keeps each card a picture of one moment. *)
LEMMA CardsStep ==
    ASSUME Server, Cards, Next
    PROVE  Cards'
<1> USE DEF Cards
<1>1. CASE UNCHANGED <<pc, call, ix>>
    BY <1>1 DEF Card
<1>2. CASE Reset
    BY <1>2 DEF Reset, Card, Inside
<1>3. CASE Process
  <2>1. CASE \E s \in Services : BootStat(s)
    <3>1. \A c \in Clients : pc'[c] = "idle"
        BY <2>1 DEF BootStat, Server, Places
    <3> QED BY <3>1 DEF Card, Inside
  <2> QED BY <1>1, <1>2, <1>3, <2>1
          DEF Process, Start, BootServe, Kill, BootRead, BootFail, mem_vars
<1>4. ASSUME NEW c \in Clients, UNCHANGED ix,
             \A d \in Clients : d # c => pc'[d] = pc[d] /\ call'[d] = call[d],
             Card(c)'
      PROVE  Cards'
  <2> SUFFICES ASSUME NEW d \in Clients PROVE Card(d)'
      OBVIOUS
  <2>1. CASE d = c
      BY <1>4, <2>1
  <2>2. CASE d # c
    <3>1. Card(d) /\ pc'[d] = pc[d] /\ call'[d] = call[d] /\ ix' = ix
        BY <1>4, <2>2
    <3> QED BY <3>1 DEF Card
  <2> QED BY <2>1, <2>2
<1>5. ASSUME NEW c \in Clients, Ask(c)
      PROVE  Cards'
  <2>1. PICK t \in Tools, s \in Services, e \in Stamps \cup {NoStamp} :
            call' = [call EXCEPT ![c] = Request(t, s, e)]
      BY <1>5 DEF Ask
  <2>2. /\ pc' = [pc EXCEPT ![c] = "asked"] /\ UNCHANGED ix
        /\ call'[c].card = Nothing /\ call'[c].again = NoFile
      BY <1>5, <2>1 DEF Ask, Goto, mem_vars, Server, Types, Request
  <2>3. Card(c)'
      BY <2>2 DEF Card, Inside, Server, Types
  <2> QED BY <1>4, <2>1, <2>2, <2>3 DEF Server, Types
<1>6. ASSUME NEW c \in Clients, Lock(c) \/ RLock(c) \/ RWait(c) \/ RUnlock(c)
      PROVE  Cards'
  <2>1. /\ UNCHANGED <<call, ix>>
        /\ \A d \in Clients : d # c => pc'[d] = pc[d]
      BY <1>6 DEF Lock, RLock, RWait, RUnlock, Goto, mem_vars, Server, Types
  <2>2. pc'[c] \in {"drain", "read", "queued", "done"}
      BY <1>6 DEF Lock, RLock, RWait, RUnlock, Goto, Server, Types
  <2>3. pc'[c] # "done" => pc[c] = "asked"
      BY <1>6 DEF Lock, RLock, RWait, RUnlock, Goto, Serving, Server, Types
  <2>4. Card(c)'
      BY <2>1, <2>2, <2>3 DEF Card, Inside, Nothing
  <2> QED BY <1>4, <2>1, <2>4
<1>7. ASSUME NEW c \in Clients, NEW s \in Services, ReadIndex(c, s) \/ StatFile(c, s)
      PROVE  Cards'
  <2>1. pc[c] = "read" /\ UNCHANGED <<pc, ix>> /\ \A d \in Clients : d # c => call'[d] = call[d]
      BY <1>7, LensEffects DEF ReadIndex, StatFile, mem_vars, Server
  <2>2. call'[c].again = call[c].again
      BY <1>7, LensEffects DEF Server
  <2>3. call[c].card \in [Services -> Maybe(Files)]
      BY DEF Server, Types, Calls
  <2>4. call'[c].card \in {call[c].card, [call[c].card EXCEPT ![s] = ix[s]]}
      BY <1>7, LensEffects DEF Server
  <2>5. Card(c)'
    <3>1. Card(c)
        OBVIOUS
    <3> QED BY <2>1, <2>2, <2>3, <2>4, <3>1 DEF Card, Inside
  <2> QED BY <1>4, <2>1, <2>5
<1>8. ASSUME NEW c \in Clients, Render(c)
      PROVE  Cards'
  <2>1. /\ pc[c] = "read" /\ pc'[c] = "rendered" /\ UNCHANGED ix
        /\ \A d \in Clients : d # c => pc'[d] = pc[d] /\ call'[d] = call[d]
      BY <1>8, RenderEffects DEF Render, mem_vars, Server
  <2>2. call'[c].again \in {NoFile, Again(c)} /\ call'[c].card = call[c].card
        /\ call'[c].svc = call[c].svc
      BY <1>8, RenderEffects DEF Server
  <2>3. Card(c)'
    <3>1. Card(c)
        OBVIOUS
    <3> QED BY <2>1, <2>2, <3>1, AgainServed DEF Card, Inside
  <2> QED BY <1>4, <2>1, <2>3
<1>9. ASSUME NEW c \in Clients, ReloadStep(c)
      PROVE  Cards'
  <2>1. CASE Unlock(c)
    <3>1. \A d \in Clients : pc'[d] = IF d = c THEN "done"
                                       ELSE IF pc[d] = "queued" THEN "read" ELSE pc[d]
        BY <2>1 DEF Unlock
    <3>2. UNCHANGED <<call, ix>>
        BY <2>1 DEF Unlock, mem_vars
    <3> QED BY <3>1, <3>2 DEF Card, Inside, Nothing
  <2>2. CASE ReloadStat(c)
    <3>1. \A d \in Clients : pc[d] \notin Inside
        BY <2>2 DEF ReloadStat, Serving, Server, Mutex, Owning
    <3>2. UNCHANGED call /\ \A d \in Clients : pc'[d] = IF d = c THEN "audit" ELSE pc[d]
        BY <2>2 DEF ReloadStat, Goto, Server, Types
    <3> QED BY <3>1, <3>2 DEF Card, Inside
  <2>3. CASE Drained(c) \/ ReloadRead(c) \/ ReloadFail(c) \/ ReloadAudit(c)
    <3>1. UNCHANGED ix /\ \A d \in Clients : d # c => pc'[d] = pc[d] /\ call'[d] = call[d]
        BY <2>3 DEF Drained, ReloadRead, ReloadFail, ReloadAudit, Goto, mem_vars, Server, Types
    <3>2. pc'[c] \in {"reload", "loaded", "reloaded"}
        BY <2>3 DEF Drained, ReloadRead, ReloadFail, ReloadAudit, Goto, Server, Types
    <3>3. Card(c)'
        BY <3>2 DEF Card, Inside
    <3> QED BY <1>4, <3>1, <3>3
  <2> QED BY <1>9, <2>1, <2>2, <2>3 DEF ReloadStep
<1>10. ASSUME NEW c \in Clients, Reply(c)
      PROVE  Cards'
  <2>1. UNCHANGED ix /\ pc'[c] = "idle" /\ \A d \in Clients : d # c => pc'[d] = pc[d] /\ call'[d] = call[d]
      BY <1>10 DEF Reply, Goto, mem_vars, Server, Types
  <2>2. Card(c)'
      BY <2>1 DEF Card, Inside
  <2> QED BY <1>4, <2>1, <2>2
<1>11. CASE Pipeline
    BY <1>1, <1>11 DEF Pipeline, Deploy, Remove, mem_vars
<1> QED BY <1>3, <1>5, <1>6, <1>7, <1>8, <1>9, <1>10, <1>11 DEF Next, Serve, LensStep

(* The invariant of the cards is inductive. *)
LEMMA CardsInductive ==
    /\ Init => Server /\ Cards
    /\ Server /\ Cards /\ [Next]_vars => Server' /\ Cards'
<1>1. Init => Cards
    BY DEF Init, Cards, Card, Inside
<1>2. ASSUME Server, Cards, UNCHANGED vars
      PROVE  Cards'
    BY <1>2 DEF vars, mem_vars, Cards, Card
<1> QED BY <1>1, <1>2, ServerInit, ServerInductive, CardsStep

(* Steps that leave the graphs, the audits and the pins of the contract.   *)
LEMMA GraphsKept ==
    ASSUME UNCHANGED <<phase, read, mem_vars>>,
           \A c \in Clients : pc'[c] = "audit" \/ pc[c] = "audit" =>
               pc'[c] = pc[c] /\ call'[c].svc = call[c].svc
    PROVE  UNCHANGED <<ServedNow, AuditedNow, expect>>
<1>1. \A s \in Services : Loading(s)' <=> Loading(s)
    BY DEF Loading
<1>2. \A s \in Services : (\E c \in Clients : pc[c] = "audit" /\ call[c].svc = s)'
                          <=> \E c \in Clients : pc[c] = "audit" /\ call[c].svc = s
    OBVIOUS
<1>3. \A s \in Services : Pending(s)' <=> Pending(s)
    BY <1>1, <1>2 DEF Pending
<1>4. ServedNow' = ServedNow
    BY <1>1 DEF ServedNow, mem_vars
<1> QED BY <1>3, <1>4 DEF AuditedNow, mem_vars

(* What a client was answered from changes only when it is answered. *)
LEMMA UsedKept ==
    ASSUME NEW c \in Clients,
           \/ pc'[c] = pc[c] /\ call'[c] = call[c]
           \/ /\ pc[c] # "done" \/ call[c].tool = "reload"
              /\ pc'[c] # "done" \/ call'[c].tool = "reload"
    PROVE  Used(c)' = Used(c)
    BY DEF Used

Taken == [c \in Clients |-> Used(c)]

(* A step of the boot: the server is not there yet, comes up or is gone.   *)
LEMMA ProcessMaps ==
    ASSUME Server, Process
    PROVE  \/ UNCHANGED <<ServedNow, AuditedNow, expect, Taken>>
           \/ Contract!Serve \/ Contract!Stop
<1> USE DEF Server, Types
<1>1. CASE Start \/ \E s \in Services : BootRead(s) \/ BootStat(s)
  <2>1. phase # "up" /\ phase' # "up" /\ UNCHANGED <<expect, pc, call>>
      BY <1>1 DEF Start, BootRead, BootStat, mem_vars
  <2>2. UNCHANGED <<ServedNow, AuditedNow>>
      BY <2>1 DEF ServedNow, AuditedNow, Nothing
  <2>3. UNCHANGED Taken
      BY <2>1 DEF Taken, Used
  <2> QED BY <2>1, <2>2, <2>3
<1>2. CASE Reset
  <2>1. phase' # "up" /\ expect' \in [Services -> Stamps \cup {NoStamp}]
      BY <1>2, FleetOK DEF Reset
  <2>2. \A c \in Clients : Used(c)' = {}
      BY <1>2 DEF Reset, Used
  <2> QED BY <2>1, <2>2 DEF Contract!Stop, Contract!Nothing, Nothing, ServedNow, AuditedNow
<1>3. CASE BootServe
  <2>1. /\ phase = "boot" /\ phase' = "up" /\ UNCHANGED <<read, ix, expect, pc, call>>
        /\ body' = [s \in Services |-> Audit(s)]
      BY <1>3 DEF BootServe
  <2>2. \A s \in Services : ~Loading(s) /\ ix[s] \in Files /\ Fits(ix[s], expect[s])
      BY <1>3 DEF BootServe, Loads
  <2>3. \A s \in Services : ~Loading(s)' /\ ~Pending(s)'
    <3>1. \A c \in Clients : pc'[c] = "idle"
        BY <2>1 DEF Places
    <3> QED BY <2>1, <2>2, <3>1 DEF Loading, Pending
  <2>4. ServedNow = Nothing /\ ServedNow' = [s \in Services |-> ix[s]]
      BY <2>1, <2>3 DEF ServedNow
  <2>5. AuditedNow' = [s \in Services |-> IF s \in Audited THEN ix[s] ELSE NoFile]
      BY <2>1, <2>3 DEF AuditedNow, Audit
  <2>6. UNCHANGED Taken
      BY <2>1 DEF Taken, Used
  <2> QED BY <2>1, <2>2, <2>4, <2>5, <2>6
          DEF Contract!Serve, Contract!Nothing, Nothing, Contract!Fits, Fits, Taken
<1> QED BY <1>1, <1>2, <1>3 DEF Process, Kill, BootFail

(* A step of a lens: nothing happens until its lock is released.           *)
LEMMA LensMaps ==
    ASSUME Server, Cards, NEW c \in Clients, Ask(c) \/ Lock(c) \/ LensStep(c) \/ Reply(c)
    PROVE  \/ UNCHANGED <<ServedNow, AuditedNow, expect, Taken>>
           \/ Contract!Answer(c) \/ Contract!Deliver(c)
<1> USE DEF Server, Types
<1>1. UNCHANGED <<phase, read, mem_vars>>
    BY DEF Ask, Lock, LensStep, RLock, RWait, Render, RUnlock, ReadIndex, StatFile, Reply
<1>2. pc[c] # "audit" /\ pc'[c] # "audit"
    BY DEF Ask, Lock, LensStep, RLock, RWait, Render, RUnlock, ReadIndex, StatFile,
           Reply, Serving, Goto
<1>3. \A d \in Clients : d # c => pc'[d] = pc[d] /\ call'[d] = call[d]
    BY DEF Ask, Lock, LensStep, RLock, RWait, Render, RUnlock, ReadIndex, StatFile,
           Reply, Goto
<1>4. UNCHANGED <<ServedNow, AuditedNow, expect>>
    BY <1>1, <1>2, <1>3, GraphsKept
<1>5. \A d \in Clients : d # c => Used(d)' = Used(d)
    BY <1>3, UsedKept
<1>6. CASE Ask(c) \/ Lock(c) \/ RLock(c) \/ RWait(c) \/ Render(c)
           \/ \E s \in Services : ReadIndex(c, s) \/ StatFile(c, s)
  <2>1. pc[c] # "done" /\ pc'[c] # "done"
      BY <1>6 DEF Ask, Lock, RLock, RWait, Render, ReadIndex, StatFile, Serving, Goto
  <2>2. Used(c)' = Used(c)
      BY <2>1, UsedKept
  <2> QED BY <1>4, <1>5, <2>2 DEF Taken
<1>7. CASE RUnlock(c)
  <2> DEFINE k == call[c].card
             g == call[c].again
             v == call[c].svc
             S == {s \in Services : k[s] # NoFile} \cup (IF g # NoFile THEN {v} ELSE {})
  <2>1. pc[c] = "rendered" /\ pc'[c] = "done" /\ call' = call
      BY <1>7 DEF RUnlock, Serving, Goto
  <2>2. call[c].tool # "reload" /\ v \in Services
      BY <2>1 DEF Places, Inside, Calls
  <2>3. \A s \in Services : ServedNow[s] = ix[s]
    <3>1. phase = "up" /\ \A s \in Services : ~Loading(s)
        BY <2>1, NoneReloads DEF Inside
    <3> QED BY <3>1 DEF ServedNow
  <2>4. /\ \A s \in Services : k[s] \in {NoFile, ServedNow[s]}
        /\ g \in {NoFile, ServedNow[v]}
      BY <2>1, <2>2, <2>3 DEF Cards, Card, Inside
  <2>5. Used(c)' = {<<s, k[s]>> : s \in {t \in Services : k[t] # NoFile}}
                     \cup (IF g # NoFile THEN {<<v, g>>} ELSE {})
      BY <2>1, <2>2 DEF Used
  <2>6. Used(c)' = {<<s, ServedNow[s]>> : s \in S} /\ S \in SUBSET Services
    <3> HIDE DEF k, g, v
    <3> QED BY <2>2, <2>4, <2>5
  <2>7. Used(c) = {}
      BY <2>1 DEF Used
  <2>8. Taken' = [Taken EXCEPT ![c] = {<<s, ServedNow[s]>> : s \in S}]
    <3> HIDE DEF S
    <3> QED BY <1>5, <2>6 DEF Taken
  <2>9. Contract!Answer(c)
    <3> HIDE DEF S
    <3> QED BY <1>4, <2>6, <2>7, <2>8 DEF Contract!Answer, Taken
  <2> QED BY <2>9
<1>8. CASE Reply(c)
  <2>1. pc'[c] = "idle"
      BY <1>8 DEF Reply, Goto
  <2>2. Used(c)' = {}
      BY <2>1 DEF Used
  <2> QED BY <1>4, <1>5, <2>2 DEF Contract!Deliver, Taken
<1> QED BY <1>6, <1>7, <1>8 DEF LensStep

(* A step of a reload: it takes effect when its graph passes the checks.   *)
LEMMA ReloadMaps ==
    ASSUME Server, NEW c \in Clients, ReloadStep(c)
    PROVE  \/ UNCHANGED <<ServedNow, AuditedNow, expect, Taken>>
           \/ Contract!Reload(call[c].svc)
<1> USE DEF Server, Types
<1> DEFINE s == call[c].svc
<1>1. call[c] \in Calls /\ s \in Services
    BY DEF Calls
<1>2. \A d \in Clients : pc[c] \in Owning /\ pc[d] \in Owning => d = c
    BY DEF Mutex
<1>3. phase = "up" /\ phase' = "up" /\ pc[c] \in Owning /\ call[c].tool = "reload"
    BY DEF ReloadStep, Drained, ReloadRead, ReloadFail, ReloadStat, ReloadAudit, Unlock,
           Serving, Owning, Places
<1>4. \A d \in Clients : Used(d)' = Used(d)
  <2> SUFFICES ASSUME NEW d \in Clients PROVE Used(d)' = Used(d)
      OBVIOUS
  <2>1. CASE d = c
    <3>1. call'[c].tool = "reload"
        BY <1>1, <1>3 DEF ReloadStep, Drained, ReloadRead, ReloadFail, ReloadStat, ReloadAudit,
                     Unlock, Calls
    <3> QED BY <1>3, <2>1, <3>1, UsedKept
  <2>2. CASE d # c
    <3>1. call'[d] = call[d]
        BY <2>2 DEF ReloadStep, Drained, ReloadRead, ReloadFail, ReloadStat, ReloadAudit,
                    Unlock
    <3>2. pc'[d] = pc[d] \/ (pc[d] = "queued" /\ pc'[d] = "read")
        BY <2>2 DEF ReloadStep, Drained, ReloadRead, ReloadFail, ReloadStat, ReloadAudit,
                    Unlock, Goto
    <3> QED BY <3>1, <3>2, UsedKept
  <2> QED BY <2>1, <2>2
<1>5. UNCHANGED Taken
    BY <1>4 DEF Taken
<1>6. CASE Drained(c) \/ ReloadFail(c) \/ Unlock(c)
  <2>1. \A d \in Clients : pc'[d] = "audit" \/ pc[d] = "audit" =>
               pc'[d] = pc[d] /\ call'[d].svc = call[d].svc
      BY <1>6, <1>1 DEF Drained, ReloadFail, Unlock, Serving, Goto, Calls
  <2>2. UNCHANGED <<phase, read, mem_vars>>
      BY <1>6 DEF Drained, ReloadFail, Unlock
  <2> QED BY <1>5, <2>1, <2>2, GraphsKept
<1>7. CASE ReloadRead(c)
  <2>1. disk[s] \in Files /\ disk[s] # NoFile /\ Fits(disk[s], NewPin(c))
      BY <1>1, <1>7, LoadableFacts DEF ReloadRead
  <2>2. \A t \in Services : read'[t] = IF t = s THEN disk[s] ELSE read[t]
      BY <1>7 DEF ReloadRead, LoadRead
  <2>3. pc[c] = "reload" /\ UNCHANGED <<phase, ix, body, call>>
        /\ expect' = [expect EXCEPT ![s] = NewPin(c)]
        /\ \A d \in Clients : pc'[d] = IF d = c THEN "loaded" ELSE pc[d]
      BY <1>7 DEF ReloadRead, Serving, Goto
  <2>4. \A d \in Clients : pc[d] \notin {"loaded", "audit"} /\ pc'[d] # "audit"
      BY <1>2, <2>3 DEF Owning
  <2>5. \A t \in Services : ~Loading(t) /\ ~Pending(t)
      BY <1>3, <2>4 DEF Loads, Reloads, Pending
  <2>6. \A t \in Services : (Loading(t)' <=> t = s) /\ (Pending(t)' <=> t = s)
      BY <1>1, <1>3, <2>1, <2>2, <2>4, <2>5 DEF Loading, Pending
  <2>7. ServedNow = [t \in Services |-> ix[t]] /\ AuditedNow = [t \in Services |-> body[t]]
      BY <1>3, <2>5 DEF ServedNow, AuditedNow
  <2>8. ServedNow' = [t \in Services |-> IF t = s THEN disk[s] ELSE ix[t]]
      BY <1>3, <2>2, <2>3, <2>6 DEF ServedNow
  <2>9. AuditedNow' = [t \in Services |-> IF t = s THEN (IF s \in Audited THEN disk[s] ELSE NoFile)
                                                    ELSE body[t]]
      BY <1>1, <1>3, <2>3, <2>6, <2>8 DEF AuditedNow
  <2>10. NewPin(c) \in Stamps \cup {NoStamp}
      BY <1>1 DEF NewPin, Calls
  <2>11. ServedNow[s] # NoFile
      BY <1>1, <1>3, <2>7, FleetOK DEF Loads
  <2>12. Contract!Reload(s)
    <3>1. ServedNow' = [ServedNow EXCEPT ![s] = disk[s]]
        BY <2>7, <2>8
    <3>2. AuditedNow' = [AuditedNow EXCEPT ![s] = IF s \in Audited THEN disk[s] ELSE NoFile]
        BY <2>7, <2>9
    <3>3. Contract!Fits(disk[s], NewPin(c))
        BY <2>1 DEF Contract!Fits, Fits
    <3> HIDE DEF s
    <3> QED BY <1>5, <2>1, <2>3, <2>10, <2>11, <3>1, <3>2, <3>3
            DEF Contract!Reload, Taken
  <2> QED BY <2>12
<1>8. CASE ReloadStat(c)
  <2>1. pc[c] = "loaded" /\ UNCHANGED <<phase, body, expect, call>>
        /\ \A d \in Clients : pc'[d] = IF d = c THEN "audit" ELSE pc[d]
      BY <1>8 DEF ReloadStat, Serving, Goto
  <2>2. \A t \in Services : /\ read'[t] = IF t = s THEN NoFile ELSE read[t]
                            /\ ix'[t] = IF t = s THEN read[s] ELSE ix[t]
      BY <1>8 DEF ReloadStat, LoadStat
  <2>3. \A d \in Clients : pc[d] \in {"loaded", "audit"} => d = c
      BY <1>2, <1>3 DEF Owning
  <2>4. \A t \in Services : Loading(t) <=> t = s
      BY <1>1, <1>3, <2>1, <2>3 DEF Loads, Reloads
  <2>5. \A t \in Services : ~Loading(t)'
      BY <2>2, <2>4 DEF Loading
  <2>6. \A t \in Services : Pending(t)' <=> Pending(t)
      BY <1>1, <1>3, <2>1, <2>3, <2>4, <2>5 DEF Pending
  <2>7. UNCHANGED ServedNow
      BY <1>3, <2>2, <2>4, <2>5 DEF ServedNow
  <2>8. UNCHANGED AuditedNow
      BY <1>3, <2>1, <2>6, <2>7 DEF AuditedNow
  <2> QED BY <1>5, <2>1, <2>7, <2>8
<1>9. CASE ReloadAudit(c)
  <2>1. pc[c] = "audit" /\ UNCHANGED <<phase, read, ix, expect, call>>
        /\ \A d \in Clients : pc'[d] = IF d = c THEN "reloaded" ELSE pc[d]
      BY <1>9 DEF ReloadAudit, Serving, Goto
  <2>2. \A d \in Clients : pc[d] \in {"loaded", "audit"} => d = c
      BY <1>2, <1>3 DEF Owning
  <2>3. \A t \in Services : ~Loading(t) /\ ~Loading(t)'
      BY <1>3, <2>1, <2>2 DEF Loads, Reloads, Loading
  <2>4. \A t \in Services : (Pending(t) <=> t = s) /\ ~Pending(t)'
      BY <1>1, <1>3, <2>1, <2>2, <2>3 DEF Pending
  <2>5. UNCHANGED ServedNow
      BY <1>3, <2>1, <2>3 DEF ServedNow
  <2>6. \A t \in Services : body'[t] = IF t = s THEN Audit(s) ELSE body[t]
      BY <1>9 DEF ReloadAudit
  <2>7. \A t \in Services : ServedNow[t] = ix[t]
      BY <1>3, <2>3 DEF ServedNow
  <2>8. UNCHANGED AuditedNow
      BY <1>3, <2>4, <2>5, <2>6, <2>7 DEF AuditedNow, Audit
  <2> QED BY <1>5, <2>1, <2>5, <2>8
<1> QED BY <1>6, <1>7, <1>8, <1>9 DEF ReloadStep

(* The server keeps its contract: a reload replaces one graph, its audit   *)
(* and its pin at once or nothing at all, and an answer, with the verdict  *)
(* and the audit beside it, is taken from the graphs of a single moment.   *)
THEOREM FleetKeepsContract == Spec => KeepsContract
<1>1. Init => Contract!Init
  <2> SUFFICES ASSUME Init PROVE Contract!Init
      OBVIOUS
  <2>1. ServedNow = Nothing /\ AuditedNow = Nothing
      BY DEF Init, ServedNow, AuditedNow
  <2>2. Taken = [c \in Clients |-> {}]
      BY DEF Init, Taken, Used
  <2> QED BY <2>1, <2>2, FleetOK DEF Init, Contract!Init, Contract!Nothing, Nothing, Taken
<1>2. ASSUME Server, Cards, [Next]_vars
      PROVE  [Contract!Next]_(Contract!vars)
  <2>1. CASE UNCHANGED <<ServedNow, AuditedNow, expect, Taken>>
      BY <2>1 DEF Contract!vars, Taken
  <2>2. CASE UNCHANGED vars
    <3>1. UNCHANGED <<phase, read, mem_vars, pc, call>>
        BY <2>2 DEF vars
    <3>2. UNCHANGED <<ServedNow, AuditedNow, expect>>
        BY <3>1, GraphsKept
    <3>3. UNCHANGED Taken
        BY <3>1 DEF Taken, Used
    <3> QED BY <2>1, <3>2, <3>3
  <2>3. CASE Pipeline
    <3>1. UNCHANGED <<phase, read, mem_vars, pc, call>>
        BY <2>3 DEF Pipeline, Deploy, Remove
    <3>2. UNCHANGED <<ServedNow, AuditedNow, expect>>
        BY <3>1, GraphsKept
    <3>3. UNCHANGED Taken
        BY <3>1 DEF Taken, Used
    <3> QED BY <2>1, <3>2, <3>3
  <2>4. CASE Process
      BY <1>2, <2>1, <2>4, ProcessMaps DEF Contract!Next
  <2>5. ASSUME NEW c \in Clients, Ask(c) \/ Lock(c) \/ LensStep(c) \/ Reply(c)
        PROVE  [Contract!Next]_(Contract!vars)
      BY <1>2, <2>1, <2>5, LensMaps DEF Contract!Next
  <2>6. ASSUME NEW c \in Clients, ReloadStep(c)
        PROVE  [Contract!Next]_(Contract!vars)
    <3>1. call[c].svc \in Services
        BY <1>2 DEF Server, Types, Calls
    <3> QED BY <1>2, <2>1, <2>6, <3>1, ReloadMaps DEF Contract!Next
  <2> QED BY <1>2, <2>2, <2>3, <2>4, <2>5, <2>6 DEF Next, Serve
<1> QED BY <1>1, <1>2, CardsInductive, PTL DEF Spec, KeepsContract, Contract!Spec

(* The recorded time is that of the graph served, unless the load was      *)
(* overtaken or its stat found no file: then the recorded time is of an    *)
(* earlier file, and no file comes back, so what is on disk is flagged.    *)
FreshOf(s) ==
    /\ disk[s] # NoFile => disk[s] \in written
    /\ mtime[s] # NoFile => mtime[s] \in written
    /\ mtime[s] = ix[s] \/ overtaken[s] \/ disk[s] = NoFile \/ disk[s] # mtime[s]

Fresh == \A s \in Services : FreshOf(s)

(* Every step keeps the recorded time as fresh as that. *)
LEMMA FreshStep ==
    ASSUME Server, Fresh, Next
    PROVE  Fresh'
<1> USE DEF Fresh
<1>1. CASE UNCHANGED <<disk_vars, mtime, ix, overtaken>>
    BY <1>1 DEF FreshOf, disk_vars
<1>2. CASE Reset /\ UNCHANGED disk_vars
    BY <1>2 DEF Reset, Nothing, FreshOf, disk_vars
<1>3. ASSUME NEW s \in Services, LoadStat(s), UNCHANGED disk_vars
      PROVE  Fresh'
  <2> SUFFICES ASSUME NEW t \in Services PROVE FreshOf(t)'
      OBVIOUS
  <2>1. /\ mtime \in [Services -> Maybe(Files)] /\ ix \in [Services -> Maybe(Files)]
        /\ overtaken \in [Services -> BOOLEAN]
      BY DEF Server, Types
  <2>2. CASE t = s
    <3>1. /\ mtime'[t] = IF disk[t] # NoFile THEN disk[t] ELSE mtime[t]
          /\ ix'[t] = read[t]
          /\ overtaken'[t] = (disk[t] \notin {read[t], NoFile})
          /\ disk' = disk /\ written' = written
        BY <1>3, <2>1, <2>2 DEF LoadStat, disk_vars
    <3> QED BY <3>1 DEF FreshOf
  <2>3. CASE t # s
    <3>1. /\ mtime'[t] = mtime[t] /\ ix'[t] = ix[t] /\ overtaken'[t] = overtaken[t]
          /\ disk' = disk /\ written' = written
        BY <1>3, <2>1, <2>3 DEF LoadStat, disk_vars
    <3> QED BY <3>1 DEF FreshOf
  <2> QED BY <2>2, <2>3
<1>4. CASE Pipeline
  <2>1. PICK s \in Services : Remove(s) \/ \E f \in Files : Deploy(s, f)
      BY <1>4 DEF Pipeline
  <2>2. disk \in [Services -> Maybe(Files)] /\ NoFile \notin Files
      BY FleetOK DEF Server, Types
  <2>3. CASE Remove(s)
      BY <2>2, <2>3 DEF Remove, FreshOf, mem_vars
  <2>4. ASSUME NEW f \in Files, Deploy(s, f)
        PROVE  Fresh'
      BY <2>2, <2>4 DEF Deploy, FreshOf, mem_vars
  <2> QED BY <2>1, <2>3, <2>4
<1>5. CASE Process
    BY <1>1, <1>2, <1>3, <1>5
       DEF Process, Start, BootServe, Kill, BootRead, BootFail, BootStat, mem_vars
<1>6. ASSUME NEW c \in Clients, Ask(c) \/ Lock(c) \/ LensStep(c) \/ Reply(c)
      PROVE  Fresh'
    BY <1>1, <1>6 DEF Ask, Lock, LensStep, RLock, RWait, Render, RUnlock, ReadIndex, StatFile,
                      Reply, mem_vars
<1>7. ASSUME NEW c \in Clients, ReloadStep(c)
      PROVE  Fresh'
  <2>1. CASE ReloadStat(c)
    <3>1. call[c].svc \in Services
        BY DEF Server, Types, Calls
    <3> QED BY <1>3, <2>1, <3>1 DEF ReloadStat
  <2> QED BY <1>1, <1>7, <2>1
          DEF ReloadStep, Drained, ReloadRead, ReloadFail, ReloadAudit, Unlock, mem_vars
<1> QED BY <1>4, <1>5, <1>6, <1>7 DEF Next, Serve

(* What a request knows of the files: it stats no more than it covers, it  *)
(* reads all of that, and an unflagged file it found is the graph served,  *)
(* unless the load of that graph was overtaken.                            *)
Flag(c) ==
    /\ pc[c] \in {"asked", "queued"} \cup Owning => call[c].found = Nothing
    /\ pc[c] \in {"asked", "queued"} /\ call[c].tool # "reload" =>
          /\ call[c].unread = Covers(call[c].tool, call[c].svc)
          /\ call[c].unstat = Covers(call[c].tool, call[c].svc)
    /\ pc[c] \in Inside => \A s \in Services :
          /\ s \in call[c].unstat \/ call[c].found[s] # NoFile
                => s \in Covers(call[c].tool, call[c].svc)
          /\ s \in Covers(call[c].tool, call[c].svc)
                => s \in call[c].unread \/ call[c].card[s] = ix[s]
          /\ (pc[c] = "read" \/ call[c].ok) /\ call[c].found[s] # NoFile
                => s \in call[c].noted \/ call[c].found[s] = ix[s] \/ overtaken[s]
    /\ pc[c] = "rendered" => call[c].unread = {}

Flags == \A c \in Clients : Flag(c)

(* So every step keeps an unflagged answer the file on disk, but for an    *)
(* overtaken load.                                                         *)
LEMMA FlagsStep ==
    ASSUME Server, Fresh, Flags, Next
    PROVE  Flags'
<1> USE DEF Flags
<1>1. CASE UNCHANGED <<pc, call, ix, overtaken>>
    BY <1>1 DEF Flag
<1>2. ASSUME \A c \in Clients : pc'[c] = "idle"
      PROVE  Flags'
    BY <1>2 DEF Flag, Inside, Owning
<1>3. CASE Process
  <2>1. CASE \E s \in Services : BootStat(s)
      BY <1>2, <2>1 DEF BootStat, Server, Places
  <2>2. CASE Reset
      BY <1>2, <2>2 DEF Reset
  <2> QED BY <1>1, <1>3, <2>1, <2>2
          DEF Process, Start, BootServe, Kill, BootRead, BootFail, mem_vars
<1>4. ASSUME NEW c \in Clients, UNCHANGED <<ix, overtaken>>,
             \A d \in Clients : d # c => pc'[d] = pc[d] /\ call'[d] = call[d],
             Flag(c)'
      PROVE  Flags'
  <2> SUFFICES ASSUME NEW d \in Clients PROVE Flag(d)'
      OBVIOUS
  <2>1. CASE d = c
      BY <1>4, <2>1
  <2>2. CASE d # c
    <3>1. Flag(d) /\ pc'[d] = pc[d] /\ call'[d] = call[d] /\ ix' = ix /\ overtaken' = overtaken
        BY <1>4, <2>2
    <3> QED BY <3>1 DEF Flag
  <2> QED BY <2>1, <2>2
<1>5. ASSUME NEW c \in Clients, Ask(c)
      PROVE  Flags'
  <2>1. PICK t \in Tools, s \in Services, e \in Stamps \cup {NoStamp} :
            call' = [call EXCEPT ![c] = Request(t, s, e)]
      BY <1>5 DEF Ask
  <2>2. UNCHANGED <<ix, overtaken>> /\ \A d \in Clients : d # c => pc'[d] = pc[d] /\ call'[d] = call[d]
      BY <1>5, <2>1 DEF Ask, Goto, mem_vars, Server, Types
  <2>3. pc'[c] = "asked" /\ call'[c] = Request(t, s, e)
      BY <1>5, <2>1 DEF Ask, Goto, Server, Types
  <2>4. Flag(c)'
      BY <2>3 DEF Flag, Inside, Request
  <2> QED BY <1>4, <2>2, <2>4
<1>6. ASSUME NEW c \in Clients, Lock(c) \/ RLock(c) \/ RWait(c)
      PROVE  Flags'
  <2>1. UNCHANGED <<call, ix, overtaken>> /\ \A d \in Clients : d # c => pc'[d] = pc[d]
      BY <1>6 DEF Lock, RLock, RWait, Goto, mem_vars, Server, Types
  <2>2. /\ pc[c] = "asked"
        /\ \/ pc'[c] = "drain"
           \/ pc'[c] \in {"read", "queued"} /\ call[c].tool # "reload"
      BY <1>6 DEF Lock, RLock, RWait, Goto, Serving, Server, Types
  <2>3. Flag(c)'
      BY <2>1, <2>2 DEF Flag, Inside, Owning, Nothing
  <2> QED BY <1>4, <2>1, <2>3
<1>7. ASSUME NEW c \in Clients, RUnlock(c)
      PROVE  Flags'
  <2>1. /\ UNCHANGED <<call, ix, overtaken>> /\ \A d \in Clients : d # c => pc'[d] = pc[d]
        /\ pc[c] = "rendered" /\ pc'[c] = "done"
      BY <1>7 DEF RUnlock, Goto, Serving, mem_vars, Server, Types
  <2>2. Flag(c)'
      BY <2>1 DEF Flag, Inside, Owning
  <2> QED BY <1>4, <2>1, <2>2
<1>8. ASSUME NEW c \in Clients, NEW s \in Services, ReadIndex(c, s)
      PROVE  Flags'
  <2>1. /\ pc[c] = "read" /\ UNCHANGED <<pc, ix, overtaken>>
        /\ \A d \in Clients : d # c => call'[d] = call[d]
      BY <1>8, LensEffects DEF ReadIndex, mem_vars, Server
  <2>2. /\ call'[c].card = [call[c].card EXCEPT ![s] = ix[s]]
        /\ call'[c].unread = call[c].unread \ {s} /\ call'[c].unstat \subseteq call[c].unstat
      BY <1>8, LensEffects DEF Server
  <2>3. \A f \in {"tool", "svc", "again", "noted", "found", "ok"} : call'[c][f] = call[c][f]
      BY <1>8, LensEffects DEF Server
  <2>4. /\ call'[c].tool = call[c].tool /\ call'[c].svc = call[c].svc
        /\ call'[c].noted = call[c].noted /\ call'[c].found = call[c].found
      BY <2>3
  <2>5. call[c].card \in [Services -> Maybe(Files)]
      BY DEF Server, Types, Calls
  <2>6. Flag(c)'
      BY <2>1, <2>2, <2>4, <2>5 DEF Flag, Inside, Owning
  <2> QED BY <1>4, <2>1, <2>6
<1>9. ASSUME NEW c \in Clients, NEW s \in Services, StatFile(c, s)
      PROVE  Flags'
  <2>1. /\ pc[c] = "read" /\ UNCHANGED <<pc, ix, overtaken>> /\ s \in call[c].unstat
        /\ \A d \in Clients : d # c => call'[d] = call[d]
      BY <1>9, LensEffects DEF StatFile, mem_vars, Server
  <2>2. /\ call'[c].unstat = call[c].unstat \ {s}
        /\ call'[c].found = [call[c].found EXCEPT ![s] = disk[s]]
        /\ call'[c].noted = call[c].noted \cup (IF Flagged(s) THEN {s} ELSE {})
      BY <1>9, LensEffects DEF Server
  <2>3. \A f \in {"tool", "svc", "card", "again", "unread", "ok"} : call'[c][f] = call[c][f]
      BY <1>9, LensEffects DEF Server
  <2>4. /\ call'[c].tool = call[c].tool /\ call'[c].svc = call[c].svc
        /\ call'[c].card = call[c].card /\ call'[c].unread = call[c].unread
      BY <2>3
  <2>5. call[c].found \in [Services -> Maybe(Files)]
      BY DEF Server, Types, Calls
  <2>6. disk[s] # NoFile /\ ~Flagged(s) => disk[s] = ix[s] \/ overtaken[s]
      BY DEF Flagged, Fresh, FreshOf
  <2>7. Flag(c)'
      BY <2>1, <2>2, <2>4, <2>5, <2>6 DEF Flag, Inside, Owning
  <2> QED BY <1>4, <2>1, <2>7
<1>10. ASSUME NEW c \in Clients, Render(c)
       PROVE  Flags'
  <2>1. /\ pc[c] = "read" /\ pc'[c] = "rendered" /\ call[c].unread = {} /\ UNCHANGED <<ix, overtaken>>
        /\ \A d \in Clients : d # c => pc'[d] = pc[d] /\ call'[d] = call[d]
      BY <1>10, RenderEffects DEF Render, mem_vars, Server
  <2>2. /\ call'[c].ok = ~Errs(c)
        /\ call'[c].noted = IF Errs(c) THEN {} ELSE call[c].noted
        /\ \A f \in {"tool", "svc", "card", "unread", "unstat", "found"} : call'[c][f] = call[c][f]
      BY <1>10, RenderEffects DEF Server
  <2>3. /\ call'[c].tool = call[c].tool /\ call'[c].svc = call[c].svc
        /\ call'[c].card = call[c].card /\ call'[c].unread = call[c].unread
        /\ call'[c].unstat = call[c].unstat /\ call'[c].found = call[c].found
      BY <2>2
  <2>4. call'[c].ok => call'[c].noted = call[c].noted
      BY <2>2
  <2>5. Flag(c)'
      BY <2>1, <2>3, <2>4 DEF Flag, Inside, Owning
  <2> QED BY <1>4, <2>1, <2>5
<1>11. ASSUME NEW c \in Clients, ReloadStep(c)
       PROVE  Flags'
  <2>1. CASE Unlock(c)
    <3>1. \A d \in Clients : pc'[d] = IF d = c THEN "done"
                                       ELSE IF pc[d] = "queued" THEN "read" ELSE pc[d]
        BY <2>1 DEF Unlock
    <3>2. UNCHANGED <<call, ix, overtaken>> /\ pc[c] = "reloaded"
        BY <2>1 DEF Unlock, Serving, mem_vars
    <3>3. \A d \in Clients : pc[d] = "queued" => call[d].tool # "reload"
        BY DEF Server, Places
    <3>4. Flag(c)'
        BY <3>1, <3>2 DEF Flag, Inside, Owning, Nothing
    <3>5. ASSUME NEW d \in Clients, d # c
          PROVE  Flag(d)'
      <4>1. CASE pc[d] = "queued"
          BY <3>1, <3>2, <3>3, <3>5, <4>1 DEF Flag, Inside, Owning, Nothing
      <4>2. CASE pc[d] # "queued"
        <5>1. Flag(d) /\ pc'[d] = pc[d] /\ call'[d] = call[d] /\ ix' = ix /\ overtaken' = overtaken
            BY <3>1, <3>2, <3>5, <4>2
        <5> QED BY <5>1 DEF Flag
      <4> QED BY <4>1, <4>2
    <3> QED BY <3>4, <3>5
  <2>2. CASE ReloadStat(c)
    <3>1. pc[c] = "loaded" /\ \A d \in Clients : pc[d] \notin Inside
        BY <2>2 DEF ReloadStat, Serving, Server, Mutex, Owning
    <3>2. UNCHANGED call /\ \A d \in Clients : pc'[d] = IF d = c THEN "audit" ELSE pc[d]
        BY <2>2 DEF ReloadStat, Goto, Server, Types
    <3> QED BY <3>1, <3>2 DEF Flag, Inside, Owning
  <2>3. CASE Drained(c) \/ ReloadRead(c) \/ ReloadFail(c) \/ ReloadAudit(c)
    <3>1. UNCHANGED <<ix, overtaken>> /\ \A d \in Clients : d # c => pc'[d] = pc[d] /\ call'[d] = call[d]
        BY <2>3 DEF Drained, ReloadRead, ReloadFail, ReloadAudit, Goto, mem_vars, Server, Types
    <3>2. pc'[c] \in {"reload", "loaded", "reloaded"} /\ pc[c] \in Owning
        BY <2>3 DEF Drained, ReloadRead, ReloadFail, ReloadAudit, Goto, Serving, Owning,
                    Server, Types
    <3>3. call'[c].found = call[c].found
        BY <2>3 DEF Drained, ReloadRead, ReloadFail, ReloadAudit, Server, Types, Calls
    <3>4. Flag(c)'
        BY <3>2, <3>3 DEF Flag, Inside, Owning, Nothing
    <3> QED BY <1>4, <3>1, <3>4
  <2> QED BY <1>11, <2>1, <2>2, <2>3 DEF ReloadStep
<1>12. ASSUME NEW c \in Clients, Reply(c)
       PROVE  Flags'
  <2>1. UNCHANGED <<ix, overtaken>> /\ pc'[c] = "idle"
        /\ \A d \in Clients : d # c => pc'[d] = pc[d] /\ call'[d] = call[d]
      BY <1>12 DEF Reply, Goto, mem_vars, Server, Types
  <2>2. Flag(c)'
      BY <2>1 DEF Flag, Inside, Owning
  <2> QED BY <1>4, <2>1, <2>2
<1>13. CASE Pipeline
    BY <1>1, <1>13 DEF Pipeline, Deploy, Remove, mem_vars
<1> QED BY <1>3, <1>5, <1>6, <1>7, <1>8, <1>9, <1>10, <1>11, <1>12, <1>13
        DEF Next, Serve, LensStep

(* For any services, clients and files, and whatever the pipeline does     *)
(* between any two steps, a load's two steps included: an answer that      *)
(* leaves a service unflagged was computed from the very file its stat     *)
(* found, unless the load of that service was overtaken.                   *)
THEOREM StaleIsDisclosed == Spec => []StaleDisclosed
<1> DEFINE Told == Server /\ Fresh /\ Flags
<1>1. Init => Told
    BY ServerInit DEF Init, Fresh, FreshOf, Flags, Flag, Nothing, Inside, Owning
<1>2. ASSUME Told, [Next]_vars
      PROVE  Told'
  <2>1. CASE Next
      BY <1>2, <2>1, ServerStep, FreshStep, FlagsStep
  <2>2. CASE UNCHANGED vars
    <3>1. Fresh' /\ Flags'
        BY <1>2, <2>2 DEF vars, disk_vars, mem_vars, Fresh, FreshOf, Flags, Flag
    <3> QED BY <1>2, <3>1, ServerInductive
  <2> QED BY <1>2, <2>1, <2>2
<1>3. Told => StaleDisclosed
  <2> SUFFICES ASSUME Told, NEW c \in Clients, NEW s \in Services
               PROVE  Disclosed(c, s) \/ overtaken[s]
      BY DEF StaleDisclosed
  <2>1. Flag(c)
      BY DEF Flags
  <2> QED BY <2>1 DEF Flag, Disclosed, Inside
<1> HIDE DEF Told
<1> QED BY <1>1, <1>2, <1>3, PTL DEF Spec
=============================================================================
