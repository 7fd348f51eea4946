------------------------------ MODULE CodeGraph ------------------------------
(***************************************************************************)
(* What the static analysis knows of a program: the entry points it        *)
(* discovers, the call graph from them, the blind spots it discloses, and  *)
(* the calls its reclaimers prove beyond the call graph.                   *)
(*                                                                         *)
(* A program is a record.  For each function: kind (own, init, wrap: a     *)
(* synthetic forwarder of first-party code; std, third: code outside),     *)
(* parent (of a closure), pkg, returns (whether a middleware function      *)
(* returns its threaded handler: no, some, all) and sites, the sequence of *)
(* its calls.  A site has                                                  *)
(*   do     call, iface (interface method), value (func value), param (the *)
(*          function's own func parameter), loop (h = mw(h) over a field), *)
(*          serve (ServeHTTP of a handler), reflect, link (a linkname),    *)
(*          keep (a func value stored away), effect                        *)
(*   to     the functions it may really enter                              *)
(*   seen   the callees the call-graph algorithm resolves                  *)
(*   impls  the implementations of an interface method                     *)
(*   type   the defined type of a func value                               *)
(*   arg    the function passed: a closure, "param", or ""                 *)
(*   how, q how the query or label is given (const, built, dyn, param) and *)
(*          what it is                                                     *)
(*   field, init, thread   the field a loop ranges over, the handler a     *)
(*          loop or a ServeHTTP starts from, whether a call dispatches the *)
(*          handler a loop of the function threads                         *)
(*   use    what becomes of a call's result: "", serve, keep               *)
(*   conc   under `go`                                                     *)
(***************************************************************************)
EXTENDS Integers, Sequences, FiniteSets, SequencesExt

CONSTANT FanOut   \* the configured fan-out threshold

SitesOf(p, f)   == DOMAIN p.sites[f]
SiteAt(p, f, i) == p.sites[f][i]
FirstParty(p, f) == p.kind[f] \in {"own", "init", "wrap"}
Wrapper(p, f)    == p.kind[f] = "wrap"
IsClosure(p, f)  == p.parent[f] # ""

When(c, S) == IF c THEN S ELSE {}

(* The least set that holds the seeds and is closed under Step: what is in *)
(* it after each step, one for each element there can be.                  *)
Within(seeds, Step, bound) ==
    LET Steps[k \in 0..bound] ==
            IF k = 0 THEN seeds ELSE UNION {{f} \cup When(f \in DOMAIN Step, Step[f]) : f \in Steps[k - 1]}
    IN  Steps
Cone(seeds, Step, bound) == Within(seeds, Step, bound)[bound]

-----------------------------------------------------------------------------
(* Entry points (roots.go).                                                *)

(* resolveHandler: a closure, a function or a variadic list's last one; a  *)
(* bound method or thunk stands for the method it wraps.                   *)
Handler(p, h) == IF Wrapper(p, h) /\ \E i \in SitesOf(p, h) : SiteAt(p, h, i).do = "call"
                 THEN CHOOSE g \in p.fns : \E i \in SitesOf(p, h) : SiteAt(p, h, i).do = "call" /\ g \in SiteAt(p, h, i).to
                 ELSE h

(* A registration resolves to a handler and a name, to a handler only (the *)
(* route is no constant), or to nothing.                                   *)
RegistrationRoots(p) == {[kind |-> r.kind, name |-> r.name, fn |-> Handler(p, r.handler)] :
                             r \in {x \in p.regs : x.handler # ""}}
UnresolvedRegistrations(p) == {r \in p.regs : r.handler = "" \/ r.name = ""}

(* A declared entry point that names no function left is a blind spot too. *)
DeclaredRoots(p) == {[kind |-> d.kind, name |-> d.fn, fn |-> d.fn] : d \in {x \in p.declared : x.fn \in p.fns}}
StaleDeclarations(p) == {d \in p.declared : d.fn \notin p.fns}
RootSpots(p) == UnresolvedRegistrations(p) \cup StaleDeclarations(p)

Unnamed(kind, F) == {[kind |-> kind, name |-> "", fn |-> f] : f \in F}
HasPrimaryRoot(R) == \E r \in R : r.kind \in {"main", "http", "consumer", "callback", "worker"}

Discover(p) ==
    LET Of(R) == IF HasPrimaryRoot(R) THEN R ELSE R \cup Unnamed("export", p.exported)
    IN  Of(Unnamed("main", p.mains) \cup Unnamed("init", {f \in p.fns : p.kind[f] = "init"})
             \cup RegistrationRoots(p) \cup DeclaredRoots(p))

DiscoveredRootCount(R) == Cardinality({r.fn : r \in {x \in R : x.kind \notin {"init", "callback", "worker"}}})

-----------------------------------------------------------------------------
(* The call graph (callgraph.go): every function reachable from the roots, *)
(* and the whole program when there is no root.                            *)

SeenCallees(p, f, i) == IF SiteAt(p, f, i).do \in {"call", "iface", "value", "param", "loop", "serve"}
                    THEN SiteAt(p, f, i).seen ELSE {}
CallsOf(p) == [f \in p.fns |-> UNION {SeenCallees(p, f, i) : i \in SitesOf(p, f)}]

(* A call graph: its nodes and its caveats. *)
CallGraph(p, R) ==
    IF R = {} THEN [nodes |-> p.fns, caveats |-> {"cha"}]
    ELSE [nodes |-> Cone({r.fn : r \in R}, CallsOf(p), Cardinality(p.fns)),
          caveats |-> {<<"roots", DiscoveredRootCount(R)>>} \cup When(RootSpots(p) # {}, {<<"unresolved", Cardinality(RootSpots(p))>>})]

(* A static call enters a function, and what the call graph resolves are   *)
(* functions; a closure is made, and so passed, by the function it is in.  *)
ProgramOK(p) ==
    /\ IsFiniteSet(p.fns) /\ IsFiniteSet(p.regs) /\ IsFiniteSet(p.declared)
    /\ DOMAIN p.sites = p.fns /\ p.mains \cup p.exported \subseteq p.fns
    /\ \A r \in p.regs : r.handler \in p.fns \cup {""}
    /\ \A f \in p.fns : \A i \in SitesOf(p, f) :
          /\ SeenCallees(p, f, i) \subseteq p.fns
          /\ SiteAt(p, f, i).do = "call" => SiteAt(p, f, i).to \cap p.fns # {}
          /\ \A c \in {SiteAt(p, f, i).arg} \cap p.fns : IsClosure(p, c) => p.parent[c] = f

-----------------------------------------------------------------------------
(* Blind spots (blindspots.go).  The type of a func value is in the Detail *)
(* of the record, so two calls of one type in one function are one record. *)

Kinds == {"NonConstantBoundaryArg", "UnresolvedDispatch", "UnresolvedCall", "ConcurrentDispatch", "ExternalBoundaryCall",
          "Reflect", "HighFanOut", "Linkname", "ImpeachmentSeam"}
Recognized(k)  == k \in Kinds
Ratified(k)    == k = "ImpeachmentSeam"
AlgoFragile(k) == k \in {"UnresolvedCall", "ConcurrentDispatch"}
Boundary(k)    == k \in {"NonConstantBoundaryArg", "UnresolvedDispatch"}
IsDisclosureOnlyFrontier(k) == k = "ExternalBoundaryCall"

BlindSpot(k, site, type) == [kind |-> k, site |-> site, type |-> type]

FuncValueCall(s) == s.do \in {"value", "param", "loop"}
UnresolvedFuncValueCalls(p, f) ==
    {BlindSpot(IF s.conc THEN "ConcurrentDispatch" ELSE "UnresolvedCall", f, s.type) :
        s \in {SiteAt(p, f, i) : i \in {j \in SitesOf(p, f) : FuncValueCall(SiteAt(p, f, j)) /\ SiteAt(p, f, j).seen = {}}}}

IsExternalBoundary(p, c) == p.kind[c] = "third"

SiteSpots(p, f, s) ==
    When(s.do = "effect" /\ s.on = "bus" /\ s.how # "const", {BlindSpot("NonConstantBoundaryArg", f, "")})
    \cup When(s.do = "reflect", {BlindSpot("Reflect", f, "")})
    \cup {BlindSpot("ExternalBoundaryCall", f, c) : c \in {x \in s.seen : IsExternalBoundary(p, x)}}
    \cup When(Cardinality(s.seen) > FanOut, {BlindSpot("HighFanOut", f, "")})

PackageDisclosures(p) == {BlindSpot("Linkname", p.pkg[f], "") : f \in {g \in p.fns : FirstParty(p, g) /\ p.linkname[p.pkg[g]]}}

Detect(p, nodes) ==
    {BlindSpot("UnresolvedDispatch", r.kind, "") : r \in RootSpots(p)}
    \cup (UNION {UnresolvedFuncValueCalls(p, f) \cup UNION {SiteSpots(p, f, SiteAt(p, f, i)) : i \in SitesOf(p, f)} :
                    f \in {g \in nodes : FirstParty(p, g) /\ p.kind[g] # "init"}})
    \cup PackageDisclosures(p)
=============================================================================
