----------------------------- MODULE Reclaimers -----------------------------
(***************************************************************************)
(* The reclaimers (internal/static/reclaim, internal/static/rebind): calls *)
(* the call graph misses or unions, proved from the code.                  *)
(***************************************************************************)
EXTENDS CodeGraph

CallEdge(from, to, via) == [from |-> from, to |-> to, via |-> via]

(* A closure passed as an argument; a bound method is one too, of its      *)
(* synthetic wrapper.                                                      *)
ClosureFn(p, s) == When(s.arg \in p.fns /\ (IsClosure(p, s.arg) \/ Wrapper(p, s.arg)), {s.arg})
Bodied(p, f)   == p.sites[f] # <<>>

(* StrictServer: the receiver of a ServeHTTP in f is built from a closure  *)
(* of f.                                                                   *)
StrictServer(p, nodes) ==
    UNION {{CallEdge(f, SiteAt(p, f, i).init, "strict-server") :
               i \in {j \in SitesOf(p, f) : /\ SiteAt(p, f, j).do = "serve"
                                            /\ SiteAt(p, f, j).init \in p.fns
                                            /\ p.parent[SiteAt(p, f, j).init] = f}} : f \in nodes}

DirectlyInvokesParam(p, f) == \E i \in SitesOf(p, f) : SiteAt(p, f, i).do = "param"

(* invokesParam: one probe marks what it visits for good, so a function    *)
(* asked a second time counts as not invoking its parameter.               *)
(* Every one of the implementations, asked one after the other.            *)
ProbeAll(p, impls, seen, Ask) ==
    FoldLeft(LAMBDA acc, g : IF acc.ok /\ Bodied(p, g) THEN Ask[g, acc.seen] ELSE [acc EXCEPT !.ok = FALSE],
             [ok |-> impls # {}, seen |-> seen], SetToSeq(impls))
ProbeSite(p, s, seen, Ask) ==
    CASE s.do = "param" -> [ok |-> TRUE, seen |-> seen]
      [] s.do \in {"call", "iface"} /\ s.arg = "param" -> ProbeAll(p, s.impls, seen, Ask)
      [] OTHER -> [ok |-> FALSE, seen |-> seen]
Probe(p) ==
    LET Ask[f \in p.fns, seen \in SUBSET p.fns] ==
            IF f \in seen THEN [ok |-> FALSE, seen |-> seen]
            ELSE FoldLeft(LAMBDA acc, s : IF acc.ok THEN acc ELSE ProbeSite(p, s, acc.seen, Ask),
                          [ok |-> FALSE, seen |-> seen \cup {f}], p.sites[f])
    IN  Ask
InvokesParam(p, f) == Probe(p)[f, {}].ok

(* TxClosure: f hands a closure to a static callee that provably invokes   *)
(* its parameter.                                                          *)
TxClosure(p, nodes) ==
    UNION {UNION {{CallEdge(f, c, "tx-closure") : c \in ClosureFn(p, SiteAt(p, f, i))} :
               i \in {j \in SitesOf(p, f) : /\ SiteAt(p, f, j).do = "call"
                                            /\ \A g \in SiteAt(p, f, j).to : InvokesParam(p, g)}} : f \in nodes}

-----------------------------------------------------------------------------
(* Rebind: a closure confined to one call of a runner belongs to the       *)
(* caller, not to every user of the runner.                                *)

(* Every use of the closure in its parent is this argument of this call.   *)
Confined(p, f, i) ==
    \A j \in SitesOf(p, f) \ {i} :
        LET s == SiteAt(p, f, j) IN s.arg # SiteAt(p, f, i).arg /\ SiteAt(p, f, i).arg \notin s.to

RunnersToDeUnion(p, s) ==
    CASE s.do = "iface" -> When(\A g \in s.impls : Bodied(p, g) /\ DirectlyInvokesParam(p, g), s.impls)
      [] s.do = "call"  -> {g \in s.to : DirectlyInvokesParam(p, g)}
      [] OTHER -> {}

Compute(p, nodes) ==
    LET Sites == UNION {{<<f, i>> : i \in {j \in SitesOf(p, f) : /\ ClosureFn(p, SiteAt(p, f, j)) # {}
                                                               /\ Confined(p, f, j)
                                                               /\ RunnersToDeUnion(p, SiteAt(p, f, j)) # {}}} : f \in nodes}
    IN  [add    |-> {CallEdge(x[1], SiteAt(p, x[1], x[2]).arg, "rebind") : x \in Sites},
         remove |-> UNION {{<<g, SiteAt(p, x[1], x[2]).arg>> : g \in RunnersToDeUnion(p, SiteAt(p, x[1], x[2]))} : x \in Sites}]

-----------------------------------------------------------------------------
(* The middleware chain: for _, mw := range field { h = mw(h) }.           *)
(* A field's stores each have src (elems: a literal, nil or an append to   *)
(* what is there; copy: of another field; unknown), elems and of; readonly *)
(* says that no load of it is written through or handed on, escapes that   *)
(* its address is used otherwise, late what such uses put into it.         *)

Copied(p, v) == {x.of : x \in {y \in p.fields[v].stores : y.src = "copy" /\ y.of # v}}
CopyMap(p)   == [v \in DOMAIN p.fields |-> Copied(p, v)]
CopiedInto(p, v) == Cone(Copied(p, v), CopyMap(p), Cardinality(DOMAIN p.fields))

(* fieldStoreSet: what the stores of a field and of the fields copied into *)
(* it put there; a cycle of copies is not resolved.                        *)
Unresolved == [ok |-> FALSE, funcs |-> {}]
FieldStoreSet(p, v) ==
    LET All == {v} \cup CopiedInto(p, v)
    IN  IF \E w \in All : \/ p.fields[w].escapes \/ w \in CopiedInto(p, w)
                          \/ \E x \in p.fields[w].stores : x.src = "unknown" \/ \E e \in x.elems : e \notin p.fns
        THEN Unresolved
        ELSE [ok |-> TRUE, funcs |-> UNION {UNION {x.elems : x \in p.fields[w].stores} : w \in All}]

(* resolveField: of the field a loop ranges over, the loads are looked at too. *)
ResolveField(p, v) == IF p.fields[v].readonly THEN FieldStoreSet(p, v) ELSE Unresolved

LoopsOf(p, f) == {i \in SitesOf(p, f) : SiteAt(p, f, i).do = "loop"}

(* handlerTarget: a function or closure as it stands, a bound method's     *)
(* wrapper included.                                                       *)
HandlerTarget(p, h) == When(h \in p.fns, {h})

StaticCallers(p, nodes, f) ==
    UNION {{<<g, i>> : i \in {j \in SitesOf(p, g) : SiteAt(p, g, j).do = "call" /\ SiteAt(p, g, j).to = {f} /\ ~SiteAt(p, g, j).conc}} :
               g \in nodes}

(* factoredTarget: the loop's own handler, or what the caller passed.      *)
FactoredTarget(p, lp, s) ==
    LET own == HandlerTarget(p, lp.init)
    IN  IF own # {} THEN own ELSE When(lp.init = "param", HandlerTarget(p, s.arg))

(* A caller that drops the result leaves nothing to recover.               *)
RecoverFactoredTerminals(p, nodes, f, lp) ==
    LET Used == {x \in StaticCallers(p, nodes, f) : SiteAt(p, x[1], x[2]).use # ""}
        Of(x) == When(SiteAt(p, x[1], x[2]).use = "serve", FactoredTarget(p, lp, SiteAt(p, x[1], x[2])))
    IN  [ok    |-> \A x \in Used : Of(x) # {},
         edges |-> UNION {{CallEdge(x[1], t, "middleware-chain") : t \in Of(x)} : x \in Used}]

DispatchesThreadedHandler(p, f) == \E i \in SitesOf(p, f) : SiteAt(p, f, i).thread
EveryReturnThreaded(p, f)       == p.returns[f] = "all"

RecoverTerminals(p, nodes, f, lp) ==
    IF DispatchesThreadedHandler(p, f)
    THEN [ok    |-> HandlerTarget(p, lp.init) # {},
          edges |-> {CallEdge(f, t, "middleware-chain") : t \in HandlerTarget(p, lp.init)}]
    ELSE IF ~EveryReturnThreaded(p, f) THEN [ok |-> FALSE, edges |-> {}]
    ELSE RecoverFactoredTerminals(p, nodes, f, lp)

(* A plain call through a func value of the loop's element type.           *)
HasUnresolvedFuncCallOfType(p, f, type) ==
    \E i \in SitesOf(p, f) \ LoopsOf(p, f) : FuncValueCall(SiteAt(p, f, i)) /\ ~SiteAt(p, f, i).conc /\ SiteAt(p, f, i).type = type

(* reclaimFunc: the terminals are looked for only of a loop whose set is known. *)
ReclaimFunc(p, nodes, f) ==
    LET Known == {i \in LoopsOf(p, f) : ResolveField(p, SiteAt(p, f, i).field).ok}
        Funcs(i) == ResolveField(p, SiteAt(p, f, i).field).funcs
        Ends(i)  == RecoverTerminals(p, nodes, f, SiteAt(p, f, i))
        Types    == {SiteAt(p, f, i).type : i \in LoopsOf(p, f)}
        Clearable(t) == /\ \A i \in {j \in LoopsOf(p, f) : SiteAt(p, f, j).type = t} : i \in Known /\ Funcs(i) = {} /\ Ends(i).ok
                        /\ ~HasUnresolvedFuncCallOfType(p, f, t)
    IN  [edges |-> UNION {{CallEdge(f, m, "middleware-chain") : m \in Funcs(i)} \cup Ends(i).edges : i \in Known},
         empty |-> {[site |-> f, type |-> t] : t \in {x \in Types : Clearable(x)}}]

MiddlewareChain(p, nodes) ==
    [edges |-> UNION {ReclaimFunc(p, nodes, f).edges : f \in nodes},
     empty |-> UNION {ReclaimFunc(p, nodes, f).empty : f \in nodes}]
=============================================================================
