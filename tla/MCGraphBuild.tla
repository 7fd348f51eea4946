----------------------------- MODULE MCGraphBuild -----------------------------
(***************************************************************************)
(* Small services for TLC: a route h (and a route k) of package a, what    *)
(* they call in package b, and one feature of the language at a time.      *)
(***************************************************************************)
EXTENDS GraphBuild

BareSite == [do |-> "call", to |-> {}, seen |-> {}, impls |-> {}, type |-> "", arg |-> "", how |-> "", q |-> "", on |-> "",
          field |-> "", init |-> "", thread |-> FALSE, use |-> "", conc |-> FALSE]
MCCall(g)      == <<[BareSite EXCEPT !.to = {g}, !.seen = {g}, !.impls = {g}]>>
HandTo(g, v)     == <<[BareSite EXCEPT !.to = {g}, !.seen = {g}, !.impls = {g}, !.arg = v]>>
Method(G, S, v) == <<[BareSite EXCEPT !.do = "iface", !.to = G, !.seen = S, !.impls = G, !.arg = v]>>
Value(G, S, t) == <<[BareSite EXCEPT !.do = "value", !.to = G, !.seen = S, !.type = t]>>
Invoke(S)      == <<[BareSite EXCEPT !.do = "param", !.seen = S, !.type = "fn"]>>
Does(on, how, q) == <<[BareSite EXCEPT !.do = "effect", !.on = on, !.how = how, !.q = q]>>
Query(q)       == Does("db", "const", q)
Loop(v, G, i)  == <<[BareSite EXCEPT !.do = "loop", !.field = v, !.to = G, !.init = i, !.type = "mw"]>>
ServeHTTP(G, S, i, threaded) == <<[BareSite EXCEPT !.do = "serve", !.to = G, !.seen = S, !.init = i, !.thread = threaded]>>
Async(site)    == <<[site[1] EXCEPT !.conc = TRUE]>>

Field(stores, readonly, escapes) == [stores |-> stores, readonly |-> readonly, escapes |-> escapes]
Holds(E)   == [src |-> "elems", elems |-> E, of |-> ""]
Mystery(E) == [src |-> "unknown", elems |-> E, of |-> ""]
CopyOf(v)  == [src |-> "copy", elems |-> {}, of |-> v]

Route(name, handler) == [kind |-> "http", name |-> name, handler |-> handler]

(* A program of these bodies; the functions named in kinds are not own. *)
ServiceOf(bodies, kinds) ==
    [fns      |-> DOMAIN bodies,
     sites    |-> bodies,
     kind     |-> [f \in DOMAIN bodies |-> IF f \in DOMAIN kinds THEN kinds[f] ELSE "own"],
     parent   |-> [f \in DOMAIN bodies |-> IF f = "c" THEN "h" ELSE IF f = "d" THEN "k" ELSE ""],
     pkg      |-> [f \in DOMAIN bodies |-> IF f \in {"main", "h", "k", "c", "d"} THEN "a" ELSE "b"],
     returns  |-> [f \in DOMAIN bodies |-> "no"],
     regs     |-> {Route("H", "h")} \cup (IF "k" \in DOMAIN bodies THEN {Route("K", "k")} ELSE {}),
     declared |-> {}, exported |-> {}, mains |-> {"main"},
     linkname |-> [q \in {"a", "b"} |-> FALSE],
     fields   |-> [v \in {"chain"} |-> Field({}, TRUE, FALSE)],
     seams    |-> {}, notes |-> {}]

AllOwn == [f \in {} |-> "own"]

(* Calls of x and y: by name, through a wrapper (one of its own effect, one *)
(* of another wrapper), by method, by value, resolved or not, and by means  *)
(* no call graph sees.                                                      *)
Hidden(how) == <<[BareSite EXCEPT !.do = how, !.to = {"x"}]>>
Dispatches ==
    LET Calls == {MCCall("x"), MCCall("w"), Method({"x", "y"}, {"x", "y"}, ""), Method({"w", "y"}, {"w", "y"}, ""),
                  Value({"x"}, {"x", "y", "w"}, "fn"), Value({"x"}, {}, "fn"), Async(Value({"x"}, {}, "fn")), Hidden("reflect"), Hidden("link")}
        Make(call, w, how) ==
            [ServiceOf([main |-> <<>>, h |-> call, x |-> Query("q1"), w |-> w, r |-> MCCall("y"),
                      y |-> Does("bus", how, "e1") \o MCCall("x")], [w |-> "wrap", r |-> "wrap"])
                EXCEPT !.linkname["a"] = call = Hidden("link")]
    IN  {Make(call, w, how) : call \in Calls, w \in {MCCall("x"), Query("q2"), MCCall("r")}, how \in {"const", "dyn"}}

(* A closure c of h handed to a runner: its own, one that forwards, one of *)
(* two implementations, one outside; kept besides, or not.  The call graph *)
(* may leave a call of first-party code unresolved, never one outside.     *)
Closures ==
    LET Hand  == {HandTo("r", "c"), Method({"r", "s"}, {"r", "s"}, "c")}
        Keep  == {<<>>, <<[BareSite EXCEPT !.do = "keep", !.arg = "c"]>>}
        Runner(S) == {Invoke(S), HandTo("s", "param"), Method({"s", "t"}, {"s", "t"}, "param")}
        Make(hand, keep, r, s, kinds) ==
            ServiceOf([main |-> <<>>, h |-> hand \o keep, c |-> Query("q1"), r |-> r, s |-> s, t |-> HandTo("r", "param")], kinds)
        Of(kinds, S) == {Make(hand, keep, r, s, [r |-> kind]) :
                            hand \in Hand, keep \in Keep, r \in Runner(S), s \in {Invoke({"c"}), HandTo("r", "param"), <<>>}, kind \in kinds}
    IN  Of({"own"}, {}) \cup Of({"own", "std", "third"}, {"c"})

(* Two routes share a runner, which the call graph thinks may run both     *)
(* closures; k may hand it what h has stored away.                         *)
Shared ==
    {ServiceOf([main |-> <<>>, h |-> HandTo("r", "c") \o keep, k |-> other, c |-> Query("q1"), d |-> Query("q2"),
              r |-> <<[Invoke({"c", "d"})[1] EXCEPT !.to = IF keep = <<>> THEN {} ELSE {"c"}]>>], AllOwn) :
        keep \in {<<>>, <<[BareSite EXCEPT !.do = "keep", !.arg = "c"]>>}, other \in {HandTo("r", "d"), MCCall("r")}}

(* The field of a chain, and what its loop really applies.                 *)
Chains == {[v |-> Field({}, TRUE, FALSE), to |-> {}], [v |-> Field({Holds({})}, TRUE, FALSE), to |-> {}],
           [v |-> Field({Holds({"y"})}, TRUE, FALSE), to |-> {"y"}], [v |-> Field({Mystery({})}, TRUE, FALSE), to |-> {"y"}],
           [v |-> Field({}, FALSE, FALSE), to |-> {"y"}], [v |-> Field({}, TRUE, TRUE), to |-> {"y"}],
           [v |-> Field({CopyOf("more")}, TRUE, FALSE), to |-> {"y"}]}

ChainService(bodies, chain, init, returns) ==
    LET all == bodies @@ [main |-> <<>>, x |-> Query("q1"), y |-> Query("q2"), w |-> MCCall("x"), s |-> Value({}, {init, "y"}, "fn")]
        own == ServiceOf(all, [w |-> "wrap", s |-> "std"])
    IN  [own EXCEPT !.returns = [f \in DOMAIN all |-> IF f = "t" THEN returns ELSE "no"],
                    !.fields = [chain |-> chain.v, more |-> Field({Holds({"y"})}, TRUE, FALSE)]]

(* h loops and serves; a second call by value may be of the chain's type.  *)
InlineChains ==
    LET Make(chain, init, more) ==
            ChainService([h |-> Loop("chain", chain.to, init) \o more \o ServeHTTP({init}, {"s"}, init, TRUE), c |-> Query("q3")],
                         chain, init, "no")
    IN  {Make(chain, init, more) : chain \in Chains, init \in {"c", "x", "w"},
            more \in {<<>>, Value({"y"}, {}, "mw"), Value({"y"}, {}, "fn")}}

(* h has t build the chain, by name or by method, and serves, keeps or     *)
(* drops what it returns, which is sometimes another handler.              *)
FactoredChains ==
    LET Ask(how, init, use) == <<[(IF how = "name" THEN HandTo("t", init) ELSE Method({"t"}, {"t"}, init))[1] EXCEPT !.use = use]>>
        Served(init, use, returns) == IF use # "serve" THEN <<>>
                                      ELSE ServeHTTP({init} \cup (IF returns = "some" THEN {"y"} ELSE {}), {"s"}, "", TRUE)
        Make(chain, init, how, use, returns) ==
            ChainService([h |-> Ask(how, init, use) \o Served(init, use, returns), c |-> Query("q3"), t |-> Loop("chain", chain.to, "param")],
                         chain, init, returns)
    IN  {Make(chain, init, how, use, returns) : chain \in Chains, init \in {"c", "x", "w"}, how \in {"name", "method"},
            use \in {"serve", "keep", ""}, returns \in {"some", "all"}}

(* Queries given to a helper by two routes, one of them by way of code     *)
(* outside.                                                                *)
Queries ==
    LET Ask(how, q) == <<[MCCall("r")[1] EXCEPT !.how = how, !.q = q]>>
    IN  {ServiceOf([main |-> <<>>, h |-> Ask(how, "q1"), k |-> other, s |-> Ask("dyn", "q3"), r |-> Does("db", own, "q4")], [s |-> "std"]) :
            how \in {"const", "built", "dyn"}, own \in {"param", "built", "dyn"}, other \in {Ask("const", "q2"), MCCall("s")}}

(* What a configuration says: unresolved registrations, declared entry     *)
(* points and seams, notes.                                                *)
Configured ==
    LET base == ServiceOf([main |-> <<>>, h |-> Value({"x"}, {}, "fn"), k |-> Query("q2"), x |-> Query("q1")], AllOwn)
    IN  {[base EXCEPT !.regs = {Route("H", "h"), odd}, !.declared = declared, !.seams = seams, !.notes = notes] :
            odd \in {Route("", "k"), Route("K", ""), Route("H", "k")},
            declared \in {{}, {[kind |-> "worker", fn |-> "k"]}, {[kind |-> "worker", fn |-> "gone"]}},
            seams \in {{}, {[kind |-> "", site |-> "h"]}, {[kind |-> "Bogus", site |-> "h"]}},
            notes \in {{}, {[kind |-> "", site |-> "h"]}, {[kind |-> "UnresolvedCall", site |-> "h"]},
                       {[kind |-> "ConcurrentDispatch", site |-> "h"]}, {[kind |-> "Reflect", site |-> "h"]}}}
    \cup {[base EXCEPT !.regs = {}, !.mains = {}, !.exported = E] : E \in {{}, {"h"}}}

(* A runner that hands itself its own closure, one that keeps what it was  *)
(* given and runs it later, and one outside that runs a closure which      *)
(* another function is thought to run too.                                 *)
Runners ==
    {ServiceOf([main |-> <<>>, h |-> HandTo("h", "c") \o Invoke({"c"}), c |-> Query("q1")], AllOwn)}
    \cup {ServiceOf([main |-> <<>>, h |-> HandTo("r", "c"), k |-> MCCall("r"), c |-> Query("q1"), r |-> Invoke({"c"}) \o later], AllOwn) :
              later \in {<<>>, Value({"c"}, {"c"}, "fn")}}
    \cup {ServiceOf([main |-> <<>>, h |-> HandTo("r", "c"), k |-> Value({}, {"c"}, "fn"), c |-> Query("q1"), r |-> Invoke({"c"})], [r |-> "std"])}

MCBuildPrograms == Runners \cup Dispatches \cup Closures \cup Shared \cup InlineChains \cup FactoredChains \cup Queries \cup Configured
=============================================================================
