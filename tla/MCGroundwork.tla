---------------------------- MODULE MCGroundwork ----------------------------
(***************************************************************************)
(* Instances of the groundwork side: what is judged, reviewed and          *)
(* impeached.                                                              *)
(***************************************************************************)
EXTENDS FitnessRun, ReviewGate, Impeach, MCPropose, TLC

-----------------------------------------------------------------------------
(* Graphs of three functions, policies of one rule and a file of claims.   *)
Heads == {{Call(1, 2)}, {Call(1, 2), Call(1, 3)}, {Go(1, 2), Call(1, 3)}, {Call(1, 2), Call(2, 1)}}
Tails == {{}, {Call(2, 3), Call(3, 51)}, {Call(2, 51), Go(3, 53)}, {Call(2, 3), Call(2, 52)},
          {Call(2, 54), Go(2, 3), Call(3, 51)}}
Spots == {Spot("HighFanOut", 2), Spot("unsafe", 22), Spot("ConcurrentDispatch", 1),
          Spot("ExternalBoundaryCall", 1)}
MCGraphs ==
    {Graph(h \cup t, {}) : h \in Heads, t \in Tails}
    \cup {Graph({Call(1, 2)} \cup t, s) : t \in {{Call(2, 3), Call(3, 51)}, {Call(2, 54), Call(3, 57)}}, s \in Spots}
    \cup {[Graph({Call(1, 2)}, {}) EXCEPT
              !.entries = {[kind |-> "http", name |-> "GET /u/{id}", fn |-> 1],
                           [kind |-> "http", name |-> "GET /u/me", fn |-> 2]},
              !.oblig = {[rule |-> "o", status |-> s, fn |-> 1, site |-> 1]}] : s \in {"SATISFIED", "VIOLATED"}}
    \cup {Graph({[Call(1, 51) EXCEPT !.marked = FALSE]}, {}), Graph({Call(4, 1)}, {})}

MCPolicies ==
    {[Base EXCEPT !.reach = <<Rule({"entrypoint:*", "gone"}, {"three", "bus"}, FALSE)>>],
     [Base EXCEPT !.reach = <<Rule({"two"}, {"db"}, TRUE)>>],
     [Base EXCEPT !.pass = <<Pass({"one"}, {"three", "db"}, {"two"}, {Entry({1}, AnyName)})>>],
     [Base EXCEPT !.pass = <<Pass({"one", "two"}, {"low", "db"}, {"three"},
                                 {Entry({1, 2}, {51}), Entry({1}, {2, 51}), Entry({3}, {3})})>>],
     [Base EXCEPT !.conc = <<[name |-> "c", to |-> {"three", "bus"}, proof |-> FALSE]>>],
     [Base EXCEPT !.budget = [set |-> TRUE, max |-> 1]],
     Layered({Entry({1, 2}, {3}), Entry({2}, AnyName)}), Helped({Entry({3}, {1})}),
     [Base EXCEPT !.reach = <<Rule({"two"}, {"entrypoint:*"}, TRUE)>>]}

MCQueryOf ==
    [q \in {"one", "two", "three", "low", "ones", "gone", "broken", "db"} |->
        [ok |-> q # "broken", regex |-> q \in {"low", "broken"},
         covers |-> CASE q = "one" -> {1} [] q = "two" -> {2} [] q = "three" -> {3} [] q = "db" -> {51}
                      [] q \in {"low", "ones"} -> {1, 2} [] OTHER -> {9}]]
MCRouteOf ==
    [r \in {"GET /u/{id}", "GET /u/me", "/me", "topic"} |->
        [route |-> r # "topic", method |-> IF r \in {"/me", "topic"} THEN "" ELSE "GET",
         segs |-> CASE r = "GET /u/{id}" -> <<"u", "*">> [] r = "GET /u/me" -> <<"u", "me">>
                    [] r = "/me" -> <<"me">> [] OTHER -> <<"topic">>]]
Family(S) == [of |-> S, list |-> Cardinality(S) > 1]
MCClaimFile ==
    LET Link(k, f, t) == [kind |-> k, from |-> Family(f), to |-> Family(t)] IN
    <<Link("edge", {"one"}, {"low"}), Link("edge", {"ones"}, {"two"}), Link("no_edge", {"one"}, {"gone"}),
      Link("no_edge", {"two"}, {"three"}) @@ [eq |-> 1],
      Link("edge_count", {"low"}, {"db"}) @@ [eq |-> 1],
      [kind |-> "node", fqn |-> "low", tier |-> 1], [kind |-> "node", fn |-> "ones", fqn |-> "one"],
      [kind |-> "no_node", fn |-> "gone"], [kind |-> "no_node", fqn |-> "broken"],
      [kind |-> "in_degree", of |-> "two", eq |-> 1, to_matching |-> "low"],
      [kind |-> "out_degree", fn |-> "one", eq |-> 2], [kind |-> "entrypoint", name |-> "/me", fn |-> "low"],
      [kind |-> "obligation", name |-> "o", expect |-> "satisfied"],
      Link("reach", {"one"}, {"three"}) @@ [expect |-> "absent"],
      Link("reach", {"two"}, {"db", "bus"}) @@ [expect |-> "absent"],
      Link("reach", {"one", "gone"}, {"three"}) @@ [expect |-> "present"],
      Link("pass_through", {"one"}, {"db"}) @@ [through |-> Family({"two"})],
      [kind |-> "no_concurrent_reach", to |-> Family({"three", "bus"})]>>

-----------------------------------------------------------------------------
(* Branches that add, move and remove calls, effects, entrypoints and      *)
(* blind spots, under policies that do and do not gate on them.            *)
MRBase == {Call(1, 2), Call(1, 51)}
Entry1 == {[kind |-> "http", name |-> "route", fn |-> 1]}
Topic  == {[kind |-> "consumer", name |-> "e", fn |-> 2]}
G(E, s, n) == [Graph(E, s) EXCEPT !.entries = n]
MCMRGraphs ==
    {G({Call(1, 2)}, {}, {}), G({Go(1, 2)}, {}, {}), G({Call(1, 2), Call(2, 3)}, {}, {}),
     G({Call(1, 2), Call(3, 51)}, {}, Entry1), G({Call(1, 2), Call(2, 55)}, {}, Entry1),
     G({Call(1, 2)}, {}, Entry1 \cup Topic), G({Call(1, 2), Call(2, 53)}, Spot("HighFanOut", 2), Entry1),
     G({Call(1, 2), Call(1, 51), Call(2, 56)}, Spot("HighFanOut", 2), {}),
     [G({Call(1, 2)}, Spot("unsafe", 22), {}) EXCEPT !.nodes = {1, 2}, !.algo = "rta"]}
MCMRPolicies ==
    {[Base EXCEPT !.reach = <<Rule({"one"}, {"three", "db"}, TRUE), [Rule({"low"}, {"bus"}, FALSE) EXCEPT !.name = "q"]>>],
     [Base EXCEPT !.reach = <<Rule({"low"}, {"db"}, FALSE)>>],
     [Base EXCEPT !.effectRatchet = TRUE, !.effectGate = TRUE, !.effectAllow = {{53}}],
     [Base EXCEPT !.budget = [set |-> TRUE, max |-> 0], !.effectRatchet = TRUE, !.effectGate = TRUE, !.effectAllow = {{53}}],
     [Base EXCEPT !.spotRatchet = TRUE, !.spotGate = TRUE, !.spotAllow = {[kind |-> "", sites |-> {22}]}]}

-----------------------------------------------------------------------------
(* Services that call what their graph misses, over a blind spot or past   *)
(* every one, with an entry the graph does not know.                       *)
MCSymbolOf ==
    [f \in MCFunctions |-> [pkg |-> 24, recv |-> "", ptr |-> FALSE, name |-> ToString(f),
                           shape |-> IF f = 4 THEN "closure" ELSE "plain"]]

Rooted(E, spots) ==
    [Graph(E, spots) EXCEPT !.entries = {[kind |-> "http", name |-> "route", fn |-> 1]}]
Op(name, fn) == [name |-> name, fn |-> fn]
Service(g, hidden, rules) ==
    [graph |-> g, hidden |-> hidden, policy |-> [Base EXCEPT !.reach = rules],
     ops |-> {Op("route", 1), Op("other", 2)}]

Strict == <<[Rule({"one"}, {"db"}, TRUE) EXCEPT !.name = "strict"], Rule({"three"}, {"db"}, FALSE)>>
MCImpeachPrograms ==
    {Service(Rooted({Call(1, 2), Call(3, 51)}, {}), {Call(2, 3)}, Strict),
     Service(Rooted({Call(1, 2), Call(3, 51), Call(3, 53)}, Spot("unsafe", 2)), {Call(2, 3), Call(1, 51)}, Strict),
     Service([Rooted({Call(1, 2), Call(3, 51)}, {}) EXCEPT !.nodes = {1, 3}, !.edges = {Call(3, 51)},
                 !.frontier = {[site |-> 1, owner |-> 3]}], {Call(1, 2), Call(2, 53), Call(1, 51)}, <<>>),
     Service(Graph({Call(1, 2), Call(2, 51)}, {}), {Call(2, 3), Call(3, 53)}, <<>>),
     Service(Rooted({Call(2, 51), Call(3, 53)}, {}), {Call(1, 2), Call(1, 3), Call(1, 51)},
             <<Rule({"two"}, {"db"}, FALSE)>>)}
(* A publish that names nothing is reached, one that names e is not. *)
MCImpeachDynamic == {Service(Rooted({Call(1, 52), Call(3, 53)}, {}), {}, <<>>)}
=============================================================================
