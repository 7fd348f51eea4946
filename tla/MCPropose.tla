------------------------------ MODULE MCPropose ------------------------------
(***************************************************************************)
(* Services init may be run on, each also a branch of the others.          *)
(* Function 4 is a closure of 1, and 1 a method of a type.                 *)
(***************************************************************************)
EXTENDS Propose

(* The small graphs are drawn over the functions 1 to 3 in the packages 21 *)
(* to 23, a function 4 that few declare, and labels from 51 of every class *)
(* the rules tell apart.                                                   *)
MCFunctions == 1..4
MCLabels    == 51..57
LabelAs(row) == [kind |-> row[1], op |-> row[2], target |-> row[3], dynamic |-> row[3] = "<dynamic>"]
MCLabelOf ==
    [l \in MCLabels |-> LabelAs(
        <<<<"db", "UPDATE", "t">>, <<"bus", "PUBLISH", "<dynamic>">>, <<"bus", "PUBLISH", "e">>, <<"rpc", "", "svc">>,
          <<"http", "GET", "peer">>, <<"bus", "CONSUME", "e">>, <<"db", "CALL", "">>>>[l - 50])]
MCPackage == [f \in MCFunctions |-> IF f = 4 THEN 21 ELSE 20 + f]
MCBinds ==
    [s \in {"one", "two", "three", "low", "ones", "gone", "db", "bus", "entrypoint:*",
          "Create", "Create$1", "(*Server)", "db-writes", "bus-publish"} |->
        CASE s = "one" -> {1} [] s = "two" -> {2} [] s = "three" -> {3}
          [] s \in {"low", "ones"} -> {1, 2} [] s = "db" -> {51, 57} [] s = "bus" -> {52, 53, 56}
          [] s \in {"Create", "(*Server)"} -> {1, 4} [] s = "Create$1" -> {4}
          [] s = "db-writes" -> {51} [] s = "bus-publish" -> {52, 53}
          [] OTHER -> {}]

Edge(f, t, conc) == [from |-> f, to |-> t, conc |-> conc, marked |-> t \in MCLabels, via |-> ""]
Call(f, t) == Edge(f, t, FALSE)
Go(f, t)   == Edge(f, t, TRUE)
Spot(kind, site) == {[kind |-> kind, site |-> site]}
Graph(E, spots) ==
    [nodes |-> {1, 2, 3}, edges |-> E, spots |-> spots, entries |-> {}, oblig |-> {}, caveats |-> {},
     algo |-> "vta", tool |-> "1", stamp |-> "c1", frontier |-> {}, roots |-> {}, mains |-> {},
     tiers |-> [f \in MCFunctions |-> IF f = 3 THEN {1, 2} ELSE {1}]]

Entry(from, to) == [from |-> from, to |-> to]
Rule(from, to, proof) == [name |-> "r", from |-> from, to |-> to, proof |-> proof]
Pass(from, to, through, allow) ==
    [name |-> "p", from |-> from, to |-> to, through |-> through, allow |-> allow, proof |-> FALSE]
Base ==
    [service |-> "s", version |-> 1, layers |-> <<>>, layered |-> FALSE, layerAllow |-> {}, roots |-> {},
     reach |-> <<>>, pass |-> <<>>, conc |-> <<>>, budget |-> [set |-> FALSE, max |-> 0],
     spotAllow |-> {}, spotRatchet |-> FALSE, spotGate |-> FALSE,
     effectAllow |-> {}, effectRatchet |-> FALSE, effectGate |-> FALSE,
     brokers |-> {}, substrate |-> "vta"]

(* A layer is a package or the two whose names begin alike: the longer     *)
(* pattern wins.                                                           *)
Layer(name, pkgs) == [name |-> name, packages |-> {[covers |-> {p}, len |-> 2] : p \in pkgs}]
Layered(allow) ==
    [Base EXCEPT !.layered = TRUE, !.layerAllow = allow,
         !.layers = <<Layer("top", {21}), Layer("mid", {23}),
                      [name |-> "low", packages |-> {[covers |-> {22, 23}, len |-> 1]}]>>]
(* 22 is a helper of no layer, and 21 may not be called from 23. *)
Helped(allow) ==
    [Base EXCEPT !.layered = TRUE, !.layerAllow = allow,
         !.layers = <<Layer("top", {23}), Layer("mid", {21})>>]

-----------------------------------------------------------------------------
(* Services and branches.                                                  *)

MCNameOf == [f \in MCFunctions |-> CASE f = 1 -> "Create" [] f = 2 -> "two" [] f = 3 -> "three" [] f = 4 -> "Create$1"]
MCTypeOf == [f \in MCFunctions |-> IF f \in {1, 4} THEN "(*Server)" ELSE ""]
MCPatternOf == [k \in 21..23 |-> [covers |-> {k}, len |-> 1]]
MCNumbered == <<"layer-1", "layer-2", "layer-3">>
Segments(two, three) == [k \in 21..23 |-> CASE k = 21 -> "api" [] k = 22 -> two [] k = 23 -> three]
MCLastSegment == Segments("app", "store")
SameSegment   == Segments("store", "store")

Four(E) == [Graph(E, {}) EXCEPT !.nodes = 1..4]
Chain   == {Call(1, 2), Call(2, 3), Call(3, 51)}
ReadAndWrite == {Call(1, 55), Call(2, 51)}
SeamTo(l) == {Call(1, 55), Call(2, 4), Call(4, 3), Call(3, l)}

MCBranches ==
    {Graph(Chain \cup {Call(1, 3)}, {}), Four(Chain \cup {Call(1, 3), Call(4, 3)}), Four(SeamTo(51)), Four(SeamTo(53)),
     Graph(ReadAndWrite \cup {Call(1, 53)}, {}), Graph(ReadAndWrite \cup {Go(2, 3), Call(3, 51)}, {}),
     Graph({Call(2, 51), Call(2, 53), Call(1, 3)}, {})}
MCInitGraphs ==
    MCBranches \cup
    {Graph(Chain, Spot("unsafe", 22)), [Four(Chain \cup {Call(4, 3)}) EXCEPT !.roots = {21}],
     [Four(Chain \cup {Call(4, 3)}) EXCEPT !.mains = {1}], Four({Call(2, 1), Call(4, 1), Call(1, 3), Call(3, 51)}),
     Graph({Call(1, 2), Call(2, 1), Call(2, 51)}, {}), Four(SeamTo(57)), Graph(ReadAndWrite, {}),
     Graph(ReadAndWrite \cup {Go(2, 3), Call(3, 55)}, {}), Graph(ReadAndWrite \cup {Go(2, 57)}, {})}
=============================================================================
