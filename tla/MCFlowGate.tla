------------------------------ MODULE MCFlowGate ------------------------------
(***************************************************************************)
(* Seventeen programs over an insert, a call, a publication and two kinds  *)
(* of wrapper, each edited into every other.                               *)
(***************************************************************************)
EXTENDS FlowGate

(* A span that says nothing, and the default configuration of a service.   *)
NoName == Name("")
Bare == [dest |-> NoName, route |-> NoName, path |-> NoName, stmt |-> [op |-> "", table |-> "", literals |-> ""],
         mop |-> "", msys |-> "", dbop |-> "", table |-> "", dbsys |-> "", namespace |-> "", host |-> "",
         rpcsys |-> "", rpcservice |-> "", rpcmethod |-> "", peer |-> "", method |-> "", fqn |-> "",
         extra |-> [k \in {} |-> NoName]]
MCBlank ==
    [id |-> <<>>, parent |-> <<>>, name |-> "", kind |-> "internal", attrs |-> Bare, start |-> 0, end |-> 0, gor |-> 0,
     status |-> "", err |-> "", async |-> FALSE, svc |-> "", slug |-> "", stamp |-> "", grade |-> "", links |-> <<>>]

MCConfig == [shortHexIDs |-> FALSE, rules |-> <<>>, useDefaults |-> TRUE, pins |-> <<>>, catchAll |-> 3,
             threshold |-> 2, allow |-> {}, redact |-> {}, guard |-> 2]

Span(kind, name, attrs) == [MCBlank EXCEPT !.name = name, !.kind = kind, !.attrs = attrs]

MCSpans0 ==
    [serve |-> Span("server", "serve", [Bare EXCEPT !.method = "POST", !.route = Name("/orders")]),
     put   |-> Span("client", "insert", [Bare EXCEPT !.dbsys = "sql", !.stmt = [op |-> "INSERT", table |-> "orders", literals |-> "7"]]),
     call  |-> Span("client", "GET", [Bare EXCEPT !.method = "GET", !.peer = "rates", !.route = Name("/fx")]),
     pub   |-> Span("producer", "send", [Bare EXCEPT !.mop = "publish", !.dest = Name("orders")]),
     wrap  |-> Span("internal", "wrap", Bare),
     mark  |-> Span("internal", "mark", [Bare EXCEPT !.fqn = "svc.mark"])]
MCAlphabet == <<Leaf("put").op, Leaf("call").op, Leaf("serve").op, Leaf("pub").op, Leaf("mark").op, Leaf("wrap").op>>
MCExpects == {{}, {[op |-> Leaf("put").op, once |-> TRUE]}}

Do(call, parent, after) == [call |-> call, parent |-> parent, after |-> after, own |-> FALSE]
Go(call, parent, after) == [call |-> call, parent |-> parent, after |-> after, own |-> TRUE]
Serving(tasks) == <<Do("serve", 0, {})>> \o tasks
MCPrograms ==
    {Serving(ts) : ts \in
        {<<Do("put", 1, {}), Do("call", 1, {2})>>,
         <<Do("call", 1, {}), Do("put", 1, {2})>>,
         <<Do("put", 1, {}), Do("put", 1, {2}), Do("call", 1, {2, 3})>>,
         <<Do("put", 1, {}), Do("call", 1, {2}), Do("put", 1, {2, 3})>>,
         <<Go("put", 1, {}), Go("call", 1, {})>>,
         <<Go("put", 1, {}), Go("put", 1, {}), Do("call", 1, {2, 3})>>,
         <<Go("put", 1, {}), Go("call", 1, {}), Do("pub", 1, {2, 3})>>,
         <<Do("pub", 1, {}), Go("put", 1, {2}), Go("call", 1, {2})>>,
         <<Go("put", 1, {}), Do("call", 1, {2}), Go("pub", 1, {2, 3})>>,      \* forks again after a join
         <<Go("put", 1, {}), Do("call", 1, {})>>,                             \* races with its own parent
         <<Do("wrap", 1, {}), Do("put", 2, {}), Do("call", 2, {3})>>,
         <<Do("mark", 1, {}), Do("put", 2, {}), Do("call", 2, {3})>>,
         <<Do("wrap", 1, {}), Do("put", 2, {}), Do("wrap", 1, {2}), Do("call", 4, {})>>,
         <<Do("wrap", 1, {}), Do("put", 2, {}), Do("wrap", 1, {2}), Do("put", 4, {})>>,
         <<Go("wrap", 1, {}), Do("put", 2, {}), Do("call", 2, {3}), Go("pub", 1, {})>>,
         <<Go("wrap", 1, {}), Go("put", 2, {}), Go("call", 2, {}), Go("pub", 1, {})>>,
         <<Go("wrap", 1, {}), Do("put", 2, {}), Go("wrap", 1, {}), Do("call", 4, {})>>}}
===============================================================================
