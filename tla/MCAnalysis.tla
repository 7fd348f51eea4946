----------------------------- MODULE MCAnalysis -----------------------------
(***************************************************************************)
(* Instances of the analyses over a program: summaries, taint, and the     *)
(* schema cross-check.                                                     *)
(***************************************************************************)
EXTENDS ProgramRun, Taint, SchemaDrift

-----------------------------------------------------------------------------
(* Programs for TLC: main calls f and f calls g, each of a family of       *)
(* bodies that make the required call, the call it must precede, both or   *)
(* neither: straight, on the arms of a branch, around a loop, deferred,    *)
(* spawned, through a dispatch, in a method, in a recursion.               *)
Site(op, to, tags) == [op |-> op, to |-> to, tags |-> tags, invoke |-> ""]
Dyn(name) == [op |-> "call", to |-> {}, tags |-> {"err"}, invoke |-> name]
Reqs(op)  == Site(op, {"outside"}, {"req", "eff"})
Bef       == Site("call", {"outside"}, {"bef", "err"})
ToF       == Site("call", {"f"}, {"err"})
ToG       == Site("call", {"g"}, {"err"})

Straight(body)  == <<[body |-> body, succs |-> <<>>]>>
Arms(l, r, end) == <<[body |-> <<>>, succs |-> <<2, 3>>], [body |-> l, succs |-> <<4>>],
                     [body |-> r, succs |-> <<4>>], [body |-> end, succs |-> <<>>]>>
Around(l, end)  == <<[body |-> <<>>, succs |-> <<2, 3>>], [body |-> l, succs |-> <<2, 3>>],
                     [body |-> end, succs |-> <<>>]>>
Fn(blocks) == [blocks |-> blocks, panics |-> FALSE, recovers |-> FALSE, method |-> ""]
LineFn(body) == Fn(Straight(body))

Recovering == [LineFn(<<Reqs("call")>>) EXCEPT !.recovers = TRUE]
Panicking  == [LineFn(<<Bef>>) EXCEPT !.panics = TRUE]

GFns == {LineFn(<<>>), Fn(<<>>), LineFn(<<Reqs("call")>>), LineFn(<<Reqs("defer")>>), LineFn(<<Reqs("go")>>),
         Fn(Arms(<<Reqs("call")>>, <<Reqs("call")>>, <<>>)), Fn(Arms(<<Reqs("call")>>, <<>>, <<Bef>>)),
         Fn(Around(<<Reqs("call")>>, <<>>)), LineFn(<<ToF, Reqs("call")>>), LineFn(<<ToG, Reqs("call")>>),
         LineFn(<<Site("call", {"outside"}, {"eff"})>>), Recovering, [Panicking EXCEPT !.method = "M"], LineFn(<<Bef>>)}
FFns == {LineFn(<<ToG, Bef>>), LineFn(<<Site("defer", {"g"}, {"err"}), Bef>>),
         LineFn(<<Site("go", {"g"}, {}), Bef>>), LineFn(<<Site("call", {"g", "outside"}, {}), Bef>>),
         Fn(Arms(<<ToG>>, <<Reqs("call")>>, <<ToG, Bef>>)), Fn(Around(<<ToG>>, <<Bef>>)),
         LineFn(<<Dyn(""), ToG>>), LineFn(<<Dyn("M"), ToG>>), LineFn(<<Bef, ToG>>)}
MainFns == {LineFn(<<ToF>>), LineFn(<<Reqs("call"), ToF>>), LineFn(<<Reqs("defer"), ToF>>), LineFn(<<ToG, ToF>>),
            Fn(Arms(<<Reqs("call"), ToF>>, <<>>, <<ToF>>)),
            Fn(Arms(<<Reqs("call"), ToF>>, <<Reqs("call"), ToG>>, <<ToF>>)),
            LineFn(<<Site("use", {"f", "g"}, {}), Dyn(""), Reqs("call"), ToF>>),
            LineFn(<<Reqs("call"), Site("go", {"f"}, {}), Site("call", {"f", "g"}, {"err"}), Bef>>),
            LineFn(<<Reqs("call"), Site("defer", {"f"}, {})>>)}

MCPrograms ==
    {[main |-> LineFn(<<Reqs("call"), ToF>>), f |-> f, g |-> g] : f \in FFns, g \in GFns}
    \cup {[main |-> m, f |-> LineFn(b), g |-> g] :
             m \in MainFns, b \in {<<ToG, Bef>>, <<Bef, ToG>>},
             g \in {LineFn(<<Reqs("call")>>), Fn(Arms(<<Reqs("call")>>, <<>>, <<Bef>>)), Panicking}}

-----------------------------------------------------------------------------
(* Programs for TLC: five values, two of them loads of one field, four     *)
(* with the uses of a family; one source a call, the other a field.        *)
Move(v)     == [op |-> "move", to |-> v]
Return(f)   == [op |-> "return", at |-> f]
CallTo(C)   == [op |-> "call", at |-> "m", callees |-> C]
SinkOf(s)   == [kind |-> "sink", sink |-> s]
Param(v)    == [kind |-> "param", val |-> v]

Menu(later) ==
    {{Move(v)} : v \in later}
    \cup {{}, {[op |-> "field", key |-> "k", base |-> "v5"]}, {Return("f")}, {Return("g")},
          {[op |-> "opaque", at |-> "f"]}, {CallTo({SinkOf("s1")}), Move("v4")},
          {CallTo({SinkOf("s2"), Param("v3")})}, {CallTo({Param("v3"), [kind |-> "away"]})}}

TaintProgram(uses) ==
    [vals |-> DOMAIN uses, uses |-> uses,
     loads |-> [k \in {"k"} |-> {"v2", "v4"}],
     results |-> [f \in {"f", "g"} |-> IF f = "f" THEN {"v4", "v2"} ELSE {}],
     called |-> {"f"}, entered |-> {"g"},
     seed |-> [s \in Sources |-> IF s = "A" THEN {"v1"} ELSE {}],
     seedFields |-> [s \in Sources |-> IF s = "B" THEN {"k"} ELSE {}]]

MCTaintPrograms ==
    {TaintProgram([v1 |-> a, v2 |-> b, v3 |-> c, v4 |-> d, v5 |-> {}]) :
        a \in Menu({"v2", "v3"}), b \in Menu({"v3"}) \ {{Return("f")}, {Move("v3")}},
        c \in {{Move("v1")}, {Return("g")}}, d \in {{}, {Move("v5"), CallTo({SinkOf("s1")})}}}

-----------------------------------------------------------------------------
(* Histories of one or two releases: tables created, dropped, renamed,     *)
(* named in text only, and owned by a library; versions V2, V2.1 and V10,  *)
(* whose names sort otherwise; a migration back-dated in a later release.  *)
T(t) == [schema |-> "public", table |-> t]
Text(where, op, tables) == [where |-> where, op |-> op, tables |-> tables]
Do(op, tables) == Text("statement", op, tables)
File(kind, version, name, sql) ==
    [kind |-> kind, version |-> version, name |-> name, rollback |-> FALSE, sql |-> sql]
Sql(from, verb, t) == [from |-> from, verb |-> verb, label |-> t, table |-> T(t)]
Opaque(from, t) == [from |-> from, verb |-> "call", label |-> "", table |-> T(t)]

V2    == File("versioned", <<2>>, 2, <<Do("create", <<T("orders")>>), Text("comment", "drop", <<T("orders")>>)>>)
Undo2 == [File("versioned", <<2>>, 3, <<Do("drop", <<T("orders")>>)>>) EXCEPT !.rollback = TRUE]
V2_1  == File("versioned", <<2, 1>>, 4, <<Do("create", <<T("old")>>), Do("createTemp", <<T("paid")>>)>>)
V10   == File("versioned", <<10>>, 1, <<Do("drop", <<T("old")>>), Text("body", "create", <<T("paid")>>)>>)
Renames == File("versioned", <<11>>, 5, <<Do("create", <<T("draft")>>), Do("rename", <<T("draft"), T("paid")>>)>>)
View  == File("repeatable", <<>>, 6, <<Do("create", <<T("old")>>), Text("literal", "create", <<T("paid")>>)>>)
Hand  == File("script", <<>>, 7, <<Do("create", <<T("paid")>>)>>)

Reads == {Sql("f", "SELECT", "orders"), Sql("f", "UPDATE", "old"), Sql("g", "INSERT", "paid"), Sql("g", "SELECT", "outbox")}
Of(files, owned) == [files |-> files, edges |-> Reads, owned |-> owned]
Outbox == {T("outbox")}
MCRepositories ==
    {<<Of({V2, V2_1, V10, Undo2}, Outbox)>>, <<Of({V2}, {}), Of({V2, Hand}, Outbox)>>,
     <<Of({V2, V2_1}, Outbox), Of({V2, V2_1, V10}, Outbox)>>, <<Of({V2, V10}, Outbox), Of({V2, V2_1, V10}, Outbox)>>,
     <<Of({V2, V10, View}, Outbox), Of({V2, V10, Renames, View}, Outbox)>>, <<Of({V10, View, Hand}, {})>>,
     <<[Of({V2, V2_1}, Outbox) EXCEPT !.edges = {Sql("f", "INSERT", "orders"), Opaque("f", "paid"), Opaque("g", "orders")}]>>}
=============================================================================
