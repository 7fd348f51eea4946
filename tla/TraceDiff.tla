------------------------------ MODULE TraceDiff ------------------------------
(***************************************************************************)
(* The change set a reviewer reads when a flow no longer matches its       *)
(* golden: which operations came, went, moved or changed, the ones other   *)
(* services can see first.                                                 *)
(***************************************************************************)
EXTENDS Canon

CONSTANT Alphabet   \* the operations' keys, in the order of their letters

Letter(op) == CHOOSE i \in DOMAIN Alphabet : Alphabet[i] = op
InOrder(nodes) == SetToSortSeq(nodes, LAMBDA m, n : Letter(m.op) <= Letter(n.op))

Change(type, priority, op) == [type |-> type, priority |-> priority, op |-> op]

IsContract(n) == \/ n.kind \in {"producer", "consumer"}
                 \/ n.kind = "client" /\ n.peer # <<"", "">> /\ n.op.proto # "DB"
NodePriority(n) == IF IsContract(n) THEN 0 ELSE IF n.tier = 1 THEN 1 ELSE 3

(* What differs between two nodes taken for the same.                      *)
CompareAttrs(old, new) ==
    {Change("changed", 1, new.op) : x \in {x \in {"op", "status", "err"} : old[x] # new[x]}}
    \cup {Change("changed", IF new.tier = 1 THEN 1 ELSE 3, new.op) : x \in {x \in {1} : old.tier # new.tier}}
    \cup {Change("changed", 3, new.op) : x \in {x \in {"peer", "kind", "attrs"} : old[x] # new[x]}}
    \cup {Change("changed", 2, new.op) : x \in {x \in {1} : old.async # new.async}}

(* A node's children in a row, each with what its group says of it.        *)
Slots(groups) ==
    LET Slot(g, m) == [k \in 1..g.members[m] |-> [node |-> m, order |-> g.order, many |-> g.many]]
        Row(g, ms) == FlattenSeq([i \in DOMAIN ms |-> Slot(g, ms[i])])
    IN  FlattenSeq([i \in DOMAIN groups |-> Row(groups[i], InOrder(DOMAIN groups[i].members))])

(* The k-th child of an operation is matched with its k-th on the other    *)
(* side.                                                                   *)
Nth(slots, i) == Cardinality({j \in 1..i : slots[j].node.op = slots[i].node.op})
MatchSlots(old, new) ==
    {p \in (DOMAIN old) \X (DOMAIN new) : old[p[1]].node.op = new[p[2]].node.op /\ Nth(old, p[1]) = Nth(new, p[2])}

(* The members of a longest increasing run of positions did not move.      *)
Increasing(P) == \A p, q \in P : p[1] < q[1] => p[2] < q[2]
LisKept(P) == CHOOSE K \in SUBSET P : Increasing(K) /\ \A L \in SUBSET P : Increasing(L) => Cardinality(L) <= Cardinality(K)

AnyOrder(old, new, pairs) == pairs   \* groups' members taken for a sequence
InSequence(old, new, pairs) == {p \in pairs : old[p[1]].order = "sequence" /\ new[p[2]].order = "sequence"}
RECURSIVE MatchedPair(_, _)
DiffChildren(old, new, pairs) ==
    LET seqs == InSequence(old, new, pairs)
        Side(s, hit, type) == {Change(type, NodePriority(s[i].node), s[i].node.op) : i \in DOMAIN s \ hit}
        On(D, type) == {Change(type, 2, new[p[2]].node.op) : p \in D}
    IN  Side(old, {p[1] : p \in pairs}, "removed") \cup Side(new, {p[2] : p \in pairs}, "added")
        \cup On(seqs \ LisKept(seqs), "reordered")
        \cup On({p \in pairs : old[p[1]].order # new[p[2]].order}, "concurrency")
        \cup On({p \in pairs : old[p[1]].many # new[p[2]].many}, "cardinality")
        \cup UNION {MatchedPair(old[p[1]].node, new[p[2]].node) : p \in pairs}
MatchedPair(old, new) ==
    LET Of(a, b) == DiffChildren(a, b, MatchSlots(a, b))
    IN  CompareAttrs(old, new) \cup Of(Slots(old.groups), Slots(new.groups))

(* Shown by priority, in the order found among equals.                     *)
Diff(a, b) ==
    {Change("changed", 1, "") : x \in {x \in {"flow", "service"} : a[x] # b[x]}} \cup MatchedPair(a.root, b.root)
Headline(changes) == {c \in changes : \A d \in changes : c.priority <= d.priority}
=============================================================================
