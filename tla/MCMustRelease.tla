-------------------------- MODULE MCMustRelease --------------------------
(* Families of small functions for TLC to run MustRelease on. *)
EXTENDS MustRelease

Site(op, rel, web, cands, frontier, addr) ==
    [op |-> op, rel |-> rel, holds |-> FALSE, web |-> web, cands |-> cands,
     frontier |-> frontier, addr |-> addr]

Acquire  == [op |-> "acquire"]
Store(v) == [op |-> "store", val |-> v]
Release  == Site("call", TRUE, TRUE, {}, TRUE, FALSE)
Deferred == Site("defer", TRUE, TRUE, {}, TRUE, FALSE)
Spawned  == Site("go", TRUE, FALSE, {}, TRUE, FALSE)
Hand(s)  == Site("call", FALSE, TRUE, s, FALSE, FALSE)
Dynamic  == Site("call", FALSE, TRUE, {}, TRUE, FALSE)
Rebinds  == Site("call", FALSE, FALSE, {}, FALSE, TRUE)
Annotate == Site("defer", FALSE, FALSE, {}, FALSE, TRUE)
Closure(s) == [Site("defer", FALSE, FALSE, {s}, FALSE, FALSE) EXCEPT !.holds = TRUE]

Return     == {[term |-> [op |-> "return"], succs |-> <<>>]}
Panic      == {[term |-> [op |-> "panic"], succs |-> <<>>]}
JumpTo(S)  == {[term |-> [op |-> "jump"], succs |-> <<s>>] : s \in S}
Branch(v, neqs, S, T) ==
    {[term |-> [op |-> "if", tests |-> v, neq |-> q], succs |-> s] :
        q \in neqs, s \in {t \in S \X T : t[1] # t[2]}}

BlockOf(bodies, ends) ==
    {[body |-> y, term |-> e.term, succs |-> e.succs] : y \in bodies, e \in ends}

NoPhi(bs) == [at |-> 0, src |-> [b \in DOMAIN bs |-> "foreign"]]

(* A function of these blocks, with its one acquire in block b. *)
Function(bs, b, errs) ==
    [blocks |-> bs, errs |-> errs, phi |-> NoPhi(bs),
     acq |-> [block |-> b,
              index |-> CHOOSE i \in DOMAIN bs[b].body : bs[b].body[i] = Acquire],
     recovers |-> FALSE, escapes |-> FALSE]

(* Releases, maybe-releases and control flow, with the acquire in or out   *)
(* of a loop and with a path around it.                                    *)
WalkFunctions ==
    LET Bodies == {<<>>, <<Release>>, <<Hand({"UNKNOWN"})>>}
        Top   == BlockOf({<<>>}, JumpTo({2}) \cup Branch("other", {TRUE}, {2}, {4}))
        Acq   == BlockOf({<<Acquire>>, <<Release, Acquire>>},
                         Branch("acqErr", BOOLEAN, {3, 4}, {3, 4}) \cup JumpTo({3}))
        Other == BlockOf(Bodies, Return \cup JumpTo({2, 4})
                                 \cup Branch("other", {TRUE}, {2, 4}, 2..4))
        End   == BlockOf(Bodies, Return \cup JumpTo({2, 3}))
    IN  {Function(<<x, y, z, w>>, 2, TRUE) :
            x \in Top, y \in Acq, z \in Other, w \in End}

(* Every kind of call site on one path, with an exit on either side.       *)
CallFunctions ==
    LET Sites == {Release, Deferred, Spawned, Dynamic, Rebinds, Annotate,
                  Closure("ALWAYS"), Closure("UNKNOWN")}
                 \cup {Hand(s) : s \in SUBSET Summary}
        Acq   == BlockOf({<<Acquire>>}, Branch("acqErr", {TRUE}, {3}, {2}))
        Mid   == BlockOf({<<s>> : s \in Sites} \cup {<<s, t>> : s, t \in Sites},
                         Branch("other", {TRUE}, {3}, {4}))
        Left  == BlockOf({<<>>}, Return)
        Right == BlockOf({<<>>, <<Release>>}, Panic)
        Base  == {Function(<<x, y, z, w>>, 1, e) :
                    x \in Acq, y \in Mid, z \in Left, w \in Right, e \in BOOLEAN}
        Few   == {f \in Base : Len(Body(f, 2)) = 1}
    IN  Base \cup {[f EXCEPT !.recovers = TRUE] : f \in Few}
             \cup {[f EXCEPT !.escapes = TRUE] : f \in Few}

(* The error lives in a cell: stored, restored, rebound, reloaded.         *)
CellFunctions ==
    LET Top   == BlockOf({<<>>}, JumpTo({2}))
        Acq   == BlockOf({<<Acquire>>, <<Acquire, Store("acqErr")>>,
                          <<Acquire, Store("acqErr"), Store("foreign")>>},
                         Branch("load", BOOLEAN, {3, 4}, {3, 4}) \cup JumpTo({3}))
        Other == BlockOf({<<>>, <<Release>>, <<Rebinds>>, <<Annotate>>}
                         \cup {<<Store(v)>> : v \in Stored},
                         Return \cup JumpTo({2}) \cup Branch("load", {TRUE}, 2..4, 2..4))
        End   == BlockOf({<<>>, <<Release>>}, Return \cup JumpTo({3}))
    IN  {Function(<<x, y, z, w>>, 2, TRUE) :
            x \in Top, y \in Acq, z \in Other, w \in End}

(* `tx, err := Begin(); if err == nil { err = work(tx) }; if err != nil`:  *)
(* the second test is of a phi of errors, the acquire's or another's, or   *)
(* of the cell the phi was stored into.                                    *)
Merging(from1, from2) ==
    LET Acq  == BlockOf({<<Acquire>>}, Branch("acqErr", {TRUE}, {2, 3}, {2, 3}))
        Work == BlockOf({<<>>, <<Release>>}, JumpTo({3}))
        Join == BlockOf({<<>>}, Branch("phi", BOOLEAN, {4, 5}, {4, 5}))
                \cup BlockOf({<<Store("phi")>>}, Branch("load", BOOLEAN, {4, 5}, {4, 5}))
        End  == BlockOf({<<>>, <<Release>>}, Return)
        Phi  == [at |-> 3, src |-> [b \in 1..5 |-> IF b = 1 THEN from1 ELSE from2]]
    IN  {[Function(<<x, y, z, w, v>>, 1, TRUE) EXCEPT !.phi = Phi] :
            x \in Acq, y \in Work, z \in Join, w \in End, v \in End}

PhiFunctions == UNION {Merging(e, f) : e, f \in {"acqErr", "foreign"}}

(* The acquire succeeded and the error work returned is tested with it.    *)
MergedFunctions == Merging("acqErr", "foreign")

SmallFunctions == WalkFunctions \cup CallFunctions \cup CellFunctions \cup PhiFunctions

(* `for { tx, err := Begin(); if err != nil { return err }; work(tx) }`    *)
LoopFunctions ==
    LET Top  == BlockOf({<<>>}, JumpTo({2}))
        Acq  == BlockOf({<<Acquire>>, <<Release, Acquire>>},
                        Branch("acqErr", {TRUE}, {4}, {3}))
        Work == BlockOf({<<>>, <<Release>>, <<Hand({"NEVER"})>>}, JumpTo({2}))
        Fail == BlockOf({<<>>, <<Release>>}, Return)
    IN  {Function(<<x, y, z, w>>, 2, TRUE) :
            x \in Top, y \in Acq, z \in Work, w \in Fail}
=============================================================================
