---------------------------- MODULE FunctionCFG ----------------------------
(***************************************************************************)
(* The control-flow graph of one SSA function as the path-obligation       *)
(* checks read it (internal/static/obligations).  A function is a record   *)
(*                                                                         *)
(*   blocks    a sequence of basic blocks; block 1 is the entry            *)
(*   acq       the anchored acquire call: its block and instruction index  *)
(*   errs      whether the acquire returns an error result                 *)
(*   phi       the block holding an error-typed phi (0: none) and, per     *)
(*             predecessor, the value flowing in over that edge            *)
(*   recovers  what usesRecover answers for the function                   *)
(*   escapes   what ownershipEscapes answers for the acquire               *)
(*                                                                         *)
(* and a block is a record of a straight-line body, a terminator and the   *)
(* sequence of its successors.  Only the instructions some check tells     *)
(* apart are kept:                                                         *)
(*                                                                         *)
(*   "acquire"                 the anchored call                           *)
(*   "call", "defer", "go"     a call site: rel (matches a release ref),   *)
(*                             holds (its callee is a closure of this      *)
(*                             function that calls a release in some block *)
(*                             of its body), web (the resource flows into  *)
(*                             it), cands (the summaries of its callees),  *)
(*                             frontier (it may dispatch out of sight),    *)
(*                             addr (it takes the error cell's address)    *)
(*   "store"                   a store into the error cell, of the acquire *)
(*                             error, of the cell's own value, of another  *)
(*                             error or of the phi                         *)
(*                                                                         *)
(* An "if" terminator names the value it compares with nil and the sense   *)
(* of the comparison.  The load an `if err != nil` makes of the cell is    *)
(* part of the terminator: nothing runs between the two.                   *)
(***************************************************************************)
EXTENDS Naturals, Sequences

Summary == {"ALWAYS", "NEVER", "UNKNOWN"}
CallOps == {"call", "defer", "go"}
Values  == {"acqErr", "phi", "load", "other"}
Merged  == {"acqErr", "self", "foreign"}
Stored  == Merged \cup {"phi"}

Blocks(fn)      == 1..Len(fn.blocks)
Body(fn, b)     == fn.blocks[b].body
Term(fn, b)     == fn.blocks[b].term
Succs(fn, b)    == fn.blocks[b].succs
SuccSet(fn, b)  == {Succs(fn, b)[i] : i \in DOMAIN Succs(fn, b)}
Preds(fn, b)    == {p \in Blocks(fn) : b \in SuccSet(fn, p)}
Exits(fn, b)    == Term(fn, b).op \in {"return", "panic"}

Instr ==
    [op : {"acquire"}]
    \cup [op : {"store"}, val : Stored]
    \cup [op : CallOps, rel : BOOLEAN, holds : BOOLEAN, web : BOOLEAN,
          cands : SUBSET Summary, frontier : BOOLEAN, addr : BOOLEAN]

Terminator ==
    [op : {"return", "panic", "jump"}]
    \cup [op : {"if"}, tests : Values, neq : BOOLEAN]

(* What the SSA builder guarantees of any function it emits.  A deferred   *)
(* closure is the one callee of its site; that it calls a release does not *)
(* make it release on each of its paths, and its summary then is UNKNOWN.  *)
WellFormed(fn) ==
    /\ Len(fn.blocks) \in Nat \ {0}
    /\ Preds(fn, 1) = {}
    /\ fn.acq.block \in Blocks(fn)
    /\ fn.acq.index \in 1..Len(Body(fn, fn.acq.block))
    /\ Body(fn, fn.acq.block)[fn.acq.index].op = "acquire"
    /\ fn.errs \in BOOLEAN /\ fn.recovers \in BOOLEAN /\ fn.escapes \in BOOLEAN
    /\ fn.phi.at \in 0..Len(fn.blocks)
    /\ \A b \in Blocks(fn) :
          /\ Body(fn, b) \in Seq(Instr)
          /\ Term(fn, b) \in Terminator
          /\ Succs(fn, b) \in Seq(Blocks(fn))
          /\ Term(fn, b).op = "if"   => Len(Succs(fn, b)) = 2
          /\ Term(fn, b).op = "jump" => Len(Succs(fn, b)) = 1
          /\ Exits(fn, b)            => Len(Succs(fn, b)) = 0
          /\ fn.phi.src[b] \in Merged
          /\ \A i \in DOMAIN Body(fn, b) :
                LET in == Body(fn, b)[i]
                IN  /\ in.op = "acquire" => b = fn.acq.block /\ i = fn.acq.index
                    /\ in.op \in CallOps /\ in.holds =>
                         /\ in.op = "defer" /\ ~in.rel /\ ~in.frontier
                         /\ in.cands \in {{"ALWAYS"}, {"UNKNOWN"}}

-----------------------------------------------------------------------------
(* What one call site does for the obligation.                             *)

(* A plain call or a defer of a release ref: anyRef.  The rule names it,   *)
(* and what it is named for is not looked into.                            *)
IsRelease(in) == in.op \in {"call", "defer"} /\ in.rel

(* deferReleases: a release ref, or a deferred closure with a release call *)
(* anywhere in its body, under an `if` or not.                             *)
DeferReleases(in) == in.op = "defer" /\ (in.rel \/ in.holds)

(* What covers a path whatever the summaries say. *)
NamesRelease(in) == IsRelease(in) \/ DeferReleases(in)

(* The deferred closure may run past the release it holds. *)
MaySkipRelease(in) == in.op = "defer" /\ in.holds /\ "UNKNOWN" \in in.cands

(* Mutated: one callee that ALWAYS releases is enough. *)
HandoffReleasesAny(in) ==
    in.op \in {"call", "defer"} /\ in.web /\ ~in.frontier /\ "ALWAYS" \in in.cands

(* classify: every callee the resource is handed to ALWAYS releases it.    *)
HandoffReleases(in) ==
    /\ in.op \in {"call", "defer"}
    /\ in.web /\ ~in.frontier
    /\ in.cands = {"ALWAYS"}

(* classify: some callee may or may not release it.  A site that resolves  *)
(* to nothing (a builtin) and one whose callees all NEVER release are      *)
(* neither.                                                                *)
HandoffBeyondProof(in) ==
    /\ in.op \in {"call", "defer"}
    /\ in.web
    /\ in.frontier \/ in.cands \notin {{}, {"ALWAYS"}, {"NEVER"}}

(* What the call can really do to the resource when it runs.  A release in *)
(* a spawned goroutine is concurrent and never counted.                    *)
ReleaseOutcomes(in) ==
    IF IsRelease(in) THEN {TRUE}
    ELSE IF in.op = "go" \/ ~(in.web \/ in.holds) THEN {FALSE}
    ELSE (IF "ALWAYS" \in in.cands THEN {TRUE} ELSE {})
         \cup (IF "NEVER" \in in.cands \/ in.cands = {} THEN {FALSE} ELSE {})
         \cup (IF in.frontier \/ "UNKNOWN" \in in.cands THEN BOOLEAN ELSE {})

-----------------------------------------------------------------------------
(* The acquire error's footprint (errorValuesOf).                          *)

(* The phi merges the acquire error: valueWeb and directWeb follow it.     *)
PhiCarriesError(fn) ==
    fn.phi.at # 0 /\ \E p \in Preds(fn, fn.phi.at) : fn.phi.src[p] = "acqErr"

(* direct[st.Val]: the store is of a direct alias of the acquire error.    *)
StoresError(fn, in) ==
    /\ in.op = "store"
    /\ in.val = "acqErr" \/ (in.val = "phi" /\ PhiCarriesError(fn))

(* The error is stored into the cell, so loads of the cell join the web.   *)
CellCarriesError(fn) ==
    \E b \in Blocks(fn) : \E i \in DOMAIN Body(fn, b) : StoresError(fn, Body(fn, b)[i])

(* ew.direct: aliases reached without crossing the cell.                   *)
DirectErr(fn) ==
    IF ~fn.errs THEN {}
    ELSE {"acqErr"} \cup (IF PhiCarriesError(fn) THEN {"phi"} ELSE {})

(* ew.all: everything that may be the acquire error.  A phi over a load of *)
(* an error-carrying cell is in the web too.                               *)
AllErr(fn) ==
    DirectErr(fn) \cup
    (IF fn.errs /\ CellCarriesError(fn)
     THEN {"load"} \cup (IF /\ fn.phi.at # 0
                            /\ \E p \in Preds(fn, fn.phi.at) : fn.phi.src[p] = "self"
                         THEN {"phi"} ELSE {})
     ELSE {})

(* allocEscapesToForeignStore: the cell's address reaches a call that runs *)
(* before the function exits, so a foreign function may store into it.  A  *)
(* deferred consumer runs at exit, after every load.                       *)
CellEscapes(fn) ==
    \E b \in Blocks(fn) : \E i \in DOMAIN Body(fn, b) :
        LET in == Body(fn, b)[i]
        IN  in.op \in {"call", "go"} /\ in.addr

(* errorValuesOf runs acquireCleanLoads on this cell.                      *)
AnalysesCell(fn) == fn.errs /\ CellCarriesError(fn) /\ ~CellEscapes(fn)

(* storeState composed over the first n instructions of block b: does the  *)
(* cell hold the acquire error, given whether it did at the block's entry? *)
(* The last store that is not a self-restore decides.                      *)
HoldsAcquire(fn, b, n, atEntry) ==
    LET Writes(i) == Body(fn, b)[i].op = "store" /\ Body(fn, b)[i].val # "self"
    IN  \/ atEntry /\ \A i \in 1..n : ~Writes(i)
        \/ \E i \in 1..n : /\ Writes(i)
                           /\ StoresError(fn, Body(fn, b)[i])
                           /\ \A j \in (i + 1)..n : ~Writes(j)

(* transfer *)
Transfer(fn, b, atEntry) == HoldsAcquire(fn, b, Len(Body(fn, b)), atEntry)
=============================================================================
