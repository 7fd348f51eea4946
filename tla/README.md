# Verification of verdi-go in TLA+

verdi-go is two command line tools and the libraries under them. *flowmap*
produces evidence about a Go service: a static graph with its path obligations
and blind spots, and canonical traces captured from integration tests or read
from a collector's export. *groundwork* judges with it: fitness rules, reviews,
claims and impeachment over graphs, and an MCP server that answers agents from
loaded graphs. This project models both, runs the modelled code beside what the
tools say of it, and checks that what they say is what happens.

`tlc -config <run>.cfg <module>` runs a configuration, `tlapm <module>.tla` checks
a proof module. `PROJECT.json` maps every definition to the source lines it stands
for and lists runs, mutants, findings, hazards and theorems.

## Inventory

"Pure" means a function of its inputs with no state between calls.

| component | state | operations | what makes it correct | modules |
| --- | --- | --- | --- | --- |
| must-release check | clean-load table, visited set, agenda, verdict | `checkRelease`, `leakPath`, `acquireCleanLoads`, `errorValuesOf` | SATISFIED holds of every path but for what the code takes on trust; the verdict does not depend on the order of the walk; both loops end | `FunctionCFG`, `MustRelease` |
| summaries, must-precede | memo tables per target, SCCs | `dischargeKey`, `never`, `entryDominated`, `checkPrecede`, `OrderFacts` | ALWAYS and NEVER hold of every run; an answer does not depend on what was asked before | `Summaries`, `ProgramRun` |
| capture harness | process-wide recorder; per run: elapsed time, last count, last change, snapshot | `HTTP`, `Event`, `Capture`, `Await`, `Scope`, `CorrelationLess` | a surfaced capture is whole, of its own run, quiet; losses are disclosed; runs agree; Capture returns | `CapturedFlow`, `CaptureHarness`, `CaptureContract` |
| canonicalization, tiers | pure | op keys, ids, sibling groups, loops, promotion | neither the schedule nor the order of arrival shows | `OpKey`, `Canon` |
| flow runner, diff | committed golden | self-test, compare, rebase, `Diff` | a pass is the same behaviour; a flaky flow never becomes a golden; a cut rebase is not taken for a golden | `FlowGate`, `TraceDiff` |
| ingestion, effect gate | committed effects | `stitch`, fragments, `BoundaryEffects`, rebase | what cannot be attached is disclosed; nothing new passes; a partial export only omits | `Ingest`, `ExportGate` |
| taint | facts, worklist, views | propagate, escape, sink | NO-FLOW is a proof; the result does not depend on the order of the queue | `Taint` |
| call graph, blind spots, frontier, reclaim, assembly | per build | discovery, root selection, splice, `Apply...`, bins | whatever a request does is in the graph or disclosed | `CodeGraph`, `Reclaimers`, `GraphBuild` |
| schema drift | pure | replay of migrations, comparison | every flag is real, no drift means none among what is read | `SchemaDrift` |
| facts over graphs | pure | index, reach, passthrough, concurrent, blind frontier | ABSENT is said only where no blind spot hides | `GraphFacts` |
| fitness rules, exceptions | policy | `Check`, validation, budget, audits | a green rule is a proof; a dead exception can go | `Fitness`, `FitnessRun` |
| graph claims | claim file | `Evaluate` | PASS holds of what runs, a blind spot leaves an ERROR | `Claims`, `FitnessRun` |
| review gate | main branch, artifact | diff, verdict, gate, `verify-artifact`, merge | main stays clean; AUTHENTIC is true; nothing exposed is lost | `ReviewGate` |
| init and its ratchet | policy | `Propose`, reconciliation, closing | the baseline passes its own gate and is never exceeded afterwards | `Propose` |
| impeachment | traces, ratified seams | witness, ladder, resolve, severance, repairs | what is impeached is really unknown; settled stays settled | `Impeach` |
| MCP server | served graph, mtime, pin, audit per service; RWMutex; session counter; transcript | boot, lenses, `reload`, `newSession`, `logCall`, restart | no answer straddles a reload; a failed reload changes nothing; staleness is disclosed but for one race; sessions never merge | `FleetServer`, `FleetContract`, `SessionLog` |
| loading, configuration, rendering, chains, triage | none | parse, join, print | not modelled: see the end | |

How they interact. The obligation check reads the call graph's resolution of each
call site and the summaries' answers; its verdicts become part of the graph
file. The reclaimers and ratified seams change that graph after it is built. The
capture harness ends spans into a recorder that the service's goroutines fill; its
capture is canonicalised and compared with a golden by `flow.Run`. An export takes
the other road, through stitching, to the effect gate and to impeachment.
`groundwork init` measures a graph and writes the policy that reviews of later
graphs are gated by. The MCP server loads graph files that a deployment replaces
without telling it; clients call it concurrently.

Only the harness (goroutines of the service, one recorder per process), the MCP
server (goroutines of requests) and the analysed programs are concurrent; the
other hazards are orders of calls, partial exports, restarts, repeated commands,
and answers that are combined from pieces which were each right. `PROJECT.json`
lists each under "hazards", at its line.

## Modules and how they are composed

The shape is the same throughout: a module has the analysis, one action per
operation, and then what the analysis is about, run: the function executes
(`MustRelease`), the program (`ProgramRun`, `GraphBuild`), the graph's code
(`FitnessRun`), the migrations (`SchemaDrift`), the service and its traffic
(`Impeach`, `FlowGate`, `ExportGate`). A property says that a verdict is true of
the run. What runs is the meaning of Go, of a database or of a collector, and is
marked external in the map.

| module | extends | models |
| --- | --- | --- |
| `FunctionCFG`, `MustRelease` | | `obligations.go`: sweep to a fixed point and two depth-first walks, step by step; the recursion of `walk` is the variable `agenda` |
| `Summaries`, `ProgramRun` | | `summaries.go`, `checkPrecede`, `OrderFacts`; the memo tables are variables, questions come in any order |
| `CapturedFlow`, `CaptureContract`, `CaptureHarness` | | the polling loop line by line; the contract is an abstract specification it implements |
| `OpKey`, `Canon`, `TraceDiff`, `FlowGate` | each the one before | key, tier, tree, diff, flow test |
| `Ingest`, `ExportGate` | `Canon` | export to fragments to the effect gate |
| `Taint` | | one aggregate run and one per source over the same program |
| `CodeGraph`, `Reclaimers`, `GraphBuild` | each the one before | what is built, reclaimed, requested |
| `SchemaDrift` | | migrations, drift, database |
| `GraphFacts`, `Fitness`, `Claims`, `FitnessRun` | each the one before | the facts, the rules, the claims, the judged code |
| `ReviewGate`, `Propose` | `Fitness`, `ReviewGate` | merge requests; init before them |
| `Impeach` | `Fitness` | behaviour held against the graph |
| `FleetServer`, `FleetContract`, `SessionLog` | | the MCP server; the contract is an abstract specification it implements |
| `MCMustRelease`, `MCCaptureHarness`, `MCFleetServer`, `MCFlowGate`, `MCBehaviour`, `MCPropose`, `MCAnalysis`, `MCGroundwork`, `MCGraphBuild`, `MCStatic` | `MCBehaviour`: `MCFlowGate`, `ExportGate`, `MCCaptureHarness` | instances |
| `MustReleaseProofs`, `CaptureProofs`, `FleetProofs`, `StaticProofs`, `FactProofs`, `FitnessProofs`, `GroundworkProofs`, `SummaryProofs` | | theorems |

### Correspondence with the code

*Must-release.* One action per sweep of a block (`SweepBlock`, `SweepAgain`,
`SweepDone`) and per visit of the walk (`SkipBlock`, `WalkStopped`, `WalkExit`,
`WalkPruned`, `WalkThrough`, `HuntAgain`), then `Refuse` or `Decide`, then the
function (`Run...`). A call the rule names as a release releases: the analysis does
not look into it and neither does the execution. A deferred closure that holds a
release (`deferReleases`) runs as its summary says: it releases on each of its paths
or it may skip the release. `credited` (such a closure was deferred since the latest
acquire) and `strayed` (a phi of the acquire's error and another was compared, or
stored, while it held the other) are history variables that no action reads; the
properties use them to name what the code takes on trust.

*Capture.* `Trigger`, `StartAwait`, then the loop: `Snapshot`, `Note`, `Quiescent` /
`Complete` / `NotYet`, `TimeOut`, `Sleep`, then `Collect`. `Tick` ages the spans and
the loop. The snapshot and the test of the clock are separate steps, because the
code reads the clock after the snapshot. Of the clock only the differences the
code takes are kept, each counted no further than what it is compared with.

*MCP server.* `load` is `LoadRead` (LoadFile and verifyStamp) and `LoadStat` (stat,
index), used by the boot and by `reload`. A lens takes the read lock, takes each
index (`ReadIndex`), stats each file (`StatFile`), computes a second time for the
log or takes the cached audit (`Render`), and unlocks. A reload takes the write
lock and goes `ReloadRead`, `ReloadStat`, `ReloadAudit`, or `ReloadFail`, which leaves
the pin as it was. `Deploy`, `Remove` and `Kill` may fall between any two steps, the
reading and the stat of one load included; `overtaken` remembers of each service
that its last load was so interrupted, and no action reads it.
The transcript is taken as readable and writable: the code ignores errors of
either, and an unwritten opening line does let a restart issue its id again.

*Graph side.* Functions and labels are numbers in the order of their names, a
selector is what it binds to (`Binds`), a policy and a graph are records of the
fields the code reads. `FitnessRun` walks along edges and, from a blind spot, to
anything at all. `ReviewGate` merges one branch after the other and lets an artifact
be held back, edited or signed again before it is verified. `Propose` runs init
once and then the merge requests.

*Analyses.* How an ssa value becomes a use (`Taint`), a reference a matched call
(`Summaries`), a call an I/O effect (`CodeGraph`) is a fact of the site: the data
side of the code is input, all of the control is modelled. The flow over the
capture harness and the canonical trace is the same in both: names are a stem
and the kind of id they hold.

## Runs

| run | module | shows |
| --- | --- | --- |
| `release` | `MCMustRelease` | `SatisfiedReleases`, `CleanLoadReadsAcquire`, `VerdictIsPathProperty`, `EventuallyDecided` on four families of small functions |
| `fleet` | `MCFleetServer` | `StaleDisclosed`, `KeepsContract` (refinement), over deployments, removals, reloads and kills |
| `fleet_live` | `MCFleetServer` | `RequestsAnswered` |
| `behaviour` | `MCBehaviour` | captures, one run of any flow and two that share a recorder: `WholeWhenComplete`, `LossDisclosed`, `RunsAgree`, `CaptureReturns`, `KeepsContract` (refinement); flow tests: `SchedulesAgree`, `PassIsSameBehaviour`, `ReorderIsReal`; exports: `ArrivalOrderFree`, `NothingNewPasses`, `PartialOnlyOmits`. The behaviour picks one of the three at the start and the others rest |
| `static` | `MCStatic` | the static side and groundwork, 22 properties, each component on its own instances: the behaviour picks one at the start and the others rest |
| `release_loop` | `MCMustRelease` | finding: `NoIterationLeaks` violated |
| `release_merged` | `MCMustRelease` | finding: `SatisfiedIsUniversal` violated |
| `fleet_race` | `MCFleetServer` | finding: `StaleFlagged` violated |
| `capture_nested` | `MCCaptureHarness` | finding: `RootHasEnded` violated |
| `init_refused` | `MCPropose` | finding: `InitNeverRefuses` violated |
| `diff_blind` | `MCFlowGate` | finding: `ChangeIsTold` violated |
| `cleared_seam` | `MCGraphBuild` | finding: `ClearedIsResolved` violated |

The properties of `static`, by component: summaries (`MemoRight`, `AnswersHold`,
`PrecedeHolds`, `CommittedByCalls`); taint (`ReportsRight`, `NoFalseNoFlow`); fitness
and claims (`GreenIsProof`, `BudgetBounds`, `DeadEntriesRemovable`, `SeamsOnlyAbstain`,
`ClaimsHold`); review (`MainStaysClean`, `NothingExposedIsLost`, `AuthenticIsTrue`); init
(`BaselineIsClean`, `RatchetHolds`); impeachment (`ImpeachedIsUnknown`,
`SettledStaysSettled`); sessions (`SessionsApart`); graph assembly (`EffectsAccounted`,
`PromiseKept`); schema drift (`DriftIsReal`). Each is stated in words above its
definition.

### Bounds

- *Functions* (`release`, `release_merged`): four blocks (five with a phi) are a loop around or beside the acquire, a
  branch, a join and two exits, which is all the walk tells apart: its state is a
  set of blocks and an agenda, and each test looks at one block. Two call sites make
  their order in a block matter. Loops, call kinds (with deferred closures that
  always and that may release), the cell and the phi (of the acquire's error alone
  and merged with another, compared and stored into the cell) are varied one family
  at a time. The theorems lift the bounds.
- *Programs* (`MCAnalysis`): main, f, g, with bodies that make the required call,
  the call it must precede, both or neither, straight, on the arms of a branch,
  around a loop, deferred, spawned, dispatched or recursive. `MaxDepth` 4 frames and
  `MaxThreads` 2 goroutines: a chain of three with one re-entry, and a spawned call
  beside its spawner. The theorems lift the bounds. Taint programs have five values,
  two of them loads of one field, which gives moves, cycles, returns, a field, a
  sink and each escape.
- *Services* (`MCGraphBuild`): two routes and one feature of the language at a time;
  `FanOut` 2 stands for the configured threshold, so that a site lies above it;
  `MaxStack` 5 frames is the longest chain of a program there.
- *Graphs* (`MCGroundwork`, `MCPropose`): three named functions and a closure, labels
  of each class, four shapes of head and five of tail. A rule reads a cone, its
  targets and the spots at it, so three functions give it a source, something
  between and a target. `MaxAllows` 1 stands for maxBaselineAllows (10), which is
  then reached and passed. `MaxTraces` 2 gives a trace seen before a repair and one
  after.
- *Flows* (`behaviour`, `capture_nested`): an entry and two further spans are a parent,
  a child and a detached or orphaned third; a run alone drives any of the flows, two
  runs drive a flow with a lost span and one with an inline and a late effect, in
  each combination. `Quiet` 1 tick and `Timeout` 2 (2 and 3 in `capture_nested`): both limits are met, missed, and
  met at the same moment.
- *Tests and exports* (`behaviour`): seventeen programs, each edited into every
  other, or tested again after a rebase was cut short, `SelfTests` 2; traffic of
  three services over two hops, a batch, a changed version, links in a cycle and two
  flows that share a file name; one span sent twice.
- *Files and clients* (`fleet`): each file is deployed once: one with the right
  stamp, one with another, one without stamp and without what is asked for
  (`fleet_live`: one cut short). Two clients are a reader against a writer, two
  readers, two writers; two services let a fleet-wide card straddle. Kills are not
  bounded; A fleet-wide request names no service (`Unnamed`). `MaxSessions` 3 bounds
  `initialize`. Symmetry in the clients is used in the safety run only.

One thing the model of the server takes for granted: two versions of a file have
different mtimes.

### Fairness

`release`: `WF(Analyse)`, the analysis is one sequential call. The captures of `behaviour`:
`WF(Tick)`, time passes, and `WF(Await \/ Collect)` per run, the test's goroutine is
scheduled; nothing is assumed of the service, which may hang. `fleet_live`:
`WF(Serve(c))`, goroutines are scheduled, and `SF(Lock(c))`, sync.Mutex hands the lock
to a waiter that starves; neither deployments nor kills are fair. All other runs
are about safety. Deadlock is checked in the two runs of the server, which never
stops; elsewhere programs, tests and commands end.

## What is proved

Every theorem is about the specification that the runs check, for every value of
its constants that satisfies the named assumptions of its module. No theorem
speaks of fairness.

### Must-release (`MustReleaseProofs`; assumes `FunctionsWellFormed`)

`TypeCorrect` first. `SatisfiedIsSound` (a SATISFIED verdict means that no
execution exits holding the latest resource) and `CleanLoadsAreClean` (a load
called clean reads the acquire's own error) come from `IInv`, which relates the
walk to the execution: a visited block is a stop or has all its successors
visited or on the agenda, so that at a SATISFIED verdict, where the agenda is
empty, what was visited is closed; the fixed point of the clean loads is stable;
and a program that owes the resource stands in a visited block before anything
that releases it. Both hold of every function, whatever its phis merge and
whatever its deferred closures do, with two exceptions that are part of the
properties. `SatisfiedReleases` excepts an execution that deferred a closure which
may skip its release (`credited`; `deferReleases`, `obligations.go:658-674`, credits a
release call in any block of the closure, under an `if` or not, as
`summaries.go:387-391` says) and one that used a phi while it held another error
(`strayed`; `directWeb` follows a phi that merges the two). `CleanLoadReadsAcquire`
excepts the second alone, when the phi was stored into the cell. `IInv` carries both:
a program that owes and has neither behind it stands where the walk has been. That
the exceptions cannot be dropped is the finding `release_merged`.

`VerdictIsOfPaths` is about the walk and needs no exception: the verdict, however the walk went, is
the one the paths of the function define (`Leaks`, `Unclear`), the witness is an exit
that such a path leads to, and summaries only add trust. `PathInv` says that what
was visited was reached, that what is reached and not visited can still be
reached from the agenda, and that a function that was found unknown or ambiguous
was found so at a block that is reached. The rest is about reachability past
stops: fewer stops reach more, and two sets of stops that differ only where the
walk never came define the same paths.

### Summaries (`SummaryProofs`; assumes `UnitsOK`)

`MemoStaysRight`, `AnswersAreKept`, `RequireRunsFirst`, `EffectsCommitted`: the four
properties of `ProgramRun`, for every program, of any size and recursive or not.
Reachability is the least closed set (`Met`), and the answers are recursive
functions; that the functions exist and are unique is proved first. `never` is
what it should be by the components of the call graph (`NeversAre`). For
`Discharges` a solution is a fixed point of a monotone step (`AnswersExist`), and two
solutions that differ would differ lowest in the call graph, at a function in no
cycle, whose callees agree (`AnswersUnique`); a table of right answers then changes
none (`TablesChangeNothing`). For `EntryDominated` one direction is enough: who is
dominated has its entries covered (`DominatedIs`).

`RunIInv` then follows the run. Of each frame, and of every set `Stop` of sites that
make the call: while the frame runs, either the call was made, or the frame above
is of a function that is ALWAYS, or a deferred call of `Stop` is pending, or the walk
of `alwaysWalk` that stops at `Stop` comes to where the frame stands (`Credit`). It is
stated for every such set because three checks use it with three: all covering
sites (a frame that ends), the require sites (`entryCovered`), one site (dominance).
A frame that a panic has passed owes nothing; it is why a function that recovers
must abstain. `Nested` says that what a frame reached those below it reached, and that
they are no more silent than it, which carries NEVER through calls, deferred calls
and the goroutine's spawners. A pending call keeps the site it comes from (`From`), so
that the entry of a deferred or spawned function is credited by that site.

### Capture (`CaptureProofs`; assumes `TimesOK`, `FlowsOK`, `RunsOK`)

`TypesHold`; `CapturesAreQuiet`: every span of a surfaced capture had been over for
the quiet interval; `LossIsDisclosed`: an inline span that lost its run's id though
its caller was captured is counted. `SurfacedIsWhole`, `SurfacedRunsAgree` and
`HarnessKeepsContract` (the refinement of `CaptureContract`) assume `EntryAlone`: in a
flow that does not wait for its entry, only the entry is a server or consumer
span. The finding `capture_nested` is what happens otherwise. The invariant `IInv`
ties the loop's memory to the spans: the count only grows, so an equal count is an
equal snapshot; what is counted as unchanged for the quiet interval has ended
that long ago; `Rooted` adds that the root seen is the entry.

### MCP server (`FleetProofs`; assumes `FleetOK`)

`TypesHold` with the lock: a writer is alone. `PinsHold`: a service with a pin answers
from a graph that carries it, whatever reloads failed. `FleetKeepsContract`: the
refinement of `FleetContract`, in which a reload is one step and an answer is taken
from the graphs of one moment; `Server` says what a load in progress has and what
it may install, `Cards` that what a reader took is what is still served, because
the lock is held. `StaleIsDisclosed`: an unflagged answer of a service shows the file
its stat found, unless a deployment fell between the reading and the stat of that
service's last load; whatever is deployed, removed, reloaded and refused. `Fresh`
says that the recorded mtime is that of the graph served, unless the load was
overtaken or its stat found no file, and that a version that was replaced does not
come back; `Flags` that a lens which left a service unflagged found the recorded mtime
after taking its index. The exception is the finding `fleet_race`.

### Static analyses (`StaticProofs`)

*Taint*; assumes `TaintProgramsOK`. `ReportsRightAlways`: each report is that of the least set closed under propagation,
for any order of the worklist, and no run sees the state of the one before.
`NoFlowIsProof`: NO-FLOW means the tainted values reach no argument of the sink, for
programs in which foreign code calls nothing that the first party calls too
(`ReturnsInSight`, see the observations). `TaintInv`: facts lie within every closed set,
and a fact that is not on the worklist has had its uses applied.

*Schema drift*; assumes `RepositoriesOK`: a versioned file's name begins with numbers,
a create names its table, a label names the table of the query, and no release
takes back a migration. `DriftIsRealAlways` is `DriftIsReal` of every history of releases.
`DriftInv` keeps, beside the database, a sequence `s` of the files that were applied, in
Flyway's order (`Enumerates`), and its replay `d` (`Replays`); while nothing was renamed and a
name means one table, the database has what `d` ends in (`Tracks`). A file that comes after
the others appends to both (`FileAdded`), and each of its statements does the same on
both sides. At a deployment the check's own order is that sequence (`OrderedIsEnumeration`): two
orders in which the same files come each before the next are equal. The replays are
recursive functions over the length of a sequence, so the induction is over numbers.
Proving it changed the statement: `OneSchema` had left out the tables that queries name.
A query of `b.t` fails unannounced when the migrations make `a.t`, and none of the
small instances had one.

*Building*; assumes `BuildProgramsOK`, which says of a program what SSA construction
does: callees are functions of the program, a static call has one, and a closure is
made, hence passed on, by its parent alone (`reclaim.go`'s `ClosureFn` takes a
`MakeClosure` and nothing else). `PromiseIsKept` is `PromiseKept` of every such program, whatever
the algorithm, the entry points and the order of the passes. What a frontier says is
a function of four parts of the graph (`SaysSame`); `Whole` says what a graph that was just
built is, and `PromiseInv` that until the first pass the promise is what that graph
says. A cone is closed under the edges it was taken along and lies in everything
closed that has its seeds (`ConeClosed`, `ConeInside`), so that an edge from a starved entry
point to a closure that reaches an effect carries it there (`ReachersGrow`), and the
closures left without a caller are exactly those no edge was added to (`ReclaimKeeps`).

`CallsAccountedAlways` is `CallsAccounted`, the first part of `EffectsAccounted`: what a
request does by calls of first-party code is an edge below its entry point, or a blind
spot below it is disclosed, for whole and scoped graphs, with or without SQL folding,
and whatever passes were applied in whatever order. It assumes `ProgramsInSight` too,
which says what the call-graph algorithm and the SSA builder provide: a call resolves
to every function it may enter or is of a kind that is disclosed (a func value without
a callee, reflection, a linkname); a func parameter resolves to what may be given to it
(`Givens`, the closure of the calls that hand one on); an appended field holds what its
stores put there; a synthetic wrapper forwards; effects are calls of first-party code;
an entry point runs no query given to it. `GraphOf` says what a graph keeps of its
program through every pass: its nodes are the first-party functions in scope, the edges
`edgeOf` draws are there or were taken by `--rebind`, which put others in their place, and
a spot is dropped only when a loop over nothing was behind it (`Stays`, `UnseenHasSpot`).
The inductive invariant `CallsInv` follows the request: each frame that was come to by
first-party calls is of a function in scope that is *shown* (a node below the entry
point, or a wrapper spliced into a call of one), its func value was passed literally by
such a frame before it and may be given to it, and its caller is the frame before it, at
a call where it is seen, with the query that is there. So a call from a shown frame
enters a shown function (`CallIsShown`), and its effect has an edge (`EffectIsShown`): its
own, that of the node a wrapper is spliced into, or, for a query that is passed on, that
of the caller it is attributed to. The frames' stack is needed for two steps: the edge
that `--rebind` took from a runner is made up for by one from the frame that handed it
the closure (`TakenIsGiven`), and a query that is a parameter is that of the frame before.

### Graphs and rules (`FactProofs`, `FitnessProofs`; assume `NamesOK`, `FieldsOK`)

`ClosureClosed` (and the lemma `ClosureLeast`) is what every statement about
reachability rests on: a cone is the least set closed under its edges. The walk is
a recursive function over layers; that the function exists is shown by
well-foundedness in the form the provers can use, that a nonempty set of numbers
has a least element. In `FitnessProofs`:

- `GreenIsProofAlways`, `ClaimsHoldAlways`: a reach, passthrough or concurrency rule
  that reports nothing, and a claim graded PASS, hold of everything that runs, on
  the edges of the graph and from a blind spot anywhere. `WalkInv` follows the run:
  it is in the cone of its origin and has passed the guard if it left it, or a
  blind spot lies in the cone.
- `BudgetBoundsAlways` assumes `LabelsClassed`: a bus label publishes or consumes, a
  service label carries an HTTP verb.
- `SeamsOnlyAbstainAlways`: a ratified seam takes back no finding.
- `DeadEntriesRemovableAlways`: the dead exceptions can go all at once; each is
  justified by no finding, and one entry never speaks for another.

### Groundwork's commands (`GroundworkProofs`; assumes `SelectorsOK`, `GraphsOK`, `SessionsOK`, `ProgramsOK`)

- `SessionsNeverMerge`, `SessionTypes`: every id a client holds or awaits has its
  opening line in the transcript, and a running server's counter is past every id
  there.
- `MainStaysCleanAlways`, `NothingExposedIsLostEver` assume `StampRequired = TRUE`:
  without a demanded stamp the gate compares with whatever file it is handed.
  `AuthenticIsTrueAlways` does not assume it. `MRInv`: main loads, its stamp names it,
  and a violation of it would have been new in some merge. The lemma behind it: two
  findings of one key have one severity, so that a standing finding hides no
  violation.
- `BaselineIsCleanAlways`, `RatchetHoldsAlways`: `BornInv` says what each phase of init
  has measured and written, and that the rules it wrote are still met by main.
- `ImpeachedIsUnknownAlways`: what a named observation is impeached for was seen along
  a call the graph misses, or from a path that starts at none of its entries.
  `SettledStaysSettledAlways`: a witness whose repair was ratified is not reported
  again, whatever traffic and audits follow. `ImpeachInv`: the graph keeps its nodes
  and edges and only gains spots, and a settled witness has a seam that explains it.

## What rests on TLC alone

- Liveness, which the provers cannot do: `EventuallyDecided`, `CaptureReturns`,
  `RequestsAnswered`.
- `SchedulesAgree`, `PassIsSameBehaviour`, `ReorderIsReal`, `ArrivalOrderFree`,
  `NothingNewPasses`, `PartialOnlyOmits`: trees built by recursion, so that every
  statement is an induction over data.
- The rest of `EffectsAccounted`, of effects that a request comes to by way of code
  outside: what that code enters is unconstrained in the model, so a theorem would
  have to assume what it is to show. `CallsAccounted` is proved.

## Findings

Seven runs show the code doing what a comment or a document says it does not;
`PROJECT.json` quotes each line.

- `release_loop`: in a retry loop around an acquire, the second iteration's failure
  returns with the first iteration's resource, and the verdict is SATISFIED.
- `release_merged`: a function whose error variable holds the acquire's error on one
  path and another on the other returns on it with the resource, and the verdict is
  SATISFIED, which the documentation calls true of every path. A deferred closure that
  releases under an `if` violates the same property.
- `fleet_race`: a version deployed between the reading and the stat of a load leaves
  its mtime on the graph of the version before, and every answer until the next load
  is stale and unflagged.
- `capture_nested`: a nested server span whose parent is still open passes for the
  root, and a capture without its entry is surfaced as complete.
- `init_refused`: two layers get one name, and init ends with what it calls a bug.
- `diff_blind`: a publish moves across a group of concurrent calls, and `flowmap diff`
  says there are no changes while the golden differs.
- `cleared_seam`: a middleware loop's blind spot is dropped though the edge that was
  to stand for it was not kept.

Observations made while modelling, without a run of their own:

- An effect is called ALWAYS before a fallible call also when the site that commits it
  is deferred, spawned or a dispatch of which one callee commits it, although
  `effectorder.go:22-25` says that it has happened by then. `CommittedByCalls` is about
  plain calls.
- An outbound HTTP verb that is not one of the known ones is neither counted by the
  budget nor disclosed (`budget.go:375-381`). The runs have the known verbs;
  `BudgetBoundsAlways` assumes it (`LabelsClassed`).
- `handleReturn` (`taint.go:600-616`) escapes only when a function has no caller in
  sight. One that both the first party and foreign code call returns to the latter
  unseen, while the package says "never a false NO-FLOW" (`taint.go:27`). Hence
  `ReturnsInSight`.
- `entryDominated` (`summaries.go:491`) has no case for `main`, which the runtime enters:
  a `main` whose only visible caller is itself, behind a require, would count as
  entered behind it. `UnitsOK` says that no visible call enters `main`.
- When init withdraws its layers it drops the composition roots it inferred with
  them; rules judged while those roots were exempt are then broken by the graph
  they were measured on, although the closing says that fitness "passes clean today
  by construction" (`propose.go:890`; `Withdrawn` in `BaselineIsClean`). The guide's
  "reach no external write" (`propose.go:524`) is, in the rule, the database verbs and
  `bus PUBLISH`. The "COMPLETE view" of opaque writes (`propose.go:874`) takes bare cones,
  "read-only" takes the closures of a route as well (`propose.go:560-563`).
- A span exported twice with one id ends canonicalisation with ErrIncomplete and
  `flowmap ingest` reports the golden as skipped, which the comment at
  `cmd/flowmap/main.go:1193` calls unreachable.
- Schema drift is judged right for one schema, migrations in the order of their
  names, and no renames (`OneSchema`, `inOrder`).
- `--rebind` loses two uses of a closure that it takes for confined (`StillRuns`). A
  function that hands a closure of its own to itself, recursively, is both parent and
  runner: the edge to be added is there already, so it is not added, and is then
  removed as the runner's (`graphio.go:1074`, `1083-1094`). A runner that runs its
  parameter and besides keeps it and runs it later loses the edge of both calls,
  although the removal is called sound (`graphio.go:1063`): that the closure does not
  escape its parent says nothing of the runner. The effects are then in no cone of
  the entry point that does them, without a blind spot.
- `passthroughReattribute` drops the helper's own edge "since every caller now carries
  the effect" (`graphio.go:1363`). A helper that is an entry point itself has a caller no
  edge stands for, and loses its effect at that entry point; hence the last clause of
  `InSight`.
- A closure is severed only when nothing is thought to call it. One that code outside
  runs, and that a function elsewhere may run too, is neither below its entry point nor
  a marker there (`CalledElsewhere`).
- An answer that is an error carries no flag. A marker is satisfied by an inline span
  with its op.

What the models assume of programs: the SSA builder's loops start with nothing
`seen`; calls of outside code are resolved to what outside code does; functions that
are handed to outside code by name are exempt in `EffectsAccounted`, as they are
roots of their own.

## Not modelled

Review triage, the chain, contract and ground cards, and rendering decide nothing:
they join and print what the modelled parts computed. Loading, the SSA build and
configuration parse input. Test support is used by the tests only. Inside the
modelled parts the text of answers, the JSON and JSON-RPC framing, YAML, SQL and
name tokenisers, flags and authentication are left out: names are stems, statements
are their verbs and tables, files are their contents. SQL folding, a propagation
of constant strings, is a fact of the call site. `PROJECT.json` lists each component
with what is left out of it.
