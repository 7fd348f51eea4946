SPECIFICATION StaticSpec
CONSTANTS
    Programs <- MCPrograms
    MaxDepth = 4
    MaxThreads = 2
    TaintPrograms <- MCTaintPrograms
    Sources = {"A", "B"}
    Sinks = {"s1", "s2"}
    Functions <- MCFunctions
    Labels <- MCLabels
    LabelOf <- MCLabelOf
    Package <- MCPackage
    Binds <- MCBinds
    Graphs <- MCGraphs
    Policies <- MCPolicies
    ClaimFile <- MCClaimFile
    QueryOf <- MCQueryOf
    RouteOf <- MCRouteOf
    MRGraphs <- MCMRGraphs
    MRPolicies <- MCMRPolicies
    Scopes = {{}, {21}}
    StampRequired = TRUE
    NameOf <- MCNameOf
    TypeOf <- MCTypeOf
    LastSegment <- MCLastSegment
    Numbered <- MCNumbered
    PatternOf <- MCPatternOf
    DBWrites = {"db-writes"}
    BusPublish = "bus-publish"
    MaxAllows = 1
    InitGraphs <- MCInitGraphs
    Branches <- MCBranches
    SymbolOf <- MCSymbolOf
    ImpeachPrograms <- MCImpeachPrograms
    Idents = {"", "c1"}
    MaxTraces = 2
    Clients = {c1, c2, c3}
    MaxSessions = 3
    BuildPrograms <- MCBuildPrograms
    Repositories <- MCRepositories
    FanOut = 2
    MaxStack = 5
INVARIANTS
    MemoRight
    AnswersHold
    PrecedeHolds
    CommittedByCalls
    ReportsRight
    NoFalseNoFlow
    GreenIsProof
    BudgetBounds
    DeadEntriesRemovable
    SeamsOnlyAbstain
    ClaimsHold
    MainStaysClean
    NothingExposedIsLost
    AuthenticIsTrue
    ImpeachedIsUnknown
    SettledStaysSettled
    BaselineIsClean
    RatchetHolds
    SessionsApart
    EffectsAccounted
    PromiseKept
    DriftIsReal
CHECK_DEADLOCK FALSE
