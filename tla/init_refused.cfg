SPECIFICATION InitSpec
CONSTANTS
    Functions <- MCFunctions
    Labels <- MCLabels
    LabelOf <- MCLabelOf
    Package <- MCPackage
    Binds <- MCBinds
    MRGraphs = {}
    MRPolicies = {}
    Scopes = {}
    StampRequired = TRUE
    NameOf <- MCNameOf
    TypeOf <- MCTypeOf
    LastSegment <- SameSegment
    Numbered <- MCNumbered
    PatternOf <- MCPatternOf
    DBWrites = {"db-writes"}
    BusPublish = "bus-publish"
    MaxAllows = 1
    InitGraphs <- MCInitGraphs
    Branches <- MCBranches
INVARIANT InitNeverRefuses
CHECK_DEADLOCK FALSE
