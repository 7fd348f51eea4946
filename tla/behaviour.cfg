SPECIFICATION BehaviourSpec
CONSTANTS
    Config <- MCConfig
    Alphabet <- MCAlphabet
    Programs <- MCPrograms
    Spans0 <- MCSpans0
    Expects <- MCExpects
    SelfTests = 2
    Blank <- MCBlank
    Traffics <- MCTraffics
    Resends <- MCResends
    Stem <- MCStem
    Runs = {r1, r2}
    Flows <- CaptureFlows
    Quiet = 1
    Timeout = 2
INVARIANTS
    SchedulesAgree
    PassIsSameBehaviour
    ReorderIsReal
    ArrivalOrderFree
    NothingNewPasses
    PartialOnlyOmits
    WholeWhenComplete
    LossDisclosed
    RunsAgree
PROPERTIES
    CaptureReturns
    KeepsContract
CHECK_DEADLOCK FALSE
