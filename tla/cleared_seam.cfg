SPECIFICATION GraphBuildSpec
CONSTANTS
    BuildPrograms <- MCBuildPrograms
    FanOut = 2
    MaxStack = 5
INVARIANT ClearedIsResolved
CHECK_DEADLOCK FALSE
