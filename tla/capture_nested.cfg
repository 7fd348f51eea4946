SPECIFICATION Spec
CONSTANTS
    Runs = {r1}
    Flows <- NestedFlows
    Quiet = 2
    Timeout = 3
INVARIANT RootHasEnded
CHECK_DEADLOCK FALSE
