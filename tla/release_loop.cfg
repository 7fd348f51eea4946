SPECIFICATION Spec
CONSTANT Functions <- LoopFunctions
INVARIANTS NoIterationLeaks
CHECK_DEADLOCK FALSE
