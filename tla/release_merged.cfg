SPECIFICATION Spec
CONSTANT Functions <- MergedFunctions
INVARIANTS SatisfiedIsUniversal
CHECK_DEADLOCK FALSE
