SPECIFICATION FairSpec
CONSTANT Functions <- SmallFunctions
INVARIANTS
    SatisfiedReleases
    CleanLoadReadsAcquire
PROPERTIES
    VerdictIsPathProperty
    EventuallyDecided
CHECK_DEADLOCK FALSE
