CONSTANTS
    N = 2
    Showing = {2}
    Expecting = {1}
SPECIFICATION Spec
INVARIANTS
    PassIsComplete
    FirstNonPassStops
    CleanupIsReported
    ExitExplainsState
PROPERTIES
    PassIsEarned
    CancellationIsSeen
