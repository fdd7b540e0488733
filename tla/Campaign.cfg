CONSTANTS
    N = 3
    Jobs = 2
    Minimum = 1
    Executions = {0, 1}
SPECIFICATION FairSpec
INVARIANTS
    TypeOK
    SingleOwner
    NoOrphanedWorker
    CompleteReport
    OneLateStart
PROPERTIES
    ImplementsVerdict
    Returns
