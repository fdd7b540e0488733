CONSTANTS
    N = 1
    Showing = {}
    Expecting = {}
SPECIFICATION Spec
INVARIANTS
    FailExitsOne
