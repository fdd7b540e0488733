CONSTANTS
    Profiles <- MCProfiles
    MaxUint = 25
    MaxRows = 2
SPECIFICATION Spec
INVARIANTS
    CoverageIsExact
    NoProfileLeft
PROPERTIES
    CancelledIsNotCovered
