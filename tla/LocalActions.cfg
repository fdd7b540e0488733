CONSTANTS
    w1 = w1
    w2 = w2
    u = u
    a = a
    b = b
    c = c
    d = d
    p = p
    m = m
    Workflows <- MCWorkflows
    Actions = {a, b, c, d}
    Pinned = {p}
    Unpinned = {m}
    Undeclared = {u}
    Repositories <- MCRepositories
    Size <- MCSize
    MaxReferences = 8
    MaxActions = 3
    MaxBytes = 5
SPECIFICATION FairSpec
INVARIANTS
    VerifiedIsImmutable
    EachReferenceOnce
PROPERTIES
    CyclesAreReal
    Ends
