CONSTANTS
    Listing <- MCListing
    Class <- MCClass
    Links <- MCLinks
    Trees <- MCTrees
    MaxChanges = 1
    Workflows <- MCWorkflows
    Description <- MCDescription
    Toolchain = 1
    MaxEntries = 14
    MaxModules = 3
    MaxSources = 1
    MaxSourceBytes = 3
    Excluded <- MCExcluded
    Fuzz <- MCFuzz
    Benchmarks <- MCBenchmarks
    Size <- MCSize
    MaxFuzzEntries = 12
    MaxTotalBytes = 2
    MaxTargets = 2
SPECIFICATION TargetsSpec
INVARIANTS
    DiscoveryIsComplete
    ModulesAreTheirOwn
    NothingIsMissed
    TargetsAreListed
    RefusalsAreExplained
    LimitsAreReached
