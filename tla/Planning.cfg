CONSTANTS
    MaxModules = 2
    MaxVersions = 2
    TargetCounts = {0, 1, 2, 3, 11, 12, 13}
    Cleanup = 1
SPECIFICATION PlanningSpec
INVARIANTS
    PlanIsTheTable
    PrerequisitesComeFirst
    CampaignHasTime
