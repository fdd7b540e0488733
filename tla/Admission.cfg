CONSTANTS
    Plans <- MCPlans
    IdBytes = 1
    Selected = "quick"
    Names = {"go", "tool"}
    Directories = {"sub"}
    Files = {"file1", "file2"}
    Root = "root"
    NoFile = "none"
    MaxChanges = 1
    MaxProfiles = 2
    MaxControls = 2
    MaxPlanControls = 3
    MaxPlanBytes = 6
SPECIFICATION Spec
INVARIANTS
    AdmissionIsExact
    OneFilePerName
PROPERTIES
    AdmissionIsOneStep
