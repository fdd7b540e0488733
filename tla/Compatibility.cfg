CONSTANTS
    Versions <- MCVersions
    Toolchains <- MCToolchains
    Modules = 2
SPECIFICATION CompatibilitySpec
INVARIANTS
    ControlsAreSupported
    MinorsAreTested
