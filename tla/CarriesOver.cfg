CONSTANTS
    Frame <- MCFrame
    NullFrame <- MCNullFrame
    NumVPages = 4
    PageSize = 8
    max_ins = 3
    Launches <- DefaultLaunch
    Targets <- NoTargets
SPECIFICATION Spec
INVARIANT CarriesOver
CHECK_DEADLOCK FALSE
