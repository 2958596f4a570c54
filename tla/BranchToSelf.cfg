CONSTANTS
    Frame <- MCFrame
    NullFrame <- MCNullFrame
    NumVPages = 4
    PageSize = 8
    max_ins = 3
    Launches <- DefaultLaunch
    Targets <- SelfTarget
SPECIFICATION Spec
INVARIANT KeepsPCInstructionsSet
CHECK_DEADLOCK FALSE
