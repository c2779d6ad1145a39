\* The project template over a slice of its phases.
CONSTANTS
    Kind          = "project"
    Phases        <- MCProjectSlice
    BlockedPhases <- BlockedNames
    Signals       <- MCProjectSignals
    Waits         <- MCWaits
    Blockers      <- MCProjectBlockers
    InitialPhases = {"PLAN_REVIEW"}
    Activities    = {activity}
    Evidence      = {}
    None          = None
    MaxNoOps      = 2
SPECIFICATION Spec
CHECK_DEADLOCK FALSE
INVARIANTS
    BlockerMatchesPhase
    NoQuietRuns
    EndedStaysEnded
    StatusNamesOwner
