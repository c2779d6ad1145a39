\* Safety of the bare engine contract.
CONSTANTS
    Phases        <- MCPhases
    BlockedPhases <- MCBlocked
    Signals       <- MCSignals
    Blockers      <- MCBlockers
    InitialPhases = {"PLAN_REVIEW"}
    Activities    = {activity}
    Waits         = {wait1, wait2}
    Evidence      = {artifact}
    None          = None
    MaxNoOps      = 2
SPECIFICATION Spec
INVARIANTS
    TypeOK
    BlockedIsExplained
    WaitIsCurrent
PROPERTIES
    ResumeIsRecorded
    NoOpsAreHonest
