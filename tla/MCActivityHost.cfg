\* Work through activities: retries, collisions, refused envelopes, restarts,
\* and others who decide while a handler runs.
CONSTANTS
    Kind          = "task"
    Phases        <- MCPhases
    BlockedPhases <- BlockedNames
    Signals       <- MaterialSignals
    Waits         = {}
    Blockers      <- MCBlockers
    Activities    <- MCActivities
    Evidence      <- MCEvidence
    None          = None
    Requests      <- MCRequests
    Handled       = {"pr", "status"}
    Work          <- MCWork
    Following     <- MCFollowing
    FirstPhase    = "IMPLEMENTING"
    Remark        <- MCRemark
    MaxRefs       = 2
    MaxAttempts   = 2
    MaxDisturbed  = 4
SPECIFICATION Spec
CHECK_DEADLOCK FALSE
INVARIANTS
    SkipsAreTrue
    SkipIsExplained
PROPERTIES
    EffectsHaveCause
    AdvanceIsEvidenced
    WorkConcludes
