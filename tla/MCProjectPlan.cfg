\* A project and the workflows of its two child tasks: rescopes, repairs, review
\* blockers; no proposal needed.
CONSTANTS
    Kind          = "project"
    Phases        <- MCPhases
    BlockedPhases <- BlockedNames
    Signals       <- MaterialSignals
    Waits         <- MCWaits
    Blockers      <- MCBlockers
    Activities    = {}
    Evidence      = {}
    None          = None
    Tasks         = {t1, t2}
    Discoveries   <- MCNothing
    Approvals     <- MCNothing
    Bindings      <- MCNothing
    Reports       <- MCNothing
    Candidates    <- MCNothing
    Auths         <- MCNothing
    Required      = FALSE
    TestMode      = FALSE
    Routes        <- MCRoutes
    MaxBlocks     = 1
    MaxLoops      = 1
SPECIFICATION RunSpec
CHECK_DEADLOCK FALSE
INVARIANTS
    DriverDecisionsApply
    OpenedOnFinishedWork
PROPERTIES
    RescopeIsRethought
    ProjectFinishes
