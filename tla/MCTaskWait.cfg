\* Is a wait that is started on record?
CONSTANTS
    Kind          = "task"
    Phases        <- MCPhases
    BlockedPhases <- BlockedNames
    Signals       <- MaterialSignals
    Waits         <- MCWaits
    Blockers      <- MCReported
    Activities    = {}
    Evidence      = {}
    None          = None
    MaxLoops      = 2
    LoopCap       = 4
    MaxBlocks     = 2
    Strict        = FALSE
SPECIFICATION Spec
CHECK_DEADLOCK FALSE
PROPERTY StartedWaitIsDurable
