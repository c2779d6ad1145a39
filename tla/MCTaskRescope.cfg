\* Does an exhausted task return when the host validates decisions?
CONSTANTS
    Kind          = "task"
    Phases        <- MCPhases
    BlockedPhases <- BlockedNames
    Signals       <- MaterialSignals
    Waits         <- MCWaits
    Blockers      <- MCReported
    Activities    = {}
    Evidence      = {}
    None          = None
    MaxLoops      = 2
    LoopCap       = 4
    MaxBlocks     = 0
    Strict        = TRUE
SPECIFICATION FairSpec
CHECK_DEADLOCK FALSE
PROPERTY TaskReturns
