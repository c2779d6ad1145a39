\* One task, every blocker order, a host that appends without validating.
CONSTANTS
    Kind          = "task"
    Phases        <- MCPhases
    BlockedPhases <- BlockedNames
    Signals       <- MaterialSignals
    Waits         <- MCWaits
    Blockers      <- MCReported
    Activities    = {}
    Evidence      = {}
    None          = None
    MaxLoops      = 2
    LoopCap       = 4
    MaxBlocks     = 2
    Strict        = FALSE
SPECIFICATION FairSpec
CHECK_DEADLOCK FALSE
INVARIANTS
    DriverDecisionsApply
    TemplateAdmitsDriver
    RepairIsBounded
    
PROPERTIES
    TaskReturns
