\* One task on the durable store, with a host that may die anywhere.
CONSTANTS
    Kind          = "task"
    Phases        <- MCPhases
    BlockedPhases <- BlockedNames
    Signals       <- MCSignals
    Waits         <- MCWaits
    Blockers      <- MCReported
    Activities    = {}
    Evidence      = {}
    None          = None
    MaxLoops      = 1
    MaxBlocks     = 1
    Host          = host
    Procs         = {host}
    Seeds         <- MCSeeds
    Submissions   <- DecisionType
    Events        <- EventType
    Overwrite     = FALSE
    TornWrites    = FALSE
    Absent        = Absent
    Empty         = Empty
    Garbage       = Garbage
    MaxLog        = 20
    MaxEvents     = 22
    MaxSeeds      = 1
    MaxCrashes    = 1
SPECIFICATION HostSpec
CHECK_DEADLOCK FALSE
INVARIANT EventsExplainRecord
PROPERTIES
    ImplementsTask
    ReturnsThroughCrashes
