\* One CLI process at a time, from an empty directory: initialization and its
\* interruption, appends, crashes, replay after a crash.
CONSTANTS
    Phases        <- MCPhases
    BlockedPhases <- MCBlocked
    Signals       <- MCSignals
    Blockers      <- MCBlockers
    Submissions   <- MCSubmissions
    Seeds         <- MCSeeds
    Events        = {"ev"}
    Activities    = {}
    Waits         = {}
    Evidence      = {"e1"}
    Procs         = {p1}
    Overwrite     = FALSE
    TornWrites    = FALSE
    MaxLog        = 3
    MaxCrashes    = 2
    MaxEvents     = 1
    MaxSeeds      = 2
    None    = None
    Absent  = Absent
    Empty   = Empty
    Garbage = Garbage
SPECIFICATION RecoveredSpec
CHECK_DEADLOCK FALSE
INVARIANTS
    TypeOK
    OneSeed
    LogIsReplayable
    SettledSnapshotIsReplay
PROPERTIES
    ImplementsHistory
    SnapshotConverges
