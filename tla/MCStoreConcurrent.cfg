\* Two CLI processes with no coordination, crashes that cut a line short: what
\* survives.
CONSTANTS
    Phases        <- MCPhases
    BlockedPhases <- MCBlocked
    Signals       <- MCSignals
    Blockers      <- MCBlockers
    Submissions   <- MCSubmissions
    Seeds         <- MCSeed
    Events        = {}
    Activities    = {}
    Waits         = {}
    Evidence      = {"e1"}
    Procs         = {p1, p2}
    Overwrite     = FALSE
    TornWrites    = TRUE
    MaxLog        = 3
    MaxCrashes    = 1
    MaxEvents     = 0
    MaxSeeds      = 0
    None    = None
    Absent  = Absent
    Empty   = Empty
    Garbage = Garbage
SPECIFICATION ReadySpec
CHECK_DEADLOCK FALSE
INVARIANTS
    AckedIsDurable
    SnapshotIsExplained
