\* Is the snapshot only a cache, so that appending to a stale one is harmless?
CONSTANTS
    Phases        <- MCPhases
    BlockedPhases <- MCBlocked
    Signals       <- MCSignals
    Blockers      <- MCBlockers
    Submissions   <- MCSubmissions
    Seeds         <- MCSeed
    Events        = {}
    Activities    = {}
    Waits         = {}
    Evidence      = {"e1"}
    Procs         = {p1}
    Overwrite     = FALSE
    TornWrites    = FALSE
    MaxLog        = 3
    MaxCrashes    = 1
    MaxEvents     = 0
    MaxSeeds      = 0
    None    = None
    Absent  = Absent
    Empty   = Empty
    Garbage = Garbage
SPECIFICATION ReadySpec
CHECK_DEADLOCK FALSE
INVARIANT LogIsReplayable
