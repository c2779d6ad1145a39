\* A project that needs a proposal, under driver test.
CONSTANTS
    Kind          = "project"
    Phases        <- MCPhases
    BlockedPhases <- BlockedNames
    Signals       <- MaterialSignals
    Waits         <- MCWaits
    Blockers      <- MCBlockers
    Activities    = {}
    Evidence      = {}
    None          = None
    Tasks         = {t1}
    Discoveries   <- MCDiscoveries
    Approvals     <- MCApprovals
    Bindings      <- MCBindings
    Reports       <- MCReports
    Candidates    <- MCCandidates
    Auths         <- MCAuths
    Required      = TRUE
    TestMode      = TRUE
    Routes        <- MCRoutes
    MaxBlocks     = 1
SPECIFICATION Spec
CHECK_DEADLOCK FALSE
INVARIANTS
    TemplateAdmitsDriver
    ImplementationIsApproved
    ReviewedIsAuthorized
    AuditRepeatsGates
    BlockersAreRouted
PROPERTY DoneIsBuilt
