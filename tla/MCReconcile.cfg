\* Safety of one run over a link, an observation and a service action.
CONSTANTS
    Hosts = {"web"}
    Diffs = {"unlinked", "stale", "service", "manual", "dropped"}
    Actions = {"link", "observe", "serve"}
    Reconciler <- CoreReconciler
    HostsOf <- CoreHosts
    Claims <- CoreClaims
    Reveals <- CoreReveals
    Deps <- CoreDeps
    ErrorDiffs = {"unlinked", "stale", "service", "manual", "dropped"}
    LocalFindings = {"manual"}
    GlobalFindings = {}
    Unclassified = {}
    Forced = "observe"
    MaxRounds = 4
    MaxDisturbances = 0
    Depth <- CoreDepth
SPECIFICATION Spec
INVARIANTS
    TypeOK
    VerdictIsFresh
    TerminalRefresh
    ProgressAccounted
    EnrollmentBeforeWrites
    ServiceOnVerifiedRoute
    RefreshEvidence
    CleanRunConverges
    CleanInv
PROPERTIES
    InterruptStopsPlan
    KeepsContract
