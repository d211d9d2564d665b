\* What the documentation says of a run: FindingStopsBeforeMutation.
CONSTANTS
    Hosts = {"web"}
    Diffs = {"unlinked", "stale", "service", "manual", "dropped"}
    Actions = {"link", "observe", "serve"}
    Reconciler <- CoreReconciler
    HostsOf <- CoreHosts
    Claims <- CoreClaims
    Reveals <- CoreReveals
    Deps <- CoreDeps
    ErrorDiffs = {"unlinked", "stale", "service", "manual", "dropped"}
    LocalFindings = {"manual"}
    GlobalFindings = {}
    Unclassified = {}
    Forced = "observe"
    MaxRounds = 4
    MaxDisturbances = 0
    Depth <- CoreDepth
SPECIFICATION Spec
INVARIANT
    FindingStopsBeforeMutation
