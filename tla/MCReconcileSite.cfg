\* Compute, IPAM and dependent service actions, with one change by others.
CONSTANTS
    Hosts = {"pve", "web"}
    Diffs = {"missing", "address", "service", "global", "uncoded"}
    Actions = {"observe", "create", "ipam", "exporter", "scrape"}
    Reconciler <- SiteReconciler
    HostsOf <- SiteHosts
    Claims <- SiteClaims
    Reveals <- SiteReveals
    Deps <- SiteDeps
    ErrorDiffs = {"missing", "address", "service", "global", "uncoded"}
    LocalFindings = {}
    GlobalFindings = {"global"}
    Unclassified = {"uncoded"}
    Forced = "observe"
    MaxRounds = 2
    MaxDisturbances = 1
    Depth <- SiteDepth
SPECIFICATION Spec
INVARIANTS
    InductiveInv
PROPERTIES
    Terminates
