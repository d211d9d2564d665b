------------------------------- MODULE Drift --------------------------------
(***************************************************************************)
(* The drift report of a snapshot (comparators.py, registry.py, engine.py,  *)
(* status.py): the diffs of every comparator, their severities and the      *)
(* status of each target.  A diff is [kind, target, code, severity, at],    *)
(* where at is the placement, endpoint or liveness it is about, or Blank.   *)
(***************************************************************************)
EXTENDS Dnsmasq, ServiceDrift, AgentDrift

Diff(kind, target, code, severity) ==
  [kind |-> kind, target |-> target, code |-> code, severity |-> severity, at |-> Blank]

DiffSeverity(gap) ==
  IF gap.severity \in {"conflict", "missing", "unknown"} THEN "error" ELSE "warning"
GapDiffs(kind, target, gaps) == {Diff(kind, target, g.code, DiffSeverity(g)) : g \in gaps}

\* A node whose guest waits for its first access has one informational diff, and
\* neither its identity nor its endpoints are compared.
NodeDiffs(s, n) ==
  IF n \in Awaiting(s)
  THEN {Diff("node", n, "waiting_for_manual_initial_access", "info")}
  ELSE GapDiffs("node", n, ExistenceGaps(s, n) \cup NodeGaps(s, n))
EndpointDiffs(s, e) ==
  IF EndpointNode[e] \in Awaiting(s) THEN {}
  ELSE {[d EXCEPT !.at = e] : d \in GapDiffs("node", EndpointNode[e], EndpointGaps(s, e))}

\* A cached report is newer than what was ingested.  A device no node links to is a
\* target of its own.
LagDiffs(s) ==
  LET lagging == {d \in Device : s.device[d] # Blank /\ s.device[d].lag}
      owners(d) == {n \in Node : s.node[n].device = d}
  IN  UNION {IF owners(d) = {} THEN {Diff("device", d, "ingest_lag", "info")}
             ELSE {Diff("node", n, "ingest_lag", "info") : n \in owners(d)} : d \in lagging}

\* The composer's verdict on each node, as drift; a code that is not local to a node
\* makes one global diff instead.
CompositionDiffs(s) ==
  IF ~Composes(s) THEN {Diff("global", Blank, c, "error") : c \in GlobalProblems(s)}
  ELSE {Diff("node", n, Outcome(s, n).reason, "error") :
          n \in {m \in Node : Outcome(s, m).reason \notin {"", "waiting_for_manual_initial_access"}}}
PolicyDiffs(s) ==
  CompositionDiffs(s) \cup {Diff("node", n, "active_placement_not_applied", "warning") :
                              n \in {m \in Node : NotApplied(s, m) # {}}}

ServiceDiffs(s) ==
  LET want == Render(s)
      converged == ConvergedProviders(s, want)
  IN  UNION {{[Diff("service", v, g.code, DiffSeverity(g)) EXCEPT !.at = g.at] :
                g \in ServiceGaps(s, v, want, converged)} : v \in Service}

AgentSeverity(c) == IF c \in AgentErrors THEN "error" ELSE "warning"
AgentDiffs(s) ==
  (UNION {{Diff("workspace", w, c, AgentSeverity(c)) : c \in SpaceCodes(s, w)} : w \in Workspace})
  \cup (UNION {{Diff("agent", a, c, AgentSeverity(c)) : c \in AgentCodes(s, a)} : a \in Agent})
  \cup {[Diff("agent", a, "agent_liveness", "info") EXCEPT !.at = Liveness(s, a)] : a \in Agent}

Diffs(s) == (UNION {NodeDiffs(s, n) : n \in Node}) \cup (UNION {EndpointDiffs(s, e) : e \in Endpoint})
              \cup LagDiffs(s) \cup PolicyDiffs(s) \cup ServiceDiffs(s) \cup AgentDiffs(s)
ErrorsOf(diffs) == {d \in diffs : d.severity = "error"}

\* Codes that say the actual state is not known rather than wrong.
UnknownCodes == {"no_realized_device", "no_realized_object", "realized_device_missing",
  "unsupported_actual_type", "missing_actual_data", "stale_actual_data",
  "invalid_actual_timestamp", "missing_actual_node", "missing_service_lifecycle",
  "service_observation_missing", "service_observation_stale"}

\* claimed is what the latest actuation naming the target claims to resolve while no
\* later observation of the target exists, else {} (operations.py reads it from the
\* event logs).
Status(diffs, kind, target, claimed) ==
  LET errors == {d \in ErrorsOf(diffs) : d.kind = kind /\ d.target = target}
  IN  IF errors = {} THEN "converged"
      ELSE IF Codes(errors) \cap UnknownCodes # {} THEN "unknown"
      ELSE IF Codes(errors) \subseteq claimed THEN "converging" ELSE "drifting"

AllConverged(diffs) == \A d \in diffs : Status(diffs, d.kind, d.target, {}) = "converged"
=============================================================================
