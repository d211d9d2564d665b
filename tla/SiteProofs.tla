----------------------------- MODULE SiteProofs ------------------------------
(* Parts of a site that judge the same thing apart agree: the planner with the  *)
(* composer on usable hosts, the drift report with the render on what blocks    *)
(* the file.  For any site, intent, evidence, edits and failures.               *)
EXTENDS SiteOps, FiniteSetTheorems, TLAPS

(* The render and the drift report. *)

\* An endpoint that blocks the file has a gap that says so.
LEMMA BlockerGap ==
  ASSUME NEW t, NEW e \in Endpoint, Blocking(t, e)
  PROVE  \E g \in EndpointGaps(t, e) : g.code \in {"ambiguous_interface", "desired_mac_mismatch"}
<1>1. CASE t.endpoint[e].mac # Blank
  BY <1>1 DEF Blocking, Codes
<1>2. CASE t.endpoint[e].mac = Blank
  <2>1. Cardinality(Macs(t, e)) > 1
    BY <1>2 DEF Blocking
  <2>2. Macs(t, e) # {} /\ Cardinality(Macs(t, e)) # 1
    BY <2>1, FS_EmptySet
  <2>3. Interfaces(t, e) # {}
    BY <2>2 DEF Macs
  <2>4. WantsReservation(t, e)
    BY DEF Blocking, Reservable, Exportable, WantsReservation
  <2>5. Gap("ambiguous_interface", "partial") \in MacGaps(t, e)
    BY <2>2, <2>3, <2>4 DEF MacGaps
  <2> QED
    BY <2>5 DEF EndpointGaps, Gap
<1> QED
  BY <1>1, <1>2

\* The report names it, unless its guest waits for a first access.
LEMMA BlockerDiff ==
  ASSUME NEW t, NEW e \in Endpoint, Blocking(t, e), EndpointNode[e] \notin Awaiting(t)
  PROVE  \E d \in Diffs(t) : /\ d.at = e
                             /\ d.code \in {"ambiguous_interface", "desired_mac_mismatch"}
<1>1. PICK g \in EndpointGaps(t, e) : g.code \in {"ambiguous_interface", "desired_mac_mismatch"}
  BY BlockerGap
<1> DEFINE d == [Diff("node", EndpointNode[e], g.code, DiffSeverity(g)) EXCEPT !.at = e]
<1>2. d \in EndpointDiffs(t, e)
  BY DEF EndpointDiffs, GapDiffs
<1>3. d \in Diffs(t)
  BY <1>2 DEF Diffs
<1>4. d.at = e /\ d.code = g.code
  BY DEF Diff
<1> QED
  BY <1>1, <1>3, <1>4

\* An endpoint that blocks the shared dnsmasq file is in the drift report, in every
\* state of every site.
THEOREM BlockersAreReported == Spec => []BlockerIsReported
<1>1. BlockerIsReported
  BY BlockerDiff DEF BlockerIsReported, Blockers
<1> QED
  BY <1>1, PTL

----------------------------------------------------------------------------
(* The planner and the composer. *)

\* What is picked of a set of codes is in it.
LEMMA AnyOf ==
  ASSUME NEW codes
  PROVE  Any(codes) = "" \/ Any(codes) \in codes
<1>1. CASE codes \subseteq {""}
  BY <1>1 DEF Any
<1>2. CASE ~(codes \subseteq {""})
  <2>1. \E c \in codes : c # ""
    BY <1>2
  <2>2. (CHOOSE c \in codes : c # "") \in codes
    BY <2>1
  <2> QED
    BY <1>2, <2>2 DEF Any
<1> QED
  BY <1>1, <1>2

\* Whatever keeps operational values from being derived blocks production.
LEMMA OperationalCode ==
  ASSUME NEW t, NEW n
  PROVE  OperationalProblem(t, n) \in BlockingCodes \cup {""}
<1>1. FactsProblem(t, n) \in BlockingCodes \cup {""}
  BY DEF FactsProblem, BlockingCodes, LocalCodes, NodeLocalCodes
<1>2. \A e, usable : ForcedProblem(t, n, e, usable) \in BlockingCodes \cup {""}
  BY DEF ForcedProblem, BlockingCodes, LocalCodes, NodeLocalCodes
<1>3. EndpointProblem(t, n) \in BlockingCodes \cup {""}
  BY <1>2 DEF EndpointProblem, BlockingCodes, DerivationCodes
<1>4. PowerProblem(t, n) \in BlockingCodes \cup {""}
  BY DEF PowerProblem, BlockingCodes, LocalCodes, NodeLocalCodes
<1> QED
  BY <1>1, <1>3, <1>4 DEF OperationalProblem, OrElse

\* Whatever keeps a host from being composed blocks production, or is global.
LEMMA HostCode ==
  ASSUME NEW t, NEW n
  PROVE  HostProblem(t, n) \in BlockingCodes \cup {"", "invalid_ip_address"}
<1>1. RouteProblem(t, n) \in {"", "invalid_ip_address"}
  BY DEF RouteProblem
<1>2. DependencyProblem(t, n) \in BlockingCodes \cup {""}
  <2>1. \A p, b : BindingProblem(t, p, b) \in BlockingCodes \cup {""}
    BY DEF BindingProblem, BlockingCodes, LocalCodes, BindingCodes
  <2> QED
    BY <2>1, AnyOf DEF DependencyProblem
<1>3. Any({PlacementProblem(t, p) : p \in Active(t) \cap PlacementsOf(n)}) \in BlockingCodes \cup {""}
  <2>1. \A p : PlacementProblem(t, p) \in BlockingCodes \cup {""}
    BY DEF PlacementProblem, BlockingCodes, LocalCodes, PlacementLocalCodes
  <2> QED
    BY <2>1, AnyOf
<1>4. MergeProblem(t, n) \in BlockingCodes \cup {""}
  BY DEF MergeProblem, BlockingCodes, LocalCodes, MergeCodes
<1> QED
  BY <1>1, <1>2, <1>3, <1>4 DEF HostProblem, OrElse

\* A node of the composition that is left out has a reason that blocks it.
LEMMA SkippedBlocks ==
  ASSUME NEW t, NEW n \in Node, Composes(t), Eligible(t, n),
         n \notin Included(t), n \notin Awaiting(t)
  PROVE  Outcome(t, n).reason \in BlockingCodes
<1> DEFINE op == OperationalProblem(t, n)
           host == HostProblem(t, n)
<1>1. CASE op # ""
  <2>1. Outcome(t, n).reason = op
    BY <1>1 DEF Outcome
  <2> QED
    BY <1>1, <2>1, OperationalCode
<1>2. CASE op = "" /\ host # ""
  <2>1. Outcome(t, n).reason \in {"missing_mac_address", host}
    BY <1>2 DEF Outcome
  <2>2. Outcome(t, n).reason # "invalid_ip_address"
    BY DEF Composes, GlobalProblems
  <2>3. "missing_mac_address" \in BlockingCodes
    BY DEF BlockingCodes
  <2> QED
    BY <1>2, <2>1, <2>2, <2>3, HostCode
<1>3. CASE op = "" /\ host = ""
  <2>1. Outcome(t, n).state = "included" \/ Outcome(t, n).reason = "missing_mac_address"
    BY <1>3 DEF Outcome
  <2>2. Outcome(t, n).state # "included"
    BY DEF Included
  <2> QED
    BY <2>1, <2>2 DEF BlockingCodes
<1> QED
  BY <1>1, <1>2, <1>3

\* A node of a type that is composed, with an active placement, is composed, waits for
\* its first access, or has a diff that blocks it.
LEMMA LeftOutIsBlocked ==
  ASSUME NEW t, NEW p \in Active(t), NEW n \in Node, PlacedNode[p] = n,
         Composes(t), NodeType[n] \in ProductionType,
         n \notin Included(t), n \notin Awaiting(t)
  PROVE  \E d \in Diffs(t) : d.kind = "node" /\ d.target = n /\ d.code \in BlockingCodes
<1>1. CASE Eligible(t, n)
  <2> DEFINE d == Diff("node", n, Outcome(t, n).reason, "error")
  <2>1. Outcome(t, n).reason \in BlockingCodes
    BY <1>1, SkippedBlocks
  <2>2. Outcome(t, n).reason \notin {"", "waiting_for_manual_initial_access"}
    BY <2>1 DEF BlockingCodes, LocalCodes, NodeLocalCodes, PlacementLocalCodes, BindingCodes,
                MergeCodes, DerivationCodes
  <2>3. d \in CompositionDiffs(t)
    BY <2>2 DEF CompositionDiffs
  <2>4. d \in Diffs(t)
    BY <2>3 DEF PolicyDiffs, Diffs
  <2> QED
    BY <2>1, <2>4 DEF Diff
<1>2. CASE ~Eligible(t, n)
  <2> DEFINE d == Diff("node", n, "active_placement_not_applied", "warning")
  <2>1. p \in NotApplied(t, n)
    BY <1>2 DEF NotApplied, Eligible, PlacementsOf, Active
  <2>2. d \in PolicyDiffs(t)
    BY <2>1 DEF PolicyDiffs
  <2>3. d \in Diffs(t)
    BY <2>2 DEF Diffs
  <2> QED
    BY <2>3 DEF Diff, BlockingCodes
<1> QED
  BY <1>1, <1>2

\* Only service actions come after the inventory.
LEMMA LateActions ==
  ASSUME NEW t, NEW diffs, NEW scope, NEW a \in Plan(t, diffs, scope), Rank[a.rec] > 3
  PROVE  \E v \in Service, profile \in Profile : a.hosts = ServiceHosts(t, diffs, scope, v, profile)
<1>1. a \notin LinkActions(t, diffs)
  BY DEF LinkActions, Act, Rank
<1>2. a \notin ObserveActions(t, diffs)
  BY DEF ObserveActions, Act, Rank
<1>3. a \notin IpamActions(diffs)
  <2>1. a \in IpamActions(diffs) => a.rec = "reconcile_ipam"
    BY DEF IpamActions, Act
  <2> QED
    BY <2>1 DEF Rank
<1>4. a \in ServiceActions(t, diffs, scope)
  BY <1>1, <1>2, <1>3 DEF Plan
<1> QED
  BY <1>4 DEF ServiceActions, Act, Grouped, Actuated

\* A service action of a plan names only hosts the same snapshot composes.
LEMMA PlanHosts ==
  ASSUME NEW t, NEW scope, NEW a \in Plan(t, Scoped(t, Diffs(t), scope), scope),
         Rank[a.rec] > 3, Composes(t), NEW n \in a.hosts, NodeType[n] \in ProductionType
  PROVE  n \in Included(t) \cup Awaiting(t)
<1> DEFINE diffs == Scoped(t, Diffs(t), scope)
<1>1. PICK v \in Service, profile \in Profile : a.hosts = ServiceHosts(t, diffs, scope, v, profile)
  BY LateActions
<1>2. PICK p \in Managed(t, v, profile) : PlacedNode[p] = n /\ scope \in {Blank, n}
  BY <1>1 DEF ServiceHosts
<1>3. n \notin Blocked(diffs)
  BY <1>1 DEF ServiceHosts
<1>4. p \in Active(t) /\ n \in Node
  BY <1>2, SiteAssumption DEF SiteAssumption, Managed, Providers, Active
<1> SUFFICES ASSUME n \notin Included(t), n \notin Awaiting(t)
             PROVE  FALSE
  OBVIOUS
<1>5. PICK d \in Diffs(t) : d.kind = "node" /\ d.target = n /\ d.code \in BlockingCodes
  BY <1>2, <1>4, LeftOutIsBlocked
<1>6. d \in diffs
  BY <1>2, <1>5 DEF Scoped, InScope
<1> QED
  BY <1>3, <1>5, <1>6 DEF Blocked

\* Only the start of a round brings one from idle to its first phase.
LEMMA PlanningStarts ==
  ASSUME [Next]_vars, Planning
  PROVE  \E scope \in Scopes : StartRound(scope)
<1>1. round # round'
  BY DEF Planning
<1>2. ~BootstrapStep /\ ~Regenerate /\ ~ServiceStep /\ ~EndRound
  BY DEF Planning, BootstrapStep, Regenerate, ServiceStep, EndRound
<1>3. ~Disturb
  BY DEF Planning, Disturb, NoRound
<1>4. ~ObserveOnly /\ ~ObserveAgents /\ ~RenderProduction /\ ~LateIngest /\ ~StartApply /\ ~EndApply
  BY <1>1, <1>3 DEF ObserveOnly, ObserveAgents, RenderProduction, LateIngest, StartApply, EndApply
<1>5. (\A x \in Edits : ~Edit(x)) /\ (\A n \in Node : ~Break(n)) /\ ~Age
  BY <1>3 DEF Edit, Break, Age
<1> QED
  BY <1>1, <1>2, <1>4, <1>5 DEF Next, vars

\* The hosts of every planned service action are ones the composer composes from the
\* snapshot the plan was made from, in every step of every site.
THEOREM PlannedHostsAreComposed == Spec => PlannedHostsCompose
<1>1. ASSUME [Next]_vars, Planning, NEW a \in round'.plan, Rank[a.rec] > 3
      PROVE  a.hosts \subseteq Included(s) \cup Awaiting(s)
                                \cup {n \in Node : NodeType[n] \notin ProductionType}
  <2>1. PICK scope \in Scopes : StartRound(scope)
    BY <1>1, PlanningStarts
  <2>2. Composes(s) /\ round'.plan = Plan(s, Scoped(s, Diffs(s), scope), scope)
    BY <2>1 DEF StartRound
  <2>3. a.hosts \subseteq Node
    BY <1>1, <2>2, LateActions, SiteAssumption
    DEF SiteAssumption, ServiceHosts, Managed, Providers, Active
  <2> QED
    BY <1>1, <2>2, <2>3, PlanHosts
<1>2. [Next]_vars => (Planning => \A a \in round'.plan : Rank[a.rec] > 3 =>
                        a.hosts \subseteq Included(s) \cup Awaiting(s)
                                   \cup {n \in Node : NodeType[n] \notin ProductionType})
  BY <1>1
<1> QED
  BY <1>2, PTL DEF Spec, PlannedHostsCompose
----------------------------------------------------------------------------
(* Errors, actions and findings. *)

\* A gap that is an error is of a severity the comparators take for one.
LEMMA ErrorGap ==
  ASSUME NEW kind, NEW target, NEW gaps, NEW d \in GapDiffs(kind, target, gaps), d.severity = "error"
  PROVE  /\ d.kind = kind /\ d.target = target
         /\ \E g \in gaps : d.code = g.code /\ g.severity \in {"conflict", "missing", "unknown"}
<1>1. PICK g \in gaps : d = Diff(kind, target, g.code, DiffSeverity(g))
  BY DEF GapDiffs
<1>2. d.kind = kind /\ d.target = target /\ d.code = g.code /\ d.severity = DiffSeverity(g)
  BY <1>1 DEF Diff
<1>3. g.severity \in {"conflict", "missing", "unknown"}
  BY <1>2 DEF DiffSeverity
<1> QED
  BY <1>2, <1>3

\* What is wrong with a node itself is observed again or shown, never acted upon.
LEMMA NodeErrors ==
  ASSUME NEW t, NEW n \in Node, NEW d \in NodeDiffs(t, n), d.severity = "error"
  PROVE  d.kind = "node" /\ d.target = n /\ d.code \notin Automatic
<1>1. d \in GapDiffs("node", n, ExistenceGaps(t, n) \cup NodeGaps(t, n))
  BY DEF NodeDiffs, Diff
<1>2. PICK g \in ExistenceGaps(t, n) \cup NodeGaps(t, n) :
        d.code = g.code /\ g.severity \in {"conflict", "missing", "unknown"}
  BY <1>1, ErrorGap
<1>3. ASSUME g \in ExistenceGaps(t, n)
      PROVE  g.code \notin Automatic
  <2>1. g \in {Gap("no_realized_object", "missing"), Gap("realized_device_missing", "missing")}
    BY <1>3 DEF ExistenceGaps
  <2> QED
    BY <2>1 DEF Gap, Automatic, LinkCodes, IpamCodes, ServiceCodes
<1>4. ASSUME g \in NodeGaps(t, n)
      PROVE  g.code \notin Automatic
  <2>1. CASE \E e \in Device : g \in Mismatches(t, n, e)
    <3>1. PICK k \in SpecKeys : g = Gap(MismatchCode[k], "conflict")
      BY <2>1 DEF Mismatches
    <3>2. g.code \in {"serial_mismatch", "uuid_mismatch", "platform_mismatch"}
      BY <3>1 DEF Gap, MismatchCode, SpecKeys
    <3> QED
      BY <3>2 DEF Automatic, LinkCodes, IpamCodes, ServiceCodes
  <2>2. CASE ~\E e \in Device : g \in Mismatches(t, n, e)
    <3>1. Realized(t, n) # NoDevice => Realized(t, n) \in Device
      BY DEF Realized
    <3>2. g \in {Gap("realized_actual_type_not_accepted", "conflict"),
                 Gap("missing_actual_node", "missing"), Gap("actual_node_not_linked", "partial"),
                 Gap("ambiguous_actual_node_candidates", "conflict")}
      BY <1>4, <2>2, <3>1 DEF NodeGaps
    <3>3. g.code \in {"realized_actual_type_not_accepted", "missing_actual_node",
                      "ambiguous_actual_node_candidates"}
      BY <1>2, <3>2 DEF Gap
    <3> QED
      BY <3>3 DEF Automatic, LinkCodes, IpamCodes, ServiceCodes
  <2> QED
    BY <2>1, <2>2
<1> QED
  BY <1>1, <1>2, <1>3, <1>4, ErrorGap

LEMMA EndpointErrors ==
  ASSUME NEW t, NEW e \in Endpoint, NEW d \in EndpointDiffs(t, e), d.severity = "error"
  PROVE  d.kind = "node" /\ d.target = EndpointNode[e] /\ d.code \notin Automatic
<1>1. PICK x \in GapDiffs("node", EndpointNode[e], EndpointGaps(t, e)) : d = [x EXCEPT !.at = e]
  BY DEF EndpointDiffs
<1>2. PICK h \in EndpointGaps(t, e) : x = Diff("node", EndpointNode[e], h.code, DiffSeverity(h))
  BY DEF GapDiffs
<1>3. d.kind = x.kind /\ d.target = x.target /\ d.code = x.code /\ d.severity = x.severity
  BY <1>1, <1>2 DEF Diff
<1>4. PICK g \in EndpointGaps(t, e) :
        x.code = g.code /\ g.severity \in {"conflict", "missing", "unknown"}
  BY <1>3, ErrorGap
<1>5. g.code \in {"ip_address_mismatch", "ambiguous_ip_address_candidates", "desired_mac_mismatch"}
  <2>1. CASE g \in IpamGaps(t, e)
    BY <1>4, <2>1 DEF IpamGaps, Gap
  <2>2. CASE g \in RangeGaps(t.endpoint[e].addr, t.endpoint[e].policy)
    <3>1. g.severity = "partial"
      BY <2>2 DEF RangeGaps, Gap
    <3> QED
      BY <1>4, <3>1
  <2>3. CASE g \in MacGaps(t, e)
    BY <1>4, <2>3 DEF MacGaps, Gap
  <2> QED
    BY <1>4, <2>1, <2>2, <2>3 DEF EndpointGaps
<1>6. d.code \notin Automatic
  BY <1>3, <1>4, <1>5 DEF Automatic, LinkCodes, IpamCodes, ServiceCodes
<1> QED
  BY <1>3, <1>4, <1>6, ErrorGap

\* What is wrong with the composition of a node is shown or observed, never acted upon.
LEMMA PolicyErrors ==
  ASSUME NEW t, Composes(t), NEW d \in PolicyDiffs(t), d.severity = "error"
  PROVE  d.kind = "node" /\ d.target \in Node /\ d.code \notin Automatic
<1>1. d \in CompositionDiffs(t)
  BY DEF PolicyDiffs, Diff
<1>2. PICK n \in Node : /\ Outcome(t, n).reason \notin {"", "waiting_for_manual_initial_access"}
                        /\ d = Diff("node", n, Outcome(t, n).reason, "error")
  BY <1>1 DEF CompositionDiffs
<1>3. Eligible(t, n) /\ n \notin Awaiting(t)
  BY <1>2 DEF Outcome
<1>4. n \notin Included(t)
  <2>1. Outcome(t, n).state = "included" => Outcome(t, n).reason = ""
    BY DEF Outcome
  <2> QED
    BY <1>2, <2>1 DEF Included
<1>5. Outcome(t, n).reason \in BlockingCodes
  BY <1>3, <1>4, SkippedBlocks
<1>6. d.kind = "node" /\ d.target = n /\ d.code = Outcome(t, n).reason
  BY <1>2 DEF Diff
<1>7. BlockingCodes \cap Automatic = {}
  BY DEF BlockingCodes, LocalCodes, NodeLocalCodes, PlacementLocalCodes, BindingCodes, MergeCodes,
         DerivationCodes, Automatic, LinkCodes, IpamCodes, ServiceCodes
<1> QED
  BY <1>5, <1>6, <1>7

\* What is wrong with a placement never asks for a link or an address.
LEMMA PlacementErrors ==
  ASSUME NEW t, NEW p, NEW want, NEW converged
  PROVE  PlacementCodes(t, p, want, converged) \cap (LinkCodes \cup IpamCodes) = {}
<1> DEFINE pl == t.placement[p]
           entry == t.device[Realized(t, PlacedNode[p])].entries[PlacedService[p]]
           links == LinkCodes \cup IpamCodes
<1>1. ProcessCodes(pl, entry) \cap links = {}
  BY DEF ProcessCodes, LinkCodes, IpamCodes
<1>2. ContentCodes(entry, want) \cap links = {}
  BY DEF ContentCodes, LinkCodes, IpamCodes
<1>3. \A x, y, z : BindingState(x, y, z) \cap links = {}
  BY DEF BindingState, LinkCodes, IpamCodes
<1>4. {"service_observation_missing", "service_observation_stale"} \cap links = {}
  BY DEF LinkCodes, IpamCodes
<1> QED
  BY <1>1, <1>2, <1>3, <1>4 DEF PlacementCodes

\* An error of a service is about one of its placements, or about the service and shown.
LEMMA ServiceErrors ==
  ASSUME NEW t, NEW d \in ServiceDiffs(t), d.severity = "error"
  PROVE  /\ d.kind = "service" /\ d.target \in Service
         /\ \/ d.at \in Placement /\ d.code \notin LinkCodes \cup IpamCodes
            \/ d.code \in {"missing_service_lifecycle", "service_observed_on_wrong_node"}
<1> DEFINE want == Render(t)
           converged == ConvergedProviders(t, want)
<1>1. PICK v \in Service : \E g \in ServiceGaps(t, v, want, converged) :
              d = [Diff("service", v, g.code, DiffSeverity(g)) EXCEPT !.at = g.at]
  BY DEF ServiceDiffs
<1>2. PICK g \in ServiceGaps(t, v, want, converged) :
              d = [Diff("service", v, g.code, DiffSeverity(g)) EXCEPT !.at = g.at]
  BY <1>1
<1>3. /\ d.kind = "service" /\ d.target = v /\ d.code = g.code /\ d.at = g.at
      /\ d.severity = DiffSeverity(g)
  BY <1>2 DEF Diff
<1>4. g.severity # "needs_review"
  BY <1>3 DEF DiffSeverity
<1>5. CASE \E p \in Providers(t, v) : \E c \in PlacementCodes(t, p, want, converged) :
             g = [code |-> c, severity |-> SeverityOf(c), at |-> p]
  <2>1. PICK p \in Providers(t, v) : \E c \in PlacementCodes(t, p, want, converged) :
             g = [code |-> c, severity |-> SeverityOf(c), at |-> p]
    BY <1>5
  <2>2. g.code \in PlacementCodes(t, p, want, converged) /\ g.at = p
    BY <2>1
  <2>3. p \in Placement
    BY DEF Providers, Active
  <2> QED
    BY <1>3, <2>2, <2>3, PlacementErrors
<1>6. CASE ~\E p \in Providers(t, v) : \E c \in PlacementCodes(t, p, want, converged) :
             g = [code |-> c, severity |-> SeverityOf(c), at |-> p]
  <2>1. \A holds, code, severity :
          g \in Whole(holds, code, severity) => g.code = code /\ g.severity = severity
    BY DEF Whole
  <2>2. \/ g.severity = "needs_review"
        \/ g.code \in {"missing_service_lifecycle", "service_observed_on_wrong_node"}
    BY <1>6, <2>1 DEF ServiceGaps
  <2> QED
    BY <1>3, <1>4, <2>2
<1> QED
  BY <1>5, <1>6

\* The errors of workspaces and agents are in no table.
LEMMA AgentErrorsUnclassified ==
  ASSUME NEW t, NEW d \in AgentDiffs(t), d.severity = "error"
  PROVE  ClassOf(d) = "unclassified"
<1>1. d.kind # "global" /\ d.code \in AgentErrors
  <2>1. CASE \E w \in Workspace : \E c \in SpaceCodes(t, w) : d = Diff("workspace", w, c, AgentSeverity(c))
    BY <2>1 DEF AgentSeverity, Diff
  <2>2. CASE \E a \in Agent : \E c \in AgentCodes(t, a) : d = Diff("agent", a, c, AgentSeverity(c))
    BY <2>2 DEF AgentSeverity, Diff
  <2>3. ~\E a \in Agent : d = [Diff("agent", a, "agent_liveness", "info") EXCEPT !.at = Liveness(t, a)]
    BY DEF Diff
  <2> QED
    BY <2>1, <2>2, <2>3 DEF AgentDiffs
<1> QED
  BY <1>1 DEF AgentErrors, ClassOf, ObservationCodes, Automatic, LinkCodes, IpamCodes, ServiceCodes,
     ManualCodes, BlockingCodes, LocalCodes, NodeLocalCodes, PlacementLocalCodes, BindingCodes,
     MergeCodes, DerivationCodes
\* An error of the report of a site that composes is about a node, a placement, or a
\* whole service, or nobody classified it.
LEMMA ErrorKinds ==
  ASSUME NEW t, Composes(t), NEW d \in ErrorsOf(Diffs(t))
  PROVE  \/ d.kind = "node" /\ d.target \in Node /\ d.code \notin Automatic
         \/ /\ d.kind = "service" /\ d.target \in Service
            /\ \/ d.at \in Placement /\ d.code \notin LinkCodes \cup IpamCodes
               \/ d.code \in {"missing_service_lifecycle", "service_observed_on_wrong_node"}
         \/ ClassOf(d) = "unclassified"
<1>1. d \in Diffs(t) /\ d.severity = "error"
  BY DEF ErrorsOf
<1>2. CASE \E n \in Node : d \in NodeDiffs(t, n)
  BY <1>1, <1>2, NodeErrors
<1>3. CASE \E e \in Endpoint : d \in EndpointDiffs(t, e)
  BY <1>1, <1>3, EndpointErrors, SiteAssumption DEF SiteAssumption
<1>4. d \notin LagDiffs(t)
  BY <1>1 DEF LagDiffs, Diff
<1>5. CASE d \in PolicyDiffs(t)
  BY <1>1, <1>5, PolicyErrors
<1>6. CASE d \in ServiceDiffs(t)
  BY <1>1, <1>6, ServiceErrors
<1>7. CASE d \in AgentDiffs(t)
  BY <1>1, <1>7, AgentErrorsUnclassified
<1> QED
  BY <1>1, <1>2, <1>3, <1>4, <1>5, <1>6, <1>7 DEF Diffs

\* Evidence that is missing is asked of its node, unless that is retired.
LEMMA SeekersAsked ==
  ASSUME NEW diffs, NEW d \in Seekers(diffs), ObserveNode(d) \in Node,
         s.node[ObserveNode(d)].lifecycle # "retired"
  PROVE  \E a \in ObserveActions(s, diffs) : Claims(a, d)
<1> DEFINE asked == {ObserveNode(x) : x \in Seekers(diffs)}
                    \ {n \in Node : s.node[n].lifecycle = "retired"}
           a == Act("observe_node", Blank, Blank, asked \cap Node, {}, Codes(Seekers(diffs)))
<1>1. ObserveNode(d) \in asked
  OBVIOUS
<1>2. a \in ObserveActions(s, diffs)
  BY <1>1 DEF ObserveActions
<1>3. a.rec = "observe_node" /\ a.hosts = asked \cap Node /\ a.codes = Codes(Seekers(diffs))
  BY DEF Act
<1>4. d.code \in Codes(Seekers(diffs))
  BY DEF Codes
<1> QED
  BY <1>1, <1>2, <1>3, <1>4 DEF Claims

\* Work on a placement is done with the managed hosts of its profile that are not
\* blocked, or shown because nothing acts for the profile.
LEMMA ServiceWork ==
  ASSUME NEW diffs, NEW d \in diffs, d.kind = "service", d.target \in Service, d.at \in Placement,
         d.code \in ServiceCodes
  PROVE  \/ \E a \in ServiceActions(s, diffs, Blank) : Claims(a, d)
         \/ d \in Findings(s, diffs, Blank)
         \/ \A q \in Managed(s, d.target, PlacedProfile[d.at]) : PlacedNode[q] \in Blocked(diffs)
<1> DEFINE v == d.target
           profile == PlacedProfile[d.at]
           hosts == ServiceHosts(s, diffs, Blank, v, profile)
<1>1. d \in ServiceGroup(diffs, v, profile)
  BY DEF ServiceGroup
<1>2. CASE hosts = {}
  <2>1. \A q \in Managed(s, v, profile) : PlacedNode[q] \in Blocked(diffs)
    BY <1>2 DEF ServiceHosts
  <2> QED
    BY <2>1
<1>3. CASE hosts # {}
  <2>1. <<v, profile>> \in Grouped(s, diffs, Blank)
    BY <1>1, <1>3 DEF Grouped
  <2>2. CASE Actuated(profile)
    <3> DEFINE a == Act(Actuator(profile), v, profile, hosts, {}, Codes(ServiceGroup(diffs, v, profile)))
    <3>1. a \in ServiceActions(s, diffs, Blank)
      BY <2>1, <2>2 DEF ServiceActions
    <3>2. /\ a.rec # "observe_node" /\ a.target = v /\ a.profile = profile
          /\ a.codes = Codes(ServiceGroup(diffs, v, profile))
      BY DEF Act, Actuator
    <3>3. d.code \in Codes(ServiceGroup(diffs, v, profile))
      BY <1>1 DEF Codes
    <3> QED
      BY <3>1, <3>2, <3>3 DEF Claims
  <2>3. CASE ~Actuated(profile)
    BY <1>1, <2>1, <2>3 DEF Findings
  <2> QED
    BY <2>2, <2>3
<1> QED
  BY <1>2, <1>3

\* What the plan of the cluster leaves out.
LEMMA LeftOut ==
  ASSUME Composes(s), ~Refused(Diffs(s)), NEW d \in ErrorsOf(Diffs(s)),
         d \notin Findings(s, Diffs(s), Blank),
         ~\E a \in Plan(s, Diffs(s), Blank) : Claims(a, d)
  PROVE  \/ ClassOf(d) = "observation" /\ OfRetired(d)
         \/ d.at \in Placement /\ \A q \in Managed(s, d.target, PlacedProfile[d.at]) :
                                    PlacedNode[q] \in Blocked(Diffs(s))
<1> DEFINE diffs == Diffs(s)
<1>1. d \in diffs /\ d \in Reviewed(diffs) /\ ClassOf(d) # "unclassified"
  BY DEF Refused, Reviewed, ErrorsOf
<1>2. ClassOf(d) # "manual"
  BY <1>1 DEF Findings
<1>3. ClassOf(d) \in {"observation", "automatic"}
  BY <1>1, <1>2 DEF ClassOf
<1>4. CASE d.kind = "node" /\ d.target \in Node /\ d.code \notin Automatic
  <2>1. ClassOf(d) = "observation" /\ d \in Seekers(diffs)
    BY <1>1, <1>3, <1>4 DEF ClassOf, Seekers
  <2>2. ObserveNode(d) = d.target
    BY <1>4 DEF ObserveNode
  <2> QED
    BY <1>4, <2>1, <2>2, SeekersAsked DEF Plan, OfRetired
<1>5. CASE /\ d.kind = "service" /\ d.target \in Service
           /\ d.at \in Placement /\ d.code \notin LinkCodes \cup IpamCodes
  <2>1. CASE ClassOf(d) = "observation"
    <3>1. d \in Seekers(diffs) /\ ObserveNode(d) = PlacedNode[d.at] /\ PlacedNode[d.at] \in Node
      BY <1>1, <1>5, <2>1, SiteAssumption DEF Seekers, ObserveNode, SiteAssumption
    <3> QED
      BY <1>5, <2>1, <3>1, SeekersAsked DEF Plan, OfRetired
  <2>2. CASE ClassOf(d) = "automatic"
    <3>1. d.code \in ServiceCodes
      BY <1>5, <2>2 DEF ClassOf, Automatic
    <3> QED
      BY <1>1, <1>5, <3>1, ServiceWork DEF Plan
  <2> QED
    BY <1>3, <2>1, <2>2
<1>6. CASE d.kind = "service" /\ d.code \in {"missing_service_lifecycle", "service_observed_on_wrong_node"}
  BY <1>2, <1>6 DEF ClassOf, ManualCodes, ObservationCodes, Automatic, LinkCodes, IpamCodes, ServiceCodes
<1> QED
  BY <1>1, <1>4, <1>5, <1>6, ErrorKinds

\* An error of the drift a cluster plan is made from is claimed by one of its actions or
\* shown to a human, but for the evidence of retired nodes and for services with no host
\* to act on, in every step of every site.
THEOREM NothingIsDropped == Spec => NothingDropped
<1>1. ASSUME [Next]_vars, Planning, round'.scope = Blank, NEW d \in Unplanned(Diffs(s), round'.plan)
      PROVE  \/ ClassOf(d) = "observation" /\ OfRetired(d)
             \/ d.at \in Placement /\ \A q \in Managed(s, d.target, PlacedProfile[d.at]) :
                                        PlacedNode[q] \in Blocked(Diffs(s))
  <2>1. PICK scope \in Scopes : StartRound(scope)
    BY <1>1, PlanningStarts
  <2>2. /\ Composes(s) /\ round'.scope = scope
        /\ round'.plan = Plan(s, Scoped(s, Diffs(s), scope), scope)
        /\ ~Refused(Scoped(s, Diffs(s), scope))
    BY <2>1 DEF StartRound, Runnable
  <2>3. Scoped(s, Diffs(s), Blank) = Diffs(s)
    BY DEF Scoped, InScope
  <2>4. round'.plan = Plan(s, Diffs(s), Blank) /\ ~Refused(Diffs(s))
    BY <1>1, <2>2, <2>3
  <2>5. /\ d \in ErrorsOf(Diffs(s)) /\ d \notin Findings(s, Diffs(s), Blank)
        /\ ~\E a \in Plan(s, Diffs(s), Blank) : Claims(a, d)
    BY <2>4 DEF Unplanned
  <2> QED
    BY <2>2, <2>4, <2>5, LeftOut
<1>2. [Next]_vars => (Planning /\ round'.scope = Blank =>
        \A diffs \in {Diffs(s)} : \A d \in Unplanned(diffs, round'.plan) :
          \/ ClassOf(d) = "observation" /\ OfRetired(d)
          \/ d.at \in Placement /\ \A q \in Managed(s, d.target, PlacedProfile[d.at]) :
                                     PlacedNode[q] \in Blocked(diffs))
  BY <1>1
<1> QED
  BY <1>2, PTL DEF Spec, NothingDropped
=============================================================================
