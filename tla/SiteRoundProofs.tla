--------------------------- MODULE SiteRoundProofs ----------------------------
(* Rounds of a site: a clean round accounts for the service errors it set out   *)
(* with, so a round that stops for no progress has no new work, and what its    *)
(* service actions were for runs as declared.  For any site of the kind each    *)
(* theorem names, any edits and failures.                                       *)
EXTENDS SiteInvariant, SiteTruthProofs

(* What a plan accounts for. *)

\* Only the service comparator speaks of services.
LEMMA ServiceKind ==
  ASSUME NEW t, NEW d \in Diffs(t), d.kind = "service"
  PROVE  d \in ServiceDiffs(t)
<1>1. \A kind, target, gaps : \A x \in GapDiffs(kind, target, gaps) : x.kind = kind
  BY DEF GapDiffs, Diff
<1>2. ASSUME NEW n \in Node
      PROVE  d \notin NodeDiffs(t, n)
  BY <1>1 DEF NodeDiffs, Diff
<1>3. ASSUME NEW e \in Endpoint, d \in EndpointDiffs(t, e)
      PROVE  FALSE
  <2>1. PICK x \in GapDiffs("node", EndpointNode[e], EndpointGaps(t, e)) : d = [x EXCEPT !.at = e]
    BY <1>3 DEF EndpointDiffs
  <2>2. d.kind = x.kind
    BY <2>1 DEF GapDiffs, Diff
  <2> QED
    BY <1>1, <2>1, <2>2
<1>4. \A kind, target, code, severity : Diff(kind, target, code, severity).kind = kind
  BY DEF Diff
<1>5. ASSUME d \in LagDiffs(t)
      PROVE  d.kind \in {"device", "node"}
  <2>1. PICK e \in Device :
          d \in {Diff("device", e, "ingest_lag", "info")}
                 \cup {Diff("node", n, "ingest_lag", "info") : n \in {m \in Node : t.node[m].device = e}}
    BY <1>5 DEF LagDiffs
  <2> QED
    BY <1>4, <2>1
<1>6. d \notin PolicyDiffs(t)
  <2>1. \A x \in CompositionDiffs(t) : x.kind \in {"global", "node"}
    <3>1. SUFFICES ASSUME NEW x \in CompositionDiffs(t) PROVE x.kind \in {"global", "node"}
      OBVIOUS
    <3>2. CASE \E c \in GlobalProblems(t) : x = Diff("global", Blank, c, "error")
      BY <1>4, <3>2
    <3>3. CASE \E n \in Node : x = Diff("node", n, Outcome(t, n).reason, "error")
      BY <1>4, <3>3
    <3> QED
      BY <3>1, <3>2, <3>3 DEF CompositionDiffs
  <2> QED
    BY <1>4, <2>1 DEF PolicyDiffs
<1>7. ASSUME d \in AgentDiffs(t)
      PROVE  d.kind \in {"workspace", "agent"}
  <2>1. CASE \E w \in Workspace : \E c \in SpaceCodes(t, w) : d = Diff("workspace", w, c, AgentSeverity(c))
    BY <1>4, <2>1
  <2>2. CASE \E a \in Agent : \E c \in AgentCodes(t, a) : d = Diff("agent", a, c, AgentSeverity(c))
    BY <1>4, <2>2
  <2>3. CASE \E a \in Agent : d = [Diff("agent", a, "agent_liveness", "info") EXCEPT !.at = Liveness(t, a)]
    BY <2>3 DEF Diff
  <2> QED
    BY <1>7, <2>1, <2>2, <2>3 DEF AgentDiffs
<1> QED
  BY <1>2, <1>3, <1>5, <1>6, <1>7 DEF Diffs

\* What a playbook could resolve is an error of an active placement of the service.
LEMMA PlacedError ==
  ASSUME NEW t, NEW d \in Diffs(t), d.kind = "service", d.code \in ServiceCodes
  PROVE  /\ d.severity = "error" /\ d.target \in Service
         /\ d.at \in Placement /\ PlacedService[d.at] = d.target
<1> DEFINE want == Render(t)
           converged == ConvergedProviders(t, want)
<1>1. PICK v \in Service : \E g \in ServiceGaps(t, v, want, converged) :
              d = [Diff("service", v, g.code, DiffSeverity(g)) EXCEPT !.at = g.at]
  BY ServiceKind DEF ServiceDiffs
<1>2. PICK g \in ServiceGaps(t, v, want, converged) :
              d = [Diff("service", v, g.code, DiffSeverity(g)) EXCEPT !.at = g.at]
  BY <1>1
<1>3. d.target = v /\ d.code = g.code /\ d.at = g.at /\ d.severity = DiffSeverity(g)
  BY <1>2 DEF Diff
<1>4. ~\E holds, severity : \E code \in {"service_lifecycle_inactive", "missing_service_lifecycle",
             "service_has_no_active_placement", "service_observed_on_wrong_node"} :
          g \in Whole(holds, code, severity)
  BY <1>3 DEF Whole, ServiceCodes
<1>5. PICK p \in Providers(t, v) : \E c \in PlacementCodes(t, p, want, converged) :
             g = [code |-> c, severity |-> SeverityOf(c), at |-> p]
  BY <1>4 DEF ServiceGaps
<1>6. g.at = p /\ g.severity \in {"unknown", "missing"}
  BY <1>5 DEF SeverityOf
<1>7. p \in Placement /\ PlacedService[p] = v
  BY DEF Providers, Active
<1> QED
  BY <1>3, <1>6, <1>7 DEF DiffSeverity

\* A service action of a plan is for the errors of one service and profile.
LEMMA LateAction ==
  ASSUME NEW t, NEW diffs, NEW scope, NEW a \in Plan(t, diffs, scope), Late(a)
  PROVE  \E v \in Service, profile \in Profile :
           /\ Actuated(profile) /\ ServiceGroup(diffs, v, profile) # {}
           /\ a.rec = Actuator(profile) /\ a.target = v /\ a.profile = profile
           /\ a.hosts = ServiceHosts(t, diffs, scope, v, profile)
<1>1. a \notin LinkActions(t, diffs) /\ a \notin ObserveActions(t, diffs)
  BY DEF LinkActions, ObserveActions, Act, Late
<1>2. a \in IpamActions(diffs) => a.rec = "reconcile_ipam"
  BY DEF IpamActions, Act
<1>3. a \in ServiceActions(t, diffs, scope)
  BY <1>1, <1>2 DEF Plan, Late
<1>4. PICK vp \in Grouped(t, diffs, scope) :
        /\ Actuated(vp[2])
        /\ a = Act(Actuator(vp[2]), vp[1], vp[2], ServiceHosts(t, diffs, scope, vp[1], vp[2]), {},
                   Codes(ServiceGroup(diffs, vp[1], vp[2])))
  BY <1>3 DEF ServiceActions
<1>5. vp[1] \in Service /\ vp[2] \in Profile /\ ServiceGroup(diffs, vp[1], vp[2]) # {}
  BY <1>4 DEF Grouped, Actuated
<1> QED
  BY <1>4, <1>5 DEF Act

\* The service actions of a plan are those that come after the inventory.
LEMMA LateRank ==
  ASSUME NEW t, NEW diffs, NEW scope, NEW a \in Plan(t, diffs, scope)
  PROVE  Late(a) <=> Rank[a.rec] > 3
<1>1. a.rec \in {"link_actual_node", "observe_node", "reconcile_ipam", "dnsmasq_config", "service_profile"}
  BY DEF Plan, LinkActions, ObserveActions, IpamActions, ServiceActions, Act, Actuator
<1> QED
  BY <1>1 DEF Late, Rank

\* A service error some playbook could resolve has its action in the plan made of it, or
\* all its hosts are blocked.
LEMMA AccountedStart ==
  ASSUME OneProfile, NEW t, NEW scope, NEW diffs, diffs = Scoped(t, Diffs(t), scope), NEW r,
         r.scope = scope, r.plan = Plan(t, diffs, scope),
         r.fingerprint = Fingerprint(diffs), r.held = Held(diffs)
  PROVE  Accounted(t, r)
<1> SUFFICES ASSUME NEW p \in Placement, Actuated(PlacedProfile[p]), Wanted(r, p)
             PROVE  \/ \E a \in r.plan : /\ a.rec = Actuator(PlacedProfile[p])
                                         /\ a.target = PlacedService[p] /\ a.profile = PlacedProfile[p]
                    \/ \A q \in Managed(t, PlacedService[p], PlacedProfile[p]) :
                         Excused(r, PlacedNode[q])
  BY DEF Accounted
<1> DEFINE v == PlacedService[p]
           profile == PlacedProfile[p]
           hosts == ServiceHosts(t, diffs, scope, v, profile)
<1>1. PICK c \in ServiceCodes : [kind |-> "service", target |-> v, code |-> c] \in Fingerprint(diffs)
  BY DEF Wanted
<1>2. PICK d \in ErrorsOf(diffs) : d.kind = "service" /\ d.target = v /\ d.code = c
  BY <1>1 DEF Fingerprint
<1>3. d \in diffs /\ d \in Diffs(t)
  BY <1>2 DEF ErrorsOf, Scoped
<1>4. d.at \in Placement /\ PlacedService[d.at] = v /\ v \in Service
  BY <1>2, <1>3, PlacedError
<1>5. PlacedProfile[d.at] = profile
  BY <1>4 DEF OneProfile
<1>6. d \in ServiceGroup(diffs, v, profile)
  BY <1>1, <1>2, <1>3, <1>5 DEF ServiceGroup
<1>7. CASE hosts # {}
  <2> DEFINE a == Act(Actuator(profile), v, profile, hosts, {}, Codes(ServiceGroup(diffs, v, profile)))
  <2>1. <<v, profile>> \in Grouped(t, diffs, scope)
    BY <1>4, <1>6, <1>7 DEF Grouped
  <2>2. a \in ServiceActions(t, diffs, scope)
    BY <2>1 DEF ServiceActions
  <2>3. a \in r.plan
    BY <2>2 DEF Plan
  <2>4. a.rec = Actuator(profile) /\ a.target = v /\ a.profile = profile
    BY DEF Act
  <2> QED
    BY <2>3, <2>4
<1>8. CASE hosts = {}
  <2>1. SUFFICES ASSUME NEW q \in Managed(t, v, profile), scope \in {Blank, PlacedNode[q]}
                 PROVE  PlacedNode[q] \in r.held \/ Erring(r, PlacedNode[q])
    BY DEF Excused
  <2> DEFINE n == PlacedNode[q]
  <2>2. n \in Blocked(diffs)
    BY <1>8, <2>1 DEF ServiceHosts
  <2>3. CASE n \in Blocked(ErrorsOf(diffs))
    <3>1. PICK x \in ErrorsOf(diffs) : x.kind = "node" /\ x.target = n /\ x.code \in BlockingCodes
      BY <2>3 DEF Blocked
    <3>2. [kind |-> "node", target |-> n, code |-> x.code] \in Fingerprint(diffs)
      BY <3>1 DEF Fingerprint
    <3> QED
      BY <3>1, <3>2 DEF Erring
  <2>4. CASE n \notin Blocked(ErrorsOf(diffs))
    BY <2>2, <2>4 DEF Held
  <2> QED
    BY <2>3, <2>4
<1> QED
  BY <1>7, <1>8

\* What a round accounts for depends on the placements only.
LEMMA AccountedKept ==
  ASSUME NEW t, NEW u, NEW r, NEW q, u.placement = t.placement, Accounted(t, r),
         q.scope = r.scope, q.plan = r.plan, q.fingerprint = r.fingerprint, q.held = r.held
  PROVE  Accounted(u, q)
<1>1. \A v, profile : Managed(u, v, profile) = Managed(t, v, profile)
  BY DEF Managed, Providers, Active
<1>2. \A p : Wanted(q, p) <=> Wanted(r, p)
  BY DEF Wanted
<1>3. \A n : Excused(q, n) <=> Excused(r, n)
  BY DEF Excused, Erring
<1> QED
  BY <1>1, <1>2, <1>3 DEF Accounted

----------------------------------------------------------------------------
(* Rounds account for their work. *)

\* Observations write evidence, links and addresses, never what is placed.
LEMMA ObserveKeepsPlacements ==
  ASSUME TypeOK, NEW hosts, NEW exported, NEW by, Observe(hosts, exported, by)
  PROVE  s'.placement = s.placement
<1>1. \E f, g : s' = [s EXCEPT !.device = f, !.guests = g]
  BY DEF Observe
<1> QED
  BY <1>1 DEF TypeOK, Snapshot

LEMMA BootstrapKeepsPlacements ==
  ASSUME TypeOK, BootstrapStep
  PROVE  s'.placement = s.placement
<1>1. \E a : Link(a) \/ Ipam(a) \/ Observe(a.hosts, round.bootstrap, 0)
  BY DEF BootstrapStep
<1>2. ASSUME NEW a, Link(a)
      PROVE  s'.placement = s.placement
  <2>1. s' = s \/ \E d : s' = [s EXCEPT !.node[a.target].device = d]
    BY <1>2 DEF Link
  <2> QED
    BY <2>1 DEF TypeOK, Snapshot
<1>3. ASSUME NEW a, Ipam(a)
      PROVE  s'.placement = s.placement
  <2>1. \E f, g : s' = [s EXCEPT !.ip = f, !.endpoint = g]
    BY <1>3 DEF Ipam
  <2> QED
    BY <2>1 DEF TypeOK, Snapshot
<1> QED
  BY <1>1, <1>2, <1>3, ObserveKeepsPlacements

\* Striking an action leaves what the round set out with.
LEMMA DoneKeeps ==
  ASSUME TypeOK, NEW a, Done(a)
  PROVE  /\ round'.pc = round.pc /\ round'.scope = round.scope /\ round'.plan = round.plan
         /\ round'.todo = round.todo \ {a}
         /\ round'.fingerprint = round.fingerprint /\ round'.held = round.held
         /\ round'.clean = (round.clean /\ events' = events)
<1>1. DOMAIN round = {"pc", "scope", "bootstrap", "plan", "todo", "fingerprint", "held", "clean", "prev"}
  BY DEF TypeOK, NoRound
<1>2. round' = [round EXCEPT !.todo = round.todo \ {a}, !.clean = (round.clean /\ events' = events)]
  BY DEF Done
<1> QED
  BY <1>1, <1>2

\* A step of someone else forgets the round before, or leaves the round not clean.
LEMMA DisturbForgets ==
  ASSUME TypeOK, Disturb
  PROVE  (round'.pc = "idle" /\ round'.prev = Blank) \/ (round'.pc # "idle" /\ ~round'.clean)
<1>1. CASE round.pc = "idle"
  BY <1>1 DEF Disturb, NoRound
<1>2. CASE round.pc # "idle"
  <2>1. DOMAIN round = {"pc", "scope", "bootstrap", "plan", "todo", "fingerprint", "held", "clean", "prev"}
    BY DEF TypeOK, NoRound
  <2>2. round' = [round EXCEPT !.clean = FALSE]
    BY <1>2 DEF Disturb
  <2> QED
    BY <1>2, <2>1, <2>2
<1> QED
  BY <1>1, <1>2

\* The steps that disturb whatever round is running.
LEMMA Disturbing ==
  ASSUME Next
  PROVE  \/ \E scope \in Scopes : StartRound(scope)
         \/ BootstrapStep \/ Regenerate \/ ServiceStep \/ EndRound
         \/ StartApply \/ Disturb
BY DEF Next, ObserveOnly, ObserveAgents, RenderProduction, LateIngest, EndApply, Edit, Break, Age

\* The inventory that is installed for the service phase changes nothing else of a round.
LEMMA RegenerateKeeps ==
  ASSUME TypeOK, Regenerate
  PROVE  \/ round' = NoRound
         \/ /\ round'.pc = "service" /\ round'.scope = round.scope /\ round'.plan = round.plan
            /\ round'.todo = round.todo
            /\ round'.fingerprint = round.fingerprint /\ round'.held = round.held
            /\ round'.clean => round.clean /\ inventory' = Inventory(s)
<1>1. DOMAIN round = {"pc", "scope", "bootstrap", "plan", "todo", "fingerprint", "held", "clean", "prev"}
  BY DEF TypeOK, NoRound
<1>2. \/ round' = NoRound
      \/ round' = [round EXCEPT !.pc = "service"] /\ Composes(s) /\ events' = events
      \/ round' = [round EXCEPT !.pc = "service", !.clean = FALSE]
  BY DEF Regenerate
<1>3. Composes(s) /\ events' = events => inventory' = Inventory(s)
  BY InstallTyped DEF Regenerate
<1> QED
  BY <1>1, <1>2, <1>3

LEMMA AccountedStep ==
  ASSUME OneProfile, TypeOK, RoundsAccounted, [Next]_vars
  PROVE  RoundsAccounted'
<1>1. CASE UNCHANGED vars
  BY <1>1 DEF vars, RoundsAccounted
<1>2. ASSUME NEW scope \in Scopes, StartRound(scope)
      PROVE  RoundsAccounted'
  <2>1. PICK diffs, plan :
          /\ diffs = Scoped(s, Diffs(s), scope) /\ plan = Plan(s, diffs, scope)
          /\ round' = [pc |-> "bootstrap", scope |-> scope, bootstrap |-> Bootstrap,
                       plan |-> plan, todo |-> plan, clean |-> TRUE,
                       fingerprint |-> Fingerprint(diffs), held |-> Held(diffs),
                       prev |-> IF round.prev = Blank \/ round.prev.scope # scope THEN Blank
                                ELSE round.prev]
    BY <1>2 DEF StartRound
  <2>2. /\ round'.pc # "idle" /\ round'.scope = scope /\ round'.plan = Plan(s, diffs, scope)
        /\ round'.fingerprint = Fingerprint(diffs) /\ round'.held = Held(diffs)
    BY <2>1
  <2>3. Accounted(s, round')
    BY <2>1, <2>2, AccountedStart
  <2>4. s' = s
    BY <1>2 DEF StartRound
  <2> QED
    BY <2>2, <2>3, <2>4 DEF RoundsAccounted
<1>3. CASE BootstrapStep
  <2>1. PICK a : Done(a)
    BY <1>3 DEF BootstrapStep
  <2>2. round.pc # "idle"
    BY <1>3 DEF BootstrapStep
  <2>3. round.clean => Accounted(s', round')
    BY <1>3, <2>1, <2>2, BootstrapKeepsPlacements, DoneKeeps, AccountedKept DEF RoundsAccounted
  <2> QED
    BY <2>1, <2>2, <2>3, DoneKeeps DEF RoundsAccounted
<1>4. CASE Regenerate
  <2>1. round.pc # "idle" /\ s' = s
    BY <1>4 DEF Regenerate
  <2>2. CASE round' = NoRound
    BY <2>2 DEF NoRound, RoundsAccounted
  <2>3. CASE round' # NoRound
    <3>1. /\ round'.pc = "service" /\ round'.scope = round.scope /\ round'.plan = round.plan
          /\ round'.fingerprint = round.fingerprint /\ round'.held = round.held
          /\ round'.clean => round.clean
      BY <1>4, <2>3, RegenerateKeeps
    <3>2. round.clean => Accounted(s', round')
      BY <2>1, <3>1, AccountedKept DEF RoundsAccounted
    <3> QED
      BY <3>1, <3>2 DEF RoundsAccounted
  <2> QED
    BY <2>2, <2>3
<1>5. CASE ServiceStep
  <2>1. PICK a : Done(a)
    BY <1>5 DEF ServiceStep
  <2>2. round.pc # "idle" /\ s' = s
    BY <1>5 DEF ServiceStep
  <2>3. round.clean => Accounted(s', round')
    BY <2>1, <2>2, DoneKeeps, AccountedKept DEF RoundsAccounted
  <2> QED
    BY <2>1, <2>2, <2>3, DoneKeeps DEF RoundsAccounted
<1>6. CASE EndRound
  <2> DEFINE prev == [scope |-> round.scope, plan |-> round.plan,
                      fingerprint |-> round.fingerprint, held |-> round.held]
  <2>1. CASE round' = NoRound
    BY <2>1 DEF NoRound, RoundsAccounted
  <2>2. CASE round' # NoRound
    <3>1. round' = [NoRound EXCEPT !.prev = prev] /\ round.clean /\ round.pc # "idle"
      BY <1>6, <2>2 DEF EndRound
    <3>2. round'.pc = "idle" /\ round'.prev = prev
      BY <3>1 DEF NoRound
    <3>3. s'.placement = s.placement
      BY <1>6, ObserveKeepsPlacements DEF EndRound
    <3>4. Accounted(s', prev)
      BY <3>1, <3>3, AccountedKept DEF RoundsAccounted
    <3> QED
      BY <3>2, <3>4 DEF RoundsAccounted
  <2> QED
    BY <2>1, <2>2
<1>7. CASE StartApply
  BY <1>7 DEF StartApply, RoundsAccounted
<1>8. CASE Disturb
  BY <1>8, DisturbForgets DEF RoundsAccounted
<1> QED
  BY <1>1, <1>2, <1>3, <1>4, <1>5, <1>6, <1>7, <1>8, Disturbing

\* In every state of every site whose services have one profile each, the round under way,
\* and the one the next is compared with, has an action for every service error a playbook
\* could resolve, unless all its hosts are blocked.
THEOREM RoundsAreAccounted == ASSUME OneProfile PROVE Spec => []RoundsAccounted
<1>1. Init => RoundsAccounted
  BY DEF Init, NoRound, RoundsAccounted
<1>2. TypeOK /\ RoundsAccounted /\ [Next]_vars => RoundsAccounted'
  BY AccountedStep
<1> QED
  BY <1>1, <1>2, SiteTyped, PTL DEF Spec

\* What is left to do when a round starts was there in the round before, or was on hosts
\* a warning held there.
LEMMA OldWork ==
  ASSUME OneProfile, RoundsAccounted, NEW scope, StartRound(scope), round'.prev # Blank,
         round'.fingerprint = round'.prev.fingerprint, NEW a \in round'.plan, Rank[a.rec] > 3
  PROVE  \/ a.hosts \subseteq round'.prev.held
         \/ \E b \in round'.prev.plan : b.rec = a.rec /\ b.target = a.target /\ b.profile = a.profile
<1> DEFINE diffs == Scoped(s, Diffs(s), scope)
           prev == round'.prev
<1>1. /\ round.pc = "idle" /\ round'.plan = Plan(s, diffs, scope)
      /\ round'.fingerprint = Fingerprint(diffs)
      /\ prev = round.prev /\ round.prev # Blank /\ prev.scope = scope
  BY DEF StartRound
<1>2. Accounted(s, prev)
  BY <1>1 DEF RoundsAccounted
<1>3. PICK v \in Service, profile \in Profile :
        /\ Actuated(profile) /\ ServiceGroup(diffs, v, profile) # {}
        /\ a.rec = Actuator(profile) /\ a.target = v /\ a.profile = profile
        /\ a.hosts = ServiceHosts(s, diffs, scope, v, profile)
  BY <1>1, LateRank, LateAction
<1>4. PICK d \in ServiceGroup(diffs, v, profile) : TRUE
  BY <1>3
<1>5. /\ d \in diffs /\ d \in Diffs(s) /\ d.kind = "service" /\ d.target = v /\ d.code \in ServiceCodes
      /\ d.at \in Placement => PlacedProfile[d.at] = profile
  BY <1>4 DEF ServiceGroup, Scoped
<1>6. d.severity = "error" /\ d.at \in Placement /\ PlacedService[d.at] = v /\ PlacedProfile[d.at] = profile
  BY <1>5, PlacedError
<1>7. [kind |-> "service", target |-> v, code |-> d.code] \in prev.fingerprint
  BY <1>1, <1>5, <1>6 DEF Fingerprint, ErrorsOf
<1>8. Wanted(prev, d.at)
  BY <1>5, <1>6, <1>7 DEF Wanted
<1>9. \/ \E b \in prev.plan : b.rec = Actuator(profile) /\ b.target = v /\ b.profile = profile
      \/ \A q \in Managed(s, v, profile) : Excused(prev, PlacedNode[q])
  BY <1>2, <1>3, <1>6, <1>8 DEF Accounted
<1>10. ASSUME \A q \in Managed(s, v, profile) : Excused(prev, PlacedNode[q]), NEW n \in a.hosts
       PROVE  n \in prev.held
  <2>1. PICK q \in Managed(s, v, profile) : PlacedNode[q] = n /\ scope \in {Blank, n}
    BY <1>3, <1>10 DEF ServiceHosts
  <2>2. n \notin Blocked(diffs)
    BY <1>3, <1>10 DEF ServiceHosts
  <2>3. n \in prev.held \/ Erring(prev, n)
    BY <1>1, <1>10, <2>1 DEF Excused
  <2>4. ASSUME Erring(prev, n)
        PROVE  FALSE
    <3>1. PICK c \in BlockingCodes : [kind |-> "node", target |-> n, code |-> c] \in Fingerprint(diffs)
      BY <1>1, <2>4 DEF Erring
    <3>2. PICK x \in ErrorsOf(diffs) : x.kind = "node" /\ x.target = n /\ x.code = c
      BY <3>1 DEF Fingerprint
    <3> QED
      BY <2>2, <3>1, <3>2 DEF Blocked, ErrorsOf
  <2> QED
    BY <2>3, <2>4
<1> QED
  BY <1>3, <1>9, <1>10

\* A clean round that leaves the fingerprint as it was has brought no new service action
\* to light but on hosts a warning had held, in every step of every site whose services
\* have one profile each: stopping there leaves no playbook unrun.
THEOREM NoProgressLeavesNoWork == ASSUME OneProfile PROVE Spec => NoProgressIsNoWork
<1>1. RoundsAccounted /\ [Next]_vars =>
        (Planning /\ round'.prev # Blank /\ round'.fingerprint = round'.prev.fingerprint =>
           \A a \in round'.plan : Rank[a.rec] > 3 =>
             \/ a.hosts \subseteq round'.prev.held
             \/ \E b \in round'.prev.plan : b.rec = a.rec /\ b.target = a.target
                                            /\ b.profile = a.profile)
  BY PlanningStarts, OldWork
<1> QED
  BY <1>1, RoundsAreAccounted, PTL DEF Spec, NoProgressIsNoWork

----------------------------------------------------------------------------
(* Clean rounds. *)

\* An action of a plan acts on hosts that manage what it is for.
LEMMA PlanActsOnManaged ==
  ASSUME NEW t, NEW diffs, NEW scope, NEW a \in Plan(t, diffs, scope), Late(a)
  PROVE  /\ a.rec = Actuator(a.profile)
         /\ a.hosts \subseteq {PlacedNode[q] : q \in Managed(t, a.target, a.profile)}
BY LateAction DEF ServiceHosts

LEMMA ManagedKept ==
  ASSUME NEW t, NEW u, u.placement = t.placement, NEW v, NEW profile
  PROVE  Managed(u, v, profile) = Managed(t, v, profile)
BY DEF Managed, Providers, Active

LEMMA CleanStep ==
  ASSUME TypeOK, CleanRound, [Next]_vars
  PROVE  CleanRound'
<1>1. CASE UNCHANGED vars
  BY <1>1 DEF vars, CleanRound
<1>2. ASSUME NEW scope \in Scopes, StartRound(scope)
      PROVE  CleanRound'
  <2>1. PICK diffs, plan :
          /\ plan = Plan(s, diffs, scope)
          /\ round' = [pc |-> "bootstrap", scope |-> scope, bootstrap |-> Bootstrap,
                       plan |-> plan, todo |-> plan, clean |-> TRUE,
                       fingerprint |-> Fingerprint(diffs), held |-> Held(diffs),
                       prev |-> IF round.prev = Blank \/ round.prev.scope # scope THEN Blank
                                ELSE round.prev]
    BY <1>2 DEF StartRound
  <2>2. round'.pc = "bootstrap" /\ round'.plan = Plan(s, diffs, scope) /\ round'.todo = round'.plan
    BY <2>1
  <2>3. s' = s
    BY <1>2 DEF StartRound
  <2> QED
    BY <2>2, <2>3, PlanActsOnManaged DEF CleanRound
<1>3. CASE BootstrapStep
  <2>1. PICK a \in NextActions : InBootstrap(a) /\ Done(a)
    BY <1>3 DEF BootstrapStep
  <2>2. round.pc = "bootstrap"
    BY <1>3 DEF BootstrapStep
  <2>3. ~Late(a)
    BY <2>1 DEF InBootstrap, Late, Rank
  <2>4. /\ round'.pc = "bootstrap" /\ round'.plan = round.plan /\ round'.todo = round.todo \ {a}
        /\ round'.clean => round.clean
    BY <2>1, <2>2, DoneKeeps
  <2>5. \A v, profile : Managed(s', v, profile) = Managed(s, v, profile)
    BY <1>3, BootstrapKeepsPlacements, ManagedKept
  <2> QED
    BY <2>2, <2>3, <2>4, <2>5 DEF CleanRound
<1>4. CASE Regenerate
  <2>1. round.pc = "bootstrap" /\ s' = s
    BY <1>4 DEF Regenerate
  <2>2. CASE round' = NoRound
    BY <2>2 DEF NoRound, CleanRound
  <2>3. CASE round' # NoRound
    BY <1>4, <2>1, <2>3, RegenerateKeeps DEF CleanRound
  <2> QED
    BY <2>2, <2>3
<1>5. CASE ServiceStep
  <2>1. PICK a : Done(a)
    BY <1>5 DEF ServiceStep
  <2>2. round.pc = "service" /\ s' = s /\ inventory' = inventory
    BY <1>5 DEF ServiceStep
  <2> QED
    BY <2>1, <2>2, DoneKeeps DEF CleanRound
<1>6. CASE EndRound
  BY <1>6 DEF EndRound, NoRound, CleanRound
<1>7. CASE StartApply
  BY <1>7 DEF StartApply, CleanRound
<1>8. CASE Disturb
  BY <1>8, DisturbForgets DEF CleanRound
<1> QED
  BY <1>1, <1>2, <1>3, <1>4, <1>5, <1>6, <1>7, <1>8, Disturbing

----------------------------------------------------------------------------
(* What playbooks leave. *)

\* What AsDeclared asks of the entry of placement p, by snapshot t.
Declared(t, p, entry) ==
  IF t.placement[p].run = "stopped" THEN entry = Blank \/ entry.state # "running"
  ELSE /\ entry # Blank /\ entry.state = "running"
       /\ \A b \in Bindings[p] : entry.bound[b.name].config = "set"
                                 /\ entry.bound[b.name].endpoint = BoundTo(t, b)
       /\ PlacedProfile[p] \in ManagedProfile /\ Render(t) # Blank
            => entry.file # Blank /\ entry.file.content = Render(t)

\* The application of placement p the inventory of snapshot t has.
App(t, p) ==
  [placement |-> p, run |-> t.placement[p].run,
   bound |-> {<<b.name, Exported(t, PlacedNode[p], VariableOf(p, b))>> : b \in Bindings[p]}]

\* Where no two bindings of a node fight over a variable, it names the provider of each.
LEMMA ExportedIsBound ==
  ASSUME OwnVariables, NEW t, NEW p \in Active(t), NEW b \in Bindings[p]
  PROVE  Exported(t, PlacedNode[p], VariableOf(p, b)) = BoundTo(t, b)
<1> DEFINE n == PlacedNode[p]
           setters == {r \in NodeBindings(t, n) : VariableOf(r[1], r[2]) = VariableOf(p, b)}
           r == CHOOSE x \in setters : TRUE
<1>1. p \in Placement /\ <<p, b>> \in NodeBindings(t, n)
  BY DEF NodeBindings, PlacementsOf, Active
<1>2. <<p, b>> \in setters
  BY <1>1
<1>3. r \in setters
  BY <1>2
<1>4. PICK q \in Active(t) \cap PlacementsOf(n) : r \in {q} \X Bindings[q]
  BY <1>3 DEF NodeBindings
<1>5. r[1] = q /\ r[2] \in Bindings[q] /\ VariableOf(r[1], r[2]) = VariableOf(p, b)
  BY <1>3, <1>4
<1>6. q \in Placement /\ PlacedNode[q] = n
  BY <1>4 DEF PlacementsOf
<1>7. r[2].provider = b.provider
  BY <1>1, <1>5, <1>6 DEF OwnVariables
<1>8. Exported(t, n, VariableOf(p, b)) = BoundTo(t, r[2])
  BY DEF Exported
<1> QED
  BY <1>7, <1>8 DEF BoundTo, ProviderOf

\* A playbook that configures a placement leaves it in its state and bound to its
\* providers, and its file alone.
LEMMA ConfiguredAsDeclared ==
  ASSUME OwnVariables, NEW t, NEW p \in Active(t), NEW entry
  PROVE  LET c == Configured(entry, App(t, p))
         IN  /\ c.state = IF t.placement[p].run = "stopped" THEN "stopped" ELSE "running"
             /\ c.file = IF entry = Blank THEN Blank ELSE entry.file
             /\ \A b \in Bindings[p] : c.bound[b.name].config = "set"
                                       /\ c.bound[b.name].endpoint = BoundTo(t, b)
<1> DEFINE a == App(t, p)
           c == Configured(entry, a)
           f == [x \in {y[1] : y \in a.bound} |->
                   [config |-> "set", endpoint |-> (CHOOSE y \in a.bound : y[1] = x)[2],
                    reach |-> FALSE, age |-> "fresh"]]
<1>1. a.run = t.placement[p].run
      /\ a.bound = {<<b.name, Exported(t, PlacedNode[p], VariableOf(p, b))>> : b \in Bindings[p]}
  BY DEF App
<1>2. /\ c.state = IF a.run = "stopped" THEN "stopped" ELSE "running"
      /\ c.file = IF entry = Blank THEN Blank ELSE entry.file
      /\ c.bound = f
  BY DEF Configured
<1>3. ASSUME NEW b \in Bindings[p]
      PROVE  f[b.name].config = "set" /\ f[b.name].endpoint = BoundTo(t, b)
  <2> DEFINE y == CHOOSE x \in a.bound : x[1] = b.name
  <2>1. <<b.name, Exported(t, PlacedNode[p], VariableOf(p, b))>> \in a.bound
    BY <1>1
  <2>2. y \in a.bound /\ y[1] = b.name
    BY <2>1
  <2>3. PICK d \in Bindings[p] : y = <<d.name, Exported(t, PlacedNode[p], VariableOf(p, d))>>
    BY <1>1, <2>2
  <2>4. VariableOf(p, d) = VariableOf(p, b)
    BY <2>2, <2>3 DEF VariableOf
  <2>5. y[2] = BoundTo(t, b)
    <3> HIDE DEF y
    <3>1. y[2] = Exported(t, PlacedNode[p], VariableOf(p, b))
      BY <2>3, <2>4
    <3> QED
      BY <3>1, ExportedIsBound
  <2>6. b.name \in {x[1] : x \in a.bound}
    BY <2>1
  <2> HIDE DEF y, a
  <2> QED
    BY <2>5, <2>6 DEF y
<1> HIDE DEF f
<1> QED
  BY <1>1, <1>2, <1>3

\* What the inventory has of the placement of a service on its node is that placement.
LEMMA PlayedAs ==
  ASSUME OnePerNode, NEW p \in Ours, inventory = Inventory(s), NEW profile
  PROVE  Played(PlacedNode[p], PlacedService[p], profile) =
           IF profile = PlacedProfile[p]
           THEN Configured(truth[PlacedNode[p]].entries[PlacedService[p]], App(s, p))
           ELSE truth[PlacedNode[p]].entries[PlacedService[p]]
<1> DEFINE n == PlacedNode[p]
           v == PlacedService[p]
           applied == inventory.vars[n].applied
           mine == {a \in applied : PlacedService[a.placement] = v /\ PlacedProfile[a.placement] = profile}
<1>1. p \in Active(s) /\ p \in Placement /\ n \in Included(s)
  BY DEF Ours, Active
<1>2. applied = {[placement |-> q, run |-> s.placement[q].run,
                  bound |-> {<<b.name, Exported(s, n, VariableOf(q, b))>> : b \in Bindings[q]}] :
                   q \in Active(s) \cap PlacementsOf(n)}
  BY <1>1 DEF Inventory, HostVars
<1>3. App(s, p) \in applied
  BY <1>1, <1>2 DEF App, PlacementsOf
<1>4. App(s, p).placement = p
  BY DEF App
<1>5. ASSUME NEW a \in applied, PlacedService[a.placement] = v
      PROVE  a = App(s, p)
  <2>1. PICK q \in Active(s) \cap PlacementsOf(n) :
          a = [placement |-> q, run |-> s.placement[q].run,
               bound |-> {<<b.name, Exported(s, n, VariableOf(q, b))>> : b \in Bindings[q]}]
    BY <1>2, <1>5
  <2>2. q \in Placement /\ PlacedNode[q] = n /\ PlacedService[q] = v
    BY <1>5, <2>1 DEF PlacementsOf
  <2>3. q = p
    BY <1>1, <2>2 DEF OnePerNode
  <2> QED
    BY <2>1, <2>3 DEF App
<1>6. CASE profile = PlacedProfile[p]
  <2>1. mine = {App(s, p)}
    BY <1>3, <1>4, <1>5, <1>6
  <2>2. (CHOOSE a \in mine : TRUE) = App(s, p)
    BY <2>1
  <2> QED
    BY <1>6, <2>1, <2>2 DEF Played
<1>7. CASE profile # PlacedProfile[p]
  <2>1. mine = {}
    BY <1>4, <1>5, <1>7
  <2> QED
    BY <1>7, <2>1 DEF Played
<1> QED
  BY <1>6, <1>7

\* A machine the hosts of a run name has what the run leaves, and any other what it had.
LEMMA OnHost ==
  ASSUME TypeOK, NEW run, NEW n \in Node
  PROVE  OnHosts(run)[n].entries = IF n \in DOMAIN run THEN run[n] ELSE truth[n].entries
<1>1. truth[n] \in Machines
  BY DEF TypeOK
<1>2. OnHosts(run)[n] = IF n \in DOMAIN run THEN [truth[n] EXCEPT !.entries = run[n]] ELSE truth[n]
  BY DEF OnHosts
<1>3. [truth[n] EXCEPT !.entries = run[n]].entries = run[n]
  BY <1>1 DEF Machines
<1> QED
  BY <1>2, <1>3

\* The playbook of a service leaves every managed placement alone but the one it is for.
LEMMA PlaybookEntry ==
  ASSUME OnePerNode, TypeOK, inventory = Inventory(s), NEW p \in Ours, NEW a
  PROVE  OnHosts([h \in a.hosts \cap inventory.hosts |-> Play(h, a.target, a.profile)])
             [PlacedNode[p]].entries[PlacedService[p]]
           = IF /\ PlacedNode[p] \in a.hosts /\ a.target = PlacedService[p]
                /\ a.profile = PlacedProfile[p]
             THEN Configured(truth[PlacedNode[p]].entries[PlacedService[p]], App(s, p))
             ELSE truth[PlacedNode[p]].entries[PlacedService[p]]
<1> DEFINE n == PlacedNode[p]
           v == PlacedService[p]
           run == [h \in a.hosts \cap inventory.hosts |-> Play(h, a.target, a.profile)]
<1>1. n \in Node /\ v \in Service /\ n \in inventory.hosts
  BY SiteAssumption DEF SiteAssumption, Ours, Active, Inventory
<1>2. truth[n].entries \in [Service -> Entry \cup {Blank}]
  BY <1>1 DEF TypeOK, Machines, Entries
<1>3. OnHosts(run)[n].entries = IF n \in a.hosts THEN Play(n, a.target, a.profile) ELSE truth[n].entries
  BY <1>1, OnHost
<1>4. Play(n, a.target, a.profile)[v] = IF a.target = v THEN Played(n, v, a.profile) ELSE truth[n].entries[v]
  BY <1>1, <1>2 DEF Play
<1>5. Played(n, v, a.profile) = IF a.profile = PlacedProfile[p]
                                THEN Configured(truth[n].entries[v], App(s, p)) ELSE truth[n].entries[v]
  BY PlayedAs
<1> HIDE DEF run, n, v
<1>6. OnHosts(run)[n].entries[v] =
        IF n \in a.hosts /\ a.target = v /\ a.profile = PlacedProfile[p]
        THEN Configured(truth[n].entries[v], App(s, p)) ELSE truth[n].entries[v]
  BY <1>3, <1>4, <1>5
<1> QED
  BY <1>6 DEF run, n, v

\* The dnsmasq deployment configures the placements of its profile and installs the file.
LEMMA DeploymentEntry ==
  ASSUME OnePerNode, TypeOK, inventory = Inventory(s), NEW p \in Ours, NEW a, NEW content
  PROVE  OnHosts([h \in a.hosts |-> Deployed(h, a.profile, content)])
             [PlacedNode[p]].entries[PlacedService[p]]
           = IF PlacedNode[p] \in a.hosts /\ a.profile = PlacedProfile[p]
             THEN Filed(Configured(truth[PlacedNode[p]].entries[PlacedService[p]], App(s, p)), content)
             ELSE truth[PlacedNode[p]].entries[PlacedService[p]]
<1> DEFINE n == PlacedNode[p]
           v == PlacedService[p]
           run == [h \in a.hosts |-> Deployed(h, a.profile, content)]
           c == Configured(truth[n].entries[v], App(s, p))
           serves(w) == \E q \in PlacementsOf(n) : PlacedService[q] = w /\ PlacedProfile[q] = a.profile
<1>1. p \in Placement /\ p \in PlacementsOf(n) /\ n \in Node /\ v \in Service /\ n \in inventory.hosts
  BY SiteAssumption DEF SiteAssumption, Ours, Active, Inventory, PlacementsOf
<1>2. OnHosts(run)[n].entries = IF n \in a.hosts THEN Deployed(n, a.profile, content) ELSE truth[n].entries
  BY <1>1, OnHost
<1>3. SetUp(n, a.profile)[v] = IF a.profile = PlacedProfile[p] THEN c ELSE truth[n].entries[v]
  BY <1>1, PlayedAs DEF SetUp
<1>4. serves(v) <=> a.profile = PlacedProfile[p]
  <2>1. ASSUME NEW q \in PlacementsOf(n), PlacedService[q] = v
        PROVE  q = p
    BY <1>1, <2>1 DEF OnePerNode, PlacementsOf
  <2> QED
    BY <1>1, <2>1
<1>5. Deployed(n, a.profile, content)[v] =
        IF serves(v) /\ SetUp(n, a.profile)[v] # Blank THEN Filed(SetUp(n, a.profile)[v], content)
        ELSE SetUp(n, a.profile)[v]
  BY <1>1 DEF Deployed
<1>6. c # Blank
  <2>1. Installed(inventory)
    BY InventoryTyped DEF TypeOK
  <2>2. App(s, p) \in inventory.vars[n].applied
    BY <1>1 DEF App, Inventory, HostVars, Ours
  <2>3. App(s, p) \in Applied
    BY <1>1, <2>1, <2>2 DEF Installed
  <2>4. truth[n].entries[v] \in Entry \cup {Blank}
    BY <1>1 DEF TypeOK, Machines, Entries
  <2>5. c \in Entry
    BY <2>3, <2>4, ConfiguredTyped
  <2> QED
    BY <2>5, SiteOpsAssumption DEF SiteOpsAssumption
<1> HIDE DEF run, n, v, c, serves
<1>7. OnHosts(run)[n].entries[v] =
        IF n \in a.hosts /\ a.profile = PlacedProfile[p] THEN Filed(c, content) ELSE truth[n].entries[v]
  BY <1>2, <1>3, <1>4, <1>5, <1>6
<1> QED
  BY <1>7 DEF run, n, v, c

\* What is declared survives a playbook that configures it again, and a playbook for a
\* service without a file, or the deployment of the rendered one, brings it about.
LEMMA ConfiguredDeclared ==
  ASSUME OwnVariables, TypeOK, NEW p \in Ours, inventory = Inventory(s)
  PROVE  LET entry == truth[PlacedNode[p]].entries[PlacedService[p]]
             c == Configured(entry, App(s, p))
         IN  /\ Declared(s, p, entry) \/ PlacedProfile[p] \notin ManagedProfile => Declared(s, p, c)
             /\ Render(s) # Blank => Declared(s, p, Filed(c, Render(s)))
<1> DEFINE n == PlacedNode[p]
           v == PlacedService[p]
           entry == truth[n].entries[v]
           c == Configured(entry, App(s, p))
           want == Render(s)
<1>1. p \in Active(s) /\ n \in Node /\ v \in Service /\ n \in inventory.hosts
  BY SiteAssumption DEF SiteAssumption, Ours, Active, Inventory
<1>2. entry \in Entry \cup {Blank}
  BY <1>1 DEF TypeOK, Machines, Entries
<1>3. App(s, p) \in Applied
  <2>1. Installed(inventory)
    BY InventoryTyped DEF TypeOK
  <2>2. App(s, p) \in inventory.vars[n].applied
    BY <1>1 DEF App, Inventory, HostVars, PlacementsOf, Active
  <2> QED
    BY <1>1, <2>1, <2>2 DEF Installed
<1>4. c \in Entry /\ c # Blank
  BY <1>2, <1>3, ConfiguredTyped, SiteOpsAssumption DEF SiteOpsAssumption
<1>5. /\ c.state = IF s.placement[p].run = "stopped" THEN "stopped" ELSE "running"
      /\ c.file = IF entry = Blank THEN Blank ELSE entry.file
      /\ \A b \in Bindings[p] : c.bound[b.name].config = "set"
                                /\ c.bound[b.name].endpoint = BoundTo(s, b)
  BY <1>1, ConfiguredAsDeclared
<1>6. ASSUME want # Blank
      PROVE  LET f == Filed(c, want)
             IN  /\ f # Blank /\ f.state = c.state /\ f.bound = c.bound
                 /\ f.file # Blank /\ f.file.content = want
  <2> DEFINE file == [status |-> "present", path |-> "current", content |-> want]
             f == Filed(c, want)
  <2>1. want \in Content
    BY <1>6, RenderTyped DEF TypeOK
  <2>2. f \in Entry
    BY <1>4, <2>1, FiledTyped
  <2>3. file.content = want
    OBVIOUS
  <2>4. f = [c EXCEPT !.file = file]
    BY DEF Filed
  <2> HIDE DEF f, c, file
  <2>5. f.state = c.state /\ f.bound = c.bound /\ f.file = file
    BY <1>4, <2>4 DEF Entry
  <2>6. f # Blank
    BY <2>2, SiteOpsAssumption DEF SiteOpsAssumption
  <2>7. file # Blank
    <3>1. file \in File
      BY <2>1 DEF File, file
    <3> QED
      BY <3>1, SiteOpsAssumption DEF SiteOpsAssumption
  <2> QED
    BY <2>3, <2>5, <2>6, <2>7 DEF f
<1> HIDE DEF entry, c, want
<1>7. Declared(s, p, entry) \/ PlacedProfile[p] \notin ManagedProfile => Declared(s, p, c)
  BY <1>4, <1>5 DEF Declared, want
<1>8. want # Blank => Declared(s, p, Filed(c, want))
  BY <1>4, <1>5, <1>6 DEF Declared, want
<1> QED
  BY <1>7, <1>8 DEF entry, c, want

\* In the service phase of a clean round an action leaves as declared what was, and makes
\* so what it serves if it can.
LEMMA ActionDeclares ==
  ASSUME OnePerNode, OwnVariables, TypeOK, CleanRound, round.clean, ServiceStep, events' = events,
         NEW a \in NextActions, Done(a),
         LET want == Render(s)
             works == IF a.rec = "dnsmasq_config"
                      THEN want # Blank /\ a.hosts \subseteq GroupMembers(inventory, a.profile)
                      ELSE a.hosts \cap inventory.hosts # {}
             all == IF a.rec = "dnsmasq_config"
                    THEN OnHosts([n \in a.hosts |-> Deployed(n, a.profile, want)])
                    ELSE OnHosts([n \in a.hosts \cap inventory.hosts |-> Play(n, a.target, a.profile)])
         IN  IF works THEN truth' = all ELSE UNCHANGED truth,
         NEW p \in Ours
  PROVE  /\ AsDeclared(p) => AsDeclared(p)'
         /\ Serves(a, p) /\ CanDeploy(a) => AsDeclared(p)'
<1> DEFINE n == PlacedNode[p]
           v == PlacedService[p]
           want == Render(s)
           entry == truth[n].entries[v]
           c == Configured(entry, App(s, p))
           works == IF a.rec = "dnsmasq_config"
                    THEN want # Blank /\ a.hosts \subseteq GroupMembers(inventory, a.profile)
                    ELSE a.hosts \cap inventory.hosts # {}
           now == truth'[n].entries[v]
<1>1. inventory = Inventory(s) /\ a \in round.plan /\ s' = s
  BY DEF CleanRound, ServiceStep, NextActions, TypeOK
<1>2. n \in Included(s)
  BY DEF Ours
<1>3. (AsDeclared(p) <=> Declared(s, p, entry)) /\ (AsDeclared(p)' <=> Declared(s, p, now))
  BY <1>1 DEF AsDeclared, Declared
<1>4. /\ Declared(s, p, entry) \/ PlacedProfile[p] \notin ManagedProfile => Declared(s, p, c)
      /\ want # Blank => Declared(s, p, Filed(c, want))
  BY <1>1, ConfiguredDeclared
<1>5. CASE works /\ a.rec # "dnsmasq_config"
  <2>1. now = IF n \in a.hosts /\ a.target = v /\ a.profile = PlacedProfile[p] THEN c ELSE entry
    BY <1>1, <1>5, PlaybookEntry
  <2>2. Serves(a, p) => n \in a.hosts /\ a.target = v /\ a.profile = PlacedProfile[p]
                        /\ PlacedProfile[p] \notin ManagedProfile
    <3>1. SUFFICES ASSUME Serves(a, p), PlacedProfile[p] \in ManagedProfile
                   PROVE  FALSE
      BY DEF Serves
    <3>2. a.rec = Actuator(PlacedProfile[p])
      BY <1>1, <3>1 DEF Serves, CleanRound, ServiceStep
    <3>3. Reconciliation[PlacedProfile[p]] = "dnsmasq_config"
      BY <3>1, PlannerAssumption DEF PlannerAssumption
    <3> QED
      BY <1>5, <3>2, <3>3 DEF Actuator
  <2> HIDE DEF now, c, entry, n, v
  <2> QED
    BY <1>3, <1>4, <2>1, <2>2
<1>6. CASE works /\ a.rec = "dnsmasq_config"
  <2>1. now = IF n \in a.hosts /\ a.profile = PlacedProfile[p] THEN Filed(c, want) ELSE entry
    BY <1>1, <1>6, DeploymentEntry
  <2>2. Serves(a, p) => n \in a.hosts /\ a.profile = PlacedProfile[p]
    BY DEF Serves
  <2>3. want # Blank
    BY <1>6
  <2> HIDE DEF now, c, entry, n, v, want
  <2> QED
    BY <1>3, <1>4, <2>1, <2>2, <2>3
<1>7. CASE ~works
  <2>1. now = entry
    BY <1>7
  <2>2. ~(Serves(a, p) /\ CanDeploy(a))
    <3>1. SUFFICES ASSUME Serves(a, p), CanDeploy(a)
                   PROVE  works
      BY <1>7
    <3>2. CASE a.rec = "dnsmasq_config"
      <4>1. want # Blank /\ a.hosts \subseteq Included(s)
        BY <3>1, <3>2 DEF CanDeploy
      <4>2. ASSUME NEW h \in a.hosts
            PROVE  h \in GroupMembers(inventory, a.profile)
        <5>1. PICK q \in Managed(s, a.target, a.profile) : PlacedNode[q] = h
          BY <1>1, <3>1 DEF CleanRound, Serves, ServiceStep
        <5>2. q \in Active(s) \cap PlacementsOf(h) /\ PlacedProfile[q] = a.profile
          BY <5>1 DEF Managed, Providers, Active, PlacementsOf
        <5>3. h \in Included(s)
          BY <4>1
        <5>4. App(s, q) \in inventory.vars[h].applied /\ App(s, q).placement = q
          BY <1>1, <5>1, <5>2, <5>3 DEF App, Inventory, HostVars
        <5>5. h \in inventory.hosts
          BY <1>1, <5>3 DEF Inventory
        <5> QED
          BY <5>2, <5>4, <5>5 DEF GroupMembers
      <4> QED
        BY <3>2, <4>1, <4>2
    <3>3. CASE a.rec # "dnsmasq_config"
      <4>1. n \in a.hosts /\ n \in inventory.hosts
        BY <1>1, <1>2, <3>1 DEF Serves, Inventory
      <4> QED
        BY <3>3, <4>1
    <3> QED
      BY <3>2, <3>3
  <2> HIDE DEF now, entry, works
  <2> QED
    BY <1>3, <2>1, <2>2
<1> QED
  BY <1>5, <1>6, <1>7

\* The property speaks of the snapshot, the machines and the round.
LEMMA ActuatedKept ==
  ASSUME ActuatedAsDeclared, UNCHANGED <<s, truth, round>>
  PROVE  ActuatedAsDeclared'
<1>1. \A p : AsDeclared(p)' <=> AsDeclared(p)
  BY DEF AsDeclared
<1>2. \A a : CanDeploy(a)' <=> CanDeploy(a)
  BY DEF CanDeploy
<1>3. Ours' = Ours
  BY DEF Ours
<1> QED
  BY <1>1, <1>2, <1>3 DEF ActuatedAsDeclared

LEMMA ActuatedStep ==
  ASSUME OnePerNode, OwnVariables, TypeOK, CleanRound, ActuatedAsDeclared, [Next]_vars
  PROVE  ActuatedAsDeclared'
<1>1. CASE UNCHANGED vars
  BY <1>1, ActuatedKept DEF vars
<1>2. ASSUME NEW scope \in Scopes, StartRound(scope)
      PROVE  ActuatedAsDeclared'
  <2>1. round'.pc = "bootstrap"
    BY <1>2 DEF StartRound
  <2> QED
    BY <2>1 DEF ActuatedAsDeclared
<1>3. CASE BootstrapStep
  <2>1. round'.pc = "bootstrap"
    BY <1>3, DoneKeeps DEF BootstrapStep
  <2> QED
    BY <2>1 DEF ActuatedAsDeclared
<1>4. CASE Regenerate
  <2>1. CASE round' = NoRound
    BY <2>1 DEF NoRound, ActuatedAsDeclared
  <2>2. CASE round' # NoRound
    <3>1. round.pc = "bootstrap" /\ round'.plan = round.plan /\ round'.todo = round.todo
          /\ (round'.clean => round.clean)
      BY <1>4, <2>2, RegenerateKeeps DEF Regenerate
    <3>2. round.clean => \A a \in round'.plan \ round'.todo : ~Late(a)
      BY <3>1 DEF CleanRound
    <3> QED
      BY <3>1, <3>2 DEF ActuatedAsDeclared, Serves
  <2> QED
    BY <2>1, <2>2
<1>5. CASE ServiceStep
  <2> DEFINE want == Render(s)
             works(a) == IF a.rec = "dnsmasq_config"
                         THEN want # Blank /\ a.hosts \subseteq GroupMembers(inventory, a.profile)
                         ELSE a.hosts \cap inventory.hosts # {}
             all(a) == IF a.rec = "dnsmasq_config"
                       THEN OnHosts([n \in a.hosts |-> Deployed(n, a.profile, want)])
                       ELSE OnHosts([n \in a.hosts \cap inventory.hosts |-> Play(n, a.target, a.profile)])
  <2>1. PICK a \in NextActions :
          /\ \/ works(a) /\ truth' = all(a) /\ UNCHANGED events
             \/ MoreEvents /\ events' = events + 1
             \/ ~works(a) /\ UNCHANGED <<truth, events>>
          /\ Done(a)
    BY <1>5 DEF ServiceStep
  <2>2. /\ round'.pc = round.pc /\ round'.plan = round.plan /\ round'.todo = round.todo \ {a}
        /\ round'.clean = (round.clean /\ events' = events)
    BY <2>1, DoneKeeps
  <2>3. s' = s /\ inventory' = inventory /\ round.pc = "service"
    BY <1>5 DEF ServiceStep
  <2>4. SUFFICES ASSUME round.clean, events' = events, NEW b \in round.plan \ (round.todo \ {a}),
                        NEW p \in Ours, Serves(b, p), CanDeploy(b)
                 PROVE  AsDeclared(p)'
    BY <2>2, <2>3 DEF ActuatedAsDeclared, Ours, CanDeploy
  <2>5. events \in Nat
    BY SiteOpsAssumption DEF SiteOpsAssumption, TypeOK
  <2>6. IF works(a) THEN truth' = all(a) ELSE UNCHANGED truth
    BY <2>1, <2>4, <2>5
  <2>7. /\ AsDeclared(p) => AsDeclared(p)'
        /\ Serves(a, p) /\ CanDeploy(a) => AsDeclared(p)'
    BY <1>5, <2>1, <2>4, <2>6, ActionDeclares
  <2>8. CASE b = a
    BY <2>4, <2>7, <2>8
  <2>9. CASE b # a
    BY <2>3, <2>4, <2>7, <2>9 DEF ActuatedAsDeclared
  <2> QED
    BY <2>8, <2>9
<1>6. CASE EndRound
  BY <1>6 DEF EndRound, NoRound, ActuatedAsDeclared
<1>7. CASE StartApply
  BY <1>7, ActuatedKept DEF StartApply
<1>8. CASE Disturb
  BY <1>8, DisturbForgets DEF ActuatedAsDeclared
<1> QED
  BY <1>1, <1>2, <1>3, <1>4, <1>5, <1>6, <1>7, <1>8, Disturbing

\* In every state of every site with one placement of a service per node, and where no two
\* bindings of a node fight over a variable, whatever a clean round has acted on, and could,
\* runs as declared: the actions that follow, the order they come in and what they share of
\* a host undo none of it.
THEOREM RoundsActuateAsDeclared == ASSUME OnePerNode, OwnVariables PROVE Spec => []ActuatedAsDeclared
<1>1. Init => CleanRound /\ ActuatedAsDeclared
  BY DEF Init, NoRound, CleanRound, ActuatedAsDeclared
<1>2. TypeOK /\ CleanRound /\ ActuatedAsDeclared /\ [Next]_vars => CleanRound' /\ ActuatedAsDeclared'
  BY CleanStep, ActuatedStep
<1> QED
  BY <1>1, <1>2, SiteTyped, PTL DEF Spec
=============================================================================
