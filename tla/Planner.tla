------------------------------ MODULE Planner -------------------------------
(***************************************************************************)
(* The plan nctl reconcile derives from a snapshot and its drift            *)
(* (classify.py, planner.py, reconcilers.py, registry.py, fingerprint.py,   *)
(* profiles.py).  Compute codes and actions are in ComputeDrift and Guests. *)
(*                                                                         *)
(* An action is [rec, target, profile, hosts, eps, codes]: its reconciler,  *)
(* the target its id names, the hosts it contacts, the endpoints or the     *)
(* device it pins, and the codes it claims.                                 *)
(***************************************************************************)
EXTENDS Drift

CONSTANTS
  Reconciliation,   \* profile -> none | observe_only | dnsmasq_config | playbook
  ProfileDeps       \* profile -> profiles whose actions come first

ProfilesAcyclic ==     \* load_profile_reconciliation rejects the rest
  ~\E ps \in (SUBSET Profile) \ {{}} : \A p \in ps : ProfileDeps[p] \cap ps # {}

\* load_profile_reconciliation takes managed files of dnsmasq_config profiles only.
PlannerAssumption == /\ ManagedProfile \subseteq {p \in Profile : Reconciliation[p] = "dnsmasq_config"}
                     /\ Reconciliation \in [Profile -> {"none", "observe_only", "dnsmasq_config", "playbook"}]
                     /\ ProfileDeps \in [Profile -> SUBSET Profile]
                     /\ ProfilesAcyclic

ASSUME PlannerAssumption

----------------------------------------------------------------------------
(* The classification table.                                                *)
ObservationCodes == {"ingest_lag", "missing_actual_data", "stale_actual_data",
  "invalid_actual_timestamp", "missing_actual_node", "no_realized_device",
  "missing_observed_system", "missing_mac_address", "missing_network_interface",
  "service_observation_missing", "service_observation_stale",
  "service_config_observation_missing", "service_config_observation_mismatch",
  "service_observed_facts_unknown", "binding_unknown"}
LinkCodes == {"actual_node_not_linked"}
IpamCodes == {"missing_actual_ip_address", "actual_ip_address_not_linked"}
ServiceCodes == {"service_missing", "service_not_running", "service_should_be_stopped",
  "service_config_missing", "service_config_unreadable", "service_config_mismatch",
  "binding_unbound", "binding_misbound"}
ManualCodes == {"multiple_realized_links", "realized_actual_type_not_accepted",
  "ambiguous_actual_node_candidates", "realized_device_missing", "no_realized_object",
  "unsupported_actual_type", "serial_mismatch", "uuid_mismatch", "platform_mismatch",
  "hostname_mismatch", "ip_address_mismatch", "ambiguous_ip_address_candidates",
  "missing_interface_candidate", "ambiguous_interface", "invalid_ip_policy_range",
  "missing_ip_policy_range", "ambiguous_ip_policy_range",
  "dhcp_reserved_endpoint_in_dynamic_pool", "ip_policy_range_mismatch",
  "static_endpoint_in_dhcp_pool", "desired_mac_mismatch",
  "ipam_reconcile_observation_missing", "ipam_reconcile_observation_mismatch",
  "ipam_reconcile_observation_ambiguous", "service_lifecycle_inactive",
  "missing_service_lifecycle", "service_has_no_active_placement",
  "service_observed_on_wrong_node", "binding_unreachable", "binding_provider_not_converged"}
  \cup BindingCodes
Automatic == LinkCodes \cup IpamCodes \cup ServiceCodes

\* A code no table names has no class; what blocks production defaults to manual.
ClassOf(diff) ==
  IF diff.kind = "global" THEN "manual"
  ELSE IF diff.code \in ObservationCodes THEN "observation"
  ELSE IF diff.code \in Automatic THEN "automatic"
  ELSE IF diff.code \in ManualCodes \cup BlockingCodes THEN "manual" ELSE "unclassified"

----------------------------------------------------------------------------
(* Scope.  A scope is Blank (the cluster) or a node.                        *)
PlacedHere(s, v, n) == \E p \in Providers(s, v) : PlacedNode[p] = n

InScope(s, scope, d) ==
  \/ scope = Blank \/ d.kind = "global"
  \/ d.kind = "node" /\ d.target = scope
  \/ /\ d.kind = "service" /\ PlacedHere(s, d.target, scope)
     /\ d.at \in Placement => PlacedNode[d.at] = scope
Scoped(s, diffs, scope) == {d \in diffs : InScope(s, scope, d)}

\* Mutant: what is wrong with a target does not tell two rounds apart.
FingerprintOfTargets(diffs) == {[kind |-> d.kind, target |-> d.target] : d \in ErrorsOf(diffs)}

\* The identity of what is left to do, by which a round without progress is known.
Fingerprint(diffs) == {[kind |-> d.kind, target |-> d.target, code |-> d.code] : d \in ErrorsOf(diffs)}

\* An error nobody classified refuses the whole plan.
Reviewed(diffs) == {d \in diffs : ClassOf(d) # "unclassified"}
Refused(diffs) == ErrorsOf(diffs) \ Reviewed(diffs) # {}

----------------------------------------------------------------------------
(* Actions.                                                                 *)
Act(rec, target, profile, hosts, eps, codes) ==
  [rec |-> rec, target |-> target, profile |-> profile, hosts |-> hosts, eps |-> eps, codes |-> codes]

Blocked(diffs) == {d.target : d \in {x \in diffs : x.kind = "node" /\ x.code \in BlockingCodes}}

LinkTargets(diffs) == {n \in Node : \E d \in diffs : d.target = n /\ d.code \in LinkCodes}
LinkActions(s, diffs) ==
  {Act("link_actual_node", n, Blank, {}, Best(s, n), LinkCodes) :
     n \in {m \in LinkTargets(diffs) : Best(s, m) # {} /\ \A d \in Best(s, m) : ObjectType[d] = "device"}}

\* Evidence is gathered on nodes; a retired one is never asked.  A device that is its
\* own target keeps the action but has no host to contact.
Seekers(diffs) == {d \in Reviewed(diffs) : ClassOf(d) = "observation"}
ObserveNode(d) == IF d.kind = "service" THEN PlacedNode[d.at] ELSE d.target
\* Mutant: only nodes linked to a device are observed.
ObserveLinked(s, diffs) ==
  LET asked == {ObserveNode(d) : d \in Seekers(diffs)}
               \ {n \in Node : s.node[n].lifecycle = "retired" \/ Realized(s, n) = NoDevice}
  IN  IF asked = {} THEN {}
      ELSE {Act("observe_node", Blank, Blank, asked \cap Node, {}, Codes(Seekers(diffs)))}

ObserveActions(s, diffs) ==
  LET asked == {ObserveNode(d) : d \in Seekers(diffs)}
               \ {n \in Node : s.node[n].lifecycle = "retired"}
  IN  IF asked = {} THEN {}
      ELSE {Act("observe_node", Blank, Blank, asked \cap Node, {}, Codes(Seekers(diffs)))}

AddressDiffs(diffs, n) == {d \in diffs : d.kind = "node" /\ d.target = n /\ d.code \in IpamCodes}
IpamActions(diffs) ==
  {Act("reconcile_ipam", n, Blank, {}, {d.at : d \in AddressDiffs(diffs, n)},
       Codes(AddressDiffs(diffs, n))) : n \in {m \in Node : AddressDiffs(diffs, m) # {}}}

\* Mutant: the placements operated by hand are taken for the managed ones.
ManagedManual(s, v, profile) == {p \in Providers(s, v) : PlacedProfile[p] = profile
                                                        /\ s.placement[p].mode = "manual"}

\* One action per service and profile, over the managed hosts of that profile which
\* are in scope and not blocked.
Managed(s, v, profile) == {p \in Providers(s, v) : PlacedProfile[p] = profile
                                                  /\ s.placement[p].mode = "nctl_managed"}
ServiceGroup(diffs, v, profile) ==
  {d \in diffs : /\ d.kind = "service" /\ d.target = v /\ d.code \in ServiceCodes
                 /\ d.at \in Placement => PlacedProfile[d.at] = profile}
\* Mutant: whatever is wrong with a host keeps it from its playbooks.
ServiceHostsSpotless(s, diffs, scope, v, profile) ==
  {n \in {PlacedNode[p] : p \in Managed(s, v, profile)} : scope \in {Blank, n}}
    \ {d.target : d \in {x \in ErrorsOf(diffs) : x.kind = "node"}}

ServiceHosts(s, diffs, scope, v, profile) ==
  {n \in {PlacedNode[p] : p \in Managed(s, v, profile)} : scope \in {Blank, n}} \ Blocked(diffs)

Grouped(s, diffs, scope) == {vp \in Service \X {PlacedProfile[p] : p \in Placement} :
                               /\ ServiceGroup(diffs, vp[1], vp[2]) # {}
                               /\ ServiceHosts(s, diffs, scope, vp[1], vp[2]) # {}}
Actuated(profile) == profile \in Profile /\ Reconciliation[profile] \in {"dnsmasq_config", "playbook"}
Actuator(profile) ==
  IF Reconciliation[profile] = "dnsmasq_config" THEN "dnsmasq_config" ELSE "service_profile"
ServiceActions(s, diffs, scope) ==
  {Act(Actuator(vp[2]), vp[1], vp[2], ServiceHosts(s, diffs, scope, vp[1], vp[2]), {},
       Codes(ServiceGroup(diffs, vp[1], vp[2]))) :
     vp \in {x \in Grouped(s, diffs, scope) : Actuated(x[2])}}

\* The plan of the scoped diffs.
Plan(s, diffs, scope) ==
  LinkActions(s, diffs) \cup ObserveActions(s, diffs) \cup IpamActions(diffs)
    \cup ServiceActions(s, diffs, scope)

\* What a human must see: findings no action of the plan addresses.
Findings(s, diffs, scope) ==
  LET declined == {vp \in Grouped(s, diffs, scope) : ~Actuated(vp[2])}
      unlinkable == LinkTargets(diffs) \ {a.target : a \in LinkActions(s, diffs)}
  IN  {d \in Reviewed(diffs) : ClassOf(d) = "manual"}
        \cup (UNION {ServiceGroup(diffs, vp[1], vp[2]) : vp \in declined})
        \cup {d \in diffs : d.target \in unlinkable /\ d.code \in LinkCodes}

\* The actions that come before a: the link of the same node before its addresses, and
\* the actions of the profiles a's profile needs on a shared host.
Deps(a, plan) ==
  {b \in plan : \/ a.rec = "reconcile_ipam" /\ b.rec = "link_actual_node" /\ a.target = b.target
                \/ /\ a.profile # Blank /\ b.profile \in ProfileDeps[a.profile]
                   /\ a.hosts \cap b.hosts # {}}
=============================================================================
