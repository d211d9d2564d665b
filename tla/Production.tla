----------------------------- MODULE Production ------------------------------
(***************************************************************************)
(* Composition of the production inventory from a snapshot: operational     *)
(* values (derivation.py, routes.py), service dependencies                  *)
(* (service_dependencies.py) and the per-node outcome, hosts and groups     *)
(* (composer.py, adapter.py, contract.py).                                  *)
(*                                                                         *)
(* A failure is a code; "" is none.                                         *)
(***************************************************************************)
EXTENDS Site

CONSTANTS Profile,        \* profiles deployment_profiles.yml declares
          Garbled,        \* ingested text that is no address
          Conflicting,    \* pairs of profiles that map one variable differently
          HostVariable    \* variables of bindings the inventory contract allows

\* A code, or the next one if it is "".
OrElse(code, next) == IF code # "" THEN code ELSE next

Any(codes) == IF codes \subseteq {""} THEN "" ELSE CHOOSE c \in codes : c # ""

NodeLocalCodes == {"unsupported_observed_host_os", "invalid_platform_power",
  "endpoint_node_mismatch", "unresolved_connection_path", "invalid_connection_address"}
DerivationCodes == {"ambiguous_connection_endpoints", "missing_connection_endpoint"}
PlacementLocalCodes == {"unknown_profile", "invalid_placement_config"}
BindingCodes == {"binding_name_undeclared", "binding_self_reference",
  "binding_provider_missing", "binding_provider_ambiguous", "binding_cycle",
  "binding_endpoint_missing", "binding_endpoint_invalid", "binding_endpoint_unusable"}
MergeCodes == {"conflicting_host_variable"}
LocalCodes == NodeLocalCodes \cup PlacementLocalCodes \cup MergeCodes \cup BindingCodes

\* Mutant: the table forgets the codes local to a node.
BlockingCodesPartial == DerivationCodes \cup
  {"active_placement_not_applied", "invalid_actual_timestamp", "missing_actual_data",
   "missing_mac_address", "missing_observed_system", "no_realized_device",
   "stale_actual_data", "unsupported_actual_type"}

\* Every node finding that makes production actuation of the node unsafe.
BlockingCodes == LocalCodes \cup DerivationCodes \cup
  {"active_placement_not_applied", "invalid_actual_timestamp", "missing_actual_data",
   "missing_mac_address", "missing_observed_system", "no_realized_device",
   "stale_actual_data", "unsupported_actual_type"}

----------------------------------------------------------------------------
(* Operational values.                                                      *)
Addressed(s, e) == s.endpoint[e].addr # Blank
Reachable(s, e) == Addressed(s, e) \/ s.endpoint[e].dns \/ s.endpoint[e].mdns
UsableLocal(s, e) == EndpointType[e] # "vpn" /\ Reachable(s, e)
UsableVpn(s, e) == EndpointType[e] = "vpn" /\ Addressed(s, e)

\* A linked node whose device is gone has empty facts.
FactsProblem(s, n) ==
  LET d == Realized(s, n)
  IN  IF s.node[n].device = NoDevice THEN "no_realized_device"
      ELSE IF d = NoDevice \/ s.device[d].age = "none" THEN "missing_actual_data"
      ELSE IF s.device[d].age = "stale" THEN "stale_actual_data"
      ELSE IF s.device[d].system = Blank THEN "missing_observed_system"
      ELSE IF OsOf(s.device[d].system) = "none" THEN "unsupported_observed_host_os" ELSE ""

LocalCandidates(s, n) == {e \in EndpointsOf(n) : UsableLocal(s, e)}
Primaries(s, n) == {e \in LocalCandidates(s, n) : EndpointType[e] = "primary"}

\* The endpoint production connects to, or the code that says why there is none.
ForcedProblem(s, n, e, usable) ==
  IF e \notin EndpointsOf(n) THEN "unresolved_connection_path"
  ELSE IF ~usable THEN "invalid_connection_address" ELSE ""

EndpointProblem(s, n) ==
  LET o == s.node[n]
  IN  CASE o.path = "tailscale" ->
             ForcedProblem(s, n, o.tail, o.tail \in Endpoint /\ UsableVpn(s, o.tail))
        [] o.path # "tailscale" /\ o.local # Blank ->
             ForcedProblem(s, n, o.local, o.local \in Endpoint /\ UsableLocal(s, o.local))
        [] OTHER ->
             IF LocalCandidates(s, n) = {} THEN "missing_connection_endpoint"
             ELSE IF Cardinality(LocalCandidates(s, n)) # 1 /\ Cardinality(Primaries(s, n)) # 1
             THEN "ambiguous_connection_endpoints" ELSE ""

PowerOf == [linux |-> {"none", "wol"}, macos |-> {"none", "macos_sleep"}]
PowerProblem(s, n) ==
  IF s.node[n].power \in PowerOf[OsOf(s.device[Realized(s, n)].system)] THEN ""
  ELSE "invalid_platform_power"

OperationalProblem(s, n) ==
  IF FactsProblem(s, n) # "" THEN FactsProblem(s, n)
  ELSE OrElse(EndpointProblem(s, n), PowerProblem(s, n))

SelectedEndpoint(s, n) ==
  LET o == s.node[n]
      c == LocalCandidates(s, n)
  IN  IF o.path = "tailscale" THEN o.tail
      ELSE IF o.local # Blank THEN o.local
      ELSE CHOOSE e \in (IF Cardinality(c) = 1 THEN c ELSE Primaries(s, n)) : TRUE

\* The address connections use.  Ingested text that is no address has no code of its
\* own node: resolve_connection_variables raises invalid_ip_address for it.
RouteProblem(s, n) ==
  IF s.device[Realized(s, n)].ip = Garbled THEN "invalid_ip_address" ELSE ""
Route(s, n) ==
  LET e == SelectedEndpoint(s, n)
      ip == s.device[Realized(s, n)].ip
  IN  IF s.node[n].path # "tailscale" /\ ip # Blank THEN ip
      ELSE IF Addressed(s, e) THEN s.endpoint[e].addr ELSE Blank

----------------------------------------------------------------------------
(* Service dependencies.                                                    *)
Providers(s, v) == {p \in Active(s) : PlacedService[p] = v}

\* Services the bindings of v's active placements reach in at most k steps.
Reach(s, v) ==
  LET next(w) == {w} \cup {b.provider : b \in UNION {Bindings[p] : p \in Providers(s, w)}}
      r[k \in 0..Cardinality(Service)] == IF k = 0 THEN {v} ELSE UNION {next(w) : w \in r[k - 1]}
  IN  r[Cardinality(Service)]

BindingProblem(s, p, b) ==
  LET ps == Providers(s, b.provider)
      q  == CHOOSE x \in ps : TRUE
      e  == PlacedEndpoint[q]
  IN  IF [profile |-> PlacedProfile[p], name |-> b.name] \notin DOMAIN BindingVariables
      THEN "binding_name_undeclared"
      ELSE IF b.provider = PlacedService[p] THEN "binding_self_reference"
      ELSE IF ps = {} THEN "binding_provider_missing"
      ELSE IF Cardinality(ps) # 1 THEN "binding_provider_ambiguous"
      ELSE IF PlacedService[p] \in Reach(s, b.provider) THEN "binding_cycle"
      ELSE IF e = Blank THEN "binding_endpoint_missing"
      ELSE IF EndpointNode[e] # PlacedNode[q] THEN "binding_endpoint_invalid"
      ELSE IF e \notin EndpointUrl \/ ~Reachable(s, e)
      THEN "binding_endpoint_unusable" ELSE ""

NodeBindings(s, n) == UNION {{p} \X Bindings[p] : p \in Active(s) \cap PlacementsOf(n)}

\* resolve_all_bindings: every binding of an active placement on its own.
ResolvedBindings(s, p) == {b \in Bindings[p] : BindingProblem(s, p, b) = ""}
ProviderOf(s, b) == CHOOSE q \in Providers(s, b.provider) : TRUE
\* The endpoint a resolved binding points its consumer at.
BoundTo(s, b) == PlacedEndpoint[ProviderOf(s, b)]

\* Bindings set variables of the host, not of the placement: where two set the same one,
\* one of them silently wins.
VariableOf(p, b) == BindingVariables[[profile |-> PlacedProfile[p], name |-> b.name]]
\* Mutant: what a host depends on is merged whatever variable it is for.
ExportedAny(s, n, variable) == BoundTo(s, (CHOOSE r \in NodeBindings(s, n) : TRUE)[2])
Exported(s, n, variable) ==
  LET setters == {r \in NodeBindings(s, n) : VariableOf(r[1], r[2]) = variable}
  IN  BoundTo(s, (CHOOSE r \in setters : TRUE)[2])

DependencyProblem(s, n) == Any({BindingProblem(s, r[1], r[2]) : r \in NodeBindings(s, n)})

----------------------------------------------------------------------------
(* Placements and the composed host.                                        *)
PlacementProblem(s, p) ==
  IF PlacedProfile[p] \notin Profile THEN "unknown_profile"
  ELSE IF ~s.placement[p].config THEN "invalid_placement_config" ELSE ""

MergeProblem(s, n) ==
  IF \E p, q \in Active(s) \cap PlacementsOf(n) :
       p # q /\ <<PlacedProfile[p], PlacedProfile[q]>> \in Conflicting
  THEN "conflicting_host_variable" ELSE ""

HostProblem(s, n) ==
  OrElse(RouteProblem(s, n),
         OrElse(DependencyProblem(s, n),
                OrElse(Any({PlacementProblem(s, p) : p \in Active(s) \cap PlacementsOf(n)}),
                       MergeProblem(s, n))))

ProductionType == {"device", "virtual_machine", "service_host"}
ProductionLifecycle == {"approved", "active"}
Eligible(s, n) == s.node[n].lifecycle \in ProductionLifecycle /\ NodeType[n] \in ProductionType

\* The outcome of a node: its state and the reason it is skipped.
Outcome(s, n) ==
  LET skip(c) == [state |-> "skipped", reason |-> c]
      op == OperationalProblem(s, n)
      host == HostProblem(s, n)
  IN  IF ~Eligible(s, n) THEN [state |-> "out_of_scope", reason |-> ""]
      ELSE IF n \in Awaiting(s) THEN skip("waiting_for_manual_initial_access")
      ELSE IF op # "" THEN skip(op)
      ELSE IF s.node[n].power = "wol" /\ s.device[Realized(s, n)].macs \ {Blank} = {}
      THEN skip("missing_mac_address")
      ELSE IF host # "" THEN skip(host)
      ELSE [state |-> "included", reason |-> ""]

Included(s) == {n \in Node : Outcome(s, n).state = "included"}

\* The composer emits nothing its own contract refuses, and the contract refuses a
\* variable that is neither a base variable nor one a profile maps.
UnknownVariables(s) ==
  {VariableOf(r[1], r[2]) : r \in UNION {NodeBindings(s, n) : n \in Included(s)}} \ HostVariable

\* A code that is not local to a node aborts the whole composition.
GlobalProblems(s) ==
  LET raised == {Outcome(s, n).reason : n \in Node} \cap {"invalid_ip_address"}
  IN  IF raised = {} /\ UnknownVariables(s) # {} THEN {"unknown_host_variable"} ELSE raised
Composes(s) == GlobalProblems(s) = {}

\* What an included host gets: its OS group, its connection and the placements
\* applied to it.
HostVars(s, n) ==
  [os |-> OsOf(s.device[Realized(s, n)].system), route |-> Route(s, n),
   applied |-> {[placement |-> p, run |-> s.placement[p].run,
                 bound |-> {<<b.name, Exported(s, n, VariableOf(p, b))>> : b \in Bindings[p]}] :
                  p \in Active(s) \cap PlacementsOf(n)}]
Inventory(s) == [hosts |-> Included(s), vars |-> [n \in Included(s) |-> HostVars(s, n)]]
GroupMembers(inventory, profile) ==
  {n \in inventory.hosts : \E a \in inventory.vars[n].applied : PlacedProfile[a.placement] = profile}

\* Active intent on a node whose lifecycle is out of production scope.
NotApplied(s, n) == {p \in Active(s) \cap PlacementsOf(n) :
                       /\ NodeType[n] \in ProductionType
                       /\ s.node[n].lifecycle \notin ProductionLifecycle}
=============================================================================
