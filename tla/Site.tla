-------------------------------- MODULE Site --------------------------------
(***************************************************************************)
(* The site nctl reads: desired intent and actual ledger as one snapshot,   *)
(* which the drift comparators, the production composer, the dnsmasq render *)
(* and the planner all evaluate (sources/snapshot.py).                      *)
(*                                                                         *)
(* What rarely changes is a CONSTANT (which node an endpoint belongs to,    *)
(* which service a placement deploys); what operators, observation and time *)
(* change is the snapshot s, a record of                                    *)
(*   node[n]      [lifecycle, device (or NoDevice), path, local, tail,      *)
(*                power]: the desired node and its operational override     *)
(*   endpoint[e]  [addr, policy, mac, link, dns, mdns, dnsmasq]             *)
(*   placement[p] [state, mode, run, config]                                *)
(*   service[v]   [lifecycle]                                               *)
(*   workspace[w] [presence]; agent[a] [lifecycle, account, channels]       *)
(*   device[d]    the ingested device, or Blank: [name, spec, age, lag,     *)
(*                system, ip, macs, svcAge, entries, spaces]; lag says a     *)
(*                cached report is newer than what was ingested             *)
(*   ip[i]        the address of ledger row i, or Blank                     *)
(*   seen[a]      the observed registration of agent a, or Blank            *)
(*   guests       nodes whose linked guest runs and no report was cached    *)
(* Ages are classes: "none" (never or unparsable), "fresh" within           *)
(* service_observation_max_age_hours, "aging" within ACTUAL_MAX_AGE_HOURS,  *)
(* "stale" beyond.                                                          *)
(***************************************************************************)
EXTENDS Naturals, FiniteSets

CONSTANTS
  Node, Endpoint, Placement, Service, Device, IpRow, IpRange, Workspace, Agent,
  EndpointNode, EndpointType,          \* owner and type of an endpoint
  EndpointUrl,                         \* endpoints with a protocol and a port
  NodeType, Accepted, ExpectedSpec,    \* per node: type, accepted types, spec
  SpaceNode, SpaceUrl,                 \* per workspace: its node and its origin
  AgentSpace,                          \* agent -> its workspace, or Blank
  PlacedService, PlacedNode, PlacedEndpoint, PlacedProfile,
  Bindings,                            \* placement -> {[name, provider]}
  BindingVariables,                    \* declared [profile, name] -> host variable
  RangeOf,                             \* range -> [first, last, policy]
  ObjectType,                          \* actual object -> its type
  NoDevice, Blank

SiteAssumption ==
  /\ EndpointNode \in [Endpoint -> Node] /\ EndpointUrl \subseteq Endpoint
  /\ PlacedService \in [Placement -> Service] /\ PlacedNode \in [Placement -> Node]
  /\ SpaceNode \in [Workspace -> Node] /\ AgentSpace \in [Agent -> Workspace \cup {Blank}]
  /\ PlacedEndpoint \in [Placement -> Endpoint \cup {Blank}]
  /\ NoDevice \notin Device /\ Blank \notin Endpoint

ASSUME SiteAssumption

Lifecycles == {"planned", "approved", "active", "deprecated", "retired"}
Ages == {"none", "fresh", "aging", "stale"}
SpecKeys == {"serial", "uuid", "platform"}

EndpointsOf(n) == {e \in Endpoint : EndpointNode[e] = n}
PlacementsOf(n) == {p \in Placement : PlacedNode[p] = n}
Active(s) == {p \in Placement : s.placement[p].state = "active"}

\* The device a node's link resolves to; a dangling link resolves to none.
Realized(s, n) == LET d == s.node[n].device
                  IN  IF d \in Device /\ s.device[d] # Blank THEN d ELSE NoDevice
OsOf(system) == CASE system = "Linux" -> "linux" [] system = "Darwin" -> "macos"
                  [] OTHER -> "none"

\* The guest runs, and waits for the manual access that comes before observation.
Awaiting(s) == {n \in s.guests : s.node[n].device = NoDevice}

\* What an evaluator reports.
Gap(code, severity) == [code |-> code, severity |-> severity]
Codes(gaps) == {g.code : g \in gaps}
=============================================================================
