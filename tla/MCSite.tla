------------------------------- MODULE MCSite -------------------------------
(***************************************************************************)
(* A site for TLC.  n1 serves DNS and is linked; n2 consumes it, exports    *)
(* metrics of what does, takes its address from a reservation and was never *)
(* observed.                                                                *)
(***************************************************************************)
EXTENDS SiteInvariant

MCEndpointNode == [e1 |-> "n1", e2 |-> "n2"]
MCEndpointType == [e \in Endpoint |-> "primary"]
MCNodeType == [n \in Node |-> "device"]
MCAccepted == [n \in Node |-> {"device"}]
MCExpectedSpec == [n \in Node |-> [serial |-> IF n = "n1" THEN "one" ELSE "two",
                                   uuid |-> "", platform |-> ""]]
MCSpaceNode == [w |-> "n2"]
MCSpaceUrl == [w |-> "origin"]
MCAgentSpace == [a |-> "w"]
MCPlacedService == [dns1 |-> "dns", web2 |-> "web", exp2 |-> "exp"]
MCPlacedNode == [dns1 |-> "n1", web2 |-> "n2", exp2 |-> "n2"]
MCPlacedEndpoint == [dns1 |-> "e1", web2 |-> "e2", exp2 |-> Blank]
MCPlacedProfile == [dns1 |-> "dnsmasq", web2 |-> "app", exp2 |-> "exporter"]
MCBindings == [dns1 |-> {}, web2 |-> {[name |-> "resolver", provider |-> "dns"]}, exp2 |-> {[name |-> "target", provider |-> "web"]}]
MCBindingVariables ==
  [b \in {[profile |-> "app", name |-> "resolver"], [profile |-> "exporter", name |-> "target"]} |->
     IF b.name = "resolver" THEN "resolver_url" ELSE "target_url"]
MCRangeOf ==
  [fixed   |-> [first |-> 10, last |-> 19, policy |-> "static_pool", exported |-> FALSE],
   leased  |-> [first |-> 20, last |-> 29, policy |-> "dhcp_reservable_pool", exported |-> FALSE],
   dynamic |-> [first |-> 30, last |-> 39, policy |-> "dhcp_dynamic_pool", exported |-> TRUE]]
MCObjectType == [d \in Device |-> "device"]
MCReconciliation == [dnsmasq |-> "dnsmasq_config", app |-> "playbook", exporter |-> "playbook"]
MCProfileDeps == [dnsmasq |-> {}, app |-> {"exporter"}, exporter |-> {}]
MCDeviceOf == [n1 |-> "d1", n2 |-> "d2"]

MCRealm == [a |-> [present |-> TRUE, active |-> TRUE, channels |-> {"ops", "dev", "all"}]]

MCScopes == {Blank, "n2"}
Empty == [v \in Service |-> Blank]
Checkout == [age |-> "fresh", present |-> TRUE, git |-> TRUE, url |-> "origin", alive |-> TRUE]
MCMachine ==
  [n1 |-> [spec |-> [serial |-> "one", uuid |-> "", platform |-> ""], system |-> "Linux", ip |-> 10,
           macs |-> {"m1", "m3"}, entries |-> Empty, spaces |-> [w |-> Blank]],
   n2 |-> [spec |-> [serial |-> "two", uuid |-> "", platform |-> ""], system |-> "Linux", ip |-> 20,
           macs |-> {"m2"}, entries |-> Empty, spaces |-> [w |-> Checkout]]]

MCBase ==
  [node |-> [n \in Node |-> [lifecycle |-> "active", device |-> IF n = "n1" THEN "d1" ELSE NoDevice,
               path |-> "local", local |-> Blank, tail |-> Blank, power |-> "none"]],
   endpoint |->
     [e1 |-> [addr |-> 10, policy |-> "static", mac |-> Blank, link |-> "i1", dns |-> TRUE,
              mdns |-> TRUE, dnsmasq |-> TRUE],
      e2 |-> [addr |-> 20, policy |-> "dhcp_reserved", mac |-> Blank, link |-> Blank, dns |-> TRUE,
              mdns |-> TRUE, dnsmasq |-> TRUE]],
   placement |-> [p \in Placement |-> [state |-> "active", mode |-> "nctl_managed",
                                       run |-> "started", config |-> TRUE]],
   service |-> [v \in Service |-> [lifecycle |-> "active"]],
   workspace |-> [w |-> [presence |-> "present"]],
   agent |-> [a |-> [lifecycle |-> "active", account |-> TRUE, channels |-> {"ops"}]],
   device |-> [d1 |-> Ingested("n1", MCMachine["n1"], FALSE), d2 |-> Blank],
   ip |-> [i1 |-> 10, i2 |-> Blank],
   seen |-> [a |-> [present |-> TRUE, active |-> TRUE, channels |-> {"ops"}]],
   guests |-> {}]

\* n2 was linked and ingested by hand, from a report without MAC addresses.
MCBases == {MCBase, [MCBase EXCEPT !.node["n2"].device = "d2",
                       !.device["d2"] = [Ingested("n2", MCMachine["n2"], FALSE) EXCEPT !.macs = {Blank}]]}

Change(what, key, field, value) == [what |-> what, key |-> key, field |-> field, value |-> value]
MCEdits ==
  {Change("node", "n1", "lifecycle", "deprecated"), Change("node", "n2", "path", "tailscale"),
   Change("node", "n2", "lifecycle", "retired"),
   Change("endpoint", "e1", "policy", "dhcp_reserved"), Change("endpoint", "e1", "addr", 11), Change("endpoint", "e2", "mac", "m1"),
   Change("placement", "web2", "run", "stopped"), Change("placement", "dns1", "state", "inactive"),
   Change("placement", "exp2", "mode", "manual"), Change("placement", "exp2", "config", FALSE),
   Change("service", "dns", "lifecycle", "deprecated"),
   Change("workspace", "w", "presence", "absent"),
   Change("agent", "a", "channels", {"ops", "dev"})}

\* The theorems about rounds apply to the site.
ASSUME SitePlaced == OneProfile /\ OnePerNode /\ OwnVariables
=============================================================================
