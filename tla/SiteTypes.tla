------------------------------ MODULE SiteTypes ------------------------------
(***************************************************************************)
(* The sets the values of a site are taken from: what Nautobot holds, what  *)
(* the machines are, what is installed on the control node and what an      *)
(* operator may edit.  Text nothing is decided on is a STRING.              *)
(***************************************************************************)
EXTENDS Planner

CONSTANTS Addr, Mac      \* addresses and MAC addresses

Text == {Blank} \cup STRING
Flag == {Blank} \cup BOOLEAN

\* Declared intent.
Nodes == [lifecycle : Lifecycles, device : Device \cup {NoDevice}, path : {"local", "tailscale"},
          local : Endpoint \cup {Blank}, tail : Endpoint \cup {Blank},
          power : {"none", "wol", "macos_sleep"}]
Endpoints == [addr : Addr \cup {Blank}, policy : STRING, mac : Mac \cup {Blank},
              link : IpRow \cup {Blank}, dns : BOOLEAN, mdns : BOOLEAN, dnsmasq : BOOLEAN]
Placements == [state : STRING, mode : STRING, run : STRING, config : BOOLEAN]
Agents == [lifecycle : STRING, account : BOOLEAN, channels : SUBSET STRING]

\* The dnsmasq file.
Line == [kind : {"host", "dhcp"}, endpoint : Endpoint, addr : Addr, mac : Mac \cup {Blank}]
        \cup [kind : {"range"}, first : {RangeOf[r].first : r \in IpRange},
              last : {RangeOf[r].last : r \in IpRange}]
Content == [lines : SUBSET Line]
File == [status : {"present", "missing"}, path : {"current"}, content : Content \cup {Blank}]

\* A service on a machine, and what is set of its bindings.
BindingName == {b.name : b \in UNION {Bindings[p] : p \in Placement}}
Target == Endpoint \cup {Blank}
Bound == [config : {"set"}, endpoint : Target, reach : BOOLEAN, age : Ages]
Bounds == UNION {[names -> Bound] : names \in SUBSET BindingName}
Entry == [state : {"running", "stopped"}, proof : BOOLEAN, file : File \cup {Blank}, bound : Bounds]
Entries == [Service -> Entry \cup {Blank}]

\* A workspace on a machine, the machine, and what Nautobot ingested of it.
Space == [age : Ages, present : Flag, git : BOOLEAN, url : Text, alive : Flag]
Spaces == [Workspace -> Space \cup {Blank}]
Specs == [serial : STRING, uuid : STRING, platform : STRING]
Reported == Addr \cup {Blank, Garbled}
Machines == [spec : Specs, system : Text, ip : Reported, macs : SUBSET (Mac \cup {Blank}),
             entries : Entries, spaces : Spaces]
Devices == [name : Node, spec : Specs, age : Ages, svcAge : Ages, lag : BOOLEAN, system : Text,
            ip : Reported, macs : SUBSET (Mac \cup {Blank}), entries : Entries, spaces : Spaces]
Registration == [present : BOOLEAN, active : BOOLEAN, channels : SUBSET STRING]

Snapshot ==
  [node : [Node -> Nodes], endpoint : [Endpoint -> Endpoints], placement : [Placement -> Placements],
   service : [Service -> [lifecycle : STRING]], workspace : [Workspace -> [presence : STRING]],
   agent : [Agent -> Agents], device : [Device -> Devices \cup {Blank}],
   ip : [IpRow -> Addr \cup {Blank}], seen : [Agent -> Registration \cup {Blank}],
   guests : SUBSET Node]

\* A placement the inventory applies to a host, and an inventory nctl installed.
Applied == [placement : Placement, run : STRING, bound : SUBSET (BindingName \X Target)]
Installed(i) == /\ i.hosts \subseteq Node /\ i.hosts = DOMAIN i.vars
                /\ \A n \in i.hosts : i.vars[n].applied \subseteq Applied

\* An ingest job: the report of a node, or of the chat server.
Jobs == [node : Node, report : Machines, newer : BOOLEAN]
        \cup [node : {Blank}, report : [Agent -> Registration], newer : BOOLEAN]

\* What an operator may edit of the declared intent.
Setting(what, keys, fields, values) == [what : {what}, key : keys, field : fields, value : values]
Settings ==
  Setting("node", Node, {"lifecycle"}, Lifecycles)
  \cup Setting("node", Node, {"path"}, {"local", "tailscale"})
  \cup Setting("node", Node, {"local", "tail"}, Target)
  \cup Setting("node", Node, {"power"}, {"none", "wol", "macos_sleep"})
  \cup Setting("endpoint", Endpoint, {"addr"}, Addr \cup {Blank})
  \cup Setting("endpoint", Endpoint, {"mac"}, Mac \cup {Blank})
  \cup Setting("endpoint", Endpoint, {"policy"}, STRING)
  \cup Setting("endpoint", Endpoint, {"dns", "mdns", "dnsmasq"}, BOOLEAN)
  \cup Setting("placement", Placement, {"state", "mode", "run"}, STRING)
  \cup Setting("placement", Placement, {"config"}, BOOLEAN)
  \cup Setting("service", Service, {"lifecycle"}, STRING)
  \cup Setting("workspace", Workspace, {"presence"}, STRING)
  \cup Setting("agent", Agent, {"lifecycle"}, STRING)
  \cup Setting("agent", Agent, {"account"}, BOOLEAN)
  \cup Setting("agent", Agent, {"channels"}, SUBSET STRING)
=============================================================================
