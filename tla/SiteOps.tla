------------------------------- MODULE SiteOps --------------------------------
(***************************************************************************)
(* nctl at work on a site: rounds of nctl reconcile over the concrete plan, *)
(* nctl apply dnsmasq run by hand (it takes no lock), operators editing the *)
(* declared intent, and time, which ages evidence.                          *)
(*                                                                         *)
(* s is what Nautobot holds, truth what the machines are.  They meet only   *)
(* in an observation, whose report travels through a Nautobot job that may  *)
(* time out for nctl and still finish later (observation.py, jobs.py).      *)
(* Reconcile.tla has the gates, verdicts and interrupts of a run; here a    *)
(* run is its rounds.                                                       *)
(***************************************************************************)
EXTENDS SiteTypes

CONSTANTS
  DeviceOf,      \* the device the reports of a node are ingested into
  Realm,         \* agent -> [present, active, channels]: its account on the chat server
  Bases, Machine, \* the snapshots a site may start from, and its machines
  Scopes,        \* scopes runs are started for: the cluster, Blank, and nodes
  Edits,         \* edits an operator may make: [what, key, field, value]
  MaxEvents      \* bound on edits, failing calls, commands by hand and what breaks, together

SiteOpsAssumption ==
  /\ Bases \subseteq Snapshot /\ Machine \in [Node -> Machines] /\ Edits \subseteq Settings
  /\ DeviceOf \in [Node -> Device] /\ Realm \in [Agent -> Registration]
  /\ Blank \notin Node /\ Blank \notin Entry /\ Blank \notin File
  /\ MaxEvents \in Nat

ASSUME SiteOpsAssumption

VARIABLES
  s,          \* the snapshot any command would fetch now
  truth,      \* node -> [spec, system, ip, macs, entries, spaces] of its machine
  inventory,  \* the installed production inventory, or Blank
  round,      \* the running round: [pc, scope, bootstrap, plan, todo, fingerprint, held, clean, prev]
  late,       \* ingest jobs nctl gave up on: [node, report, newer]; node Blank for agents
  apply,      \* nctl apply dnsmasq between its render and its deploy, or Blank
  events

vars == <<s, truth, inventory, round, late, apply, events>>

NoRound == [pc |-> "idle", scope |-> Blank, bootstrap |-> {}, plan |-> {}, todo |-> {},
            fingerprint |-> {}, held |-> {}, clean |-> TRUE, prev |-> Blank]

Init == /\ s \in Bases /\ truth = Machine
        /\ inventory = Blank /\ round = NoRound /\ late = {} /\ apply = Blank
        /\ events = 0

MoreEvents == events < MaxEvents

\* Bookkeeping for the properties: a round is clean while nothing but its own successful
\* steps happens; prev is the clean round of the same scope just before, or Blank; held
\* are the nodes that only a warning keeps from service actions.
Disturb == round' = IF round.pc = "idle" THEN NoRound ELSE [round EXCEPT !.clean = FALSE]

----------------------------------------------------------------------------
(* Observation.                                                             *)
\* The nodes bootstrap inventories contain: what an observation may target.
Bootstrap ==
  {n \in Node : /\ s.node[n].lifecycle \in {"planned", "approved", "active"}
                /\ NodeType[n] \in {"device", "virtual_machine", "service_host"}
                /\ \E e \in EndpointsOf(n) : s.endpoint[e].mdns}

\* What a node says of itself.  The hints it is sent have it look for the file of a
\* managed placement and probe what its bindings reach.
Missing == [status |-> "missing", path |-> "current", content |-> Blank]
Report(n) ==
  LET up(e) == \E q \in Placement : /\ PlacedEndpoint[q] = e
                                    /\ truth[PlacedNode[q]].entries[PlacedService[q]] # Blank
                                    /\ truth[PlacedNode[q]].entries[PlacedService[q]].state = "running"
      looked(v) == \E p \in Active(s) \cap PlacementsOf(n) :
                     PlacedService[p] = v /\ PlacedProfile[p] \in ManagedProfile
      probed(v, entry) ==
        IF entry = Blank THEN Blank
        ELSE [entry EXCEPT
                !.file = IF looked(v) /\ @ = Blank THEN Missing ELSE @,
                !.bound = [b \in DOMAIN entry.bound |->
                             [entry.bound[b] EXCEPT !.reach = up(entry.bound[b].endpoint)]]]
  IN  [truth[n] EXCEPT !.entries = [v \in Service |-> probed(v, truth[n].entries[v])]]

Ingested(n, r, lag) ==
  [name |-> n, spec |-> r.spec, age |-> "fresh", svcAge |-> "fresh", lag |-> lag, system |-> r.system,
   ip |-> r.ip, macs |-> r.macs, entries |-> r.entries, spaces |-> r.spaces]

\* How the ingest job ends for nctl: not started, succeeded, failed, or not in time.
JobEnds == {"none", "done", "failed", "timeout"}

\* The outcomes of observing hosts: nobody when a host is in no bootstrap inventory;
\* else the hosts whose report was collected and cached, and what became of the job.
Observed(hosts, exported) ==
  IF ~hosts \subseteq exported THEN {[hosts |-> {}, job |-> "none"]}
  ELSE {[hosts |-> hosts, job |-> "done"]}
       \cup {o \in [hosts : SUBSET hosts, job : JobEnds] :
               MoreEvents /\ (o.hosts = {} <=> o.job = "none") /\ (o.hosts = hosts \/ o.job = "done")}

\* by is what the attempt itself counts as an event: 1 when a person makes it.
Observe(hosts, exported, by) ==
  \E o \in Observed(hosts, exported) :
    LET mine(d) == {n \in o.hosts : DeviceOf[n] = d}
        seen(d) == IF mine(d) = {} THEN s.device[d]
                   ELSE IF o.job = "done"
                   THEN LET n == CHOOSE x \in mine(d) : TRUE IN Ingested(n, Report(n), FALSE)
                   ELSE IF s.device[d] = Blank THEN Blank ELSE [s.device[d] EXCEPT !.lag = TRUE]
    IN  /\ s' = [s EXCEPT !.device = [d \in Device |-> seen(d)], !.guests = @ \ o.hosts]
        /\ late' = {[j EXCEPT !.newer = @ \/ j.node \in o.hosts] : j \in late}
                   \cup {[node |-> n, report |-> Report(n), newer |-> FALSE] :
                           n \in {m \in o.hosts : o.job = "timeout"}}
        /\ events' = IF (o.hosts = hosts /\ o.job = "done") \/ ~hosts \subseteq exported
                     THEN events + by ELSE events + 1

\* The job nctl gave up on ends; if a newer report was cached since, it is now ahead of
\* what was ingested.
LateIngest == \E j \in late :
  /\ late' = late \ {j}
  /\ \/ j.node = Blank /\ s' = [s EXCEPT !.seen = j.report]
     \/ /\ j.node # Blank
        /\ s' = [s EXCEPT !.device[DeviceOf[j.node]] = Ingested(j.node, j.report, j.newer)]
  /\ Disturb /\ UNCHANGED <<truth, inventory, apply, events>>

----------------------------------------------------------------------------
(* The ledger.                                                              *)
\* An existing link is never replaced.
Link(a) ==
  /\ s' = IF s.node[a.target].device = NoDevice
          THEN [s EXCEPT !.node[a.target].device = CHOOSE d \in a.eps : TRUE] ELSE s
  /\ UNCHANGED <<late, events>>

\* The IPAM job decides from what it finds, not from what was planned: every endpoint of
\* the node that wants its address gets the row that has it, or a new one.
Ipam(a) ==
  LET asking == {e \in EndpointsOf(a.target) : Codes(IpamGaps(s, e)) \cap IpamCodes # {}}
      wanted == {s.endpoint[e].addr : e \in asking}
  IN  \E row \in [wanted -> IpRow] :
        /\ \A x \in wanted : s.ip[row[x]] = IF \E i \in IpRow : s.ip[i] = x THEN x ELSE Blank
        /\ \A x, y \in wanted : row[x] = row[y] => x = y
        /\ s' = [s EXCEPT
                   !.ip = [i \in IpRow |-> IF \E x \in wanted : row[x] = i
                                           THEN CHOOSE x \in wanted : row[x] = i ELSE s.ip[i]],
                   !.endpoint = [e \in Endpoint |->
                     IF e \in asking THEN [s.endpoint[e] EXCEPT !.link = row[s.endpoint[e].addr]]
                     ELSE s.endpoint[e]]]
        /\ UNCHANGED <<late, events>>

----------------------------------------------------------------------------
(* A round.                                                                 *)
Rank == [link_actual_node |-> 1, observe_node |-> 2, reconcile_ipam |-> 3,
         dnsmasq_config |-> 4, service_profile |-> 5]
InBootstrap(a) == Rank[a.rec] <= 3

\* Ids order actions; what an action depends on comes first.
NextActions ==
  LET ready == {a \in round.todo : Deps(a, round.plan) \cap round.todo = {}}
  IN  {a \in ready : \A b \in ready : Rank[a.rec] <= Rank[b.rec]}

\* A plan that refuses to be made, or that names no host to contact, ends the run.
Runnable(diffs, plan) ==
  /\ ~Refused(diffs)
  /\ ~\E a \in plan : a.rec \in {"observe_node", "dnsmasq_config", "service_profile"} /\ a.hosts = {}

Held(diffs) == {n \in Blocked(diffs) : n \notin Blocked(ErrorsOf(diffs))}

StartRound(scope) ==
  /\ round.pc = "idle"
  /\ UNCHANGED <<s, truth, inventory, late, apply, events>>
  /\ Composes(s)
  /\ \E diffs \in {Scoped(s, Diffs(s), scope)} : \E plan \in {Plan(s, diffs, scope)} :
         /\ plan # {} /\ Runnable(diffs, plan)
         /\ round' = [pc |-> "bootstrap", scope |-> scope, bootstrap |-> Bootstrap,
                      plan |-> plan, todo |-> plan, clean |-> TRUE,
                      fingerprint |-> Fingerprint(diffs), held |-> Held(diffs),
                      prev |-> IF round.prev = Blank \/ round.prev.scope # scope THEN Blank
                               ELSE round.prev]

\* Mutant: an action that ran is struck from the plan, not from what is left of it.
DoneFromPlan(a) == round' = [round EXCEPT !.plan = @ \ {a}, !.clean = @ /\ events' = events]

Done(a) == round' = [round EXCEPT !.todo = @ \ {a}, !.clean = @ /\ events' = events]

BootstrapStep ==
  /\ round.pc = "bootstrap"
  /\ UNCHANGED <<truth, inventory, apply>>
  /\ \E a \in NextActions :
       /\ InBootstrap(a)
       /\ CASE a.rec = "link_actual_node" -> Link(a)
            [] a.rec = "reconcile_ipam" -> Ipam(a)
            [] OTHER -> Observe(a.hosts, round.bootstrap, 0)
       /\ Done(a)

\* A staged file is validated and replaces the inventory in one step.  It fails before,
\* or after, when only the report could not be written.
Install == \/ inventory' = Inventory(s) /\ UNCHANGED events
           \/ MoreEvents /\ events' = events + 1 /\ inventory' \in {inventory, Inventory(s)}

\* The inventory is rendered from a fresh snapshot.  If that fails, no service action of
\* the round runs.
Regenerate ==
  /\ round.pc = "bootstrap" /\ ~\E a \in round.todo : InBootstrap(a)
  /\ UNCHANGED <<s, truth, late, apply>>
  /\ IF Composes(s) THEN Install ELSE UNCHANGED <<inventory, events>>
  /\ round' = IF Composes(s) /\ events' = events THEN [round EXCEPT !.pc = "service"]
              ELSE IF round.todo = {} THEN [round EXCEPT !.pc = "service", !.clean = FALSE]
              ELSE NoRound

\* What a playbook makes of the placements the inventory applies to a host.
Configured(entry, a) ==
  [state |-> IF a.run = "stopped" THEN "stopped" ELSE "running", proof |-> TRUE,
   file |-> IF entry = Blank THEN Blank ELSE entry.file,
   bound |-> [b \in {x[1] : x \in a.bound} |->
               [config |-> "set", endpoint |-> (CHOOSE x \in a.bound : x[1] = b)[2],
                reach |-> FALSE, age |-> "fresh"]]]
Played(n, v, profile) ==
  LET mine == {a \in inventory.vars[n].applied : PlacedService[a.placement] = v
                                                 /\ PlacedProfile[a.placement] = profile}
      entry == truth[n].entries[v]
  IN  IF mine = {} THEN entry ELSE Configured(entry, CHOOSE a \in mine : TRUE)

\* What a host runs after the playbook of one service, after the dnsmasq setup, which
\* starts the daemon, and after its deployment, which installs the file.
Play(n, v, profile) == [truth[n].entries EXCEPT ![v] = Played(n, v, profile)]
SetUp(n, profile) == [v \in Service |-> Played(n, v, profile)]
Filed(entry, content) ==
  [entry EXCEPT !.file = [status |-> "present", path |-> "current", content |-> content]]
Deployed(n, profile, content) ==
  LET serves(v) == \E p \in PlacementsOf(n) : PlacedService[p] = v /\ PlacedProfile[p] = profile
  IN  [v \in Service |-> IF serves(v) /\ SetUp(n, profile)[v] # Blank
                         THEN Filed(SetUp(n, profile)[v], content) ELSE SetUp(n, profile)[v]]

\* The machines, where the hosts run(n) is defined for run it.
OnHosts(run) ==
  [n \in Node |-> IF n \in DOMAIN run THEN [truth[n] EXCEPT !.entries = run[n]] ELSE truth[n]]

ServiceStep ==
  /\ round.pc = "service" /\ round.todo # {}
  /\ UNCHANGED <<s, inventory, late, apply>>
  /\ \E a \in NextActions :
       /\ LET group == GroupMembers(inventory, a.profile)
              want == Render(s)
              works == IF a.rec = "dnsmasq_config" THEN want # Blank /\ a.hosts \subseteq group
                       ELSE a.hosts \cap inventory.hosts # {}
              all == IF a.rec = "dnsmasq_config"
                     THEN OnHosts([n \in a.hosts |-> Deployed(n, a.profile, want)])
                     ELSE OnHosts([n \in a.hosts \cap inventory.hosts |-> Play(n, a.target, a.profile)])
              part == IF a.rec = "dnsmasq_config"
                      THEN OnHosts([n \in a.hosts |-> SetUp(n, a.profile)]) ELSE truth
          IN  \/ works /\ truth' = all /\ UNCHANGED events
              \/ works /\ MoreEvents /\ truth' = part /\ events' = events + 1
              \/ ~works /\ UNCHANGED <<truth, events>>
       /\ Done(a)

\* Hosts of actions that need it are observed again, whatever became of the actions.
EndRound ==
  /\ round.pc = "service" /\ round.todo = {}
  /\ UNCHANGED <<truth, inventory, apply>>
  /\ LET hosts == UNION {a.hosts : a \in {b \in round.plan : Rank[b.rec] > 3}}
     IN  IF hosts = {} THEN UNCHANGED <<s, late, events>> ELSE Observe(hosts, round.bootstrap, 0)
  /\ round' = IF ~round.clean \/ events' # events THEN NoRound
              ELSE [NoRound EXCEPT !.prev = [scope |-> round.scope, plan |-> round.plan,
                                             fingerprint |-> round.fingerprint, held |-> round.held]]

----------------------------------------------------------------------------
(* Other commands.                                                          *)
\* nctl observe: under the reconcile lock, the exported hosts that offer a trusted key.
ObserveOnly ==
  /\ round.pc = "idle" /\ MoreEvents
  /\ \E ready \in (SUBSET Bootstrap) \ {{}} : Observe(ready, Bootstrap, 1)
  /\ Disturb /\ UNCHANGED <<truth, inventory, apply>>

\* Mutant: whoever was seen before is not read again.
CollectionOnce ==
  [a \in Agent |->
     IF s.seen[a] # Blank THEN s.seen[a]
     ELSE [present |-> Realm[a].present, active |-> Realm[a].active, channels |-> Realm[a].channels]]

\* What the chat server says of the declared agents.  A channel is recorded when it is
\* declared and confirmed, so one that is declared later reads as missing.
Collection ==
  [a \in Agent |->
     IF s.agent[a].account /\ Realm[a].present
     THEN [present |-> TRUE, active |-> Realm[a].active,
           channels |-> s.agent[a].channels \cap Realm[a].channels]
     ELSE [present |-> FALSE, active |-> FALSE, channels |-> {}]]

\* nctl agents observe: no lock; its job may time out as any other.
ObserveAgents ==
  /\ Agent # {}
  /\ \/ s.seen # Collection /\ s' = [s EXCEPT !.seen = Collection] /\ UNCHANGED <<late, events>>
     \/ /\ MoreEvents /\ events' = events + 1
        /\ late' = late \cup {[node |-> Blank, report |-> Collection, newer |-> FALSE]}
        /\ UNCHANGED s
  /\ Disturb /\ UNCHANGED <<truth, inventory, apply>>

\* nctl render production --out: no lock, whatever round is running.
RenderProduction ==
  /\ MoreEvents /\ Composes(s) /\ inventory # Inventory(s) /\ Install
  /\ Disturb /\ UNCHANGED <<s, truth, late, apply>>

----------------------------------------------------------------------------
(* nctl apply dnsmasq by hand: no lock, no limit, its own render, and the   *)
(* inventory it finds.                                                      *)
Servers == {p \in Profile : Reconciliation[p] = "dnsmasq_config"}

StartApply ==
  /\ apply = Blank /\ MoreEvents /\ inventory # Blank /\ Render(s) # Blank
  /\ \E profile \in Servers :
       /\ GroupMembers(inventory, profile) # {}
       /\ apply' = [profile |-> profile, content |-> Render(s), hosts |-> GroupMembers(inventory, profile)]
  /\ events' = events + 1
  /\ UNCHANGED <<s, truth, inventory, round, late>>

EndApply ==
  /\ apply # Blank
  /\ \/ truth' = OnHosts([n \in apply.hosts \cap inventory.hosts |->
                           Deployed(n, apply.profile, apply.content)])
     \/ UNCHANGED truth
  /\ apply' = Blank
  /\ Disturb /\ UNCHANGED <<s, inventory, late, events>>

----------------------------------------------------------------------------
(* Operators, machines and time.                                            *)
Edit(x) ==
  /\ MoreEvents /\ events' = events + 1
  /\ s[x.what][x.key][x.field] # x.value
  /\ s' = [s EXCEPT ![x.what][x.key][x.field] = x.value]
  /\ Disturb /\ UNCHANGED <<truth, inventory, late, apply>>

\* A service dies, a checkout is removed from its machine, or a machine starts to report
\* an address that is none.
Break(n) ==
  /\ MoreEvents /\ events' = events + 1
  /\ \/ \E v \in Service :
          /\ truth[n].entries[v] # Blank /\ truth[n].entries[v].state = "running"
          /\ truth' = [truth EXCEPT ![n].entries[v].state = "stopped"]
     \/ \E w \in Workspace :
          /\ SpaceNode[w] = n /\ truth[n].spaces[w] # Blank /\ truth[n].spaces[w].present # FALSE
          /\ truth' = [truth EXCEPT ![n].spaces[w].present = FALSE]
     \/ truth[n].ip # Garbled /\ truth' = [truth EXCEPT ![n].ip = Garbled]
  /\ Disturb /\ UNCHANGED <<s, inventory, late, apply>>

Older == [none |-> "none", fresh |-> "aging", aging |-> "stale", stale |-> "stale"]
AgedOne(evidence) == [evidence EXCEPT !.age = Older[@]]
AgedEntry(entry) ==
  [entry EXCEPT !.bound = [b \in DOMAIN entry.bound |-> AgedOne(entry.bound[b])]]
Aged(dev) ==
  [dev EXCEPT !.age = Older[@], !.svcAge = Older[@],
     !.spaces = [w \in Workspace |-> IF dev.spaces[w] = Blank THEN Blank ELSE AgedOne(dev.spaces[w])],
     !.entries = [v \in Service |-> IF dev.entries[v] = Blank THEN Blank
                                    ELSE AgedEntry(dev.entries[v])]]
\* Time passes between rounds, for all evidence at once.
Age ==
  /\ round.pc = "idle"
  /\ \E d \in Device : s.device[d] # Blank /\ s.device[d].age \in {"fresh", "aging"}
  /\ s' = [s EXCEPT !.device = [d \in Device |-> IF s.device[d] = Blank THEN Blank ELSE Aged(s.device[d])]]
  /\ Disturb /\ UNCHANGED <<truth, inventory, late, apply, events>>

Next == \/ \E scope \in Scopes : StartRound(scope)
        \/ BootstrapStep \/ Regenerate \/ ServiceStep \/ EndRound
        \/ ObserveOnly \/ ObserveAgents \/ RenderProduction
        \/ LateIngest \/ StartApply \/ EndApply
        \/ \E x \in Edits : Edit(x)
        \/ \E n \in Node : Break(n)
        \/ Age

\* The operator runs nctl reconcile on the whole cluster again and again (a run that
\* finds the lock held ends at once, hence strong fairness), and nctl agents observe; a
\* started round goes on; evidence grows old.  A job nctl gave up on, or an apply by hand, may never end.
Fairness == /\ SF_vars(StartRound(Blank))
            /\ WF_vars(BootstrapStep \/ Regenerate \/ ServiceStep \/ EndRound)
            /\ WF_vars(ObserveAgents)
            /\ WF_vars(Age)

Spec == Init /\ [][Next]_vars /\ Fairness

----------------------------------------------------------------------------
(* Properties.                                                              *)
TypeOK ==
  /\ s \in Snapshot /\ truth \in [Node -> Machines]
  /\ inventory # Blank => Installed(inventory)
  /\ DOMAIN round = DOMAIN NoRound /\ round.pc \in {"idle", "bootstrap", "service"}
  /\ round.todo \subseteq round.plan
  /\ round.bootstrap \subseteq Node
  /\ \A a \in round.plan : a.rec = "link_actual_node" =>
       a.target \in Node /\ a.eps # {} /\ a.eps \subseteq Device
  /\ round.pc = "service" /\ round.todo # {} => Installed(inventory)
  /\ late \subseteq Jobs
  /\ apply # Blank => Installed(inventory) /\ apply.content \in Content
  /\ events \in 0..MaxEvents

Planning == round.pc = "idle" /\ round'.pc = "bootstrap"

\* The planner's own table of blocking codes covers whatever makes the composer leave a
\* node out: no service action names a host the snapshot composes no variables for,
\* unless its guest waits for a first access, which the table does not list, or nodes of
\* its type are never composed, which no code reports.
PlannedHostsCompose ==
  [][Planning => \A a \in round'.plan : Rank[a.rec] > 3 =>
       a.hosts \subseteq Included(s) \cup Awaiting(s)
                         \cup {n \in Node : NodeType[n] \notin ProductionType}]_vars

\* An endpoint that blocks the whole shared dnsmasq file is one the drift report names,
\* although the render and the endpoint comparator decide on it apart.
BlockerIsReported ==
  \A e \in Blockers(s) :
    \/ EndpointNode[e] \in Awaiting(s)
    \/ \E d \in Diffs(s) : d.at = e /\ d.code \in {"ambiguous_interface", "desired_mac_mismatch"}

\* The machine of placement p runs what is declared: its state, its providers and,
\* for a service whose file nctl renders, the content.
AsDeclared(p) ==
  LET entry == truth[PlacedNode[p]].entries[PlacedService[p]]
  IN  IF s.placement[p].run = "stopped" THEN entry = Blank \/ entry.state # "running"
      ELSE /\ entry # Blank /\ entry.state = "running"
           /\ \A b \in Bindings[p] : entry.bound[b.name].config = "set"
                                     /\ entry.bound[b.name].endpoint = BoundTo(s, b)
           /\ PlacedProfile[p] \in ManagedProfile /\ Render(s) # Blank
                => entry.file # Blank /\ entry.file.content = Render(s)
Ours == {p \in Active(s) : s.placement[p].mode = "nctl_managed" /\ PlacedNode[p] \in Included(s)}

\* What nctl believes of node n is what n would say now.
Believed(n) == LET d == Realized(s, n)
               IN  d # NoDevice /\ d = DeviceOf[n] /\ s.device[d].entries = Report(n).entries
\* A report without errors is a true one: while the evidence shows the machines as they
\* are, every managed placement of an included node runs as declared.
NoFalseConvergence ==
  (\A n \in Node : Believed(n)) /\ AllConverged(Diffs(s)) => \A p \in Ours : AsDeclared(p)

\* An error is either claimed by an action of the cluster plan or shown as a finding.
\* Left out are only the evidence of a retired node, and a service whose profile is
\* operated by hand or whose managed hosts are all blocked by findings of their own.
Claims(a, d) ==
  /\ d.code \in a.codes
  /\ IF a.rec = "observe_node" THEN ObserveNode(d) \in a.hosts
     ELSE a.target = d.target /\ (d.at \in Placement => PlacedProfile[d.at] = a.profile)
Unplanned(diffs, plan) ==
  {d \in ErrorsOf(diffs) \ Findings(s, diffs, Blank) : ~\E a \in plan : Claims(a, d)}
OfRetired(d) == \/ d.kind = "node" /\ s.node[d.target].lifecycle = "retired"
                \/ d.at \in Placement /\ s.node[PlacedNode[d.at]].lifecycle = "retired"
NothingDropped ==
  [][Planning /\ round'.scope = Blank =>
       \A diffs \in {Diffs(s)} : \A d \in Unplanned(diffs, round'.plan) :
         \/ ClassOf(d) = "observation" /\ OfRetired(d)
         \/ d.at \in Placement /\ \A q \in Managed(s, d.target, PlacedProfile[d.at]) :
                                  PlacedNode[q] \in Blocked(diffs)]_vars

\* A clean round that leaves the fingerprint as it was has brought no new service
\* action to light, except on hosts a warning kept from service actions: warnings do not
\* enter the fingerprint, so stopping there for no progress leaves at most those hosts
\* and ledger work undone.
NoProgressIsNoWork ==
  [][Planning /\ round'.prev # Blank /\ round'.fingerprint = round'.prev.fingerprint =>
       \A a \in round'.plan : Rank[a.rec] > 3 =>
         \/ a.hosts \subseteq round'.prev.held
         \/ \E b \in round'.prev.plan : b.rec = a.rec /\ b.target = a.target
                                        /\ b.profile = a.profile]_vars

\* Repeated runs bring the machines to what is declared, whatever failed, arrived late
\* or was applied by hand on the way, unless the plan is refused, or asks a node for
\* evidence which no bootstrap inventory has: then nobody is observed.  A service whose
\* file has no content, because an endpoint blocks it, waits for a human.
Observable(plan) == \A a \in plan : a.rec = "observe_node" => a.hosts \subseteq Bootstrap
Stopped == \/ ~Composes(s)
           \/ \E diffs \in {Diffs(s)} : \E plan \in {Plan(s, diffs, Blank)} :
                ~Runnable(diffs, plan) \/ ~Observable(plan)
Deployable == {p \in Ours : PlacedProfile[p] \in ManagedProfile => Render(s) # Blank}
TruthFollows == []<>(round.pc = "idle" /\ ((\A p \in Deployable : AsDeclared(p)) \/ Stopped))

\* An error about an agent, which refuses every plan of the cluster, does not outlive
\* what is wrong on the chat server, whatever was declared meanwhile and whichever late
\* job recorded an older reading.
Wrong(a) == ~Realm[a].present \/ ~Realm[a].active \/ ~s.agent[a].channels \subseteq Realm[a].channels
AgentErrorsSettle ==
  []<>(\A a \in Agent : AgentCodes(s, a) \cap AgentErrors # {} => Wrong(a))

\* docs/reconcile.md: an independent target's failure never blocks other independent
\* targets in the same scope.  A host action of the plan is held up by no other target.
IndependentTargets ==
  \A diffs \in {Diffs(s)} :
    Composes(s) /\ Plan(s, diffs, Blank) # {} => Runnable(diffs, Plan(s, diffs, Blank))
=============================================================================
