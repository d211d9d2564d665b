---------------------------- MODULE SiteTruthProofs ----------------------------
(* What Nautobot, the machines and the control node hold keeps its type, for any *)
(* site, edits and failures, and with it what a report without errors says of    *)
(* the machines is proved: every managed placement runs as declared.             *)
EXTENDS SiteProofs

(* What is derived from a snapshot. *)

\* A device a node resolves to, and one that matches a node best, is ingested.
LEMMA RealizedDevice ==
  ASSUME NEW t \in Snapshot, NEW n, Realized(t, n) # NoDevice
  PROVE  Realized(t, n) \in Device /\ t.device[Realized(t, n)] \in Devices
<1>1. Realized(t, n) \in Device /\ t.device[Realized(t, n)] # Blank
  BY DEF Realized
<1>2. t.device \in [Device -> Devices \cup {Blank}]
  BY DEF Snapshot
<1> QED
  BY <1>1, <1>2

\* The MAC addresses of an endpoint's candidates are MAC addresses.
LEMMA MacsTyped ==
  ASSUME NEW t \in Snapshot, NEW e \in Endpoint
  PROVE  Macs(t, e) \subseteq Mac
<1>1. ASSUME NEW d \in MacSource(t, EndpointNode[e])
      PROVE  t.device[d] \in Devices
  <2>1. CASE Realized(t, EndpointNode[e]) # NoDevice
    BY <2>1, RealizedDevice DEF MacSource
  <2>2. CASE Realized(t, EndpointNode[e]) = NoDevice
    <3>1. d \in Best(t, EndpointNode[e])
      BY <2>2 DEF MacSource
    <3>2. d \in Device /\ t.device[d] # Blank
      BY <3>1 DEF Best, Strong
    <3>3. t.device \in [Device -> Devices \cup {Blank}]
      BY DEF Snapshot
    <3> QED
      BY <3>2, <3>3
  <2> QED
    BY <2>1, <2>2
<1>2. ASSUME NEW d \in MacSource(t, EndpointNode[e])
      PROVE  t.device[d].macs \subseteq Mac \cup {Blank}
  BY <1>1 DEF Devices
<1> QED
  BY <1>2 DEF Macs, Interfaces

\* The file a snapshot renders to is a set of lines.
LEMMA RenderTyped ==
  ASSUME NEW t \in Snapshot, Render(t) # Blank
  PROVE  Render(t) \in Content
<1>1. ASSUME NEW e \in Endpoint, Exportable(t, e)
      PROVE  t.endpoint[e].addr \in Addr
  <2>1. t.endpoint[e] \in Endpoints
    BY DEF Snapshot
  <2> QED
    BY <1>1, <2>1 DEF Endpoints, Exportable
<1>2. DnsLines(t) \subseteq Line
  BY <1>1 DEF DnsLines, Line
<1>3. ASSUME NEW e \in Endpoint, Reserved(t, e)
      PROVE  ReservedMac(t, e) \in Mac /\ t.endpoint[e].addr \in Addr
  <2>1. t.endpoint[e] \in Endpoints
    BY DEF Snapshot
  <2>2. t.endpoint[e].addr \in Addr
    BY <1>1, <1>3 DEF Reserved, Reservable
  <2>3. CASE t.endpoint[e].mac # Blank
    BY <2>1, <2>2, <2>3 DEF Endpoints, ReservedMac
  <2>4. CASE t.endpoint[e].mac = Blank
    <3>1. Cardinality(Macs(t, e)) = 1
      BY <1>3, <2>4 DEF Reserved
    <3>2. Macs(t, e) # {}
      BY <3>1, FS_EmptySet
    <3>3. ReservedMac(t, e) \in Macs(t, e)
      BY <2>4, <3>2 DEF ReservedMac
    <3> QED
      BY <2>2, <3>3, MacsTyped
  <2> QED
    BY <2>3, <2>4
<1>4. DhcpLines(t) \subseteq Line
  BY <1>3 DEF DhcpLines, Line
<1>5. RangeLines \subseteq Line
  BY DEF RangeLines, Line
<1>6. Render(t) = [lines |-> DnsLines(t) \cup DhcpLines(t) \cup RangeLines]
  BY DEF Render
<1> QED
  BY <1>2, <1>4, <1>5, <1>6 DEF Content

\* Every binding on a node of the composition is resolved, and points somewhere.
LEMMA IncludedResolves ==
  ASSUME NEW t, NEW n \in Included(t), NEW r \in NodeBindings(t, n)
  PROVE  BindingProblem(t, r[1], r[2]) = "" /\ BoundTo(t, r[2]) \in Target
<1>1. HostProblem(t, n) = ""
  <2>1. Outcome(t, n).state = "included"
    BY DEF Included
  <2> QED
    BY <2>1 DEF Outcome
<1>2. DependencyProblem(t, n) = ""
  BY <1>1 DEF HostProblem, OrElse
<1> DEFINE codes == {BindingProblem(t, x[1], x[2]) : x \in NodeBindings(t, n)}
<1>3. codes \subseteq {""}
  <2>1. SUFFICES ASSUME ~(codes \subseteq {""}) PROVE FALSE
    OBVIOUS
  <2>2. \E c \in codes : c # ""
    BY <2>1
  <2>3. (CHOOSE c \in codes : c # "") # ""
    BY <2>2
  <2> QED
    BY <1>2, <2>1, <2>3 DEF DependencyProblem, Any
<1>4. BindingProblem(t, r[1], r[2]) = ""
  BY <1>3
<1>5. Providers(t, r[2].provider) # {}
  BY <1>4 DEF BindingProblem
<1>6. ProviderOf(t, r[2]) \in Placement
  BY <1>5 DEF ProviderOf, Providers, Active
<1> QED
  BY <1>4, <1>6, SiteAssumption DEF SiteAssumption, BoundTo, Target

\* What is composed from a snapshot can be installed.
LEMMA InventoryTyped ==
  ASSUME NEW t \in Snapshot
  PROVE  Installed(Inventory(t))
<1> DEFINE i == Inventory(t)
<1>1. i.hosts = Included(t) /\ i.vars = [n \in Included(t) |-> HostVars(t, n)]
  BY DEF Inventory
<1>2. i.hosts \subseteq Node /\ i.hosts = DOMAIN i.vars
  BY <1>1 DEF Included
<1>3. ASSUME NEW n \in Included(t), NEW p \in Active(t) \cap PlacementsOf(n), NEW b \in Bindings[p]
      PROVE  <<b.name, Exported(t, n, VariableOf(p, b))>> \in BindingName \X Target
  <2> DEFINE setters == {r \in NodeBindings(t, n) : VariableOf(r[1], r[2]) = VariableOf(p, b)}
  <2>1. <<p, b>> \in setters
    BY DEF NodeBindings
  <2>2. (CHOOSE r \in setters : TRUE) \in NodeBindings(t, n)
    BY <2>1
  <2>3. Exported(t, n, VariableOf(p, b)) \in Target
    BY <2>2, IncludedResolves DEF Exported
  <2>4. p \in Placement
    BY DEF Active
  <2>5. b.name \in BindingName
    BY <2>4 DEF BindingName
  <2> QED
    BY <2>3, <2>5
<1>4. ASSUME NEW n \in i.hosts
      PROVE  i.vars[n].applied \subseteq Applied
  <2>1. i.vars[n].applied =
          {[placement |-> p, run |-> t.placement[p].run,
            bound |-> {<<b.name, Exported(t, n, VariableOf(p, b))>> : b \in Bindings[p]}] :
             p \in Active(t) \cap PlacementsOf(n)}
    BY <1>1 DEF HostVars
  <2>2. ASSUME NEW p \in Active(t) \cap PlacementsOf(n)
        PROVE  p \in Placement /\ t.placement[p].run \in STRING
    <3>1. p \in Placement
      BY DEF Active
    <3>2. t.placement[p] \in Placements
      BY <3>1 DEF Snapshot
    <3> QED
      BY <3>1, <3>2 DEF Placements
  <2>3. ASSUME NEW p \in Active(t) \cap PlacementsOf(n)
        PROVE  {<<b.name, Exported(t, n, VariableOf(p, b))>> : b \in Bindings[p]}
                 \in SUBSET (BindingName \X Target)
    BY <1>1, <1>3
  <2> QED
    BY <2>1, <2>2, <2>3 DEF Applied
<1> QED
  BY <1>2, <1>4 DEF Installed

----------------------------------------------------------------------------
(* What the machines say, and what playbooks leave on them. *)

LEMMA BoundsTyped ==
  ASSUME NEW names \in SUBSET BindingName, NEW f \in [names -> Bound]
  PROVE  f \in Bounds
BY DEF Bounds

LEMMA BoundsDomain ==
  ASSUME NEW f \in Bounds
  PROVE  DOMAIN f \subseteq BindingName /\ f \in [DOMAIN f -> Bound]
<1>1. PICK names \in SUBSET BindingName : f \in [names -> Bound]
  BY DEF Bounds
<1> QED
  BY <1>1

\* What a node says of what it runs.
Up(e) == \E q \in Placement : /\ PlacedEndpoint[q] = e
                              /\ truth[PlacedNode[q]].entries[PlacedService[q]] # Blank
                              /\ truth[PlacedNode[q]].entries[PlacedService[q]].state = "running"
Looked(n, v) ==
  \E p \in Active(s) \cap PlacementsOf(n) : PlacedService[p] = v /\ PlacedProfile[p] \in ManagedProfile
Probed(n, v, entry) ==
  [entry EXCEPT !.file = IF Looked(n, v) /\ @ = Blank THEN Missing ELSE @,
                !.bound = [b \in DOMAIN entry.bound |->
                             [entry.bound[b] EXCEPT !.reach = Up(entry.bound[b].endpoint)]]]

LEMMA ReportedEntries ==
  ASSUME NEW n \in Node, truth \in [Node -> Machines]
  PROVE  Report(n) = [truth[n] EXCEPT !.entries =
                        [v \in Service |-> IF truth[n].entries[v] = Blank THEN Blank
                                           ELSE Probed(n, v, truth[n].entries[v])]]
BY DEF Report, Probed, Up, Looked

LEMMA ProbedEntry ==
  ASSUME NEW n, NEW v, NEW entry \in Entry
  PROVE  /\ Probed(n, v, entry) \in Entry
         /\ Probed(n, v, entry).state = entry.state
         /\ Probed(n, v, entry).file = IF Looked(n, v) /\ entry.file = Blank THEN Missing ELSE entry.file
         /\ DOMAIN Probed(n, v, entry).bound = DOMAIN entry.bound
         /\ \A b \in DOMAIN entry.bound :
              /\ entry.bound[b] \in Bound
              /\ Probed(n, v, entry).bound[b].config = entry.bound[b].config
              /\ Probed(n, v, entry).bound[b].endpoint = entry.bound[b].endpoint
<1> DEFINE f == [b \in DOMAIN entry.bound |-> [entry.bound[b] EXCEPT !.reach = Up(entry.bound[b].endpoint)]]
           file == IF Looked(n, v) /\ entry.file = Blank THEN Missing ELSE entry.file
<1>1. entry.bound \in Bounds
  BY DEF Entry
<1>2. DOMAIN entry.bound \subseteq BindingName /\ entry.bound \in [DOMAIN entry.bound -> Bound]
  BY <1>1, BoundsDomain
<1>3. \A e : Up(e) \in BOOLEAN
  BY DEF Up
<1>4. ASSUME NEW b \in DOMAIN entry.bound
      PROVE  /\ entry.bound[b] \in Bound /\ f[b] \in Bound
             /\ f[b].config = entry.bound[b].config /\ f[b].endpoint = entry.bound[b].endpoint
  BY <1>2, <1>3 DEF Bound
<1>5. f \in Bounds /\ DOMAIN f = DOMAIN entry.bound
  <2>1. f \in [DOMAIN entry.bound -> Bound]
    BY <1>4
  <2> QED
    BY <1>2, <2>1, BoundsTyped
<1>6. file \in File \cup {Blank}
  BY DEF Missing, File, Entry
<1>7. Probed(n, v, entry) = [entry EXCEPT !.file = file, !.bound = f]
  BY DEF Probed
<1> HIDE DEF f, file
<1>8. /\ [entry EXCEPT !.file = file, !.bound = f] \in Entry
      /\ [entry EXCEPT !.file = file, !.bound = f].state = entry.state
      /\ [entry EXCEPT !.file = file, !.bound = f].file = file
      /\ [entry EXCEPT !.file = file, !.bound = f].bound = f
  BY <1>5, <1>6 DEF Entry
<1> QED
  BY <1>4, <1>5, <1>7, <1>8 DEF file

\* A report is of the machine it comes from.
LEMMA ReportTyped ==
  ASSUME NEW n \in Node, truth \in [Node -> Machines]
  PROVE  /\ Report(n) \in Machines
         /\ \A v \in Service : Report(n).entries[v] = IF truth[n].entries[v] = Blank THEN Blank
                                                      ELSE Probed(n, v, truth[n].entries[v])
<1> DEFINE g == [v \in Service |-> IF truth[n].entries[v] = Blank THEN Blank
                                   ELSE Probed(n, v, truth[n].entries[v])]
<1>1. truth[n] \in Machines /\ truth[n].entries \in [Service -> Entry \cup {Blank}]
  BY DEF Machines, Entries
<1>2. g \in Entries
  BY <1>1, ProbedEntry DEF Entries
<1>3. Report(n) = [truth[n] EXCEPT !.entries = g]
  BY ReportedEntries
<1>4. \A v \in Service : g[v] = IF truth[n].entries[v] = Blank THEN Blank
                                ELSE Probed(n, v, truth[n].entries[v])
  OBVIOUS
<1> HIDE DEF g
<1>5. Report(n) \in Machines /\ Report(n).entries = g
  BY <1>1, <1>2, <1>3 DEF Machines
<1> QED
  BY <1>4, <1>5

LEMMA IngestedTyped ==
  ASSUME NEW n \in Node, NEW r \in Machines, NEW lag \in BOOLEAN
  PROVE  Ingested(n, r, lag) \in Devices
BY DEF Ingested, Machines, Devices, Ages

\* What a playbook makes of an applied placement is an entry, and so is one with a file.
LEMMA ConfiguredTyped ==
  ASSUME NEW entry \in Entry \cup {Blank}, NEW a \in Applied
  PROVE  Configured(entry, a) \in Entry
<1> DEFINE names == {x[1] : x \in a.bound}
           f == [b \in names |-> [config |-> "set", endpoint |-> (CHOOSE x \in a.bound : x[1] = b)[2],
                                  reach |-> FALSE, age |-> "fresh"]]
<1>1. a.bound \subseteq BindingName \X Target
  BY DEF Applied
<1>2. names \subseteq BindingName
  BY <1>1
<1>3. ASSUME NEW b \in names
      PROVE  f[b] \in Bound
  <2>1. PICK x \in a.bound : x[1] = b
    OBVIOUS
  <2>2. (CHOOSE y \in a.bound : y[1] = b) \in a.bound
    BY <2>1
  <2>3. (CHOOSE y \in a.bound : y[1] = b)[2] \in Target
    BY <1>1, <2>2
  <2> QED
    BY <2>3 DEF Bound, Ages
<1>4. f \in Bounds
  <2>1. f \in [names -> Bound]
    BY <1>3
  <2> QED
    BY <1>2, <2>1, BoundsTyped
<1>5. (IF entry = Blank THEN Blank ELSE entry.file) \in File \cup {Blank}
  BY DEF Entry
<1>6. Configured(entry, a) =
        [state |-> IF a.run = "stopped" THEN "stopped" ELSE "running", proof |-> TRUE,
         file |-> IF entry = Blank THEN Blank ELSE entry.file, bound |-> f]
  BY DEF Configured
<1> HIDE DEF f
<1> QED
  BY <1>4, <1>5, <1>6 DEF Entry

LEMMA FiledTyped ==
  ASSUME NEW content \in Content, NEW entry \in Entry
  PROVE  Filed(entry, content) \in Entry
<1>1. [status |-> "present", path |-> "current", content |-> content] \in File
  BY DEF File
<1> QED
  BY <1>1 DEF Filed, Entry

\* A playbook leaves an entry of what the inventory applies.
LEMMA PlayedTyped ==
  ASSUME NEW n \in Node, NEW v \in Service, NEW profile, truth \in [Node -> Machines],
         Installed(inventory), n \in inventory.hosts
  PROVE  Played(n, v, profile) \in Entry \cup {Blank}
<1> DEFINE mine == {a \in inventory.vars[n].applied : PlacedService[a.placement] = v
                                                      /\ PlacedProfile[a.placement] = profile}
<1>1. truth[n].entries[v] \in Entry \cup {Blank}
  BY DEF Machines, Entries
<1>2. CASE mine = {}
  BY <1>1, <1>2 DEF Played
<1>3. CASE mine # {}
  <2>1. (CHOOSE x \in mine : TRUE) \in Applied
    BY <1>3 DEF Installed
  <2>2. Played(n, v, profile) = Configured(truth[n].entries[v], CHOOSE x \in mine : TRUE)
    BY <1>3 DEF Played
  <2> QED
    BY <1>1, <2>1, <2>2, ConfiguredTyped
<1> QED
  BY <1>2, <1>3

LEMMA DeployedTyped ==
  ASSUME NEW n \in Node, NEW profile, truth \in [Node -> Machines],
         Installed(inventory), n \in inventory.hosts
  PROVE  /\ SetUp(n, profile) \in Entries
         /\ \A v \in Service : Play(n, v, profile) \in Entries
         /\ \A content \in Content : Deployed(n, profile, content) \in Entries
<1>1. \A v \in Service : Played(n, v, profile) \in Entry \cup {Blank}
  BY PlayedTyped
<1>2. SetUp(n, profile) \in Entries
  BY <1>1 DEF SetUp, Entries
<1>3. truth[n].entries \in [Service -> Entry \cup {Blank}]
  BY DEF Machines, Entries
<1>4. ASSUME NEW v \in Service
      PROVE  Play(n, v, profile) \in Entries
  BY <1>1, <1>3 DEF Play, Entries
<1>5. ASSUME NEW content \in Content
      PROVE  Deployed(n, profile, content) \in Entries
  <2>1. \A v \in Service : SetUp(n, profile)[v] \in Entry \cup {Blank}
    BY <1>2 DEF Entries
  <2> QED
    BY <2>1, FiledTyped DEF Deployed, Entries
<1> QED
  BY <1>2, <1>4, <1>5

LEMMA OnHostsTyped ==
  ASSUME NEW run, truth \in [Node -> Machines], \A n \in Node : n \in DOMAIN run => run[n] \in Entries
  PROVE  OnHosts(run) \in [Node -> Machines]
<1>1. ASSUME NEW n \in Node, n \in DOMAIN run
      PROVE  [truth[n] EXCEPT !.entries = run[n]] \in Machines
  <2>1. truth[n] \in Machines /\ run[n] \in Entries
    BY <1>1
  <2> QED
    BY <2>1 DEF Machines
<1> QED
  BY <1>1 DEF OnHosts

----------------------------------------------------------------------------
(* Every step keeps the types. *)

LEMMA TypeInit == Init => TypeOK
<1> SUFFICES ASSUME Init PROVE TypeOK
  OBVIOUS
<1>1. s \in Snapshot /\ truth \in [Node -> Machines]
  BY SiteOpsAssumption DEF SiteOpsAssumption, Init
<1>2. 0 \in 0..MaxEvents
  BY SiteOpsAssumption DEF SiteOpsAssumption
<1>3. DOMAIN NoRound = DOMAIN NoRound /\ NoRound.pc = "idle" /\ NoRound.todo = {}
      /\ NoRound.plan = {} /\ NoRound.bootstrap = {}
  BY DEF NoRound
<1> QED
  BY <1>1, <1>2, <1>3 DEF Init, TypeOK

\* The round a step of someone else leaves has the type of the round before.
LEMMA DisturbedRound ==
  ASSUME TypeOK, Disturb
  PROVE  /\ DOMAIN round' = DOMAIN NoRound /\ round'.pc = round.pc
         /\ round'.todo \subseteq round'.plan /\ round'.bootstrap \subseteq Node
         /\ \A a \in round'.plan : a.rec = "link_actual_node" =>
              a.target \in Node /\ a.eps # {} /\ a.eps \subseteq Device
         /\ round'.todo \in {round.todo, {}}
<1>1. CASE round.pc = "idle"
  BY <1>1 DEF Disturb, NoRound
<1>2. CASE round.pc # "idle"
  <2>1. DOMAIN round = {"pc", "scope", "bootstrap", "plan", "todo", "fingerprint", "held", "clean", "prev"}
    BY DEF TypeOK, NoRound
  <2>2. round' = [round EXCEPT !.clean = FALSE]
    BY <1>2 DEF Disturb
  <2>3. /\ DOMAIN round' = DOMAIN round /\ round'.pc = round.pc /\ round'.todo = round.todo
        /\ round'.plan = round.plan /\ round'.bootstrap = round.bootstrap
    BY <2>1, <2>2
  <2> QED
    BY <2>3 DEF TypeOK
<1> QED
  BY <1>1, <1>2

\* An observation ingests what the machines are, and leaves jobs that will.
LEMMA ObserveTyped ==
  ASSUME TypeOK, NEW hosts, NEW exported \in SUBSET Node, NEW by \in {0, 1}, by = 1 => MoreEvents,
         Observe(hosts, exported, by)
  PROVE  s' \in Snapshot /\ late' \subseteq Jobs /\ events' \in 0..MaxEvents
<1>1. PICK o \in Observed(hosts, exported) :
        LET mine(d) == {n \in o.hosts : DeviceOf[n] = d}
            seen(d) == IF mine(d) = {} THEN s.device[d]
                       ELSE IF o.job = "done"
                       THEN LET n == CHOOSE x \in mine(d) : TRUE IN Ingested(n, Report(n), FALSE)
                       ELSE IF s.device[d] = Blank THEN Blank ELSE [s.device[d] EXCEPT !.lag = TRUE]
        IN  /\ s' = [s EXCEPT !.device = [d \in Device |-> seen(d)], !.guests = @ \ o.hosts]
            /\ late' = {[j EXCEPT !.newer = @ \/ j.node \in o.hosts] : j \in late}
                       \cup {[node |-> n, report |-> Report(n), newer |-> FALSE] :
                               n \in {m \in o.hosts : o.job = "timeout"}}
            /\ events' = IF (o.hosts = hosts /\ o.job = "done") \/ ~hosts \subseteq exported
                         THEN events + by ELSE events + 1
  BY DEF Observe
<1> DEFINE mine(d) == {n \in o.hosts : DeviceOf[n] = d}
           seen(d) == IF mine(d) = {} THEN s.device[d]
                      ELSE IF o.job = "done"
                      THEN LET n == CHOOSE x \in mine(d) : TRUE IN Ingested(n, Report(n), FALSE)
                      ELSE IF s.device[d] = Blank THEN Blank ELSE [s.device[d] EXCEPT !.lag = TRUE]
<1>2. /\ o.hosts \subseteq Node
      /\ (o.hosts = hosts /\ o.job = "done") \/ ~hosts \subseteq exported \/ MoreEvents
  <2>1. CASE ~hosts \subseteq exported
    BY <2>1 DEF Observed
  <2>2. CASE hosts \subseteq exported
    BY <2>2 DEF Observed
  <2> QED
    BY <2>1, <2>2
<1>3. \A n \in o.hosts : Report(n) \in Machines
  BY <1>2, ReportTyped DEF TypeOK
<1>4. ASSUME NEW d \in Device
      PROVE  seen(d) \in Devices \cup {Blank}
  <2>1. s.device[d] \in Devices \cup {Blank}
    BY DEF TypeOK, Snapshot
  <2>2. CASE mine(d) = {}
    BY <2>1, <2>2
  <2>3. CASE mine(d) # {} /\ o.job = "done"
    <3> DEFINE n == CHOOSE x \in mine(d) : TRUE
    <3>1. n \in o.hosts
      BY <2>3
    <3>2. Ingested(n, Report(n), FALSE) \in Devices
      BY <1>2, <1>3, <3>1, IngestedTyped
    <3> QED
      BY <2>3, <3>2
  <2>4. CASE mine(d) # {} /\ o.job # "done"
    <3>1. s.device[d] \in Devices => [s.device[d] EXCEPT !.lag = TRUE] \in Devices
      BY DEF Devices
    <3> QED
      BY <2>1, <2>4, <3>1
  <2> QED
    BY <2>2, <2>3, <2>4
<1> DEFINE f == [d \in Device |-> seen(d)]
<1>5. f \in [Device -> Devices \cup {Blank}]
  BY <1>4
<1>6. s' = [s EXCEPT !.device = f, !.guests = @ \ o.hosts]
  BY <1>1
<1> HIDE DEF f, seen, mine
<1>7. s' \in Snapshot
  BY <1>5, <1>6 DEF TypeOK, Snapshot
<1>8. late' \subseteq Jobs
  <2>1. ASSUME NEW j \in late
        PROVE  [j EXCEPT !.newer = @ \/ j.node \in o.hosts] \in Jobs
    <3>1. j \in Jobs
      BY DEF TypeOK
    <3> QED
      BY <3>1 DEF Jobs
  <2>2. ASSUME NEW n \in o.hosts
        PROVE  [node |-> n, report |-> Report(n), newer |-> FALSE] \in Jobs
    BY <1>2, <1>3 DEF Jobs
  <2> QED
    BY <1>1, <2>1, <2>2
<1>9. events' \in 0..MaxEvents
  <2>1. MaxEvents \in Nat /\ events \in 0..MaxEvents
    BY SiteOpsAssumption DEF SiteOpsAssumption, TypeOK
  <2>2. events' \in {events + by, events + 1} /\ (events' = events + by \/ MoreEvents)
    BY <1>1, <1>2
  <2> QED
    BY <2>1, <2>2 DEF MoreEvents
<1> QED
  BY <1>7, <1>8, <1>9

\* What TypeOK says of the round.
RoundOK ==
  /\ DOMAIN round = DOMAIN NoRound /\ round.pc \in {"idle", "bootstrap", "service"}
  /\ round.todo \subseteq round.plan
  /\ round.bootstrap \subseteq Node
  /\ \A a \in round.plan : a.rec = "link_actual_node" =>
       a.target \in Node /\ a.eps # {} /\ a.eps \subseteq Device

\* Only a step that changes the inventory, the round or the apply by hand can end the
\* need for an installed inventory, or begin it.
LEMMA DisturbedTypes ==
  ASSUME TypeOK, Disturb, UNCHANGED <<inventory, apply>>, s' \in Snapshot,
         truth' \in [Node -> Machines], late' \subseteq Jobs, events' \in 0..MaxEvents
  PROVE  TypeOK'
<1>1. RoundOK' /\ round'.pc = round.pc /\ round'.todo \in {round.todo, {}}
  BY DisturbedRound DEF TypeOK, RoundOK
<1>2. round'.pc = "service" /\ round'.todo # {} => round.pc = "service" /\ round.todo # {}
  BY <1>1
<1> QED
  BY <1>1, <1>2 DEF TypeOK, RoundOK, Installed

LEMMA TypeStartRound ==
  ASSUME TypeOK, NEW scope \in Scopes, StartRound(scope)
  PROVE  TypeOK'
<1>1. PICK diffs, plan :
        /\ plan = Plan(s, diffs, scope)
        /\ round' = [pc |-> "bootstrap", scope |-> scope, bootstrap |-> Bootstrap,
                     plan |-> plan, todo |-> plan, clean |-> TRUE,
                     fingerprint |-> Fingerprint(diffs), held |-> Held(diffs),
                     prev |-> IF round.prev = Blank \/ round.prev.scope # scope THEN Blank
                              ELSE round.prev]
  BY DEF StartRound
<1>2. /\ DOMAIN round' = DOMAIN NoRound /\ round'.pc = "bootstrap" /\ round'.todo = plan
      /\ round'.plan = plan /\ round'.bootstrap = Bootstrap
  BY <1>1 DEF NoRound
<1>3. Bootstrap \subseteq Node
  BY DEF Bootstrap
<1>4. ASSUME NEW a \in plan, a.rec = "link_actual_node"
      PROVE  a.target \in Node /\ a.eps # {} /\ a.eps \subseteq Device
  <2>1. a \in LinkActions(s, diffs)
    BY <1>1, <1>4 DEF Plan, ObserveActions, IpamActions, ServiceActions, Act, Actuator
  <2>2. PICK n \in Node : Best(s, n) # {} /\ a = Act("link_actual_node", n, Blank, {}, Best(s, n), LinkCodes)
    BY <2>1 DEF LinkActions, LinkTargets
  <2>3. a.target = n /\ a.eps = Best(s, n)
    BY <2>2 DEF Act
  <2>4. Best(s, n) \subseteq Device
    BY DEF Best, Strong
  <2> QED
    BY <2>2, <2>3, <2>4
<1>5. UNCHANGED <<s, truth, inventory, late, apply, events>>
  BY DEF StartRound
<1> QED
  BY <1>2, <1>3, <1>4, <1>5 DEF TypeOK, Installed

\* Striking an action leaves the round as it was.
LEMMA DoneRound ==
  ASSUME TypeOK, NEW a, Done(a)
  PROVE  RoundOK' /\ round'.pc = round.pc /\ round'.todo = round.todo \ {a}
<1>1. DOMAIN round = {"pc", "scope", "bootstrap", "plan", "todo", "fingerprint", "held", "clean", "prev"}
  BY DEF TypeOK, NoRound
<1>2. round' = [round EXCEPT !.todo = @ \ {a}, !.clean = @ /\ events' = events]
  BY DEF Done
<1>3. /\ DOMAIN round' = DOMAIN round /\ round'.pc = round.pc /\ round'.todo = round.todo \ {a}
      /\ round'.plan = round.plan /\ round'.bootstrap = round.bootstrap
  BY <1>1, <1>2
<1> QED
  BY <1>3 DEF TypeOK, RoundOK

LEMMA LinkTyped ==
  ASSUME TypeOK, NEW a \in round.plan, a.rec = "link_actual_node", Link(a)
  PROVE  s' \in Snapshot
<1> DEFINE d == CHOOSE x \in a.eps : TRUE
<1>1. a.target \in Node /\ a.eps # {} /\ a.eps \subseteq Device
  BY DEF TypeOK
<1>2. d \in Device
  BY <1>1
<1>3. s' = s \/ s' = [s EXCEPT !.node[a.target].device = d]
  BY DEF Link
<1> HIDE DEF d
<1>4. s \in Snapshot
  BY DEF TypeOK
<1>5. s.node[a.target] \in Nodes
  BY <1>1, <1>4 DEF Snapshot
<1>6. [s.node[a.target] EXCEPT !.device = d] \in Nodes
  BY <1>2, <1>5 DEF Nodes
<1>7. [s EXCEPT !.node[a.target] = [s.node[a.target] EXCEPT !.device = d]] \in Snapshot
  BY <1>1, <1>4, <1>6 DEF Snapshot
<1>8. [s EXCEPT !.node[a.target].device = d]
        = [s EXCEPT !.node[a.target] = [s.node[a.target] EXCEPT !.device = d]]
  OBVIOUS
<1> QED
  BY <1>3, <1>4, <1>7, <1>8

LEMMA IpamTyped ==
  ASSUME TypeOK, NEW a, Ipam(a)
  PROVE  s' \in Snapshot
<1> DEFINE asking == {e \in EndpointsOf(a.target) : Codes(IpamGaps(s, e)) \cap IpamCodes # {}}
           wanted == {s.endpoint[e].addr : e \in asking}
<1>1. PICK row \in [wanted -> IpRow] :
        s' = [s EXCEPT
                !.ip = [i \in IpRow |-> IF \E x \in wanted : row[x] = i
                                        THEN CHOOSE x \in wanted : row[x] = i ELSE s.ip[i]],
                !.endpoint = [e \in Endpoint |->
                  IF e \in asking THEN [s.endpoint[e] EXCEPT !.link = row[s.endpoint[e].addr]]
                  ELSE s.endpoint[e]]]
  BY DEF Ipam
<1> DEFINE ip == [i \in IpRow |-> IF \E x \in wanted : row[x] = i
                                  THEN CHOOSE x \in wanted : row[x] = i ELSE s.ip[i]]
           endpoint == [e \in Endpoint |->
                          IF e \in asking THEN [s.endpoint[e] EXCEPT !.link = row[s.endpoint[e].addr]]
                          ELSE s.endpoint[e]]
<1>2. s \in Snapshot
  BY DEF TypeOK
<1>3. s.endpoint \in [Endpoint -> Endpoints] /\ s.ip \in [IpRow -> Addr \cup {Blank}]
  BY <1>2 DEF Snapshot
<1>4. asking \subseteq Endpoint
  BY DEF EndpointsOf
<1>5. wanted \subseteq Addr \cup {Blank}
  BY <1>3, <1>4 DEF Endpoints
<1>6. ip \in [IpRow -> Addr \cup {Blank}]
  <2>1. ASSUME NEW i \in IpRow
        PROVE  ip[i] \in Addr \cup {Blank}
    <3>1. CASE \E x \in wanted : row[x] = i
      <4>1. (CHOOSE x \in wanted : row[x] = i) \in wanted
        BY <3>1
      <4> QED
        BY <1>5, <3>1, <4>1
    <3>2. CASE ~\E x \in wanted : row[x] = i
      BY <1>3, <3>2
    <3> QED
      BY <3>1, <3>2
  <2> QED
    BY <2>1
<1>7. endpoint \in [Endpoint -> Endpoints]
  <2>1. ASSUME NEW e \in asking
        PROVE  [s.endpoint[e] EXCEPT !.link = row[s.endpoint[e].addr]] \in Endpoints
    <3>1. row[s.endpoint[e].addr] \in IpRow /\ s.endpoint[e] \in Endpoints
      BY <1>3, <1>4
    <3> QED
      BY <3>1 DEF Endpoints
  <2> QED
    BY <1>3, <2>1
<1>8. s' = [s EXCEPT !.ip = ip, !.endpoint = endpoint]
  BY <1>1
<1> HIDE DEF ip, endpoint
<1> QED
  BY <1>2, <1>6, <1>7, <1>8 DEF Snapshot

LEMMA TypeBootstrapStep ==
  ASSUME TypeOK, BootstrapStep
  PROVE  TypeOK'
<1>1. PICK a \in NextActions :
        /\ CASE a.rec = "link_actual_node" -> Link(a)
             [] a.rec = "reconcile_ipam" -> Ipam(a)
             [] OTHER -> Observe(a.hosts, round.bootstrap, 0)
        /\ Done(a)
  BY DEF BootstrapStep
<1>2. a \in round.plan
  BY DEF NextActions, TypeOK
<1>3. RoundOK' /\ round'.pc = round.pc /\ UNCHANGED <<truth, inventory, apply>>
  BY <1>1, DoneRound DEF BootstrapStep
<1>4. s' \in Snapshot /\ late' \subseteq Jobs /\ events' \in 0..MaxEvents
  <2>1. CASE a.rec = "link_actual_node"
    <3>1. Link(a)
      BY <1>1, <2>1
    <3> QED
      BY <1>2, <2>1, <3>1, LinkTyped DEF Link, TypeOK
  <2>2. CASE a.rec = "reconcile_ipam"
    <3>1. Ipam(a)
      BY <1>1, <2>2
    <3>2. UNCHANGED <<late, events>>
      BY <3>1 DEF Ipam
    <3> QED
      BY <3>1, <3>2, IpamTyped DEF TypeOK
  <2>3. CASE a.rec \notin {"link_actual_node", "reconcile_ipam"}
    <3>1. Observe(a.hosts, round.bootstrap, 0)
      BY <1>1, <2>3
    <3>2. round.bootstrap \in SUBSET Node
      BY DEF TypeOK
    <3> QED
      BY <3>1, <3>2, ObserveTyped
  <2> QED
    BY <2>1, <2>2, <2>3
<1>5. round'.pc # "service"
  BY <1>3 DEF BootstrapStep
<1> QED
  BY <1>3, <1>4, <1>5 DEF TypeOK, RoundOK, Installed

LEMMA InstallTyped ==
  ASSUME TypeOK, Install
  PROVE  /\ inventory' \in {inventory, Inventory(s)} /\ events' \in 0..MaxEvents
         /\ events' = events => inventory' = Inventory(s)
<1>1. MaxEvents \in Nat /\ events \in 0..MaxEvents
  BY SiteOpsAssumption DEF SiteOpsAssumption, TypeOK
<1> QED
  BY <1>1 DEF Install, MoreEvents

LEMMA TypeRegenerate ==
  ASSUME TypeOK, Regenerate
  PROVE  TypeOK'
<1>1. Installed(Inventory(s))
  BY InventoryTyped DEF TypeOK
<1>2. inventory' \in {inventory, Inventory(s)} /\ events' \in 0..MaxEvents
  BY InstallTyped DEF Regenerate, TypeOK
<1>3. /\ (inventory # Blank => Installed(inventory)) => (inventory' # Blank => Installed(inventory)')
      /\ Installed(inventory) => Installed(inventory)'
  BY <1>1, <1>2 DEF Installed
<1>4. RoundOK' /\ (round'.pc = "service" /\ round'.todo # {} => inventory' = Inventory(s))
  <2>1. DOMAIN round = {"pc", "scope", "bootstrap", "plan", "todo", "fingerprint", "held", "clean", "prev"}
    BY DEF TypeOK, NoRound
  <2>2. CASE round' = NoRound
    BY <2>2 DEF NoRound, RoundOK
  <2>3. CASE round' # NoRound
    <3>1. \/ round' = [round EXCEPT !.pc = "service"] /\ Composes(s) /\ events' = events
          \/ round' = [round EXCEPT !.pc = "service", !.clean = FALSE] /\ round.todo = {}
      BY <2>3 DEF Regenerate
    <3>2. /\ DOMAIN round' = DOMAIN round /\ round'.pc = "service" /\ round'.todo = round.todo
          /\ round'.plan = round.plan /\ round'.bootstrap = round.bootstrap
      BY <2>1, <3>1
    <3>3. Composes(s) /\ events' = events => inventory' = Inventory(s)
      BY InstallTyped DEF Regenerate
    <3> QED
      BY <3>1, <3>2, <3>3 DEF TypeOK, RoundOK
  <2> QED
    BY <2>2, <2>3
<1>5. inventory' = Inventory(s) => Installed(inventory)'
  BY <1>1 DEF Installed
<1> QED
  BY <1>2, <1>3, <1>4, <1>5 DEF TypeOK, RoundOK, Regenerate

LEMMA TypeServiceStep ==
  ASSUME TypeOK, ServiceStep
  PROVE  TypeOK'
<1> DEFINE want == Render(s)
           group(a) == GroupMembers(inventory, a.profile)
           works(a) == IF a.rec = "dnsmasq_config" THEN want # Blank /\ a.hosts \subseteq group(a)
                       ELSE a.hosts \cap inventory.hosts # {}
           all(a) == IF a.rec = "dnsmasq_config"
                     THEN OnHosts([n \in a.hosts |-> Deployed(n, a.profile, want)])
                     ELSE OnHosts([n \in a.hosts \cap inventory.hosts |-> Play(n, a.target, a.profile)])
           part(a) == IF a.rec = "dnsmasq_config"
                      THEN OnHosts([n \in a.hosts |-> SetUp(n, a.profile)]) ELSE truth
<1>1. PICK a \in NextActions :
        /\ \/ works(a) /\ truth' = all(a) /\ UNCHANGED events
           \/ works(a) /\ MoreEvents /\ truth' = part(a) /\ events' = events + 1
           \/ ~works(a) /\ UNCHANGED <<truth, events>>
        /\ Done(a)
  BY DEF ServiceStep
<1>2. Installed(inventory) /\ truth \in [Node -> Machines]
  BY DEF ServiceStep, TypeOK
<1>3. ASSUME works(a), a.rec = "dnsmasq_config"
      PROVE  want \in Content /\ a.hosts \subseteq inventory.hosts
  BY <1>3, RenderTyped DEF TypeOK, GroupMembers
<1>4. ASSUME works(a)
      PROVE  all(a) \in [Node -> Machines] /\ part(a) \in [Node -> Machines]
  <2>1. CASE a.rec = "dnsmasq_config"
    <3>1. \A n \in Node : n \in a.hosts => Deployed(n, a.profile, want) \in Entries
                                           /\ SetUp(n, a.profile) \in Entries
      BY <1>2, <1>3, <1>4, <2>1, DeployedTyped
    <3> DEFINE run == [n \in a.hosts |-> Deployed(n, a.profile, want)]
               started == [n \in a.hosts |-> SetUp(n, a.profile)]
    <3>2. OnHosts(run) \in [Node -> Machines]
      BY <1>2, <3>1, OnHostsTyped
    <3>3. OnHosts(started) \in [Node -> Machines]
      BY <1>2, <3>1, OnHostsTyped
    <3> QED
      BY <2>1, <3>2, <3>3
  <2>2. CASE a.rec # "dnsmasq_config"
    <3> DEFINE run == [n \in a.hosts \cap inventory.hosts |-> Play(n, a.target, a.profile)]
    <3>1. \A n \in Node : n \in DOMAIN run => run[n] \in Entries
      <4>1. SUFFICES ASSUME NEW n \in Node, n \in a.hosts \cap inventory.hosts
                     PROVE  Play(n, a.target, a.profile) \in Entries
        OBVIOUS
      <4>2. truth[n].entries \in Entries
        BY <1>2 DEF Machines
      <4>3. CASE a.target \in Service
        BY <1>2, <4>1, <4>3, DeployedTyped
      <4>4. CASE a.target \notin Service
        BY <4>2, <4>4 DEF Play, Entries
      <4> QED
        BY <4>3, <4>4
    <3>2. OnHosts(run) \in [Node -> Machines]
      BY <1>2, <3>1, OnHostsTyped
    <3> QED
      BY <1>2, <2>2, <3>2
  <2> QED
    BY <2>1, <2>2
<1>5. truth' \in [Node -> Machines]
  BY <1>1, <1>2, <1>4
<1>6. events' \in 0..MaxEvents
  <2>1. MaxEvents \in Nat /\ events \in 0..MaxEvents
    BY SiteOpsAssumption DEF SiteOpsAssumption, TypeOK
  <2>2. events' = events \/ (MoreEvents /\ events' = events + 1)
    BY <1>1
  <2> QED
    BY <2>1, <2>2 DEF MoreEvents
<1>7. RoundOK' /\ UNCHANGED <<s, inventory, late, apply>>
  BY <1>1, DoneRound DEF ServiceStep
<1> QED
  BY <1>2, <1>5, <1>6, <1>7 DEF TypeOK, RoundOK, Installed

LEMMA TypeEndRound ==
  ASSUME TypeOK, EndRound
  PROVE  TypeOK'
<1> DEFINE hosts == UNION {a.hosts : a \in {b \in round.plan : Rank[b.rec] > 3}}
<1>1. \/ UNCHANGED <<s, late, events>>
      \/ Observe(hosts, round.bootstrap, 0)
  BY DEF EndRound
<1>2. round.bootstrap \in SUBSET Node
  BY DEF TypeOK
<1>3. s' \in Snapshot /\ late' \subseteq Jobs /\ events' \in 0..MaxEvents
  BY <1>1, <1>2, ObserveTyped DEF TypeOK
<1>4. RoundOK' /\ round'.pc = "idle"
  BY DEF EndRound, NoRound, RoundOK
<1> QED
  BY <1>3, <1>4 DEF TypeOK, RoundOK, EndRound, Installed

LEMMA TypeObserveOnly ==
  ASSUME TypeOK, ObserveOnly
  PROVE  TypeOK'
<1>1. PICK ready : Observe(ready, Bootstrap, 1)
  BY DEF ObserveOnly
<1>2. Bootstrap \in SUBSET Node /\ MoreEvents /\ Disturb /\ UNCHANGED <<truth, inventory, apply>>
  BY DEF ObserveOnly, Bootstrap
<1>3. s' \in Snapshot /\ late' \subseteq Jobs /\ events' \in 0..MaxEvents
  BY <1>1, <1>2, ObserveTyped
<1> QED
  BY <1>2, <1>3, DisturbedTypes DEF TypeOK

LEMMA TypeObserveAgents ==
  ASSUME TypeOK, ObserveAgents
  PROVE  TypeOK'
<1>1. Collection \in [Agent -> Registration]
  <2>1. ASSUME NEW a \in Agent
        PROVE  Realm[a] \in Registration /\ s.agent[a] \in Agents
    BY SiteOpsAssumption DEF SiteOpsAssumption, TypeOK, Snapshot
  <2> QED
    BY <2>1 DEF Collection, Registration, Agents
<1>2. [s EXCEPT !.seen = Collection] \in Snapshot
  BY <1>1 DEF TypeOK, Snapshot
<1>3. [node |-> Blank, report |-> Collection, newer |-> FALSE] \in Jobs
  BY <1>1 DEF Jobs
<1>4. s' \in Snapshot /\ late' \subseteq Jobs
  BY <1>2, <1>3 DEF ObserveAgents, TypeOK
<1>5. events' \in 0..MaxEvents
  BY SiteOpsAssumption DEF SiteOpsAssumption, ObserveAgents, MoreEvents, TypeOK
<1> QED
  BY <1>4, <1>5, DisturbedTypes DEF TypeOK, ObserveAgents

LEMMA TypeRenderProduction ==
  ASSUME TypeOK, RenderProduction
  PROVE  TypeOK'
<1>1. Installed(Inventory(s))
  BY InventoryTyped DEF TypeOK
<1>2. inventory' \in {inventory, Inventory(s)} /\ events' \in 0..MaxEvents
  BY InstallTyped DEF RenderProduction
<1>3. RoundOK' /\ round'.pc = round.pc /\ round'.todo \in {round.todo, {}}
  BY DisturbedRound DEF RenderProduction, TypeOK, RoundOK
<1>4. round'.pc = "service" /\ round'.todo # {} => round.pc = "service" /\ round.todo # {}
  BY <1>3
<1>5. /\ Installed(inventory) => Installed(inventory)'
      /\ (inventory # Blank => Installed(inventory)) => (inventory' # Blank => Installed(inventory)')
  BY <1>1, <1>2 DEF Installed
<1> QED
  BY <1>2, <1>3, <1>4, <1>5 DEF TypeOK, RoundOK, RenderProduction

LEMMA TypeLateIngest ==
  ASSUME TypeOK, LateIngest
  PROVE  TypeOK'
<1>1. PICK j \in late :
        /\ late' = late \ {j}
        /\ \/ j.node = Blank /\ s' = [s EXCEPT !.seen = j.report]
           \/ /\ j.node # Blank
              /\ s' = [s EXCEPT !.device[DeviceOf[j.node]] = Ingested(j.node, j.report, j.newer)]
  BY DEF LateIngest
<1>2. j \in Jobs /\ s \in Snapshot
  BY DEF TypeOK
<1>3. CASE j.node = Blank
  <2>1. j.report \in [Agent -> Registration]
    BY <1>2, <1>3, SiteOpsAssumption DEF SiteOpsAssumption, Jobs
  <2>2. s' = [s EXCEPT !.seen = j.report]
    BY <1>1, <1>3
  <2> QED
    BY <1>1, <1>2, <2>1, <2>2, DisturbedTypes DEF TypeOK, LateIngest, Snapshot
<1>4. CASE j.node # Blank
  <2>1. j.node \in Node /\ j.report \in Machines /\ j.newer \in BOOLEAN
    BY <1>2, <1>4 DEF Jobs
  <2> DEFINE dev == Ingested(j.node, j.report, j.newer)
  <2>2. dev \in Devices
    BY <2>1, IngestedTyped
  <2>3. s' = [s EXCEPT !.device[DeviceOf[j.node]] = dev]
    BY <1>1, <1>4
  <2> HIDE DEF dev
  <2>4. [s.device EXCEPT ![DeviceOf[j.node]] = dev] \in [Device -> Devices \cup {Blank}]
    BY <1>2, <2>2 DEF Snapshot
  <2>5. s' = [s EXCEPT !.device = [s.device EXCEPT ![DeviceOf[j.node]] = dev]]
    BY <2>3
  <2>6. s' \in Snapshot
    BY <1>2, <2>4, <2>5 DEF Snapshot
  <2> QED
    BY <1>1, <2>6, DisturbedTypes DEF TypeOK, LateIngest
<1> QED
  BY <1>3, <1>4

LEMMA TypeStartApply ==
  ASSUME TypeOK, StartApply
  PROVE  TypeOK'
<1>1. PICK profile :
        apply' = [profile |-> profile, content |-> Render(s), hosts |-> GroupMembers(inventory, profile)]
  BY DEF StartApply
<1>2. apply'.content \in Content
  BY <1>1, RenderTyped DEF StartApply, TypeOK
<1>3. events' \in 0..MaxEvents
  BY SiteOpsAssumption DEF SiteOpsAssumption, StartApply, MoreEvents, TypeOK
<1>4. Installed(inventory) /\ UNCHANGED <<s, truth, inventory, round, late>>
  BY DEF StartApply, TypeOK
<1> QED
  BY <1>2, <1>3, <1>4 DEF TypeOK, Installed

LEMMA TypeEndApply ==
  ASSUME TypeOK, EndApply
  PROVE  TypeOK'
<1> DEFINE run == [n \in apply.hosts \cap inventory.hosts |-> Deployed(n, apply.profile, apply.content)]
<1>1. Installed(inventory) /\ apply.content \in Content /\ truth \in [Node -> Machines]
  BY DEF EndApply, TypeOK
<1>2. \A n \in Node : n \in DOMAIN run => run[n] \in Entries
  BY <1>1, DeployedTyped
<1>3. OnHosts(run) \in [Node -> Machines]
  BY <1>1, <1>2, OnHostsTyped
<1>4. truth' = OnHosts(run) \/ truth' = truth
  BY DEF EndApply
<1>5. truth' \in [Node -> Machines] /\ apply' = Blank /\ UNCHANGED <<s, inventory, late, events>>
  BY <1>1, <1>3, <1>4 DEF EndApply
<1>6. RoundOK' /\ round'.pc = round.pc /\ round'.todo \in {round.todo, {}}
  BY DisturbedRound DEF EndApply, TypeOK, RoundOK
<1> QED
  BY <1>1, <1>5, <1>6 DEF TypeOK, RoundOK, Installed

\* An edit sets one field of what is declared to a value of that field.
LEMMA EditTyped ==
  ASSUME NEW t \in Snapshot, NEW x \in Settings
  PROVE  [t EXCEPT ![x.what][x.key][x.field] = x.value] \in Snapshot
<1> DEFINE u == [t EXCEPT ![x.what][x.key][x.field] = x.value]
<1>1. ASSUME x.what = "node"
      PROVE  u \in Snapshot
  <2>1. /\ x.key \in Node
        /\ [t.node[x.key] EXCEPT ![x.field] = x.value] \in Nodes
    <3>1. x.key \in Node
      BY <1>1 DEF Settings, Setting
    <3>2. t.node[x.key] \in Nodes
      BY <3>1 DEF Snapshot
    <3> QED
      BY <1>1, <3>1, <3>2 DEF Settings, Setting, Nodes, Target
  <2>2. [t EXCEPT !.node = [t.node EXCEPT ![x.key] = [t.node[x.key] EXCEPT ![x.field] = x.value]]] \in Snapshot
    BY <2>1 DEF Snapshot
  <2> QED
    BY <1>1, <2>2
<1>2. ASSUME x.what = "endpoint"
      PROVE  u \in Snapshot
  <2>1. /\ x.key \in Endpoint
        /\ [t.endpoint[x.key] EXCEPT ![x.field] = x.value] \in Endpoints
    <3>1. x.key \in Endpoint
      BY <1>2 DEF Settings, Setting
    <3>2. t.endpoint[x.key] \in Endpoints
      BY <3>1 DEF Snapshot
    <3> QED
      BY <1>2, <3>1, <3>2 DEF Settings, Setting, Endpoints
  <2>2. [t EXCEPT !.endpoint = [t.endpoint EXCEPT ![x.key] =
           [t.endpoint[x.key] EXCEPT ![x.field] = x.value]]] \in Snapshot
    BY <2>1 DEF Snapshot
  <2> QED
    BY <1>2, <2>2
<1>3. ASSUME x.what = "placement"
      PROVE  u \in Snapshot
  <2>1. /\ x.key \in Placement
        /\ [t.placement[x.key] EXCEPT ![x.field] = x.value] \in Placements
    <3>1. x.key \in Placement
      BY <1>3 DEF Settings, Setting
    <3>2. t.placement[x.key] \in Placements
      BY <3>1 DEF Snapshot
    <3> QED
      BY <1>3, <3>1, <3>2 DEF Settings, Setting, Placements
  <2>2. [t EXCEPT !.placement = [t.placement EXCEPT ![x.key] =
           [t.placement[x.key] EXCEPT ![x.field] = x.value]]] \in Snapshot
    BY <2>1 DEF Snapshot
  <2> QED
    BY <1>3, <2>2
<1>4. ASSUME x.what = "service"
      PROVE  u \in Snapshot
  <2>1. [t.service[x.key] EXCEPT ![x.field] = x.value] \in [lifecycle : STRING]
    BY <1>4 DEF Settings, Setting, Snapshot
  <2>2. [t EXCEPT !.service = [t.service EXCEPT ![x.key] =
           [t.service[x.key] EXCEPT ![x.field] = x.value]]] \in Snapshot
    BY <2>1 DEF Snapshot
  <2> QED
    BY <1>4, <2>2
<1>5. ASSUME x.what = "workspace"
      PROVE  u \in Snapshot
  <2>1. [t.workspace[x.key] EXCEPT ![x.field] = x.value] \in [presence : STRING]
    BY <1>5 DEF Settings, Setting, Snapshot
  <2>2. [t EXCEPT !.workspace = [t.workspace EXCEPT ![x.key] =
           [t.workspace[x.key] EXCEPT ![x.field] = x.value]]] \in Snapshot
    BY <2>1 DEF Snapshot
  <2> QED
    BY <1>5, <2>2
<1>6. ASSUME x.what = "agent"
      PROVE  u \in Snapshot
  <2>1. [t.agent[x.key] EXCEPT ![x.field] = x.value] \in Agents
    <3>1. x.key \in Agent
      BY <1>6 DEF Settings, Setting
    <3>2. t.agent[x.key] \in Agents
      BY <3>1 DEF Snapshot
    <3> QED
      BY <1>6, <3>1, <3>2 DEF Settings, Setting, Agents
  <2>2. [t EXCEPT !.agent = [t.agent EXCEPT ![x.key] =
           [t.agent[x.key] EXCEPT ![x.field] = x.value]]] \in Snapshot
    BY <2>1 DEF Snapshot
  <2> QED
    BY <1>6, <2>2
<1>7. x.what \in {"node", "endpoint", "placement", "service", "workspace", "agent"}
  BY DEF Settings, Setting
<1> QED
  BY <1>1, <1>2, <1>3, <1>4, <1>5, <1>6, <1>7

LEMMA TypeEdit ==
  ASSUME TypeOK, NEW x \in Edits, Edit(x)
  PROVE  TypeOK'
<1>1. x \in Settings
  BY SiteOpsAssumption DEF SiteOpsAssumption
<1>2. s' \in Snapshot
  BY <1>1, EditTyped DEF Edit, TypeOK
<1>3. events' \in 0..MaxEvents
  BY SiteOpsAssumption DEF SiteOpsAssumption, Edit, MoreEvents, TypeOK
<1> QED
  BY <1>2, <1>3, DisturbedTypes DEF TypeOK, Edit

LEMMA TypeBreak ==
  ASSUME TypeOK, NEW n \in Node, Break(n)
  PROVE  TypeOK'
<1>1. truth[n] \in Machines
  BY DEF TypeOK
<1>2. truth' \in [Node -> Machines]
  <2>1. CASE \E v \in Service : /\ truth[n].entries[v] # Blank
                                /\ truth' = [truth EXCEPT ![n].entries[v].state = "stopped"]
    <3>1. PICK v \in Service : /\ truth[n].entries[v] # Blank
                               /\ truth' = [truth EXCEPT ![n].entries[v].state = "stopped"]
      BY <2>1
    <3>2. truth[n].entries \in [Service -> Entry \cup {Blank}]
      BY <1>1 DEF Machines, Entries
    <3>3. [truth[n].entries[v] EXCEPT !.state = "stopped"] \in Entry
      BY <3>1, <3>2 DEF Entry
    <3>4. [truth[n].entries EXCEPT ![v] = [truth[n].entries[v] EXCEPT !.state = "stopped"]] \in Entries
      BY <3>2, <3>3 DEF Entries
    <3>5. [truth[n] EXCEPT !.entries = [truth[n].entries EXCEPT ![v] =
             [truth[n].entries[v] EXCEPT !.state = "stopped"]]] \in Machines
      BY <1>1, <3>4 DEF Machines
    <3> QED
      BY <3>1, <3>5 DEF TypeOK
  <2>2. CASE \E w \in Workspace : /\ truth[n].spaces[w] # Blank
                                  /\ truth' = [truth EXCEPT ![n].spaces[w].present = FALSE]
    <3>1. PICK w \in Workspace : /\ truth[n].spaces[w] # Blank
                                 /\ truth' = [truth EXCEPT ![n].spaces[w].present = FALSE]
      BY <2>2
    <3>2. truth[n].spaces \in [Workspace -> Space \cup {Blank}]
      BY <1>1 DEF Machines, Spaces
    <3>3. [truth[n].spaces[w] EXCEPT !.present = FALSE] \in Space
      BY <3>1, <3>2 DEF Space, Flag
    <3>4. [truth[n].spaces EXCEPT ![w] = [truth[n].spaces[w] EXCEPT !.present = FALSE]] \in Spaces
      BY <3>2, <3>3 DEF Spaces
    <3>5. [truth[n] EXCEPT !.spaces = [truth[n].spaces EXCEPT ![w] =
             [truth[n].spaces[w] EXCEPT !.present = FALSE]]] \in Machines
      BY <1>1, <3>4 DEF Machines
    <3> QED
      BY <3>1, <3>5 DEF TypeOK
  <2>3. CASE truth' = [truth EXCEPT ![n].ip = Garbled]
    <3>1. [truth[n] EXCEPT !.ip = Garbled] \in Machines
      BY <1>1 DEF Machines, Reported
    <3> QED
      BY <2>3, <3>1 DEF TypeOK
  <2> QED
    BY <2>1, <2>2, <2>3 DEF Break
<1>3. events' \in 0..MaxEvents
  BY SiteOpsAssumption DEF SiteOpsAssumption, Break, MoreEvents, TypeOK
<1> QED
  BY <1>2, <1>3, DisturbedTypes DEF TypeOK, Break

\* Evidence that ages stays evidence.
LEMMA AgedEntryTyped ==
  ASSUME NEW entry \in Entry
  PROVE  AgedEntry(entry) \in Entry
<1> DEFINE f == [b \in DOMAIN entry.bound |-> AgedOne(entry.bound[b])]
<1>1. entry.bound \in Bounds
  BY DEF Entry
<1>2. DOMAIN entry.bound \in SUBSET BindingName /\ entry.bound \in [DOMAIN entry.bound -> Bound]
  BY <1>1, BoundsDomain
<1>3. \A x \in Bound : AgedOne(x) \in Bound
  BY DEF Bound, Ages, Older, AgedOne
<1>4. f \in [DOMAIN entry.bound -> Bound]
  BY <1>2, <1>3
<1>5. f \in Bounds
  BY <1>2, <1>4, BoundsTyped
<1>6. AgedEntry(entry) = [entry EXCEPT !.bound = f]
  BY DEF AgedEntry
<1> HIDE DEF f
<1> QED
  BY <1>5, <1>6 DEF Entry

LEMMA AgedTyped ==
  ASSUME NEW dev \in Devices
  PROVE  Aged(dev) \in Devices
<1> DEFINE spaces == [w \in Workspace |-> IF dev.spaces[w] = Blank THEN Blank
                                          ELSE AgedOne(dev.spaces[w])]
           entries == [v \in Service |-> IF dev.entries[v] = Blank THEN Blank
                                         ELSE AgedEntry(dev.entries[v])]
<1>1. spaces \in Spaces
  <2>1. dev.spaces \in [Workspace -> Space \cup {Blank}]
    BY DEF Devices, Spaces
  <2>2. \A x \in Space : AgedOne(x) \in Space
    BY DEF Space, Ages, Older, AgedOne
  <2> QED
    BY <2>1, <2>2 DEF Spaces
<1>2. entries \in Entries
  <2>1. dev.entries \in [Service -> Entry \cup {Blank}]
    BY DEF Devices, Entries
  <2> QED
    BY <2>1, AgedEntryTyped DEF Entries
<1>3. Aged(dev) = [dev EXCEPT !.age = Older[@], !.svcAge = Older[@], !.spaces = spaces, !.entries = entries]
  BY DEF Aged
<1> HIDE DEF spaces, entries
<1>4. Older[dev.age] \in Ages /\ Older[dev.svcAge] \in Ages
  BY DEF Devices, Ages, Older
<1> QED
  BY <1>1, <1>2, <1>3, <1>4 DEF Devices

LEMMA TypeAge ==
  ASSUME TypeOK, Age
  PROVE  TypeOK'
<1> DEFINE f == [d \in Device |-> IF s.device[d] = Blank THEN Blank ELSE Aged(s.device[d])]
<1>1. s.device \in [Device -> Devices \cup {Blank}]
  BY DEF TypeOK, Snapshot
<1>2. f \in [Device -> Devices \cup {Blank}]
  BY <1>1, AgedTyped
<1>3. s' = [s EXCEPT !.device = f]
  BY DEF Age
<1> HIDE DEF f
<1>4. s' \in Snapshot
  BY <1>2, <1>3 DEF TypeOK, Snapshot
<1> QED
  BY <1>4, DisturbedTypes DEF TypeOK, Age

LEMMA TypeStep == TypeOK /\ [Next]_vars => TypeOK'
<1> SUFFICES ASSUME TypeOK, [Next]_vars PROVE TypeOK'
  OBVIOUS
<1>1. CASE UNCHANGED vars
  BY <1>1 DEF vars, TypeOK, Installed
<1>2. CASE Next
  BY <1>2, TypeStartRound, TypeBootstrapStep, TypeRegenerate, TypeServiceStep, TypeEndRound,
     TypeObserveOnly, TypeObserveAgents, TypeRenderProduction, TypeLateIngest, TypeStartApply,
     TypeEndApply, TypeEdit, TypeBreak, TypeAge DEF Next
<1> QED
  BY <1>1, <1>2

\* Nautobot, the machines and the control node only ever hold what their types allow,
\* whatever is edited, observed late, applied by hand or broken, and a service phase or
\* an apply by hand always finds an installed inventory.
THEOREM SiteTyped == Spec => []TypeOK
<1> QED
  BY TypeInit, TypeStep, PTL DEF Spec

----------------------------------------------------------------------------
(* A report without errors is a true one. *)

\* Where all is converged no placement has a code: every gap of a placement is an error.
LEMMA ConvergedPlacements ==
  ASSUME NEW t, AllConverged(Diffs(t)), NEW p \in Active(t)
  PROVE  PlacementCodes(t, p, Render(t), ConvergedProviders(t, Render(t))) = {}
<1> DEFINE want == Render(t)
           converged == ConvergedProviders(t, want)
           v == PlacedService[p]
<1>1. p \in Placement /\ p \in Providers(t, v) /\ v \in Service
  BY SiteAssumption DEF SiteAssumption, Active, Providers
<1> SUFFICES ASSUME NEW c \in PlacementCodes(t, p, want, converged) PROVE FALSE
  OBVIOUS
<1> DEFINE g == [code |-> c, severity |-> SeverityOf(c), at |-> p]
           d == [Diff("service", v, g.code, DiffSeverity(g)) EXCEPT !.at = g.at]
<1>2. g \in ServiceGaps(t, v, want, converged)
  <2> DEFINE gaps(q) == {[code |-> x, severity |-> SeverityOf(x), at |-> q] :
                           x \in PlacementCodes(t, q, want, converged)}
  <2>1. g \in gaps(p)
    OBVIOUS
  <2>2. gaps(p) \in {gaps(q) : q \in Providers(t, v)}
    BY <1>1
  <2>3. g \in UNION {gaps(q) : q \in Providers(t, v)}
    BY <2>1, <2>2
  <2> HIDE DEF g, v, want, converged
  <2> QED
    BY <2>3 DEF ServiceGaps
<1>3. d \in ServiceDiffs(t)
  <2> DEFINE diffs(x) == {[Diff("service", x, y.code, DiffSeverity(y)) EXCEPT !.at = y.at] :
                            y \in ServiceGaps(t, x, want, converged)}
  <2> HIDE DEF g, v
  <2>1. d \in diffs(v)
    BY <1>2
  <2>2. diffs(v) \in {diffs(x) : x \in Service}
    BY <1>1
  <2>3. d \in UNION {diffs(x) : x \in Service}
    BY <2>1, <2>2
  <2> HIDE DEF d
  <2> QED
    BY <2>3 DEF ServiceDiffs
<1>4. d \in Diffs(t)
  BY <1>3 DEF Diffs
<1>5. DiffSeverity(g) = "error"
  BY DEF DiffSeverity, SeverityOf
<1>6. d.severity = "error"
  BY <1>5 DEF Diff
<1>7. d \in {x \in ErrorsOf(Diffs(t)) : x.kind = d.kind /\ x.target = d.target}
  BY <1>4, <1>6 DEF ErrorsOf
<1> HIDE DEF d
<1>8. Status(Diffs(t), d.kind, d.target, {}) # "converged"
  BY <1>7 DEF Status
<1> QED
  BY <1>4, <1>8 DEF AllConverged

\* Of a placement nctl manages on a node of the composition, and of which nctl believes
\* what is so, what has no code is as declared.
LEMMA ConvergedIsTrue ==
  ASSUME TypeOK, NEW p \in Ours, Believed(PlacedNode[p]),
         PlacementCodes(s, p, Render(s), ConvergedProviders(s, Render(s))) = {}
  PROVE  AsDeclared(p)
<1> DEFINE n == PlacedNode[p]
           v == PlacedService[p]
           d == Realized(s, n)
           pl == s.placement[p]
           te == truth[n].entries[v]
           entry == s.device[d].entries[v]
           want == Render(s)
           converged == ConvergedProviders(s, want)
           seen(b) == IF entry = Blank \/ b \notin DOMAIN entry.bound THEN Blank ELSE entry.bound[b]
<1>1. /\ p \in Active(s) /\ p \in Placement /\ n \in Node /\ v \in Service
      /\ pl.mode = "nctl_managed" /\ n \in Included(s)
  BY SiteAssumption DEF SiteAssumption, Ours, Active
<1>2. d # NoDevice /\ s.device[d].entries = Report(n).entries
  BY DEF Believed
<1>3. truth \in [Node -> Machines] /\ truth[n].entries \in [Service -> Entry \cup {Blank}]
  BY <1>1 DEF TypeOK, Machines, Entries
<1>4. te \in Entry \cup {Blank} /\ entry = IF te = Blank THEN Blank ELSE Probed(n, v, te)
  BY <1>1, <1>2, <1>3, ReportTyped
<1>5. te # Blank => /\ te \in Entry /\ entry \in Entry /\ entry # Blank /\ entry.state = te.state
                    /\ entry.file = IF Looked(n, v) /\ te.file = Blank THEN Missing ELSE te.file
                    /\ DOMAIN entry.bound = DOMAIN te.bound
                    /\ \A b \in DOMAIN te.bound : /\ te.bound[b] \in Bound
                                                  /\ entry.bound[b].config = te.bound[b].config
                                                  /\ entry.bound[b].endpoint = te.bound[b].endpoint
  <2> HIDE DEF n, v, te, entry
  <2>1. SUFFICES ASSUME te \in Entry, entry = Probed(n, v, te)
                 PROVE  /\ entry \in Entry /\ entry # Blank /\ entry.state = te.state
                        /\ entry.file = IF Looked(n, v) /\ te.file = Blank THEN Missing ELSE te.file
                        /\ DOMAIN entry.bound = DOMAIN te.bound
                        /\ \A b \in DOMAIN te.bound :
                             /\ te.bound[b] \in Bound
                             /\ entry.bound[b].config = te.bound[b].config
                             /\ entry.bound[b].endpoint = te.bound[b].endpoint
    BY <1>4
  <2>2. entry \in Entry
    BY <2>1, ProbedEntry
  <2>3. entry # Blank
    BY <2>2, SiteOpsAssumption DEF SiteOpsAssumption
  <2> QED
    BY <2>1, <2>2, <2>3, ProbedEntry
<1>6. /\ ProcessCodes(pl, entry) = {}
      /\ ChecksContent(s, v, want) => ContentCodes(entry, want) = {}
      /\ \A c \in BindingChecks(s, p, converged) : BindingState(seen(c.name), c.endpoint, c.converged) = {}
  BY <1>1, <1>2 DEF PlacementCodes
<1>7. CASE pl.run = "stopped"
  <2>1. entry = Blank \/ entry.state # "running"
    BY <1>1, <1>6, <1>7 DEF ProcessCodes
  <2>2. te = Blank \/ te.state # "running"
    BY <1>5, <2>1
  <2> QED
    BY <1>7, <2>2 DEF AsDeclared
<1>8. CASE pl.run # "stopped"
  <2>1. entry # Blank /\ entry.state \in {"running", "present"}
    BY <1>1, <1>6, <1>8 DEF ProcessCodes
  <2>2. te # Blank
    BY <1>4, <2>1
  <2>3. te.state = "running"
    BY <1>5, <2>1, <2>2 DEF Entry
  <2>4. ASSUME NEW b \in Bindings[p]
        PROVE  te.bound[b.name].config = "set" /\ te.bound[b.name].endpoint = BoundTo(s, b)
    <3>1. <<p, b>> \in NodeBindings(s, n)
      BY <1>1 DEF NodeBindings, PlacementsOf
    <3> DEFINE r == <<p, b>>
    <3>2. BindingProblem(s, p, b) = ""
      <4>1. r \in NodeBindings(s, n) /\ r[1] = p /\ r[2] = b
        BY <3>1
      <4> HIDE DEF r, n
      <4>2. BindingProblem(s, r[1], r[2]) = ""
        BY <1>1, <4>1, IncludedResolves
      <4> QED
        BY <4>1, <4>2
    <3> DEFINE c == [name |-> b.name, endpoint |-> BoundTo(s, b), converged |-> b.provider \in converged]
    <3>3. c \in BindingChecks(s, p, converged)
      BY <3>2 DEF BindingChecks, ResolvedBindings
    <3>4. BindingState(seen(b.name), BoundTo(s, b), b.provider \in converged) = {}
      BY <1>6, <3>3
    <3>5. seen(b.name) # Blank /\ seen(b.name).endpoint = BoundTo(s, b)
      BY <3>4 DEF BindingState
    <3>6. b.name \in DOMAIN entry.bound /\ entry.bound[b.name].endpoint = BoundTo(s, b)
      BY <3>5
    <3>7. te.bound[b.name] \in Bound /\ te.bound[b.name].endpoint = BoundTo(s, b)
      BY <1>5, <2>2, <3>6
    <3> QED
      BY <3>7 DEF Bound
  <2>5. ASSUME PlacedProfile[p] \in ManagedProfile, want # Blank
        PROVE  te.file # Blank /\ te.file.content = want
    <3>1. p \in Providers(s, v)
      BY <1>1 DEF Providers
    <3>2. ChecksContent(s, v, want)
      BY <2>5, <3>1 DEF ChecksContent
    <3>3. ContentCodes(entry, want) = {}
      BY <1>6, <3>2
    <3>4. entry.file # Blank /\ entry.file.status # "missing"
      BY <2>1, <3>3 DEF ContentCodes
    <3>5. entry.file = te.file
      <4> HIDE DEF te, entry, n, v
      <4>1. entry.file = Missing \/ entry.file = te.file
        BY <1>5, <2>2
      <4>2. Missing.status = "missing"
        BY DEF Missing
      <4> QED
        BY <3>4, <4>1, <4>2
    <3>6. te.file \in File
      BY <1>5, <2>2, <3>4, <3>5 DEF Entry
    <3>7. entry.file.path = "current" /\ entry.file.status = "present"
      BY <3>4, <3>5, <3>6 DEF File
    <3>8. entry.file.content = want
      BY <2>1, <3>3, <3>4, <3>7 DEF ContentCodes
    <3> QED
      BY <3>4, <3>5, <3>8
  <2> QED
    BY <1>8, <2>2, <2>3, <2>4, <2>5 DEF AsDeclared
<1> QED
  BY <1>7, <1>8

\* While the evidence shows the machines as they are, a report without errors says that
\* every managed placement of an included node runs as declared: its state, its providers
\* and its file, in every state of every site.
THEOREM ConvergenceIsTrue == Spec => []NoFalseConvergence
<1>1. TypeOK => NoFalseConvergence
  <2>1. SUFFICES ASSUME TypeOK, \A n \in Node : Believed(n), AllConverged(Diffs(s)), NEW p \in Ours
                 PROVE  AsDeclared(p)
    BY DEF NoFalseConvergence
  <2>2. p \in Active(s) /\ PlacedNode[p] \in Node
    BY SiteAssumption DEF SiteAssumption, Ours, Active
  <2> QED
    BY <2>1, <2>2, ConvergedPlacements, ConvergedIsTrue
<1> QED
  BY <1>1, SiteTyped, PTL
=============================================================================
