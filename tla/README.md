# nctl in TLA+

`nctl` drives a small cluster towards the state kept in Nautobot: it compares desired and actual
state, plans actions, runs Ansible playbooks and ledger writes, observes the hosts and reports what
it found. This directory models the parts of it in which order, failure and concurrency decide
whether the report is true: TLA+ modules translated from the Python source, TLC configurations that
check them on small instances, and TLAPS proofs of the safety properties for all instances. Paths
below are relative to `src/src/nctl_core/` unless they start with `src/`.

    tlc -config MCReconcile.cfg MCReconcile         # model-check
    tlapm ReconcileSafetyProofs.tla                 # check proofs

`PROJECT.json` lists the components, the runs, the source lines of every definition (`map`), a
broken variant of the code for every checked property (`mutants`), the hazards and the theorems.

## 1. The system

| component (source) | state it keeps | operations | how it interacts |
|---|---|---|---|
| Reconcile executor (`reconcile/executor.py`, `results.py`, `fingerprint.py`, `model.py`) | the round, this round's drift and plan, the summary, the final drift, the terminal state; an interrupt flag | `run_reconcile`: plan mode, or lock, then rounds of fetch, plan, gate, act, observe; `_finish` | calls every component below; signals set the flag |
| Planner (`planner.py`, `classify.py`, `reconcilers.py`, `registry.py`) | none | diffs of a scope to actions, findings, dependencies, a topological order | pure functions of drift and snapshot |
| SSH preflight (`ssh_preflight.py`) | none | enrollment gate, host-key scans over mDNS and over production routes | reads the managed store; may be outdated by `ssh enroll` |
| Actions (`reconcile/actions/*`, `ledger.py`) | none | one handler per reconciler; each returns success, mutated, terminal errors | Nautobot writes, playbooks, compute platforms |
| Reconcile lock (`lock.py`) | a flock | acquire or fail, release | taken by `reconcile --yes`; `ssh enroll --yes` uses the same code on `ssh.lock` |
| Event log and index (`events.py`, `operations_index.py`, `artifacts.py`) | one JSON-lines file per operation, `result.json` | numbered appends; list, show; `close` of an operation whose owner died | written by every command, read and closed by other processes without a lock |
| SSH enrollment (`ssh_enroll.py`, `ssh_trust.py`) | the managed `known_hosts` file | scan, verify against evidence, plan or rewrite the file | several operators at once; reconcile reads the file |
| Observation (`observation.py`, `observe_only.py`) | dumps per host | run collection, ingest, judge freshness | playbooks, Nautobot jobs; reconcile sees one outcome |
| Job runner (`jobs.py`) | none local; a job on the Nautobot server | start, poll with a timeout, download | the remote job outlives a timeout |
| Prune (`retirement_prune.py`, `desired_write.py`, `lifecycle.py`) | ledger rows and the operator's input file | eligibility, deletion on two sides, retry | other writers of the ledger |
| dnsmasq (`dnsmasq.py`, `dnsmasq_apply.py`) | rendered config | render, apply | same playbooks as reconcile, not its lock |
| Compute (`compute/`) | guests on a platform | inspect, create, confirm, link, destroy | handlers of reconcile |
| Production inventory (`production/`, `production_render.py`) | rendered inventory | service dependencies, routes, render | regenerated inside a round |
| Drift (`drift/`) | none | compare, status, severity | fetched by reconcile |
| Sources, configuration, CLI, renders, sessions, Ansible invocation | caches and files | reading, parsing, formatting, external processes | — |

What is hard, and what must hold:

* **Executor.** What a run knows ages while it works. Its actions change the cluster, an observation
  may reveal drift that was invisible, a handler may mutate and then fail, a signal may come between
  any two steps, and each of a dozen calls may fail at its own place in the round. A verdict
  "converged" must stand on drift fetched after everything the run did; a failed run must say what it
  changed and fetch the drift again, or say that it does not know; enrollment and route checks must
  come before every contact; nothing may start after an interrupt; a healthy run must not be cut
  short by the loop's own stops; every run must end.
* **Event log.** Writers swallow I/O errors, processes die inside a write, and `ops close` judges and
  appends without a lock. Readers must lose only what was on the spoilt line, must find `result.json`
  when they see `finished`, and a dead operation must be closable.
* **SSH enrollment.** The whole file is rewritten from lines read earlier, while other enrollments
  run and hosts change keys. A key must never be trusted on a scan alone, one enrollment must not
  change another host's lines, and a reported enrollment must leave the host usable.
* **Planner and drift.** Comparators, composer, dnsmasq render and planner each evaluate the same snapshot
  on their own, with tables that must agree: a host the planner takes for usable must be one the composer
  composes; a blocked file must be one the report names; an error must end in an action or a finding; a
  report without errors must be true; a round without progress must not hide work.
* **Rounds over time.** Ingest jobs time out and finish late, renders and applies run without the lock,
  services die, evidence ages: repeated runs must still bring the machines to what is declared.
* **Compute and prune.** A guest is created, linked, destroyed and forgotten in steps that fail one by one,
  while operators edit lifecycle and presence and prune deletes rows without a lock. Nothing may be
  destroyed that was not asked for, and no guest may be lost from sight.

Every hazard, at its line and with the property that covers it, is in `PROJECT.json`.

## 2. Modules

| module | what it is |
|---|---|
| `Reconcile` | one run of `nctl reconcile`: the executor, with planner, handlers, gate and scans as it sees them |
| `RunContract` | what a run promises whoever reads its result; `Reconcile` refines it |
| `ReconcileInvariant` | the inductive invariant of `Reconcile`, one part per property |
| `ReconcileProofs`, `ReconcileSafetyProofs` | proofs: types; safety, healthy runs and the refinement |
| `MCReconcile`, `MCReconcileSite` | two small clusters for TLC; the first assumes `Layered`, which TLC evaluates |
| `OperationLog`, `OperationLogProofs` | the log of one operation, its writer, readers and closers; proofs |
| `SshEnroll`, `SshEnrollProofs`, `MCSshEnroll` | concurrent `nctl ssh enroll` commands; proofs; constants for TLC |
| `Site` | the snapshot every command evaluates: desired intent and actual ledger |
| `IntentDrift`, `ServiceDrift`, `AgentDrift` | the evaluators of nodes, endpoints and ranges; of services, files and bindings; of workspaces and agents |
| `Dnsmasq`, `Production` | the dnsmasq records file; the production inventory with routes and service dependencies |
| `Drift` | the comparators: what is reported, under which code and severity, and a target's status |
| `Planner` | scope, classification, actions, findings, dependencies, fingerprint |
| `SiteTypes` | the sets the values of a site are taken from |
| `SiteOps`, `MCSite` | the programs at work on a site: rounds, observation, jobs, applies, edits, time; a site for TLC |
| `SiteInvariant` | what a clean round accounts for and leaves on the machines, and the sites for which it is proved |
| `SiteProofs`, `SiteTruthProofs`, `SiteRoundProofs` | proofs: of what one snapshot means; of the types of a site, and that a report without errors is true; of rounds |
| `ComputeDrift` | match, disposition, diffs and planned actions of compute guests |
| `Guests`, `GuestsProofs`, `MCGuests` | the life of guests across rounds, prune and operators; proofs; a platform for TLC |

Operators named as a *Variant* or a *Mutant* in a comment are never used by a specification: each is a broken form
of the definition that follows it, named by a mutant in `PROJECT.json`.

### Reconcile

`pc` is the place in `_run_apply` / `_execute_round`, and one action stands for one stretch of code
between two points where something else can happen:

| `pc` | action | code |
|---|---|---|
| prepare, plan_only, lock | `Prepare`, `PlanOnly`, `AcquireLock` | `run_reconcile`, `_run_plan`, `acquire_reconcile_lock` |
| round | `FetchDrift`, `RoundsExhausted` | top of the loop, its `else` |
| plan | `DecideRound` | classification, nothing to do, global finding, no action left, no progress |
| enrollment, mdns_scan, start | `CheckEnrollment`, `ScanBootstrapRoutes`, `StartRound` | gate, first scan, plan artifact |
| bootstrap | `StartAction`, `CompleteAction`, `InterruptRound`, `Regenerate` | bootstrap phase and regeneration of the inventory |
| service_scan, service | `ScanServiceRoutes`, `StartAction`, `CompleteAction`, `ServiceActionsDone` | second scan, service phase |
| observe | `SkipPostObservation`, `StartPostObservation`, `CompletePostObservation` | post-actuation observation |
| outcome, refresh, report | `RoundOutcome`, `RefreshFinalDrift`, `Report` | what the loop does with the outcome; the final fields; `_finish` |

The cluster's true drift is a set of diffs, `world`. A fetch copies it to `seen`; the plan is a
function of `seen` (`Claims`: which diffs call for which action). An action that succeeds resolves
what it claims and may reveal more (`Reveals`, for example an observation). An action that fails may
have resolved part of it. `Outcomes` gives for each reconciler the (success, mutated, terminal)
triples its handler in `actions/` can return. The environment interrupts, crashes the process,
enrolls hosts and makes up to `MaxDisturbances` changes of its own. The variables `acted`,
`touched`, `rendered`, `refreshed` and `clean` are history: no guard reads them, except that `clean`
selects the runs `CleanRunConverges` speaks of.

`RunContract` is a machine of six phases: a run looks, acts, looks again; "clear" is said only
straight from a look that nothing has outdated; any other end is always allowed. `KeepsContract`
maps a place of the loop to a phase, "no action since the last fetch" to `informed` and the terminal
state to a verdict.

### OperationLog

The file is a sequence of lines. `Written` appends one; `Cut` is a write that stopped inside a line,
so the file has no final newline and the next append joins that line (`LinesWith`); `Lost` is a write
that left nothing. The owner numbers an event before it writes it and goes on when the write failed
(`emit`, `_write`); the end of a reconcile persists `result.json` and then emits `finished`
(`PersistResult`, `EmitFinished`; other commands only have the second). It may die between writes or
inside one. `Shown` is what `read_events` returns, `Running` and `Finished` what `load_operation`
makes of it. `StartClose` is `close_operation` up to its append, `AppendClose` the append: between
the two anybody else may write.

### SshEnroll

Each member of `Enrollers` is a command: `Start` (host lookup; with `--yes` the non-blocking lock),
`Scan` (it fails, or any part of the offered keys answers), `Verify` (`select_verified_offered_keys`),
`Decide` (read the store, strictly; enroll, noop or conflict), `Write` (the lines read, without the
node's own and its obsolete `[alias]:port` ones, plus the verified keys), `Return`. A dry plan takes no
lock. Hosts change keys, a hand edit leaves a line the strict reader refuses, and a command may be
killed anywhere before its write is in place. `vouched` is history: the keys for which a scan and an
operator's evidence agreed, or that were in the store at the start.

### The site: `Site` to `SiteOps`

`Site` fixes the record `s` a command reads. Everything up to `Planner` is a function of it, in the order
of the code: evaluators return gaps (`NodeGaps`, `EndpointGaps`, `ServiceGaps`, `SpaceCodes`,
`AgentCodes`), `Production` composes the inventory or says why a host is left out (`Outcome`) or nothing
is composed (`Composes`), `Dnsmasq` renders the file or names the endpoints that block it (`Blockers`),
`Drift` turns all of it into diffs `[kind, target, at, code, severity]`, `Planner` into actions
`[rec, target, profile, hosts, eps, codes]` and findings. Services are evaluated twice, as in
`evaluate_all_services`: a first pass says which providers converged, the second judges bindings by it.
Ages are classes (never, fresh, aging, stale), addresses small numbers, a file the set of its lines.

`SiteOps` keeps apart what Nautobot holds (`s`) and what the machines are (`truth`); an observation is the
only way from one to the other.

| action | code |
|---|---|
| `StartRound` | plan of a scope (`_run_apply`): composed, not refused, every host action names a host |
| `BootstrapStep` | `execute_link_actual_node`, `execute_reconcile_ipam`, `run_observation`, in `topological_order` |
| `Regenerate` | the inventory rendered from a fresh snapshot, staged, validated, replaced (`write_validated_inventory`) |
| `ServiceStep` | playbooks per host; for dnsmasq the setup, then the deploy of the rendered file |
| `EndRound` | the post-actuation observation |
| `LateIngest` | a job nctl gave up on ends, perhaps behind a newer report |
| `ObserveOnly`, `ObserveAgents`, `RenderProduction` | `nctl observe` (under the lock); `nctl agents observe`, which reads the chat server (`Realm`) and ingests what it says (no lock); `nctl render production --out` (no lock) |
| `StartApply`, `EndApply` | `nctl apply dnsmasq` (no lock): render, then deploy |
| `Edit`, `Break`, `Age` | operators, failing machines, time |

`round.clean`, `round.prev` and `events` are bookkeeping: the properties read the first two, the bound the
third.

### Guests

`ComputeDrift` reads the ledger of one platform: the match of a guest (link, else vmid, else a unique
name), its disposition, its diffs and the actions planned. `Guests` has a round (`StartRound`, `LinkCheck`
and `LinkWrite`, `Create`, `Destroy`, `Refresh`, `PostObserve`, `Die`), a prune (`StartPrune`, `NoopPrune`,
`ConfirmPrune`, `DeleteRoot`, `DeleteDesired`, `UpdateInput`) and the operator (`SetLifecycle`,
`SetPresence`, `Redeclare`, `ByHand`). A round takes the lock, so one runs at a time; prune and operators
interleave with its steps. `hyper` is the hypervisor; `rows` is what the ingest made of it; `dirty` is
history: the guests edited since the round read its snapshot.

## 3. Runs

| run | question | distinct states |
|---|---|---|
| `reconcile_core` (`MCReconcile.cfg`) | one run over a link, an observation and a service action, four rounds, all failures and interrupts: are verdict, gates, report and refinement right, and does a healthy run converge? | 314,652 |
| `reconcile_site` (`MCReconcileSite.cfg`) | the same over compute, IPAM and dependent service actions, a global finding, an unclassified code and one change by others; does the inductive invariant of the proofs hold, and does every run end? | 663,015 |
| `operation_log` (`OperationLog.cfg`) | what do readers see while two operators close a log whose writer lives or dies and two writes go wrong? | 161,683 |
| `ssh_enroll` (`MCSshEnroll.cfg`) | two enrollments at once, on every store, with one key change or hand edit | 2,353,164 |
| `guests` (`MCGuests.cfg`) | two guests, at most one of them retired and absent from the start, one edit and one failing call: is only what was asked for destroyed, and is every guest found again? | 140,963 |
| `site` (`MCSite.cfg`) | a DNS server, its consumer and an exporter on two nodes, one of them never observed, with one edit, failure, break or command by hand: do the parts agree, does a round do what it planned, and do repeated runs converge on the machines? | 67,636 |
| `finding_stops_doc`, `final_drift_comment`, `observation_route_doc`, `close_settles_doc`, `enroll_finished_doc`, `independent_targets_doc` | statements of the documentation that the code does not keep (section 6) | stop at a violation |

Properties, by what they would catch:

* `VerdictIsFresh`, `TerminalRefresh`, `ProgressAccounted` — a report about the past: a verdict on drift
  older than an action, a dead round whose mutations are not in the final drift, or are not counted.
* `EnrollmentBeforeWrites`, `ServiceOnVerifiedRoute` — a gate that comes too late, or checks another
  round's or another route's evidence.
* `RefreshEvidence` — "converged" on evidence the operator asked to have renewed.
* `InterruptStopsPlan` — an action property over all phases.
* `CleanRunConverges` — no-progress or round limits that cut a healthy run short.
* `KeepsContract` — refinement of `RunContract`; `Terminates` — every run ends.
* `OwnEventsInOrder`, `LossIsBounded`, `HistoryKept`, `ResultBeforeFinished`, `DeadRunsSettle` — what
  a reader of a log may rely on, and that closing works in the end.
* `TrustedOnly`, `OnlyOwnLines`, `EnrolledIsReady` — what may enter the store, by whom, and what a
  reported enrollment means.
* `PinnedUnlessEdited` — a destroy carried over from another reading of the ledger; `DestroyAfterLink` — the
  destroy before its link was tried; `NoSilentOrphan` — a guest that should be gone and is neither destroyed
  nor reported; `OrphanFound` — a guest that died between creation and observation is never seen.
* `PlannedHostsCompose`, `BlockerIsReported` — two parts that judge the same thing apart and disagree: planner
  and composer on a usable host, render and comparator on an interface. Both exempt a guest that waits for
  its first manual access, whose code is in neither table; the first also exempts node types that are never
  composed, which no code reports (section 6).
* `NoFalseConvergence` — no errors, evidence that matches the machines, and yet a service that is not as
  declared. `NothingDropped` — an error that is in no action and no finding; its two exceptions are in section 6.
* `ActuatedAsDeclared` — a playbook that undoes what an earlier one of the round did, or runs on an inventory that
  does not have what is declared: whatever a clean round has acted on, and could, runs as declared.
* `RoundsAccounted` — a service error that is in no action of the plan and excused by no blocked host, in the round
  under way or in the one the no-progress stop compares with. `NoProgressIsNoWork` — the no-progress stop of a clean round hides a service action on a host that no
  warning held back before (those it does hide: section 6).
* `TruthFollows` — the machines end up as declared: again and again, between runs, every managed placement
  that can be deployed runs as declared, or the plan is refused, or it asks for evidence of a node that cannot
  be observed (section 6).
* `AgentErrorsSettle` — a registration read before a channel was declared, or recorded late by a job nctl gave up
  on, is an error about an agent and refuses every plan of the cluster: it does not outlive what is wrong on the
  chat server.
* `TypeOK`, and `InductiveInv`, `CleanInv`, `LogInv`, `EnrollInv`: the invariants the proofs use, checked first.

### Bounds, and why they are enough

* *Clusters.* The core cluster has one diff of every kind the loop tells apart (claimed by a ledger
  action, by an observation, by a service action; a local finding; one the planner drops) and a chain
  of reveals, link → observation → service, three rounds long. Four rounds let the chain finish and be
  seen finished; fewer would make every healthy run hit the limit. The site cluster adds a second
  host, dependent actions, global findings, unclassified codes and a disturbance, with two rounds: one
  round's leftovers meeting another round's checks is all the loop's memory (`previous`, `final`,
  `progress`) can hold.
* *`MaxDisturbances`.* One change at any moment is enough to outdate each thing a run has seen;
  `CleanRunConverges` excludes it by `clean`.
* *Log.* Two faults are the least for a line cut twice (cut, joined, cut again); two closers for one
  append to come between another's check and its append; `MaxEvents` 2 is `started` and one more before
  `finished`; a clock of two values tells silent from recent when `StaleAfter` is 0.
* *Enrollment.* Two commands, two nodes, two keys: same node and different nodes, the same key, another
  key and a subset. Requests are `--yes` with evidence of one key, and one dry plan per odd-port node.
  Keys and commands are symmetric (no liveness is checked in this run).
* *Guests.* Two guests and two vmids: a guest under its own or the other's vmid or name. A run starts with
  both guests active, or with `app` retired and absent (the other is its mirror image), so that its removal and
  prune are reached with an edit left to disturb them or to declare it again. One fault may hit any call of a round or a prune, or
  kill the round.
* *Site.* Two nodes, three services of three profiles (a managed file, a playbook, a playbook others depend
  on), one binding between nodes, one range of each policy. `MaxEvents` 1: one edit of thirteen, failing call,
  break, late job, observation by hand, unlocked render or apply, at any moment; the chain link → addresses → server → consumer
  needs several rounds by itself. The exporter has a binding too, so both nodes' inventories hold variables of
  bindings, each under its own name. In a second
  initial snapshot `n2` is linked and was ingested from a report without MACs, so a warning holds it back. Each binding has a host variable of its own that its profile maps (what happens otherwise is in section 6). The
  ledger has rows enough (`IpRow`): `Ipam` takes a free one for an address that has none, and with fewer the step
  would be blocked. The site has no guests waiting for a first access: those branches of `Production` (`Awaiting`) are translated but
  not reached by this run.

The proofs do not depend on any of these bounds.

### Fairness

* `Reconcile`: `WF_vars(Step)`. The run is one thread; every call it makes has a
  timeout (`reconcile.ansible_timeout_seconds` for playbooks, `job_timeout_seconds` for Nautobot jobs, 10 s
  for HTTP requests), so an action started is eventually completed, with whatever outcome. Nothing is assumed of the environment: no interrupt, enrollment or repair ever has to
  happen.
* `OperationLog`: weak fairness of the owner (a living process goes on) and of each closer's `--force`
  close and its append. `DeadRunsSettle` reads: *if operators keep closing* an operation shown as
  running after its owner died, it stops being shown as running. `--force` is needed because nothing
  makes the clock pass. One close is not enough (section 6).
* `Guests`: weak fairness of a started round (a single thread whose calls have timeouts), of `StartRound` for
  the cluster (operators run it while there is work) and of `Expire` (time). No edit and no repair has to
  happen, and a prune may die anywhere.
* `SiteOps`: weak fairness of a round's steps (one thread whose calls have timeouts) and of `Age` (time); strong
  fairness of the cluster-scope `StartRound`: an operator who finds the lock taken tries again; weak fairness of
  `ObserveAgents`, which takes no lock and is run again while it has something new to record. A job nctl gave
  up on and an apply by hand may never end; a failing call is bounded by `MaxEvents`, not by fairness.
* `SshEnroll`: none; its properties are all safety properties.

## 4. What is proved

All theorems hold for every value of the constants that satisfies the named assumptions
(`ReconcileAssumption`, `LogAssumption`, `EnrollAssumption`, `GuestsAssumption`, `SiteAssumption`,
`PlannerAssumption`, `SiteOpsAssumption`): the types of the planner's functions and of what a site starts
from and may be edited to, at least one round, `Forced` is an observation, `NoRequest` is not a request,
`NoRow` is not a row, `Blank` is no node, no file and no entry, a profile with managed files is a dnsmasq one
(`profiles.py:301`). TLC evaluates them in every run. Five theorems have a hypothesis more, which the instance of
their run satisfies and TLC evaluates there: `Layered`, `OneProfile`, `OnePerNode` and `OwnVariables`, explained with them.

* **Reconcile.** `TypeCorrect` gives the types. `Inductive` proves `InductiveInv`, from which
  `FreshVerdict`, `TerminalRefreshed`, `ProgressIsAccounted`, `EnrolledBeforeWrites`,
  `ServiceRoutesVerified`, `RefreshIsEvidence` and `InterruptsStop` follow. None of these is inductive
  alone. `VerdictIsFresh` needs to know that at `plan` the final drift is the one just fetched and that
  nothing is done before the round starts (`FreshInv`); `TerminalRefresh` needs that the code's
  `had_side_effects` equals the truth in every phase (`SideEffectsInv`); `ProgressAccounted` needs where a
  result can be between its action and the report (`ProgressInv`); `ServiceOnVerifiedRoute` needs that
  only actions of the current plan are left to do and that the scan's targets are a function of that plan
  (`ServiceInv`); `RefreshEvidence` needs that the forced observation is still to do, done, or about to
  end the run (`RefreshInv`). Each is proved by one lemma per group of actions.
* **Healthy runs.** `CleanInductive` and `CleanRunsConverge` have a hypothesis on the cluster, `Layered`, because
  without it the property is false: a chain of reveals longer than `max_rounds` is cut, and so is work that
  only warnings call for (section 6). A layered cluster has a `Depth` for every diff such that an action uncovers
  only what is deeper than all it answers, the deepest layer is left with a round to see it resolved, what calls for an
  action is an error, and a forced observation uncovers only work for playbooks. `CleanInv` says that a
  round finds nothing above the layer of its number and leaves nothing of that layer, and that a diff found and
  still there was uncovered again by work on a shallower one. So no two rounds with work have the same fingerprint:
  the shallowest of what both found would have come from something shallower (`Shallowest`, from the
  well-foundedness of the naturals). The core run's module assumes the hypothesis (TLC evaluates it) and the run checks the invariant.
* **Refinement.** `ContractKept`: `Spec => Contract!Spec`. Every step maps to one step of the contract or
  leaves phase, `informed` and verdict alone; it uses `InductiveInv` for the step that says "clear".
* **OperationLog.** `LogInductive`, with `LogTypeCorrect`, `EventsInOrder`, `ResultFirst`, `KeptHistory` and
  `LossesAreBounded`.
  The strengthening: while the command lives its next number is above all it wrote; past the result's
  persistence it is decided; a closer in flight only carries an abandonment. `AppendedLines` is the one
  lemma about sequences: what an append does to a whole and to a cut file. `LossIsBounded` is not inductive: a
  fault that cuts a line costs nothing yet. `LossInv` counts in advance what the cut line can still take
  with it (`Exposed`: the event on it, if it is one of the command's, and the one that will join it);
  `WriteKeepsLoss` shows this for any write, with the cardinality of the events shown before and after.
* **SshEnroll.** `EnrollInductive`, with `EnrollTypeCorrect`, `OnlyTrustedKeys`, `ReportedIsReady` and
  `OwnLinesOnly`. The strengthening: an `--yes` command past its start, and one that reports success, holds
  the lock alone; the keys in its hand were offered and vouched for; and when it writes, the lines it read
  are still the file's. The last is what makes rewriting the whole file safe.
* **Guests.** `GuestsInductive`, with `GuestsTypeCorrect`, `DestroysArePinned` and `OrphansAreReported`. The
  strengthening is the types and `Grounded`: every destroy still to do names a guest and its declared vmid, and
  that guest is still retired and absent unless it was edited since the round read the ledgers. `DestroyAsked`
  and `PlannedActions` give it when a round starts; a step of the round or of a prune only shortens the plan
  (`GroundedStep`); an edit marks its guest, so it cannot unground the plan. `OrphansAreReported` needs the
  types only: it is about what `InstanceDiffs` computes from any accurate ledger. `DestroysFollowLinks` is an
  action property: only `Destroy` can take its guest off the hypervisor while a destroy of it is to do
  (`Destroyer`), and it is ready only when no link of that guest is left to try.
* **Site.** `BlockersAreReported`, `PlannedHostsAreComposed` and `NothingIsDropped` relate functions of one snapshot, so they need no
  inductive invariant: they hold of every snapshot there can be. `BlockerDiff` follows an endpoint that
  blocks the file through the endpoint comparator to a diff. For the second, `HostCode` and `OperationalCode`
  show that every code the composer can leave a host out for is in the planner's table or stops the whole
  composition; `LeftOutIsBlocked`, that a host left out therefore has a blocking diff; `PlanHosts`, that
  scope projection keeps that diff and the planner drops the host; `PlanningStarts`, that only `StartRound`
  makes a plan, and it makes it from a snapshot that composes. `NothingIsDropped` goes over every comparator:
  `NodeErrors` to `AgentErrorsUnclassified` say which kinds of targets and codes its errors can have
  (`ErrorKinds`), `SeekersAsked` and `ServiceWork` find the action that claims an error of the two classes
  that call for one, and the rest is a finding or refuses the plan (`LeftOut`).
* **Truth of a report.** `SiteTyped`: `TypeOK` of `SiteOps` is inductive as it stands. It says what the
  ledger, the machines, the inventory, the actions of a plan and the jobs in flight can hold: a link
  to write names candidates, a service phase and an apply by hand find an installed inventory, which applies
  only known placements with resolved bindings. Each is what a later step needs to keep the rest, with one
  lemma per action (`TypeAge` and the others). `ConvergenceIsTrue` uses it: without errors no active
  placement has a code (`ConvergedPlacements`, since every code of a placement is an error of its service);
  the report the evidence came from repeats what runs on the machine except reachability and a missing
  file (`ProbedEntry`); and on a composed node every binding is resolved (`IncludedResolves`), so `seen`, checked
  by `PlacementCodes`, is what is set (`ConvergedIsTrue`).
* **Rounds.** `RoundsAreAccounted`: `RoundsAccounted` is inductive with the types. When a round starts
  (`AccountedStart`) every service error a playbook could resolve is of an active placement (`PlacedError`: the other codes
  of a service are in another class), so its group has an action unless all hosts are blocked, by errors, which
  are in the fingerprint, or by warnings alone, which `held` lists. Afterwards the snapshot it was planned from is
  gone, but what a plan accounts for depends on the placements only (`AccountedKept`), and a clean round's own steps
  never write those (`BootstrapKeepsPlacements`). `NoProgressLeavesNoWork` compares it with the next plan: an action of
  that plan answers an error, which is in the old fingerprint too (`OldWork`). Both are about sites on which a service has one profile
  (`OneProfile`): the fingerprint names no placement, so where a service has two, an error of one may go while the
  same code of the other comes.
  `RoundsActuateAsDeclared` needs `CleanRound`: a clean round's actions name hosts that still manage what they are for,
  and its service phase works on the inventory of what Nautobot still holds. Then every entry an action leaves on a
  managed placement is the old one, that one configured again, or one with the rendered file
  (`PlaybookEntry`, `DeploymentEntry`), each of which keeps what is declared (`ConfiguredDeclared`), and an action that can
  run brings it about (`ActionDeclares`). Its hypotheses are one placement of a service per node (`OnePerNode`), since a
  machine has one entry per service and two placements could declare it running and stopped, and bindings that do not fight over a
  host variable (`OwnVariables`; section 6). The code accepts both: placements are keyed by service and instance name.

Only model-checked: `Terminates`, `DeadRunsSettle`, `OrphanFound`, `TruthFollows` and `AgentErrorsSettle`, which are liveness
and beyond this prover. Every safety property of a passing run is a theorem.

## 5. Not modelled, or only partly

* *Between the levels*: in `Reconcile` plans, findings and effects are constants, in `SiteOps` and `Guests` they
  are computed and a run is its rounds. The gates, verdicts and interrupts of `Reconcile` are not repeated
  there, and the two are not linked by a refinement.
* *Compute*: one platform; creation preflight on storage, bridge and addresses is the constant `Creatable`;
  resource comparison (`compute_resource_mismatch`) and unexplained guests, which only produce findings.
* *Nodes and endpoints*: virtual-machine candidates, `hostname_mismatch`, duplicate MACs on two devices.
* *Status*: `Status` has the "converging" claim as a parameter; reading it from the event logs
  (`operations.py`) is not modelled.
* *Agents*: what the chat server says (`Realm`) does not change; its client and credentials are left out.
* *Observation and jobs*: decoding of reports, mail probes, inventory trust files, the requests of a poll.
* `deployment_profiles_unavailable` and a damaged profile file: a command that cannot read its configuration
  ends at once.
* `forced_observation_scope_violation`: guards against a planner that does not keep its own promise.
* *Artifacts* other than `result.json`, texts, ids, order of listings.
* *Sources, configuration, CLI, text output*: queries, parsing and formatting, with no state that outlives a
  command. *Renders and exports* besides dnsmasq, production and the bootstrap selection: formatting.
  *Sessions, braindumps, workflow episodes, uploads*: independent records for the agents around the cluster,
  each written by one command. *Ansible and playbooks*: external; their outcomes are nondeterministic results.
* An error that escapes the executor as an exception (a plan cycle, a full disk for a later artifact) is
  `Crash`: the process is gone without a report.

## 6. Disagreements met while modelling

| run | statement | what the code does |
|---|---|---|
| `finding_stops_doc` | `src/docs/reconcile.md:24`: a manual or unsupported finding stops the run before any mutation | a *local* finding does not: other targets' actions run first (`executor.py:281-291`) |
| `final_drift_comment` | `executor.py:409-411`: a round-start drift is never labelled final after a mutation | a failed forced observation, an interrupt or failed fetch at the top of the next round, and the round limit all keep the older drift as final |
| `observation_route_doc` | `src/docs/reconcile.md:139-145`: observation targets are scanned over mDNS first | the post-actuation observation is not scanned |
| `close_settles_doc` | `operations_index.py:178-180`: a close makes history stop reporting the operation as running | if the owner died inside a write, the closing record joins the cut line; the close returns normally and the operation is still running. A second close settles it |
| `enroll_finished_doc` | `src/docs/event-log.md:41`: `finished` is always the last record | `ssh enroll` never emits it, so every enrollment is listed as running, later as stale |
| `independent_targets_doc` | `src/docs/reconcile.md:30`: an independent target's failure never blocks others of the same scope | errors of workspaces and agents are in no table of `classify.py`: one missing checkout refuses the plan of the whole cluster (`unclassified_diff_code`). An ingest lag on an unlinked device has a similar effect (`ssh_preflight.py:107-133`), and so has one observation target that is in no bootstrap inventory (`observation.py:217-221`): while a deprecated node still has an active placement whose evidence is missing, nobody is observed, in any round. `TruthFollows` exempts such plans (`Observable`) |

Seen in the code while translating it, without a run of their own:

* `src/docs/reconcile.md` says a destroy always operates on a linked row; the bootstrap loop goes on after a
  failed link, so `DestroyAfterLink` only claims that the link was tried.
* `retirement_prune.py:61-63`: a failed update of the operator's input is "recorded for a retry"; the retry
  finds the node gone and is a noop, and a later desired apply declares the guest again (`Redeclare`). A
  redeclaration between prune's batches is not excluded either (`:178`). An unlinked guest is eligible while
  it still runs.
* The destroy gate compares vmid and type, never the name; two instances may match the same row.
* `derive_compute_creations` does not look at `desired_presence`; `_evaluate_instance` reports no drift of a
  present guest that should be absent but is not retired, beyond the lifecycle conflict.
* `composer.py:231` says host-specific problems skip only the affected host; an invalid address met by route
  derivation is global and stops the whole inventory. So does a resolved binding
  whose host variable no profile declares (`contract.py:366-396`). Today `PROFILE_BINDING_VARIABLES` is
  empty, so every binding is `binding_name_undeclared` and leaves its host out.
* `service_dependencies.py:72-83`: two bindings of a host that set the same host variable are not told apart,
  the last one wins, and the placement of the other reports `binding_misbound` after every round. `ActuatedAsDeclared` and its theorem are for
  sites without such bindings.
* `composer.py:182-184`: an active placement on a node of a type that is never composed has no code of its own.
  The planner still plans service actions there, for a host no inventory contains.
* `waiting_for_manual_initial_access` is not among `PRODUCTION_BLOCKING_NODE_CODES`, so service actions can
  name a host the inventory leaves out.
* A missing service operated by hand (`manual`) is an error without an action or a finding, and so is
  missing evidence of a retired node: the two exceptions in `NothingDropped`.
* `fingerprint.py:5-10` says warnings can come and go "without representing unresolved drift". A warning
  `missing_mac_address` keeps a host from service actions (`PRODUCTION_BLOCKING_NODE_CODES`) and calls for an
  observation. When that brings the MAC, the fingerprint, made of errors, is what it was, and the run stops
  with `no_progress` although its plan has the service action. Without the exemption of held hosts TLC shows
  `NoProgressIsNoWork` violated by one round of scope `n2` and the start of the next. Repeating the command
  goes on. IPAM work, called for by warnings too, can be left in the same way.

## 7. Plan

Done: `Reconcile` with its contract, `OperationLog` and `SshEnroll`, with proofs; the snapshot, drift,
composition, render and planner as operators; `SiteOps` and `Guests` as their composition with rounds,
prune, jobs and operators; proofs of every safety property. Next:

1. A refinement between the rounds of `SiteOps` and the run of `Reconcile`, with `Claims` and `Deps` computed.
2. Several platforms and resource comparison in `ComputeDrift`.
