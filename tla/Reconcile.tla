------------------------------ MODULE Reconcile ------------------------------
(***************************************************************************)
(* One run of `nctl reconcile` (src/nctl_core/reconcile/executor.py): the   *)
(* bounded fetch / plan / gate / act / observe loop and the terminal state  *)
(* it reports.                                                              *)
(*                                                                          *)
(* The cluster's true drift is the set `world` of diffs.  A fetch copies it *)
(* into the run (`seen`), the plan is a function of `seen`, and the actions *)
(* of the plan change `world` again.  Everything the run knows therefore    *)
(* ages while it works; the properties are about what it may still claim.   *)
(* The planner is abstracted to what the loop tells apart: which actions a  *)
(* set of diffs calls for, and which diffs are findings nothing automatic   *)
(* resolves.  A diff that is neither is one the planner drops silently (a   *)
(* retired node's evidence gap, a placement that is not nctl_managed).      *)
(*                                                                          *)
(* The environment interrupts, crashes, fails any call, enrolls hosts, and  *)
(* changes the cluster behind the run's back at most MaxDisturbances times. *)
(***************************************************************************)
EXTENDS Naturals, FiniteSets

CONSTANTS
    Hosts,              \* desired-node slugs
    Diffs,              \* diffs the drift engine can report in this scope
    Actions,            \* actions the planner can emit
    Reconciler,         \* [Actions -> ReconcilerIds]
    HostsOf,            \* [Actions -> SUBSET Hosts], parameters["host_slugs"]
    Claims,             \* [Actions -> SUBSET Diffs], the diffs an action answers
    Reveals,            \* [Actions -> SUBSET Diffs], diffs its success may uncover
    Deps,               \* [Actions -> SUBSET Actions], action.dependencies
    ErrorDiffs,         \* diffs of ERROR severity: the fingerprint's input
    LocalFindings,      \* manual_review / unsupported on one target
    GlobalFindings,     \* manual_review / unsupported on a global target
    Unclassified,       \* error diffs with no entry in classify._TABLE
    Forced,             \* the observe_node action --refresh-observation forces
    MaxRounds,          \* cfg.reconcile.max_rounds / --max-rounds
    MaxDisturbances     \* bound on changes made by others during the run

BootstrapIds == {"observe_node", "link_actual_node", "link_compute_realization",
                 "create_compute_instance", "destroy_compute_instance",
                 "reconcile_ipam"}
ServiceIds == {"service_profile", "dnsmasq_config"}

\* Registry.connects_over_ssh and Registry.requires_observation.
SshIds == {"observe_node", "create_compute_instance", "destroy_compute_instance"}
              \cup ServiceIds
ObservedIds == {"create_compute_instance", "destroy_compute_instance"}
                   \cup ServiceIds

Regeneration == "regenerate_production_inventory"
PostObservation == "post_actuation_observation"

ASSUME ReconcileAssumption ==
    /\ Reconciler \in [Actions -> BootstrapIds \cup ServiceIds]
    /\ HostsOf \in [Actions -> SUBSET Hosts]
    /\ Claims \in [Actions -> SUBSET Diffs]
    /\ Reveals \in [Actions -> SUBSET Diffs]
    /\ Deps \in [Actions -> SUBSET Actions]
    /\ ErrorDiffs \subseteq Diffs
    /\ LocalFindings \subseteq Diffs
    /\ GlobalFindings \subseteq Diffs
    /\ Unclassified \subseteq Diffs
    /\ Forced \in Actions /\ Reconciler[Forced] = "observe_node"
    /\ MaxRounds \in Nat \ {0}
    /\ MaxDisturbances \in Nat
    /\ {Regeneration, PostObservation} \cap Actions = {}

VARIABLES
    pc,             \* where the run is
    mode,           \* "plan" | "apply" (--yes)
    refresh,        \* --refresh-observation
    round,          \* round_index
    world,          \* the cluster's true drift
    disturbances,   \* changes others made so far (bounded)
    enrolled,       \* hosts with an entry in the managed known_hosts store
    interrupted,    \* _InterruptFlag
    seen,           \* the drift this round's plan was built from
    final,          \* {} before the first fetch, else {final_drift_result}
    finalUnknown,   \* final_state_unknown
    previous,       \* {} or {previous_fingerprint}
    todo,           \* planned actions not started yet
    running,        \* {} or {the action being executed}
    summary,        \* summary.actions of the round in progress
    sideEffects,    \* had_side_effects of the round in progress
    context,        \* render_context is not None
    scanned,        \* <<host, route>> pairs found "ready" in this round
    terminal,       \* outcome.terminal_errors of the last round, as codes
    progress,       \* any success or mutation in the appended summaries
    state,          \* terminal state, "failed" until decided
    errors,         \* codes of the run's errors
    \* History variables: what really happened, never read by the run.
    acted,          \* an action succeeded or mutated since `final` was fetched
    touched,        \* an action succeeded or mutated at all
    rendered,       \* no bootstrap action completed since the last render
    refreshed,      \* the forced observation succeeded
    clean           \* nothing has gone wrong so far

environment == <<world, disturbances, enrolled, interrupted>>
roundVars == <<todo, running, summary, sideEffects, context, scanned, terminal>>
reportVars == <<final, finalUnknown, progress, state, errors>>
history == <<acted, touched, rendered, refreshed, clean>>
vars == <<pc, mode, refresh, round, environment, seen, previous, roundVars,
          reportVars, history>>

------------------------------------------------------------------------------
(* Planning, seen from the loop. *)

\* Variant: the forced observation slips to the second round.
ForcingLate == refresh /\ round = 1

\* --refresh-observation forces its observation in the first round only.
Forcing == refresh /\ round = 0

\* The actions build_plan emits for a drift; _with_forced_observation adds the
\* forced observe_node action, or marks the one already there.
PlanFor(drift) == {a \in Actions : Claims[a] \cap drift # {}}
                      \cup (IF Forcing THEN {Forced} ELSE {})

\* The plan of the round in progress.
Plan == PlanFor(seen)

Local(drift) == drift \cap LocalFindings # {}
Global(drift) == drift \cap GlobalFindings # {}

\* Variant: the fingerprint misses what the plan is about to resolve.
FingerprintOfFindings(drift) == drift \cap LocalFindings

\* compute_drift_fingerprint digests the ERROR diffs of the scope, only them.
Fingerprint(drift) == drift \cap ErrorDiffs

ActionsOf(ids) == {a \in Actions : Reconciler[a] \in ids}
HostsOfAll(S) == UNION {HostsOf[a] : a \in S}

\* ssh_required_host_slugs, optionally narrowed to some reconcilers.
SshHosts(ids) == HostsOfAll(Plan \cap ActionsOf(ids \cap SshIds))

\* Variant: only the bootstrap observation is gated on enrollment.
UnenrolledObserveOnly == SshHosts({"observe_node"}) \ enrolled

\* The hosts of the round's SSH actions that have no managed entry.
Unenrolled == SshHosts(SshIds) \ enrolled

\* Variant: a host already scanned over mDNS is not scanned again.
ServiceScanTargetsOnce == SshHosts(ServiceIds) \ SshHosts({"observe_node"})

\* The hosts scanned on production routes.
ServiceScanTargets == SshHosts(ServiceIds)

\* Hosts of the actions that need a post-actuation observation.
ObserveTargets == HostsOfAll(Plan \cap ActionsOf(ObservedIds))

\* Variant: an action waits for dependencies that have already run.
ReadyNever(a) == a \in todo /\ Deps[a] \cap Plan = {}

\* topological_order: an action starts after the planned actions it depends on.
Ready(a) == a \in todo /\ Deps[a] \cap todo = {}

\* Variant: the interrupt flag is not consulted between actions.
MayStartUnasked(a) == Ready(a)

\* interrupted.is_set() is asked before every action of the plan.
MayStart(a) == Ready(a) /\ ~interrupted

------------------------------------------------------------------------------
(* What an action handler can return. *)

HandlerResult == [success : BOOLEAN, mutated : BOOLEAN,
                  terminal : {{}, {"ssh_store_read_failed"}}]

\* The handlers of actions/*.py, and execute_action's translation of the ledger
\* and job errors into a failed result that keeps exc.mutated.  An observation
\* writes nothing; a playbook has applied its role or not; a link or a creation
\* that succeeds has written; a destroy or an IPAM reservation may find nothing
\* left to do, or fail after a write.
Outcomes(id) ==
    {r \in HandlerResult :
        /\ id = "observe_node" => ~r.mutated
        /\ id \in ServiceIds => (r.success <=> r.mutated)
        /\ id \in {"link_actual_node", "link_compute_realization",
                   "create_compute_instance"} => (r.success => r.mutated)
        /\ r.terminal # {} => id = "observe_node" /\ ~r.success}

IdOf(a) == IF a \in Actions THEN Reconciler[a] ELSE "observe_node"
ClaimsOf(a) == IF a \in Actions THEN Claims[a] ELSE {}
RevealsOf(a) == IF a \in Actions THEN Reveals[a] ELSE {}

\* An action may resolve any part of what it claims -- a failed one too -- and
\* a successful one may uncover further drift.
Effects(a, success) ==
    {(world \ c) \cup r : c \in SUBSET ClaimsOf(a),
                          r \in SUBSET (IF success THEN RevealsOf(a) ELSE {})}

\* Variant: a mutation recorded by a failed action is forgotten.
SucceededOnly(r) == r.success

\* _action_had_side_effects
HadSideEffects(r) == r.success \/ r.mutated

\* Variant: the report counts successes only.
ProgressOnSuccess == progress \/ \E r \in summary : r.success

\* The any(...) over data.rounds, once the round's summary is appended.
ProgressMade == progress \/ \E r \in summary : r.success \/ r.mutated

------------------------------------------------------------------------------
(* Leaving the loop (`break`) and leaving the run (_finish). *)

\* Variant: the errors collected are dropped on the way out.
StopDroppingErrors(st, codes) == /\ pc' = "report"
                                 /\ state' = st
                                 /\ errors' = {}

Stop(st, codes) == /\ pc' = "report"
                   /\ state' = st
                   /\ errors' = codes

Fault == clean' = FALSE

\* A finish before or outside the apply loop: nothing to report but the errors.
FinishEarly(st, codes) == /\ pc' = "finished"
                          /\ state' = st
                          /\ errors' = codes

Init ==
    /\ pc = "prepare"
    /\ mode \in {"plan", "apply"} /\ refresh \in BOOLEAN
    /\ round = 0
    /\ world \in SUBSET Diffs /\ disturbances = 0
    /\ enrolled \in SUBSET Hosts /\ interrupted = FALSE
    /\ seen = {} /\ final = {} /\ finalUnknown = FALSE /\ previous = {}
    /\ todo = {} /\ running = {} /\ summary = {} /\ sideEffects = FALSE
    /\ context = FALSE /\ scanned = {} /\ terminal = {}
    /\ progress = FALSE /\ state = "failed" /\ errors = {}
    /\ acted = FALSE /\ touched = FALSE /\ rendered = FALSE
    /\ refreshed = FALSE /\ clean = TRUE

\* run_reconcile up to the choice of mode.  The artifact directory may be
\* unwritable; a refresh without a HOST is refused.
Prepare ==
    /\ pc = "prepare"
    /\ \/ /\ FinishEarly("failed", {"artifact_write_failed"})
          /\ Fault
       \/ /\ refresh
          /\ FinishEarly("failed", {"refresh_observation_requires_host"})
          /\ Fault
       \/ /\ pc' = IF mode = "plan" THEN "plan_only" ELSE "lock"
          /\ UNCHANGED <<state, errors, clean>>
    /\ UNCHANGED <<mode, refresh, round, environment, seen, previous, roundVars,
                   final, finalUnknown, progress, acted, touched, rendered,
                   refreshed>>

\* _run_plan_only: one fetch, one plan, enrollment only reported, no lock.
PlanOnly ==
    /\ pc = "plan_only"
    /\ \/ /\ FinishEarly("failed", {"drift_fetch_failed"})
          /\ Fault
          /\ UNCHANGED seen
       \/ /\ seen' = world
          /\ \/ /\ world \cap Unclassified # {}
                /\ FinishEarly("failed", {"unclassified_diff_code"})
                /\ UNCHANGED clean
             \/ /\ world \cap Unclassified = {}
                /\ FinishEarly("planned", {})
                /\ UNCHANGED clean
             \/ /\ world \cap Unclassified = {}
                /\ PlanFor(world) \cap ActionsOf(SshIds) # {}
                /\ FinishEarly("failed", {"ssh_store_read_failed"})
                /\ Fault
    /\ UNCHANGED <<mode, refresh, round, environment, previous, roundVars,
                   final, finalUnknown, progress, acted, touched, rendered,
                   refreshed>>

\* acquire_reconcile_lock: non-blocking, contention ends the run at once.
AcquireLock ==
    /\ pc = "lock"
    /\ \/ /\ FinishEarly("failed", {"reconcile_lock_contention"})
          /\ Fault
       \/ /\ pc' = "round"
          /\ UNCHANGED <<state, errors, clean>>
    /\ UNCHANGED <<mode, refresh, round, environment, seen, previous, roundVars,
                   final, finalUnknown, progress, acted, touched, rendered,
                   refreshed>>

------------------------------------------------------------------------------
(* The round loop of _run_apply. *)

\* Variant: the loop runs one round too many.
MoreRoundsOffByOne == round <= MaxRounds

\* for round_index in range(max_rounds)
MoreRounds == round < MaxRounds

\* Top of the loop: the interrupt check, then the drift fetch.  A failed fetch
\* leaves the previous round's drift as final_drift_result.
FetchDrift ==
    /\ pc = "round" /\ MoreRounds
    /\ \/ /\ interrupted
          /\ Stop("failed", {"interrupted"})
          /\ UNCHANGED <<seen, final, acted, clean>>
       \/ /\ ~interrupted
          /\ Stop("failed", {"drift_fetch_failed"})
          /\ Fault
          /\ UNCHANGED <<seen, final, acted>>
       \/ /\ ~interrupted
          /\ pc' = "plan"
          /\ seen' = world /\ final' = {world} /\ acted' = FALSE
          /\ UNCHANGED <<state, errors, clean>>
    /\ UNCHANGED <<mode, refresh, round, environment, previous, roundVars,
                   finalUnknown, progress, touched, rendered, refreshed>>

\* The loop's else branch.
RoundsExhausted ==
    /\ pc = "round" /\ ~MoreRounds
    /\ IF Local(seen) /\ ~Global(seen)
         THEN Stop("manual_intervention_required", {})
         ELSE Stop("non_converged", {"max_rounds_reached"})
    /\ UNCHANGED <<mode, refresh, round, environment, seen, previous, roundVars,
                   final, finalUnknown, progress, history>>

\* _build_plan_or_error and the decisions that follow it, in their order.
PlanError ==
    \/ /\ seen \cap Unclassified # {}
       /\ Stop("failed", {"unclassified_diff_code"})
       /\ UNCHANGED <<todo, previous, clean>>
    \/ /\ Stop("failed", {"unknown_host"})   \* the node was deleted meanwhile
       /\ Fault
       /\ UNCHANGED <<todo, previous>>

\* Variant: findings do not stand in the way of convergence.
NothingToDoIgnoringFindings ==
    /\ Plan = {}
    /\ Stop(IF round = 0 THEN "already_converged" ELSE "converged", {})
    /\ UNCHANGED <<todo, previous, clean>>

NothingToDo ==
    /\ Plan = {} /\ ~Local(seen) /\ ~Global(seen)
    /\ Stop(IF round = 0 THEN "already_converged" ELSE "converged", {})
    /\ UNCHANGED <<todo, previous, clean>>

Blocked ==
    /\ Global(seen) \/ (Plan = {} /\ Local(seen))
    /\ Stop("manual_intervention_required", {})
    /\ UNCHANGED <<todo, previous, clean>>

Executable == Plan # {} /\ ~Global(seen)

NoProgress ==
    /\ Executable /\ previous = {Fingerprint(seen)}
    /\ Stop("non_converged", {"no_progress"})
    /\ UNCHANGED <<todo, previous, clean>>

Proceed ==
    /\ Executable /\ previous # {Fingerprint(seen)}
    /\ previous' = {Fingerprint(seen)}
    /\ todo' = Plan
    /\ pc' = "enrollment"
    /\ UNCHANGED <<state, errors, clean>>

DecideRound ==
    /\ pc = "plan"
    /\ \/ PlanError
       \/ /\ seen \cap Unclassified = {}
          /\ NothingToDo \/ Blocked \/ NoProgress \/ Proceed
    /\ UNCHANGED <<mode, refresh, round, environment, seen, running, summary,
                   sideEffects, context, scanned, terminal, final,
                   finalUnknown, progress, acted, touched, rendered, refreshed>>

\* check_ssh_enrollment over every host an SSH action of the plan contacts.
CheckEnrollment ==
    /\ pc = "enrollment"
    /\ \/ /\ SshHosts(SshIds) # {}
          /\ Stop("failed", {"ssh_store_read_failed"})
          /\ Fault
       \/ /\ Unenrolled # {}
          /\ Stop("failed", {"ssh_host_key_unenrolled"})
          /\ Fault
       \/ /\ Unenrolled = {}
          /\ pc' = "mdns_scan"
          /\ UNCHANGED <<state, errors, clean>>
    /\ UNCHANGED <<mode, refresh, round, environment, seen, previous, roundVars,
                   final, finalUnknown, progress, acted, touched, rendered,
                   refreshed>>

\* ssh_scan_errors: one code per kind of bad entry.  The hosts that answered
\* with a trusted key are `ready`, the others mismatch or are unreachable.
ScanErrors(targets, ready) ==
    {codes \in SUBSET {"ssh_host_key_unenrolled", "ssh_host_key_mismatch",
                       "ssh_host_key_unreachable"} :
        /\ codes # {}
        /\ Cardinality(codes) <= Cardinality(targets \ ready)
        /\ "ssh_host_key_unenrolled" \in codes
               <=> ~((targets \ ready) \subseteq enrolled)}

\* verify_offered_keys: the observe_node hosts only, over mDNS.
ScanBootstrapRoutes ==
    /\ pc = "mdns_scan"
    /\ LET targets == SshHosts({"observe_node"})
       IN \/ /\ targets # {}
             /\ Stop("failed", {"ssh_store_read_failed"})
             /\ Fault
             /\ UNCHANGED scanned
          \/ \E ready \in SUBSET (targets \cap enrolled) :
                IF ready = targets
                  THEN /\ scanned' = ready \X {"mdns"}
                       /\ pc' = "start"
                       /\ UNCHANGED <<state, errors, clean>>
                  ELSE /\ \E codes \in ScanErrors(targets, ready) :
                             Stop("failed", codes)
                       /\ Fault
                       /\ UNCHANGED scanned
    /\ UNCHANGED <<mode, refresh, round, environment, seen, previous, todo,
                   running, summary, sideEffects, context, terminal, final,
                   finalUnknown, progress, acted, touched, rendered, refreshed>>

\* _execute_round begins: a configuration or client error ends the run with no
\* summary for the round.
StartRound ==
    /\ pc = "start"
    /\ \/ /\ Stop("failed", {"reconcile_round_failed"})
          /\ Fault
          /\ UNCHANGED <<summary, sideEffects, context, terminal>>
       \/ /\ pc' = "bootstrap"
          /\ summary' = {} /\ sideEffects' = FALSE
          /\ context' = FALSE /\ terminal' = {}
          /\ UNCHANGED <<state, errors, clean>>
    /\ UNCHANGED <<mode, refresh, round, environment, seen, previous, todo,
                   running, scanned, final, finalUnknown, progress, acted,
                   touched, rendered, refreshed>>

------------------------------------------------------------------------------
(* _execute_round: bootstrap actions, regeneration, scan, service actions,   *)
(* post-actuation observation.  An action starts and completes in two steps, *)
(* so that an interrupt or a crash can fall between them.                    *)

PhaseIds == IF pc = "bootstrap" THEN BootstrapIds ELSE ServiceIds

EndRound(codes) == pc' = "outcome" /\ terminal' = codes

\* interrupted.is_set() before each action of the plan.
InterruptRound ==
    /\ pc \in {"bootstrap", "service"} /\ running = {}
    /\ todo \cap ActionsOf(PhaseIds) # {}
    /\ interrupted
    /\ EndRound({"interrupted"})
    /\ UNCHANGED <<mode, refresh, round, environment, seen, previous, todo,
                   running, summary, sideEffects, context, scanned, reportVars,
                   history>>

StartAction(a) ==
    /\ pc \in {"bootstrap", "service"} /\ running = {}
    /\ a \in ActionsOf(PhaseIds) /\ MayStart(a)
    /\ running' = {a} /\ todo' = todo \ {a}
    /\ UNCHANGED <<pc, mode, refresh, round, environment, seen, previous,
                   summary, sideEffects, context, scanned, terminal, reportVars,
                   history>>

\* What every completed action leaves behind: its row in the summary, the
\* cluster's new drift, and the history of what really happened.
Record(a, r) ==
    /\ summary' = summary \cup {[action |-> a, success |-> r.success,
                                 mutated |-> r.mutated]}
    /\ sideEffects' = (sideEffects \/ HadSideEffects(r))
    /\ world' \in Effects(a, r.success)
    /\ acted' = (acted \/ r.success \/ r.mutated)
    /\ touched' = (touched \/ r.success \/ r.mutated)
    /\ refreshed' = (refreshed \/ (Forcing /\ a = Forced /\ r.success))
    /\ clean' = (clean /\ r.success /\ world' \cap ClaimsOf(a) = {})

\* execute_action returns.  A failed forced observation is terminal whatever
\* its handler said; other actions carry their own terminal errors.
CompleteAction(a) ==
    /\ pc \in {"bootstrap", "service"} /\ running = {a}
    /\ \E r \in Outcomes(IdOf(a)) :
          /\ Record(a, r)
          /\ LET codes == IF a = Forced /\ Forcing /\ ~r.success
                            THEN {"observation_failed"} ELSE r.terminal
             IN IF codes # {} THEN EndRound(codes) ELSE UNCHANGED <<pc, terminal>>
    /\ running' = {}
    /\ rendered' = (rendered /\ pc # "bootstrap")
    /\ UNCHANGED <<mode, refresh, round, disturbances, enrolled, interrupted,
                   seen, previous, todo, context, scanned, reportVars>>

\* The last bootstrap action is done: _regenerate_production_inventory.  It
\* renders and installs the inventory, or succeeds without a context when no
\* profile is configured, or fails.  Service actions need the context.
Regenerate ==
    /\ pc = "bootstrap" /\ running = {} /\ todo \cap ActionsOf(BootstrapIds) = {}
    /\ \E success, ctx \in BOOLEAN :
          /\ ctx => success
          /\ context' = ctx /\ rendered' = ctx
          /\ summary' = summary \cup {[action |-> Regeneration,
                                       success |-> success, mutated |-> FALSE]}
          /\ sideEffects' = (sideEffects \/ success)
          /\ acted' = (acted \/ success) /\ touched' = (touched \/ success)
          /\ clean' = (clean /\ ctx)
          /\ IF ctx THEN pc' = "service_scan" /\ UNCHANGED terminal
             ELSE IF todo # {} THEN EndRound({"production_regeneration_unavailable"})
             ELSE pc' = "observe" /\ UNCHANGED terminal
    /\ UNCHANGED <<mode, refresh, round, environment, seen, previous, todo,
                   running, scanned, reportVars, refreshed>>

\* verify_resolved_ssh_targets over the service hosts, on the routes of the
\* context just rendered.
ScanServiceRoutes ==
    /\ pc = "service_scan"
    /\ LET targets == ServiceScanTargets
       IN \/ /\ targets # {}
             /\ EndRound({"ssh_store_read_failed"})
             /\ Fault
             /\ UNCHANGED scanned
          \/ \E ready \in SUBSET (targets \cap enrolled) :
                IF ready = targets
                  THEN /\ scanned' = scanned \cup (ready \X {"production"})
                       /\ pc' = "service"
                       /\ UNCHANGED <<terminal, clean>>
                  ELSE /\ \E codes \in ScanErrors(targets, ready) : EndRound(codes)
                       /\ Fault
                       /\ UNCHANGED scanned
    /\ UNCHANGED <<mode, refresh, round, environment, seen, previous, todo,
                   running, summary, sideEffects, context, reportVars, acted,
                   touched, rendered, refreshed>>

ServiceActionsDone ==
    /\ pc = "service" /\ running = {} /\ todo = {}
    /\ pc' = "observe"
    /\ UNCHANGED <<mode, refresh, round, environment, seen, previous, roundVars,
                   reportVars, history>>

\* The post-actuation observation of the hosts whose actions ask for one.  No
\* interrupt check and no scan precede it.
StartPostObservation ==
    /\ pc = "observe" /\ running = {} /\ ObserveTargets # {}
    /\ running' = {PostObservation}
    /\ UNCHANGED <<pc, mode, refresh, round, environment, seen, previous, todo,
                   summary, sideEffects, context, scanned, terminal, reportVars,
                   history>>

SkipPostObservation ==
    /\ pc = "observe" /\ running = {} /\ ObserveTargets = {}
    /\ EndRound({})
    /\ UNCHANGED <<mode, refresh, round, environment, seen, previous, todo,
                   running, summary, sideEffects, context, scanned, reportVars,
                   history>>

CompletePostObservation ==
    /\ pc = "observe" /\ running = {PostObservation}
    /\ \E r \in Outcomes("observe_node") :
          /\ Record(PostObservation, r)
          /\ EndRound(r.terminal)
    /\ running' = {}
    /\ UNCHANGED <<mode, refresh, round, disturbances, enrolled, interrupted,
                   seen, previous, todo, context, scanned, reportVars, rendered>>

------------------------------------------------------------------------------
(* Back in _run_apply: the round's outcome. *)

ForcedFailure == Forcing /\ \E r \in summary : r.action = Forced /\ ~r.success

\* data.rounds.append(outcome.summary), then stop, refresh or go round again.
RoundOutcome ==
    /\ pc = "outcome"
    /\ progress' = ProgressMade
    /\ summary' = {} /\ todo' = {} /\ scanned' = {}
    /\ IF ForcedFailure
         THEN Stop("failed", {"observation_failed"}) /\ UNCHANGED round
       ELSE IF terminal # {}
         THEN /\ state' = "failed" /\ errors' = terminal
              /\ pc' = IF sideEffects THEN "refresh" ELSE "report"
              /\ UNCHANGED round
       ELSE /\ pc' = "round" /\ round' = round + 1
            /\ UNCHANGED <<state, errors>>
    /\ UNCHANGED <<mode, refresh, environment, seen, previous, running,
                   sideEffects, context, terminal, final, finalUnknown, history>>

\* The final read-only fetch after a terminal error with side effects.
RefreshFinalDrift ==
    /\ pc = "refresh"
    /\ \/ /\ final' = {world} /\ acted' = FALSE
          /\ UNCHANGED <<finalUnknown, clean>>
       \/ /\ final' = {} /\ finalUnknown' = TRUE
          /\ Fault
          /\ UNCHANGED acted
    /\ pc' = "report"
    /\ UNCHANGED <<mode, refresh, round, environment, seen, previous, roundVars,
                   progress, state, errors, touched, rendered, refreshed>>

\* The tail of _run_apply and _finish: the drift labelled final, progress_made,
\* and the envelope.
Report ==
    /\ pc = "report"
    /\ errors' = IF finalUnknown THEN errors \cup {"final_drift_unknown"} ELSE errors
    /\ pc' = "finished"
    /\ UNCHANGED <<mode, refresh, round, environment, seen, previous, roundVars,
                   final, finalUnknown, progress, state, history>>

------------------------------------------------------------------------------
(* The environment. *)

Alive == pc \notin {"finished", "crashed"}

\* SIGINT or SIGTERM while _InterruptFlag's handler is installed.
Interrupt ==
    /\ Alive /\ pc \notin {"prepare", "plan_only", "lock"} /\ ~interrupted
    /\ interrupted' = TRUE
    /\ Fault
    /\ UNCHANGED <<pc, mode, refresh, round, world, disturbances, enrolled, seen,
                   previous, roundVars, reportVars, acted, touched, rendered,
                   refreshed>>

\* kill -9, a power cut, or an exception nothing catches (PlanCycleError,
\* ArtifactError on a later write, a handler's ValueError).  The action in
\* flight may have had any part of its effect.
Crash ==
    /\ Alive /\ pc # "prepare"
    /\ pc' = "crashed"
    /\ \E a \in running \cup {PostObservation} : world' \in Effects(a, TRUE)
    /\ Fault
    /\ UNCHANGED <<mode, refresh, round, disturbances, enrolled, interrupted,
                   seen, previous, roundVars, reportVars, acted, touched,
                   rendered, refreshed>>

\* An operator runs `nctl ssh enroll HOST --yes` (another lock, never waits).
EnrollHost(h) ==
    /\ Alive /\ h \notin enrolled
    /\ enrolled' = enrolled \cup {h}
    /\ UNCHANGED <<pc, mode, refresh, round, world, disturbances, interrupted,
                   seen, previous, roundVars, reportVars, history>>

\* Somebody else edits the ledger or a host: a diff appears or goes away.
Disturb(d) ==
    /\ Alive /\ disturbances < MaxDisturbances
    /\ disturbances' = disturbances + 1
    /\ world' = IF d \in world THEN world \ {d} ELSE world \cup {d}
    /\ Fault
    /\ UNCHANGED <<pc, mode, refresh, round, enrolled, interrupted, seen,
                   previous, roundVars, reportVars, acted, touched, rendered,
                   refreshed>>

Environment == \/ Interrupt
               \/ Crash
               \/ \E h \in Hosts : EnrollHost(h)
               \/ \E d \in Diffs : Disturb(d)

Step == \/ Prepare \/ PlanOnly \/ AcquireLock
        \/ FetchDrift \/ RoundsExhausted \/ DecideRound
        \/ CheckEnrollment \/ ScanBootstrapRoutes \/ StartRound
        \/ InterruptRound
        \/ \E a \in Actions : StartAction(a) \/ CompleteAction(a)
        \/ Regenerate \/ ScanServiceRoutes \/ ServiceActionsDone
        \/ StartPostObservation \/ SkipPostObservation \/ CompletePostObservation
        \/ RoundOutcome \/ RefreshFinalDrift \/ Report

\* The process is gone; a finished run stays as it is.
Over == ~Alive /\ UNCHANGED vars

Next == Step \/ Environment \/ Over

\* The run is one thread: while it can take a step it eventually takes one.
\* Nothing is assumed of the environment.
Spec == Init /\ [][Next]_vars /\ WF_vars(Step)

------------------------------------------------------------------------------
(* Properties. *)

ErrorCodes ==
    {"artifact_write_failed", "refresh_observation_requires_host",
     "reconcile_lock_contention", "drift_fetch_failed", "unknown_host",
     "unclassified_diff_code", "interrupted", "no_progress",
     "max_rounds_reached", "ssh_store_read_failed", "ssh_host_key_unenrolled",
     "ssh_host_key_mismatch", "ssh_host_key_unreachable",
     "reconcile_round_failed", "observation_failed",
     "production_regeneration_unavailable", "final_drift_unknown"}

RunResult == [action : Actions \cup {Regeneration, PostObservation},
              success : BOOLEAN, mutated : BOOLEAN]

DataOK ==
    /\ pc \in {"prepare", "plan_only", "lock", "round", "plan", "enrollment",
               "mdns_scan", "start", "bootstrap", "service_scan", "service",
               "observe", "outcome", "refresh", "report", "finished", "crashed"}
    /\ mode \in {"plan", "apply"}
    /\ round \in 0..MaxRounds
    /\ round < MaxRounds \/ pc \in {"round", "report", "finished", "crashed"}
    /\ world \subseteq Diffs /\ disturbances \in 0..MaxDisturbances
    /\ enrolled \subseteq Hosts
    /\ seen \subseteq Diffs
    /\ final \subseteq SUBSET Diffs /\ previous \subseteq SUBSET Diffs
    /\ todo \subseteq Actions
    /\ running \subseteq Actions \cup {PostObservation}
    /\ summary \subseteq RunResult
    /\ scanned \subseteq Hosts \X {"mdns", "production"}
    /\ terminal \subseteq ErrorCodes /\ errors \subseteq ErrorCodes
    /\ state \in {"failed", "planned", "already_converged", "converged",
                  "manual_intervention_required", "non_converged"}

FlagsOK ==
    /\ refresh \in BOOLEAN /\ interrupted \in BOOLEAN /\ finalUnknown \in BOOLEAN
    /\ sideEffects \in BOOLEAN /\ context \in BOOLEAN /\ progress \in BOOLEAN
    /\ acted \in BOOLEAN /\ touched \in BOOLEAN /\ rendered \in BOOLEAN
    /\ refreshed \in BOOLEAN /\ clean \in BOOLEAN

\* Every variable keeps its type (the data model of ReconcileData and of the
\* locals of _run_apply / _execute_round).
TypeOK == DataOK /\ FlagsOK

ConvergedStates == {"already_converged", "converged"}

\* A run says (already_)converged only about drift fetched after the last thing
\* it did: no action succeeded or mutated since, that drift is the one reported
\* as final, and nothing in it called for an action or an operator
\* (executor.py:278-280 and the final report at 443-451).
VerdictIsFresh ==
    state \in ConvergedStates =>
        /\ ~acted /\ ~finalUnknown
        /\ final = {seen}
        /\ \A a \in Actions : Claims[a] \cap seen = {}
        /\ ~Local(seen) /\ ~Global(seen)

\* When a round dies on a terminal error after side effects, the drift reported
\* as final was fetched after them, or is reported as unknown -- whatever the
\* phase the round died in (executor.py:405-418).  The failed forced observation
\* leaves before this point and is excluded.
TerminalRefresh ==
    pc = "finished" /\ terminal # {} /\ errors # {"observation_failed"} =>
        ~acted \/ ("final_drift_unknown" \in errors /\ final = {})

\* progress_made is the truth about the whole run: no success and no recorded
\* mutation is lost by the way the last round ended, and none is invented
\* (executor.py:372 and 457-459).
ProgressAccounted == pc = "finished" => (progress <=> touched)

\* Any action of a plan -- a ledger write too -- starts only when every host
\* that any SSH action of the same plan contacts is enrolled; the
\* post-actuation observation goes only to such hosts (executor.py:303-327).
EnrollmentBeforeWrites ==
    running # {} => \A a \in Plan \cap ActionsOf(SshIds) : HostsOf[a] \subseteq enrolled

\* A service playbook uses an inventory rendered in this round after the last
\* bootstrap action, and every host it contacts was found to offer a trusted
\* key on the route that inventory selected (executor.py:537-585).
ServiceOnVerifiedRoute ==
    \A a \in running \cap ActionsOf(ServiceIds) :
        context /\ rendered /\ HostsOf[a] \X {"production"} \subseteq scanned

\* A run that was asked for fresh evidence never reports convergence without
\* having got it (executor.py:373-404, actions/observe.py:35-48).
RefreshEvidence == refresh /\ state \in ConvergedStates => refreshed

\* After SIGINT or SIGTERM no further action of a plan starts; the one in flight
\* completes (executor.py:507, 588).
InterruptStopsPlan ==
    [][interrupted => running' \cap Actions \subseteq running]_vars

\* If nothing goes wrong -- every call succeeds, actions resolve what they claim,
\* nobody interferes -- the run ends converged, or with a finding an operator
\* must look at, or on a diff code nobody classified: the loop's own stops
\* (no_progress, max_rounds) never cut a healthy run short.
CleanRunConverges ==
    pc = "finished" /\ clean /\ mode = "apply" =>
        \/ state \in ConvergedStates
        \/ state = "manual_intervention_required" /\ (Local(seen) \/ Global(seen))
        \/ errors = {"unclassified_diff_code"}

\* The run keeps RunContract's promise: the phases are stretches of the loop,
\* a look is a drift fetch, and being informed is not having acted since.
Phase == CASE pc \in {"prepare", "plan_only", "lock"} -> "waiting"
           [] pc = "round" -> IF round = 0 THEN "waiting" ELSE "acting"
           [] pc = "plan" -> "looking"
           [] pc \in {"refresh", "report"} -> "closing"
           [] pc \in {"finished", "crashed"} -> "over"
           [] OTHER -> "acting"
Informed == final # {} /\ ~acted
Verdict == IF state \in ConvergedStates THEN "clear"
           ELSE IF errors # {} \/ state # "failed" THEN "not_clear"
           ELSE "none"

Contract == INSTANCE RunContract WITH phase <- Phase, informed <- Informed,
                                      verdict <- Verdict
KeepsContract == Contract!Spec

\* Every run ends: the loop is bounded and no check leaves it waiting.
Terminates == <>(pc \in {"finished", "crashed"})

------------------------------------------------------------------------------
(* What the documents and comments say, where the code does something else. *)

\* docs/reconcile.md:24: a manual or unsupported plan finding stops the run
\* before any mutation.
FindingStopsBeforeMutation == Local(seen) => running \cap Actions = {}

\* executor.py:409-411: a round-start drift snapshot is never labelled final
\* once an action succeeded or recorded a mutation.
FinalDriftIsFinal == pc = "finished" /\ final # {} => ~acted

\* docs/reconcile.md:139-145: observe_node targets are scanned over mDNS and a
\* bad route fails before the first playbook that uses it.
ObservationRouteScanned ==
    /\ \A a \in running \cap ActionsOf({"observe_node"}) :
           HostsOf[a] \X {"mdns"} \subseteq scanned
    /\ PostObservation \in running => ObserveTargets \X {"mdns"} \subseteq scanned

==============================================================================
