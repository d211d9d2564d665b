------------------------- MODULE ReconcileInvariant -------------------------
(* The inductive invariants behind Reconcile's safety properties: what each   *)
(* place in the run may take for granted, by the property it serves, and what *)
(* a run in which nothing goes wrong may take for granted besides.            *)
EXTENDS Reconcile

\* A layer for every diff, in the clusters where work uncovers only deeper drift (Layered).
CONSTANT Depth

Executing == pc \in {"bootstrap", "service_scan", "service", "observe"}
Gated == pc \in {"mdns_scan", "start"} \/ Executing
Planned == pc \in {"enrollment"} \/ Gated
Done == pc \in {"report", "finished", "crashed"}

\* A plan is made from the drift just fetched, and nothing is done before the
\* round starts; a converged verdict stands on such a drift.
FreshInv ==
    /\ pc \in {"prepare", "plan_only", "lock"} => round = 0
    /\ pc = "plan" => final = {seen}
    /\ pc \in {"plan", "enrollment", "mdns_scan", "start"} => ~acted
    /\ state \in ConvergedStates => Done /\ VerdictIsFresh
    /\ pc = "refresh" => state = "failed" /\ errors # {}
    /\ finalUnknown => Done /\ final = {} /\ state = "failed" /\ errors # {}

\* had_side_effects tells whether the drift fetched by the round is outdated.
SideEffectsInv ==
    /\ Executing \/ pc = "outcome" => (acted <=> sideEffects)
    /\ terminal # {} => pc \in {"outcome", "refresh"} \/ Done
    /\ pc \in {"report", "finished"} /\ terminal # {}
           /\ errors # {"observation_failed"} => ~acted \/ finalUnknown
    /\ pc = "finished" /\ finalUnknown => "final_drift_unknown" \in errors

\* What the run did is in `progress` or in the summary of the round in progress.
ProgressInv ==
    /\ touched <=> progress \/ \E r \in summary : r.success \/ r.mutated
    /\ ~Executing /\ pc \notin {"outcome", "crashed"} => summary = {}

\* Past the gate every SSH host of the plan is enrolled, and an action runs
\* only past the gate.
EnrollmentInv ==
    /\ Gated \/ running # {} => SshHosts(SshIds) \subseteq enrolled
    /\ running # {} => pc \in {"bootstrap", "service", "observe", "crashed"}

\* Service actions run on what the render and the second scan established.
ServiceInv ==
    /\ Planned => todo \subseteq Plan
    /\ running \cap Actions \subseteq Plan
    /\ running \cap ActionsOf(ServiceIds) # {} => pc \in {"service", "crashed"}
    /\ pc = "service_scan" => context /\ rendered
    /\ pc = "service" \/ running \cap ActionsOf(ServiceIds) # {} =>
           /\ context /\ rendered
           /\ ServiceScanTargets \X {"production"} \subseteq scanned

\* The forced observation is pending, done, or what ends the round.
RefreshInv ==
    /\ refresh /\ round > 0 => refreshed
    /\ RefreshEvidence
    /\ Forcing /\ pc \in {"enrollment", "mdns_scan", "start"} => Forced \in todo
    /\ Forcing /\ (Executing \/ pc = "outcome") =>
           Forced \in todo \cup running \/ refreshed \/ ForcedFailure
    /\ pc \in {"service_scan", "service", "observe"} => Forced \notin todo \cup running
    /\ pc = "outcome" /\ terminal = {} => Forced \notin todo \cup running

InductiveInv == /\ FreshInv /\ SideEffectsInv /\ ProgressInv
                /\ EnrollmentInv /\ ServiceInv /\ RefreshInv
------------------------------------------------------------------------------
(* Runs in which nothing goes wrong. *)

\* The clusters whose healthy runs the loop's own stops leave alone: what calls for an
\* action is an error, so that resolving it changes the fingerprint; an action uncovers
\* only what lies deeper than all it answers, and the deepest layer is reached with a
\* round left to see it resolved; the observation a refresh forces, though
\* nothing seen may call for it, uncovers only work for playbooks, which run after it.
Layered ==
    /\ Depth \in [Diffs -> Nat]
    /\ MaxRounds > 1
    /\ \A a \in Actions : \A d \in Claims[a] :
           /\ d \in ErrorDiffs /\ Depth[d] + 1 < MaxRounds
           /\ \A r \in Reveals[a] : Depth[d] < Depth[r]
    /\ \A r \in Reveals[Forced] :
           Depth[r] > 0 /\ \A a \in Actions : r \in Claims[a] => Reconciler[a] \in ServiceIds

\* The diffs that call for an action, and those an action not completed yet answers.
Automatic == UNION {Claims[a] : a \in Actions}
Pending == UNION {Claims[a] : a \in (todo \cup running) \cap Actions}

\* What a healthy round still has to do with: nothing is found above the layer of its
\* number; what it does not answer any more lies deeper, or is new, or was uncovered
\* again by work on something shallower.
CleanLayers ==
    /\ pc = "round" => \A d \in world \cap Automatic : Depth[d] >= round
    /\ pc = "plan" \/ Planned \/ pc = "outcome" => \A d \in seen \cap Automatic : Depth[d] >= round
    /\ pc \in {"plan", "enrollment", "mdns_scan", "start"} => world = seen
    /\ pc \in {"enrollment", "mdns_scan", "start"} => todo = Plan
    /\ Executing \/ pc = "outcome" =>
           \A d \in (world \cap Automatic) \ Pending :
               /\ Depth[d] > round
               /\ d \in seen => \E e \in seen \cap Automatic : Depth[e] < Depth[d]
    /\ pc \in {"bootstrap", "service_scan"} => Plan \cap ActionsOf(ServiceIds) \subseteq todo
    /\ pc \in {"observe", "outcome"} => todo = {} /\ running \cap Actions = {}

\* Every round moves the drift that calls for actions, and leaves a round to look again.
CleanRounds ==
    /\ pc \in {"prepare", "plan_only", "lock", "round", "plan"} /\ round = 0 => previous = {}
    /\ Planned \/ pc = "outcome" => previous = {Fingerprint(seen)} /\ round + 1 < MaxRounds
    /\ pc = "round" => round < MaxRounds
    /\ pc = "round" /\ round > 0 /\ world \cap Automatic # {} => previous # {Fingerprint(world)}
    /\ pc = "plan" /\ seen \cap Automatic # {} => previous # {Fingerprint(seen)}

\* Nothing went wrong, and where the run ends it ends well.
CleanEnd ==
    /\ ~interrupted /\ terminal = {} /\ ~finalUnknown /\ pc # "refresh"
    /\ \A r \in summary : r.success
    /\ pc \in {"report", "finished"} /\ mode = "apply" =>
           \/ state \in ConvergedStates
           \/ state = "manual_intervention_required" /\ (Local(seen) \/ Global(seen))
           \/ errors = {"unclassified_diff_code"}

\* In a run in which nothing goes wrong a round finds nothing above its layer, leaves
\* nothing of it, and never finds again the errors of the round before (executor.py:257-303).
Healthy == CleanLayers /\ CleanRounds /\ CleanEnd
CleanInv == (pc = "plan_only" => mode = "plan") /\ (clean => Healthy)
=============================================================================
