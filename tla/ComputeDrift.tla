---------------------------- MODULE ComputeDrift ----------------------------
(***************************************************************************)
(* What one reading of the ledgers says about the compute guests of a      *)
(* platform: the match of a desired instance with an observed virtual      *)
(* machine, its disposition, the diffs it reports and the actions a        *)
(* reconcile round plans from them (drift/compute_*.py, compute/,          *)
(* reconcile/planner.py and reconcilers.py).                               *)
(*                                                                         *)
(* A snapshot s is a record of                                             *)
(*   desired[g]  the desired node and instance of guest g, or "declared"   *)
(*               FALSE: the node's lifecycle, the instance's presence and  *)
(*               the linked row (NoLink, Gone when the row was deleted)    *)
(*   rows[k]     the observed virtual machine of vmid k, or NoRow          *)
(*   obs         the platform's observation: missing, stale, incomplete or *)
(*               complete                                                  *)
(*   platLink    whether the platform row is linked to its cluster         *)
(* One platform; its cluster holds every row, so a row is named by its     *)
(* vmid.  Creation preflight on storage, bridge and addresses is the       *)
(* constant Creatable.                                                     *)
(***************************************************************************)
EXTENDS Naturals, FiniteSets

CONSTANTS Guest, Vmid,          \* desired guests by slug; vmids
          VmidOf, TypeOf,       \* declared vmid, guest type of the declared kind
          NicCount,             \* conforming primary endpoints of the node
          Creatable,            \* guests whose creation preflight evidence is there
          PlatformLifecycle,    \* lifecycle of the platform
          NoLink, Gone, NoRow, Stranger

ASSUME ComputeAssumption ==
  /\ VmidOf \in [Guest -> Vmid] /\ TypeOf \in [Guest -> {"lxc", "qemu"}]
  /\ NicCount \in [Guest -> Nat] /\ Creatable \subseteq Guest
  /\ Stranger \notin Guest /\ NoLink \notin Vmid /\ Gone \notin Vmid /\ Gone # NoLink

Lifecycles == {"planned", "approved", "active", "deprecated", "retired"}

\* The strictest of the node's and the platform's lifecycle.
EffectiveLifecycle(node, platform) ==
  LET both == {node, platform}
  IN  IF "retired" \in both THEN "retired"
      ELSE IF "deprecated" \in both THEN "deprecated"
      ELSE IF "planned" \in both THEN "planned"
      ELSE IF both = {"active"} THEN "active" ELSE "approved"

Effective(s, g) == EffectiveLifecycle(s.desired[g].lifecycle, PlatformLifecycle)
Actionable(s, g) == Effective(s, g) \in {"active", "approved"}

\* The collection keeps an instance of an actionable guest only when exactly one
\* endpoint of its node satisfies the NIC contract.
Visible(s) == {g \in Guest : s.desired[g].declared
                             /\ (Actionable(s, g) => NicCount[g] = 1)}

PlatformFailed(s) == s.obs # "complete"

----------------------------------------------------------------------------
(* Match: an explicit link, else the vmid, else a unique name.             *)
Exists(s, k) == k \in Vmid /\ s.rows[k] # NoRow
SameName(s, g) == {k \in Vmid : Exists(s, k) /\ s.rows[k].name = g}

\* The matched row of g, or NoLink.
Matched(s, g) ==
  LET link == s.desired[g].link
  IN  IF PlatformFailed(s) THEN NoLink
      ELSE IF link # NoLink THEN (IF Exists(s, link) THEN link ELSE NoLink)
      ELSE IF Exists(s, VmidOf[g]) THEN VmidOf[g]
      ELSE IF Cardinality(SameName(s, g)) = 1 THEN CHOOSE k \in SameName(s, g) : TRUE
      ELSE NoLink

MatchFailure(s, g) ==
  IF PlatformFailed(s) \/ Matched(s, g) # NoLink THEN {}
  ELSE IF s.desired[g].link # NoLink THEN {"compute_realized_instance_missing"}
  ELSE IF SameName(s, g) # {} THEN {"compute_instance_candidate_ambiguous"}
  ELSE {"compute_instance_missing"}

----------------------------------------------------------------------------
(* Disposition: what desired presence and effective lifecycle ask for.     *)
\* Mutant: a guest found by name is destroyed under whatever vmid it has.
DestroyGateByName(s, g) == Matched(s, g) # NoLink /\ s.rows[Matched(s, g)].presence = "present"

\* Mutant: a guest under another name is silently retained.
DestroyGateNamed(s, g) == /\ Matched(s, g) = VmidOf[g] /\ s.rows[Matched(s, g)].name = g
                          /\ s.rows[Matched(s, g)].presence = "present"

DestroyGate(s, g) ==
  LET k == Matched(s, g)
  IN  /\ k # NoLink /\ s.rows[k].presence = "present"
      /\ s.rows[k].type = TypeOf[g]
      /\ k = VmidOf[g]

Disposition(s, g) ==
  LET absent  == s.desired[g].presence = "absent"
      retired == Effective(s, g) = "retired"
      k       == Matched(s, g)
  IN  IF PlatformFailed(s) THEN "unknown"
      ELSE IF absent /\ ~retired THEN "presence_conflict"
      ELSE IF ~retired THEN "ordinary"
      ELSE IF ~absent THEN "retained"
      ELSE IF k # NoLink /\ s.rows[k].presence = "absent" THEN "removal_complete"
      ELSE IF DestroyGate(s, g) THEN "destroy_required" ELSE "retained"

\* Creation is derived for an unlinked, actionable guest nothing matches.
CreationReady(s, g) ==
  /\ "compute_instance_missing" \in MatchFailure(s, g)
  /\ s.desired[g].link = NoLink /\ Actionable(s, g)
  /\ g \in Creatable

----------------------------------------------------------------------------
(* The diffs of one instance, and the actions planned from them.           *)
IdentityDiffs(s, g) ==
  LET k == Matched(s, g)
  IN  IF s.rows[k].type # TypeOf[g] \/ k # VmidOf[g]
      THEN {"compute_identity_conflict"} ELSE {}

InstanceDiffs(s, g) ==
  LET out == Disposition(s, g)
      conflict == IF out = "presence_conflict"
                  THEN {"compute_presence_lifecycle_conflict"} ELSE {}
      unlinked == IF s.desired[g].link = NoLink THEN {"compute_instance_not_linked"} ELSE {}
  IN  IF PlatformFailed(s) THEN {"compute_platform_observation_stale"}
      ELSE IF MatchFailure(s, g) # {} THEN conflict \cup MatchFailure(s, g)
      ELSE conflict \cup unlinked
           \cup (IF out = "removal_complete" THEN {"compute_instance_removal_complete"}
                 ELSE IdentityDiffs(s, g))
           \cup (IF out = "destroy_required" THEN {"compute_instance_destroy_required"} ELSE {})

Links(s, scope) == {g \in scope \cap Visible(s) :
                      "compute_instance_not_linked" \in InstanceDiffs(s, g)}
Creates(s, scope) == {g \in scope \cap Visible(s) : CreationReady(s, g)}
Destroys(s, scope) == {g \in scope \cap Visible(s) :
                         "compute_instance_destroy_required" \in InstanceDiffs(s, g)}

\* Mutant: only a linked instance has its evidence refreshed.
EvidenceRefreshLinked(s, scope) ==
  {g \in scope \cap Visible(s) : Matched(s, g) = NoLink /\ s.desired[g].link # NoLink}

\* A scoped instance no row realizes and no transition is planned for has its
\* evidence refreshed on the platform's control node.
EvidenceRefresh(s, scope) ==
  {g \in scope \cap Visible(s) : Matched(s, g) = NoLink}
    \ (Links(s, scope) \cup Creates(s, scope) \cup Destroys(s, scope))

Action(kind, g, k) == [kind |-> kind, guest |-> g, vmid |-> k]

PlanCompute(s, scope) ==
  {Action("link", g, Matched(s, g)) : g \in Links(s, scope)}
    \cup {Action("create", g, VmidOf[g]) : g \in Creates(s, scope)}
    \cup {Action("destroy", g, Matched(s, g)) : g \in Destroys(s, scope)}
    \cup (IF EvidenceRefresh(s, scope) = {} THEN {}
          ELSE {Action("observe", Stranger, NoLink)})

\* Mutant: no destroy waits for the link of its guest.
ReadyUnlinked(a, todo) == /\ (a.kind # "create" => \A b \in todo : b.kind # "create")
                          /\ (a.kind = "observe" => todo = {a})

\* Creates, then each destroy behind the link of its own guest, then the links
\* left, then the observation: topological_order over the action ids.
Ready(a, todo) ==
  /\ (a.kind # "create" => \A b \in todo : b.kind # "create")
  /\ (a.kind = "destroy" => \A b \in todo : ~(b.kind = "link" /\ b.guest = a.guest))
  /\ (a.kind = "link" /\ (\E b \in todo : b.kind = "destroy")
        => \E b \in todo : b.kind = "destroy" /\ b.guest = a.guest)
  /\ (a.kind = "observe" => todo = {a})
=============================================================================
