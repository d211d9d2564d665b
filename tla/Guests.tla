------------------------------- MODULE Guests -------------------------------
(***************************************************************************)
(* The life of the guests of one compute platform across the programs that *)
(* touch them: reconcile rounds that link, create, destroy and observe     *)
(* (reconcile/actions/compute_*.py, reconcile/ledger.py), nctl prune       *)
(* (retirement_prune.py), nctl lifecycle (lifecycle.py) and desired apply  *)
(* (desired_apply.py), with an operator who also edits the ledger and the  *)
(* hypervisor.  Rounds exclude each other by the reconcile lock; prune and *)
(* the operator take no lock, so they interleave with a round's steps.     *)
(*                                                                         *)
(* Ledgers are read whole (ComputeDrift's snapshot) and written by a       *)
(* transactional batch.  The hypervisor's collection and the ingest are    *)
(* one step, Ingest.  Edits and faults are bounded by MaxEdits, MaxFaults. *)
(***************************************************************************)
EXTENDS ComputeDrift

CONSTANTS MaybeRetired,         \* guests that may be retired and absent from the start
          MaxEdits, MaxFaults

VARIABLES
  desired, rows, obs, platLink,  \* the ledgers, as ComputeDrift reads them
  hyper,     \* guests that exist on the hypervisor: vmid -> NoRow or [name, type]
  input,     \* guests the operator's desired-state file still upserts
  round,     \* [pc, todo, after]: the running round
  prune,     \* [pc, guest, root]: the running or last prune
  dirty,     \* guests edited since the round read its snapshot
  edits, faults

vars == <<desired, rows, obs, platLink, hyper, input, round, prune, dirty,
          edits, faults>>
ledgers == <<desired, rows, obs, platLink>>

Undeclared == [declared |-> FALSE, lifecycle |-> "planned", presence |-> "present",
               link |-> NoLink]
Declared(l, p) == [declared |-> TRUE, lifecycle |-> l, presence |-> p, link |-> NoLink]
Snapshot == [desired |-> desired, rows |-> rows, obs |-> obs, platLink |-> platLink]
NoPrune == [pc |-> "idle", guest |-> Stranger, root |-> NoLink]

Machines == [name : Guest \cup {Stranger}, type : {"lxc", "qemu"}]
Rows == [name : Guest \cup {Stranger}, type : {"lxc", "qemu"},
         presence : {"present", "absent", "unknown"}]
Intents == [declared : BOOLEAN, lifecycle : Lifecycles, presence : {"present", "absent"},
            link : Vmid \cup {NoLink, Gone}]
Actions == [kind : {"link", "create", "destroy"}, guest : Guest, vmid : Vmid \cup {NoLink}]
             \cup {Action("observe", Stranger, NoLink)}

ASSUME GuestsAssumption == MaxEdits \in Nat /\ MaxFaults \in Nat /\ NoRow \notin Rows

TypeOK ==
  /\ desired \in [Guest -> Intents]
  /\ rows \in [Vmid -> Rows \cup {NoRow}] /\ hyper \in [Vmid -> Machines \cup {NoRow}]
  /\ obs \in {"missing", "stale", "incomplete", "complete"} /\ platLink \in BOOLEAN
  /\ input \subseteq Guest /\ dirty \subseteq Guest
  /\ round \in [pc : {"idle", "acting", "linking", "observing"}, todo : SUBSET Actions,
                after : BOOLEAN]
  /\ prune \in [pc : {"idle", "planned", "confirmed", "roots", "rows", "noop", "pruned", "failed"},
                guest : Guest \cup {Stranger}, root : Vmid \cup {NoLink}]
  /\ edits \in 0..MaxEdits /\ faults \in 0..MaxFaults

Init ==
  /\ desired \in {[g \in Guest |-> IF g \in old THEN Declared("retired", "absent")
                                   ELSE Declared("active", "present")] :
                    old \in SUBSET MaybeRetired}
  /\ rows = [k \in Vmid |-> NoRow] /\ obs = "missing" /\ platLink = FALSE
  /\ hyper \in {[k \in Vmid |-> NoRow]}
       \cup {[k \in Vmid |-> IF k = j THEN [name |-> n, type |-> "lxc"] ELSE NoRow] :
               j \in Vmid, n \in Guest}
  /\ input = Guest
  /\ round = [pc |-> "idle", todo |-> {}, after |-> FALSE]
  /\ prune = NoPrune /\ dirty = {} /\ edits = 0 /\ faults = 0

----------------------------------------------------------------------------
(* Observation: the control node's collection ingested into the ledger.     *)
(* A complete one sets every presence; an incomplete one clears those it    *)
(* could not confirm.                                                       *)
\* Mutant: an incomplete collection keeps a row of what it did not see.
IngestedRowUnseen(k, complete) ==
  IF hyper[k] # NoRow THEN [name |-> hyper[k].name, type |-> hyper[k].type, presence |-> "present"]
  ELSE [name |-> Stranger, type |-> "lxc", presence |-> "missing"]

IngestedRow(k, complete) ==
  IF hyper[k] # NoRow /\ complete
  THEN [name |-> hyper[k].name, type |-> hyper[k].type, presence |-> "present"]
  ELSE IF rows[k] = NoRow THEN NoRow
  ELSE [rows[k] EXCEPT !.presence = IF complete THEN "absent" ELSE "unknown"]

Ingest(complete) ==
  /\ rows' = [k \in Vmid |-> IngestedRow(k, complete)]
  /\ obs' = IF complete THEN "complete" ELSE "incomplete"
  /\ UNCHANGED <<desired, platLink, hyper>>

Fault == faults < MaxFaults /\ faults' = faults + 1

\* An attempt to observe: it ingests, or it fails and changes nothing.
Observe == \/ Ingest(TRUE) /\ UNCHANGED faults
           \/ Ingest(FALSE) /\ Fault
           \/ Fault /\ UNCHANGED <<ledgers, hyper>>

----------------------------------------------------------------------------
(* A reconcile round.                                                       *)
\* Read the ledgers, plan for the scope, and start when there is work.
StartRound(scope) ==
  /\ round.pc = "idle"
  /\ LET todo == PlanCompute(Snapshot, scope)
     IN  /\ todo # {}
         /\ round' = [pc |-> "acting", todo |-> todo,
                      after |-> \E a \in todo : a.kind \in {"create", "destroy"}]
  /\ dirty' = {}
  /\ UNCHANGED <<ledgers, hyper, input, prune, edits, faults>>

\* A handler ends, well or badly; the round goes on with what is left.
Done(a) == LET left == round.todo \ {a}
           IN  round' = IF left # {} THEN [round EXCEPT !.pc = "acting", !.todo = left]
                        ELSE [pc |-> IF round.after THEN "observing" ELSE "idle",
                              todo |-> {}, after |-> FALSE]

\* link_compute_realization reads the desired rows and refuses to replace a link
\* to another object; it writes in a later request.
LinkCheck(a) ==
  /\ round.pc = "acting" /\ a.kind = "link"
  /\ IF desired[a.guest].declared /\ desired[a.guest].link \in {NoLink, a.vmid}
     THEN round' = [round EXCEPT !.pc = "linking"] ELSE Done(a)
  /\ UNCHANGED <<ledgers, hyper, input, prune, dirty, edits, faults>>

\* The batch sets the platform's and the instance's link in one transaction, or
\* neither: the request fails, or the server knows no such row or instance.
LinkWrite(a) ==
  /\ round.pc = "linking" /\ a.kind = "link" /\ Done(a)
  /\ \/ /\ desired[a.guest].declared /\ rows[a.vmid] # NoRow
        /\ desired' = [desired EXCEPT ![a.guest].link = a.vmid]
        /\ platLink' = TRUE /\ UNCHANGED faults
     \/ /\ ~(desired[a.guest].declared /\ rows[a.vmid] # NoRow)
        /\ UNCHANGED <<desired, platLink, faults>>
     \/ Fault /\ UNCHANGED <<desired, platLink>>
  /\ UNCHANGED <<rows, obs, hyper, input, prune, dirty, edits>>

\* The create playbook fails on a vmid in use; a fault stops it before or after
\* the guest exists.  The handler's check against the round's own snapshot always
\* passes, since that is what the plan was made from.
Create(a) ==
  /\ round.pc = "acting" /\ a.kind = "create" /\ Done(a)
  /\ \/ /\ hyper' = IF hyper[a.vmid] # NoRow THEN hyper
                    ELSE [hyper EXCEPT ![a.vmid] = [name |-> a.guest,
                                                    type |-> TypeOf[a.guest]]]
        /\ (UNCHANGED faults \/ Fault)
     \/ Fault /\ UNCHANGED hyper
  /\ UNCHANGED <<ledgers, input, prune, dirty, edits>>

Destroy(a) ==
  /\ round.pc = "acting" /\ a.kind = "destroy" /\ Done(a)
  /\ \/ hyper' = [hyper EXCEPT ![a.vmid] = NoRow] /\ (UNCHANGED faults \/ Fault)
     \/ Fault /\ UNCHANGED hyper
  /\ UNCHANGED <<ledgers, input, prune, dirty, edits>>

\* The planned evidence refresh, and the observation after a create or destroy.
Refresh(a) ==
  /\ round.pc = "acting" /\ a.kind = "observe" /\ Done(a) /\ Observe
  /\ UNCHANGED <<input, prune, dirty, edits>>

PostObserve ==
  /\ round.pc = "observing" /\ Observe
  /\ round' = [round EXCEPT !.pc = "idle"]
  /\ UNCHANGED <<input, prune, dirty, edits>>

\* The round is interrupted or dies between two actions.
Die ==
  /\ round.pc # "idle" /\ Fault
  /\ round' = [pc |-> "idle", todo |-> {}, after |-> FALSE]
  /\ UNCHANGED <<ledgers, hyper, input, prune, dirty, edits>>

RoundStep ==
  \/ \E a \in {b \in round.todo : Ready(b, round.todo)} :
       LinkCheck(a) \/ LinkWrite(a) \/ Create(a) \/ Destroy(a) \/ Refresh(a)
  \/ PostObserve

----------------------------------------------------------------------------
(* nctl prune.                                                              *)
Root(s, g) == LET k == s.desired[g].link IN IF Exists(s, k) THEN k ELSE NoLink

\* A retired, absent guest whose linked row, if any survives, drift confirms gone.
Eligible(s, g) ==
  /\ s.desired[g].declared
  /\ s.desired[g].lifecycle = "retired" /\ s.desired[g].presence = "absent"
  /\ Root(s, g) # NoLink =>
       /\ s.rows[Root(s, g)].presence = "absent" /\ s.obs = "complete"
       /\ Disposition(s, g) = "removal_complete"

PruneIdle == prune.pc \in {"idle", "noop", "pruned", "failed"}
PruneAt(pc) == prune' = [prune EXCEPT !.pc = pc]
PruneFrame == UNCHANGED <<rows, obs, platLink, hyper, round, dirty, edits>>

StartPrune(g) ==
  /\ PruneIdle /\ Eligible(Snapshot, g)
  /\ prune' = [pc |-> "planned", guest |-> g, root |-> Root(Snapshot, g)]
  /\ UNCHANGED <<desired, input, faults>> /\ PruneFrame

\* A prune of a node that is gone has nothing to do and ends well.
NoopPrune(g) ==
  /\ PruneIdle /\ ~desired[g].declared
  /\ prune' = [pc |-> "noop", guest |-> g, root |-> NoLink]
  /\ UNCHANGED <<desired, input, faults>> /\ PruneFrame

\* The refetch must find the same eligibility and the same roots.
ConfirmPrune ==
  /\ prune.pc = "planned"
  /\ PruneAt(IF Eligible(Snapshot, prune.guest) /\ Root(Snapshot, prune.guest) = prune.root
             THEN "confirmed" ELSE "failed")
  /\ UNCHANGED <<desired, input, faults>> /\ PruneFrame

\* The server deletes the row it was given, if the guest still links it.
DeleteRoot ==
  LET k == prune.root
      ok == k # NoLink => rows[k] # NoRow /\ desired[prune.guest].link = k
  IN  /\ prune.pc = "confirmed"
      /\ \/ /\ ok /\ PruneAt("roots") /\ UNCHANGED faults
            /\ IF k = NoLink THEN UNCHANGED <<rows, desired>>
               ELSE /\ rows' = [rows EXCEPT ![k] = NoRow]
                    /\ desired' = [g \in Guest |-> IF desired[g].link = k
                                     THEN [desired[g] EXCEPT !.link = Gone] ELSE desired[g]]
         \/ ~ok /\ PruneAt("failed") /\ UNCHANGED <<rows, desired, faults>>
         \/ PruneAt("failed") /\ Fault /\ UNCHANGED <<rows, desired>>
      /\ UNCHANGED <<obs, platLink, hyper, input, round, dirty, edits>>

\* One transactional batch deletes the endpoints, the instance and the node.
DeleteDesired ==
  /\ prune.pc = "roots"
  /\ \/ /\ PruneAt("rows") /\ UNCHANGED faults
        /\ desired' = [desired EXCEPT ![prune.guest] = Undeclared]
     \/ PruneAt("failed") /\ Fault /\ UNCHANGED desired
  /\ UNCHANGED input /\ PruneFrame

\* The host's upserts leave the operator's file, or the file cannot be written.
UpdateInput ==
  /\ prune.pc = "rows"
  /\ \/ PruneAt("pruned") /\ input' = input \ {prune.guest} /\ UNCHANGED faults
     \/ PruneAt("failed") /\ Fault /\ UNCHANGED input
  /\ UNCHANGED desired /\ PruneFrame

PruneStep == ConfirmPrune \/ DeleteRoot \/ DeleteDesired \/ UpdateInput

----------------------------------------------------------------------------
(* The operator and the passing of time.                                    *)
Edit(g) == /\ edits < MaxEdits /\ edits' = edits + 1
           /\ dirty' = dirty \cup {g}
           /\ prune' = IF PruneIdle /\ prune.guest = g THEN NoPrune ELSE prune
           /\ UNCHANGED <<round, faults>>

\* nctl lifecycle: no write when the node is in that state already.
SetLifecycle(g, l) ==
  /\ desired[g].declared /\ desired[g].lifecycle # l /\ Edit(g)
  /\ desired' = [desired EXCEPT ![g].lifecycle = l]
  /\ UNCHANGED <<rows, obs, platLink, hyper, input>>

\* desired apply of a partial batch that changes the presence.
SetPresence(g, p) ==
  /\ desired[g].declared /\ desired[g].presence # p /\ Edit(g)
  /\ desired' = [desired EXCEPT ![g].presence = p]
  /\ UNCHANGED <<rows, obs, platLink, hyper, input>>

\* desired apply of the operator's file declares again what it still lists.
Redeclare(g) ==
  /\ ~desired[g].declared /\ g \in input /\ Edit(g)
  /\ desired' = [desired EXCEPT ![g] = Declared("active", "present")]
  /\ UNCHANGED <<rows, obs, platLink, hyper, input>>

\* A guest appears on the hypervisor, or goes, without nctl.
ByHand(k, n) ==
  /\ Edit(n)
  /\ hyper' = [hyper EXCEPT ![k] = IF @ # NoRow THEN NoRow
                                   ELSE [name |-> n, type |-> "lxc"]]
  /\ UNCHANGED <<ledgers, input>>

\* The observation is older than ACTUAL_MAX_AGE_HOURS.
Expire == /\ obs \in {"complete", "incomplete"} /\ obs' = "stale"
          /\ UNCHANGED <<desired, rows, platLink, hyper, input, round, prune, dirty,
                         edits, faults>>

Operator == \E g \in Guest :
              \/ \E l \in {"active", "retired"} : SetLifecycle(g, l)
              \/ \E p \in {"present", "absent"} : SetPresence(g, p)
              \/ Redeclare(g)
              \/ \E k \in Vmid : ByHand(k, g)
              \/ StartPrune(g) \/ NoopPrune(g)

Next == \/ \E scope \in {Guest} \cup {{g} : g \in Guest} : StartRound(scope)
        \/ RoundStep \/ Die \/ PruneStep \/ Operator \/ Expire

\* A round that started keeps running, the operator reconciles the cluster again while
\* there is work, and time passes.  A prune may die anywhere.
Fairness == WF_vars(RoundStep) /\ WF_vars(StartRound(Guest)) /\ WF_vars(Expire)

Spec == Init /\ [][Next]_vars /\ Fairness

----------------------------------------------------------------------------
(* Properties.                                                              *)
\* What the round is about to destroy is what its guest's intent asks for, until
\* somebody edits that guest after the snapshot: a destroy is never carried over
\* from one reading of the ledgers to another.
PinnedUnlessEdited ==
  \A a \in round.todo :
    a.kind = "destroy" /\ a.guest \notin dirty /\ desired[a.guest].declared =>
      /\ Effective(Snapshot, a.guest) = "retired" /\ desired[a.guest].presence = "absent"
      /\ a.vmid = VmidOf[a.guest]

\* While the ledger shows the hypervisor as it is, a guest that should be gone and
\* is not is either planned for destruction or reported under a code that needs a
\* human: drift is never silent about it.  Its machine is the one its link names, or
\* without a link the one under its vmid.
Accurate == /\ obs = "complete"
            /\ \A k \in Vmid : IF hyper[k] = NoRow THEN rows[k] # NoRow => rows[k].presence = "absent"
                               ELSE rows[k] = [name |-> hyper[k].name, type |-> hyper[k].type,
                                               presence |-> "present"]
Machine(g) == IF Exists(Snapshot, desired[g].link) THEN desired[g].link ELSE VmidOf[g]
NoSilentOrphan ==
  \A g \in Visible(Snapshot) :
    /\ Accurate /\ hyper[Machine(g)] # NoRow
    /\ Effective(Snapshot, g) = "retired" /\ desired[g].presence = "absent"
    => InstanceDiffs(Snapshot, g) \cap
         {"compute_instance_destroy_required", "compute_identity_conflict",
          "compute_realized_instance_missing"} # {}

\* A destroy only runs when the link of its guest was written or tried first: the
\* dependency the planner adds orders the two even when the link fails.
DestroyAfterLink ==
  [][\A k \in Vmid, a \in round.todo :
       a.kind = "destroy" /\ a.vmid = k /\ hyper[k] # NoRow /\ hyper'[k] = NoRow
         /\ a \notin round'.todo
       => ~\E b \in round.todo : b.kind = "link" /\ b.guest = a.guest]_vars

\* A guest that exists but is not in the ledger is found again, whatever died
\* between its creation and its observation, as long as it is declared.
Lost(g) == /\ g \in Visible(Snapshot) /\ hyper[VmidOf[g]] # NoRow
           /\ (rows[VmidOf[g]] = NoRow \/ rows[VmidOf[g]].presence # "present")
OrphanFound == \A g \in Guest : Lost(g) ~> ~Lost(g)
=============================================================================
