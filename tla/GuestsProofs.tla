---------------------------- MODULE GuestsProofs ----------------------------
(* The guests of a platform keep their types; a planned destroy stays what its  *)
(* guest's intent asked for; drift is never silent about a guest that should be *)
(* gone.  For any guests, vmids, edits and faults.                              *)
EXTENDS Guests, FiniteSetTheorems, TLAPS

(* What the plan says. *)

\* A match is a row of the ledger.
LEMMA MatchedRow ==
  ASSUME NEW s, NEW g \in Guest
  PROVE  Matched(s, g) \in Vmid \cup {NoLink}
<1>1. CASE Cardinality(SameName(s, g)) = 1
  <2>1. SameName(s, g) # {}
    BY <1>1, FS_EmptySet
  <2>2. (CHOOSE k \in SameName(s, g) : TRUE) \in SameName(s, g)
    BY <2>1
  <2> QED
    BY <2>2, ComputeAssumption DEF Matched, SameName, Exists
<1>2. CASE Cardinality(SameName(s, g)) # 1
  BY <1>2, ComputeAssumption DEF Matched, Exists
<1> QED
  BY <1>1, <1>2

\* A destroy is only reported for a guest whose intent is retired and absent, under
\* the vmid it declares.
LEMMA DestroyAsked ==
  ASSUME NEW s, NEW g \in Guest, "compute_instance_destroy_required" \in InstanceDiffs(s, g)
  PROVE  /\ Effective(s, g) = "retired" /\ s.desired[g].presence = "absent"
         /\ Matched(s, g) = VmidOf[g]
<1>1. Disposition(s, g) = "destroy_required"
  BY DEF InstanceDiffs, MatchFailure, IdentityDiffs
<1>2. /\ Effective(s, g) = "retired" /\ s.desired[g].presence = "absent"
      /\ DestroyGate(s, g)
  BY <1>1 DEF Disposition
<1> QED
  BY <1>2 DEF DestroyGate

\* What a round plans has the type of actions, and its destroys are asked for.
LEMMA PlannedActions ==
  ASSUME NEW s, NEW scope \in SUBSET Guest, NEW a \in PlanCompute(s, scope)
  PROVE  /\ a \in Actions
         /\ a.kind = "destroy" => /\ a.guest \in Guest /\ a.vmid = VmidOf[a.guest]
                                  /\ Effective(s, a.guest) = "retired"
                                  /\ s.desired[a.guest].presence = "absent"
<1>1. CASE \E g \in Links(s, scope) : a = Action("link", g, Matched(s, g))
  BY <1>1, MatchedRow DEF Links, Visible, Action, Actions
<1>2. CASE \E g \in Creates(s, scope) : a = Action("create", g, VmidOf[g])
  BY <1>2, ComputeAssumption DEF Creates, Visible, Action, Actions
<1>3. CASE \E g \in Destroys(s, scope) : a = Action("destroy", g, Matched(s, g))
  <2>1. PICK g \in Destroys(s, scope) : a = Action("destroy", g, Matched(s, g))
    BY <1>3
  <2>2. g \in Guest /\ "compute_instance_destroy_required" \in InstanceDiffs(s, g)
    BY <2>1 DEF Destroys, Visible
  <2> QED
    BY <2>1, <2>2, DestroyAsked, MatchedRow DEF Action, Actions
<1>4. CASE a = Action("observe", Stranger, NoLink)
  BY <1>4 DEF Action, Actions
<1> QED
  BY <1>1, <1>2, <1>3, <1>4 DEF PlanCompute

----------------------------------------------------------------------------
(* The invariant. *)

\* What a planned destroy is for; PinnedUnlessEdited with the types it needs.
Grounded ==
  \A a \in round.todo : a.kind = "destroy" =>
    /\ a.guest \in Guest /\ a.vmid = VmidOf[a.guest]
    /\ a.guest \notin dirty /\ desired[a.guest].declared =>
         Effective(Snapshot, a.guest) = "retired" /\ desired[a.guest].presence = "absent"

GuestInv == TypeOK /\ Grounded

\* A step that only shortens the plan and leaves the intent of unedited guests as it
\* is, unless it deletes it, keeps the plan grounded.
LEMMA GroundedStep ==
  ASSUME Grounded, round'.todo \subseteq round.todo, dirty \subseteq dirty',
         \A g \in Guest \ dirty' : desired'[g].declared =>
            /\ desired[g].declared
            /\ desired'[g].lifecycle = desired[g].lifecycle
            /\ desired'[g].presence = desired[g].presence
  PROVE  Grounded'
BY DEF Grounded, Effective, Snapshot

\* The end of an action keeps the round's type and shortens the plan.
LEMMA DoneStep ==
  ASSUME TypeOK, NEW a \in round.todo, Done(a)
  PROVE  /\ round' \in [pc : {"idle", "acting", "linking", "observing"},
                        todo : SUBSET Actions, after : BOOLEAN]
         /\ round'.todo \subseteq round.todo
BY DEF TypeOK, Done

\* An attempt to observe keeps the types of what it writes.
LEMMA ObserveStep ==
  ASSUME TypeOK, Observe
  PROVE  /\ rows' \in [Vmid -> Rows \cup {NoRow}]
         /\ obs' \in {"missing", "stale", "incomplete", "complete"}
         /\ faults' \in 0..MaxFaults
         /\ UNCHANGED <<desired, platLink, hyper>>
<1>1. ASSUME NEW complete \in BOOLEAN, Ingest(complete)
      PROVE  /\ rows' \in [Vmid -> Rows \cup {NoRow}]
             /\ obs' \in {"missing", "stale", "incomplete", "complete"}
             /\ UNCHANGED <<desired, platLink, hyper>>
  <2>1. ASSUME NEW k \in Vmid
        PROVE  IngestedRow(k, complete) \in Rows \cup {NoRow}
    <3>1. hyper[k] \in Machines \cup {NoRow} /\ rows[k] \in Rows \cup {NoRow}
      BY DEF TypeOK
    <3> QED
      BY <3>1 DEF IngestedRow, Machines, Rows
  <2> QED
    BY <1>1, <2>1 DEF Ingest
<1>2. Fault => faults' \in 0..MaxFaults
  BY GuestsAssumption DEF Fault, TypeOK
<1>3. CASE Ingest(TRUE) /\ UNCHANGED faults
  BY <1>1, <1>3 DEF TypeOK
<1>4. CASE Ingest(FALSE) /\ Fault
  BY <1>1, <1>2, <1>4
<1>5. CASE Fault /\ UNCHANGED <<ledgers, hyper>>
  BY <1>2, <1>5 DEF TypeOK, ledgers
<1> QED
  BY <1>3, <1>4, <1>5 DEF Observe

\* A fault stays within the bound.
LEMMA FaultStep ==
  ASSUME TypeOK, Fault \/ UNCHANGED faults
  PROVE  faults' \in 0..MaxFaults
BY GuestsAssumption DEF Fault, TypeOK

----------------------------------------------------------------------------
(* Steps. *)

\* A new round plans from the snapshot it reads.
LEMMA StartRoundKeeps ==
  ASSUME GuestInv, NEW scope \in SUBSET Guest, StartRound(scope)
  PROVE  GuestInv'
<1>1. /\ round' = [pc |-> "acting", todo |-> PlanCompute(Snapshot, scope),
                   after |-> \E a \in PlanCompute(Snapshot, scope) : a.kind \in {"create", "destroy"}]
      /\ dirty' = {}
      /\ UNCHANGED <<ledgers, hyper, input, prune, edits, faults>>
  BY DEF StartRound
<1>2. PlanCompute(Snapshot, scope) \subseteq Actions
  BY PlannedActions
<1>3. TypeOK'
  BY <1>1, <1>2 DEF GuestInv, TypeOK, ledgers
<1>4. Snapshot' = Snapshot /\ desired' = desired
  BY <1>1 DEF Snapshot, ledgers
<1>5. Snapshot.desired = desired
  BY DEF Snapshot
<1>6. ASSUME NEW a \in round'.todo, a.kind = "destroy"
      PROVE  /\ a.guest \in Guest /\ a.vmid = VmidOf[a.guest]
             /\ Effective(Snapshot, a.guest) = "retired" /\ desired[a.guest].presence = "absent"
  <2>1. a \in PlanCompute(Snapshot, scope)
    BY <1>1
  <2> QED
    BY <1>5, <1>6, <2>1, PlannedActions
<1>7. Grounded'
  BY <1>4, <1>6 DEF Grounded, Effective, Snapshot
<1> QED
  BY <1>3, <1>7 DEF GuestInv

\* A link writes one vmid, or finds that it must not.
LEMMA LinkKeeps ==
  ASSUME GuestInv, NEW a \in round.todo, LinkCheck(a) \/ LinkWrite(a)
  PROVE  GuestInv'
<1> USE DEF GuestInv
<1>1. CASE LinkCheck(a)
  <2>1. /\ round' \in [pc : {"idle", "acting", "linking", "observing"},
                       todo : SUBSET Actions, after : BOOLEAN]
        /\ round'.todo \subseteq round.todo
    <3>1. CASE round' = [round EXCEPT !.pc = "linking"]
      BY <3>1 DEF TypeOK
    <3>2. CASE Done(a)
      BY <3>2, DoneStep
    <3> QED
      BY <1>1, <3>1, <3>2 DEF LinkCheck
  <2>2. UNCHANGED <<ledgers, hyper, input, prune, dirty, edits, faults>>
    BY <1>1 DEF LinkCheck
  <2>3. TypeOK'
    BY <2>1, <2>2 DEF TypeOK, ledgers
  <2>4. Grounded'
    BY <2>1, <2>2, GroundedStep DEF ledgers
  <2> QED
    BY <2>3, <2>4
<1>2. CASE LinkWrite(a)
  <2>1. /\ round' \in [pc : {"idle", "acting", "linking", "observing"},
                       todo : SUBSET Actions, after : BOOLEAN]
        /\ round'.todo \subseteq round.todo
    BY <1>2, DoneStep DEF LinkWrite
  <2>2. UNCHANGED <<rows, obs, hyper, input, prune, dirty, edits>>
    BY <1>2 DEF LinkWrite
  <2>3. faults' \in 0..MaxFaults
    BY <1>2, FaultStep DEF LinkWrite
  <2>4. /\ platLink' \in BOOLEAN
        /\ \/ desired' = [desired EXCEPT ![a.guest].link = a.vmid]
           \/ desired' = desired
    BY <1>2 DEF LinkWrite, TypeOK
  <2>5. a.vmid \in Vmid \cup {NoLink}
    BY DEF TypeOK, Actions, Action
  <2>6. ASSUME NEW g \in Guest
        PROVE  /\ desired'[g] \in Intents
               /\ desired'[g].declared = desired[g].declared
               /\ desired'[g].lifecycle = desired[g].lifecycle
               /\ desired'[g].presence = desired[g].presence
    BY <2>4, <2>5 DEF TypeOK, Intents
  <2>7. desired' \in [Guest -> Intents]
    BY <2>4, <2>6 DEF TypeOK
  <2>8. TypeOK'
    BY <2>1, <2>2, <2>3, <2>4, <2>7 DEF TypeOK
  <2>9. Grounded'
    BY <2>1, <2>2, <2>6, GroundedStep
  <2> QED
    BY <2>8, <2>9
<1> QED
  BY <1>1, <1>2

\* Creating and destroying touch the hypervisor and the rows it reports.
LEMMA HypervisorKeeps ==
  ASSUME GuestInv, NEW a \in round.todo, Create(a) \/ Destroy(a)
  PROVE  GuestInv'
<1> USE DEF GuestInv
<1>1. /\ round' \in [pc : {"idle", "acting", "linking", "observing"},
                     todo : SUBSET Actions, after : BOOLEAN]
      /\ round'.todo \subseteq round.todo
  BY DoneStep DEF Create, Destroy
<1>2. UNCHANGED <<ledgers, input, prune, dirty, edits>>
  BY DEF Create, Destroy
<1>3. faults' \in 0..MaxFaults
  BY FaultStep DEF Create, Destroy
<1>4. hyper' \in [Vmid -> Machines \cup {NoRow}]
  <2>1. CASE Destroy(a)
    BY <2>1 DEF Destroy, TypeOK
  <2>2. CASE Create(a)
    <3>1. a.guest \in Guest
      BY <2>2 DEF Create, TypeOK, Actions, Action
    <3>2. TypeOf[a.guest] \in {"lxc", "qemu"}
      BY <3>1, ComputeAssumption
    <3>3. [name |-> a.guest, type |-> TypeOf[a.guest]] \in Machines
      BY <3>1, <3>2 DEF Machines
    <3> QED
      BY <2>2, <3>3 DEF Create, TypeOK
  <2> QED
    BY <2>1, <2>2
<1>5. TypeOK'
  BY <1>1, <1>2, <1>3, <1>4 DEF TypeOK, ledgers
<1>6. Grounded'
  BY <1>1, <1>2, GroundedStep DEF ledgers
<1> QED
  BY <1>5, <1>6

\* An observation touches rows and evidence only.
LEMMA ObservationKeeps ==
  ASSUME GuestInv, PostObserve \/ \E a \in round.todo : Refresh(a)
  PROVE  GuestInv'
<1> USE DEF GuestInv
<1>1. Observe /\ UNCHANGED <<input, prune, dirty, edits>>
  BY DEF PostObserve, Refresh
<1>2. /\ round' \in [pc : {"idle", "acting", "linking", "observing"},
                     todo : SUBSET Actions, after : BOOLEAN]
      /\ round'.todo \subseteq round.todo
  <2>1. CASE PostObserve
    BY <2>1 DEF PostObserve, TypeOK
  <2>2. CASE \E a \in round.todo : Refresh(a)
    BY <2>2, DoneStep DEF Refresh
  <2> QED
    BY <2>1, <2>2
<1>3. TypeOK'
  BY <1>1, <1>2, ObserveStep DEF TypeOK
<1>4. Grounded'
  BY <1>1, <1>2, ObserveStep, GroundedStep
<1> QED
  BY <1>3, <1>4

\* A round that dies leaves what it wrote.
LEMMA DieKeeps ==
  ASSUME GuestInv, Die
  PROVE  GuestInv'
<1> USE DEF GuestInv
<1>1. TypeOK'
  BY FaultStep DEF Die, TypeOK, ledgers
<1>2. Grounded'
  BY GroundedStep DEF Die, ledgers
<1> QED
  BY <1>1, <1>2

(* Prune leaves the round and the edited guests alone. *)

\* The eligible root is a row.
LEMMA RootRow ==
  ASSUME NEW s, NEW g \in Guest
  PROVE  Root(s, g) \in Vmid \cup {NoLink}
BY DEF Root, Exists

\* A prune deletes rows, links and declarations, never the plan of a round.
LEMMA PruneKeeps ==
  ASSUME GuestInv, PruneStep \/ \E g \in Guest : StartPrune(g) \/ NoopPrune(g)
  PROVE  GuestInv'
<1> USE DEF GuestInv
<1>1. UNCHANGED <<obs, platLink, hyper, round, dirty, edits>>
  BY DEF PruneStep, StartPrune, NoopPrune, ConfirmPrune, DeleteRoot, DeleteDesired, UpdateInput, PruneFrame
<1>2. faults' \in 0..MaxFaults
  BY FaultStep DEF PruneStep, StartPrune, NoopPrune, ConfirmPrune, DeleteRoot, DeleteDesired, UpdateInput
<1>3. input' \subseteq Guest
  BY DEF PruneStep, StartPrune, NoopPrune, ConfirmPrune, DeleteRoot, DeleteDesired, UpdateInput, TypeOK
<1>4. prune' \in [pc : {"idle", "planned", "confirmed", "roots", "rows", "noop", "pruned", "failed"},
                  guest : Guest \cup {Stranger}, root : Vmid \cup {NoLink}]
  <2>1. CASE \E g \in Guest : StartPrune(g) \/ NoopPrune(g)
    BY <2>1, RootRow DEF StartPrune, NoopPrune
  <2>2. CASE PruneStep
    BY <2>2 DEF PruneStep, ConfirmPrune, DeleteRoot, DeleteDesired, UpdateInput, PruneAt, TypeOK
  <2> QED
    BY <2>1, <2>2
<1>5. /\ rows' \in [Vmid -> Rows \cup {NoRow}]
      /\ desired' \in [Guest -> Intents]
      /\ \A g \in Guest : desired'[g].declared =>
            /\ desired[g].declared
            /\ desired'[g].lifecycle = desired[g].lifecycle
            /\ desired'[g].presence = desired[g].presence
  <2>1. CASE DeleteRoot
    <3>1. CASE UNCHANGED <<rows, desired>>
      BY <3>1 DEF TypeOK
    <3>2. CASE /\ rows' = [rows EXCEPT ![prune.root] = NoRow]
               /\ desired' = [g \in Guest |-> IF desired[g].link = prune.root
                                              THEN [desired[g] EXCEPT !.link = Gone] ELSE desired[g]]
      <4>1. \A g \in Guest : desired[g] \in Intents
        BY DEF TypeOK
      <4> QED
        BY <3>2, <4>1 DEF TypeOK, Intents
    <3> QED
      BY <2>1, <3>1, <3>2 DEF DeleteRoot
  <2>2. CASE DeleteDesired
    <3>1. Undeclared \in Intents /\ ~Undeclared.declared
      BY DEF Undeclared, Intents, Lifecycles
    <3>2. rows' = rows
      BY <2>2 DEF DeleteDesired, PruneFrame
    <3> QED
      BY <2>2, <3>1, <3>2 DEF DeleteDesired, TypeOK
  <2>3. CASE ConfirmPrune \/ UpdateInput \/ \E g \in Guest : StartPrune(g) \/ NoopPrune(g)
    BY <2>3 DEF ConfirmPrune, UpdateInput, StartPrune, NoopPrune, PruneFrame, TypeOK
  <2> QED
    BY <2>1, <2>2, <2>3 DEF PruneStep
<1>6. TypeOK'
  BY <1>1, <1>2, <1>3, <1>4, <1>5 DEF TypeOK
<1>7. Grounded'
  BY <1>1, <1>5, GroundedStep
<1> QED
  BY <1>6, <1>7

(* What is edited is marked, so that edits cannot unground the plan. *)

\* An edit marks its guest.
LEMMA EditKeeps ==
  ASSUME GuestInv, NEW g \in Guest,
         \/ \E l \in {"active", "retired"} : SetLifecycle(g, l)
         \/ \E p \in {"present", "absent"} : SetPresence(g, p)
         \/ Redeclare(g)
         \/ \E k \in Vmid : ByHand(k, g)
  PROVE  GuestInv'
<1> USE DEF GuestInv
<1>1. Edit(g) /\ UNCHANGED <<rows, obs, platLink, input>>
  BY DEF SetLifecycle, SetPresence, Redeclare, ByHand, ledgers
<1>2. /\ dirty' = dirty \cup {g} /\ UNCHANGED <<round, faults>>
      /\ edits' \in 0..MaxEdits
  BY <1>1, GuestsAssumption DEF Edit, TypeOK
<1>3. prune' \in [pc : {"idle", "planned", "confirmed", "roots", "rows", "noop", "pruned", "failed"},
                  guest : Guest \cup {Stranger}, root : Vmid \cup {NoLink}]
  BY <1>1 DEF Edit, NoPrune, TypeOK
<1>4. hyper' \in [Vmid -> Machines \cup {NoRow}]
  <2>1. CASE UNCHANGED hyper
    BY <2>1 DEF TypeOK
  <2>2. CASE \E k \in Vmid : ByHand(k, g)
    <3>1. [name |-> g, type |-> "lxc"] \in Machines
      BY DEF Machines
    <3> QED
      BY <2>2, <3>1 DEF ByHand, TypeOK
  <2> QED
    BY <2>1, <2>2 DEF SetLifecycle, SetPresence, Redeclare
<1>5. /\ desired' \in [Guest -> Intents]
      /\ \A h \in Guest \ {g} : desired'[h] = desired[h]
  <2>1. \A h \in Guest : desired[h] \in Intents
    BY DEF TypeOK
  <2>2. CASE \E l \in {"active", "retired"} : SetLifecycle(g, l)
    BY <2>1, <2>2 DEF SetLifecycle, TypeOK, Intents, Lifecycles
  <2>3. CASE \E p \in {"present", "absent"} : SetPresence(g, p)
    BY <2>1, <2>3 DEF SetPresence, TypeOK, Intents
  <2>4. CASE Redeclare(g)
    <3>1. Declared("active", "present") \in Intents
      BY DEF Declared, Intents, Lifecycles
    <3> QED
      BY <2>4, <3>1 DEF Redeclare, TypeOK
  <2>5. CASE \E k \in Vmid : ByHand(k, g)
    BY <2>5 DEF ByHand, ledgers, TypeOK
  <2> QED
    BY <2>2, <2>3, <2>4, <2>5
<1>6. TypeOK'
  BY <1>1, <1>2, <1>3, <1>4, <1>5 DEF TypeOK
<1>7. Grounded'
  BY <1>2, <1>5, GroundedStep
<1> QED
  BY <1>6, <1>7

\* Time ages evidence only.
LEMMA ExpireKeeps ==
  ASSUME GuestInv, Expire
  PROVE  GuestInv'
<1> USE DEF GuestInv
<1>1. TypeOK'
  BY DEF Expire, TypeOK
<1>2. Grounded'
  BY GroundedStep DEF Expire
<1> QED
  BY <1>1, <1>2

\* Guests starts with its types and with nothing planned.
LEMMA InitHolds ==
  ASSUME Init
  PROVE  GuestInv
<1>1. \A l \in {"active", "retired"}, p \in {"present", "absent"} : Declared(l, p) \in Intents
  BY DEF Declared, Intents, Lifecycles
<1>2. desired \in [Guest -> Intents]
  BY <1>1 DEF Init
<1>3. hyper \in [Vmid -> Machines \cup {NoRow}]
  BY DEF Init, Machines
<1>4. TypeOK
  <2>1. 0 \in 0..MaxEdits /\ 0 \in 0..MaxFaults
    BY GuestsAssumption
  <2>2. rows \in [Vmid -> Rows \cup {NoRow}]
    BY DEF Init
  <2>3. /\ round \in [pc : {"idle", "acting", "linking", "observing"}, todo : SUBSET Actions,
                      after : BOOLEAN]
        /\ prune \in [pc : {"idle", "planned", "confirmed", "roots", "rows", "noop", "pruned", "failed"},
                      guest : Guest \cup {Stranger}, root : Vmid \cup {NoLink}]
    BY DEF Init, NoPrune
  <2> QED
    BY <1>2, <1>3, <2>1, <2>2, <2>3 DEF Init, TypeOK
<1>5. Grounded
  BY DEF Init, Grounded
<1> QED
  BY <1>4, <1>5 DEF GuestInv

\* Every step keeps the invariant.
LEMMA StepKeeps ==
  ASSUME GuestInv, [Next]_vars
  PROVE  GuestInv'
<1>1. CASE \E scope \in {Guest} \cup {{g} : g \in Guest} : StartRound(scope)
  BY <1>1, StartRoundKeeps
<1>2. CASE RoundStep
  BY <1>2, LinkKeeps, HypervisorKeeps, ObservationKeeps DEF RoundStep
<1>3. CASE Die
  BY <1>3, DieKeeps
<1>4. CASE PruneStep
  BY <1>4, PruneKeeps
<1>5. CASE Operator
  BY <1>5, EditKeeps, PruneKeeps DEF Operator
<1>6. CASE Expire
  BY <1>6, ExpireKeeps
<1>7. CASE UNCHANGED vars
  BY <1>7 DEF vars, GuestInv, TypeOK, Grounded, Effective, Snapshot
<1> QED
  BY <1>1, <1>2, <1>3, <1>4, <1>5, <1>6, <1>7 DEF Next

----------------------------------------------------------------------------
(* Theorems. *)

\* The invariant holds always.
THEOREM GuestsInductive == Spec => []GuestInv
BY InitHolds, StepKeeps, PTL DEF Spec

\* Every variable of the guests keeps its type, whatever fails.
THEOREM GuestsTypeCorrect == Spec => []TypeOK
BY GuestsInductive, PTL DEF GuestInv

\* A round destroys only what the intent it read asks for, under the declared vmid,
\* unless somebody edited that guest since (planner.py, compute_disposition.py).
THEOREM DestroysArePinned == Spec => []PinnedUnlessEdited
<1>1. GuestInv => PinnedUnlessEdited
  BY DEF GuestInv, Grounded, PinnedUnlessEdited
<1> QED
  BY <1>1, GuestsInductive, PTL

\* Drift names every guest that should be gone and, in a ledger that shows the
\* hypervisor as it is, is not (compute_disposition.py, compute_evaluation.py).
THEOREM OrphansAreReported == Spec => []NoSilentOrphan
<1>1. ASSUME TypeOK PROVE NoSilentOrphan
  <2> SUFFICES ASSUME NEW g \in Visible(Snapshot),
                      Accurate, hyper[Machine(g)] # NoRow,
                      Effective(Snapshot, g) = "retired", desired[g].presence = "absent"
               PROVE  InstanceDiffs(Snapshot, g) \cap
                        {"compute_instance_destroy_required", "compute_identity_conflict",
                         "compute_realized_instance_missing"} # {}
    BY DEF NoSilentOrphan
  <2> DEFINE s == Snapshot
             k == Machine(g)
  <2>1. /\ g \in Guest /\ s.desired = desired /\ s.rows = rows /\ s.obs = "complete"
        /\ desired[g].link \in Vmid \cup {NoLink, Gone} /\ VmidOf[g] \in Vmid
    BY <1>1, ComputeAssumption DEF Visible, Snapshot, Accurate, TypeOK, Intents
  <2>2. ~PlatformFailed(s)
    BY <2>1 DEF PlatformFailed
  <2>3. k \in Vmid /\ rows[k].presence = "present" /\ rows[k] # NoRow
    <3>1. k \in Vmid
      BY <2>1 DEF Machine, Exists
    <3>2. hyper[k] # NoRow
      OBVIOUS
    <3>3. rows[k] = [name |-> hyper[k].name, type |-> hyper[k].type, presence |-> "present"]
      BY <3>1, <3>2 DEF Accurate
    <3>4. rows[k] \in Rows
      <4>1. hyper[k] \in Machines
        BY <1>1, <3>1, <3>2 DEF TypeOK
      <4> QED
        BY <3>3, <4>1 DEF Machines, Rows
    <3>5. rows[k].presence = "present"
      BY <3>3
    <3> QED
      BY <3>1, <3>4, <3>5, GuestsAssumption
  <2> HIDE DEF k, s
  <2>4. CASE desired[g].link # NoLink /\ ~Exists(s, desired[g].link)
    <3>1. Matched(s, g) = NoLink
      BY <2>1, <2>2, <2>4 DEF Matched
    <3>2. MatchFailure(s, g) = {"compute_realized_instance_missing"}
      BY <2>1, <2>2, <2>4, <3>1 DEF MatchFailure
    <3> QED
      BY <2>2, <3>2 DEF InstanceDiffs, s
  <2>5. CASE desired[g].link = NoLink \/ Exists(s, desired[g].link)
    <3>1. Matched(s, g) = k
      BY <2>1, <2>2, <2>3, <2>5, ComputeAssumption DEF Matched, Exists, Machine, k, s
    <3>2. k # NoLink /\ MatchFailure(s, g) = {}
      BY <2>2, <2>3, <3>1, ComputeAssumption DEF MatchFailure
    <3>3. CASE rows[k].type # TypeOf[g] \/ k # VmidOf[g]
      <4>1. IdentityDiffs(s, g) = {"compute_identity_conflict"}
        BY <2>1, <3>1, <3>3 DEF IdentityDiffs
      <4>2. Disposition(s, g) # "removal_complete"
        BY <2>1, <2>3, <3>1 DEF Disposition
      <4> QED
        BY <2>2, <3>2, <4>1, <4>2 DEF InstanceDiffs, s
    <3>4. CASE rows[k].type = TypeOf[g] /\ k = VmidOf[g]
      <4>1. DestroyGate(s, g)
        BY <2>1, <2>3, <3>1, <3>2, <3>4 DEF DestroyGate
      <4>2. Disposition(s, g) = "destroy_required"
        BY <2>1, <2>2, <2>3, <3>1, <3>2, <4>1 DEF Disposition, s
      <4> QED
        BY <2>2, <3>2, <4>2 DEF InstanceDiffs, s
    <3> QED
      BY <3>3, <3>4
  <2> QED
    BY <2>4, <2>5
<1> QED
  BY <1>1, GuestsTypeCorrect, PTL
----------------------------------------------------------------------------
(* The order of a round. *)

\* Only a destroy, among the steps that shorten a plan, takes a guest off the hypervisor.
LEMMA Destroyer ==
  ASSUME TypeOK, Next, NEW k \in Vmid, hyper[k] # NoRow, hyper'[k] = NoRow,
         round'.todo # round.todo
  PROVE  \E a \in round.todo : Ready(a, round.todo) /\ Destroy(a)
<1>1. hyper' # hyper /\ round' # round
  OBVIOUS
<1>2. ASSUME Observe
      PROVE  FALSE
  BY <1>1, <1>2, ObserveStep
<1>3. ASSUME NEW a \in round.todo, Create(a)
      PROVE  FALSE
  <2>1. \/ hyper' = hyper
        \/ hyper' = [hyper EXCEPT ![a.vmid] = [name |-> a.guest, type |-> TypeOf[a.guest]]]
           /\ hyper[a.vmid] = NoRow
    BY <1>3 DEF Create
  <2>2. k # a.vmid => hyper'[k] = hyper[k]
    BY <2>1 DEF TypeOK
  <2> QED
    BY <1>1, <2>1, <2>2
<1>4. \/ \E a \in round.todo : Ready(a, round.todo) /\ (Create(a) \/ Destroy(a))
      \/ Observe \/ UNCHANGED hyper \/ UNCHANGED round
  BY DEF Next, RoundStep, StartRound, LinkCheck, LinkWrite, Refresh, PostObserve, Die, PruneStep,
         ConfirmPrune, DeleteRoot, DeleteDesired, UpdateInput, PruneFrame, Operator, SetLifecycle,
         SetPresence, Redeclare, ByHand, StartPrune, NoopPrune, Expire, Edit
<1> QED
  BY <1>1, <1>2, <1>3, <1>4

\* A planned destroy runs after the link of its own guest was tried, whatever vmids the
\* guests declare and whatever became of the link (planner.py:225).
THEOREM DestroysFollowLinks == Spec => DestroyAfterLink
<1> DEFINE Behind == \A k \in Vmid, a \in round.todo :
                        a.kind = "destroy" /\ a.vmid = k /\ hyper[k] # NoRow /\ hyper'[k] = NoRow
                          /\ a \notin round'.todo
                        => ~\E b \in round.todo : b.kind = "link" /\ b.guest = a.guest
<1>1. TypeOK /\ [Next]_vars => [Behind]_vars
  <2> SUFFICES ASSUME TypeOK, Next, NEW k \in Vmid, NEW a \in round.todo,
                      a.kind = "destroy", a.vmid = k, hyper[k] # NoRow, hyper'[k] = NoRow,
                      a \notin round'.todo
               PROVE  ~\E b \in round.todo : b.kind = "link" /\ b.guest = a.guest
    OBVIOUS
  <2>1. PICK c \in round.todo : Ready(c, round.todo) /\ Destroy(c)
    BY Destroyer
  <2>2. round'.todo = round.todo \ {c}
    <3>1. Done(c) /\ "todo" \in DOMAIN round
      BY <2>1 DEF Destroy, TypeOK
    <3> QED
      BY <3>1 DEF Done
  <2>3. c = a
    BY <2>2
  <2> QED
    BY <2>1, <2>3 DEF Ready
<1> QED
  BY <1>1, GuestsTypeCorrect, PTL DEF Spec, DestroyAfterLink
=============================================================================
