--------------------------- MODULE ReconcileProofs ---------------------------
(* Theorems about Reconcile, for every planner, cluster and round limit.      *)
EXTENDS Reconcile, TLAPS

USE DEF vars, environment, roundVars, reportVars, history

------------------------------------------------------------------------------
(* Lemmas about the operators the run is built from. *)

\* What an action may do to the cluster's drift stays drift.
LEMMA EffectsTyped ==
    ASSUME world \subseteq Diffs, NEW a, NEW success, NEW w \in Effects(a, success)
    PROVE  w \subseteq Diffs
  BY ReconcileAssumption DEF Effects, ClaimsOf, RevealsOf

\* What a handler returns (actions/*.py) is a result with coded errors.
LEMMA OutcomesTyped ==
    ASSUME NEW id, NEW r \in Outcomes(id)
    PROVE  /\ r.success \in BOOLEAN /\ r.mutated \in BOOLEAN
           /\ r.terminal \in {{}, {"ssh_store_read_failed"}}
  BY DEF Outcomes, HandlerResult

\* A plan is made of actions.
LEMMA PlanTyped == ASSUME NEW drift PROVE PlanFor(drift) \subseteq Actions
  <1>1. Forced \in Actions
    BY ReconcileAssumption
  <1> QED BY <1>1 DEF PlanFor

\* Scans and enrollment are asked of hosts.
LEMMA HostsTyped == ASSUME NEW ids PROVE SshHosts(ids) \subseteq Hosts
  <1>1. \A a \in Actions : HostsOf[a] \subseteq Hosts
    BY ReconcileAssumption
  <1> QED BY <1>1 DEF SshHosts, HostsOfAll, ActionsOf

\* The scans report coded errors.
LEMMA ScanErrorsTyped ==
    ASSUME NEW targets, NEW ready, NEW codes \in ScanErrors(targets, ready)
    PROVE  codes \subseteq ErrorCodes
  <1>1. codes \subseteq {"ssh_host_key_unenrolled", "ssh_host_key_mismatch",
                         "ssh_host_key_unreachable"}
    BY DEF ScanErrors
  <1> QED BY <1>1 DEF ErrorCodes

\* Recording a result keeps the types of the data it touches.
LEMMA RecordTyped ==
    ASSUME DataOK, NEW a \in Actions \cup {PostObservation}, NEW id,
           NEW r \in Outcomes(id), Record(a, r)
    PROVE  world' \subseteq Diffs /\ summary' \subseteq RunResult
  <1>1. r.success \in BOOLEAN /\ r.mutated \in BOOLEAN
    BY OutcomesTyped
  <1>2. world' \subseteq Diffs
    BY EffectsTyped DEF Record, DataOK
  <1>3. summary' \subseteq RunResult
    BY <1>1 DEF Record, RunResult, DataOK
  <1> QED BY <1>2, <1>3

------------------------------------------------------------------------------
(* Type correctness. *)

\* The flags stay Boolean.
LEMMA FlagsStep == FlagsOK /\ [Next]_vars => FlagsOK'
  <1> SUFFICES ASSUME FlagsOK, [Next]_vars PROVE FlagsOK'
    OBVIOUS
  <1> USE DEF FlagsOK
  <1>1. CASE Prepare
    BY <1>1 DEF Prepare, FinishEarly, Fault
  <1>2. CASE PlanOnly
    BY <1>2 DEF PlanOnly, FinishEarly, Fault
  <1>3. CASE AcquireLock
    BY <1>3 DEF AcquireLock, FinishEarly, Fault
  <1>4. CASE FetchDrift
    BY <1>4 DEF FetchDrift, Stop, Fault
  <1>5. CASE RoundsExhausted
    BY <1>5 DEF RoundsExhausted, Stop
  <1>6. CASE DecideRound
    BY <1>6 DEF DecideRound, PlanError, NothingToDo, Blocked, NoProgress, Proceed,
                Fault
  <1>7. CASE CheckEnrollment
    BY <1>7 DEF CheckEnrollment, Fault
  <1>8. CASE ScanBootstrapRoutes
    BY <1>8 DEF ScanBootstrapRoutes, Fault
  <1>9. CASE StartRound
    BY <1>9 DEF StartRound, Fault
  <1>10. CASE InterruptRound
    BY <1>10 DEF InterruptRound
  <1>11. ASSUME NEW a \in Actions, StartAction(a) PROVE FlagsOK'
    BY <1>11 DEF StartAction
  <1>12. ASSUME NEW a \in Actions, CompleteAction(a) PROVE FlagsOK'
    BY <1>12 DEF CompleteAction, Record
  <1>13. CASE Regenerate
    BY <1>13 DEF Regenerate
  <1>14. CASE ScanServiceRoutes
    BY <1>14 DEF ScanServiceRoutes, Fault
  <1>15. CASE ServiceActionsDone
    BY <1>15 DEF ServiceActionsDone
  <1>16. CASE StartPostObservation
    BY <1>16 DEF StartPostObservation
  <1>17. CASE SkipPostObservation
    BY <1>17 DEF SkipPostObservation
  <1>18. CASE CompletePostObservation
    BY <1>18 DEF CompletePostObservation, Record
  <1>19. CASE RoundOutcome
    BY <1>19 DEF RoundOutcome, ProgressMade
  <1>20. CASE RefreshFinalDrift
    BY <1>20 DEF RefreshFinalDrift, Fault
  <1>21. CASE Report
    BY <1>21 DEF Report
  <1>22. CASE Interrupt
    BY <1>22 DEF Interrupt, Fault
  <1>23. CASE Crash
    BY <1>23 DEF Crash, Fault
  <1>24. ASSUME NEW h \in Hosts, EnrollHost(h) PROVE FlagsOK'
    BY <1>24 DEF EnrollHost
  <1>25. ASSUME NEW d \in Diffs, Disturb(d) PROVE FlagsOK'
    BY <1>25 DEF Disturb, Fault
  <1>26. CASE UNCHANGED vars
    BY <1>26
  <1> QED
    BY <1>1, <1>2, <1>3, <1>4, <1>5, <1>6, <1>7, <1>8, <1>9, <1>10, <1>11, <1>12,
       <1>13, <1>14, <1>15, <1>16, <1>17, <1>18, <1>19, <1>20, <1>21, <1>22, <1>23,
       <1>24, <1>25, <1>26
       DEF Next, Step, Environment, Over

\* The data stays of its kind.
LEMMA DataStep == TypeOK /\ [Next]_vars => DataOK'
  <1> SUFFICES ASSUME DataOK, FlagsOK, [Next]_vars PROVE DataOK'
    BY DEF TypeOK
  <1> USE DEF DataOK
  <1>1. CASE Prepare
    BY <1>1 DEF Prepare, FinishEarly, ErrorCodes
  <1>2. CASE PlanOnly
    BY <1>2 DEF PlanOnly, FinishEarly, ErrorCodes
  <1>3. CASE AcquireLock
    BY <1>3 DEF AcquireLock, FinishEarly, ErrorCodes
  <1>4. CASE FetchDrift
    <2>1. {world} \subseteq SUBSET Diffs
      OBVIOUS
    <2>2. final' \subseteq SUBSET Diffs /\ seen' \subseteq Diffs
      BY <1>4, <2>1 DEF FetchDrift
    <2> QED BY <1>4, <2>2 DEF FetchDrift, MoreRounds, Stop, ErrorCodes
  <1>5. CASE RoundsExhausted
    BY <1>5 DEF RoundsExhausted, MoreRounds, Stop, ErrorCodes, Local, Global
  <1>6. CASE DecideRound
    <2>1. Plan \subseteq Actions
      BY PlanTyped DEF Plan
    <2>2. Fingerprint(seen) \subseteq Diffs
      BY DEF Fingerprint
    <2>3. todo' \subseteq Actions /\ previous' \subseteq SUBSET Diffs
      BY <1>6, <2>1, <2>2 DEF DecideRound, PlanError, NothingToDo, Blocked, NoProgress,
                              Proceed
    <2> QED BY <1>6, <2>3 DEF DecideRound, PlanError, NothingToDo, Blocked, NoProgress,
                              Proceed, Stop, ErrorCodes
  <1>7. CASE CheckEnrollment
    BY <1>7 DEF CheckEnrollment, Stop, ErrorCodes
  <1>8. CASE ScanBootstrapRoutes
    <2>1. \/ errors' \in {errors, {"ssh_store_read_failed"}}
          \/ \E targets, ready : errors' \in ScanErrors(targets, ready)
      BY <1>8 DEF ScanBootstrapRoutes, Stop
    <2>3. errors' \subseteq ErrorCodes
      BY <2>1, ScanErrorsTyped DEF ErrorCodes
    <2>2. scanned' \subseteq Hosts \X {"mdns", "production"}
      BY <1>8, HostsTyped DEF ScanBootstrapRoutes
    <2> QED BY <1>8, <2>2, <2>3 DEF ScanBootstrapRoutes, Stop
  <1>9. CASE StartRound
    BY <1>9 DEF StartRound, Stop, ErrorCodes
  <1>10. CASE InterruptRound
    BY <1>10 DEF InterruptRound, EndRound, ErrorCodes
  <1>11. ASSUME NEW a \in Actions, StartAction(a) PROVE DataOK'
    BY <1>11 DEF StartAction
  <1>12. ASSUME NEW a \in Actions, CompleteAction(a) PROVE DataOK'
    <2>1. PICK r \in Outcomes(IdOf(a)) :
            /\ Record(a, r)
            /\ LET codes == IF a = Forced /\ Forcing /\ ~r.success
                             THEN {"observation_failed"} ELSE r.terminal
               IN IF codes # {} THEN EndRound(codes) ELSE UNCHANGED <<pc, terminal>>
      BY <1>12 DEF CompleteAction
    <2>2. world' \subseteq Diffs /\ summary' \subseteq RunResult
      BY <2>1, RecordTyped
    <2>3. r.terminal \subseteq ErrorCodes
      BY <2>1, OutcomesTyped DEF ErrorCodes
    <2>4. /\ terminal' \subseteq ErrorCodes /\ pc' \in {pc, "outcome"}
      BY <2>1, <2>3 DEF EndRound, ErrorCodes
    <2> QED BY <1>12, <2>2, <2>4 DEF CompleteAction
  <1>13. CASE Regenerate
    <2>1. PICK success \in BOOLEAN :
             summary' = summary \cup {[action |-> Regeneration, success |-> success,
                                       mutated |-> FALSE]}
      BY <1>13 DEF Regenerate
    <2>2. [action |-> Regeneration, success |-> success, mutated |-> FALSE] \in RunResult
      BY DEF RunResult
    <2>3. summary' \subseteq RunResult
      BY <2>1, <2>2
    <2> QED BY <1>13, <2>3 DEF Regenerate, EndRound, ErrorCodes
  <1>14. CASE ScanServiceRoutes
    <2>1. \/ terminal' \in {terminal, {"ssh_store_read_failed"}}
          \/ \E targets, ready : terminal' \in ScanErrors(targets, ready)
      BY <1>14 DEF ScanServiceRoutes, EndRound
    <2>3. terminal' \subseteq ErrorCodes
      BY <2>1, ScanErrorsTyped DEF ErrorCodes
    <2>2. scanned' \subseteq Hosts \X {"mdns", "production"}
      BY <1>14, HostsTyped DEF ScanServiceRoutes, ServiceScanTargets
    <2> QED BY <1>14, <2>2, <2>3 DEF ScanServiceRoutes, EndRound
  <1>15. CASE ServiceActionsDone
    BY <1>15 DEF ServiceActionsDone
  <1>16. CASE StartPostObservation
    BY <1>16 DEF StartPostObservation
  <1>17. CASE SkipPostObservation
    BY <1>17 DEF SkipPostObservation, EndRound
  <1>18. CASE CompletePostObservation
    <2>1. PICK r \in Outcomes("observe_node") :
             Record(PostObservation, r) /\ EndRound(r.terminal)
      BY <1>18 DEF CompletePostObservation
    <2>2. world' \subseteq Diffs /\ summary' \subseteq RunResult
      BY <2>1, RecordTyped
    <2>3. r.terminal \subseteq ErrorCodes
      BY <2>1, OutcomesTyped DEF ErrorCodes
    <2> QED BY <1>18, <2>1, <2>2, <2>3 DEF CompletePostObservation, EndRound
  <1>19. CASE RoundOutcome
    <2>1. errors' \subseteq ErrorCodes
      BY <1>19 DEF RoundOutcome, Stop, ErrorCodes
    <2>2. /\ round' \in {round, round + 1} /\ pc' \in {"report", "refresh", "round"}
          /\ pc' # "round" => round' = round
      BY <1>19 DEF RoundOutcome, Stop
    <2>3. round < MaxRounds /\ round' \in 0..MaxRounds
      BY <1>19, <2>2, ReconcileAssumption DEF RoundOutcome
    <2> QED BY <1>19, <2>1, <2>2, <2>3 DEF RoundOutcome, Stop
  <1>20. CASE RefreshFinalDrift
    <2>1. {world} \subseteq SUBSET Diffs
      OBVIOUS
    <2> QED BY <1>20, <2>1 DEF RefreshFinalDrift
  <1>21. CASE Report
    BY <1>21 DEF Report, ErrorCodes
  <1>22. CASE Interrupt
    BY <1>22 DEF Interrupt
  <1>23. CASE Crash
    <2>1. world' \subseteq Diffs
      BY <1>23, EffectsTyped DEF Crash
    <2> QED BY <1>23, <2>1 DEF Crash
  <1>24. ASSUME NEW h \in Hosts, EnrollHost(h) PROVE DataOK'
    BY <1>24 DEF EnrollHost
  <1>25. ASSUME NEW d \in Diffs, Disturb(d) PROVE DataOK'
    BY <1>25, ReconcileAssumption DEF Disturb
  <1>26. CASE UNCHANGED vars
    BY <1>26
  <1> QED
    BY <1>1, <1>2, <1>3, <1>4, <1>5, <1>6, <1>7, <1>8, <1>9, <1>10, <1>11, <1>12,
       <1>13, <1>14, <1>15, <1>16, <1>17, <1>18, <1>19, <1>20, <1>21, <1>22, <1>23,
       <1>24, <1>25, <1>26
       DEF Next, Step, Environment, Over

\* Every variable keeps its type.
THEOREM TypeCorrect == Spec => []TypeOK
<1>1. Init => DataOK
  BY ReconcileAssumption DEF Init, DataOK
<1>2. Init => FlagsOK
  BY DEF Init, FlagsOK
<1> QED BY <1>1, <1>2, DataStep, FlagsStep, PTL DEF Spec, TypeOK
==============================================================================
