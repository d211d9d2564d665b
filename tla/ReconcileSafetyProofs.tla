------------------------ MODULE ReconcileSafetyProofs ------------------------
(* The safety properties of Reconcile, from the inductive invariant.          *)
EXTENDS ReconcileInvariant, ReconcileProofs, WellFoundedInduction

USE DEF vars, environment, roundVars, reportVars, history

------------------------------------------------------------------------------
(* The plan of a round stays the same from the decision to the outcome. *)

SameRound == seen' = seen /\ refresh' = refresh /\ round' = round

LEMMA PlanStable ==
    ASSUME SameRound
    PROVE  /\ Plan' = Plan /\ Forcing' = Forcing
           /\ \A ids : SshHosts(ids)' = SshHosts(ids)
           /\ ServiceScanTargets' = ServiceScanTargets
  <1>1. Forcing' = Forcing
    BY DEF Forcing, SameRound
  <1>2. Plan' = Plan
    BY <1>1 DEF Plan, PlanFor, SameRound
  <1>3. \A ids : SshHosts(ids)' = SshHosts(ids)
    BY <1>2 DEF SshHosts
  <1> QED BY <1>1, <1>2, <1>3 DEF ServiceScanTargets

------------------------------------------------------------------------------
(* Enrollment. *)

\* Every step keeps what the enrollment gate established.
LEMMA EnrollmentStep == EnrollmentInv /\ [Next]_vars => EnrollmentInv'
  <1> SUFFICES ASSUME EnrollmentInv, [Next]_vars PROVE EnrollmentInv'
    OBVIOUS
  <1> USE DEF EnrollmentInv, Gated, Executing
  <1>1. CASE Prepare \/ PlanOnly \/ AcquireLock
    BY <1>1 DEF Prepare, PlanOnly, AcquireLock, FinishEarly
  <1>2. CASE FetchDrift \/ RoundsExhausted
    BY <1>2 DEF FetchDrift, RoundsExhausted, Stop
  <1>3. CASE DecideRound
    BY <1>3 DEF DecideRound, PlanError, NothingToDo, Blocked, NoProgress, Proceed, Stop
  <1>4. CASE CheckEnrollment
    BY <1>4, PlanStable DEF CheckEnrollment, Stop, Unenrolled, SameRound
  <1>5. CASE ScanBootstrapRoutes \/ StartRound
    BY <1>5, PlanStable DEF ScanBootstrapRoutes, StartRound, Stop, SameRound
  <1>6. CASE InterruptRound \/ ServiceActionsDone \/ StartPostObservation
                \/ SkipPostObservation
    BY <1>6, PlanStable DEF InterruptRound, ServiceActionsDone, StartPostObservation,
                SkipPostObservation, EndRound, SameRound
  <1>7. ASSUME NEW a \in Actions, StartAction(a) PROVE EnrollmentInv'
    BY <1>7, PlanStable DEF StartAction, SameRound
  <1>8. ASSUME NEW a \in Actions, CompleteAction(a) PROVE EnrollmentInv'
    BY <1>8, PlanStable DEF CompleteAction, EndRound, SameRound
  <1>9. CASE Regenerate
    BY <1>9, PlanStable DEF Regenerate, EndRound, SameRound
  <1>10. CASE ScanServiceRoutes
    BY <1>10, PlanStable DEF ScanServiceRoutes, EndRound, SameRound
  <1>11. CASE CompletePostObservation
    BY <1>11, PlanStable DEF CompletePostObservation, EndRound, SameRound
  <1>12. CASE RoundOutcome
    BY <1>12 DEF RoundOutcome, Stop
  <1>13. CASE RefreshFinalDrift \/ Report
    BY <1>13, PlanStable DEF RefreshFinalDrift, Report, SameRound
  <1>14. CASE Environment
    BY <1>14, PlanStable DEF Environment, Interrupt, Crash, EnrollHost, Disturb, Alive,
                             SameRound
  <1>15. CASE UNCHANGED vars
    BY <1>15, PlanStable DEF SameRound
  <1> QED
    BY <1>1, <1>2, <1>3, <1>4, <1>5, <1>6, <1>7, <1>8, <1>9, <1>10, <1>11, <1>12,
       <1>13, <1>14, <1>15
       DEF Next, Step, Over

------------------------------------------------------------------------------
(* Fresh evidence and the verdict. *)

\* The step that decides: a converged verdict is given on the drift just seen.
LEMMA DecideFresh ==
    ASSUME FreshInv, DecideRound PROVE FreshInv'
  <1> USE DEF FreshInv, VerdictIsFresh, ConvergedStates, Done, Executing
  <1>1. pc = "plan" /\ final = {seen} /\ ~acted /\ ~finalUnknown
    BY DEF DecideRound
  <1>2. /\ seen' = seen /\ final' = final /\ (acted' <=> acted)
        /\ (finalUnknown' <=> finalUnknown)
    BY DEF DecideRound
  <1>3. state \notin ConvergedStates
    BY <1>1
  <1>4. CASE NothingToDo
    <2>1. \A a \in Actions : Claims[a] \cap seen = {}
      BY <1>4 DEF NothingToDo, Plan, PlanFor
    <2>2. ~Local(seen) /\ ~Global(seen) /\ pc' = "report"
      BY <1>4 DEF NothingToDo, Stop
    <2> QED BY <1>1, <1>2, <2>1, <2>2 DEF Local, Global
  <1>5. CASE ~NothingToDo
    <2>1. /\ state' \notin ConvergedStates
          /\ pc' \in {"report", "enrollment"}
      BY <1>3, <1>5 DEF DecideRound, PlanError, Blocked, NoProgress, Proceed, Stop
    <2> QED BY <1>1, <1>2, <2>1
  <1> QED BY <1>4, <1>5

\* Every step keeps the verdict on fresh evidence.
LEMMA FreshStep == FreshInv /\ [Next]_vars => FreshInv'
  <1> SUFFICES ASSUME FreshInv, [Next]_vars PROVE FreshInv'
    OBVIOUS
  <1> USE DEF Done
  <1>1. CASE Prepare \/ PlanOnly \/ AcquireLock
    <2>1. state \notin ConvergedStates /\ ~finalUnknown
      BY <1>1 DEF FreshInv, Prepare, PlanOnly, AcquireLock
    <2> QED BY <1>1, <2>1 DEF FreshInv, Prepare, PlanOnly, AcquireLock, FinishEarly,
                              ConvergedStates
  <1>2. CASE FetchDrift \/ RoundsExhausted
    <2>1. state \notin ConvergedStates /\ ~finalUnknown
      BY <1>2 DEF FreshInv, FetchDrift, RoundsExhausted
    <2> QED BY <1>2, <2>1 DEF FreshInv, FetchDrift, RoundsExhausted, Stop,
                              ConvergedStates
  <1>3. CASE DecideRound
    BY <1>3, DecideFresh
  <1>4. CASE CheckEnrollment \/ ScanBootstrapRoutes \/ StartRound
    <2>1. state \notin ConvergedStates /\ ~finalUnknown
      BY <1>4 DEF FreshInv, CheckEnrollment, ScanBootstrapRoutes, StartRound
    <2> QED BY <1>4, <2>1 DEF FreshInv, CheckEnrollment, ScanBootstrapRoutes, StartRound,
                              Stop, ConvergedStates
  <1>5. CASE \/ InterruptRound \/ Regenerate \/ ScanServiceRoutes \/ ServiceActionsDone
             \/ StartPostObservation \/ SkipPostObservation \/ CompletePostObservation
             \/ \E a \in Actions : StartAction(a) \/ CompleteAction(a)
    <2>1. /\ state \notin ConvergedStates /\ ~finalUnknown
          /\ UNCHANGED <<state, finalUnknown>>
          /\ pc' \in {"bootstrap", "service_scan", "service", "observe", "outcome"}
      BY <1>5 DEF FreshInv, InterruptRound, Regenerate, ScanServiceRoutes,
           ServiceActionsDone, StartPostObservation, SkipPostObservation,
           CompletePostObservation, StartAction, CompleteAction, EndRound
    <2> QED BY <2>1 DEF FreshInv
  <1>6. CASE RoundOutcome
    BY <1>6 DEF RoundOutcome, FreshInv, Stop, ConvergedStates
  <1>7. CASE RefreshFinalDrift
    <2>1. state \notin ConvergedStates
      BY <1>7 DEF RefreshFinalDrift, FreshInv
    <2> QED BY <1>7, <2>1 DEF RefreshFinalDrift, FreshInv
  <1>8. CASE Report
    BY <1>8 DEF Report, FreshInv, VerdictIsFresh, Local, Global
  <1>9. CASE Environment \/ Over \/ UNCHANGED vars
    <2>1. /\ UNCHANGED <<state, errors, round, seen, final, finalUnknown, acted>>
          /\ pc' = pc \/ pc' = "crashed"
      BY <1>9 DEF Environment, Interrupt, Crash, EnrollHost, Disturb, Over
    <2> QED BY <2>1 DEF FreshInv, VerdictIsFresh, Local, Global
  <1> QED BY <1>1, <1>2, <1>3, <1>4, <1>5, <1>6, <1>7, <1>8, <1>9 DEF Next, Step

------------------------------------------------------------------------------
(* What the run did. *)

\* had_side_effects tells whether the drift fetched by the round is outdated.
LEMMA SideEffectsStep ==
    FreshInv /\ SideEffectsInv /\ FreshInv' /\ [Next]_vars => SideEffectsInv'
  <1> SUFFICES ASSUME FreshInv, SideEffectsInv, FreshInv', [Next]_vars
               PROVE  SideEffectsInv'
    OBVIOUS
  <1> USE DEF SideEffectsInv, Executing, Done
  <1>1. CASE Prepare \/ PlanOnly \/ AcquireLock
    BY <1>1 DEF Prepare, PlanOnly, AcquireLock, FinishEarly, FreshInv
  <1>2. CASE FetchDrift \/ RoundsExhausted
    BY <1>2 DEF FetchDrift, RoundsExhausted, Stop
  <1>3. CASE DecideRound
    BY <1>3 DEF DecideRound, PlanError, NothingToDo, Blocked, NoProgress, Proceed, Stop
  <1>4. CASE CheckEnrollment \/ ScanBootstrapRoutes
    BY <1>4 DEF CheckEnrollment, ScanBootstrapRoutes, Stop
  <1>5. CASE StartRound
    BY <1>5 DEF StartRound, Stop, FreshInv
  <1>6. CASE InterruptRound \/ ScanServiceRoutes
    BY <1>6 DEF InterruptRound, ScanServiceRoutes, EndRound
  <1>7. CASE \/ ServiceActionsDone \/ StartPostObservation \/ SkipPostObservation
             \/ \E a \in Actions : StartAction(a)
    BY <1>7 DEF ServiceActionsDone, StartPostObservation, SkipPostObservation, EndRound,
                StartAction
  <1>8. ASSUME NEW a \in Actions, CompleteAction(a) PROVE SideEffectsInv'
    BY <1>8 DEF CompleteAction, Record, HadSideEffects, EndRound
  <1>9. CASE CompletePostObservation
    BY <1>9 DEF CompletePostObservation, Record, HadSideEffects, EndRound
  <1>10. CASE Regenerate
    BY <1>10 DEF Regenerate, EndRound
  <1>11. CASE RoundOutcome
    BY <1>11 DEF RoundOutcome, Stop, FreshInv
  <1>12. CASE RefreshFinalDrift
    BY <1>12 DEF RefreshFinalDrift, FreshInv
  <1>13. CASE Report
    BY <1>13 DEF Report, FreshInv
  <1>14. CASE Environment \/ Over \/ UNCHANGED vars
    <2>1. /\ UNCHANGED <<sideEffects, terminal, errors, finalUnknown, acted>>
          /\ pc' = pc \/ pc' = "crashed"
      BY <1>14 DEF Environment, Interrupt, Crash, EnrollHost, Disturb, Over
    <2> QED BY <2>1
  <1> QED BY <1>1, <1>2, <1>3, <1>4, <1>5, <1>6, <1>7, <1>8, <1>9, <1>10, <1>11, <1>12,
             <1>13, <1>14 DEF Next, Step

------------------------------------------------------------------------------
(* Progress. *)

\* The summary of a round records what a completed action did.
LEMMA RowProgress ==
    ASSUME ProgressInv, NEW a, NEW s \in BOOLEAN, NEW m \in BOOLEAN,
           progress' = progress, touched' = (touched \/ s \/ m),
           summary' = summary \cup {[action |-> a, success |-> s, mutated |-> m]}
    PROVE  touched' <=> progress' \/ \E x \in summary' : x.success \/ x.mutated
  <1> DEFINE row == [action |-> a, success |-> s, mutated |-> m]
  <1>1. row.success = s /\ row.mutated = m
    OBVIOUS
  <1>2. (row.success \/ row.mutated) <=> (s \/ m)
    BY <1>1
  <1>3. summary' = summary \cup {row}
    OBVIOUS
  <1> HIDE DEF row
  <1>4. (\E x \in summary' : x.success \/ x.mutated)
           <=> (\E x \in summary : x.success \/ x.mutated) \/ s \/ m
    BY <1>2, <1>3, Zenon
  <1> QED BY <1>4 DEF ProgressInv

\* Nothing the run did is lost when a round ends.
LEMMA ProgressStep == ProgressInv /\ [Next]_vars => ProgressInv'
  <1> SUFFICES ASSUME ProgressInv, [Next]_vars PROVE ProgressInv'
    OBVIOUS
  <1> USE DEF Executing
  <1>1. CASE \/ Prepare \/ PlanOnly \/ AcquireLock \/ FetchDrift \/ RoundsExhausted
             \/ DecideRound \/ CheckEnrollment \/ ScanBootstrapRoutes
             \/ RefreshFinalDrift \/ Report
    <2>1. UNCHANGED <<touched, progress, summary>> /\ summary = {}
      BY <1>1 DEF Prepare, PlanOnly, AcquireLock, FetchDrift, RoundsExhausted,
           DecideRound, CheckEnrollment, ScanBootstrapRoutes, RefreshFinalDrift, Report,
           ProgressInv
    <2> QED BY <2>1 DEF ProgressInv
  <1>2. CASE StartRound
    BY <1>2 DEF StartRound, Stop, ProgressInv
  <1>3. CASE \/ InterruptRound \/ ScanServiceRoutes \/ ServiceActionsDone
             \/ StartPostObservation \/ SkipPostObservation
             \/ \E a \in Actions : StartAction(a)
    <2>1. /\ UNCHANGED <<touched, progress, summary>>
          /\ Executing' \/ pc' = "outcome"
      BY <1>3 DEF InterruptRound, ScanServiceRoutes, ServiceActionsDone,
           StartPostObservation, SkipPostObservation, StartAction, EndRound
    <2> QED BY <2>1 DEF ProgressInv
  <1>4. ASSUME NEW a \in Actions, CompleteAction(a) PROVE ProgressInv'
    <2>1. PICK r \in Outcomes(IdOf(a)) : Record(a, r)
      BY <1>4 DEF CompleteAction
    <2>2. r.success \in BOOLEAN /\ r.mutated \in BOOLEAN
      BY OutcomesTyped
    <2>3. progress' = progress /\ (Executing' \/ pc' = "outcome")
      BY <1>4 DEF CompleteAction, EndRound
    <2> QED BY <2>1, <2>2, <2>3, RowProgress DEF ProgressInv, Record
  <1>5. CASE CompletePostObservation
    <2>1. PICK r \in Outcomes("observe_node") : Record(PostObservation, r)
      BY <1>5 DEF CompletePostObservation
    <2>2. r.success \in BOOLEAN /\ r.mutated \in BOOLEAN
      BY OutcomesTyped
    <2>3. progress' = progress /\ pc' = "outcome"
      BY <1>5 DEF CompletePostObservation, EndRound
    <2> QED BY <2>1, <2>2, <2>3, RowProgress DEF ProgressInv, Record
  <1>6. CASE Regenerate
    <2>1. PICK success \in BOOLEAN :
            /\ summary' = summary \cup {[action |-> Regeneration, success |-> success,
                                         mutated |-> FALSE]}
            /\ touched' = (touched \/ success)
      BY <1>6 DEF Regenerate
    <2>2. progress' = progress /\ (Executing' \/ pc' = "outcome")
      BY <1>6 DEF Regenerate, EndRound
    <2>3. touched' = (touched \/ success \/ FALSE)
      BY <2>1
    <2> QED BY <2>1, <2>2, <2>3, RowProgress DEF ProgressInv
  <1>7. CASE RoundOutcome
    <2>1. /\ progress' = ProgressMade /\ touched' = touched /\ summary' = {}
          /\ pc' # "outcome"
      BY <1>7 DEF RoundOutcome, Stop
    <2>2. touched <=> ProgressMade
      BY DEF ProgressInv, ProgressMade
    <2> QED BY <2>1, <2>2 DEF ProgressInv
  <1>8. CASE Environment \/ Over \/ UNCHANGED vars
    <2>1. /\ UNCHANGED <<touched, progress, summary>>
          /\ pc' = pc \/ pc' = "crashed"
      BY <1>8 DEF Environment, Interrupt, Crash, EnrollHost, Disturb, Over
    <2> QED BY <2>1 DEF ProgressInv
  <1> QED BY <1>1, <1>2, <1>3, <1>4, <1>5, <1>6, <1>7, <1>8 DEF Next, Step

------------------------------------------------------------------------------
(* Service actions. *)

\* The two kinds of reconcilers are run in different phases.
LEMMA PhasesDisjoint == ActionsOf(BootstrapIds) \cap ActionsOf(ServiceIds) = {}
  BY DEF ActionsOf, BootstrapIds, ServiceIds

\* The post-actuation observation is no action of the plan.
LEMMA PostObservationApart == PostObservation \notin Actions
  BY ReconcileAssumption

\* What the render and the second scan established lasts while it is used.
LEMMA ServiceStep ==
    ServiceInv /\ EnrollmentInv /\ [Next]_vars => ServiceInv'
  <1> SUFFICES ASSUME ServiceInv, EnrollmentInv, [Next]_vars PROVE ServiceInv'
    OBVIOUS
  <1> USE DEF Planned, Gated, Executing
  <1>0. running # {} => pc \in {"bootstrap", "service", "observe", "crashed"}
    BY DEF EnrollmentInv
  <1>1. CASE \/ Prepare \/ PlanOnly \/ AcquireLock \/ FetchDrift \/ RoundsExhausted
             \/ RoundOutcome \/ RefreshFinalDrift \/ Report
    <2>1. /\ running = {} /\ running' = {}
          /\ ~Planned' /\ pc' # "service"
      BY <1>0, <1>1 DEF Prepare, PlanOnly, AcquireLock, FetchDrift, RoundsExhausted,
           RoundOutcome, RefreshFinalDrift, Report, FinishEarly, Stop
    <2> QED BY <2>1 DEF ServiceInv
  <1>2. CASE DecideRound
    <2>1. /\ running = {} /\ running' = {} /\ SameRound
          /\ pc' \notin {"service", "service_scan"}
      BY <1>0, <1>2 DEF DecideRound, PlanError, NothingToDo, Blocked, NoProgress, Proceed,
           Stop, SameRound
    <2>2. Planned' => todo' = Plan
      BY <1>2 DEF DecideRound, PlanError, NothingToDo, Blocked, NoProgress, Proceed, Stop
    <2> QED BY <2>1, <2>2, PlanStable DEF ServiceInv
  <1>3. CASE \/ CheckEnrollment \/ ScanBootstrapRoutes \/ StartRound \/ InterruptRound
             \/ StartPostObservation \/ SkipPostObservation \/ CompletePostObservation
             \/ ServiceActionsDone \/ Regenerate
    <2>1. /\ running = {} \/ pc = "observe"
          /\ running' \subseteq {PostObservation} /\ pc' # "service"
          /\ todo' = todo /\ SameRound /\ Planned
          /\ pc' = "service_scan" => context' /\ rendered'
      BY <1>0, <1>3 DEF CheckEnrollment, ScanBootstrapRoutes, StartRound, InterruptRound,
           StartPostObservation, SkipPostObservation, CompletePostObservation,
           ServiceActionsDone, Regenerate, Stop, EndRound, SameRound
    <2>2. running' \cap Actions = {} /\ running' \cap ActionsOf(ServiceIds) = {}
      BY <2>1, PostObservationApart DEF ActionsOf
    <2> QED BY <2>1, <2>2, PlanStable DEF ServiceInv
  <1>4. ASSUME NEW a \in Actions, StartAction(a) PROVE ServiceInv'
    <2>1. /\ SameRound /\ pc' = pc /\ Planned /\ a \in todo
          /\ running' = {a} /\ todo' = todo \ {a}
          /\ UNCHANGED <<context, rendered, scanned>>
          /\ pc = "service" \/ a \in ActionsOf(BootstrapIds)
      BY <1>4 DEF StartAction, SameRound, MayStart, Ready, PhaseIds
    <2>2. running' \cap ActionsOf(ServiceIds) # {} => pc = "service"
      BY <2>1, PhasesDisjoint
    <2> QED BY <2>1, <2>2, PlanStable DEF ServiceInv
  <1>5. ASSUME NEW a \in Actions, CompleteAction(a) PROVE ServiceInv'
    <2>1. /\ SameRound /\ pc \in {"bootstrap", "service"}
          /\ running' = {} /\ todo' = todo
          /\ UNCHANGED <<context, scanned>>
      BY <1>5 DEF CompleteAction, SameRound
    <2>2. pc' = pc \/ pc' = "outcome"
      BY <1>5 DEF CompleteAction, EndRound
    <2>3. pc = "service" /\ rendered => rendered'
      BY <1>5 DEF CompleteAction
    <2>4. pc' = "service" => pc = "service"
      BY <2>1, <2>2
    <2>5. Planned /\ pc' # "service_scan"
      BY <2>1, <2>2
    <2> QED BY <2>1, <2>3, <2>4, <2>5, PlanStable DEF ServiceInv
  <1>6. CASE ScanServiceRoutes
    <2>1. running = {} /\ running' = {} /\ SameRound /\ todo' = todo /\ Planned
      BY <1>0, <1>6 DEF ScanServiceRoutes, SameRound
    <2>2. pc' = "service" => ServiceScanTargets \X {"production"} \subseteq scanned'
      BY <1>6 DEF ScanServiceRoutes, EndRound
    <2> QED BY <1>6, <2>1, <2>2, PlanStable DEF ServiceInv, ScanServiceRoutes
  <1>7. CASE Environment \/ Over \/ UNCHANGED vars
    <2>1. /\ UNCHANGED <<running, todo, context, rendered, scanned>>
          /\ SameRound
          /\ pc' = pc \/ pc' = "crashed"
      BY <1>7 DEF Environment, Interrupt, Crash, EnrollHost, Disturb, Over, SameRound
    <2> QED BY <2>1, PlanStable DEF ServiceInv
  <1> QED BY <1>1, <1>2, <1>3, <1>4, <1>5, <1>6, <1>7 DEF Next, Step

------------------------------------------------------------------------------
(* Fresh observations. *)

\* The forced observation is a bootstrap action of a plan that forces it.
LEMMA ForcedPlanned ==
    /\ Forced \in Actions /\ Forced \in ActionsOf(BootstrapIds)
    /\ Forced # PostObservation
    /\ Forcing => Forced \in Plan
  BY ReconcileAssumption DEF ActionsOf, BootstrapIds, Plan, PlanFor

\* A failure of the forced observation stays in the summary of the round.
LEMMA FailureStays ==
    ASSUME SameRound, summary \subseteq summary', ForcedFailure PROVE ForcedFailure'
  BY PlanStable DEF ForcedFailure

\* Completing the forced observation leaves fresh evidence or its failure.
LEMMA ForcedCompletes ==
    ASSUME NEW r, Record(Forced, r), SameRound, Forcing, r.success \in BOOLEAN
    PROVE  refreshed' \/ ForcedFailure'
  <1> DEFINE row == [action |-> Forced, success |-> r.success, mutated |-> r.mutated]
  <1>1. row \in summary' /\ row.action = Forced /\ row.success = r.success
    BY DEF Record
  <1>2. CASE r.success
    BY <1>2 DEF Record
  <1>3. CASE ~r.success
    <2>1. ~row.success
      BY <1>1, <1>3
    <2> HIDE DEF row
    <2> QED BY <1>1, <2>1, PlanStable DEF ForcedFailure
  <1> QED BY <1>2, <1>3

\* Every step keeps the forced observation pending, done, or fatal to the round.
LEMMA RefreshStep ==
    TypeOK /\ RefreshInv /\ EnrollmentInv /\ FreshInv /\ [Next]_vars => RefreshInv'
  <1> SUFFICES ASSUME TypeOK, RefreshInv, EnrollmentInv, FreshInv, [Next]_vars
               PROVE  RefreshInv'
    OBVIOUS
  <1> USE DEF Executing
  <1>0. /\ running # {} => pc \in {"bootstrap", "service", "observe", "crashed"}
        /\ round \in Nat
    BY DEF EnrollmentInv, TypeOK, DataOK
  <1>1. CASE \/ Prepare \/ PlanOnly \/ AcquireLock \/ FetchDrift \/ RoundsExhausted
             \/ RefreshFinalDrift \/ Report
    <2>1. UNCHANGED <<refresh, round, refreshed>>
      BY <1>1 DEF Prepare, PlanOnly, AcquireLock, FetchDrift, RoundsExhausted,
           RefreshFinalDrift, Report
    <2>3. pc' \in {"plan_only", "lock", "round", "plan", "report", "finished"}
      <3>1. CASE Prepare \/ PlanOnly \/ AcquireLock
        BY <3>1 DEF Prepare, PlanOnly, AcquireLock, FinishEarly
      <3>2. CASE FetchDrift \/ RoundsExhausted
        BY <3>2 DEF FetchDrift, RoundsExhausted, Stop
      <3>3. CASE RefreshFinalDrift \/ Report
        BY <3>3 DEF RefreshFinalDrift, Report
      <3> QED BY <1>1, <3>1, <3>2, <3>3
    <2>2. state' = state \/ state' \notin ConvergedStates
      <3>1. CASE Prepare \/ PlanOnly \/ AcquireLock
        BY <3>1 DEF Prepare, PlanOnly, AcquireLock, FinishEarly, ConvergedStates
      <3>2. CASE FetchDrift \/ RoundsExhausted
        BY <3>2 DEF FetchDrift, RoundsExhausted, Stop, ConvergedStates
      <3>3. CASE RefreshFinalDrift \/ Report
        BY <3>3 DEF RefreshFinalDrift, Report
      <3> QED BY <1>1, <3>1, <3>2, <3>3
    <2> QED BY <2>1, <2>2, <2>3 DEF RefreshInv, RefreshEvidence
  <1>2. CASE DecideRound
    <2>1. /\ SameRound /\ refreshed' = refreshed
          /\ pc' \in {"report", "enrollment"}
          /\ pc' = "enrollment" => todo' = Plan
      BY <1>2 DEF DecideRound, PlanError, NothingToDo, Blocked, NoProgress, Proceed,
           Stop, SameRound
    <2>2. state' \in ConvergedStates => ~Forcing
      <3>1. state \notin ConvergedStates
        BY <1>2 DEF FreshInv, Done, DecideRound
      <3>2. state' \in ConvergedStates => Plan = {}
        BY <1>2, <3>1 DEF DecideRound, PlanError, NothingToDo, Blocked, NoProgress,
             Proceed, Stop, ConvergedStates
      <3> QED BY <3>2, ForcedPlanned
    <2>3. refresh /\ state' \in ConvergedStates => refreshed
      BY <1>0, <2>2 DEF RefreshInv, Forcing
    <2> QED BY <2>1, <2>3, PlanStable, ForcedPlanned
            DEF RefreshInv, RefreshEvidence, SameRound
  <1>3. CASE CheckEnrollment \/ ScanBootstrapRoutes \/ StartRound
    <2>1. /\ SameRound /\ UNCHANGED <<refreshed, todo>>
          /\ pc' \in {"report", "mdns_scan", "start", "bootstrap"}
          /\ state' = state \/ state' \notin ConvergedStates
          /\ pc \in {"enrollment", "mdns_scan", "start"}
      BY <1>3 DEF CheckEnrollment, ScanBootstrapRoutes, StartRound, Stop, SameRound,
                  ConvergedStates
    <2> QED BY <2>1, PlanStable DEF RefreshInv, RefreshEvidence, SameRound
  <1>4. CASE \/ InterruptRound \/ ServiceActionsDone \/ SkipPostObservation
             \/ ScanServiceRoutes \/ StartPostObservation
    <2>1. /\ SameRound /\ UNCHANGED <<refreshed, todo, state, summary>>
          /\ running' = running \/ running' = {PostObservation}
          /\ Executing
          /\ pc' \in {"service", "observe", "outcome"}
          /\ pc' # "outcome" => pc # "bootstrap"
          /\ running = {}
      BY <1>0, <1>4 DEF InterruptRound, ServiceActionsDone, SkipPostObservation,
           ScanServiceRoutes, StartPostObservation, EndRound, SameRound
    <2>2. pc' = "outcome" /\ terminal' = {} => pc = "observe"
      BY <1>4 DEF InterruptRound, ServiceActionsDone, SkipPostObservation,
           ScanServiceRoutes, ScanErrors, StartPostObservation, EndRound
    <2> QED BY <2>1, <2>2, PlanStable, ForcedPlanned, FailureStays
            DEF RefreshInv, RefreshEvidence, SameRound
  <1>5. ASSUME NEW a \in Actions, StartAction(a) PROVE RefreshInv'
    <2>1. /\ SameRound /\ UNCHANGED <<refreshed, state, summary, pc>>
          /\ running' = {a} /\ todo' = todo \ {a} /\ running = {}
          /\ pc \in {"bootstrap", "service"} /\ a \in todo
      BY <1>5 DEF StartAction, SameRound, MayStart, Ready
    <2> QED BY <2>1, PlanStable, FailureStays DEF RefreshInv, RefreshEvidence, SameRound
  <1>6. ASSUME NEW a \in Actions, CompleteAction(a) PROVE RefreshInv'
    <2>1. PICK r \in Outcomes(IdOf(a)) :
            /\ Record(a, r)
            /\ LET codes == IF a = Forced /\ Forcing /\ ~r.success
                             THEN {"observation_failed"} ELSE r.terminal
               IN IF codes # {} THEN EndRound(codes) ELSE UNCHANGED <<pc, terminal>>
      BY <1>6 DEF CompleteAction
    <2>2. /\ SameRound /\ UNCHANGED <<state, todo>>
          /\ running' = {} /\ running = {a} /\ pc \in {"bootstrap", "service"}
      BY <1>6 DEF CompleteAction, SameRound
    <2>3. pc' = pc \/ (pc' = "outcome" /\ terminal' # {})
      BY <2>1 DEF EndRound
    <2>4. refreshed => refreshed'
      BY <2>1 DEF Record
    <2>5. summary \subseteq summary'
      BY <2>1 DEF Record
    <2>6. r.success \in BOOLEAN
      BY OutcomesTyped
    <2>7. a = Forced /\ Forcing => refreshed' \/ ForcedFailure'
      BY <2>1, <2>2, <2>6, ForcedCompletes
    <2> QED BY <2>2, <2>3, <2>4, <2>5, <2>7, PlanStable, FailureStays
            DEF RefreshInv, RefreshEvidence, SameRound
  <1>7. CASE Regenerate \/ CompletePostObservation
    <2>0. /\ Forced \notin running
          /\ pc = "bootstrap" => todo \cap ActionsOf(BootstrapIds) = {}
      BY <1>7, ForcedPlanned DEF Regenerate, CompletePostObservation
    <2>1. /\ SameRound /\ UNCHANGED <<state, todo>>
          /\ pc' \in {"service_scan", "observe", "outcome"}
          /\ running' = {} /\ (refreshed => refreshed')
          /\ pc \in {"bootstrap", "observe"}
      <3>1. CASE Regenerate
        BY <3>1 DEF Regenerate, EndRound, SameRound
      <3>2. CASE CompletePostObservation
        BY <3>2 DEF CompletePostObservation, Record, EndRound, SameRound
      <3> QED BY <1>7, <3>1, <3>2
    <2>2. summary \subseteq summary'
      BY <1>7 DEF Regenerate, CompletePostObservation, Record
    <2>3. Forced \notin todo
      BY <2>0, <2>1, ForcedPlanned DEF RefreshInv
    <2> QED BY <2>0, <2>1, <2>2, <2>3, PlanStable, FailureStays
            DEF RefreshInv, RefreshEvidence, SameRound
  <1>8. CASE RoundOutcome
    <2>1. /\ refresh' = refresh /\ refreshed' = refreshed
          /\ pc' \in {"report", "refresh", "round"}
          /\ state' = state \/ state' \notin ConvergedStates
      BY <1>8 DEF RoundOutcome, Stop, ConvergedStates
    <2>2. round' = round \/ (round' = round + 1 /\ terminal = {} /\ ~ForcedFailure)
      BY <1>8 DEF RoundOutcome, Stop
    <2>3. refresh /\ round' > 0 => refreshed
      <3>1. CASE round' = round
        BY <3>1 DEF RefreshInv
      <3>2. CASE round' = round + 1 /\ terminal = {} /\ ~ForcedFailure
        BY <1>0, <1>8, <3>2 DEF RoundOutcome, RefreshInv, Forcing
      <3> QED BY <2>2, <3>1, <3>2
    <2> QED BY <2>1, <2>3 DEF RefreshInv, RefreshEvidence
  <1>9. CASE Environment \/ Over \/ UNCHANGED vars
    <2>1. /\ UNCHANGED <<running, todo, state, summary, terminal, refreshed>>
          /\ SameRound
          /\ pc' = pc \/ pc' = "crashed"
      BY <1>9 DEF Environment, Interrupt, Crash, EnrollHost, Disturb, Over, SameRound
    <2> QED BY <2>1, PlanStable, FailureStays DEF RefreshInv, RefreshEvidence, SameRound
  <1> QED BY <1>1, <1>2, <1>3, <1>4, <1>5, <1>6, <1>7, <1>8, <1>9 DEF Next, Step

------------------------------------------------------------------------------
(* The invariant and the properties it was made for. *)

\* Every reachable state of a run satisfies the inductive invariant.
THEOREM Inductive == Spec => []InductiveInv
<1>1. Init => InductiveInv
  <2> SUFFICES ASSUME Init PROVE InductiveInv
    OBVIOUS
  <2> USE DEF Init, Executing, Gated, Planned, Done, ConvergedStates
  <2>1. FreshInv /\ SideEffectsInv
    BY DEF FreshInv, SideEffectsInv
  <2>2. ProgressInv /\ EnrollmentInv
    BY DEF ProgressInv, EnrollmentInv
  <2>3. ServiceInv /\ RefreshInv
    BY DEF ServiceInv, RefreshInv, RefreshEvidence
  <2> QED BY <2>1, <2>2, <2>3 DEF InductiveInv
<1>2. TypeOK /\ InductiveInv /\ [Next]_vars => InductiveInv'
  BY FreshStep, SideEffectsStep, ProgressStep, EnrollmentStep, ServiceStep, RefreshStep
     DEF InductiveInv
<1> QED BY <1>1, <1>2, TypeCorrect, PTL DEF Spec

\* A run says (already_)converged only about drift fetched after the last thing
\* it did (executor.py:278-280, 443-451).
THEOREM FreshVerdict == Spec => []VerdictIsFresh
<1>1. InductiveInv => VerdictIsFresh
  BY DEF InductiveInv, FreshInv, VerdictIsFresh
<1> QED BY <1>1, Inductive, PTL

\* A round that died after side effects reports drift fetched after them, or
\* says that it does not know (executor.py:405-418, 430-451).
THEOREM TerminalRefreshed == Spec => []TerminalRefresh
<1>1. InductiveInv => TerminalRefresh
  BY DEF InductiveInv, FreshInv, SideEffectsInv, TerminalRefresh
<1> QED BY <1>1, Inductive, PTL

\* progress_made is the truth about the whole run (executor.py:372, 457-459).
THEOREM ProgressIsAccounted == Spec => []ProgressAccounted
<1>1. InductiveInv => ProgressAccounted
  <2> SUFFICES ASSUME ProgressInv, pc = "finished" PROVE progress <=> touched
    BY DEF InductiveInv, ProgressAccounted
  <2>1. summary = {}
    BY DEF ProgressInv, Executing
  <2> QED BY <2>1 DEF ProgressInv
<1> QED BY <1>1, Inductive, PTL

\* No action of a plan starts before every host its SSH actions contact is
\* enrolled (executor.py:303-327).
THEOREM EnrolledBeforeWrites == Spec => []EnrollmentBeforeWrites
<1>1. InductiveInv => EnrollmentBeforeWrites
  <2> SUFFICES ASSUME EnrollmentInv, running # {}, NEW a \in Plan \cap ActionsOf(SshIds)
               PROVE  HostsOf[a] \subseteq enrolled
    BY DEF InductiveInv, EnrollmentBeforeWrites
  <2>1. HostsOf[a] \subseteq SshHosts(SshIds)
    BY DEF SshHosts, HostsOfAll
  <2> QED BY <2>1 DEF EnrollmentInv
<1> QED BY <1>1, Inductive, PTL

\* A service playbook runs on this round's render and on verified production
\* routes (executor.py:537-585).
THEOREM ServiceRoutesVerified == Spec => []ServiceOnVerifiedRoute
<1>1. InductiveInv => ServiceOnVerifiedRoute
  <2> SUFFICES ASSUME ServiceInv, NEW a \in running \cap ActionsOf(ServiceIds)
               PROVE  /\ context /\ rendered
                      /\ HostsOf[a] \X {"production"} \subseteq scanned
    BY DEF InductiveInv, ServiceOnVerifiedRoute
  <2>1. a \in Plan /\ ActionsOf(ServiceIds) = ActionsOf(ServiceIds \cap SshIds)
    BY DEF ServiceInv, ActionsOf, ServiceIds, SshIds
  <2>2. HostsOf[a] \subseteq ServiceScanTargets
    BY <2>1 DEF ServiceScanTargets, SshHosts, HostsOfAll
  <2> QED BY <2>2 DEF ServiceInv
<1> QED BY <1>1, Inductive, PTL

\* Convergence is never reported without the fresh evidence that was asked for
\* (executor.py:373-404).
THEOREM RefreshIsEvidence == Spec => []RefreshEvidence
<1>1. InductiveInv => RefreshEvidence
  BY DEF InductiveInv, RefreshInv
<1> QED BY <1>1, Inductive, PTL

\* After SIGINT or SIGTERM no further action of a plan starts
\* (executor.py:507, 588).
THEOREM InterruptsStop == Spec => InterruptStopsPlan
<1>1. [Next]_vars => [interrupted => running' \cap Actions \subseteq running]_vars
  <2> SUFFICES ASSUME [Next]_vars, interrupted PROVE running' \cap Actions \subseteq running
    OBVIOUS
  <2>1. ASSUME NEW a \in Actions, StartAction(a) PROVE FALSE
    BY <2>1 DEF StartAction, MayStart
  <2>2. CASE StartPostObservation
    BY <2>2, PostObservationApart DEF StartPostObservation
  <2>3. CASE ~StartPostObservation
    <3>1. running' \subseteq running
      BY <2>1, <2>3 DEF Next, Step, Environment, Over, Prepare, PlanOnly, AcquireLock,
         FetchDrift, RoundsExhausted, DecideRound, CheckEnrollment, ScanBootstrapRoutes,
         StartRound, InterruptRound, CompleteAction, Regenerate, ScanServiceRoutes,
         ServiceActionsDone, SkipPostObservation, CompletePostObservation, RoundOutcome,
         RefreshFinalDrift, Report, Interrupt, Crash, EnrollHost, Disturb
    <3> QED BY <3>1
  <2> QED BY <2>2, <2>3
<1> QED BY <1>1, PTL DEF Spec, InterruptStopsPlan

------------------------------------------------------------------------------
(* A run in which nothing goes wrong. *)

\* Some diff of a drift lies as shallow as any.
LEMMA Shallowest ==
    ASSUME NEW depth \in [Diffs -> Nat], NEW X \in SUBSET Diffs, X # {}
    PROVE  \E d \in X : \A e \in X : ~(depth[e] < depth[d])
  <1> DEFINE T == {depth[d] : d \in X}
             R == OpToRel(<, Nat)
  <1>1. T \subseteq Nat /\ T # {}
    OBVIOUS
  <1>2. IsWellFoundedOn(R, Nat)
    BY NatLessThanWellFounded
  <1>3. \A x, y \in Nat : x < y => <<x, y>> \in R
    BY DEF OpToRel
  <1> HIDE DEF T, R
  <1>4. PICK x \in T : \A y \in T : <<y, x>> \notin R
    BY <1>1, <1>2, WFMin
  <1>5. PICK d \in X : depth[d] = x
    BY DEF T
  <1>6. \A e \in X : depth[e] \in T
    BY DEF T
  <1> QED
    BY <1>1, <1>3, <1>4, <1>5, <1>6

\* What calls for an action are diffs, and errors.
LEMMA AutomaticTyped ==
    ASSUME Layered
    PROVE  /\ Automatic \subseteq Diffs \cap ErrorDiffs
           /\ \A d \in Automatic : Depth[d] \in Nat /\ Depth[d] + 1 < MaxRounds
           /\ Pending \subseteq Automatic
  BY ReconcileAssumption DEF Layered, Automatic, Pending

\* A planned action answers something seen, or is the one a refresh forces.
LEMMA PlanAnswers ==
    ASSUME NEW a \in Plan
    PROVE  /\ a \in Actions
           /\ \/ \E d \in Claims[a] \cap seen : d \in Automatic
              \/ a = Forced /\ Forcing
  BY PlanTyped DEF Plan, PlanFor, Automatic

\* Where nothing seen calls for an action, only a forced observation is planned.
LEMMA NothingCalls == (\E a \in Plan : TRUE) => seen \cap Automatic # {} \/ Forcing
  BY PlanAnswers

LEMMA HealthyBegin ==
    ASSUME Layered, TypeOK, FreshInv, Healthy, clean', clean,
           pc = "plan_only" => mode = "plan",
           Prepare \/ PlanOnly \/ AcquireLock
    PROVE  Healthy'
  <1> USE DEF Executing, Gated, Planned
  <1>1. CASE pc' = "finished"
    <2>1. /\ mode' = "plan"
          /\ UNCHANGED <<interrupted, terminal, finalUnknown, summary>>
      BY <1>1 DEF Prepare, PlanOnly, AcquireLock, FinishEarly, Fault
    <2> QED
      BY <1>1, <2>1 DEF Healthy, CleanLayers, CleanRounds, CleanEnd
  <1>2. CASE pc' # "finished"
    <2>1. /\ UNCHANGED <<world, seen, round, previous, interrupted, terminal, finalUnknown,
                         summary, mode, todo, running>>
          /\ pc \in {"prepare", "lock"} /\ pc' \in {"plan_only", "lock", "round"}
      BY <1>2 DEF Prepare, PlanOnly, AcquireLock, FinishEarly
    <2>2. round = 0
      BY <2>1 DEF FreshInv
    <2>3. CleanLayers'
      BY <2>1, <2>2, AutomaticTyped DEF CleanLayers, Automatic
    <2>4. CleanRounds'
      <3>1. previous = {} /\ 0 < MaxRounds /\ ~(0 > 0)
        BY <2>1, <2>2, ReconcileAssumption DEF Healthy, CleanRounds
      <3> QED BY <2>1, <2>2, <3>1 DEF CleanRounds
    <2>5. CleanEnd'
      BY <2>1 DEF Healthy, CleanEnd
    <2> QED BY <2>3, <2>4, <2>5 DEF Healthy
  <1> QED BY <1>1, <1>2

LEMMA HealthyFetch ==
    ASSUME Layered, TypeOK, FreshInv, Healthy, clean', clean,
           FetchDrift \/ RoundsExhausted
    PROVE  Healthy'
  <1> USE DEF Executing, Gated, Planned
  <1>1. ~RoundsExhausted
    BY DEF RoundsExhausted, MoreRounds, Healthy, CleanRounds
  <1>2. /\ pc = "round" /\ pc' = "plan" /\ seen' = world
        /\ UNCHANGED <<world, round, previous, interrupted, terminal, finalUnknown, summary>>
    BY <1>1 DEF FetchDrift, Stop, Fault, Healthy, CleanEnd
  <1>3. CleanLayers'
    BY <1>2 DEF Healthy, CleanLayers, Automatic
  <1>4. CleanRounds'
    <2>1. round = 0 => previous = {}
      BY <1>2 DEF Healthy, CleanRounds
    <2>2. world \cap Automatic # {} => previous # {Fingerprint(world)}
      <3>1. round \in Nat
        BY ReconcileAssumption DEF TypeOK, DataOK
      <3>2. CASE round = 0
        BY <2>1, <3>2
      <3>3. CASE round > 0
        BY <1>2, <3>3 DEF Healthy, CleanRounds
      <3> QED BY <3>1, <3>2, <3>3
    <2> QED BY <1>2, <2>1, <2>2 DEF CleanRounds, Automatic, Fingerprint
  <1>5. CleanEnd'
    BY <1>2 DEF Healthy, CleanEnd
  <1> QED BY <1>3, <1>4, <1>5 DEF Healthy

\* The decision: a plan is carried out only if something seen calls for it, and such a
\* drift is not the one of the round before.
LEMMA HealthyDecide ==
    ASSUME Layered, TypeOK, Healthy, clean', clean, DecideRound
    PROVE  Healthy'
  <1> USE DEF Executing, Gated, Planned
  <1>1. /\ pc = "plan" /\ SameRound /\ world = seen
        /\ UNCHANGED <<world, interrupted, terminal, finalUnknown, summary>>
        /\ round = 0 => previous = {}
        /\ round \in Nat
        /\ \A d \in seen \cap Automatic : Depth[d] >= round
    BY ReconcileAssumption
       DEF DecideRound, SameRound, Healthy, CleanLayers, CleanRounds, TypeOK, DataOK
  <1>2. Plan # {} => /\ previous # {Fingerprint(seen)}
                     /\ round + 1 < MaxRounds
    <2> SUFFICES ASSUME NEW a \in Plan
                 PROVE  previous # {Fingerprint(seen)} /\ round + 1 < MaxRounds
      OBVIOUS
    <2>1. CASE seen \cap Automatic # {}
      <3>1. PICK d \in seen \cap Automatic : TRUE
        BY <2>1
      <3>2. Depth[d] >= round /\ Depth[d] \in Nat /\ Depth[d] + 1 < MaxRounds
        BY <1>1, <3>1, AutomaticTyped
      <3>3. previous # {Fingerprint(seen)}
        BY <1>1, <2>1 DEF Healthy, CleanRounds
      <3> QED BY <1>1, <3>2, <3>3, ReconcileAssumption
    <2>2. CASE seen \cap Automatic = {}
      <3>1. round = 0
        BY <2>2, PlanAnswers DEF Forcing
      <3> QED BY <1>1, <3>1 DEF Layered
    <2> QED BY <2>1, <2>2
  <1>3. CASE pc' = "enrollment"
    <2>1. Plan # {} /\ previous' = {Fingerprint(seen)} /\ todo' = Plan
      BY <1>3 DEF DecideRound, PlanError, NothingToDo, Blocked, NoProgress, Proceed,
                  Executable, Stop
    <2>2. CleanLayers'
      BY <1>1, <1>3, <2>1, PlanStable DEF CleanLayers, Automatic, SameRound
    <2>3. CleanRounds'
      BY <1>1, <1>2, <1>3, <2>1 DEF CleanRounds, SameRound, Fingerprint
    <2>4. CleanEnd'
      BY <1>1, <1>3 DEF Healthy, CleanEnd
    <2> QED BY <2>2, <2>3, <2>4 DEF Healthy
  <1>4. CASE pc' # "enrollment"
    <2>1. /\ pc' = "report"
          /\ \/ errors' = {"unclassified_diff_code"}
             \/ state' \in ConvergedStates
             \/ state' = "manual_intervention_required" /\ (Local(seen) \/ Global(seen))
      BY <1>2, <1>4 DEF DecideRound, PlanError, NothingToDo, Blocked, NoProgress, Proceed,
                  Executable, Stop, Fault, ConvergedStates
    <2>2. CleanEnd'
      BY <1>1, <2>1 DEF Healthy, CleanEnd, Local, Global, SameRound
    <2> QED BY <2>1, <2>2 DEF Healthy, CleanLayers, CleanRounds
  <1> QED BY <1>3, <1>4

\* The gates only let pass; the plan they let pass answers all that calls for an action.
LEMMA HealthyGate ==
    ASSUME Layered, Healthy, clean', clean,
           CheckEnrollment \/ ScanBootstrapRoutes \/ StartRound
    PROVE  Healthy'
  <1> USE DEF Executing, Gated, Planned
  <1>1. /\ SameRound /\ UNCHANGED <<world, previous, interrupted, finalUnknown, todo, running>>
        /\ pc \in {"enrollment", "mdns_scan", "start"}
        /\ pc' \in {"mdns_scan", "start", "bootstrap"}
        /\ UNCHANGED <<summary, terminal>> \/ (summary' = {} /\ terminal' = {})
    BY DEF CheckEnrollment, ScanBootstrapRoutes, StartRound, Stop, Fault, SameRound
  <1>2. /\ world = seen /\ todo = Plan
        /\ \A d \in seen \cap Automatic : Depth[d] >= round
    BY <1>1 DEF Healthy, CleanLayers
  <1>3. world \cap Automatic \subseteq Pending'
    <2> SUFFICES ASSUME NEW d \in world \cap Automatic PROVE d \in Pending'
      OBVIOUS
    <2>1. PICK a \in Actions : d \in Claims[a]
      BY DEF Automatic
    <2>2. a \in todo'
      BY <1>1, <1>2, <2>1 DEF Plan, PlanFor
    <2> QED BY <2>1, <2>2 DEF Pending
  <1>4. CleanLayers'
    BY <1>1, <1>2, <1>3, PlanStable DEF CleanLayers, Automatic, SameRound
  <1>5. CleanRounds'
    BY <1>1 DEF Healthy, CleanRounds, SameRound, Fingerprint
  <1>6. CleanEnd'
    BY <1>1 DEF Healthy, CleanEnd
  <1> QED BY <1>4, <1>5, <1>6 DEF Healthy

\* What an action that starts answers stays pending.
LEMMA HealthyStart ==
    ASSUME Healthy, clean', clean, NEW a \in Actions, StartAction(a)
    PROVE  Healthy'
  <1> USE DEF Executing, Gated, Planned
  <1>1. /\ SameRound
        /\ UNCHANGED <<pc, world, previous, interrupted, finalUnknown, summary, terminal>>
        /\ pc \in {"bootstrap", "service"} /\ a \in todo /\ running = {}
        /\ todo' = todo \ {a} /\ running' = {a}
        /\ pc = "bootstrap" => a \notin ActionsOf(ServiceIds)
    BY DEF StartAction, SameRound, MayStart, Ready, PhaseIds, ActionsOf, BootstrapIds, ServiceIds
  <1>2. Pending' = Pending
    <2>1. (todo' \cup running') \cap Actions = (todo \cup running) \cap Actions
      BY <1>1
    <2> QED BY <2>1 DEF Pending
  <1>3. CleanLayers'
    BY <1>1, <1>2, PlanStable DEF Healthy, CleanLayers, Automatic, SameRound, ActionsOf
  <1>4. CleanRounds'
    BY <1>1 DEF Healthy, CleanRounds, SameRound, Fingerprint
  <1>5. CleanEnd'
    BY <1>1 DEF Healthy, CleanEnd
  <1> QED BY <1>3, <1>4, <1>5 DEF Healthy

\* An action that succeeds resolves all it answers, and uncovers only what lies deeper
\* than something seen; a forced one, what no action has run for yet.
LEMMA HealthyComplete ==
    ASSUME Layered, TypeOK, ServiceInv, RefreshInv, Healthy, clean', clean,
           NEW a \in Actions, CompleteAction(a)
    PROVE  Healthy'
  <1> USE DEF Executing, Gated, Planned
  <1>1. PICK r \in Outcomes(IdOf(a)) :
          /\ Record(a, r)
          /\ LET codes == IF a = Forced /\ Forcing /\ ~r.success
                            THEN {"observation_failed"} ELSE r.terminal
             IN IF codes # {} THEN EndRound(codes) ELSE UNCHANGED <<pc, terminal>>
    BY DEF CompleteAction
  <1>2. /\ r.success /\ world' \in Effects(a, TRUE) /\ world' \cap Claims[a] = {}
        /\ summary' = summary \cup {[action |-> a, success |-> r.success, mutated |-> r.mutated]}
    <2>1. r.success /\ world' \cap ClaimsOf(a) = {} /\ world' \in Effects(a, r.success)
      BY <1>1 DEF Record
    <2> QED BY <1>1, <2>1, OutcomesTyped DEF Record, ClaimsOf
  <1>3. UNCHANGED <<pc, terminal>>
    BY <1>1, <1>2 DEF Outcomes
  <1>4. /\ SameRound /\ UNCHANGED <<previous, interrupted, finalUnknown, todo>>
        /\ pc \in {"bootstrap", "service"} /\ running = {a} /\ running' = {}
    BY DEF CompleteAction, SameRound
  <1>5. world' \subseteq world \cup Reveals[a]
    BY <1>2 DEF Effects, RevealsOf
  <1>6. a \in Plan
    BY <1>4 DEF ServiceInv
  <1>7. ASSUME NEW d \in world' \cap Automatic, d \notin Pending'
        PROVE  /\ Depth[d] > round
               /\ d \in seen => \E e \in seen \cap Automatic : Depth[e] < Depth[d]
    <2>1. d \notin Pending
      BY <1>2, <1>4, <1>7 DEF Pending
    <2>2. CASE d \in world
      BY <1>4, <2>1, <2>2 DEF Healthy, CleanLayers
    <2>3. CASE d \notin world /\ \E e \in Claims[a] \cap seen : e \in Automatic
      <3>1. PICK e \in Claims[a] \cap seen : e \in Automatic
        BY <2>3
      <3>2. Depth[e] >= round /\ Depth[e] \in Nat
        BY <1>4, <3>1, AutomaticTyped DEF Healthy, CleanLayers
      <3>3. Depth[e] < Depth[d] /\ Depth[d] \in Nat
        BY <1>5, <1>7, <2>3, <3>1, AutomaticTyped DEF Layered
      <3>4. round \in Nat
        BY ReconcileAssumption DEF TypeOK, DataOK
      <3> QED BY <3>1, <3>2, <3>3, <3>4
    <2>4. CASE d \notin world /\ a = Forced /\ Forcing
      <3>1. Depth[d] > 0 /\ \A b \in Actions : d \in Claims[b] => Reconciler[b] \in ServiceIds
        BY <1>5, <1>7, <2>4 DEF Layered
      <3>2. pc = "bootstrap"
        BY <1>4, <2>4 DEF RefreshInv
      <3>3. d \notin seen
        <4>1. SUFFICES ASSUME d \in seen PROVE FALSE
          OBVIOUS
        <4>2. PICK b \in Actions : d \in Claims[b]
          BY <1>7 DEF Automatic
        <4>3. b \in Plan \cap ActionsOf(ServiceIds)
          BY <3>1, <4>1, <4>2 DEF Plan, PlanFor, ActionsOf
        <4>4. b \in todo
          BY <3>2, <4>3 DEF Healthy, CleanLayers
        <4> QED BY <2>1, <4>2, <4>4 DEF Pending
      <3> QED BY <2>4, <3>1, <3>3 DEF Forcing
    <2> QED BY <1>6, <2>2, <2>3, <2>4, PlanAnswers
  <1>8. CleanLayers'
    BY <1>3, <1>4, <1>7, PlanStable DEF Healthy, CleanLayers, Automatic, SameRound
  <1>9. CleanRounds'
    BY <1>3, <1>4 DEF Healthy, CleanRounds, SameRound, Fingerprint
  <1>10. CleanEnd'
    BY <1>2, <1>3, <1>4 DEF Healthy, CleanEnd
  <1> QED BY <1>8, <1>9, <1>10 DEF Healthy

\* Between the actions of a round nothing is found.
LEMMA HealthyPhase ==
    ASSUME Healthy, clean', clean,
           \/ InterruptRound \/ Regenerate \/ ScanServiceRoutes \/ ServiceActionsDone
           \/ StartPostObservation \/ SkipPostObservation
    PROVE  Healthy'
  <1> USE DEF Executing, Gated, Planned
  <1>1. ~InterruptRound
    BY DEF InterruptRound, Healthy, CleanEnd
  <1>2. /\ SameRound /\ UNCHANGED <<world, previous, interrupted, finalUnknown, todo>>
        /\ Executing
        /\ terminal' = {}
        /\ \/ pc = "bootstrap" /\ pc' = "service_scan"
           \/ pc = "service_scan" /\ pc' = "service"
           \/ pc \in {"service", "observe"} /\ pc' \in {"observe", "outcome"} /\ todo = {}
    <2>1. terminal = {}
      BY DEF Healthy, CleanEnd
    <2>2. CASE Regenerate
      BY <2>1, <2>2 DEF Regenerate, SameRound
    <2>3. CASE ScanServiceRoutes
      BY <2>1, <2>3 DEF ScanServiceRoutes, Fault, SameRound
    <2>4. CASE ServiceActionsDone \/ StartPostObservation \/ SkipPostObservation
      BY <2>1, <2>4 DEF ServiceActionsDone, StartPostObservation, SkipPostObservation,
                        EndRound, SameRound, Healthy, CleanLayers
    <2> QED BY <1>1, <2>2, <2>3, <2>4
  <1>3. /\ running' \cap Actions = running \cap Actions
        /\ pc' \in {"observe", "outcome"} => running' \cap Actions = {}
    <2>1. CASE Regenerate \/ ScanServiceRoutes
      BY <1>2, <2>1 DEF Regenerate, ScanServiceRoutes
    <2>2. CASE ServiceActionsDone \/ StartPostObservation \/ SkipPostObservation
      BY <2>2, PostObservationApart
         DEF ServiceActionsDone, StartPostObservation, SkipPostObservation
    <2> QED BY <1>1, <2>1, <2>2
  <1>4. Pending' = Pending
    <2>1. (todo' \cup running') \cap Actions = (todo \cup running) \cap Actions
      BY <1>2, <1>3
    <2> QED BY <2>1 DEF Pending
  <1>5. \A x \in summary' : x \in summary \/ x.success
    <2>1. CASE Regenerate
      <3>1. PICK success, ctx \in BOOLEAN :
              /\ ctx => success
              /\ summary' = summary \cup {[action |-> Regeneration,
                                           success |-> success, mutated |-> FALSE]}
              /\ clean' = (clean /\ ctx)
        BY <2>1 DEF Regenerate
      <3> QED BY <3>1
    <2>2. CASE ~Regenerate
      BY <1>1, <2>2 DEF ScanServiceRoutes, ServiceActionsDone, StartPostObservation,
                        SkipPostObservation
    <2> QED BY <2>1, <2>2
  <1>6. CleanLayers'
    BY <1>2, <1>3, <1>4, PlanStable DEF Healthy, CleanLayers, Automatic, SameRound
  <1>7. CleanRounds'
    BY <1>2 DEF Healthy, CleanRounds, SameRound, Fingerprint
  <1>8. CleanEnd'
    BY <1>2, <1>5 DEF Healthy, CleanEnd
  <1> QED BY <1>6, <1>7, <1>8 DEF Healthy

\* The post-actuation observation reads.
LEMMA HealthyPost ==
    ASSUME Healthy, clean', clean, CompletePostObservation
    PROVE  Healthy'
  <1> USE DEF Executing, Gated, Planned
  <1>1. PICK r \in Outcomes("observe_node") :
          Record(PostObservation, r) /\ EndRound(r.terminal)
    BY DEF CompletePostObservation
  <1>2. ClaimsOf(PostObservation) = {} /\ RevealsOf(PostObservation) = {}
    BY PostObservationApart DEF ClaimsOf, RevealsOf
  <1>3. /\ r.success
        /\ \A x \in summary' : x \in summary \/ x.success
    BY <1>1, OutcomesTyped DEF Record
  <1>4. world' = world
    <2>1. world' \in Effects(PostObservation, r.success)
      BY <1>1 DEF Record
    <2> QED BY <1>2, <2>1 DEF Effects
  <1>5. terminal' = {} /\ pc' = "outcome"
    BY <1>1, <1>3 DEF EndRound, Outcomes
  <1>6. /\ SameRound /\ UNCHANGED <<previous, interrupted, finalUnknown, todo>>
        /\ pc = "observe" /\ running' = {}
    BY DEF CompletePostObservation, SameRound
  <1>7. todo = {} /\ running \cap Actions = {}
    BY <1>6 DEF Healthy, CleanLayers
  <1>8. Pending' = Pending
    BY <1>6, <1>7 DEF Pending
  <1>9. CleanLayers'
    BY <1>4, <1>5, <1>6, <1>7, <1>8, PlanStable DEF Healthy, CleanLayers, Automatic, SameRound
  <1>10. CleanRounds'
    BY <1>4, <1>5, <1>6 DEF Healthy, CleanRounds, SameRound, Fingerprint
  <1>11. CleanEnd'
    BY <1>3, <1>5, <1>6 DEF Healthy, CleanEnd
  <1> QED BY <1>9, <1>10, <1>11 DEF Healthy

\* A finished round leaves a drift one layer deeper, and another one than it found: of
\* what it found and all of which is back, something would have to be uncovered by work on
\* something shallower, without end.
LEMMA HealthyOutcome ==
    ASSUME Layered, TypeOK, Healthy, clean', clean, RoundOutcome
    PROVE  Healthy'
  <1> USE DEF Executing, Gated, Planned
  <1>1. /\ pc = "outcome" /\ summary' = {} /\ terminal = {}
        /\ UNCHANGED <<world, seen, previous, interrupted, terminal, finalUnknown>>
    BY DEF RoundOutcome, Healthy, CleanEnd
  <1>2. ~ForcedFailure
    BY DEF ForcedFailure, Healthy, CleanEnd
  <1>3. pc' = "round" /\ round' = round + 1
    BY <1>1, <1>2 DEF RoundOutcome
  <1>4. round \in Nat
    BY ReconcileAssumption DEF TypeOK, DataOK
  <1>5. Pending = {}
    BY <1>1 DEF Healthy, CleanLayers, Pending
  <1>6. \A d \in world \cap Automatic :
          /\ Depth[d] > round /\ Depth[d] \in Nat
          /\ d \in seen => \E e \in seen \cap Automatic : Depth[e] < Depth[d]
    BY <1>1, <1>5, AutomaticTyped DEF Healthy, CleanLayers
  <1>7. previous = {Fingerprint(seen)} /\ round + 1 < MaxRounds
    BY <1>1 DEF Healthy, CleanRounds
  <1>8. ASSUME world \cap Automatic # {} PROVE Fingerprint(seen) # Fingerprint(world)
    <2>1. SUFFICES ASSUME Fingerprint(seen) = Fingerprint(world) PROVE FALSE
      OBVIOUS
    <2> DEFINE X == world \cap Automatic
    <2>2. X = seen \cap Automatic
      BY <2>1, AutomaticTyped DEF Fingerprint
    <2>3. X \in SUBSET Diffs /\ X # {} /\ Depth \in [Diffs -> Nat]
      BY <1>8, AutomaticTyped DEF Layered
    <2>4. \A d \in X : \E e \in X : Depth[e] < Depth[d]
      BY <1>6, <2>2
    <2> HIDE DEF X
    <2> QED BY <2>3, <2>4, Shallowest
  <1>9. CleanLayers'
    BY <1>1, <1>3, <1>4, <1>6 DEF CleanLayers, Automatic
  <1>10. CleanRounds'
    <2>1. world \cap Automatic # {} => previous # {Fingerprint(world)}
      BY <1>7, <1>8
    <2>2. round' # 0 /\ round' < MaxRounds
      BY <1>3, <1>4, <1>7
    <2>3. previous' = previous /\ (world \cap Automatic)' = world \cap Automatic
          /\ Fingerprint(world)' = Fingerprint(world)
      BY <1>1 DEF Automatic, Fingerprint
    <2> QED BY <1>3, <2>1, <2>2, <2>3 DEF CleanRounds
  <1>11. CleanEnd'
    BY <1>1, <1>3 DEF Healthy, CleanEnd
  <1> QED BY <1>9, <1>10, <1>11 DEF Healthy

\* The end reports what was decided, and an enrollment elsewhere changes nothing here.
LEMMA HealthyEnd ==
    ASSUME Healthy, clean', clean,
           RefreshFinalDrift \/ Report \/ Environment \/ Over \/ UNCHANGED vars
    PROVE  Healthy'
  <1> USE DEF Executing, Gated, Planned
  <1>1. CASE RefreshFinalDrift \/ Report
    <2>1. /\ pc = "report" /\ pc' = "finished" /\ errors' = errors
          /\ UNCHANGED <<interrupted, terminal, finalUnknown, summary, mode, state, seen>>
      BY <1>1 DEF RefreshFinalDrift, Report, Healthy, CleanEnd
    <2> QED BY <2>1 DEF Healthy, CleanLayers, CleanRounds, CleanEnd, Local, Global, ConvergedStates
  <1>2. CASE Environment \/ Over \/ UNCHANGED vars
    <2>1. /\ SameRound
          /\ UNCHANGED <<pc, world, previous, interrupted, terminal, finalUnknown, summary, mode,
                         state, errors, todo, running>>
      BY <1>2 DEF Environment, Interrupt, Crash, EnrollHost, Disturb, Over, Fault, SameRound
    <2>2. Pending' = Pending
      BY <2>1 DEF Pending
    <2>3. CleanLayers'
      BY <2>1, <2>2, PlanStable DEF Healthy, CleanLayers, Automatic, SameRound
    <2>4. CleanRounds'
      BY <2>1 DEF Healthy, CleanRounds, SameRound, Fingerprint, Automatic
    <2>5. CleanEnd'
      BY <2>1 DEF Healthy, CleanEnd, Local, Global, SameRound
    <2> QED BY <2>3, <2>4, <2>5 DEF Healthy
  <1> QED BY <1>1, <1>2

\* What went wrong once stays so, and only a run in plan mode takes the plan-only path.
LEMMA HealthKnown ==
    ASSUME TypeOK, [Next]_vars, pc = "plan_only" => mode = "plan"
    PROVE  (clean' => clean) /\ (pc' = "plan_only" => mode' = "plan")
  <1>1. CASE \/ Prepare \/ PlanOnly \/ AcquireLock \/ FetchDrift \/ RoundsExhausted \/ DecideRound
             \/ CheckEnrollment \/ ScanBootstrapRoutes \/ StartRound \/ InterruptRound
    BY <1>1 DEF Prepare, PlanOnly, AcquireLock, FetchDrift, RoundsExhausted, DecideRound,
       PlanError, NothingToDo, Blocked, NoProgress, Proceed, Stop, CheckEnrollment,
       ScanBootstrapRoutes, StartRound, InterruptRound, FinishEarly, Fault, EndRound
  <1>2. ASSUME NEW a \in Actions, StartAction(a) \/ CompleteAction(a)
        PROVE  (clean' => clean) /\ pc' # "plan_only"
    <2>1. CASE StartAction(a)
      BY <2>1 DEF StartAction
    <2>2. CASE CompleteAction(a)
      <3>1. clean' => clean
        BY <2>2 DEF CompleteAction, Record
      <3>2. pc' \in {pc, "outcome"} /\ pc # "plan_only"
        BY <2>2 DEF CompleteAction, EndRound
      <3> QED BY <3>1, <3>2
    <2> QED BY <1>2, <2>1, <2>2
  <1>3. CASE \/ Regenerate \/ ScanServiceRoutes \/ ServiceActionsDone
             \/ StartPostObservation \/ SkipPostObservation \/ CompletePostObservation
    <2>1. CASE Regenerate
      BY <2>1 DEF Regenerate, EndRound
    <2>2. CASE ScanServiceRoutes
      BY <2>2 DEF ScanServiceRoutes, EndRound, Fault
    <2>3. CASE CompletePostObservation
      BY <2>3 DEF CompletePostObservation, Record, EndRound
    <2>4. CASE ServiceActionsDone \/ StartPostObservation \/ SkipPostObservation
      BY <2>4 DEF ServiceActionsDone, StartPostObservation, SkipPostObservation, EndRound
    <2> QED BY <1>3, <2>1, <2>2, <2>3, <2>4
  <1>4. CASE RoundOutcome \/ RefreshFinalDrift \/ Report
    BY <1>4 DEF RoundOutcome, RefreshFinalDrift, Report, Stop, Fault
  <1>5. CASE Environment \/ Over \/ UNCHANGED vars
    <2>1. mode' = mode /\ (pc' = pc \/ pc' = "crashed")
      BY <1>5 DEF Environment, Interrupt, Crash, EnrollHost, Disturb, Over
    <2>2. clean' = clean \/ clean' = FALSE
      BY <1>5 DEF Environment, Interrupt, Crash, EnrollHost, Disturb, Over, Fault
    <2> QED BY <2>1, <2>2
  <1> QED BY <1>1, <1>2, <1>3, <1>4, <1>5 DEF Next, Step

\* Every step of a healthy run keeps it healthy.
LEMMA CleanStep ==
    ASSUME Layered
    PROVE  TypeOK /\ InductiveInv /\ CleanInv /\ [Next]_vars => CleanInv'
  <1> SUFFICES ASSUME TypeOK, FreshInv, ServiceInv, RefreshInv, CleanInv, [Next]_vars
               PROVE  CleanInv'
    BY DEF InductiveInv
  <1>1. (clean' => clean) /\ (pc' = "plan_only" => mode' = "plan")
    BY HealthKnown DEF CleanInv
  <1>2. ASSUME clean' PROVE Healthy'
    <2>1. clean /\ Healthy /\ (pc = "plan_only" => mode = "plan")
      BY <1>1, <1>2 DEF CleanInv, Healthy
    <2> QED
      BY <1>2, <2>1, HealthyBegin, HealthyFetch, HealthyDecide, HealthyGate, HealthyStart,
         HealthyComplete, HealthyPhase, HealthyPost, HealthyOutcome, HealthyEnd
         DEF Next, Step
  <1> QED BY <1>1, <1>2 DEF CleanInv, Healthy

\* In every layered cluster a run in which nothing goes wrong finds nothing above the layer
\* of its round, leaves nothing of it, and never finds again the errors of the round before
\* (executor.py:257-303).
THEOREM CleanInductive ==
    ASSUME Layered
    PROVE  Spec => []CleanInv
<1>1. Init => CleanInv
  <2> SUFFICES ASSUME Init PROVE CleanInv
    OBVIOUS
  <2> QED BY DEF Init, CleanInv, Healthy, CleanLayers, CleanRounds, CleanEnd, Executing, Gated, Planned
<1>2. TypeOK /\ InductiveInv /\ CleanInv /\ [Next]_vars => CleanInv'
  BY CleanStep
<1> QED BY <1>1, <1>2, TypeCorrect, Inductive, PTL DEF Spec

\* If nothing goes wrong, the loop's own stops (no_progress, max_rounds) never cut a run
\* short, in every layered cluster (executor.py:257-403).
THEOREM CleanRunsConverge ==
    ASSUME Layered
    PROVE  Spec => []CleanRunConverges
<1>1. CleanInv => CleanRunConverges
  BY DEF CleanInv, Healthy, CleanEnd, CleanRunConverges
<1> QED BY <1>1, CleanInductive, PTL

------------------------------------------------------------------------------
(* Reconcile implements RunContract: every step of the run is a step of the   *)
(* contract, or changes nothing the contract speaks of.                       *)

LEMMA VerdictGivenUp ==
    ASSUME state' \notin ConvergedStates, errors' # {} \/ state' # "failed"
    PROVE  Verdict' = "not_clear"
  BY DEF Verdict, ConvergedStates

LEMMA VerdictKept ==
    ASSUME UNCHANGED <<state, errors>> PROVE Verdict' = Verdict
  BY DEF Verdict, ConvergedStates

LEMMA InformedKept ==
    ASSUME UNCHANGED <<final, acted>> PROVE Informed' = Informed
  BY DEF Informed

\* The contract's steps, by what they do to the phase.
LEMMA GivesUp ==
    ASSUME Phase \in {"waiting", "looking", "acting"}, Phase' = "closing",
           Verdict' = "not_clear", Informed' = Informed
    PROVE  Contract!Next
  BY DEF Contract!Next, Contract!GiveUp

\* Each step of the run is a step of the contract.
LEMMA ContractStep ==
    TypeOK /\ FreshInv /\ [Next]_vars => [Contract!Next]_(Contract!contract)
  <1> SUFFICES ASSUME TypeOK, FreshInv, [Next]_vars
               PROVE  Contract!Next \/ UNCHANGED Contract!contract
    OBVIOUS
  <1> USE DEF Contract!contract
  <1>0. round \in 0..MaxRounds /\ MaxRounds \in Nat \ {0}
    BY ReconcileAssumption DEF TypeOK, DataOK
  <1>1. CASE Prepare \/ PlanOnly \/ AcquireLock
    <2>1. Phase = "waiting" /\ Informed' = Informed
      BY <1>1, InformedKept DEF Prepare, PlanOnly, AcquireLock, Phase
    <2>2. CASE pc' = "finished"
      <3>1. Phase' = "over"
        BY <2>2 DEF Phase
      <3>2. state' \notin ConvergedStates /\ (errors' # {} \/ state' # "failed")
        BY <1>1, <2>2 DEF Prepare, PlanOnly, AcquireLock, FinishEarly, ConvergedStates
      <3> QED BY <2>1, <3>1, <3>2, VerdictGivenUp DEF Contract!Next, Contract!Refuse
    <2>3. CASE pc' # "finished"
      <3>1. /\ pc' \in {"plan_only", "lock"} \/ (pc' = "round" /\ round' = round)
            /\ UNCHANGED <<state, errors>>
        BY <1>1, <2>3 DEF Prepare, PlanOnly, AcquireLock, FinishEarly
      <3>2. pc' = "round" => round' = 0
        BY <1>1, <2>3, <3>1 DEF Prepare, PlanOnly, AcquireLock, FinishEarly, FreshInv
      <3>3. Phase' = "waiting"
        BY <3>1, <3>2 DEF Phase
      <3> QED BY <2>1, <3>1, <3>3, VerdictKept
    <2> QED BY <2>2, <2>3
  <1>2. CASE FetchDrift
    <2>1. Phase \in {"waiting", "acting"}
      BY <1>2 DEF FetchDrift, Phase
    <2>2. CASE pc' = "plan"
      <3>1. Phase' = "looking"
        BY <2>2 DEF Phase
      <3>2. UNCHANGED <<state, errors>> /\ Informed'
        BY <1>2, <2>2 DEF FetchDrift, Stop, Informed
      <3> QED BY <2>1, <3>1, <3>2, VerdictKept DEF Contract!Next, Contract!Look, Informed
    <2>3. CASE pc' # "plan"
      <3>1. /\ pc' = "report" /\ UNCHANGED <<final, acted>>
            /\ state' = "failed" /\ errors' # {}
        BY <1>2, <2>3 DEF FetchDrift, Stop
      <3>2. Phase' = "closing"
        BY <3>1 DEF Phase
      <3> QED BY <2>1, <3>1, <3>2, InformedKept, VerdictGivenUp, GivesUp
              DEF ConvergedStates
    <2> QED BY <2>2, <2>3
  <1>3. CASE RoundsExhausted
    <2>1. Phase = "acting"
      BY <1>0, <1>3 DEF RoundsExhausted, MoreRounds, Phase
    <2>2. pc' = "report" /\ UNCHANGED <<final, acted>>
      BY <1>3 DEF RoundsExhausted, Stop
    <2>3. state' \in {"manual_intervention_required", "non_converged"}
      BY <1>3 DEF RoundsExhausted, Stop
    <2>4. Phase' = "closing"
      BY <2>2 DEF Phase
    <2> QED BY <2>1, <2>2, <2>3, <2>4, InformedKept, VerdictGivenUp, GivesUp
            DEF ConvergedStates
  <1>4. CASE DecideRound
    <2>1. Phase = "looking" /\ Informed /\ Informed' = Informed
      BY <1>4, InformedKept DEF DecideRound, FreshInv, Phase, Informed
    <2>2. CASE NothingToDo
      <3>1. state' \in ConvergedStates /\ pc' = "report"
        BY <2>2 DEF NothingToDo, Stop, ConvergedStates
      <3>2. Verdict' = "clear" /\ Phase' = "closing"
        BY <3>1 DEF Verdict, Phase
      <3> QED BY <2>1, <3>2 DEF Contract!Next, Contract!Clear
    <2>3. CASE Proceed
      <3>1. pc' = "enrollment" /\ UNCHANGED <<state, errors>>
        BY <2>3 DEF Proceed
      <3>2. Phase' = "acting"
        BY <3>1 DEF Phase
      <3>3. Informed' \in BOOLEAN
        BY DEF Informed
      <3> QED BY <2>1, <3>1, <3>2, <3>3, VerdictKept DEF Contract!Next, Contract!Act
    <2>4. CASE PlanError \/ Blocked \/ NoProgress
      <3>1. /\ pc' = "report"
            /\ state' \notin ConvergedStates /\ (errors' # {} \/ state' # "failed")
        BY <2>4 DEF PlanError, Blocked, NoProgress, Stop, ConvergedStates
      <3>2. Phase' = "closing"
        BY <3>1 DEF Phase
      <3> QED BY <2>1, <3>1, <3>2, VerdictGivenUp, GivesUp
    <2> QED BY <1>4, <2>2, <2>3, <2>4 DEF DecideRound
  <1>5. CASE CheckEnrollment \/ ScanBootstrapRoutes \/ StartRound
    <2>1. Phase = "acting" /\ Informed' = Informed
      BY <1>5, InformedKept DEF CheckEnrollment, ScanBootstrapRoutes, StartRound, Phase
    <2>2. CASE pc' = "report"
      <3>1. state' = "failed" /\ errors' # {}
        BY <1>5, <2>2 DEF CheckEnrollment, ScanBootstrapRoutes, StartRound, ScanErrors,
                          Stop
      <3>2. Phase' = "closing"
        BY <2>2 DEF Phase
      <3> QED BY <2>1, <3>1, <3>2, VerdictGivenUp, GivesUp DEF ConvergedStates
    <2>3. CASE pc' # "report"
      <3>1. pc' \in {"mdns_scan", "start", "bootstrap"} /\ UNCHANGED <<state, errors>>
        BY <1>5, <2>3 DEF CheckEnrollment, ScanBootstrapRoutes, StartRound, Stop
      <3>2. Phase' = "acting"
        BY <3>1 DEF Phase
      <3> QED BY <2>1, <3>1, <3>2, VerdictKept
    <2> QED BY <2>2, <2>3
  <1>6. CASE \/ InterruptRound \/ Regenerate \/ ScanServiceRoutes \/ ServiceActionsDone
             \/ StartPostObservation \/ SkipPostObservation \/ CompletePostObservation
             \/ \E a \in Actions : StartAction(a) \/ CompleteAction(a)
    <2>1. UNCHANGED <<state, errors, final>> /\ (acted => acted')
      <3>1. CASE Regenerate \/ CompletePostObservation
                    \/ \E a \in Actions : CompleteAction(a)
        BY <3>1 DEF Regenerate, CompletePostObservation, CompleteAction, Record
      <3>2. CASE \/ InterruptRound \/ ScanServiceRoutes \/ ServiceActionsDone
                 \/ StartPostObservation \/ SkipPostObservation
                 \/ \E a \in Actions : StartAction(a)
        BY <3>2 DEF InterruptRound, ScanServiceRoutes, ServiceActionsDone,
             StartPostObservation, SkipPostObservation, StartAction
      <3> QED BY <1>6, <3>1, <3>2
    <2>2. /\ pc \in {"bootstrap", "service_scan", "service", "observe", "outcome"}
          /\ pc' \in {"bootstrap", "service_scan", "service", "observe", "outcome"}
      BY <1>6 DEF InterruptRound, Regenerate, ScanServiceRoutes, ServiceActionsDone,
           StartPostObservation, SkipPostObservation, CompletePostObservation,
           StartAction, CompleteAction, EndRound
    <2>3. Phase = "acting" /\ Phase' = "acting"
      BY <2>2 DEF Phase
    <2>4. (Informed' => Informed) /\ Informed' \in BOOLEAN
      BY <2>1 DEF Informed
    <2> QED BY <2>1, <2>3, <2>4, VerdictKept DEF Contract!Next, Contract!Act
  <1>7. CASE RoundOutcome
    <2>1. Phase = "acting" /\ Informed' = Informed
      BY <1>7, InformedKept DEF RoundOutcome, Phase
    <2>2. CASE pc' = "round"
      <3>1. round' = round + 1 /\ UNCHANGED <<state, errors>>
        BY <1>7, <2>2 DEF RoundOutcome, Stop
      <3>2. Phase' = "acting"
        BY <1>0, <2>2, <3>1 DEF Phase
      <3> QED BY <2>1, <3>1, <3>2, VerdictKept
    <2>3. CASE pc' # "round"
      <3>1. pc' \in {"refresh", "report"} /\ state' = "failed" /\ errors' # {}
        BY <1>7, <2>3 DEF RoundOutcome, Stop
      <3>2. Phase' = "closing"
        BY <3>1 DEF Phase
      <3> QED BY <2>1, <3>1, <3>2, VerdictGivenUp, GivesUp DEF ConvergedStates
    <2> QED BY <2>2, <2>3
  <1>8. CASE RefreshFinalDrift
    <2>1. Phase = "closing" /\ Phase' = "closing" /\ UNCHANGED <<state, errors>>
      BY <1>8 DEF RefreshFinalDrift, Phase
    <2>2. Verdict = "not_clear"
      BY <1>8 DEF RefreshFinalDrift, FreshInv, Verdict, ConvergedStates
    <2>3. Informed' \in BOOLEAN
      BY DEF Informed
    <2> QED BY <2>1, <2>2, <2>3, VerdictKept DEF Contract!Next, Contract!Review
  <1>9. CASE Report
    <2>1. Phase = "closing" /\ Phase' = "over" /\ Informed' = Informed
      BY <1>9, InformedKept DEF Report, Phase
    <2>2. /\ state' = state
          /\ errors' = errors \/ (errors # {} /\ errors' # {})
      BY <1>9 DEF Report, FreshInv
    <2>3. Verdict' = Verdict
      BY <2>2 DEF Verdict
    <2> QED BY <2>1, <2>3 DEF Contract!Next, Contract!Close
  <1>10. CASE Environment \/ Over \/ UNCHANGED vars
    <2>1. UNCHANGED <<state, errors, final, acted, round>>
      BY <1>10 DEF Environment, Interrupt, Crash, EnrollHost, Disturb, Over
    <2>2. Verdict' = Verdict /\ Informed' = Informed
      BY <2>1, VerdictKept, InformedKept
    <2>3. CASE pc' = pc
      BY <2>1, <2>2, <2>3 DEF Phase
    <2>4. CASE pc' # pc
      <3>1. pc' = "crashed" /\ pc \notin {"finished", "crashed"}
        BY <1>10, <2>4 DEF Environment, Interrupt, Crash, EnrollHost, Disturb, Over, Alive
      <3>2. Phase' = "over" /\ Phase # "over"
        BY <3>1 DEF Phase
      <3> QED BY <2>2, <3>2 DEF Contract!Next, Contract!Lost
    <2> QED BY <2>3, <2>4
  <1> QED BY <1>1, <1>2, <1>3, <1>4, <1>5, <1>6, <1>7, <1>8, <1>9, <1>10 DEF Next, Step

\* A run keeps its contract: it calls the cluster clear only on a look nothing
\* it did has outdated (executor.py:216-461 as a whole).
THEOREM ContractKept == Spec => KeepsContract
<1>1. Init => Contract!Init
  BY DEF Init, Contract!Init, Phase, Informed, Verdict, ConvergedStates
<1>2. InductiveInv => FreshInv
  BY DEF InductiveInv
<1> QED BY <1>1, <1>2, ContractStep, TypeCorrect, Inductive, PTL
        DEF Spec, KeepsContract, Contract!Spec
==============================================================================
