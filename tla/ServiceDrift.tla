---------------------------- MODULE ServiceDrift ----------------------------
(***************************************************************************)
(* Drift of services: each active placement against the service inventory   *)
(* of its node's device, the managed files and bindings observed with it,   *)
(* and the service seen where nothing places it (service_placement.py,      *)
(* binding_evaluation.py, service_evaluation.py, evaluation_snapshot.py).   *)
(*                                                                         *)
(* entries[v] of a device is Blank or [state, proof, file, bound]: the run  *)
(* state, whether every existence check passed, the managed file [status,   *)
(* path, content] and per binding name [config, endpoint, reach, age].      *)
(* want is the rendered content, or Blank when the render is blocked.       *)
(***************************************************************************)
EXTENDS Production

CONSTANTS ManagedProfile   \* profiles whose action manages a file

Old(age) == age \in {"aging", "stale"}

----------------------------------------------------------------------------
(* One placement.                                                           *)
\* Stopped is converged by absence; a manual placement by presence alone.
ProcessCodes(pl, entry) ==
  LET stopped == pl.run = "stopped" /\ pl.mode # "manual"
  IN  IF entry = Blank THEN (IF stopped THEN {} ELSE {"service_missing"})
      ELSE IF stopped
      THEN (IF entry.state = "running" THEN {"service_should_be_stopped"} ELSE {})
      ELSE IF entry.state = "missing" \/ ~entry.proof THEN {"service_missing"}
      ELSE IF entry.state \notin {"running", "present"} /\ pl.mode # "manual"
      THEN {"service_not_running"} ELSE {}

\* Mutant: a file that is there is taken for the right one.
ContentCodesPresent(entry, want) ==
  IF entry = Blank \/ entry.file = Blank THEN {"service_config_observation_missing"}
  ELSE IF entry.file.status = "missing" THEN {"service_config_missing"} ELSE {}

ContentCodes(entry, want) ==
  IF entry = Blank \/ entry.file = Blank THEN {"service_config_observation_missing"}
  ELSE IF entry.file.path # "current" THEN {"service_config_observation_mismatch"}
  ELSE CASE entry.file.status = "missing" -> {"service_config_missing"}
         [] entry.file.status = "unreadable" -> {"service_config_unreadable"}
         [] OTHER -> IF entry.file.content = want THEN {} ELSE {"service_config_mismatch"}

\* The five states of a binding; the first that applies.
BindingState(seen, bound, converged) ==
  IF seen = Blank \/ seen.config = "unreadable" \/ seen.age = "none" \/ Old(seen.age)
  THEN {"binding_unknown"}
  ELSE IF seen.config = "absent" THEN {"binding_unbound"}
  ELSE IF seen.endpoint # bound THEN {"binding_misbound"}
  ELSE IF ~seen.reach THEN {"binding_unreachable"}
  ELSE IF ~converged THEN {"binding_provider_not_converged"} ELSE {}

\* The content of a service is checked when an active placement of it manages a file
\* and there is a content to compare with.
ChecksContent(s, v, want) ==
  want # Blank /\ \E p \in Providers(s, v) : PlacedProfile[p] \in ManagedProfile

\* A binding whose resolution failed is not checked: it blocks its node's composition.
BindingChecks(s, p, converged) ==
  {[name |-> b.name, endpoint |-> BoundTo(s, b), converged |-> b.provider \in converged] :
     b \in ResolvedBindings(s, p)}

PlacementCodes(s, p, want, converged) ==
  LET v  == PlacedService[p]
      d  == Realized(s, PlacedNode[p])
      pl == s.placement[p]
      entry == s.device[d].entries[v]
      seen(b) == IF entry = Blank \/ b \notin DOMAIN entry.bound THEN Blank ELSE entry.bound[b]
      age == s.device[d].svcAge
  IN  IF d = NoDevice THEN {"service_observation_missing"}
      ELSE (IF age = "none" THEN {"service_observation_missing"}
            ELSE IF Old(age) THEN {"service_observation_stale"} ELSE {})
           \cup (IF OsOf(s.device[d].system) = "none" THEN {"service_observation_missing"} ELSE {})
           \cup ProcessCodes(pl, entry)
           \cup (IF pl.mode # "manual" /\ ChecksContent(s, v, want)
                 THEN ContentCodes(entry, want) ELSE {})
           \cup (IF pl.mode = "manual" THEN {}
                 ELSE UNION {BindingState(seen(c.name), c.endpoint, c.converged) :
                               c \in BindingChecks(s, p, converged)})

----------------------------------------------------------------------------
(* One service.                                                             *)
WrongNodes(s, v) ==
  {d \in Device : /\ s.device[d] # Blank /\ s.device[d].entries[v] # Blank
                  /\ s.device[d].entries[v].state = "running"
                  /\ d \notin {s.node[PlacedNode[p]].device : p \in Providers(s, v)}}

\* The provisional pass, with no binding checked, says which providers converged.
BindingGapCodes == {"binding_unknown", "binding_unbound", "binding_misbound",
                    "binding_unreachable", "binding_provider_not_converged"}
ProcessDrift(s, v, want) ==
  (UNION {PlacementCodes(s, p, want, Service) : p \in Providers(s, v)}) \ BindingGapCodes
ConvergedProviders(s, want) ==
  {v \in Service : Providers(s, v) # {} /\ ProcessDrift(s, v, want) = {} /\ WrongNodes(s, v) = {}}

SeverityOf(code) == IF code \in {"service_observation_missing", "service_config_observation_missing"}
                    THEN "unknown" ELSE "missing"

\* A gap of a placement says which; a gap of the service as a whole is at Blank.
Whole(holds, code, severity) ==
  {g \in {[code |-> code, severity |-> severity, at |-> Blank]} : holds}
ServiceGaps(s, v, want, converged) ==
  (UNION {{[code |-> c, severity |-> SeverityOf(c), at |-> p] :
             c \in PlacementCodes(s, p, want, converged)} : p \in Providers(s, v)})
  \cup Whole(s.service[v].lifecycle \in {"deprecated", "retired"},
             "service_lifecycle_inactive", "needs_review")
  \cup Whole(s.service[v].lifecycle = "", "missing_service_lifecycle", "unknown")
  \cup Whole(Providers(s, v) = {}, "service_has_no_active_placement", "needs_review")
  \cup Whole(WrongNodes(s, v) # {}, "service_observed_on_wrong_node", "conflict")
=============================================================================
