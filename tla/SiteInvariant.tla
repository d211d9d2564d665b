---------------------------- MODULE SiteInvariant -----------------------------
(***************************************************************************)
(* What the rounds of SiteOps may take for granted: what a plan accounts    *)
(* for, and what a round has made of the machines.  Also the sites for      *)
(* which the properties of rounds are theorems.                             *)
(***************************************************************************)
EXTENDS SiteOps

\* The code asks for none of these, and each is needed (README, section 4).
OneProfile ==      \* all placements of a service have one profile
  \A p, q \in Placement : PlacedService[p] = PlacedService[q] => PlacedProfile[p] = PlacedProfile[q]
OnePerNode ==      \* a node has one placement of a service
  \A p, q \in Placement : PlacedService[p] = PlacedService[q] /\ PlacedNode[p] = PlacedNode[q] => p = q
OwnVariables ==    \* bindings of a node that set one variable mean one provider
  \A p, q \in Placement : \A b \in Bindings[p], c \in Bindings[q] :
    PlacedNode[p] = PlacedNode[q] /\ VariableOf(p, b) = VariableOf(q, c) => b.provider = c.provider

----------------------------------------------------------------------------
(* What a round r accounts for, by the placements of snapshot t.            *)
Erring(r, n) == \E c \in BlockingCodes : [kind |-> "node", target |-> n, code |-> c] \in r.fingerprint
Excused(r, n) == r.scope \in {Blank, n} => n \in r.held \/ Erring(r, n)
Wanted(r, p) == \E c \in ServiceCodes :
                  [kind |-> "service", target |-> PlacedService[p], code |-> c] \in r.fingerprint

\* A service error some playbook could resolve has its action in the plan, unless all the
\* hosts it is managed on are blocked: by errors of their own, or held by warnings.
Accounted(t, r) ==
  \A p \in Placement : Actuated(PlacedProfile[p]) /\ Wanted(r, p) =>
    \/ \E a \in r.plan : /\ a.rec = Actuator(PlacedProfile[p])
                         /\ a.target = PlacedService[p] /\ a.profile = PlacedProfile[p]
    \/ \A q \in Managed(t, PlacedService[p], PlacedProfile[p]) : Excused(r, PlacedNode[q])

\* A clean round, and the one the next may be compared with, account for what the
\* placements of now would have them do, although the snapshot they were planned from is
\* gone (planner.py:311-345, executor.py:292-303).
RoundsAccounted ==
  /\ round.pc # "idle" /\ round.clean => Accounted(s, round)
  /\ round.pc = "idle" /\ round.prev # Blank => Accounted(s, round.prev)

----------------------------------------------------------------------------
(* What a round has made of the machines.                                   *)
Late(a) == a.rec \in {"dnsmasq_config", "service_profile"}
Serves(a, p) == /\ Late(a) /\ a.target = PlacedService[p] /\ a.profile = PlacedProfile[p]
                /\ PlacedNode[p] \in a.hosts
CanDeploy(a) == a.rec = "dnsmasq_config" => Render(s) # Blank /\ a.hosts \subseteq Included(s)

\* What a service action of a clean round was for runs as declared once it is done, and
\* stays so whatever the other actions do: its state, the providers its bindings name and
\* the rendered content (executor.py:568-640, service_dependencies.py:80).
ActuatedAsDeclared ==
  round.pc = "service" /\ round.clean =>
    \A a \in round.plan \ round.todo : \A p \in Ours :
      Serves(a, p) /\ CanDeploy(a) => AsDeclared(p)

\* A clean round acts on hosts that still manage what it is for, and in its service phase
\* on the inventory of what Nautobot still holds.
CleanRound ==
  round.pc # "idle" /\ round.clean =>
    /\ \A a \in round.plan : Late(a) =>
         /\ a.rec = Actuator(a.profile)
         /\ a.hosts \subseteq {PlacedNode[q] : q \in Managed(s, a.target, a.profile)}
    /\ round.pc = "bootstrap" => \A a \in round.plan \ round.todo : ~Late(a)
    /\ round.pc = "service" => inventory = Inventory(s)
=============================================================================
