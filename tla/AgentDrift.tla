----------------------------- MODULE AgentDrift ------------------------------
(***************************************************************************)
(* Drift of declared workspaces and agents (workspace_evaluation.py,        *)
(* agent_evaluation.py and their comparators).                              *)
(*                                                                         *)
(* spaces[w] of a device is Blank or [age, present, git, url, alive]:       *)
(* present and alive are TRUE, FALSE or Blank (not reported); url Blank is  *)
(* a checkout with no remote.                                               *)
(***************************************************************************)
EXTENDS Site

Overdue(age) == age \in {"aging", "stale"}

\* The workspace as its node's device last reported it, or Blank.
SpaceSeen(s, w) == LET d == Realized(s, SpaceNode[w])
                   IN  IF d = NoDevice THEN Blank ELSE s.device[d].spaces[w]

\* An absent workspace nobody observed is as it should be.
SpaceCodes(s, w) ==
  LET seen == SpaceSeen(s, w)
      wanted == s.workspace[w].presence = "present"
      age == IF seen.age = "none" THEN {"workspace_observation_missing"}
             ELSE IF Overdue(seen.age) THEN {"workspace_observation_stale"} ELSE {}
      verdict ==
        CASE seen.present = Blank -> {"workspace_observation_missing"}
          [] seen.present = FALSE -> IF wanted THEN {"workspace_missing"} ELSE {}
          [] OTHER -> IF ~wanted THEN {"workspace_retired_present"}
                      ELSE IF ~seen.git \/ seen.url = Blank THEN {"workspace_identity_unknown"}
                      ELSE IF seen.url # SpaceUrl[w] THEN {"workspace_identity_mismatch"} ELSE {}
  IN  IF seen = Blank THEN (IF wanted THEN {"workspace_observation_missing"} ELSE {})
      ELSE age \cup verdict

AgentCodes(s, a) ==
  LET seen == s.seen[a]
      account == IF ~s.agent[a].account THEN {"agent_zulip_identity_undeclared"}
                 ELSE IF ~seen.present THEN {"agent_zulip_account_missing"}
                 ELSE IF ~seen.active THEN {"agent_zulip_account_deactivated"} ELSE {}
      channels == {c \in {"agent_zulip_channel_unsubscribed"} :
                     seen.present /\ s.agent[a].channels \ seen.channels # {}}
  IN  IF s.agent[a].lifecycle # "active" THEN {}
      ELSE IF seen = Blank THEN {"agent_registration_unobserved"} ELSE account \cup channels

\* What the agent's status file said when its workspace was last collected: polling or
\* stale by the node's own clock, else unobserved.  It informs and is never an error.
Liveness(s, a) ==
  LET w == AgentSpace[a]
  IN  IF w = Blank \/ SpaceSeen(s, w) = Blank \/ SpaceSeen(s, w).alive = Blank THEN "unobserved"
      ELSE IF SpaceSeen(s, w).alive THEN "polling" ELSE "stale"

AgentErrors == {"workspace_missing", "workspace_identity_mismatch", "agent_zulip_account_missing",
  "agent_zulip_account_deactivated", "agent_zulip_channel_unsubscribed"}
=============================================================================
