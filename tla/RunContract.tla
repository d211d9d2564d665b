----------------------------- MODULE RunContract -----------------------------
(***************************************************************************)
(* What a reconcile run promises whoever reads its result, without saying   *)
(* how it works: it looks at the cluster, acts on what it saw, and looks    *)
(* again; it may call the cluster clear only on a look that nothing it did  *)
(* has outdated, and only straight from looking; any other end is always    *)
(* allowed, and after a bad end it may look once more for the record.       *)
(***************************************************************************)
VARIABLES phase,    \* "waiting", "looking", "acting", "closing" or "over"
          informed, \* the last look postdates everything the run did
          verdict   \* "none", "clear" or "not_clear"

contract == <<phase, informed, verdict>>

Init == phase = "waiting" /\ informed = FALSE /\ verdict = "none"

\* The run ends before it has looked: refused, locked out, or only planning.
Refuse == /\ phase = "waiting"
          /\ phase' = "over" /\ verdict' = "not_clear"
          /\ UNCHANGED informed

Look == /\ phase \in {"waiting", "acting"}
        /\ phase' = "looking" /\ informed' = TRUE
        /\ UNCHANGED verdict

\* Acting: whatever is done may outdate what is known, and never renews it.
Act == /\ phase \in {"looking", "acting"}
       /\ phase' = "acting" /\ informed' => informed
       /\ informed' \in BOOLEAN
       /\ UNCHANGED verdict

Clear == /\ phase = "looking" /\ informed
         /\ phase' = "closing" /\ verdict' = "clear"
         /\ UNCHANGED informed

GiveUp == /\ phase \in {"waiting", "looking", "acting"}
          /\ phase' = "closing" /\ verdict' = "not_clear"
          /\ UNCHANGED informed

\* The last look of a run that failed; it may find nothing out.
Review == /\ phase = "closing" /\ verdict = "not_clear"
          /\ informed' \in BOOLEAN
          /\ UNCHANGED <<phase, verdict>>

Close == /\ phase = "closing"
         /\ phase' = "over"
         /\ UNCHANGED <<informed, verdict>>

\* The process dies: the verdict is whatever had been reached.
Lost == /\ phase # "over"
        /\ phase' = "over"
        /\ UNCHANGED <<informed, verdict>>

Next == Refuse \/ Look \/ Act \/ Clear \/ GiveUp \/ Review \/ Close \/ Lost

Spec == Init /\ [][Next]_contract
==============================================================================
