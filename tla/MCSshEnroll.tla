----------------------------- MODULE MCSshEnroll -----------------------------
(* Requests and symmetry for checking SshEnroll. *)
EXTENDS SshEnroll, TLC

\* --yes with evidence of one key, with and without --replace, for every node;
\* and a dry plan for the nodes on an odd port.
MCRequests ==
    {r \in Request : r.apply /\ Cardinality(r.evidence) = 1}
        \cup {r \in Request : /\ ~r.apply /\ ~r.replace
                              /\ r.evidence = Keys /\ r.node \in OddPort}

Symmetry == Permutations(Keys) \cup Permutations(Enrollers)
==============================================================================
