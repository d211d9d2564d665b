----------------------------- MODULE MCReconcile -----------------------------
(* A small cluster for TLC: the plan functions of Reconcile.tla's CONSTANTS.   *)
EXTENDS ReconcileInvariant

\* The cluster of the core run: an unlinked node, an evidence gap on web whose
\* closing may uncover a service drift, a manual finding, and a diff the planner
\* drops.  The service action depends on nothing else.
CoreReconciler == [link |-> "link_actual_node", observe |-> "observe_node",
                   serve |-> "dnsmasq_config"]
CoreHosts == [link |-> {}, observe |-> {"web"}, serve |-> {"web"}]
CoreClaims == [link |-> {"unlinked"}, observe |-> {"stale"},
               serve |-> {"service"}]
CoreReveals == [link |-> {"stale"}, observe |-> {"service"}, serve |-> {}]
CoreDeps == [link |-> {}, observe |-> {}, serve |-> {}]

\* The layers of the core cluster: a link uncovers stale evidence, fresh evidence a service.
CoreDepth == [unlinked |-> 0, stale |-> 1, service |-> 2, manual |-> 0, dropped |-> 0]

\* The theorems about healthy runs apply to the core cluster.
ASSUME CoreIsLayered == Layered
==============================================================================
