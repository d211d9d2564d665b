--------------------------- MODULE MCReconcileSite ---------------------------
(* A second cluster for TLC, with compute and dependent service actions.      *)
EXTENDS ReconcileInvariant

\* A cluster with a compute platform: a guest to create on pve, an address to
\* reserve, and a scrape job on web whose profile depends on the exporter's.
SiteReconciler == [observe |-> "observe_node", create |-> "create_compute_instance",
                   ipam |-> "reconcile_ipam", exporter |-> "service_profile",
                   scrape |-> "service_profile"]
SiteHosts == [observe |-> {"web"}, create |-> {"pve"}, ipam |-> {},
              exporter |-> {"web"}, scrape |-> {"web"}]
SiteClaims == [observe |-> {}, create |-> {"missing"}, ipam |-> {"address"},
               exporter |-> {"service"}, scrape |-> {"service"}]
SiteReveals == [observe |-> {}, create |-> {"address"}, ipam |-> {},
                exporter |-> {}, scrape |-> {}]
SiteDeps == [observe |-> {}, create |-> {}, ipam |-> {}, exporter |-> {},
             scrape |-> {"exporter"}]

\* An address lies below the guest that needs it.  The two rounds of the run are too few
\* for this cluster to be Layered.
SiteDepth == [missing |-> 0, address |-> 1, service |-> 0, global |-> 0, uncoded |-> 0]
==============================================================================
