--------------------------- MODULE MCPluginConfig ---------------------------
(* Values for the constants of PluginConfig.                                  *)
EXTENDS PluginConfig

TwoWorkers == {"w1", "w2"}
OneFilter == {"f1"}
TwoFilters == {"f1", "f2"}
TwoRoutes == {"vhost", "route"}

\* A virtual host, and a route of it with a configuration of its own.
Nested == { [filter |-> "f1", chain |-> << "vhost" >>],
            [filter |-> "f1", chain |-> << "vhost", "route" >>] }

\* Two filter chains that use the same virtual host.
Shared == { [filter |-> f, chain |-> << "vhost" >>] : f \in TwoFilters }
=============================================================================
