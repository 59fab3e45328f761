------------------------- MODULE MC_NetworkComponent -------------------------
(***************************************************************************)
(* Instance of NetworkComponent for TLC: small timeouts and delays, one    *)
(* policy of each strategy, a configuration with and without redirects.    *)
(***************************************************************************)
EXTENDS NetworkComponent

Exponential == [max_retries |-> 2, initial_delay |-> 1, max_delay |-> 2, strategy |-> "Exponential"]
Fixed == [max_retries |-> 1, initial_delay |-> 2, max_delay |-> 1, strategy |-> "Fixed"]
NoBackoff == [max_retries |-> 2, initial_delay |-> 1, max_delay |-> 1, strategy |-> "None"]

MCPolicies == {Exponential, Fixed, NoBackoff}

MCConfigs == {[connect_timeout |-> 1, follow_redirects |-> f] : f \in BOOLEAN}
=============================================================================
