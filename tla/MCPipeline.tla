----------------------------- MODULE MCPipeline -----------------------------
(***************************************************************************)
(* Instances of Pipeline for TLC: the retry budgets of config.toml, or one *)
(* retry for the relay too, which the configuration allows.                *)
(***************************************************************************)
EXTENDS Pipeline

ShippedRetries == [p \in Phases |-> IF p = "review" THEN 0 ELSE 1]
GenerousRetries == [p \in Phases |-> IF p = "plan" THEN 2 ELSE 1]

=============================================================================
