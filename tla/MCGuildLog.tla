----------------------------- MODULE MCGuildLog -----------------------------
(* Constants for model checking GuildLog. *)
EXTENDS GuildLog, TLC

MCHomeDomain == [n \in Nodes |-> "east"]
MCPlacement == [g \in Groups |-> {<<n, "east">> : n \in Genesis}]
MCPolicies == {Majority}
MCKeySymmetry == Permutations(KeyBytes)   \* key bytes are only compared for equality

=============================================================================
