--------------------------- MODULE MCGuildHistory ---------------------------
(* Constants for model checking GuildHistory. *)
EXTENDS GuildHistory

MCHomeDomain == [n \in Nodes |-> IF n = 1 THEN "east" ELSE "west"]
MCPlacement == [g \in Groups |-> {<<1, "east">>, <<2, "west">>}]
MCPolicies == {Majority, Threshold(1), Threshold(2)}

=============================================================================
