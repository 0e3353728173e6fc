----------------------------- MODULE MCGateway -----------------------------
(* Two calls and two policies, of which one admits both calls with a small  *)
(* output limit and the other one call with a large one.  The tools have    *)
(* every collaborator, or none, as McpServer builds them, or one has them.  *)
EXTENDS Gateway

CONSTANTS r1, r2

MCRequests == {r1, r2}
MCPolicies == {[admits |-> {r1, r2}, max_output_bytes |-> 1],
               [admits |-> {r1}, max_output_bytes |-> 2]}

Attached(some) == [r \in MCRequests |-> IF r \in some THEN Collaborators ELSE {}]

MCWirings == {Attached({}), Attached({r1}), Attached(MCRequests)}
MCAllAttached == {Attached(MCRequests)}
=============================================================================
