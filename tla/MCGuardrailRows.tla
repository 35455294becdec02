--------------------------- MODULE MCGuardrailRows ---------------------------
(* Small instance of GuardrailRows: two items of one ASP rule, one of a     *)
(* request rule, and room for a single open row.                            *)
EXTENDS GuardrailRows, TLC

CONSTANTS port1, port2, host, servicePorts, outOfSpec

MCRuleOf == [i \in Items |-> IF i = host THEN outOfSpec ELSE servicePorts]

MCPolicies == {{}, {port1, host}, {port2, host}}

MCSymmetry == Permutations({port1, port2})
=============================================================================
