---------------------------- MODULE MCAspCustody ----------------------------
(* Small instance of AspCustody.  Two alike v1 bundles of one sandbox carry *)
(* the container's deployment identity; the v2 bundle gives the sandbox its *)
(* history; a v1 bundle without a deployment reuses the v2 bundle's id.     *)
EXTENDS AspCustody, TLC

CONSTANTS b1, b2, b3, b4, d1, k0, k1, padded, s1, one, two

MCContent ==
    LET Says(id, version, deployment, agents) ==
          [id |-> id, version |-> version, sandbox |-> s1,
           deployment |-> deployment, agents |-> agents]
    IN [b \in Bundles |->
          CASE b = b3 -> Says(b3, 2, NoDeployment, {k1})
            [] b = b4 -> Says(b3, 1, NoDeployment, {})
            [] OTHER  -> Says(b, 1, d1, {})]

MCRetentions == {[keep |-> 1, age |-> 1], [keep |-> 3, age |-> 2]}

MCSymmetry == Permutations({b1, b2}) \cup Permutations(Labels)
=============================================================================
