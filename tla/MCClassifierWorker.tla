-------------------------- MODULE MCClassifierWorker --------------------------
(* The worker on small sets of schemas and servers.                        *)
EXTENDS ClassifierWorker

(* Two servers are alike, and so are schemas: sound where no liveness is   *)
(* checked.                                                                *)
Symmetry == Permutations(Keys) \cup Permutations(Servers)
=============================================================================
