--------------------------- MODULE MCRemediationBatch ---------------------------
(* Instances of RemediationBatch: two pools and a node remediation of each; and *)
(* one with a foreign remediation, one of no pool and an invalid name besides.  *)
EXTENDS RemediationBatch

MCPools    == {1, 2}
MCNames    == {1, 2}
MCPoolOf   == [r \in MCNames |-> {r}]
MCRequests == {{1, 2}, {2}}

\* Remediation 1 targets pool 1, 2 belongs to another baseline's suite and
\* targets pool 2, 3 targets no pool; 4 is not a valid name.
MCMixedNames    == 1 .. 4
MCMixedPoolOf   == [r \in MCMixedNames |-> IF r \in {1, 2} THEN {r} ELSE {}]
MCMixedRequests == {{1, 2}, {2}, {3}, {1, 4}, {1, 2, 3}, {}}
=============================================================================
