---------------------------- MODULE MCWorkloads ----------------------------
(* Small instances of Workloads.                                           *)
EXTENDS Workloads

\* One, and more than the controllers grant and emitWorkloadEvents has memory for.
MCReplicas == {1, 2}

\* Negative, none, one, and more than the controllers grant.
MCManyReplicas == {-1, 0, 1, 3}
=============================================================================
