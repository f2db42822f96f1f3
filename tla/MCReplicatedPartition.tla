------------------------ MODULE MCReplicatedPartition ------------------------
(* ReplicatedPartition with three replicas.                                *)
EXTENDS ReplicatedPartition

CONSTANTS n1, n2, n3

ThreeReplicas == <<n1, n2, n3>>
=============================================================================
