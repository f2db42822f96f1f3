----------------------------- MODULE MCMiniKafka -----------------------------
(* MiniKafka with three partitions for two members, one of whom gets two.  *)
(* The records of k1 go to the last partition, unkeyed ones to all in turn. *)
EXTENDS MiniKafka, TLC

CONSTANTS m1, m2, k1

MCMembers == <<m1, m2>>
MCPartitionOf == k1 :> 2
=============================================================================
