----------------------------- MODULE MCKVCluster -----------------------------
(* KVCluster with two homes and two spares: three failures take both homes    *)
(* down and bring one of them back in between, and three writes make siblings *)
(* of siblings.  A write is acknowledged by one node; reads ask two.          *)
EXTENDS KVCluster, TLC

CONSTANTS a, b, c, d

MCOrder == <<a, b, c, d>>
=============================================================================
