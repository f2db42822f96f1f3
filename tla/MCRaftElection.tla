--------------------------- MODULE MCRaftElection ---------------------------
(* RaftElection on three interchangeable nodes.                            *)
EXTENDS RaftElection, TLC

CONSTANTS n1, n2, n3, a, b

Symmetry == Permutations(Node)
=============================================================================
