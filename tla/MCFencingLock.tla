----------------------------- MODULE MCFencingLock -----------------------------
(* FencingLock with two clients and two resources: four grants let a lease of *)
(* each resource be taken over while its old holder still writes.  The model  *)
(* has no symmetry reduction because the resources' tokens are compared.      *)
EXTENDS FencingLock
=============================================================================
