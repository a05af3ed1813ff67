---------------------------- MODULE MCStoreCache ----------------------------
(***************************************************************************)
(* StoreCache on small instances.  The processes are interchangeable.      *)
(***************************************************************************)
EXTENDS StoreCache, TLC

Symmetry == Permutations(Instances)

=============================================================================
