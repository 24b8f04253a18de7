---------------------------- MODULE MCVaAllocator ---------------------------
(* TLC instance: handles and impls are interchangeable. *)
EXTENDS VaAllocator, TLC

Symmetry == Permutations(Handles) \cup Permutations(Impls)
=============================================================================
