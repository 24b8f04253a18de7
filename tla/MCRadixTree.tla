---------------------------- MODULE MCRadixTree ----------------------------
(* TLC instance of RadixTree.  Nothing tells the nodes apart, and all that  *)
(* is checked is safety, so symmetry is sound.                              *)
EXTENDS RadixTree, TLC

Symmetry == Permutations(Nodes)
=============================================================================
