------------------------- MODULE MCCurrentSubgraph -------------------------
(***************************************************************************)
(* CurrentSubgraph with interchangeable threads and subgraphs.             *)
(***************************************************************************)
EXTENDS CurrentSubgraph, TLC

ThreadSymmetry == Permutations(Thread) \cup Permutations(Subgraph)
=============================================================================
