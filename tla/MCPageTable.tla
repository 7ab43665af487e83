---------------------------- MODULE MCPageTable ----------------------------
(***************************************************************************)
(* PageTable with pages of 4 bytes, 2 to a map, and 1 map in the first     *)
(* region: 8 bytes, then 32, then 128, and there the data space ends.      *)
(***************************************************************************)
EXTENDS PageTable
=============================================================================
