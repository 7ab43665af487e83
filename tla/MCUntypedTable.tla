--------------------------- MODULE MCUntypedTable ---------------------------
(***************************************************************************)
(* UntypedTable on a small instance: two buckets at first, one node per    *)
(* bucket before the buckets double, and keys that share buckets before    *)
(* and after growth.                                                       *)
(***************************************************************************)
EXTENDS UntypedTable, TLC

CONSTANTS a, b, c, d, alias

\* a and c share their bucket out of two and out of four, a and b out of two
\* only; d hashes as a does; alias is another pointer to what a points to.
Hashes == (a :> 0) @@ (b :> 2) @@ (c :> 4) @@ (d :> 0) @@ (alias :> 0)

MCHash == [k \in Key |-> Hashes[k]]

\* key_equal looks behind the pointer.
MCContent == [k \in Key |-> IF k = alias THEN a ELSE k]

\* pointer_compare does not.
MCPointers == [k \in Key |-> k]

\* The nodes are interchangeable: the heap hands out any of them.
NodeSymmetry == Permutations(Node)
=============================================================================
