----------------------------- MODULE MCUtilHeap -----------------------------
(***************************************************************************)
(* UtilHeap with words of 2 bytes, nodes of 4 and a minimum increment of 8 *)
(* (in place of 8, 16 and 0x400).                                          *)
(***************************************************************************)
EXTENDS UtilHeap, TLC

\* No buffer, as after the default construction, and the buffer of an
\* InlineHeap, or one that begins in the middle of a word.
MCStart == {[skew |-> 0, capacity |-> 0], [skew |-> 0, capacity |-> 6],
            [skew |-> 1, capacity |-> 6]}

BufferSymmetry == Permutations(Buffer)

ASSUME RangeSuffices
=============================================================================
