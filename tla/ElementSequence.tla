-------------------------- MODULE ElementSequence --------------------------
(***************************************************************************)
(* What OAG::vector and util::ForwardList promise: a row of elements that  *)
(* grows and shrinks at its end (the front of the list is the end of the   *)
(* row).  No buffers, capacities, nodes or links.                          *)
(***************************************************************************)
EXTENDS Naturals

CONSTANTS
  Element,  \* what a client may store
  Filler,   \* the elements that resize may append
  MaxCount  \* bound: elements in the row

VARIABLES
  count,    \* how many there are
  item      \* [0 .. count - 1 -> Element]

rowVars == <<count, item>>

Positions == 0..(count - 1)

RowInit == count = 0 /\ item = [i \in {} |-> 0]

Push(e) ==
  /\ count' = count + 1
  /\ item' = [i \in 0..count |-> IF i < count THEN item[i] ELSE e]

\* The elements from n on are given up: pop (n = count - 1), clear (n = 0) and
\* a resize to fewer.
Truncate(n) ==
  /\ count' = n
  /\ item' = [i \in 0..(n - 1) |-> item[i]]

\* A resize to more.
Extend(n) ==
  /\ count' = n
  /\ \E f \in Filler :
       item' = [i \in 0..(n - 1) |-> IF i < count THEN item[i] ELSE f]

RowNext ==
  \/ \E e \in Element : Push(e)
  \/ \E n \in 0..MaxCount : n < count /\ Truncate(n)
  \/ \E n \in 0..MaxCount : n > count /\ Extend(n)

RowSpec == RowInit /\ [][RowNext]_rowVars
=============================================================================
