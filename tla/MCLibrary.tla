------------------------------ MODULE MCLibrary ------------------------------
(***************************************************************************)
(* The smaller components, one at a time: `which` says which of them a     *)
(* behaviour is about, and the others rest in one of their initial states. *)
(***************************************************************************)
EXTENDS BlockingIO, UtilHeap, Vector, ForwardList, OwnerPtr, TupleValue,
        GraphContext, ThreadKeys, TLC

CONSTANT Component   \* the components a run is about

VARIABLE which

-----------------------------------------------------------------------------
(* Values of constants that a cfg has no notation for.                     *)

\* BlockingIO: a connection of four messages, one of them without payload.
Messages == <<0, 3, 5, 8, 9, 12, 12, 15, 19>>

\* UtilHeap: given buffers that end before their first word boundary.
ShortStart == {[skew |-> 0, capacity |-> 0], [skew |-> 1, capacity |-> 0],
               [skew |-> 1, capacity |-> 1], [skew |-> 1, capacity |-> 6]}

\* Vector: malloc_good_size rounds up to an even number of elements.
EvenSize == [n \in 0..8 |-> 2 * ((n + 1) \div 2)]

\* TupleValue: no elements, a pair with padding, a triple whose second element
\* lies at its index, and a type that is no tuple.
Layouts == {
  [tuple |-> TRUE, type |-> <<>>, offset |-> <<>>],
  [tuple |-> TRUE, type |-> 0 :> "A" @@ 1 :> "B", offset |-> 0 :> 0 @@ 1 :> 2],
  [tuple |-> TRUE, type |-> 0 :> "B" @@ 1 :> "A" @@ 2 :> "A",
   offset |-> 0 :> 0 @@ 1 :> 1 @@ 2 :> 3],
  [tuple |-> FALSE, type |-> 0 :> "A", offset |-> 0 :> 0]}

Bytes == 0..3
Classes == "o1" :> "A" @@ "o2" :> "A" @@ "o3" :> "B"
SlotTypes == "s" :> "A" @@ "t" :> "B"

-----------------------------------------------------------------------------
\* A component that a behaviour is not about rests.
About(c) == which = c

LibInit ==
  /\ which \in Component
  /\ IOInit
  /\ HeapInit /\ (~About("heap") => increment = 10 /\ limit[Given] = 0)
  /\ VectorInit /\ (~About("vector") => kind = "heap")
  /\ ListInit /\ (~About("list") => front = Null /\ spare = Null /\ heapOwner)
  /\ OwnerInit
  /\ TupleInit /\ (~About("tuple") => ~layout.tuple)
  /\ GraphInit
  /\ KeyInit /\ (~About("keys") => ~foreignKey)

LibNext ==
  /\ UNCHANGED which
  /\ IF About("io")     THEN IONext     ELSE UNCHANGED ioVars
  /\ IF About("heap")   THEN HeapNext   ELSE UNCHANGED heapVars
  /\ IF About("vector") THEN VectorNext ELSE UNCHANGED vectorVars
  /\ IF About("list")   THEN ListNext   ELSE UNCHANGED listVars
  /\ IF About("owner")  THEN OwnerNext  ELSE UNCHANGED ownerVars
  /\ IF About("tuple")  THEN TupleNext  ELSE UNCHANGED tupleVars
  /\ IF About("graph")  THEN GraphNext  ELSE UNCHANGED graphVars
  /\ IF About("keys")   THEN KeyNext    ELSE UNCHANGED keyVars

libVars == <<which, ioVars, heapVars, vectorVars, listVars, ownerVars, tupleVars,
             graphVars, keyVars>>

\* The fairness of BlockingIO's IOFairSpec.
LibSpec ==
  /\ LibInit /\ [][LibNext]_libVars
  /\ WF_ioVars(Transfer \/ TransferNothing \/ Fail) /\ WF_ioVars(PeerHangsUp)

-----------------------------------------------------------------------------
ASSUME VectorConstants /\ GraphConstants /\ KeyConstants
=============================================================================
