---------------------------- MODULE ForwardList ----------------------------
(***************************************************************************)
(* util::ForwardList (Utilities/ForwardList.hpp): a linked list whose      *)
(* nodes come from a Heap and, once popped, go to a list of spare nodes.   *)
(*                                                                         *)
(* A list has a heap of its own or is given one, which other lists have    *)
(* used before it.  Neither constructor sets _front and _spare: they are   *)
(* whatever the memory of the object held, zero or `Stray`, an address no  *)
(* node has.  What a call does with a stray pointer is undefined and not   *)
(* followed; empty() is false of one.  Values are plain data, as in the    *)
(* one list of the repository (of uint64_t): pop_front and the destructor  *)
(* destroy no value, and push_front assigns to one that was never built.   *)
(***************************************************************************)
EXTENDS Naturals, FiniteSets, SharedConstants

CONSTANTS
  ListNode,  \* the nodes the heap can provide: the bound on them
  Datum,     \* the values a client pushes
  Stray      \* an undefined pointer

\* Null and Stray are no nodes.
ASSUME ListConstants ==
  /\ IsFiniteSet(ListNode) /\ Null \notin ListNode /\ Stray \notin ListNode /\ Null # Stray

VARIABLES
  front,       \* _front
  spare,       \* _spare
  next,        \* [Node -> its next]
  value,       \* [Node -> its value]
  heapOwner,   \* _is_heap_owner
  taken,       \* the nodes handed out by heaps that were not deleted or reset since
  leftBehind   \* those of earlier lists on the given heap

listVars == <<front, spare, next, value, heapOwner, taken, leftBehind>>

-----------------------------------------------------------------------------
\* The node k links behind n, null behind the end.
Behind(n) ==
  LET at[k \in Nat] == IF k = 0 THEN n
                       ELSE IF at[k - 1] \in ListNode THEN next[at[k - 1]] ELSE Null
  IN at

\* The nodes of the chain that begins at n.
Chain(n) == {Behind(n)[k] : k \in 0..Cardinality(ListNode)} \cap ListNode

Known == front # Stray /\ spare # Stray

empty == front = Null

\* mutant: the spare list is given up, not taken from.
TakenNodeForgetsSpare ==
  IF spare # Null THEN {[node |-> spare, spare |-> Null]}
  ELSE {[node |-> n, spare |-> Null] : n \in ListNode \ taken}

\* The node push_front and emplace_front use, and the spare nodes then left.
TakenNode ==
  IF spare # Null THEN {[node |-> spare, spare |-> next[spare]]}
  ELSE {[node |-> n, spare |-> Null] : n \in ListNode \ taken}

\* mutant: a node that is used again keeps its value.
PushFrontKeepsValue(v) ==
  /\ Known
  /\ \E t \in TakenNode :
       /\ spare' = t.spare
       /\ next' = [next EXCEPT ![t.node] = front]
       /\ value' = [value EXCEPT ![t.node] = IF t.node \in taken THEN @ ELSE v]
       /\ front' = t.node
       /\ taken' = taken \cup {t.node}
  /\ UNCHANGED <<heapOwner, leftBehind>>

\* push_front(const T &), and emplace_front, which constructs in place.
PushFront(v) ==
  /\ Known
  /\ \E t \in TakenNode :
       /\ spare' = t.spare
       /\ next' = [next EXCEPT ![t.node] = front]
       /\ value' = [value EXCEPT ![t.node] = v]
       /\ front' = t.node
       /\ taken' = taken \cup {t.node}
  /\ UNCHANGED <<heapOwner, leftBehind>>

PopFront ==
  /\ Known /\ ~empty
  /\ next' = [next EXCEPT ![front] = spare]
  /\ spare' = front
  /\ front' = next[front]
  /\ UNCHANGED <<value, heapOwner, taken, leftBehind>>

\* What the constructors leave in the pointers.
Unset == {Null, Stray}

\* ~ForwardList deletes a heap of its own, and with it every node; a given heap
\* keeps the nodes, until its client resets it.  Another list is constructed, on
\* a heap of its own or the given one.
ReconstructList ==
  /\ front' \in Unset /\ spare' \in Unset /\ heapOwner' \in BOOLEAN
  /\ taken' \in {IF heapOwner THEN leftBehind ELSE taken, {}}
  /\ leftBehind' = taken'
  /\ UNCHANGED <<next, value>>

ListInit ==
  /\ front \in Unset /\ spare \in Unset
  /\ next = [n \in ListNode |-> Stray]
  /\ value = [n \in ListNode |-> Raw]
  /\ heapOwner \in BOOLEAN
  /\ taken = {} /\ leftBehind = {}

ListNext ==
  \/ \E v \in Datum : PushFront(v)
  \/ PopFront
  \/ ReconstructList

ListSpec == ListInit /\ [][ListNext]_listVars

-----------------------------------------------------------------------------
(* Properties.                                                             *)

\* Every node the list took from its heap is on exactly one of the two chains:
\* none is lost until the heap is deleted or reset, none is both in use and spare,
\* and none is one that an earlier list left behind on the given heap.
NodesAccounted ==
  Known => /\ Chain(front) \cup Chain(spare) = taken \ leftBehind
           /\ Chain(front) \cap Chain(spare) = {}

\* The values from the oldest to the front, which is the end of the row.
Length == Cardinality(Chain(front))
Values == [i \in 0..(Length - 1) |-> value[Behind(front)[Length - 1 - i]]]

Stack == INSTANCE ElementSequence
         WITH Element <- Datum, Filler <- {}, MaxCount <- Cardinality(ListNode),
              count <- Length, item <- Values

\* A list whose memory was zero, as create() leaves it (TestingSupport.hpp:39), is
\* a stack: it begins without elements, push_front puts just its value on the row,
\* pop_front takes just the last one off, and empty() tells whether there is any;
\* nodes that are used again bring neither an old value nor an old link with them.
IsStack ==
  /\ Known => Stack!RowInit
  /\ [](Known => (empty <=> Length = 0))
  /\ [][/\ \A v \in Datum : PushFront(v) => Stack!Push(v)
        /\ PopFront => Stack!Truncate(Length - 1)
        /\ ReconstructList /\ Known' => Stack!Truncate(0)]_listVars
=============================================================================
