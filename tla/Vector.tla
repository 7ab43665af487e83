------------------------------- MODULE Vector -------------------------------
(***************************************************************************)
(* OAG::vector (Cxx/Vector/vector.tpp), its three templates: with a stack  *)
(* buffer ("stack"), without one ("heap"), and for unique_ptr ("unique").  *)
(*                                                                         *)
(* An element is a handle on a counted object, so that constructing and    *)
(* destroying elements shows: `live` counts the handles the vector holds.  *)
(* The first two templates move elements bit by bit (memcpy, realloc), the *)
(* third with their move constructor.  A failing malloc or realloc ends    *)
(* the process in the first two; the third returns and goes on.            *)
(*                                                                         *)
(* Sizes stay below the range of size_type, and what _stack_buffer holds   *)
(* beyond the vector's elements does not matter.  Once a call has left     *)
(* what the language defines, `fault` says so and nothing is followed.     *)
(***************************************************************************)
EXTENDS Integers, FiniteSets, SharedConstants

CONSTANTS
  Value,      \* the counted objects
  Kind,       \* the templates under test
  StackSize,  \* _stack_size of the template "stack"
  GoodSize,   \* [n -> the elements malloc_good_size makes of n]
  MaxCount    \* bound: elements in the vector, and the arguments of reserve

VARIABLES
  kind,       \* the template
  onHeap,     \* is _buffer not null?
  cells,      \* what data() points to: [0 .. room - 1 -> Cell]
  room,       \* the elements there is memory for behind data()
  size,       \* _size
  capacity,   \* _capacity
  live,       \* [Value -> handles constructed by the vector and not destroyed]
  fault       \* "none", or why the behaviour is undefined from here on

vectorVars == <<kind, onHeap, cells, room, size, capacity, live, fault>>

Cell == Value \cup {Null, Raw}

\* What the proofs and the runs assume of the constants.
VectorConstants ==
  /\ Null \notin Value /\ Raw \notin Value /\ Null # Raw
  /\ Kind \subseteq {"stack", "heap", "unique"}
  /\ StackSize \in Nat \ {0} /\ MaxCount \in Nat
  /\ GoodSize \in [0..(2 * MaxCount) -> Nat]
  /\ \A n \in 0..(2 * MaxCount) : GoodSize[n] >= n

-----------------------------------------------------------------------------
(* Buffers: what data() and the fields beside it may become.               *)

Max2(x, y) == IF x > y THEN x ELSE y

Buffers(on, c, n, cap) == [onHeap |-> on, cells |-> c, room |-> n, capacity |-> cap]

AsIs == Buffers(onHeap, cells, room, capacity)

\* Buffer b with these cells.
Filled(b, c) == Buffers(b.onHeap, c, b.room, b.capacity)

\* n cells, the first m of them taken over from those there are.
Moved(m, n) == [i \in 0..(n - 1) |-> IF i < m THEN cells[i] ELSE Raw]

\* A block on the heap, with what realloc or memcpy took along.
HeapBlock(n, m) == Buffers(TRUE, Moved(m, n), n, n)

\* No buffer, for a template that has none on the stack.
NoBlock == Buffers(FALSE, [i \in {} |-> Raw], 0, 0)

\* mutant: the first block receives nothing from the stack.
ReallocStackForgets(n) ==
  IF n <= StackSize
  THEN IF onHeap THEN Buffers(FALSE, Moved(n, StackSize), StackSize, StackSize) ELSE AsIs
  ELSE IF GoodSize[n] = capacity THEN AsIs
  ELSE HeapBlock(GoodSize[n], IF onHeap THEN room ELSE 0)

\* details::realloc_vector with a stack buffer: back to the stack, nothing to
\* do, or a block of another size (which may be the first).
ReallocStack(n) ==
  IF n <= StackSize
  THEN IF onHeap THEN Buffers(FALSE, Moved(n, StackSize), StackSize, StackSize) ELSE AsIs
  ELSE IF GoodSize[n] = capacity THEN AsIs
  ELSE HeapBlock(GoodSize[n], IF onHeap THEN room ELSE capacity)

\* details::realloc_vector without one.
ReallocHeap(n) ==
  IF n = 0 THEN NoBlock
  ELSE IF GoodSize[n] = capacity THEN AsIs
  ELSE HeapBlock(GoodSize[n], room)

\* mutant: grows by half, also when that is too little.
PreferredByHalf(n) == (3 * capacity) \div 2

\* What reserve_slow asks realloc_vector for.
Preferred(n) == Max2((3 * capacity) \div 2, n)

\* The buffers reserve(n) may leave: those it has when they suffice, or when
\* the malloc of the template for unique_ptr fails.
Reserved(n) ==
  IF n <= capacity THEN {AsIs}
  ELSE IF kind = "stack" THEN {ReallocStack(Preferred(n))}
  ELSE IF kind = "heap" THEN {ReallocHeap(Preferred(n))}
  ELSE {AsIs, HeapBlock(Max2(n, 2 * capacity), size)}

Adopt(b) ==
  /\ onHeap' = b.onHeap /\ cells' = b.cells
  /\ room' = b.room /\ capacity' = b.capacity

\* The behaviour of the program is undefined from here on.
GoesWrong(why) ==
  /\ fault' = why
  /\ UNCHANGED <<kind, onHeap, cells, room, size, capacity, live>>

-----------------------------------------------------------------------------
(* The operations.                                                         *)

Defined == fault = "none"

With(handles, v) ==
  IF v \in Value THEN [handles EXCEPT ![v] = @ + 1] ELSE handles

\* The handles that are left when the elements from n on are destroyed.
Without(n) ==
  [v \in Value |-> live[v] - Cardinality({i \in n..(size - 1) : cells[i] = v})]

\* The new element is constructed behind the last one, wherever that is.
Place(b, v) ==
  IF size < b.room
  THEN /\ Adopt(Filled(b, [b.cells EXCEPT ![size] = v]))
       /\ size' = size + 1
       /\ live' = With(live, v)
       /\ UNCHANGED <<kind, fault>>
  ELSE GoesWrong("outside")

\* push_back of a value of the client's; a unique_ptr is the only one to its
\* object.
PushBack(v) ==
  /\ Defined /\ size < MaxCount
  /\ kind = "unique" => (v \in Value => live[v] = 0)
  /\ \E b \in Reserved(size + 1) : Place(b, v)

\* push_back of one of the vector's own elements, by reference: realloc leaves
\* the reference dangling if it moves the block.  What is on the stack stays.
PushOwn(i) ==
  /\ Defined /\ size < MaxCount /\ i < size
  /\ kind # "unique"
  /\ \E b \in Reserved(size + 1) :
       \/ Place(b, cells[i])
       \/ onHeap /\ b # AsIs /\ GoesWrong("dangling")

PopBack ==
  /\ Defined /\ size > 0
  /\ size' = size - 1
  /\ live' = Without(size - 1)
  /\ UNCHANGED <<kind, onHeap, cells, room, capacity, fault>>

\* mutant: the elements are not destroyed.
ClearKeepsHandles ==
  /\ Defined
  /\ size' = 0
  /\ UNCHANGED <<kind, onHeap, cells, room, capacity, live, fault>>

Clear ==
  /\ Defined
  /\ size' = 0
  /\ live' = Without(0)
  /\ UNCHANGED <<kind, onHeap, cells, room, capacity, fault>>

Reserve(n) ==
  /\ Defined
  /\ \E b \in Reserved(n) : Adopt(b)
  /\ UNCHANGED <<kind, size, live, fault>>

\* The template for unique_ptr declares shrink_to_fit and does not define it.
\* The one without a stack buffer asks for no room at all.
ShrinkToFit ==
  /\ Defined /\ kind # "unique" /\ capacity > size
  /\ LET b == IF kind = "stack" THEN ReallocStack(size) ELSE ReallocHeap(0)
     IN IF size <= b.room
        THEN Adopt(b) /\ UNCHANGED <<kind, size, live, fault>>
        ELSE GoesWrong("lost")

\* resize compiles for unique_ptr only: the others construct at this[i].
Resize(n) ==
  /\ Defined /\ kind = "unique"
  /\ \E b \in Reserved(n) :
       IF n <= b.room
       THEN /\ Adopt(Filled(b, [i \in 0..(b.room - 1) |->
                        IF i \in size..(n - 1) THEN Null ELSE b.cells[i]]))
            /\ size' = n
            /\ live' = Without(n)
            /\ UNCHANGED <<kind, fault>>
       ELSE GoesWrong("outside")

\* A vector as its constructor leaves it.
Empty(k) ==
  /\ kind' = k
  /\ size' = 0
  /\ Adopt(IF k = "stack"
           THEN Buffers(FALSE, [i \in 0..(StackSize - 1) |-> Raw], StackSize, StackSize)
           ELSE NoBlock)

\* ~vector, and the construction of another one.
ReconstructVector ==
  /\ Defined
  /\ \E k \in Kind : Empty(k)
  /\ live' = Without(0)
  /\ UNCHANGED fault

VectorInit ==
  /\ kind \in Kind
  /\ onHeap = FALSE
  /\ room = IF kind = "stack" THEN StackSize ELSE 0
  /\ cells = [i \in 0..(room - 1) |-> Raw]
  /\ size = 0
  /\ capacity = room
  /\ live = [v \in Value |-> 0]
  /\ fault = "none"

VectorNext ==
  \/ \E v \in Value \cup {Null} : PushBack(v)
  \/ \E i \in 0..(MaxCount - 1) : PushOwn(i)
  \/ PopBack \/ Clear \/ ShrinkToFit \/ ReconstructVector
  \/ \E n \in 0..MaxCount : Reserve(n) \/ Resize(n)

VectorSpec == VectorInit /\ [][VectorNext]_vectorVars

-----------------------------------------------------------------------------
(* Properties.                                                             *)

VectorTypeOK ==
  /\ kind \in Kind
  /\ onHeap \in BOOLEAN
  /\ room \in Nat /\ cells \in [0..(room - 1) -> Cell]
  /\ size \in 0..MaxCount /\ capacity \in Nat
  /\ live \in [Value -> Int]
  /\ fault \in {"none", "outside", "dangling", "lost"}

\* The capacity that reserve tests against is the memory there is, and the
\* elements are in it.
RoomExact == capacity = room /\ size <= room

\* The elements a client sees through data().
Elements == [i \in 0..(size - 1) |-> cells[i]]

Row == INSTANCE ElementSequence
         WITH Element <- Value \cup {Null}, Filler <- {Null},
              count <- size, item <- Elements

\* The vector is a row of elements to its client: growing, shrinking, moving
\* between the stack and the heap change none of them.
IsRow == Row!RowSpec

\* Every handle the vector constructed and did not destroy is one of its
\* elements: none is leaked when elements move or go, none destroyed twice.
VectorHandlesExact ==
  \A v \in Value : live[v] = Cardinality({i \in 0..(size - 1) : cells[i] = v})

\* A call leaves what is defined for three reasons only: the malloc of the
\* template for unique_ptr failed, an element of the
\* vector was pushed when the block it is in had to grow, or shrink_to_fit of
\* the template without a stack buffer had elements to keep.
FaultsOnlyWhen ==
  [][fault' # fault =>
       \/ fault' = "outside" /\ kind = "unique"
       \/ fault' = "dangling" /\ onHeap /\ size = capacity
       \/ fault' = "lost" /\ kind = "heap" /\ size > 0]_vectorVars
=============================================================================
