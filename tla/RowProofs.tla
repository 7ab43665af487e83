----------------------------- MODULE RowProofs ------------------------------
(***************************************************************************)
(* The two sequences of the library, for any number of elements.           *)
(*                                                                         *)
(* OAG::vector, for every stack size and rounding of malloc: it is a row   *)
(* of elements to its client, a call leaves what is defined for the three  *)
(* reasons that FaultsOnlyWhen names, and every handle it constructs is    *)
(* destroyed once.  reserve trusts _capacity, so the invariant says that   *)
(* it is the room there is; and realloc_vector trusts that a vector on the *)
(* stack has the capacity of the stack buffer and one on the heap no less. *)
(*                                                                         *)
(* util::ForwardList: it is a stack to its client, and every node that it  *)
(* took from its heap is on the list or spare.                             *)
(***************************************************************************)
EXTENDS Vector, ForwardList, CommonLemmas

Stored == Value \cup {Null}

\* A buffer that the vector may adopt.
GoodBuffer(b) ==
  /\ b.onHeap \in BOOLEAN /\ b.room \in Nat /\ b.capacity = b.room
  /\ b.cells \in [0..(b.room - 1) -> Cell]
  /\ kind = "stack" => StackSize <= b.room /\ (~b.onHeap => b.room = StackSize)

\* It has room for the elements there are, and they are in it.
Keeps(b) == size <= b.room /\ \A i \in 0..(size - 1) : b.cells[i] = cells[i]

VInv ==
  /\ kind \in Kind /\ size \in 0..MaxCount
  /\ RoomExact
  /\ GoodBuffer(AsIs)
  /\ \A i \in 0..(size - 1) : cells[i] \in Stored

SameUpTo(m) == \A i \in 0..(m - 1) : cells'[i] = cells[i]

-----------------------------------------------------------------------------
(* Buffers.                                                                *)

LEMMA AsIsFields ==
  /\ AsIs.onHeap = onHeap /\ AsIs.cells = cells
  /\ AsIs.room = room /\ AsIs.capacity = capacity
BY DEF AsIs, Buffers

LEMMA NowGood ==
  ASSUME VInv
  PROVE  /\ GoodBuffer(AsIs) /\ Keeps(AsIs)
         /\ room \in Nat /\ capacity = room /\ size \in Nat /\ size <= room
         /\ cells \in [0..(room - 1) -> Cell]
BY AsIsFields DEF VInv, RoomExact, GoodBuffer, Keeps

\* A block of n cells that takes over m of them.
LEMMA BlockGood ==
  ASSUME VInv, NEW n \in Nat, NEW m \in Nat, size <= m, m <= room, size <= n,
         kind = "stack" => StackSize <= n
  PROVE  GoodBuffer(HeapBlock(n, m)) /\ Keeps(HeapBlock(n, m)) /\ HeapBlock(n, m).room = n
<1> DEFINE b == HeapBlock(n, m)
<1>1. b.onHeap = TRUE /\ b.room = n /\ b.capacity = n /\ b.cells = Moved(m, n)
  BY DEF HeapBlock, Buffers
<1>2. \A i \in 0..(n - 1) : i < m => cells[i] \in Cell
  BY NowGood
<1>3. Moved(m, n) \in [0..(n - 1) -> Cell]
  BY <1>2 DEF Moved, Cell
<1>4. \A i \in 0..(size - 1) : Moved(m, n)[i] = cells[i]
  BY NowGood DEF Moved
<1>5. QED BY <1>1, <1>3, <1>4 DEF GoodBuffer, Keeps

LEMMA GoodSizes ==
  ASSUME VectorConstants, NEW n \in 0..(2 * MaxCount)
  PROVE  GoodSize[n] \in Nat /\ GoodSize[n] >= n
BY DEF VectorConstants

\* What reserve_slow asks for suffices.
LEMMA PreferredSuffices ==
  ASSUME VectorConstants, VInv, NEW n \in 0..MaxCount, n > capacity
  PROVE  Preferred(n) \in 0..(2 * MaxCount) /\ n <= Preferred(n)
<1>1. capacity \in Nat /\ MaxCount \in Nat
  BY NowGood DEF VectorConstants
<1>2. (3 * capacity) \div 2 \in Nat /\ (3 * capacity) \div 2 <= 2 * capacity
  BY <1>1
<1>3. QED BY <1>1, <1>2 DEF Preferred, Max2

\* reserve leaves a buffer with what was asked for, or the one there is if the
\* malloc of the template for unique_ptr failed.
LEMMA ReservedGood ==
  ASSUME VectorConstants, VInv, NEW n \in 0..MaxCount, NEW b \in Reserved(n)
  PROVE  /\ GoodBuffer(b) /\ Keeps(b)
         /\ n <= b.room \/ kind = "unique"
         /\ n <= capacity => b = AsIs
<1>1. CASE n <= capacity
  BY <1>1, NowGood, AsIsFields DEF Reserved
<1>2. CASE ~(n <= capacity)
  <2> DEFINE p == Preferred(n)
  <2>1. /\ p \in 0..(2 * MaxCount) /\ n <= p /\ p > capacity /\ p > room /\ size < p
        /\ GoodSize[p] \in Nat /\ GoodSize[p] >= p
        /\ room \in Nat /\ capacity = room /\ size <= room /\ size \in Nat /\ n > room
    <3>1. n > capacity /\ n \in Nat
      BY <1>2, NowGood
    <3>2. p \in 0..(2 * MaxCount) /\ n <= p
      BY <3>1, PreferredSuffices
    <3>3. GoodSize[p] \in Nat /\ GoodSize[p] >= p
      BY <3>2, GoodSizes
    <3>4. QED BY <3>1, <3>2, <3>3, NowGood
  <2>2. CASE kind = "stack"
    <3>1. b = ReallocStack(p)
      BY <1>2, <2>2 DEF Reserved
    <3>2. StackSize \in Nat /\ StackSize <= room
      BY <2>2, AsIsFields DEF VInv, GoodBuffer, VectorConstants
    <3>3. b = HeapBlock(GoodSize[p], room)
      <4>1. ~(p <= StackSize) /\ GoodSize[p] # capacity /\ capacity = room
        BY <2>1, <3>2
      <4>2. QED BY <3>1, <4>1 DEF ReallocStack
    <3>4. QED BY <1>2, <2>1, <3>2, <3>3, BlockGood
  <2>3. CASE kind = "heap"
    <3>1. b = ReallocHeap(p)
      BY <1>2, <2>3 DEF Reserved
    <3>2. b = HeapBlock(GoodSize[p], room)
      BY <2>1, <3>1 DEF ReallocHeap
    <3>3. QED BY <1>2, <2>1, <2>3, <3>2, BlockGood
  <2>4. CASE kind = "unique"
    <3>1. b \in {AsIs, HeapBlock(Max2(n, 2 * capacity), size)}
      BY <1>2, <2>4 DEF Reserved
    <3>2. Max2(n, 2 * capacity) \in Nat /\ size <= Max2(n, 2 * capacity)
      BY <2>1 DEF Max2
    <3>3. QED BY <1>2, <2>1, <2>4, <3>1, <3>2, BlockGood, NowGood
  <2>5. kind \in {"stack", "heap", "unique"}
    BY DEF VInv, VectorConstants
  <2>6. QED BY <2>2, <2>3, <2>4, <2>5
<1>3. QED BY <1>1, <1>2

\* shrink_to_fit of a vector with a stack buffer: it fits, wherever it ends up.
LEMMA ShrunkGood ==
  ASSUME VectorConstants, VInv, kind = "stack"
  PROVE  GoodBuffer(ReallocStack(size)) /\ Keeps(ReallocStack(size))
<1>1. /\ StackSize \in Nat /\ size \in 0..(2 * MaxCount) /\ size \in Nat /\ size <= room
      /\ room \in Nat /\ capacity = room /\ StackSize <= room
  BY NowGood, AsIsFields DEF VInv, VectorConstants, GoodBuffer
<1>2. CASE size <= StackSize /\ onHeap
  <2> DEFINE b == Buffers(FALSE, Moved(size, StackSize), StackSize, StackSize)
  <2>1. ReallocStack(size) = b
    BY <1>2 DEF ReallocStack
  <2>2. b.onHeap = FALSE /\ b.room = StackSize /\ b.capacity = StackSize
        /\ b.cells = Moved(size, StackSize)
    BY DEF Buffers
  <2>3. Moved(size, StackSize) \in [0..(StackSize - 1) -> Cell]
    BY <1>1, NowGood DEF Moved, Cell
  <2>4. \A i \in 0..(size - 1) : Moved(size, StackSize)[i] = cells[i]
    BY <1>1, <1>2 DEF Moved
  <2>5. GoodBuffer(b)
    <3>1. b.cells \in [0..(b.room - 1) -> Cell]
      BY <2>2, <2>3
    <3> HIDE DEF b
    <3>2. StackSize <= StackSize /\ StackSize \in Nat
      BY <1>1
    <3>3. StackSize <= b.room /\ b.room = StackSize /\ b.room \in Nat /\ b.capacity = b.room
      BY <2>2, <3>2
    <3>4. QED BY <2>2, <3>1, <3>3 DEF GoodBuffer
  <2>6. Keeps(b)
    BY <1>1, <1>2, <2>2, <2>4 DEF Keeps
  <2>7. QED BY <2>1, <2>5, <2>6
<1>3. CASE size <= StackSize /\ ~onHeap
  BY <1>3, NowGood DEF ReallocStack
<1>4. CASE ~(size <= StackSize) /\ GoodSize[size] = capacity
  BY <1>4, NowGood DEF ReallocStack
<1>5. CASE ~(size <= StackSize) /\ GoodSize[size] # capacity
  <2>1. ReallocStack(size) = HeapBlock(GoodSize[size], room)
    BY <1>1, <1>5 DEF ReallocStack
  <2>2. GoodSize[size] \in Nat /\ GoodSize[size] >= size
    BY <1>1, GoodSizes
  <2>3. size <= GoodSize[size] /\ StackSize <= GoodSize[size]
    BY <1>1, <1>5, <2>2
  <2>4. size <= room /\ room <= room
    BY <1>1
  <2>5. QED BY <1>1, <2>1, <2>2, <2>3, <2>4, BlockGood
<1>6. QED BY <1>2, <1>3, <1>4, <1>5

-----------------------------------------------------------------------------
(* What a step is to keep: the invariant, the row the client sees, and the *)
(* three reasons for a fault.                                              *)

FaultStep ==
  fault' # fault =>
    \/ fault' = "outside" /\ kind = "unique"
    \/ fault' = "dangling" /\ onHeap /\ size = capacity
    \/ fault' = "lost" /\ kind = "heap" /\ size > 0

RowStep == [Row!RowNext]_(Row!rowVars)

HandlesRight == live \in [Value -> Int] /\ VectorHandlesExact

HandleStep == HandlesRight => HandlesRight'

\* The vector adopts buffer b, with m elements in it.
LEMMA AdoptKeepsInv ==
  ASSUME VInv, NEW b, NEW m \in 0..MaxCount, GoodBuffer(b), m <= b.room, Adopt(b),
         size' = m, kind' = kind, \A i \in 0..(m - 1) : b.cells[i] \in Stored
  PROVE  VInv'
<1>1. /\ AsIs'.onHeap = b.onHeap /\ AsIs'.cells = b.cells
      /\ AsIs'.room = b.room /\ AsIs'.capacity = b.capacity
  BY DEF Adopt, AsIs, Buffers
<1>2. GoodBuffer(AsIs)'
  BY <1>1 DEF GoodBuffer
<1>3. RoomExact'
  BY DEF RoomExact, Adopt, GoodBuffer
<1>4. \A i \in 0..(size' - 1) : cells'[i] \in Stored
  BY DEF Adopt
<1>5. QED BY <1>2, <1>3, <1>4 DEF VInv, Stored

LEMMA SameRow ==
  ASSUME VInv, size' = size, SameUpTo(size)
  PROVE  RowStep
BY DEF RowStep, Row!rowVars, Elements, SameUpTo

LEMMA PushedRow ==
  ASSUME VInv, NEW v \in Stored, size' = size + 1, SameUpTo(size), cells'[size] = v
  PROVE  RowStep
<1>1. size \in Nat
  BY NowGood
<1>2. Elements' = [i \in 0..size |-> IF i < size THEN Elements[i] ELSE v]
  BY <1>1 DEF Elements, SameUpTo
<1>3. Row!Push(v)
  BY <1>2 DEF Row!Push
<1>4. QED BY <1>3 DEF RowStep, Row!RowNext, Stored

LEMMA TruncatedRow ==
  ASSUME VInv, NEW n \in 0..MaxCount, n < size, size' = n, SameUpTo(n)
  PROVE  RowStep
<1>1. size \in Nat /\ n \in Nat
  BY NowGood
<1>2. Elements' = [i \in 0..(n - 1) |-> Elements[i]]
  BY <1>1 DEF Elements, SameUpTo
<1>3. Row!Truncate(n)
  BY <1>2 DEF Row!Truncate
<1>4. QED BY <1>3 DEF RowStep, Row!RowNext

LEMMA ExtendedRow ==
  ASSUME VInv, NEW n \in 0..MaxCount, n > size, size' = n, SameUpTo(size),
         \A i \in size..(n - 1) : cells'[i] = Null
  PROVE  RowStep
<1>1. size \in Nat /\ n \in Nat
  BY NowGood
<1>2. Elements' = [i \in 0..(n - 1) |-> IF i < size THEN Elements[i] ELSE Null]
  BY <1>1 DEF Elements, SameUpTo
<1>3. Row!Extend(n)
  BY <1>2 DEF Row!Extend
<1>4. QED BY <1>3 DEF RowStep, Row!RowNext

LEMMA FaultKeeps ==
  ASSUME VInv, NEW why, GoesWrong(why)
  PROVE  VInv' /\ RowStep /\ HandleStep
<1>1. VInv' /\ RowStep
  BY DEF GoesWrong, VInv, RoomExact, GoodBuffer, AsIs, Buffers, RowStep, Row!rowVars, Elements
<1>2. HandleStep
  BY DEF GoesWrong, HandleStep, HandlesRight, VectorHandlesExact
<1>3. QED BY <1>1, <1>2

-----------------------------------------------------------------------------
(* The handles of the elements.                                            *)

LEMMA HandlesNow ==
  VectorHandlesExact <=> \A v \in Value : live[v] = Uses(cells, 0..(size - 1), v)
BY DEF VectorHandlesExact, Uses, Holders

LEMMA WithoutUses ==
  ASSUME NEW n \in Nat, NEW v \in Value
  PROVE  Without(n)[v] = live[v] - Uses(cells, n..(size - 1), v)
BY DEF Without, Uses, Holders

\* The elements from n on are destroyed; what is there after them holds nothing.
LEMMA CutHandles ==
  ASSUME VInv, NEW n \in Nat, n <= size, size' \in Nat, n <= size', SameUpTo(n),
         \A i \in n..(size' - 1) : cells'[i] \notin Value,
         \A v \in Value : live'[v] = live[v] - Uses(cells, n..(size - 1), v),
         live' \in [Value -> Int]
  PROVE  HandleStep
<1>1. SUFFICES ASSUME HandlesRight, NEW v \in Value
               PROVE  live'[v] = Uses(cells', 0..(size' - 1), v)
  BY HandlesNow DEF HandleStep, HandlesRight, VectorHandlesExact, Uses, Holders
<1>2. size \in Nat /\ n \in 0..size /\ n \in 0..size'
  BY NowGood
<1>3. /\ Uses(cells, 0..(size - 1), v) = Uses(cells, 0..(n - 1), v) + Uses(cells, n..(size - 1), v)
      /\ Uses(cells, 0..(n - 1), v) \in Nat /\ Uses(cells, n..(size - 1), v) \in Nat
  BY <1>2, UsesSplit
<1>4. Uses(cells', 0..(size' - 1), v) = Uses(cells', 0..(n - 1), v) + Uses(cells', n..(size' - 1), v)
      /\ Uses(cells', 0..(n - 1), v) \in Nat
  <2>1. PICK s : s = size'
    OBVIOUS
  <2>2. s \in Nat /\ n \in 0..s
    BY <1>2, <2>1
  <2>3. \A f : /\ Uses(f, 0..(s - 1), v) = Uses(f, 0..(n - 1), v) + Uses(f, n..(s - 1), v)
               /\ Uses(f, 0..(n - 1), v) \in Nat
    BY <2>2, UsesSplit
  <2>4. QED BY <2>1, <2>3
<1>5. Uses(cells', 0..(n - 1), v) = Uses(cells, 0..(n - 1), v)
  <2>1. SameOn(cells, cells', 0..(n - 1))
    BY DEF SameUpTo, SameOn
  <2>2. QED BY <2>1, SameUses
<1>6. Uses(cells', n..(size' - 1), v) = 0
  <2>1. \A i \in n..(size' - 1) : cells'[i] # v
    OBVIOUS
  <2>2. QED BY <2>1, NoneHolds
<1>7. live[v] = Uses(cells, 0..(size - 1), v)
  BY <1>1, HandlesNow DEF HandlesRight
<1>8. live'[v] = live[v] - Uses(cells, n..(size - 1), v)
  OBVIOUS
<1>9. QED BY <1>3, <1>4, <1>5, <1>6, <1>7, <1>8

\* As many elements as before, the same ones.
LEMMA SameHandles ==
  ASSUME VInv, size' = size, live' = live, SameUpTo(size)
  PROVE  HandleStep
<1>1. ASSUME NEW v PROVE Uses(cells', 0..(size - 1), v) = Uses(cells, 0..(size - 1), v)
  <2>1. SameOn(cells, cells', 0..(size - 1))
    BY DEF SameUpTo, SameOn
  <2>2. QED BY <2>1, SameUses
<1>2. QED BY <1>1 DEF HandleStep, HandlesRight, VectorHandlesExact, Uses, Holders

\* An element more.
LEMMA PushedHandles ==
  ASSUME VInv, NEW v \in Stored, size' = size + 1, SameUpTo(size), cells'[size] = v,
         live' = With(live, v), VectorConstants
  PROVE  HandleStep
<1>1. SUFFICES ASSUME HandlesRight
               PROVE  /\ live' \in [Value -> Int]
                      /\ \A w \in Value : live'[w] = Uses(cells', 0..(size' - 1), w)
  BY DEF HandleStep, HandlesRight, VectorHandlesExact, Uses, Holders
<1>2. size \in Nat /\ live \in [Value -> Int]
  BY <1>1, NowGood DEF HandlesRight
<1>3. live' \in [Value -> Int] /\ \A w \in Value : live'[w] = live[w] + One(v, w)
  BY <1>2 DEF With, One
<1>4. ASSUME NEW w \in Value PROVE live'[w] = Uses(cells', 0..(size' - 1), w)
  <2>1. size + 1 \in Nat /\ size \in 0..(size + 1) /\ (size + 1) - 1 = size
    BY <1>2
  <2>2. Uses(cells', 0..size, w) = Uses(cells', 0..(size - 1), w) + Uses(cells', size..size, w)
    BY <1>2, UsesPushed
  <2>3. Uses(cells', 0..(size - 1), w) = Uses(cells, 0..(size - 1), w)
    <3>1. SameOn(cells, cells', 0..(size - 1))
      BY DEF SameUpTo, SameOn
    <3>2. QED BY <3>1, SameUses
  <2>4. Uses(cells', size..size, w) = One(v, w)
    <3>1. size..size = {size}
      BY <1>2
    <3>2. CASE v = w
      <4>1. Holders(cells', size..size, w) = {size}
        BY <3>1, <3>2 DEF Holders
      <4>2. QED BY <3>2, <4>1, FS_Singleton DEF Uses, One
    <3>3. CASE v # w
      <4>1. \A i \in size..size : cells'[i] # w
        BY <3>1, <3>3
      <4>2. QED BY <3>3, <4>1, NoneHolds DEF One
    <3>4. QED BY <3>2, <3>3
  <2>5. live[w] = Uses(cells, 0..(size - 1), w)
    BY <1>1, HandlesNow DEF HandlesRight
  <2>6. QED BY <1>3, <2>1, <2>2, <2>3, <2>4, <2>5
<1>5. QED BY <1>3, <1>4

\* What Without leaves.
LEMMA DestroyedHandles ==
  ASSUME VInv, HandlesRight, NEW n \in Nat
  PROVE  /\ Without(n) \in [Value -> Int]
         /\ \A v \in Value : Without(n)[v] = live[v] - Uses(cells, n..(size - 1), v)
<1>1. size \in Nat /\ live \in [Value -> Int]
  BY NowGood DEF HandlesRight
<1>2. ASSUME NEW v PROVE Cardinality({i \in n..(size - 1) : cells[i] = v}) \in Nat
  <2>1. IsFiniteSet(n..(size - 1))
    BY <1>1, FS_Interval
  <2>2. Uses(cells, n..(size - 1), v) \in Nat
    BY <2>1, UsesType
  <2>3. QED BY <2>2 DEF Uses, Holders
<1>3. Without(n) \in [Value -> Int]
  <2> DEFINE Gone(v) == Cardinality({i \in n..(size - 1) : cells[i] = v})
  <2>1. \A v : Gone(v) \in Nat
    BY <1>2
  <2>2. Without(n) = [v \in Value |-> live[v] - Gone(v)]
    BY DEF Without
  <2> HIDE DEF Gone
  <2>3. QED BY <1>1, <2>1, <2>2
<1>4. QED BY <1>3, WithoutUses

-----------------------------------------------------------------------------
(* The operations.                                                         *)

LEMMA PlaceKeeps ==
  ASSUME VInv, NEW b, GoodBuffer(b), Keeps(b), NEW v \in Stored, size < MaxCount,
         VectorConstants, MaxCount \in Nat, size + 1 <= b.room \/ kind = "unique", Place(b, v)
  PROVE  VInv' /\ RowStep /\ HandleStep /\ FaultStep
<1>1. size \in Nat /\ b.room \in Nat
  BY NowGood DEF GoodBuffer
<1>2. CASE size < b.room
  <2> DEFINE c == Filled(b, [b.cells EXCEPT ![size] = v])
  <2>1. /\ Adopt(c) /\ size' = size + 1 /\ kind' = kind /\ fault' = fault
        /\ live' = With(live, v)
    BY <1>2 DEF Place
  <2>2. /\ c.onHeap = b.onHeap /\ c.room = b.room /\ c.capacity = b.capacity
        /\ c.cells = [b.cells EXCEPT ![size] = v]
    BY DEF Filled, Buffers
  <2> HIDE DEF c
  <2>3. size \in 0..(b.room - 1) /\ v \in Cell /\ b.cells \in [0..(b.room - 1) -> Cell]
    BY <1>1, <1>2 DEF GoodBuffer, Stored, Cell
  <2>4. c.cells \in [0..(c.room - 1) -> Cell] /\ c.cells[size] = v
    BY <2>2, <2>3
  <2>5. \A i \in 0..(size - 1) : c.cells[i] = cells[i]
    BY <1>1, <2>2, <2>3 DEF Keeps
  <2>6. GoodBuffer(c)
    BY <2>2, <2>4 DEF GoodBuffer
  <2> DEFINE m == size + 1
  <2>7. \A i \in 0..(m - 1) : c.cells[i] \in Stored
    BY <1>1, <2>4, <2>5 DEF VInv
  <2>8. VInv'
    <3>1. m \in 0..MaxCount /\ m <= c.room /\ size' = m
      BY <1>1, <1>2, <2>1, <2>2
    <3> HIDE DEF m
    <3>2. QED BY <2>1, <2>6, <2>7, <3>1, AdoptKeepsInv
  <2>9. SameUpTo(size) /\ cells'[size] = v
    BY <2>1, <2>4, <2>5 DEF SameUpTo, Adopt
  <2>10. RowStep /\ HandleStep
    BY <2>1, <2>9, PushedRow, PushedHandles
  <2>11. QED BY <2>1, <2>8, <2>10 DEF FaultStep
<1>3. CASE ~(size < b.room)
  <2>1. GoesWrong("outside") /\ kind = "unique"
    BY <1>1, <1>3 DEF Place
  <2>2. QED BY <2>1, FaultKeeps DEF FaultStep, GoesWrong
<1>4. QED BY <1>2, <1>3

LEMMA PushBackKeeps ==
  ASSUME VectorConstants, VInv, NEW v \in Value \cup {Null}, PushBack(v)
  PROVE  VInv' /\ RowStep /\ HandleStep /\ FaultStep
<1>1. size + 1 \in 0..MaxCount /\ size < MaxCount /\ MaxCount \in Nat
  BY DEF PushBack, VInv, VectorConstants
<1>2. PICK b \in Reserved(size + 1) : Place(b, v)
  BY DEF PushBack
<1>3. GoodBuffer(b) /\ Keeps(b) /\ (size + 1 <= b.room \/ kind = "unique")
  BY <1>1, ReservedGood
<1>4. QED BY <1>1, <1>2, <1>3, PlaceKeeps DEF Stored

LEMMA PushOwnKeeps ==
  ASSUME VectorConstants, VInv, NEW i \in 0..(MaxCount - 1), PushOwn(i)
  PROVE  VInv' /\ RowStep /\ HandleStep /\ FaultStep
<1>1. /\ size + 1 \in 0..MaxCount /\ size < MaxCount /\ MaxCount \in Nat
      /\ i \in 0..(size - 1)
  BY DEF PushOwn, VInv, VectorConstants
<1>2. PICK b \in Reserved(size + 1) :
        Place(b, cells[i]) \/ (onHeap /\ b # AsIs /\ GoesWrong("dangling"))
  BY DEF PushOwn
<1>3. /\ GoodBuffer(b) /\ Keeps(b) /\ (size + 1 <= b.room \/ kind = "unique")
      /\ size + 1 <= capacity => b = AsIs
  BY <1>1, ReservedGood
<1>4. CASE Place(b, cells[i])
  <2>1. cells[i] \in Stored
    BY <1>1 DEF VInv
  <2>2. QED BY <1>1, <1>3, <1>4, <2>1, PlaceKeeps
<1>5. CASE onHeap /\ b # AsIs /\ GoesWrong("dangling")
  <2>1. size = capacity
    BY <1>3, <1>5, NowGood
  <2>2. QED BY <1>5, <2>1, FaultKeeps DEF FaultStep, GoesWrong
<1>6. QED BY <1>2, <1>4, <1>5

\* Elements are given up, or none are, in the memory there is.
LEMMA ShorterKeeps ==
  ASSUME VInv, MaxCount \in Nat, NEW n \in 0..size, size' = n, live' = Without(n),
         UNCHANGED <<kind, onHeap, cells, room, capacity, fault>>
  PROVE  VInv' /\ RowStep /\ HandleStep /\ FaultStep
<1>1. size \in Nat /\ n \in 0..MaxCount /\ n <= room
  BY NowGood DEF VInv
<1>2. Adopt(AsIs) /\ GoodBuffer(AsIs) /\ AsIs.cells = cells /\ AsIs.room = room
  BY AsIsFields, NowGood DEF Adopt
<1>3. \A i \in 0..(n - 1) : AsIs.cells[i] \in Stored
  BY <1>1, <1>2 DEF VInv
<1>4. VInv'
  BY <1>1, <1>2, <1>3, AdoptKeepsInv
<1>5. SameUpTo(n)
  BY DEF SameUpTo
<1>6. n = size \/ n < size
  BY <1>1
<1>7. RowStep
  BY <1>1, <1>5, <1>6, SameRow, TruncatedRow
<1>8. HandleStep
  <2>1. SUFFICES ASSUME HandlesRight PROVE HandleStep
    BY DEF HandleStep
  <2>2. n \in Nat /\ n <= size /\ n <= size' /\ size' \in Nat /\ n..(size' - 1) = {}
    BY <1>1
  <2>3. /\ live' \in [Value -> Int]
        /\ \A v \in Value : live'[v] = live[v] - Uses(cells, n..(size - 1), v)
    BY <2>1, <2>2, DestroyedHandles
  <2>4. QED BY <1>5, <2>2, <2>3, CutHandles
<1>9. QED BY <1>4, <1>7, <1>8 DEF FaultStep

LEMMA PopBackKeeps ==
  ASSUME VectorConstants, VInv, PopBack
  PROVE  VInv' /\ RowStep /\ HandleStep /\ FaultStep
<1>1. size - 1 \in 0..size /\ MaxCount \in Nat
  BY NowGood DEF PopBack, VectorConstants
<1>2. QED BY <1>1, ShorterKeeps DEF PopBack

LEMMA ClearKeeps ==
  ASSUME VectorConstants, VInv, Clear
  PROVE  VInv' /\ RowStep /\ HandleStep /\ FaultStep
<1>1. 0 \in 0..size /\ MaxCount \in Nat
  BY NowGood DEF VectorConstants
<1>2. QED BY <1>1, ShorterKeeps DEF Clear

\* The elements move to buffer b, all of them.
LEMMA MoveKeeps ==
  ASSUME VInv, NEW b, GoodBuffer(b), Keeps(b), Adopt(b),
         UNCHANGED <<kind, size, live, fault>>
  PROVE  VInv' /\ RowStep /\ HandleStep /\ FaultStep
<1>1. size \in 0..MaxCount /\ size <= b.room
  BY DEF VInv, Keeps
<1>2. \A i \in 0..(size - 1) : b.cells[i] \in Stored
  BY DEF VInv, Keeps
<1>3. VInv'
  BY <1>1, <1>2, AdoptKeepsInv
<1>4. SameUpTo(size)
  BY DEF SameUpTo, Keeps, Adopt
<1>5. RowStep /\ HandleStep
  BY <1>4, SameRow, SameHandles
<1>6. QED BY <1>3, <1>5 DEF FaultStep

LEMMA ReserveKeeps ==
  ASSUME VectorConstants, VInv, NEW n \in 0..MaxCount, Reserve(n)
  PROVE  VInv' /\ RowStep /\ HandleStep /\ FaultStep
<1>1. PICK b \in Reserved(n) : Adopt(b)
  BY DEF Reserve
<1>2. GoodBuffer(b) /\ Keeps(b)
  BY ReservedGood
<1>3. QED BY <1>1, <1>2, MoveKeeps DEF Reserve

LEMMA NoBlockGood ==
  ASSUME kind # "stack"
  PROVE  GoodBuffer(NoBlock) /\ NoBlock.room = 0
BY DEF GoodBuffer, NoBlock, Buffers, Cell

LEMMA ShrinkToFitKeeps ==
  ASSUME VectorConstants, VInv, ShrinkToFit
  PROVE  VInv' /\ RowStep /\ HandleStep /\ FaultStep
<1>1. kind \in {"stack", "heap"} /\ size \in Nat
  BY NowGood DEF ShrinkToFit, VInv, VectorConstants
<1>2. CASE kind = "stack"
  <2>1. GoodBuffer(ReallocStack(size)) /\ Keeps(ReallocStack(size))
    BY <1>2, ShrunkGood
  <2>2. Adopt(ReallocStack(size)) /\ UNCHANGED <<kind, size, live, fault>>
    BY <1>2, <2>1 DEF ShrinkToFit, Keeps
  <2>3. QED BY <2>1, <2>2, MoveKeeps
<1>3. CASE kind = "heap"
  <2>1. GoodBuffer(NoBlock) /\ NoBlock.room = 0 /\ ReallocHeap(0) = NoBlock
    BY <1>3, NoBlockGood DEF ReallocHeap
  <2>2. CASE size = 0
    <3>1. Adopt(NoBlock) /\ UNCHANGED <<kind, size, live, fault>>
      BY <1>3, <2>1, <2>2 DEF ShrinkToFit
    <3>2. Keeps(NoBlock)
      BY <2>1, <2>2 DEF Keeps
    <3>3. QED BY <2>1, <3>1, <3>2, MoveKeeps
  <2>3. CASE size # 0
    <3>1. GoesWrong("lost")
      BY <1>1, <1>3, <2>1, <2>3 DEF ShrinkToFit
    <3>2. size > 0
      BY <1>1, <2>3
    <3>3. QED BY <1>3, <3>1, <3>2, FaultKeeps DEF FaultStep, GoesWrong
  <2>4. QED BY <2>2, <2>3
<1>4. QED BY <1>1, <1>2, <1>3

LEMMA ResizeKeeps ==
  ASSUME VectorConstants, VInv, NEW n \in 0..MaxCount, Resize(n)
  PROVE  VInv' /\ RowStep /\ HandleStep /\ FaultStep
<1>1. size \in Nat /\ n \in Nat /\ kind = "unique"
  BY NowGood DEF Resize
<1> DEFINE NullsIn(b) == [i \in 0..(b.room - 1) |-> IF i \in size..(n - 1) THEN Null
                                                 ELSE b.cells[i]]
           Wider(b) == Filled(b, NullsIn(b))
<1>2. PICK b \in Reserved(n) :
        IF n <= b.room
        THEN Adopt(Wider(b)) /\ size' = n /\ live' = Without(n) /\ UNCHANGED <<kind, fault>>
        ELSE GoesWrong("outside")
  BY DEF Resize
<1>3. GoodBuffer(b) /\ Keeps(b)
  BY ReservedGood
<1>4. CASE n <= b.room
  <2> DEFINE c == Wider(b)
  <2>1. Adopt(c) /\ size' = n /\ kind' = kind /\ fault' = fault /\ live' = Without(n)
    BY <1>2, <1>4
  <2>2. /\ c.onHeap = b.onHeap /\ c.room = b.room /\ c.capacity = b.capacity
        /\ c.cells = NullsIn(b)
    BY DEF Filled, Buffers
  <2> HIDE DEF c
  <2>3. b.room \in Nat /\ b.cells \in [0..(b.room - 1) -> Cell]
    BY <1>3 DEF GoodBuffer
  <2>4. c.cells \in [0..(c.room - 1) -> Cell]
    BY <2>2, <2>3 DEF Cell
  <2>5. GoodBuffer(c)
    BY <1>3, <2>2, <2>4 DEF GoodBuffer
  <2>6. \A i \in 0..(n - 1) : c.cells[i] = IF i < size THEN cells[i] ELSE Null
    BY <1>1, <1>3, <1>4, <2>2, <2>3 DEF Keeps
  <2>7. \A i \in 0..(n - 1) : c.cells[i] \in Stored
    BY <1>1, <2>6 DEF VInv, Stored
  <2>8. n <= c.room
    BY <1>4, <2>2
  <2>9. VInv'
    BY <2>1, <2>5, <2>7, <2>8, AdoptKeepsInv
  <2>10. \A i \in 0..(n - 1) : cells'[i] = IF i < size THEN cells[i] ELSE Null
    BY <2>1, <2>6 DEF Adopt
  <2>11. ASSUME n < size PROVE RowStep
    <3>1. SameUpTo(n)
      BY <1>1, <2>10, <2>11 DEF SameUpTo
    <3>2. QED BY <1>1, <2>1, <2>10, <2>11, <3>1, TruncatedRow
  <2>12. ASSUME n = size PROVE RowStep
    <3>1. SameUpTo(size)
      BY <1>1, <2>10, <2>12 DEF SameUpTo
    <3>2. QED BY <1>1, <2>1, <2>10, <2>12, <3>1, SameRow
  <2>13. ASSUME n > size PROVE RowStep
    <3>1. SameUpTo(size)
      BY <1>1, <2>10, <2>13 DEF SameUpTo
    <3>2. QED BY <1>1, <2>1, <2>10, <2>13, <3>1, ExtendedRow
  <2>14. RowStep
    BY <1>1, <2>11, <2>12, <2>13
  <2>15. HandleStep
    <3>1. SUFFICES ASSUME HandlesRight PROVE HandleStep
      BY DEF HandleStep
    <3> DEFINE k == IF n <= size THEN n ELSE size
    <3>2. k \in Nat /\ k <= size /\ k <= size' /\ size' \in Nat
      BY <1>1, <2>1
    <3>3. /\ live' \in [Value -> Int]
          /\ \A v \in Value : live'[v] = live[v] - Uses(cells, n..(size - 1), v)
      BY <1>1, <2>1, <3>1, DestroyedHandles
    <3>4. n..(size - 1) = k..(size - 1)
      BY <1>1
    <3>5. SameUpTo(k)
      BY <1>1, <2>10 DEF SameUpTo
    <3>6. \A i \in k..(size' - 1) : cells'[i] \notin Value
      BY <1>1, <2>1, <2>10 DEF VectorConstants
    <3> HIDE DEF k
    <3>7. QED BY <3>2, <3>3, <3>4, <3>5, <3>6, CutHandles
  <2>16. QED BY <2>1, <2>9, <2>14, <2>15 DEF FaultStep
<1>5. CASE ~(n <= b.room)
  BY <1>1, <1>2, <1>5, FaultKeeps DEF FaultStep, GoesWrong
<1>6. QED BY <1>4, <1>5

\* A vector as its constructor leaves it.
LEMMA EmptyInv ==
  ASSUME VectorConstants, NEW k \in Kind, Empty(k)
  PROVE  VInv' /\ size' = 0
<1>1. size' = 0 /\ kind' = k /\ capacity' = room' /\ onHeap' = FALSE
  BY DEF Empty, Adopt, Buffers, NoBlock
<1>2. room' = (IF k = "stack" THEN StackSize ELSE 0) /\ cells' = [i \in 0..(room' - 1) |-> Raw]
  <2>1. CASE k = "stack"
    BY <2>1 DEF Empty, Adopt, Buffers
  <2>2. CASE k # "stack"
    BY <2>2 DEF Empty, Adopt, Buffers, NoBlock
  <2>3. QED BY <2>1, <2>2
<1>3. room' \in Nat /\ cells' \in [0..(room' - 1) -> Cell]
      /\ (k = "stack" => StackSize <= room' /\ room' = StackSize)
  BY <1>2 DEF Cell, VectorConstants
<1>4. GoodBuffer(AsIs)'
  BY <1>1, <1>3 DEF GoodBuffer, AsIs, Buffers
<1>5. RoomExact' /\ size' \in 0..MaxCount /\ \A i \in 0..(size' - 1) : cells'[i] \in Stored
  BY <1>1, <1>3 DEF RoomExact, VectorConstants
<1>6. QED BY <1>1, <1>4, <1>5 DEF VInv, Stored

LEMMA ReconstructKeeps ==
  ASSUME VectorConstants, VInv, ReconstructVector
  PROVE  VInv' /\ RowStep /\ HandleStep /\ FaultStep
<1>1. VInv' /\ size' = 0 /\ fault' = fault
  BY EmptyInv DEF ReconstructVector
<1>2. size \in Nat /\ 0 \in 0..MaxCount
  BY NowGood DEF VectorConstants
<1>3. SameUpTo(0)
  BY DEF SameUpTo
<1>4. RowStep
  <2>1. CASE size = 0
    BY <1>1, <1>3, <2>1, SameRow
  <2>2. CASE size # 0
    <3>1. 0 < size
      BY <1>2, <2>2
    <3>2. QED BY <1>1, <1>2, <1>3, <3>1, TruncatedRow
  <2>3. QED BY <2>1, <2>2
<1>5. HandleStep
  <2>1. SUFFICES ASSUME HandlesRight PROVE HandleStep
    BY DEF HandleStep
  <2>2. 0 \in Nat /\ 0 <= size /\ 0 <= size' /\ size' \in Nat /\ 0..(size' - 1) = {}
    BY <1>1, <1>2
  <2>3. live' = Without(0)
    BY DEF ReconstructVector
  <2>4. /\ live' \in [Value -> Int]
        /\ \A v \in Value : live'[v] = live[v] - Uses(cells, 0..(size - 1), v)
    BY <2>1, <2>3, DestroyedHandles
  <2>5. QED BY <1>3, <2>2, <2>4, CutHandles
<1>6. QED BY <1>1, <1>4, <1>5 DEF FaultStep

-----------------------------------------------------------------------------
LEMMA InitInv ==
  ASSUME VectorConstants, VectorInit
  PROVE  VInv /\ Row!RowInit
<1>1. /\ room \in Nat /\ cells \in [0..(room - 1) -> Cell]
      /\ kind = "stack" => StackSize <= room /\ room = StackSize
  BY DEF VectorInit, VectorConstants, Cell
<1>2. GoodBuffer(AsIs)
  BY <1>1 DEF VectorInit, GoodBuffer, AsIs, Buffers
<1>3. RoomExact /\ size = 0 /\ size \in 0..MaxCount /\ \A i \in 0..(size - 1) : cells[i] \in Stored
  BY <1>1 DEF VectorInit, RoomExact, VectorConstants
<1>4. Elements = [i \in {} |-> 0]
  BY <1>3 DEF Elements
<1>5. QED BY <1>2, <1>3, <1>4 DEF VInv, VectorInit, Row!RowInit

LEMMA StepKeeps ==
  ASSUME VectorConstants, VInv, [VectorNext]_vectorVars
  PROVE  VInv' /\ RowStep /\ HandleStep /\ FaultStep
<1>1. CASE VectorNext
  <2>1. ASSUME NEW v \in Value \cup {Null}, PushBack(v)
        PROVE  VInv' /\ RowStep /\ HandleStep /\ FaultStep
    BY <2>1, PushBackKeeps
  <2>2. ASSUME NEW i \in 0..(MaxCount - 1), PushOwn(i)
        PROVE  VInv' /\ RowStep /\ HandleStep /\ FaultStep
    BY <2>2, PushOwnKeeps
  <2>3. ASSUME NEW n \in 0..MaxCount, Reserve(n)
        PROVE  VInv' /\ RowStep /\ HandleStep /\ FaultStep
    BY <2>3, ReserveKeeps
  <2>4. ASSUME NEW n \in 0..MaxCount, Resize(n)
        PROVE  VInv' /\ RowStep /\ HandleStep /\ FaultStep
    BY <2>4, ResizeKeeps
  <2>5. QED BY <1>1, <2>1, <2>2, <2>3, <2>4, PopBackKeeps, ClearKeeps, ShrinkToFitKeeps,
               ReconstructKeeps DEF VectorNext
<1>2. CASE UNCHANGED vectorVars
  BY <1>2 DEF vectorVars, VInv, RoomExact, GoodBuffer, AsIs, Buffers, RowStep, Row!rowVars, Elements,
              FaultStep, HandleStep, HandlesRight, VectorHandlesExact
<1>3. QED BY <1>1, <1>2

LEMMA Invariance == ASSUME VectorConstants PROVE VectorSpec => []VInv
<1>1. VectorInit => VInv
  BY InitInv
<1>2. VInv /\ [VectorNext]_vectorVars => VInv'
  BY StepKeeps
<1>3. QED BY <1>1, <1>2, PTL DEF VectorSpec

\* What reserve tests against is the memory there is, and the elements are in
\* it, whatever malloc rounds up to.
THEOREM RoomRight == ASSUME VectorConstants PROVE VectorSpec => []RoomExact
<1>1. VInv => RoomExact
  BY DEF VInv
<1>2. QED BY <1>1, Invariance, PTL

\* Every handle the vector constructed and did not destroy is one of its
\* elements, however they move between the stack and the heap.
THEOREM VectorHandlesRight == ASSUME VectorConstants PROVE VectorSpec => []VectorHandlesExact
<1>1. VectorInit => VInv /\ HandlesRight
  <2>1. SUFFICES ASSUME VectorInit PROVE HandlesRight
    BY InitInv
  <2>2. live = [v \in Value |-> 0] /\ 0..(size - 1) = {}
    BY <2>1 DEF VectorInit
  <2>3. \A v : Uses(cells, 0..(size - 1), v) = 0
    BY <2>2, NoneHolds
  <2>4. QED BY <2>2, <2>3 DEF HandlesRight, VectorHandlesExact, Uses, Holders
<1>2. VInv /\ HandlesRight /\ [VectorNext]_vectorVars => VInv' /\ HandlesRight'
  BY StepKeeps DEF HandleStep
<1>3. HandlesRight => VectorHandlesExact
  BY DEF HandlesRight
<1>4. QED BY <1>1, <1>2, <1>3, PTL DEF VectorSpec

\* A call leaves what is defined for the three reasons named, and no other.
THEOREM FaultsRight == ASSUME VectorConstants PROVE VectorSpec => FaultsOnlyWhen
<1>1. VInv /\ [VectorNext]_vectorVars => [FaultStep]_vectorVars
  BY StepKeeps
<1>2. QED BY <1>1, Invariance, PTL DEF VectorSpec, FaultsOnlyWhen, FaultStep

\* The vector implements the row of elements.
THEOREM ImplementsRow == ASSUME VectorConstants PROVE VectorSpec => IsRow
<1>1. VectorInit => Row!RowInit
  BY InitInv
<1>2. VInv /\ [VectorNext]_vectorVars => RowStep
  BY StepKeeps
<1>3. QED BY <1>1, <1>2, Invariance, PTL DEF VectorSpec, IsRow, Row!RowSpec, RowStep

-----------------------------------------------------------------------------
(* util::ForwardList, for any number of nodes.  A chain is numbered from   *)
(* its end: 0 is what lies behind the last node, m is where it begins.     *)

IsChain(links, n, f, m) ==
  /\ m \in Nat /\ DOMAIN f = 0..m
  /\ f[0] \in {Null, Stray} /\ n = f[m]
  /\ \A i \in 1..m : f[i] \in ListNode /\ links[f[i]] = f[i - 1]
  /\ \A i, j \in 1..m : f[i] = f[j] => i = j

NodesOf(f, m) == {f[i] : i \in 1..m}

\* The definitions of the model, for any links and values.
BehindIn(links, n) ==
  LET at[k \in Nat] == IF k = 0 THEN n
                       ELSE IF at[k - 1] \in ListNode THEN links[at[k - 1]] ELSE Null
  IN at

ChainIn(links, n) == {BehindIn(links, n)[k] : k \in 0..Cardinality(ListNode)} \cap ListNode

LengthIn(links, n) == Cardinality(ChainIn(links, n))

ValuesIn(links, n, vals) ==
  [i \in 0..(LengthIn(links, n) - 1) |-> vals[BehindIn(links, n)[LengthIn(links, n) - 1 - i]]]

LEMMA ChainsNow ==
  /\ Chain(front) = ChainIn(next, front) /\ Chain(spare) = ChainIn(next, spare)
  /\ Length = LengthIn(next, front) /\ Values = ValuesIn(next, front, value)
<1>1. \A n : Behind(n) = BehindIn(next, n)
  BY DEF Behind, BehindIn
<1>2. \A n : Chain(n) = ChainIn(next, n)
  BY <1>1 DEF Chain, ChainIn
<1>3. Length = LengthIn(next, front)
  BY <1>2 DEF Length, LengthIn
<1>4. QED BY <1>1, <1>2, <1>3 DEF Values, ValuesIn

LEMMA ChainsThen ==
  /\ Length' = LengthIn(next', front') /\ Values' = ValuesIn(next', front', value')
<1>1. \A n : Behind(n)' = BehindIn(next', n)
  BY DEF Behind, BehindIn
<1>2. Chain(front)' = ChainIn(next', front')
  BY DEF Chain, ChainIn, Behind, BehindIn
<1>3. Length' = LengthIn(next', front')
  BY <1>2 DEF Length, LengthIn
<1>4. Values' = [i \in 0..(Length' - 1) |-> value'[BehindIn(next', front')[Length' - 1 - i]]]
  BY DEF Values, Behind, BehindIn
<1>5. QED BY <1>3, <1>4 DEF ValuesIn

\* The function Behind computes: node m - k is k links behind node m.
Counted(f, m) == [k \in Nat |-> IF k <= m THEN f[m - k] ELSE Null]

LEMMA BehindIs ==
  ASSUME NEW links, NEW n, NEW f, NEW m, IsChain(links, n, f, m)
  PROVE  \A k \in Nat : BehindIn(links, n)[k] = Counted(f, m)[k]
<1> DEFINE Follow(g) == [k \in Nat |-> IF k = 0 THEN n
                           ELSE IF g[k - 1] \in ListNode THEN links[g[k - 1]] ELSE Null]
           c == Counted(f, m)
<1>1. m \in Nat /\ f[m] = n /\ f[0] \notin ListNode
  BY ListConstants DEF IsChain
<1>2. ASSUME NEW k \in Nat
      PROVE  c[k] = IF k = 0 THEN n ELSE IF c[k - 1] \in ListNode THEN links[c[k - 1]] ELSE Null
  <2>1. CASE k = 0
    BY <1>1, <2>1 DEF Counted
  <2>2. CASE k # 0 /\ k <= m
    <3>1. k - 1 \in Nat /\ k - 1 <= m /\ m - (k - 1) \in 1..m /\ m - k \in 0..m
      BY <1>1, <2>2
    <3>2. c[k] = f[m - k] /\ c[k - 1] = f[m - (k - 1)]
      BY <2>2, <3>1 DEF Counted
    <3>3. (m - (k - 1)) - 1 = m - k
      BY <1>1
    <3> DEFINE i == m - (k - 1)
    <3> HIDE DEF i
    <3>4. i \in 1..m /\ i - 1 = m - k /\ c[k - 1] = f[i]
      BY <3>1, <3>2, <3>3 DEF i
    <3>5. f[i] \in ListNode /\ links[f[i]] = f[i - 1]
      BY <3>4 DEF IsChain
    <3>6. QED BY <2>2, <3>2, <3>4, <3>5
  <2>3. CASE k = m + 1
    <3>1. k - 1 = m /\ k # 0 /\ ~(k <= m) /\ m - m = 0
      BY <1>1, <2>3
    <3>2. c[k] = Null /\ c[k - 1] = f[0]
      BY <1>1, <2>3, <3>1 DEF Counted
    <3>3. QED BY <1>1, <3>1, <3>2
  <2>4. CASE k > m + 1
    <3>1. k - 1 \in Nat /\ ~(k - 1 <= m) /\ k # 0 /\ ~(k <= m)
      BY <1>1, <2>4
    <3>2. c[k] = Null /\ c[k - 1] = Null
      BY <3>1 DEF Counted
    <3>3. QED BY <3>1, <3>2, ListConstants
  <2>5. QED BY <1>1, <2>1, <2>2, <2>3, <2>4
<1>3. c = [k \in Nat |-> c[k]]
  BY DEF Counted
<1> HIDE DEF c
<1>4. c = Follow(c)
  BY <1>2, <1>3
<1> HIDE DEF Follow
<1>5. BehindIn(links, n) = CHOOSE g : g = Follow(g)
  BY DEF BehindIn, Follow
<1>6. BehindIn(links, n) = Follow(BehindIn(links, n))
  BY <1>4, <1>5
<1> DEFINE b == BehindIn(links, n)
<1>7. \A k \in Nat : b[k] = IF k = 0 THEN n
                            ELSE IF b[k - 1] \in ListNode THEN links[b[k - 1]] ELSE Null
  BY <1>6 DEF Follow
<1> HIDE DEF b
<1> DEFINE Same == {k \in Nat : b[k] = c[k]}
<1>8. 0 \in Same
  BY <1>2, <1>7
<1>9. ASSUME NEW k \in Nat, k \in Same PROVE k + 1 \in Same
  <2>1. k + 1 \in Nat /\ k + 1 # 0 /\ (k + 1) - 1 = k /\ b[k] = c[k]
    BY <1>9
  <2>2. b[k + 1] = IF b[k] \in ListNode THEN links[b[k]] ELSE Null
    BY <1>7, <2>1
  <2>3. c[k + 1] = IF c[k] \in ListNode THEN links[c[k]] ELSE Null
    BY <1>2, <2>1
  <2>4. QED BY <2>1, <2>2, <2>3
<1> HIDE DEF Same
<1>10. Nat \subseteq Same
  BY <1>8, <1>9, InductionOn
<1>11. QED BY <1>10 DEF Same, b, c

\* A chain has no more nodes than there are.
LEMMA ChainFits ==
  ASSUME NEW links, NEW n, NEW f, NEW m, IsChain(links, n, f, m)
  PROVE  /\ NodesOf(f, m) \subseteq ListNode
         /\ Cardinality(NodesOf(f, m)) = m
         /\ m <= Cardinality(ListNode) /\ Cardinality(ListNode) \in Nat
<1>1. m \in Nat /\ NodesOf(f, m) \subseteq ListNode /\ IsFiniteSet(ListNode)
  BY ListConstants DEF IsChain, NodesOf
<1>2. IsFiniteSet(1..m) /\ Cardinality(1..m) = m
  BY <1>1, FS_Interval
<1> DEFINE g == [i \in 1..m |-> f[i]]
           T == NodesOf(f, m)
<1>3. g \in Bijection(1..m, T)
  <2>1. g \in [1..m -> T] /\ \A t \in T : \E i \in 1..m : g[i] = t
    BY DEF NodesOf
  <2>2. \A i, j \in 1..m : g[i] = g[j] => i = j
    BY DEF IsChain
  <2> HIDE DEF g, T
  <2>3. QED BY <2>1, <2>2 DEF Bijection, Injection, Surjection, IsInjective
<1>4. Cardinality(T) = m
  <2>1. ExistsBijection(1..m, T)
    BY <1>3 DEF ExistsBijection
  <2> HIDE DEF T
  <2>2. QED BY <1>2, <2>1, FS_Bijection
<1>5. QED BY <1>1, <1>4, FS_Subset, FS_CardinalityType

\* What the properties speak of, in terms of the chain.
LEMMA ChainIs ==
  ASSUME NEW links, NEW n, NEW f, NEW m, IsChain(links, n, f, m)
  PROVE  ChainIn(links, n) = NodesOf(f, m)
<1>1. m \in Nat /\ m <= Cardinality(ListNode) /\ Cardinality(ListNode) \in Nat
  <2>1. m \in Nat
    BY DEF IsChain
  <2>2. QED BY <2>1, ChainFits
<1>2. \A k \in Nat : BehindIn(links, n)[k] = IF k <= m THEN f[m - k] ELSE Null
  BY BehindIs DEF Counted
<1>3. ASSUME NEW x \in ChainIn(links, n) PROVE x \in NodesOf(f, m)
  <2>1. PICK k \in 0..Cardinality(ListNode) : x = BehindIn(links, n)[k]
    BY DEF ChainIn
  <2>2. x \in ListNode /\ k \in Nat
    BY <1>1 DEF ChainIn
  <2>3. k <= m /\ x = f[m - k]
    BY <1>2, <2>1, <2>2, ListConstants
  <2>4. m - k # 0
    BY <2>2, <2>3, ListConstants DEF IsChain
  <2>5. m - k \in 1..m
    BY <1>1, <2>2, <2>3, <2>4
  <2>6. QED BY <2>3, <2>5 DEF NodesOf
<1>4. ASSUME NEW x \in NodesOf(f, m) PROVE x \in ChainIn(links, n)
  <2>1. PICK i \in 1..m : x = f[i]
    BY DEF NodesOf
  <2>2. m - i \in 0..Cardinality(ListNode) /\ m - i \in Nat /\ m - i <= m /\ m - (m - i) = i
    BY <1>1
  <2>3. BehindIn(links, n)[m - i] = x
    BY <1>2, <2>1, <2>2
  <2>4. x \in ListNode
    BY <2>1 DEF IsChain
  <2>5. QED BY <2>2, <2>3, <2>4 DEF ChainIn
<1>5. QED BY <1>3, <1>4

LEMMA LengthIs ==
  ASSUME NEW links, NEW n, NEW f, NEW m, IsChain(links, n, f, m)
  PROVE  LengthIn(links, n) = m
BY ChainIs, ChainFits DEF LengthIn

LEMMA ValuesAre ==
  ASSUME NEW links, NEW n, NEW f, NEW m, NEW vals, IsChain(links, n, f, m)
  PROVE  ValuesIn(links, n, vals) = [i \in 0..(m - 1) |-> vals[f[i + 1]]]
<1>1. LengthIn(links, n) = m /\ m \in Nat
  <2>1. m \in Nat
    BY DEF IsChain
  <2>2. QED BY <2>1, LengthIs
<1>2. \A k \in Nat : BehindIn(links, n)[k] = IF k <= m THEN f[m - k] ELSE Null
  BY BehindIs DEF Counted
<1>3. ASSUME NEW i \in 0..(m - 1) PROVE BehindIn(links, n)[m - 1 - i] = f[i + 1]
  <2>1. m - 1 - i \in Nat /\ m - 1 - i <= m /\ m - (m - 1 - i) = i + 1
    BY <1>1
  <2>2. QED BY <1>2, <2>1
<1>4. QED BY <1>1, <1>3 DEF ValuesIn

-----------------------------------------------------------------------------
(* What a step does to a chain.                                            *)

\* Node x leads to the chain.
Longer(f, m, x) == [i \in 0..(m + 1) |-> IF i <= m THEN f[i] ELSE x]
Shorter(f, m) == [i \in 0..(m - 1) |-> f[i]]

Grown(links, n, f, m, x) ==
  /\ IsChain([links EXCEPT ![x] = n], x, Longer(f, m, x), m + 1)
  /\ NodesOf(Longer(f, m, x), m + 1) = NodesOf(f, m) \cup {x}

Shrunk(links, n, f, m, other) ==
  /\ n \in ListNode
  /\ IsChain([links EXCEPT ![n] = other], links[n], Shorter(f, m), m - 1)
  /\ NodesOf(f, m) = NodesOf(Shorter(f, m), m - 1) \cup {n}
  /\ n \notin NodesOf(Shorter(f, m), m - 1)

LEMMA ChainGrows ==
  ASSUME NEW links, NEW n, NEW f, NEW m, IsChain(links, n, f, m),
         NEW x \in ListNode, x \notin NodesOf(f, m), DOMAIN links = ListNode
  PROVE  Grown(links, n, f, m, x)
<1> DEFINE g == Longer(f, m, x)
           new == [links EXCEPT ![x] = n]
<1>1. m \in Nat /\ m + 1 \in Nat /\ 0 \in 0..(m + 1) /\ m + 1 \in 0..(m + 1) /\ ~(m + 1 <= m)
      /\ 0 <= m
  BY DEF IsChain
<1>2. /\ DOMAIN g = 0..(m + 1) /\ g[m + 1] = x
      /\ \A i \in 0..m : g[i] = f[i]
  BY <1>1 DEF Longer
<1>3. g[0] = f[0]
  BY <1>1, <1>2
<1>4. new[x] = n /\ \A y \in ListNode : y # x => new[y] = links[y]
  OBVIOUS
<1> HIDE DEF g, new
<1>5. \A i \in 1..m : f[i] # x /\ f[i] \in ListNode /\ links[f[i]] = f[i - 1]
  BY DEF NodesOf, IsChain
<1>6. ASSUME NEW i \in 1..(m + 1) PROVE g[i] \in ListNode /\ new[g[i]] = g[i - 1]
  <2>1. CASE i = m + 1
    <3>1. i - 1 = m /\ m \in 0..m
      BY <1>1, <2>1
    <3>2. g[i] = x /\ g[i - 1] = n
      BY <1>2, <2>1, <3>1 DEF IsChain
    <3>3. QED BY <1>4, <3>2
  <2>2. CASE i # m + 1
    <3>1. i \in 1..m /\ i \in 0..m /\ i - 1 \in 0..m
      BY <1>1, <2>2
    <3>2. g[i] = f[i] /\ g[i - 1] = f[i - 1]
      BY <1>2, <3>1
    <3>3. QED BY <1>4, <1>5, <3>1, <3>2
  <2>3. QED BY <2>1, <2>2
<1>7. ASSUME NEW i \in 1..(m + 1), NEW j \in 1..(m + 1), g[i] = g[j] PROVE i = j
  <2>1. (i \in 1..m \/ i = m + 1) /\ (j \in 1..m \/ j = m + 1)
    BY <1>1
  <2>2. \A k \in 1..m : g[k] = f[k] /\ f[k] # x
    BY <1>1, <1>2, <1>5
  <2>3. QED BY <1>2, <1>7, <2>1, <2>2 DEF IsChain
<1>8. IsChain(new, x, g, m + 1)
  BY <1>1, <1>2, <1>3, <1>6, <1>7 DEF IsChain
<1>9. NodesOf(g, m + 1) = NodesOf(f, m) \cup {x}
  <2>1. \A i \in 1..m : g[i] = f[i] /\ i \in 1..(m + 1)
    BY <1>1, <1>2
  <2>2. \A i \in 1..(m + 1) : i \in 1..m \/ i = m + 1
    BY <1>1
  <2>3. m + 1 \in 1..(m + 1)
    BY <1>1
  <2>4. QED BY <1>2, <2>1, <2>2, <2>3 DEF NodesOf
<1>10. QED BY <1>8, <1>9 DEF g, new, Grown

LEMMA ChainShrinks ==
  ASSUME NEW links, NEW n, NEW f, NEW m, IsChain(links, n, f, m), m # 0, NEW other,
         DOMAIN links = ListNode
  PROVE  Shrunk(links, n, f, m, other)
<1> DEFINE g == Shorter(f, m)
           new == [links EXCEPT ![n] = other]
<1>1. m \in Nat /\ m - 1 \in Nat /\ m \in 1..m /\ m - 1 \in 0..(m - 1) /\ 0 \in 0..(m - 1)
  BY DEF IsChain
<1>2. n \in ListNode /\ n = f[m] /\ links[n] = f[m - 1]
  BY <1>1 DEF IsChain
<1>3. DOMAIN g = 0..(m - 1) /\ \A i \in 0..(m - 1) : g[i] = f[i]
  BY DEF Shorter
<1>4. \A y \in ListNode : y # n => new[y] = links[y]
  OBVIOUS
<1> HIDE DEF g, new
<1>5. \A i \in 1..(m - 1) : i \in 1..m /\ i \in 0..(m - 1) /\ i - 1 \in 0..(m - 1) /\ i # m
  BY <1>1
<1>6. \A i \in 1..(m - 1) : f[i] # n /\ f[i] \in ListNode /\ links[f[i]] = f[i - 1]
  BY <1>1, <1>2, <1>5 DEF IsChain
<1>7. \A i \in 1..(m - 1) : g[i] \in ListNode /\ new[g[i]] = g[i - 1]
  BY <1>3, <1>4, <1>5, <1>6
<1>8. \A i, j \in 1..(m - 1) : g[i] = g[j] => i = j
  BY <1>3, <1>5 DEF IsChain
<1>9. g[0] \in {Null, Stray} /\ links[n] = g[m - 1]
  BY <1>1, <1>2, <1>3 DEF IsChain
<1>10. IsChain(new, links[n], g, m - 1)
  BY <1>1, <1>3, <1>7, <1>8, <1>9 DEF IsChain
<1>11. NodesOf(f, m) = NodesOf(g, m - 1) \cup {n} /\ n \notin NodesOf(g, m - 1)
  <2>1. \A i \in 1..m : i \in 1..(m - 1) \/ i = m
    BY <1>1
  <2>2. \A i \in 1..(m - 1) : i \in 1..m /\ g[i] = f[i]
    BY <1>3, <1>5
  <2>3. m \in 1..m /\ f[m] = n
    BY <1>1, <1>2
  <2>4. NodesOf(f, m) = NodesOf(g, m - 1) \cup {n}
    BY <2>1, <2>2, <2>3 DEF NodesOf
  <2>5. QED BY <1>6, <2>2, <2>4 DEF NodesOf
<1>12. QED BY <1>2, <1>10, <1>11 DEF g, new, Shrunk

LEMMA ChainStays ==
  ASSUME NEW links, NEW n, NEW f, NEW m, IsChain(links, n, f, m), NEW x, NEW other,
         x \notin NodesOf(f, m), DOMAIN links = ListNode
  PROVE  IsChain([links EXCEPT ![x] = other], n, f, m)
<1>1. \A i \in 1..m : f[i] \in ListNode /\ f[i] # x /\ links[f[i]] = f[i - 1]
  BY DEF IsChain, NodesOf
<1>2. \A i \in 1..m : [links EXCEPT ![x] = other][f[i]] = f[i - 1]
  BY <1>1
<1>3. QED BY <1>2 DEF IsChain

\* A pointer to nothing.
NoLinks(n) == [i \in 0..0 |-> n]

LEMMA NoChain ==
  ASSUME NEW links, NEW n \in {Null, Stray}
  PROVE  IsChain(links, n, NoLinks(n), 0) /\ NodesOf(NoLinks(n), 0) = {}
BY DEF IsChain, NoLinks, NodesOf

-----------------------------------------------------------------------------
(* The invariant: two chains share out the nodes that were taken.          *)

Share(f, m, s, k) ==
  /\ IsChain(next, front, f, m) /\ IsChain(next, spare, s, k)
  /\ NodesOf(f, m) \cap NodesOf(s, k) = {}
  /\ NodesOf(f, m) \cup NodesOf(s, k) = taken \ leftBehind

LInv ==
  /\ DOMAIN next = ListNode /\ DOMAIN value = ListNode
  /\ leftBehind \subseteq taken /\ taken \subseteq ListNode
  /\ \E f, m, s, k : Share(f, m, s, k)

LEMMA Accounted == LInv => NodesAccounted /\ (Known => (empty <=> Length = 0))
<1> SUFFICES ASSUME LInv PROVE NodesAccounted /\ (Known => (empty <=> Length = 0))
  OBVIOUS
<1>1. PICK f, m, s, k : Share(f, m, s, k)
  BY DEF LInv
<1>2. Chain(front) = NodesOf(f, m) /\ Chain(spare) = NodesOf(s, k)
  BY <1>1, ChainIs, ChainsNow DEF Share
<1>3. IsChain(next, front, f, m) /\ Length = m
  BY <1>1, LengthIs, ChainsNow DEF Share
<1>4. Known => (front = Null <=> m = 0)
  BY <1>3, ListConstants DEF IsChain, Known
<1>5. QED BY <1>1, <1>2, <1>3, <1>4 DEF NodesAccounted, Share, empty

\* No nodes, and a row of no elements.
LEMMA NothingChained ==
  ASSUME NEW links, NEW n \in {Null, Stray}, NEW vals
  PROVE  LengthIn(links, n) = 0 /\ ValuesIn(links, n, vals) = [i \in {} |-> 0]
<1>1. IsChain(links, n, NoLinks(n), 0)
  BY NoChain
<1>2. LengthIn(links, n) = 0
  BY <1>1, LengthIs
<1>3. ValuesIn(links, n, vals) = [i \in 0..(0 - 1) |-> vals[NoLinks(n)[i + 1]]]
  BY <1>1, ValuesAre
<1>4. 0..(0 - 1) = {}
  OBVIOUS
<1>5. QED BY <1>2, <1>3, <1>4

ListStep ==
  /\ \A v \in Datum : PushFront(v) => Stack!Push(v)
  /\ PopFront => Stack!Truncate(Length - 1)
  /\ ReconstructList /\ Known' => Stack!Truncate(0)

\* The two chains after a node has been put at the front.
LEMMA PushShares ==
  ASSUME LInv, NEW v, PushFront(v)
  PROVE  LInv' /\ Stack!Push(v)
<1>1. PICK f, m, s, k : Share(f, m, s, k)
  BY DEF LInv
<1>2. PICK t \in TakenNode :
        /\ spare' = t.spare /\ next' = [next EXCEPT ![t.node] = front]
        /\ value' = [value EXCEPT ![t.node] = v]
        /\ front' = t.node /\ taken' = taken \cup {t.node} /\ leftBehind' = leftBehind
  BY DEF PushFront
<1>3. DOMAIN next = ListNode /\ DOMAIN value = ListNode /\ taken \subseteq ListNode /\ Known
      /\ leftBehind \subseteq taken
      /\ IsChain(next, front, f, m) /\ IsChain(next, spare, s, k)
  BY <1>1 DEF LInv, PushFront, Share
<1>4. \E r, l : /\ t.node \in ListNode /\ t.node \notin NodesOf(f, m)
                /\ IsChain(next', spare', r, l)
                /\ NodesOf(r, l) = NodesOf(s, k) \ {t.node}
                /\ NodesOf(f, m) \cup NodesOf(r, l) \cup {t.node}
                     = (taken \cup {t.node}) \ leftBehind
  <2>1. CASE spare # Null
    <3>1. t.node = spare /\ t.spare = next[spare]
      BY <2>1 DEF TakenNode
    <3>2. k # 0
      BY <1>3, <2>1 DEF IsChain, Known
    <3>3. /\ spare \in ListNode
          /\ IsChain([next EXCEPT ![spare] = front], next[spare], Shorter(s, k), k - 1)
          /\ NodesOf(s, k) = NodesOf(Shorter(s, k), k - 1) \cup {spare}
          /\ spare \notin NodesOf(Shorter(s, k), k - 1)
      <4>1. Shrunk(next, spare, s, k, front)
        BY <1>3, <3>2, ChainShrinks
      <4>2. QED BY <4>1 DEF Shrunk
    <3>4. spare \notin NodesOf(f, m)
      BY <1>1, <3>3 DEF Share
    <3>5. IsChain(next', spare', Shorter(s, k), k - 1)
      BY <1>2, <3>1, <3>3
    <3>6. spare \in taken \ leftBehind
      BY <1>1, <3>3 DEF Share
    <3>7. QED BY <1>1, <3>1, <3>3, <3>4, <3>5, <3>6 DEF Share
  <2>2. CASE spare = Null
    <3>1. t.node \in ListNode \ taken /\ t.spare = Null
      BY <2>2 DEF TakenNode
    <3>2. IsChain([next EXCEPT ![t.node] = front], spare, s, k)
      <4>1. t.node \notin NodesOf(s, k)
        BY <1>1, <3>1 DEF Share
      <4>2. QED BY <1>3, <4>1, ChainStays
    <3>3. IsChain(next', spare', s, k)
      BY <1>2, <2>2, <3>1, <3>2
    <3>4. t.node \notin NodesOf(f, m) /\ t.node \notin NodesOf(s, k)
      BY <1>1, <3>1 DEF Share
    <3>5. QED BY <1>1, <1>3, <3>1, <3>3, <3>4 DEF Share
  <2>3. QED BY <2>1, <2>2
<1>5. PICK r, l : /\ t.node \in ListNode /\ t.node \notin NodesOf(f, m)
                  /\ IsChain(next', spare', r, l)
                  /\ NodesOf(r, l) = NodesOf(s, k) \ {t.node}
                  /\ NodesOf(f, m) \cup NodesOf(r, l) \cup {t.node}
                       = (taken \cup {t.node}) \ leftBehind
  BY <1>4
<1> DEFINE g == Longer(f, m, t.node)
<1>6. IsChain(next', front', g, m + 1) /\ NodesOf(g, m + 1) = NodesOf(f, m) \cup {t.node}
  <2>1. /\ IsChain([next EXCEPT ![t.node] = front], t.node, g, m + 1)
        /\ NodesOf(g, m + 1) = NodesOf(f, m) \cup {t.node}
    <3>1. Grown(next, front, f, m, t.node)
      BY <1>3, <1>5, ChainGrows
    <3>2. QED BY <3>1 DEF Grown
  <2>2. QED BY <1>2, <2>1
<1>7. Share(g, m + 1, r, l)'
  BY <1>1, <1>2, <1>5, <1>6 DEF Share
<1>8. LInv'
  BY <1>2, <1>3, <1>5, <1>7 DEF LInv
<1>9. Stack!Push(v)
  <2>1. Length = m /\ Values = [i \in 0..(m - 1) |-> value[f[i + 1]]] /\ m \in Nat
    <3>1. LengthIn(next, front) = m
      BY <1>3, LengthIs
    <3>2. ValuesIn(next, front, value) = [i \in 0..(m - 1) |-> value[f[i + 1]]]
      BY <1>3, ValuesAre
    <3>3. m \in Nat
      BY <1>3 DEF IsChain
    <3>4. QED BY <3>1, <3>2, <3>3, ChainsNow
  <2>2. Length' = m + 1 /\ Values' = [i \in 0..((m + 1) - 1) |-> value'[g[i + 1]]]
    <3> HIDE DEF g
    <3>1. LengthIn(next', front') = m + 1
      BY <1>6, LengthIs
    <3>2. ValuesIn(next', front', value') = [i \in 0..((m + 1) - 1) |-> value'[g[i + 1]]]
      BY <1>6, ValuesAre
    <3>3. QED BY <3>1, <3>2, ChainsThen
  <2>3. (m + 1) - 1 = m
    BY <2>1
  <2>4. ASSUME NEW i \in 0..m PROVE value'[g[i + 1]] = IF i < m THEN Values[i] ELSE v
    <3>1. CASE i < m
      <4>1. i + 1 \in 1..m /\ i + 1 \in 0..(m + 1) /\ i + 1 <= m /\ i \in 0..(m - 1)
        BY <2>1, <3>1
      <4>2. g[i + 1] = f[i + 1]
        BY <4>1 DEF Longer
      <4>3. f[i + 1] # t.node /\ f[i + 1] \in ListNode
        BY <1>3, <1>5, <4>1 DEF NodesOf, IsChain
      <4>4. value'[f[i + 1]] = value[f[i + 1]]
        BY <1>2, <1>3, <4>3
      <4>5. QED BY <2>1, <3>1, <4>1, <4>2, <4>4
    <3>2. CASE ~(i < m)
      <4>1. i = m /\ m + 1 \in 0..(m + 1) /\ ~(m + 1 <= m)
        BY <2>1, <3>2
      <4>2. g[i + 1] = t.node
        BY <4>1 DEF Longer
      <4>3. QED BY <1>2, <1>3, <1>5, <3>2, <4>2
    <3>3. QED BY <3>1, <3>2
  <2>5. Values' = [i \in 0..m |-> IF i < m THEN Values[i] ELSE v]
    BY <2>2, <2>3, <2>4
  <2>6. QED BY <2>1, <2>2, <2>5 DEF Stack!Push
<1>10. QED BY <1>8, <1>9

LEMMA PopShares ==
  ASSUME LInv, PopFront
  PROVE  LInv' /\ Stack!Truncate(Length - 1)
<1>1. PICK f, m, s, k : Share(f, m, s, k)
  BY DEF LInv
<1>2. DOMAIN next = ListNode /\ DOMAIN value = ListNode /\ taken \subseteq ListNode
      /\ leftBehind \subseteq taken
      /\ IsChain(next, front, f, m) /\ IsChain(next, spare, s, k)
  BY <1>1 DEF LInv, Share
<1>3. /\ next' = [next EXCEPT ![front] = spare] /\ spare' = front /\ front' = next[front]
      /\ value' = value /\ taken' = taken /\ leftBehind' = leftBehind
  BY DEF PopFront
<1>4. m # 0
  BY <1>2 DEF IsChain, PopFront, Known, empty
<1> DEFINE g == Shorter(f, m)
           r == Longer(s, k, front)
<1>5. /\ front \in ListNode
      /\ IsChain([next EXCEPT ![front] = spare], next[front], g, m - 1)
      /\ NodesOf(f, m) = NodesOf(g, m - 1) \cup {front}
      /\ front \notin NodesOf(g, m - 1)
  <2>1. Shrunk(next, front, f, m, spare)
    BY <1>2, <1>4, ChainShrinks
  <2>2. QED BY <2>1 DEF Shrunk
<1>6. front \notin NodesOf(s, k)
  BY <1>1, <1>5 DEF Share
<1>7. /\ IsChain([next EXCEPT ![front] = spare], front, r, k + 1)
      /\ NodesOf(r, k + 1) = NodesOf(s, k) \cup {front}
  <2>1. Grown(next, spare, s, k, front)
    BY <1>2, <1>5, <1>6, ChainGrows
  <2>2. QED BY <2>1 DEF Grown
<1>8. IsChain(next', front', g, m - 1) /\ IsChain(next', spare', r, k + 1)
  BY <1>3, <1>5, <1>7
<1>9. NodesOf(g, m - 1) \cap NodesOf(r, k + 1) = {}
      /\ NodesOf(g, m - 1) \cup NodesOf(r, k + 1) = taken' \ leftBehind'
  <2> HIDE DEF g, r
  <2>1. QED BY <1>1, <1>3, <1>5, <1>6, <1>7 DEF Share
<1>10. LInv'
  <2>1. PICK q : q = r
    OBVIOUS
  <2> HIDE DEF g, r
  <2>2. Share(g, m - 1, q, k + 1)'
    BY <1>8, <1>9, <2>1 DEF Share
  <2>3. QED BY <1>2, <1>3, <2>2 DEF LInv
<1>11. Stack!Truncate(Length - 1)
  <2>1. Length = m /\ Values = [i \in 0..(m - 1) |-> value[f[i + 1]]] /\ m \in Nat /\ m # 0
    <3>1. LengthIn(next, front) = m
      BY <1>2, LengthIs
    <3>2. ValuesIn(next, front, value) = [i \in 0..(m - 1) |-> value[f[i + 1]]]
      BY <1>2, ValuesAre
    <3>3. m \in Nat
      BY <1>2 DEF IsChain
    <3>4. QED BY <1>4, <3>1, <3>2, <3>3, ChainsNow
  <2>2. Length' = m - 1 /\ Values' = [i \in 0..((m - 1) - 1) |-> value'[g[i + 1]]]
    <3> HIDE DEF g
    <3>1. LengthIn(next', front') = m - 1
      BY <1>8, LengthIs
    <3>2. ValuesIn(next', front', value') = [i \in 0..((m - 1) - 1) |-> value'[g[i + 1]]]
      BY <1>8, ValuesAre
    <3>3. QED BY <3>1, <3>2, ChainsThen
  <2>3. ASSUME NEW i \in 0..((m - 1) - 1) PROVE value'[g[i + 1]] = Values[i]
    <3>1. i + 1 \in 0..(m - 1) /\ i \in 0..(m - 1)
      BY <2>1
    <3>2. QED BY <1>3, <2>1, <3>1 DEF Shorter
  <2>4. QED BY <2>1, <2>2, <2>3 DEF Stack!Truncate
<1>12. QED BY <1>10, <1>11

LEMMA ReconstructShares ==
  ASSUME LInv, ReconstructList
  PROVE  LInv' /\ Stack!Truncate(0)
<1>1. front' \in {Null, Stray} /\ spare' \in {Null, Stray}
      /\ leftBehind' = taken' /\ taken' \in {leftBehind, taken, {}}
      /\ next' = next /\ value' = value
  BY DEF ReconstructList, Unset
<1>2. Length' = 0 /\ Values' = [i \in {} |-> 0]
  BY <1>1, NothingChained, ChainsThen
<1>6. PICK a, b : a = front' /\ b = spare'
  OBVIOUS
<1>7. Share(NoLinks(a), 0, NoLinks(b), 0)'
  BY <1>1, <1>6, NoChain DEF Share
<1>3. LInv'
  BY <1>1, <1>7 DEF LInv
<1>4. Values' = [i \in 0..(0 - 1) |-> Values[i]]
  <2>1. 0..(0 - 1) = {}
    OBVIOUS
  <2>2. QED BY <1>2, <2>1
<1>5. QED BY <1>2, <1>3, <1>4 DEF Stack!Truncate

LEMMA ListStart == ASSUME ListInit PROVE LInv /\ Stack!RowInit
<1>1. front \in {Null, Stray} /\ spare \in {Null, Stray} /\ taken = {} /\ leftBehind = {}
      /\ DOMAIN next = ListNode /\ DOMAIN value = ListNode
  BY DEF ListInit, Unset
<1>2. Length = 0 /\ Values = [i \in {} |-> 0]
  BY <1>1, NothingChained, ChainsNow
<1>3. Share(NoLinks(front), 0, NoLinks(spare), 0)
  BY <1>1, NoChain DEF Share
<1>4. QED BY <1>1, <1>2, <1>3 DEF LInv, Stack!RowInit

LEMMA ListKeeps == ASSUME LInv, [ListNext]_listVars PROVE LInv'
<1>1. CASE UNCHANGED listVars
  <2>1. UNCHANGED <<front, spare, next, value, taken, leftBehind>>
    BY <1>1 DEF listVars
  <2>2. PICK f, m, s, k : Share(f, m, s, k)
    BY DEF LInv
  <2>3. Share(f, m, s, k)'
    BY <2>1, <2>2 DEF Share
  <2>4. QED BY <2>1, <2>3 DEF LInv
<1>2. QED BY <1>1, PushShares, PopShares, ReconstructShares DEF ListNext

\* Every node the list took from its heap, its own or a given one, is on one of the
\* two chains and on one only, for any number of nodes and in whatever order they
\* go back and forth.
THEOREM NodesRight == ListSpec => []NodesAccounted
<1>1. ListInit => LInv
  BY ListStart
<1>2. LInv /\ [ListNext]_listVars => LInv'
  BY ListKeeps
<1>3. LInv => NodesAccounted
  BY Accounted
<1>4. QED BY <1>1, <1>2, <1>3, PTL DEF ListSpec

\* A list whose memory was zero is a stack to its client, which empty() tells the
\* truth about, for any number of nodes.
THEOREM StackRight == ListSpec => IsStack
<1>1. ListInit => LInv /\ (Known => Stack!RowInit)
  BY ListStart
<1>2. LInv /\ [ListNext]_listVars => LInv'
  BY ListKeeps
<1>3. LInv => [ListStep]_listVars
  BY PushShares, PopShares, ReconstructShares DEF ListStep
<1>4. LInv => (Known => (empty <=> Length = 0))
  BY Accounted
<1>5. ListSpec => /\ (Known => Stack!RowInit) /\ [](Known => (empty <=> Length = 0))
                  /\ [][ListStep]_listVars
  BY <1>1, <1>2, <1>3, <1>4, PTL DEF ListSpec
<1>6. QED BY <1>5 DEF IsStack, ListStep
=============================================================================
