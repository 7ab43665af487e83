------------------------------ MODULE UtilHeap ------------------------------
(***************************************************************************)
(* util::Heap and util::InlineHeap (Sources/Utilities/Heap.cpp): a bump    *)
(* allocator that carves blocks out of buffers, chains the buffers through *)
(* Node records that it also carves out of them, and frees them together.  *)
(*                                                                         *)
(* An address is a buffer and an offset in it.  The buffer a client hands  *)
(* to the constructor or to reset is `Given`: the heap does not free it,   *)
(* and it begins `skew` bytes after a word boundary (offset 0).            *)
(*                                                                         *)
(* A null from the malloc of a small buffer is written to at once, which   *)
(* ends the process: that malloc does not fail here, the other one may.    *)
(***************************************************************************)
EXTENDS Integers, Sequences

CONSTANTS
  Buffer,            \* the buffers malloc can provide: the bound on them
  Given,             \* the client's buffer
  Size,              \* the sizes clients ask for
  Start,             \* the [skew, capacity] of the buffers clients hand in
  Increment,         \* the increments they ask for
  MinimumIncrement,  \* 0x400 in the code
  DefaultIncrement,  \* 0x2000
  NodeSize,          \* sizeof(Node), 16
  Word,              \* sizeof(char *), 8
  SizeRange,         \* the values of size_t, 1 << 64
  MaxBlocks          \* bound: blocks between two resets

ASSUME HeapConstants ==
  /\ Given \notin Buffer
  /\ Size \subseteq Nat /\ Increment \subseteq Nat
  /\ Start \subseteq [skew: Nat, capacity: Nat]
  /\ Word \in Nat \ {0} /\ \A st \in Start : st.skew < Word
  /\ NodeSize \in Nat \ {0} /\ NodeSize % Word = 0
  /\ MinimumIncrement \in Nat /\ 2 * NodeSize <= MinimumIncrement
  /\ DefaultIncrement \in Nat /\ MinimumIncrement + NodeSize <= DefaultIncrement
  /\ SizeRange \in Nat \ {0} /\ MaxBlocks \in Nat

VARIABLES
  increment,  \* _increment
  list,       \* the nodes from _node on, the head last: [buffer, offset, owns]
  free,       \* _free_start and _capacity: [buffer, offset, capacity]
  limit,      \* [buffer -> where it ends; 0 when malloc may provide it]
  blocks      \* the blocks handed out since the last reset, oldest first

heapVars == <<increment, list, free, limit, blocks>>

-----------------------------------------------------------------------------
Region == Buffer \cup {Given}

Node  == [buffer: Region, offset: Nat, owns: Buffer]
Block == [buffer: Region, offset: Nat, size: Nat]
Space == [buffer: Region, offset: Nat, capacity: Nat]

\* mutant: takes any increment but 0 as it is.
EffectiveAsAsked(inc) == IF inc > 0 THEN inc ELSE DefaultIncrement

EffectiveIncrement(inc) ==
  IF inc = 0 THEN DefaultIncrement
  ELSE IF inc > MinimumIncrement THEN inc ELSE MinimumIncrement

\* The subtraction of two size_t.
Minus(c, size) == (c - size) % SizeRange

\* mutant: the free space keeps its start.
CarveInPlace(f, size) == [f EXCEPT !.capacity = Minus(@, size)]

\* size bytes are taken from the free space f.
Carve(f, size) ==
  [f EXCEPT !.offset = @ + size, !.capacity = Minus(@, size)]

Unused(lim) == {b \in Buffer : lim[b] = 0}

NodeAt(f, b) == [buffer |-> f.buffer, offset |-> f.offset, owns |-> b]

BlockAt(f, size) == [buffer |-> f.buffer, offset |-> f.offset, size |-> size]

\* A buffer of one increment, before anything is carved from it.
Whole(b) == [buffer |-> b, offset |-> 0, capacity |-> increment]

\* A new buffer, which begins with its own node.
Grown(b) ==
  [free  |-> Carve(Whole(b), NodeSize),
   list  |-> Append(list, NodeAt(Whole(b), b)),
   limit |-> [limit EXCEPT ![b] = increment]]

\* The heap as it is.
Current == [free |-> free, list |-> list, limit |-> limit]

-----------------------------------------------------------------------------
(* alloc_.  What a heap hands out after an overrun is not followed.        *)

Overrun == free.offset > limit[free.buffer]

MayAlloc == ~Overrun /\ Len(blocks) < MaxBlocks

AllocFromFree(size) ==
  /\ MayAlloc
  /\ free.capacity >= size
  /\ blocks' = Append(blocks, BlockAt(free, size))
  /\ free' = Carve(free, size)
  /\ UNCHANGED <<increment, list, limit>>

\* The rest of the free space is abandoned; that the new one holds the block
\* beside the node is not checked.
AllocFromNewBuffer(size) ==
  /\ MayAlloc
  /\ free.capacity < size /\ size <= MinimumIncrement
  /\ \E b \in Unused(limit) :
       /\ blocks' = Append(blocks, BlockAt(Grown(b).free, size))
       /\ free' = Carve(Grown(b).free, size)
       /\ list' = Grown(b).list
       /\ limit' = Grown(b).limit
  /\ UNCHANGED increment

\* Where the node of a large block may be carved: alloc<Node>() is an
\* allocation like any other, and may open a buffer.
NodeSpaces ==
  IF free.capacity >= NodeSize THEN {Current} ELSE {Grown(b) : b \in Unused(limit)}

\* mutant: the node of a large block is not linked.
AllocLargeUnlinked(size) ==
  /\ MayAlloc
  /\ free.capacity < size /\ size > MinimumIncrement
  /\ \E h \in NodeSpaces : \E b \in Unused(h.limit) :
       /\ free' = Carve(h.free, NodeSize)
       /\ list' = h.list
       /\ limit' = [h.limit EXCEPT ![b] = size]
       /\ blocks' = Append(blocks, [buffer |-> b, offset |-> 0, size |-> size])
  /\ UNCHANGED increment

\* mutant: the node of a large block is linked at the end of the list.
AllocLargeAtTail(size) ==
  /\ MayAlloc
  /\ free.capacity < size /\ size > MinimumIncrement
  /\ \E h \in NodeSpaces : \E b \in Unused(h.limit) :
       /\ free' = Carve(h.free, NodeSize)
       /\ list' = <<NodeAt(h.free, b)>> \o h.list
       /\ limit' = [h.limit EXCEPT ![b] = size]
       /\ blocks' = Append(blocks, [buffer |-> b, offset |-> 0, size |-> size])
  /\ UNCHANGED increment

AllocLarge(size) ==
  /\ MayAlloc
  /\ free.capacity < size /\ size > MinimumIncrement
  /\ \E h \in NodeSpaces : \E b \in Unused(h.limit) :
       /\ free' = Carve(h.free, NodeSize)
       /\ list' = Append(h.list, NodeAt(h.free, b))
       /\ limit' = [h.limit EXCEPT ![b] = size]
       /\ blocks' = Append(blocks, [buffer |-> b, offset |-> 0, size |-> size])
  /\ UNCHANGED increment

\* malloc fails: the node's space is spent, and the client gets null.
AllocLargeFails(size) ==
  /\ MayAlloc
  /\ free.capacity < size /\ size > MinimumIncrement
  /\ \E h \in NodeSpaces :
       /\ free' = Carve(h.free, NodeSize)
       /\ list' = h.list
       /\ limit' = h.limit
  /\ UNCHANGED <<increment, blocks>>

Alloc(size) ==
  \/ AllocFromFree(size)
  \/ AllocFromNewBuffer(size)
  \/ AllocLarge(size)
  \/ AllocLargeFails(size)

-----------------------------------------------------------------------------
(* reset, and the constructor and destructor that call it.                 *)

\* mutant: keeps the address it is given.
AlignedNot(offset) == offset

Aligned(offset) == ((offset + Word - 1) \div Word) * Word

Pad(st) == Aligned(st.skew) - st.skew

\* mutant: the capacity counts the bytes that alignment skips.
SpaceOfWithPad(st) ==
  [buffer |-> Given, offset |-> Aligned(st.skew), capacity |-> st.capacity]

SpaceOf(st) ==
  [buffer |-> Given, offset |-> Aligned(st.skew),
   capacity |-> Minus(st.capacity, Pad(st))]

Owned == {list[i].owns : i \in 1..Len(list)}

\* Every buffer on the list is freed, and the heap continues in the given one.
Reset(st) ==
  /\ limit' = [b \in Region |-> IF b = Given THEN st.skew + st.capacity
                                ELSE IF b \in Owned THEN 0 ELSE limit[b]]
  /\ list' = <<>>
  /\ free' = SpaceOf(st)
  /\ blocks' = <<>>
  /\ UNCHANGED increment

\* ~Heap, which resets, and the construction of another heap.
Reconstruct(st, inc) ==
  /\ limit' = [b \in Region |-> IF b = Given THEN st.skew + st.capacity
                                ELSE IF b \in Owned THEN 0 ELSE limit[b]]
  /\ list' = <<>>
  /\ free' = SpaceOf(st)
  /\ blocks' = <<>>
  /\ increment' = EffectiveIncrement(inc)

HeapInit ==
  \E st \in Start, inc \in Increment :
    /\ increment = EffectiveIncrement(inc)
    /\ list = <<>>
    /\ free = SpaceOf(st)
    /\ limit = [b \in Region |-> IF b = Given THEN st.skew + st.capacity ELSE 0]
    /\ blocks = <<>>

HeapNext ==
  \/ \E size \in Size : Alloc(size)
  \/ \E st \in Start : Reset(st)
  \/ \E st \in Start, inc \in Increment : Reconstruct(st, inc)

HeapSpec == HeapInit /\ [][HeapNext]_heapVars

-----------------------------------------------------------------------------
(* What the client must grant.                                             *)

\* A small block fits in a buffer beside the buffer's node: not so when the
\* increment is the minimum and the size within NodeSize of it.
SizesFit ==
  \A inc \in Increment, size \in Size :
    size <= MinimumIncrement => size + NodeSize <= EffectiveIncrement(inc)

\* A given buffer reaches to its first word boundary.
StartsFit == \A st \in Start : Pad(st) <= st.capacity

\* No size comes near the range of size_t.
RangeSuffices ==
  /\ \A st \in Start : st.capacity < SizeRange
  /\ \A size \in Size : size < SizeRange
  /\ \A inc \in Increment : EffectiveIncrement(inc) < SizeRange

Careful == SizesFit /\ StartsFit /\ RangeSuffices

-----------------------------------------------------------------------------
(* Properties.                                                             *)

HeapTypeOK ==
  /\ increment \in Nat
  /\ list \in Seq(Node) /\ blocks \in Seq(Block)
  /\ free \in Space
  /\ limit \in [Region -> Nat]

\* _capacity is what is left of the buffer after _free_start, so that the test
\* in alloc_ is the test for room in the buffer.
CapacityExact == free.offset + free.capacity = limit[free.buffer]

\* Every block, and every node, lies in a buffer that is allocated.
InBounds ==
  /\ \A i \in 1..Len(blocks) :
       blocks[i].offset + blocks[i].size <= limit[blocks[i].buffer]
  /\ \A i \in 1..Len(list) :
       list[i].offset + NodeSize <= limit[list[i].buffer]

Apart(p, n, q, m) ==
  p.buffer = q.buffer => p.offset + n <= q.offset \/ q.offset + m <= p.offset

\* No two blocks overlap, and no block overlaps a node, which the client would
\* overwrite.
Disjoint ==
  /\ \A i, j \in 1..Len(blocks) :
       i # j => Apart(blocks[i], blocks[i].size, blocks[j], blocks[j].size)
  /\ \A i \in 1..Len(blocks), j \in 1..Len(list) :
       Apart(blocks[i], blocks[i].size, list[j], NodeSize)
  /\ \A i, j \in 1..Len(list) : i # j => Apart(list[i], NodeSize, list[j], NodeSize)

\* reset frees from the head on: the buffer a node lies in is still allocated
\* when its turn comes, and no buffer has two nodes.
ResetReadsLiveNodes ==
  \A i, j \in 1..Len(list) : i < j =>
    list[j].owns # list[i].buffer /\ list[j].owns # list[i].owns

\* Every buffer malloc provided is on the list and will be freed by reset.
NoBufferLeaks == {b \in Buffer : limit[b] # 0} = Owned

\* A block before p in its buffer is not of whole words: alloc<T> asks for
\* sizeof(T) bytes, and only reset aligns.
Spoiled(p, bs) ==
  \E j \in 1..Len(bs) :
    /\ bs[j].buffer = p.buffer /\ bs[j].offset < p.offset
    /\ bs[j].size % Word # 0

\* Blocks and nodes begin at word boundaries, except behind a block that is not
\* of whole words, until its buffer is reset.
PlacedAtWords ==
  /\ \A i \in 1..Len(blocks) :
       blocks[i].offset % Word # 0 => Spoiled(blocks[i], blocks)
  /\ \A i \in 1..Len(list) :
       list[i].offset % Word # 0 => Spoiled(list[i], blocks)

\* The free start passes the end of its buffer only for a small block in a heap
\* whose increment leaves no room for it beside the node, or when the given
\* buffer ends before its first word boundary.
OverrunsOnlyWhen ==
  [][~Overrun /\ Overrun' =>
       \/ /\ Len(list') = Len(list) + 1
          /\ blocks'[Len(blocks')].size \in
               (increment - NodeSize + 1)..MinimumIncrement
       \/ free'.buffer = Given /\ limit'[Given] < Word]_heapVars
=============================================================================
