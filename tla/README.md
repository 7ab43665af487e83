# OpenAttributeGraph: a TLA+ verification project

OpenAttributeGraph is a re-implementation of Apple's AttributeGraph framework. At this commit the graph engine
itself is still to be written: most C functions over attributes, subgraphs and values are stubs. What exists and
runs is the ground it will stand on, and this project is about that ground: the hash table and the heap of
`Utilities` with the list and the owners beside them, `OAG::vector`, the page allocator of `data::table`, the life
of graphs, the thread-local current subgraph and update with their reference counts, tuple values, and the debug
server.

Paths below are relative to `src/Sources/`; `Cxx/` stands for `OpenAttributeGraphCxx/`.

## 1. Inventory

| Component | State | Operations | Interacts with | What is hard |
|---|---|---|---|---|
| `util::UntypedTable`, `Table` (`Utilities/HashTable.cpp`) | buckets of chained nodes, a list of spare nodes, `_count`, the mask | `insert`, `remove`, `remove_ptr`, `lookup`, `for_each`, growth, destruction | takes nodes and small bucket arrays from a `Heap`; calls its client back in the middle of `insert`, `remove`, `for_each` | reentrant calls from callbacks, iteration during change, growth, what is freed how, `int` shifts |
| `util::Heap`, `InlineHeap` (`Utilities/Heap.cpp`) | free start and capacity, a list of nodes that lie in the buffers they chain | `alloc_`, `reset`, construction, destruction | `malloc`, a client's buffer; used by the table and `ForwardList` | unsigned wrap-around, nodes inside buffers that `reset` frees, a failing `malloc` |
| `data::table` (`Cxx/Data/table.cpp`) | page maps, metadata maps, the region, counters, a lock | `alloc_page`, `dealloc_page_locked`, `grow_region`, `raw_page_seed` | `zone` (allocates from it), `ptr` (turns offsets into addresses) | remapping while clients hold addresses, bitmap scans across maps, 32-bit sizes |
| `data::zone`, `ptr`, `page` | a zone's pages and free bytes | `alloc_slow`, `clear` | `data::table` | nothing calls them yet |
| `Subgraph` (`Cxx/Graph/OAGSubgraph.cpp`, `OpenAttributeGraph/Graph/Subgraph.swift`) | CF object with a reference count; a thread-local current subgraph | create, get and set current, `apply`; children, observers and trees are stubs | CoreFoundation reference counts; the update key of `Graph` | threads that share subgraphs, nested `apply` with deferred restoration, thread ends |
| `Graph`, `Graph::Context` (`Cxx/Graph/OAGGraph.cpp`, `GraphContext.cpp`) | CF object with a context and its invalid flag; a thread-local update | create, create shared, invalidate, accessors, set and clear update | `Subgraph` keeps a reference to the context without retaining it | lifetime of contexts, invalidation racing use, thread-specific keys that are 0 before the first graph |
| `OAG::DebugServer` (`Cxx/DebugServer/DebugServer.mm`) | a listening socket, connections, dispatch sources, the shared server | start, stop, shutdown, run, moves; accept and connection handlers | clients over TCP, the main queue, the profiler calls of `Graph` | handlers that block, a vector that changes under iteration, moves, byte counts, partial failure |
| `DebugClient` (`OpenAttributeGraphShims/DebugClient.swift`) | one connection | connect, send, receive, disconnect | the server | the other end of the protocol |
| `OAG::vector` (`Cxx/Vector`) | a stack or heap buffer, size, capacity | push, pop, clear, reserve, shrink, resize | `malloc`; used by the table, the zone, the server | growth across stack and heap, elements moved bit by bit, pushing an own element, a failing `malloc` |
| `util::ForwardList` | a list and spare nodes | push, pop, destruction | `Heap` | nodes that are reused, uninitialised pointers |
| `cf_ptr`, `objc_ptr`, `free_deleter` | one reference | copy, move, reset | CoreFoundation | order of release and retain, objects freed in the middle of an assignment |
| Tuple values (`Cxx/Runtime/OAGTupleType.cpp`, `TupleType.swift`) | memory of the client, with elements at the offsets of the metadata | set, get, destroy, destroy one, with buffer | value witnesses | copy options, offsets, what is initialised |
| `OAGMakeUniqueID`, `ClosureFunction` | an atomic counter; two pointers | | | none |
| Attributes, rules, weak attributes, Swift layer | | stubs, and Swift wrappers that pass identifiers on | | not written yet |
| Runtime: type identity, metadata, comparison | | reads compiler-emitted metadata | | pure |
| Platform, SwiftBridging, SwiftCorelibs, shims, Misc | | logging, header shims, adapters | | pure I/O or no code |

What makes each of the modelled parts correct:

- **Table**: it is a dictionary to its client, also for calls made from its callbacks; a key has one entry, in the
  bucket `lookup` searches; `_count` is exact; every key and value taken is given back once; `for_each` visits
  every entry once and ends; every bucket array is freed once.
- **Heap**: blocks are disjoint and in bounds, and aligned until one of odd size; `reset` frees every buffer once
  and reads no node in a buffer it has freed; the capacity wraps for two reasons only.
- **Page table**: pages are handed out once; a page stays in the region its address was computed with;
  `raw_page_seed` finds it.
- **Current subgraph**: counts are exact between any two CF calls; nothing that is current, or about to be
  released, is freed by another thread; `apply` restores what its caller had.
- **Server**: a connection belongs to one living server; no socket leaks; requests are answered in order; every
  ready connection is served once per round; requests are served and `run` ends; each blocking call moves its own
  bytes, unless they come in pieces and more is there.
- **Vector, list**: to its client each is a row of elements; no handle is leaked or destroyed twice when elements
  move between buffers, no node is lost or used twice; a call leaves what is defined for named reasons only.
- **Owners, tuples**: counts are exact after every assignment, also of an owner to itself or to what it owns.
- **Graph**: a context is destroyed once and not used afterwards, if no invalidation overlaps another call; an
  update is read by the thread that set it, once the key is made.

## 2. Modules and plan

| Module | Models | Checked in | Proofs |
|---|---|---|---|
| `Dictionary` | abstract: a map with put, delete, clear | as a property of `UntypedTable` | |
| `UntypedTable` | `util::UntypedTable` | `MCUntypedTable` | `UntypedTableProofs` |
| `UtilHeap` | `util::Heap`, `InlineHeap` | `MCUtilHeap` | `UtilHeapProofs` |
| `DebugServer` | `OAG::DebugServer` and its clients | `MCDebugServer` | `DebugServerProofs` |
| `BlockingIO` | `blocking_read`, `blocking_write` | `MCLibrary` | `DebugServerProofs` |
| `PageTable` | `data::table` | `MCPageTable` | `SharedProofs` |
| `CurrentSubgraph` | the current subgraph, `apply`, reference counts | `MCCurrentSubgraph` | `CurrentSubgraphProofs` |
| `ElementSequence` | abstract: a row that grows and shrinks at its end | as a property of `Vector` and `ForwardList` | |
| `Vector` | the three templates of `OAG::vector` | `MCLibrary` | `RowProofs` |
| `ForwardList` | `util::ForwardList` | `MCLibrary` | `RowProofs` |
| `OwnerPtr` | `cf_ptr`, `objc_ptr` | `MCLibrary` | `HandleProofs` |
| `TupleValue` | tuple values, `UnsafeMutableTuple` | `MCLibrary` | `HandleProofs` |
| `GraphContext` | creation, sharing, invalidation and release of graphs | `MCLibrary` | `SharedProofs` |
| `ThreadKeys` | the thread-specific keys, `withoutUpdate` | `MCLibrary` | `SharedProofs` |
| `SharedConstants` | the constants these share: threads, objects, null, raw memory | | |
| `CommonLemmas` | | | lemmas that several of the proofs cite |

`MCLibrary` extends the components that need no instance of their own and checks them side by side: a variable
`which` picks the one a behaviour is about, and the others rest. `UtilHeap` is in it a second time, with constants
that let its capacity wrap.

`Dictionary` is what a table promises; `UntypedTable` implements it under the mapping `lookup <- [k \in Key |->
Lookup(k)]`. `BlockingIO` is the detail below the whole reads and writes of `DebugServer`, and `UtilHeap` the one
below the fresh nodes of `UntypedTable`.

`Vector` and `ForwardList` both implement `ElementSequence`, the vector under `count <- size` and the elements a
client sees through `data()`, the list with its front as the end of the row. `GraphContext`, `ThreadKeys` and
`CurrentSubgraph` are three views of the same calls and are not composed: the code ties a subgraph to the context
of its graph by an address that keeps nothing alive, and a composition would have nothing more to promise.

Built in this order, most used code first: table, its proofs and refinement; heap and its proofs; server and byte
loops; page table; current subgraph; vector, list, owners, tuples, graphs and keys; then the proofs, until every
safety property that a run finds to hold was a theorem too. When the attribute graph itself is written, its
modules go on top of `UntypedTable`, `PageTable` and `CurrentSubgraph`.

## 3. The models

### UntypedTable

Nodes are model values and carry what the code keeps in them: which list they are on, key, value and hash. A chain
is not a linked list in the model: each node has a rank, and `next` is the node of the next smaller rank in the
bucket. Growth (`Rehash`) turns the ranks round as the code's loop does. An operation without callbacks is one
action, because the table has no lock and one thread. An operation with callbacks is three: `BeginReplace`,
`ReplaceValueCallback`, `EndReplace`, and likewise for `remove`; `BeginWalk`, `Advance` for `for_each`. Between
them `frame` says what is under way, and the client may call the table (`NestedReplace`, `NestedRemove`, insert,
lookup). Reentrancy is bounded at one level: callbacks of nested calls do not call back.

What a client must grant is an assumption (`HasherAgreesWithKeyEqual`) or a guard: a callback of `insert` does not
remove the entry that is being replaced (`Replaceable`, `Removable`), and the body of `for_each` does not remove
the entry it visits or make the table grow unless `WalkMayUnlink` (the code then follows the spare list or another
chain; the hazard list has both).

### UtilHeap

An address is a buffer and an offset. `free` is `_free_start` with `_capacity`, subtraction is that of `size_t`
(`% SizeRange`), `list` is the chain of `Node` records with the place each was carved from. `alloc_` has four
outcomes, an action each. A null from the `malloc` of a small buffer is written to at once, so that one does not
fail in the model; the one of a large block may. After a wrap (`Overrun`) nothing more is followed. `Careful`
names what a client must grant: blocks fit beside a node in one increment, given buffers reach their first word,
no size comes near the range of `size_t`. It does not ask for sizes of whole words: the free start is aligned by
`reset` only, so that `PlacedAtWords` speaks of everything but what lies behind a block of odd size in its buffer
(`Spoiled`).

### DebugServer and BlockingIO

All server code runs on the main thread; `main` is what it does and where it is blocked, `run` is the state of the
select loop, and clients act between any two steps. `conns` is the vector, `serverOf` the pointer of a connection,
`source` the context of a dispatch source (which a move leaves with the old object). A handler is three steps, for
its three blocking calls. Of what clients send, the model knows headers and commands; a "stranger" is a header
that ends its connection by itself, because of its token or because its length is zero; a command may be one that
`receive` does not answer. `owing` are the clients that have sent a header and not yet what belongs to it.

`BlockingIO` has the two byte loops, with the byte counts the code passes: after a short transfer `Asked` grows by
what was moved. `DebugServer` carries the result over: a `Read` takes its part, or, because the part came in two
pieces, its part and more of what is in the stream, up to the middle of a later part, of which a `"rest"` stays.
The connection is then in `lost`, as it is after a write that went out in two pieces. What such a read stores
behind its buffer is not modelled.

An event of an accept source calls `accept_handler` on the source's context, which after a move is the object
moved from: if it is gone, that is a `fault`; if it has no socket, `accept` fails; if it has another's, the model
takes the event when a client waits there, where the code would wait for one. `run` without a socket is a `fault`
too. A fault, and two objects with the same connections, end the model (`Defined`).

`run` leaves its loop by `RunReturns` (somebody was accepted and nobody is left) and by `RunGivesUp` (`select`
failed or timed out). `RunAgain` is line 220: `errno` was `EAGAIN`, perhaps from an earlier call, as a timeout
does not set it. From then on, until `select` reports somebody, a timeout may find it again (`again`), and the
model leaves open whether it does.

### PageTable

The lock makes `alloc_page` one step. The scan is modelled as it is written: each map is inverted in place, the
look ahead does not influence the choice, and the last map that offers a page wins. `dealloc_page_locked` computes
the index of the first page as -1; the access far behind the maps faults, or goes unnoticed and the loop continues
with pages 0, 1, ..., and both are in the model. Sizes and ends of runs are computed in 32 bits, as in the code: a
run whose end wraps passes line 203 (`Wraps`), and if its header lies outside the region, that is a failure.
`RawPageSeed` asks `raw_page_seed` for a run that a client holds; bits from 64 on are `"out of range"`, which ends
the process. Both tables of the program are initial states: the one `ensure_shared` constructs, and the zeroed
`_shared_table_bytes` of every other source file, on which the first allocation ends the process. `runs` and
`totals` are history: what clients hold, and the headers written, by their offset.

### CurrentSubgraph

`OAGSubgraphSetCurrent` is three steps: store, `CFRetain`, `CFRelease`. `applies` is the stack of locals of
`Subgraph.apply`; its deferred block is `Leave` (a call of `OAGSubgraphSetCurrent`), then `Return` (`setUpdate`,
release of the local). Threads hold references, pass them on and drop them at any time; a caller keeps the
subgraph it applies, as Swift guarantees of `self`. `clearUpdate` leaves the update as it is, which is what the
code does (`Cxx/Graph/OAGGraph.cpp:195`). The keys have no destructor, so a thread that ends leaves its reference
behind (`orphans`).

### Vector

`cells` is the memory behind `data()`, `room` how much of it there is, `capacity` what the code believes. An
element is a handle on a counted object and `live` counts the handles the vector constructed, so that a lost or
doubled destruction shows although elements move bit by bit. `GoodSize` is `malloc_good_size`, which may give more
than asked. The three templates share the actions and differ in `Reserved`, `ShrinkToFit` and `Resize`, as in the
code. A call whose behaviour is undefined sets `fault` and ends the behaviour.

### ForwardList

Nodes, `next` fields and the two chains as in the code; a node keeps its old value and link when it is popped, so
that reuse could bring them back. The constructors leave the pointers as they find the memory: zero, or `Stray`,
from where nothing is followed. A list has a heap of its own, which its destructor deletes, or is given one, whose
nodes stay taken (`leftBehind`) until its client resets it. `Stray` is not null, so that `empty` is false of it:
`IsStack` is about lists whose memory was zero, as that of `create()` in `TestingSupport.hpp:39` is.

### OwnerPtr

Owners are variables of the client and, one for each object, members of the objects. `Releasing` is one
`CFRelease`: it gives a reference up, and if the object is freed its member's is the next to give up. `Released`
repeats it, at most as often as there are objects, by a recursive function. Every assignment releases first, then
reads the other owner, as the code does; if that owner or its object was freed by then, `misuse` is set and the
behaviour ends.

### TupleValue

A buffer with elements at the offsets of a `Layout`, elements that the client owns (`own`), and the handles on
each object. Each access checks index and type as the C function does, and ends the process on failure; clients
try every index of the tuple and one more. What the function then applies a value witness to is computed as in the
code, and `astray` if that is no element. With `MayMisfit` clients choose any copy option, and set, get and
destroy what is not initialised; without it they choose what fits. What is initialised over, or left in the buffer
when the closure returns (`Return` frees it whatever it holds), is `leaked`.

### GraphContext and ThreadKeys

An invalidation is three steps (test, `~Context`, flag), a call that uses the context two (test, use), because
nothing is locked; creation and the last release are one each. `overlapped` is history: the graphs on which an
invalidation overlapped another call. `ThreadKeys` has the two keys as numbers, 0 before they are made; what
`pthread_getspecific` gives under key 0 depends on whether another library made that key (`foreignKey`). `early`
is history: the threads that used the update's key while it was 0.

## 4. The runs

| Run | Bounds | Shows |
|---|---|---|
| `table_custom` | 4 keys of which 2 are equal, 2 values, 3 nodes, 1 bucket at first, load factor 1 | structure, reference counts, freed arrays and the refinement of `Dictionary`, through growth and nested calls |
| `table_walk` | 4 keys, 4 nodes, `IntRange` 4, compared by pointer | `for_each` with a changing table; the load bound until the `int` turns negative |
| `heap_fit` | 4 buffers, 3 sizes (one odd, one large), 4 blocks between resets | every safety property for careful clients |
| `server_calls` | 2 objects, 2 clients, 2 requests, 2 starts, 1 move | safety over every order of API calls and client steps |
| `server_liveness` | 1 object, 2 clients, 1 request each | liveness if clients hang up some day, but for the loop that an old `EAGAIN` keeps going |
| `server_silent_client` (violation) | the same, clients may stay silent | one silent client stops the server |
| `io_pieces` (violation) | 8 parts, sent ahead | a short read takes bytes of the next part |
| `pages_hold` | 2 pages per map, 4-byte pages, capacities 8, 32, 128, numbers of 8 bits, 4 runs of 0 to 63 pages | runs stay in their region, `raw_page_seed` finds or throws |
| `pages_overlap` (violation) | the same, runs of 1 to 9 pages | a page in use is handed out |
| `subgraph_current` | 2 threads, 2 subgraphs, 2 applies under way | exact counts, nothing live is freed, `apply` restores |
| `library` | byte loops: 8 parts. Heap: 3 buffers, 5 sizes down to 1 byte, smallest increment, 3 blocks. Vector: 2 objects, up to 4 elements, 2 on the stack. List: 3 nodes, 2 values. Owners: 3 objects, 2 variables. Tuples: the empty one, a pair with padding, a triple, no tuple; any option, 1 handle leaked. Graphs: 2 threads, 2 graphs. Keys: 2 threads, 4 keys, 1 update and null | the byte loops slip in one case only, and they end; the heap's capacity wraps for no other reason than the two `Careful` excludes; the vector and the list are rows of elements, with exact handles and nodes; counts of owners and tuple elements are exact; a context is destroyed once; an update is kept |
| `tuple_destroy` (violation) | the tuples above, options that fit | a value witness is applied to bytes that are no element |

Why these bounds are enough to be of interest: 3 nodes with one bucket and load factor 1 grow twice, so that
chains split, merge and keep spare nodes; 4 nodes give `for_each` chains of two on both sides of where it is. Two
increments and one large block make every path of `alloc_` follow every other. Two clients suffice for the gap
`close_connection` fills and for one client that blocks the other. Capacities 8, 32, 128 let one run grow the
region twice at once. Two nested applies of one thread, or one in each of two, with two subgraphs tell the
restored subgraph from every other. Four elements take a vector from its stack buffer of two to the heap, through
another growth, and back; three nodes put two in use and one aside; three objects make a chain that one release
frees at once. Two threads on one graph are every overlap of two calls.

`CHECK_DEADLOCK FALSE` stands in the runs where the system really may stop: clients have used up their bounded
requests, the process has ended, or every thread has.

## 5. Fairness

- Table (`FairSpec`): weak fairness of `Return` only, callbacks return and `for_each` goes on. Single-threaded
  code needs no more.
- Server (`PatientSpec`): weak fairness of the handler and of the select loop (one thread, whose calls return if
  they can); strong fairness of the dispatch events, because libdispatch serves every source that stays ready
  while the main queue alternates between them; a client that sent a header sends the command that belongs to it.
  `FairSpec` adds that clients hang up some day, which nothing in the server can enforce: without it
  `server_silent_client` shows that the server stops. A read of a stream that is out of step may ask for more than
  ever comes, so it is fair only at the end of the stream (`HandlerReturns`). `RunGoesOn` grants that `select`
  reports a connection, which can always be written to, and that a timeout ends the loop where `errno` is not an
  old `EAGAIN`; nothing is granted of that `errno`, and `Served` and `RunEnds` name the loop that finds it for
  ever, with nobody to serve (`Spins`).
- Byte loops (`IOFairSpec`, and the same conditions in `LibSpec`): a call that can return does, and the peer hangs
  up some day.
- Everything else: safety only. No other call waits for anything.

## 6. What is proved

Every invariant and every safety or refinement property that a run finds to hold is a theorem, for every value of
the constants that satisfies the named assumptions. What the provers are given is what the runs check: each of
these properties is an INVARIANT or a PROPERTY of a run too.

### UntypedTableProofs

- `IInv`, the conjunction of `TypeOK`, `UniqueKeys`, `InItsBucket`, `CountExact` and `ReplacesItsKey`, is
  inductive. No conjunct is alone: a key is unique because a search in its bucket would have found the other
  entry, which needs `InItsBucket`; removal unlinks the node the frame names, which needs the frame to be right,
  part of `TypeOK`; `CountExact` needs finite nodes that are linked at most once. From `IInv` follow
  `TypeCorrect`, `KeysUnique`, `BucketsRight`, `CountRight` and `EntriesFound`.
- `RefsRight` follows the set of nodes that hold each key and value, which a step changes by one node at most.
- `ArraysRight`; and `LoadRight`, for a `MaxSize` that an `int` cannot hold times the load factor
  (`MaxSizeBeyondInt`; a smaller limit would stop growth before the overflow).
- `Implements`: every step of the table is one step of `Dictionary` or none, the effect of an operation with
  callbacks being at its end.
- `WalkRight`: `WalkInv` says of a walk that no entry it has seen lies ahead of it and that every entry it owes
  does. What is ahead is a matter of buckets and ranks, so this rests on `Ranked`: the ranks of a chain are
  distinct and at most its length. Growth keeps `Ranked` only because entries that share a bucket of the larger
  table shared one of the smaller (`HalvesMerge`). The theorem assumes `~WalkMayUnlink`, the promise of the body
  that section 3 states, without which the property is false.

Assumptions: `TableConstants`, `HasherAgreesWithKeyEqual`.

### UtilHeapProofs

- `HeapInv` says of every node where it lies, that the buffers of nodes nearer the tail are not freed before them,
  that carved space ends where the free space begins, and that a buffer is taken exactly if it is on the list.
  From it `CapacityRight`, `BlocksInBounds`, `BlocksDisjoint`, `ResetSafe`, `NothingLeaks`, and, for blocks of any
  size, `WordsRight`: the free start too is at a word boundary or behind a block of odd size, which `AtWords`
  adds. Assumptions: `HeapConstants`, `Careful`.
- `OverrunsRight` is about clients that are not careful, and so does without `Careful`; it needs, beside
  `HeapConstants`, only that no size comes near the range of `size_t` (`RangeSuffices`). Its invariant
  `OverrunInv` is weaker: until an overrun the account of the free space is exact, so that the step which overruns
  is seen to have one of the two causes.

### DebugServerProofs

- `DInv` adds to `TypeOK`, `OwnedOnce`, `SocketsHeld` and `RequestsAccounted` that a client in the queue of a
  socket has no connection and is there once (`QueueOK`); that a handler works for a connection that is open
  (`MainOK`), which holds because nothing on the main thread runs while it waits in a read; that the loop of `run`
  scans from the front for connections in its list (`RunOK`); and that headers and commands alternate in what a
  client has sent (`Framed`), as long as its stream is in step. The last makes `RequestsAccounted` inductive: what
  is unread is every second part, so that reading a header leaves it alone and reading a command takes its first.
  From `DInv` follow `OwnedRight`, `SocketsRight`, `RequestsRight` and `RoundRight`. A step that makes two objects
  share connections ends what the model says of the lists, and the proof. Assumption: `DebugServerAssumption`.
- `AnswersRight` is about streams out of step too: what was answered, is in hand and waits to be read lies, in
  that order, in what was sent, since a read that takes too much cuts the stream from the front.
- `SlipsRight`, about `BlockingIO`: with any peer, a call leaves its part in one case only, when the part came in
  pieces and more was there to move. `io_pieces` shows that the case arises.

### SharedProofs

- `ContextRight`. `GInv` adds that a caller in the middle of a call holds its graph, which therefore lives; that a
  graph not yet created is untouched; and, for each graph, how often `~Context` has run, given its flag and the
  calls between their steps, if no two of them overlapped. Assumption: `GraphConstants`.
- `UpdateRight`. `KInv` adds that one thread at most is inside `dispatch_once`, and makes the update's key first;
  that a key not made yet is null on every thread, so that `pthread_key_create` gives one that reads as the update
  each thread has set, none; and that what `withoutUpdate` saved is what was set. Assumption: `KeyConstants`.
- `TablesRight`, `RegionsRight` and `SeedsRight`, about `PageTable`. `PInv` says that each region contains the
  earlier ones (`Rising`), and of every run ever handed out, held or not, that its last page is in the region it
  was computed with (`Placed`) and that its first bit is in maps that reach that far (`Marked`). It says nothing
  of `page_maps` but their number, and so survives every inversion and what giving pages back does to them: the
  two properties hold although pages are handed out twice. What had to be shown of the operations is that the
  growth of the region ends, since capacities rise and stay below `IntRange`, and that it ends with room for the
  run, if its end does not wrap. Nothing is assumed of the sizes but that they have 32 bits. Assumption:
  `TableConstants`.

### CurrentSubgraphProofs

`SInv` adds to `RefsExact` that the call of `OAGSubgraphSetCurrent` under way knows what is current, that a new
current subgraph is kept by a variable of the client or by the local of the ending `apply` until `CFRetain` is
through, and that the callers of nested applies keep the subgraphs they applied. Owners are of five kinds,
finitely many of each, and every step adds or takes one owner of one kind, or passes one on, so that `CountsRight`
is a sum that moves with the count. From it `NamesRight`, since what is named has an owner, and `RestoresRight`,
which holds of every stack of applies. Assumption: `CurrentConstants` (in particular, finitely many threads).

### RowProofs

- The vector. `VInv` says that `capacity` is the room behind `data()`, that a vector on the stack has exactly
  `StackSize` cells and one on the heap no fewer, and that the elements are within the capacity. Without it a
  growth could copy more than there is. From it `RoomRight`; `FaultsRight`, that every call that leaves what is
  defined does so for one of the three named reasons; `ImplementsRow`, the refinement of `ElementSequence`, one
  step of the row for each call; and `VectorHandlesRight`, where the cells that hold an object are counted, and
  every call is either a move of all elements, which keeps the count, or changes one end of the row. Assumption:
  `VectorConstants` (in particular, `malloc_good_size` gives no less than asked).
- The list. `LInv` says that the two chains are sequences, numbered from their ends, that share out the nodes
  taken from the heap: none is in both, or twice in one, or in neither. From it `NodesRight`, and `StackRight`,
  the refinement of `ElementSequence`: what is reused is the head of the spare chain, so no value of the row is
  written over. Assumption: `ListConstants`.

### HandleProofs

- Owners. In the middle of a cascade of releases the counts are exact but for the one reference about to be given
  up (`Exact`), objects that something else than the owner under assignment leads to stay (`Kept`), and each
  release but the last frees an object, so that there are no more of them than objects and the repetition of
  `Released` suffices. From this `CountsRight`, and `AssignmentRight`: an assignment from a variable, or a reset
  to an object the client holds, reads nothing that the release before it freed. Assumption: `OwnerConstants`.
- Tuples. `TInv` adds to `TupleHandlesExact` the types of the memory and that it holds nothing while no tuple is
  in use. From it `TupleHandlesRight`, for every layout whose offsets are within the buffer, with any number of
  elements, and for clients that choose fitting options and those that do not. That a value witness meets an
  element only is not proved: `tuple_destroy` shows that it is false. Assumption: `TupleConstants`.

### CommonLemmas

Induction over the natural numbers, for a given set of them, from well-foundedness; that a recursive function over
the naturals is what its definition says; and how the number of places that hold something changes with one place.

### Only model-checked

The liveness properties, which are out of the prover's reach as ENABLED is: `ForEachReturns` of the table,
`Served` and `RunEnds` of the server, `LoopEnds` of the byte loops. And the four runs that find a violation, where
there is nothing to prove. That the bounded instances of TLC behave as the code is what sections 3 and 4 argue; a
proof says nothing about that.

## 7. Where code and documentation disagree

Shown by a run:

- `io_pieces`: `blocking_read` asks for `count + offset` bytes after a short read (`DebugServer.mm:290`).
- `server_silent_client`: `run` selects for writing and then reads (`DebugServer.mm:217`).
- `tuple_destroy`: `OAGTupleDestroyElement` adds the index, not the offset, to the address of the tuple
  (`OAGTupleType.cpp:195`), and goes on to read a type that is no tuple as one (after line 187).
- `pages_overlap`: `_page_maps[map_index].flip()` inverts the stored map (`table.cpp:145`), and the look ahead has
  no effect.

Met while modelling, and in the models as the code has them, without a run of their own:

- `DebugServer.hpp:104` promises null when startup failed; `start` stores and returns a server without a socket.
- `DebugServer.hpp:80` says `shutdown` closes all connections; it closes the listening socket.
- `table.cpp:254`: `raw_page_seed` takes the page number modulo 512 for a bit of a map of 64; `test` throws for
  most pages, in a `noexcept` function. `table.cpp:203`: the end of a run is computed in 32 bits and may wrap.
- `DebugServer.hpp:87` gives `run(-1)` as the way to run for ever; it is a negative `timeval`, and `select` fails.
- `DebugServer.hpp:53`: moving a server copies the vector's buffer, as `OAG::vector` has no move operations; both
  objects then own the connections. The model leaves its domain (`Defined`) when a server with connections moves.
- `OAGGraph.cpp:195`: `OAGGraphClearUpdate` never changes the update.
- `table.cpp:227`: the index of a returned page is always -1.
- `vector.tpp:236`: `shrink_to_fit` of a vector without a stack buffer gives its elements up and keeps `_size`.
- `vector.tpp:336`: `reserve_slow` of the template for `unique_ptr` ignores a failing `malloc`; `push_back` then
  constructs behind the buffer. `vector.tpp:252`: growth frees the block an argument of `push_back` may lie in.
- `vector.hpp:24`: `_stack_buffer` is an array of `T`, so that its elements are constructed and destroyed by the
  language as well as by the vector. The model has the vector's own calls only.
- `ForwardList.hpp:68` and `:70` leave `_front` and `_spare` unset. `ForwardListTests.swift:19` expects a new list
  to be empty, which holds there because `create()` zeroes the object (`TestingSupport.hpp:39`: `new
  UInt64ForwardList()`, a class without a constructor of its own); a `ForwardList` made otherwise may not be.
- `Graph.cpp:11`: before the first graph the update's key is 0, and `OAGGraphSetUpdate` writes to whatever that
  is.
- `OAGGraph.cpp:120`: nothing excludes two invalidations at once, which both run `~Context`.
- `DebugServer.mm:220`: a `select` that timed out sets no `errno`, and the loop looks at that of an earlier call:
  `run` returns after a timeout only if that was not `EAGAIN`. `DebugServer.mm:463`: `accept` is called without a
  check that the client is still there, and then blocks.
- `Heap.cpp:42`: the `malloc` of a small buffer is not checked, and its node is written at address 0.
- Not compiled, because no code instantiates it: `resize` of the first two vectors (`this[i]`), `push_front(T &&)`
  of the list (`_spare->previous`), `cf_ptr::reset()` (ambiguous).
- `table.hpp:147`: every source file has its own `_shared_table_bytes`, and only one is constructed.

## 8. What is not modelled, and why

`zone`, `ptr` and `page`: `zone.cpp` sees a zeroed table, on which every `alloc_page` ends the process, so that no
zone ever has a page; nothing calls `alloc_slow`, whose `last_page() + in_use` would add to the `bool` that a
`ptr` converts to. Constructor and destructor are commented out. The attribute and rule layers, children,
observers and trees of subgraphs, profiling, tracing and descriptions are stubs: they change no state. The runtime
part reads metadata the Swift compiler emits and keeps no state; logging, environment variables, versions, header
shims and adapters to other implementations are I/O or contain no logic. The vendored headers of `SwiftCorelibs`
and the adapters to other implementations are the larger part of the files under `src/Sources`: they declare the
interfaces of libdispatch and CoreFoundation, which the models have as external actions. In the server, addresses,
the URL, logging and the contents of replies are left out, and of `errno` all but whether the loop finds `EAGAIN`
in it.
