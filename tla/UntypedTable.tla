---------------------------- MODULE UntypedTable ----------------------------
(***************************************************************************)
(* util::UntypedTable (Sources/Utilities/HashTable.cpp): a chained hash    *)
(* table with separate nodes, a list of spare nodes and buckets that       *)
(* double.                                                                 *)
(*                                                                         *)
(* A chain is modelled by the rank each of its nodes has in it, counted    *)
(* from the tail: the head of a chain has the greatest rank, and the node  *)
(* that `next` points to is the one of the next smaller rank.              *)
(*                                                                         *)
(* The table calls its client back: did_remove_key and did_remove_value in *)
(* the middle of insert and remove, the body in the middle of for_each.    *)
(* `frame` is the operation that is inside such a callback, and while it   *)
(* is there the client may call the table again.  Reentrancy is bounded at *)
(* one level: the callbacks of a nested call do not call back.             *)
(***************************************************************************)
EXTENDS Integers, FiniteSets

CONSTANTS
  Key,              \* the pointers a client may pass as keys
  Value,            \* the (non-null) pointers a client may pass as values
  Node,             \* the HashNodes the heap can provide: the bound on entries
  NoNode,           \* the null HashNode *
  NoKey, Absent,    \* the null key and the null value
  Hash,             \* [Key -> Nat], the hasher
  Content,          \* [Key -> what key_equal compares]
  CompareByPointer, \* _compare_by_pointer
  InitialSize,      \* 1 << initial_bucket_mask_width buckets (16 in the code)
  LoadFactor,       \* nodes per bucket before growth (4 in the code)
  MaxSize,          \* no growth beyond this many buckets (1 << 30 in the code)
  IntRange,         \* the values of an int (1 << 32 in the code)
  WalkMayUnlink     \* may a for_each body remove the entry it is visiting, or
                    \* insert so that the buckets grow?

ASSUME TableConstants ==
  /\ IsFiniteSet(Node) /\ NoNode \notin Node
  /\ NoKey \notin Key /\ Absent \notin Value
  /\ Hash \in [Key -> Nat]
  /\ InitialSize \in Nat \ {0} /\ LoadFactor \in Nat \ {0}
  /\ MaxSize \in Nat /\ IntRange \in Nat \ {0}
  /\ CompareByPointer \in BOOLEAN /\ WalkMayUnlink \in BOOLEAN

\* What the client of a table must grant: equal keys hash alike, and the
\* content of a pointer key is the pointer.
ASSUME HasherAgreesWithKeyEqual ==
  \A j, k \in Key : Content[j] = Content[k] =>
    /\ Hash[j] = Hash[k]
    /\ CompareByPointer => j = k

VARIABLES
  node,       \* [Node -> where the node is linked, and its fields]
  count,      \* _count
  size,       \* _bucket_mask + 1 = 1 << _bucket_mask_width; 0 without buckets
  arrays,     \* sizes of the bucket arrays taken with new[] and not freed
  frame,      \* the operation that is inside a callback
  keyRefs,    \* [Key -> keys taken by insert and not yet given back]
  valueRefs,  \* [Value -> the same for values]
  outcome     \* what the insert or remove that took effect last returned

vars == <<node, count, size, arrays, frame, keyRefs, valueRefs, outcome>>

-----------------------------------------------------------------------------
(* Nodes and chains.                                                       *)

Lists == {"fresh", "chain", "spare", "unlinked"}

HashNode == [list: Lists, bucket: Nat, rank: Nat, key: Key \cup {NoKey},
             value: Value \cup {Absent}, hash: Nat]

FreshNode == [list |-> "fresh", bucket |-> 0, rank |-> 0,
              key |-> NoKey, value |-> Absent, hash |-> 0]

Members(nd, l, b) == {n \in Node : nd[n].list = l /\ nd[n].bucket = b}

Linked == {n \in Node : node[n].list = "chain"}
Spare  == Members(node, "spare", 0)
Fresh  == {n \in Node : node[n].list = "fresh"}

Bucket(h, sz) == h % sz

\* node->next = list head; list head = node.
Push(nd, n, l, b) ==
  [nd EXCEPT ![n] = [@ EXCEPT !.list = l, !.bucket = b,
                              !.rank = Cardinality(Members(nd, l, b)) + 1]]

\* The node becomes the first spare one; what its fields hold is dead from here.
Discard(nd, n) ==
  Push([nd EXCEPT ![n] = FreshNode], n, "spare", 0)

\* The predecessor, or the bucket, takes over node->next.
Unlink(nd, n) ==
  [m \in Node |->
     IF m = n
       THEN [nd[m] EXCEPT !.list = "unlinked", !.bucket = 0, !.rank = 0]
     ELSE IF m \in Members(nd, nd[n].list, nd[n].bucket) /\ nd[m].rank > nd[n].rank
       THEN [nd[m] EXCEPT !.rank = @ - 1]
       ELSE nd[m]]

\* mutant: a moved node does not take the new chain over as its `next`.
RehashLosesChain(nd, sz) ==
  [n \in Node |->
     IF nd[n].list = "chain"
       THEN IF \A m \in Members(nd, "chain", nd[n].bucket) :
                 Bucket(nd[m].hash, sz) = Bucket(nd[n].hash, sz) => nd[m].rank >= nd[n].rank
              THEN [nd[n] EXCEPT !.bucket = Bucket(nd[n].hash, sz), !.rank = 1]
              ELSE [nd[n] EXCEPT !.list = "fresh"]
       ELSE nd[n]]

\* grow_buckets moves the nodes of every old bucket, first to last, to the
\* front of their new one: a new chain has its nodes in reverse order.
Rehash(nd, sz) ==
  LET moved(n) == {m \in Members(nd, "chain", nd[n].bucket) :
                     Bucket(nd[m].hash, sz) = Bucket(nd[n].hash, sz)}
  IN [n \in Node |->
        IF nd[n].list = "chain"
          THEN [nd[n] EXCEPT !.bucket = Bucket(nd[n].hash, sz),
                             !.rank = Cardinality({m \in moved(n) :
                                                     nd[m].rank >= nd[n].rank})]
          ELSE nd[n]]

\* n comes first among S on a walk along its chain.
First(n, S) == n \in S /\ \A m \in S : node[m].rank <= node[n].rank

\* mutant: goes to the tail of the chain at once.
SuccessorSkips(n) ==
  LET after == {m \in Members(node, node[n].list, node[n].bucket) :
                  node[m].rank < node[n].rank}
  IN IF after = {} THEN NoNode ELSE CHOOSE m \in after : node[m].rank = 1

\* mutant: the tail of a chain leads back to its head.
SuccessorWraps(n) ==
  LET chain == Members(node, node[n].list, node[n].bucket)
      after == {m \in chain : node[m].rank < node[n].rank}
  IN IF after = {} THEN CHOOSE m \in chain : First(m, chain)
     ELSE CHOOSE m \in after : First(m, after)

Successor(n) ==
  LET after == {m \in Members(node, node[n].list, node[n].bucket) :
                  node[m].rank < node[n].rank}
  IN IF after = {} THEN NoNode ELSE CHOOSE m \in after : First(m, after)

-----------------------------------------------------------------------------
(* Search.                                                                 *)

Equal(n, k) == node[n].hash = Hash[k] /\ Content[node[n].key] = Content[k]

SamePointer(n, k) == node[n].key = k

Matches(n, k) == IF CompareByPointer THEN SamePointer(n, k) ELSE Equal(n, k)

Chain(k) == Members(node, "chain", Bucket(Hash[k], size))

\* mutant: looks for the pointer, not for its content.
ReplacedByPointer(k) == {n \in Chain(k) : SamePointer(n, k)}

\* insert compares hash and content even in a table compared by pointer.
Replaced(k) == {n \in Chain(k) : Equal(n, k)}

\* mutant: looks at the head of the chain only.
FoundAtHead(k) == {n \in Chain(k) : Matches(n, k) /\ First(n, Chain(k))}

\* Nothing is found while _count is 0, without a look at the buckets.
Found(k) == IF count = 0 THEN {} ELSE {n \in Chain(k) : Matches(n, k)}

Lookup(k) ==
  LET found == Found(k)
  IN IF found = {} THEN Absent ELSE node[CHOOSE n \in found : First(n, found)].value

-----------------------------------------------------------------------------
(* The operation in a callback, and what its client grants meanwhile.      *)

Idle == [op |-> "none", stage |-> "none", node |-> NoNode, key |-> NoKey,
         value |-> Absent, bucket |-> 0, present |-> {}, seen |-> {}]

InCallback == frame.op # "none"

\* A callback of insert must leave the entry being replaced alone.
Replaceable(n) == ~(frame.op = "replace" /\ frame.node = n)

Removable(n) ==
  /\ Replaceable(n)
  /\ frame.op = "walk" /\ ~WalkMayUnlink => frame.node # n

GrowthAllowed == frame.op = "walk" => WalkMayUnlink

\* An entry that leaves the table is no longer one for_each owes a visit.
Forget(n) == [frame EXCEPT !.present = @ \ {n}, !.seen = @ \ {n}]

Drop(f, x) == [f EXCEPT ![x] = @ - 1]
Take(f, x) == [f EXCEPT ![x] = @ + 1]

-----------------------------------------------------------------------------
(* insert.                                                                 *)

Store(nd, n, k, v) == [nd EXCEPT ![n] = [@ EXCEPT !.key = k, !.value = v]]

\* insert finds the key: did_remove_key runs first, inside the call.
BeginReplace(k, v) ==
  /\ ~InCallback
  /\ \E n \in Replaced(k) :
       /\ First(n, Replaced(k))
       /\ frame' = [Idle EXCEPT !.op = "replace", !.stage = "key",
                                !.node = n, !.key = k, !.value = v]
       /\ keyRefs' = Drop(keyRefs, node[n].key)
  /\ UNCHANGED <<node, count, size, arrays, valueRefs, outcome>>

\* mutant: gives back the new value.
ReplaceValueCallbackWithNew ==
  /\ frame.op = "replace" /\ frame.stage = "key"
  /\ frame' = [frame EXCEPT !.stage = "value"]
  /\ valueRefs' = Drop(valueRefs, frame.value)
  /\ UNCHANGED <<node, count, size, arrays, keyRefs, outcome>>

\* then did_remove_value, with the value the node has by now,
ReplaceValueCallback ==
  /\ frame.op = "replace" /\ frame.stage = "key"
  /\ frame' = [frame EXCEPT !.stage = "value"]
  /\ valueRefs' = Drop(valueRefs, node[frame.node].value)
  /\ UNCHANGED <<node, count, size, arrays, keyRefs, outcome>>

\* and last the node takes the new key and value.
EndReplace ==
  /\ frame.op = "replace" /\ frame.stage = "value"
  /\ node' = Store(node, frame.node, frame.key, frame.value)
  /\ keyRefs' = Take(keyRefs, frame.key)
  /\ valueRefs' = Take(valueRefs, frame.value)
  /\ outcome' = FALSE
  /\ frame' = Idle
  /\ UNCHANGED <<count, size, arrays>>

\* The same as one step, for an insert called from a callback.
NestedReplace(k, v) ==
  /\ InCallback
  /\ \E n \in Replaced(k) :
       /\ First(n, Replaced(k)) /\ Replaceable(n)
       /\ node' = Store(node, n, k, v)
       /\ keyRefs' = Take(Drop(keyRefs, node[n].key), k)
       /\ valueRefs' = Take(Drop(valueRefs, node[n].value), v)
  /\ outcome' = FALSE
  /\ UNCHANGED <<count, size, arrays, frame>>

\* create_buckets on the first insertion, grow_buckets when one more node
\* would exceed the load.
Created == IF size = 0 THEN InitialSize ELSE size

\* mutant: grows one insertion late.
GrowsLate ==
  LET limit == (LoadFactor * Created) % IntRange
  IN limit < IntRange \div 2 /\ count > limit /\ Created <= MaxSize

\* 4 << _bucket_mask_width is an int: where it is negative, the comparison with
\* the unsigned count takes it for a huge number, and the table grows no more.
Grows ==
  LET limit == (LoadFactor * Created) % IntRange
  IN limit < IntRange \div 2 /\ count + 1 > limit /\ Created <= MaxSize

Grown == IF Grows THEN 2 * Created ELSE Created

\* mutant: the old array is not freed.
ArraysKeepingOld == arrays \cup {Grown}

\* The first buckets come from the heap, every later array from new[].
ArraysAfterGrowth ==
  (IF size > InitialSize THEN arrays \ {size} ELSE arrays) \cup {Grown}

\* The first spare node, or else one from the heap.
Provides(n) ==
  IF Spare # {} THEN First(n, Spare)
                ELSE n \in Fresh

InsertNew(k, v) ==
  /\ Replaced(k) = {}
  /\ Grows => GrowthAllowed
  /\ \E n \in Node :
       /\ Provides(n)
       /\ LET nd == IF Grows THEN Rehash(node, Grown) ELSE node
              filled == [nd EXCEPT ![n].hash = Hash[k]]
          IN node' = Push(Store(filled, n, k, v), n, "chain", Bucket(Hash[k], Grown))
  /\ count' = count + 1
  /\ size' = Grown
  /\ arrays' = IF Grows THEN ArraysAfterGrowth ELSE arrays
  /\ keyRefs' = Take(keyRefs, k)
  /\ valueRefs' = Take(valueRefs, v)
  /\ outcome' = TRUE
  /\ UNCHANGED frame

-----------------------------------------------------------------------------
(* remove and remove_ptr.                                                  *)

RemoveHits(k, byPointer) ==
  IF byPointer \/ CompareByPointer
    THEN IF count = 0 THEN {} ELSE {n \in Chain(k) : SamePointer(n, k)}
    ELSE Found(k)

\* The entry is unlinked before did_remove_key runs, and counted until the end.
BeginRemove(k, byPointer) ==
  /\ ~InCallback
  /\ \E n \in RemoveHits(k, byPointer) :
       /\ First(n, RemoveHits(k, byPointer))
       /\ node' = Unlink(node, n)
       /\ keyRefs' = Drop(keyRefs, node[n].key)
       /\ frame' = [Idle EXCEPT !.op = "remove", !.stage = "key", !.node = n]
  /\ outcome' = TRUE
  /\ UNCHANGED <<count, size, arrays, valueRefs>>

RemoveValueCallback ==
  /\ frame.op = "remove" /\ frame.stage = "key"
  /\ frame' = [frame EXCEPT !.stage = "value"]
  /\ valueRefs' = Drop(valueRefs, node[frame.node].value)
  /\ UNCHANGED <<node, count, size, arrays, keyRefs, outcome>>

\* mutant: _count is not decremented.
EndRemoveUncounted ==
  /\ frame.op = "remove" /\ frame.stage = "value"
  /\ node' = Discard(node, frame.node)
  /\ frame' = Idle
  /\ UNCHANGED <<count, size, arrays, keyRefs, valueRefs, outcome>>

\* The node goes to the front of the spare list.
EndRemove ==
  /\ frame.op = "remove" /\ frame.stage = "value"
  /\ node' = Discard(node, frame.node)
  /\ count' = count - 1
  /\ frame' = Idle
  /\ UNCHANGED <<size, arrays, keyRefs, valueRefs, outcome>>

NestedRemove(k, byPointer) ==
  /\ InCallback
  /\ \E n \in RemoveHits(k, byPointer) :
       /\ First(n, RemoveHits(k, byPointer)) /\ Removable(n)
       /\ node' = Discard(Unlink(node, n), n)
       /\ keyRefs' = Drop(keyRefs, node[n].key)
       /\ valueRefs' = Drop(valueRefs, node[n].value)
       /\ frame' = Forget(n)
  /\ count' = count - 1
  /\ outcome' = TRUE
  /\ UNCHANGED <<size, arrays>>

RemoveMiss(k, byPointer) ==
  /\ RemoveHits(k, byPointer) = {}
  /\ outcome' = FALSE
  /\ UNCHANGED <<node, count, size, arrays, frame, keyRefs, valueRefs>>

-----------------------------------------------------------------------------
(* for_each: the body is running while frame.node is a node.               *)

\* The head of the first chain at or after bucket b that is not empty.
HeadFrom(b) ==
  LET ahead == {n \in Linked : node[n].bucket >= b}
  IN IF ahead = {} THEN NoNode
     ELSE CHOOSE n \in ahead : \A m \in ahead :
            \/ node[n].bucket < node[m].bucket
            \/ node[n].bucket = node[m].bucket /\ node[m].rank <= node[n].rank

Visit(f, n, b) == [f EXCEPT !.node = n, !.bucket = b, !.seen = @ \cup {n}]

BeginWalk ==
  /\ ~InCallback /\ count # 0
  /\ LET n == HeadFrom(0)
     IN frame' = Visit([Idle EXCEPT !.op = "walk", !.stage = "body",
                                    !.present = Linked], n, node[n].bucket)
  /\ UNCHANGED <<node, count, size, arrays, keyRefs, valueRefs, outcome>>

\* The body returns: the node after it now, or the next chain there is now.
Advance ==
  /\ frame.op = "walk"
  /\ LET next == Successor(frame.node)
         head == HeadFrom(frame.bucket + 1)
     IN frame' = IF next # NoNode THEN Visit(frame, next, frame.bucket)
                 ELSE IF head # NoNode THEN Visit(frame, head, node[head].bucket)
                 ELSE Idle
  /\ UNCHANGED <<node, count, size, arrays, keyRefs, valueRefs, outcome>>

-----------------------------------------------------------------------------
(* The destructor, followed by the construction of the next table.         *)

\* The references left when every entry drops the one it holds in "field".
Released(refs, field) ==
  IF count = 0 THEN refs
  ELSE [x \in DOMAIN refs |-> refs[x] - Cardinality({n \in Linked : node[n][field] = x})]

Destroy ==
  /\ ~InCallback
  /\ keyRefs' = Released(keyRefs, "key")
  /\ valueRefs' = Released(valueRefs, "value")
  /\ node' = [n \in Node |-> FreshNode]
  /\ count' = 0
  /\ size' = 0
  /\ arrays' = IF size > InitialSize THEN arrays \ {size} ELSE arrays
  /\ outcome' = FALSE
  /\ UNCHANGED frame

-----------------------------------------------------------------------------
Init ==
  /\ node = [n \in Node |-> FreshNode]
  /\ count = 0
  /\ size = 0
  /\ arrays = {}
  /\ frame = Idle
  /\ keyRefs = [k \in Key |-> 0]
  /\ valueRefs = [v \in Value |-> 0]
  /\ outcome = FALSE

Insert(k, v) == BeginReplace(k, v) \/ NestedReplace(k, v) \/ InsertNew(k, v)

Remove(k, byPointer) ==
  BeginRemove(k, byPointer) \/ NestedRemove(k, byPointer) \/ RemoveMiss(k, byPointer)

Return == ReplaceValueCallback \/ EndReplace \/ RemoveValueCallback \/ EndRemove \/ Advance

Next ==
  \/ \E k \in Key, v \in Value : Insert(k, v)
  \/ \E k \in Key, byPointer \in BOOLEAN : Remove(k, byPointer)
  \/ Return
  \/ BeginWalk
  \/ Destroy

Spec == Init /\ [][Next]_vars

\* A callback of the client returns, and the operation it is in goes on.
FairSpec == Spec /\ WF_vars(Return)

-----------------------------------------------------------------------------
(* Properties.                                                             *)

Frames == [op: {"none", "replace", "remove", "walk"},
           stage: {"none", "key", "value", "body"},
           node: Node \cup {NoNode}, key: Key \cup {NoKey}, value: Value \cup {Absent},
           bucket: Nat, present: SUBSET Node, seen: SUBSET Node]

FrameOK ==
  /\ frame \in Frames
  /\ ~InCallback => frame = Idle
  /\ InCallback => frame.node \in Node
  /\ frame.op = "replace" => /\ frame.node \in Linked
                             /\ frame.key \in Key /\ frame.value \in Value
  /\ frame.op = "remove" => node[frame.node].list = "unlinked"

\* The variables have their types; a node that is linked has its fields; only
\* the node of a remove that is in a callback is in no list.
TypeOK ==
  /\ node \in [Node -> HashNode]
  /\ \A n \in Node : node[n].list \in {"chain", "unlinked"}
                     => node[n].key \in Key /\ node[n].value \in Value
  /\ \A n \in Node : node[n].list = "unlinked" => frame.op = "remove" /\ frame.node = n
  /\ count \in Nat /\ size \in Nat
  /\ arrays \subseteq Nat
  /\ FrameOK
  /\ keyRefs \in [Key -> Int] /\ valueRefs \in [Value -> Int]
  /\ outcome \in BOOLEAN

\* No two linked nodes hold equal keys, whatever the callbacks do while an
\* insert or a remove is half done (insert replaces instead of adding).
UniqueKeys ==
  \A m, n \in Linked : Content[node[m].key] = Content[node[n].key] => m = n

\* A linked node hangs in the bucket its key's hash selects under the current
\* mask, also when the buckets grew in the middle of another operation.
InItsBucket ==
  \A n \in Linked : /\ size # 0
                    /\ node[n].hash = Hash[node[n].key]
                    /\ node[n].bucket = Bucket(Hash[node[n].key], size)

\* _count is the number of linked nodes; it is one too many exactly while
\* remove is in its callbacks, and so is never 0 while there is an entry.
CountExact ==
  count = Cardinality(Linked) + (IF frame.op = "remove" THEN 1 ELSE 0)

\* While did_remove_key and did_remove_value run for a replaced entry, its node
\* still is the linked node of the key that is being inserted.
ReplacesItsKey == frame.op = "replace" => Equal(frame.node, frame.key)

\* The inductive invariant: what every operation relies on and re-establishes.
IInv == TypeOK /\ UniqueKeys /\ InItsBucket /\ CountExact /\ ReplacesItsKey

\* Every entry of the table is found under its key with the value stored
\* last, at every moment a client can look.
EveryEntryFound == \A n \in Linked : Lookup(node[n].key) = node[n].value

\* The callbacks give back every key and value insert took exactly once: what
\* is outstanding is what the linked nodes hold, less what the operation in a
\* callback has already given back, and plus the value it still has to.
RefsExact ==
  /\ \A k \in Key : keyRefs[k] =
       Cardinality({n \in Linked : node[n].key = k /\
                      ~(frame.op = "replace" /\ frame.node = n)})
  /\ \A v \in Value : valueRefs[v] =
       Cardinality({n \in Node :
         /\ node[n].value = v
         /\ \/ n \in Linked /\ ~(frame.op = "replace" /\ frame.stage = "value" /\ frame.node = n)
            \/ frame.op = "remove" /\ frame.stage = "key" /\ frame.node = n})

\* Growth takes one bucket array with new[] at a time and frees the previous
\* one; a destroyed table leaves none.
NoArrayLeaks == arrays = IF size > InitialSize THEN {size} ELSE {}

\* The chains stay short: at most LoadFactor nodes per bucket on average, until
\* 4 << _bucket_mask_width overflows an int (2^29 buckets in the code).
LoadBounded == count <= LoadFactor * size \/ LoadFactor * size >= IntRange \div 2

\* To its client the table is a map from keys to values.
Dict == INSTANCE Dictionary WITH lookup <- [k \in Key |-> Lookup(k)]
IsDictionary == Dict!DictSpec

\* for_each hands its body no entry that has been removed and none twice, and
\* ends only when it has visited every entry that was in the table when it
\* began and has not been removed since.
WalkExact ==
  [][frame.op = "walk" =>
       /\ frame'.op = "none" => frame.present \subseteq frame.seen
       /\ frame'.op = "walk" /\ frame'.node # frame.node
            => frame'.node \in Linked \ frame.seen]_vars

\* for_each comes to its end, whatever its body inserts or removes meanwhile.
ForEachReturns == frame.op = "walk" ~> frame.op # "walk"
=============================================================================
