------------------------ MODULE UntypedTableProofs ------------------------
(***************************************************************************)
(* Theorems about util::UntypedTable, for any keys, hashes, initial size   *)
(* and load factor, and any finite number of nodes.                        *)
(***************************************************************************)
EXTENDS UntypedTable, FiniteSetTheorems, WellFoundedInduction, TLAPS

-----------------------------------------------------------------------------
(* Sets of nodes, and the node that comes first on a walk.                 *)

LEMMA NodesFinite ==
  ASSUME NEW S \in SUBSET Node
  PROVE  IsFiniteSet(S) /\ Cardinality(S) \in Nat
  BY TableConstants, FS_Subset, FS_CardinalityType

LEMMA GreatestExists ==
  ASSUME NEW f \in [Node -> Int], NEW S \in SUBSET Node, S # {}
  PROVE  \E n \in S : \A m \in S : f[m] <= f[n]
<1> DEFINE Up(n) == {m \in S : f[m] >= f[n]}
           Ups == {Up(n) : n \in S}
<1>1. IsWellFoundedOn(StrictSubsetOrdering(Node), FiniteSubsetsOf(Node))
  BY FS_StrictSubsetOrderingWellFounded
<1>2. Ups \subseteq FiniteSubsetsOf(Node) /\ Ups # {}
  BY NodesFinite DEF FiniteSubsetsOf
<1>3. PICK U \in Ups : \A V \in Ups : ~(<<V, U>> \in StrictSubsetOrdering(Node))
  <2> HIDE DEF Ups
  <2>1. QED BY <1>1, <1>2, WFMin
<1>4. PICK n \in S : U = Up(n)
  BY <1>3
<1>5. ASSUME NEW m \in S, ~(f[m] <= f[n])
      PROVE  FALSE
  <2>1. Up(m) \subseteq Up(n) /\ n \in Up(n) /\ n \notin Up(m)
    BY <1>5
  <2>2. <<Up(m), Up(n)>> \in StrictSubsetOrdering(Node)
    BY <2>1 DEF StrictSubsetOrdering
  <2>3. QED BY <2>2, <1>3, <1>4
<1>6. QED BY <1>5

LEMMA FirstExists ==
  ASSUME node \in [Node -> HashNode], NEW S \in SUBSET Node, S # {}
  PROVE  \E n \in S : First(n, S)
<1> DEFINE f == [n \in Node |-> node[n].rank]
<1>1. f \in [Node -> Int]
  BY DEF HashNode
<1> HIDE DEF f
<1>2. PICK n \in S : \A m \in S : f[m] <= f[n]
  BY <1>1, GreatestExists
<1>3. QED BY <1>2 DEF f, First

LEMMA SuccessorType ==
  ASSUME node \in [Node -> HashNode], NEW n
  PROVE  Successor(n) \in Node \cup {NoNode}
<1> DEFINE after == {m \in Members(node, node[n].list, node[n].bucket) :
                       node[m].rank < node[n].rank}
<1>1. after \in SUBSET Node
  BY DEF Members
<1>2. Successor(n) = IF after = {} THEN NoNode
                     ELSE CHOOSE m \in after : First(m, after)
  BY DEF Successor
<1> HIDE DEF after
<1>3. CASE after # {}
  <2>1. \E m \in after : First(m, after)
    BY <1>1, <1>3, FirstExists
  <2>2. QED BY <2>1, <1>1, <1>2, <1>3
<1>4. QED BY <1>2, <1>3

\* A walk that looks for the next chain comes to n no later than to m.
Foremost(n, m) ==
  \/ node[n].bucket < node[m].bucket
  \/ node[n].bucket = node[m].bucket /\ node[m].rank <= node[n].rank

LEMMA HeadType ==
  ASSUME node \in [Node -> HashNode], NEW b \in Nat
  PROVE  LET ahead == {n \in Linked : node[n].bucket >= b}
         IN  /\ HeadFrom(b) \in (IF ahead = {} THEN {NoNode} ELSE ahead)
             /\ ahead # {} => \A m \in ahead : Foremost(HeadFrom(b), m)
<1> DEFINE ahead == {n \in Linked : node[n].bucket >= b}
<1>1. HeadFrom(b) = IF ahead = {} THEN NoNode
                    ELSE CHOOSE n \in ahead : \A m \in ahead : Foremost(n, m)
  BY DEF HeadFrom, Foremost
<1>2. CASE ahead # {}
  <2> DEFINE f == [n \in Node |-> 0 - node[n].bucket]
  <2>1. f \in [Node -> Int] /\ ahead \in SUBSET Node
    BY DEF Linked, HashNode
  <2>2. PICK c \in ahead : \A m \in ahead : f[m] <= f[c]
    <3> HIDE DEF f, ahead
    <3>1. QED BY <2>1, <1>2, GreatestExists
  <2>3. \A m \in ahead : node[c].bucket <= node[m].bucket
    <3>1. \A m \in Node : f[m] = 0 - node[m].bucket /\ node[m].bucket \in Nat
      BY DEF HashNode
    <3> HIDE DEF f, ahead
    <3>2. QED BY <2>1, <2>2, <3>1
  <2> DEFINE chain == {n \in ahead : node[n].bucket = node[c].bucket}
  <2>4. chain \in SUBSET Node /\ chain # {}
    BY <2>1
  <2>5. PICK n \in chain : First(n, chain)
    <3> HIDE DEF chain
    <3>1. QED BY <2>4, FirstExists
  <2>6. ASSUME NEW m \in ahead PROVE Foremost(n, m)
    <3>1. /\ node[n].bucket = node[c].bucket /\ node[c].bucket <= node[m].bucket
          /\ node[c].bucket \in Nat /\ node[m].bucket \in Nat
      BY <2>1, <2>3 DEF HashNode
    <3>2. CASE node[n].bucket = node[m].bucket
      <4>1. m \in chain
        BY <3>1, <3>2, <2>6
      <4>2. QED BY <3>2, <4>1, <2>5 DEF First, Foremost
    <3>3. QED BY <3>1, <3>2 DEF Foremost
  <2>7. \E x \in ahead : \A m \in ahead : Foremost(x, m)
    BY <2>6
  <2>8. QED BY <1>1, <1>2, <2>7
<1>3. QED BY <1>1, <1>2

-----------------------------------------------------------------------------
(* What the operations on the lists do to the nodes.                       *)

Nodes == [Node -> HashNode]

LEMMA PushNode ==
  ASSUME NEW nd \in Nodes, NEW n \in Node, NEW l \in Lists, NEW b \in Nat
  PROVE  /\ Push(nd, n, l, b) \in Nodes
         /\ \A m \in Node \ {n} : Push(nd, n, l, b)[m] = nd[m]
         /\ Push(nd, n, l, b)[n].list = l
         /\ Push(nd, n, l, b)[n].bucket = b
         /\ Push(nd, n, l, b)[n].key = nd[n].key
         /\ Push(nd, n, l, b)[n].value = nd[n].value
         /\ Push(nd, n, l, b)[n].hash = nd[n].hash
<1>1. Cardinality(Members(nd, l, b)) \in Nat
  BY NodesFinite DEF Members
<1> DEFINE pushed == [nd[n] EXCEPT !.list = l, !.bucket = b,
                                   !.rank = Cardinality(Members(nd, l, b)) + 1]
<1>2. /\ pushed \in HashNode
      /\ pushed.list = l /\ pushed.bucket = b
      /\ pushed.key = nd[n].key /\ pushed.value = nd[n].value /\ pushed.hash = nd[n].hash
  <2> DEFINE c == Cardinality(Members(nd, l, b)) + 1
  <2>1. c \in Nat
    BY <1>1
  <2> HIDE DEF c
  <2>2. nd[n] \in HashNode
    BY DEF Nodes
  <2>3. QED BY <2>1, <2>2 DEF HashNode, c
<1>3. Push(nd, n, l, b) = [nd EXCEPT ![n] = pushed]
  BY DEF Push, Nodes
<1> HIDE DEF pushed
<1>4. QED BY <1>2, <1>3 DEF Nodes

LEMMA StoreNode ==
  ASSUME NEW nd \in Nodes, NEW n \in Node, NEW k \in Key, NEW v \in Value
  PROVE  /\ Store(nd, n, k, v) \in Nodes
         /\ \A m \in Node \ {n} : Store(nd, n, k, v)[m] = nd[m]
         /\ Store(nd, n, k, v)[n].list = nd[n].list
         /\ Store(nd, n, k, v)[n].bucket = nd[n].bucket
         /\ Store(nd, n, k, v)[n].key = k
         /\ Store(nd, n, k, v)[n].value = v
         /\ Store(nd, n, k, v)[n].hash = nd[n].hash
  BY DEF Store, Nodes, HashNode

LEMMA UnlinkNode ==
  ASSUME NEW nd \in Nodes, NEW n \in Node
  PROVE  /\ Unlink(nd, n) \in Nodes
         /\ Unlink(nd, n)[n].list = "unlinked"
         /\ \A m \in Node : /\ m # n => Unlink(nd, n)[m].list = nd[m].list
                            /\ m # n => Unlink(nd, n)[m].bucket = nd[m].bucket
                            /\ Unlink(nd, n)[m].key = nd[m].key
                            /\ Unlink(nd, n)[m].value = nd[m].value
                            /\ Unlink(nd, n)[m].hash = nd[m].hash
<1> DEFINE gone == [nd[n] EXCEPT !.list = "unlinked", !.bucket = 0, !.rank = 0]
           closer(m) == [nd[m] EXCEPT !.rank = @ - 1]
           above == {m \in Members(nd, nd[n].list, nd[n].bucket) : nd[m].rank > nd[n].rank}
<1>1. /\ gone \in HashNode /\ gone.list = "unlinked"
      /\ gone.key = nd[n].key /\ gone.value = nd[n].value /\ gone.hash = nd[n].hash
  BY DEF Nodes, HashNode, Lists
<1>2. \A m \in above : /\ closer(m) \in HashNode
                       /\ closer(m).list = nd[m].list /\ closer(m).bucket = nd[m].bucket
                       /\ closer(m).key = nd[m].key /\ closer(m).value = nd[m].value
                       /\ closer(m).hash = nd[m].hash
  BY DEF Nodes, HashNode, Members
<1>3. Unlink(nd, n) = [m \in Node |-> IF m = n THEN gone
                                      ELSE IF m \in above THEN closer(m) ELSE nd[m]]
  BY DEF Unlink
<1> HIDE DEF gone, closer, above
<1>4. QED BY <1>1, <1>2, <1>3 DEF Nodes

LEMMA RehashNode ==
  ASSUME NEW nd \in Nodes, NEW sz \in Nat \ {0}
  PROVE  /\ Rehash(nd, sz) \in Nodes
         /\ \A m \in Node : /\ Rehash(nd, sz)[m].list = nd[m].list
                            /\ Rehash(nd, sz)[m].key = nd[m].key
                            /\ Rehash(nd, sz)[m].value = nd[m].value
                            /\ Rehash(nd, sz)[m].hash = nd[m].hash
                            /\ nd[m].list = "chain" =>
                                 Rehash(nd, sz)[m].bucket = Bucket(nd[m].hash, sz)
<1> DEFINE ranked(n) == {m \in Members(nd, "chain", nd[n].bucket) :
                           /\ Bucket(nd[m].hash, sz) = Bucket(nd[n].hash, sz)
                           /\ nd[m].rank >= nd[n].rank}
<1>1. \A n \in Node : Cardinality(ranked(n)) \in Nat
  BY NodesFinite DEF Members
<1>2. \A n \in Node : Bucket(nd[n].hash, sz) \in Nat
  BY DEF Bucket, Nodes, HashNode
<1>3. Rehash(nd, sz) =
        [n \in Node |-> IF nd[n].list = "chain"
                          THEN [nd[n] EXCEPT !.bucket = Bucket(nd[n].hash, sz),
                                             !.rank = Cardinality(ranked(n))]
                          ELSE nd[n]]
  <2>1. \A n \in Node : ranked(n) =
          {m \in {x \in Members(nd, "chain", nd[n].bucket) :
                    Bucket(nd[x].hash, sz) = Bucket(nd[n].hash, sz)} :
             nd[m].rank >= nd[n].rank}
    OBVIOUS
  <2>2. QED BY <2>1 DEF Rehash
<1> DEFINE moved(n) == [nd[n] EXCEPT !.bucket = Bucket(nd[n].hash, sz),
                                     !.rank = Cardinality(ranked(n))]
<1> HIDE DEF ranked
<1>4. \A n \in Node : /\ moved(n) \in HashNode
                      /\ moved(n).list = nd[n].list
                      /\ moved(n).bucket = Bucket(nd[n].hash, sz)
                      /\ moved(n).key = nd[n].key /\ moved(n).value = nd[n].value
                      /\ moved(n).hash = nd[n].hash
  BY <1>1, <1>2 DEF Nodes, HashNode
<1>5. Rehash(nd, sz) = [n \in Node |-> IF nd[n].list = "chain" THEN moved(n) ELSE nd[n]]
  BY <1>3
<1> HIDE DEF moved
<1>6. QED BY <1>4, <1>5 DEF Nodes

-----------------------------------------------------------------------------
(* The inductive invariant.                                                *)

LEMMA InitIInv == Init => IInv
<1> SUFFICES ASSUME Init PROVE IInv
  OBVIOUS
<1>1. node \in [Node -> HashNode] /\ Linked = {}
  BY DEF Init, FreshNode, HashNode, Lists, Linked
<1>2. frame \in Frames /\ frame.op = "none"
  BY DEF Init, Idle, Frames
<1>3. TypeOK
  <2>1. \A n \in Node : node[n].list = "fresh"
    BY DEF Init, FreshNode
  <2>2. FrameOK
    BY <1>2 DEF Init, FrameOK, InCallback
  <2>3. keyRefs \in [Key -> Int] /\ valueRefs \in [Value -> Int]
    BY DEF Init
  <2>4. QED BY <1>1, <2>1, <2>2, <2>3 DEF Init, TypeOK
<1>4. CountExact
  BY <1>1, <1>2, FS_EmptySet DEF Init, CountExact
<1>5. QED
  BY <1>1, <1>2, <1>3, <1>4 DEF IInv, UniqueKeys, InItsBucket, ReplacesItsKey

LEMMA RefsType ==
  ASSUME NEW S, NEW f \in [S -> Int], NEW x
  PROVE  Drop(f, x) \in [S -> Int] /\ Take(f, x) \in [S -> Int]
<1>1. \A y \in S : f[y] \in Int /\ f[y] - 1 \in Int /\ f[y] + 1 \in Int
  OBVIOUS
<1>2. Drop(f, x) = [y \in S |-> IF y = x THEN f[y] - 1 ELSE f[y]]
  BY DEF Drop
<1>3. Take(f, x) = [y \in S |-> IF y = x THEN f[y] + 1 ELSE f[y]]
  BY DEF Take
<1>4. QED BY <1>1, <1>2, <1>3

\* A step that leaves nodes, buckets and count alone and does not begin or end
\* a replace or a remove keeps every part of IInv but the frame's own.
LEMMA FrameStep ==
  ASSUME IInv, FrameOK', UNCHANGED <<node, count, size>>,
         arrays' \subseteq Nat, outcome' \in BOOLEAN,
         keyRefs' \in [Key -> Int], valueRefs' \in [Value -> Int],
         (frame'.op = "remove") <=> (frame.op = "remove"),
         frame.op = "remove" => frame'.node = frame.node,
         frame'.op = "replace" => Equal(frame'.node, frame'.key)
  PROVE  IInv'
<1>1. TypeOK'
  BY DEF IInv, TypeOK
<1>2. UniqueKeys' /\ InItsBucket' /\ CountExact' /\ ReplacesItsKey'
  BY DEF IInv, UniqueKeys, InItsBucket, CountExact, ReplacesItsKey, Linked, Equal
<1>3. QED BY <1>1, <1>2 DEF IInv

LEMMA BeginReplaceIInv ==
  ASSUME IInv, NEW k \in Key, NEW v \in Value, BeginReplace(k, v)
  PROVE  IInv'
<1>1. PICK n \in Replaced(k) :
        /\ frame' = [Idle EXCEPT !.op = "replace", !.stage = "key",
                                 !.node = n, !.key = k, !.value = v]
        /\ keyRefs' = Drop(keyRefs, node[n].key)
  BY DEF BeginReplace
<1>2. n \in Linked /\ n \in Node /\ Equal(n, k)
  BY DEF Replaced, Chain, Members, Linked
<1>3. /\ frame' \in Frames
      /\ frame'.op = "replace" /\ frame'.node = n /\ frame'.key = k /\ frame'.value = v
  BY <1>1, <1>2 DEF Idle, Frames
<1>4. FrameOK'
  BY <1>2, <1>3 DEF FrameOK, InCallback, BeginReplace, Linked
<1>5. keyRefs' \in [Key -> Int]
  BY <1>1, RefsType DEF IInv, TypeOK
<1>6. QED
  BY <1>2, <1>3, <1>4, <1>5, FrameStep DEF BeginReplace, InCallback, IInv, TypeOK

LEMMA ReplaceValueCallbackIInv == IInv /\ ReplaceValueCallback => IInv'
<1> SUFFICES ASSUME IInv, ReplaceValueCallback PROVE IInv'
  OBVIOUS
<1>1. /\ frame' \in Frames
      /\ frame'.op = "replace" /\ frame'.node = frame.node
      /\ frame'.key = frame.key /\ frame'.value = frame.value
  BY DEF ReplaceValueCallback, IInv, TypeOK, FrameOK, Frames
<1>2. FrameOK'
  BY <1>1 DEF ReplaceValueCallback, IInv, TypeOK, FrameOK, InCallback, Linked
<1>3. valueRefs' \in [Value -> Int]
  BY RefsType DEF ReplaceValueCallback, IInv, TypeOK
<1>4. QED
  BY <1>1, <1>2, <1>3, FrameStep DEF ReplaceValueCallback, IInv, TypeOK, ReplacesItsKey

\* Storing a key of equal content in a linked node.
LEMMA StoreKeeps ==
  ASSUME IInv, NEW n \in Linked, NEW k \in Key, NEW v \in Value, Equal(n, k),
         node' = Store(node, n, k, v), UNCHANGED <<count, size>>
  PROVE  /\ node' \in [Node -> HashNode]
         /\ Linked' = Linked
         /\ \A m \in Node : node'[m].list = node[m].list
         /\ \A m \in Node : node[m].list \in {"chain", "unlinked"}
              => node'[m].key \in Key /\ node'[m].value \in Value
         /\ UniqueKeys' /\ InItsBucket'
<1> n \in Node
  BY DEF Linked
<1>1. node \in Nodes
  BY DEF IInv, TypeOK, Nodes
<1>2. /\ node' \in Nodes
      /\ \A m \in Node \ {n} : node'[m] = node[m]
      /\ node'[n].list = node[n].list /\ node'[n].bucket = node[n].bucket
      /\ node'[n].key = k /\ node'[n].value = v /\ node'[n].hash = node[n].hash
  BY <1>1, StoreNode
<1>3. \A m \in Node : node'[m].list = node[m].list
  BY <1>2
<1>4. Linked' = Linked
  BY <1>3 DEF Linked
<1>5. \A m \in Linked : Content[node'[m].key] = Content[node[m].key]
  BY <1>2 DEF Equal, Linked
<1>6. UniqueKeys'
  BY <1>4, <1>5 DEF UniqueKeys, IInv
<1>7. InItsBucket'
  BY <1>2, <1>4 DEF InItsBucket, IInv, Equal, Linked
<1>8. QED
  BY <1>2, <1>3, <1>4, <1>6, <1>7 DEF Nodes, IInv, TypeOK

LEMMA EndReplaceIInv == IInv /\ EndReplace => IInv'
<1> SUFFICES ASSUME IInv, EndReplace PROVE IInv'
  OBVIOUS
<1>1. /\ frame.node \in Linked /\ frame.key \in Key /\ frame.value \in Value
      /\ Equal(frame.node, frame.key)
  BY DEF EndReplace, IInv, TypeOK, FrameOK, ReplacesItsKey
<1>2. /\ node' = Store(node, frame.node, frame.key, frame.value)
      /\ count' = count /\ size' = size /\ arrays' = arrays
  BY DEF EndReplace
<1>3. /\ node' \in [Node -> HashNode]
      /\ Linked' = Linked
      /\ \A m \in Node : node'[m].list = node[m].list
      /\ \A m \in Node : node[m].list \in {"chain", "unlinked"}
           => node'[m].key \in Key /\ node'[m].value \in Value
      /\ UniqueKeys' /\ InItsBucket'
  BY <1>1, <1>2, StoreKeeps
<1>4. /\ frame' \in Frames /\ frame'.op = "none" /\ frame' = Idle
      /\ frame.op = "replace"
  BY TableConstants DEF EndReplace, Idle, Frames
<1>5. keyRefs' \in [Key -> Int] /\ valueRefs' \in [Value -> Int]
  BY RefsType DEF EndReplace, IInv, TypeOK
<1>6. TypeOK'
  BY <1>2, <1>3, <1>4, <1>5 DEF EndReplace, IInv, TypeOK, FrameOK, InCallback, Idle
<1>7. CountExact' /\ ReplacesItsKey'
  BY <1>2, <1>3, <1>4 DEF CountExact, ReplacesItsKey, IInv
<1>8. QED BY <1>3, <1>6, <1>7 DEF IInv

LEMMA NestedReplaceIInv ==
  ASSUME IInv, NEW k \in Key, NEW v \in Value, NestedReplace(k, v)
  PROVE  IInv'
<1>1. PICK n \in Replaced(k) :
        /\ Replaceable(n)
        /\ node' = Store(node, n, k, v)
        /\ keyRefs' = Take(Drop(keyRefs, node[n].key), k)
        /\ valueRefs' = Take(Drop(valueRefs, node[n].value), v)
  BY DEF NestedReplace
<1>2. n \in Linked /\ n \in Node /\ Equal(n, k)
  BY DEF Replaced, Chain, Members, Linked
<1>3. UNCHANGED <<count, size, arrays, frame>> /\ outcome' = FALSE
  BY DEF NestedReplace
<1>4. /\ node' \in [Node -> HashNode]
      /\ Linked' = Linked
      /\ \A m \in Node : node'[m].list = node[m].list
      /\ \A m \in Node : node[m].list \in {"chain", "unlinked"}
           => node'[m].key \in Key /\ node'[m].value \in Value
      /\ UniqueKeys' /\ InItsBucket'
  BY <1>1, <1>2, <1>3, StoreKeeps
<1>5. keyRefs' \in [Key -> Int] /\ valueRefs' \in [Value -> Int]
  BY <1>1, RefsType DEF IInv, TypeOK
<1>6. TypeOK'
  BY <1>3, <1>4, <1>5 DEF IInv, TypeOK, FrameOK, InCallback
<1>7. CountExact'
  BY <1>3, <1>4 DEF CountExact, IInv
<1>8. ReplacesItsKey'
  <2>1. node \in Nodes
    BY DEF IInv, TypeOK, Nodes
  <2>2. frame.op = "replace" => frame.node \in Node \ {n}
    BY <1>1 DEF Replaceable, IInv, TypeOK, FrameOK, Linked
  <2>3. frame.op = "replace" => node'[frame.node] = node[frame.node]
    BY <1>1, <1>2, <2>1, <2>2, StoreNode
  <2>4. QED BY <1>3, <2>3 DEF ReplacesItsKey, IInv, Equal
<1>9. QED BY <1>4, <1>6, <1>7, <1>8 DEF IInv

LEMMA InsertNewNode ==
  ASSUME IInv, NEW k \in Key, NEW v \in Value, InsertNew(k, v)
  PROVE  \E n \in Node \ Linked :
           /\ node' \in [Node -> HashNode]
           /\ Linked' = Linked \cup {n} /\ node[n].list # "unlinked"
           /\ node'[n].list = "chain" /\ node'[n].bucket = Bucket(Hash[k], Grown)
           /\ node'[n].key = k /\ node'[n].value = v /\ node'[n].hash = Hash[k]
           /\ \A m \in Node \ {n} :
                /\ node'[m].list = node[m].list /\ node'[m].key = node[m].key
                /\ node'[m].value = node[m].value /\ node'[m].hash = node[m].hash
           /\ \A m \in Linked : node'[m].bucket = Bucket(node[m].hash, Grown)
           /\ \A m \in Linked : Content[node[m].key] # Content[k]
<1> DEFINE nd == IF Grows THEN Rehash(node, Grown) ELSE node
           filled(n) == [nd EXCEPT ![n].hash = Hash[k]]
<1>1. PICK n \in Node :
        /\ Provides(n)
        /\ node' = Push(Store(filled(n), n, k, v), n, "chain", Bucket(Hash[k], Grown))
  BY DEF InsertNew
<1>2. n \notin Linked /\ node[n].list # "unlinked"
  BY <1>1 DEF Provides, First, Spare, Fresh, Linked, Members
<1>3. node \in Nodes /\ Grown \in Nat \ {0} /\ Hash[k] \in Nat
  BY TableConstants DEF IInv, TypeOK, Nodes, Grown, Created
<1>4. /\ nd \in Nodes
      /\ \A m \in Node : /\ nd[m].list = node[m].list /\ nd[m].key = node[m].key
                         /\ nd[m].value = node[m].value /\ nd[m].hash = node[m].hash
      /\ \A m \in Linked : nd[m].bucket = Bucket(node[m].hash, Grown)
  <2>1. CASE Grows
    BY <2>1, <1>3, RehashNode DEF Linked
  <2>2. CASE ~Grows
    <3>1. \A m \in Linked : size = Grown
      BY <2>2 DEF Grown, Created, IInv, InItsBucket
    <3>2. QED BY <2>2, <3>1, <1>3 DEF IInv, InItsBucket
  <2>3. QED BY <2>1, <2>2
<1> HIDE DEF nd
<1>5. /\ filled(n) \in Nodes
      /\ \A m \in Node \ {n} : filled(n)[m] = nd[m]
      /\ filled(n)[n].hash = Hash[k]
  BY <1>3, <1>4 DEF Nodes, HashNode
<1> HIDE DEF filled
<1> DEFINE b == Bucket(Hash[k], Grown)
<1>6. b \in Nat
  BY <1>3 DEF Bucket
<1> HIDE DEF b
<1>7. /\ node' \in Nodes
      /\ \A m \in Node \ {n} : node'[m] = nd[m]
      /\ node'[n].list = "chain" /\ node'[n].bucket = b
      /\ node'[n].key = k /\ node'[n].value = v /\ node'[n].hash = Hash[k]
  <2>1. node' = Push(Store(filled(n), n, k, v), n, "chain", b)
    BY <1>1 DEF b
  <2>2. Store(filled(n), n, k, v) \in Nodes
    BY <1>5, StoreNode
  <2>3. "chain" \in Lists
    BY DEF Lists
  <2>4. /\ node' \in Nodes
        /\ \A m \in Node \ {n} : node'[m] = Store(filled(n), n, k, v)[m]
        /\ node'[n].list = "chain" /\ node'[n].bucket = b
        /\ node'[n].key = Store(filled(n), n, k, v)[n].key
        /\ node'[n].value = Store(filled(n), n, k, v)[n].value
        /\ node'[n].hash = Store(filled(n), n, k, v)[n].hash
    BY <2>1, <2>2, <2>3, <1>6, PushNode
  <2>5. QED BY <2>4, <1>5, StoreNode
<1>8. Linked' = Linked \cup {n}
  BY <1>2, <1>4, <1>7 DEF Linked
<1>9. \A m \in Linked : Content[node[m].key] # Content[k]
  <2> SUFFICES ASSUME NEW m \in Linked, Content[node[m].key] = Content[k]
               PROVE  FALSE
    OBVIOUS
  <2>1. node[m].key \in Key /\ m \in Node
    BY DEF IInv, TypeOK, Linked
  <2>2. Hash[node[m].key] = Hash[k]
    BY <2>1, HasherAgreesWithKeyEqual
  <2>3. m \in Replaced(k)
    BY <2>1, <2>2 DEF IInv, InItsBucket, Replaced, Chain, Members, Equal, Linked
  <2>4. QED BY <2>3 DEF InsertNew
<1>10. \A m \in Linked : m \in Node \ {n}
  BY <1>2 DEF Linked
<1>11. QED BY <1>2, <1>4, <1>7, <1>8, <1>9, <1>10 DEF Nodes, b

LEMMA InsertNewIInv ==
  ASSUME IInv, NEW k \in Key, NEW v \in Value, InsertNew(k, v)
  PROVE  IInv'
<1>1. PICK n \in Node \ Linked :
        /\ node' \in [Node -> HashNode]
        /\ Linked' = Linked \cup {n} /\ node[n].list # "unlinked"
        /\ node'[n].list = "chain" /\ node'[n].bucket = Bucket(Hash[k], Grown)
        /\ node'[n].key = k /\ node'[n].value = v /\ node'[n].hash = Hash[k]
        /\ \A m \in Node \ {n} :
             /\ node'[m].list = node[m].list /\ node'[m].key = node[m].key
             /\ node'[m].value = node[m].value /\ node'[m].hash = node[m].hash
        /\ \A m \in Linked : node'[m].bucket = Bucket(node[m].hash, Grown)
        /\ \A m \in Linked : Content[node[m].key] # Content[k]
  BY InsertNewNode
<1>2. /\ count' = count + 1 /\ size' = Grown /\ frame' = frame
      /\ Grown \in Nat \ {0}
  BY TableConstants DEF InsertNew, IInv, TypeOK, Grown, Created
<1>3. Linked \in SUBSET Node /\ \A m \in Linked : m \in Node \ {n}
  BY <1>1 DEF Linked
<1>4. UniqueKeys'
  BY <1>1, <1>3 DEF UniqueKeys, IInv
<1>5. InItsBucket'
  BY <1>1, <1>2, <1>3 DEF InItsBucket, IInv
<1>6. CountExact'
  <2>1. Cardinality(Linked') = Cardinality(Linked) + 1
    BY <1>1, <1>3, NodesFinite, FS_AddElement
  <2>2. QED BY <1>2, <1>3, <2>1, NodesFinite DEF CountExact, IInv
<1>7. ReplacesItsKey'
  <2>1. frame.op = "replace" => frame.node \in Linked
    BY DEF IInv, TypeOK, FrameOK
  <2>2. QED BY <1>1, <1>2, <1>3, <2>1 DEF ReplacesItsKey, IInv, Equal
<1>8. TypeOK'
  <2>1. keyRefs' \in [Key -> Int] /\ valueRefs' \in [Value -> Int]
    BY RefsType DEF InsertNew, ArraysAfterGrowth, IInv, TypeOK
  <2>2. arrays' \subseteq Nat /\ count' \in Nat /\ size' \in Nat /\ outcome' \in BOOLEAN
    BY <1>2 DEF InsertNew, ArraysAfterGrowth, IInv, TypeOK
  <2>3. FrameOK'
    BY <1>1, <1>2, <1>3 DEF FrameOK, InCallback, IInv, TypeOK
  <2>4. \A m \in Node : /\ node'[m].list \in {"chain", "unlinked"}
                           => node'[m].key \in Key /\ node'[m].value \in Value
                        /\ node'[m].list = "unlinked" => frame'.op = "remove" /\ frame'.node = m
    BY <1>1, <1>2 DEF IInv, TypeOK
  <2>5. QED BY <1>1, <2>1, <2>2, <2>3, <2>4 DEF TypeOK
<1>9. QED BY <1>4, <1>5, <1>6, <1>7, <1>8 DEF IInv

\* What is left of the invariant when the linked node n is unlinked.
LEMMA UnlinkKeeps ==
  ASSUME IInv, NEW n \in Linked
  PROVE  /\ Unlink(node, n) \in Nodes
         /\ Unlink(node, n)[n].list = "unlinked"
         /\ \A m \in Node : /\ m # n => Unlink(node, n)[m].list = node[m].list
                            /\ m # n => Unlink(node, n)[m].bucket = node[m].bucket
                            /\ Unlink(node, n)[m].key = node[m].key
                            /\ Unlink(node, n)[m].value = node[m].value
                            /\ Unlink(node, n)[m].hash = node[m].hash
         /\ Cardinality(Linked \ {n}) = Cardinality(Linked) - 1
         /\ Cardinality(Linked) \in Nat
         /\ Cardinality(Linked \ {n}) \in Nat
<1>1. node \in Nodes /\ n \in Node
  BY DEF IInv, TypeOK, Nodes, Linked
<1>2. Linked \in SUBSET Node /\ Linked \ {n} \in SUBSET Node
  BY DEF Linked
<1>3. QED BY <1>1, <1>2, UnlinkNode, NodesFinite, FS_RemoveElement

\* The parts of the invariant about linked nodes survive a smaller table.
LEMMA FewerLinked ==
  ASSUME IInv, Linked' \subseteq Linked, UNCHANGED size,
         \A m \in Linked' : /\ node'[m].bucket = node[m].bucket
                            /\ node'[m].key = node[m].key /\ node'[m].hash = node[m].hash
  PROVE  UniqueKeys' /\ InItsBucket'
  BY DEF IInv, UniqueKeys, InItsBucket

LEMMA RemoveHitsLinked ==
  ASSUME NEW k, NEW p, NEW n \in RemoveHits(k, p)
  PROVE  n \in Linked /\ n \in Node
  BY DEF RemoveHits, Found, Chain, Members, Linked

LEMMA BeginRemoveIInv ==
  ASSUME IInv, NEW k \in Key, NEW p \in BOOLEAN, BeginRemove(k, p)
  PROVE  IInv'
<1>1. PICK n \in RemoveHits(k, p) :
        /\ node' = Unlink(node, n)
        /\ keyRefs' = Drop(keyRefs, node[n].key)
        /\ frame' = [Idle EXCEPT !.op = "remove", !.stage = "key", !.node = n]
  BY DEF BeginRemove
<1>2. n \in Linked /\ n \in Node
  BY RemoveHitsLinked
<1>3. frame.op = "none" /\ UNCHANGED <<count, size, arrays, valueRefs>> /\ outcome' = TRUE
  BY DEF BeginRemove, InCallback
<1>4. /\ frame' \in Frames /\ frame'.op = "remove" /\ frame'.node = n
  BY <1>1, <1>2, TableConstants DEF Idle, Frames
<1>5. /\ node' \in Nodes
      /\ node'[n].list = "unlinked"
      /\ \A m \in Node : /\ m # n => node'[m].list = node[m].list
                         /\ m # n => node'[m].bucket = node[m].bucket
                         /\ node'[m].key = node[m].key
                         /\ node'[m].value = node[m].value
                         /\ node'[m].hash = node[m].hash
      /\ Cardinality(Linked \ {n}) = Cardinality(Linked) - 1
      /\ Cardinality(Linked) \in Nat
  BY <1>1, <1>2, UnlinkKeeps
<1>6. Linked' = Linked \ {n}
  BY <1>2, <1>5 DEF Linked
<1>7. UniqueKeys' /\ InItsBucket'
  <2>1. \A m \in Linked' : m \in Node \ {n}
    BY <1>6 DEF Linked
  <2>2. QED BY <1>3, <1>5, <1>6, <2>1, FewerLinked
<1>8. CountExact'
  BY <1>3, <1>4, <1>5, <1>6 DEF CountExact, IInv
<1>9. TypeOK'
  <2>1. keyRefs' \in [Key -> Int]
    BY <1>1, RefsType DEF IInv, TypeOK
  <2>2. FrameOK'
    BY <1>2, <1>4, <1>5 DEF FrameOK, InCallback
  <2>3. \A m \in Node : node[m].list # "unlinked"
    BY <1>3 DEF IInv, TypeOK
  <2>4. \A m \in Node : /\ node'[m].list \in {"chain", "unlinked"}
                           => node'[m].key \in Key /\ node'[m].value \in Value
                        /\ node'[m].list = "unlinked" => m = n
    BY <1>2, <1>5, <2>3 DEF IInv, TypeOK, Linked
  <2>5. QED BY <1>3, <1>4, <1>5, <2>1, <2>2, <2>4 DEF TypeOK, IInv, Nodes
<1>10. QED BY <1>4, <1>7, <1>8, <1>9 DEF IInv, ReplacesItsKey

LEMMA RemoveValueCallbackIInv == IInv /\ RemoveValueCallback => IInv'
<1> SUFFICES ASSUME IInv, RemoveValueCallback PROVE IInv'
  OBVIOUS
<1>1. /\ frame' \in Frames
      /\ frame'.op = "remove" /\ frame'.node = frame.node
  BY DEF RemoveValueCallback, IInv, TypeOK, FrameOK, Frames
<1>2. FrameOK'
  BY <1>1 DEF RemoveValueCallback, IInv, TypeOK, FrameOK, InCallback
<1>3. valueRefs' \in [Value -> Int]
  BY RefsType DEF RemoveValueCallback, IInv, TypeOK
<1>4. QED
  BY <1>1, <1>2, <1>3, FrameStep DEF RemoveValueCallback, IInv, TypeOK

LEMMA RemoveMissIInv ==
  ASSUME IInv, NEW k \in Key, NEW p \in BOOLEAN, RemoveMiss(k, p)
  PROVE  IInv'
<1>1. FrameOK'
  BY DEF RemoveMiss, IInv, TypeOK, FrameOK, InCallback, Linked
<1>2. QED
  BY <1>1, FrameStep DEF RemoveMiss, IInv, TypeOK, ReplacesItsKey

\* A node that is in no list goes to the spare list.
LEMMA DiscardNode ==
  ASSUME NEW nd \in Nodes, NEW n \in Node
  PROVE  /\ Discard(nd, n) \in Nodes
         /\ Discard(nd, n)[n].list = "spare"
         /\ \A m \in Node \ {n} : Discard(nd, n)[m] = nd[m]
<1> DEFINE cleared == [nd EXCEPT ![n] = FreshNode]
<1>1. cleared \in Nodes /\ \A m \in Node \ {n} : cleared[m] = nd[m]
  BY TableConstants DEF Nodes, HashNode, FreshNode, Lists
<1> HIDE DEF cleared
<1>2. "spare" \in Lists /\ 0 \in Nat
  BY DEF Lists
<1>3. /\ Push(cleared, n, "spare", 0) \in Nodes
      /\ \A m \in Node \ {n} : Push(cleared, n, "spare", 0)[m] = cleared[m]
      /\ Push(cleared, n, "spare", 0)[n].list = "spare"
  BY <1>1, <1>2, PushNode
<1>4. Discard(nd, n) = Push(cleared, n, "spare", 0)
  BY DEF Discard, cleared
<1>5. QED BY <1>1, <1>3, <1>4

LEMMA EndRemoveIInv == IInv /\ EndRemove => IInv'
<1> SUFFICES ASSUME IInv, EndRemove PROVE IInv'
  OBVIOUS
<1> DEFINE n == frame.node
<1>1. /\ frame.op = "remove" /\ n \in Node /\ node[n].list = "unlinked"
      /\ node \in Nodes
  BY DEF EndRemove, IInv, TypeOK, FrameOK, InCallback, Nodes
<1>2. /\ count' = count - 1 /\ frame' = Idle
      /\ UNCHANGED <<size, arrays, keyRefs, valueRefs, outcome>>
  BY DEF EndRemove
<1>3. /\ node' \in Nodes /\ node'[n].list = "spare"
      /\ \A m \in Node \ {n} : node'[m] = node[m]
  <2>1. node' = Discard(node, n)
    BY DEF EndRemove
  <2> HIDE DEF n
  <2>2. QED BY <1>1, <2>1, DiscardNode
<1> HIDE DEF n
<1>4. Linked' = Linked /\ n \notin Linked /\ Linked \in SUBSET Node
  BY <1>1, <1>3 DEF Linked
<1>5. frame'.op = "none" /\ frame' \in Frames
  BY <1>2, TableConstants DEF Idle, Frames
<1>6. UniqueKeys' /\ InItsBucket'
  <2>1. \A m \in Linked' : node'[m] = node[m]
    BY <1>3, <1>4
  <2>2. QED BY <1>2, <1>4, <2>1, FewerLinked
<1>7. CountExact' /\ count' \in Nat
  BY <1>1, <1>2, <1>4, <1>5, NodesFinite DEF CountExact, IInv
<1>8. TypeOK'
  <2>1. \A m \in Node : node'[m].list # "unlinked"
    BY <1>3 DEF IInv, TypeOK, n
  <2>2. \A m \in Node : node'[m].list = "chain" => node'[m] = node[m]
    BY <1>3
  <2>3. FrameOK'
    BY <1>2, <1>5 DEF FrameOK, InCallback
  <2>4. QED BY <1>2, <1>3, <1>7, <2>1, <2>2, <2>3 DEF IInv, TypeOK, Nodes
<1>9. QED BY <1>5, <1>6, <1>7, <1>8 DEF IInv, ReplacesItsKey

LEMMA NestedRemoveIInv ==
  ASSUME IInv, NEW k \in Key, NEW p \in BOOLEAN, NestedRemove(k, p)
  PROVE  IInv'
<1>1. PICK n \in RemoveHits(k, p) :
        /\ Removable(n)
        /\ node' = Discard(Unlink(node, n), n)
        /\ keyRefs' = Drop(keyRefs, node[n].key)
        /\ valueRefs' = Drop(valueRefs, node[n].value)
        /\ frame' = Forget(n)
  BY DEF NestedRemove
<1>2. n \in Linked /\ n \in Node
  BY RemoveHitsLinked
<1>3. count' = count - 1 /\ outcome' = TRUE /\ UNCHANGED <<size, arrays>> /\ InCallback
  BY DEF NestedRemove
<1>4. /\ frame' \in Frames
      /\ frame'.op = frame.op /\ frame'.node = frame.node
      /\ frame'.key = frame.key /\ frame'.value = frame.value
  <2>1. frame \in Frames
    BY DEF IInv, TypeOK, FrameOK
  <2>2. QED BY <1>1, <2>1 DEF Forget, Frames
<1>5. /\ node' \in Nodes /\ node'[n].list = "spare"
      /\ \A m \in Node \ {n} :
           /\ node'[m].list = node[m].list /\ node'[m].bucket = node[m].bucket
           /\ node'[m].key = node[m].key /\ node'[m].value = node[m].value
           /\ node'[m].hash = node[m].hash
      /\ Cardinality(Linked \ {n}) = Cardinality(Linked) - 1
      /\ Cardinality(Linked \ {n}) \in Nat /\ Cardinality(Linked) \in Nat
  <2> DEFINE cut == Unlink(node, n)
  <2>1. /\ cut \in Nodes
        /\ \A m \in Node \ {n} :
             /\ cut[m].list = node[m].list /\ cut[m].bucket = node[m].bucket
             /\ cut[m].key = node[m].key /\ cut[m].value = node[m].value
             /\ cut[m].hash = node[m].hash
        /\ Cardinality(Linked \ {n}) = Cardinality(Linked) - 1
        /\ Cardinality(Linked \ {n}) \in Nat /\ Cardinality(Linked) \in Nat
    BY <1>2, UnlinkKeeps
  <2>2. node' = Discard(cut, n)
    BY <1>1
  <2> HIDE DEF cut
  <2>3. /\ node' \in Nodes /\ node'[n].list = "spare"
        /\ \A m \in Node \ {n} : node'[m] = cut[m]
    BY <1>2, <2>1, <2>2, DiscardNode
  <2>4. QED BY <2>1, <2>3
<1>6. Linked' = Linked \ {n}
  BY <1>2, <1>5 DEF Linked
<1>7. UniqueKeys' /\ InItsBucket'
  <2>1. \A m \in Linked' : m \in Node \ {n}
    BY <1>6 DEF Linked
  <2>2. QED BY <1>3, <1>5, <1>6, <2>1, FewerLinked
<1>8. CountExact' /\ count' \in Nat
  BY <1>3, <1>4, <1>5, <1>6 DEF CountExact, IInv
<1>9. /\ frame.op \in {"replace", "remove"} => frame.node \in Node \ {n}
      /\ frame.op = "replace" => frame.node \in Linked'
  BY <1>1, <1>2, <1>3, <1>6 DEF Removable, Replaceable, IInv, TypeOK, FrameOK, Linked
<1>10. ReplacesItsKey'
  BY <1>4, <1>5, <1>9 DEF ReplacesItsKey, IInv, Equal
<1>11. TypeOK'
  <2>1. keyRefs' \in [Key -> Int] /\ valueRefs' \in [Value -> Int]
    BY <1>1, RefsType DEF IInv, TypeOK
  <2>2. FrameOK'
    BY <1>3, <1>4, <1>5, <1>9 DEF FrameOK, InCallback, IInv, TypeOK
  <2>3. \A m \in Node : /\ node'[m].list \in {"chain", "unlinked"}
                           => node'[m].key \in Key /\ node'[m].value \in Value
                        /\ node'[m].list = "unlinked" => frame'.op = "remove" /\ frame'.node = m
    BY <1>4, <1>5 DEF IInv, TypeOK
  <2>4. QED BY <1>3, <1>5, <1>8, <2>1, <2>2, <2>3 DEF IInv, TypeOK, Nodes
<1>12. QED BY <1>7, <1>8, <1>10, <1>11 DEF IInv

LEMMA VisitFrame ==
  ASSUME NEW f \in Frames, f.op = "walk", NEW n \in Node, NEW b \in Nat
  PROVE  /\ Visit(f, n, b) \in Frames
         /\ Visit(f, n, b).op = "walk" /\ Visit(f, n, b).node = n
  BY DEF Visit, Frames

LEMMA BeginWalkIInv == IInv /\ BeginWalk => IInv'
<1> SUFFICES ASSUME IInv, BeginWalk PROVE IInv'
  OBVIOUS
<1> DEFINE n == HeadFrom(0)
           f == [Idle EXCEPT !.op = "walk", !.stage = "body", !.present = Linked]
<1>1. frame.op = "none" /\ count # 0
  BY DEF BeginWalk, InCallback
<1>2. Linked # {} /\ Linked \in SUBSET Node
  BY <1>1, FS_EmptySet DEF IInv, CountExact, Linked
<1>3. n \in Linked /\ node[n].bucket \in Nat
  <2>1. {m \in Linked : node[m].bucket >= 0} = Linked
    BY DEF IInv, TypeOK, HashNode, Linked
  <2>2. n \in Linked
    BY <1>2, <2>1, HeadType DEF IInv, TypeOK
  <2>3. QED BY <1>2, <2>2 DEF IInv, TypeOK, HashNode
<1>4. f \in Frames /\ f.op = "walk"
  BY <1>2, TableConstants DEF Idle, Frames
<1>5. frame' = Visit(f, n, node[n].bucket)
  BY DEF BeginWalk
<1> HIDE DEF n, f
<1>6. frame' \in Frames /\ frame'.op = "walk" /\ frame'.node \in Node
  BY <1>2, <1>3, <1>4, <1>5, VisitFrame
<1>7. FrameOK'
  BY <1>6 DEF FrameOK, InCallback
<1>8. QED
  BY <1>1, <1>6, <1>7, FrameStep DEF BeginWalk, IInv, TypeOK

LEMMA AdvanceIInv == IInv /\ Advance => IInv'
<1> SUFFICES ASSUME IInv, Advance PROVE IInv'
  OBVIOUS
<1> DEFINE next == Successor(frame.node)
           head == HeadFrom(frame.bucket + 1)
<1>1. frame \in Frames /\ frame.op = "walk" /\ frame.bucket \in Nat
  BY DEF Advance, IInv, TypeOK, FrameOK, Frames
<1>2. next \in Node \cup {NoNode}
  BY SuccessorType DEF IInv, TypeOK
<1>3. head = NoNode \/ (head \in Node /\ node[head].bucket \in Nat)
  <2>1. head \in Linked \cup {NoNode}
    BY <1>1, HeadType DEF IInv, TypeOK
  <2>2. QED BY <2>1 DEF Linked, IInv, TypeOK, HashNode
<1>4. frame' = IF next # NoNode THEN Visit(frame, next, frame.bucket)
               ELSE IF head # NoNode THEN Visit(frame, head, node[head].bucket)
               ELSE Idle
  BY DEF Advance
<1> HIDE DEF next, head
<1>5. /\ frame' \in Frames /\ frame'.op \in {"walk", "none"}
      /\ frame'.op = "walk" => frame'.node \in Node
      /\ frame'.op = "none" => frame' = Idle
  <2>1. Idle \in Frames /\ Idle.op = "none"
    BY TableConstants DEF Idle, Frames
  <2>2. CASE next # NoNode
    <3>1. next \in Node /\ frame' = Visit(frame, next, frame.bucket)
      BY <1>2, <1>4, <2>2
    <3>2. QED BY <1>1, <3>1, VisitFrame
  <2>3. CASE next = NoNode /\ head # NoNode
    <3>1. /\ head \in Node /\ node[head].bucket \in Nat
          /\ frame' = Visit(frame, head, node[head].bucket)
      BY <1>3, <1>4, <2>3
    <3>2. QED BY <1>1, <3>1, VisitFrame
  <2>4. CASE next = NoNode /\ head = NoNode
    BY <1>4, <2>1, <2>4
  <2>5. QED BY <2>2, <2>3, <2>4
<1>6. FrameOK'
  BY <1>5 DEF FrameOK, InCallback
<1>7. QED
  BY <1>1, <1>5, <1>6, FrameStep DEF Advance, IInv, TypeOK

LEMMA DestroyIInv == IInv /\ Destroy => IInv'
<1> SUFFICES ASSUME IInv, Destroy PROVE IInv'
  OBVIOUS
<1>1. /\ node' = [n \in Node |-> FreshNode]
      /\ count' = 0 /\ size' = 0 /\ outcome' = FALSE
      /\ frame' = frame /\ frame.op = "none" /\ frame = Idle
  BY DEF Destroy, InCallback, IInv, TypeOK, FrameOK
<1>2. Linked' = {}
  BY <1>1 DEF Linked, FreshNode
<1>3. keyRefs' \in [Key -> Int] /\ valueRefs' \in [Value -> Int]
  <2>1. ASSUME NEW S \in SUBSET Linked PROVE Cardinality(S) \in Int
    BY NodesFinite, FS_Subset, FS_CardinalityType DEF Linked
  <2>2. ASSUME NEW x PROVE Cardinality({n \in Linked : node[n].key = x}) \in Int
    BY <2>1
  <2>3. ASSUME NEW x PROVE Cardinality({n \in Linked : node[n].value = x}) \in Int
    BY <2>1
  <2>4. keyRefs \in [Key -> Int] /\ valueRefs \in [Value -> Int]
    BY DEF IInv, TypeOK
  <2>5. keyRefs' \in [Key -> Int]
    <3> DEFINE held(x) == Cardinality({n \in Linked : node[n].key = x})
    <3>1. keyRefs' = IF count = 0 THEN keyRefs
                     ELSE [x \in DOMAIN keyRefs |-> keyRefs[x] - held(x)]
      BY DEF Destroy, Released
    <3>2. \A x : held(x) \in Int
      BY <2>2
    <3> HIDE DEF held
    <3>3. QED BY <2>4, <3>1, <3>2
  <2>6. valueRefs' \in [Value -> Int]
    <3> DEFINE held(x) == Cardinality({n \in Linked : node[n].value = x})
    <3>1. valueRefs' = IF count = 0 THEN valueRefs
                       ELSE [x \in DOMAIN valueRefs |-> valueRefs[x] - held(x)]
      BY DEF Destroy, Released
    <3>2. \A x : held(x) \in Int
      BY <2>3
    <3> HIDE DEF held
    <3>3. QED BY <2>4, <3>1, <3>2
  <2>7. QED BY <2>5, <2>6
<1>4. arrays' \subseteq Nat
  BY DEF Destroy, IInv, TypeOK
<1>5. FreshNode \in HashNode
  BY DEF FreshNode, HashNode, Lists
<1>6. FrameOK'
  BY <1>1 DEF IInv, TypeOK, FrameOK, InCallback, Idle
<1>7. TypeOK'
  BY <1>1, <1>3, <1>4, <1>5, <1>6 DEF TypeOK, FreshNode
<1>8. UniqueKeys' /\ InItsBucket' /\ ReplacesItsKey'
  BY <1>1, <1>2 DEF UniqueKeys, InItsBucket, ReplacesItsKey, Idle
<1>9. CountExact'
  BY <1>1, <1>2, FS_EmptySet DEF CountExact
<1>10. QED BY <1>7, <1>8, <1>9 DEF IInv

\* Every step of every operation keeps the inductive invariant.
LEMMA NextIInv == IInv /\ [Next]_vars => IInv'
<1> SUFFICES ASSUME IInv, [Next]_vars PROVE IInv'
  OBVIOUS
<1>1. CASE UNCHANGED vars
  <2>1. FrameOK'
    BY <1>1 DEF vars, IInv, TypeOK, FrameOK, InCallback, Linked
  <2>2. QED
    BY <1>1, <2>1, FrameStep DEF vars, IInv, TypeOK, ReplacesItsKey
<1>2. ASSUME NEW k \in Key, NEW v \in Value, Insert(k, v) PROVE IInv'
  BY <1>2, BeginReplaceIInv, NestedReplaceIInv, InsertNewIInv DEF Insert
<1>3. ASSUME NEW k \in Key, NEW p \in BOOLEAN, Remove(k, p) PROVE IInv'
  BY <1>3, BeginRemoveIInv, NestedRemoveIInv, RemoveMissIInv DEF Remove
<1>4. CASE Return
  BY <1>4, ReplaceValueCallbackIInv, EndReplaceIInv, RemoveValueCallbackIInv,
     EndRemoveIInv, AdvanceIInv DEF Return
<1>5. CASE BeginWalk
  BY <1>5, BeginWalkIInv
<1>6. CASE Destroy
  BY <1>6, DestroyIInv
<1>7. QED BY <1>1, <1>2, <1>3, <1>4, <1>5, <1>6 DEF Next

\* The inductive invariant holds in every state of every table: whatever its
\* client calls from its callbacks, the structure is whole whenever it can look.
THEOREM Structure == Spec => []IInv
<1>1. Init => IInv
  BY InitIInv
<1>2. IInv /\ [Next]_vars => IInv'
  BY NextIInv
<1>3. QED BY <1>1, <1>2, PTL DEF Spec

\* The variables of the table have their types.
THEOREM TypeCorrect == Spec => []TypeOK
<1>1. IInv => TypeOK
  BY DEF IInv
<1>2. QED BY <1>1, Structure, PTL

\* insert never adds a second entry for a key (HashTable.cpp:192-243), and no
\* call from a callback makes it do so.
THEOREM KeysUnique == Spec => []UniqueKeys
<1>1. IInv => UniqueKeys
  BY DEF IInv
<1>2. QED BY <1>1, Structure, PTL

\* create_buckets, grow_buckets, insert and remove keep every node in the
\* bucket that lookup will search for its key.
THEOREM BucketsRight == Spec => []InItsBucket
<1>1. IInv => InItsBucket
  BY DEF IInv
<1>2. QED BY <1>1, Structure, PTL

\* _count is the number of entries, but for a remove in its callbacks.
THEOREM CountRight == Spec => []CountExact
<1>1. IInv => CountExact
  BY DEF IInv
<1>2. QED BY <1>1, Structure, PTL

\* Under the invariant a search finds at most the one entry of its key, and
\* finds it.
LEMMA FoundIsTheEntry ==
  ASSUME IInv, NEW n \in Linked
  PROVE  Found(node[n].key) = {n} /\ Lookup(node[n].key) = node[n].value
<1> DEFINE k == node[n].key
<1>1. /\ n \in Node /\ k \in Key /\ node[n].list = "chain"
      /\ Linked \in SUBSET Node
  BY DEF IInv, TypeOK, Linked
<1>2. count # 0
  <2>1. Cardinality(Linked) # 0 /\ Cardinality(Linked) \in Nat
    BY <1>1, NodesFinite, FS_EmptySet, FS_Subset, FS_CardinalityType
  <2>2. QED BY <2>1 DEF IInv, CountExact
<1>3. n \in Chain(k) /\ Matches(n, k)
  BY <1>1 DEF IInv, InItsBucket, Chain, Members, Matches, Equal, SamePointer
<1>4. ASSUME NEW m \in Chain(k), Matches(m, k) PROVE m = n
  <2>1. m \in Linked
    BY DEF Chain, Members, Linked
  <2>2. Content[node[m].key] = Content[k]
    BY <1>4 DEF Matches, Equal, SamePointer
  <2>3. QED BY <2>1, <2>2 DEF IInv, UniqueKeys
<1>5. Found(k) = {n}
  BY <1>2, <1>3, <1>4 DEF Found
<1>6. (CHOOSE m \in {n} : First(m, {n})) = n
  <2>1. node[n].rank <= node[n].rank
    BY <1>1 DEF IInv, TypeOK, HashNode
  <2>2. First(n, {n})
    BY <2>1 DEF First
  <2>3. QED BY <2>2
<1>7. QED BY <1>5, <1>6 DEF Lookup

\* lookup answers every key of the table with the value stored last, also
\* when it is called from a callback.
THEOREM EntriesFound == Spec => []EveryEntryFound
<1>1. IInv => EveryEntryFound
  BY FoundIsTheEntry DEF EveryEntryFound
<1>2. QED BY <1>1, Structure, PTL
-----------------------------------------------------------------------------
(* The references the table holds for its client.                          *)

\* The node n holds a reference to the key k, or to the value v, that the
\* callbacks have not given back.
HoldsKey(n, k) ==
  /\ node[n].list = "chain" /\ node[n].key = k
  /\ ~(frame.op = "replace" /\ frame.node = n)

HoldsValue(n, v) ==
  /\ node[n].value = v
  /\ \/ /\ node[n].list = "chain"
        /\ ~(frame.op = "replace" /\ frame.stage = "value" /\ frame.node = n)
     \/ frame.op = "remove" /\ frame.stage = "key" /\ frame.node = n

KeyHolders(k) == {n \in Node : HoldsKey(n, k)}
ValueHolders(v) == {n \in Node : HoldsValue(n, v)}

LEMMA RefsAreHolders ==
  RefsExact <=> /\ \A k \in Key : keyRefs[k] = Cardinality(KeyHolders(k))
                /\ \A v \in Value : valueRefs[v] = Cardinality(ValueHolders(v))
<1>1. ASSUME NEW k
      PROVE  KeyHolders(k) = {n \in Linked : node[n].key = k /\
                                ~(frame.op = "replace" /\ frame.node = n)}
  BY DEF KeyHolders, HoldsKey, Linked
<1>2. ASSUME NEW v
      PROVE  ValueHolders(v) = {n \in Node :
         /\ node[n].value = v
         /\ \/ n \in Linked /\ ~(frame.op = "replace" /\ frame.stage = "value" /\ frame.node = n)
            \/ frame.op = "remove" /\ frame.stage = "key" /\ frame.node = n}
  BY DEF ValueHolders, HoldsValue, Linked
<1>3. QED BY <1>1, <1>2 DEF RefsExact

\* Two sets of nodes that differ in no node but n.
LEMMA DifferInOne ==
  ASSUME NEW S \in SUBSET Node, NEW T \in SUBSET Node, NEW n,
         T \ {n} = S \ {n}
  PROVE  /\ Cardinality(S) \in Nat /\ Cardinality(T) \in Nat
         /\ Cardinality(T) = Cardinality(S) + (IF n \in T THEN 1 ELSE 0)
                                            - (IF n \in S THEN 1 ELSE 0)
<1>1. /\ IsFiniteSet(S) /\ IsFiniteSet(T)
      /\ Cardinality(S) \in Nat /\ Cardinality(T) \in Nat
  BY NodesFinite
<1>2. Cardinality(S \ {n}) = IF n \in S THEN Cardinality(S) - 1 ELSE Cardinality(S)
  BY <1>1, FS_RemoveElement
<1>3. Cardinality(T \ {n}) = IF n \in T THEN Cardinality(T) - 1 ELSE Cardinality(T)
  BY <1>1, FS_RemoveElement
<1>4. Cardinality(T \ {n}) = Cardinality(S \ {n})
  OBVIOUS
<1>5. QED BY <1>1, <1>2, <1>3, <1>4

\* A step that changes what the node n holds, and the references by as much.
LEMMA OneHolder ==
  ASSUME RefsExact, NEW n \in Node,
         \A m \in Node \ {n} :
           /\ \A k \in Key : HoldsKey(m, k)' <=> HoldsKey(m, k)
           /\ \A v \in Value : HoldsValue(m, v)' <=> HoldsValue(m, v),
         \A k \in Key : keyRefs'[k] = keyRefs[k] + (IF HoldsKey(n, k)' THEN 1 ELSE 0)
                                                 - (IF HoldsKey(n, k) THEN 1 ELSE 0),
         \A v \in Value : valueRefs'[v] = valueRefs[v] + (IF HoldsValue(n, v)' THEN 1 ELSE 0)
                                                       - (IF HoldsValue(n, v) THEN 1 ELSE 0)
  PROVE  RefsExact'
<1>1. ASSUME NEW k \in Key PROVE keyRefs'[k] = Cardinality(KeyHolders(k)')
  <2>1. /\ KeyHolders(k) \in SUBSET Node /\ KeyHolders(k)' \in SUBSET Node
        /\ KeyHolders(k)' \ {n} = KeyHolders(k) \ {n}
        /\ n \in KeyHolders(k) <=> HoldsKey(n, k)
        /\ n \in KeyHolders(k)' <=> HoldsKey(n, k)'
    BY DEF KeyHolders
  <2>2. keyRefs[k] = Cardinality(KeyHolders(k))
    BY RefsAreHolders
  <2>3. QED BY <2>1, <2>2, DifferInOne
<1>2. ASSUME NEW v \in Value PROVE valueRefs'[v] = Cardinality(ValueHolders(v)')
  <2>1. /\ ValueHolders(v) \in SUBSET Node /\ ValueHolders(v)' \in SUBSET Node
        /\ ValueHolders(v)' \ {n} = ValueHolders(v) \ {n}
        /\ n \in ValueHolders(v) <=> HoldsValue(n, v)
        /\ n \in ValueHolders(v)' <=> HoldsValue(n, v)'
    BY DEF ValueHolders
  <2>2. valueRefs[v] = Cardinality(ValueHolders(v))
    BY RefsAreHolders
  <2>3. QED BY <2>1, <2>2, DifferInOne
<1>3. ASSUME NEW k \in Key
      PROVE  KeyHolders(k)' = {m \in Linked' : node'[m].key = k /\
                                ~(frame'.op = "replace" /\ frame'.node = m)}
  BY DEF KeyHolders, HoldsKey, Linked
<1>4. ASSUME NEW v \in Value
      PROVE  ValueHolders(v)' = {m \in Node :
         /\ node'[m].value = v
         /\ \/ /\ m \in Linked'
               /\ ~(frame'.op = "replace" /\ frame'.stage = "value" /\ frame'.node = m)
            \/ frame'.op = "remove" /\ frame'.stage = "key" /\ frame'.node = m}
  BY DEF ValueHolders, HoldsValue, Linked
<1>5. QED BY <1>1, <1>2, <1>3, <1>4 DEF RefsExact

\* What a callback, or an insert, adds and takes away.
LEMMA RefsAt ==
  ASSUME NEW S, NEW f \in [S -> Int], NEW y \in S
  PROVE  /\ \A x : Drop(f, x)[y] = f[y] - (IF x = y THEN 1 ELSE 0)
         /\ \A x : Take(f, x)[y] = f[y] + (IF x = y THEN 1 ELSE 0)
  BY DEF Drop, Take

\* A step that leaves the nodes alone and neither begins nor ends a replace or
\* a remove, nor gives anything back.
LEMMA SameHolders ==
  ASSUME RefsExact, UNCHANGED <<node, keyRefs, valueRefs>>,
         \/ UNCHANGED frame
         \/ frame.op \in {"none", "walk"} /\ frame'.op \in {"none", "walk"}
  PROVE  RefsExact'
<1>1. Linked' = Linked
  BY DEF Linked
<1>2. CASE UNCHANGED frame
  BY <1>1, <1>2 DEF RefsExact
<1>3. CASE frame.op \in {"none", "walk"} /\ frame'.op \in {"none", "walk"}
  <2>1. ASSUME NEW k \in Key PROVE keyRefs'[k] = Cardinality({n \in Linked' : node'[n].key = k})
    <3>1. {n \in Linked : node[n].key = k} =
            {n \in Linked : node[n].key = k /\ ~(frame.op = "replace" /\ frame.node = n)}
      BY <1>3
    <3>2. QED BY <1>1, <3>1 DEF RefsExact
  <2>2. \A k \in Key : {n \in Linked' : node'[n].key = k} =
          {n \in Linked' : node'[n].key = k /\ ~(frame'.op = "replace" /\ frame'.node = n)}
    BY <1>3
  <2>3. ASSUME NEW v \in Value
        PROVE  valueRefs'[v] = Cardinality({n \in Node : node'[n].value = v /\ n \in Linked'})
    <3>1. {n \in Node : node[n].value = v /\ n \in Linked} =
            {n \in Node :
               /\ node[n].value = v
               /\ \/ n \in Linked /\ ~(frame.op = "replace" /\ frame.stage = "value" /\ frame.node = n)
                  \/ frame.op = "remove" /\ frame.stage = "key" /\ frame.node = n}
      BY <1>3
    <3>2. QED BY <1>1, <3>1 DEF RefsExact
  <2>4. \A v \in Value :
          {n \in Node : node'[n].value = v /\ n \in Linked'} =
            {n \in Node :
               /\ node'[n].value = v
               /\ \/ n \in Linked' /\ ~(frame'.op = "replace" /\ frame'.stage = "value" /\ frame'.node = n)
                  \/ frame'.op = "remove" /\ frame'.stage = "key" /\ frame'.node = n}
    BY <1>3
  <2>5. QED BY <2>1, <2>2, <2>3, <2>4 DEF RefsExact
<1>4. QED BY <1>2, <1>3

LEMMA BeginReplaceRefs ==
  ASSUME IInv, RefsExact, NEW k \in Key, NEW v \in Value, BeginReplace(k, v)
  PROVE  RefsExact'
<1>1. PICK n \in Replaced(k) :
        /\ frame' = [Idle EXCEPT !.op = "replace", !.stage = "key",
                                 !.node = n, !.key = k, !.value = v]
        /\ keyRefs' = Drop(keyRefs, node[n].key)
  BY DEF BeginReplace
<1>2. /\ n \in Node /\ node[n].list = "chain" /\ frame.op = "none"
      /\ UNCHANGED <<node, valueRefs>>
  BY DEF BeginReplace, InCallback, Replaced, Chain, Members
<1>3. frame'.op = "replace" /\ frame'.stage = "key" /\ frame'.node = n
  BY <1>1 DEF Idle
<1>4. keyRefs \in [Key -> Int] /\ valueRefs \in [Value -> Int]
  BY DEF IInv, TypeOK
<1>5. \A x \in Key : keyRefs'[x] = keyRefs[x] - (IF node[n].key = x THEN 1 ELSE 0)
  BY <1>1, <1>4, RefsAt
<1>6. \A m \in Node \ {n} : /\ \A x \in Key : HoldsKey(m, x)' <=> HoldsKey(m, x)
                            /\ \A y \in Value : HoldsValue(m, y)' <=> HoldsValue(m, y)
  BY <1>2, <1>3 DEF HoldsKey, HoldsValue
<1>7. \A x \in Key : ~HoldsKey(n, x)' /\ (HoldsKey(n, x) <=> node[n].key = x)
  BY <1>2, <1>3 DEF HoldsKey
<1>8. \A y \in Value : HoldsValue(n, y)' <=> HoldsValue(n, y)
  BY <1>2, <1>3 DEF HoldsValue
<1>9. \A x \in Key : keyRefs'[x] = keyRefs[x] + (IF HoldsKey(n, x)' THEN 1 ELSE 0)
                                              - (IF HoldsKey(n, x) THEN 1 ELSE 0)
  BY <1>4, <1>5, <1>7
<1>10. \A y \in Value : valueRefs'[y] = valueRefs[y] + (IF HoldsValue(n, y)' THEN 1 ELSE 0)
                                                     - (IF HoldsValue(n, y) THEN 1 ELSE 0)
  BY <1>2, <1>4, <1>8
<1>11. QED BY <1>2, <1>6, <1>9, <1>10, OneHolder

LEMMA ReplaceValueCallbackRefs ==
  ASSUME IInv, RefsExact, ReplaceValueCallback
  PROVE  RefsExact'
<1>0. PICK n \in Node : n = frame.node
  BY DEF ReplaceValueCallback, IInv, TypeOK, FrameOK, Linked
<1>1. /\ n \in Node /\ node[n].list = "chain"
      /\ frame.op = "replace" /\ frame.stage = "key"
      /\ frame'.op = "replace" /\ frame'.stage = "value" /\ frame'.node = n
      /\ UNCHANGED <<node, keyRefs>> /\ valueRefs' = Drop(valueRefs, node[n].value)
  BY <1>0 DEF ReplaceValueCallback, IInv, TypeOK, FrameOK, Frames, Linked
<1>2. keyRefs \in [Key -> Int] /\ valueRefs \in [Value -> Int]
  BY DEF IInv, TypeOK
<1>3. \A y \in Value : valueRefs'[y] = valueRefs[y] - (IF node[n].value = y THEN 1 ELSE 0)
  BY <1>1, <1>2, RefsAt
<1>4. \A m \in Node \ {n} : /\ \A x \in Key : HoldsKey(m, x)' <=> HoldsKey(m, x)
                            /\ \A y \in Value : HoldsValue(m, y)' <=> HoldsValue(m, y)
  BY <1>0, <1>1 DEF HoldsKey, HoldsValue
<1>5. \A x \in Key : HoldsKey(n, x)' <=> HoldsKey(n, x)
  BY <1>0, <1>1 DEF HoldsKey
<1>6. \A y \in Value : ~HoldsValue(n, y)' /\ (HoldsValue(n, y) <=> node[n].value = y)
  BY <1>0, <1>1 DEF HoldsValue
<1>7. \A x \in Key : keyRefs'[x] = keyRefs[x] + (IF HoldsKey(n, x)' THEN 1 ELSE 0)
                                              - (IF HoldsKey(n, x) THEN 1 ELSE 0)
  BY <1>1, <1>2, <1>5
<1>8. \A y \in Value : valueRefs'[y] = valueRefs[y] + (IF HoldsValue(n, y)' THEN 1 ELSE 0)
                                                    - (IF HoldsValue(n, y) THEN 1 ELSE 0)
  BY <1>2, <1>3, <1>6
<1>9. QED BY <1>1, <1>4, <1>7, <1>8, OneHolder

LEMMA EndReplaceRefs ==
  ASSUME IInv, RefsExact, EndReplace
  PROVE  RefsExact'
<1>0. PICK n \in Node, k \in Key, v \in Value :
        n = frame.node /\ k = frame.key /\ v = frame.value
  BY DEF EndReplace, IInv, TypeOK, FrameOK, Linked
<1>1. /\ n \in Node /\ node[n].list = "chain" /\ k \in Key /\ v \in Value
      /\ frame.op = "replace" /\ frame.stage = "value" /\ frame'.op = "none"
      /\ node' = Store(node, n, k, v) /\ node \in Nodes
      /\ keyRefs' = Take(keyRefs, k) /\ valueRefs' = Take(valueRefs, v)
  BY <1>0 DEF EndReplace, IInv, TypeOK, FrameOK, Linked, Idle, Nodes
<1>2. /\ \A m \in Node \ {n} : node'[m] = node[m]
      /\ node'[n].list = "chain" /\ node'[n].key = k /\ node'[n].value = v
  BY <1>1, StoreNode
<1>3. keyRefs \in [Key -> Int] /\ valueRefs \in [Value -> Int]
  BY DEF IInv, TypeOK
<1>4. /\ \A x \in Key : keyRefs'[x] = keyRefs[x] + (IF k = x THEN 1 ELSE 0)
      /\ \A y \in Value : valueRefs'[y] = valueRefs[y] + (IF v = y THEN 1 ELSE 0)
  BY <1>1, <1>3, RefsAt
<1>5. \A m \in Node \ {n} : /\ \A x \in Key : HoldsKey(m, x)' <=> HoldsKey(m, x)
                            /\ \A y \in Value : HoldsValue(m, y)' <=> HoldsValue(m, y)
  BY <1>0, <1>1, <1>2 DEF HoldsKey, HoldsValue
<1>6. \A x \in Key : ~HoldsKey(n, x) /\ (HoldsKey(n, x)' <=> k = x)
  BY <1>0, <1>1, <1>2 DEF HoldsKey
<1>7. \A y \in Value : ~HoldsValue(n, y) /\ (HoldsValue(n, y)' <=> v = y)
  BY <1>0, <1>1, <1>2 DEF HoldsValue
<1>8. \A x \in Key : keyRefs'[x] = keyRefs[x] + (IF HoldsKey(n, x)' THEN 1 ELSE 0)
                                              - (IF HoldsKey(n, x) THEN 1 ELSE 0)
  BY <1>3, <1>4, <1>6
<1>9. \A y \in Value : valueRefs'[y] = valueRefs[y] + (IF HoldsValue(n, y)' THEN 1 ELSE 0)
                                                    - (IF HoldsValue(n, y) THEN 1 ELSE 0)
  BY <1>3, <1>4, <1>7
<1>10. QED BY <1>1, <1>5, <1>8, <1>9, OneHolder

LEMMA NestedReplaceRefs ==
  ASSUME IInv, RefsExact, NEW k \in Key, NEW v \in Value, NestedReplace(k, v)
  PROVE  RefsExact'
<1>1. PICK n \in Replaced(k) :
        /\ Replaceable(n)
        /\ node' = Store(node, n, k, v)
        /\ keyRefs' = Take(Drop(keyRefs, node[n].key), k)
        /\ valueRefs' = Take(Drop(valueRefs, node[n].value), v)
  BY DEF NestedReplace
<1>2. /\ n \in Node /\ node[n].list = "chain" /\ node \in Nodes /\ frame' = frame
      /\ frame.op = "replace" => frame.node # n
      /\ frame.op = "remove" => frame.node # n
  BY <1>1 DEF NestedReplace, Replaced, Chain, Members, Replaceable, Nodes, IInv, TypeOK, FrameOK
<1>3. /\ \A m \in Node \ {n} : node'[m] = node[m]
      /\ node'[n].list = "chain" /\ node'[n].key = k /\ node'[n].value = v
  BY <1>1, <1>2, StoreNode
<1>4. keyRefs \in [Key -> Int] /\ valueRefs \in [Value -> Int]
  BY DEF IInv, TypeOK
<1>5. \A x \in Key : keyRefs'[x] = keyRefs[x] - (IF node[n].key = x THEN 1 ELSE 0)
                                              + (IF k = x THEN 1 ELSE 0)
  <2>1. Drop(keyRefs, node[n].key) \in [Key -> Int]
    BY <1>4, RefsType
  <2>2. \A x \in Key : Drop(keyRefs, node[n].key)[x] =
                         keyRefs[x] - (IF node[n].key = x THEN 1 ELSE 0)
    BY <1>4, RefsAt
  <2>3. QED BY <1>1, <2>1, <2>2, RefsAt
<1>6. \A y \in Value : valueRefs'[y] = valueRefs[y] - (IF node[n].value = y THEN 1 ELSE 0)
                                                    + (IF v = y THEN 1 ELSE 0)
  <2>1. Drop(valueRefs, node[n].value) \in [Value -> Int]
    BY <1>4, RefsType
  <2>2. \A y \in Value : Drop(valueRefs, node[n].value)[y] =
                           valueRefs[y] - (IF node[n].value = y THEN 1 ELSE 0)
    BY <1>4, RefsAt
  <2>3. QED BY <1>1, <2>1, <2>2, RefsAt
<1>7. \A m \in Node \ {n} : /\ \A x \in Key : HoldsKey(m, x)' <=> HoldsKey(m, x)
                            /\ \A y \in Value : HoldsValue(m, y)' <=> HoldsValue(m, y)
  BY <1>2, <1>3 DEF HoldsKey, HoldsValue
<1>8. \A x \in Key : (HoldsKey(n, x) <=> node[n].key = x) /\ (HoldsKey(n, x)' <=> k = x)
  BY <1>2, <1>3 DEF HoldsKey
<1>9. \A y \in Value : (HoldsValue(n, y) <=> node[n].value = y) /\ (HoldsValue(n, y)' <=> v = y)
  BY <1>2, <1>3 DEF HoldsValue
<1>10. \A x \in Key : keyRefs'[x] = keyRefs[x] + (IF HoldsKey(n, x)' THEN 1 ELSE 0)
                                              - (IF HoldsKey(n, x) THEN 1 ELSE 0)
  BY <1>4, <1>5, <1>8
<1>11. \A y \in Value : valueRefs'[y] = valueRefs[y] + (IF HoldsValue(n, y)' THEN 1 ELSE 0)
                                                    - (IF HoldsValue(n, y) THEN 1 ELSE 0)
  BY <1>4, <1>6, <1>9
<1>12. QED BY <1>2, <1>7, <1>10, <1>11, OneHolder

LEMMA InsertNewRefs ==
  ASSUME IInv, RefsExact, NEW k \in Key, NEW v \in Value, InsertNew(k, v)
  PROVE  RefsExact'
<1>1. PICK n \in Node \ Linked :
        /\ node[n].list # "unlinked"
        /\ node'[n].list = "chain" /\ node'[n].key = k /\ node'[n].value = v
        /\ \A m \in Node \ {n} :
             /\ node'[m].list = node[m].list /\ node'[m].key = node[m].key
             /\ node'[m].value = node[m].value
  BY InsertNewNode
<1>2. /\ n \in Node /\ node[n].list # "chain" /\ frame' = frame
      /\ frame.op = "replace" => frame.node # n
      /\ frame.op = "remove" => frame.node # n
      /\ keyRefs' = Take(keyRefs, k) /\ valueRefs' = Take(valueRefs, v)
  BY <1>1 DEF InsertNew, Linked, IInv, TypeOK, FrameOK
<1>3. keyRefs \in [Key -> Int] /\ valueRefs \in [Value -> Int]
  BY DEF IInv, TypeOK
<1>4. /\ \A x \in Key : keyRefs'[x] = keyRefs[x] + (IF k = x THEN 1 ELSE 0)
      /\ \A y \in Value : valueRefs'[y] = valueRefs[y] + (IF v = y THEN 1 ELSE 0)
  BY <1>2, <1>3, RefsAt
<1>5. \A m \in Node \ {n} : /\ \A x \in Key : HoldsKey(m, x)' <=> HoldsKey(m, x)
                            /\ \A y \in Value : HoldsValue(m, y)' <=> HoldsValue(m, y)
  BY <1>1, <1>2 DEF HoldsKey, HoldsValue
<1>6. \A x \in Key : ~HoldsKey(n, x) /\ (HoldsKey(n, x)' <=> k = x)
  BY <1>1, <1>2 DEF HoldsKey
<1>7. \A y \in Value : ~HoldsValue(n, y) /\ (HoldsValue(n, y)' <=> v = y)
  BY <1>1, <1>2 DEF HoldsValue
<1>8. \A x \in Key : keyRefs'[x] = keyRefs[x] + (IF HoldsKey(n, x)' THEN 1 ELSE 0)
                                              - (IF HoldsKey(n, x) THEN 1 ELSE 0)
  BY <1>3, <1>4, <1>6
<1>9. \A y \in Value : valueRefs'[y] = valueRefs[y] + (IF HoldsValue(n, y)' THEN 1 ELSE 0)
                                                    - (IF HoldsValue(n, y) THEN 1 ELSE 0)
  BY <1>3, <1>4, <1>7
<1>10. QED BY <1>2, <1>5, <1>8, <1>9, OneHolder

LEMMA BeginRemoveRefs ==
  ASSUME IInv, RefsExact, NEW k \in Key, NEW p \in BOOLEAN, BeginRemove(k, p)
  PROVE  RefsExact'
<1>1. PICK n \in RemoveHits(k, p) :
        /\ node' = Unlink(node, n)
        /\ keyRefs' = Drop(keyRefs, node[n].key)
        /\ frame' = [Idle EXCEPT !.op = "remove", !.stage = "key", !.node = n]
  BY DEF BeginRemove
<1>2. /\ n \in Linked /\ n \in Node /\ node[n].list = "chain" /\ frame.op = "none"
      /\ valueRefs' = valueRefs
      /\ frame'.op = "remove" /\ frame'.stage = "key" /\ frame'.node = n
  <2>1. n \in Linked /\ n \in Node
    BY RemoveHitsLinked
  <2>2. node[n].list = "chain"
    BY <2>1 DEF Linked
  <2>3. frame'.op = "remove" /\ frame'.stage = "key" /\ frame'.node = n
    BY <1>1 DEF Idle
  <2>4. frame.op = "none" /\ valueRefs' = valueRefs
    BY DEF BeginRemove, InCallback
  <2>5. QED BY <2>1, <2>2, <2>3, <2>4
<1>3. /\ node'[n].list = "unlinked"
      /\ \A m \in Node : /\ m # n => node'[m].list = node[m].list
                         /\ node'[m].key = node[m].key /\ node'[m].value = node[m].value
  BY <1>1, <1>2, UnlinkKeeps
<1>4. keyRefs \in [Key -> Int] /\ valueRefs \in [Value -> Int]
  BY DEF IInv, TypeOK
<1>5. \A x \in Key : keyRefs'[x] = keyRefs[x] - (IF node[n].key = x THEN 1 ELSE 0)
  BY <1>1, <1>4, RefsAt
<1>6. \A m \in Node \ {n} : /\ \A x \in Key : HoldsKey(m, x)' <=> HoldsKey(m, x)
                            /\ \A y \in Value : HoldsValue(m, y)' <=> HoldsValue(m, y)
  BY <1>2, <1>3 DEF HoldsKey, HoldsValue
<1>7. \A x \in Key : ~HoldsKey(n, x)' /\ (HoldsKey(n, x) <=> node[n].key = x)
  BY <1>2, <1>3 DEF HoldsKey
<1>8. \A y \in Value : HoldsValue(n, y)' <=> HoldsValue(n, y)
  BY <1>2, <1>3 DEF HoldsValue
<1>9. \A x \in Key : keyRefs'[x] = keyRefs[x] + (IF HoldsKey(n, x)' THEN 1 ELSE 0)
                                              - (IF HoldsKey(n, x) THEN 1 ELSE 0)
  BY <1>4, <1>5, <1>7
<1>10. \A y \in Value : valueRefs'[y] = valueRefs[y] + (IF HoldsValue(n, y)' THEN 1 ELSE 0)
                                                    - (IF HoldsValue(n, y) THEN 1 ELSE 0)
  BY <1>2, <1>4, <1>8
<1>11. QED BY <1>2, <1>6, <1>9, <1>10, OneHolder

LEMMA RemoveValueCallbackRefs ==
  ASSUME IInv, RefsExact, RemoveValueCallback
  PROVE  RefsExact'
<1>0. PICK n \in Node : n = frame.node
  BY DEF RemoveValueCallback, IInv, TypeOK, FrameOK, InCallback
<1>1. /\ node[n].list = "unlinked"
      /\ frame.op = "remove" /\ frame.stage = "key"
      /\ frame'.op = "remove" /\ frame'.stage = "value" /\ frame'.node = n
      /\ UNCHANGED <<node, keyRefs>> /\ valueRefs' = Drop(valueRefs, node[n].value)
  BY <1>0 DEF RemoveValueCallback, IInv, TypeOK, FrameOK, Frames
<1>2. keyRefs \in [Key -> Int] /\ valueRefs \in [Value -> Int]
  BY DEF IInv, TypeOK
<1>3. \A y \in Value : valueRefs'[y] = valueRefs[y] - (IF node[n].value = y THEN 1 ELSE 0)
  BY <1>1, <1>2, RefsAt
<1>4. \A m \in Node \ {n} : /\ \A x \in Key : HoldsKey(m, x)' <=> HoldsKey(m, x)
                            /\ \A y \in Value : HoldsValue(m, y)' <=> HoldsValue(m, y)
  BY <1>0, <1>1 DEF HoldsKey, HoldsValue
<1>5. \A x \in Key : HoldsKey(n, x)' <=> HoldsKey(n, x)
  BY <1>0, <1>1 DEF HoldsKey
<1>6. \A y \in Value : ~HoldsValue(n, y)' /\ (HoldsValue(n, y) <=> node[n].value = y)
  BY <1>0, <1>1 DEF HoldsValue
<1>7. \A x \in Key : keyRefs'[x] = keyRefs[x] + (IF HoldsKey(n, x)' THEN 1 ELSE 0)
                                              - (IF HoldsKey(n, x) THEN 1 ELSE 0)
  BY <1>1, <1>2, <1>5
<1>8. \A y \in Value : valueRefs'[y] = valueRefs[y] + (IF HoldsValue(n, y)' THEN 1 ELSE 0)
                                                    - (IF HoldsValue(n, y) THEN 1 ELSE 0)
  BY <1>2, <1>3, <1>6
<1>9. QED BY <1>4, <1>7, <1>8, OneHolder

LEMMA EndRemoveRefs ==
  ASSUME IInv, RefsExact, EndRemove
  PROVE  RefsExact'
<1>0. PICK n \in Node : n = frame.node
  BY DEF EndRemove, IInv, TypeOK, FrameOK, InCallback
<1>1. /\ node[n].list = "unlinked" /\ node \in Nodes
      /\ frame.op = "remove" /\ frame.stage = "value" /\ frame'.op = "none"
      /\ node' = Discard(node, n) /\ UNCHANGED <<keyRefs, valueRefs>>
  BY <1>0 DEF EndRemove, IInv, TypeOK, FrameOK, Idle, Nodes
<1>2. node'[n].list = "spare" /\ \A m \in Node \ {n} : node'[m] = node[m]
  BY <1>1, DiscardNode
<1>3. keyRefs \in [Key -> Int] /\ valueRefs \in [Value -> Int]
  BY DEF IInv, TypeOK
<1>4. \A m \in Node \ {n} : /\ \A x \in Key : HoldsKey(m, x)' <=> HoldsKey(m, x)
                            /\ \A y \in Value : HoldsValue(m, y)' <=> HoldsValue(m, y)
  BY <1>0, <1>1, <1>2 DEF HoldsKey, HoldsValue
<1>5. \A x \in Key : ~HoldsKey(n, x)' /\ ~HoldsKey(n, x)
  BY <1>0, <1>1, <1>2 DEF HoldsKey
<1>6. \A y \in Value : ~HoldsValue(n, y)' /\ ~HoldsValue(n, y)
  BY <1>0, <1>1, <1>2 DEF HoldsValue
<1>7. \A x \in Key : keyRefs'[x] = keyRefs[x] + (IF HoldsKey(n, x)' THEN 1 ELSE 0)
                                              - (IF HoldsKey(n, x) THEN 1 ELSE 0)
  BY <1>1, <1>3, <1>5
<1>8. \A y \in Value : valueRefs'[y] = valueRefs[y] + (IF HoldsValue(n, y)' THEN 1 ELSE 0)
                                                    - (IF HoldsValue(n, y) THEN 1 ELSE 0)
  BY <1>1, <1>3, <1>6
<1>9. QED BY <1>4, <1>7, <1>8, OneHolder

LEMMA NestedRemoveRefs ==
  ASSUME IInv, RefsExact, NEW k \in Key, NEW p \in BOOLEAN, NestedRemove(k, p)
  PROVE  RefsExact'
<1>1. PICK n \in RemoveHits(k, p) :
        /\ Removable(n)
        /\ node' = Discard(Unlink(node, n), n)
        /\ keyRefs' = Drop(keyRefs, node[n].key)
        /\ valueRefs' = Drop(valueRefs, node[n].value)
        /\ frame' = Forget(n)
  BY DEF NestedRemove
<1>2. n \in Linked /\ n \in Node /\ node[n].list = "chain"
  BY RemoveHitsLinked DEF Linked
<1>3. /\ frame'.op = frame.op /\ frame'.stage = frame.stage /\ frame'.node = frame.node
      /\ frame.op = "replace" => frame.node # n
      /\ frame.op = "remove" => frame.node # n
  BY <1>1, <1>2 DEF Forget, Removable, Replaceable, IInv, TypeOK, FrameOK, Frames
<1>4. Unlink(node, n) \in Nodes
  BY <1>2, UnlinkKeeps
<1>5. /\ node'[n].list = "spare"
      /\ \A m \in Node \ {n} : /\ node'[m].list = node[m].list /\ node'[m].key = node[m].key
                               /\ node'[m].value = node[m].value
  <2>1. node'[n].list = "spare" /\ \A m \in Node \ {n} : node'[m] = Unlink(node, n)[m]
    BY <1>1, <1>2, <1>4, DiscardNode
  <2>2. \A m \in Node \ {n} :
          /\ Unlink(node, n)[m].list = node[m].list /\ Unlink(node, n)[m].key = node[m].key
          /\ Unlink(node, n)[m].value = node[m].value
    BY <1>2, UnlinkKeeps
  <2>3. QED BY <2>1, <2>2
<1>6. keyRefs \in [Key -> Int] /\ valueRefs \in [Value -> Int]
  BY DEF IInv, TypeOK
<1>7. /\ \A x \in Key : keyRefs'[x] = keyRefs[x] - (IF node[n].key = x THEN 1 ELSE 0)
      /\ \A y \in Value : valueRefs'[y] = valueRefs[y] - (IF node[n].value = y THEN 1 ELSE 0)
  BY <1>1, <1>6, RefsAt
<1>8. \A m \in Node \ {n} : /\ \A x \in Key : HoldsKey(m, x)' <=> HoldsKey(m, x)
                            /\ \A y \in Value : HoldsValue(m, y)' <=> HoldsValue(m, y)
  BY <1>3, <1>5 DEF HoldsKey, HoldsValue
<1>9. \A x \in Key : ~HoldsKey(n, x)' /\ (HoldsKey(n, x) <=> node[n].key = x)
  BY <1>2, <1>3, <1>5 DEF HoldsKey
<1>10. \A y \in Value : ~HoldsValue(n, y)' /\ (HoldsValue(n, y) <=> node[n].value = y)
  BY <1>2, <1>3, <1>5 DEF HoldsValue
<1>11. \A x \in Key : keyRefs'[x] = keyRefs[x] + (IF HoldsKey(n, x)' THEN 1 ELSE 0)
                                              - (IF HoldsKey(n, x) THEN 1 ELSE 0)
  BY <1>6, <1>7, <1>9
<1>12. \A y \in Value : valueRefs'[y] = valueRefs[y] + (IF HoldsValue(n, y)' THEN 1 ELSE 0)
                                                    - (IF HoldsValue(n, y) THEN 1 ELSE 0)
  BY <1>6, <1>7, <1>10
<1>13. QED BY <1>2, <1>8, <1>11, <1>12, OneHolder

\* What the entries hold is all there is to give back when no callback runs.
LEMMA DestroyRefs ==
  ASSUME IInv, RefsExact, Destroy
  PROVE  RefsExact'
<1>1. /\ frame.op = "none" /\ frame' = frame
      /\ keyRefs' = Released(keyRefs, "key") /\ valueRefs' = Released(valueRefs, "value")
      /\ \A n \in Node : node'[n].list = "fresh"
  BY DEF Destroy, InCallback, FreshNode
<1>2. keyRefs \in [Key -> Int] /\ valueRefs \in [Value -> Int] /\ Linked \in SUBSET Node
  BY DEF IInv, TypeOK, Linked
<1>3. \A k \in Key : keyRefs[k] = Cardinality({n \in Linked : node[n].key = k})
  <2>1. \A k \in Key : {n \in Linked : node[n].key = k} =
          {n \in Linked : node[n].key = k /\ ~(frame.op = "replace" /\ frame.node = n)}
    BY <1>1
  <2>2. QED BY <2>1 DEF RefsExact
<1>4. \A v \in Value : valueRefs[v] = Cardinality({n \in Linked : node[n].value = v})
  <2>1. \A v \in Value : {n \in Linked : node[n].value = v} =
          {n \in Node :
             /\ node[n].value = v
             /\ \/ n \in Linked /\ ~(frame.op = "replace" /\ frame.stage = "value" /\ frame.node = n)
                \/ frame.op = "remove" /\ frame.stage = "key" /\ frame.node = n}
    BY <1>1, <1>2
  <2>2. QED BY <2>1 DEF RefsExact
<1>5. count = 0 => Linked = {}
  <2>1. Cardinality(Linked) \in Nat /\ IsFiniteSet(Linked)
    BY <1>2, NodesFinite
  <2>2. count = 0 => Cardinality(Linked) = 0
    BY <1>1, <2>1 DEF IInv, CountExact
  <2>3. QED BY <2>1, <2>2, FS_EmptySet
<1>6. \A k \in Key : keyRefs'[k] = 0
  <2>1. CASE count = 0
    <3>1. \A k \in Key : {n \in Linked : node[n].key = k} = {}
      BY <1>5, <2>1
    <3>2. \A k \in Key : keyRefs[k] = 0
      BY <1>3, <3>1, FS_EmptySet
    <3>3. QED BY <1>1, <2>1, <3>2 DEF Released
  <2>2. CASE count # 0
    <3> DEFINE held(k) == Cardinality({n \in Linked : node[n].key = k})
    <3>1. \A k \in Key : keyRefs'[k] = keyRefs[k] - held(k)
      BY <1>1, <1>2, <2>2 DEF Released
    <3>2. \A k \in Key : keyRefs[k] = held(k) /\ keyRefs[k] \in Int
      BY <1>2, <1>3
    <3> HIDE DEF held
    <3>3. QED BY <3>1, <3>2
  <2>3. QED BY <2>1, <2>2
<1>7. \A v \in Value : valueRefs'[v] = 0
  <2>1. CASE count = 0
    <3>1. \A v \in Value : {n \in Linked : node[n].value = v} = {}
      BY <1>5, <2>1
    <3>2. \A v \in Value : valueRefs[v] = 0
      BY <1>4, <3>1, FS_EmptySet
    <3>3. QED BY <1>1, <2>1, <3>2 DEF Released
  <2>2. CASE count # 0
    <3> DEFINE held(v) == Cardinality({n \in Linked : node[n].value = v})
    <3>1. \A v \in Value : valueRefs'[v] = valueRefs[v] - held(v)
      BY <1>1, <1>2, <2>2 DEF Released
    <3>2. \A v \in Value : valueRefs[v] = held(v) /\ valueRefs[v] \in Int
      BY <1>2, <1>4
    <3> HIDE DEF held
    <3>3. QED BY <3>1, <3>2
  <2>3. QED BY <2>1, <2>2
<1>8. Cardinality({}) = 0
  BY FS_EmptySet
<1>9. /\ \A k \in Key : {n \in Linked' : node'[n].key = k /\
                           ~(frame'.op = "replace" /\ frame'.node = n)} = {}
      /\ \A v \in Value :
           {n \in Node :
              /\ node'[n].value = v
              /\ \/ /\ n \in Linked'
                    /\ ~(frame'.op = "replace" /\ frame'.stage = "value" /\ frame'.node = n)
                 \/ frame'.op = "remove" /\ frame'.stage = "key" /\ frame'.node = n} = {}
  BY <1>1 DEF Linked
<1>10. QED BY <1>6, <1>7, <1>8, <1>9 DEF RefsExact

LEMMA NextRefs == IInv /\ RefsExact /\ [Next]_vars => RefsExact'
<1> SUFFICES ASSUME IInv, RefsExact, [Next]_vars PROVE RefsExact'
  OBVIOUS
<1>1. CASE UNCHANGED vars
  BY <1>1, SameHolders DEF vars
<1>2. ASSUME NEW k \in Key, NEW v \in Value, Insert(k, v) PROVE RefsExact'
  BY <1>2, BeginReplaceRefs, NestedReplaceRefs, InsertNewRefs DEF Insert
<1>3. ASSUME NEW k \in Key, NEW p \in BOOLEAN, Remove(k, p) PROVE RefsExact'
  <2>1. CASE RemoveMiss(k, p)
    BY <2>1, SameHolders DEF RemoveMiss
  <2>2. QED BY <1>3, <2>1, BeginRemoveRefs, NestedRemoveRefs DEF Remove
<1>4. CASE Return
  <2>1. CASE Advance
    <3>1. frame.op = "walk" /\ frame'.op \in {"walk", "none"}
      BY <2>1 DEF Advance, Visit, Idle, IInv, TypeOK, FrameOK, Frames
    <3>2. QED BY <2>1, <3>1, SameHolders DEF Advance
  <2>2. QED BY <1>4, <2>1, ReplaceValueCallbackRefs, EndReplaceRefs,
               RemoveValueCallbackRefs, EndRemoveRefs DEF Return
<1>5. CASE BeginWalk
  <2>1. frame.op = "none" /\ frame'.op = "walk"
    BY <1>5 DEF BeginWalk, InCallback, Visit, Idle
  <2>2. QED BY <1>5, <2>1, SameHolders DEF BeginWalk
<1>6. CASE Destroy
  BY <1>6, DestroyRefs
<1>7. QED BY <1>1, <1>2, <1>3, <1>4, <1>5, <1>6 DEF Next

\* did_remove_key and did_remove_value give back each key and each value that
\* insert took exactly once, whatever else is called from them.
THEOREM RefsRight == Spec => []RefsExact
<1>1. Init => RefsExact
  <2> SUFFICES ASSUME Init PROVE RefsExact
    OBVIOUS
  <2>1. Linked = {} /\ frame.op = "none"
    BY DEF Init, Linked, FreshNode, Idle
  <2>2. Cardinality({}) = 0
    BY FS_EmptySet
  <2>3. \A k \in Key : {n \in Linked : node[n].key = k /\
                          ~(frame.op = "replace" /\ frame.node = n)} = {}
    BY <2>1
  <2>4. \A v \in Value :
          {n \in Node :
             /\ node[n].value = v
             /\ \/ n \in Linked /\ ~(frame.op = "replace" /\ frame.stage = "value" /\ frame.node = n)
                \/ frame.op = "remove" /\ frame.stage = "key" /\ frame.node = n} = {}
    BY <2>1
  <2>5. QED BY <2>2, <2>3, <2>4 DEF Init, RefsExact
<1>2. IInv /\ RefsExact /\ [Next]_vars => RefsExact'
  BY NextRefs
<1>3. QED BY <1>1, <1>2, Structure, PTL DEF Spec

-----------------------------------------------------------------------------
(* The buckets.                                                            *)

ArraysInv == NoArrayLeaks /\ (size = 0 \/ size >= InitialSize)

\* A bucket array taken with new[] is the one in use; every other was freed.
THEOREM ArraysRight == Spec => []NoArrayLeaks
<1>1. Init => ArraysInv
  BY TableConstants DEF Init, ArraysInv, NoArrayLeaks
<1>2. IInv /\ ArraysInv /\ [Next]_vars => ArraysInv'
  <2> SUFFICES ASSUME IInv, ArraysInv, [Next]_vars PROVE ArraysInv'
    OBVIOUS
  <2>1. InitialSize \in Nat \ {0} /\ size \in Nat
    BY TableConstants DEF IInv, TypeOK
  <2>2. ASSUME NEW k \in Key, NEW v \in Value, InsertNew(k, v) PROVE ArraysInv'
    <3>1. Created \in Nat /\ Created >= InitialSize /\ (size # 0 => Created = size)
      BY <2>1 DEF Created, ArraysInv
    <3>2. CASE Grows
      <4>1. size' = 2 * Created /\ arrays' = ArraysAfterGrowth
        BY <2>2, <3>2 DEF InsertNew, Grown
      <4>2. size' > InitialSize
        BY <2>1, <3>1, <4>1
      <4>3. ArraysAfterGrowth = {2 * Created}
        BY <3>2 DEF ArraysAfterGrowth, Grown, ArraysInv, NoArrayLeaks
      <4>4. QED BY <2>1, <3>1, <4>1, <4>2, <4>3 DEF ArraysInv, NoArrayLeaks
    <3>3. CASE ~Grows
      <4>1. size' = Created /\ arrays' = arrays
        BY <2>2, <3>3 DEF InsertNew, Grown
      <4>2. QED BY <2>1, <3>1, <4>1 DEF ArraysInv, NoArrayLeaks, Created
    <3>4. QED BY <3>2, <3>3
  <2>3. CASE Destroy
    BY <2>1, <2>3 DEF Destroy, ArraysInv, NoArrayLeaks
  <2>4. CASE UNCHANGED <<size, arrays>>
    BY <2>4 DEF ArraysInv, NoArrayLeaks
  <2>5. QED
    BY <2>2, <2>3, <2>4 DEF Next, vars, Insert, BeginReplace, NestedReplace, Remove,
      BeginRemove, NestedRemove, RemoveMiss, Return, ReplaceValueCallback, EndReplace,
      RemoveValueCallback, EndRemove, Advance, BeginWalk
<1>3. ArraysInv => NoArrayLeaks
  BY DEF ArraysInv
<1>4. QED BY <1>1, <1>2, <1>3, Structure, PTL DEF Spec

\* The limit on the size is beyond what an int can hold, as 1 << 30 buckets of
\* 4 nodes are.
MaxSizeBeyondInt == LoadFactor * (MaxSize + 1) >= IntRange \div 2

\* The buckets double before the load exceeds LoadFactor, until the product
\* overflows.
THEOREM LoadRight == ASSUME MaxSizeBeyondInt PROVE Spec => []LoadBounded
<1>1. Init => LoadBounded
  BY TableConstants DEF Init, LoadBounded
<1>2. IInv /\ LoadBounded /\ [Next]_vars => LoadBounded'
  <2> SUFFICES ASSUME IInv, LoadBounded, [Next]_vars PROVE LoadBounded'
    OBVIOUS
  <2>1. /\ size \in Nat /\ count \in Nat /\ InitialSize \in Nat \ {0}
        /\ LoadFactor \in Nat \ {0} /\ IntRange \in Nat \ {0} /\ MaxSize \in Nat
    BY TableConstants DEF IInv, TypeOK
  <2>2. ASSUME NEW k \in Key, NEW v \in Value, InsertNew(k, v) PROVE LoadBounded'
    <3>1. count' = count + 1 /\ size' = Grown
      BY <2>2 DEF InsertNew
    <3> DEFINE load == LoadFactor * Created
               limit == load % IntRange
               half == IntRange \div 2
    <3>2. /\ Created \in Nat \ {0} /\ load \in Nat \ {0} /\ half \in Nat
          /\ count <= load \/ load >= half
      <4>1. Created \in Nat \ {0} /\ Created >= size
        BY <2>1 DEF Created
      <4>2. load \in Nat \ {0} /\ load >= LoadFactor * size
        BY <2>1, <4>1
      <4>3. LoadFactor * size \in Nat /\ half \in Nat
        BY <2>1
      <4>4. count <= LoadFactor * size \/ LoadFactor * size >= half
        BY DEF LoadBounded
      <4> HIDE DEF load, half
      <4> DEFINE before == LoadFactor * size
      <4>5. before \in Nat /\ load >= before /\ (count <= before \/ before >= half)
        BY <4>2, <4>3, <4>4
      <4> HIDE DEF before
      <4>6. QED BY <2>1, <4>1, <4>2, <4>3, <4>5
    <3>3. limit \in Nat /\ limit <= load
      <4> HIDE DEF load
      <4>1. QED BY <2>1, <3>2
    <3>4. Created > MaxSize => load >= half
      <4>1. Created > MaxSize => LoadFactor * Created >= LoadFactor * (MaxSize + 1)
        BY <2>1, <3>2
      <4>2. LoadFactor * (MaxSize + 1) \in Nat
        BY <2>1
      <4>3. QED BY <3>2, <4>1, <4>2 DEF MaxSizeBeyondInt
    <3>5. LoadBounded' <=> count + 1 <= LoadFactor * Grown \/ LoadFactor * Grown >= half
      BY <3>1 DEF LoadBounded
    <3>6. CASE Grows
      <4>1. LoadFactor * Grown = 2 * load
        BY <2>1, <3>2, <3>6 DEF Grown
      <4> HIDE DEF load, half
      <4>2. QED BY <2>1, <3>2, <3>5, <4>1
    <3>7. CASE ~Grows
      <4>1. LoadFactor * Grown = load
        BY <3>7 DEF Grown
      <4>2. limit >= half \/ count + 1 <= limit \/ Created > MaxSize
        BY <2>1, <3>2, <3>3, <3>7 DEF Grows
      <4> HIDE DEF load, half, limit
      <4>3. QED BY <2>1, <3>2, <3>3, <3>4, <3>5, <4>1, <4>2
    <3>8. QED BY <3>6, <3>7
  <2>3. CASE Destroy
    <3>1. count' = 0 /\ LoadFactor * size' \in Nat
      BY <2>1, <2>3 DEF Destroy
    <3>2. QED BY <3>1 DEF LoadBounded
  <2>4. ASSUME size' = size, count' \in {count, count - 1} PROVE LoadBounded'
    <3> DEFINE load == LoadFactor * size
    <3>1. load \in Nat
      BY <2>1
    <3>2. count <= load \/ load >= IntRange \div 2
      BY DEF LoadBounded
    <3>3. LoadBounded' <=> count' <= load \/ load >= IntRange \div 2
      BY <2>4 DEF LoadBounded
    <3> HIDE DEF load
    <3>4. QED BY <2>1, <2>4, <3>1, <3>2, <3>3
  <2>5. QED
    BY <2>2, <2>3, <2>4 DEF Next, vars, Insert, BeginReplace, NestedReplace, Remove,
      BeginRemove, NestedRemove, RemoveMiss, Return, ReplaceValueCallback, EndReplace,
      RemoveValueCallback, EndRemove, Advance, BeginWalk
<1>3. QED BY <1>1, <1>2, Structure, PTL DEF Spec

-----------------------------------------------------------------------------
(* The table implements Dictionary: to its client, chains, spare nodes,    *)
(* growth and the callbacks in the middle of insert and remove are a map   *)
(* from keys to values that changes at one point of each call.             *)

\* What a search answers, in terms of the linked nodes alone.
Answers ==
  \A k \in Key :
    /\ \A n \in Linked : Content[node[n].key] = Content[k] => Lookup(k) = node[n].value
    /\ (\A n \in Linked : Content[node[n].key] # Content[k]) => Lookup(k) = Absent

LEMMA SearchAnswers == IInv => Answers
<1> SUFFICES ASSUME IInv, NEW k \in Key
             PROVE  /\ \A n \in Linked : Content[node[n].key] = Content[k]
                                          => Lookup(k) = node[n].value
                    /\ (\A n \in Linked : Content[node[n].key] # Content[k])
                         => Lookup(k) = Absent
  BY DEF Answers
<1>1. ASSUME NEW n \in Linked, Content[node[n].key] = Content[k]
      PROVE  Lookup(k) = node[n].value
  <2>1. /\ n \in Node /\ node[n].key \in Key /\ node[n].list = "chain"
        /\ Linked \in SUBSET Node
    BY DEF IInv, TypeOK, Linked
  <2>2. Hash[node[n].key] = Hash[k] /\ (CompareByPointer => node[n].key = k)
    BY <1>1, <2>1, HasherAgreesWithKeyEqual
  <2>3. count # 0
    <3>1. Cardinality(Linked) # 0 /\ Cardinality(Linked) \in Nat
      BY <2>1, NodesFinite, FS_EmptySet
    <3>2. QED BY <3>1 DEF IInv, CountExact
  <2>4. n \in Chain(k) /\ Matches(n, k)
    BY <1>1, <2>1, <2>2 DEF IInv, InItsBucket, Chain, Members, Matches, Equal, SamePointer
  <2>5. ASSUME NEW m \in Chain(k), Matches(m, k) PROVE m = n
    <3>1. m \in Linked
      BY DEF Chain, Members, Linked
    <3>2. Content[node[m].key] = Content[k]
      BY <2>5 DEF Matches, Equal, SamePointer
    <3>3. QED BY <1>1, <3>1, <3>2 DEF IInv, UniqueKeys
  <2>6. Found(k) = {n}
    BY <2>3, <2>4, <2>5 DEF Found
  <2>7. \E m \in {n} : First(m, {n})
    BY <2>1, FirstExists DEF IInv, TypeOK
  <2>8. QED BY <2>6, <2>7 DEF Lookup
<1>2. ASSUME \A n \in Linked : Content[node[n].key] # Content[k]
      PROVE  Lookup(k) = Absent
  <2>1. \A m \in Chain(k) : m \in Linked
    BY DEF Chain, Members, Linked
  <2>2. \A m \in Chain(k) : ~Matches(m, k)
    BY <1>2, <2>1 DEF Matches, Equal, SamePointer
  <2>3. Found(k) = {}
    BY <2>2 DEF Found
  <2>4. QED BY <2>3 DEF Lookup
<1>3. QED BY <1>1, <1>2

\* The invariant, and with it what searches answer, before and after a step.
LEMMA BothSides == IInv /\ [Next]_vars => IInv' /\ Answers /\ Answers'
<1>1. IInv /\ [Next]_vars => IInv'
  BY NextIInv
<1>2. IInv => Answers
  BY SearchAnswers
<1>3. QED BY <1>1, <1>2, PTL

\* The map the table stands for.
Map == [k \in Key |-> Lookup(k)]

\* Storing v under the key of the linked node n.
LEMMA MapStore ==
  ASSUME IInv, Answers, Answers', NEW n \in Linked,
         NEW k \in Key, NEW v \in Value, Equal(n, k),
         node' = Store(node, n, k, v), UNCHANGED <<count, size>>, outcome' = FALSE
  PROVE  Dict!Put(k, v)
<1>1. /\ n \in Node /\ Linked' = Linked /\ Linked \in SUBSET Node
      /\ node[n].value \in Value
  BY StoreKeeps DEF Linked, IInv, TypeOK
<1>2. /\ \A m \in Node \ {n} : node'[m] = node[m]
      /\ node'[n].key = k /\ node'[n].value = v
  BY <1>1, StoreNode DEF IInv, TypeOK, Nodes
<1>3. Content[node[n].key] = Content[k]
  BY DEF Equal
<1>4. Lookup(k) # Absent
  BY <1>1, <1>3, TableConstants DEF Answers
<1>5. ASSUME NEW j \in Key
      PROVE  Lookup(j)' = IF Content[j] = Content[k] THEN v ELSE Lookup(j)
  <2>1. CASE Content[j] = Content[k]
    BY <1>1, <1>2, <2>1 DEF Answers
  <2>2. CASE Content[j] # Content[k]
    <3>1. \A m \in Linked : Content[node'[m].key] = Content[j]
                              <=> Content[node[m].key] = Content[j]
      BY <1>1, <1>2, <1>3, <2>2
    <3>2. \A m \in Linked : Content[node[m].key] = Content[j]
                              => node'[m].value = node[m].value
      BY <1>1, <1>2, <1>3, <2>2
    <3>3. QED BY <1>1, <2>2, <3>1, <3>2 DEF Answers
  <2>3. QED BY <2>1, <2>2
<1>6. QED BY <1>4, <1>5 DEF Dict!Put, Dict!Alias

\* The linked node n leaves its chain.
LEMMA MapUnlink ==
  ASSUME IInv, Answers, Answers', NEW n \in Linked,
         NEW k \in Key, Content[node[n].key] = Content[k],
         Linked' = Linked \ {n}, outcome' = TRUE,
         \A m \in Linked' : node'[m].key = node[m].key /\ node'[m].value = node[m].value
  PROVE  Dict!Delete(k)
<1>1. Linked \in SUBSET Node /\ node[n].value \in Value
  BY DEF IInv, TypeOK, Linked
<1>2. Lookup(k) # Absent
  BY <1>1, TableConstants DEF Answers
<1>3. \A m \in Linked' : Content[node'[m].key] # Content[k]
  BY DEF IInv, UniqueKeys
<1>4. ASSUME NEW j \in Key
      PROVE  Lookup(j)' = IF Content[j] = Content[k] THEN Absent ELSE Lookup(j)
  <2>1. CASE Content[j] = Content[k]
    BY <1>3, <2>1 DEF Answers
  <2>2. CASE Content[j] # Content[k]
    <3>1. CASE \E m \in Linked' : Content[node'[m].key] = Content[j]
      BY <2>2, <3>1 DEF Answers
    <3>2. CASE \A m \in Linked' : Content[node'[m].key] # Content[j]
      <4>1. \A m \in Linked : Content[node[m].key] # Content[j]
        BY <2>2, <3>2
      <4>2. QED BY <2>2, <3>2, <4>1 DEF Answers
    <3>3. QED BY <3>1, <3>2
  <2>3. QED BY <2>1, <2>2
<1>5. QED BY <1>2, <1>4 DEF Dict!Delete, Dict!Alias

\* Which node remove takes out, and what it is to its client.
LEMMA RemoveHitsMap ==
  ASSUME IInv, NEW k \in Key, NEW p \in BOOLEAN, NEW n \in RemoveHits(k, p)
  PROVE  n \in Linked /\ Content[node[n].key] = Content[k]
<1>1. n \in Linked
  BY RemoveHitsLinked
<1>2. QED
  BY <1>1 DEF RemoveHits, Found, Matches, Equal, SamePointer

LEMMA InsertNewMap ==
  ASSUME IInv, Answers, Answers', NEW k \in Key, NEW v \in Value, InsertNew(k, v)
  PROVE  Dict!Put(k, v)
<1>1. PICK n \in Node \ Linked :
        /\ Linked' = Linked \cup {n}
        /\ node'[n].key = k /\ node'[n].value = v
        /\ \A m \in Node \ {n} : node'[m].key = node[m].key /\ node'[m].value = node[m].value
        /\ \A m \in Linked : Content[node[m].key] # Content[k]
  BY InsertNewNode
<1>2. \A m \in Linked : m \in Node \ {n}
  BY <1>1 DEF Linked
<1>3. Lookup(k) = Absent /\ outcome' = TRUE
  BY <1>1 DEF Answers, InsertNew
<1>4. ASSUME NEW j \in Key
      PROVE  Lookup(j)' = IF Content[j] = Content[k] THEN v ELSE Lookup(j)
  <2>1. CASE Content[j] = Content[k]
    BY <1>1, <2>1 DEF Answers
  <2>2. CASE Content[j] # Content[k]
    <3>1. CASE \E m \in Linked : Content[node[m].key] = Content[j]
      BY <1>1, <1>2, <2>2, <3>1 DEF Answers
    <3>2. CASE \A m \in Linked : Content[node[m].key] # Content[j]
      <4>1. \A m \in Linked' : Content[node'[m].key] # Content[j]
        BY <1>1, <1>2, <2>2, <3>2
      <4>2. QED BY <2>2, <3>2, <4>1 DEF Answers
    <3>3. QED BY <3>1, <3>2
  <2>3. QED BY <2>1, <2>2
<1>5. QED BY <1>3, <1>4 DEF Dict!Put, Dict!Alias

\* A step that moves no linked node and stores nothing leaves the map alone.
LEMMA MapSame ==
  ASSUME Answers, Answers', Linked' = Linked,
         \A m \in Linked : node'[m].key = node[m].key /\ node'[m].value = node[m].value
  PROVE  \A j \in Key : Lookup(j)' = Lookup(j)
<1> SUFFICES ASSUME NEW j \in Key PROVE Lookup(j)' = Lookup(j)
  OBVIOUS
<1>1. CASE \E m \in Linked : Content[node[m].key] = Content[j]
  BY <1>1 DEF Answers
<1>2. CASE \A m \in Linked : Content[node[m].key] # Content[j]
  BY <1>2 DEF Answers
<1>3. QED BY <1>1, <1>2

\* The steps of a remove that take the entry out.
LEMMA RemoveMap ==
  ASSUME IInv, Answers, Answers', NEW k \in Key, NEW p \in BOOLEAN,
         BeginRemove(k, p) \/ NestedRemove(k, p)
  PROVE  Dict!Delete(k)
<1>1. PICK n \in RemoveHits(k, p) :
        node' = Unlink(node, n) \/ node' = Discard(Unlink(node, n), n)
  BY DEF BeginRemove, NestedRemove
<1>2. n \in Linked /\ n \in Node /\ Content[node[n].key] = Content[k]
  BY RemoveHitsLinked, RemoveHitsMap
<1>3. outcome' = TRUE
  BY DEF BeginRemove, NestedRemove
<1> DEFINE cut == Unlink(node, n)
<1>4. /\ cut \in Nodes /\ cut[n].list = "unlinked"
      /\ \A m \in Node \ {n} : /\ cut[m].list = node[m].list
                               /\ cut[m].key = node[m].key /\ cut[m].value = node[m].value
  BY <1>2, UnlinkKeeps
<1>5. node' = cut \/ node' = Discard(cut, n)
  BY <1>1
<1> HIDE DEF cut
<1>6. /\ node'[n].list # "chain"
      /\ \A m \in Node \ {n} : node'[m] = cut[m]
  BY <1>2, <1>4, <1>5, DiscardNode
<1>7. Linked' = Linked \ {n}
  BY <1>2, <1>4, <1>6 DEF Linked
<1>8. \A m \in Linked' : node'[m].key = node[m].key /\ node'[m].value = node[m].value
  BY <1>4, <1>6, <1>7 DEF Linked
<1>9. QED BY <1>2, <1>3, <1>7, <1>8, MapUnlink

\* A node that was in no list goes to the spare ones: nothing changes.
LEMMA EndRemoveMap ==
  ASSUME IInv, Answers, Answers', EndRemove
  PROVE  \A j \in Key : Lookup(j)' = Lookup(j)
<1> DEFINE n == frame.node
<1>1. /\ n \in Node /\ node[n].list = "unlinked" /\ node \in Nodes
      /\ node' = Discard(node, n)
  BY DEF EndRemove, IInv, TypeOK, FrameOK, InCallback, Nodes
<1> HIDE DEF n
<1>2. node'[n].list = "spare" /\ \A m \in Node \ {n} : node'[m] = node[m]
  BY <1>1, DiscardNode
<1>3. Linked' = Linked /\ \A m \in Linked : m \in Node \ {n}
  BY <1>1, <1>2 DEF Linked
<1>4. QED BY <1>2, <1>3, MapSame

\* Every step of the table is a step of the map, or none.
LEMMA StepMaps == IInv /\ [Next]_vars => [Dict!DictNext]_(Dict!dictVars)
<1> SUFFICES ASSUME IInv, [Next]_vars PROVE [Dict!DictNext]_(Dict!dictVars)
  OBVIOUS
<1>0. Answers /\ Answers'
  BY BothSides
<1>1. ASSUME \A j \in Key : Lookup(j)' = Lookup(j), outcome' = outcome
      PROVE  UNCHANGED Dict!dictVars
  BY <1>1 DEF Dict!dictVars
<1>2. ASSUME UNCHANGED node, outcome' = outcome
      PROVE  UNCHANGED Dict!dictVars
  <2>1. Linked' = Linked
    BY <1>2 DEF Linked
  <2>2. QED BY <1>0, <1>1, <1>2, <2>1, MapSame
<1>3. CASE UNCHANGED vars
  BY <1>2, <1>3 DEF vars
<1>4. ASSUME NEW k \in Key, NEW v \in Value, Insert(k, v)
      PROVE  Dict!Put(k, v) \/ UNCHANGED Dict!dictVars
  <2>1. CASE BeginReplace(k, v)
    BY <1>2, <2>1 DEF BeginReplace
  <2>2. CASE NestedReplace(k, v)
    <3>1. PICK n \in Replaced(k) : node' = Store(node, n, k, v)
      BY <2>2 DEF NestedReplace
    <3>2. n \in Linked /\ Equal(n, k)
      BY DEF Replaced, Chain, Members, Linked
    <3>3. UNCHANGED <<count, size>> /\ outcome' = FALSE
      BY <2>2 DEF NestedReplace
    <3>4. QED BY <1>0, <3>1, <3>2, <3>3, MapStore
  <2>3. CASE InsertNew(k, v)
    BY <1>0, <2>3, InsertNewMap
  <2>4. QED BY <1>4, <2>1, <2>2, <2>3 DEF Insert
<1>5. ASSUME NEW k \in Key, NEW p \in BOOLEAN, Remove(k, p)
      PROVE  Dict!Delete(k) \/ Dict!Miss(k)
  <2>1. CASE BeginRemove(k, p) \/ NestedRemove(k, p)
    BY <1>0, <2>1, RemoveMap
  <2>2. CASE RemoveMiss(k, p)
    <3>1. \A j \in Key : Lookup(j)' = Lookup(j)
      <4>1. UNCHANGED node
        BY <2>2 DEF RemoveMiss
      <4>2. Linked' = Linked
        BY <4>1 DEF Linked
      <4>3. QED BY <1>0, <4>1, <4>2, MapSame
    <3>2. QED BY <2>2, <3>1 DEF RemoveMiss, Dict!Miss
  <2>3. QED BY <1>5, <2>1, <2>2 DEF Remove
<1>6. CASE Return
  <2>1. CASE ReplaceValueCallback \/ RemoveValueCallback \/ Advance
    BY <1>2, <2>1 DEF ReplaceValueCallback, RemoveValueCallback, Advance
  <2>2. CASE EndReplace
    <3>1. /\ frame.node \in Linked /\ frame.key \in Key /\ frame.value \in Value
          /\ Equal(frame.node, frame.key)
      BY <2>2 DEF EndReplace, IInv, TypeOK, FrameOK, ReplacesItsKey
    <3>2. /\ node' = Store(node, frame.node, frame.key, frame.value)
          /\ UNCHANGED <<count, size>> /\ outcome' = FALSE
      BY <2>2 DEF EndReplace
    <3>3. Dict!Put(frame.key, frame.value)
      BY <1>0, <3>1, <3>2, MapStore
    <3>4. QED BY <3>1, <3>3 DEF Dict!DictNext
  <2>3. CASE EndRemove
    BY <1>0, <1>1, <2>3, EndRemoveMap DEF EndRemove
  <2>4. QED BY <1>6, <2>1, <2>2, <2>3 DEF Return
<1>7. CASE BeginWalk
  BY <1>2, <1>7 DEF BeginWalk
<1>8. CASE Destroy
  <2>1. node' = [n \in Node |-> FreshNode] /\ outcome' = FALSE
    BY <1>8 DEF Destroy
  <2>2. Linked' = {}
    BY <2>1 DEF Linked, FreshNode
  <2>3. \A j \in Key : Lookup(j)' = Absent
    BY <1>0, <2>2 DEF Answers
  <2>4. Dict!Clear
    BY <2>1, <2>3 DEF Dict!Clear
  <2>5. QED BY <2>4 DEF Dict!DictNext
<1>9. QED BY <1>3, <1>4, <1>5, <1>6, <1>7, <1>8 DEF Next, Dict!DictNext

\* To its client the table is a dictionary: insert, remove and destruction each
\* take effect at one moment, between their callbacks, and nothing else changes
\* what lookup answers (growth, reuse of spare nodes, for_each).
THEOREM Implements == Spec => IsDictionary
<1>1. Init => Dict!DictInit
  <2> SUFFICES ASSUME Init PROVE Dict!DictInit
    OBVIOUS
  <2>1. IInv /\ Linked = {} /\ outcome = FALSE
    BY InitIInv DEF Init, Linked, FreshNode
  <2>2. \A k \in Key : Lookup(k) = Absent
    BY <2>1, SearchAnswers DEF Answers
  <2>3. QED BY <2>1, <2>2 DEF Dict!DictInit
<1>2. IInv /\ [Next]_vars => [Dict!DictNext]_(Dict!dictVars)
  BY StepMaps
<1>3. QED
  BY <1>1, <1>2, Structure, PTL DEF Spec, IsDictionary, Dict!DictSpec

-----------------------------------------------------------------------------
(* for_each: the order of a walk, and what the body may do to it.          *)

\* The nodes of a chain have ranks that tell them apart, none above its length.
Ranked(nd) ==
  \A n \in Node : nd[n].list = "chain" =>
    /\ nd[n].rank <= Cardinality(Members(nd, "chain", nd[n].bucket))
    /\ \A m \in Members(nd, "chain", nd[n].bucket) : nd[m].rank = nd[n].rank => m = n

\* A walk that has come to n comes to m later.
Ahead(n, m) ==
  \/ node[n].bucket < node[m].bucket
  \/ node[n].bucket = node[m].bucket /\ node[m].rank < node[n].rank

\* The entries seen are not ahead, and all that are still owed are.
InWalk ==
  /\ frame.node \in Linked /\ node[frame.node].bucket = frame.bucket
  /\ frame.present \cup frame.seen \subseteq Linked
  /\ \A m \in frame.seen : ~Ahead(frame.node, m)
  /\ \A m \in frame.present \ frame.seen : Ahead(frame.node, m)

WalkInv == frame.op = "walk" => InWalk

LEMMA RankedPart ==
  ASSUME NEW nd, Ranked(nd), NEW n \in Node, NEW m \in Node,
         nd[n].list = "chain", nd[m].list = "chain", nd[n].bucket = nd[m].bucket
  PROVE  /\ nd[m].rank <= Cardinality(Members(nd, "chain", nd[n].bucket))
         /\ nd[m].rank = nd[n].rank => m = n
  BY DEF Ranked, Members

\* Only the place of a node in its chain matters.
LEMMA RankedSame ==
  ASSUME NEW nd, NEW md, Ranked(nd),
         \A m \in Node : /\ md[m].list = "chain" <=> nd[m].list = "chain"
                         /\ nd[m].list = "chain" => /\ md[m].bucket = nd[m].bucket
                                                    /\ md[m].rank = nd[m].rank
  PROVE  Ranked(md)
<1>1. ASSUME NEW b PROVE Members(md, "chain", b) = Members(nd, "chain", b)
  BY DEF Members
<1>2. ASSUME NEW n \in Node, md[n].list = "chain"
      PROVE  /\ md[n].rank <= Cardinality(Members(md, "chain", md[n].bucket))
             /\ \A m \in Members(md, "chain", md[n].bucket) :
                  md[m].rank = md[n].rank => m = n
  <2>1. /\ nd[n].list = "chain" /\ md[n].bucket = nd[n].bucket /\ md[n].rank = nd[n].rank
        /\ Members(md, "chain", md[n].bucket) = Members(nd, "chain", nd[n].bucket)
    BY <1>1, <1>2
  <2>2. \A m \in Members(nd, "chain", nd[n].bucket) : md[m].rank = nd[m].rank
    BY DEF Members
  <2>3. QED BY <2>1, <2>2 DEF Ranked
<1>3. QED BY <1>2 DEF Ranked

LEMMA PushRank ==
  ASSUME NEW nd \in Nodes, NEW n \in Node, NEW b \in Nat
  PROVE  Push(nd, n, "chain", b)[n].rank = Cardinality(Members(nd, "chain", b)) + 1
<1> DEFINE c == Cardinality(Members(nd, "chain", b)) + 1
           pushed == [nd[n] EXCEPT !.list = "chain", !.bucket = b, !.rank = c]
<1>1. Push(nd, n, "chain", b) = [nd EXCEPT ![n] = pushed]
  BY DEF Push, Nodes
<1> HIDE DEF c
<1>2. pushed.rank = c
  BY DEF Nodes, HashNode
<1> HIDE DEF pushed
<1>3. QED BY <1>1, <1>2 DEF Nodes, c

\* A node pushed at the head of a chain is the first of it.
LEMMA RankedPush ==
  ASSUME NEW nd \in Nodes, Ranked(nd), NEW n \in Node, nd[n].list # "chain", NEW b \in Nat
  PROVE  Ranked(Push(nd, n, "chain", b))
<1> DEFINE md == Push(nd, n, "chain", b)
           old(c) == Members(nd, "chain", c)
           new(c) == Members(md, "chain", c)
<1>1. /\ md \in Nodes /\ \A m \in Node \ {n} : md[m] = nd[m]
      /\ md[n].list = "chain" /\ md[n].bucket = b
      /\ md[n].rank = Cardinality(old(b)) + 1
  <2>1. "chain" \in Lists
    BY DEF Lists
  <2>2. md[n].rank = Cardinality(old(b)) + 1
    BY PushRank
  <2>3. /\ md \in Nodes /\ \A m \in Node \ {n} : md[m] = nd[m]
        /\ md[n].list = "chain" /\ md[n].bucket = b
    BY <2>1, PushNode
  <2>4. QED BY <2>2, <2>3
<1> HIDE DEF md
<1>2. ASSUME NEW c PROVE /\ old(c) \in SUBSET Node /\ n \notin old(c)
                         /\ new(c) = IF c = b THEN old(c) \cup {n} ELSE old(c)
  BY <1>1 DEF Members
<1>3. ASSUME NEW c PROVE /\ Cardinality(old(c)) \in Nat /\ Cardinality(new(c)) \in Nat
                         /\ Cardinality(old(c)) <= Cardinality(new(c))
                         /\ Cardinality(new(b)) = Cardinality(old(b)) + 1
  <2> HIDE DEF old, new
  <2>1. ASSUME NEW x PROVE IsFiniteSet(old(x)) /\ Cardinality(old(x)) \in Nat
    BY <1>2, NodesFinite
  <2>2. Cardinality(new(b)) = Cardinality(old(b)) + 1
    BY <1>2, <2>1, FS_AddElement
  <2>3. QED BY <1>2, <2>1, <2>2
<1>4. ASSUME NEW m \in Node, md[m].list = "chain"
      PROVE  /\ md[m].rank <= Cardinality(new(md[m].bucket))
             /\ \A x \in new(md[m].bucket) : md[x].rank = md[m].rank => x = m
  <2>1. \A x \in old(b) : nd[x].rank <= Cardinality(old(b)) /\ nd[x].rank \in Nat
    BY DEF Ranked, Members, Nodes, HashNode
  <2>2. CASE m = n
    <3>1. md[m].rank <= Cardinality(new(md[m].bucket))
      BY <1>1, <1>3, <2>2
    <3>2. ASSUME NEW x \in new(b), md[x].rank = md[m].rank PROVE x = m
      <4>1. CASE x = n
        BY <4>1, <2>2
      <4>2. CASE x # n
        <5>1. x \in old(b) /\ md[x] = nd[x]
          BY <1>1, <1>2, <3>2, <4>2 DEF Members
        <5>2. QED BY <5>1, <1>1, <1>3, <2>1, <2>2, <3>2
      <4>3. QED BY <4>1, <4>2
    <3>3. QED BY <1>1, <2>2, <3>1, <3>2
  <2>3. CASE m # n
    <3>1. md[m] = nd[m] /\ nd[m].list = "chain" /\ m \in old(nd[m].bucket)
          /\ nd[m].rank \in Nat
      BY <1>1, <1>4, <2>3 DEF Members, Nodes, HashNode
    <3>2. nd[m].rank <= Cardinality(old(nd[m].bucket))
      BY <3>1 DEF Ranked
    <3>3. md[m].rank <= Cardinality(new(md[m].bucket))
      <4>1. PICK c : c = nd[m].bucket
        OBVIOUS
      <4> HIDE DEF old, new
      <4>2. QED BY <1>3, <3>1, <3>2, <4>1
    <3>4. ASSUME NEW x \in new(md[m].bucket), md[x].rank = md[m].rank PROVE x = m
      <4>1. CASE x = n
        <5>1. nd[m].bucket = b
          BY <1>1, <3>1, <3>4, <4>1 DEF Members
        <5>2. QED BY <1>1, <1>3, <2>1, <3>1, <3>4, <4>1, <5>1
      <4>2. CASE x # n
        <5>1. x \in old(nd[m].bucket) /\ md[x] = nd[x]
          BY <1>1, <1>2, <3>1, <3>4, <4>2 DEF Members
        <5>2. QED BY <3>1, <3>4, <5>1 DEF Ranked
      <4>3. QED BY <4>1, <4>2
    <3>5. QED BY <3>3, <3>4
  <2>4. QED BY <2>2, <2>3
<1>5. Ranked(md)
  BY <1>4 DEF Ranked
<1>6. QED BY <1>5 DEF md

LEMMA UnlinkRank ==
  ASSUME NEW nd \in Nodes, NEW n \in Node, nd[n].list = "chain", NEW m \in Node \ {n},
         nd[m].list = "chain"
  PROVE  Unlink(nd, n)[m].rank =
           IF nd[m].bucket = nd[n].bucket /\ nd[m].rank > nd[n].rank
             THEN nd[m].rank - 1 ELSE nd[m].rank
<1>1. Unlink(nd, n)[m] =
        IF m \in Members(nd, nd[n].list, nd[n].bucket) /\ nd[m].rank > nd[n].rank
          THEN [nd[m] EXCEPT !.rank = @ - 1] ELSE nd[m]
  BY DEF Unlink
<1>2. m \in Members(nd, nd[n].list, nd[n].bucket) <=> nd[m].bucket = nd[n].bucket
  BY DEF Members
<1>3. [nd[m] EXCEPT !.rank = @ - 1].rank = nd[m].rank - 1
  BY DEF Nodes, HashNode
<1>4. QED BY <1>1, <1>2, <1>3

\* The nodes that are left when n is unlinked keep their order.
LEMMA UnlinkOrder ==
  ASSUME NEW nd \in Nodes, Ranked(nd), NEW n \in Node, nd[n].list = "chain",
         NEW m \in Node \ {n}, nd[m].list = "chain",
         NEW x \in Node \ {n}, nd[x].list = "chain", nd[x].bucket = nd[m].bucket
  PROVE  /\ Unlink(nd, n)[x].rank < Unlink(nd, n)[m].rank <=> nd[x].rank < nd[m].rank
         /\ Unlink(nd, n)[x].rank = Unlink(nd, n)[m].rank <=> nd[x].rank = nd[m].rank
<1>1. nd[n].rank \in Nat /\ nd[m].rank \in Nat /\ nd[x].rank \in Nat
  BY DEF Nodes, HashNode
<1>2. nd[m].bucket = nd[n].bucket => nd[m].rank # nd[n].rank /\ nd[x].rank # nd[n].rank
  BY RankedPart
<1>3. Unlink(nd, n)[m].rank = IF nd[m].bucket = nd[n].bucket /\ nd[m].rank > nd[n].rank
                                THEN nd[m].rank - 1 ELSE nd[m].rank
  BY UnlinkRank
<1>4. Unlink(nd, n)[x].rank = IF nd[x].bucket = nd[n].bucket /\ nd[x].rank > nd[n].rank
                                THEN nd[x].rank - 1 ELSE nd[x].rank
  BY UnlinkRank
<1>5. QED BY <1>1, <1>2, <1>3, <1>4

LEMMA RankedUnlink ==
  ASSUME NEW nd \in Nodes, Ranked(nd), NEW n \in Node, nd[n].list = "chain"
  PROVE  Ranked(Unlink(nd, n))
<1> DEFINE md == Unlink(nd, n)
           old(c) == Members(nd, "chain", c)
           new(c) == Members(md, "chain", c)
<1>1. /\ md[n].list = "unlinked" /\ md \in Nodes
      /\ \A m \in Node \ {n} : md[m].list = nd[m].list /\ md[m].bucket = nd[m].bucket
  BY UnlinkNode
<1>2. ASSUME NEW m \in Node \ {n}, nd[m].list = "chain"
      PROVE  md[m].rank = IF nd[m].bucket = nd[n].bucket /\ nd[m].rank > nd[n].rank
                            THEN nd[m].rank - 1 ELSE nd[m].rank
  BY <1>2, UnlinkRank
<1>3. ASSUME NEW m \in Node \ {n}, nd[m].list = "chain",
             NEW x \in Node \ {n}, nd[x].list = "chain", nd[x].bucket = nd[m].bucket,
             md[x].rank = md[m].rank
      PROVE  x = m
  BY <1>3, UnlinkOrder, RankedPart
<1> HIDE DEF md
<1>4. ASSUME NEW c
      PROVE  /\ new(c) = old(c) \ {n} /\ old(c) \in SUBSET Node
             /\ n \in old(c) <=> c = nd[n].bucket
  BY <1>1 DEF Members
<1>5. ASSUME NEW m \in Node, md[m].list = "chain"
      PROVE  /\ md[m].rank <= Cardinality(new(md[m].bucket))
             /\ \A x \in new(md[m].bucket) : md[x].rank = md[m].rank => x = m
  <2>1. m \in Node \ {n} /\ nd[m].list = "chain" /\ md[m].bucket = nd[m].bucket
    BY <1>1, <1>5
  <2>2. \A x \in new(md[m].bucket) : md[x].rank = md[m].rank => x = m
    BY <1>1, <1>3, <2>1 DEF Members
  <2>3. /\ nd[m].rank <= Cardinality(old(nd[m].bucket))
        /\ nd[n].rank <= Cardinality(old(nd[n].bucket))
        /\ nd[m].rank \in Nat /\ nd[n].rank \in Nat
        /\ nd[m].bucket = nd[n].bucket => nd[m].rank # nd[n].rank
    BY <2>1, RankedPart DEF Nodes, HashNode
  <2> DEFINE c == nd[m].bucket
  <2>4. new(c) = old(c) \ {n} /\ old(c) \in SUBSET Node /\ (n \in old(c) <=> c = nd[n].bucket)
    BY <1>4
  <2> HIDE DEF old, new
  <2>5. /\ Cardinality(old(c)) \in Nat
        /\ Cardinality(new(c)) = IF c = nd[n].bucket THEN Cardinality(old(c)) - 1
                                                     ELSE Cardinality(old(c))
    BY <2>4, NodesFinite, FS_RemoveElement
  <2>6. md[m].rank = IF c = nd[n].bucket /\ nd[m].rank > nd[n].rank
                       THEN nd[m].rank - 1 ELSE nd[m].rank
    BY <1>2, <2>1
  <2>7. md[m].rank <= Cardinality(new(c))
    BY <2>3, <2>5, <2>6
  <2>8. QED BY <2>1, <2>2, <2>7
<1>6. Ranked(md)
  BY <1>5 DEF Ranked
<1>7. QED BY <1>6 DEF md

LEMMA Quotient ==
  ASSUME NEW t \in Nat, t > 0, NEW x \in Nat, NEW d, d = x \div t, NEW r, r = x % t
  PROVE  x = t * d + r
  OBVIOUS

LEMMA Divided ==
  ASSUME NEW t \in Nat, t > 0, NEW x \in Nat
  PROVE  \E d \in Nat, r \in Nat : x = t * d + r /\ r = x % t /\ r < t
<1>1. PICK d, r : d = x \div t /\ r = x % t
  OBVIOUS
<1>2. d \in Nat /\ r \in Nat /\ r < t
  BY <1>1
<1>3. x = t * d + r
  BY <1>1, Quotient
<1>4. QED BY <1>1, <1>2, <1>3

\* Nodes that share a bucket of twice as many shared one before.
LEMMA HalvesMerge ==
  ASSUME NEW s \in Nat \ {0}, NEW g \in Nat, NEW h \in Nat, g % (2 * s) = h % (2 * s)
  PROVE  g % s = h % s
<1> DEFINE r == g % (2 * s)
<1>1. PICK p \in Nat, q \in Nat :
        r \in Nat /\ g = (2 * s) * p + r /\ h = (2 * s) * q + r
  <2>1. PICK t \in Nat : t = 2 * s /\ t > 0
    OBVIOUS
  <2>2. PICK p \in Nat, u \in Nat : g = t * p + u /\ u = g % t
    BY <2>1, Divided
  <2>3. PICK q \in Nat, v \in Nat : h = t * q + v /\ v = h % t
    BY <2>1, Divided
  <2>4. u = r /\ v = r
    BY <2>1, <2>2, <2>3
  <2> HIDE DEF r
  <2>5. g = (2 * s) * p + r /\ h = (2 * s) * q + r
    BY <2>1, <2>2, <2>3, <2>4
  <2>6. QED BY <2>2, <2>4, <2>5
<1> HIDE DEF r
<1>2. ASSUME NEW k \in Nat, NEW x \in Nat, x = (2 * s) * k + r PROVE x % s = r % s
  <2> DEFINE c == r \div s
             e == r % s
  <2>1. c \in Nat /\ e \in Nat /\ e < s /\ r = s * c + e
    BY <1>1
  <2> HIDE DEF c, e
  <2>2. x = s * (2 * k + c) + e /\ 2 * k + c \in Nat
    BY <1>2, <2>1
  <2>3. ASSUME NEW y \in Nat, x = s * y + e PROVE x % s = e
    <3> DEFINE d == x \div s
               f == x % s
    <3>1. d \in Nat /\ f \in Nat /\ f < s /\ x = s * d + f
      OBVIOUS
    <3> HIDE DEF d, f
    <3>2. CASE d < y
      <4>1. s * (d + 1) <= s * y
        BY <3>1, <3>2
      <4>2. QED BY <2>1, <2>3, <3>1, <4>1
    <3>3. CASE d > y
      <4>1. s * (y + 1) <= s * d
        BY <3>1, <3>3
      <4>2. QED BY <2>1, <2>3, <3>1, <4>1
    <3>4. CASE d = y
      BY <2>1, <2>3, <3>1, <3>4 DEF f
    <3>5. QED BY <3>1, <3>2, <3>3, <3>4
  <2>4. x % s = e
    BY <2>2, <2>3
  <2>5. QED BY <2>4 DEF e
<1>3. g % s = r % s /\ h % s = r % s
  BY <1>1, <1>2
<1>4. QED BY <1>3

\* The rank of a node in its new chain counts the nodes moved there before it.
LEMMA RehashRank ==
  ASSUME NEW nd \in Nodes, NEW sz \in Nat \ {0}, NEW n \in Node, nd[n].list = "chain"
  PROVE  Rehash(nd, sz)[n].rank =
           Cardinality({m \in {x \in Members(nd, "chain", nd[n].bucket) :
                                 Bucket(nd[x].hash, sz) = Bucket(nd[n].hash, sz)} :
                          nd[m].rank >= nd[n].rank})
<1> DEFINE c == Cardinality({m \in {x \in Members(nd, "chain", nd[n].bucket) :
                                 Bucket(nd[x].hash, sz) = Bucket(nd[n].hash, sz)} :
                          nd[m].rank >= nd[n].rank})
           b == Bucket(nd[n].hash, sz)
<1>1. Rehash(nd, sz)[n] = [nd[n] EXCEPT !.bucket = b, !.rank = c]
  BY DEF Rehash
<1> HIDE DEF c, b
<1>2. [nd[n] EXCEPT !.bucket = b, !.rank = c].rank = c
  BY DEF Nodes, HashNode
<1>3. QED BY <1>1, <1>2 DEF c

\* Growth turns every chain into two, and the nodes of each are told apart.
LEMMA RankedRehash ==
  ASSUME NEW nd \in Nodes, Ranked(nd), NEW sz \in Nat \ {0},
         \A n \in Node : nd[n].list = "chain" => nd[n].bucket = Bucket(nd[n].hash, sz)
  PROVE  Ranked(Rehash(nd, 2 * sz))
<1> DEFINE md == Rehash(nd, 2 * sz)
           to(n) == Bucket(nd[n].hash, 2 * sz)
           behind(n) == {m \in {x \in Members(nd, "chain", nd[n].bucket) : to(x) = to(n)} :
                           nd[m].rank >= nd[n].rank}
           new(c) == Members(md, "chain", c)
<1>0. 2 * sz \in Nat \ {0}
  OBVIOUS
<1>1. /\ md \in Nodes
      /\ \A m \in Node : /\ md[m].list = nd[m].list
                         /\ nd[m].list = "chain" => md[m].bucket = to(m)
  BY <1>0, RehashNode
<1>2. ASSUME NEW n \in Node, nd[n].list = "chain"
      PROVE  md[n].rank = Cardinality(behind(n))
  BY <1>0, <1>2, RehashRank
<1>3. ASSUME NEW n \in Node, NEW m \in Node, nd[n].list = "chain", nd[m].list = "chain",
             to(n) = to(m)
      PROVE  nd[n].bucket = nd[m].bucket
  <2>1. nd[n].hash \in Nat /\ nd[m].hash \in Nat
    BY DEF Nodes, HashNode
  <2>2. Bucket(nd[n].hash, sz) = Bucket(nd[m].hash, sz)
    BY <1>3, <2>1, HalvesMerge DEF Bucket
  <2>3. QED BY <1>3, <2>2
<1> HIDE DEF md, to
<1>4. ASSUME NEW n \in Node, nd[n].list = "chain"
      PROVE  /\ behind(n) \subseteq new(md[n].bucket) /\ n \in behind(n)
             /\ new(md[n].bucket) \in SUBSET Node
  <2>1. nd[n].rank \in Nat
    BY DEF Nodes, HashNode
  <2>2. QED BY <1>1, <1>4, <2>1 DEF Members
<1>5. ASSUME NEW n \in Node, NEW m \in Node, nd[n].list = "chain", nd[m].list = "chain",
             to(n) = to(m), nd[n].rank < nd[m].rank
      PROVE  Cardinality(behind(m)) < Cardinality(behind(n))
  <2>1. nd[n].bucket = nd[m].bucket
    BY <1>3, <1>5
  <2>2. \A x \in Node : nd[x].rank \in Nat
    BY DEF Nodes, HashNode
  <2>3. behind(m) \subseteq behind(n) /\ n \in behind(n) /\ n \notin behind(m)
    BY <1>5, <2>1, <2>2 DEF Members
  <2>4. behind(n) \in SUBSET Node /\ behind(m) \in SUBSET Node
    BY DEF Members
  <2> HIDE DEF behind
  <2>5. QED BY <2>3, <2>4, NodesFinite, FS_Subset
<1>6. ASSUME NEW n \in Node, md[n].list = "chain"
      PROVE  /\ md[n].rank <= Cardinality(new(md[n].bucket))
             /\ \A m \in new(md[n].bucket) : md[m].rank = md[n].rank => m = n
  <2>1. nd[n].list = "chain" /\ md[n].rank = Cardinality(behind(n))
    BY <1>1, <1>2, <1>6
  <2>2. Cardinality(behind(n)) <= Cardinality(new(md[n].bucket))
    <3> HIDE DEF behind, new
    <3>1. IsFiniteSet(new(md[n].bucket)) /\ behind(n) \subseteq new(md[n].bucket)
      BY <1>4, <2>1, NodesFinite
    <3>2. QED BY <3>1, FS_Subset
  <2>3. ASSUME NEW m \in new(md[n].bucket), md[m].rank = md[n].rank PROVE m = n
    <3>1. m \in Node /\ nd[m].list = "chain" /\ to(m) = to(n)
      BY <1>1, <2>1, <2>3 DEF Members
    <3>2. Cardinality(behind(m)) = Cardinality(behind(n)) /\ Cardinality(behind(n)) \in Nat
      <4>1. md[m].rank = Cardinality(behind(m)) /\ md[n].rank \in Nat
        BY <1>1, <1>2, <3>1 DEF Nodes, HashNode
      <4>2. QED BY <2>1, <2>3, <4>1
    <3>3. nd[m].rank \in Nat /\ nd[n].rank \in Nat
      BY <3>1 DEF Nodes, HashNode
    <3> HIDE DEF behind
    <3>4. nd[m].rank = nd[n].rank
      BY <1>5, <2>1, <3>1, <3>2, <3>3
    <3>5. nd[m].bucket = nd[n].bucket
      BY <1>3, <2>1, <3>1
    <3>6. QED BY <2>1, <3>1, <3>4, <3>5, RankedPart
  <2>4. QED BY <2>2, <2>1, <2>3
<1>7. Ranked(md)
  BY <1>6 DEF Ranked
<1>8. QED BY <1>7 DEF md

LEMMA SuccessorNext ==
  ASSUME node \in Nodes, NEW n \in Linked
  PROVE  LET after == {m \in Linked : node[m].bucket = node[n].bucket
                                       /\ node[m].rank < node[n].rank}
         IN  IF after = {} THEN Successor(n) = NoNode
             ELSE /\ Successor(n) \in after
                  /\ \A m \in after : node[m].rank <= node[Successor(n)].rank
<1> DEFINE after == {m \in Linked : node[m].bucket = node[n].bucket
                                     /\ node[m].rank < node[n].rank}
           chain == Members(node, node[n].list, node[n].bucket)
           on == {m \in chain : node[m].rank < node[n].rank}
<1>1. after = on
  BY DEF Linked, Members
<1>2. Successor(n) = IF after = {} THEN NoNode ELSE CHOOSE m \in after : First(m, after)
  <2>1. Successor(n) = IF on = {} THEN NoNode ELSE CHOOSE m \in on : First(m, on)
    BY DEF Successor
  <2> HIDE DEF after, on
  <2>2. QED BY <1>1, <2>1
<1>3. after \in SUBSET Node
  BY DEF Linked
<1> HIDE DEF after
<1>4. CASE after # {}
  <2>1. \E m \in after : First(m, after)
    BY <1>3, <1>4, FirstExists DEF Nodes
  <2>2. Successor(n) \in after /\ First(Successor(n), after)
    BY <1>2, <1>4, <2>1
  <2>3. QED BY <1>4, <2>2 DEF First, after
<1>5. QED BY <1>2, <1>4 DEF after

LEMMA HeadNext ==
  ASSUME node \in Nodes, NEW b \in Nat
  PROVE  LET ahead == {n \in Linked : node[n].bucket >= b}
         IN  IF ahead = {} THEN HeadFrom(b) = NoNode
             ELSE /\ HeadFrom(b) \in ahead
                  /\ \A m \in ahead : Foremost(HeadFrom(b), m)
  BY HeadType DEF Nodes

\* Along the order of a walk, what is not at n is before it or ahead of it.
LEMMA AheadOrder ==
  ASSUME node \in Nodes, Ranked(node), NEW n \in Linked, NEW m \in Linked, m # n
  PROVE  /\ node[n].bucket \in Nat /\ node[m].bucket \in Nat
         /\ node[n].rank \in Nat /\ node[m].rank \in Nat
         /\ node[n].bucket = node[m].bucket => node[n].rank # node[m].rank
  BY RankedPart DEF Nodes, HashNode, Linked

\* A walk goes on as long as the entries that stay keep their places, and those
\* that leave are forgotten.
LEMMA WalkKeeps ==
  ASSUME InWalk, NEW G \in SUBSET Node, frame.node \notin G,
         Linked \ G \subseteq Linked',
         frame'.node = frame.node, frame'.bucket = frame.bucket,
         frame'.present = frame.present \ G, frame'.seen = frame.seen \ G,
         node'[frame.node].bucket = node[frame.node].bucket,
         \A m \in Linked \ G : Ahead(frame.node, m)' <=> Ahead(frame.node, m)
  PROVE  InWalk'
<1>1. /\ frame'.node \in Linked' /\ node'[frame'.node].bucket = frame'.bucket
      /\ frame'.present \cup frame'.seen \subseteq Linked'
  BY DEF InWalk
<1>2. PICK n : n = frame.node /\ n = frame'.node
  OBVIOUS
<1>3. \A m \in Linked \ G : Ahead(n, m)' <=> Ahead(n, m)
  BY <1>2 DEF Ahead
<1>4. \A m \in frame'.seen : ~Ahead(n, m)'
  BY <1>2, <1>3 DEF InWalk
<1>5. \A m \in frame'.present \ frame'.seen : Ahead(n, m)'
  BY <1>2, <1>3 DEF InWalk
<1>6. (\A m \in frame.seen : ~Ahead(frame.node, m))'
  BY <1>2, <1>4 DEF Ahead
<1>7. (\A m \in frame.present \ frame.seen : Ahead(frame.node, m))'
  BY <1>2, <1>5 DEF Ahead
<1>8. QED BY <1>1, <1>6, <1>7 DEF InWalk

LEMMA StorePlace ==
  ASSUME NEW nd \in Nodes, NEW n \in Node, NEW k \in Key, NEW v \in Value
  PROVE  \A m \in Node : /\ Store(nd, n, k, v)[m].list = nd[m].list
                         /\ Store(nd, n, k, v)[m].bucket = nd[m].bucket
                         /\ Store(nd, n, k, v)[m].rank = nd[m].rank
  BY DEF Store, Nodes, HashNode

\* The new entry goes to the head of its chain, before or after growth; if the
\* buckets do not grow the other entries stay where they are.
LEMMA InsertNewWalk ==
  ASSUME IInv, Ranked(node), NEW k \in Key, NEW v \in Value, InsertNew(k, v)
  PROVE  /\ Ranked(node')
         /\ ~Grows => \E n \in Node \ Linked :
              /\ Linked' = Linked \cup {n}
              /\ \A m \in Node \ {n} : /\ node'[m].bucket = node[m].bucket
                                       /\ node'[m].rank = node[m].rank
<1> DEFINE nd == IF Grows THEN Rehash(node, Grown) ELSE node
           filled(n) == [nd EXCEPT ![n].hash = Hash[k]]
           b == Bucket(Hash[k], Grown)
<1>1. PICK n \in Node :
        /\ Provides(n)
        /\ node' = Push(Store(filled(n), n, k, v), n, "chain", b)
  BY DEF InsertNew
<1>2. n \notin Linked /\ node[n].list # "chain"
  BY <1>1 DEF Provides, First, Spare, Fresh, Linked, Members
<1>3. node \in Nodes /\ Grown \in Nat \ {0} /\ Hash[k] \in Nat /\ Created \in Nat \ {0}
  BY TableConstants DEF IInv, TypeOK, Nodes, Grown, Created
<1>4. nd \in Nodes /\ Ranked(nd) /\ \A m \in Node : nd[m].list = node[m].list
  <2>1. CASE Grows
    <3>1. Grown = 2 * Created
      BY <2>1 DEF Grown
    <3>2. \A m \in Node : node[m].list = "chain" => node[m].bucket = Bucket(node[m].hash, Created)
      BY DEF IInv, InItsBucket, Linked, Created
    <3>3. Ranked(Rehash(node, 2 * Created))
      BY <1>3, <3>2, RankedRehash
    <3>4. /\ Rehash(node, Grown) \in Nodes
          /\ \A m \in Node : Rehash(node, Grown)[m].list = node[m].list
      BY <1>3, RehashNode
    <3>5. QED BY <2>1, <3>1, <3>3, <3>4
  <2>2. CASE ~Grows
    BY <1>3, <2>2
  <2>3. QED BY <2>1, <2>2
<1>5. b \in Nat
  BY <1>3 DEF Bucket
<1>6. ~Grows => nd = node
  OBVIOUS
<1> HIDE DEF nd
<1>7. /\ filled(n) \in Nodes
      /\ \A m \in Node : /\ filled(n)[m].list = nd[m].list
                         /\ filled(n)[m].bucket = nd[m].bucket
                         /\ filled(n)[m].rank = nd[m].rank
  BY <1>3, <1>4 DEF Nodes, HashNode
<1> HIDE DEF filled, b
<1> DEFINE md == Store(filled(n), n, k, v)
<1>8. /\ md \in Nodes
      /\ \A m \in Node : /\ md[m].list = nd[m].list
                         /\ md[m].bucket = nd[m].bucket
                         /\ md[m].rank = nd[m].rank
  BY <1>7, StoreNode, StorePlace
<1>9. node' = Push(md, n, "chain", b)
  BY <1>1
<1> HIDE DEF md
<1>10. Ranked(md)
  BY <1>4, <1>8, RankedSame
<1>11. md[n].list # "chain"
  BY <1>2, <1>4, <1>8
<1>12. Ranked(node')
  BY <1>5, <1>8, <1>9, <1>10, <1>11, RankedPush
<1>13. node'[n].list = "chain" /\ \A m \in Node \ {n} : node'[m] = md[m]
  <2>1. "chain" \in Lists
    BY DEF Lists
  <2>2. QED BY <1>5, <1>8, <1>9, <2>1, PushNode
<1>14. Linked' = Linked \cup {n}
  BY <1>4, <1>8, <1>13 DEF Linked
<1>15. ASSUME ~Grows
       PROVE  \A m \in Node \ {n} : /\ node'[m].bucket = node[m].bucket
                                    /\ node'[m].rank = node[m].rank
  BY <1>6, <1>8, <1>13, <1>15
<1>16. QED BY <1>2, <1>12, <1>14, <1>15

\* What unlinking n does to a walk that is at another node.
LEMMA UnlinkAhead ==
  ASSUME IInv, Ranked(node), NEW n \in Linked, NEW c \in Linked \ {n}, NEW m \in Linked \ {n},
         NEW nd, \A x \in Node \ {n} : nd[x] = Unlink(node, n)[x]
  PROVE  /\ nd[c].bucket = node[c].bucket
         /\ \/ nd[c].bucket < nd[m].bucket
            \/ nd[c].bucket = nd[m].bucket /\ nd[m].rank < nd[c].rank
            <=> Ahead(c, m)
<1>1. node \in Nodes /\ n \in Node /\ c \in Node \ {n} /\ m \in Node \ {n}
      /\ node[n].list = "chain" /\ node[c].list = "chain" /\ node[m].list = "chain"
  BY DEF IInv, TypeOK, Nodes, Linked
<1>2. /\ nd[c].bucket = node[c].bucket /\ nd[m].bucket = node[m].bucket
      /\ nd[c].rank = Unlink(node, n)[c].rank /\ nd[m].rank = Unlink(node, n)[m].rank
  BY <1>1, UnlinkNode
<1>3. node[m].bucket = node[c].bucket
        => (nd[m].rank < nd[c].rank <=> node[m].rank < node[c].rank)
  BY <1>1, <1>2, UnlinkOrder
<1>4. QED BY <1>2, <1>3 DEF Ahead

\* A step that leaves the nodes alone and no walk behind.
LEMMA NoWalk == ASSUME frame'.op # "walk" PROVE WalkInv'
  BY DEF WalkInv

LEMMA StoreWalk ==
  ASSUME IInv, Ranked(node), WalkInv, NEW n \in Node, NEW k \in Key, NEW v \in Value,
         node' = Store(node, n, k, v), frame' = frame
  PROVE  Ranked(node') /\ WalkInv'
<1>1. node \in Nodes
  BY DEF IInv, TypeOK, Nodes
<1>2. \A m \in Node : /\ node'[m].list = node[m].list
                      /\ node'[m].bucket = node[m].bucket
                      /\ node'[m].rank = node[m].rank
  BY <1>1, StorePlace
<1>3. Ranked(node')
  BY <1>2, RankedSame
<1>4. ASSUME InWalk PROVE InWalk'
  <2>1. Linked' = Linked /\ Linked \in SUBSET Node
    BY <1>2 DEF Linked
  <2>2. frame.node \in Node
    BY <1>4, <2>1 DEF InWalk
  <2>3. \A m \in Linked \ {} : Ahead(frame.node, m)' <=> Ahead(frame.node, m)
    BY <1>2, <2>1, <2>2 DEF Ahead
  <2>4. /\ frame'.node = frame.node /\ frame'.bucket = frame.bucket
        /\ frame'.present = frame.present \ {} /\ frame'.seen = frame.seen \ {}
        /\ Linked \ {} \subseteq Linked' /\ {} \in SUBSET Node /\ frame.node \notin {}
        /\ node'[frame.node].bucket = node[frame.node].bucket
    BY <1>2, <2>1, <2>2
  <2>5. QED BY <1>4, <2>3, <2>4, WalkKeeps
<1>5. WalkInv'
  BY <1>4 DEF WalkInv
<1>6. QED BY <1>3, <1>5

LEMMA DiscardRanked ==
  ASSUME NEW nd \in Nodes, Ranked(nd), NEW n \in Node, nd[n].list # "chain"
  PROVE  Ranked(Discard(nd, n))
<1>1. /\ Discard(nd, n)[n].list = "spare"
      /\ \A m \in Node \ {n} : Discard(nd, n)[m] = nd[m]
  BY DiscardNode
<1> DEFINE md == Discard(nd, n)
<1> HIDE DEF md
<1>2. \A m \in Node : /\ md[m].list = "chain" <=> nd[m].list = "chain"
                      /\ nd[m].list = "chain" => /\ md[m].bucket = nd[m].bucket
                                                 /\ md[m].rank = nd[m].rank
  BY <1>1 DEF md
<1>3. Ranked(md)
  BY <1>2, RankedSame
<1>4. QED BY <1>3 DEF md

LEMMA InsertNewKeepsWalk ==
  ASSUME IInv, ~WalkMayUnlink, Ranked(node), WalkInv,
         NEW k \in Key, NEW v \in Value, InsertNew(k, v)
  PROVE  Ranked(node') /\ WalkInv'
<1>1. Ranked(node') /\ frame' = frame
  BY InsertNewWalk DEF InsertNew
<1>2. ASSUME frame.op = "walk" PROVE InWalk'
  <2>1. ~Grows
    BY <1>2 DEF InsertNew, GrowthAllowed
  <2>2. PICK n \in Node \ Linked :
          /\ Linked' = Linked \cup {n}
          /\ \A m \in Node \ {n} : /\ node'[m].bucket = node[m].bucket
                                   /\ node'[m].rank = node[m].rank
    BY <2>1, InsertNewWalk
  <2>3. InWalk /\ Linked \in SUBSET Node /\ frame.node \in Node \ {n}
    BY <1>2, <2>2 DEF WalkInv, InWalk, Linked
  <2>4. \A m \in Linked \ {} : Ahead(frame.node, m)' <=> Ahead(frame.node, m)
    BY <1>1, <2>2, <2>3 DEF Ahead
  <2>5. /\ frame'.node = frame.node /\ frame'.bucket = frame.bucket
        /\ frame'.present = frame.present \ {} /\ frame'.seen = frame.seen \ {}
        /\ Linked \ {} \subseteq Linked' /\ {} \in SUBSET Node /\ frame.node \notin {}
        /\ node'[frame.node].bucket = node[frame.node].bucket
    BY <1>1, <2>2, <2>3
  <2>6. QED BY <2>3, <2>4, <2>5, WalkKeeps
<1>3. QED BY <1>1, <1>2 DEF WalkInv

\* The body may remove any entry but the one it is at.
LEMMA NestedRemoveKeepsWalk ==
  ASSUME IInv, ~WalkMayUnlink, Ranked(node), WalkInv,
         NEW k \in Key, NEW p \in BOOLEAN, NestedRemove(k, p)
  PROVE  Ranked(node') /\ WalkInv' /\ frame'.node = frame.node /\ frame'.op = frame.op
<1>1. PICK n \in RemoveHits(k, p) :
        /\ Removable(n)
        /\ node' = Discard(Unlink(node, n), n)
        /\ frame' = Forget(n)
  BY DEF NestedRemove
<1>2. n \in Linked /\ n \in Node /\ node \in Nodes /\ node[n].list = "chain"
  BY RemoveHitsLinked DEF IInv, TypeOK, Nodes, Linked
<1>3. /\ Unlink(node, n) \in Nodes /\ Unlink(node, n)[n].list = "unlinked"
      /\ Ranked(Unlink(node, n))
      /\ \A m \in Node : m # n => Unlink(node, n)[m].list = node[m].list
  BY <1>2, UnlinkNode, RankedUnlink
<1>4. /\ Ranked(node') /\ node'[n].list = "spare"
      /\ \A m \in Node \ {n} : node'[m] = Unlink(node, n)[m]
  <2> DEFINE nd == Unlink(node, n)
  <2>1. nd \in Nodes /\ Ranked(nd) /\ nd[n].list # "chain" /\ node' = Discard(nd, n)
    BY <1>1, <1>3
  <2> HIDE DEF nd
  <2>2. /\ Ranked(node') /\ node'[n].list = "spare"
        /\ \A m \in Node \ {n} : node'[m] = nd[m]
    BY <1>2, <2>1, DiscardRanked, DiscardNode
  <2>3. QED BY <2>2 DEF nd
<1>5. /\ frame'.op = frame.op /\ frame'.node = frame.node /\ frame'.bucket = frame.bucket
      /\ frame'.present = frame.present \ {n} /\ frame'.seen = frame.seen \ {n}
  <2>1. frame \in Frames
    BY DEF IInv, TypeOK, FrameOK
  <2>2. QED BY <1>1, <2>1 DEF Forget, Frames
<1>6. Linked' = Linked \ {n} /\ Linked \in SUBSET Node
  BY <1>2, <1>3, <1>4 DEF Linked
<1>7. ASSUME frame.op = "walk" PROVE InWalk'
  <2>1. frame.node # n /\ InWalk
    BY <1>1, <1>7 DEF Removable, WalkInv
  <2>2. frame.node \in Linked \ {n}
    BY <2>1 DEF InWalk
  <2>3. PICK c : c = frame.node
    OBVIOUS
  <2>4. ASSUME NEW m \in Linked \ {n} PROVE Ahead(c, m)' <=> Ahead(c, m)
    <3>1. PICK nd : nd = node'
      OBVIOUS
    <3>2. \A x \in Node \ {n} : nd[x] = Unlink(node, n)[x]
      BY <1>4, <3>1
    <3>3. \/ nd[c].bucket < nd[m].bucket
          \/ nd[c].bucket = nd[m].bucket /\ nd[m].rank < nd[c].rank
          <=> Ahead(c, m)
      BY <1>2, <2>2, <2>3, <3>2, UnlinkAhead
    <3>4. QED BY <3>1, <3>3 DEF Ahead
  <2>5. \A m \in Linked \ {n} : Ahead(frame.node, m)' <=> Ahead(frame.node, m)
    BY <1>5, <2>3, <2>4 DEF Ahead
  <2>6. node'[frame.node].bucket = node[frame.node].bucket
    BY <1>2, <1>4, <2>2, UnlinkNode DEF Linked
  <2>7. {n} \in SUBSET Node /\ frame.node \notin {n} /\ Linked \ {n} \subseteq Linked'
    BY <1>2, <1>6, <2>1
  <2>8. QED BY <1>5, <2>1, <2>5, <2>6, <2>7, WalkKeeps
<1>8. QED BY <1>4, <1>5, <1>7 DEF WalkInv

LEMMA BeginWalkWalk ==
  ASSUME IInv, Ranked(node), BeginWalk PROVE WalkInv'
<1> DEFINE n == HeadFrom(0)
           f == [Idle EXCEPT !.op = "walk", !.stage = "body", !.present = Linked]
<1>1. node \in Nodes /\ node' = node /\ frame' = Visit(f, n, node[n].bucket)
  BY DEF BeginWalk, IInv, TypeOK, Nodes
<1>2. Linked # {} /\ Linked \in SUBSET Node
  BY FS_EmptySet DEF BeginWalk, InCallback, IInv, CountExact, Linked
<1>3. {m \in Linked : node[m].bucket >= 0} = Linked
  BY <1>1 DEF Nodes, HashNode, Linked
<1>4. n \in Linked /\ \A m \in Linked : Foremost(n, m)
  BY <1>1, <1>2, <1>3, HeadNext
<1>5. f.seen = {} /\ f.present = Linked
  BY DEF Idle
<1>6. /\ frame'.node = n /\ frame'.bucket = node[n].bucket
      /\ frame'.present = Linked /\ frame'.seen = {n}
  BY <1>1 DEF Visit, Idle
<1> HIDE DEF n
<1>7. ~Ahead(n, n) /\ \A m \in Linked : m # n => Ahead(n, m)
  BY <1>1, <1>4, AheadOrder DEF Ahead, Foremost, Nodes, HashNode, Linked
<1>8. Linked' = Linked
  BY <1>1 DEF Linked
<1>9. InWalk'
  BY <1>1, <1>4, <1>6, <1>7, <1>8 DEF InWalk, Ahead
<1>10. QED BY <1>9 DEF WalkInv

\* The walk comes to n, which is the first of the nodes ahead of it.
LEMMA VisitNext ==
  ASSUME IInv, Ranked(node), InWalk, node' = node, NEW n \in Linked, Ahead(frame.node, n),
         \A m \in Linked : Ahead(frame.node, m) => m = n \/ Ahead(n, m),
         frame' = Visit(frame, n, node[n].bucket)
  PROVE  InWalk' /\ frame'.node = n /\ n \notin frame.seen
<1>1. frame \in Frames /\ node \in Nodes
  BY DEF IInv, TypeOK, FrameOK, Nodes
<1>2. /\ frame'.node = n /\ frame'.bucket = node[n].bucket
      /\ frame'.present = frame.present /\ frame'.seen = frame.seen \cup {n}
  BY <1>1 DEF Visit, Frames
<1>3. Linked' = Linked /\ Linked \in SUBSET Node
  BY DEF Linked
<1>4. n \notin frame.seen
  BY DEF InWalk
<1>5. ASSUME NEW m \in frame.seen PROVE ~Ahead(n, m)
  <2>1. m \in Linked /\ frame.node \in Linked /\ ~Ahead(frame.node, m)
    BY DEF InWalk
  <2>2. /\ node[m].bucket \in Nat /\ node[n].bucket \in Nat /\ node[frame.node].bucket \in Nat
        /\ node[m].rank \in Nat /\ node[n].rank \in Nat /\ node[frame.node].rank \in Nat
    BY <1>1, <1>3, <2>1 DEF Nodes, HashNode
  <2>3. QED BY <2>1, <2>2 DEF Ahead
<1>6. ~Ahead(n, n)
  BY <1>1, <1>3 DEF Ahead, Nodes, HashNode
<1>7. ASSUME NEW m \in frame.present, m \notin frame.seen, m # n PROVE Ahead(n, m)
  BY <1>7 DEF InWalk
<1>8. InWalk'
  BY <1>2, <1>3, <1>5, <1>6, <1>7 DEF InWalk, Ahead
<1>9. QED BY <1>2, <1>4, <1>8

\* When the body returns, the walk goes to the first entry ahead, and ends when
\* there is none.
LEMMA AdvanceWalk ==
  ASSUME IInv, Ranked(node), WalkInv, Advance
  PROVE  /\ WalkInv'
         /\ frame'.op = "none" => frame.present \subseteq frame.seen
         /\ frame'.op = "walk" => frame'.node \in Linked \ frame.seen
<1> DEFINE next == Successor(frame.node)
           head == HeadFrom(frame.bucket + 1)
           after == {m \in Linked : node[m].bucket = node[frame.node].bucket
                                     /\ node[m].rank < node[frame.node].rank}
           beyond == {m \in Linked : node[m].bucket >= frame.bucket + 1}
<1>1. /\ frame \in Frames /\ frame.op = "walk" /\ frame.bucket \in Nat
      /\ node \in Nodes /\ node' = node /\ InWalk
  BY DEF Advance, IInv, TypeOK, FrameOK, Frames, Nodes, WalkInv
<1>2. frame.node \in Linked /\ node[frame.node].bucket = frame.bucket
  BY <1>1 DEF InWalk
<1>3. IF after = {} THEN next = NoNode
      ELSE next \in after /\ \A m \in after : node[m].rank <= node[next].rank
  BY <1>1, <1>2, SuccessorNext
<1>4. IF beyond = {} THEN head = NoNode
      ELSE head \in beyond /\ \A m \in beyond : Foremost(head, m)
  BY <1>1, HeadNext
<1>5. frame' = IF next # NoNode THEN Visit(frame, next, frame.bucket)
               ELSE IF head # NoNode THEN Visit(frame, head, node[head].bucket)
               ELSE Idle
  BY DEF Advance
<1>6. Linked \in SUBSET Node /\ NoNode \notin Node
      /\ \A m \in Linked : node[m].bucket \in Nat /\ node[m].rank \in Nat
  BY <1>1, TableConstants DEF Linked, Nodes, HashNode
<1>7. \A m \in Linked : Ahead(frame.node, m) <=> m \in after \/ m \in beyond
  BY <1>1, <1>2, <1>6 DEF Ahead
<1> HIDE DEF next, head
<1>8. CASE next # NoNode
  <2>1. next \in after /\ \A m \in after : node[m].rank <= node[next].rank
    BY <1>3, <1>8
  <2>2. next \in Linked /\ Ahead(frame.node, next) /\ node[next].bucket = frame.bucket
    BY <1>2, <1>7, <2>1
  <2>3. ASSUME NEW m \in Linked, Ahead(frame.node, m) PROVE m = next \/ Ahead(next, m)
    <3>1. CASE m \in after
      BY <1>1, <1>2, <1>6, <2>1, <2>2, <3>1, AheadOrder DEF Ahead
    <3>2. CASE m \in beyond
      BY <1>1, <1>6, <2>2, <3>2 DEF Ahead
    <3>3. QED BY <1>7, <2>3, <3>1, <3>2
  <2>4. frame' = Visit(frame, next, node[next].bucket)
    BY <1>5, <1>8, <2>2
  <2>5. InWalk' /\ frame'.node = next /\ next \notin frame.seen
    BY <1>1, <2>2, <2>3, <2>4, VisitNext
  <2>6. frame'.op = "walk"
    BY <1>1, <2>4 DEF Visit, Frames
  <2>7. QED BY <2>2, <2>5, <2>6 DEF WalkInv
<1>9. CASE next = NoNode /\ head # NoNode
  <2>1. after = {}
    BY <1>3, <1>6, <1>9
  <2>2. head \in beyond /\ \A m \in beyond : Foremost(head, m)
    BY <1>4, <1>9
  <2>3. head \in Linked /\ Ahead(frame.node, head)
    BY <1>7, <2>2
  <2>4. ASSUME NEW m \in Linked, Ahead(frame.node, m) PROVE m = head \/ Ahead(head, m)
    <3>1. m \in beyond
      BY <1>7, <2>1, <2>4
    <3>2. Foremost(head, m)
      BY <2>2, <3>1
    <3>3. QED BY <1>1, <1>6, <2>3, <3>2, AheadOrder DEF Ahead, Foremost
  <2>5. frame' = Visit(frame, head, node[head].bucket)
    BY <1>5, <1>9
  <2>6. InWalk' /\ frame'.node = head /\ head \notin frame.seen
    BY <1>1, <2>3, <2>4, <2>5, VisitNext
  <2>7. frame'.op = "walk"
    BY <1>1, <2>5 DEF Visit, Frames
  <2>8. QED BY <2>3, <2>6, <2>7 DEF WalkInv
<1>10. CASE next = NoNode /\ head = NoNode
  <2>1. after = {} /\ beyond = {}
    BY <1>3, <1>4, <1>6, <1>10
  <2>2. frame.present \subseteq frame.seen
    BY <1>1, <1>7, <2>1 DEF InWalk
  <2>3. frame'.op = "none"
    BY <1>5, <1>10 DEF Idle
  <2>4. QED BY <2>2, <2>3 DEF WalkInv
<1>11. QED BY <1>8, <1>9, <1>10

LEMMA BeginRemoveRanked ==
  ASSUME IInv, Ranked(node), NEW k \in Key, NEW p \in BOOLEAN, BeginRemove(k, p)
  PROVE  Ranked(node') /\ frame'.op = "remove" /\ frame.op = "none"
<1>1. PICK n \in RemoveHits(k, p) :
        /\ node' = Unlink(node, n)
        /\ keyRefs' = Drop(keyRefs, node[n].key)
        /\ frame' = [Idle EXCEPT !.op = "remove", !.stage = "key", !.node = n]
  BY DEF BeginRemove
<1>2. n \in Linked /\ n \in Node /\ node \in Nodes /\ node[n].list = "chain"
  BY RemoveHitsLinked DEF IInv, TypeOK, Nodes, Linked
<1>3. Ranked(node')
  BY <1>1, <1>2, RankedUnlink
<1>4. frame'.op = "remove" /\ frame.op = "none"
  BY <1>1 DEF BeginRemove, InCallback, Idle
<1>5. QED BY <1>3, <1>4

\* What every operation does to a walk.
LEMMA NextWalk ==
  ASSUME IInv, ~WalkMayUnlink, Ranked(node), WalkInv, [Next]_vars
  PROVE  /\ Ranked(node') /\ WalkInv'
         /\ frame.op = "walk" =>
              /\ frame'.op = "none" => frame.present \subseteq frame.seen
              /\ frame'.op = "walk" /\ frame'.node # frame.node
                   => frame'.node \in Linked \ frame.seen
<1> DEFINE Goal ==
      /\ Ranked(node') /\ WalkInv'
      /\ frame.op = "walk" =>
           /\ frame'.op = "none" => frame.present \subseteq frame.seen
           /\ frame'.op = "walk" /\ frame'.node # frame.node
                => frame'.node \in Linked \ frame.seen
<1>1. CASE UNCHANGED vars
  BY <1>1 DEF vars, WalkInv, InWalk, Linked, Ahead
<1>2. ASSUME NEW k \in Key, NEW v \in Value, BeginReplace(k, v) PROVE Goal
  <2>1. frame'.op = "replace" /\ frame.op = "none" /\ node' = node
    BY <1>2 DEF BeginReplace, InCallback, Idle
  <2>2. QED BY <2>1, NoWalk
<1>3. ASSUME NEW k \in Key, NEW v \in Value, NestedReplace(k, v) PROVE Goal
  <2>1. PICK n \in Replaced(k) : node' = Store(node, n, k, v)
    BY <1>3 DEF NestedReplace
  <2>2. n \in Node /\ frame' = frame
    BY <1>3 DEF Replaced, Chain, Members, NestedReplace
  <2>3. Ranked(node') /\ WalkInv'
    BY <2>1, <2>2, StoreWalk
  <2>4. frame.op # "none" /\ frame'.op = frame.op
    BY <1>3, <2>2 DEF NestedReplace, InCallback
  <2>5. QED BY <2>2, <2>3, <2>4
<1>4. ASSUME NEW k \in Key, NEW v \in Value, InsertNew(k, v) PROVE Goal
  BY <1>4, InsertNewKeepsWalk DEF InsertNew
<1>5. ASSUME NEW k \in Key, NEW p \in BOOLEAN, BeginRemove(k, p) PROVE Goal
  <2>1. Ranked(node') /\ frame'.op = "remove" /\ frame.op = "none"
    BY <1>5, BeginRemoveRanked
  <2>2. QED BY <2>1, NoWalk
<1>6. ASSUME NEW k \in Key, NEW p \in BOOLEAN, NestedRemove(k, p) PROVE Goal
  <2>1. Ranked(node') /\ WalkInv' /\ frame'.node = frame.node /\ frame'.op = frame.op
    BY <1>6, NestedRemoveKeepsWalk
  <2>2. QED BY <2>1
<1>7. ASSUME NEW k \in Key, NEW p \in BOOLEAN, RemoveMiss(k, p) PROVE Goal
  BY <1>7 DEF RemoveMiss, WalkInv, InWalk, Linked, Ahead
<1>8. CASE ReplaceValueCallback \/ RemoveValueCallback
  <2>1. frame.op \in {"replace", "remove"} /\ frame'.op = frame.op /\ node' = node
    BY <1>8 DEF ReplaceValueCallback, RemoveValueCallback, IInv, TypeOK, FrameOK, Frames
  <2>2. QED BY <2>1, NoWalk
<1>9. CASE EndReplace
  <2>1. /\ frame.op = "replace" /\ frame'.op = "none"
        /\ node' = Store(node, frame.node, frame.key, frame.value)
    BY <1>9 DEF EndReplace, Idle
  <2>2. /\ frame.node \in Node /\ frame.key \in Key /\ frame.value \in Value
        /\ node \in Nodes
    BY <2>1 DEF IInv, TypeOK, FrameOK, Linked, Nodes
  <2>3. \A m \in Node : /\ node'[m].list = node[m].list
                        /\ node'[m].bucket = node[m].bucket
                        /\ node'[m].rank = node[m].rank
    BY <2>1, <2>2, StorePlace
  <2>4. Ranked(node')
    BY <2>3, RankedSame
  <2>5. QED BY <2>1, <2>4, NoWalk
<1>10. CASE EndRemove
  <2>1. /\ frame.op = "remove" /\ frame'.op = "none" /\ node' = Discard(node, frame.node)
    BY <1>10 DEF EndRemove, Idle
  <2>2. frame.node \in Node /\ node[frame.node].list = "unlinked" /\ node \in Nodes
    BY <2>1 DEF IInv, TypeOK, FrameOK, InCallback, Nodes
  <2>3. Ranked(node')
    BY <2>1, <2>2, DiscardRanked
  <2>4. QED BY <2>1, <2>3, NoWalk
<1>11. CASE Advance
  BY <1>11, AdvanceWalk DEF Advance
<1>12. CASE BeginWalk
  BY <1>12, BeginWalkWalk DEF BeginWalk, InCallback
<1>13. CASE Destroy
  <2>1. frame'.op = "none" /\ frame.op = "none" /\ node' = [n \in Node |-> FreshNode]
    BY <1>13 DEF Destroy, InCallback
  <2>2. Ranked(node')
    BY <2>1 DEF Ranked, FreshNode
  <2>3. QED BY <2>1, <2>2, NoWalk
<1>14. QED
  BY <1>1, <1>2, <1>3, <1>4, <1>5, <1>6, <1>7, <1>8, <1>9, <1>10, <1>11, <1>12, <1>13
     DEF Next, Insert, Remove, Return

\* for_each visits every entry that stays exactly once, in any table, whatever
\* its body inserts, replaces or removes, if the body neither removes the entry
\* it is given nor makes the buckets grow.
THEOREM WalkRight == ASSUME ~WalkMayUnlink PROVE Spec => WalkExact
<1>1. Init => Ranked(node) /\ WalkInv
  BY DEF Init, Ranked, FreshNode, WalkInv, Idle
<1>2. IInv /\ Ranked(node) /\ WalkInv /\ [Next]_vars => Ranked(node') /\ WalkInv'
  BY NextWalk
<1>3. IInv /\ Ranked(node) /\ WalkInv /\ [Next]_vars
        => [frame.op = "walk" =>
              /\ frame'.op = "none" => frame.present \subseteq frame.seen
              /\ frame'.op = "walk" /\ frame'.node # frame.node
                   => frame'.node \in Linked \ frame.seen]_vars
  BY NextWalk
<1> DEFINE W == Ranked(node) /\ WalkInv
<1>4. W' <=> Ranked(node') /\ WalkInv'
  BY DEF Ranked
<1>5. QED BY <1>1, <1>2, <1>3, <1>4, Structure, PTL DEF Spec, WalkExact
=============================================================================
