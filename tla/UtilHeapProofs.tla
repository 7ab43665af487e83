--------------------------- MODULE UtilHeapProofs ---------------------------
(***************************************************************************)
(* A heap whose clients are careful never hands out memory twice, or       *)
(* beyond a buffer, or over its own nodes, and frees every buffer once.    *)
(* One whose clients are not overruns a buffer for two reasons only.       *)
(***************************************************************************)
EXTENDS UtilHeap, TLAPS

LEMMA Appended ==
  ASSUME NEW S, NEW s \in Seq(S), NEW e \in S
  PROVE  /\ Append(s, e) \in Seq(S)
         /\ Len(Append(s, e)) = Len(s) + 1 /\ Len(s) \in Nat
         /\ \A i \in 1..(Len(s) + 1) :
              Append(s, e)[i] = IF i = Len(s) + 1 THEN e ELSE s[i]
         /\ \A i \in 1..Len(s) : s[i] \in S
  OBVIOUS

\* What lies in its buffer, and before the free space if that is its buffer.
Placed(p, n, f, lim) ==
  /\ p.offset + n <= lim[p.buffer]
  /\ p.buffer = f.buffer => p.offset + n <= f.offset

\* The inductive invariant, for any free space, list of nodes, limits, blocks.
Good(f, ls, lim, bs) ==
  /\ f \in Space /\ ls \in Seq(Node) /\ bs \in Seq(Block) /\ lim \in [Region -> Nat]
  /\ f.offset + f.capacity = lim[f.buffer] /\ f.capacity < SizeRange
  /\ f.buffer \in Buffer => lim[f.buffer] # 0
  /\ \A i \in 1..Len(bs) : Placed(bs[i], bs[i].size, f, lim)
  /\ \A i \in 1..Len(ls) : Placed(ls[i], NodeSize, f, lim)
  /\ \A i, j \in 1..Len(bs) : i # j => Apart(bs[i], bs[i].size, bs[j], bs[j].size)
  /\ \A i \in 1..Len(bs), j \in 1..Len(ls) : Apart(bs[i], bs[i].size, ls[j], NodeSize)
  /\ \A i, j \in 1..Len(ls) : i # j => Apart(ls[i], NodeSize, ls[j], NodeSize)

\* The part of it that reset relies on.
Chained(ls, lim) ==
  /\ \A i, j \in 1..Len(ls) : i < j =>
       ls[j].owns # ls[i].buffer /\ ls[j].owns # ls[i].owns
  /\ \A b \in Buffer : lim[b] # 0 <=> \E i \in 1..Len(ls) : ls[i].owns = b

HeapInv ==
  /\ Good(free, list, limit, blocks)
  /\ Chained(list, limit)
  /\ increment \in {EffectiveIncrement(inc) : inc \in Increment}

\* What the invariant says of one block, or one node.
LEMMA OneBlock ==
  ASSUME NEW f, NEW ls, NEW lim, NEW bs, Good(f, ls, lim, bs), NEW i \in 1..Len(bs)
  PROVE  /\ bs[i].buffer \in Region /\ bs[i].offset \in Nat /\ bs[i].size \in Nat
         /\ lim[bs[i].buffer] \in Nat
         /\ Placed(bs[i], bs[i].size, f, lim)
<1>1. bs \in Seq(Block) /\ lim \in [Region -> Nat]
  BY DEF Good
<1>2. bs[i] \in Block
  BY <1>1
<1>3. Placed(bs[i], bs[i].size, f, lim)
  BY DEF Good
<1>4. QED BY <1>1, <1>2, <1>3 DEF Block

LEMMA OneNode ==
  ASSUME NEW f, NEW ls, NEW lim, NEW bs, Good(f, ls, lim, bs), NEW i \in 1..Len(ls)
  PROVE  /\ ls[i].buffer \in Region /\ ls[i].offset \in Nat /\ ls[i].owns \in Buffer
         /\ lim[ls[i].buffer] \in Nat
         /\ Placed(ls[i], NodeSize, f, lim)
<1>1. ls \in Seq(Node) /\ lim \in [Region -> Nat]
  BY DEF Good
<1>2. ls[i] \in Node
  BY <1>1
<1>3. Placed(ls[i], NodeSize, f, lim)
  BY DEF Good
<1>4. QED BY <1>1, <1>2, <1>3 DEF Node

LEMMA MinusExact ==
  ASSUME NEW c \in Nat, c < SizeRange, NEW n \in Nat, n <= c
  PROVE  Minus(c, n) = c - n
  BY HeapConstants DEF Minus

LEMMA IncrementRoom ==
  ASSUME RangeSuffices, NEW inc \in Increment
  PROVE  /\ EffectiveIncrement(inc) \in Nat
         /\ EffectiveIncrement(inc) < SizeRange
         /\ NodeSize <= EffectiveIncrement(inc) /\ 0 < EffectiveIncrement(inc)
  BY HeapConstants DEF RangeSuffices, EffectiveIncrement

\* A new buffer holds its own node and the node of a large block.
LEMMA RoomForTwo ==
  ASSUME RangeSuffices, NEW inc \in Increment
  PROVE  EffectiveIncrement(inc) \in Nat /\ NodeSize <= EffectiveIncrement(inc) - NodeSize
  BY HeapConstants DEF RangeSuffices, EffectiveIncrement

\* The heap after construction or reset: only the given space.
LEMMA FreshGood ==
  ASSUME Careful, NEW st \in Start
  PROVE  LET lim == [b \in Region |-> IF b = Given THEN st.skew + st.capacity ELSE 0]
         IN Good(SpaceOf(st), <<>>, lim, <<>>) /\ Chained(<<>>, lim)
<1> DEFINE lim == [b \in Region |-> IF b = Given THEN st.skew + st.capacity ELSE 0]
           f == SpaceOf(st)
           pad == Pad(st)
<1>1. /\ st.skew \in Nat /\ st.capacity \in Nat /\ st.skew < Word
      /\ Word \in Nat \ {0} /\ SizeRange \in Nat \ {0} /\ Given \notin Buffer
  BY HeapConstants
<1>2. Aligned(st.skew) \in Nat /\ st.skew <= Aligned(st.skew)
  BY <1>1 DEF Aligned
<1>3. /\ pad \in Nat /\ pad <= st.capacity /\ st.capacity < SizeRange
      /\ Aligned(st.skew) = st.skew + pad
  BY <1>1, <1>2 DEF Pad, Careful, StartsFit, RangeSuffices
<1> HIDE DEF pad
<1>4. /\ f.buffer = Given /\ f.offset = st.skew + pad /\ f.capacity = st.capacity - pad
      /\ f \in Space
  <2>1. Minus(st.capacity, pad) = st.capacity - pad
    BY <1>1, <1>3, MinusExact
  <2>2. f = [buffer |-> Given, offset |-> st.skew + pad, capacity |-> st.capacity - pad]
    BY <1>3, <2>1 DEF SpaceOf, pad
  <2>3. st.skew + pad \in Nat /\ st.capacity - pad \in Nat /\ Given \in Region
    BY <1>1, <1>3 DEF Region
  <2>4. QED BY <2>2, <2>3 DEF Space
<1>5. lim \in [Region -> Nat] /\ lim[Given] = st.skew + st.capacity
      /\ \A b \in Buffer : lim[b] = 0
  BY <1>1 DEF Region
<1> HIDE DEF lim, f
<1>6. Good(f, <<>>, lim, <<>>)
  BY <1>1, <1>3, <1>4, <1>5 DEF Good
<1>7. Chained(<<>>, lim)
  BY <1>5 DEF Chained
<1>8. QED BY <1>6, <1>7 DEF lim, f

LEMMA Carved ==
  ASSUME NEW f \in Space, f.capacity < SizeRange, NEW n \in Nat, n <= f.capacity
  PROVE  /\ Carve(f, n) \in Space
         /\ Carve(f, n).buffer = f.buffer
         /\ Carve(f, n).offset = f.offset + n
         /\ Carve(f, n).capacity = f.capacity - n
<1>1. Minus(f.capacity, n) = f.capacity - n
  BY MinusExact DEF Space
<1> DEFINE c == Minus(f.capacity, n)
           o == f.offset + n
<1>2. c \in Nat /\ o \in Nat /\ c = f.capacity - n
  BY <1>1 DEF Space
<1>3. Carve(f, n) = [f EXCEPT !.offset = o, !.capacity = c]
  BY DEF Carve
<1> HIDE DEF c, o
<1>4. /\ [f EXCEPT !.offset = o, !.capacity = c] \in Space
      /\ [f EXCEPT !.offset = o, !.capacity = c].buffer = f.buffer
      /\ [f EXCEPT !.offset = o, !.capacity = c].offset = o
      /\ [f EXCEPT !.offset = o, !.capacity = c].capacity = c
  BY <1>2 DEF Space
<1>5. QED BY <1>2, <1>3, <1>4 DEF o

\* The space after an allocation is behind nothing that was placed before.
LEMMA CarveSkips ==
  ASSUME NEW f, NEW ls, NEW lim, NEW bs, Good(f, ls, lim, bs),
         NEW n \in Nat, n <= f.capacity
  PROVE  Good(Carve(f, n), ls, lim, bs)
<1>1. /\ Carve(f, n) \in Space /\ Carve(f, n).buffer = f.buffer
      /\ Carve(f, n).offset = f.offset + n /\ Carve(f, n).capacity = f.capacity - n
  BY Carved DEF Good
<1> DEFINE g == Carve(f, n)
<1> HIDE DEF g
<1>2. g \in Space /\ g.buffer = f.buffer /\ g.offset = f.offset + n
      /\ g.capacity = f.capacity - n
  BY <1>1 DEF g
<1>3. f.offset \in Nat /\ f.capacity \in Nat /\ f.buffer \in Region
  BY DEF Good, Space
<1>4. g.offset + g.capacity = lim[g.buffer] /\ g.capacity < SizeRange
  BY <1>2, <1>3, HeapConstants DEF Good
<1>5. ASSUME NEW i \in 1..Len(bs) PROVE Placed(bs[i], bs[i].size, g, lim)
  <2>1. bs[i].offset \in Nat /\ bs[i].size \in Nat /\ Placed(bs[i], bs[i].size, f, lim)
    BY OneBlock
  <2>2. QED BY <1>2, <1>3, <2>1 DEF Placed
<1>6. ASSUME NEW i \in 1..Len(ls) PROVE Placed(ls[i], NodeSize, g, lim)
  <2>1. ls[i].offset \in Nat /\ Placed(ls[i], NodeSize, f, lim)
    BY OneNode
  <2>2. QED BY <1>2, <1>3, <2>1, HeapConstants DEF Placed
<1>7. Good(g, ls, lim, bs)
  BY <1>2, <1>4, <1>5, <1>6 DEF Good
<1>8. QED BY <1>7 DEF g

\* A block that lies in its buffer, apart from everything, is handed out.
LEMMA AppendBlock ==
  ASSUME NEW f, NEW ls, NEW lim, NEW bs, Good(f, ls, lim, bs),
         NEW e \in Block, Placed(e, e.size, f, lim),
         \A i \in 1..Len(bs) : /\ Apart(bs[i], bs[i].size, e, e.size)
                               /\ Apart(e, e.size, bs[i], bs[i].size),
         \A i \in 1..Len(ls) : Apart(e, e.size, ls[i], NodeSize)
  PROVE  Good(f, ls, lim, Append(bs, e))
<1> DEFINE cs == Append(bs, e)
<1>1. /\ cs \in Seq(Block) /\ Len(cs) = Len(bs) + 1 /\ Len(bs) \in Nat
      /\ \A i \in 1..Len(cs) : i = Len(bs) + 1 \/ i \in 1..Len(bs)
      /\ \A i \in 1..Len(bs) : cs[i] = bs[i]
      /\ cs[Len(bs) + 1] = e
  <2>1. bs \in Seq(Block)
    BY DEF Good
  <2>2. QED BY <2>1, Appended
<1> HIDE DEF cs
<1>2. ASSUME NEW i \in 1..Len(cs) PROVE Placed(cs[i], cs[i].size, f, lim)
  <2>1. CASE i \in 1..Len(bs)
    BY <2>1, <1>1 DEF Good
  <2>2. CASE i = Len(bs) + 1
    BY <2>2, <1>1
  <2>3. QED BY <1>1, <2>1, <2>2
<1>3. \A i, j \in 1..Len(cs) : i # j => Apart(cs[i], cs[i].size, cs[j], cs[j].size)
  <2> SUFFICES ASSUME NEW i \in 1..Len(cs), NEW j \in 1..Len(cs), i # j
               PROVE  Apart(cs[i], cs[i].size, cs[j], cs[j].size)
    OBVIOUS
  <2>1. CASE i \in 1..Len(bs) /\ j \in 1..Len(bs)
    BY <2>1, <1>1 DEF Good
  <2>2. CASE i = Len(bs) + 1 /\ j \in 1..Len(bs)
    BY <2>2, <1>1
  <2>3. CASE i \in 1..Len(bs) /\ j = Len(bs) + 1
    BY <2>3, <1>1
  <2>4. QED BY <1>1, <2>1, <2>2, <2>3
<1>4. \A i \in 1..Len(cs), j \in 1..Len(ls) : Apart(cs[i], cs[i].size, ls[j], NodeSize)
  <2> SUFFICES ASSUME NEW i \in 1..Len(cs), NEW j \in 1..Len(ls)
               PROVE  Apart(cs[i], cs[i].size, ls[j], NodeSize)
    OBVIOUS
  <2>1. CASE i \in 1..Len(bs)
    BY <2>1, <1>1 DEF Good
  <2>2. CASE i = Len(bs) + 1
    BY <2>2, <1>1
  <2>3. QED BY <1>1, <2>1, <2>2
<1>5. Good(f, ls, lim, cs)
  BY <1>1, <1>2, <1>3, <1>4 DEF Good
<1>6. QED BY <1>5 DEF cs

\* A block carved from the free space.
LEMMA CarveBlock ==
  ASSUME NEW f, NEW ls, NEW lim, NEW bs, Good(f, ls, lim, bs),
         NEW n \in Nat, n <= f.capacity
  PROVE  Good(Carve(f, n), ls, lim, Append(bs, BlockAt(f, n)))
<1> DEFINE g == Carve(f, n)
           e == BlockAt(f, n)
<1>1. /\ f.offset \in Nat /\ f.capacity \in Nat /\ f.buffer \in Region
      /\ f.offset + f.capacity = lim[f.buffer] /\ lim[f.buffer] \in Nat
  BY DEF Good, Space
<1>2. e \in Block /\ e.buffer = f.buffer /\ e.offset = f.offset /\ e.size = n
  BY <1>1 DEF BlockAt, Block
<1>3. g.buffer = f.buffer /\ g.offset = f.offset + n
  BY Carved DEF Good
<1>4. Good(g, ls, lim, bs)
  BY CarveSkips
<1> HIDE DEF g, e
<1>5. Placed(e, e.size, g, lim)
  BY <1>1, <1>2, <1>3 DEF Placed
<1>6. \A i \in 1..Len(bs) : /\ Apart(bs[i], bs[i].size, e, e.size)
                            /\ Apart(e, e.size, bs[i], bs[i].size)
  BY <1>2, OneBlock DEF Placed, Apart
<1>7. \A i \in 1..Len(ls) : Apart(e, e.size, ls[i], NodeSize)
  BY <1>2, OneNode DEF Placed, Apart
<1>8. Good(g, ls, lim, Append(bs, e))
  BY <1>2, <1>4, <1>5, <1>6, <1>7, AppendBlock
<1>9. QED BY <1>8 DEF g, e

\* A node carved from the free space.
LEMMA CarveNode ==
  ASSUME NEW f, NEW ls, NEW lim, NEW bs, Good(f, ls, lim, bs),
         NodeSize <= f.capacity, NEW b \in Buffer
  PROVE  Good(Carve(f, NodeSize), Append(ls, NodeAt(f, b)), lim, bs)
<1> DEFINE g == Carve(f, NodeSize)
           e == NodeAt(f, b)
           ms == Append(ls, e)
<1>0. NodeSize \in Nat /\ 0 < NodeSize
  BY HeapConstants
<1>1. /\ f.offset \in Nat /\ f.capacity \in Nat /\ f.buffer \in Region
      /\ f.offset + f.capacity = lim[f.buffer] /\ lim[f.buffer] \in Nat
  BY DEF Good, Space
<1>2. e \in Node /\ e.buffer = f.buffer /\ e.offset = f.offset
  BY <1>1 DEF NodeAt, Node
<1>3. g.buffer = f.buffer /\ g.offset = f.offset + NodeSize
  BY <1>0, Carved DEF Good
<1>4. Good(g, ls, lim, bs)
  BY <1>0, CarveSkips
<1> HIDE DEF g, e
<1>5. /\ ms \in Seq(Node) /\ Len(ms) = Len(ls) + 1 /\ Len(ls) \in Nat
      /\ \A i \in 1..Len(ms) : i = Len(ls) + 1 \/ i \in 1..Len(ls)
      /\ \A i \in 1..Len(ls) : ms[i] = ls[i]
      /\ ms[Len(ls) + 1] = e
  <2>1. ls \in Seq(Node)
    BY DEF Good
  <2>2. QED BY <1>2, <2>1, Appended
<1> HIDE DEF ms
<1>6. Placed(e, NodeSize, g, lim)
  BY <1>0, <1>1, <1>2, <1>3 DEF Placed
<1>7. ASSUME NEW i \in 1..Len(ms) PROVE Placed(ms[i], NodeSize, g, lim)
  <2>1. CASE i \in 1..Len(ls)
    BY <2>1, <1>4, <1>5 DEF Good
  <2>2. CASE i = Len(ls) + 1
    BY <2>2, <1>5, <1>6
  <2>3. QED BY <1>5, <2>1, <2>2
<1>8. ASSUME NEW i \in 1..Len(ls)
      PROVE  Apart(ls[i], NodeSize, e, NodeSize) /\ Apart(e, NodeSize, ls[i], NodeSize)
  BY <1>2, OneNode DEF Placed, Apart
<1>9. ASSUME NEW i \in 1..Len(bs) PROVE Apart(bs[i], bs[i].size, e, NodeSize)
  BY <1>2, OneBlock DEF Placed, Apart
<1>10. \A i, j \in 1..Len(ms) : i # j => Apart(ms[i], NodeSize, ms[j], NodeSize)
  <2> SUFFICES ASSUME NEW i \in 1..Len(ms), NEW j \in 1..Len(ms), i # j
               PROVE  Apart(ms[i], NodeSize, ms[j], NodeSize)
    OBVIOUS
  <2>1. CASE i \in 1..Len(ls) /\ j \in 1..Len(ls)
    BY <2>1, <1>5 DEF Good
  <2>2. CASE i = Len(ls) + 1 /\ j \in 1..Len(ls)
    BY <2>2, <1>5, <1>8
  <2>3. CASE i \in 1..Len(ls) /\ j = Len(ls) + 1
    BY <2>3, <1>5, <1>8
  <2>4. QED BY <1>5, <2>1, <2>2, <2>3
<1>11. \A i \in 1..Len(bs), j \in 1..Len(ms) : Apart(bs[i], bs[i].size, ms[j], NodeSize)
  <2> SUFFICES ASSUME NEW i \in 1..Len(bs), NEW j \in 1..Len(ms)
               PROVE  Apart(bs[i], bs[i].size, ms[j], NodeSize)
    OBVIOUS
  <2>1. CASE j \in 1..Len(ls)
    BY <2>1, <1>5 DEF Good
  <2>2. CASE j = Len(ls) + 1
    BY <2>2, <1>5, <1>9
  <2>3. QED BY <1>5, <2>1, <2>2
<1>12. Good(g, ms, lim, bs)
  BY <1>4, <1>5, <1>7, <1>10, <1>11 DEF Good
<1>13. QED BY <1>12 DEF g, e, ms

\* A buffer is provided by malloc: nothing lies in it, and nothing moves.
LEMMA OpenBuffer ==
  ASSUME NEW f, NEW ls, NEW lim, NEW bs, Good(f, ls, lim, bs),
         NEW b \in Unused(lim), NEW len \in Nat
  PROVE  /\ f.buffer # b /\ b \in Buffer
         /\ \A i \in 1..Len(bs) : bs[i].buffer = b => bs[i].offset + bs[i].size <= 0
         /\ \A i \in 1..Len(ls) : ls[i].buffer # b
         /\ Good(f, ls, [lim EXCEPT ![b] = len], bs)
<1> DEFINE wide == [lim EXCEPT ![b] = len]
<1>1. b \in Buffer /\ b \in Region /\ lim[b] = 0
  BY DEF Unused, Region
<1>2. f.buffer # b /\ f.buffer \in Region
  BY <1>1 DEF Good, Space
<1>3. \A i \in 1..Len(bs) : bs[i].buffer = b => bs[i].offset + bs[i].size <= 0
  BY <1>1, OneBlock DEF Placed
<1>4. ASSUME NEW i \in 1..Len(ls) PROVE ls[i].buffer # b
  BY <1>1, OneNode, HeapConstants DEF Placed
<1>5. /\ wide \in [Region -> Nat] /\ wide[b] = len
      /\ \A r \in Region : r # b => wide[r] = lim[r]
  BY <1>1 DEF Good
<1> HIDE DEF wide
<1>6. ASSUME NEW i \in 1..Len(bs) PROVE Placed(bs[i], bs[i].size, f, wide)
  <2>1. Placed(bs[i], bs[i].size, f, lim) /\ bs[i].buffer \in Region
        /\ bs[i].offset \in Nat /\ bs[i].size \in Nat
    BY OneBlock
  <2>2. CASE bs[i].buffer = b
    BY <1>2, <1>3, <1>5, <2>1, <2>2 DEF Placed
  <2>3. CASE bs[i].buffer # b
    BY <1>5, <2>1, <2>3 DEF Placed
  <2>4. QED BY <2>2, <2>3
<1>7. ASSUME NEW i \in 1..Len(ls) PROVE Placed(ls[i], NodeSize, f, wide)
  <2>1. Placed(ls[i], NodeSize, f, lim) /\ ls[i].buffer \in Region
    BY OneNode
  <2>2. QED BY <1>4, <1>5, <2>1 DEF Placed
<1>8. Good(f, ls, wide, bs)
  BY <1>2, <1>5, <1>6, <1>7 DEF Good
<1>9. QED BY <1>1, <1>2, <1>3, <1>4, <1>8 DEF wide

\* The free space may go to where nothing has been placed.
LEMMA MoveSpace ==
  ASSUME NEW f, NEW ls, NEW lim, NEW bs, Good(f, ls, lim, bs),
         NEW g \in Space, g.offset + g.capacity = lim[g.buffer],
         g.capacity < SizeRange, g.buffer \in Buffer => lim[g.buffer] # 0,
         \A i \in 1..Len(bs) : bs[i].buffer = g.buffer
                                => bs[i].offset + bs[i].size <= g.offset,
         \A i \in 1..Len(ls) : ls[i].buffer = g.buffer
                                => ls[i].offset + NodeSize <= g.offset
  PROVE  Good(g, ls, lim, bs)
<1>1. ASSUME NEW i \in 1..Len(bs) PROVE Placed(bs[i], bs[i].size, g, lim)
  BY OneBlock DEF Placed
<1>2. ASSUME NEW i \in 1..Len(ls) PROVE Placed(ls[i], NodeSize, g, lim)
  BY OneNode DEF Placed
<1>3. QED BY <1>1, <1>2 DEF Good

\* The list takes a node that owns a new buffer.
LEMMA ChainAppend ==
  ASSUME NEW f, NEW ls, NEW lim, NEW bs, Good(f, ls, lim, bs), Chained(ls, lim),
         NEW b \in Unused(lim), NEW len \in Nat \ {0}, NEW e \in Node, e.owns = b
  PROVE  Chained(Append(ls, e), [lim EXCEPT ![b] = len])
<1> DEFINE ms == Append(ls, e)
           wide == [lim EXCEPT ![b] = len]
<1>1. \A i \in 1..Len(ls) : ls[i].buffer # b
  BY OpenBuffer
<1>2. b \in Buffer /\ lim[b] = 0
  BY DEF Unused
<1>3. \A i \in 1..Len(ls) : ls[i].owns # b
  BY <1>2 DEF Chained
<1>4. /\ Len(ms) = Len(ls) + 1 /\ Len(ls) \in Nat
      /\ \A i \in 1..Len(ms) : i = Len(ls) + 1 \/ i \in 1..Len(ls)
      /\ \A i \in 1..Len(ls) : ms[i] = ls[i] /\ i \in 1..Len(ms)
      /\ ms[Len(ls) + 1] = e /\ Len(ls) + 1 \in 1..Len(ms)
  <2>1. ls \in Seq(Node)
    BY DEF Good
  <2>2. QED BY <2>1, Appended
<1>5. wide[b] = len /\ \A r \in Region : r # b => wide[r] = lim[r]
  BY <1>2 DEF Good, Region
<1> HIDE DEF ms, wide
<1>6. \A i, j \in 1..Len(ms) : i < j => ms[j].owns # ms[i].buffer /\ ms[j].owns # ms[i].owns
  <2> SUFFICES ASSUME NEW i \in 1..Len(ms), NEW j \in 1..Len(ms), i < j
               PROVE  ms[j].owns # ms[i].buffer /\ ms[j].owns # ms[i].owns
    OBVIOUS
  <2>1. i \in 1..Len(ls)
    BY <1>4
  <2>2. CASE j \in 1..Len(ls)
    BY <1>4, <2>1, <2>2 DEF Chained
  <2>3. CASE j = Len(ls) + 1
    BY <1>1, <1>3, <1>4, <2>1, <2>3
  <2>4. QED BY <1>4, <2>2, <2>3
<1>7. ASSUME NEW c \in Buffer
      PROVE  wide[c] # 0 <=> \E i \in 1..Len(ms) : ms[i].owns = c
  <2>1. CASE c = b
    BY <1>4, <1>5, <2>1
  <2>2. CASE c # b
    <3>1. wide[c] = lim[c]
      BY <1>5, <2>2 DEF Region
    <3>2. (\E i \in 1..Len(ms) : ms[i].owns = c) <=> (\E i \in 1..Len(ls) : ls[i].owns = c)
      BY <1>4, <2>2
    <3>3. QED BY <3>1, <3>2 DEF Chained
  <2>3. QED BY <2>1, <2>2
<1>8. Chained(ms, wide)
  BY <1>6, <1>7 DEF Chained
<1>9. QED BY <1>8 DEF ms, wide

\* A new buffer with its node.
LEMMA GrownGood ==
  ASSUME HeapInv, RangeSuffices, NEW b \in Unused(limit)
  PROVE  /\ Good(Grown(b).free, Grown(b).list, Grown(b).limit, blocks)
         /\ Chained(Grown(b).list, Grown(b).limit)
         /\ Grown(b).free.capacity = increment - NodeSize
<1> DEFINE wide == [limit EXCEPT ![b] = increment]
           e == NodeAt(Whole(b), b)
<1>1. /\ increment \in Nat /\ increment < SizeRange /\ NodeSize <= increment
      /\ increment # 0 /\ NodeSize \in Nat
  BY IncrementRoom, HeapConstants DEF HeapInv
<1>2. Good(free, list, limit, blocks) /\ Chained(list, limit)
  BY DEF HeapInv
<1>3. /\ b \in Buffer /\ b \in Region
      /\ \A i \in 1..Len(blocks) : blocks[i].buffer = b => blocks[i].offset + blocks[i].size <= 0
      /\ \A i \in 1..Len(list) : list[i].buffer # b
      /\ Good(free, list, wide, blocks)
  BY <1>1, <1>2, OpenBuffer DEF Region
<1>4. /\ Whole(b) \in Space /\ Whole(b).buffer = b /\ Whole(b).offset = 0
      /\ Whole(b).capacity = increment
  BY <1>1, <1>3 DEF Whole, Space
<1>5. wide[b] = increment
  BY <1>2, <1>3 DEF Good
<1>6. e \in Node /\ e.owns = b
  BY <1>3, <1>4 DEF NodeAt, Node
<1>7. Chained(Append(list, e), wide)
  BY <1>1, <1>2, <1>6, ChainAppend
<1> DEFINE w == Whole(b)
<1> HIDE DEF wide
<1>8. Good(w, list, wide, blocks)
  <2> HIDE DEF w
  <2>1. w \in Space /\ w.buffer = b /\ w.offset = 0 /\ w.capacity = increment
    BY <1>4 DEF w
  <2>2. w.offset + w.capacity = wide[w.buffer] /\ wide[w.buffer] # 0
    BY <1>1, <1>5, <2>1
  <2>3. QED BY <1>1, <1>3, <2>1, <2>2, MoveSpace
<1>9. Good(Carve(w, NodeSize), Append(list, NodeAt(w, b)), wide, blocks)
  BY <1>1, <1>3, <1>4, <1>8, CarveNode
<1>10. Carve(w, NodeSize).capacity = increment - NodeSize
  BY <1>1, <1>4, Carved
<1>11. /\ Grown(b).free = Carve(w, NodeSize) /\ Grown(b).list = Append(list, e)
       /\ Grown(b).limit = wide
  BY DEF Grown, wide
<1>12. QED BY <1>7, <1>9, <1>10, <1>11

\* A large block, its buffer and its node.
LEMMA LargeGood ==
  ASSUME NEW f, NEW ls, NEW lim, NEW bs, Good(f, ls, lim, bs), Chained(ls, lim),
         NodeSize <= f.capacity, NEW b \in Unused(lim), NEW size \in Nat \ {0}
  PROVE  LET wide == [lim EXCEPT ![b] = size]
             ms == Append(ls, NodeAt(f, b))
             e == [buffer |-> b, offset |-> 0, size |-> size]
         IN /\ Good(Carve(f, NodeSize), ms, wide, Append(bs, e))
            /\ Chained(ms, wide)
<1> DEFINE wide == [lim EXCEPT ![b] = size]
           n == NodeAt(f, b)
           ms == Append(ls, n)
           e == [buffer |-> b, offset |-> 0, size |-> size]
           g == Carve(f, NodeSize)
<1>1. /\ f.buffer # b /\ b \in Buffer /\ b \in Region
      /\ \A i \in 1..Len(bs) : bs[i].buffer = b => bs[i].offset + bs[i].size <= 0
      /\ \A i \in 1..Len(ls) : ls[i].buffer # b
      /\ Good(f, ls, wide, bs)
  BY OpenBuffer DEF Region
<1>2. n \in Node /\ n.owns = b /\ n.buffer = f.buffer
  BY <1>1 DEF NodeAt, Node, Good, Space
<1>3. Chained(ms, wide)
  BY <1>2, ChainAppend
<1>4. wide[b] = size
  BY <1>1 DEF Good
<1> HIDE DEF wide
<1>5. Good(g, ms, wide, bs)
  BY <1>1, CarveNode
<1>6. g.buffer = f.buffer
  BY HeapConstants, Carved DEF Good
<1>7. e \in Block /\ e.buffer = b /\ e.offset = 0 /\ e.size = size
  BY <1>1 DEF Block
<1>8. \A i \in 1..Len(ms) : ms[i].buffer # b
  <2>1. ls \in Seq(Node)
    BY DEF Good
  <2> HIDE DEF n
  <2>2. QED BY <1>1, <1>2, <2>1, Appended
<1> HIDE DEF g, e, ms
<1>9. Placed(e, e.size, g, wide)
  BY <1>1, <1>4, <1>6, <1>7 DEF Placed
<1>10. \A i \in 1..Len(bs) : /\ Apart(bs[i], bs[i].size, e, e.size)
                             /\ Apart(e, e.size, bs[i], bs[i].size)
  BY <1>1, <1>7 DEF Apart
<1>11. \A i \in 1..Len(ms) : Apart(e, e.size, ms[i], NodeSize)
  BY <1>7, <1>8 DEF Apart
<1>12. Good(g, ms, wide, Append(bs, e))
  BY <1>5, <1>7, <1>9, <1>10, <1>11, AppendBlock
<1>13. QED BY <1>3, <1>12 DEF wide, ms, e, g

\* Where alloc_ may place the node of a large block, there is room for it.
LEMMA NodeSpaceGood ==
  ASSUME HeapInv, Careful, NEW h \in NodeSpaces
  PROVE  /\ Good(h.free, h.list, h.limit, blocks) /\ Chained(h.list, h.limit)
         /\ NodeSize <= h.free.capacity
<1>1. CASE free.capacity >= NodeSize
  <2>1. h.free = free /\ h.list = list /\ h.limit = limit
    BY <1>1 DEF NodeSpaces, Current
  <2>2. free.capacity \in Nat /\ NodeSize \in Nat
    BY HeapConstants DEF HeapInv, Good, Space
  <2>3. QED BY <1>1, <2>1, <2>2 DEF HeapInv
<1>2. CASE ~(free.capacity >= NodeSize)
  <2>1. PICK b \in Unused(limit) : h = Grown(b)
    BY <1>2 DEF NodeSpaces
  <2>2. /\ Good(h.free, h.list, h.limit, blocks) /\ Chained(h.list, h.limit)
        /\ h.free.capacity = increment - NodeSize
    BY <2>1, GrownGood DEF Careful
  <2>3. PICK inc \in Increment : increment = EffectiveIncrement(inc)
    BY DEF HeapInv
  <2>4. NodeSize <= increment - NodeSize /\ increment \in Nat
    BY <2>3, RoomForTwo DEF Careful
  <2>5. QED BY <2>2, <2>4
<1>3. QED BY <1>1, <1>2

LEMMA InitInv ==
  ASSUME Careful, HeapInit PROVE HeapInv
<1>1. PICK st \in Start, inc \in Increment :
        /\ increment = EffectiveIncrement(inc)
        /\ list = <<>> /\ blocks = <<>>
        /\ free = SpaceOf(st)
        /\ limit = [b \in Region |-> IF b = Given THEN st.skew + st.capacity ELSE 0]
  BY DEF HeapInit
<1>2. QED BY <1>1, FreshGood DEF HeapInv

LEMMA ResetInv ==
  ASSUME HeapInv, Careful, NEW st \in Start, NEW inc \in Increment,
         Reset(st) \/ Reconstruct(st, inc)
  PROVE  HeapInv'
<1>1. /\ limit' = [b \in Region |-> IF b = Given THEN st.skew + st.capacity
                                    ELSE IF b \in Owned THEN 0 ELSE limit[b]]
      /\ list' = <<>> /\ blocks' = <<>> /\ free' = SpaceOf(st)
  BY DEF Reset, Reconstruct
<1>2. increment' \in {EffectiveIncrement(i) : i \in Increment}
  BY DEF Reset, Reconstruct, HeapInv
<1>3. ASSUME NEW b \in Buffer, b \notin Owned PROVE limit[b] = 0
  BY <1>3 DEF HeapInv, Chained, Owned
<1>4. limit' = [b \in Region |-> IF b = Given THEN st.skew + st.capacity ELSE 0]
  BY <1>1, <1>3 DEF Region
<1>5. QED BY <1>1, <1>2, <1>4, FreshGood DEF HeapInv

LEMMA AllocInv ==
  ASSUME HeapInv, Careful, NEW size \in Size, Alloc(size)
  PROVE  HeapInv'
<1>0. /\ Good(free, list, limit, blocks) /\ Chained(list, limit)
      /\ size \in Nat /\ increment' = increment
  BY HeapConstants DEF HeapInv, Alloc, AllocFromFree, AllocFromNewBuffer, AllocLarge,
     AllocLargeFails
<1>1. CASE AllocFromFree(size)
  <2>1. /\ size <= free.capacity /\ blocks' = Append(blocks, BlockAt(free, size))
        /\ free' = Carve(free, size) /\ UNCHANGED <<list, limit>>
    BY <1>1 DEF AllocFromFree
  <2>2. Good(Carve(free, size), list, limit, Append(blocks, BlockAt(free, size)))
    BY <1>0, <2>1, CarveBlock
  <2>3. QED BY <1>0, <2>1, <2>2 DEF HeapInv
<1>2. CASE AllocFromNewBuffer(size)
  <2>1. PICK b \in Unused(limit) :
          /\ blocks' = Append(blocks, BlockAt(Grown(b).free, size))
          /\ free' = Carve(Grown(b).free, size)
          /\ list' = Grown(b).list /\ limit' = Grown(b).limit
    BY <1>2 DEF AllocFromNewBuffer
  <2>2. /\ Good(Grown(b).free, Grown(b).list, Grown(b).limit, blocks)
        /\ Chained(Grown(b).list, Grown(b).limit)
        /\ Grown(b).free.capacity = increment - NodeSize
    BY GrownGood DEF Careful
  <2>3. size + NodeSize <= increment /\ increment \in Nat
    <3>1. PICK inc \in Increment : increment = EffectiveIncrement(inc)
      BY DEF HeapInv
    <3>2. size <= MinimumIncrement
      BY <1>2 DEF AllocFromNewBuffer
    <3>3. QED BY <3>1, <3>2, IncrementRoom DEF Careful, SizesFit
  <2> DEFINE f == Grown(b).free
             ls == Grown(b).list
             lim == Grown(b).limit
  <2> HIDE DEF f, ls, lim
  <2>4. Good(f, ls, lim, blocks) /\ size <= f.capacity
    BY <1>0, <2>2, <2>3, HeapConstants DEF f, ls, lim
  <2>5. Good(Carve(f, size), ls, lim, Append(blocks, BlockAt(f, size)))
    BY <1>0, <2>4, CarveBlock
  <2>6. QED BY <1>0, <2>1, <2>2, <2>5 DEF HeapInv, f, ls, lim
<1>3. CASE AllocLarge(size)
  <2>1. PICK h \in NodeSpaces : \E b \in Unused(h.limit) :
          /\ free' = Carve(h.free, NodeSize)
          /\ list' = Append(h.list, NodeAt(h.free, b))
          /\ limit' = [h.limit EXCEPT ![b] = size]
          /\ blocks' = Append(blocks, [buffer |-> b, offset |-> 0, size |-> size])
    BY <1>3 DEF AllocLarge
  <2>2. /\ Good(h.free, h.list, h.limit, blocks) /\ Chained(h.list, h.limit)
        /\ NodeSize <= h.free.capacity
    BY NodeSpaceGood
  <2>3. size \in Nat \ {0}
    BY <1>0, <1>3, HeapConstants DEF AllocLarge
  <2> DEFINE carved == Carve(h.free, NodeSize)
             node(b) == Append(h.list, NodeAt(h.free, b))
             ends(b) == [h.limit EXCEPT ![b] = size]
             given(b) == Append(blocks, [buffer |-> b, offset |-> 0, size |-> size])
  <2>4. \A b \in Unused(h.limit) : Good(carved, node(b), ends(b), given(b)) /\ Chained(node(b), ends(b))
    BY <2>2, <2>3, LargeGood
  <2>5. \E b \in Unused(h.limit) :
          free' = carved /\ list' = node(b) /\ limit' = ends(b) /\ blocks' = given(b)
    BY <2>1
  <2> HIDE DEF carved, node, ends, given
  <2>6. Good(free', list', limit', blocks') /\ Chained(list', limit')
    BY <2>4, <2>5
  <2>7. increment' = increment
    BY <1>3 DEF AllocLarge
  <2>8. QED BY <1>0, <2>6, <2>7 DEF HeapInv
<1>4. CASE AllocLargeFails(size)
  <2>1. PICK h \in NodeSpaces : free' = Carve(h.free, NodeSize)
                                /\ list' = h.list /\ limit' = h.limit
    BY <1>4 DEF AllocLargeFails
  <2>2. /\ Good(h.free, h.list, h.limit, blocks) /\ Chained(h.list, h.limit)
        /\ NodeSize <= h.free.capacity /\ NodeSize \in Nat
    BY NodeSpaceGood, HeapConstants
  <2>3. Good(Carve(h.free, NodeSize), h.list, h.limit, blocks)
    BY <2>2, CarveSkips
  <2>4. blocks' = blocks
    BY <1>4 DEF AllocLargeFails
  <2>5. QED BY <1>0, <2>1, <2>2, <2>3, <2>4 DEF HeapInv
<1>5. QED BY <1>1, <1>2, <1>3, <1>4 DEF Alloc

\* A careful client's heap is sound in every state.
THEOREM Soundness ==
  ASSUME Careful PROVE HeapSpec => []HeapInv
<1>1. HeapInit => HeapInv
  BY InitInv
<1>2. HeapInv /\ [HeapNext]_heapVars => HeapInv'
  <2> SUFFICES ASSUME HeapInv, [HeapNext]_heapVars PROVE HeapInv'
    OBVIOUS
  <2>1. CASE UNCHANGED heapVars
    BY <2>1 DEF heapVars, HeapInv
  <2>2. ASSUME NEW size \in Size, Alloc(size) PROVE HeapInv'
    BY <2>2, AllocInv
  <2>3. ASSUME NEW st \in Start, Reset(st) PROVE HeapInv'
    <3>1. PICK inc \in Increment : increment = EffectiveIncrement(inc)
      BY DEF HeapInv
    <3>2. QED BY <2>3, ResetInv
  <2>4. ASSUME NEW st \in Start, NEW inc \in Increment, Reconstruct(st, inc) PROVE HeapInv'
    BY <2>4, ResetInv
  <2>5. QED BY <2>1, <2>2, <2>3, <2>4 DEF HeapNext
<1>3. QED BY <1>1, <1>2, PTL DEF HeapSpec

\* The variables of the heap have their types.
THEOREM TypeCorrect ==
  ASSUME Careful PROVE HeapSpec => []HeapTypeOK
<1>1. HeapInv => HeapTypeOK
  BY IncrementRoom DEF HeapInv, HeapTypeOK, Good, Careful
<1>2. QED BY <1>1, Soundness, PTL

\* alloc_ compares sizes with what is really left in the buffer.
THEOREM CapacityRight ==
  ASSUME Careful PROVE HeapSpec => []CapacityExact
<1>1. HeapInv => CapacityExact
  BY DEF HeapInv, CapacityExact, Good
<1>2. QED BY <1>1, Soundness, PTL

\* Every block and every node lies within the buffer it was carved from.
THEOREM BlocksInBounds ==
  ASSUME Careful PROVE HeapSpec => []InBounds
<1>1. HeapInv => InBounds
  BY DEF HeapInv, InBounds, Good, Placed
<1>2. QED BY <1>1, Soundness, PTL

\* No two clients share a byte, and none overwrites a node of the heap.
THEOREM BlocksDisjoint ==
  ASSUME Careful PROVE HeapSpec => []Disjoint
<1>1. HeapInv => Disjoint
  BY DEF HeapInv, Disjoint, Good
<1>2. QED BY <1>1, Soundness, PTL

\* reset never reads a node in a buffer it has freed, and frees none twice.
THEOREM ResetSafe ==
  ASSUME Careful PROVE HeapSpec => []ResetReadsLiveNodes
<1>1. HeapInv => ResetReadsLiveNodes
  BY DEF HeapInv, ResetReadsLiveNodes, Chained
<1>2. QED BY <1>1, Soundness, PTL

\* reset frees every buffer the heap has taken from malloc.
THEOREM NothingLeaks ==
  ASSUME Careful PROVE HeapSpec => []NoBufferLeaks
<1>1. HeapInv => NoBufferLeaks
  <2> SUFFICES ASSUME HeapInv PROVE NoBufferLeaks
    OBVIOUS
  <2>1. \A b \in Buffer : limit[b] # 0 <=> b \in Owned
    BY DEF HeapInv, Chained, Owned
  <2>2. list \in Seq(Node)
    BY DEF HeapInv, Good
  <2>3. \A i \in 1..Len(list) : list[i] \in Node
    BY <2>2
  <2>4. Owned \subseteq Buffer
    BY <2>3 DEF Owned, Node
  <2>5. QED BY <2>1, <2>4 DEF NoBufferLeaks
<1>2. QED BY <1>1, Soundness, PTL

-----------------------------------------------------------------------------
(* Alignment.                                                              *)

IsMultiple(n) == n % Word = 0

LEMMA MultiplesAdd ==
  ASSUME NEW w \in Nat \ {0}, NEW a \in Nat, NEW b \in Nat, a % w = 0, b % w = 0
  PROVE  (a + b) % w = 0
<1>1. a = w * (a \div w) /\ a \div w \in Nat
  OBVIOUS
<1>2. b = w * (b \div w) /\ b \div w \in Nat
  OBVIOUS
<1>3. PICK j \in Nat, k \in Nat : a = w * j /\ b = w * k
  BY <1>1, <1>2
<1>4. a + b = w * (j + k) /\ j + k \in Nat
  BY <1>3
<1>5. ASSUME NEW n \in Nat, NEW m \in Nat, n = w * m PROVE n % w = 0
  BY <1>5
<1> DEFINE c == a + b
           i == j + k
<1>6. c \in Nat /\ i \in Nat /\ c = w * i
  BY <1>4
<1> HIDE DEF c, i
<1>7. c % w = 0
  BY <1>5, <1>6
<1>8. QED BY <1>7 DEF c

LEMMA WordStep ==
  ASSUME NEW n \in Nat, NEW m \in Nat, IsMultiple(n), IsMultiple(m)
  PROVE  IsMultiple(n + m)
  BY MultiplesAdd, HeapConstants DEF IsMultiple

LEMMA AlignedIsMultiple ==
  ASSUME NEW n \in Nat PROVE Aligned(n) \in Nat /\ IsMultiple(Aligned(n))
<1>1. Word \in Nat \ {0} /\ n + Word - 1 \in Nat
  BY HeapConstants
<1>2. ASSUME NEW w \in Nat \ {0}, NEW a \in Nat
      PROVE  (a \div w) * w \in Nat /\ ((a \div w) * w) % w = 0
  OBVIOUS
<1>3. QED BY <1>1, <1>2 DEF Aligned, IsMultiple

LEMMA ZeroIsMultiple == IsMultiple(0) /\ IsMultiple(NodeSize) /\ NodeSize \in Nat
  BY HeapConstants DEF IsMultiple

\* p begins at a word boundary, or behind a block of odd size.
AtWord(p, bs) == IsMultiple(p.offset) \/ Spoiled(p, bs)

\* So do the free space and all that was placed.
AtWords(f, ls, bs) ==
  /\ AtWord(f, bs)
  /\ \A i \in 1..Len(bs) : AtWord(bs[i], bs)
  /\ \A i \in 1..Len(ls) : AtWord(ls[i], bs)

\* A further block spoils what its elders spoil.
LEMMA MoreSpoils ==
  ASSUME NEW bs \in Seq(Block), NEW e \in Block, NEW p, AtWord(p, bs)
  PROVE  AtWord(p, Append(bs, e))
<1>1. CASE IsMultiple(p.offset)
  BY <1>1 DEF AtWord
<1>2. CASE Spoiled(p, bs)
  <2>1. PICK j \in 1..Len(bs) : /\ bs[j].buffer = p.buffer /\ bs[j].offset < p.offset
                                /\ bs[j].size % Word # 0
    BY <1>2 DEF Spoiled
  <2>2. j \in 1..Len(Append(bs, e)) /\ Append(bs, e)[j] = bs[j]
    BY Appended
  <2>3. Spoiled(p, Append(bs, e))
    BY <2>1, <2>2 DEF Spoiled
  <2>4. QED BY <2>3 DEF AtWord
<1>3. QED BY <1>1, <1>2 DEF AtWord

\* What is carved for a node leaves the free space at a word boundary.
LEMMA CarveAtWords ==
  ASSUME NEW f \in Space, NEW n \in Nat, NEW bs \in Seq(Block),
         AtWord(f, bs), IsMultiple(n)
  PROVE  AtWord(Carve(f, n), bs)
<1>1. f.offset \in Nat
  BY DEF Space
<1>2. Carve(f, n).offset = f.offset + n /\ Carve(f, n).buffer = f.buffer
  BY DEF Carve, Space
<1>3. CASE IsMultiple(f.offset)
  BY <1>1, <1>2, <1>3, WordStep DEF AtWord
<1>4. CASE Spoiled(f, bs)
  <2>1. PICK j \in 1..Len(bs) : /\ bs[j].buffer = f.buffer /\ bs[j].offset < f.offset
                                /\ bs[j].size % Word # 0
    BY <1>4 DEF Spoiled
  <2>2. bs[j].offset \in Nat
    <3>1. bs[j] \in Block
      OBVIOUS
    <3>2. QED BY <3>1 DEF Block
  <2>3. bs[j].offset < Carve(f, n).offset
    BY <1>1, <1>2, <2>1, <2>2
  <2>4. Spoiled(Carve(f, n), bs)
    BY <1>2, <2>1, <2>3 DEF Spoiled
  <2>5. QED BY <2>4 DEF AtWord
<1>5. QED BY <1>3, <1>4 DEF AtWord

\* What is carved for a block leaves the free space at one, or behind the
\* block if its size is odd.
LEMMA BlockAtWords ==
  ASSUME NEW f \in Space, NEW n \in Nat, NEW bs \in Seq(Block), AtWord(f, bs)
  PROVE  AtWord(Carve(f, n), Append(bs, BlockAt(f, n)))
<1>1. f.offset \in Nat /\ Word \in Nat \ {0}
  BY HeapConstants DEF Space
<1>2. Carve(f, n).offset = f.offset + n /\ Carve(f, n).buffer = f.buffer
  BY DEF Carve, Space
<1> DEFINE e == BlockAt(f, n)
<1>3. e \in Block /\ e.buffer = f.buffer /\ e.offset = f.offset /\ e.size = n
  BY DEF BlockAt, Block, Space
<1>4. CASE IsMultiple(n)
  BY <1>3, <1>4, CarveAtWords, MoreSpoils
<1>5. CASE ~IsMultiple(n)
  <2>1. n # 0
    BY <1>5, ZeroIsMultiple
  <2>2. n > 0
    BY <2>1
  <2> HIDE DEF e
  <2>3. /\ Len(bs) + 1 \in 1..Len(Append(bs, e))
        /\ Append(bs, e)[Len(bs) + 1] = e
    BY <1>3, Appended
  <2>4. e.offset < Carve(f, n).offset
    BY <1>1, <1>2, <1>3, <2>2
  <2>5. e.size % Word # 0
    BY <1>3, <1>5 DEF IsMultiple
  <2>6. Spoiled(Carve(f, n), Append(bs, e))
    BY <1>2, <1>3, <2>3, <2>4, <2>5 DEF Spoiled
  <2>7. QED BY <2>6 DEF AtWord, e
<1>6. QED BY <1>4, <1>5

LEMMA AppendAtWords ==
  ASSUME NEW S, NEW s \in Seq(S), NEW e \in S, NEW bs,
         \A i \in 1..Len(s) : AtWord(s[i], bs), AtWord(e, bs)
  PROVE  \A i \in 1..Len(Append(s, e)) : AtWord(Append(s, e)[i], bs)
<1>1. /\ Len(Append(s, e)) = Len(s) + 1 /\ Len(s) \in Nat
      /\ \A i \in 1..(Len(s) + 1) :
           Append(s, e)[i] = IF i = Len(s) + 1 THEN e ELSE s[i]
  BY Appended
<1>2. ASSUME NEW i \in 1..Len(Append(s, e)) PROVE AtWord(Append(s, e)[i], bs)
  <2>1. CASE i = Len(s) + 1
    BY <1>1, <2>1
  <2>2. CASE i \in 1..Len(s)
    BY <1>1, <2>2
  <2>3. QED BY <1>1, <2>1, <2>2
<1>3. QED BY <1>2

\* The blocks with one more, and the nodes, after it was placed.
LEMMA PlacedAtWord ==
  ASSUME NEW bs \in Seq(Block), NEW e \in Block, NEW ls,
         \A i \in 1..Len(bs) : AtWord(bs[i], bs), AtWord(e, bs),
         \A i \in 1..Len(ls) : AtWord(ls[i], bs)
  PROVE  /\ \A i \in 1..Len(Append(bs, e)) : AtWord(Append(bs, e)[i], Append(bs, e))
         /\ \A i \in 1..Len(ls) : AtWord(ls[i], Append(bs, e))
<1> DEFINE all == Append(bs, e)
<1>1. \A p : AtWord(p, bs) => AtWord(p, all)
  BY MoreSpoils
<1> HIDE DEF all
<1>2. \A i \in 1..Len(bs) : AtWord(bs[i], all)
  BY <1>1
<1>3. AtWord(e, all)
  BY <1>1
<1>4. \A i \in 1..Len(Append(bs, e)) : AtWord(Append(bs, e)[i], all)
  BY <1>2, <1>3, AppendAtWords
<1>5. \A i \in 1..Len(ls) : AtWord(ls[i], all)
  BY <1>1
<1>6. QED BY <1>4, <1>5 DEF all

\* The node of a buffer, and the space behind it.
LEMMA GrownAtWords ==
  ASSUME HeapInv, RangeSuffices, AtWords(free, list, blocks), NEW b \in Unused(limit)
  PROVE  /\ AtWords(Grown(b).free, Grown(b).list, blocks)
         /\ Grown(b).free \in Space /\ Grown(b).list \in Seq(Node)
<1>1. /\ increment \in Nat /\ NodeSize <= increment /\ increment < SizeRange
      /\ b \in Buffer /\ b \in Region /\ list \in Seq(Node) /\ blocks \in Seq(Block)
  BY IncrementRoom DEF HeapInv, Good, Unused, Region
<1> DEFINE w == Whole(b)
           e == NodeAt(w, b)
<1>2. w \in Space /\ w.offset = 0 /\ w.capacity = increment
  BY <1>1 DEF Whole, Space
<1>3. e \in Node /\ e.offset = 0
  BY <1>1, <1>2 DEF NodeAt, Node, Whole
<1>4. Grown(b).free = Carve(w, NodeSize) /\ Grown(b).list = Append(list, e)
  BY DEF Grown
<1> HIDE DEF w, e
<1>5. Carve(w, NodeSize) \in Space
  BY <1>1, <1>2, ZeroIsMultiple, Carved
<1>6. AtWord(w, blocks) /\ AtWord(e, blocks)
  BY <1>2, <1>3, ZeroIsMultiple DEF AtWord
<1>7. AtWord(Carve(w, NodeSize), blocks)
  BY <1>1, <1>2, <1>6, ZeroIsMultiple, CarveAtWords
<1>8. \A i \in 1..Len(Append(list, e)) : AtWord(Append(list, e)[i], blocks)
  BY <1>1, <1>3, <1>6, AppendAtWords DEF AtWords
<1>9. Append(list, e) \in Seq(Node)
  BY <1>1, <1>3
<1>10. QED BY <1>4, <1>5, <1>7, <1>8, <1>9 DEF AtWords

LEMMA NodeSpaceAtWords ==
  ASSUME HeapInv, RangeSuffices, AtWords(free, list, blocks), NEW h \in NodeSpaces
  PROVE  AtWords(h.free, h.list, blocks) /\ h.free \in Space /\ h.list \in Seq(Node)
<1>1. CASE h = Current
  BY <1>1 DEF Current, HeapInv, Good
<1>2. CASE \E b \in Unused(limit) : h = Grown(b)
  BY <1>2, GrownAtWords
<1>3. QED BY <1>1, <1>2 DEF NodeSpaces

\* A block carved from the space f, beside the nodes ls.
LEMMA CarvedAtWords ==
  ASSUME NEW f \in Space, NEW ls, NEW bs \in Seq(Block), NEW n \in Nat,
         AtWords(f, ls, bs)
  PROVE  AtWords(Carve(f, n), ls, Append(bs, BlockAt(f, n)))
<1> DEFINE e == BlockAt(f, n)
<1>1. e \in Block /\ e.offset = f.offset /\ e.buffer = f.buffer
  BY DEF BlockAt, Block, Space
<1>2. AtWord(e, bs)
  BY <1>1 DEF AtWords, AtWord, Spoiled
<1>3. AtWord(Carve(f, n), Append(bs, e))
  BY BlockAtWords DEF AtWords
<1> HIDE DEF e
<1>4. /\ \A i \in 1..Len(Append(bs, e)) : AtWord(Append(bs, e)[i], Append(bs, e))
      /\ \A i \in 1..Len(ls) : AtWord(ls[i], Append(bs, e))
  BY <1>1, <1>2, PlacedAtWord DEF AtWords
<1>5. AtWords(Carve(f, n), ls, Append(bs, e))
  BY <1>3, <1>4 DEF AtWords
<1>6. QED BY <1>5 DEF e

LEMMA AllocAtWords ==
  ASSUME HeapInv, RangeSuffices, AtWords(free, list, blocks),
         NEW size \in Size, Alloc(size)
  PROVE  AtWords(free, list, blocks)'
<1>0. /\ size \in Nat /\ free \in Space /\ list \in Seq(Node) /\ blocks \in Seq(Block)
  BY HeapConstants DEF HeapInv, Good
<1>1. CASE AllocFromFree(size)
  <2>1. /\ blocks' = Append(blocks, BlockAt(free, size)) /\ free' = Carve(free, size)
        /\ list' = list
    BY <1>1 DEF AllocFromFree
  <2>2. AtWords(Carve(free, size), list, Append(blocks, BlockAt(free, size)))
    BY <1>0, CarvedAtWords
  <2>3. QED BY <2>1, <2>2
<1>2. CASE AllocFromNewBuffer(size)
  <2>1. PICK b \in Unused(limit) :
          /\ blocks' = Append(blocks, BlockAt(Grown(b).free, size))
          /\ free' = Carve(Grown(b).free, size) /\ list' = Grown(b).list
    BY <1>2 DEF AllocFromNewBuffer
  <2> DEFINE f == Grown(b).free
             ls == Grown(b).list
  <2>2. AtWords(f, ls, blocks) /\ f \in Space
    BY GrownAtWords
  <2>3. free' = Carve(f, size) /\ list' = ls /\ blocks' = Append(blocks, BlockAt(f, size))
    BY <2>1
  <2> HIDE DEF f, ls
  <2>4. AtWords(Carve(f, size), ls, Append(blocks, BlockAt(f, size)))
    BY <1>0, <2>2, CarvedAtWords
  <2>5. QED BY <2>3, <2>4
<1>3. CASE AllocLarge(size)
  <2>1. PICK h \in NodeSpaces : \E b \in Unused(h.limit) :
          /\ free' = Carve(h.free, NodeSize)
          /\ list' = Append(h.list, NodeAt(h.free, b))
          /\ blocks' = Append(blocks, [buffer |-> b, offset |-> 0, size |-> size])
    BY <1>3 DEF AllocLarge
  <2>2. PICK b \in Unused(h.limit) :
          /\ free' = Carve(h.free, NodeSize)
          /\ list' = Append(h.list, NodeAt(h.free, b))
          /\ blocks' = Append(blocks, [buffer |-> b, offset |-> 0, size |-> size])
    BY <2>1
  <2> DEFINE f == h.free
             ls == h.list
             n == NodeAt(f, b)
             e == [buffer |-> b, offset |-> 0, size |-> size]
  <2>3. AtWords(f, ls, blocks) /\ f \in Space /\ ls \in Seq(Node)
    BY NodeSpaceAtWords
  <2>4. b \in Buffer /\ b \in Region
    BY DEF Unused, Region
  <2>5. free' = Carve(f, NodeSize) /\ list' = Append(ls, n) /\ blocks' = Append(blocks, e)
    BY <2>2
  <2> HIDE DEF f, ls
  <2>6. /\ e \in Block /\ e.offset = 0
        /\ n \in Node /\ n.offset = f.offset /\ n.buffer = f.buffer
    BY <1>0, <2>3, <2>4 DEF NodeAt, Node, Block, Space
  <2> HIDE DEF n, e
  <2>7. AtWord(Carve(f, NodeSize), blocks)
    BY <1>0, <2>3, ZeroIsMultiple, CarveAtWords DEF AtWords
  <2>8. AtWord(n, blocks)
    BY <2>3, <2>6 DEF AtWords, AtWord, Spoiled
  <2>9. AtWord(e, blocks)
    BY <2>6, ZeroIsMultiple DEF AtWord
  <2>10. \A i \in 1..Len(Append(ls, n)) : AtWord(Append(ls, n)[i], blocks)
    BY <2>3, <2>6, <2>8, AppendAtWords DEF AtWords
  <2>11. /\ \A i \in 1..Len(Append(blocks, e)) :
              AtWord(Append(blocks, e)[i], Append(blocks, e))
         /\ \A i \in 1..Len(Append(ls, n)) : AtWord(Append(ls, n)[i], Append(blocks, e))
    BY <1>0, <2>3, <2>6, <2>9, <2>10, PlacedAtWord DEF AtWords
  <2>12. AtWord(Carve(f, NodeSize), Append(blocks, e))
    BY <1>0, <2>6, <2>7, MoreSpoils
  <2>13. QED BY <2>5, <2>11, <2>12 DEF AtWords
<1>4. CASE AllocLargeFails(size)
  <2>1. PICK h \in NodeSpaces : free' = Carve(h.free, NodeSize) /\ list' = h.list
    BY <1>4 DEF AllocLargeFails
  <2>2. AtWords(h.free, h.list, blocks) /\ h.free \in Space
    BY NodeSpaceAtWords
  <2>3. AtWord(Carve(h.free, NodeSize), blocks)
    BY <1>0, <2>2, ZeroIsMultiple, CarveAtWords DEF AtWords
  <2>4. blocks' = blocks
    BY <1>4 DEF AllocLargeFails
  <2>5. QED BY <2>1, <2>2, <2>3, <2>4 DEF AtWords
<1>5. QED BY <1>1, <1>2, <1>3, <1>4 DEF Alloc

LEMMA EmptyAtWords ==
  ASSUME NEW st \in Start PROVE AtWords(SpaceOf(st), <<>>, <<>>)
<1>1. st.skew \in Nat
  BY HeapConstants
<1>2. SpaceOf(st).offset = Aligned(st.skew)
  BY DEF SpaceOf
<1>3. QED BY <1>1, <1>2, AlignedIsMultiple DEF AtWords, AtWord

\* For any sizes: the alignment of the given buffer is carried through every
\* allocation, to all that is not behind a block of odd size in its buffer; a
\* new buffer, a large block's too, begins anew.
THEOREM WordsRight ==
  ASSUME Careful PROVE HeapSpec => []PlacedAtWords
<1>1. HeapInit => AtWords(free, list, blocks)
  BY EmptyAtWords DEF HeapInit
<1>2. HeapInv /\ AtWords(free, list, blocks) /\ [HeapNext]_heapVars => AtWords(free, list, blocks)'
  <2> SUFFICES ASSUME HeapInv, AtWords(free, list, blocks), [HeapNext]_heapVars
               PROVE  AtWords(free, list, blocks)'
    OBVIOUS
  <2>1. CASE UNCHANGED heapVars
    <3>1. free' = free /\ list' = list /\ blocks' = blocks
      BY <2>1 DEF heapVars
    <3>2. QED BY <3>1
  <2>2. ASSUME NEW size \in Size, Alloc(size) PROVE AtWords(free, list, blocks)'
    BY <2>2, AllocAtWords DEF Careful
  <2>3. ASSUME NEW st \in Start, Reset(st) \/ \E inc \in Increment : Reconstruct(st, inc)
        PROVE  AtWords(free, list, blocks)'
    <3>1. list' = <<>> /\ blocks' = <<>> /\ free' = SpaceOf(st)
      BY <2>3 DEF Reset, Reconstruct
    <3>2. QED BY <3>1, EmptyAtWords
  <2>4. QED BY <2>1, <2>2, <2>3 DEF HeapNext
<1>3. AtWords(free, list, blocks) => PlacedAtWords
  BY DEF AtWords, AtWord, IsMultiple, PlacedAtWords
<1>4. QED BY <1>1, <1>2, <1>3, Soundness, PTL DEF HeapSpec

(***************************************************************************)
(* What holds of a heap whose clients are not careful: it may go wrong in  *)
(* two ways only, and until it does its account of the free space is       *)
(* exact.  It is enough that no number passes the range of size_t.         *)
(***************************************************************************)

\* The account of the free space f, whose buffer ends as lim says.
Room(f, lim) ==
  /\ f \in Space /\ lim \in [Region -> Nat]
  /\ f.offset + f.capacity = lim[f.buffer] /\ f.capacity < SizeRange

\* The inductive invariant: after an overrun only the types are known.
OverrunInv ==
  /\ HeapTypeOK
  /\ increment \in {EffectiveIncrement(inc) : inc \in Increment}
  /\ Overrun \/ Room(free, limit)

\* What a step may do to the free space: keep the account, or overrun in one
\* of the two ways.
TooSmallIncrement ==
  /\ Len(list') = Len(list) + 1
  /\ blocks'[Len(blocks')].size \in (increment - NodeSize + 1)..MinimumIncrement

TooSmallGiven == free'.buffer = Given /\ limit'[Given] < Word

LEMMA CarveRoom ==
  ASSUME NEW f, NEW lim, Room(f, lim), NEW n \in Nat, n <= f.capacity
  PROVE  Room(Carve(f, n), lim)
<1>1. /\ Carve(f, n) \in Space /\ Carve(f, n).buffer = f.buffer
      /\ Carve(f, n).offset = f.offset + n /\ Carve(f, n).capacity = f.capacity - n
  BY Carved DEF Room
<1> DEFINE g == Carve(f, n)
<1> HIDE DEF g
<1>2. g \in Space /\ g.buffer = f.buffer /\ g.offset = f.offset + n
      /\ g.capacity = f.capacity - n
  BY <1>1 DEF g
<1>3. f.offset \in Nat /\ f.capacity \in Nat /\ SizeRange \in Nat
  BY HeapConstants DEF Room, Space
<1>4. Room(g, lim)
  BY <1>2, <1>3 DEF Room
<1>5. QED BY <1>4 DEF g

\* A new buffer, after its node.
LEMMA GrownRoom ==
  ASSUME OverrunInv, RangeSuffices, NEW b \in Unused(limit)
  PROVE  /\ Room(Grown(b).free, Grown(b).limit)
         /\ Grown(b).free.buffer = b /\ Grown(b).free.offset = NodeSize
         /\ Grown(b).free.capacity = increment - NodeSize
         /\ Grown(b).limit[b] = increment
         /\ Grown(b).list \in Seq(Node) /\ Len(Grown(b).list) = Len(list) + 1
<1> DEFINE wide == [limit EXCEPT ![b] = increment]
           w == Whole(b)
           e == NodeAt(w, b)
<1>1. /\ increment \in Nat /\ increment < SizeRange /\ NodeSize <= increment
      /\ NodeSize \in Nat
  BY IncrementRoom, HeapConstants DEF OverrunInv
<1>2. b \in Buffer /\ b \in Region /\ list \in Seq(Node) /\ limit \in [Region -> Nat]
  BY DEF Unused, Region, OverrunInv, HeapTypeOK
<1>3. wide \in [Region -> Nat] /\ wide[b] = increment
  BY <1>1, <1>2
<1>4. w \in Space /\ w.buffer = b /\ w.offset = 0 /\ w.capacity = increment
  BY <1>1, <1>2 DEF Whole, Space
<1>5. e \in Node
  BY <1>2, <1>4 DEF NodeAt, Node
<1>6. /\ Grown(b).free = Carve(w, NodeSize) /\ Grown(b).list = Append(list, e)
      /\ Grown(b).limit = wide
  BY DEF Grown
<1> HIDE DEF w, e, wide
<1>7. Room(w, wide)
  BY <1>1, <1>3, <1>4 DEF Room
<1>8. Room(Carve(w, NodeSize), wide)
  BY <1>1, <1>4, <1>7, CarveRoom
<1>9. /\ Carve(w, NodeSize).buffer = b /\ Carve(w, NodeSize).offset = NodeSize
      /\ Carve(w, NodeSize).capacity = increment - NodeSize
  BY <1>1, <1>4, Carved
<1>10. Append(list, e) \in Seq(Node) /\ Len(Append(list, e)) = Len(list) + 1
  BY <1>2, <1>5, Appended
<1>11. QED BY <1>3, <1>6, <1>8, <1>9, <1>10

\* The given buffer, and the one way in which it can be too small.
LEMMA GivenRoom ==
  ASSUME RangeSuffices, NEW st \in Start, NEW lim \in [Region -> Nat],
         lim[Given] = st.skew + st.capacity
  PROVE  /\ SpaceOf(st) \in Space /\ SpaceOf(st).buffer = Given
         /\ \/ Room(SpaceOf(st), lim)
            \/ SpaceOf(st).offset > lim[Given] /\ lim[Given] < Word
<1> DEFINE f == SpaceOf(st)
           pad == Pad(st)
           c == Minus(st.capacity, pad)
<1>1. /\ st.skew \in Nat /\ st.capacity \in Nat /\ st.skew < Word
      /\ Word \in Nat \ {0} /\ SizeRange \in Nat \ {0} /\ st.capacity < SizeRange
  BY HeapConstants DEF RangeSuffices
<1>2. /\ Aligned(st.skew) \in Nat /\ st.skew <= Aligned(st.skew)
      /\ Aligned(st.skew) <= Word
  BY <1>1 DEF Aligned
<1>3. pad \in Nat /\ Aligned(st.skew) = st.skew + pad /\ st.skew + pad <= Word
  BY <1>1, <1>2 DEF Pad
<1> HIDE DEF pad
<1>4. c \in Nat
  BY <1>1, <1>3 DEF Minus
<1>5. pad <= st.capacity => c = st.capacity - pad
  BY <1>1, <1>3, MinusExact
<1>6. f = [buffer |-> Given, offset |-> st.skew + pad, capacity |-> c]
  BY <1>3 DEF SpaceOf, pad
<1> HIDE DEF c
<1>7. f \in Space /\ f.buffer = Given /\ f.offset = st.skew + pad /\ f.capacity = c
  <2>1. st.skew + pad \in Nat /\ Given \in Region
    BY <1>1, <1>3 DEF Region
  <2>2. QED BY <1>4, <1>6, <2>1 DEF Space
<1> HIDE DEF f
<1>8. CASE pad <= st.capacity
  <2>1. f.offset + f.capacity = lim[f.buffer] /\ f.capacity < SizeRange
    BY <1>1, <1>3, <1>5, <1>7, <1>8
  <2>2. QED BY <1>7, <2>1 DEF Room, f
<1>9. CASE ~(pad <= st.capacity)
  <2>1. f.offset > lim[Given] /\ lim[Given] < Word
    BY <1>1, <1>3, <1>7, <1>9
  <2>2. QED BY <1>7, <2>1 DEF f
<1>10. QED BY <1>8, <1>9

\* Where the node of a large block goes.
LEMMA NodeSpaceRoom ==
  ASSUME OverrunInv, ~Overrun, RangeSuffices, NEW h \in NodeSpaces
  PROVE  /\ Room(h.free, h.limit) /\ NodeSize <= h.free.capacity
         /\ h.list \in Seq(Node)
<1>1. CASE free.capacity >= NodeSize
  <2>1. h.free = free /\ h.list = list /\ h.limit = limit
    BY <1>1 DEF NodeSpaces, Current
  <2>2. free.capacity \in Nat /\ NodeSize \in Nat
    BY HeapConstants DEF OverrunInv, HeapTypeOK, Space
  <2>3. QED BY <1>1, <2>1, <2>2 DEF OverrunInv, HeapTypeOK
<1>2. CASE ~(free.capacity >= NodeSize)
  <2>1. PICK b \in Unused(limit) : h = Grown(b)
    BY <1>2 DEF NodeSpaces
  <2>2. /\ Room(h.free, h.limit) /\ h.free.capacity = increment - NodeSize
        /\ h.list \in Seq(Node)
    BY <2>1, GrownRoom
  <2>3. PICK inc \in Increment : increment = EffectiveIncrement(inc)
    BY DEF OverrunInv
  <2>4. NodeSize <= increment - NodeSize /\ increment \in Nat
    BY <2>3, RoomForTwo
  <2>5. QED BY <2>2, <2>4
<1>3. QED BY <1>1, <1>2

\* An allocation that leaves the account exact, or overruns.
LEMMA AllocOverrun ==
  ASSUME OverrunInv, RangeSuffices, NEW size \in Size, Alloc(size)
  PROVE  /\ HeapTypeOK' /\ increment' = increment
         /\ Room(free, limit)' \/ (Overrun' /\ TooSmallIncrement)
<1>0. /\ size \in Nat /\ NodeSize \in Nat \ {0} /\ MinimumIncrement \in Nat
      /\ increment \in Nat /\ free \in Space /\ list \in Seq(Node)
      /\ blocks \in Seq(Block) /\ limit \in [Region -> Nat] /\ SizeRange \in Nat \ {0}
  BY HeapConstants DEF OverrunInv, HeapTypeOK
<1>1. ~Overrun /\ Room(free, limit)
  BY DEF Alloc, AllocFromFree, AllocFromNewBuffer, AllocLarge, AllocLargeFails,
         MayAlloc, OverrunInv
<1>2. CASE AllocFromFree(size)
  <2>1. /\ blocks' = Append(blocks, BlockAt(free, size)) /\ free' = Carve(free, size)
        /\ increment' = increment /\ list' = list /\ limit' = limit /\ size <= free.capacity
    BY <1>0, <1>2 DEF AllocFromFree, Space
  <2>2. BlockAt(free, size) \in Block
    BY <1>0 DEF BlockAt, Block, Space
  <2>3. Room(free', limit')
    BY <1>0, <1>1, <2>1, CarveRoom
  <2>4. blocks' \in Seq(Block)
    BY <1>0, <2>1, <2>2, Appended
  <2>5. HeapTypeOK'
    <3>1. free' \in Space /\ limit' \in [Region -> Nat]
      BY <2>3 DEF Room
    <3>2. increment' \in Nat /\ list' \in Seq(Node)
      BY <1>0, <2>1
    <3>3. QED BY <2>4, <3>1, <3>2 DEF HeapTypeOK
  <2>6. QED BY <2>1, <2>3, <2>5
<1>3. CASE AllocFromNewBuffer(size)
  <2>1. PICK b \in Unused(limit) :
          /\ blocks' = Append(blocks, BlockAt(Grown(b).free, size))
          /\ free' = Carve(Grown(b).free, size) /\ list' = Grown(b).list
          /\ limit' = Grown(b).limit
    BY <1>3 DEF AllocFromNewBuffer
  <2>2. increment' = increment /\ size <= MinimumIncrement
    BY <1>3 DEF AllocFromNewBuffer
  <2> DEFINE f == Grown(b).free
             e == BlockAt(f, size)
  <2>3. /\ Room(f, limit') /\ f.buffer = b /\ f.offset = NodeSize
        /\ f.capacity = increment - NodeSize /\ limit'[b] = increment
        /\ list' \in Seq(Node) /\ Len(list') = Len(list) + 1
    BY <2>1, GrownRoom
  <2>4. free' = Carve(f, size) /\ blocks' = Append(blocks, e)
    BY <2>1
  <2> HIDE DEF f
  <2>5. e \in Block /\ e.size = size
    BY <1>0, <2>3 DEF BlockAt, Block, Space, Room
  <2> HIDE DEF e
  <2>6. blocks' \in Seq(Block) /\ blocks'[Len(blocks')].size = size
    <3>1. Len(blocks') = Len(blocks) + 1 /\ blocks' \in Seq(Block)
          /\ blocks'[Len(blocks) + 1] = e
      BY <1>0, <2>4, <2>5, Appended
    <3>2. QED BY <2>5, <3>1
  <2>7. free' \in Space
    <3>1. Minus(f.capacity, size) \in Nat /\ f.offset + size \in Nat
      BY <1>0, <2>3 DEF Minus, Room, Space
    <3>2. QED BY <2>3, <2>4, <3>1 DEF Carve, Room, Space
  <2>8. HeapTypeOK'
    <3>1. limit' \in [Region -> Nat]
      BY <2>3 DEF Room
    <3>2. increment' \in Nat /\ list' \in Seq(Node) /\ blocks' \in Seq(Block)
      BY <1>0, <2>2, <2>3, <2>6
    <3>3. QED BY <2>7, <3>1, <3>2 DEF HeapTypeOK
  <2>9. CASE size <= f.capacity
    BY <1>0, <2>2, <2>3, <2>4, <2>8, <2>9, CarveRoom
  <2>10. CASE ~(size <= f.capacity)
    <3>1. size \in (increment - NodeSize + 1)..MinimumIncrement
      BY <1>0, <2>2, <2>3, <2>10
    <3>2. Overrun'
      <4>1. Carve(f, size).offset = NodeSize + size /\ Carve(f, size).buffer = b
        BY <2>3 DEF Carve, Room, Space
      <4>2. free'.offset > limit'[free'.buffer]
        BY <1>0, <2>3, <2>4, <2>10, <4>1
      <4>3. QED BY <4>2 DEF Overrun
    <3>3. QED BY <2>2, <2>3, <2>6, <2>8, <3>1, <3>2 DEF TooSmallIncrement
  <2>11. QED BY <2>9, <2>10
<1>4. CASE AllocLarge(size)
  <2>0. increment' = increment /\ size > MinimumIncrement
    BY <1>4 DEF AllocLarge
  <2>1. PICK h \in NodeSpaces : \E b \in Unused(h.limit) :
          /\ free' = Carve(h.free, NodeSize)
          /\ list' = Append(h.list, NodeAt(h.free, b))
          /\ limit' = [h.limit EXCEPT ![b] = size]
          /\ blocks' = Append(blocks, [buffer |-> b, offset |-> 0, size |-> size])
    BY <1>4 DEF AllocLarge
  <2>2. PICK b \in Unused(h.limit) :
          /\ free' = Carve(h.free, NodeSize)
          /\ list' = Append(h.list, NodeAt(h.free, b))
          /\ limit' = [h.limit EXCEPT ![b] = size]
          /\ blocks' = Append(blocks, [buffer |-> b, offset |-> 0, size |-> size])
    BY <2>1
  <2> DEFINE f == h.free
             lim == h.limit
             ls == h.list
             n == NodeAt(f, b)
             e == [buffer |-> b, offset |-> 0, size |-> size]
  <2>3. Room(f, lim) /\ NodeSize <= f.capacity /\ ls \in Seq(Node)
    BY <1>1, NodeSpaceRoom
  <2>4. b \in Buffer /\ b \in Region /\ lim[b] = 0
    BY DEF Unused, Region
  <2>5. /\ free' = Carve(f, NodeSize) /\ list' = Append(ls, n)
        /\ limit' = [lim EXCEPT ![b] = size] /\ blocks' = Append(blocks, e)
    BY <2>2
  <2> HIDE DEF f, lim, ls
  <2>6. e \in Block /\ n \in Node
    BY <1>0, <2>3, <2>4 DEF Block, NodeAt, Node, Room, Space
  <2> HIDE DEF e, n
  <2>7. f.buffer # b /\ f.buffer \in Region
    BY <1>0, <2>3, <2>4 DEF Room, Space
  <2>8. limit' \in [Region -> Nat] /\ limit'[f.buffer] = lim[f.buffer]
    BY <1>0, <2>3, <2>4, <2>5, <2>7 DEF Room
  <2>9. Room(f, limit')
    BY <2>3, <2>8 DEF Room
  <2>10. Room(free', limit')
    BY <1>0, <2>3, <2>5, <2>9, CarveRoom
  <2>11. list' \in Seq(Node) /\ blocks' \in Seq(Block)
    BY <1>0, <2>3, <2>5, <2>6, Appended
  <2>12. HeapTypeOK'
    <3>1. free' \in Space
      BY <2>10 DEF Room
    <3>2. increment' \in Nat /\ limit' \in [Region -> Nat]
      BY <1>0, <2>0, <2>8
    <3>3. QED BY <2>11, <3>1, <3>2 DEF HeapTypeOK
  <2>13. QED BY <2>0, <2>10, <2>12
<1>5. CASE AllocLargeFails(size)
  <2>1. PICK h \in NodeSpaces : /\ free' = Carve(h.free, NodeSize) /\ list' = h.list
                                /\ limit' = h.limit
    BY <1>5 DEF AllocLargeFails
  <2>2. blocks' = blocks /\ increment' = increment
    BY <1>5 DEF AllocLargeFails
  <2>3. Room(h.free, h.limit) /\ NodeSize <= h.free.capacity /\ h.list \in Seq(Node)
    BY <1>1, NodeSpaceRoom
  <2>4. Room(free', limit')
    BY <1>0, <2>1, <2>3, CarveRoom
  <2>5. HeapTypeOK'
    <3>1. free' \in Space /\ limit' \in [Region -> Nat]
      BY <2>4 DEF Room
    <3>2. increment' \in Nat /\ list' \in Seq(Node) /\ blocks' \in Seq(Block)
      BY <1>0, <2>1, <2>2, <2>3
    <3>3. QED BY <3>1, <3>2 DEF HeapTypeOK
  <2>6. QED BY <2>2, <2>4, <2>5
<1>6. QED BY <1>2, <1>3, <1>4, <1>5 DEF Alloc

LEMMA ResetOverrun ==
  ASSUME OverrunInv, RangeSuffices, NEW st \in Start, NEW inc \in Increment,
         Reset(st) \/ Reconstruct(st, inc)
  PROVE  /\ HeapTypeOK'
         /\ increment' \in {EffectiveIncrement(i) : i \in Increment}
         /\ Room(free, limit)' \/ (Overrun' /\ TooSmallGiven)
<1>1. /\ limit' = [b \in Region |-> IF b = Given THEN st.skew + st.capacity
                                    ELSE IF b \in Owned THEN 0 ELSE limit[b]]
      /\ list' = <<>> /\ blocks' = <<>> /\ free' = SpaceOf(st)
  BY DEF Reset, Reconstruct
<1>2. increment' \in {EffectiveIncrement(i) : i \in Increment}
  BY DEF Reset, Reconstruct, OverrunInv
<1>3. /\ st.skew \in Nat /\ st.capacity \in Nat /\ Given \in Region
      /\ limit \in [Region -> Nat]
  BY HeapConstants DEF OverrunInv, HeapTypeOK, Region
<1>4. limit' \in [Region -> Nat] /\ limit'[Given] = st.skew + st.capacity
  BY <1>1, <1>3
<1>5. /\ free' \in Space /\ free'.buffer = Given
      /\ Room(free', limit') \/ (free'.offset > limit'[Given] /\ limit'[Given] < Word)
  <2>1. PICK lim : lim = limit'
    OBVIOUS
  <2>2. lim \in [Region -> Nat] /\ lim[Given] = st.skew + st.capacity
    BY <1>4, <2>1
  <2>3. /\ SpaceOf(st) \in Space /\ SpaceOf(st).buffer = Given
        /\ \/ Room(SpaceOf(st), lim)
           \/ SpaceOf(st).offset > lim[Given] /\ lim[Given] < Word
    BY <2>2, GivenRoom
  <2>4. free' = SpaceOf(st)
    BY <1>1
  <2>5. QED BY <2>1, <2>3, <2>4
<1>6. increment' \in Nat
  BY <1>2, IncrementRoom
<1>7. HeapTypeOK'
  BY <1>1, <1>4, <1>5, <1>6 DEF HeapTypeOK
<1>8. QED BY <1>2, <1>5, <1>7 DEF TooSmallGiven, Overrun

\* An overrun, and a buffer with room, exclude each other.
LEMMA RoomEnough ==
  ASSUME Room(free, limit) PROVE ~Overrun
  BY DEF Room, Overrun, Space

\* The free space leaves its buffer in two ways only, whatever the clients ask
\* for: a small block in a heap whose increment is too small, and a given
\* buffer that ends before its first word boundary.
THEOREM OverrunsRight ==
  ASSUME RangeSuffices PROVE HeapSpec => OverrunsOnlyWhen
<1>1. HeapInit => OverrunInv
  <2> SUFFICES ASSUME HeapInit PROVE OverrunInv
    OBVIOUS
  <2>1. PICK st \in Start, inc \in Increment :
          /\ increment = EffectiveIncrement(inc)
          /\ list = <<>> /\ blocks = <<>>
          /\ free = SpaceOf(st)
          /\ limit = [b \in Region |-> IF b = Given THEN st.skew + st.capacity ELSE 0]
    BY DEF HeapInit
  <2>2. st.skew \in Nat /\ st.capacity \in Nat /\ Given \in Region
    BY HeapConstants DEF Region
  <2>3. limit \in [Region -> Nat] /\ limit[Given] = st.skew + st.capacity
    BY <2>1, <2>2
  <2>4. free \in Space /\ free.buffer = Given
    BY <2>1, <2>3, GivenRoom
  <2>5. increment \in Nat
    BY <2>1, IncrementRoom
  <2>6. HeapTypeOK
    BY <2>1, <2>3, <2>4, <2>5 DEF HeapTypeOK
  <2>7. Overrun \/ Room(free, limit)
    BY <2>1, <2>3, <2>4, GivenRoom DEF Overrun
  <2>8. QED BY <2>1, <2>6, <2>7 DEF OverrunInv
<1>2. ASSUME OverrunInv, [HeapNext]_heapVars
      PROVE  /\ OverrunInv'
             /\ ~Overrun /\ Overrun' => TooSmallIncrement \/ TooSmallGiven
  <2>1. CASE UNCHANGED heapVars
    BY <1>2, <2>1 DEF heapVars, OverrunInv, HeapTypeOK, Overrun, Room
  <2>2. ASSUME NEW size \in Size, Alloc(size)
        PROVE  /\ OverrunInv'
               /\ Overrun' => TooSmallIncrement
    <3>1. /\ HeapTypeOK' /\ increment' = increment
          /\ Room(free, limit)' \/ (Overrun' /\ TooSmallIncrement)
      BY <1>2, <2>2, AllocOverrun
    <3>2. Room(free, limit)' => ~Overrun'
      BY RoomEnough, PTL
    <3>3. increment' \in {EffectiveIncrement(inc) : inc \in Increment}
      BY <1>2, <3>1 DEF OverrunInv
    <3>4. QED BY <3>1, <3>2, <3>3 DEF OverrunInv
  <2>3. ASSUME NEW st \in Start, NEW inc \in Increment, Reset(st) \/ Reconstruct(st, inc)
        PROVE  /\ OverrunInv'
               /\ Overrun' => TooSmallGiven
    <3>1. /\ HeapTypeOK'
          /\ increment' \in {EffectiveIncrement(i) : i \in Increment}
          /\ Room(free, limit)' \/ (Overrun' /\ TooSmallGiven)
      BY <1>2, <2>3, ResetOverrun
    <3>2. Room(free, limit)' => ~Overrun'
      BY RoomEnough, PTL
    <3>3. QED BY <3>1, <3>2 DEF OverrunInv
  <2>4. \E inc \in Increment : TRUE
    BY <1>2 DEF OverrunInv
  <2>5. QED BY <1>2, <2>1, <2>2, <2>3, <2>4 DEF HeapNext
<1>3. ASSUME OverrunInv, [HeapNext]_heapVars
      PROVE  [~Overrun /\ Overrun' =>
                \/ /\ Len(list') = Len(list) + 1
                   /\ blocks'[Len(blocks')].size \in
                        (increment - NodeSize + 1)..MinimumIncrement
                \/ free'.buffer = Given /\ limit'[Given] < Word]_heapVars
  BY <1>2, <1>3 DEF TooSmallIncrement, TooSmallGiven
<1>4. QED BY <1>1, <1>2, <1>3, PTL DEF HeapSpec, OverrunsOnlyWhen
=============================================================================
