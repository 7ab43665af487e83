---------------------------- MODULE HandleProofs ----------------------------
(***************************************************************************)
(* The two components that count references: util::cf_ptr, which holds one *)
(* for its client, and the tuple functions, which hold one for every slot  *)
(* of the memory they are told to construct or to destroy.  In both the    *)
(* count of an object is the number of places that hold it; what a call    *)
(* does to the one it must do to the other.                                *)
(***************************************************************************)
EXTENDS OwnerPtr, TupleValue, CommonLemmas

-----------------------------------------------------------------------------
(* util::cf_ptr, for any number of objects and owners.  While references   *)
(* are given up, one after the other, the count of every object is exact   *)
(* but for the reference that is about to be given up; and `kept` objects, *)
(* which something else than the owner under assignment leads to, stay.    *)

Target == Object \cup {Null}

HeapType == [storage : [Owner -> Target], count : [Object -> Int]]

\* The references of the client.
HeldBy(client, o) == Cardinality({o} \cap client)

\* The owners that count: all of them, but for one that is being assigned to.
Exact(h, pending, owners, client) ==
  \A o \in Object : h.count[o] = Uses(h.storage, owners, o) + One(pending, o) + HeldBy(client, o)

\* Every kept object has an owner that counts, a kept object or a variable, or
\* is the client's.
Kept(h, kept, owners, client) ==
  \A o \in kept :
    \/ o \in client
    \/ \E q \in owners : q \in Variable \cup kept /\ h.storage[q] = o

\* The references a cascade may have yet to give up.
Cascade(c, kept, owners, client, first) ==
  /\ c \in [heap : HeapType, pending : Target]
  /\ Exact(c.heap, c.pending, owners, client)
  /\ Kept(c.heap, kept, owners, client)
  /\ \A q \in Variable : c.heap.storage[q] = first[q]

Alive(h) == {o \in Object : h.count[o] > 0}

\* The owners that may be left out, and who keeps them.
Roles(kept, owners, client) ==
  /\ owners \subseteq Owner /\ kept \subseteq Object /\ Object \ owners \subseteq kept
  /\ client \subseteq Object

-----------------------------------------------------------------------------
LEMMA OwnersFinite ==
  /\ IsFiniteSet(Owner)
  /\ \A S \in SUBSET Owner : IsFiniteSet(S)
<1>1. IsFiniteSet(Owner)
  BY OwnerConstants, FS_Union DEF Owner
<1>2. QED BY <1>1, FS_Subset

LEMMA HeldByIs ==
  ASSUME NEW client, NEW o
  PROVE  HeldBy(client, o) = (IF o \in client THEN 1 ELSE 0)
<1>1. CASE o \in client
  <2>1. {o} \cap client = {o}
    BY <1>1
  <2>2. QED BY <1>1, <2>1, FS_Singleton DEF HeldBy
<1>2. CASE o \notin client
  <2>1. {o} \cap client = {}
    BY <1>2
  <2>2. QED BY <1>2, <2>1, FS_EmptySet DEF HeldBy
<1>3. QED BY <1>1, <1>2

\* Numbers.
LEMMA CountTypes ==
  ASSUME NEW f, NEW owners \in SUBSET Owner, NEW x, NEW o, NEW client
  PROVE  Uses(f, owners, o) \in Nat /\ One(x, o) \in Nat /\ HeldBy(client, o) \in Nat
<1>1. Uses(f, owners, o) \in Nat
  BY OwnersFinite, UsesType
<1>2. HeldBy(client, o) \in Nat
  BY HeldByIs
<1>3. QED BY <1>1, <1>2 DEF One

\* A kept object is counted: it is not the last reference that goes.
LEMMA KeptIsCounted ==
  ASSUME NEW h, NEW kept, NEW owners \in SUBSET Owner, NEW client,
         Kept(h, kept, owners, client), NEW o \in kept
  PROVE  Uses(h.storage, owners, o) + HeldBy(client, o) >= 1
<1>1. Uses(h.storage, owners, o) \in Nat /\ HeldBy(client, o) \in Nat
  BY CountTypes
<1>2. CASE o \in client
  BY <1>1, <1>2, HeldByIs
<1>3. CASE o \notin client
  <2>1. PICK q \in owners : h.storage[q] = o
    BY <1>3 DEF Kept
  <2>2. IsFiniteSet(owners)
    BY OwnersFinite
  <2> DEFINE f == h.storage
  <2> HIDE DEF f
  <2>3. Uses(f, owners, f[q]) >= 1
    BY <2>2, SomeHolds
  <2>4. QED BY <1>1, <2>1, <2>3 DEF f
<1>4. QED BY <1>2, <1>3

\* What Releasing does to the parts of the heap.
Eased(c, r) ==
  /\ r.heap.storage = c.heap.storage
  /\ r.heap.count = [c.heap.count EXCEPT ![c.pending] = @ - 1]
  /\ r.pending = Null

FreedIn(c, r) ==
  /\ r.heap.storage = [c.heap.storage EXCEPT ![c.pending] = Null]
  /\ r.heap.count = [c.heap.count EXCEPT ![c.pending] = 0]
  /\ r.pending = c.heap.storage[c.pending]

LEMMA ReleasingParts ==
  ASSUME NEW c \in [heap : HeapType, pending : Target]
  PROVE  /\ Releasing(c) \in [heap : HeapType, pending : Target]
         /\ c.pending = Null => Releasing(c) = c
         /\ c.pending # Null /\ c.heap.count[c.pending] > 1 => Eased(c, Releasing(c))
         /\ c.pending # Null /\ ~(c.heap.count[c.pending] > 1) => FreedIn(c, Releasing(c))
<1> DEFINE o == c.pending
           h == c.heap
           s == h.storage
           n == h.count
<1>1. h \in HeapType /\ o \in Target
  OBVIOUS
<1>2. s \in [Owner -> Target] /\ n \in [Object -> Int] /\ h = [storage |-> s, count |-> n]
  BY <1>1 DEF HeapType
<1>3. CASE o = Null
  BY <1>3 DEF Releasing
<1>4. CASE o # Null /\ n[o] > 1
  <2>1. o \in Object
    BY <1>1, <1>4 DEF Target
  <2>2. Releasing(c) = [heap |-> [h EXCEPT !.count[o] = @ - 1], pending |-> Null]
    BY <1>4 DEF Releasing
  <2>3. [h EXCEPT !.count[o] = @ - 1] = [storage |-> s, count |-> [n EXCEPT ![o] = @ - 1]]
    <3> HIDE DEF s, n, h, o
    <3>1. QED BY <1>2
  <2>4. [n EXCEPT ![o] = @ - 1] \in [Object -> Int]
    BY <1>2, <2>1
  <2> DEFINE new == [n EXCEPT ![o] = @ - 1]
  <2> HIDE DEF new
  <2>5. Releasing(c) = [heap |-> [storage |-> s, count |-> new], pending |-> Null]
    BY <2>2, <2>3 DEF new
  <2>6. [storage |-> s, count |-> new] \in HeapType
    BY <1>2, <2>4 DEF HeapType, new
  <2>7. Releasing(c) \in [heap : HeapType, pending : Target]
    BY <2>5, <2>6 DEF Target
  <2>8. Eased(c, Releasing(c))
    BY <2>5 DEF Eased, new
  <2>9. QED BY <1>4, <2>7, <2>8
<1>5. CASE o # Null /\ ~(n[o] > 1)
  <2>1. o \in Object /\ o \in Owner
    BY <1>1, <1>5 DEF Target, Owner
  <2>2. Releasing(c) = [heap |-> [h EXCEPT !.storage[o] = Null, !.count[o] = 0], pending |-> s[o]]
    BY <1>5 DEF Releasing
  <2>3. [h EXCEPT !.storage[o] = Null, !.count[o] = 0]
          = [storage |-> [s EXCEPT ![o] = Null], count |-> [n EXCEPT ![o] = 0]]
    <3> HIDE DEF s, n, h, o
    <3> DEFINE g == [h EXCEPT !.storage[o] = Null]
               t == [s EXCEPT ![o] = Null]
    <3>1. [h EXCEPT !.storage[o] = Null, !.count[o] = 0] = [g EXCEPT !.count[o] = 0]
      OBVIOUS
    <3>2. g = [storage |-> t, count |-> n]
      BY <1>2
    <3> HIDE DEF g, t
    <3>3. [g EXCEPT !.count[o] = 0] = [storage |-> t, count |-> [n EXCEPT ![o] = 0]]
      BY <3>2
    <3>4. QED BY <3>1, <3>3 DEF t
  <2>4. [n EXCEPT ![o] = 0] \in [Object -> Int] /\ [s EXCEPT ![o] = Null] \in [Owner -> Target]
        /\ s[o] \in Target
    BY <1>2, <2>1 DEF Target
  <2> DEFINE newCount == [n EXCEPT ![o] = 0]
             newStorage == [s EXCEPT ![o] = Null]
  <2> HIDE DEF newCount, newStorage
  <2>5. Releasing(c) = [heap |-> [storage |-> newStorage, count |-> newCount], pending |-> s[o]]
    BY <2>2, <2>3 DEF newCount, newStorage
  <2>6. [storage |-> newStorage, count |-> newCount] \in HeapType
    BY <2>4 DEF HeapType, newCount, newStorage
  <2>7. Releasing(c) \in [heap : HeapType, pending : Target]
    BY <2>4, <2>5, <2>6
  <2>8. FreedIn(c, Releasing(c))
    BY <2>5 DEF FreedIn, newCount, newStorage
  <2>9. QED BY <1>5, <2>7, <2>8
<1>6. QED BY <1>3, <1>4, <1>5

Frees(c, r) == r.pending = Null \/ \E o \in Alive(c.heap) : Alive(r.heap) = Alive(c.heap) \ {o}

LEMMA ReleasingKeeps ==
  ASSUME NEW kept, NEW owners, NEW client, NEW first, Roles(kept, owners, client),
         NEW c, Cascade(c, kept, owners, client, first)
  PROVE  /\ Cascade(Releasing(c), kept, owners, client, first)
         /\ Frees(c, Releasing(c))
<1> DEFINE o == c.pending
           h == c.heap
           r == Releasing(c)
           s == h.storage
           t == r.heap.storage
<1>1. /\ c \in [heap : HeapType, pending : Target] /\ r \in [heap : HeapType, pending : Target]
      /\ owners \subseteq Owner
  BY ReleasingParts DEF Cascade, Roles
<1>2. s \in [Owner -> Target] /\ h.count \in [Object -> Int] /\ t \in [Owner -> Target]
  BY <1>1 DEF HeapType
<1>3. CASE o = Null
  BY <1>1, <1>3, ReleasingParts DEF Frees
<1>4. CASE o # Null
  <2>1. o \in Object /\ o \in Owner /\ o \notin Variable
    BY <1>1, <1>4, OwnerConstants DEF Target, Owner
  <2>2. /\ \A x \in Object : h.count[x] = Uses(s, owners, x) + One(o, x) + HeldBy(client, x)
        /\ \A x : Uses(s, owners, x) \in Nat /\ Uses(t, owners, x) \in Nat
        /\ \A x : HeldBy(client, x) \in Nat
        /\ One(o, o) = 1 /\ \A x : x # o => One(o, x) = 0
        /\ \A x \in Object : One(Null, x) = 0
    <3>1. \A x \in Object : One(Null, x) = 0
      BY OwnerConstants DEF One
    <3>2. \A x \in Object : h.count[x] = Uses(s, owners, x) + One(o, x) + HeldBy(client, x)
      BY DEF Cascade, Exact
    <3>3. \A x : Uses(s, owners, x) \in Nat /\ Uses(t, owners, x) \in Nat
      BY <1>1, CountTypes
    <3>4. \A x : HeldBy(client, x) \in Nat
      BY HeldByIs
    <3>5. QED BY <3>1, <3>2, <3>3, <3>4 DEF One
  <2>3. h.count[o] = Uses(s, owners, o) + 1 + HeldBy(client, o)
    BY <2>1, <2>2
  <2>4. CASE h.count[o] > 1
    <3>1. t = s /\ r.heap.count = [h.count EXCEPT ![o] = @ - 1] /\ r.pending = Null
      BY <1>1, <1>4, <2>4, ReleasingParts DEF Eased
    <3>2. ASSUME NEW x \in Object
          PROVE  r.heap.count[x] = Uses(t, owners, x) + One(r.pending, x) + HeldBy(client, x)
      <4>1. r.heap.count[x] = IF x = o THEN h.count[o] - 1 ELSE h.count[x]
        BY <1>2, <3>1
      <4>2. One(r.pending, x) = 0
        BY <2>2, <3>1
      <4> HIDE DEF s, t, r, h, o
      <4>3. h.count[x] = Uses(s, owners, x) + One(o, x) + HeldBy(client, x)
            /\ Uses(s, owners, x) \in Nat /\ HeldBy(client, x) \in Nat
        BY <2>2
      <4>4. CASE x = o
        BY <2>2, <3>1, <4>1, <4>2, <4>3, <4>4
      <4>5. CASE x # o
        BY <2>2, <3>1, <4>1, <4>2, <4>3, <4>5
      <4>6. QED BY <4>4, <4>5
    <3>3. Exact(r.heap, r.pending, owners, client)
      BY <3>2 DEF Exact
    <3>4. Kept(r.heap, kept, owners, client) /\ \A q \in Variable : t[q] = first[q]
      BY <3>1 DEF Cascade, Kept
    <3>5. QED BY <1>1, <3>1, <3>3, <3>4 DEF Cascade, Frees
  <2>5. CASE ~(h.count[o] > 1)
    <3>1. t = [s EXCEPT ![o] = Null] /\ r.heap.count = [h.count EXCEPT ![o] = 0] /\ r.pending = s[o]
      BY <1>1, <1>4, <2>5, ReleasingParts DEF FreedIn
    <3>2. Uses(s, owners, o) = 0 /\ HeldBy(client, o) = 0 /\ h.count[o] = 1
      BY <1>2, <2>1, <2>2, <2>3, <2>5
    <3>3. o \notin kept
      <4>1. ASSUME o \in kept PROVE FALSE
        <5>1. Kept(h, kept, owners, client)
          BY DEF Cascade
        <5>2. Uses(s, owners, o) + HeldBy(client, o) >= 1
          BY <1>1, <4>1, <5>1, KeptIsCounted
        <5> HIDE DEF s
        <5>3. QED BY <3>2, <5>2
      <4>2. QED BY <4>1
    <3>4. o \in owners
      BY <2>1, <3>3 DEF Roles
    <3>5. t[o] = Null /\ \A q \in Owner : q # o => t[q] = s[q]
      BY <1>2, <2>1, <3>1
    <3>6. SameBut(s, t, owners, o)
      BY <1>1, <3>5 DEF SameBut
    <3>7. IsFiniteSet(owners)
      BY <1>1, OwnersFinite
    <3>8. ASSUME NEW x \in Object
          PROVE  r.heap.count[x] = Uses(t, owners, x) + One(r.pending, x) + HeldBy(client, x)
      <4>1. r.heap.count[x] = IF x = o THEN 0 ELSE h.count[x]
        BY <1>2, <3>1
      <4> HIDE DEF s, t, r, h, o
      <4>2. Uses(t, owners, x) = Uses(s, owners, x) + One(t[o], x) - One(s[o], x)
        BY <3>4, <3>6, <3>7, OneChanged
      <4>3. One(t[o], x) = 0 /\ One(s[o], x) \in Nat /\ One(r.pending, x) = One(s[o], x)
        BY <2>2, <3>1, <3>5 DEF One
      <4>4. h.count[x] = Uses(s, owners, x) + One(o, x) + HeldBy(client, x)
            /\ Uses(s, owners, x) \in Nat /\ Uses(t, owners, x) \in Nat /\ HeldBy(client, x) \in Nat
        BY <2>2
      <4>5. CASE x = o
        BY <3>2, <4>1, <4>2, <4>3, <4>4, <4>5
      <4>6. CASE x # o
        BY <2>2, <4>1, <4>2, <4>3, <4>4, <4>6
      <4>7. QED BY <4>5, <4>6
    <3>9. Exact(r.heap, r.pending, owners, client)
      BY <3>8 DEF Exact
    <3>10. Kept(r.heap, kept, owners, client) /\ \A q \in Variable : t[q] = first[q]
      <4>1. \A q \in Variable \cup kept : q # o /\ q \in Owner
        BY <2>1, <3>3 DEF Owner, Roles
      <4>2. \A q \in Variable \cup kept : t[q] = s[q]
        BY <3>5, <4>1
      <4>3. Kept(h, kept, owners, client) /\ \A q \in Variable : s[q] = first[q]
        BY DEF Cascade
      <4>4. Kept(r.heap, kept, owners, client)
        BY <4>2, <4>3 DEF Kept
      <4>5. QED BY <4>2, <4>3, <4>4
    <3>11. o \in Alive(h) /\ Alive(r.heap) = Alive(h) \ {o}
      <4>1. o \in Alive(h)
        BY <2>1, <3>2 DEF Alive
      <4>2. \A x \in Object : r.heap.count[x] = IF x = o THEN 0 ELSE h.count[x]
        BY <1>2, <3>1
      <4>3. QED BY <4>1, <4>2 DEF Alive
    <3>12. QED BY <1>1, <3>9, <3>10, <3>11 DEF Cascade, Frees
  <2>6. QED BY <2>4, <2>5
<1>5. QED BY <1>3, <1>4

\* The reference that is to be given up is counted.
LEMMA PendingAlive ==
  ASSUME NEW kept, NEW owners, NEW client, NEW first, Roles(kept, owners, client),
         NEW c, Cascade(c, kept, owners, client, first), c.pending # Null
  PROVE  c.pending \in Alive(c.heap)
<1> DEFINE o == c.pending
<1>1. o \in Object /\ owners \in SUBSET Owner
  BY DEF Cascade, Target, Roles
<1>2. c.heap.count[o] = Uses(c.heap.storage, owners, o) + One(o, o) + HeldBy(client, o)
  BY <1>1 DEF Cascade, Exact
<1>3. Uses(c.heap.storage, owners, o) \in Nat /\ One(o, o) = 1 /\ HeldBy(client, o) \in Nat
  BY <1>1, CountTypes DEF One
<1>4. QED BY <1>1, <1>2, <1>3 DEF Alive

\* As many steps as there are objects are all that a release takes.
LEMMA ReleasedKeeps ==
  ASSUME NEW kept, NEW owners, NEW client, NEW first, Roles(kept, owners, client),
         NEW h, NEW o, Cascade([heap |-> h, pending |-> o], kept, owners, client, first)
  PROVE  Cascade([heap |-> Released(h, o), pending |-> Null], kept, owners, client, first)
<1> DEFINE States == [heap : HeapType, pending : Target]
           start == [heap |-> h, pending |-> o]
           F == [c \in States |-> Releasing(c)]
           Body(a) == [n \in Nat |-> IF n = 0 THEN start ELSE Releasing(a[n - 1])]
           at == CHOOSE a : a = Body(a)
           N == Cardinality(Object)
           Fine(n) == /\ Cascade(at[n], kept, owners, client, first)
                      /\ at[n].pending = Null \/ Cardinality(Alive(at[n].heap)) + n <= N
           Good == {n \in Nat : Fine(n)}
<1>1. Released(h, o) = at[N].heap
  BY DEF Released
<1>2. start \in States
  BY DEF Cascade
<1>3. F \in [States -> States]
  BY ReleasingParts
<1>4. at = Body(at)
  <2> HIDE DEF F, States, start, Body, at, N, Fine, Good
  <2>1. PICK g \in [Nat -> States] : g[0] = start /\ \A n \in Nat : g[n + 1] = F[g[n]]
    <3>1. HasIteration(States, F, start)
      BY <1>2, <1>3, IterationExists
    <3>2. QED BY <3>1 DEF HasIteration
  <2>2. \A n \in Nat : g[n + 1] = Releasing(g[n])
    BY <2>1 DEF F
  <2>3. \A n \in Nat : g[n] = IF n = 0 THEN start ELSE Releasing(g[n - 1])
    <3>1. SUFFICES ASSUME NEW n \in Nat, n # 0 PROVE g[n] = Releasing(g[n - 1])
      BY <2>1
    <3>2. n - 1 \in Nat /\ (n - 1) + 1 = n
      BY <3>1
    <3>3. g[(n - 1) + 1] = Releasing(g[n - 1])
      BY <2>2, <3>2
    <3>4. QED BY <3>2, <3>3
  <2>4. g = [n \in Nat |-> g[n]]
    BY <2>1
  <2>5. g = Body(g)
    BY <2>3, <2>4 DEF Body
  <2>6. QED BY <2>5 DEF at
<1> HIDE DEF at
<1>5. at[0] = start
  BY <1>4
<1>6. \A n \in Nat : at[n + 1] = Releasing(at[n])
  <2>1. SUFFICES ASSUME NEW n \in Nat PROVE at[n + 1] = Releasing(at[n])
    OBVIOUS
  <2>2. n + 1 \in Nat /\ n + 1 # 0 /\ (n + 1) - 1 = n
    OBVIOUS
  <2> DEFINE k == n + 1
  <2> HIDE DEF k
  <2>3. at[k] = Releasing(at[k - 1])
    BY <1>4, <2>2 DEF k
  <2>4. QED BY <2>2, <2>3 DEF k
<1>7. IsFiniteSet(Object) /\ N \in Nat
  BY OwnerConstants, FS_CardinalityType
<1>8. \A g : IsFiniteSet(Alive(g)) /\ Cardinality(Alive(g)) \in Nat /\ Cardinality(Alive(g)) <= N
  <2>1. SUFFICES ASSUME NEW g PROVE IsFiniteSet(Alive(g)) /\ Cardinality(Alive(g)) \in Nat
                                    /\ Cardinality(Alive(g)) <= N
    OBVIOUS
  <2>2. Alive(g) \in SUBSET Object
    BY DEF Alive
  <2>3. QED BY <1>7, <2>2, FS_Subset, FS_CardinalityType
<1> HIDE DEF N, start
<1>9. 0 \in Good
  <2>1. Cascade(start, kept, owners, client, first)
    BY DEF start
  <2>2. Cardinality(Alive(start.heap)) + 0 <= N
    BY <1>7, <1>8
  <2>3. QED BY <1>5, <2>1, <2>2
<1>10. ASSUME NEW n \in Nat, n \in Good PROVE n + 1 \in Good
  <2> DEFINE c == at[n]
  <2>1. Cascade(c, kept, owners, client, first)
        /\ (c.pending = Null \/ Cardinality(Alive(c.heap)) + n <= N)
    BY <1>10
  <2>2. at[n + 1] = Releasing(c)
    BY <1>6
  <2> HIDE DEF c
  <2>3. Cascade(Releasing(c), kept, owners, client, first) /\ Frees(c, Releasing(c))
    BY <2>1, ReleasingKeeps
  <2>4. Releasing(c).pending = Null \/ Cardinality(Alive(Releasing(c).heap)) + (n + 1) <= N
    <3>1. CASE c.pending = Null
      <4>1. Releasing(c) = c
        BY <2>1, <3>1, ReleasingParts DEF Cascade
      <4>2. QED BY <3>1, <4>1
    <3>2. CASE c.pending # Null /\ Releasing(c).pending # Null
      <4>1. PICK x \in Alive(c.heap) : Alive(Releasing(c).heap) = Alive(c.heap) \ {x}
        BY <2>3, <3>2 DEF Frees
      <4>2. Cardinality(Alive(Releasing(c).heap)) = Cardinality(Alive(c.heap)) - 1
        BY <1>8, <4>1, FS_RemoveElement
      <4>3. Cardinality(Alive(c.heap)) \in Nat /\ Cardinality(Alive(c.heap)) + n <= N
        BY <1>8, <2>1, <3>2
      <4>4. QED BY <1>7, <4>2, <4>3
    <3>3. QED BY <3>1, <3>2
  <2>5. QED BY <2>2, <2>3, <2>4
<1>11. N \in Good
  <2> HIDE DEF Good
  <2>1. Nat \subseteq Good
    BY <1>9, <1>10, InductionOn
  <2>2. QED BY <1>7, <2>1
<1>12. Cascade(at[N], kept, owners, client, first)
  BY <1>11
<1>13. at[N].pending = Null
  <2>1. SUFFICES ASSUME at[N].pending # Null PROVE FALSE
    OBVIOUS
  <2>2. at[N].pending \in Alive(at[N].heap)
    BY <1>12, <2>1, PendingAlive
  <2>3. Cardinality(Alive(at[N].heap)) + N <= N /\ Cardinality(Alive(at[N].heap)) \in Nat
    BY <1>8, <1>11, <2>1
  <2>4. Cardinality(Alive(at[N].heap)) = 0
    BY <1>7, <2>3
  <2>5. QED BY <1>8, <2>2, <2>4, FS_EmptySet
<1>14. at[N] = [heap |-> at[N].heap, pending |-> Null]
  <2>1. at[N] \in [heap : HeapType, pending : Target]
    BY <1>12 DEF Cascade
  <2>2. QED BY <1>13, <2>1
<1>15. QED BY <1>1, <1>12, <1>14

-----------------------------------------------------------------------------
(* An owner that the client can name stays while what it owns is released: *)
(* its object is kept by what leads to it without that owner.              *)

OInv ==
  /\ storage \in [Owner -> Target] /\ count \in [Object -> Int] /\ held \subseteq Object
  /\ CountsExact

LEMMA NowExact ==
  ASSUME OInv
  PROVE  /\ Now \in HeapType /\ Now.storage = storage /\ Now.count = count
         /\ \A o \in Object : count[o] = Uses(storage, Owner, o) + HeldBy(held, o)
         /\ \A o : HeldBy(held, o) \in Nat
         /\ \A S \in SUBSET Owner : IsFiniteSet(S) /\ \A f, o : Uses(f, S, o) \in Nat
<1>1. Now \in HeapType /\ Now.storage = storage /\ Now.count = count
  BY DEF OInv, Now, Heap, HeapType
<1>2. \A o \in Object : count[o] = Uses(storage, Owner, o) + HeldBy(held, o)
  BY DEF OInv, CountsExact, Uses, Holders, HeldBy
<1>3. \A o : HeldBy(held, o) \in Nat
  BY HeldByIs
<1>4. \A S \in SUBSET Owner : IsFiniteSet(S) /\ \A f, o : Uses(f, S, o) \in Nat
  BY OwnersFinite, UsesType
<1>5. QED BY <1>1, <1>2, <1>3, <1>4

LEMMA NullHolds == ASSUME NEW o \in Object PROVE One(Null, o) = 0
BY OwnerConstants DEF One

LEMMA UsableKept ==
  ASSUME OInv, NEW p \in Usable
  PROVE  /\ p \in Owner
         /\ \E R : Roles(R, Owner \ {p}, held) /\ Kept(Now, R, Owner \ {p}, held)
<1>1. CASE p \in Variable
  <2>1. Object \ (Owner \ {p}) = {}
    BY <1>1, OwnerConstants DEF Owner
  <2>2. Roles({}, Owner \ {p}, held) /\ Kept(Now, {}, Owner \ {p}, held)
    BY <2>1 DEF Roles, Kept, OInv
  <2>3. QED BY <1>1, <2>2 DEF Owner
<1>2. CASE p \in Reachable(storage)
  <2> DEFINE roots == held \cup ({storage[q] : q \in Variable} \ {Null})
             Closed(S) == roots \subseteq S /\ \A o \in S \ {p} : storage[o] \in S \cup {Null}
             R == {o \in Object : \A S \in SUBSET Object : Closed(S) => o \in S}
  <2>1. p \in Object /\ p \in Owner /\ Variable \subseteq Owner \ {p}
    BY <1>2, OwnerConstants DEF Reachable, Owner
  <2>2. roots \subseteq Object
    <3>1. \A q \in Variable : storage[q] \in Object \cup {Null}
      BY DEF OInv, Owner, Target
    <3>2. held \subseteq Object
      BY DEF OInv
    <3>3. QED BY <3>1, <3>2
  <2>3. roots \subseteq R
    BY <2>2
  <2>4. \A o \in R \ {p} : storage[o] \in R \cup {Null}
    <3>1. SUFFICES ASSUME NEW o \in R, o # p, storage[o] # Null PROVE storage[o] \in R
      OBVIOUS
    <3>2. storage[o] \in Object
      BY <3>1 DEF OInv, Owner, Target
    <3>3. ASSUME NEW S \in SUBSET Object, Closed(S) PROVE storage[o] \in S
      BY <3>1, <3>3
    <3>4. QED BY <3>2, <3>3
  <2>5. p \in R
    <3>1. SUFFICES ASSUME p \notin R PROVE FALSE
      OBVIOUS
    <3>2. ClosedUnder(storage, R)
      BY <2>4, <3>1 DEF ClosedUnder
    <3>3. R \in SUBSET Object
      OBVIOUS
    <3> HIDE DEF R
    <3>4. p \in R
      BY <1>2, <2>3, <3>2, <3>3 DEF Reachable
    <3>5. QED BY <3>1, <3>4
  <2>6. ASSUME NEW o \in R, o \notin held,
               \A q \in Owner \ {p} : q \in Variable \cup R => storage[q] # o
        PROVE  FALSE
    <3> DEFINE S == R \ {o}
    <3>1. o \notin roots
      <4>1. \A q \in Variable : storage[q] # o
        BY <2>1, <2>6
      <4>2. QED BY <2>6, <4>1
    <3>2. \A x \in S \ {p} : storage[x] \in S \cup {Null}
      <4>1. SUFFICES ASSUME NEW x \in S, x # p PROVE storage[x] \in S \cup {Null}
        OBVIOUS
      <4>2. x \in R /\ x \in Owner \ {p}
        BY <4>1 DEF Owner
      <4>3. storage[x] \in R \cup {Null} /\ storage[x] # o
        BY <2>4, <2>6, <4>1, <4>2
      <4>4. QED BY <4>3
    <3>3. Closed(S) /\ S \in SUBSET Object
      BY <2>3, <3>1, <3>2
    <3>4. o \in S
      <4> HIDE DEF S, Closed
      <4>1. QED BY <2>6, <3>3
    <3>5. QED BY <3>4
  <2>7. Kept(Now, R, Owner \ {p}, held)
    <3> HIDE DEF R
    <3>1. QED BY <2>6, NowExact DEF Kept
  <2>8. Object \ (Owner \ {p}) \subseteq R
    <3> HIDE DEF R
    <3>1. QED BY <2>5 DEF Owner
  <2>9. Roles(R, Owner \ {p}, held)
    BY <2>8 DEF Roles, OInv
  <2> HIDE DEF R
  <2>10. QED BY <2>1, <2>7, <2>9
<1>3. QED BY <1>1, <1>2 DEF Usable

-----------------------------------------------------------------------------
(* The heap between the release of the old object and the assignment.      *)

\* Exact for all owners but p, in the types of the heap.
Without(h, p, client) == h \in HeapType /\ Exact(h, Null, Owner \ {p}, client)

Whole(h, client) == h \in HeapType /\ Exact(h, Null, Owner, client)

LEMMA OwnApart ==
  ASSUME OInv, NEW p \in Owner, NEW o
  PROVE  Uses(storage, Owner, o) = Uses(storage, Owner \ {p}, o) + One(storage[p], o)
BY OwnersFinite, TakenApart

LEMMA AfterReleaseExact ==
  ASSUME OInv, NEW p \in Usable
  PROVE  /\ Without(AfterRelease(p), p, held)
         /\ \A q \in Variable : AfterRelease(p).storage[q] = storage[q]
<1> DEFINE W == Owner \ {p}
           c == [heap |-> Now, pending |-> storage[p]]
           d == [heap |-> AfterRelease(p), pending |-> Null]
<1>1. PICK R : Roles(R, W, held) /\ Kept(Now, R, W, held)
  BY UsableKept
<1>2. p \in Owner
  BY UsableKept
<1>3. c \in [heap : HeapType, pending : Target]
  BY <1>2, NowExact DEF OInv
<1>4. Exact(Now, storage[p], W, held)
  <2>1. SUFFICES ASSUME NEW o \in Object
                 PROVE  count[o] = Uses(storage, W, o) + One(storage[p], o) + HeldBy(held, o)
    BY NowExact DEF Exact
  <2>2. Uses(storage, Owner, o) = Uses(storage, W, o) + One(storage[p], o)
    BY <1>2, OwnApart
  <2> HIDE DEF W
  <2>3. count[o] = Uses(storage, Owner, o) + HeldBy(held, o)
    BY NowExact
  <2>4. QED BY <2>2, <2>3
<1>5. Cascade(c, R, W, held, storage)
  BY <1>1, <1>3, <1>4, NowExact DEF Cascade
<1>6. Cascade(d, R, W, held, storage)
  <2> HIDE DEF W
  <2>1. Cascade([heap |-> Released(Now, storage[p]), pending |-> Null], R, W, held, storage)
    BY <1>1, <1>5, ReleasedKeeps
  <2>2. QED BY <2>1 DEF AfterRelease
<1> HIDE DEF W
<1>7. AfterRelease(p) \in HeapType /\ Exact(AfterRelease(p), Null, W, held)
      /\ \A q \in Variable : AfterRelease(p).storage[q] = storage[q]
  BY <1>6 DEF Cascade
<1>8. QED BY <1>7 DEF W, Without

\* An owner takes over what was retained for it.
LEMMA RetainingExact ==
  ASSUME NEW h, NEW p \in Owner, NEW y \in Target, NEW client, Without(h, p, client)
  PROVE  Whole(Retaining(h, p, y), client)
<1> DEFINE s == h.storage
           n == h.count
           t == [s EXCEPT ![p] = y]
           m == [o \in Object |-> n[o] + One(y, o)]
           g == Retaining(h, p, y)
<1>1. s \in [Owner -> Target] /\ n \in [Object -> Int] /\ h = [storage |-> s, count |-> n]
  BY DEF Without, HeapType
<1>2. t \in [Owner -> Target] /\ t[p] = y /\ \A q \in Owner \ {p} : t[q] = s[q]
  BY <1>1
<1>3. m \in [Object -> Int] /\ \A o \in Object : m[o] = n[o] + One(y, o)
  BY <1>1 DEF One
<1>4. g = [storage |-> t, count |-> m]
  <2>1. [h EXCEPT !.storage[p] = y] = [storage |-> t, count |-> n]
    <3> HIDE DEF s, n
    <3>1. QED BY <1>1
  <2>2. CASE y = Null
    <3>1. m = n
      <4>1. \A o \in Object : m[o] = n[o]
        BY <1>1, <2>2, NullHolds
      <4>2. m = [o \in Object |-> m[o]] /\ n = [o \in Object |-> n[o]]
        BY <1>1, <1>3
      <4> HIDE DEF m, n
      <4>3. QED BY <4>1, <4>2
    <3>2. QED BY <2>1, <2>2, <3>1 DEF Retaining, Retained
  <2>3. CASE y # Null
    <3>1. y \in Object
      BY <2>3 DEF Target
    <3>2. [n EXCEPT ![y] = @ + 1] = m
      BY <1>1, <3>1 DEF One
    <3> DEFINE k == [h EXCEPT !.storage[p] = y]
    <3>3. g = [k EXCEPT !.count[y] = @ + 1]
      BY <2>3 DEF Retaining, Retained
    <3> HIDE DEF k, t, n
    <3>4. k = [storage |-> t, count |-> n]
      BY <2>1 DEF k
    <3>5. [k EXCEPT !.count[y] = @ + 1] = [storage |-> t, count |-> [n EXCEPT ![y] = @ + 1]]
      BY <3>4
    <3> HIDE DEF m, g
    <3>6. QED BY <3>2, <3>3, <3>5
  <2>4. QED BY <2>2, <2>3
<1> HIDE DEF g, t, m
<1>5. g \in HeapType
  BY <1>2, <1>3, <1>4 DEF HeapType
<1>6. ASSUME NEW o \in Object PROVE m[o] = Uses(t, Owner, o) + One(Null, o) + HeldBy(client, o)
  <2>1. n[o] = Uses(s, Owner \ {p}, o) + One(Null, o) + HeldBy(client, o)
    BY DEF Without, Exact
  <2>2. Uses(t, Owner, o) = Uses(t, Owner \ {p}, o) + One(t[p], o)
    BY OwnersFinite, TakenApart
  <2>3. SameOn(s, t, Owner \ {p})
    BY <1>2 DEF SameOn
  <2> HIDE DEF s
  <2>4. Uses(t, Owner \ {p}, o) = Uses(s, Owner \ {p}, o)
    BY <2>3, SameUses
  <2>5. Uses(s, Owner \ {p}, o) \in Nat
    BY OwnersFinite, UsesType
  <2>6. One(y, o) \in Nat /\ One(Null, o) \in Nat /\ HeldBy(client, o) \in Nat
    BY HeldByIs DEF One
  <2> HIDE DEF n
  <2>7. QED BY <1>2, <1>3, <2>1, <2>2, <2>4, <2>5, <2>6
<1>7. Exact(g, Null, Owner, client)
  BY <1>4, <1>6 DEF Exact
<1>8. QED BY <1>5, <1>7 DEF Whole, g

\* An owner takes over the reference of another one.
LEMMA MovedExact ==
  ASSUME NEW h, NEW p \in Owner, NEW q \in Owner, p # q, NEW client, Without(h, p, client),
         NEW g, g = [storage |-> [h.storage EXCEPT ![p] = h.storage[q], ![q] = Null],
                     count |-> h.count]
  PROVE  Whole(g, client)
<1> DEFINE s == h.storage
           n == h.count
           u == [s EXCEPT ![p] = s[q]]
           t == [s EXCEPT ![p] = s[q], ![q] = Null]
<1>1. s \in [Owner -> Target] /\ n \in [Object -> Int]
  BY DEF Without, HeapType
<1>2. u[p] = s[q] /\ u[q] = s[q] /\ \A x \in Owner \ {p} : u[x] = s[x]
  BY <1>1
<1>3. t[q] = Null /\ (\A x \in Owner : x # q => t[x] = u[x]) /\ t \in [Owner -> Target]
  BY <1>1 DEF Target
<1> HIDE DEF u, t
<1>4. g = [storage |-> t, count |-> n]
  BY DEF t
<1>5. ASSUME NEW o \in Object PROVE n[o] = Uses(t, Owner, o) + One(Null, o) + HeldBy(client, o)
  <2>1. n[o] = Uses(s, Owner \ {p}, o) + One(Null, o) + HeldBy(client, o)
    BY DEF Without, Exact
  <2>2. Uses(u, Owner, o) = Uses(u, Owner \ {p}, o) + One(u[p], o)
    BY OwnersFinite, TakenApart
  <2>3. SameOn(s, u, Owner \ {p})
    BY <1>2 DEF SameOn
  <2> HIDE DEF s, n
  <2>4. Uses(u, Owner \ {p}, o) = Uses(s, Owner \ {p}, o)
    BY <2>3, SameUses
  <2>5. SameBut(u, t, Owner, q)
    BY <1>3 DEF SameBut
  <2>6. Uses(t, Owner, o) = Uses(u, Owner, o) + One(t[q], o) - One(u[q], o)
    BY <2>5, OwnersFinite, OneChanged
  <2>7. One(t[q], o) = 0 /\ One(Null, o) = 0
    BY <1>3, NullHolds
  <2>8. One(u[p], o) = One(u[q], o) /\ One(u[q], o) \in Nat
    BY <1>2 DEF One
  <2>9. Uses(s, Owner \ {p}, o) \in Nat /\ HeldBy(client, o) \in Nat
    BY OwnersFinite, UsesType, HeldByIs
  <2>10. QED BY <2>1, <2>2, <2>4, <2>6, <2>7, <2>8, <2>9
<1>6. Exact(g, Null, Owner, client)
  BY <1>4, <1>5 DEF Exact
<1>7. g \in HeapType
  BY <1>1, <1>3, <1>4 DEF HeapType
<1>8. QED BY <1>6, <1>7 DEF Whole

\* A reference is given up that no owner counts any more.
LEMMA ReleasedExact ==
  ASSUME NEW h \in HeapType, NEW o \in Target, NEW client \in SUBSET Object,
         Exact(h, o, Owner, client)
  PROVE  Whole(Released(h, o), client)
<1> DEFINE c == [heap |-> h, pending |-> o]
           first == h.storage
<1>1. Roles({}, Owner, client)
  BY DEF Roles, Owner
<1>2. Cascade(c, {}, Owner, client, first)
  BY DEF Cascade, Kept
<1> HIDE DEF first
<1>3. Cascade([heap |-> Released(h, o), pending |-> Null], {}, Owner, client, first)
  BY <1>1, <1>2, ReleasedKeeps
<1>4. QED BY <1>3 DEF Cascade, Whole

\* What the client finds afterwards.
LEMMA Becomes ==
  ASSUME NEW g, NEW client \in SUBSET Object, Whole(g, client),
         storage' = g.storage, count' = g.count, held' = client
  PROVE  OInv'
<1>1. storage' \in [Owner -> Target] /\ count' \in [Object -> Int]
  BY DEF Whole, HeapType
<1>2. ASSUME NEW o \in Object PROVE count'[o] = Uses(storage', Owner, o) + HeldBy(held', o)
  <2>1. g.count[o] = Uses(g.storage, Owner, o) + One(Null, o) + HeldBy(client, o)
    BY DEF Whole, Exact
  <2>2. Uses(g.storage, Owner, o) \in Nat
    BY OwnersFinite, UsesType
  <2>3. QED BY <2>1, <2>2, NullHolds, HeldByIs
<1>3. CountsExact'
  BY <1>2 DEF CountsExact, Uses, Holders, HeldBy
<1>4. QED BY <1>1, <1>3 DEF OInv

-----------------------------------------------------------------------------
(* The operations.                                                         *)

\* An owner without a reference may be left out, or counted.
LEMMA EmptyOwner ==
  ASSUME OInv, NEW p \in Owner, storage[p] = Null
  PROVE  Without(Now, p, held)
<1>1. ASSUME NEW o \in Object
      PROVE  count[o] = Uses(storage, Owner \ {p}, o) + One(Null, o) + HeldBy(held, o)
  <2>1. Uses(storage, Owner, o) = Uses(storage, Owner \ {p}, o) + One(storage[p], o)
    BY OwnApart
  <2>2. count[o] = Uses(storage, Owner, o) + HeldBy(held, o)
    BY NowExact
  <2>3. QED BY <2>1, <2>2
<1>2. QED BY <1>1, NowExact DEF Without, Exact

LEMMA CreateKeeps == ASSUME OInv, NEW o \in Object, CreateObject(o) PROVE OInv'
<1> DEFINE g == [storage |-> storage, count |-> [count EXCEPT ![o] = 1]]
<1>1. count[o] = 0 /\ count' = [count EXCEPT ![o] = 1] /\ held' = held \cup {o} /\ storage' = storage
  BY DEF CreateObject
<1>2. g \in HeapType /\ g.storage = storage' /\ g.count = count'
  BY <1>1 DEF OInv, HeapType
<1>3. ASSUME NEW x \in Object
      PROVE  count'[x] = Uses(storage, Owner, x) + One(Null, x) + HeldBy(held', x)
  <2>1. count[x] = Uses(storage, Owner, x) + HeldBy(held, x) /\ Uses(storage, Owner, x) \in Nat
    BY NowExact
  <2>2. count'[x] = IF x = o THEN 1 ELSE count[x]
    BY <1>1 DEF OInv
  <2>3. One(Null, x) = 0
    BY NullHolds
  <2>4. HeldBy(held', x) = IF x = o THEN 1 ELSE HeldBy(held, x)
    BY <1>1, HeldByIs
  <2>5. HeldBy(held, x) \in Nat
    BY NowExact
  <2>6. x = o => Uses(storage, Owner, x) = 0
    BY <1>1, <2>1, <2>5
  <2>7. QED BY <2>1, <2>2, <2>3, <2>4, <2>5, <2>6
<1>4. Whole(g, held')
  BY <1>1, <1>2, <1>3 DEF Whole, Exact
<1>5. held' \in SUBSET Object
  BY <1>1 DEF OInv
<1>6. QED BY <1>2, <1>4, <1>5, Becomes

LEMMA DropKeeps == ASSUME OInv, NEW o \in Object, DropObject(o) PROVE OInv'
<1>1. o \in held /\ held' = held \ {o} /\ Become(Released(Now, o))
  BY DEF DropObject
<1>2. held' \in SUBSET Object /\ o \in Target
  BY <1>1 DEF OInv, Target
<1>3. ASSUME NEW x \in Object
      PROVE  count[x] = Uses(storage, Owner, x) + One(o, x) + HeldBy(held', x)
  <2>1. count[x] = Uses(storage, Owner, x) + HeldBy(held, x) /\ Uses(storage, Owner, x) \in Nat
    BY NowExact
  <2>2. HeldBy(held, x) = One(o, x) + HeldBy(held', x)
    <3>1. CASE x = o
      BY <1>1, <3>1, HeldByIs DEF One
    <3>2. CASE x # o
      <4>1. HeldBy(held', x) = HeldBy(held, x) /\ HeldBy(held, x) \in Nat
        BY <1>1, <3>2, HeldByIs
      <4>2. One(o, x) = 0
        BY <3>2 DEF One
      <4>3. QED BY <4>1, <4>2
    <3>3. QED BY <3>1, <3>2
  <2>3. One(o, x) \in Nat /\ HeldBy(held', x) \in Nat
    BY HeldByIs DEF One
  <2>4. QED BY <2>1, <2>2, <2>3
<1>4. Exact(Now, o, Owner, held')
  BY <1>3, NowExact DEF Exact
<1>5. Whole(Released(Now, o), held')
  BY <1>2, <1>4, NowExact, ReleasedExact
<1>6. QED BY <1>1, <1>2, <1>5, Becomes DEF Become

\* Constructed or reset, an owner takes over y in heap h.
LEMMA RetainingKeeps ==
  ASSUME OInv, NEW h, NEW p \in Owner, NEW y \in Target, Without(h, p, held),
         Become(Retaining(h, p, y)), held' = held
  PROVE  OInv'
<1>1. Whole(Retaining(h, p, y), held)
  BY RetainingExact
<1>2. held \in SUBSET Object
  BY DEF OInv
<1>3. QED BY <1>1, <1>2, Becomes DEF Become

LEMMA ConstructKeeps ==
  ASSUME OInv, NEW p \in Owner, NEW o \in Target, Construct(p, o)
  PROVE  OInv'
<1>1. storage[p] = Null /\ Become(Retaining(Now, p, o)) /\ held' = held
  BY DEF Construct, Unconstructed, Retaining
<1>2. Without(Now, p, held)
  BY <1>1, EmptyOwner
<1>3. QED BY <1>1, <1>2, RetainingKeeps

LEMMA CopyConstructKeeps ==
  ASSUME OInv, NEW p \in Owner, NEW q \in Owner, CopyConstruct(p, q)
  PROVE  OInv'
<1>1. storage[p] = Null /\ Become(Retaining(Now, p, storage[q])) /\ held' = held
  BY DEF CopyConstruct, Unconstructed, Retaining
<1>2. Without(Now, p, held)
  BY <1>1, EmptyOwner
<1>3. storage[q] \in Target
  BY DEF OInv
<1>4. QED BY <1>1, <1>2, <1>3, RetainingKeeps

LEMMA MoveConstructKeeps ==
  ASSUME OInv, NEW p \in Owner, NEW q \in Owner, MoveConstruct(p, q)
  PROVE  OInv'
<1> DEFINE g == [storage |-> [storage EXCEPT ![p] = storage[q], ![q] = Null], count |-> count]
<1>1. /\ storage[p] = Null /\ p # q /\ held' = held
      /\ storage' = g.storage /\ count' = g.count
  BY DEF MoveConstruct, Unconstructed
<1>2. Without(Now, p, held)
  BY <1>1, EmptyOwner
<1>3. g = [storage |-> [Now.storage EXCEPT ![p] = Now.storage[q], ![q] = Null], count |-> Now.count]
  BY NowExact
<1> HIDE DEF g
<1>4. Whole(g, held)
  BY <1>1, <1>2, <1>3, MovedExact
<1>5. held \in SUBSET Object
  BY DEF OInv
<1>6. QED BY <1>1, <1>4, <1>5, Becomes

LEMMA DestructKeeps == ASSUME OInv, NEW p \in Owner, Destruct(p) PROVE OInv'
<1> DEFINE h == [Now EXCEPT !.storage[p] = Null]
           t == [storage EXCEPT ![p] = Null]
           o == storage[p]
<1>1. Become(Released(h, o)) /\ held' = held
  BY DEF Destruct
<1>2. o \in Target /\ storage \in [Owner -> Target] /\ count \in [Object -> Int]
  BY DEF OInv
<1>3. t \in [Owner -> Target] /\ t[p] = Null /\ SameBut(storage, t, Owner, p)
  BY <1>2 DEF Target, SameBut
<1>4. h = [storage |-> t, count |-> count]
  <2>1. Now = [storage |-> storage, count |-> count]
    BY DEF Now, Heap
  <2>2. QED BY <2>1
<1> HIDE DEF h, t
<1>5. h \in HeapType
  BY <1>2, <1>3, <1>4 DEF HeapType
<1>6. ASSUME NEW x \in Object PROVE count[x] = Uses(t, Owner, x) + One(o, x) + HeldBy(held, x)
  <2>1. Uses(t, Owner, x) = Uses(storage, Owner, x) + One(t[p], x) - One(storage[p], x)
    BY <1>3, OwnersFinite, OneChanged
  <2>2. One(t[p], x) = 0 /\ One(o, x) \in Nat
    BY <1>3, NullHolds DEF One
  <2>3. count[x] = Uses(storage, Owner, x) + HeldBy(held, x) /\ Uses(storage, Owner, x) \in Nat
        /\ HeldBy(held, x) \in Nat
    BY NowExact
  <2>4. QED BY <2>1, <2>2, <2>3
<1>7. Exact(h, o, Owner, held)
  BY <1>4, <1>6 DEF Exact
<1>8. held \in SUBSET Object
  BY DEF OInv
<1>9. Whole(Released(h, o), held)
  <2> HIDE DEF o
  <2>1. QED BY <1>2, <1>5, <1>7, <1>8, ReleasedExact
<1>10. QED BY <1>1, <1>8, <1>9, Becomes DEF Become

\* A failed read changes nothing that is counted.
LEMMA MisusesKeeps == ASSUME OInv, Misuses PROVE OInv'
BY DEF Misuses, OInv, CountsExact

LEMMA CopyAssignKeeps ==
  ASSUME OInv, NEW p \in Owner, NEW q \in Owner, CopyAssign(p, q)
  PROVE  OInv'
<1> DEFINE h == AfterRelease(p)
<1>1. Misuses \/ (Become(Retaining(h, p, h.storage[q])) /\ held' = held)
  BY DEF CopyAssign
<1>2. Without(h, p, held)
  BY AfterReleaseExact DEF CopyAssign
<1> HIDE DEF h
<1>3. h.storage[q] \in Target
  BY <1>2 DEF Without, HeapType
<1>4. QED BY <1>1, <1>2, <1>3, RetainingKeeps, MisusesKeeps

LEMMA MoveAssignKeeps ==
  ASSUME OInv, NEW p \in Owner, NEW q \in Owner, MoveAssign(p, q)
  PROVE  OInv'
<1> DEFINE h == AfterRelease(p)
           s == h.storage
           n == h.count
           t == [s EXCEPT ![p] = s[q], ![q] = Null]
           g == [storage |-> t, count |-> n]
<1>1. p # q /\ (Misuses \/ (/\ Become([h EXCEPT !.storage[p] = s[q], !.storage[q] = Null])
                            /\ held' = held))
  BY DEF MoveAssign
<1>2. Without(h, p, held)
  BY AfterReleaseExact DEF MoveAssign
<1> HIDE DEF h
<1>3. h = [storage |-> s, count |-> n]
  BY <1>2 DEF Without, HeapType
<1>4. Whole(g, held)
  <2>1. g = [storage |-> [h.storage EXCEPT ![p] = h.storage[q], ![q] = Null], count |-> h.count]
    OBVIOUS
  <2> HIDE DEF g
  <2>2. QED BY <1>1, <1>2, <2>1, MovedExact
<1>5. [h EXCEPT !.storage[p] = s[q], !.storage[q] = Null] = g
  <2> DEFINE v == s[q]
  <2> HIDE DEF v, s, n
  <2> DEFINE k == [h EXCEPT !.storage[p] = v]
             u == [s EXCEPT ![p] = v]
  <2>1. [h EXCEPT !.storage[p] = v, !.storage[q] = Null] = [k EXCEPT !.storage[q] = Null]
    OBVIOUS
  <2>2. k = [storage |-> u, count |-> n]
    BY <1>3
  <2>3. [s EXCEPT ![p] = v, ![q] = Null] = [u EXCEPT ![q] = Null]
    OBVIOUS
  <2> HIDE DEF k, u
  <2>4. [k EXCEPT !.storage[q] = Null] = [storage |-> [u EXCEPT ![q] = Null], count |-> n]
    BY <2>2
  <2>5. QED BY <2>1, <2>3, <2>4 DEF v
<1> HIDE DEF g
<1>6. held \in SUBSET Object
  BY DEF OInv
<1>7. CASE Become(g) /\ held' = held
  BY <1>4, <1>6, <1>7, Becomes DEF Become
<1>8. QED BY <1>1, <1>5, <1>7, MisusesKeeps

LEMMA ResetKeeps ==
  ASSUME OInv, NEW p \in Owner, NEW o \in Target, ResetOwner(p, o)
  PROVE  OInv'
<1>1. Misuses \/ (Become(Retaining(AfterRelease(p), p, o)) /\ held' = held)
  BY DEF ResetOwner
<1>2. Without(AfterRelease(p), p, held)
  BY AfterReleaseExact DEF ResetOwner
<1>3. QED BY <1>1, <1>2, RetainingKeeps, MisusesKeeps

LEMMA OwnerStart == ASSUME OwnerInit PROVE OInv
<1>1. storage \in [Owner -> Target] /\ count \in [Object -> Int] /\ held \subseteq Object
  BY DEF OwnerInit, Target
<1>2. ASSUME NEW o \in Object PROVE count[o] = Uses(storage, Owner, o) + HeldBy(held, o)
  <2>1. \A q \in Owner : storage[q] # o
    BY OwnerConstants DEF OwnerInit
  <2>2. Uses(storage, Owner, o) = 0
    BY <2>1, NoneHolds
  <2>3. HeldBy(held, o) = 0
    BY HeldByIs DEF OwnerInit
  <2>4. QED BY <2>2, <2>3 DEF OwnerInit
<1>3. QED BY <1>1, <1>2 DEF OInv, CountsExact, Uses, Holders, HeldBy

LEMMA OwnerKeeps == ASSUME OInv, [OwnerNext]_ownerVars PROVE OInv'
<1>1. CASE UNCHANGED ownerVars
  BY <1>1 DEF ownerVars, OInv, CountsExact
<1>2. CASE OwnerNext
  <2>1. ASSUME NEW p \in Owner, NEW q \in Owner,
               \/ CopyConstruct(p, q) \/ MoveConstruct(p, q)
               \/ CopyAssign(p, q) \/ MoveAssign(p, q)
        PROVE  OInv'
    BY <2>1, CopyConstructKeeps, MoveConstructKeeps, CopyAssignKeeps, MoveAssignKeeps
  <2>2. ASSUME NEW p \in Owner, NEW o \in Target, Construct(p, o) \/ ResetOwner(p, o)
        PROVE  OInv'
    BY <2>2, ConstructKeeps, ResetKeeps
  <2>3. QED BY <1>2, <2>1, <2>2, CreateKeeps, DropKeeps, DestructKeeps DEF OwnerNext, Target
<1>3. QED BY <1>1, <1>2

\* The count of every object is the number of owners that refer to it and of
\* the client's references, whatever is freed in the middle of an assignment.
THEOREM CountsRight == OwnerSpec => []CountsExact
<1>1. OInv => CountsExact
  BY DEF OInv
<1>2. QED BY <1>1, OwnerStart, OwnerKeeps, PTL DEF OwnerSpec

-----------------------------------------------------------------------------
(* Which assignments are safe.                                             *)

\* An object that is still counted was not freed.
LEMMA CountedNotFreed ==
  ASSUME NEW h, NEW p \in Owner, NEW client, Without(h, p, client), NEW o,
         o \in client \/ \E q \in Owner \ {p} : h.storage[q] = o
  PROVE  ~Freed(h, o)
<1> SUFFICES ASSUME o \in Object PROVE h.count[o] # 0
  BY DEF Freed
<1>1. h.count[o] = Uses(h.storage, Owner \ {p}, o) + One(Null, o) + HeldBy(client, o)
  BY DEF Without, Exact
<1>2. Uses(h.storage, Owner \ {p}, o) \in Nat /\ HeldBy(client, o) \in Nat /\ One(Null, o) = 0
  BY OwnersFinite, UsesType, HeldByIs, NullHolds
<1>3. CASE o \in client
  <2>1. HeldBy(client, o) = 1
    BY <1>3, HeldByIs
  <2>2. QED BY <1>1, <1>2, <2>1
<1>4. CASE \E q \in Owner \ {p} : h.storage[q] = o
  <2> DEFINE s == h.storage
             W == Owner \ {p}
  <2>1. PICK q \in W : s[q] = o
    BY <1>4
  <2>2. IsFiniteSet(W)
    BY OwnersFinite
  <2>3. Uses(s, W, o) # 0
    <3> HIDE DEF s, W
    <3>1. Uses(s, W, s[q]) >= 1
      BY <2>2, SomeHolds
    <3>2. QED BY <2>1, <3>1
  <2>4. QED BY <1>1, <1>2, <2>3
<1>5. QED BY <1>3, <1>4

\* What a variable refers to, or the client holds, is there after the release.
LEMMA SafeSource ==
  ASSUME OInv, NEW p \in Usable
  PROVE  /\ p \in Owner
         /\ \A q \in Variable : ~Freed(AfterRelease(p), q)
         /\ \A q \in Variable \ {p} : ~Freed(AfterRelease(p), AfterRelease(p).storage[q])
         /\ \A o \in held \cup {storage[q] : q \in Variable \ {p}} : ~Freed(AfterRelease(p), o)
<1> DEFINE h == AfterRelease(p)
<1>1. p \in Owner /\ Without(h, p, held) /\ \A q \in Variable : h.storage[q] = storage[q]
  BY UsableKept, AfterReleaseExact
<1> HIDE DEF h
<1>2. \A q \in Variable : ~Freed(h, q)
  BY OwnerConstants DEF Freed
<1>3. ASSUME NEW q \in Variable \ {p} PROVE ~Freed(h, h.storage[q])
  BY <1>1, CountedNotFreed DEF Owner
<1>4. ASSUME NEW o \in held PROVE ~Freed(h, o)
  BY <1>1, CountedNotFreed
<1>5. QED BY <1>1, <1>2, <1>3, <1>4 DEF h

\* An assignment from a variable, and a reset to what the client holds or
\* another variable refers to, read no freed memory.
THEOREM AssignmentRight == OwnerSpec => AssignFromVariableSafe
<1>1. OInv => [misuse' # misuse =>
                 \A p \in Owner :
                   /\ \A q \in Variable : ~CopyAssign(p, q) /\ ~MoveAssign(p, q)
                   /\ \A o \in held \cup {storage[q] : q \in Variable \ {p}} : ~ResetOwner(p, o)]_ownerVars
  <2> SUFFICES ASSUME OInv, misuse' # misuse, NEW p \in Owner
               PROVE  /\ \A q \in Variable : ~CopyAssign(p, q) /\ ~MoveAssign(p, q)
                      /\ \A o \in held \cup {storage[q] : q \in Variable \ {p}} : ~ResetOwner(p, o)
    OBVIOUS
  <2>1. ASSUME NEW q \in Variable, CopyAssign(p, q) PROVE FALSE
    <3>1. p \in Usable /\ q \in Variable \ {p}
      BY <2>1 DEF CopyAssign
    <3>2. ~Freed(AfterRelease(p), q) /\ ~Freed(AfterRelease(p), AfterRelease(p).storage[q])
      BY <3>1, SafeSource
    <3>3. QED BY <2>1, <3>2 DEF CopyAssign
  <2>2. ASSUME NEW q \in Variable, MoveAssign(p, q) PROVE FALSE
    <3>1. ~Freed(AfterRelease(p), q)
      BY <2>2, SafeSource DEF MoveAssign
    <3>2. QED BY <2>2, <3>1 DEF MoveAssign
  <2>3. ASSUME NEW o \in held \cup {storage[q] : q \in Variable \ {p}}, ResetOwner(p, o) PROVE FALSE
    <3>1. ~Freed(AfterRelease(p), o)
      BY <2>3, SafeSource DEF ResetOwner
    <3>2. QED BY <2>3, <3>1 DEF ResetOwner
  <2>4. QED BY <2>1, <2>2, <2>3
<1>2. QED BY <1>1, OwnerStart, OwnerKeeps, PTL DEF OwnerSpec, AssignFromVariableSafe

-----------------------------------------------------------------------------
(* Tuple values, for any layouts and any number of elements.               *)

Element == Object \cup {Raw}

TupleTypes ==
  /\ layout \in Layout
  /\ memory \in [Byte -> Element] /\ own \in [Slot -> Element]
  /\ handles \in [Object -> Int] /\ leaked \in [Object -> Int]

\* A buffer is empty before it is handed out.
IdleIsEmpty == state = "idle" => \A a \in Byte : memory[a] = Raw

TInv == TupleTypes /\ IdleIsEmpty /\ TupleHandlesExact

LEMMA Summed ==
  ASSUME TInv, NEW o \in Object
  PROVE  handles[o] = Uses(memory, Byte, o) + Uses(own, Slot, o) + leaked[o] /\ leaked[o] \in Int
BY DEF TInv, TupleTypes, TupleHandlesExact, Held, Uses, Holders

LEMMA ElementsHaveBytes ==
  ASSUME layout \in Layout, NEW i \in Nat, i < TupleCount
  PROVE  i \in DOMAIN layout.type /\ i \in Byte /\ layout.offset[i] \in Byte
<1> DEFINE D == DOMAIN layout.type
<1>1. D \subseteq Byte /\ D = 0..(Cardinality(D) - 1) /\ layout.offset \in [D -> Byte]
      /\ IsFiniteSet(Byte)
  BY TupleConstants
<1> HIDE DEF D
<1>2. Cardinality(D) \in Nat
  BY <1>1, FS_Subset, FS_CardinalityType
<1>3. i < Cardinality(D)
  BY DEF TupleCount, D
<1>4. i \in D
  BY <1>1, <1>2, <1>3
<1>5. QED BY <1>1, <1>4 DEF D

\* One place changes in the tuple, or with the client.
LEMMA MemoryCounts ==
  ASSUME NEW a \in Byte, SameBut(memory, memory', Byte, a), NEW o
  PROVE  Uses(memory', Byte, o) = Uses(memory, Byte, o) + One(memory'[a], o) - One(memory[a], o)
<1>1. IsFiniteSet(Byte)
  BY TupleConstants
<1>2. QED BY <1>1, OneChanged

LEMMA OwnCounts ==
  ASSUME NEW s \in Slot, SameBut(own, own', Slot, s), NEW o
  PROVE  Uses(own', Slot, o) = Uses(own, Slot, o) + One(own'[s], o) - One(own[s], o)
<1>1. IsFiniteSet(Slot)
  BY TupleConstants
<1>2. QED BY <1>1, OneChanged

\* An update of one place from another moves the handles with the elements.
LEMMA UpdateExact ==
  ASSUME TInv, NEW a \in Byte, NEW s \in Slot, NEW option \in Option,
         NEW toTuple \in BOOLEAN, NEW dst, NEW src,
         dst = (IF toTuple THEN memory[a] ELSE own[s]),
         src = (IF toTuple THEN own[s] ELSE memory[a]),
         src # Raw,
         memory' = [memory EXCEPT ![a] = IF toTuple THEN Update(dst, src, option).dst
                                                    ELSE Update(dst, src, option).src],
         own' = [own EXCEPT ![s] = IF toTuple THEN Update(dst, src, option).src
                                              ELSE Update(dst, src, option).dst],
         handles' = Update(dst, src, option).handles,
         leaked' = Update(dst, src, option).leaked,
         UNCHANGED <<layout, state>>, InBuffer
  PROVE  TInv'
<1> DEFINE left == IF option.take THEN Raw ELSE src
<1>1. /\ Update(dst, src, option).dst = src /\ Update(dst, src, option).src = left
      /\ Update(dst, src, option).handles =
           [o \in Object |-> handles[o] + Changed(src, IF option.take THEN 0 ELSE 1)[o]
                                        - Changed(dst, IF option.assign THEN 1 ELSE 0)[o]]
      /\ Update(dst, src, option).leaked =
           [o \in Object |-> leaked[o] + Changed(dst, IF option.assign THEN 0 ELSE 1)[o]]
  BY DEF Update
<1>2. TupleTypes /\ src \in Element /\ dst \in Element /\ left \in Element
  BY DEF TInv, TupleTypes, Element
<1>3. \A o \in Object :
        /\ handles'[o] = handles[o] + (IF option.take THEN 0 ELSE One(src, o))
                                    - (IF option.assign THEN One(dst, o) ELSE 0)
        /\ leaked'[o] = leaked[o] + (IF option.assign THEN 0 ELSE One(dst, o))
  BY <1>1 DEF Changed, One
<1>4. handles' \in [Object -> Int] /\ leaked' \in [Object -> Int]
  BY <1>1, <1>2 DEF Changed, TupleTypes
<1>5. memory'[a] = IF toTuple THEN src ELSE left
  BY <1>1, <1>2 DEF TupleTypes
<1>6. own'[s] = IF toTuple THEN left ELSE src
  BY <1>1, <1>2 DEF TupleTypes
<1>7. SameBut(memory, memory', Byte, a) /\ SameBut(own, own', Slot, s)
  BY <1>2 DEF TupleTypes, SameBut
<1>8. memory' \in [Byte -> Element] /\ own' \in [Slot -> Element]
  BY <1>1, <1>2 DEF TupleTypes
<1>9. ASSUME NEW o \in Object
      PROVE  handles'[o] = Uses(memory', Byte, o) + Uses(own', Slot, o) + leaked'[o]
  <2>1. IsFiniteSet(Byte) /\ IsFiniteSet(Slot) /\ o # Raw
    BY TupleConstants
  <2>2. Uses(memory', Byte, o) = Uses(memory, Byte, o) + One(memory'[a], o) - One(memory[a], o)
    BY <1>7, MemoryCounts
  <2>3. Uses(own', Slot, o) = Uses(own, Slot, o) + One(own'[s], o) - One(own[s], o)
    BY <1>7, OwnCounts
  <2>9. Uses(memory, Byte, o) \in Nat /\ Uses(own, Slot, o) \in Nat
    BY <2>1, UsesType
  <2>4. One(left, o) = (IF option.take THEN 0 ELSE One(src, o))
    BY <2>1 DEF One
  <2>5. One(src, o) \in Int /\ One(dst, o) \in Int /\ One(left, o) \in Int
    BY DEF One
  <2>6. /\ One(memory'[a], o) + One(own'[s], o) = One(src, o) + One(left, o)
        /\ One(memory[a], o) + One(own[s], o) = One(src, o) + One(dst, o)
    BY <1>5, <1>6, <2>5
  <2>7. One(memory'[a], o) \in Int /\ One(own'[s], o) \in Int
        /\ One(memory[a], o) \in Int /\ One(own[s], o) \in Int
    BY DEF One
  <2>8. PICK gone : gone = (IF option.assign THEN One(dst, o) ELSE 0)
    OBVIOUS
  <2>10. /\ handles'[o] = handles[o] + One(left, o) - gone
         /\ leaked'[o] = leaked[o] + (One(dst, o) - gone) /\ gone \in Int
    <3>1. (IF option.assign THEN 0 ELSE One(dst, o)) = One(dst, o) - gone /\ gone \in Int
      BY <2>5, <2>8
    <3>2. QED BY <1>3, <2>4, <2>8, <3>1
  <2>11. handles[o] = Uses(memory, Byte, o) + Uses(own, Slot, o) + leaked[o] /\ leaked[o] \in Int
    BY Summed
  <2>12. QED BY <2>2, <2>3, <2>5, <2>6, <2>7, <2>9, <2>10, <2>11
<1>10. TupleHandlesExact'
  BY <1>9 DEF TupleHandlesExact, Held, Uses, Holders
<1>11. IdleIsEmpty'
  BY DEF IdleIsEmpty, InBuffer
<1>12. QED BY <1>2, <1>4, <1>8, <1>10, <1>11 DEF TInv, TupleTypes

\* What happens to one place and to the handle on what is there.
LEMMA OwnExact ==
  ASSUME TInv, NEW s \in Slot, NEW old, NEW new \in Element, old = own[s],
         old = Raw \/ new = Raw,
         own' = [own EXCEPT ![s] = new],
         handles' \in [Object -> Int],
         \A o \in Object : handles'[o] = handles[o] + One(new, o) - One(old, o),
         UNCHANGED <<layout, memory, leaked, state>>
  PROVE  TInv'
<1>1. TupleTypes /\ own' \in [Slot -> Element]
  BY DEF TInv, TupleTypes
<1>2. handles' \in [Object -> Int]
  OBVIOUS
<1>3. own'[s] = new /\ SameBut(own, own', Slot, s)
  BY <1>1 DEF TupleTypes, SameBut
<1>4. ASSUME NEW o \in Object
      PROVE  handles'[o] = Uses(memory', Byte, o) + Uses(own', Slot, o) + leaked'[o]
  <2>1. Uses(own', Slot, o) = Uses(own, Slot, o) + One(own'[s], o) - One(own[s], o)
    BY <1>3, OwnCounts
  <2>2. Uses(memory, Byte, o) \in Nat /\ Uses(own, Slot, o) \in Nat /\ One(new, o) \in Int /\ One(old, o) \in Int
    BY TupleConstants, UsesType DEF One
  <2>3. handles[o] = Uses(memory, Byte, o) + Uses(own, Slot, o) + leaked[o] /\ leaked[o] \in Int
    BY Summed
  <2>4. handles'[o] = handles[o] + One(new, o) - One(old, o)
    OBVIOUS
  <2>5. QED BY <1>3, <2>1, <2>2, <2>3, <2>4
<1>5. TupleHandlesExact'
  BY <1>4 DEF TupleHandlesExact, Held, Uses, Holders
<1>6. QED BY <1>1, <1>2, <1>5 DEF TInv, TupleTypes, IdleIsEmpty

LEMMA MemoryExact ==
  ASSUME TInv, InBuffer, NEW a \in Byte, memory[a] # Raw,
         memory' = [memory EXCEPT ![a] = Raw],
         handles' = [handles EXCEPT ![memory[a]] = @ - 1],
         UNCHANGED <<layout, own, leaked, state>>
  PROVE  TInv'
<1>1. TupleTypes /\ memory' \in [Byte -> Element] /\ memory[a] \in Object
  BY DEF TInv, TupleTypes, Element
<1>2. handles' \in [Object -> Int]
  BY <1>1 DEF TupleTypes
<1>3. memory'[a] = Raw /\ SameBut(memory, memory', Byte, a)
  BY <1>1 DEF TupleTypes, SameBut
<1>4. ASSUME NEW o \in Object
      PROVE  handles'[o] = Uses(memory', Byte, o) + Uses(own', Slot, o) + leaked'[o]
  <2>1. Uses(memory', Byte, o) = Uses(memory, Byte, o) + One(memory'[a], o) - One(memory[a], o)
    BY <1>3, MemoryCounts
  <2>2. Uses(memory, Byte, o) \in Nat /\ Uses(own, Slot, o) \in Nat /\ One(memory'[a], o) = 0
    <3>1. One(memory'[a], o) = 0
      BY <1>3, TupleConstants DEF One
    <3>2. QED BY <3>1, TupleConstants, UsesType
  <2>3. handles[o] = Uses(memory, Byte, o) + Uses(own, Slot, o) + leaked[o] /\ leaked[o] \in Int
    BY Summed
  <2>4. handles'[o] = handles[o] - One(memory[a], o)
    BY <1>1 DEF One, TupleTypes
  <2>5. One(memory[a], o) \in Int
    BY DEF One
  <2>6. QED BY <2>1, <2>2, <2>3, <2>4, <2>5
<1>5. TupleHandlesExact'
  BY <1>4 DEF TupleHandlesExact, Held, Uses, Holders
<1>6. QED BY <1>1, <1>2, <1>5 DEF TInv, TupleTypes, IdleIsEmpty, InBuffer

LEMMA EndsExact == ASSUME TInv, NEW how, how # "idle" \/ (\A a \in Byte : memory[a] = Raw), Ends(how)
                   PROVE  TInv'
BY DEF TInv, TupleTypes, IdleIsEmpty, TupleHandlesExact, Held, Ends

\* Every step keeps the handles exact.
LEMMA TupleStep == ASSUME TInv, [TupleNext]_tupleVars PROVE TInv'
<1> USE DEF Index
<1>1. ASSUME WithBuffer PROVE TInv'
  <2>1. memory' = memory
    <3>1. memory \in [Byte -> Element] /\ \A a \in Byte : memory[a] = Raw
      BY <1>1 DEF WithBuffer, TInv, TupleTypes, IdleIsEmpty
    <3>2. memory' = [a \in Byte |-> Raw]
      BY <1>1 DEF WithBuffer
    <3>3. memory = [a \in Byte |-> memory[a]]
      BY <3>1
    <3>4. QED BY <3>1, <3>2, <3>3
  <2>2. layout' \in Layout /\ own' = own /\ handles' = handles /\ leaked' = leaked /\ \A a \in Byte : memory[a] = Raw
    BY <1>1 DEF WithBuffer, TInv, IdleIsEmpty
  <2>3. TupleTypes' /\ IdleIsEmpty'
    BY <2>1, <2>2 DEF TInv, TupleTypes, IdleIsEmpty
  <2>4. TupleHandlesExact'
    BY <2>1, <2>2 DEF TInv, TupleHandlesExact, Held
  <2>5. QED BY <2>3, <2>4 DEF TInv
<1>2. ASSUME Return PROVE TInv'
  <2>1. TupleTypes /\ IsFiniteSet(Byte) /\ IsFiniteSet(Slot)
    BY TupleConstants DEF TInv
  <2>2. leaked' = [o \in Object |-> leaked[o] + Uses(memory, Byte, o)]
        /\ memory' = [a \in Byte |-> Raw] /\ UNCHANGED <<layout, own, handles>>
    BY <1>2 DEF Return, Held, Uses, Holders
  <2>3. ASSUME NEW o \in Object
        PROVE  handles'[o] = Uses(memory', Byte, o) + Uses(own', Slot, o) + leaked'[o]
               /\ leaked'[o] \in Int
    <3>1. Uses(memory', Byte, o) = 0
      BY <2>2, TupleConstants, NoneHolds
    <3>2. Uses(memory, Byte, o) \in Nat /\ Uses(own, Slot, o) \in Nat
      BY <2>1, UsesType
    <3>3. leaked'[o] = leaked[o] + Uses(memory, Byte, o) /\ own' = own /\ handles' = handles
      BY <2>2
    <3>4. QED BY <3>1, <3>2, <3>3, Summed
  <2>4. leaked' \in [Object -> Int] /\ memory' \in [Byte -> Element]
    BY <2>2, <2>3 DEF Element
  <2>5. TupleHandlesExact'
    BY <2>3 DEF TupleHandlesExact, Held, Uses, Holders
  <2>6. \A a \in Byte : memory'[a] = Raw
    BY <2>2
  <2>7. QED BY <2>1, <2>2, <2>4, <2>5, <2>6 DEF TInv, TupleTypes, IdleIsEmpty
<1>3. ASSUME NEW s \in Slot, NEW o \in Object, Make(s, o) PROVE TInv'
  <2>1. own[s] = Raw /\ own' = [own EXCEPT ![s] = o] /\ handles' = [handles EXCEPT ![o] = @ + 1]
        /\ UNCHANGED <<layout, memory, leaked, state>>
    BY <1>3 DEF Make
  <2>2. /\ handles' \in [Object -> Int]
        /\ \A p \in Object : handles'[p] = handles[p] + One(o, p) - One(Raw, p)
    <3>1. handles \in [Object -> Int] /\ Raw \notin Object
      BY TupleConstants DEF TInv, TupleTypes
    <3>2. QED BY <2>1, <3>1 DEF One
  <2>3. o \in Element /\ Raw \in Element
    BY DEF Element
  <2>4. QED BY <2>1, <2>2, <2>3, OwnExact
<1>4. ASSUME NEW s \in Slot, Unmake(s) PROVE TInv'
  <2>1. own[s] # Raw /\ own' = [own EXCEPT ![s] = Raw] /\ handles' = [handles EXCEPT ![own[s]] = @ - 1]
        /\ UNCHANGED <<layout, memory, leaked, state>>
    BY <1>4 DEF Unmake
  <2>2. /\ handles' \in [Object -> Int]
        /\ \A p \in Object : handles'[p] = handles[p] + One(Raw, p) - One(own[s], p)
    <3>1. handles \in [Object -> Int] /\ Raw \notin Object /\ own[s] \in Object
      BY <2>1, TupleConstants DEF TInv, TupleTypes, Element
    <3>2. QED BY <2>1, <3>1 DEF One
  <2>3. Raw \in Element
    BY DEF Element
  <2>4. QED BY <2>1, <2>2, <2>3, OwnExact
<1>5. ASSUME NEW i \in Index, NEW s \in Slot, NEW option \in Option, SetElement(i, s, option)
      PROVE  TInv'
  <2>1. i < TupleCount /\ i \in Nat /\ layout \in Layout
    BY <1>5 DEF SetElement, Admits, TInv, TupleTypes
  <2>2. OffsetOf(i) \in Byte
    BY <2>1, ElementsHaveBytes DEF OffsetOf
  <2> DEFINE a == OffsetOf(i)
             u == Update(memory[a], own[s], option)
  <2>3. InBuffer
    BY <1>5 DEF SetElement
  <2>4. CASE Sound(memory[a], own[s], SlotType[s], option)
    <3>1. /\ memory' = [memory EXCEPT ![a] = u.dst] /\ own' = [own EXCEPT ![s] = u.src]
          /\ handles' = u.handles /\ leaked' = u.leaked /\ UNCHANGED <<layout, state>>
      BY <1>5, <2>4 DEF SetElement
    <3>2. own[s] # Raw
      BY <2>4 DEF Sound, Holds
    <3> HIDE DEF a
    <3>3. QED BY <2>2, <2>3, <3>1, <3>2, UpdateExact DEF a
  <2>5. CASE ~Sound(memory[a], own[s], SlotType[s], option)
    BY <1>5, <2>5, EndsExact DEF SetElement
  <2>6. QED BY <2>4, <2>5
<1>6. ASSUME NEW i \in Index, NEW s \in Slot, NEW option \in Option, GetElement(i, s, option)
      PROVE  TInv'
  <2>1. i < TupleCount /\ i \in Nat /\ layout \in Layout
    BY <1>6 DEF GetElement, Admits, TInv, TupleTypes
  <2>2. OffsetOf(i) \in Byte
    BY <2>1, ElementsHaveBytes DEF OffsetOf
  <2> DEFINE a == OffsetOf(i)
             u == Update(own[s], memory[a], option)
  <2>3. InBuffer
    BY <1>6 DEF GetElement
  <2>4. CASE Sound(own[s], memory[a], SlotType[s], option)
    <3>1. /\ own' = [own EXCEPT ![s] = u.dst] /\ memory' = [memory EXCEPT ![a] = u.src]
          /\ handles' = u.handles /\ leaked' = u.leaked /\ UNCHANGED <<layout, state>>
      BY <1>6, <2>4 DEF GetElement
    <3>2. memory[a] # Raw
      BY <2>4 DEF Sound, Holds
    <3> HIDE DEF a
    <3>3. QED BY <2>2, <2>3, <3>1, <3>2, UpdateExact DEF a
  <2>5. CASE ~Sound(own[s], memory[a], SlotType[s], option)
    BY <1>6, <2>5, EndsExact DEF GetElement
  <2>6. QED BY <2>4, <2>5
<1>7. ASSUME NEW i \in Index, NEW s \in Slot, FailedAccess(i, s) PROVE TInv'
  BY <1>7, EndsExact DEF FailedAccess
<1>8. ASSUME Destroy, \A i \in DOMAIN layout.type : Initialised(i) PROVE TInv'
  <2>1. TupleTypes /\ IsFiniteSet(Byte) /\ IsFiniteSet(Slot)
    BY TupleConstants DEF TInv
  <2>2. handles' = [o \in Object |-> handles[o] - Uses(memory, Byte, o)]
        /\ memory' = [a \in Byte |-> Raw] /\ UNCHANGED <<layout, own, leaked, state>>
    BY <1>8 DEF Destroy, Held, Uses, Holders
  <2>3. ASSUME NEW o \in Object
        PROVE  handles'[o] = Uses(memory', Byte, o) + Uses(own', Slot, o) + leaked'[o] /\ handles'[o] \in Int
    <3>1. Uses(memory', Byte, o) = 0
      BY <2>2, TupleConstants, NoneHolds
    <3>2. Uses(memory, Byte, o) \in Nat /\ Uses(own, Slot, o) \in Nat
      BY <2>1, UsesType
    <3>3. handles'[o] = handles[o] - Uses(memory, Byte, o) /\ own' = own /\ leaked' = leaked
      BY <2>2
    <3>4. QED BY <3>1, <3>2, <3>3, Summed
  <2>4. handles' \in [Object -> Int] /\ memory' \in [Byte -> Element]
    BY <2>2, <2>3 DEF Element
  <2>5. TupleHandlesExact'
    BY <2>3 DEF TupleHandlesExact, Held, Uses, Holders
  <2>6. QED BY <2>1, <2>2, <2>4, <2>5 DEF TInv, TupleTypes, IdleIsEmpty
<1>13. ASSUME Destroy, ~(\A i \in DOMAIN layout.type : Initialised(i)) PROVE TInv'
  BY <1>13, EndsExact DEF Destroy
<1>9. ASSUME NEW i \in Index, DestroyElement(i) PROVE TInv'
  <2>1. i < TupleCount /\ i \in Nat /\ layout \in Layout /\ InBuffer
    BY <1>9 DEF DestroyElement, TInv, TupleTypes
  <2>2. i \in Byte
    BY <2>1, ElementsHaveBytes
  <2>3. CASE layout.tuple /\ Holds(memory[i], layout.type[i])
    <3>1. /\ memory' = [memory EXCEPT ![i] = Raw] /\ handles' = [handles EXCEPT ![memory[i]] = @ - 1]
          /\ UNCHANGED <<layout, own, leaked, state>>
      BY <1>9, <2>3 DEF DestroyElement, DestroyedAt
    <3>2. memory[i] # Raw
      BY <2>3 DEF Holds
    <3>3. QED BY <2>1, <2>2, <3>1, <3>2, MemoryExact
  <2>4. CASE ~(layout.tuple /\ Holds(memory[i], layout.type[i]))
    BY <1>9, <2>4, EndsExact DEF DestroyElement, DestroyedAt
  <2>5. QED BY <2>3, <2>4
<1>10. ASSUME NEW i \in Index, FailedDestroy(i) PROVE TInv'
  BY <1>10, EndsExact DEF FailedDestroy
<1>11. CASE UNCHANGED tupleVars
  BY <1>11 DEF tupleVars, TInv, TupleTypes, IdleIsEmpty, TupleHandlesExact, Held
<1>12. QED BY <1>1, <1>2, <1>3, <1>4, <1>5, <1>6, <1>7, <1>8, <1>9, <1>10, <1>11, <1>13 DEF TupleNext

LEMMA TupleStart == ASSUME TupleInit PROVE TInv
<1>1. TupleTypes /\ IdleIsEmpty
  BY DEF TupleInit, TupleTypes, IdleIsEmpty, Element
<1>2. ASSUME NEW o \in Object
      PROVE  handles[o] = Uses(memory, Byte, o) + Uses(own, Slot, o) + leaked[o]
  <2>1. Uses(memory, Byte, o) = 0 /\ Uses(own, Slot, o) = 0
    BY TupleConstants, NoneHolds DEF TupleInit
  <2>2. QED BY <2>1 DEF TupleInit
<1>3. QED BY <1>1, <1>2 DEF TInv, TupleHandlesExact, Held, Uses, Holders

\* The handles on an object are the elements there are, in tuples of any layout
\* and with the client, and those that the client lost, whatever options it
\* chooses for whatever elements, those of no tuple and of misfit options included.
THEOREM TupleHandlesRight == TupleSpec => []TupleHandlesExact
<1>1. TInv => TupleHandlesExact
  BY DEF TInv
<1>2. QED BY <1>1, TupleStart, TupleStep, PTL DEF TupleSpec
=============================================================================
