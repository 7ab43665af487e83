---------------------------- MODULE CommonLemmas ----------------------------
(***************************************************************************)
(* Facts that the proofs of several components need: induction over the    *)
(* naturals, for a set that is closed under successor; the existence of    *)
(* what a recursive function over the naturals computes; and how the       *)
(* number of places that hold something changes with one of the places.    *)
(***************************************************************************)
EXTENDS Integers, FiniteSets, FiniteSetTheorems, WellFoundedInduction, TLAPS

-----------------------------------------------------------------------------
(* Induction.                                                              *)

\* Every inhabited set of numbers has a least one.
LEMMA LeastExists ==
  ASSUME NEW S \in SUBSET Nat, S # {}
  PROVE  \E n \in S : \A m \in S : n <= m
<1> DEFINE UpTo(n) == {m \in S : m <= n}
           Bounded == {UpTo(n) : n \in S}
<1>1. /\ \A m \in S : m \in Nat
      /\ \A n : \A x : x \in UpTo(n) <=> x \in S /\ x <= n
  OBVIOUS
<1> HIDE DEF UpTo
<1>2. IsWellFoundedOn(StrictSubsetOrdering(Nat), FiniteSubsetsOf(Nat))
  BY FS_StrictSubsetOrderingWellFounded
<1>3. ASSUME NEW n \in S PROVE UpTo(n) \in FiniteSubsetsOf(Nat)
  <2>1. n \in Nat /\ UpTo(n) \subseteq Nat
    BY <1>1
  <2>2. UpTo(n) \subseteq 0 .. n
    BY <1>1, <2>1
  <2>3. IsFiniteSet(0 .. n)
    BY <2>1, FS_Interval
  <2>4. IsFiniteSet(UpTo(n))
    BY <2>2, <2>3, FS_Subset
  <2>5. QED BY <2>1, <2>4 DEF FiniteSubsetsOf
<1>4. Bounded \subseteq FiniteSubsetsOf(Nat) /\ Bounded # {}
  BY <1>3
<1>5. PICK U \in Bounded : \A V \in Bounded : ~(<<V, U>> \in StrictSubsetOrdering(Nat))
  <2> HIDE DEF Bounded
  <2>1. QED BY <1>2, <1>4, WFMin
<1>6. PICK n \in S : U = UpTo(n)
  BY <1>5
<1>7. ASSUME NEW m \in S, ~(n <= m)
      PROVE  FALSE
  <2>1. n \in Nat /\ m \in Nat
    BY <1>1
  <2>2. m <= n /\ n <= n /\ \A x \in Nat : x <= m => x <= n
    BY <1>7, <2>1
  <2>3. UpTo(m) \subseteq UpTo(n)
    BY <1>1, <2>2
  <2>4. n \in UpTo(n) /\ n \notin UpTo(m)
    BY <1>1, <1>7, <2>2
  <2>5. UpTo(n) \in SUBSET Nat /\ UpTo(m) \in SUBSET Nat
    BY <1>1
  <2>6. <<UpTo(m), UpTo(n)>> \in StrictSubsetOrdering(Nat)
    BY <2>3, <2>4, <2>5 DEF StrictSubsetOrdering
  <2>7. QED BY <1>5, <1>6, <2>6
<1>8. QED BY <1>7

\* Induction over the naturals.
LEMMA InductionOn ==
  ASSUME NEW S, 0 \in S, \A n \in Nat : n \in S => n + 1 \in S
  PROVE  Nat \subseteq S
<1> DEFINE Missing == {n \in Nat : n \notin S}
<1>1. SUFFICES ASSUME Missing # {} PROVE FALSE
  OBVIOUS
<1>2. PICK n \in Missing : \A m \in Missing : n <= m
  BY <1>1, LeastExists
<1>3. n \in Nat /\ n # 0 /\ n \notin S
  OBVIOUS
<1>4. n - 1 \in Nat /\ n - 1 \notin Missing
  BY <1>2, <1>3
<1>5. n - 1 \in S /\ (n - 1) + 1 = n
  BY <1>4, <1>3
<1>6. QED BY <1>3, <1>4, <1>5

-----------------------------------------------------------------------------
(* Iteration of a function, which is what a recursive function over the    *)
(* naturals is in the models.                                              *)

\* g has the first n iterates of F from s.
Iterates(g, F, s, n) ==
  g[0] = s /\ \A i \in 0..(n - 1) : g[i + 1] = F[g[i]]

LEMMA IteratesUnique ==
  ASSUME NEW S, NEW F \in [S -> S], NEW s \in S, NEW n \in Nat, NEW m \in Nat,
         NEW g, NEW h, Iterates(g, F, s, n), Iterates(h, F, s, m)
  PROVE  \A i \in Nat : i <= n /\ i <= m => g[i] = h[i]
<1> DEFINE Same == {i \in Nat : i <= n /\ i <= m => g[i] = h[i]}
<1>1. 0 \in Same
  BY DEF Iterates
<1>2. ASSUME NEW i \in Nat, i \in Same PROVE i + 1 \in Same
  <2>1. CASE i + 1 <= n /\ i + 1 <= m
    <3>1. i \in 0..(n - 1) /\ i \in 0..(m - 1) /\ g[i] = h[i]
      BY <1>2, <2>1
    <3>2. g[i + 1] = F[g[i]] /\ h[i + 1] = F[h[i]]
      BY <3>1 DEF Iterates
    <3>3. QED BY <3>1, <3>2
  <2>2. QED BY <2>1
<1> HIDE DEF Same
<1>3. Nat \subseteq Same
  BY <1>1, <1>2, InductionOn
<1>4. QED BY <1>3 DEF Same

HasIteration(S, F, s) ==
  \E g \in [Nat -> S] : g[0] = s /\ \A n \in Nat : g[n + 1] = F[g[n]]

LEMMA IterationExists ==
  ASSUME NEW S, NEW F \in [S -> S], NEW s \in S
  PROVE  HasIteration(S, F, s)
<1> DEFINE Begins(n) == {g \in [0..n -> S] : Iterates(g, F, s, n)}
           Good == {n \in Nat : Begins(n) # {}}
<1>1. 0 \in Good
  <2>1. [i \in 0..0 |-> s] \in [0..0 -> S] /\ Iterates([i \in 0..0 |-> s], F, s, 0)
    BY DEF Iterates
  <2>2. QED BY <2>1
<1>2. ASSUME NEW n \in Nat, n \in Good PROVE n + 1 \in Good
  <2>1. PICK g \in [0..n -> S] : Iterates(g, F, s, n)
    BY <1>2
  <2> DEFINE h == [i \in 0..(n + 1) |-> IF i <= n THEN g[i] ELSE F[g[n]]]
  <2>2. \A i \in 0..n : g[i] \in S
    BY <2>1
  <2>3. F[g[n]] \in S
    BY <2>2
  <2>4. h \in [0..(n + 1) -> S]
    BY <2>2, <2>3
  <2>5. h[0] = s
    BY <2>1 DEF Iterates
  <2>6. ASSUME NEW i \in 0..((n + 1) - 1) PROVE h[i + 1] = F[h[i]]
    <3>1. CASE i = n
      BY <3>1
    <3>2. CASE i # n
      <4>1. i \in 0..(n - 1) /\ i + 1 \in 0..(n + 1) /\ i + 1 <= n
        BY <3>2
      <4>2. g[i + 1] = F[g[i]]
        BY <2>1, <4>1 DEF Iterates
      <4>3. QED BY <4>1, <4>2
    <3>3. QED BY <3>1, <3>2
  <2>7. Iterates(h, F, s, n + 1)
    BY <2>5, <2>6 DEF Iterates
  <2> HIDE DEF h
  <2>8. QED BY <2>4, <2>7
<1>3. Nat \subseteq Good
  <2> HIDE DEF Good
  <2>1. QED BY <1>1, <1>2, InductionOn
<1> DEFINE First(n) == CHOOSE g : g \in Begins(n)
           G == [n \in Nat |-> First(n)[n]]
<1>4. \A n \in Nat : First(n) \in Begins(n)
  BY <1>3
<1> HIDE DEF First
<1>5. \A n \in Nat : First(n) \in [0..n -> S] /\ Iterates(First(n), F, s, n)
  BY <1>4
<1>6. G \in [Nat -> S]
  BY <1>5
<1>7. G[0] = s
  BY <1>5 DEF Iterates
<1>8. ASSUME NEW n \in Nat PROVE G[n + 1] = F[G[n]]
  <2>1. First(n)[n] = First(n + 1)[n]
    <3>1. Iterates(First(n), F, s, n) /\ Iterates(First(n + 1), F, s, n + 1) /\ n + 1 \in Nat
      BY <1>5
    <3>2. \A i \in Nat : i <= n /\ i <= n + 1 => First(n)[i] = First(n + 1)[i]
      BY <3>1, IteratesUnique
    <3>3. QED BY <3>2
  <2>2. n \in 0..((n + 1) - 1) /\ n + 1 \in Nat
    OBVIOUS
  <2>3. First(n + 1)[n + 1] = F[First(n + 1)[n]]
    BY <1>5, <2>2 DEF Iterates
  <2>4. QED BY <2>1, <2>2, <2>3
<1>9. QED BY <1>6, <1>7, <1>8 DEF HasIteration

-----------------------------------------------------------------------------
(* How many places of S hold o.                                            *)

Holders(f, S, o) == {x \in S : f[x] = o}
Uses(f, S, o) == Cardinality(Holders(f, S, o))
One(x, y) == IF x = y THEN 1 ELSE 0

LEMMA Toggle ==
  ASSUME NEW S, NEW T, NEW x, IsFiniteSet(S), T \ {x} = S \ {x}
  PROVE  /\ Cardinality(S) \in Nat /\ Cardinality(T) \in Nat
         /\ Cardinality(T) = Cardinality(S) + (IF x \in T THEN 1 ELSE 0)
                                            - (IF x \in S THEN 1 ELSE 0)
<1>1. IsFiniteSet(S \ {x})
  BY FS_RemoveElement
<1>2. T = S \ {x} \/ T = (S \ {x}) \cup {x}
  OBVIOUS
<1>3. IsFiniteSet(T)
  BY <1>1, <1>2, FS_AddElement
<1>4. Cardinality(S) \in Nat /\ Cardinality(T) \in Nat
  BY <1>3, FS_CardinalityType
<1>5. Cardinality(S \ {x}) = IF x \in S THEN Cardinality(S) - 1 ELSE Cardinality(S)
  BY FS_RemoveElement
<1>6. Cardinality(T \ {x}) = IF x \in T THEN Cardinality(T) - 1 ELSE Cardinality(T)
  BY <1>3, FS_RemoveElement
<1>7. QED BY <1>4, <1>5, <1>6

LEMMA UsesType ==
  ASSUME NEW S, IsFiniteSet(S), NEW f, NEW o
  PROVE  IsFiniteSet(Holders(f, S, o)) /\ Uses(f, S, o) \in Nat
<1>1. Holders(f, S, o) \in SUBSET S
  BY DEF Holders
<1>2. IsFiniteSet(Holders(f, S, o))
  BY <1>1, FS_Subset
<1>3. QED BY <1>2, FS_CardinalityType DEF Uses

\* g is f but for what it has at a.
SameBut(f, g, S, a) == \A x \in S : x # a => g[x] = f[x]

LEMMA OneChanged ==
  ASSUME NEW S, IsFiniteSet(S), NEW f, NEW g, NEW a \in S, NEW o, SameBut(f, g, S, a)
  PROVE  Uses(g, S, o) = Uses(f, S, o) + One(g[a], o) - One(f[a], o)
<1>1. Holders(g, S, o) \ {a} = Holders(f, S, o) \ {a}
  BY DEF Holders, SameBut
<1>2. IsFiniteSet(Holders(f, S, o))
  BY UsesType
<1>3. (a \in Holders(f, S, o) <=> f[a] = o) /\ (a \in Holders(g, S, o) <=> g[a] = o)
  BY DEF Holders
<1>4. /\ Uses(f, S, o) \in Nat /\ Uses(g, S, o) \in Nat
      /\ Uses(g, S, o) = Uses(f, S, o) + (IF a \in Holders(g, S, o) THEN 1 ELSE 0)
                                       - (IF a \in Holders(f, S, o) THEN 1 ELSE 0)
  BY <1>1, <1>2, Toggle DEF Uses
<1>5. QED BY <1>3, <1>4 DEF One

LEMMA NoneHolds ==
  ASSUME NEW S, NEW f, NEW o, \A x \in S : f[x] # o
  PROVE  Uses(f, S, o) = 0
<1>1. Holders(f, S, o) = {}
  BY DEF Holders
<1>2. QED BY <1>1, FS_EmptySet DEF Uses

LEMMA SomeHolds ==
  ASSUME NEW S, IsFiniteSet(S), NEW f, NEW a \in S
  PROVE  Uses(f, S, f[a]) \in Nat /\ Uses(f, S, f[a]) >= 1
<1>1. Holders(f, S, f[a]) # {} /\ IsFiniteSet(Holders(f, S, f[a])) /\ Uses(f, S, f[a]) \in Nat
  BY UsesType DEF Holders
<1>2. Uses(f, S, f[a]) # 0
  BY <1>1, FS_EmptySet DEF Uses
<1>3. QED BY <1>1, <1>2

\* Of numbered places, the first n of m, and the rest of them.
LEMMA UsesSplit ==
  ASSUME NEW f, NEW m \in Nat, NEW n \in 0..m, NEW v
  PROVE  /\ Uses(f, 0..(m - 1), v) \in Nat /\ Uses(f, 0..(n - 1), v) \in Nat
         /\ Uses(f, n..(m - 1), v) \in Nat
         /\ Uses(f, 0..(m - 1), v) = Uses(f, 0..(n - 1), v) + Uses(f, n..(m - 1), v)
<1>1. IsFiniteSet(0..(m - 1)) /\ IsFiniteSet(0..(n - 1)) /\ IsFiniteSet(n..(m - 1))
  BY FS_Interval
<1> DEFINE A == Holders(f, 0..(n - 1), v)
           B == Holders(f, n..(m - 1), v)
<1>2. IsFiniteSet(A) /\ IsFiniteSet(B)
  BY <1>1, UsesType
<1>3. A \cup B = Holders(f, 0..(m - 1), v) /\ A \cap B = {}
  BY DEF Holders
<1> HIDE DEF A, B
<1>4. Cardinality(A \cup B) = Cardinality(A) + Cardinality(B) - Cardinality(A \cap B)
  BY <1>2, FS_Union
<1>5. Cardinality(A \cap B) = 0 /\ Cardinality(A) \in Nat /\ Cardinality(B) \in Nat
  BY <1>2, <1>3, FS_EmptySet, FS_CardinalityType
<1>6. /\ Cardinality(A \cup B) = Uses(f, 0..(m - 1), v)
      /\ Cardinality(A) = Uses(f, 0..(n - 1), v) /\ Cardinality(B) = Uses(f, n..(m - 1), v)
  BY <1>3 DEF A, B, Uses
<1>7. QED BY <1>4, <1>5, <1>6

LEMMA UsesPushed ==
  ASSUME NEW f, NEW m \in Nat, NEW v
  PROVE  /\ Uses(f, 0..m, v) = Uses(f, 0..(m - 1), v) + Uses(f, m..m, v)
         /\ Uses(f, 0..(m - 1), v) \in Nat
<1> DEFINE k == m + 1
<1>1. k \in Nat /\ m \in 0..k
  OBVIOUS
<1>4. k - 1 = m
  OBVIOUS
<1> HIDE DEF k
<1>2. Uses(f, 0..(k - 1), v) = Uses(f, 0..(m - 1), v) + Uses(f, m..(k - 1), v)
  BY <1>1, UsesSplit
<1>3. Uses(f, 0..(m - 1), v) \in Nat
  BY FS_Interval, UsesType
<1>5. QED BY <1>2, <1>3, <1>4

SameOn(f, g, S) == \A i \in S : g[i] = f[i]

LEMMA SameUses ==
  ASSUME NEW f, NEW g, NEW S, NEW v, SameOn(f, g, S)
  PROVE  Uses(g, S, v) = Uses(f, S, v)
<1>1. Holders(g, S, v) = Holders(f, S, v)
  BY DEF Holders, SameOn
<1>2. QED BY <1>1 DEF Uses

LEMMA TakenApart ==
  ASSUME NEW S, IsFiniteSet(S), NEW f, NEW a \in S, NEW o
  PROVE  Uses(f, S, o) = Uses(f, S \ {a}, o) + One(f[a], o)
<1>1. IsFiniteSet(S \ {a})
  BY FS_RemoveElement
<1>2. IsFiniteSet(Holders(f, S \ {a}, o))
  BY <1>1, UsesType
<1>3. Holders(f, S, o) \ {a} = Holders(f, S \ {a}, o) \ {a}
  BY DEF Holders
<1>4. (a \in Holders(f, S, o) <=> f[a] = o) /\ a \notin Holders(f, S \ {a}, o)
  BY DEF Holders
<1>5. /\ Uses(f, S \ {a}, o) \in Nat /\ Uses(f, S, o) \in Nat
      /\ Uses(f, S, o) = Uses(f, S \ {a}, o)
                           + (IF a \in Holders(f, S, o) THEN 1 ELSE 0)
                           - (IF a \in Holders(f, S \ {a}, o) THEN 1 ELSE 0)
  BY <1>2, <1>3, Toggle DEF Uses
<1>6. QED BY <1>4, <1>5 DEF One
=============================================================================
