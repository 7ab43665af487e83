----------------------- MODULE CurrentSubgraphProofs -----------------------
(***************************************************************************)
(* However many threads share subgraphs, set them current and nest         *)
(* applies: each count is the number of pointers that own a reference,     *)
(* nothing that a thread names is freed, and an apply restores what its    *)
(* caller had.                                                             *)
(***************************************************************************)
EXTENDS CurrentSubgraph, FiniteSetTheorems, FunctionTheorems, SequenceTheorems, TLAPS

\* The call under way of a thread.  Until the CFRetain the new subgraph is
\* kept by the client's variable, or by the local of the apply that ends.
CallOK(t) ==
  /\ call[t].step \in {"retain", "release"} => call[t].new = current[t]
  /\ call[t].step \notin {"retain", "release"} => call[t].new = None
  /\ call[t].step = "return" => call[t].leaves
  /\ call[t].leaves => applies[t] # <<>> /\ current[t] = Inner(t).current
  /\ call[t].step = "retain" /\ ~call[t].leaves => current[t] \in held[t] \cup {None}

\* The caller of an apply keeps the subgraph, and had current what it restores.
AppliesOK(t) ==
  /\ Len(applies[t]) <= MaxApplies
  /\ \A i \in 1..Len(applies[t]) :
       applies[t][i].self \in held[t] /\ applies[t][i].entry = applies[t][i].current

SInv ==
  /\ TypeOK /\ RefsExact
  /\ \A t \in Thread : CallOK(t) /\ AppliesOK(t)

-----------------------------------------------------------------------------
(* Counting.                                                               *)

LEMMA Toggle ==
  ASSUME NEW S, NEW T, NEW x, IsFiniteSet(S), T \ {x} = S \ {x}
  PROVE  /\ Cardinality(S) \in Nat /\ Cardinality(T) \in Nat
         /\ Cardinality(T) = Cardinality(S) + (IF x \in T THEN 1 ELSE 0)
                                            - (IF x \in S THEN 1 ELSE 0)
<1>1. IsFiniteSet(S \ {x})
  BY FS_RemoveElement
<1>2. T = S \ {x} \/ T = (S \ {x}) \cup {x}
  OBVIOUS
<1>3. IsFiniteSet(T)
  BY <1>1, <1>2, FS_AddElement
<1>4. Cardinality(S) \in Nat /\ Cardinality(T) \in Nat
  BY <1>3, FS_CardinalityType
<1>5. Cardinality(S \ {x}) = IF x \in S THEN Cardinality(S) - 1 ELSE Cardinality(S)
  BY FS_RemoveElement
<1>6. Cardinality(T \ {x}) = IF x \in T THEN Cardinality(T) - 1 ELSE Cardinality(T)
  BY <1>3, FS_RemoveElement
<1>7. QED BY <1>4, <1>5, <1>6

LEMMA Finite ==
  ASSUME CurrentConstants, TypeOK, NEW s
  PROVE  /\ IsFiniteSet(CurrentOwners(s)) /\ IsFiniteSet(OldOwners(s))
         /\ IsFiniteSet(HeldOwners(s)) /\ IsFiniteSet(LocalOwners(s))
         /\ IsFiniteSet(OrphanOwners(s)) /\ IsFiniteSet(Locals)
<1>1. IsFiniteSet(Thread)
  BY DEF CurrentConstants
<1>2. IsFiniteSet(1..MaxApplies)
  BY FS_Interval DEF CurrentConstants
<1>3. IsFiniteSet(Thread \X (1..MaxApplies))
  BY <1>1, <1>2, FS_Product
<1>4. IsFiniteSet(Locals) /\ IsFiniteSet(LocalOwners(s))
  <2>1. Locals \subseteq Thread \X (1..MaxApplies) /\ LocalOwners(s) \subseteq Thread \X (1..MaxApplies)
    BY DEF Locals, LocalOwners
  <2>2. QED BY <1>3, <2>1, FS_Subset
<1>5. IsFiniteSet(OrphanOwners(s))
  <2>1. Len(orphans) \in Nat /\ DOMAIN orphans = 1..Len(orphans)
    BY DEF TypeOK
  <2>2. OrphanOwners(s) \subseteq 1..Len(orphans)
    BY <2>1 DEF OrphanOwners
  <2>3. IsFiniteSet(1..Len(orphans))
    <3> DEFINE n == Len(orphans)
    <3>1. n \in Int
      BY <2>1
    <3> HIDE DEF n
    <3>2. IsFiniteSet(1..n)
      BY <3>1, FS_Interval
    <3>3. QED BY <3>2 DEF n
  <2>4. QED BY <2>2, <2>3, FS_Subset
<1>6. /\ CurrentOwners(s) \subseteq Thread /\ OldOwners(s) \subseteq Thread
      /\ HeldOwners(s) \subseteq Thread
  BY DEF CurrentOwners, OldOwners, HeldOwners
<1>7. QED BY <1>1, <1>4, <1>5, <1>6, FS_Subset

\* How many of each kind.
Currents(s) == Cardinality(CurrentOwners(s))
Olds(s) == Cardinality(OldOwners(s))
Helds(s) == Cardinality(HeldOwners(s))
InLocals(s) == Cardinality(LocalOwners(s))
Orphans(s) == Cardinality(OrphanOwners(s))

LEMMA Numbers ==
  ASSUME CurrentConstants, TypeOK, NEW s
  PROVE  /\ Currents(s) \in Nat /\ Olds(s) \in Nat /\ Helds(s) \in Nat
         /\ InLocals(s) \in Nat /\ Orphans(s) \in Nat
         /\ Owners(s) = Currents(s) + Olds(s) + Helds(s) + InLocals(s) + Orphans(s)
  BY Finite, FS_CardinalityType DEF Currents, Olds, Helds, InLocals, Orphans, Owners

OwnsCurrent(t, s) ==
  IF call[t].step = "retain" THEN call[t].old = s ELSE current[t] = s
OwnsOld(t, s) == call[t].step = "release" /\ call[t].old = s

\* One thread's call goes on.
LEMMA PointersMove ==
  ASSUME CurrentConstants, TypeOK, NEW s, NEW t \in Thread,
         \A u \in Thread \ {t} : call'[u] = call[u] /\ current'[u] = current[u]
  PROVE  /\ Currents(s)' = Currents(s) + (IF OwnsCurrent(t, s)' THEN 1 ELSE 0)
                                       - (IF OwnsCurrent(t, s) THEN 1 ELSE 0)
         /\ Olds(s)' = Olds(s) + (IF OwnsOld(t, s)' THEN 1 ELSE 0)
                               - (IF OwnsOld(t, s) THEN 1 ELSE 0)
<1> DEFINE C == CurrentOwners(s)
           D == CurrentOwners(s)'
           O == OldOwners(s)
           P == OldOwners(s)'
<1>1. D \ {t} = C \ {t} /\ P \ {t} = O \ {t}
  BY DEF CurrentOwners, OldOwners
<1>2. (t \in C <=> OwnsCurrent(t, s)) /\ (t \in D <=> OwnsCurrent(t, s)')
  BY DEF CurrentOwners, OwnsCurrent
<1>3. (t \in O <=> OwnsOld(t, s)) /\ (t \in P <=> OwnsOld(t, s)')
  BY DEF OldOwners, OwnsOld
<1>4. IsFiniteSet(C) /\ IsFiniteSet(O)
  BY Finite
<1>5. Cardinality(D) = Cardinality(C) + (IF t \in D THEN 1 ELSE 0) - (IF t \in C THEN 1 ELSE 0)
  BY <1>1, <1>4, Toggle
<1>6. Cardinality(P) = Cardinality(O) + (IF t \in P THEN 1 ELSE 0) - (IF t \in O THEN 1 ELSE 0)
  BY <1>1, <1>4, Toggle
<1>7. QED BY <1>2, <1>3, <1>5, <1>6 DEF Currents, Olds

\* One thread's client variables change.
LEMMA VariablesChange ==
  ASSUME CurrentConstants, TypeOK, NEW s, NEW u \in Thread,
         \A w \in Thread \ {u} : held'[w] = held[w]
  PROVE  Helds(s)' = Helds(s) + (IF s \in held'[u] THEN 1 ELSE 0)
                              - (IF s \in held[u] THEN 1 ELSE 0)
<1> DEFINE H == HeldOwners(s)
           J == HeldOwners(s)'
<1>1. J \ {u} = H \ {u} /\ (u \in H <=> s \in held[u]) /\ (u \in J <=> s \in held'[u])
  BY DEF HeldOwners
<1>2. IsFiniteSet(H)
  BY Finite
<1>3. Cardinality(J) = Cardinality(H) + (IF u \in J THEN 1 ELSE 0) - (IF u \in H THEN 1 ELSE 0)
  BY <1>1, <1>2, Toggle
<1>4. QED BY <1>1, <1>3 DEF Helds

LEMMA Pushed ==
  ASSUME NEW S, NEW q \in Seq(S), NEW e \in S
  PROVE  /\ Append(q, e) \in Seq(S) /\ Len(q) \in Nat /\ Len(Append(q, e)) = Len(q) + 1
         /\ \A i \in 1..Len(q) : Append(q, e)[i] = q[i]
         /\ Append(q, e)[Len(q) + 1] = e
  OBVIOUS

LEMMA Popped ==
  ASSUME NEW S, NEW q \in Seq(S), q # <<>>
  PROVE  /\ Front(q) \in Seq(S) /\ Len(q) \in Nat /\ Len(q) > 0
         /\ Len(Front(q)) = Len(q) - 1
         /\ \A i \in 1..(Len(q) - 1) : Front(q)[i] = q[i]
         /\ Last(q) = q[Len(q)] /\ Last(q) \in S
<1>1. Len(q) \in Nat /\ Len(q) > 0 /\ \A i \in 1..Len(q) : q[i] \in S
  OBVIOUS
<1> DEFINE n == Len(q) - 1
           p == SubSeq(q, 1, n)
<1>2. n \in Int /\ n >= 0 /\ \A i \in 1..n : q[i] \in S
  BY <1>1
<1>3. /\ p \in Seq(S) /\ Len(p) = IF 1 <= n THEN n - 1 + 1 ELSE 0
      /\ \A i \in 1..(n - 1 + 1) : p[i] = q[1 + i - 1]
  <2> HIDE DEF n
  <2>1. QED BY <1>2, SubSeqProperties
<1>4. Front(q) = p
  BY DEF Front
<1> HIDE DEF p
<1>5. QED BY <1>1, <1>2, <1>3, <1>4 DEF Last

\* A local is pushed, or popped.
LEMMA LocalPushed ==
  ASSUME CurrentConstants, TypeOK, NEW s, NEW t \in Thread, NEW a \in Apply,
         Len(applies[t]) < MaxApplies,
         applies' = [applies EXCEPT ![t] = Append(@, a)]
  PROVE  InLocals(s)' = InLocals(s) + (IF a.current = s THEN 1 ELSE 0)
<1> DEFINE n == Len(applies[t]) + 1
           f == <<t, n>>
           A == LocalOwners(s)
           B == LocalOwners(s)'
<1>1. /\ applies'[t] = Append(applies[t], a) /\ applies[t] \in Seq(Apply)
      /\ \A u \in Thread \ {t} : applies'[u] = applies[u]
  BY DEF TypeOK
<1>2. /\ n \in 1..MaxApplies /\ Len(applies'[t]) = n /\ Len(applies[t]) = n - 1
      /\ \A i \in 1..(n - 1) : applies'[t][i] = applies[t][i]
      /\ applies'[t][n] = a
  BY <1>1, Pushed DEF CurrentConstants
<1> HIDE DEF n
<1>3. \A u \in Thread, i \in 1..MaxApplies :
        /\ <<u, i>> \in A <=> i <= Len(applies[u]) /\ applies[u][i].current = s
        /\ <<u, i>> \in B <=> i <= Len(applies'[u]) /\ applies'[u][i].current = s
  BY DEF LocalOwners, Locals
<1>4. \A u \in Thread, i \in 1..MaxApplies : <<u, i>> # f => (<<u, i>> \in A <=> <<u, i>> \in B)
  <2> SUFFICES ASSUME NEW u \in Thread, NEW i \in 1..MaxApplies, <<u, i>> # f
               PROVE  <<u, i>> \in A <=> <<u, i>> \in B
    OBVIOUS
  <2>1. CASE u # t
    BY <1>1, <1>3, <2>1
  <2>2. CASE u = t
    <3>1. i # n
      BY <2>2
    <3>2. (i <= n <=> i <= n - 1) /\ (i <= n - 1 => i \in 1..(n - 1))
      BY <1>2, <3>1
    <3>3. QED BY <1>2, <1>3, <2>2, <3>2
  <2>3. QED BY <2>1, <2>2
<1>5. A \subseteq Thread \X (1..MaxApplies) /\ B \subseteq Thread \X (1..MaxApplies)
  BY DEF LocalOwners, Locals
<1>6. f \notin A /\ (f \in B <=> a.current = s)
  BY <1>2, <1>3
<1>7. B \ {f} = A \ {f}
  <2> HIDE DEF A, B, f
  <2>1. QED BY <1>4, <1>5
<1>8. IsFiniteSet(A)
  BY Finite
<1>9. Cardinality(A) \in Nat
      /\ Cardinality(B) = Cardinality(A) + (IF f \in B THEN 1 ELSE 0) - (IF f \in A THEN 1 ELSE 0)
  <2> HIDE DEF A, B, f
  <2>1. QED BY <1>7, <1>8, Toggle
<1>10. QED BY <1>6, <1>9 DEF InLocals

LEMMA LocalPopped ==
  ASSUME CurrentConstants, TypeOK, NEW s, NEW t \in Thread, applies[t] # <<>>,
         Len(applies[t]) <= MaxApplies,
         applies' = [applies EXCEPT ![t] = Front(@)]
  PROVE  InLocals(s)' = InLocals(s) - (IF Inner(t).current = s THEN 1 ELSE 0)
<1> DEFINE n == Len(applies[t])
           f == <<t, n>>
           A == LocalOwners(s)
           B == LocalOwners(s)'
<1>1. /\ applies'[t] = Front(applies[t]) /\ applies[t] \in Seq(Apply)
      /\ \A u \in Thread \ {t} : applies'[u] = applies[u]
  BY DEF TypeOK
<1>2. /\ n \in 1..MaxApplies /\ Len(applies'[t]) = n - 1 /\ Len(applies[t]) = n
      /\ \A i \in 1..(n - 1) : applies'[t][i] = applies[t][i]
      /\ Inner(t) = applies[t][n]
  BY <1>1, Popped DEF CurrentConstants, Inner
<1> HIDE DEF n
<1>3. \A u \in Thread, i \in 1..MaxApplies :
        /\ <<u, i>> \in A <=> i <= Len(applies[u]) /\ applies[u][i].current = s
        /\ <<u, i>> \in B <=> i <= Len(applies'[u]) /\ applies'[u][i].current = s
  BY DEF LocalOwners, Locals
<1>4. \A u \in Thread, i \in 1..MaxApplies : <<u, i>> # f => (<<u, i>> \in A <=> <<u, i>> \in B)
  <2> SUFFICES ASSUME NEW u \in Thread, NEW i \in 1..MaxApplies, <<u, i>> # f
               PROVE  <<u, i>> \in A <=> <<u, i>> \in B
    OBVIOUS
  <2>1. CASE u # t
    BY <1>1, <1>3, <2>1
  <2>2. CASE u = t
    <3>1. i # n
      BY <2>2
    <3>2. (i <= n <=> i <= n - 1) /\ (i <= n - 1 => i \in 1..(n - 1))
      BY <1>2, <3>1
    <3>3. QED BY <1>2, <1>3, <2>2, <3>2
  <2>3. QED BY <2>1, <2>2
<1>5. A \subseteq Thread \X (1..MaxApplies) /\ B \subseteq Thread \X (1..MaxApplies)
  BY DEF LocalOwners, Locals
<1>6. f \notin B /\ (f \in A <=> Inner(t).current = s)
  BY <1>2, <1>3
<1>7. B \ {f} = A \ {f}
  <2> HIDE DEF A, B, f
  <2>1. QED BY <1>4, <1>5
<1>8. IsFiniteSet(A)
  BY Finite
<1>9. Cardinality(A) \in Nat
      /\ Cardinality(B) = Cardinality(A) + (IF f \in B THEN 1 ELSE 0) - (IF f \in A THEN 1 ELSE 0)
  <2> HIDE DEF A, B, f
  <2>1. QED BY <1>7, <1>8, Toggle
<1>10. QED BY <1>6, <1>9 DEF InLocals

\* A thread leaves a reference behind.
LEMMA Orphaned ==
  ASSUME CurrentConstants, TypeOK, NEW s, NEW x \in Subgraph, orphans' = Append(orphans, x)
  PROVE  Orphans(s)' = Orphans(s) + (IF x = s THEN 1 ELSE 0)
<1> DEFINE n == Len(orphans) + 1
           A == OrphanOwners(s)
           B == OrphanOwners(s)'
<1>1. /\ orphans \in Seq(Subgraph) /\ orphans' \in Seq(Subgraph)
      /\ n \in Nat /\ Len(orphans') = n /\ Len(orphans) = n - 1
      /\ \A i \in 1..(n - 1) : orphans'[i] = orphans[i]
      /\ orphans'[n] = x
  BY Pushed DEF TypeOK
<1> HIDE DEF n
<1>2. DOMAIN orphans = 1..(n - 1) /\ DOMAIN orphans' = 1..n /\ n > 0
  BY <1>1
<1>3. n \notin A /\ (n \in B <=> x = s) /\ B \ {n} = A \ {n}
  BY <1>1, <1>2 DEF OrphanOwners
<1>4. IsFiniteSet(A)
  BY Finite
<1>5. Cardinality(A) \in Nat
      /\ Cardinality(B) = Cardinality(A) + (IF n \in B THEN 1 ELSE 0) - (IF n \in A THEN 1 ELSE 0)
  <2> HIDE DEF A, B
  <2>1. QED BY <1>3, <1>4, Toggle
<1>6. QED BY <1>3, <1>5 DEF Orphans

\* What is left alone.
LEMMA Alike ==
  ASSUME NEW s
  PROVE  /\ call' = call /\ current' = current => Currents(s)' = Currents(s) /\ Olds(s)' = Olds(s)
         /\ held' = held => Helds(s)' = Helds(s)
         /\ applies' = applies => InLocals(s)' = InLocals(s)
         /\ orphans' = orphans => Orphans(s)' = Orphans(s)
  BY DEF Currents, CurrentOwners, Olds, OldOwners, Helds, HeldOwners,
         InLocals, LocalOwners, Locals, Orphans, OrphanOwners

\* The applies of one thread are among those there are.
LEMMA Depth ==
  ASSUME CurrentConstants, TypeOK, NEW t \in Thread, AppliesOK(t)
  PROVE  Len(applies[t]) \in Nat /\ Len(applies[t]) <= Cardinality(Locals)
<1> DEFINE n == Len(applies[t])
           T == {f \in Locals : f[1] = t}
           g == [f \in T |-> f[2]]
<1>1. n \in Nat /\ n <= MaxApplies
  BY DEF TypeOK, AppliesOK
<1>2. \A i \in 1..n : <<t, i>> \in T
  BY <1>1 DEF Locals, CurrentConstants
<1>3. \A f \in T : f[2] \in 1..n
  BY <1>1 DEF Locals
<1>4. g \in Surjection(T, 1..n)
  <2>1. g \in [T -> 1..n]
    BY <1>3
  <2>2. \A i \in 1..n : \E f \in T : g[f] = i
    BY <1>2
  <2>3. QED BY <2>1, <2>2, Fun_IsSurj
<1>5. IsFiniteSet(T) /\ Cardinality(T) <= Cardinality(Locals) /\ Cardinality(T) \in Nat /\ Cardinality(Locals) \in Nat
  <2>1. IsFiniteSet(Locals) /\ T \subseteq Locals
    BY Finite
  <2>2. QED BY <2>1, FS_Subset, FS_CardinalityType
<1>6. Cardinality(1..n) = n
  BY <1>1, FS_Interval
<1>7. Cardinality(1..n) <= Cardinality(T)
  <2> HIDE DEF g, T, n
  <2>1. QED BY <1>4, <1>5, FS_Surjection
<1>8. QED BY <1>1, <1>5, <1>6, <1>7

-----------------------------------------------------------------------------
(* What an owner keeps alive.                                              *)

LEMMA AllOwners ==
  ASSUME NEW s
  PROVE  Owners(s)' = Currents(s)' + Olds(s)' + Helds(s)' + InLocals(s)' + Orphans(s)'
  BY DEF Owners, Currents, Olds, Helds, InLocals, Orphans

LEMMA Occupied ==
  ASSUME NEW S, IsFiniteSet(S), NEW x \in S
  PROVE  Cardinality(S) \in Nat /\ Cardinality(S) > 0
  BY FS_EmptySet, FS_CardinalityType

LEMMA OwnedIsLive ==
  ASSUME CurrentConstants, TypeOK, RefsExact, NEW s \in Subgraph, NEW t \in Thread,
         \/ OwnsCurrent(t, s) \/ OwnsOld(t, s) \/ s \in held[t]
         \/ \E i \in 1..Len(applies[t]) : i <= MaxApplies /\ applies[t][i].current = s
  PROVE  refs[s] > 0
<1>1. refs[s] = Currents(s) + Olds(s) + Helds(s) + InLocals(s) + Orphans(s)
  BY Numbers DEF RefsExact
<1>2. /\ Currents(s) \in Nat /\ Olds(s) \in Nat /\ Helds(s) \in Nat
      /\ InLocals(s) \in Nat /\ Orphans(s) \in Nat
  BY Numbers
<1>3. CASE OwnsCurrent(t, s)
  <2>1. t \in CurrentOwners(s)
    BY <1>3 DEF CurrentOwners, OwnsCurrent
  <2>2. Currents(s) > 0
    BY <2>1, Finite, Occupied DEF Currents
  <2>3. QED BY <1>1, <1>2, <2>2
<1>4. CASE OwnsOld(t, s)
  <2>1. t \in OldOwners(s)
    BY <1>4 DEF OldOwners, OwnsOld
  <2>2. Olds(s) > 0
    BY <2>1, Finite, Occupied DEF Olds
  <2>3. QED BY <1>1, <1>2, <2>2
<1>5. CASE s \in held[t]
  <2>1. t \in HeldOwners(s)
    BY <1>5 DEF HeldOwners
  <2>2. Helds(s) > 0
    BY <2>1, Finite, Occupied DEF Helds
  <2>3. QED BY <1>1, <1>2, <2>2
<1>6. ASSUME NEW i \in 1..Len(applies[t]), i <= MaxApplies, applies[t][i].current = s
      PROVE  refs[s] > 0
  <2>1. Len(applies[t]) \in Nat
    BY DEF TypeOK
  <2>2. <<t, i>> \in LocalOwners(s)
    BY <1>6, <2>1, CurrentConstants DEF LocalOwners, Locals
  <2>3. InLocals(s) > 0
    BY <2>2, Finite, Occupied DEF InLocals
  <2>4. QED BY <1>1, <1>2, <2>3
<1>7. QED BY <1>3, <1>4, <1>5, <1>6

-----------------------------------------------------------------------------
(* The actions.                                                            *)

LEMMA Types ==
  ASSUME TypeOK, NEW t \in Thread
  PROVE  /\ call[t] \in Call /\ current[t] \in Subgraph \cup {None}
         /\ call[t].step \in {"none", "retain", "release", "return"}
         /\ call[t].new \in Subgraph \cup {None} /\ call[t].old \in Subgraph \cup {None}
         /\ call[t].leaves \in BOOLEAN
         /\ held[t] \subseteq Subgraph /\ update[t] \in Update \cup {None}
         /\ applies[t] \in Seq(Apply) /\ Len(applies[t]) \in Nat
         /\ \A i \in 1..Len(applies[t]) : applies[t][i] \in Apply
         /\ Idle.step = "none" /\ Idle.new = None /\ ~Idle.leaves
<1>1. call[t] \in Call
  BY DEF TypeOK
<1>2. /\ call[t].step \in {"none", "retain", "release", "return"}
      /\ call[t].new \in Subgraph \cup {None} /\ call[t].old \in Subgraph \cup {None}
      /\ call[t].leaves \in BOOLEAN
  <2> DEFINE c == call[t]
             Calls == [step: {"retain", "release", "return"}, new: Subgraph \cup {None},
                       old: Subgraph \cup {None}, leaves: BOOLEAN]
  <2>1. c = Idle \/ c \in Calls
    BY <1>1 DEF Call
  <2> HIDE DEF c
  <2>2. CASE c = Idle
    BY <2>2 DEF Idle, c
  <2>3. CASE c \in Calls
    <3>1. /\ c.step \in {"none", "retain", "release", "return"}
          /\ c.new \in Subgraph \cup {None} /\ c.old \in Subgraph \cup {None}
      BY <2>3
    <3>2. c.leaves \in BOOLEAN
      BY <2>3
    <3>3. QED BY <3>1, <3>2 DEF c
  <2>4. QED BY <2>1, <2>2, <2>3
<1>3. applies[t] \in Seq(Apply)
  BY DEF TypeOK
<1>4. QED BY <1>1, <1>2, <1>3 DEF TypeOK, Idle

LEMMA InnerIs ==
  ASSUME TypeOK, NEW t \in Thread, applies[t] # <<>>
  PROVE  /\ Len(applies[t]) \in 1..Len(applies[t])
         /\ Inner(t) = applies[t][Len(applies[t])] /\ Inner(t) \in Apply
<1>1. applies[t] \in Seq(Apply)
  BY Types
<1>2. Len(applies[t]) \in Nat /\ Len(applies[t]) > 0
  BY <1>1, Popped
<1>3. Last(applies[t]) = applies[t][Len(applies[t])] /\ Last(applies[t]) \in Apply
  BY <1>1, Popped
<1>4. QED BY <1>2, <1>3 DEF Inner

\* The threads that a step is not about.
LEMMA OthersKeep ==
  ASSUME NEW u \in Thread, CallOK(u), AppliesOK(u),
         call'[u] = call[u], current'[u] = current[u], applies'[u] = applies[u],
         held[u] \subseteq held'[u]
  PROVE  CallOK(u)' /\ AppliesOK(u)'
  BY DEF CallOK, AppliesOK, Inner

LEMMA Started ==
  ASSUME CurrentConstants, TypeOK, NEW t \in Thread, Running(t),
         NEW x \in Subgraph \cup {None}, NEW l \in BOOLEAN, Start(t, x, l)
  PROVE  /\ call' \in [Thread -> Call] /\ current' \in [Thread -> Subgraph \cup {None}]
         /\ call'[t].step = "retain" /\ call'[t].new = x
         /\ call'[t].old = current[t] /\ call'[t].leaves = l /\ current'[t] = x
         /\ \A u \in Thread \ {t} : call'[u] = call[u] /\ current'[u] = current[u]
         /\ \A s \in Subgraph : Currents(s)' = Currents(s) /\ Olds(s)' = Olds(s)
<1> DEFINE c == [step |-> "retain", new |-> x, old |-> current[t], leaves |-> l]
<1>1. current[t] \in Subgraph \cup {None} /\ call \in [Thread -> Call]
      /\ current \in [Thread -> Subgraph \cup {None}]
  BY DEF TypeOK
<1>2. c \in Call /\ c.step = "retain" /\ c.new = x /\ c.old = current[t] /\ c.leaves = l
  BY <1>1 DEF Call
<1>3. call' = [call EXCEPT ![t] = c] /\ current' = [current EXCEPT ![t] = x]
  BY DEF Start
<1> HIDE DEF c
<1>4. /\ call' \in [Thread -> Call] /\ current' \in [Thread -> Subgraph \cup {None}]
      /\ call'[t] = c /\ current'[t] = x
      /\ \A u \in Thread \ {t} : call'[u] = call[u] /\ current'[u] = current[u]
  BY <1>1, <1>2, <1>3
<1>5. ASSUME NEW s \in Subgraph PROVE Currents(s)' = Currents(s) /\ Olds(s)' = Olds(s)
  <2>1. call[t].step = "none"
    BY Types DEF Running
  <2>2. /\ OwnsCurrent(t, s)' <=> OwnsCurrent(t, s)
        /\ ~OwnsOld(t, s) /\ ~OwnsOld(t, s)'
    BY <1>2, <1>4, <2>1 DEF OwnsCurrent, OwnsOld
  <2>3. Currents(s) \in Nat /\ Olds(s) \in Nat
    BY Numbers
  <2>4. QED BY <1>4, <2>2, <2>3, PointersMove
<1>6. QED BY <1>2, <1>4, <1>5

LEMMA RetainKeeps ==
  ASSUME CurrentConstants, SInv, NEW t \in Thread, RetainNew(t)
  PROVE  SInv'
<1> DEFINE x == call[t].new
<1>0. TypeOK /\ CallOK(t) /\ AppliesOK(t)
  BY DEF SInv
<1>1. /\ call[t].step = "retain" /\ x \in Subgraph \cup {None} /\ x = current[t]
      /\ call[t].old \in Subgraph \cup {None} /\ call[t].leaves \in BOOLEAN
      /\ current' = current /\ held' = held /\ applies' = applies /\ orphans' = orphans
  BY <1>0, Types DEF CallOK, RetainNew
<1>2. /\ call' \in [Thread -> Call]
      /\ call'[t].step = "release" /\ call'[t].new = x /\ call'[t].old = call[t].old
      /\ call'[t].leaves = call[t].leaves
      /\ \A u \in Thread \ {t} : call'[u] = call[u]
  <2> DEFINE c == [call[t] EXCEPT !.step = "release"]
  <2>1. call[t] \in Call
    BY <1>0, Types
  <2>2. /\ c \in Call /\ c.step = "release" /\ c.new = x /\ c.old = call[t].old
        /\ c.leaves = call[t].leaves
    BY <1>1, <2>1 DEF Call, Idle
  <2>3. call' = [call EXCEPT ![t] = c]
    BY DEF RetainNew
  <2> HIDE DEF c
  <2>4. QED BY <1>0, <2>2, <2>3 DEF TypeOK
<1>3. /\ refs' \in [Subgraph -> Nat] /\ freed' = freed
      /\ \A s \in Subgraph : refs'[s] = refs[s] + (IF x = s THEN 1 ELSE 0)
  <2>1. refs \in [Subgraph -> Nat]
    BY <1>0 DEF TypeOK
  <2>2. CASE x = None
    BY <2>1, <2>2, CurrentConstants DEF RetainNew
  <2>3. CASE x # None
    BY <1>1, <2>1, <2>3 DEF RetainNew, Retain
  <2>4. QED BY <2>2, <2>3
<1>4. TypeOK'
  BY <1>0, <1>2, <1>3 DEF TypeOK, RetainNew
<1>5. ASSUME NEW s \in Subgraph PROVE (refs[s] = Owners(s))'
  <2>1. /\ OwnsCurrent(t, s) <=> call[t].old = s
        /\ OwnsCurrent(t, s)' <=> x = s
        /\ ~OwnsOld(t, s) /\ (OwnsOld(t, s)' <=> call[t].old = s)
    BY <1>1, <1>2 DEF OwnsCurrent, OwnsOld
  <2>2. /\ Currents(s)' = Currents(s) + (IF OwnsCurrent(t, s)' THEN 1 ELSE 0)
                                      - (IF OwnsCurrent(t, s) THEN 1 ELSE 0)
        /\ Olds(s)' = Olds(s) + (IF OwnsOld(t, s)' THEN 1 ELSE 0)
                              - (IF OwnsOld(t, s) THEN 1 ELSE 0)
    BY <1>0, <1>1, <1>2, PointersMove
  <2>3. Helds(s)' = Helds(s) /\ InLocals(s)' = InLocals(s) /\ Orphans(s)' = Orphans(s)
    BY <1>1, Alike
  <2>4. refs[s] = Owners(s)
    BY DEF SInv, RefsExact
  <2>5. QED BY <1>0, <1>3, <2>1, <2>2, <2>3, <2>4, Numbers, AllOwners
<1>6. CallOK(t)' /\ AppliesOK(t)'
  BY <1>0, <1>1, <1>2 DEF CallOK, AppliesOK, Inner
<1>7. ASSUME NEW u \in Thread \ {t} PROVE CallOK(u)' /\ AppliesOK(u)'
  BY <1>1, <1>2, OthersKeep DEF SInv
<1>8. QED BY <1>4, <1>5, <1>6, <1>7 DEF SInv, RefsExact

LEMMA ReleaseKeeps ==
  ASSUME CurrentConstants, SInv, NEW t \in Thread, ReleaseOld(t)
  PROVE  SInv'
<1> DEFINE x == call[t].old
           c == IF call[t].leaves THEN [Idle EXCEPT !.step = "return", !.leaves = TRUE] ELSE Idle
<1>0. TypeOK /\ CallOK(t) /\ AppliesOK(t)
  BY DEF SInv
<1>1. /\ call[t].step = "release" /\ x \in Subgraph \cup {None}
      /\ call[t].leaves \in BOOLEAN
      /\ current' = current /\ held' = held /\ applies' = applies /\ orphans' = orphans
  BY <1>0, Types DEF ReleaseOld
<1>2. /\ call' \in [Thread -> Call] /\ call'[t] = c
      /\ c.step = IF call[t].leaves THEN "return" ELSE "none"
      /\ c.leaves = call[t].leaves /\ c.new = None
      /\ \A u \in Thread \ {t} : call'[u] = call[u]
  <2>1. /\ c \in Call /\ c.step = (IF call[t].leaves THEN "return" ELSE "none")
        /\ c.leaves = call[t].leaves /\ c.new = None
    BY <1>1 DEF Call, Idle
  <2>2. call' = [call EXCEPT ![t] = c]
    BY DEF ReleaseOld
  <2> HIDE DEF c
  <2>3. QED BY <1>0, <2>1, <2>2 DEF TypeOK
<1> HIDE DEF c
<1>3. x # None => refs[x] > 0
  BY <1>0, <1>1, OwnedIsLive DEF SInv, OwnsOld
<1>4. /\ refs' \in [Subgraph -> Nat] /\ freed' \subseteq Subgraph
      /\ \A s \in Subgraph : refs'[s] = refs[s] - (IF x = s THEN 1 ELSE 0)
  <2>1. refs \in [Subgraph -> Nat] /\ freed \subseteq Subgraph
    BY <1>0 DEF TypeOK
  <2>2. CASE x = None
    BY <2>1, <2>2, CurrentConstants DEF ReleaseOld
  <2>3. CASE x # None
    BY <1>1, <1>3, <2>1, <2>3 DEF ReleaseOld, Release
  <2>4. QED BY <2>2, <2>3
<1>5. TypeOK'
  BY <1>0, <1>2, <1>4 DEF TypeOK, ReleaseOld
<1>6. ASSUME NEW s \in Subgraph PROVE (refs[s] = Owners(s))'
  <2>1. /\ OwnsCurrent(t, s)' <=> OwnsCurrent(t, s)
        /\ ~OwnsOld(t, s)' /\ (OwnsOld(t, s) <=> x = s)
    BY <1>1, <1>2 DEF OwnsCurrent, OwnsOld
  <2>2. /\ Currents(s)' = Currents(s) + (IF OwnsCurrent(t, s)' THEN 1 ELSE 0)
                                      - (IF OwnsCurrent(t, s) THEN 1 ELSE 0)
        /\ Olds(s)' = Olds(s) + (IF OwnsOld(t, s)' THEN 1 ELSE 0)
                              - (IF OwnsOld(t, s) THEN 1 ELSE 0)
    BY <1>0, <1>1, <1>2, PointersMove
  <2>3. Helds(s)' = Helds(s) /\ InLocals(s)' = InLocals(s) /\ Orphans(s)' = Orphans(s)
    BY <1>1, Alike
  <2>4. refs[s] = Owners(s)
    BY DEF SInv, RefsExact
  <2>5. QED BY <1>0, <1>4, <2>1, <2>2, <2>3, <2>4, Numbers, AllOwners
<1>7. CallOK(t)' /\ AppliesOK(t)'
  BY <1>0, <1>1, <1>2 DEF CallOK, AppliesOK, Inner
<1>8. ASSUME NEW u \in Thread \ {t} PROVE CallOK(u)' /\ AppliesOK(u)'
  BY <1>1, <1>2, OthersKeep DEF SInv
<1>9. QED BY <1>5, <1>6, <1>7, <1>8 DEF SInv, RefsExact

LEMMA SetKeeps ==
  ASSUME CurrentConstants, SInv, NEW t \in Thread, NEW x \in Subgraph \cup {None},
         SetCurrent(t, x)
  PROVE  SInv'
<1>0. TypeOK /\ CallOK(t) /\ AppliesOK(t)
  BY DEF SInv
<1>1. /\ refs' = refs /\ held' = held /\ applies' = applies /\ orphans' = orphans
      /\ x \in held[t] \cup {None} /\ Running(t) /\ Start(t, x, FALSE)
  BY DEF SetCurrent
<1>2. /\ call' \in [Thread -> Call] /\ current' \in [Thread -> Subgraph \cup {None}]
      /\ call'[t].step = "retain" /\ call'[t].new = x
      /\ call'[t].old = current[t] /\ call'[t].leaves = FALSE /\ current'[t] = x
      /\ \A u \in Thread \ {t} : call'[u] = call[u] /\ current'[u] = current[u]
      /\ \A s \in Subgraph : Currents(s)' = Currents(s) /\ Olds(s)' = Olds(s)
  BY <1>0, <1>1, Started
<1>3. TypeOK'
  BY <1>0, <1>2 DEF TypeOK, SetCurrent
<1>4. ASSUME NEW s \in Subgraph PROVE (refs[s] = Owners(s))'
  <2>1. Helds(s)' = Helds(s) /\ InLocals(s)' = InLocals(s) /\ Orphans(s)' = Orphans(s)
    BY <1>1, Alike
  <2>2. refs[s] = Owners(s)
    BY DEF SInv, RefsExact
  <2>3. QED BY <1>0, <1>1, <1>2, <2>1, <2>2, Numbers, AllOwners
<1>5. CallOK(t)' /\ AppliesOK(t)'
  BY <1>0, <1>1, <1>2 DEF CallOK, AppliesOK
<1>6. ASSUME NEW u \in Thread \ {t} PROVE CallOK(u)' /\ AppliesOK(u)'
  BY <1>1, <1>2, OthersKeep DEF SInv
<1>7. QED BY <1>3, <1>4, <1>5, <1>6 DEF SInv, RefsExact

LEMMA LeaveKeeps ==
  ASSUME CurrentConstants, SInv, NEW t \in Thread, Leave(t)
  PROVE  SInv'
<1> DEFINE x == Inner(t).current
<1>0. TypeOK /\ CallOK(t) /\ AppliesOK(t)
  BY DEF SInv
<1>1. /\ refs' = refs /\ held' = held /\ applies' = applies /\ orphans' = orphans
      /\ applies[t] # <<>> /\ Running(t) /\ Start(t, x, TRUE)
  BY DEF Leave
<1>2. x \in Subgraph \cup {None}
  BY <1>0, <1>1, InnerIs DEF Apply
<1>3. /\ call' \in [Thread -> Call] /\ current' \in [Thread -> Subgraph \cup {None}]
      /\ call'[t].step = "retain" /\ call'[t].new = x
      /\ call'[t].old = current[t] /\ call'[t].leaves = TRUE /\ current'[t] = x
      /\ \A u \in Thread \ {t} : call'[u] = call[u] /\ current'[u] = current[u]
      /\ \A s \in Subgraph : Currents(s)' = Currents(s) /\ Olds(s)' = Olds(s)
  <2> HIDE DEF x
  <2>1. QED BY <1>0, <1>1, <1>2, Started
<1>4. TypeOK'
  BY <1>0, <1>3 DEF TypeOK, Leave
<1>5. ASSUME NEW s \in Subgraph PROVE (refs[s] = Owners(s))'
  <2>1. Helds(s)' = Helds(s) /\ InLocals(s)' = InLocals(s) /\ Orphans(s)' = Orphans(s)
    BY <1>1, Alike
  <2>2. refs[s] = Owners(s)
    BY DEF SInv, RefsExact
  <2>3. QED BY <1>0, <1>1, <1>3, <2>1, <2>2, Numbers, AllOwners
<1>6. CallOK(t)' /\ AppliesOK(t)'
  BY <1>0, <1>1, <1>3 DEF CallOK, AppliesOK, Inner
<1>7. ASSUME NEW u \in Thread \ {t} PROVE CallOK(u)' /\ AppliesOK(u)'
  BY <1>1, <1>3, OthersKeep DEF SInv
<1>8. QED BY <1>4, <1>5, <1>6, <1>7 DEF SInv, RefsExact

LEMMA EnterKeeps ==
  ASSUME CurrentConstants, SInv, NEW t \in Thread, NEW s \in Subgraph, Enter(t, s)
  PROVE  SInv'
<1> DEFINE x == current[t]
           a == [self |-> s, current |-> x, update |-> update[t], entry |-> x]
<1>0. TypeOK /\ CallOK(t) /\ AppliesOK(t)
  BY DEF SInv
<1>1. /\ held' = held /\ orphans' = orphans /\ Running(t) /\ Start(t, s, FALSE)
      /\ s \in held[t] /\ Cardinality(Locals) < MaxApplies
      /\ applies' = [applies EXCEPT ![t] = Append(@, a)]
  BY DEF Enter
<1>2. x \in Subgraph \cup {None} /\ applies[t] \in Seq(Apply)
  BY <1>0, Types
<1>3. a \in Apply /\ a.self = s /\ a.current = x /\ a.entry = x
  BY <1>0, <1>2, Types DEF Apply
<1> HIDE DEF a
<1>4. /\ call' \in [Thread -> Call] /\ current' \in [Thread -> Subgraph \cup {None}]
      /\ call'[t].step = "retain" /\ call'[t].new = s
      /\ call'[t].old = current[t] /\ call'[t].leaves = FALSE /\ current'[t] = s
      /\ \A u \in Thread \ {t} : call'[u] = call[u] /\ current'[u] = current[u]
      /\ \A r \in Subgraph : Currents(r)' = Currents(r) /\ Olds(r)' = Olds(r)
  BY <1>0, <1>1, Started
<1>5. Len(applies[t]) \in Nat /\ Len(applies[t]) < MaxApplies
  <2>1. Cardinality(Locals) \in Nat
    BY <1>0, Finite, FS_CardinalityType
  <2>2. QED BY <1>0, <1>1, <2>1, Depth, CurrentConstants
<1>6. /\ applies' \in [Thread -> Seq(Apply)]
      /\ \A u \in Thread \ {t} : applies'[u] = applies[u]
      /\ Len(applies'[t]) = Len(applies[t]) + 1
      /\ \A i \in 1..Len(applies[t]) : applies'[t][i] = applies[t][i]
      /\ applies'[t][Len(applies[t]) + 1] = a
  <2>1. applies \in [Thread -> Seq(Apply)]
    BY <1>0 DEF TypeOK
  <2>2. applies'[t] = Append(applies[t], a)
    BY <1>1, <2>1
  <2>3. applies'[t] \in Seq(Apply)
    BY <1>2, <1>3, <2>2, Pushed
  <2>4. applies' \in [Thread -> Seq(Apply)] /\ \A u \in Thread \ {t} : applies'[u] = applies[u]
    BY <1>1, <2>1, <2>2, <2>3
  <2>5. QED BY <1>2, <1>3, <2>2, <2>4, Pushed
<1>7. /\ refs' \in [Subgraph -> Nat] /\ freed' = freed
      /\ \A r \in Subgraph : refs'[r] = refs[r] + (IF x = r THEN 1 ELSE 0)
  <2>1. refs \in [Subgraph -> Nat]
    BY <1>0 DEF TypeOK
  <2>2. CASE x = None
    BY <2>1, <2>2, CurrentConstants DEF Enter
  <2>3. CASE x # None
    BY <1>2, <2>1, <2>3 DEF Enter, Retain
  <2>4. QED BY <2>2, <2>3
<1>8. TypeOK'
  BY <1>0, <1>4, <1>6, <1>7 DEF TypeOK, Enter
<1>9. ASSUME NEW r \in Subgraph PROVE (refs[r] = Owners(r))'
  <2>1. Helds(r)' = Helds(r) /\ Orphans(r)' = Orphans(r)
    BY <1>1, Alike
  <2>2. InLocals(r)' = InLocals(r) + (IF x = r THEN 1 ELSE 0)
    BY <1>0, <1>1, <1>3, <1>5, LocalPushed
  <2>3. refs[r] = Owners(r)
    BY DEF SInv, RefsExact
  <2>4. QED BY <1>0, <1>4, <1>7, <2>1, <2>2, <2>3, Numbers, AllOwners
<1>10. AppliesOK(t)'
  <2>1. Len(applies'[t]) <= MaxApplies
    BY <1>5, <1>6, CurrentConstants
  <2>2. ASSUME NEW i \in 1..Len(applies'[t])
        PROVE  applies'[t][i].self \in held'[t] /\ applies'[t][i].entry = applies'[t][i].current
    <3>1. CASE i \in 1..Len(applies[t])
      BY <1>0, <1>1, <1>6, <3>1 DEF AppliesOK
    <3>2. CASE i = Len(applies[t]) + 1
      BY <1>1, <1>3, <1>6, <3>2
    <3>3. QED BY <1>5, <1>6, <3>1, <3>2
  <2>3. QED BY <2>1, <2>2 DEF AppliesOK
<1>11. CallOK(t)'
  BY <1>1, <1>4 DEF CallOK
<1>12. ASSUME NEW u \in Thread \ {t} PROVE CallOK(u)' /\ AppliesOK(u)'
  BY <1>1, <1>4, <1>6, OthersKeep DEF SInv
<1>13. QED BY <1>8, <1>9, <1>10, <1>11, <1>12 DEF SInv, RefsExact

LEMMA ReturnKeeps ==
  ASSUME CurrentConstants, SInv, NEW t \in Thread, Return(t)
  PROVE  SInv'
<1> DEFINE x == Inner(t).current
           n == Len(applies[t])
<1>0. TypeOK /\ CallOK(t) /\ AppliesOK(t)
  BY DEF SInv
<1>1. /\ call[t].step = "return" /\ applies[t] # <<>>
      /\ current' = current /\ held' = held /\ orphans' = orphans
      /\ call' = [call EXCEPT ![t] = Idle]
      /\ applies' = [applies EXCEPT ![t] = Front(@)]
      /\ update' = [update EXCEPT ![t] = Inner(t).update]
  BY <1>0 DEF CallOK, Return
<1>2. /\ n \in 1..n /\ Inner(t) = applies[t][n] /\ Inner(t) \in Apply
      /\ x \in Subgraph \cup {None} /\ Inner(t).update \in Update \cup {None}
      /\ applies[t] \in Seq(Apply)
  BY <1>0, <1>1, InnerIs, Types DEF Apply
<1>3. /\ call' \in [Thread -> Call] /\ call'[t] = Idle
      /\ Idle.step = "none" /\ Idle.new = None /\ ~Idle.leaves
      /\ \A u \in Thread \ {t} : call'[u] = call[u]
  BY <1>0, <1>1 DEF TypeOK, Call, Idle
<1>4. /\ applies' \in [Thread -> Seq(Apply)]
      /\ \A u \in Thread \ {t} : applies'[u] = applies[u]
      /\ n \in Nat /\ Len(applies'[t]) = n - 1
      /\ \A i \in 1..(n - 1) : applies'[t][i] = applies[t][i]
  <2>1. applies \in [Thread -> Seq(Apply)]
    BY <1>0 DEF TypeOK
  <2>2. applies'[t] = Front(applies[t])
    BY <1>1, <2>1
  <2>3. applies'[t] \in Seq(Apply)
    BY <1>1, <1>2, <2>2, Popped
  <2>4. applies' \in [Thread -> Seq(Apply)] /\ \A u \in Thread \ {t} : applies'[u] = applies[u]
    BY <1>1, <2>1, <2>2, <2>3
  <2>5. QED BY <1>1, <1>2, <2>2, <2>4, Popped
<1>5. x # None => refs[x] > 0
  <2>1. n <= MaxApplies
    BY <1>0 DEF AppliesOK
  <2>2. QED BY <1>0, <1>2, <2>1, OwnedIsLive DEF SInv
<1>6. /\ refs' \in [Subgraph -> Nat] /\ freed' \subseteq Subgraph
      /\ \A s \in Subgraph : refs'[s] = refs[s] - (IF x = s THEN 1 ELSE 0)
  <2>1. refs \in [Subgraph -> Nat] /\ freed \subseteq Subgraph
    BY <1>0 DEF TypeOK
  <2>2. CASE x = None
    BY <2>1, <2>2, CurrentConstants DEF Return
  <2>3. CASE x # None
    BY <1>2, <1>5, <2>1, <2>3 DEF Return, Release
  <2>4. QED BY <2>2, <2>3
<1>7. TypeOK'
  <2>1. update' \in [Thread -> Update \cup {None}]
    BY <1>0, <1>1, <1>2 DEF TypeOK
  <2>2. QED BY <1>0, <1>3, <1>4, <1>6, <2>1 DEF TypeOK, Return
<1>8. ASSUME NEW s \in Subgraph PROVE (refs[s] = Owners(s))'
  <2>1. /\ OwnsCurrent(t, s)' <=> OwnsCurrent(t, s)
        /\ ~OwnsOld(t, s)' /\ ~OwnsOld(t, s)
    BY <1>1, <1>3 DEF OwnsCurrent, OwnsOld
  <2>2. /\ Currents(s)' = Currents(s) + (IF OwnsCurrent(t, s)' THEN 1 ELSE 0)
                                      - (IF OwnsCurrent(t, s) THEN 1 ELSE 0)
        /\ Olds(s)' = Olds(s) + (IF OwnsOld(t, s)' THEN 1 ELSE 0)
                              - (IF OwnsOld(t, s) THEN 1 ELSE 0)
    BY <1>0, <1>1, <1>3, PointersMove
  <2>3. Helds(s)' = Helds(s) /\ Orphans(s)' = Orphans(s)
    BY <1>1, Alike
  <2>4. InLocals(s)' = InLocals(s) - (IF x = s THEN 1 ELSE 0)
    BY <1>0, <1>1, LocalPopped DEF AppliesOK
  <2>5. refs[s] = Owners(s)
    BY DEF SInv, RefsExact
  <2> HIDE DEF x
  <2>6. QED BY <1>0, <1>6, <2>1, <2>2, <2>3, <2>4, <2>5, Numbers, AllOwners
<1>9. AppliesOK(t)'
  <2>1. \A i \in 1..(n - 1) : i \in 1..n
    BY <1>4
  <2>2. Len(applies'[t]) <= MaxApplies
    BY <1>0, <1>4, CurrentConstants DEF AppliesOK
  <2>3. ASSUME NEW i \in 1..Len(applies'[t])
        PROVE  applies'[t][i].self \in held'[t] /\ applies'[t][i].entry = applies'[t][i].current
    <3>1. i \in 1..n /\ applies'[t][i] = applies[t][i]
      BY <1>4, <2>1
    <3>2. QED BY <1>0, <1>1, <3>1 DEF AppliesOK
  <2>4. QED BY <2>2, <2>3 DEF AppliesOK
<1>10. CallOK(t)'
  BY <1>3 DEF CallOK
<1>11. ASSUME NEW u \in Thread \ {t} PROVE CallOK(u)' /\ AppliesOK(u)'
  BY <1>1, <1>3, <1>4, OthersKeep DEF SInv
<1>12. QED BY <1>7, <1>8, <1>9, <1>10, <1>11 DEF SInv, RefsExact

\* A thread gets a reference, to a new subgraph or to one that there is.
LEMMA GainKeeps ==
  ASSUME CurrentConstants, SInv, NEW u \in Thread, NEW x \in Subgraph, x \notin held[u],
         refs' = [refs EXCEPT ![x] = @ + 1],
         held' = [held EXCEPT ![u] = @ \cup {x}],
         UNCHANGED <<freed, current, update, call, applies, ended, orphans>>
  PROVE  SInv'
<1>0. TypeOK
  BY DEF SInv
<1>1. /\ held' \in [Thread -> SUBSET Subgraph] /\ held'[u] = held[u] \cup {x}
      /\ \A w \in Thread \ {u} : held'[w] = held[w]
  BY <1>0 DEF TypeOK
<1>2. /\ refs' \in [Subgraph -> Nat]
      /\ \A s \in Subgraph : refs'[s] = refs[s] + (IF x = s THEN 1 ELSE 0)
  BY <1>0 DEF TypeOK
<1>3. TypeOK'
  BY <1>0, <1>1, <1>2 DEF TypeOK
<1>4. ASSUME NEW s \in Subgraph PROVE (refs[s] = Owners(s))'
  <2>1. /\ Currents(s)' = Currents(s) /\ Olds(s)' = Olds(s)
        /\ InLocals(s)' = InLocals(s) /\ Orphans(s)' = Orphans(s)
    BY Alike
  <2>2. Helds(s)' = Helds(s) + (IF s \in held'[u] THEN 1 ELSE 0)
                             - (IF s \in held[u] THEN 1 ELSE 0)
    BY <1>0, <1>1, VariablesChange
  <2>3. Helds(s) \in Nat
    BY <1>0, Numbers
  <2>4. Helds(s)' = Helds(s) + (IF x = s THEN 1 ELSE 0)
    BY <1>1, <2>2, <2>3
  <2>5. refs[s] = Owners(s)
    BY DEF SInv, RefsExact
  <2>6. QED BY <1>0, <1>2, <2>1, <2>4, <2>5, Numbers, AllOwners
<1>5. ASSUME NEW w \in Thread PROVE CallOK(w)' /\ AppliesOK(w)'
  <2>1. held[w] \subseteq held'[w]
    BY <1>1
  <2>2. QED BY <2>1, OthersKeep DEF SInv
<1>6. QED BY <1>3, <1>4, <1>5 DEF SInv, RefsExact

LEMMA CreateKeeps ==
  ASSUME CurrentConstants, SInv, NEW t \in Thread, NEW s \in Subgraph, Create(t, s)
  PROVE  SInv'
<1>1. refs[s] = 0 /\ refs \in [Subgraph -> Nat]
  BY DEF Create, SInv, TypeOK
<1>2. s \notin held[t]
  BY <1>1, OwnedIsLive DEF SInv
<1>3. refs' = [refs EXCEPT ![s] = @ + 1]
  BY <1>1 DEF Create
<1>4. QED BY <1>2, <1>3, GainKeeps DEF Create

LEMMA GetKeeps ==
  ASSUME CurrentConstants, SInv, NEW t \in Thread, GetCurrent(t)
  PROVE  SInv'
<1>1. current[t] \in Subgraph
  BY Types DEF GetCurrent, SInv
<1>2. QED BY <1>1, GainKeeps DEF GetCurrent, Retain

LEMMA PassKeeps ==
  ASSUME CurrentConstants, SInv, NEW t \in Thread, NEW u \in Thread, NEW s \in Subgraph,
         Pass(t, u, s)
  PROVE  SInv'
BY GainKeeps DEF Pass, Retain

LEMMA DropKeeps ==
  ASSUME CurrentConstants, SInv, NEW t \in Thread, NEW x \in Subgraph, Drop(t, x)
  PROVE  SInv'
<1>0. TypeOK /\ CallOK(t) /\ AppliesOK(t)
  BY DEF SInv
<1>1. /\ x \in held[t] /\ x \notin InUse(t) /\ call[t] = Idle
      /\ refs' = [refs EXCEPT ![x] = @ - 1]
      /\ held' = [held EXCEPT ![t] = @ \ {x}]
      /\ UNCHANGED <<current, update, call, applies, ended, orphans>>
  BY DEF Drop, Release, Running
<1>2. /\ held' \in [Thread -> SUBSET Subgraph] /\ held'[t] = held[t] \ {x}
      /\ \A w \in Thread \ {t} : held'[w] = held[w]
  BY <1>0, <1>1 DEF TypeOK
<1>3. refs[x] > 0
  BY <1>0, <1>1, OwnedIsLive DEF SInv
<1>4. /\ refs' \in [Subgraph -> Nat] /\ freed' \subseteq Subgraph
      /\ \A s \in Subgraph : refs'[s] = refs[s] - (IF x = s THEN 1 ELSE 0)
  BY <1>0, <1>1, <1>3 DEF TypeOK, Drop, Release
<1>5. TypeOK'
  BY <1>0, <1>1, <1>2, <1>4 DEF TypeOK
<1>6. ASSUME NEW s \in Subgraph PROVE (refs[s] = Owners(s))'
  <2>1. /\ Currents(s)' = Currents(s) /\ Olds(s)' = Olds(s)
        /\ InLocals(s)' = InLocals(s) /\ Orphans(s)' = Orphans(s)
    BY <1>1, Alike
  <2>2. Helds(s)' = Helds(s) + (IF s \in held'[t] THEN 1 ELSE 0)
                             - (IF s \in held[t] THEN 1 ELSE 0)
    BY <1>0, <1>2, VariablesChange
  <2>3. Helds(s) \in Nat
    BY <1>0, Numbers
  <2>4. Helds(s)' = Helds(s) - (IF x = s THEN 1 ELSE 0)
    BY <1>1, <1>2, <2>2, <2>3
  <2>5. refs[s] = Owners(s)
    BY DEF SInv, RefsExact
  <2>6. QED BY <1>0, <1>4, <2>1, <2>4, <2>5, Numbers, AllOwners
<1>7. CallOK(t)'
  <2>1. call'[t].step = "none" /\ call'[t].new = None /\ ~call'[t].leaves
    BY <1>0, <1>1, Types
  <2>2. QED BY <2>1 DEF CallOK
<1>8. AppliesOK(t)'
  <2>1. \A i \in 1..Len(applies[t]) : applies[t][i].self \in InUse(t)
    BY <1>0, Types DEF InUse
  <2>2. QED BY <1>0, <1>1, <1>2, <2>1 DEF AppliesOK
<1>9. ASSUME NEW u \in Thread \ {t} PROVE CallOK(u)' /\ AppliesOK(u)'
  BY <1>1, <1>2, OthersKeep DEF SInv
<1>10. QED BY <1>5, <1>6, <1>7, <1>8, <1>9 DEF SInv, RefsExact

LEMMA UpdateKeeps ==
  ASSUME CurrentConstants, SInv, NEW t \in Thread, NEW u \in Update \cup {None},
         SetUpdate(t, u)
  PROVE  SInv'
<1>1. /\ update' = [update EXCEPT ![t] = u]
      /\ UNCHANGED <<refs, freed, current, held, call, applies, ended, orphans>>
  BY DEF SetUpdate
<1>2. TypeOK'
  BY <1>1 DEF SInv, TypeOK
<1>3. ASSUME NEW s \in Subgraph PROVE (refs[s] = Owners(s))'
  <2>1. /\ Currents(s)' = Currents(s) /\ Olds(s)' = Olds(s) /\ Helds(s)' = Helds(s)
        /\ InLocals(s)' = InLocals(s) /\ Orphans(s)' = Orphans(s)
    BY <1>1, Alike
  <2>2. refs[s] = Owners(s)
    BY DEF SInv, RefsExact
  <2>3. QED BY <1>1, <2>1, <2>2, Numbers, AllOwners DEF SInv
<1>4. ASSUME NEW w \in Thread PROVE CallOK(w)' /\ AppliesOK(w)'
  BY <1>1, OthersKeep DEF SInv
<1>5. QED BY <1>2, <1>3, <1>4 DEF SInv, RefsExact

LEMMA EndKeeps ==
  ASSUME CurrentConstants, SInv, NEW t \in Thread, End(t)
  PROVE  SInv'
<1> DEFINE x == current[t]
<1>0. TypeOK /\ CallOK(t) /\ AppliesOK(t)
  BY DEF SInv
<1>1. /\ call[t] = Idle /\ applies[t] = <<>>
      /\ current' = [current EXCEPT ![t] = None] /\ update' = [update EXCEPT ![t] = None]
      /\ orphans' = IF x = None THEN orphans ELSE Append(orphans, x)
      /\ ended' = ended \cup {t}
      /\ UNCHANGED <<refs, freed, held, call, applies>>
  BY DEF End, Running
<1>2. /\ x \in Subgraph \cup {None}
      /\ Idle.step = "none" /\ Idle.new = None /\ ~Idle.leaves
      /\ None \notin Subgraph
  BY <1>0, Types, CurrentConstants
<1>3. /\ current' \in [Thread -> Subgraph \cup {None}] /\ current'[t] = None
      /\ update' \in [Thread -> Update \cup {None}]
      /\ \A u \in Thread \ {t} : current'[u] = current[u]
  BY <1>0, <1>1 DEF TypeOK
<1>4. TypeOK'
  <2>1. orphans' \in Seq(Subgraph)
    BY <1>0, <1>1, <1>2, Pushed DEF TypeOK
  <2>2. QED BY <1>0, <1>1, <1>3, <2>1 DEF TypeOK
<1>5. ASSUME NEW s \in Subgraph PROVE (refs[s] = Owners(s))'
  <2>1. /\ OwnsCurrent(t, s) <=> x = s
        /\ ~OwnsCurrent(t, s)' /\ ~OwnsOld(t, s)' /\ ~OwnsOld(t, s)
    BY <1>1, <1>2, <1>3 DEF OwnsCurrent, OwnsOld
  <2>2. /\ Currents(s)' = Currents(s) + (IF OwnsCurrent(t, s)' THEN 1 ELSE 0)
                                      - (IF OwnsCurrent(t, s) THEN 1 ELSE 0)
        /\ Olds(s)' = Olds(s) + (IF OwnsOld(t, s)' THEN 1 ELSE 0)
                              - (IF OwnsOld(t, s) THEN 1 ELSE 0)
    BY <1>0, <1>1, <1>3, PointersMove
  <2>3. Helds(s)' = Helds(s) /\ InLocals(s)' = InLocals(s)
    BY <1>1, Alike
  <2>4. Orphans(s)' = Orphans(s) + (IF x = s THEN 1 ELSE 0)
    <3>1. Orphans(s) \in Nat
      BY <1>0, Numbers
    <3>2. CASE x = None
      <4>1. Orphans(s)' = Orphans(s)
        BY <1>1, <3>2, Alike
      <4>2. QED BY <1>2, <3>1, <3>2, <4>1
    <3>3. CASE x # None
      BY <1>0, <1>1, <1>2, <3>3, Orphaned
    <3>4. QED BY <3>2, <3>3
  <2>5. refs[s] = Owners(s)
    BY DEF SInv, RefsExact
  <2> HIDE DEF x
  <2>6. QED BY <1>0, <1>1, <2>1, <2>2, <2>3, <2>4, <2>5, Numbers, AllOwners
<1>6. CallOK(t)' /\ AppliesOK(t)'
  BY <1>0, <1>1, <1>2 DEF CallOK, AppliesOK
<1>7. ASSUME NEW u \in Thread \ {t} PROVE CallOK(u)' /\ AppliesOK(u)'
  BY <1>1, <1>3, OthersKeep DEF SInv
<1>8. QED BY <1>4, <1>5, <1>6, <1>7 DEF SInv, RefsExact

-----------------------------------------------------------------------------
(* The theorems.                                                           *)

LEMMA InitInv ==
  ASSUME CurrentConstants, Init PROVE SInv
<1>1. Idle \in Call /\ Idle.step = "none" /\ Idle.new = None /\ ~Idle.leaves
  BY DEF Idle, Call
<1>2. TypeOK
  BY <1>1 DEF Init, TypeOK
<1>3. ASSUME NEW s \in Subgraph PROVE refs[s] = Owners(s)
  <2>1. /\ CurrentOwners(s) = {} /\ OldOwners(s) = {} /\ HeldOwners(s) = {}
        /\ OrphanOwners(s) = {}
    BY <1>1, CurrentConstants DEF Init, CurrentOwners, OldOwners, HeldOwners, OrphanOwners
  <2>2. LocalOwners(s) = {}
    <3>1. \A t \in Thread : Len(applies[t]) = 0
      BY DEF Init
    <3>2. \A t \in Thread, i \in 1..MaxApplies : ~(i <= Len(applies[t]))
      BY <3>1, CurrentConstants
    <3>3. QED BY <3>2 DEF LocalOwners, Locals
  <2>3. refs[s] = 0
    BY DEF Init
  <2>4. QED BY <2>1, <2>2, <2>3, FS_EmptySet DEF Owners
<1>4. ASSUME NEW t \in Thread PROVE CallOK(t) /\ AppliesOK(t)
  BY <1>1, CurrentConstants DEF Init, CallOK, AppliesOK
<1>5. QED BY <1>2, <1>3, <1>4 DEF SInv, RefsExact

LEMMA StutterKeeps ==
  ASSUME SInv, UNCHANGED vars PROVE SInv'
BY DEF vars, SInv, TypeOK, RefsExact, Owners, CurrentOwners, OldOwners, HeldOwners,
       LocalOwners, Locals, OrphanOwners, CallOK, AppliesOK, Inner

LEMMA StepKeeps ==
  ASSUME CurrentConstants, SInv, [Next]_vars PROVE SInv'
<1>1. CASE UNCHANGED vars
  BY <1>1, StutterKeeps
<1>2. ASSUME NEW t \in Thread,
             \/ RetainNew(t) \/ ReleaseOld(t) \/ Leave(t) \/ Return(t)
             \/ GetCurrent(t) \/ End(t) \/ SetCurrent(t, None)
      PROVE  SInv'
  BY <1>2, RetainKeeps, ReleaseKeeps, LeaveKeeps, ReturnKeeps, GetKeeps, EndKeeps, SetKeeps
<1>3. ASSUME NEW t \in Thread, NEW u \in Update \cup {None}, SetUpdate(t, u) PROVE SInv'
  BY <1>3, UpdateKeeps
<1>4. ASSUME NEW t \in Thread, NEW s \in Subgraph,
             \/ Create(t, s) \/ SetCurrent(t, s) \/ Enter(t, s) \/ Drop(t, s)
      PROVE  SInv'
  BY <1>4, CreateKeeps, SetKeeps, EnterKeeps, DropKeeps
<1>5. ASSUME NEW t \in Thread, NEW s \in Subgraph, NEW u \in Thread, Pass(t, u, s) PROVE SInv'
  BY <1>5, PassKeeps
<1>6. QED BY <1>1, <1>2, <1>3, <1>4, <1>5 DEF Next

LEMMA Invariance == Spec => []SInv
<1>1. Init => SInv
  BY InitInv, CurrentConstants
<1>2. SInv /\ [Next]_vars => SInv'
  BY StepKeeps, CurrentConstants
<1>3. QED BY <1>1, <1>2, PTL DEF Spec

\* Every variable keeps the shape the code gives it; no count passes below 0.
THEOREM TypesRight == Spec => []TypeOK
<1>1. SInv => TypeOK
  BY DEF SInv
<1>2. QED BY <1>1, Invariance, PTL

\* Between any two CF calls of any threads, the count of a subgraph is the
\* number of pointers that own a reference to it.
THEOREM CountsRight == Spec => []RefsExact
<1>1. SInv => RefsExact
  BY DEF SInv
<1>2. QED BY <1>1, Invariance, PTL

\* No thread frees what another has current, is about to release, or restores.
THEOREM NamesRight == Spec => []NamesLive
<1>1. SInv => NamesLive
  <2> SUFFICES ASSUME SInv, NEW t \in Thread
               PROVE  /\ Live(current[t]) /\ Live(call[t].new)
                      /\ call[t].step \in {"retain", "release"} => Live(call[t].old)
                      /\ \A i \in DOMAIN applies[t] :
                           Live(applies[t][i].self) /\ Live(applies[t][i].current)
    BY DEF NamesLive
  <2>0. TypeOK /\ RefsExact /\ CallOK(t) /\ AppliesOK(t)
    BY DEF SInv
  <2>1. ASSUME NEW i \in 1..Len(applies[t])
        PROVE  Live(applies[t][i].self) /\ Live(applies[t][i].current)
    <3>1. /\ applies[t][i] \in Apply /\ Len(applies[t]) \in Nat
      BY <2>0, Types
    <3>2. applies[t][i].self \in Subgraph /\ applies[t][i].current \in Subgraph \cup {None}
      BY <3>1 DEF Apply
    <3>3. applies[t][i].self \in held[t] /\ i <= MaxApplies
      BY <2>0, <3>1, CurrentConstants DEF AppliesOK
    <3>4. QED BY <2>0, <3>2, <3>3, OwnedIsLive, CurrentConstants DEF Live
  <2>2. Live(current[t])
    <3>1. current[t] \in Subgraph \cup {None}
      BY <2>0, Types
    <3>2. CASE call[t].step # "retain"
      BY <2>0, <3>1, <3>2, OwnedIsLive, CurrentConstants DEF Live, OwnsCurrent
    <3>3. CASE call[t].step = "retain" /\ ~call[t].leaves
      BY <2>0, <3>1, <3>3, OwnedIsLive, CurrentConstants DEF Live, CallOK
    <3>4. CASE call[t].leaves
      BY <2>0, <2>1, <3>4, InnerIs DEF CallOK
    <3>5. QED BY <3>2, <3>3, <3>4
  <2>3. call[t].step \in {"retain", "release"} => Live(call[t].old)
    BY <2>0, Types, OwnedIsLive, CurrentConstants DEF Live, OwnsCurrent, OwnsOld
  <2>4. Live(call[t].new)
    <3>1. CASE call[t].step \in {"retain", "release"}
      BY <2>0, <2>2, <3>1 DEF CallOK
    <3>2. CASE call[t].step \notin {"retain", "release"}
      BY <2>0, <3>2 DEF CallOK, Live
    <3>3. QED BY <3>1, <3>2
  <2>5. DOMAIN applies[t] = 1..Len(applies[t])
    BY <2>0, Types
  <2>6. QED BY <2>1, <2>2, <2>3, <2>4, <2>5
<1>2. QED BY <1>1, Invariance, PTL

LEMMA StepRestores ==
  ASSUME SInv, Next, NEW t \in Thread, Len(applies'[t]) < Len(applies[t])
  PROVE  current'[t] = Inner(t).entry /\ update'[t] = Inner(t).update
<1>0. /\ applies \in [Thread -> Seq(Apply)] /\ update \in [Thread -> Update \cup {None}]
      /\ Len(applies[t]) \in Nat
  BY Types DEF SInv, TypeOK
<1>1. applies' # applies
  BY <1>0
<1>2. PICK u \in Thread : Return(u) \/ \E s \in Subgraph : Enter(u, s)
  <2>1. \A u \in Thread : RetainNew(u) \/ ReleaseOld(u) \/ Leave(u) => applies' = applies
    BY DEF RetainNew, ReleaseOld, Leave
  <2>2. \A u \in Thread : GetCurrent(u) \/ End(u) => applies' = applies
    BY DEF GetCurrent, End
  <2>3. \A u \in Thread : \A x : SetCurrent(u, x) \/ SetUpdate(u, x) => applies' = applies
    BY DEF SetCurrent, SetUpdate
  <2>4. \A u, w \in Thread, s \in Subgraph :
          Create(u, s) \/ Drop(u, s) \/ Pass(u, w, s) => applies' = applies
    BY DEF Create, Drop, Pass
  <2>5. QED BY <1>1, <2>1, <2>2, <2>3, <2>4 DEF Next
<1>3. u = t
  <2> SUFFICES ASSUME u # t PROVE FALSE
    OBVIOUS
  <2>1. applies'[t] = applies[t]
    <3>1. CASE Return(u)
      BY <1>0, <3>1 DEF Return
    <3>2. ASSUME NEW s \in Subgraph, Enter(u, s) PROVE applies'[t] = applies[t]
      BY <1>0, <3>2 DEF Enter
    <3>3. QED BY <1>2, <3>1, <3>2
  <2>2. QED BY <1>0, <2>1
<1>4. ASSUME NEW s \in Subgraph, Enter(t, s) PROVE FALSE
  <2> DEFINE a == [self |-> s, current |-> current[t], update |-> update[t],
                   entry |-> current[t]]
  <2>1. applies'[t] = Append(applies[t], a)
    BY <1>0, <1>4 DEF Enter
  <2>2. a \in Apply
    BY <1>4, Types DEF SInv, Apply
  <2> HIDE DEF a
  <2>3. Len(applies'[t]) = Len(applies[t]) + 1
    BY <1>0, <2>1, <2>2, Pushed
  <2>4. QED BY <1>0, <2>3
<1>5. Return(t)
  BY <1>2, <1>3, <1>4
<1>6. applies[t] # <<>> /\ current[t] = Inner(t).current
  BY <1>5 DEF SInv, CallOK, Return
<1>7. Inner(t).entry = Inner(t).current
  BY <1>6, InnerIs DEF SInv, AppliesOK
<1>8. QED BY <1>0, <1>5, <1>6, <1>7 DEF Return

\* An apply gives its caller back the current subgraph and the update, whatever
\* its body did and however deep it nested.
THEOREM RestoresRight == Spec => ApplyRestores
<1> DEFINE Restored == \A t \in Thread :
             Len(applies'[t]) < Len(applies[t])
               => /\ current'[t] = Inner(t).entry
                  /\ update'[t] = Inner(t).update
<1>1. SInv /\ [Next]_vars => [Restored]_vars
  BY StepRestores
<1>2. QED BY <1>1, Invariance, PTL DEF Spec, ApplyRestores
=============================================================================
