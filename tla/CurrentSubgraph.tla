--------------------------- MODULE CurrentSubgraph ---------------------------
(***************************************************************************)
(* The current subgraph of each thread (OAGSubgraphSetCurrent and its      *)
(* callers): a thread-local pointer that owns a reference, and             *)
(* Subgraph.apply, which swaps it and the thread's current update for the  *)
(* time of a body and puts both back.                                      *)
(*                                                                         *)
(* Threads share subgraphs by reference counts alone; no lock is involved. *)
(* A thread's `held` are the variables of its client code, one reference   *)
(* each.  CFRetain and CFRelease are atomic; everything between two of     *)
(* them in OAGSubgraphSetCurrent may interleave with other threads.        *)
(***************************************************************************)
EXTENDS Integers, Sequences, FiniteSets, SequencesExt

CONSTANTS
  Thread,
  Subgraph,
  Update,    \* the values clients pass to OAGGraphSetUpdate
  None,      \* nullptr
  MaxApplies \* bound: applies under way, of all threads

ASSUME CurrentConstants ==
  None \notin Subgraph \cup Update /\ IsFiniteSet(Thread) /\ MaxApplies \in Nat

VARIABLES
  refs,     \* [subgraph -> its CF reference count, 0 before and after its life]
  freed,    \* the subgraphs that were deallocated
  current,  \* [thread -> the value of _current_subgraph_key]
  update,   \* [thread -> the value of _current_update_key]
  held,     \* [thread -> the subgraphs its client code has a reference to]
  call,     \* [thread -> the OAGSubgraphSetCurrent under way]
  applies,  \* [thread -> the applies it is in, the innermost last]
  ended,    \* the threads that are gone
  orphans   \* the references that gone threads had in their current

vars == <<refs, freed, current, update, held, call, applies, ended, orphans>>

-----------------------------------------------------------------------------
(* What SetCurrent still has to do: `step` is next, `new` is retained and  *)
(* `old` released.  `leaves`: the call is the one that ends an apply.      *)
Idle == [step |-> "none", new |-> None, old |-> None, leaves |-> FALSE]

Call ==
  {Idle} \cup [step: {"retain", "release", "return"}, new: Subgraph \cup {None},
               old: Subgraph \cup {None}, leaves: BOOLEAN]

\* The locals of an apply; `entry` is the current subgraph that the caller had.
Apply == [self: Subgraph, current: Subgraph \cup {None},
          update: Update \cup {None}, entry: Subgraph \cup {None}]

Inner(t) == Last(applies[t])

\* The applies under way, by thread and depth.
Locals == {f \in Thread \X (1 .. MaxApplies) : f[2] <= Len(applies[f[1]])}

\* Client code runs: outside SetCurrent.
Running(t) == t \notin ended /\ call[t] = Idle

Live(s) == s = None \/ refs[s] > 0

\* One reference less, and dealloc after the last.
Release(s) ==
  /\ refs' = [refs EXCEPT ![s] = @ - 1]
  /\ freed' = IF refs[s] = 1 THEN freed \cup {s} ELSE freed

Retain(s) ==
  /\ refs' = [refs EXCEPT ![s] = @ + 1]
  /\ UNCHANGED freed

\* A subgraph that the thread's applies run on stays with their callers.
InUse(t) == {applies[t][i].self : i \in DOMAIN applies[t]}

-----------------------------------------------------------------------------
(* OAGSubgraphSetCurrent.  The pointer is stored first, then the new       *)
(* subgraph retained, then the old one released.                           *)

Start(t, s, leaves) ==
  /\ current' = [current EXCEPT ![t] = s]
  /\ call' = [call EXCEPT ![t] = [step |-> "retain", new |-> s,
                                  old |-> current[t], leaves |-> leaves]]

RetainNew(t) ==
  /\ call[t].step = "retain"
  /\ IF call[t].new # None THEN Retain(call[t].new) ELSE UNCHANGED <<refs, freed>>
  /\ call' = [call EXCEPT ![t].step = "release"]
  /\ UNCHANGED <<current, update, held, applies, ended, orphans>>

ReleaseOld(t) ==
  /\ call[t].step = "release"
  /\ IF call[t].old # None THEN Release(call[t].old) ELSE UNCHANGED <<refs, freed>>
  /\ call' = [call EXCEPT ![t] = IF @.leaves
                                 THEN [Idle EXCEPT !.step = "return", !.leaves = TRUE]
                                 ELSE Idle]
  /\ UNCHANGED <<current, update, held, applies, ended, orphans>>

SetCurrent(t, s) ==
  /\ Running(t) /\ s \in held[t] \cup {None}
  /\ Start(t, s, FALSE)
  /\ UNCHANGED <<refs, freed, update, held, applies, ended, orphans>>

-----------------------------------------------------------------------------
(* Subgraph.apply.                                                         *)

\* mutant: the local does not retain.
EnterUnretained(t, s) ==
  /\ Running(t) /\ s \in held[t] /\ Cardinality(Locals) < MaxApplies
  /\ applies' = [applies EXCEPT ![t] = Append(@,
                   [self |-> s, current |-> current[t], update |-> update[t],
                    entry |-> current[t]])]
  /\ Start(t, s, FALSE)
  /\ UNCHANGED <<refs, freed, update, held, ended, orphans>>

\* clearUpdate returns the update, which it leaves as it is; the reference
\* to the current subgraph is retained in a local.
Enter(t, s) ==
  /\ Running(t) /\ s \in held[t] /\ Cardinality(Locals) < MaxApplies
  /\ applies' = [applies EXCEPT ![t] = Append(@,
                   [self |-> s, current |-> current[t], update |-> update[t],
                    entry |-> current[t]])]
  /\ IF current[t] # None THEN Retain(current[t]) ELSE UNCHANGED <<refs, freed>>
  /\ Start(t, s, FALSE)
  /\ UNCHANGED <<update, held, ended, orphans>>

\* mutant: the outermost apply's subgraph comes back.
LeaveToOutermost(t) ==
  /\ Running(t) /\ applies[t] # <<>>
  /\ Start(t, applies[t][1].current, TRUE)
  /\ UNCHANGED <<refs, freed, update, held, applies, ended, orphans>>

\* The body has returned: the deferred block sets the current subgraph, ...
Leave(t) ==
  /\ Running(t) /\ applies[t] # <<>>
  /\ Start(t, Inner(t).current, TRUE)
  /\ UNCHANGED <<refs, freed, update, held, applies, ended, orphans>>

\* mutant: the local keeps its reference.
ReturnKeepsLocal(t) ==
  /\ call[t].step = "return"
  /\ update' = [update EXCEPT ![t] = Inner(t).update]
  /\ applies' = [applies EXCEPT ![t] = Front(@)]
  /\ call' = [call EXCEPT ![t] = Idle]
  /\ UNCHANGED <<refs, freed, current, held, ended, orphans>>

\* ... then the update, and the local gives its reference up.
Return(t) ==
  /\ call[t].step = "return"
  /\ update' = [update EXCEPT ![t] = Inner(t).update]
  /\ IF Inner(t).current # None THEN Release(Inner(t).current)
     ELSE UNCHANGED <<refs, freed>>
  /\ applies' = [applies EXCEPT ![t] = Front(@)]
  /\ call' = [call EXCEPT ![t] = Idle]
  /\ UNCHANGED <<current, held, ended, orphans>>

-----------------------------------------------------------------------------
(* The rest of the client.                                                 *)

\* OAGSubgraphCreate2
Create(t, s) ==
  /\ Running(t) /\ refs[s] = 0 /\ s \notin freed
  /\ refs' = [refs EXCEPT ![s] = 1]
  /\ held' = [held EXCEPT ![t] = @ \cup {s}]
  /\ UNCHANGED <<freed, current, update, call, applies, ended, orphans>>

\* OAGSubgraphGetCurrent, whose result the caller retains.
GetCurrent(t) ==
  /\ Running(t) /\ current[t] # None /\ current[t] \notin held[t]
  /\ Retain(current[t])
  /\ held' = [held EXCEPT ![t] = @ \cup {current[t]}]
  /\ UNCHANGED <<current, update, call, applies, ended, orphans>>

\* A subgraph is given to another thread.
Pass(t, u, s) ==
  /\ Running(t) /\ u \notin ended
  /\ s \in held[t] \ held[u]
  /\ Retain(s)
  /\ held' = [held EXCEPT ![u] = @ \cup {s}]
  /\ UNCHANGED <<current, update, call, applies, ended, orphans>>

Drop(t, s) ==
  /\ Running(t) /\ s \in held[t] \ InUse(t)
  /\ Release(s)
  /\ held' = [held EXCEPT ![t] = @ \ {s}]
  /\ UNCHANGED <<current, update, call, applies, ended, orphans>>

\* OAGGraphSetUpdate
SetUpdate(t, u) ==
  /\ Running(t)
  /\ update' = [update EXCEPT ![t] = u]
  /\ UNCHANGED <<refs, freed, current, held, call, applies, ended, orphans>>

\* A thread ends.  The keys have no destructor: its current subgraph, if it
\* has one, keeps the reference.
End(t) ==
  /\ Running(t) /\ applies[t] = <<>> /\ held[t] = {}
  /\ ended' = ended \cup {t}
  /\ orphans' = IF current[t] = None THEN orphans
                ELSE Append(orphans, current[t])
  /\ current' = [current EXCEPT ![t] = None]
  /\ update' = [update EXCEPT ![t] = None]
  /\ UNCHANGED <<refs, freed, held, call, applies>>

-----------------------------------------------------------------------------
Init ==
  /\ refs = [s \in Subgraph |-> 0] /\ freed = {}
  /\ current = [t \in Thread |-> None] /\ update = [t \in Thread |-> None]
  /\ held = [t \in Thread |-> {}] /\ call = [t \in Thread |-> Idle]
  /\ applies = [t \in Thread |-> <<>>] /\ ended = {} /\ orphans = <<>>

Next ==
  \E t \in Thread :
    \/ RetainNew(t) \/ ReleaseOld(t) \/ Leave(t) \/ Return(t)
    \/ GetCurrent(t) \/ End(t)
    \/ SetCurrent(t, None)
    \/ \E u \in Update \cup {None} : SetUpdate(t, u)
    \/ \E s \in Subgraph :
         \/ Create(t, s) \/ SetCurrent(t, s) \/ Enter(t, s) \/ Drop(t, s)
         \/ \E u \in Thread : Pass(t, u, s)

Spec == Init /\ [][Next]_vars

-----------------------------------------------------------------------------
\* Every variable keeps the shape the code gives it; no count passes below 0.
TypeOK ==
  /\ refs \in [Subgraph -> Nat] /\ freed \subseteq Subgraph
  /\ current \in [Thread -> Subgraph \cup {None}]
  /\ update \in [Thread -> Update \cup {None}]
  /\ held \in [Thread -> SUBSET Subgraph]
  /\ call \in [Thread -> Call]
  /\ applies \in [Thread -> Seq(Apply)]
  /\ ended \subseteq Thread /\ orphans \in Seq(Subgraph)

\* The references to s that some pointer accounts for: client variables, the
\* current pointers (the new one from its CFRetain on, the old one until its
\* CFRelease), the locals of the applies, and the threads that are gone.
CurrentOwners(s) ==
  {t \in Thread : IF call[t].step = "retain" THEN call[t].old = s
                  ELSE current[t] = s}
OldOwners(s) == {t \in Thread : call[t].step = "release" /\ call[t].old = s}
HeldOwners(s) == {t \in Thread : s \in held[t]}
LocalOwners(s) ==
  {f \in Locals : applies[f[1]][f[2]].current = s}
OrphanOwners(s) == {i \in DOMAIN orphans : orphans[i] = s}

Owners(s) == Cardinality(CurrentOwners(s)) + Cardinality(OldOwners(s))
               + Cardinality(HeldOwners(s)) + Cardinality(LocalOwners(s))
               + Cardinality(OrphanOwners(s))

\* At every point between two CF calls, the count of a subgraph is the number
\* of pointers that own a reference to it: it is freed with the last of them,
\* neither earlier nor later (OAGSubgraph.cpp:77, Subgraph.swift:24).
RefsExact == \A s \in Subgraph : refs[s] = Owners(s)

\* What a thread's current pointer, its locals and its SetCurrent under way
\* name has not been freed by another thread (OAGSubgraph.cpp:89 follows the
\* old pointer after the new one is stored).
NamesLive ==
  \A t \in Thread :
    /\ Live(current[t]) /\ Live(call[t].new)
    /\ call[t].step \in {"retain", "release"} => Live(call[t].old)
    /\ \A i \in DOMAIN applies[t] :
         Live(applies[t][i].self) /\ Live(applies[t][i].current)

\* When an apply returns, its caller has the current subgraph and the update
\* it had at the call, whatever the body set and however deep it nested
\* (the deferred block of Subgraph.swift:27-30).
ApplyRestores ==
  [][\A t \in Thread :
       Len(applies'[t]) < Len(applies[t])
         => /\ current'[t] = Inner(t).entry
            /\ update'[t] = Inner(t).update]_vars
=============================================================================
