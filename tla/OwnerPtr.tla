------------------------------ MODULE OwnerPtr ------------------------------
(***************************************************************************)
(* util::cf_ptr (Utilities/cf_ptr.hpp), the owner of one reference to a    *)
(* CoreFoundation object; objc_ptr is the same with other calls.           *)
(*                                                                         *)
(* The owners are variables of the client and members of the objects       *)
(* themselves: an object that is freed destroys its member, which releases *)
(* in turn.  That happens in the middle of an assignment, which releases   *)
(* the old object before it reads the other owner and retains the new one. *)
(*                                                                         *)
(* Reading an owner in a freed object, and retaining a freed one, is       *)
(* `misuse`; nothing is followed from there on.                            *)
(***************************************************************************)
EXTENDS Integers, FiniteSets, SharedConstants

CONSTANT
  Variable  \* the owners a client declares; without a reference they may be
            \* constructed again

ASSUME OwnerConstants ==
  /\ IsFiniteSet(Object) /\ IsFiniteSet(Variable)
  /\ Variable \cap Object = {} /\ Null \notin Object

VARIABLES
  storage,  \* [owner -> _storage]; the owner in object o is named o
  count,    \* [Object -> its reference count]; 0 when it is freed
  held,     \* the objects the client holds a reference of its own to
  misuse    \* was freed memory read?

ownerVars == <<storage, count, held, misuse>>

Owner == Variable \cup Object

-----------------------------------------------------------------------------
(* CoreFoundation.                                                         *)

Heap(s, c) == [storage |-> s, count |-> c]

Now == Heap(storage, count)

Retained(h, o) ==
  IF o = Null THEN h ELSE [h EXCEPT !.count[o] = @ + 1]

\* A reference to c.pending is given up in c.heap: when that frees the object,
\* its member is destroyed and releases the object it refers to next.
Releasing(c) ==
  LET o == c.pending
      h == c.heap
  IN IF o = Null THEN c
     ELSE IF h.count[o] > 1
     THEN [heap |-> [h EXCEPT !.count[o] = @ - 1], pending |-> Null]
     ELSE [heap |-> [h EXCEPT !.storage[o] = Null, !.count[o] = 0], pending |-> h.storage[o]]

\* CFRelease, and what follows.  Each step but the last frees an object.
Released(h, o) ==
  LET at[n \in Nat] == IF n = 0 THEN [heap |-> h, pending |-> o] ELSE Releasing(at[n - 1])
  IN at[Cardinality(Object)].heap

Become(h) == storage' = h.storage /\ count' = h.count

-----------------------------------------------------------------------------
(* The client, which can name its variables, and the objects and owners it *)
(* gets at from there.                                                     *)

\* Whatever these objects own is among them.
ClosedUnder(s, objects) == \A o \in objects : s[o] \in objects \cup {Null}

\* The objects at the end of any chain of owners from there.
Reachable(s) ==
  {o \in Object : \A objects \in SUBSET Object :
     held \cup ({s[p] : p \in Variable} \ {Null}) \subseteq objects /\ ClosedUnder(s, objects)
       => o \in objects}

Usable == Variable \cup Reachable(storage)

CreateObject(o) ==
  /\ ~misuse /\ count[o] = 0
  /\ count' = [count EXCEPT ![o] = 1]
  /\ held' = held \cup {o}
  /\ UNCHANGED <<storage, misuse>>

DropObject(o) ==
  /\ ~misuse /\ o \in held
  /\ held' = held \ {o}
  /\ Become(Released(Now, o))
  /\ UNCHANGED misuse

-----------------------------------------------------------------------------
(* Construction and destruction of a variable.                             *)

Unconstructed(p) == ~misuse /\ p \in Variable /\ storage[p] = Null

Construct(p, o) ==
  /\ Unconstructed(p) /\ o \in Reachable(storage)
  /\ Become(Retained([Now EXCEPT !.storage[p] = o], o))
  /\ UNCHANGED <<held, misuse>>

CopyConstruct(p, q) ==
  /\ Unconstructed(p) /\ q \in Usable
  /\ Become(Retained([Now EXCEPT !.storage[p] = storage[q]], storage[q]))
  /\ UNCHANGED <<held, misuse>>

MoveConstruct(p, q) ==
  /\ Unconstructed(p) /\ q \in Usable \ {p}
  /\ storage' = [storage EXCEPT ![p] = storage[q], ![q] = Null]
  /\ UNCHANGED <<count, held, misuse>>

Destruct(p) ==
  /\ ~misuse /\ p \in Variable
  /\ Become(Released([Now EXCEPT !.storage[p] = Null], storage[p]))
  /\ UNCHANGED <<held, misuse>>

-----------------------------------------------------------------------------
(* Assignment.                                                             *)

\* Once the old object is released, the other owner, or the new object, may be
\* gone.
Misuses == misuse' = TRUE /\ UNCHANGED <<storage, count, held>>

\* The heap after p has released what it owned, to which it still points.
AfterRelease(p) == Released(Now, storage[p])

\* p takes o over in heap h, with the reference that comes with it or one more.
Retaining(h, p, o) == Retained([h EXCEPT !.storage[p] = o], o)

Freed(h, o) == o \in Object /\ h.count[o] = 0

\* mutant: the test for self-assignment is missing.
CopyAssignUnguarded(p, q) ==
  /\ ~misuse /\ {p, q} \subseteq Usable
  /\ LET h == AfterRelease(p)
     IN IF Freed(h, q) \/ Freed(h, h.storage[q]) THEN Misuses
        ELSE /\ Become(Retaining(h, p, h.storage[q]))
             /\ UNCHANGED <<held, misuse>>

CopyAssign(p, q) ==
  /\ ~misuse /\ {p, q} \subseteq Usable /\ p # q
  /\ LET h == AfterRelease(p)
     IN IF Freed(h, q) \/ Freed(h, h.storage[q]) THEN Misuses
        ELSE /\ Become(Retaining(h, p, h.storage[q]))
             /\ UNCHANGED <<held, misuse>>

\* mutant: the other owner keeps its reference.
MoveAssignKeepsOther(p, q) ==
  /\ ~misuse /\ {p, q} \subseteq Usable /\ p # q
  /\ LET h == AfterRelease(p)
     IN IF Freed(h, q) THEN Misuses
        ELSE /\ Become([h EXCEPT !.storage[p] = h.storage[q]])
             /\ UNCHANGED <<held, misuse>>

MoveAssign(p, q) ==
  /\ ~misuse /\ {p, q} \subseteq Usable /\ p # q
  /\ LET h == AfterRelease(p)
     IN IF Freed(h, q) THEN Misuses
        ELSE /\ Become([h EXCEPT !.storage[p] = h.storage[q], !.storage[q] = Null])
             /\ UNCHANGED <<held, misuse>>

\* reset(T), with an object the client gets at without retaining it.
ResetOwner(p, o) ==
  /\ ~misuse /\ p \in Usable
  /\ o \in Reachable(storage) \cup {Null} /\ o # storage[p]
  /\ LET h == AfterRelease(p)
     IN IF Freed(h, o) THEN Misuses
        ELSE /\ Become(Retaining(h, p, o))
             /\ UNCHANGED <<held, misuse>>

OwnerInit ==
  /\ storage = [p \in Owner |-> Null]
  /\ count = [o \in Object |-> 0]
  /\ held = {}
  /\ misuse = FALSE

OwnerNext ==
  \/ \E o \in Object : CreateObject(o) \/ DropObject(o)
  \/ \E p \in Owner : Destruct(p)
  \/ \E p \in Owner, o \in Object \cup {Null} : Construct(p, o) \/ ResetOwner(p, o)
  \/ \E p, q \in Owner :
       \/ CopyConstruct(p, q) \/ MoveConstruct(p, q)
       \/ CopyAssign(p, q) \/ MoveAssign(p, q)

OwnerSpec == OwnerInit /\ [][OwnerNext]_ownerVars

-----------------------------------------------------------------------------
(* Properties.                                                             *)

\* The reference count of every object is the number of owners that refer to
\* it, and of references the client holds: nothing is freed early or leaks,
\* whatever objects are freed in the middle of an assignment.
CountsExact ==
  \A o \in Object :
    count[o] = Cardinality({p \in Owner : storage[p] = o}) + Cardinality({o} \cap held)

\* An assignment from a variable, also to the owner it is itself, and a reset to
\* an object that the client holds or another variable refers to, read no freed
\* memory.  (p = p->next does, when p was the last to refer to its object.)
AssignFromVariableSafe ==
  [][misuse' # misuse =>
       \A p \in Owner :
         /\ \A q \in Variable : ~CopyAssign(p, q) /\ ~MoveAssign(p, q)
         /\ \A o \in held \cup {storage[q] : q \in Variable \ {p}} : ~ResetOwner(p, o)]_ownerVars
=============================================================================
