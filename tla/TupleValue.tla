----------------------------- MODULE TupleValue -----------------------------
(***************************************************************************)
(* Values of tuple types (Cxx/Runtime/OAGTupleType.cpp, UnsafeMutableTuple *)
(* of TupleType.swift): memory whose elements are initialised, copied,     *)
(* taken and destroyed one by one, through the metadata of their types.    *)
(*                                                                         *)
(* An element is a handle on a counted object, and stands at the first of  *)
(* its bytes.  What the compiler's metadata says of a tuple type is one of *)
(* `Layout`; a value witness applied to bytes that are not an element of   *)
(* its type goes "astray", and nothing is followed from there on.  An      *)
(* initialisation over an element leaks it, and so does a closure that     *)
(* leaves one in its buffer.  A failed precondition ends the process.      *)
(***************************************************************************)
EXTENDS Integers, FiniteSets, SharedConstants

CONSTANTS
  Layout,    \* [tuple |-> is it one?, type, offset |-> by the index of elements]
  Byte,      \* the addresses in a buffer
  Class,     \* [Object -> its type]
  Slot,      \* the client's own elements
  SlotType,  \* [Slot -> its type]
  MayMisfit, \* may clients choose an option that does not fit the destination, and
             \* access elements that are not initialised?
  MaxLeaked  \* bound: nothing is followed once more handles on an object leaked

\* The elements of a tuple are numbered from 0, and each takes a byte at least.
ASSUME TupleConstants ==
  /\ Raw \notin Object /\ IsFiniteSet(Slot)
  /\ Byte \subseteq Nat /\ IsFiniteSet(Byte)
  /\ \A t \in Layout :
       /\ DOMAIN t.type \subseteq Byte
       /\ DOMAIN t.type = 0..(Cardinality(DOMAIN t.type) - 1)
       /\ t.offset \in [DOMAIN t.type -> Byte]

VARIABLES
  layout,    \* the type of the tuple
  memory,    \* [Byte -> the element that begins there]
  own,       \* [Slot -> the client's element]
  handles,   \* [Object -> the handles on it]
  leaked,    \* [Object -> those among them that no element is left for]
  state      \* of the process: "idle", "in buffer", "ended", "astray"

tupleVars == <<layout, memory, own, handles, leaked, state>>

-----------------------------------------------------------------------------
TupleCount == Cardinality(DOMAIN layout.type)

OffsetOf(i) == layout.offset[i]

\* The test before every access by index and type.
Admits(i, type) == i < TupleCount /\ layout.type[i] = type

\* The indices a client tries: those of the elements, and one out of range.
Index == 0..TupleCount

Holds(place, type) == place # Raw /\ Class[place] = type

Option == [assign: BOOLEAN, take: BOOLEAN]

\* What the option's value witness relies on, and what loses nothing besides.
Sound(dst, src, type, option) == Holds(src, type) /\ (option.assign => Holds(dst, type))

Fits(dst, src, type, option) == Sound(dst, src, type, option) /\ (~option.assign => dst = Raw)

Changed(place, n) ==
  [o \in Object |-> IF o = place THEN n ELSE 0]

\* mutant: assigning does not give up what was there.
UpdateKeeps(dst, src, option) ==
  [dst |-> src, src |-> IF option.take THEN Raw ELSE src,
   handles |-> [o \in Object |-> handles[o]
                  + Changed(src, IF option.take THEN 0 ELSE 1)[o]],
   leaked |-> leaked]

\* update: the value witness of the option, which returns with the source in
\* the destination.  To initialise gives up nothing that was there.
Update(dst, src, option) ==
  [dst |-> src, src |-> IF option.take THEN Raw ELSE src,
   handles |-> [o \in Object |-> handles[o]
                  + Changed(src, IF option.take THEN 0 ELSE 1)[o]
                  - Changed(dst, IF option.assign THEN 1 ELSE 0)[o]],
   leaked |-> [o \in Object |-> leaked[o] + Changed(dst, IF option.assign THEN 0 ELSE 1)[o]]]

-----------------------------------------------------------------------------
InBuffer == state = "in buffer"

Ends(how) == state' = how /\ UNCHANGED <<layout, memory, own, handles, leaked>>

\* OAGTupleWithBuffer hands a buffer to the client's closure.
WithBuffer ==
  /\ state = "idle" /\ state' = "in buffer"
  /\ layout' \in Layout
  /\ memory' = [a \in Byte |-> Raw]
  /\ UNCHANGED <<own, handles, leaked>>

Held(o) == Cardinality({a \in Byte : memory[a] = o})

\* The closure returns, and the buffer goes with all that is still in it.
Return ==
  /\ InBuffer /\ state' = "idle"
  /\ leaked' = [o \in Object |-> leaked[o] + Held(o)]
  /\ memory' = [a \in Byte |-> Raw]
  /\ UNCHANGED <<layout, own, handles>>

\* The client makes an element of its own, or destroys it.
Make(s, o) ==
  /\ InBuffer /\ own[s] = Raw /\ Class[o] = SlotType[s]
  /\ own' = [own EXCEPT ![s] = o]
  /\ handles' = [handles EXCEPT ![o] = @ + 1]
  /\ UNCHANGED <<layout, memory, leaked, state>>

Unmake(s) ==
  /\ InBuffer /\ own[s] # Raw
  /\ own' = [own EXCEPT ![s] = Raw]
  /\ handles' = [handles EXCEPT ![own[s]] = @ - 1]
  /\ UNCHANGED <<layout, memory, leaked, state>>

SetElement(i, s, option) ==
  /\ InBuffer
  /\ Admits(i, SlotType[s])
  /\ MayMisfit \/ Fits(memory[layout.offset[i]], own[s], SlotType[s], option)
  /\ LET a == OffsetOf(i)
         u == Update(memory[a], own[s], option)
     IN IF Sound(memory[a], own[s], SlotType[s], option)
        THEN /\ memory' = [memory EXCEPT ![a] = u.dst]
             /\ own' = [own EXCEPT ![s] = u.src]
             /\ handles' = u.handles /\ leaked' = u.leaked
             /\ UNCHANGED <<layout, state>>
        ELSE Ends("astray")

GetElement(i, s, option) ==
  /\ InBuffer
  /\ Admits(i, SlotType[s])
  /\ MayMisfit \/ Fits(own[s], memory[layout.offset[i]], SlotType[s], option)
  /\ LET a == OffsetOf(i)
         u == Update(own[s], memory[a], option)
     IN IF Sound(own[s], memory[a], SlotType[s], option)
        THEN /\ own' = [own EXCEPT ![s] = u.dst]
             /\ memory' = [memory EXCEPT ![a] = u.src]
             /\ handles' = u.handles /\ leaked' = u.leaked
             /\ UNCHANGED <<layout, state>>
        ELSE Ends("astray")

\* "index out of range", "element type mismatch"
FailedAccess(i, s) == InBuffer /\ ~Admits(i, SlotType[s]) /\ Ends("ended")

Initialised(i) == Holds(memory[layout.offset[i]], layout.type[i])

\* OAGTupleDestroy destroys every element.
Destroy ==
  /\ InBuffer
  /\ IF \A i \in DOMAIN layout.type : Initialised(i)
     THEN /\ handles' = [o \in Object |-> handles[o] - Held(o)]
          /\ memory' = [a \in Byte |-> Raw]
          /\ UNCHANGED <<layout, own, leaked, state>>
     ELSE MayMisfit /\ Ends("astray")

\* Where OAGTupleDestroyElement destroys: it adds the index to the address.
DestroyedAt(i) == i

\* A type that is no tuple is destroyed too, but then its metadata is read on
\* as if it were a tuple's.
DestroyElement(i) ==
  /\ InBuffer
  /\ i < TupleCount /\ (MayMisfit \/ Initialised(i))
  /\ LET a == DestroyedAt(i)
     IN IF layout.tuple /\ Holds(memory[a], layout.type[i])
        THEN /\ memory' = [memory EXCEPT ![a] = Raw]
             /\ handles' = [handles EXCEPT ![memory[a]] = @ - 1]
             /\ UNCHANGED <<layout, own, leaked, state>>
        ELSE Ends("astray")

FailedDestroy(i) == InBuffer /\ i >= TupleCount /\ Ends("ended")

TupleInit ==
  /\ state = "idle"
  /\ layout \in Layout
  /\ memory = [a \in Byte |-> Raw]
  /\ own = [s \in Slot |-> Raw]
  /\ handles = [o \in Object |-> 0]
  /\ leaked = [o \in Object |-> 0]

TupleNext ==
  /\ \A o \in Object : leaked[o] <= MaxLeaked
  /\ \/ WithBuffer \/ Return \/ Destroy
     \/ \E s \in Slot, o \in Object : Make(s, o)
     \/ \E s \in Slot : Unmake(s)
     \/ \E i \in Index, s \in Slot :
          \/ FailedAccess(i, s)
          \/ \E option \in Option : SetElement(i, s, option) \/ GetElement(i, s, option)
     \/ \E i \in Index : DestroyElement(i) \/ FailedDestroy(i)

TupleSpec == TupleInit /\ [][TupleNext]_tupleVars

-----------------------------------------------------------------------------
(* Properties.                                                             *)

\* The handles on an object are the elements there are, in the tuple and with
\* the client, and those the client itself lost: what it initialised over, or left
\* in a buffer.  No copy, take, assignment or destruction loses another one or
\* gives one up twice, whatever option is chosen for whatever element.
TupleHandlesExact ==
  \A o \in Object :
    handles[o] = Held(o) + Cardinality({s \in Slot : own[s] = o}) + leaked[o]

\* "Memory management: Proper cleanup with element-wise deinitialization"
\* (UnsafeMutableTuple.md:27): clients that choose options that fit, and destroy
\* what is initialised, never have a value witness applied to anything but an
\* element of its type.
NothingAstray == state # "astray"
=============================================================================
