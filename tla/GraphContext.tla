---------------------------- MODULE GraphContext ----------------------------
(***************************************************************************)
(* The life of a graph (Cxx/Graph/OAGGraph.cpp): a CoreFoundation object   *)
(* with a Context inside and a flag beside it that says whether ~Context   *)
(* has run.  Invalidation runs it, and so does the deallocation of a graph *)
(* that was never invalidated; every other call fails its precondition on  *)
(* a graph that was.                                                       *)
(*                                                                         *)
(* Nothing is locked: an invalidation tests the flag, runs ~Context and    *)
(* sets the flag, and any other call tests the flag and then uses the      *)
(* context.  A failed precondition ends the process.  The Graph that       *)
(* creation allocates is never deleted, and the context never constructed; *)
(* neither shows here.                                                     *)
(***************************************************************************)
EXTENDS Naturals, FiniteSets, SharedConstants

CONSTANTS
  Graph,   \* the graphs that clients may create
  None     \* no graph

VARIABLES
  holds,      \* the pairs of a thread and a graph it has a reference to
  life,       \* [Graph -> "none", "live" or "freed"]
  invalid,    \* [Graph -> _isInvalid]
  destroyed,  \* [Graph -> how often ~Context ran]
  misused,    \* the graphs whose context was used after ~Context
  call,       \* [Thread -> the call it is in]
  overlapped, \* the graphs whose invalidation overlapped another call
  ended       \* has a precondition failed?

graphVars == <<holds, life, invalid, destroyed, misused, call, overlapped, ended>>

-----------------------------------------------------------------------------
\* What the proofs and the runs assume of the constants.
GraphConstants == None \notin Graph

Idle == [graph |-> None, step |-> "none", new |-> None]

\* A thread in no call, which may begin one on a graph it has.
MayCall(t, g) == ~ended /\ call[t] = Idle /\ <<t, g>> \in holds

At(t, step) == ~ended /\ call[t].step = step

Goes(t, g, step) ==
  call' = [call EXCEPT ![t] = [graph |-> g, step |-> step, new |-> None]]

\* A call on g begins; is another thread in one that must not overlap it?
Overlaps(g, steps) ==
  overlapped' = overlapped \cup
    {h \in {g} : \E u \in Thread : call[u].graph = h /\ call[u].step \in steps}

Fails ==
  /\ ended' = TRUE
  /\ UNCHANGED <<holds, life, invalid, destroyed, misused, call, overlapped>>

\* OAGGraphCreate, which makes a Graph.
Create(t, g) ==
  /\ ~ended /\ call[t] = Idle /\ life[g] = "none"
  /\ life' = [life EXCEPT ![g] = "live"]
  /\ invalid' = [invalid EXCEPT ![g] = FALSE]
  /\ holds' = holds \cup {<<t, g>>}
  /\ UNCHANGED <<destroyed, misused, call, overlapped, ended>>

\* OAGGraphCreateShared, which takes the Graph of the graph `from`: the object is
\* there when `from` is tested and its context used.
CreateShared(t, g, from) ==
  /\ MayCall(t, from) /\ life[g] = "none"
  /\ IF invalid[from] THEN Fails
     ELSE /\ life' = [life EXCEPT ![g] = "live"]
          /\ call' = [call EXCEPT ![t] = [graph |-> from, step |-> "use", new |-> g]]
          /\ Overlaps(from, {"destroy", "mark"})
          /\ UNCHANGED <<holds, invalid, destroyed, misused, ended>>

\* A thread gives another one a reference.
Pass(t, u, g) ==
  /\ MayCall(t, g) /\ <<u, g>> \notin holds
  /\ holds' = holds \cup {<<u, g>>}
  /\ UNCHANGED <<life, invalid, destroyed, misused, call, overlapped, ended>>

\* mutant: the context of an invalidated graph is destroyed again.
DeallocRunsAlways(g) == [destroyed EXCEPT ![g] = @ + 1]

\* dealloc
Dealloc(g) == IF invalid[g] THEN destroyed ELSE [destroyed EXCEPT ![g] = @ + 1]

\* CFRelease of a thread's reference, which may be the last one.
Drop(t, g) ==
  /\ MayCall(t, g)
  /\ holds' = holds \ {<<t, g>>}
  /\ IF \E u \in Thread : <<u, g>> \in holds'
     THEN UNCHANGED <<life, destroyed>>
     ELSE life' = [life EXCEPT ![g] = "freed"] /\ destroyed' = Dealloc(g)
  /\ UNCHANGED <<invalid, misused, call, overlapped, ended>>

\* OAGGraphInvalidate: nothing to do, or ~Context and then the flag.
Invalidate(t, g) ==
  /\ MayCall(t, g) /\ ~invalid[g]
  /\ Goes(t, g, "destroy")
  /\ Overlaps(g, {"destroy", "mark", "use"})
  /\ UNCHANGED <<holds, life, invalid, destroyed, misused, ended>>

DestroyContext(t) ==
  /\ At(t, "destroy")
  /\ destroyed' = [destroyed EXCEPT ![call[t].graph] = @ + 1]
  /\ Goes(t, call[t].graph, "mark")
  /\ UNCHANGED <<holds, life, invalid, misused, overlapped, ended>>

MarkInvalid(t) ==
  /\ At(t, "mark")
  /\ invalid' = [invalid EXCEPT ![call[t].graph] = TRUE]
  /\ call' = [call EXCEPT ![t] = Idle]
  /\ UNCHANGED <<holds, life, destroyed, misused, overlapped, ended>>

\* A call that reads or sets something in the context: OAGGraphGetContext,
\* SetContext, SetUpdateCallback, SetInvalidationCallback, GetCounter, ...
Access(t, g) ==
  /\ MayCall(t, g)
  /\ IF invalid[g] THEN Fails
     ELSE /\ Goes(t, g, "use")
          /\ Overlaps(g, {"destroy", "mark"})
          /\ UNCHANGED <<holds, life, invalid, destroyed, misused, ended>>

UseContext(t) ==
  LET g == call[t].graph
      created == {call[t].new} \ {None}
  IN /\ At(t, "use")
     /\ misused' = misused \cup {h \in {g} : destroyed[h] > 0}
     /\ invalid' = [h \in Graph |-> invalid[h] /\ h \notin created]
     /\ holds' = holds \cup ({t} \X created)
     /\ call' = [call EXCEPT ![t] = Idle]
     /\ UNCHANGED <<life, destroyed, overlapped, ended>>

GraphInit ==
  /\ holds = {}
  /\ life = [g \in Graph |-> "none"]
  /\ invalid = [g \in Graph |-> FALSE]
  /\ destroyed = [g \in Graph |-> 0]
  /\ misused = {}
  /\ call = [t \in Thread |-> Idle]
  /\ overlapped = {}
  /\ ended = FALSE

GraphNext ==
  \E t \in Thread :
    \/ \E g \in Graph :
         \/ Create(t, g) \/ \E from \in Graph : CreateShared(t, g, from)
         \/ \E u \in Thread : Pass(t, u, g)
         \/ Drop(t, g) \/ Invalidate(t, g) \/ Access(t, g)
    \/ DestroyContext(t) \/ MarkInvalid(t) \/ UseContext(t)

GraphSpec == GraphInit /\ [][GraphNext]_graphVars

-----------------------------------------------------------------------------
(* Properties.                                                             *)

\* The context of a graph is destroyed once by the time the graph is freed, and
\* never twice nor used afterwards, whoever invalidates the graph, holds it or
\* lets it go: except when an invalidation overlaps another call on the same
\* graph, which clients must exclude.
ContextDestroyedOnce ==
  \A g \in Graph \ overlapped :
    /\ destroyed[g] <= 1 /\ g \notin misused
    /\ life[g] = "freed" => destroyed[g] = 1
=============================================================================
