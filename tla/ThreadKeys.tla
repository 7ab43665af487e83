----------------------------- MODULE ThreadKeys -----------------------------
(***************************************************************************)
(* The two thread-specific keys, of a thread's update (Graph::current_key) *)
(* and of its current subgraph (Subgraph::current_key).  The constructor   *)
(* of the first Graph makes them, under a dispatch_once; until then both   *)
(* variables are 0, which is a key like any other: of some other library,  *)
(* or of nobody, in which case pthread_getspecific returns null and        *)
(* pthread_setspecific an error that nobody looks at.                      *)
(*                                                                         *)
(* Graph.withoutUpdate saves a thread's update and puts it back; the first *)
(* graph may be made in the middle of its body, or on another thread.      *)
(***************************************************************************)
EXTENDS Naturals, SharedConstants

CONSTANTS
  UpdateValue,  \* the updates clients set
  Foreign,      \* what another library keeps under key 0
  LastKey       \* bound: the keys pthread_key_create can make

VARIABLES
  once,       \* make_keys: "new", "running" or "done"
  maker,      \* [Thread -> what the thread still has to make, or "none"]
  made,       \* the number of keys made
  updateKey,  \* _current_update_key
  foreignKey, \* is key 0 another library's?
  slot,       \* [Thread -> [key -> its value]]
  saved,      \* [Thread -> what withoutUpdate saved, and what had been set]
  set,        \* [Thread -> the update its client set last]
  early       \* the threads that set or saved an update under key 0

keyVars == <<once, maker, made, updateKey, foreignKey, slot, saved, set, early>>

-----------------------------------------------------------------------------
\* What the proofs and the runs assume of the constants.
KeyConstants == LastKey \in Nat

Key == 0..LastKey

Exists(key) == key # 0 \/ foreignKey

\* pthread_getspecific
Specific(t, key) == IF Exists(key) THEN slot[t][key] ELSE Null

\* pthread_setspecific
SetSpecific(t, key, v) ==
  slot' = IF Exists(key) THEN [slot EXCEPT ![t][key] = v] ELSE slot

Outside == [value |-> Null, set |-> Null, inside |-> FALSE]

EarlyNow(t) == early' = IF updateKey = 0 THEN early \cup {t} ELSE early

\* mutant: every graph makes the keys.
FirstGraphEvery == once # "running"

\* dispatch_once: the first to come runs the block, the others wait for it.
FirstGraph == once = "new"

\* OAGGraphCreate, whose Graph() is where the keys are made.
CreateGraph(t) ==
  /\ maker[t] = "none"
  /\ FirstGraph
  /\ once' = "running"
  /\ maker' = [maker EXCEPT ![t] = "update"]
  /\ UNCHANGED <<made, updateKey, foreignKey, slot, saved, set, early>>

\* pthread_key_create of the update's key; if it fails the variable stays.
MakeUpdateKey(t) ==
  /\ maker[t] = "update"
  /\ \/ /\ made < LastKey /\ made' = made + 1 /\ updateKey' = made + 1
     \/ UNCHANGED <<made, updateKey>>
  /\ maker' = [maker EXCEPT ![t] = "subgraph"]
  /\ UNCHANGED <<once, foreignKey, slot, saved, set, early>>

\* The same of the subgraph's key, whose values nothing here looks at.
MakeSubgraphKey(t) ==
  /\ maker[t] = "subgraph"
  /\ \/ made < LastKey /\ made' = made + 1
     \/ UNCHANGED made
  /\ once' = "done"
  /\ maker' = [maker EXCEPT ![t] = "none"]
  /\ UNCHANGED <<updateKey, foreignKey, slot, saved, set, early>>

\* OAGGraphSetUpdate
SetUpdate(t, v) ==
  /\ maker[t] = "none"
  /\ SetSpecific(t, updateKey, v)
  /\ set' = [set EXCEPT ![t] = v]
  /\ EarlyNow(t)
  /\ UNCHANGED <<once, maker, made, updateKey, foreignKey, saved>>

\* Graph.withoutUpdate begins: clearUpdate returns the update.
EnterWithoutUpdate(t) ==
  /\ maker[t] = "none" /\ ~saved[t].inside
  /\ saved' = [saved EXCEPT ![t] = [value |-> Specific(t, updateKey),
                                    set |-> set[t], inside |-> TRUE]]
  /\ EarlyNow(t)
  /\ UNCHANGED <<once, maker, made, updateKey, foreignKey, slot, set>>

PutBack(t) == SetSpecific(t, updateKey, saved[t].value)

\* Its deferred block.
LeaveWithoutUpdate(t) ==
  /\ maker[t] = "none" /\ saved[t].inside
  /\ PutBack(t)
  /\ set' = [set EXCEPT ![t] = saved[t].set]
  /\ saved' = [saved EXCEPT ![t] = Outside]
  /\ EarlyNow(t)
  /\ UNCHANGED <<once, maker, made, updateKey, foreignKey>>

KeyInit ==
  /\ once = "new" /\ maker = [t \in Thread |-> "none"]
  /\ made = 0 /\ updateKey = 0
  /\ foreignKey \in BOOLEAN
  /\ slot = [t \in Thread |-> [k \in Key |->
               IF k = 0 /\ foreignKey THEN Foreign ELSE Null]]
  /\ saved = [t \in Thread |-> Outside]
  /\ set = [t \in Thread |-> Null]
  /\ early = {}

KeyNext ==
  \E t \in Thread :
    \/ CreateGraph(t) \/ MakeUpdateKey(t) \/ MakeSubgraphKey(t)
    \/ \E v \in UpdateValue \cup {Null} : SetUpdate(t, v)
    \/ EnterWithoutUpdate(t) \/ LeaveWithoutUpdate(t)

KeySpec == KeyInit /\ [][KeyNext]_keyVars

-----------------------------------------------------------------------------
(* Properties.                                                             *)

\* Once the key is made a thread reads the update it set last, and after
\* withoutUpdate the one before it, whatever graphs are made meanwhile on
\* whatever threads: except a thread that used the key before it was made.
UpdateKept ==
  \A t \in Thread \ early : updateKey # 0 => Specific(t, updateKey) = set[t]
=============================================================================
