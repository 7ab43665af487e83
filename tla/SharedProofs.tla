---------------------------- MODULE SharedProofs ----------------------------
(***************************************************************************)
(* What the threads of a process share.                                    *)
(*                                                                         *)
(* The life of a graph for any number of threads and graphs: ~Context runs *)
(* once, and the context is not used after, unless an invalidation         *)
(* overlaps another call on the same graph.  The invariant says of a graph *)
(* on which nothing overlapped how often ~Context ran: once if the flag is *)
(* set or the object freed, and between ~Context and the flag.  That a     *)
(* freed graph is in no call needs that callers hold their graphs; and a   *)
(* graph in the middle of its creation is nobody else's.                   *)
(*                                                                         *)
(* The thread-specific keys that the first graph makes.                    *)
(*                                                                         *)
(* The page table, for any size of pages, maps and regions: a region has   *)
(* the earlier ones as its beginning, and every run that was ever handed   *)
(* out keeps its place in its region and its bit in the metadata maps.     *)
(***************************************************************************)
EXTENDS GraphContext, ThreadKeys, PageTable, CommonLemmas, TLAPS

Call == [graph : Graph \cup {None}, step : {"none", "destroy", "mark", "use"},
         new : Graph \cup {None}]

TypeInv ==
  /\ holds \subseteq Thread \X Graph
  /\ life \in [Graph -> {"none", "live", "freed"}]
  /\ invalid \in [Graph -> BOOLEAN]
  /\ destroyed \in [Graph -> Nat]
  /\ call \in [Thread -> Call]

\* A caller is in a call on a graph it holds, and only a use may make another.
CallersHold ==
  \A t \in Thread :
    /\ call[t].step = "none" => call[t] = Idle
    /\ call[t].step # "none" => <<t, call[t].graph>> \in holds
    /\ call[t].new # None => call[t].step = "use"

HeldIsLive == \A t \in Thread, g \in Graph : <<t, g>> \in holds => life[g] = "live"

Untouched(g) == destroyed[g] = 0 /\ ~invalid[g] /\ \A t \in Thread : <<t, g>> \notin holds

UnbornIsUntouched == \A g \in Graph : life[g] = "none" => Untouched(g)

\* The graph a call is making is nobody else's.
NewIsUntouched ==
  \A t \in Thread : call[t].new # None =>
    /\ life[call[t].new] = "live" /\ Untouched(call[t].new)
    /\ \A u \in Thread : call[u].new = call[t].new => u = t

Alone(t) == \A u \in Thread : call[u].graph = call[t].graph => u = t

\* What a call on g found when it began still holds.
CallOK(t, g) ==
  /\ call[t].step = "destroy" => destroyed[g] = 0 /\ ~invalid[g] /\ Alone(t)
  /\ call[t].step = "mark" => destroyed[g] = 1 /\ ~invalid[g] /\ Alone(t)
  /\ call[t].step = "use" => destroyed[g] = 0 /\ ~invalid[g]

Marking(g) == \E t \in Thread : call[t].graph = g /\ call[t].step = "mark"

ContextOK(g) ==
  /\ g \notin misused
  /\ \A t \in Thread : call[t].graph = g => CallOK(t, g)
  /\ ~Marking(g) => destroyed[g] = IF invalid[g] \/ life[g] = "freed" THEN 1 ELSE 0

ContextsOK == \A g \in Graph \ overlapped : ContextOK(g)

GInv ==
  /\ TypeInv /\ CallersHold /\ HeldIsLive /\ UnbornIsUntouched /\ NewIsUntouched
  /\ ContextsOK

-----------------------------------------------------------------------------
(* The operations.                                                         *)

\* A thread may call on a graph it holds, which is live and not being made.
LEMMA CalledGraph ==
  ASSUME GraphConstants, GInv, NEW t \in Thread, NEW g \in Graph, MayCall(t, g)
  PROVE  /\ call[t] = Idle /\ <<t, g>> \in holds /\ life[g] = "live"
         /\ \A u \in Thread : call[u].new # g
BY DEF GInv, MayCall, HeldIsLive, NewIsUntouched, Untouched, GraphConstants

LEMMA IdleIsOnNone ==
  ASSUME GInv, NEW t \in Thread, call[t].step = "none"
  PROVE  call[t].graph = None /\ call[t].new = None
<1>1. call[t] = Idle
  BY DEF GInv, CallersHold
<1>2. QED BY <1>1 DEF Idle

LEMMA FailsKeeps == ASSUME GInv, Fails PROVE GInv'
BY DEF Fails, GInv, TypeInv, CallersHold, HeldIsLive, UnbornIsUntouched, NewIsUntouched,
       Untouched, ContextsOK, ContextOK, CallOK, Alone, Marking

LEMMA CreateKeeps ==
  ASSUME GraphConstants, GInv, NEW t \in Thread, NEW g \in Graph, Create(t, g)
  PROVE  GInv'
<1> USE DEF GInv, Create
<1>1. TypeInv'
  BY DEF TypeInv
<1>2. CallersHold' /\ HeldIsLive'
  <2>1. holds' = holds \cup {<<t, g>>} /\ life' = [life EXCEPT ![g] = "live"] /\ call' = call
    OBVIOUS
  <2>2. CallersHold'
    BY <2>1 DEF CallersHold
  <2>3. HeldIsLive'
    BY <2>1 DEF HeldIsLive, TypeInv
  <2>4. QED BY <2>2, <2>3
<1>3. Untouched(g) /\ \A u \in Thread : call[u].new # g
  BY DEF UnbornIsUntouched, NewIsUntouched, GraphConstants
<1>4. UnbornIsUntouched' /\ NewIsUntouched'
  BY <1>3 DEF UnbornIsUntouched, NewIsUntouched, Untouched, TypeInv, Call
<1>5. ContextsOK'
  BY <1>3 DEF ContextsOK, ContextOK, CallOK, Alone, Marking, Untouched, TypeInv
<1>6. QED BY <1>1, <1>2, <1>4, <1>5

\* A call that uses the context begins, perhaps one that makes another graph.
LEMMA AccessKeeps ==
  ASSUME GraphConstants, GInv, NEW t \in Thread, NEW g \in Graph, MayCall(t, g), ~invalid[g],
         NEW h \in Graph \cup {None}, h # None => life[h] = "none",
         life' = [k \in Graph |-> IF k = h THEN "live" ELSE life[k]],
         call' = [call EXCEPT ![t] = [graph |-> g, step |-> "use", new |-> h]],
         Overlaps(g, {"destroy", "mark"}),
         UNCHANGED <<holds, invalid, destroyed, misused, ended>>
  PROVE  GInv'
<1>1. /\ call[t] = Idle /\ <<t, g>> \in holds /\ life[g] = "live" /\ h # g
      /\ \A u \in Thread : call[u].new # g
  BY CalledGraph DEF GraphConstants
<1>2. TypeInv'
  BY DEF GInv, TypeInv, Call
<1>3. CallersHold'
  BY <1>1 DEF GInv, CallersHold, TypeInv, Call
<1>4. HeldIsLive' /\ UnbornIsUntouched'
  BY DEF GInv, HeldIsLive, UnbornIsUntouched, Untouched, TypeInv
<1>5. NewIsUntouched'
  <2>1. h # None => Untouched(h) /\ \A u \in Thread : call[u].new # h
    BY DEF GInv, UnbornIsUntouched, NewIsUntouched
  <2>2. ASSUME NEW u \in Thread, NEW n \in Graph, call'[u].new = n
        PROVE  life'[n] = "live" /\ Untouched(n)' /\ \A v \in Thread : call'[v].new = n => v = u
    <3>1. \A v \in Thread : call'[v].new = IF v = t THEN h ELSE call[v].new
      BY DEF GInv, TypeInv
    <3>2. Untouched(n)' <=> Untouched(n)
      BY DEF Untouched
    <3>3. CASE u = t
      BY <2>1, <2>2, <3>1, <3>2, <3>3 DEF GraphConstants
    <3>4. CASE u # t
      <4>1. call[u].new = n /\ n # None /\ n # h
        BY <2>1, <2>2, <3>1, <3>4 DEF GraphConstants
      <4>2. life[n] = "live" /\ Untouched(n) /\ \A v \in Thread : call[v].new = n => v = u
        BY <4>1 DEF GInv, NewIsUntouched
      <4>3. QED BY <3>1, <3>2, <4>1, <4>2
    <3>5. QED BY <3>3, <3>4
  <2>3. \A u \in Thread : call'[u].new \in Graph \cup {None}
    BY <1>2 DEF TypeInv, Call
  <2>4. QED BY <2>2, <2>3 DEF NewIsUntouched
<1>6. ASSUME NEW k \in Graph \ overlapped' PROVE ContextOK(k)'
  <2>1. k \notin overlapped /\ ContextOK(k)
    BY <1>6 DEF Overlaps, GInv, ContextsOK
  <2>2. CASE k = g
    <3>1. \A u \in Thread : call[u].graph = g => call[u].step \in {"none", "use"}
      BY <1>6, <2>2 DEF Overlaps, GInv, TypeInv, Call
    <3>2. destroyed[g] = 0 /\ life'[g] = "live"
      BY <1>1, <2>1, <2>2, <3>1 DEF ContextOK, Marking, GInv, TypeInv
    <3>3. ~Marking(g)'
      BY <3>1 DEF Marking, GInv, TypeInv
    <3>4. \A u \in Thread : call'[u].graph = g => CallOK(u, g)'
      BY <3>1, <3>2 DEF CallOK, GInv, TypeInv, Call
    <3>5. QED BY <2>1, <2>2, <3>2, <3>3, <3>4 DEF ContextOK
  <2>3. CASE k # g
    <3>1. Marking(k)' <=> Marking(k)
      BY <1>1, <2>3 DEF Marking, GInv, TypeInv, Idle, GraphConstants
    <3>2. \A u \in Thread : call'[u].graph = k => CallOK(u, k)'
      BY <1>1, <2>1, <2>3 DEF ContextOK, CallOK, Alone, GInv, TypeInv
    <3>3. destroyed[k] = (IF invalid[k] \/ life[k] = "freed" THEN 1 ELSE 0)
          => destroyed'[k] = IF invalid'[k] \/ life'[k] = "freed" THEN 1 ELSE 0
      BY DEF GraphConstants
    <3>4. QED BY <2>1, <3>1, <3>2, <3>3 DEF ContextOK
  <2>4. QED BY <2>2, <2>3
<1>7. QED BY <1>2, <1>3, <1>4, <1>5, <1>6 DEF GInv, ContextsOK

LEMMA PassKeeps ==
  ASSUME GraphConstants, GInv, NEW t \in Thread, NEW u \in Thread, NEW g \in Graph, Pass(t, u, g)
  PROVE  GInv'
<1>1. life[g] = "live" /\ \A v \in Thread : call[v].new # g
  BY CalledGraph DEF Pass
<1>2. TypeInv' /\ CallersHold' /\ HeldIsLive'
  BY <1>1 DEF GInv, Pass, TypeInv, CallersHold, HeldIsLive
<1>3. UnbornIsUntouched' /\ NewIsUntouched'
  BY <1>1 DEF GInv, Pass, UnbornIsUntouched, NewIsUntouched, Untouched
<1>4. ContextsOK'
  BY DEF GInv, Pass, ContextsOK, ContextOK, CallOK, Alone, Marking
<1>5. QED BY <1>2, <1>3, <1>4 DEF GInv

LEMMA DropKeeps ==
  ASSUME GraphConstants, GInv, NEW t \in Thread, NEW g \in Graph, Drop(t, g)
  PROVE  GInv'
<1>1. /\ call[t] = Idle /\ life[g] = "live" /\ \A u \in Thread : call[u].new # g
      /\ holds' = holds \ {<<t, g>>}
      /\ UNCHANGED <<invalid, misused, call, overlapped, ended>>
  BY CalledGraph DEF Drop
<1>2. \A u \in Thread : call[u].step # "none" => <<u, call[u].graph>> \in holds'
  BY <1>1 DEF GInv, CallersHold, Idle
<1>3. CallersHold'
  BY <1>1, <1>2 DEF GInv, CallersHold
<1>4. CASE \E u \in Thread : <<u, g>> \in holds'
  <2>1. UNCHANGED <<life, destroyed>>
    BY <1>4 DEF Drop
  <2>2. TypeInv' /\ HeldIsLive' /\ UnbornIsUntouched' /\ NewIsUntouched'
    BY <1>1, <2>1 DEF GInv, TypeInv, HeldIsLive, UnbornIsUntouched, NewIsUntouched, Untouched
  <2>3. ContextsOK'
    BY <1>1, <2>1 DEF GInv, ContextsOK, ContextOK, CallOK, Alone, Marking
  <2>4. QED BY <1>3, <2>2, <2>3 DEF GInv
<1>5. CASE ~\E u \in Thread : <<u, g>> \in holds'
  <2>1. life' = [life EXCEPT ![g] = "freed"] /\ destroyed' = Dealloc(g)
    BY <1>5 DEF Drop
  <2>2. \A u \in Thread : call[u].step = "none" \/ call[u].graph # g
    BY <1>2, <1>5
  <2>3. destroyed' = [destroyed EXCEPT ![g] = IF invalid[g] THEN @ ELSE @ + 1]
    BY <2>1 DEF Dealloc, GInv, TypeInv
  <2>4. TypeInv'
    BY <1>1, <2>1, <2>3 DEF GInv, TypeInv
  <2>5. HeldIsLive'
    BY <1>1, <1>5, <2>1 DEF GInv, HeldIsLive, TypeInv
  <2>6. UnbornIsUntouched' /\ NewIsUntouched'
    BY <1>1, <2>1, <2>3 DEF GInv, UnbornIsUntouched, NewIsUntouched, Untouched, TypeInv, Call
  <2>7. ASSUME NEW k \in Graph \ overlapped' PROVE ContextOK(k)'
    <3>1. ContextOK(k) /\ (Marking(k)' <=> Marking(k))
      BY <1>1 DEF GInv, ContextsOK, Marking
    <3>2. CASE k = g
      <4>1. ~Marking(g) /\ \A u \in Thread : call[u].graph = g => call[u].step = "none"
        BY <2>2 DEF Marking
      <4>2. destroyed[g] = IF invalid[g] THEN 1 ELSE 0
        BY <1>1, <3>1, <3>2, <4>1 DEF ContextOK
      <4>3. destroyed'[g] = 1 /\ life'[g] = "freed"
        BY <2>1, <2>3, <4>2 DEF GInv, TypeInv
      <4>4. \A u \in Thread : call'[u].graph = g => CallOK(u, g)'
        BY <1>1, <4>1 DEF CallOK
      <4>5. QED BY <1>1, <3>1, <3>2, <4>1, <4>3, <4>4 DEF ContextOK
    <3>3. CASE k # g
      <4>1. destroyed'[k] = destroyed[k] /\ life'[k] = life[k]
        BY <2>1, <2>3, <3>3 DEF GInv, TypeInv
      <4>2. QED BY <1>1, <3>1, <4>1 DEF ContextOK, CallOK, Alone
    <3>4. QED BY <3>2, <3>3
  <2>8. QED BY <1>3, <2>4, <2>5, <2>6, <2>7 DEF GInv, ContextsOK
<1>6. QED BY <1>4, <1>5

LEMMA InvalidateKeeps ==
  ASSUME GraphConstants, GInv, NEW t \in Thread, NEW g \in Graph, Invalidate(t, g)
  PROVE  GInv'
<1>1. /\ call[t] = Idle /\ <<t, g>> \in holds /\ life[g] = "live" /\ ~invalid[g]
      /\ call' = [call EXCEPT ![t] = [graph |-> g, step |-> "destroy", new |-> None]]
      /\ UNCHANGED <<holds, life, invalid, destroyed, misused, ended>>
  BY CalledGraph DEF Invalidate, Goes
<1>2. TypeInv' /\ CallersHold'
  BY <1>1 DEF GInv, TypeInv, Call, CallersHold
<1>3. HeldIsLive' /\ UnbornIsUntouched'
  BY <1>1 DEF GInv, HeldIsLive, UnbornIsUntouched, Untouched
<1>4. NewIsUntouched'
  BY <1>1 DEF GInv, NewIsUntouched, Untouched, TypeInv
<1>5. ASSUME NEW k \in Graph \ overlapped' PROVE ContextOK(k)'
  <2>1. k \notin overlapped /\ ContextOK(k)
    BY <1>5 DEF Invalidate, Overlaps, GInv, ContextsOK
  <2>2. CASE k = g
    <3>1. \A u \in Thread : call[u].graph = g => call[u].step = "none"
      BY <1>5, <2>2 DEF Invalidate, Overlaps, GInv, TypeInv, Call
    <3>2. \A u \in Thread : call[u].graph # g
      BY <3>1, IdleIsOnNone DEF GraphConstants
    <3>3. destroyed[g] = 0
      BY <1>1, <2>1, <2>2, <3>1 DEF ContextOK, Marking
    <3>4. ~Marking(g)' /\ \A u \in Thread : call'[u].graph = g => u = t
      BY <1>1, <3>2 DEF Marking, GInv, TypeInv
    <3>5. CallOK(t, g)' /\ call'[t].graph = g
      BY <1>1, <3>3, <3>4 DEF CallOK, Alone, GInv, TypeInv
    <3>6. QED BY <1>1, <2>1, <2>2, <3>3, <3>4, <3>5 DEF ContextOK
  <2>3. CASE k # g
    <3>1. Marking(k)' <=> Marking(k)
      BY <1>1, <2>3 DEF Marking, GInv, TypeInv, Idle, GraphConstants
    <3>2. \A u \in Thread : call'[u].graph = k => CallOK(u, k)'
      BY <1>1, <2>1, <2>3 DEF ContextOK, CallOK, Alone, GInv, TypeInv
    <3>3. QED BY <1>1, <2>1, <3>1, <3>2 DEF ContextOK
  <2>4. QED BY <2>2, <2>3
<1>6. QED BY <1>2, <1>3, <1>4, <1>5 DEF GInv, ContextsOK

\* A thread in the middle of a call.
LEMMA CalledStep ==
  ASSUME GraphConstants, GInv, NEW t \in Thread, call[t].step # "none"
  PROVE  /\ call[t].graph \in Graph /\ <<t, call[t].graph>> \in holds
         /\ life[call[t].graph] = "live" /\ \A u \in Thread : call[u].new # call[t].graph
<1>1. <<t, call[t].graph>> \in holds
  BY DEF GInv, CallersHold
<1>2. call[t].graph \in Graph
  BY <1>1 DEF GInv, TypeInv
<1>3. QED
  BY <1>1, <1>2 DEF GInv, HeldIsLive, NewIsUntouched, Untouched, TypeInv, Call, GraphConstants

LEMMA DestroyContextKeeps ==
  ASSUME GraphConstants, GInv, NEW t \in Thread, DestroyContext(t)
  PROVE  GInv'
<1>0. call[t].step # "none"
  BY DEF DestroyContext, At
<1> PICK g \in Graph : g = call[t].graph /\ <<t, g>> \in holds /\ life[g] = "live"
                       /\ \A u \in Thread : call[u].new # g
  BY <1>0, CalledStep
<1>1. /\ call[t].step = "destroy" /\ destroyed' = [destroyed EXCEPT ![g] = @ + 1]
      /\ call' = [call EXCEPT ![t] = [graph |-> g, step |-> "mark", new |-> None]]
      /\ UNCHANGED <<holds, life, invalid, misused, overlapped, ended>>
  BY DEF DestroyContext, At, Goes
<1>3. TypeInv' /\ CallersHold'
  BY <1>1 DEF GInv, TypeInv, Call, CallersHold
<1>4. HeldIsLive' /\ UnbornIsUntouched'
  BY <1>1 DEF GInv, HeldIsLive, UnbornIsUntouched, Untouched, TypeInv
<1>5. NewIsUntouched'
  BY <1>1 DEF GInv, NewIsUntouched, Untouched, TypeInv, Call
<1>6. ASSUME NEW k \in Graph \ overlapped' PROVE ContextOK(k)'
  <2>1. ContextOK(k)
    BY <1>1 DEF GInv, ContextsOK
  <2>2. CASE k = g
    <3>1. destroyed[g] = 0 /\ ~invalid[g] /\ \A u \in Thread : call[u].graph = g => u = t
      BY <1>1, <2>1, <2>2 DEF ContextOK, CallOK, Alone
    <3>2. destroyed'[g] = 1
      BY <1>1, <3>1 DEF GInv, TypeInv
    <3>3. call'[t].graph = g /\ call'[t].step = "mark"
          /\ \A u \in Thread : call'[u].graph = g => u = t
      BY <1>1, <3>1 DEF GInv, TypeInv
    <3>4. CallOK(t, g)' /\ Marking(g)'
      BY <1>1, <3>1, <3>2, <3>3 DEF CallOK, Alone, Marking
    <3>5. QED BY <1>1, <2>1, <2>2, <3>3, <3>4 DEF ContextOK
  <2>3. CASE k # g
    <3>1. Marking(k)' <=> Marking(k)
      BY <1>1, <2>3 DEF Marking, GInv, TypeInv
    <3>2. destroyed'[k] = destroyed[k]
      BY <1>1, <2>3 DEF GInv, TypeInv
    <3>3. \A u \in Thread : call'[u].graph = k => CallOK(u, k)'
      BY <1>1, <2>1, <2>3, <3>2 DEF ContextOK, CallOK, Alone, GInv, TypeInv
    <3>4. QED BY <1>1, <2>1, <3>1, <3>2, <3>3 DEF ContextOK
  <2>4. QED BY <2>2, <2>3
<1>7. QED BY <1>3, <1>4, <1>5, <1>6 DEF GInv, ContextsOK

LEMMA MarkInvalidKeeps ==
  ASSUME GraphConstants, GInv, NEW t \in Thread, MarkInvalid(t)
  PROVE  GInv'
<1>0. call[t].step # "none"
  BY DEF MarkInvalid, At
<1> PICK g \in Graph : g = call[t].graph /\ <<t, g>> \in holds /\ life[g] = "live"
                       /\ \A u \in Thread : call[u].new # g
  BY <1>0, CalledStep
<1>1. /\ call[t].step = "mark" /\ invalid' = [invalid EXCEPT ![g] = TRUE]
      /\ call' = [call EXCEPT ![t] = Idle]
      /\ UNCHANGED <<holds, life, destroyed, misused, overlapped, ended>>
  BY DEF MarkInvalid, At
<1>3. TypeInv' /\ CallersHold'
  BY <1>1 DEF GInv, TypeInv, Call, CallersHold, Idle
<1>4. HeldIsLive' /\ UnbornIsUntouched'
  BY <1>1 DEF GInv, HeldIsLive, UnbornIsUntouched, Untouched, TypeInv
<1>5. NewIsUntouched'
  BY <1>1 DEF GInv, NewIsUntouched, Untouched, TypeInv, Call, Idle
<1>6. ASSUME NEW k \in Graph \ overlapped' PROVE ContextOK(k)'
  <2>1. ContextOK(k)
    BY <1>1 DEF GInv, ContextsOK
  <2>2. CASE k = g
    <3>1. destroyed[g] = 1 /\ \A u \in Thread : call[u].graph = g => u = t
      BY <1>1, <2>1, <2>2 DEF ContextOK, CallOK, Alone
    <3>2. \A u \in Thread : call'[u].graph # g
      BY <1>1, <3>1 DEF GInv, TypeInv, Idle, GraphConstants
    <3>3. invalid'[g] /\ ~Marking(g)'
      BY <1>1, <3>2 DEF GInv, TypeInv, Marking
    <3>4. QED BY <1>1, <2>1, <2>2, <3>1, <3>2, <3>3 DEF ContextOK
  <2>3. CASE k # g
    <3>1. Marking(k)' <=> Marking(k)
      BY <1>1, <2>3 DEF Marking, GInv, TypeInv, Idle
    <3>2. invalid'[k] = invalid[k]
      BY <1>1, <2>3 DEF GInv, TypeInv
    <3>3. \A u \in Thread : call'[u].graph = k => CallOK(u, k)'
      BY <1>1, <2>1, <2>3, <3>2 DEF ContextOK, CallOK, Alone, GInv, TypeInv, Idle, GraphConstants
    <3>4. QED BY <1>1, <2>1, <3>1, <3>2, <3>3 DEF ContextOK
  <2>4. QED BY <2>2, <2>3
<1>7. QED BY <1>3, <1>4, <1>5, <1>6 DEF GInv, ContextsOK

LEMMA UseContextKeeps ==
  ASSUME GraphConstants, GInv, NEW t \in Thread, UseContext(t)
  PROVE  GInv'
<1>0. call[t].step # "none"
  BY DEF UseContext, At
<1> PICK g \in Graph : g = call[t].graph /\ <<t, g>> \in holds /\ life[g] = "live"
                       /\ \A u \in Thread : call[u].new # g
  BY <1>0, CalledStep
<1> DEFINE created == {call[t].new} \ {None}
<1>1. /\ call[t].step = "use" /\ misused' = misused \cup {h \in {g} : destroyed[h] > 0}
      /\ invalid' = [h \in Graph |-> invalid[h] /\ h \notin created]
      /\ holds' = holds \cup ({t} \X created)
      /\ call' = [call EXCEPT ![t] = Idle]
      /\ UNCHANGED <<life, destroyed, overlapped, ended>>
  BY DEF UseContext, At
<1>3. created \subseteq Graph /\ \A h \in created :
        /\ h = call[t].new /\ life[h] = "live" /\ Untouched(h)
        /\ \A u \in Thread : call[u].new = h => u = t
  BY DEF GInv, NewIsUntouched, TypeInv, Call
<1>4. invalid' = invalid
  BY <1>1, <1>3 DEF Untouched, GInv, TypeInv
<1> HIDE DEF created
<1>5. TypeInv' /\ CallersHold'
  BY <1>1, <1>3, <1>4 DEF GInv, TypeInv, Call, CallersHold, Idle
<1>6. HeldIsLive'
  BY <1>1, <1>3 DEF GInv, HeldIsLive
<1>7. UnbornIsUntouched'
  BY <1>1, <1>3, <1>4 DEF GInv, UnbornIsUntouched, Untouched
<1>8. NewIsUntouched'
  BY <1>1, <1>3, <1>4 DEF GInv, NewIsUntouched, Untouched, TypeInv, Call, Idle
<1>9. ASSUME NEW k \in Graph \ overlapped' PROVE ContextOK(k)'
  <2>1. ContextOK(k)
    BY <1>1 DEF GInv, ContextsOK
  <2>2. k \notin misused'
    <3>1. k = g => destroyed[g] = 0
      BY <1>1, <2>1 DEF ContextOK, CallOK
    <3>2. QED BY <1>1, <2>1, <3>1 DEF ContextOK
  <2>3. Marking(k)' <=> Marking(k)
    BY <1>1 DEF Marking, GInv, TypeInv, Idle
  <2>4. \A u \in Thread : call'[u].graph = k => CallOK(u, k)'
    BY <1>1, <1>4, <2>1 DEF ContextOK, CallOK, Alone, GInv, TypeInv, Idle, GraphConstants
  <2>5. QED BY <1>1, <1>4, <2>1, <2>2, <2>3, <2>4 DEF ContextOK
<1>10. QED BY <1>5, <1>6, <1>7, <1>8, <1>9 DEF GInv, ContextsOK

-----------------------------------------------------------------------------
LEMMA InitInv == GraphInit => GInv
BY DEF GraphInit, GInv, TypeInv, Call, Idle, CallersHold, HeldIsLive, UnbornIsUntouched, Untouched,
       NewIsUntouched, ContextsOK, ContextOK, CallOK, Marking

LEMMA StepKeeps ==
  ASSUME GraphConstants, GInv, [GraphNext]_graphVars
  PROVE  GInv'
<1>1. ASSUME NEW t \in Thread, NEW g \in Graph, NEW from \in Graph, CreateShared(t, g, from)
      PROVE  GInv'
  <2>1. CASE invalid[from]
    BY <1>1, <2>1, FailsKeeps DEF CreateShared
  <2>2. CASE ~invalid[from]
    <3>1. life' = [k \in Graph |-> IF k = g THEN "live" ELSE life[k]]
      BY <1>1, <2>2 DEF CreateShared, GInv, TypeInv
    <3>2. QED BY <1>1, <2>2, <3>1, AccessKeeps DEF CreateShared
  <2>3. QED BY <2>1, <2>2
<1>2. ASSUME NEW t \in Thread, NEW g \in Graph, Access(t, g)
      PROVE  GInv'
  <2>1. CASE invalid[g]
    BY <1>2, <2>1, FailsKeeps DEF Access
  <2>2. CASE ~invalid[g]
    <3>1. life' = [k \in Graph |-> IF k = None THEN "live" ELSE life[k]]
      BY <1>2, <2>2 DEF Access, GInv, TypeInv, GraphConstants
    <3>2. QED BY <1>2, <2>2, <3>1, AccessKeeps DEF Access, Goes
  <2>3. QED BY <2>1, <2>2
<1>3. CASE GraphNext
  BY <1>1, <1>2, <1>3, CreateKeeps, PassKeeps, DropKeeps, InvalidateKeeps, DestroyContextKeeps,
     MarkInvalidKeeps, UseContextKeeps DEF GraphNext
<1>4. CASE UNCHANGED graphVars
  BY <1>4 DEF graphVars, GInv, TypeInv, CallersHold, HeldIsLive, UnbornIsUntouched, NewIsUntouched,
              Untouched, ContextsOK, ContextOK, CallOK, Alone, Marking
<1>5. QED BY <1>3, <1>4

\* The context is destroyed once by the time its graph is freed, never twice and
\* never used afterwards, unless an invalidation overlapped another call.
THEOREM ContextRight == ASSUME GraphConstants PROVE GraphSpec => []ContextDestroyedOnce
<1>1. GraphInit => GInv
  BY InitInv
<1>2. GInv /\ [GraphNext]_graphVars => GInv'
  BY StepKeeps
<1>3. GInv => ContextDestroyedOnce
  <2> SUFFICES ASSUME GInv, NEW g \in Graph \ overlapped
               PROVE  /\ destroyed[g] <= 1 /\ g \notin misused
                      /\ life[g] = "freed" => destroyed[g] = 1
    BY DEF ContextDestroyedOnce
  <2>1. ContextOK(g)
    BY DEF GInv, ContextsOK
  <2>2. CASE Marking(g)
    BY <2>1, <2>2 DEF ContextOK, CallOK, Marking
  <2>3. CASE ~Marking(g)
    BY <2>1, <2>3 DEF ContextOK
  <2>4. QED BY <2>1, <2>2, <2>3 DEF ContextOK
<1>4. QED BY <1>1, <1>2, <1>3, PTL DEF GraphSpec

-----------------------------------------------------------------------------
(***************************************************************************)
(* A thread reads the update it set, for any number of threads, updates    *)
(* and keys, unless it used the key before it was made.                    *)
(*                                                                         *)
(* The key is made once, under the dispatch_once, and is null on every     *)
(* thread when it is: nothing was written under it before.                 *)
(***************************************************************************)

Stored == UpdateValue \cup {Null, Foreign}

KeysInRange == made \in Nat /\ made <= LastKey /\ updateKey \in Nat /\ updateKey <= made

KeyTypeInv ==
  /\ once \in {"new", "running", "done"}
  /\ maker \in [Thread -> {"none", "update", "subgraph"}]
  /\ KeysInRange
  /\ foreignKey \in BOOLEAN
  /\ slot \in [Thread -> [Key -> Stored]]
  /\ saved \in [Thread -> [value : Stored, set : UpdateValue \cup {Null}, inside : BOOLEAN]]
  /\ set \in [Thread -> UpdateValue \cup {Null}]

\* One thread makes the keys, and the update's key first.
OneMaker ==
  /\ once = "new" => updateKey = 0
  /\ \A t \in Thread :
       /\ maker[t] = "update" => updateKey = 0
       /\ maker[t] # "none" => /\ once = "running"
                               /\ \A u \in Thread : maker[u] # "none" => u = t

UnmadeIsNull == \A t \in Thread, k \in Key : k > made => slot[t][k] = Null

\* A thread that did not use key 0.
Orderly(t) ==
  /\ updateKey = 0 => set[t] = Null /\ ~saved[t].inside
  /\ updateKey # 0 => slot[t][updateKey] = set[t]
  /\ saved[t].inside => saved[t].value = saved[t].set

KInv == KeyTypeInv /\ OneMaker /\ UnmadeIsNull /\ \A t \in Thread \ early : Orderly(t)

-----------------------------------------------------------------------------
LEMMA Keys ==
  ASSUME KeyConstants, KInv
  PROVE  /\ updateKey \in Key /\ updateKey <= made
         /\ made \in Nat /\ made <= LastKey /\ LastKey \in Nat
<1>1. KeysInRange
  BY DEF KInv, KeyTypeInv
<1>2. QED BY <1>1 DEF KeysInRange, Key, KeyConstants

\* A thread sets, saves or puts back: what is left to show is its own case.
LEMMA CallKeeps ==
  ASSUME KeyConstants, KInv, NEW t \in Thread, NEW v \in Stored,
         slot' = slot \/ SetSpecific(t, updateKey, v),
         \E w : set' = [set EXCEPT ![t] = w], \E s : saved' = [saved EXCEPT ![t] = s],
         set' \in [Thread -> UpdateValue \cup {Null}],
         saved' \in [Thread -> [value : Stored, set : UpdateValue \cup {Null}, inside : BOOLEAN]],
         EarlyNow(t), updateKey # 0 => Orderly(t)' \/ t \in early,
         UNCHANGED <<once, maker, made, updateKey, foreignKey>>
  PROVE  KInv'
<1>1. /\ updateKey \in Key /\ updateKey \in Nat /\ made \in Nat /\ updateKey <= made
      /\ LastKey \in Nat
  BY Keys DEF Key
<1>2. slot' = slot \/ slot' = [slot EXCEPT ![t][updateKey] = v]
  BY DEF SetSpecific
<1>3. KeyTypeInv'
  <2>1. slot' \in [Thread -> [Key -> Stored]]
    <3>1. slot \in [Thread -> [Key -> Stored]]
      BY DEF KInv, KeyTypeInv
    <3>2. [slot EXCEPT ![t][updateKey] = v] \in [Thread -> [Key -> Stored]]
      BY <1>1, <3>1
    <3>3. QED BY <1>2, <3>1, <3>2
  <2>2. KeysInRange'
    BY DEF KInv, KeyTypeInv, KeysInRange
  <2>3. QED BY <2>1, <2>2 DEF KInv, KeyTypeInv
<1>4. OneMaker'
  BY DEF KInv, OneMaker
<1>5. UnmadeIsNull'
  <2> SUFFICES ASSUME NEW u \in Thread, NEW k \in Key, k > made PROVE slot'[u][k] = Null
    BY DEF UnmadeIsNull
  <2>1. slot[u][k] = Null /\ k # updateKey
    BY <1>1 DEF KInv, UnmadeIsNull, Key
  <2>2. QED BY <1>2, <2>1 DEF KInv, KeyTypeInv
<1>6. ASSUME NEW u \in Thread \ early' PROVE Orderly(u)'
  <2>1. u \notin early /\ Orderly(u)
    BY <1>6 DEF KInv, EarlyNow
  <2>2. CASE u = t
    BY <1>6, <2>1, <2>2 DEF EarlyNow
  <2>3. CASE u # t
    <3>1. slot'[u] = slot[u] /\ set'[u] = set[u] /\ saved'[u] = saved[u]
      BY <1>2, <2>3 DEF KInv, KeyTypeInv
    <3>2. QED BY <2>1, <3>1 DEF Orderly
  <2>4. QED BY <2>2, <2>3
<1>7. QED BY <1>3, <1>4, <1>5, <1>6 DEF KInv

LEMMA SetUpdateKeeps ==
  ASSUME KeyConstants, KInv, NEW t \in Thread, NEW v \in UpdateValue \cup {Null}, SetUpdate(t, v)
  PROVE  KInv'
<1>1. updateKey \in Key
  BY Keys
<1>2. updateKey # 0 => Orderly(t)' \/ t \in early
  <2> SUFFICES ASSUME updateKey # 0, t \notin early PROVE Orderly(t)'
    OBVIOUS
  <2>1. slot' = [slot EXCEPT ![t][updateKey] = v]
    BY DEF SetUpdate, SetSpecific, Exists
  <2>2. slot'[t][updateKey] = v /\ set'[t] = v /\ Orderly(t)
    BY <1>1, <2>1 DEF KInv, KeyTypeInv, SetUpdate
  <2>3. QED BY <2>2 DEF Orderly, SetUpdate
<1>3. set' \in [Thread -> UpdateValue \cup {Null}] /\ saved' = [saved EXCEPT ![t] = saved[t]]
  BY DEF SetUpdate, KInv, KeyTypeInv
<1>4. QED BY <1>2, <1>3, CallKeeps DEF SetUpdate, Stored, KInv, KeyTypeInv

LEMMA EnterKeeps ==
  ASSUME KeyConstants, KInv, NEW t \in Thread, EnterWithoutUpdate(t)
  PROVE  KInv'
<1>1. updateKey \in Key
  BY Keys
<1>2. Specific(t, updateKey) \in Stored
  BY <1>1 DEF Specific, KInv, KeyTypeInv, Stored
<1>3. updateKey # 0 => Orderly(t)' \/ t \in early
  <2> SUFFICES ASSUME updateKey # 0, t \notin early PROVE Orderly(t)'
    OBVIOUS
  <2>1. Orderly(t) /\ Specific(t, updateKey) = slot[t][updateKey]
    BY DEF KInv, Specific, Exists
  <2>2. saved'[t] = [value |-> slot[t][updateKey], set |-> set[t], inside |-> TRUE]
    BY <2>1 DEF EnterWithoutUpdate, KInv, KeyTypeInv
  <2>3. QED BY <2>1, <2>2 DEF Orderly, EnterWithoutUpdate
<1>4. saved' \in [Thread -> [value : Stored, set : UpdateValue \cup {Null}, inside : BOOLEAN]]
  BY <1>2 DEF EnterWithoutUpdate, KInv, KeyTypeInv
<1>5. set' = [set EXCEPT ![t] = set[t]] /\ set' \in [Thread -> UpdateValue \cup {Null}]
  BY DEF EnterWithoutUpdate, KInv, KeyTypeInv
<1>6. QED BY <1>3, <1>4, <1>5, CallKeeps DEF EnterWithoutUpdate, Stored

LEMMA LeaveKeeps ==
  ASSUME KeyConstants, KInv, NEW t \in Thread, LeaveWithoutUpdate(t)
  PROVE  KInv'
<1>1. updateKey \in Key /\ saved[t].value \in Stored /\ saved[t].set \in UpdateValue \cup {Null}
  BY Keys DEF KInv, KeyTypeInv
<1>2. updateKey # 0 => Orderly(t)' \/ t \in early
  <2> SUFFICES ASSUME updateKey # 0, t \notin early PROVE Orderly(t)'
    OBVIOUS
  <2>1. slot' = [slot EXCEPT ![t][updateKey] = saved[t].value]
    BY DEF LeaveWithoutUpdate, PutBack, SetSpecific, Exists
  <2>2. slot'[t][updateKey] = saved[t].value /\ saved[t].value = saved[t].set
    BY <1>1, <2>1 DEF KInv, KeyTypeInv, Orderly, LeaveWithoutUpdate
  <2>3. set'[t] = saved[t].set /\ saved'[t] = Outside
    BY DEF LeaveWithoutUpdate, KInv, KeyTypeInv
  <2>4. QED BY <2>2, <2>3 DEF Orderly, Outside, LeaveWithoutUpdate
<1>3. saved' \in [Thread -> [value : Stored, set : UpdateValue \cup {Null}, inside : BOOLEAN]]
  BY DEF LeaveWithoutUpdate, KInv, KeyTypeInv, Outside, Stored
<1>4. set' \in [Thread -> UpdateValue \cup {Null}]
  BY <1>1 DEF LeaveWithoutUpdate, KInv, KeyTypeInv
<1>5. QED BY <1>1, <1>2, <1>3, <1>4, CallKeeps DEF LeaveWithoutUpdate, PutBack

\* The first graph, and the two keys it makes.
LEMMA CreateGraphKeeps ==
  ASSUME KeyConstants, KInv, NEW t \in Thread, CreateGraph(t)
  PROVE  KInv'
<1>1. \A u \in Thread : maker[u] = "none"
  BY DEF KInv, OneMaker, CreateGraph, FirstGraph
<1>2. KeyTypeInv' /\ OneMaker'
  BY <1>1 DEF KInv, KeyTypeInv, KeysInRange, OneMaker, CreateGraph, FirstGraph
<1>3. QED BY <1>2 DEF KInv, CreateGraph, UnmadeIsNull, Orderly

LEMMA MakeUpdateKeyKeeps ==
  ASSUME KeyConstants, KInv, NEW t \in Thread, MakeUpdateKey(t)
  PROVE  KInv'
<1>1. /\ updateKey = 0 /\ once = "running" /\ \A u \in Thread : maker[u] # "none" => u = t
      /\ made \in Nat /\ LastKey \in Nat
  BY Keys DEF KInv, OneMaker, MakeUpdateKey
<1>2. OneMaker'
  BY <1>1 DEF KInv, OneMaker, MakeUpdateKey, KeyTypeInv
<1>3. CASE UNCHANGED <<made, updateKey>>
  BY <1>2, <1>3 DEF KInv, MakeUpdateKey, KeyTypeInv, KeysInRange, UnmadeIsNull, Orderly
<1>4. CASE made < LastKey /\ made' = made + 1 /\ updateKey' = made + 1
  <2>1. KeyTypeInv'
    <3>1. KeysInRange'
      BY <1>1, <1>4 DEF KeysInRange
    <3>2. QED BY <3>1 DEF KInv, MakeUpdateKey, KeyTypeInv
  <2>2. UnmadeIsNull'
    BY <1>1, <1>4 DEF KInv, MakeUpdateKey, UnmadeIsNull, Key
  <2>3. ASSUME NEW u \in Thread \ early' PROVE Orderly(u)'
    <3>1. u \notin early /\ set[u] = Null /\ ~saved[u].inside
      BY <1>1, <2>3 DEF KInv, Orderly, MakeUpdateKey
    <3>2. made + 1 \in Key /\ slot[u][made + 1] = Null
      BY <1>1, <1>4 DEF KInv, UnmadeIsNull, Key
    <3>3. QED BY <1>1, <1>4, <3>1, <3>2 DEF Orderly, MakeUpdateKey
  <2>4. QED BY <1>2, <2>1, <2>2, <2>3 DEF KInv
<1>5. QED BY <1>3, <1>4 DEF MakeUpdateKey

LEMMA MakeSubgraphKeyKeeps ==
  ASSUME KeyConstants, KInv, NEW t \in Thread, MakeSubgraphKey(t)
  PROVE  KInv'
<1>1. once = "running" /\ \A u \in Thread : maker[u] # "none" => u = t
  BY DEF KInv, OneMaker, MakeSubgraphKey
<1>2. /\ made \in Nat /\ made <= LastKey /\ LastKey \in Nat
      /\ updateKey \in Nat /\ updateKey <= made
  BY Keys DEF Key
<1>3. made' \in Nat /\ made <= made' /\ made' <= LastKey
  BY <1>2 DEF MakeSubgraphKey
<1>4. KeyTypeInv' /\ OneMaker'
  <2>1. KeysInRange'
    BY <1>2, <1>3 DEF MakeSubgraphKey, KeysInRange
  <2>2. QED BY <1>1, <2>1 DEF KInv, KeyTypeInv, OneMaker, MakeSubgraphKey
<1>5. UnmadeIsNull'
  BY <1>2, <1>3 DEF KInv, UnmadeIsNull, MakeSubgraphKey, Key
<1>6. QED BY <1>4, <1>5 DEF KInv, MakeSubgraphKey, Orderly

LEMMA KeyInitInv == ASSUME KeyConstants, KeyInit PROVE KInv
BY DEF KeyInit, KInv, KeyTypeInv, KeysInRange, Stored, OneMaker, UnmadeIsNull, Orderly, Outside, Key, KeyConstants

\* Once the key is made, a thread that did not use it before reads the update it
\* set last, and after withoutUpdate the one before.
THEOREM UpdateRight == ASSUME KeyConstants PROVE KeySpec => []UpdateKept
<1>1. KeyInit => KInv
  BY KeyInitInv
<1>2. KInv /\ [KeyNext]_keyVars => KInv'
  <2> SUFFICES ASSUME KInv, [KeyNext]_keyVars PROVE KInv'
    OBVIOUS
  <2>1. CASE KeyNext
    BY <2>1, CreateGraphKeeps, MakeUpdateKeyKeeps, MakeSubgraphKeyKeeps, SetUpdateKeeps,
       EnterKeeps, LeaveKeeps DEF KeyNext
  <2>2. CASE UNCHANGED keyVars
    BY <2>2 DEF keyVars, KInv, KeyTypeInv, KeysInRange, OneMaker, UnmadeIsNull, Orderly
  <2>3. QED BY <2>1, <2>2
<1>3. KInv => UpdateKept
  BY DEF KInv, Orderly, UpdateKept, Specific, Exists
<1>4. QED BY <1>1, <1>2, <1>3, PTL DEF KeySpec

-----------------------------------------------------------------------------
(* data::table, for any size of pages, maps and regions.                   *)

LEMMA Remainder ==
  ASSUME NEW a \in Int, NEW b \in Nat \ {0}
  PROVE  a % b \in Nat /\ a % b < b
OBVIOUS

LEMMA QuotientGrows ==
  ASSUME NEW a \in Nat, NEW c \in Nat, NEW b \in Nat \ {0}, a <= c
  PROVE  a \div b <= c \div b
OBVIOUS

LEMMA Quotient ==
  ASSUME NEW a \in Nat, NEW b \in Nat \ {0}
  PROVE  a \div b \in Nat /\ (b <= a => a \div b >= 1)
<1>1. a \div b \in Nat
  OBVIOUS
<1>2. b \div b = 1
  OBVIOUS
<1>3. b <= a => b \div b <= a \div b
  BY QuotientGrows
<1>4. QED BY <1>1, <1>2, <1>3

-----------------------------------------------------------------------------
(* grow_region: the capacities are tried in order until one is enough or   *)
(* none is larger than the one before.                                     *)

Widths == 0..(IntRange - 1)

LEMMA Numbers ==
  /\ PageSize \in Nat \ {0} /\ PagesPerMap \in Nat \ {0} /\ InitialMaps \in Nat \ {0}
  /\ IntRange \in Nat \ {0} /\ Size \subseteq Nat /\ PageSize % PagesPerMap = 0
<1>1. /\ PageSize \in Nat \ {0} /\ PagesPerMap \in Nat \ {0} /\ InitialMaps \in Nat \ {0}
      /\ IntRange \in Nat /\ InitialMaps * PagesPerMap * PageSize < IntRange
      /\ Size \subseteq 0 .. IntRange - 1 /\ PageSize % PagesPerMap = 0
  BY TableConstants
<1>2. InitialMaps * PagesPerMap * PageSize >= 0
  BY <1>1
<1>3. IntRange # 0
  BY <1>1, <1>2
<1>4. QED BY <1>1, <1>3

Fourfold == [c \in Widths |-> (4 * c) % IntRange]

LEMMA CapacityIs ==
  ASSUME region_capacity \in Widths
  PROVE  /\ Capacity \in [Nat -> Widths] /\ Capacity[0] = region_capacity
         /\ \A i \in Nat : Capacity[i + 1] = (4 * Capacity[i]) % IntRange
<1> DEFINE Grows(g) == [i \in Nat |-> IF i = 0 THEN region_capacity
                                       ELSE (4 * g[i - 1]) % IntRange]
<1>1. Fourfold \in [Widths -> Widths]
  BY Numbers, Remainder DEF Fourfold, Widths
<1>2. PICK g \in [Nat -> Widths] :
        g[0] = region_capacity /\ \A n \in Nat : g[n + 1] = Fourfold[g[n]]
  <2>1. HasIteration(Widths, Fourfold, region_capacity)
    BY <1>1, IterationExists
  <2>2. QED BY <2>1 DEF HasIteration
<1>3. ASSUME NEW i \in Nat PROVE g[i] = Grows(g)[i]
  <2>1. CASE i = 0
    BY <1>2, <2>1
  <2>2. CASE i # 0
    <3>1. PICK j \in Nat : i = j + 1
      <4>1. i - 1 \in Nat /\ i = (i - 1) + 1
        BY <2>2
      <4>2. QED BY <4>1
    <3>2. g[j + 1] = Fourfold[g[j]] /\ g[j] \in Widths
      BY <1>2, <3>1
    <3>3. i - 1 = j
      BY <3>1
    <3>4. QED BY <2>2, <3>1, <3>2, <3>3 DEF Fourfold
  <2>3. QED BY <2>1, <2>2
<1>4. g = Grows(g)
  BY <1>2, <1>3
<1>5. Capacity = CHOOSE f : f = Grows(f)
  BY DEF Capacity
<1>6. Capacity = Grows(Capacity)
  <2> HIDE DEF Grows
  <2>1. QED BY <1>4, <1>5
<1>7. Capacity[0] = region_capacity
  BY <1>6
<1>8. ASSUME NEW i \in Nat PROVE Capacity[i + 1] = (4 * Capacity[i]) % IntRange
  <2>1. i + 1 \in Nat /\ i + 1 # 0 /\ (i + 1) - 1 = i
    OBVIOUS
  <2>2. QED BY <1>6, <2>1
<1>9. ASSUME NEW i \in Nat PROVE Capacity[i] \in Widths
  <2> DEFINE Narrow == {n \in Nat : Capacity[n] \in Widths}
  <2>1. 0 \in Narrow
    BY <1>7
  <2>2. ASSUME NEW n \in Nat, n \in Narrow PROVE n + 1 \in Narrow
    <3>1. 4 * Capacity[n] \in Int
      BY <2>2 DEF Widths
    <3>2. PICK a \in Int : a = 4 * Capacity[n]
      BY <3>1
    <3>3. a % IntRange \in Nat /\ a % IntRange < IntRange
      BY Remainder, Numbers
    <3>4. Capacity[n + 1] = a % IntRange /\ n + 1 \in Nat /\ IntRange \in Nat
      BY <3>2, <1>8, Numbers
    <3>5. QED BY <3>3, <3>4 DEF Widths
  <2> HIDE DEF Narrow
  <2>3. Nat \subseteq Narrow
    BY <2>1, <2>2, InductionOn
  <2>4. QED BY <2>3 DEF Narrow
<1>10. Capacity = [i \in Nat |-> Capacity[i]]
  BY <1>6
<1>11. QED BY <1>7, <1>8, <1>9, <1>10

LEMMA CapacityClimbs ==
  ASSUME region_capacity \in Widths, NEW k \in Nat, \A j \in 1..k : ~Exhausted(j)
  PROVE  Capacity[k] >= k
<1> DEFINE High == {i \in Nat : i <= k => Capacity[i] >= i}
<1>1. \A i \in Nat : Capacity[i] \in Nat
  BY CapacityIs DEF Widths
<1>2. 0 \in High
  BY <1>1
<1>3. ASSUME NEW i \in Nat, i \in High PROVE i + 1 \in High
  <2>1. SUFFICES ASSUME i + 1 <= k PROVE Capacity[i + 1] >= i + 1
    OBVIOUS
  <2>2. i + 1 \in 1..k /\ (i + 1) - 1 = i
    BY <2>1
  <2>3. ~(Capacity[i + 1] <= Capacity[i])
    BY <2>2 DEF Exhausted
  <2>4. Capacity[i] >= i
    BY <1>3, <2>1
  <2>5. Capacity[i] \in Nat /\ Capacity[i + 1] \in Nat
    BY <1>1
  <2>6. QED BY <2>3, <2>4, <2>5
<1> HIDE DEF High
<1>4. Nat \subseteq High
  BY <1>2, <1>3, InductionOn
<1>5. QED BY <1>4 DEF High

Stops(i, size) == Capacity[i] >= size \/ (i > 0 /\ Exhausted(i))

FirstStop(t, size) ==
  t \in 0..IntRange /\ Stops(t, size) /\ \A j \in 0..(t - 1) : ~Stops(j, size)

\* The growth comes to an end, as capacities are less than IntRange.
LEMMA GrowthEnds ==
  ASSUME region_capacity \in Widths, NEW size \in Nat
  PROVE  FirstStop(Growths(size), size)
<1> DEFINE S == {i \in 0..IntRange : Stops(i, size)}
<1>1. IntRange \in Nat /\ \A i \in Nat : Capacity[i] \in Nat /\ Capacity[i] < IntRange
  BY CapacityIs, Numbers DEF Widths
<1>2. S # {}
  <2>1. SUFFICES ASSUME \A i \in 0..IntRange : ~Stops(i, size) PROVE FALSE
    OBVIOUS
  <2>2. \A j \in 1..IntRange : ~Exhausted(j)
    BY <1>1, <2>1 DEF Stops
  <2>3. Capacity[IntRange] >= IntRange
    BY <1>1, <2>2, CapacityClimbs
  <2>4. QED BY <1>1, <2>3
<1>3. PICK t \in S : \A i \in S : t <= i
  <2>1. S \in SUBSET Nat
    BY <1>1
  <2> HIDE DEF S
  <2>2. QED BY <1>2, <2>1, LeastExists
<1>4. ASSUME NEW j \in 0..(t - 1) PROVE ~Stops(j, size)
  <2>1. j \in 0..IntRange /\ ~(t <= j)
    BY <1>1
  <2>2. QED BY <1>3, <2>1
<1>5. FirstStop(t, size)
  BY <1>4 DEF FirstStop
<1>6. ASSUME NEW i \in 0..IntRange
      PROVE  FirstStop(i, size) <=>
               /\ Capacity[i] >= size \/ (i > 0 /\ Exhausted(i))
               /\ \A j \in 0 .. i - 1 : Capacity[j] < size /\ (j > 0 => ~Exhausted(j))
  <2>1. \A j \in 0 .. i - 1 :
          ~Stops(j, size) <=> Capacity[j] < size /\ (j > 0 => ~Exhausted(j))
    BY <1>1 DEF Stops
  <2>2. QED BY <2>1 DEF FirstStop, Stops
<1>7. Growths(size) = CHOOSE i \in 0..IntRange : FirstStop(i, size)
  <2>1. \A i \in 0..IntRange : FirstStop(i, size) <=>
               /\ Capacity[i] >= size \/ (i > 0 /\ Exhausted(i))
               /\ \A j \in 0 .. i - 1 : Capacity[j] < size /\ (j > 0 => ~Exhausted(j))
    BY <1>6
  <2>2. QED BY <2>1, Zenon DEF Growths
<1>8. QED BY <1>5, <1>7 DEF FirstStop

\* How often the region grows for a run that ends at `size`.
Grown(size) ==
  IF Growths(size) > 0 /\ Exhausted(Growths(size)) THEN Growths(size) - 1 ELSE Growths(size)

LEMMA RegionGrows ==
  ASSUME region_capacity \in Widths, NEW size \in Nat
  PROVE  /\ Grown(size) \in Nat
         /\ \A j \in 1..Grown(size) : Capacity[j - 1] < Capacity[j]
         /\ ~(Growths(size) > 0 /\ Exhausted(Growths(size))) => Capacity[Grown(size)] >= size
<1>1. PICK t : t = Growths(size)
  OBVIOUS
<1>2. t \in Nat /\ Stops(t, size) /\ \A j \in 0..(t - 1) : ~Stops(j, size)
  BY <1>1, GrowthEnds, Numbers DEF FirstStop
<1>3. PICK g : g = IF t > 0 /\ Exhausted(t) THEN t - 1 ELSE t
  OBVIOUS
<1>4. g \in Nat /\ g <= t /\ (g = t \/ g = t - 1)
  BY <1>2, <1>3
<1>5. ASSUME NEW j \in 1..g PROVE Capacity[j - 1] < Capacity[j]
  <2>1. ~Exhausted(j)
    <3>1. CASE j = t
      BY <1>3, <1>4, <3>1
    <3>2. CASE j # t
      <4>1. j \in 0..(t - 1) /\ j > 0
        BY <1>2, <1>4, <3>2
      <4>2. QED BY <1>2, <4>1 DEF Stops
    <3>3. QED BY <3>1, <3>2
  <2>2. j \in Nat /\ j - 1 \in Nat
    BY <1>4
  <2>3. Capacity[j] \in Nat /\ Capacity[j - 1] \in Nat
    BY <2>2, CapacityIs DEF Widths
  <2>4. QED BY <2>1, <2>3 DEF Exhausted
<1>6. ~(t > 0 /\ Exhausted(t)) => Capacity[g] >= size
  BY <1>2, <1>3 DEF Stops
<1>7. Grown(size) = g
  BY <1>1, <1>3 DEF Grown
<1>8. QED BY <1>1, <1>4, <1>5, <1>6, <1>7

-----------------------------------------------------------------------------
(* The regions there have been, oldest first.                              *)

Climbing(cap, g) ==
  (\A j \in Nat : cap[j] \in Nat) /\ (\A j \in 1..g : cap[j - 1] < cap[j])

Rising(q) == \A i \in 1..(Len(q) - 1) : q[i] < q[i + 1]

Continues(q, r, cap, g) ==
  /\ r \in Seq(Nat) /\ Len(r) = Len(q) + g
  /\ \A i \in 1..(Len(q) + 1) : Append(r, cap[g])[i] = Append(q, cap[0])[i]
  /\ Append(r, cap[g])[Len(r) + 1] = cap[g]
  /\ Rising(Append(r, cap[g]))

\* The regions after one of them grew: they begin with the earlier ones.
LEMMA RegionsAfter ==
  ASSUME NEW q \in Seq(Nat), NEW cap, NEW g \in Nat, Climbing(cap, g),
         Rising(Append(q, cap[0])),
         NEW r, r = q \o [i \in 1..g |-> cap[i - 1]]
  PROVE  Continues(q, r, cap, g)
<1>0. (\A j \in Nat : cap[j] \in Nat) /\ (\A j \in 1..g : cap[j - 1] < cap[j])
  BY DEF Climbing
<1>1. PICK n : n = Len(q)
  OBVIOUS
<1>2. n \in Nat /\ \A i \in 1..n : q[i] \in Nat
  BY <1>1
<1> DEFINE t == [i \in 1..g |-> cap[i - 1]]
<1>3. t \in Seq(Nat) /\ Len(t) = g /\ \A i \in 1..g : t[i] = cap[i - 1]
  <2>1. \A i \in 1..g : i - 1 \in Nat
    OBVIOUS
  <2>2. t \in [1..g -> Nat]
    BY <1>0, <2>1
  <2>3. QED BY <2>2
<1> HIDE DEF t
<1>4. /\ r \in Seq(Nat) /\ Len(r) = n + g /\ \A i \in 1..n : r[i] = q[i]
      /\ \A i \in (n + 1)..(n + g) : r[i] = t[i - n]
  BY <1>1, <1>3 DEF t
<1>5. ASSUME NEW i \in (n + 1)..(n + g) PROVE r[i] = cap[i - n - 1]
  <2>1. i - n \in 1..g /\ i - n - 1 = (i - n) - 1
    BY <1>2
  <2>2. QED BY <1>3, <1>4, <2>1
<1>6. PICK a : a = Append(r, cap[g])
  OBVIOUS
<1>7. PICK b : b = Append(q, cap[0])
  OBVIOUS
<1>8. /\ Len(a) = n + g + 1 /\ \A i \in 1..(n + g) : a[i] = r[i]
      /\ a[n + g + 1] = cap[g]
  <2>1. PICK c \in Nat : c = cap[g]
    BY <1>0
  <2>2. Len(r) = n + g /\ r \in Seq(Nat) /\ a = Append(r, c)
    BY <1>4, <1>6, <2>1
  <2>3. Len(a) = Len(r) + 1 /\ (\A i \in 1..Len(r) : a[i] = r[i]) /\ a[Len(r) + 1] = c
    BY <2>2
  <2>4. QED BY <2>1, <2>2, <2>3
<1>9. Len(b) = n + 1 /\ (\A i \in 1..n : b[i] = q[i]) /\ b[n + 1] = cap[0]
  BY <1>1, <1>2, <1>7
<1>10. ASSUME NEW i \in (n + 1)..(n + g + 1) PROVE a[i] = cap[i - n - 1]
  <2>1. CASE i = n + g + 1
    <3>1. i - n - 1 = g
      BY <1>2, <2>1
    <3>2. QED BY <1>8, <2>1, <3>1
  <2>2. CASE i # n + g + 1
    <3>1. i \in (n + 1)..(n + g) /\ i \in 1..(n + g)
      BY <1>2, <2>2
    <3>2. QED BY <1>5, <1>8, <3>1
  <2>3. QED BY <2>1, <2>2
<1>11. ASSUME NEW i \in 1..(n + 1) PROVE a[i] = b[i]
  <2>1. CASE i = n + 1
    <3>1. i \in (n + 1)..(n + g + 1) /\ i - n - 1 = 0
      BY <1>2, <2>1
    <3>2. QED BY <1>9, <1>10, <2>1, <3>1
  <2>2. CASE i # n + 1
    <3>1. i \in 1..n /\ i \in 1..(n + g)
      BY <1>2, <2>2
    <3>2. QED BY <1>4, <1>8, <1>9, <3>1
  <2>3. QED BY <2>1, <2>2
<1>12. ASSUME NEW i \in 1..(n + g) PROVE a[i] < a[i + 1]
  <2>1. CASE i <= n
    <3>1. i \in 1..n /\ i \in 1..(n + 1) /\ i + 1 \in 1..(n + 1) /\ i \in 1..(Len(b) - 1)
      BY <1>2, <1>9, <2>1
    <3>2. b[i] < b[i + 1]
      BY <1>7, <3>1 DEF Rising
    <3>3. QED BY <1>11, <3>1, <3>2
  <2>2. CASE ~(i <= n)
    <3>1. PICK j : j = i - n
      OBVIOUS
    <3>2. /\ j \in 1..g /\ i \in (n + 1)..(n + g + 1) /\ i + 1 \in (n + 1)..(n + g + 1)
          /\ i - n - 1 = j - 1 /\ i + 1 - n - 1 = j
      BY <1>2, <2>2, <3>1
    <3>3. cap[j - 1] < cap[j]
      BY <1>0, <3>2
    <3>4. a[i] = cap[j - 1]
      BY <1>10, <3>2
    <3>5. a[i + 1] = cap[j]
      <4>1. PICK k : k = i + 1
        OBVIOUS
      <4>2. k \in (n + 1)..(n + g + 1) /\ k - n - 1 = j
        BY <1>2, <3>1, <3>2, <4>1
      <4>3. QED BY <1>10, <4>1, <4>2
    <3>6. QED BY <3>3, <3>4, <3>5
  <2>3. QED BY <2>1, <2>2
<1>13. Rising(a)
  <2>1. Len(a) - 1 = n + g
    BY <1>2, <1>8
  <2>2. QED BY <1>12, <2>1 DEF Rising
<1>14. Len(r) + 1 = n + g + 1
  BY <1>2, <1>4
<1>15. QED BY <1>1, <1>4, <1>6, <1>7, <1>8, <1>11, <1>13, <1>14 DEF Continues

-----------------------------------------------------------------------------
(* The maps.                                                               *)

LEMMA LargerOf ==
  ASSUME NEW a \in Nat, NEW b \in Int
  PROVE  /\ Max({a, b}) \in Nat /\ a <= Max({a, b}) /\ b <= Max({a, b})
<1>1. \E x \in {a, b} : \A y \in {a, b} : x >= y
  <2>1. CASE a >= b
    BY <2>1
  <2>2. CASE ~(a >= b)
    <3>1. b >= a
      BY <2>2
    <3>2. QED BY <3>1
  <2>3. QED BY <2>1, <2>2
<1>2. Max({a, b}) \in {a, b} /\ \A y \in {a, b} : Max({a, b}) >= y
  BY <1>1 DEF Max
<1>3. QED BY <1>2

\* A finite set of numbers has a largest and a least one.
LEMMA LargestOf ==
  ASSUME NEW n \in Nat, NEW S \in SUBSET (1..n), S # {}
  PROVE  Max(S) \in S
<1> DEFINE Below == {n - x : x \in S}
<1>1. Below \in SUBSET Nat /\ Below # {}
  <2>1. \A x \in S : n - x \in Nat
    OBVIOUS
  <2>2. QED BY <2>1
<1>2. PICK d \in Below : \A e \in Below : d <= e
  <2> HIDE DEF Below
  <2>1. QED BY <1>1, LeastExists
<1>3. PICK x \in S : d = n - x
  BY <1>2
<1>4. \A y \in S : n - x <= n - y
  BY <1>2, <1>3
<1>5. \A y \in S : x >= y
  BY <1>4
<1>6. QED BY <1>5 DEF Max

LEMMA SmallestOf ==
  ASSUME NEW S \in SUBSET Nat, S # {}
  PROVE  Min(S) \in S
<1>1. PICK x \in S : \A y \in S : x <= y
  BY LeastExists
<1>2. QED BY <1>1 DEF Min

LEMMA MapNumbers ==
  /\ \A p \in Nat : MapOf(p) \in Nat /\ MapOf(p) >= 1 /\ BitOf(p) \in Bits
  /\ \A p, q \in Nat : p <= q => MapOf(p) <= MapOf(q)
<1>1. PICK m : m = PagesPerMap
  OBVIOUS
<1>2. m \in Nat \ {0}
  BY <1>1, Numbers
<1>3. ASSUME NEW p \in Nat
      PROVE  p \div m \in Nat /\ p % m \in Nat /\ p % m < m
  BY <1>2, Quotient, Remainder
<1>4. ASSUME NEW p \in Nat, NEW q \in Nat, p <= q PROVE p \div m <= q \div m
  BY <1>2, <1>4, QuotientGrows
<1>5. ASSUME NEW p \in Nat, NEW q \in Nat, p <= q PROVE MapOf(p) <= MapOf(q)
  <2>1. p \div m <= q \div m
    BY <1>4, <1>5
  <2>2. p \div m \in Nat /\ q \div m \in Nat
    BY <1>3
  <2>3. MapOf(p) = (p \div m) + 1 /\ MapOf(q) = (q \div m) + 1
    BY <1>1 DEF MapOf
  <2>4. ASSUME NEW x \in Nat, NEW y \in Nat, x <= y PROVE x + 1 <= y + 1
    BY <2>4
  <2>5. QED BY <2>1, <2>2, <2>3, <2>4
<1>6. ASSUME NEW p \in Nat PROVE MapOf(p) \in Nat /\ MapOf(p) >= 1 /\ BitOf(p) \in Bits
  <2>1. BitOf(p) \in 0 .. m - 1
    <3>1. PICK b : b = p % m
      OBVIOUS
    <3>2. b \in Nat /\ b < m
      BY <1>3, <3>1
    <3>3. BitOf(p) = b
      BY <1>1, <3>1 DEF BitOf
    <3>4. QED BY <1>2, <3>2, <3>3
  <2>2. QED BY <1>1, <1>3, <2>1 DEF MapOf, Bits
<1>7. QED BY <1>5, <1>6

Maps == Seq(SUBSET Bits)

\* w is the maps, with more of them and more bits set.
Covers(maps, first, n, w) ==
  /\ w \in Maps /\ Len(w) = Max({Len(maps), MapOf(first + n - 1)})
  /\ Len(w) \in Nat /\ Len(maps) <= Len(w)
  /\ \A k \in 1..Len(maps) : maps[k] \subseteq w[k]

PagesIn(first, n, w) ==
  \A p \in first .. (first + n - 1) : MapOf(p) \in 1..Len(w) /\ BitOf(p) \in w[MapOf(p)]

HeadIn(first, w) == MapOf(first) \in 1..Len(w) /\ BitOf(first) \in w[MapOf(first)]

\* No bit is lost, and every page of the run has its own.
LEMMA PagesSet ==
  ASSUME NEW maps \in Maps, NEW first \in Nat, NEW n \in Nat,
         NEW w, w = WithPages(maps, first, n)
  PROVE  Covers(maps, first, n, w) /\ PagesIn(first, n, w)
<1>1. Len(maps) \in Nat /\ \A k \in 1..Len(maps) : maps[k] \subseteq Bits
  BY DEF Maps
<1>2. /\ first + n - 1 \in Int
      /\ \A p \in first .. (first + n - 1) :
           p \in Nat /\ p <= first + n - 1 /\ first + n - 1 \in Nat
  OBVIOUS
<1>3. PICK last : last = MapOf(first + n - 1)
  OBVIOUS
<1>4. last \in Int
  <2>1. PICK b : b = PagesPerMap
    OBVIOUS
  <2>2. PICK a : a = first + n - 1
    OBVIOUS
  <2>3. a \in Int /\ b \in Nat \ {0}
    BY <1>2, <2>1, <2>2, Numbers
  <2>4. a \div b \in Int
    BY <2>3
  <2>5. last = (a \div b) + 1
    BY <1>3, <2>1, <2>2 DEF MapOf
  <2>6. QED BY <2>4, <2>5
<1>5. PICK m : m = Max({Len(maps), last})
  OBVIOUS
<1>6. m \in Nat /\ Len(maps) <= m /\ last <= m
  BY <1>1, <1>4, <1>5, LargerOf
<1>7. w = [k \in 1..m |->
             (IF k <= Len(maps) THEN maps[k] ELSE {})
               \cup {BitOf(p) : p \in {q \in first .. (first + n - 1) : MapOf(q) = k}}]
  BY <1>3, <1>5 DEF WithPages
<1>8. ASSUME NEW k \in 1..m PROVE w[k] \subseteq Bits
  <2>1. {BitOf(p) : p \in {q \in first .. (first + n - 1) : MapOf(q) = k}} \subseteq Bits
    BY <1>2, MapNumbers
  <2>2. (IF k <= Len(maps) THEN maps[k] ELSE {}) \subseteq Bits
    BY <1>1
  <2>3. QED BY <1>7, <2>1, <2>2
<1>9. w \in [1..m -> SUBSET Bits]
  BY <1>7, <1>8
<1>10. w \in Maps /\ Len(w) = m
  BY <1>6, <1>9 DEF Maps
<1>11. ASSUME NEW k \in 1..Len(maps) PROVE maps[k] \subseteq w[k]
  <2>1. k \in 1..m /\ k <= Len(maps)
    BY <1>1, <1>6
  <2>2. QED BY <1>7, <2>1
<1>12. ASSUME NEW p \in first .. (first + n - 1)
       PROVE  MapOf(p) \in 1..m /\ BitOf(p) \in w[MapOf(p)]
  <2>1. MapOf(p) \in Nat /\ MapOf(p) >= 1 /\ MapOf(p) <= last
    BY <1>2, <1>3, MapNumbers
  <2>2. MapOf(p) \in 1..m
    BY <1>4, <1>6, <2>1
  <2>3. QED BY <1>7, <2>2
<1>13. QED BY <1>3, <1>5, <1>6, <1>10, <1>11, <1>12 DEF Covers, PagesIn

\* The metadata maps become as many as the maps, no bit is lost, and the first
\* page of a run that has pages has its bit.
LEMMA HeadSet ==
  ASSUME NEW maps \in Maps, NEW first \in Nat, NEW n \in Nat,
         NEW w, w = WithHead(maps, first, n)
  PROVE  Covers(maps, first, n, w) /\ (n > 0 => HeadIn(first, w))
<1>1. PICK h : h = IF n = 0 THEN maps ELSE WithPages(maps, first, 1)
  OBVIOUS
<1>2. PICK t : t = WithPages(maps, first, n)
  OBVIOUS
<1>3. /\ t \in Maps /\ Len(t) = Max({Len(maps), MapOf(first + n - 1)})
      /\ Len(t) \in Nat /\ Len(maps) <= Len(t)
      /\ n > 0 => MapOf(first) \in 1..Len(t)
  <2>1. n > 0 => first \in first .. (first + n - 1)
    OBVIOUS
  <2>2. Covers(maps, first, n, t) /\ PagesIn(first, n, t)
    BY <1>2, PagesSet
  <2>3. QED BY <2>1, <2>2 DEF Covers, PagesIn
<1>4. /\ h \in Maps /\ Len(h) \in Nat /\ Len(maps) <= Len(h)
      /\ \A k \in 1..Len(maps) : maps[k] \subseteq h[k]
      /\ n > 0 => MapOf(first) \in 1..Len(h) /\ BitOf(first) \in h[MapOf(first)]
  <2>1. CASE n = 0
    <3>1. h = maps /\ Len(maps) \in Nat
      BY <1>1, <2>1 DEF Maps
    <3>2. QED BY <2>1, <3>1
  <2>2. CASE n # 0
    <3>1. PICK one : one = 1
      OBVIOUS
    <3>2. h = WithPages(maps, first, one) /\ one \in Nat
          /\ first \in first .. (first + one - 1)
      BY <1>1, <2>2, <3>1
    <3>3. Covers(maps, first, one, h) /\ PagesIn(first, one, h)
      BY <3>2, PagesSet
    <3>4. QED BY <3>2, <3>3 DEF Covers, PagesIn
  <2>3. QED BY <2>1, <2>2
<1>5. DOMAIN t = 1..Len(t)
  BY <1>3 DEF Maps
<1>6. w = [k \in 1..Len(t) |-> IF k <= Len(h) THEN h[k] ELSE {}]
  BY <1>1, <1>2, <1>5 DEF WithHead
<1>7. ASSUME NEW k \in 1..Len(t) PROVE w[k] \subseteq Bits
  <2>1. k <= Len(h) => h[k] \subseteq Bits
    BY <1>3, <1>4 DEF Maps
  <2>2. QED BY <1>6, <2>1
<1>8. w \in [1..Len(t) -> SUBSET Bits]
  BY <1>6, <1>7
<1>9. w \in Maps /\ Len(w) = Len(t)
  <2>1. PICK m : m = Len(t)
    OBVIOUS
  <2>2. m \in Nat /\ w \in [1..m -> SUBSET Bits]
    BY <1>3, <1>8, <2>1
  <2>3. QED BY <2>1, <2>2 DEF Maps
<1>10. ASSUME NEW k \in 1..Len(maps) PROVE maps[k] \subseteq w[k]
  <2>1. Len(maps) \in Nat
    BY DEF Maps
  <2>2. k \in 1..Len(t) /\ k <= Len(h)
    BY <1>3, <1>4, <2>1
  <2>3. QED BY <1>4, <1>6, <2>2
<1>11. n > 0 => BitOf(first) \in w[MapOf(first)]
  BY <1>3, <1>4, <1>6
<1>12. QED BY <1>3, <1>9, <1>10, <1>11 DEF Covers, HeadIn

SearchStarts(n) == 0 .. Max({0, n - 1})

LEMMA WiderSearch ==
  ASSUME NEW a \in Nat, NEW b \in Nat, a <= b
  PROVE  SearchStarts(a) \subseteq SearchStarts(b)
<1>1. ASSUME NEW m \in Nat
      PROVE  Max({0, m - 1}) = IF m = 0 THEN 0 ELSE m - 1
  <2>1. PICK x : x = IF m = 0 THEN 0 ELSE m - 1
    OBVIOUS
  <2>2. x \in {0, m - 1} /\ \A y \in {0, m - 1} : x >= y
    BY <2>1
  <2>3. PICK z : z = Max({0, m - 1})
    OBVIOUS
  <2>4. z \in {0, m - 1} /\ \A y \in {0, m - 1} : z >= y
    BY <2>2, <2>3 DEF Max
  <2>5. x >= z /\ z >= x /\ x \in Int /\ z \in Int
    BY <2>2, <2>4
  <2>6. QED BY <2>1, <2>3, <2>5
<1>2. QED BY <1>1 DEF SearchStarts

LEMMA WithinRange == \A x \in Int : x % IntRange \in 0 .. IntRange - 1
<1>1. PICK w : w = IntRange
  OBVIOUS
<1>2. w \in Nat \ {0}
  BY <1>1, Numbers
<1>3. ASSUME NEW x \in Int PROVE x % w \in 0 .. w - 1
  BY <1>2, Remainder
<1>4. QED BY <1>1, <1>3

\* What the scan leaves: as many maps as before, and a page of its own choice.
LEMMA ScannedRight ==
  ASSUME page_maps \in Maps, map_search_start \in SearchStarts(Len(page_maps))
  PROVE  /\ Scanned.maps \in Maps /\ Len(Scanned.maps) = Len(page_maps)
         /\ Scanned.first \in Nat
         /\ Scanned.start \in SearchStarts(Len(page_maps))
<1>1. PICK n : n = Len(page_maps)
  OBVIOUS
<1>2. n \in Nat /\ DOMAIN page_maps = 1..n
  BY <1>1 DEF Maps
<1>3. Flipped \in [1..n -> SUBSET Bits]
  BY <1>2 DEF Flipped
<1>4. Flipped \in Maps /\ Len(Flipped) = n
  BY <1>2, <1>3 DEF Maps
<1>5. n * PagesPerMap \in Nat
  BY <1>2, Numbers
<1>6. CASE ~Scans \/ Offers = {}
  BY <1>1, <1>4, <1>5, <1>6 DEF Scanned
<1>7. CASE Scans /\ Offers # {}
  <2>1. map_search_start \in Int
    BY DEF SearchStarts
  <2>2. Offers \in SUBSET (1..n)
    BY <1>1 DEF Offers
  <2>3. PICK i : i = Max(Offers)
    OBVIOUS
  <2>4. i \in Offers /\ i \in 1..n
    BY <1>2, <1>7, <2>2, <2>3, LargestOf
  <2>5. PICK k : k = ScanOrder[i]
    OBVIOUS
  <2>6. k \in 1..n
    <3>1. n \in Nat \ {0} /\ map_search_start + i - 1 \in Int
      BY <1>2, <2>1, <2>4
    <3>2. PICK r : r = (map_search_start + i - 1) % n
      OBVIOUS
    <3>3. r \in Nat /\ r < n
      BY <3>1, <3>2, Remainder
    <3>4. k = r + 1
      BY <1>1, <2>4, <2>5, <3>2 DEF ScanOrder
    <3>5. QED BY <3>1, <3>3, <3>4
  <2>7. Flipped[k] # {} /\ Flipped[k] \in SUBSET Bits
    BY <1>3, <2>4, <2>5, <2>6 DEF Offers
  <2>8. Bits \subseteq Nat
    BY Numbers DEF Bits
  <2>9. Min(Flipped[k]) \in Nat
    BY <2>7, <2>8, SmallestOf
  <2>10. (k - 1) * PagesPerMap \in Nat
    <3>1. k - 1 \in Nat
      BY <2>6
    <3>2. QED BY <3>1, Numbers
  <2>11. Scanned = [maps |-> Flipped, first |-> (k - 1) * PagesPerMap + Min(Flipped[k]),
                    start |-> k - 1]
    BY <1>7, <2>3, <2>5 DEF Scanned
  <2>12. k - 1 \in SearchStarts(n)
    <3>1. n - 1 \in Nat /\ k - 1 \in Nat /\ k - 1 <= n - 1
      BY <1>2, <2>6
    <3>2. PICK x : x = n - 1
      OBVIOUS
    <3>3. Max({0, x}) \in Nat /\ x <= Max({0, x})
      BY <3>1, <3>2, LargerOf
    <3>4. QED BY <3>1, <3>2, <3>3 DEF SearchStarts
  <2>13. (k - 1) * PagesPerMap + Min(Flipped[k]) \in Nat
    BY <2>9, <2>10
  <2>14. QED BY <1>1, <1>4, <2>11, <2>12, <2>13
<1>8. QED BY <1>6, <1>7

-----------------------------------------------------------------------------
(* The invariant says of every run, given back or not, what the properties *)
(* say of the runs that are held.                                          *)

Placed(run, regions) ==
  /\ run.region \in 1..Len(regions)
  /\ ~Wraps(run) => (run.first + run.pages) * PageSize <= regions[run.region]

Marked(run, metadata) ==
  run.pages > 0 =>
    /\ MapOf(run.first) \in 1..Len(metadata)
    /\ BitOf(run.first) \in metadata[MapOf(run.first)]

PInv ==
  /\ TypeOK /\ \A p \in DOMAIN totals : totals[p] \in Nat
  /\ Len(page_metadata_maps) = Len(page_maps)
  /\ Rising(Regions)
  /\ \A i \in DOMAIN runs : Placed(runs[i], Regions) /\ Marked(runs[i], page_metadata_maps)

LEMMA PagesStart == Init => PInv
<1> SUFFICES ASSUME Init PROVE PInv
  OBVIOUS
<1>1. PICK r : r = InitialMaps * PagesPerMap * PageSize
  OBVIOUS
<1>2. r \in Nat /\ r < IntRange /\ IntRange \in Nat \ {0}
  <2>1. InitialMaps * PagesPerMap \in Nat
    BY Numbers
  <2>2. r \in Nat
    BY <1>1, <2>1, Numbers
  <2>3. r < IntRange
    BY <1>1, TableConstants
  <2>4. QED BY <2>2, <2>3, Numbers
<1>3. region_capacity \in 0 .. IntRange - 1
  <2>1. region_capacity \in {0, r}
    BY <1>1 DEF Init
  <2>2. QED BY <1>2, <2>1
<1>4. map_search_start = 0 /\ used_pages_num = 0 /\ reusable_pages_num = 0
  BY DEF Init
<1>5. page_maps = <<>> /\ page_metadata_maps = <<>> /\ remapped_regions = <<>> /\ runs = <<>>
  BY DEF Init
<1>6. failure = "" /\ totals = <<>>
  BY DEF Init
<1>7. Len(page_maps) = 0 /\ Len(page_metadata_maps) = 0 /\ DOMAIN runs = {} /\ DOMAIN totals = {}
  <2>1. Len(<<>>) = 0 /\ DOMAIN <<>> = {}
    OBVIOUS
  <2>2. totals = <<>>
    BY DEF Init
  <2>3. QED BY <1>5, <2>1, <2>2, Zenon
<1>8. map_search_start \in 0 .. Max({0, Len(page_maps) - 1})
  <2>1. 0 \in {0, -1} /\ \A y \in {0, -1} : 0 >= y
    OBVIOUS
  <2>2. PICK m : m = Max({0, -1})
    OBVIOUS
  <2>3. m \in {0, -1} /\ \A y \in {0, -1} : m >= y
    BY <2>1, <2>2 DEF Max
  <2>4. m = 0
    BY <2>3
  <2>5. Len(page_maps) - 1 = -1
    BY <1>7
  <2>6. QED BY <1>4, <2>2, <2>4, <2>5
<1>9. /\ page_maps \in Seq(SUBSET Bits) /\ page_metadata_maps \in Seq(SUBSET Bits)
      /\ remapped_regions \in Seq(1 .. IntRange - 1) /\ runs \in Seq(Run)
  BY <1>5
<1>10. used_pages_num \in 0 .. IntRange - 1 /\ reusable_pages_num \in 0 .. IntRange - 1
  BY <1>2, <1>4
<1>11. {Offset(runs[i].first) : i \in DOMAIN runs} \subseteq DOMAIN totals
  BY <1>7
<1>12. TypeOK
  BY <1>3, <1>6, <1>8, <1>9, <1>10, <1>11 DEF TypeOK
<1>13. Rising(Regions)
  <2>1. Regions = Append(remapped_regions, region_capacity) /\ Len(remapped_regions) = 0
    BY <1>5 DEF Regions
  <2>2. Len(Regions) = 0 + 1
    BY <2>1, <1>9
  <2>3. 1..(Len(Regions) - 1) = {}
    BY <2>2
  <2>4. QED BY <2>3 DEF Rising
<1>14. QED BY <1>7, <1>12, <1>13 DEF PInv

LEMMA NeedsPages ==
  ASSUME NEW size \in Size
  PROVE  PagesNeeded(size) \in Nat
<1>1. PICK a : a = size + PageSize - 1
  OBVIOUS
<1>2. PICK w : w = IntRange
  OBVIOUS
<1>3. a \in Int /\ w \in Nat \ {0} /\ PageSize \in Nat \ {0}
  BY <1>1, <1>2, Numbers
<1>4. a % w \in Nat
  BY <1>3, Remainder
<1>5. (a % w) \div PageSize \in Nat
  BY <1>3, <1>4, Quotient
<1>6. QED BY <1>1, <1>2, <1>5 DEF PagesNeeded

\* The end of a run as alloc_page computes it, and as it is.
LEMMA EndInRange ==
  ASSUME NEW end \in Nat
  PROVE  /\ end % IntRange \in Nat
         /\ end < IntRange => end % IntRange = end
<1>1. PICK w : w = IntRange
  OBVIOUS
<1>2. w \in Nat \ {0}
  BY <1>1, Numbers
<1>3. end % w \in Nat
  BY <1>2, Remainder
<1>4. end < w => end % w = end
  BY <1>2
<1>5. QED BY <1>1, <1>3, <1>4

\* What an allocation does, piece by piece.
FailsAt(need) == Growths(need) > 0 /\ Exhausted(Growths(need))

Recorded(first, n) ==
  [o \in DOMAIN totals \cup {Offset(first)} |-> IF o = Offset(first) THEN n ELSE totals[o]]

NewRun(first, n, region) == [first |-> first, pages |-> n, region |-> region, held |-> TRUE]

Failures == {"", "exhausted data space", "fault", "out of range", "invalid data offset"}

LEMMA AllocParts ==
  ASSUME NEW size, AllocPage(size), NEW n, n = PagesNeeded(size),
         NEW first, first = Scanned.first,
         NEW need, need = ((first + n) * PageSize) % IntRange
  PROVE  /\ page_maps' = WithPages(Scanned.maps, first, n)
         /\ page_metadata_maps' = WithHead(page_metadata_maps, first, n)
         /\ map_search_start' = Scanned.start
         /\ used_pages_num' = (used_pages_num + n) % IntRange
         /\ reusable_pages_num' =
              (reusable_pages_num - Cardinality(Reused(Scanned.maps, first, n))
                                      * PagesPerMap * PageSize) % IntRange
         /\ region_capacity' = Capacity[Grown(need)]
         /\ remapped_regions' = remapped_regions \o [i \in 1..Grown(need) |-> Capacity[i - 1]]
         /\ failure' \in Failures
         /\ \/ runs' = runs /\ totals' = totals
            \/ /\ ~FailsAt(need) /\ totals' = Recorded(first, n)
               /\ runs' = Append(runs, NewRun(first, n, Len(remapped_regions') + 1))
BY DEF AllocPage, Grown, FailsAt, NewRun, Recorded, Failures

\* A capacity below a larger one is not 0.
LEMMA Positive ==
  ASSUME region_capacity \in Widths, NEW j \in Nat, Capacity[j] < Capacity[j + 1]
  PROVE  Capacity[j] \in 1 .. IntRange - 1
<1>1. PICK c : c = Capacity[j]
  OBVIOUS
<1>2. c \in 0..(IntRange - 1) /\ IntRange \in Nat \ {0}
  BY <1>1, CapacityIs, Numbers DEF Widths
<1>3. Capacity[j + 1] = (4 * c) % IntRange
  BY <1>1, CapacityIs
<1>4. ASSUME c = 0 PROVE FALSE
  <2>1. 4 * c = 0
    BY <1>4
  <2>2. ASSUME NEW b \in Nat \ {0} PROVE 0 % b = 0
    OBVIOUS
  <2>3. Capacity[j + 1] = 0
    BY <1>2, <1>3, <2>1, <2>2
  <2>4. QED BY <1>1, <1>4, <2>3
<1>5. QED BY <1>1, <1>2, <1>4

\* The regions after an allocation.
LEMMA AllocRegions ==
  ASSUME PInv, NEW size, AllocPage(size), NEW need \in Nat,
         need = ((Scanned.first + PagesNeeded(size)) * PageSize) % IntRange
  PROVE  /\ region_capacity' \in 0 .. IntRange - 1
         /\ remapped_regions' \in Seq(1 .. IntRange - 1)
         /\ Len(Regions') = Len(remapped_regions') + 1 /\ Len(remapped_regions') \in Nat
         /\ Len(Regions) \in Nat /\ Len(Regions) <= Len(Regions')
         /\ Rising(Regions')
         /\ \A i \in 1..Len(Regions) : Regions'[i] = Regions[i]
         /\ ~FailsAt(need) => need <= Regions'[Len(remapped_regions') + 1]
<1>1. /\ region_capacity \in Widths /\ remapped_regions \in Seq(1 .. IntRange - 1)
      /\ Rising(Regions) /\ IntRange \in Nat \ {0}
  BY Numbers DEF PInv, TypeOK, Widths
<1>2. /\ Capacity[0] = region_capacity
      /\ \A j \in Nat : Capacity[j] \in Widths
  BY <1>1, CapacityIs
<1>3. \A j \in Nat : Capacity[j] \in Nat
  BY <1>2 DEF Widths
<1>4. PICK g : g = Grown(need)
  OBVIOUS
<1>5. /\ g \in Nat /\ \A j \in 1..g : Capacity[j - 1] < Capacity[j]
      /\ ~FailsAt(need) => Capacity[g] >= need
  BY <1>1, <1>4, RegionGrows DEF FailsAt
<1>6. /\ region_capacity' = Capacity[g]
      /\ remapped_regions' = remapped_regions \o [i \in 1..g |-> Capacity[i - 1]]
  BY <1>4, AllocParts
<1>7. PICK q : q = remapped_regions
  OBVIOUS
<1>8. PICK r : r = remapped_regions'
  OBVIOUS
<1>9. q \in Seq(1 .. IntRange - 1)
  BY <1>1, <1>7
<1>10. q \in Seq(Nat) /\ Len(q) \in Nat
  BY <1>1, <1>9
<1>11. Regions = Append(q, Capacity[0]) /\ Regions' = Append(r, Capacity[g])
  BY <1>2, <1>6, <1>7, <1>8 DEF Regions
<1>12. Rising(Append(q, Capacity[0]))
  BY <1>1, <1>11
<1>13. r = q \o [i \in 1..g |-> Capacity[i - 1]]
  BY <1>6, <1>7, <1>8
<1>14. /\ r \in Seq(Nat) /\ Len(r) = Len(q) + g
       /\ \A i \in 1..(Len(q) + 1) : Append(r, Capacity[g])[i] = Append(q, Capacity[0])[i]
       /\ Append(r, Capacity[g])[Len(r) + 1] = Capacity[g]
       /\ Rising(Append(r, Capacity[g]))
  <2>1. Climbing(Capacity, g)
    BY <1>3, <1>5 DEF Climbing
  <2>2. Continues(q, r, Capacity, g)
    BY <1>5, <1>10, <1>12, <1>13, <2>1, RegionsAfter
  <2>3. QED BY <2>2 DEF Continues
<1>15. [i \in 1..g |-> Capacity[i - 1]] \in Seq(1 .. IntRange - 1)
  <2>1. ASSUME NEW i \in 1..g PROVE Capacity[i - 1] \in 1 .. IntRange - 1
    <3>1. PICK j : j = i - 1
      OBVIOUS
    <3>2. j \in Nat /\ j + 1 = i
      BY <1>5, <3>1
    <3>3. Capacity[j] < Capacity[j + 1]
      BY <1>5, <3>1, <3>2
    <3>4. QED BY <1>1, <3>1, <3>2, <3>3, Positive
  <2>2. QED BY <1>5, <2>1
<1>16. r \in Seq(1 .. IntRange - 1)
  BY <1>9, <1>13, <1>15
<1>17. Len(Regions) = Len(q) + 1 /\ Len(Regions') = Len(r) + 1 /\ Len(r) \in Nat
  <2>1. \A c \in Nat : Len(Append(q, c)) = Len(q) + 1 /\ Len(Append(r, c)) = Len(r) + 1
    BY <1>10, <1>14
  <2>2. Len(r) \in Nat
    BY <1>14
  <2>3. QED BY <1>3, <1>5, <1>11, <2>1, <2>2
<1>18. region_capacity' \in 0 .. IntRange - 1
  BY <1>2, <1>5, <1>6 DEF Widths
<1>19. Len(Regions) \in Nat /\ Len(Regions) <= Len(Regions')
  BY <1>5, <1>10, <1>14, <1>17
<1>20. \A i \in 1..Len(Regions) : Regions'[i] = Regions[i]
  BY <1>11, <1>14, <1>17
<1>21. ~FailsAt(need) => need <= Regions'[Len(remapped_regions') + 1]
  <2>1. Regions'[Len(remapped_regions') + 1] = Capacity[g]
    BY <1>8, <1>11, <1>14
  <2>2. Capacity[g] \in Nat
    BY <1>3, <1>5
  <2>3. QED BY <1>5, <2>1, <2>2
<1>22. Rising(Regions')
  BY <1>11, <1>14
<1>23. QED BY <1>8, <1>16, <1>17, <1>18, <1>19, <1>20, <1>21, <1>22

\* Runs stay where they are when regions and maps grow.
LEMMA StaysPlaced ==
  ASSUME NEW run, NEW r, NEW s, Placed(run, r), Len(r) \in Nat, Len(s) \in Nat,
         Len(r) <= Len(s), \A i \in 1..Len(r) : s[i] = r[i]
  PROVE  Placed(run, s)
BY DEF Placed

LEMMA StaysMarked ==
  ASSUME NEW run \in Run, NEW a \in Maps, NEW b, Marked(run, a), Len(b) \in Nat,
         Len(a) <= Len(b), \A k \in 1..Len(a) : a[k] \subseteq b[k]
  PROVE  Marked(run, b)
<1>1. SUFFICES ASSUME run.pages > 0
               PROVE  MapOf(run.first) \in 1..Len(b) /\ BitOf(run.first) \in b[MapOf(run.first)]
  BY DEF Marked
<1>2. MapOf(run.first) \in 1..Len(a) /\ BitOf(run.first) \in a[MapOf(run.first)]
  BY <1>1 DEF Marked
<1>3. Len(a) \in Nat
  BY DEF Maps
<1>4. QED BY <1>2, <1>3

LEMMA AllocKeeps ==
  ASSUME PInv, NEW size \in Size, AllocPage(size)
  PROVE  PInv'
<1>1. PICK n : n = PagesNeeded(size)
  OBVIOUS
<1>2. PICK first : first = Scanned.first
  OBVIOUS
<1>3. PICK need : need = ((first + n) * PageSize) % IntRange
  OBVIOUS
<1>4. /\ page_maps \in Maps /\ page_metadata_maps \in Maps
      /\ map_search_start \in SearchStarts(Len(page_maps))
      /\ Len(page_metadata_maps) = Len(page_maps)
      /\ used_pages_num \in Int /\ reusable_pages_num \in Int
      /\ runs \in Seq(Run) /\ {Offset(runs[i].first) : i \in DOMAIN runs} \subseteq DOMAIN totals
      /\ \A p \in DOMAIN totals : totals[p] \in Nat
      /\ \A i \in DOMAIN runs : Placed(runs[i], Regions) /\ Marked(runs[i], page_metadata_maps)
  <2>1. /\ page_maps \in Maps /\ page_metadata_maps \in Maps
        /\ map_search_start \in SearchStarts(Len(page_maps)) /\ runs \in Seq(Run)
        /\ {Offset(runs[i].first) : i \in DOMAIN runs} \subseteq DOMAIN totals
    BY DEF PInv, TypeOK, Maps, SearchStarts
  <2>2. used_pages_num \in 0 .. IntRange - 1 /\ reusable_pages_num \in 0 .. IntRange - 1
    BY DEF PInv, TypeOK
  <2>3. QED BY <2>1, <2>2 DEF PInv
<1>5. /\ Scanned.maps \in Maps /\ Len(Scanned.maps) = Len(page_maps) /\ first \in Nat
      /\ Scanned.start \in SearchStarts(Len(page_maps))
  BY <1>2, <1>4, ScannedRight
<1>6. n \in Nat
  BY <1>1, NeedsPages
<1>7. need \in Nat /\ ((first + n) * PageSize < IntRange => need = (first + n) * PageSize)
  <2>1. PICK end \in Nat : end = (first + n) * PageSize
    BY <1>5, <1>6, Numbers
  <2>2. QED BY <1>3, <2>1, EndInRange
<1>8. /\ page_maps' = WithPages(Scanned.maps, first, n)
      /\ page_metadata_maps' = WithHead(page_metadata_maps, first, n)
      /\ map_search_start' = Scanned.start
      /\ used_pages_num' = (used_pages_num + n) % IntRange
      /\ reusable_pages_num' =
           (reusable_pages_num - Cardinality(Reused(Scanned.maps, first, n))
                                   * PagesPerMap * PageSize) % IntRange
      /\ failure' \in Failures
      /\ \/ runs' = runs /\ totals' = totals
         \/ /\ ~FailsAt(need) /\ totals' = Recorded(first, n)
            /\ runs' = Append(runs, NewRun(first, n, Len(remapped_regions') + 1))
  BY <1>1, <1>2, <1>3, AllocParts
<1>9. /\ region_capacity' \in 0 .. IntRange - 1
      /\ remapped_regions' \in Seq(1 .. IntRange - 1)
      /\ Len(Regions') = Len(remapped_regions') + 1 /\ Len(remapped_regions') \in Nat
      /\ Len(Regions) \in Nat /\ Len(Regions) <= Len(Regions')
      /\ Rising(Regions')
      /\ \A i \in 1..Len(Regions) : Regions'[i] = Regions[i]
      /\ ~FailsAt(need) => need <= Regions'[Len(remapped_regions') + 1]
  BY <1>1, <1>2, <1>3, <1>7, AllocRegions
<1>10. /\ page_maps' \in Maps /\ Len(page_maps') = Max({Len(page_maps), MapOf(first + n - 1)})
       /\ Len(page_maps') \in Nat /\ Len(page_maps) <= Len(page_maps')
  <2>1. Covers(Scanned.maps, first, n, page_maps')
    BY <1>5, <1>6, <1>8, PagesSet
  <2>2. QED BY <1>5, <2>1 DEF Covers
<1>11. /\ page_metadata_maps' \in Maps
       /\ Len(page_metadata_maps') = Max({Len(page_maps), MapOf(first + n - 1)})
       /\ Len(page_metadata_maps) <= Len(page_metadata_maps')
       /\ \A k \in 1..Len(page_metadata_maps) :
            page_metadata_maps[k] \subseteq page_metadata_maps'[k]
       /\ n > 0 => /\ MapOf(first) \in 1..Len(page_metadata_maps')
                   /\ BitOf(first) \in page_metadata_maps'[MapOf(first)]
  <2>1. /\ Covers(page_metadata_maps, first, n, page_metadata_maps')
        /\ n > 0 => HeadIn(first, page_metadata_maps')
    BY <1>4, <1>5, <1>6, <1>8, HeadSet
  <2>2. QED BY <1>4, <2>1 DEF Covers, HeadIn
<1>12. Len(page_metadata_maps') = Len(page_maps')
  BY <1>10, <1>11
<1>13. map_search_start' \in SearchStarts(Len(page_maps'))
  <2>1. PICK a : a = Len(page_maps)
    OBVIOUS
  <2>2. PICK b : b = Len(page_maps')
    OBVIOUS
  <2>3. a \in Nat /\ b \in Nat /\ a <= b
    BY <1>4, <1>10, <2>1, <2>2 DEF Maps
  <2>4. SearchStarts(a) \subseteq SearchStarts(b)
    BY <2>3, WiderSearch
  <2>5. QED BY <1>5, <1>8, <2>1, <2>2, <2>4
<1>14. used_pages_num' \in 0 .. IntRange - 1 /\ reusable_pages_num' \in 0 .. IntRange - 1
  <2>1. Cardinality(Reused(Scanned.maps, first, n)) \in Nat
    <3>1. Reused(Scanned.maps, first, n) \subseteq 1..Len(Scanned.maps) /\ Len(Scanned.maps) \in Nat
      <4>1. DOMAIN Scanned.maps = 1..Len(Scanned.maps) /\ Len(Scanned.maps) \in Nat
        BY <1>5 DEF Maps
      <4>2. QED BY <4>1 DEF Reused
    <3>2. PICK m : m = Len(Scanned.maps)
      OBVIOUS
    <3>3. m \in Nat /\ IsFiniteSet(1..m) /\ Reused(Scanned.maps, first, n) \subseteq 1..m
      <4>1. m \in Nat /\ Reused(Scanned.maps, first, n) \subseteq 1..m
        BY <3>1, <3>2
      <4>2. IsFiniteSet(1..m)
        BY <4>1, FS_Interval
      <4>3. QED BY <4>1, <4>2
    <3>4. IsFiniteSet(Reused(Scanned.maps, first, n))
      BY <3>3, FS_Subset
    <3>5. QED BY <3>4, FS_CardinalityType
  <2>2. PICK u \in Int : u = used_pages_num + n
    BY <1>4, <1>6
  <2>3. PICK v \in Int : v = reusable_pages_num
                 - Cardinality(Reused(Scanned.maps, first, n)) * PagesPerMap * PageSize
    BY <1>4, <2>1, Numbers
  <2>4. \A x \in Int : x % IntRange \in 0 .. IntRange - 1
    BY WithinRange
  <2>5. QED BY <1>8, <2>2, <2>3, <2>4
<1>15. PICK new : new = NewRun(first, n, Len(remapped_regions') + 1)
  OBVIOUS
<1>16. /\ new \in Run /\ new.first = first /\ new.pages = n
       /\ new.region = Len(remapped_regions') + 1
  BY <1>5, <1>6, <1>9, <1>15 DEF NewRun, Run
<1>17. ~FailsAt(need) => Placed(new, Regions')
  <2>1. new.region \in 1..Len(Regions')
    BY <1>9, <1>16
  <2>2. ~Wraps(new) => (new.first + new.pages) * PageSize = need
    <3>1. PICK end \in Nat : end = (first + n) * PageSize
      BY <1>5, <1>6, Numbers
    <3>2. ~(end >= IntRange) => end < IntRange
      BY <3>1, Numbers
    <3>3. Wraps(new) <=> end >= IntRange
      BY <1>16, <3>1 DEF Wraps
    <3>4. QED BY <1>7, <1>16, <3>1, <3>2, <3>3
  <2>3. QED BY <1>9, <1>16, <2>1, <2>2 DEF Placed
<1>18. Marked(new, page_metadata_maps')
  BY <1>11, <1>16 DEF Marked
<1>19. ASSUME NEW i \in DOMAIN runs
       PROVE  Placed(runs[i], Regions') /\ Marked(runs[i], page_metadata_maps')
  <2>1. runs[i] \in Run /\ Placed(runs[i], Regions) /\ Marked(runs[i], page_metadata_maps)
    BY <1>4
  <2>2. Placed(runs[i], Regions')
    BY <1>9, <2>1, StaysPlaced
  <2>3. Marked(runs[i], page_metadata_maps')
    BY <1>4, <1>10, <1>11, <1>12, <2>1, StaysMarked
  <2>4. QED BY <2>2, <2>3
<1>20. /\ runs' \in Seq(Run) /\ {Offset(runs'[i].first) : i \in DOMAIN runs'} \subseteq DOMAIN totals'
       /\ \A p \in DOMAIN totals' : totals'[p] \in Nat
       /\ \A i \in DOMAIN runs' : Placed(runs'[i], Regions') /\ Marked(runs'[i], page_metadata_maps')
  <2>1. CASE runs' = runs /\ totals' = totals
    BY <1>4, <1>19, <2>1
  <2>2. CASE /\ ~FailsAt(need) /\ totals' = Recorded(first, n)
             /\ runs' = Append(runs, NewRun(first, n, Len(remapped_regions') + 1))
    <3>1. runs' = Append(runs, new)
      BY <1>15, <2>2
    <3>2. runs' \in Seq(Run) /\ Len(runs') = Len(runs) + 1 /\ Len(runs) \in Nat
      BY <1>4, <1>16, <3>1
    <3>3. /\ DOMAIN runs' = DOMAIN runs \cup {Len(runs) + 1}
          /\ \A i \in DOMAIN runs : runs'[i] = runs[i]
          /\ runs'[Len(runs) + 1] = new
      BY <1>4, <1>16, <3>1, <3>2
    <3>4. /\ DOMAIN totals' = DOMAIN totals \cup {Offset(first)}
          /\ \A p \in DOMAIN totals' : totals'[p] = IF p = Offset(first) THEN n ELSE totals[p]
      BY <2>2 DEF Recorded
    <3>5. {Offset(runs'[i].first) : i \in DOMAIN runs'} \subseteq DOMAIN totals'
      BY <1>4, <1>16, <3>3, <3>4
    <3>6. \A p \in DOMAIN totals' : totals'[p] \in Nat
      BY <1>4, <1>6, <3>4
    <3>7. \A i \in DOMAIN runs' : Placed(runs'[i], Regions') /\ Marked(runs'[i], page_metadata_maps')
      BY <1>17, <1>18, <1>19, <2>2, <3>3
    <3>8. QED BY <3>2, <3>5, <3>6, <3>7
  <2>3. QED BY <1>8, <2>1, <2>2
<1>21. TypeOK'
  BY <1>8, <1>9, <1>10, <1>11, <1>13, <1>14, <1>20 DEF TypeOK, Maps, SearchStarts, Failures
<1>22. QED BY <1>9, <1>12, <1>20, <1>21 DEF PInv

\* Pages that are given back leave the metadata maps and the regions alone.
LEMMA DeallocKeeps ==
  ASSUME PInv, NEW i \in Held, DeallocPage(i)
  PROVE  PInv'
<1>1. PICK n : n = totals[Offset(runs[i].first)]
  OBVIOUS
<1>2. /\ runs \in Seq(Run) /\ {Offset(runs[j].first) : j \in DOMAIN runs} \subseteq DOMAIN totals
      /\ page_maps \in Maps /\ \A p \in DOMAIN totals : totals[p] \in Nat
  BY DEF PInv, TypeOK, Maps
<1>3. i \in DOMAIN runs /\ runs[i] \in Run
  BY <1>2 DEF Held
<1>4. n \in Nat
  BY <1>1, <1>2, <1>3
<1>5. /\ UNCHANGED <<page_metadata_maps, map_search_start, region_capacity,
                     remapped_regions, totals>>
      /\ used_pages_num' = (used_pages_num - n) % IntRange
      /\ runs' = [runs EXCEPT ![i].held = FALSE]
  BY <1>1 DEF DeallocPage
<1>6. used_pages_num' \in 0 .. IntRange - 1
  <2>1. used_pages_num \in 0 .. IntRange - 1
    BY DEF PInv, TypeOK
  <2>2. PICK u \in Int : u = used_pages_num - n
    BY <1>4, <2>1
  <2>3. QED BY <1>5, <2>2, WithinRange
<1>7. /\ page_maps' \in Maps /\ Len(page_maps') = Len(page_maps)
      /\ reusable_pages_num' \in 0 .. IntRange - 1 /\ failure' \in Failures
  <2>1. reusable_pages_num \in 0 .. IntRange - 1
    BY DEF PInv, TypeOK
  <2>5. failure \in Failures
    BY DEF PInv, TypeOK, Failures
  <2>2. CASE failure' \in {failure, "fault"} /\ UNCHANGED <<page_maps, reusable_pages_num>>
    BY <1>2, <2>1, <2>5, <2>2 DEF Failures
  <2>3. CASE ~(failure' \in {failure, "fault"} /\ UNCHANGED <<page_maps, reusable_pages_num>>)
    <3>1. PICK gone : gone = 0 .. (n - 2)
      OBVIOUS
    <3>2. PICK empty :
            /\ empty \subseteq gone
            /\ \E stray \in {0, 1} :
                 /\ page_maps' = [k \in DOMAIN page_maps |->
                      page_maps[k] \ {BitOf(p) : p \in {q \in gone : MapOf(q) = k}}]
                 /\ reusable_pages_num' =
                      (reusable_pages_num + (Cardinality(empty) + stray)
                                              * PagesPerMap * PageSize) % IntRange
                 /\ UNCHANGED failure
      BY <1>1, <2>3, <3>1 DEF DeallocPage
    <3>3. Cardinality(empty) \in Nat
      <4>1. n - 2 \in Int
        BY <1>4
      <4>2. IsFiniteSet(gone)
        BY <3>1, <4>1, FS_Interval
      <4>3. IsFiniteSet(empty)
        BY <3>2, <4>2, FS_Subset
      <4>4. QED BY <4>3, FS_CardinalityType
    <3>4. PICK stray \in {0, 1} :
            reusable_pages_num' =
              (reusable_pages_num + (Cardinality(empty) + stray) * PagesPerMap * PageSize) % IntRange
      BY <3>2
    <3>5. reusable_pages_num' \in 0 .. IntRange - 1
      <4>1. (Cardinality(empty) + stray) * PagesPerMap * PageSize \in Int
        BY <3>3, Numbers
      <4>2. PICK v \in Int : v = reusable_pages_num
                                   + (Cardinality(empty) + stray) * PagesPerMap * PageSize
        <5>1. reusable_pages_num \in Int
          BY <2>1, Numbers
        <5>2. PICK w \in Int : w = (Cardinality(empty) + stray) * PagesPerMap * PageSize
          BY <4>1
        <5>3. reusable_pages_num + w \in Int
          BY <5>1, <5>2
        <5>4. QED BY <5>2, <5>3
      <4>3. QED BY <3>4, <4>2, WithinRange
    <3>6. page_maps' \in Maps /\ Len(page_maps') = Len(page_maps)
      <4>1. PICK m : m = Len(page_maps)
        OBVIOUS
      <4>2. m \in Nat /\ DOMAIN page_maps = 1..m /\ page_maps \in [1..m -> SUBSET Bits]
        BY <1>2, <4>1 DEF Maps
      <4>3. page_maps' \in [1..m -> SUBSET Bits]
        BY <3>2, <4>2
      <4>4. QED BY <4>1, <4>2, <4>3 DEF Maps
    <3>7. failure' = failure
      BY <3>2
    <3>8. QED BY <2>5, <3>5, <3>6, <3>7
  <2>4. QED BY <2>2, <2>3
<1>8. /\ DOMAIN runs' = DOMAIN runs /\ runs' \in Seq(Run)
      /\ \A j \in DOMAIN runs : /\ runs'[j].first = runs[j].first /\ runs'[j].pages = runs[j].pages
                                /\ runs'[j].region = runs[j].region
  <2>1. PICK m : m = Len(runs)
    OBVIOUS
  <2>2. m \in Nat /\ DOMAIN runs = 1..m /\ runs \in [1..m -> Run]
    BY <1>2, <2>1
  <2>3. [runs[i] EXCEPT !.held = FALSE] \in Run
    BY <1>3 DEF Run
  <2>4. runs' = [j \in 1..m |-> IF j = i THEN [runs[i] EXCEPT !.held = FALSE] ELSE runs[j]]
    BY <1>5, <2>2
  <2>5. runs' \in [1..m -> Run]
    BY <2>2, <2>3, <2>4
  <2>6. runs' \in Seq(Run) /\ DOMAIN runs' = DOMAIN runs
    BY <2>2, <2>5
  <2>7. ASSUME NEW j \in DOMAIN runs
        PROVE  /\ runs'[j].first = runs[j].first /\ runs'[j].pages = runs[j].pages
               /\ runs'[j].region = runs[j].region
    <3>1. runs[j] \in Run
      BY <2>2
    <3>2. CASE j = i
      BY <1>3, <2>2, <2>4, <3>2 DEF Run
    <3>3. CASE j # i
      BY <2>2, <2>4, <3>3
    <3>4. QED BY <3>2, <3>3
  <2>8. QED BY <2>6, <2>7
<1>9. Regions' = Regions
  BY <1>5 DEF Regions
<1>10. TypeOK'
  <2>1. {Offset(runs'[j].first) : j \in DOMAIN runs'} \subseteq DOMAIN totals'
    BY <1>2, <1>5, <1>8
  <2>2. /\ page_metadata_maps' \in Seq(SUBSET Bits)
        /\ region_capacity' \in 0 .. IntRange - 1
        /\ remapped_regions' \in Seq(1 .. IntRange - 1)
        /\ map_search_start' \in 0 .. Max({0, Len(page_maps') - 1})
    BY <1>5, <1>7 DEF PInv, TypeOK
  <2>3. QED BY <1>6, <1>7, <1>8, <2>1, <2>2 DEF TypeOK, Maps, Failures
<1>11. ASSUME NEW j \in DOMAIN runs'
       PROVE  Placed(runs'[j], Regions') /\ Marked(runs'[j], page_metadata_maps')
  <2>1. Placed(runs[j], Regions) /\ Marked(runs[j], page_metadata_maps)
    BY <1>8 DEF PInv
  <2>2. /\ runs'[j].first = runs[j].first /\ runs'[j].pages = runs[j].pages
        /\ runs'[j].region = runs[j].region
    BY <1>8
  <2>3. Placed(runs'[j], Regions)
    BY <2>1, <2>2 DEF Placed, Wraps
  <2>4. Marked(runs'[j], page_metadata_maps)
    BY <2>1, <2>2 DEF Marked
  <2>5. QED BY <1>5, <1>9, <2>3, <2>4
<1>12. Len(page_metadata_maps') = Len(page_maps')
  BY <1>5, <1>7 DEF PInv
<1>13. Rising(Regions') /\ \A p \in DOMAIN totals' : totals'[p] \in Nat
  BY <1>2, <1>5, <1>9 DEF PInv
<1>14. QED BY <1>10, <1>11, <1>12, <1>13 DEF PInv

LEMMA RawPageSeedKeeps ==
  ASSUME PInv, NEW i \in Held, RawPageSeed(i)
  PROVE  PInv'
<1>1. /\ UNCHANGED <<page_maps, page_metadata_maps, map_search_start, used_pages_num,
                     reusable_pages_num, region_capacity, remapped_regions, runs, totals>>
      /\ failure' \in Failures
  BY DEF RawPageSeed, Seed, Failures
<1>2. Regions' = Regions
  BY <1>1 DEF Regions
<1>3. TypeOK'
  BY <1>1 DEF PInv, TypeOK, Failures
<1>4. QED BY <1>1, <1>2, <1>3 DEF PInv

LEMMA PagesStep == PInv /\ [Next]_vars => PInv'
<1> SUFFICES ASSUME PInv, [Next]_vars PROVE PInv'
  OBVIOUS
<1>1. CASE \E size \in Size : AllocPage(size)
  BY <1>1, AllocKeeps
<1>2. CASE \E i \in Held : DeallocPage(i) \/ RawPageSeed(i)
  BY <1>2, DeallocKeeps, RawPageSeedKeeps
<1>3. CASE UNCHANGED vars
  <2>1. Regions' = Regions /\ runs' = runs /\ totals' = totals
        /\ page_maps' = page_maps /\ page_metadata_maps' = page_metadata_maps
    BY <1>3 DEF vars, Regions
  <2>2. TypeOK'
    BY <1>3 DEF vars, PInv, TypeOK
  <2>3. QED BY <2>1, <2>2 DEF PInv
<1>4. QED BY <1>1, <1>2, <1>3 DEF Next

LEMMA PagesAlways == Spec => []PInv
BY PagesStart, PagesStep, PTL DEF Spec

\* Every step of the table keeps its variables in their types.
THEOREM TablesRight == Spec => []TypeOK
<1>1. PInv => TypeOK
  BY DEF PInv
<1>2. QED BY <1>1, PagesAlways, PTL

LEMMA RegionsCount == PInv => Len(remapped_regions) \in Nat /\ Len(Regions) = Len(remapped_regions) + 1
<1> SUFFICES ASSUME PInv PROVE Len(remapped_regions) \in Nat /\ Len(Regions) = Len(remapped_regions) + 1
  OBVIOUS
<1>1. remapped_regions \in Seq(1 .. IntRange - 1) /\ region_capacity \in 0 .. IntRange - 1
  BY DEF PInv, TypeOK
<1>2. IntRange \in Nat
  BY Numbers
<1>3. remapped_regions \in Seq(Nat) /\ region_capacity \in Nat
  BY <1>1, <1>2
<1>4. QED BY <1>3 DEF Regions

\* A run whose end does not wrap lies in the region whose base address it was
\* handed out with, and the regions only grow, for any sizes, those whose end
\* line 203 of alloc_page cuts to 32 bits included, and any number of growths.
THEOREM RegionsRight == Spec => []InRegion
<1>1. ASSUME PInv PROVE InRegion
  <2>1. \A i \in 1 .. Len(remapped_regions) : Regions[i] < Regions[i + 1]
    <3>1. Len(Regions) - 1 = Len(remapped_regions)
      BY <1>1, RegionsCount
    <3>2. QED BY <1>1, <3>1 DEF PInv, Rising
  <2>2. \A i \in Held : ~Wraps(runs[i]) =>
          (runs[i].first + runs[i].pages) * PageSize <= Regions[runs[i].region]
    BY <1>1 DEF PInv, Placed, Held
  <2>3. QED BY <2>1, <2>2 DEF InRegion
<1>2. QED BY <1>1, PagesAlways, PTL

-----------------------------------------------------------------------------
(* raw_page_seed.                                                          *)

\* No region is larger than the last one.
LEMMA LastLargest ==
  ASSUME NEW q \in Seq(Nat), NEW n \in Nat, Len(q) = n + 1, Rising(q), NEW i \in 1..(n + 1)
  PROVE  q[i] <= q[n + 1]
<1> DEFINE S == {d \in Nat : d < n + 1 => q[n + 1 - d] <= q[n + 1]}
<1>1. 0 \in S
  BY DEF S
<1>2. ASSUME NEW d \in Nat, d \in S PROVE d + 1 \in S
  <2>1. SUFFICES ASSUME d + 1 < n + 1 PROVE q[n + 1 - (d + 1)] <= q[n + 1]
    OBVIOUS
  <2>2. PICK j : j = n + 1 - (d + 1)
    OBVIOUS
  <2>3. j \in 1..n /\ j + 1 = n + 1 - d /\ j \in 1..(Len(q) - 1)
    BY <2>1, <2>2
  <2>4. q[j] < q[j + 1]
    BY <2>3 DEF Rising
  <2>5. q[n + 1 - d] <= q[n + 1]
    BY <1>2, <2>1
  <2>6. PICK a : a = q[j]
    OBVIOUS
  <2>7. PICK b : b = q[j + 1]
    OBVIOUS
  <2>8. PICK c : c = q[n + 1]
    OBVIOUS
  <2>9. a \in Nat /\ b \in Nat /\ c \in Nat
    BY <2>3, <2>6, <2>7, <2>8
  <2>10. a < b /\ b <= c
    BY <2>3, <2>4, <2>5, <2>6, <2>7, <2>8
  <2>11. a <= c
    BY <2>9, <2>10
  <2>12. QED BY <2>2, <2>6, <2>8, <2>11
<1> HIDE DEF S
<1>3. Nat \subseteq S
  BY <1>1, <1>2, InductionOn
<1>4. n + 1 - i \in S
  BY <1>3
<1>5. n + 1 - i < n + 1 /\ n + 1 - (n + 1 - i) = i
  OBVIOUS
<1>6. QED BY <1>4, <1>5 DEF S

LEMMA RemainderIs ==
  ASSUME NEW b \in Nat \ {0}, NEW q \in Nat, NEW r \in Nat, r < b
  PROVE  (q * b + r) % b = r /\ (q * b + r) \div b = q
OBVIOUS

LEMMA Divided ==
  ASSUME NEW a \in Nat, NEW b \in Nat \ {0}
  PROVE  \E q \in Nat, r \in Nat : a = q * b + r /\ r = a % b
<1>1. PICK q \in Nat : q = a \div b
  BY Quotient
<1>2. PICK r \in Nat : r = a % b
  BY Remainder
<1>3. a - b * (a \div b) = a % b
  OBVIOUS
<1>4. PICK z \in Nat : z = q * b
  OBVIOUS
<1>5. a - z = r
  BY <1>1, <1>2, <1>3, <1>4
<1>6. a = z + r
  BY <1>5
<1>7. QED BY <1>2, <1>4, <1>6

\* A page whose number modulo b is less than m has the same number modulo m.
LEMMA SameBit ==
  ASSUME NEW a \in Nat, NEW b \in Nat \ {0}, NEW m \in Nat \ {0}, b % m = 0, a % b < m
  PROVE  a % m = a % b
<1>1. PICK q \in Nat, r \in Nat : a = q * b + r /\ r = a % b
  BY Divided
<1>2. PICK c \in Nat : b = c * m
  <2>1. PICK c \in Nat, r0 \in Nat : b = c * m + r0 /\ r0 = 0
    BY Divided
  <2>2. QED BY <2>1
<1>3. PICK d \in Nat : d = q * c
  OBVIOUS
<1>4. a = d * m + r
  BY <1>1, <1>2, <1>3
<1>5. r < m
  BY <1>1
<1>6. (d * m + r) % m = r
  BY <1>5, RemainderIs
<1>7. QED BY <1>1, <1>4, <1>6

\* The offset of a run's first page leads back to the page.
LEMMA OffsetBack ==
  ASSUME NEW first \in Nat, (first + 1) * PageSize < IntRange
  PROVE  Offset(first) = (first + 1) * PageSize /\ (Offset(first) \div PageSize - 1) % IntRange = first
<1>1. PICK p \in Nat \ {0} : p = PageSize
  BY Numbers
<1>2. PICK end \in Nat : end = (first + 1) * p
  BY <1>1
<1>3. end < IntRange
  BY <1>1, <1>2
<1>4. Offset(first) = end
  BY <1>1, <1>2, <1>3, EndInRange DEF Offset
<1>5. end \div p = first + 1
  <2>1. PICK q \in Nat : q = first + 1
    OBVIOUS
  <2>2. end = q * p + 0
    BY <1>2, <2>1
  <2>3. QED BY <2>1, <2>2, RemainderIs
<1>6. first < IntRange
  <2>1. first < end
    BY <1>1, <1>2
  <2>2. QED BY <1>3, <2>1, Numbers
<1>7. first % IntRange = first
  BY <1>6, EndInRange
<1>8. Offset(first) \div PageSize - 1 = first
  <2>1. first + 1 - 1 = first
    OBVIOUS
  <2>2. QED BY <1>1, <1>4, <1>5, <2>1
<1>9. QED BY <1>1, <1>2, <1>4, <1>7, <1>8

\* Of a run that has pages and whose end does not wrap, raw_page_seed never says
\* that its first page is none, for any sizes of pages, maps and regions and
\* whatever was handed out and given back: it finds the bit or throws.
THEOREM SeedsRight == Spec => []SeedsFound
<1>1. ASSUME PInv, NEW i \in Held, runs[i].pages > 0, ~Wraps(runs[i])
      PROVE  Seed(Offset(runs[i].first)) \in {"found", "out of range"}
  <2>0. /\ runs \in Seq(Run) /\ remapped_regions \in Seq(1 .. IntRange - 1)
        /\ region_capacity \in 0 .. IntRange - 1 /\ page_metadata_maps \in Seq(SUBSET Bits)
        /\ \A j \in DOMAIN runs : Placed(runs[j], Regions) /\ Marked(runs[j], page_metadata_maps)
    BY <1>1 DEF PInv, TypeOK
  <2>1. i \in DOMAIN runs /\ runs[i] \in Run
    BY <1>1, <2>0 DEF Held
  <2>2. PICK first \in Nat : first = runs[i].first
    BY <2>1 DEF Run
  <2>3. PICK n \in Nat : n = runs[i].pages /\ n >= 1
    BY <1>1, <2>1 DEF Run
  <2>4. PICK p \in Nat \ {0} : p = PageSize
    BY Numbers
  <2>5. PICK cap : cap = region_capacity
    OBVIOUS
  <2>6. cap \in Nat /\ IntRange \in Nat
    BY <2>0, <2>5, Numbers
  <2>7. (first + n) * p < IntRange
    <3>1. PICK end \in Nat : end = (first + n) * p
      OBVIOUS
    <3>2. ~(end >= IntRange)
      BY <1>1, <2>2, <2>3, <2>4, <3>1 DEF Wraps
    <3>3. QED BY <2>6, <3>1, <3>2
  <2>8. (first + n) * p <= cap
    <3>1. PICK k \in Nat : k = Len(remapped_regions) /\ Len(Regions) = k + 1
      BY <1>1, RegionsCount
    <3>2. runs[i].region \in 1..(k + 1) /\ (first + n) * p <= Regions[runs[i].region]
      BY <1>1, <2>0, <2>1, <2>2, <2>3, <2>4, <3>1 DEF Placed
    <3>3. Regions \in Seq(Nat) /\ Regions[k + 1] = cap
      <4>1. remapped_regions \in Seq(Nat)
        BY <2>0, <2>6
      <4>2. QED BY <2>5, <2>6, <3>1, <4>1 DEF Regions
    <3>4. PICK q : q = Regions
      OBVIOUS
    <3>5. q \in Seq(Nat) /\ Len(q) = k + 1 /\ Rising(q)
      BY <1>1, <3>1, <3>3, <3>4 DEF PInv
    <3>6. q[runs[i].region] <= q[k + 1]
      BY <3>2, <3>5, LastLargest
    <3>7. PICK x \in Nat : x = q[runs[i].region]
      BY <3>2, <3>5
    <3>8. PICK end \in Nat : end = (first + n) * p
      OBVIOUS
    <3>9. end <= x /\ x <= cap
      BY <3>2, <3>3, <3>4, <3>6, <3>7, <3>8
    <3>10. QED BY <2>6, <3>8, <3>9
  <2>9. (first + 1) * p <= (first + n) * p
    BY <2>3
  <2>10. (first + 1) * p < IntRange /\ (first + 1) * p < cap + p
    <3>1. PICK x \in Nat, y \in Nat : x = (first + 1) * p /\ y = (first + n) * p
      OBVIOUS
    <3>2. x <= y /\ y < IntRange /\ y <= cap
      BY <2>7, <2>8, <2>9, <3>1
    <3>3. QED BY <2>6, <3>1, <3>2
  <2>11. /\ Offset(first) = (first + 1) * p
         /\ (Offset(first) \div PageSize - 1) % IntRange = first
    BY <2>4, <2>10, OffsetBack
  <2>12. ~(Offset(first) >= region_capacity + PageSize)
    <3>1. PICK x \in Nat : x = (first + 1) * p
      OBVIOUS
    <3>2. QED BY <2>4, <2>5, <2>6, <2>10, <2>11, <3>1
  <2>13. /\ MapOf(first) \in 1..Len(page_metadata_maps) /\ Len(page_metadata_maps) \in Nat
         /\ BitOf(first) \in page_metadata_maps[MapOf(first)]
    BY <1>1, <2>0, <2>1, <2>2 DEF Marked
  <2>14. first % PageSize < PagesPerMap => first % PageSize = BitOf(first)
    <3>1. PICK m \in Nat \ {0} : m = PagesPerMap /\ p % m = 0
      BY <2>4, Numbers
    <3>2. first % p < m => first % m = first % p
      BY <3>1, SameBit
    <3>3. QED BY <2>4, <3>1, <3>2 DEF BitOf
  <2>15. ~(first % PageSize >= PagesPerMap) => first % PageSize < PagesPerMap
    <3>1. first % p \in Nat /\ PagesPerMap \in Nat
      BY Remainder, Numbers
    <3>2. PICK r \in Nat : r = first % p
      BY <3>1
    <3>3. QED BY <2>4, <3>1, <3>2
  <2>16. ~(MapOf(first) > Len(page_metadata_maps))
    BY <2>13
  <2>17. QED BY <2>2, <2>11, <2>12, <2>13, <2>14, <2>15, <2>16 DEF Seed
<1>2. PInv => SeedsFound
  BY <1>1 DEF SeedsFound
<1>3. QED BY <1>2, PagesAlways, PTL
=============================================================================
