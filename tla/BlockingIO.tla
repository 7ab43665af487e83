----------------------------- MODULE BlockingIO -----------------------------
(***************************************************************************)
(* blocking_read and blocking_write of DebugServer.mm: loops that call     *)
(* read or write until "count" bytes went through.  The two are the same   *)
(* code, and the model has one of them: "ready" is how many bytes the      *)
(* socket can give, or take, and a call moves some of these.               *)
(*                                                                         *)
(* A connection is a series of parts, a header, a payload, a header and so *)
(* on, moved by one call after the other.  Their lengths are the counts of *)
(* those calls: what a caller makes of a header that it read out of step   *)
(* is left to DebugServer.  A read or write that is interrupted (EINTR,    *)
(* EAGAIN) is repeated and changes nothing.                                *)
(***************************************************************************)
EXTENDS Naturals

CONSTANTS
  LastPart,     \* the number of parts
  PartStart     \* where each part begins in the stream, and where the last ends

Parts == 1..LastPart

ASSUME BlockingIOAssumption ==
  /\ LastPart \in Nat
  /\ PartStart \in [1..(LastPart + 1) -> Nat]
  /\ PartStart[1] = 0 /\ \A p \in Parts : PartStart[p] <= PartStart[p + 1]

VARIABLES
  ready,    \* bytes that were offered by the socket so far
  open,     \* will there be more?
  part,     \* the part that is being moved
  offset,   \* the variable of that name: bytes moved in this call
  moved,    \* bytes moved over all calls
  failed    \* the call returned false

ioVars == <<ready, open, part, offset, moved, failed>>

PartLength == PartStart[part + 1] - PartStart[part]
Total == PartStart[LastPart + 1]

IOInit ==
  /\ ready = 0 /\ open = TRUE
  /\ part = 1 /\ offset = 0 /\ moved = 0
  /\ failed = FALSE

Moving == part \in Parts /\ ~failed

-----------------------------------------------------------------------------
Offer ==
  /\ open
  /\ ready' \in (ready + 1)..Total
  /\ UNCHANGED <<open, part, offset, moved, failed>>

PeerHangsUp ==
  /\ open
  /\ open' = FALSE
  /\ UNCHANGED <<ready, part, offset, moved, failed>>

\* The length passed to read and write.  It grows by what was moved already,
\* where it should shrink.
Asked == PartLength + offset

\* The loop ends as soon as offset reaches count.
Moves(n, sum) ==
  /\ moved' = moved + n
  /\ IF sum < PartLength THEN offset' = sum /\ part' = part
     ELSE offset' = 0 /\ part' = part + 1

\* mutant: the offset is what the last call moved.
TransferForgets ==
  /\ Moving /\ offset < PartLength
  /\ \E n \in 1..Asked : moved + n <= ready /\ Moves(n, n)
  /\ UNCHANGED <<ready, open, failed>>

Transfer ==
  /\ Moving /\ offset < PartLength
  /\ \E n \in 1..Asked : moved + n <= ready /\ Moves(n, offset + n)
  /\ UNCHANGED <<ready, open, failed>>

\* Nothing to move: the loop is not entered.
TransferNothing ==
  /\ Moving /\ PartLength = 0
  /\ part' = part + 1
  /\ UNCHANGED <<ready, open, offset, moved, failed>>

\* mutant: only the first call of a part may fail.
FailOnlyAtStart ==
  /\ Moving /\ offset = 0 /\ PartLength > 0 /\ ~open /\ moved = ready
  /\ failed' = TRUE
  /\ UNCHANGED <<ready, open, part, offset, moved>>

\* The call returned 0, or failed with anything but EINTR and EAGAIN.
Fail ==
  /\ Moving /\ PartLength > 0 /\ ~open /\ moved = ready
  /\ failed' = TRUE
  /\ UNCHANGED <<ready, open, part, offset, moved>>

IONext == Offer \/ PeerHangsUp \/ Transfer \/ TransferNothing \/ Fail

IOSpec == IOInit /\ [][IONext]_ioVars
IOFairSpec == IOSpec /\ WF_ioVars(Transfer \/ TransferNothing \/ Fail) /\ WF_ioVars(PeerHangsUp)

-----------------------------------------------------------------------------
IOTypeOK ==
  /\ ready \in 0..Total /\ open \in BOOLEAN
  /\ part \in 1..(LastPart + 1) /\ offset \in Nat
  /\ moved \in 0..Total
  /\ failed \in BOOLEAN

\* Every call moves exactly the bytes of its part: the next one starts where
\* the next part starts, and nothing is stored behind the end of a buffer.
InStep == moved = PartStart[part] + offset

\* The loop gets out of step only with a part that comes in pieces, when the other
\* side has sent beyond it before the last piece was moved.  The bytes stored
\* behind the buffer are then at most twice those that came before.
SlipsOnlyWhen ==
  [][InStep /\ ~InStep' =>
       /\ offset > 0 /\ ready > PartStart[part + 1]
       /\ part' = part + 1 /\ moved' - PartStart[part'] <= 2 * offset]_ioVars

\* Once the other side is gone the loop ends, by having moved every part that
\* was offered or by failing.
LoopEnds == ~open ~> (failed \/ part > LastPart)
=============================================================================
