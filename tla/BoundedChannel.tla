--------------------------- MODULE BoundedChannel ---------------------------
(***************************************************************************)
(* What the two threads of a transfer rely on when they talk through a     *)
(* RingBuffer, with no slots in sight: a first-in first-out channel of     *)
(* bounded capacity that the sender can close and anybody can abort.  An   *)
(* abort refuses every later receive; closing refuses every later send and *)
(* leaves what is in the channel to be received.                           *)
(***************************************************************************)
EXTENDS Naturals, Sequences

CONSTANT Capacity

VARIABLES
  queue,    \* the chunks sent and not yet received
  last,     \* the chunk received last, 0 before the first
  closed,
  aborted

chVars == <<queue, last, closed, aborted>>

ChInit ==
  /\ queue = <<>>
  /\ last = 0
  /\ closed = FALSE
  /\ aborted = FALSE

(* Chunks are numbered in the order in which they are sent. *)
Send ==
  /\ ~closed
  /\ Len(queue) < Capacity
  /\ queue' = Append(queue, last + Len(queue) + 1)
  /\ UNCHANGED <<last, closed, aborted>>

Receive ==
  /\ ~aborted
  /\ queue # <<>>
  /\ last' = Head(queue)
  /\ queue' = Tail(queue)
  /\ UNCHANGED <<closed, aborted>>

Close ==
  /\ closed' = TRUE
  /\ UNCHANGED <<queue, last, aborted>>

Abort ==
  /\ aborted' = TRUE
  /\ UNCHANGED <<queue, last, closed>>

Reopen ==
  /\ queue' = <<>>
  /\ last' = 0
  /\ closed' = FALSE
  /\ aborted' = FALSE

ChNext == Send \/ Receive \/ Close \/ Abort \/ Reopen

ChSpec == ChInit /\ [][ChNext]_chVars
=============================================================================
