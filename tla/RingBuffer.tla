----------------------------- MODULE RingBuffer -----------------------------
(***************************************************************************)
(* The slot ring of src/ringbuffer.cpp: a pool of pre-allocated buffers    *)
(* handed between one producer and one consumer.  Every operation holds    *)
(* _mutex from its first read to its last write, so each one is a single   *)
(* action.  A blocking acquire is a sequence of timed-out waits            *)
(* (WriteWaitTimesOut, ReadWaitTimesOut) that ends with a slot, a stall, a *)
(* cancellation or the end of the stream; the waits of the callers' retry  *)
(* loops are the same steps, since the stall clocks survive the call.      *)
(*                                                                         *)
(* The memory behind the slots is abstracted to the number of the chunk it *)
(* holds (0: size reset), chunks being numbered in the order of commit.    *)
(***************************************************************************)
EXTENDS Naturals, Sequences, Functions

CONSTANTS
  NumSlots,      \* _numSlots
  StallTimeout,  \* STALL_TIMEOUT_MS, in timed-out waits
  MaxChunks      \* bound: the chunks the producer commits

ASSUME NumSlotsAssumption == NumSlots \in Nat \ {0}
ASSUME StallTimeoutAssumption == StallTimeout \in Nat \ {0}
ASSUME MaxChunksAssumption == MaxChunks \in Nat

Slots == 0 .. NumSlots - 1
StallTypes == {"None", "ProducerStall", "ConsumerStall"}

VARIABLES
  freeSlots,       \* indices free for writing, a stack with its top at the end
  committedSlots,  \* indices in commit order, oldest first
  slotInUse,       \* handed out and not yet released
  producerDone,
  cancelled,
  stallType,       \* "None" exactly when _stallTimeoutExceeded is false
  producerStall,   \* the producer's stall clock, carried from call to call
  consumerStall,
  data,            \* what the memory of each slot holds
  filling,         \* slots between acquireWriteSlot and commitWriteSlot
  reading,         \* slots between acquireReadSlot and releaseReadSlot
  taken,           \* the chunk the consumer found in the slot it last acquired
  sent,            \* chunks committed so far
  received         \* chunks acquired for reading so far

vars == <<freeSlots, committedSlots, slotInUse, producerDone, cancelled,
          stallType, producerStall, consumerStall, data, filling, reading,
          taken, sent, received>>

flags == <<producerDone, cancelled, stallType>>
clocks == <<producerStall, consumerStall>>

stallTimeoutExceeded == stallType # "None"

TypeOK ==
  /\ freeSlots \in Seq(Slots)
  /\ committedSlots \in Seq(Slots)
  /\ slotInUse \in [Slots -> BOOLEAN]
  /\ producerDone \in BOOLEAN
  /\ cancelled \in BOOLEAN
  /\ stallType \in StallTypes
  /\ producerStall \in 0 .. StallTimeout
  /\ consumerStall \in 0 .. StallTimeout
  /\ data \in [Slots -> Nat]
  /\ filling \subseteq Slots
  /\ reading \subseteq Slots
  /\ taken \in [Slots -> Nat]
  /\ sent \in Nat
  /\ received \in Nat

-----------------------------------------------------------------------------
(* The constructor pushes the indices in reverse, so that slot 0 is on top. *)
AllFree == [i \in 1 .. NumSlots |-> NumSlots - i]

Init ==
  /\ freeSlots = AllFree
  /\ committedSlots = <<>>
  /\ slotInUse = [s \in Slots |-> FALSE]
  /\ producerDone = FALSE
  /\ cancelled = FALSE
  /\ stallType = "None"
  /\ producerStall = 0
  /\ consumerStall = 0
  /\ data = [s \in Slots |-> 0]
  /\ filling = {}
  /\ reading = {}
  /\ taken = [s \in Slots |-> 0]
  /\ sent = 0
  /\ received = 0

Top(stack) == stack[Len(stack)]
Pop(stack) == SubSeq(stack, 1, Len(stack) - 1)

(* acquireWriteSlot hands out the slot released last.  No caller asks for a *)
(* slot after it has called producerDone.                                   *)
AcquireWriteSlot ==
  /\ ~producerDone
  /\ freeSlots # <<>> /\ ~cancelled /\ ~stallTimeoutExceeded
  /\ freeSlots' = Pop(freeSlots)
  /\ slotInUse' = [slotInUse EXCEPT ![Top(freeSlots)] = TRUE]
  /\ filling' = filling \cup {Top(freeSlots)}
  /\ producerStall' = 0
  /\ UNCHANGED <<committedSlots, flags, consumerStall, data, reading, taken,
                 sent, received>>

(* Seeded fault: a producer that keeps waiting after a stall. *)
WriteWaitsOn ==
  /\ freeSlots = <<>> /\ ~producerDone /\ ~cancelled
  /\ producerStall' = producerStall + 1
  /\ stallType' = IF producerStall' >= StallTimeout THEN "ProducerStall"
                                                    ELSE stallType
  /\ UNCHANGED <<freeSlots, committedSlots, slotInUse, producerDone, cancelled,
                 consumerStall, data, filling, reading, taken, sent, received>>

(* The wait of an acquireWriteSlot expires with no slot free. *)
WriteWaitTimesOut ==
  /\ ~producerDone
  /\ freeSlots = <<>> /\ ~cancelled /\ ~stallTimeoutExceeded
  /\ producerStall' = producerStall + 1
  /\ stallType' = IF producerStall' >= StallTimeout THEN "ProducerStall"
                                                    ELSE stallType
  /\ UNCHANGED <<freeSlots, committedSlots, slotInUse, producerDone, cancelled,
                 consumerStall, data, filling, reading, taken, sent, received>>

(* commitWriteSlot neither looks at _slotInUse nor at the flags: a slot     *)
(* acquired before a cancellation or a stall is still queued.               *)
CommitWriteSlot(s) ==
  /\ s \in filling
  /\ sent < MaxChunks
  /\ data' = [data EXCEPT ![s] = sent + 1]
  /\ committedSlots' = Append(committedSlots, s)
  /\ filling' = filling \ {s}
  /\ sent' = sent + 1
  /\ UNCHANGED <<freeSlots, slotInUse, flags, clocks, reading, taken, received>>

(* The consumer is given slot s, and rest stays queued. *)
HandOver(s, rest) ==
  /\ reading' = reading \cup {s}
  /\ taken' = [taken EXCEPT ![s] = data[s]]
  /\ committedSlots' = rest
  /\ received' = received + 1
  /\ consumerStall' = 0
  /\ UNCHANGED <<freeSlots, slotInUse, flags, producerStall, data, filling, sent>>

(* Seeded faults: no slot once a stall is declared; a slot even after a     *)
(* cancellation.                                                            *)
ReadUnlessStalled ==
  /\ ~cancelled /\ ~stallTimeoutExceeded /\ committedSlots # <<>>
  /\ HandOver(Head(committedSlots), Tail(committedSlots))
ReadThoughCancelled ==
  /\ committedSlots # <<>>
  /\ HandOver(Head(committedSlots), Tail(committedSlots))

(* acquireReadSlot, when it returns a slot: a stall does not refuse what is *)
(* already committed, a cancellation does.                                  *)
AcquireReadSlot ==
  /\ ~cancelled /\ committedSlots # <<>>
  /\ HandOver(Head(committedSlots), Tail(committedSlots))

(* Seeded fault: the clock is local to the call. *)
ReadWaitForgets ==
  /\ committedSlots = <<>> /\ ~producerDone /\ ~cancelled /\ ~stallTimeoutExceeded
  /\ consumerStall' = 1
  /\ UNCHANGED <<freeSlots, committedSlots, slotInUse, flags, producerStall, data,
                 filling, reading, taken, sent, received>>

(* The wait of an acquireReadSlot expires with nothing committed. *)
ReadWaitTimesOut ==
  /\ committedSlots = <<>> /\ ~producerDone /\ ~cancelled /\ ~stallTimeoutExceeded
  /\ consumerStall' = consumerStall + 1
  /\ stallType' = IF consumerStall' >= StallTimeout THEN "ConsumerStall"
                                                    ELSE stallType
  /\ UNCHANGED <<freeSlots, committedSlots, slotInUse, producerDone, cancelled,
                 producerStall, data, filling, reading, taken, sent, received>>

(* Seeded fault: no look at _slotInUse. *)
RecycleBlindly(s) ==
  /\ data' = [data EXCEPT ![s] = 0]
  /\ slotInUse' = [slotInUse EXCEPT ![s] = FALSE]
  /\ freeSlots' = Append(freeSlots, s)

(* The body of releaseReadSlot: the size is reset before the lock is taken, *)
(* a slot that is not in use is left where it is.                           *)
Recycle(s) ==
  /\ data' = [data EXCEPT ![s] = 0]
  /\ IF slotInUse[s]
       THEN /\ slotInUse' = [slotInUse EXCEPT ![s] = FALSE]
            /\ freeSlots' = Append(freeSlots, s)
       ELSE UNCHANGED <<slotInUse, freeSlots>>

(* The consumer releases a slot it has read, in any order. *)
ReleaseReadSlot(s) ==
  /\ s \in reading
  /\ Recycle(s)
  /\ reading' = reading \ {s}
  /\ UNCHANGED <<committedSlots, flags, clocks, filling, taken, sent, received>>

(* The pool use: a slot filled and written out by asynchronous I/O goes     *)
(* back without ever being committed.                                       *)
ReleaseWriteSlot(s) ==
  /\ s \in filling
  /\ Recycle(s)
  /\ filling' = filling \ {s}
  /\ UNCHANGED <<committedSlots, flags, clocks, reading, taken, sent, received>>

(* A second release of a slot nobody has acquired since: _writeFile reports *)
(* the same buffer done on the failed asynchronous write and again after    *)
(* the synchronous write it falls back to.                                  *)
ReleaseAgain(s) ==
  /\ s \notin filling \cup reading
  /\ \A i \in 1 .. Len(committedSlots) : committedSlots[i] # s
  /\ Recycle(s)
  /\ UNCHANGED <<committedSlots, flags, clocks, filling, reading, taken, sent,
                 received>>

(* The producer has committed its last chunk. *)
ProducerDone ==
  /\ filling = {}
  /\ producerDone' = TRUE
  /\ UNCHANGED <<freeSlots, committedSlots, slotInUse, cancelled, stallType,
                 clocks, data, filling, reading, taken, sent, received>>

Cancel ==
  /\ cancelled' = TRUE
  /\ UNCHANGED <<freeSlots, committedSlots, slotInUse, producerDone, stallType,
                 clocks, data, filling, reading, taken, sent, received>>

(* reset() gives the ring to a new transfer: what the old one still held is *)
(* forgotten with it.                                                       *)
Reset ==
  /\ freeSlots' = AllFree
  /\ committedSlots' = <<>>
  /\ slotInUse' = [s \in Slots |-> FALSE]
  /\ producerDone' = FALSE
  /\ cancelled' = FALSE
  /\ stallType' = "None"
  /\ producerStall' = 0
  /\ consumerStall' = 0
  /\ data' = [s \in Slots |-> 0]
  /\ filling' = {}
  /\ reading' = {}
  /\ taken' = [s \in Slots |-> 0]
  /\ sent' = 0
  /\ received' = 0

Producer ==
  \/ AcquireWriteSlot
  \/ WriteWaitTimesOut
  \/ \E s \in Slots : CommitWriteSlot(s) \/ ReleaseWriteSlot(s)
  \/ ProducerDone

Consumer ==
  \/ AcquireReadSlot
  \/ ReadWaitTimesOut
  \/ \E s \in Slots : ReleaseReadSlot(s)

Next ==
  \/ Producer
  \/ Consumer
  \/ \E s \in Slots : ReleaseAgain(s)
  \/ Cancel
  \/ Reset

Spec == Init /\ [][Next]_vars

(* A caller that wants a slot calls again until it has one or is refused,   *)
(* and a consumer releases what it has read before it asks for more.        *)
Fairness ==
  /\ WF_vars(AcquireReadSlot)
  /\ WF_vars(WriteWaitTimesOut)
  /\ WF_vars(ReadWaitTimesOut)

FairSpec == Spec /\ Fairness

-----------------------------------------------------------------------------
(* No slot is ever in two hands: the free stack and the committed queue     *)
(* hold each index at most once, and a slot is on the free stack exactly    *)
(* when nobody fills it, reads it or has it queued.  This is what keeps the *)
(* producer away from a buffer the kernel still reads (#1598).              *)
SlotOwnership ==
  /\ IsInjective(freeSlots) /\ IsInjective(committedSlots)
  /\ filling \cap reading = {}
  /\ Range(committedSlots) \cap (filling \cup reading) = {}
  /\ \A s \in Slots : s \in Range(freeSlots) <=> ~slotInUse[s]
  /\ \A s \in Slots :
       slotInUse[s] <=> s \in filling \cup reading \cup Range(committedSlots)

(* Chunks are read in the order of commit, none lost and none repeated,     *)
(* although the free stack recycles the slots out of order.                 *)
CommitOrder ==
  /\ sent = received + Len(committedSlots)
  /\ \A i \in 1 .. Len(committedSlots) : data[committedSlots[i]] = received + i

(* The memory the consumer reads stays what it was when the slot was handed *)
(* over until the consumer itself gives it back.                            *)
ReadStable == \A s \in reading : data[s] = taken[s] /\ data[s] # 0

(* A stall is declared only by a side that has something to wait for, and   *)
(* keeps the name of the side that gave up first: the message shown to the  *)
(* user (the card is slow, the download is slow) is read from it later, on  *)
(* another thread, and only a reset of the ring clears it.                  *)
StallIsFirstCause ==
  [][/\ stallType = "None" /\ stallType' = "ProducerStall" =>
          freeSlots = <<>> /\ ~cancelled
     /\ stallType = "None" /\ stallType' = "ConsumerStall" =>
          committedSlots = <<>> /\ ~cancelled /\ ~producerDone
     /\ stallTimeoutExceeded /\ stallType' # stallType => Reset]_vars

(* A ring is reset between transfers; within one it is left alone. *)
ResetsEnd == <>[][~Reset]_vars

(* Whatever has been committed is handed to the consumer, stall or no       *)
(* stall, unless the transfer is cancelled or the ring reset.               *)
CommittedIsDrained ==
  \A c \in 1 .. MaxChunks :
    sent >= c /\ received < c ~> received >= c \/ cancelled \/ sent < c

(* Neither side waits for ever through its caller's retry loop: it gets a   *)
(* slot, or the wait is declared a stall, or the transfer is over.          *)
NobodyHangs ==
  ResetsEnd =>
    /\ freeSlots = <<>> ~>
         freeSlots # <<>> \/ stallTimeoutExceeded \/ cancelled \/ producerDone
    /\ committedSlots = <<>> ~>
         committedSlots # <<>> \/ stallTimeoutExceeded \/ cancelled \/ producerDone

(* The ring is a first-in first-out channel: its committed slots, read      *)
(* through the free stack's recycling, are the channel's queue.             *)
Channel == INSTANCE BoundedChannel WITH
  Capacity <- NumSlots,
  queue <- [i \in 1 .. Len(committedSlots) |-> data[committedSlots[i]]],
  last <- received,
  closed <- producerDone,
  aborted <- cancelled

ImplementsChannel == Channel!ChSpec
=============================================================================
