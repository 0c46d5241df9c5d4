------------------------------ MODULE AsyncFile ------------------------------
(***************************************************************************)
(* The asynchronous write path of src/linux/file_operations_linux.cpp      *)
(* under its caller, DownloadThread::_writeFile with zero-copy buffers.     *)
(*                                                                         *)
(* Three parties share one LinuxFileOperations: the extract thread, which   *)
(* submits writes to an io_uring and alone reaps its completions; the main  *)
(* thread, which cancels, and on behalf of the progress watchdog lowers the *)
(* queue depth or drains the ring into synchronous mode; and the kernel,    *)
(* which carries out the writes in any order.  They interleave between the  *)
(* calls they make to one another.                                          *)
(*                                                                         *)
(* The image is a sequence of equal blocks 1 .. MaxBlocks, and block b      *)
(* belongs at position b of the device (position 0 is the first block,      *)
(* which _writeFile holds back).  A write's id is its block.                *)
(***************************************************************************)
EXTENDS Naturals, Sequences, FiniteSetsExt

CONSTANTS
  MaxBlocks,            \* bound: the blocks of the image
  NumSlots,             \* slots of the write ring
  QueueDepth,           \* the depth given to SetAsyncQueueDepth
  MinQueueDepth,        \* kMinAsyncQueueDepth
  WritesMayFail,        \* the device refuses a write
  SubmitMayFail,        \* io_uring_submit returns an error
  CompletionsMayBeLate, \* by more than the five minutes WaitForPendingWrites
                        \* gives them
  SharedQueueRaces      \* the main thread's entries of the submission queue,
                        \* which no lock protects, overwrite the writer's

ASSUME SizeAssumption ==
  /\ MaxBlocks \in Nat \ {0} /\ NumSlots \in Nat \ {0}
  /\ QueueDepth \in Nat /\ MinQueueDepth \in Nat \ {0, 1}
  /\ MinQueueDepth <= QueueDepth
ASSUME FaultAssumption ==
  {WritesMayFail, SubmitMayFail, CompletionsMayBeLate, SharedQueueRaces}
    \subseteq BOOLEAN

Blocks == 1 .. MaxBlocks
Slots == 1 .. NumSlots
Positions == 1 .. 2 * MaxBlocks  \* room for the blocks a skipped position shifts
Results == {"ok", "error", "cancelled"}

VARIABLES
  \* LinuxFileOperations
  open,             \* fd_ >= 0
  queueDepth,       \* async_queue_depth_
  pendingWrites,    \* pending_writes_
  pending,          \* the keys of pending_callbacks_
  request,          \* the position and the slot each block was queued with
  cursor,           \* async_write_offset_
  firstError,       \* first_async_error_ # kSuccess
  cancelled,        \* cancelled_
  syncMode,         \* sync_fallback_mode_
  replay,           \* what AttemptSyncFallback has still to write
  \* the io_uring and the device
  unsubmitted,      \* prepared entries of the submission queue
  inKernel,         \* writes the kernel has taken and not completed
  cancelAsked,      \* those it has been asked to cancel
  completions,      \* the completion queue
  device,
  \* the extract thread
  pc,
  slot,             \* the slot of the write in progress
  accepted,         \* blocks _writeFile has answered for
  waitFor,          \* what a WaitForPendingWrites is for
  outcome,          \* what the user is told at the end
  buffer,           \* what each slot holds
  freeSlots,
  callbacks,        \* how often the callback of a block has run
  \* the main thread
  threadCancelled,  \* DownloadThread::_cancelled
  drain             \* the progress of DrainAndSwitchToSync

counts == <<queueDepth, pendingWrites, pending>>
flags == <<firstError, cancelled, syncMode>>
ring == <<unsubmitted, inKernel, cancelAsked>>
memory == <<buffer, freeSlots, callbacks>>
main == <<threadCancelled, drain>>
writer == <<pc, slot, accepted, waitFor, outcome>>

vars == <<open, counts, request, cursor, flags, replay, ring, completions,
          device, writer, memory, main>>

block == accepted + 1  \* the block of the write in progress

(* What is counted is what is recorded, and the cursor is at most one       *)
(* position ahead for every block.                                          *)
TypeOK ==
  /\ open \in BOOLEAN
  /\ queueDepth \in MinQueueDepth .. QueueDepth
  /\ pending \subseteq Blocks /\ pendingWrites = Cardinality(pending)
  /\ request \in [Blocks -> [position : {0} \cup Positions, slot : {0} \cup Slots]]
  /\ cursor \in 1 .. 2 * accepted + 2
  /\ firstError \in BOOLEAN /\ cancelled \in BOOLEAN /\ syncMode \in BOOLEAN
  /\ replay \subseteq Blocks
  /\ unsubmitted \subseteq Blocks /\ inKernel \subseteq Blocks
  /\ cancelAsked \subseteq Blocks
  /\ completions \in Seq([block : Blocks, result : Results])
  /\ device \in [Positions -> {0} \cup Blocks]
  /\ pc \in {"idle", "enter", "room", "submit", "sync", "fallback", "drain",
             "replay", "done"}
  /\ slot \in {0} \cup Slots
  /\ accepted \in 0 .. MaxBlocks
  /\ waitFor \in {"none", "flush", "finish", "abort"}
  /\ outcome \in Results \cup {"none"}
  /\ buffer \in [Slots -> {0} \cup Blocks]
  /\ freeSlots \subseteq Slots
  /\ callbacks \in [Blocks -> Nat]
  /\ threadCancelled \in BOOLEAN
  /\ drain \in {"no", "waiting", "drained", "stalled"}

(* OpenDevice, and the capture of the first block, which moves the cursor   *)
(* past it.                                                                 *)
Init ==
  /\ open = TRUE
  /\ queueDepth = QueueDepth
  /\ pendingWrites = 0 /\ pending = {}
  /\ request = [b \in Blocks |-> [position |-> 0, slot |-> 0]]
  /\ cursor = 1
  /\ firstError = FALSE /\ cancelled = FALSE /\ syncMode = FALSE
  /\ replay = {}
  /\ unsubmitted = {} /\ inKernel = {} /\ cancelAsked = {}
  /\ completions = <<>>
  /\ device = [p \in Positions |-> 0]
  /\ pc = "idle" /\ slot = 0 /\ accepted = 0
  /\ waitFor = "none" /\ outcome = "none"
  /\ buffer = [s \in Slots |-> 0]
  /\ freeSlots = Slots
  /\ callbacks = [b \in Blocks |-> 0]
  /\ threadCancelled = FALSE /\ drain = "no"

-----------------------------------------------------------------------------
(* The completion callback of a write, which gives its buffer back. *)
Callback(b, s) ==
  /\ callbacks' = [callbacks EXCEPT ![b] = @ + 1]
  /\ freeSlots' = freeSlots \cup {s}
  /\ UNCHANGED buffer

(* Decompression fills a free slot with the next block and hands it to      *)
(* _writeFile.                                                              *)
NextBlock(s) ==
  /\ pc = "idle" /\ ~threadCancelled
  /\ accepted < MaxBlocks
  /\ s \in freeSlots
  /\ buffer' = [buffer EXCEPT ![s] = block]
  /\ freeSlots' = freeSlots \ {s}
  /\ slot' = s
  /\ pc' = "enter" /\ waitFor' = "none"
  /\ UNCHANGED <<open, counts, request, cursor, flags, replay, ring,
                 completions, device, accepted, outcome, callbacks, main>>

(* No slot comes free before the write ring's stall timeout.  With writes   *)
(* in flight that takes a device as slow as CompletionsMayBeLate allows.    *)
(* The end of the image is only found with a slot in hand, so the wait for  *)
(* a slot may stall there too.                                              *)
SlotWaitStalls ==
  /\ pc = "idle" /\ ~threadCancelled
  /\ freeSlots = {}
  /\ CompletionsMayBeLate
  /\ pc' = "drain" /\ waitFor' = "abort"
  /\ UNCHANGED <<open, counts, request, cursor, flags, replay, ring,
                 completions, device, slot, accepted, outcome, memory, main>>

(* The checks at the head of AsyncWriteSequential. *)
EnterSync ==
  /\ pc = "enter" /\ open
  /\ syncMode
  /\ pc' = "sync"
  /\ UNCHANGED <<open, counts, request, cursor, flags, replay, ring,
                 completions, device, slot, accepted, waitFor, outcome, memory, main>>

(* Seeded fault: a refusal without a callback. *)
EnterRefusedSilently ==
  /\ pc = "enter"
  /\ ~open \/ (~syncMode /\ firstError)
  /\ pc' = "fallback"
  /\ UNCHANGED <<open, counts, request, cursor, flags, replay, ring,
                 completions, device, slot, accepted, waitFor, outcome, memory,
                 main>>

EnterRefused ==
  /\ pc = "enter"
  /\ ~open \/ (~syncMode /\ firstError)
  /\ Callback(block, slot)
  /\ pc' = "fallback"
  /\ UNCHANGED <<open, counts, request, cursor, flags, replay, ring,
                 completions, device, slot, accepted, waitFor, outcome, main>>

EnterAsync ==
  /\ pc = "enter" /\ open
  /\ ~syncMode /\ ~firstError
  /\ pc' = "room"
  /\ UNCHANGED <<open, counts, request, cursor, flags, replay, ring,
                 completions, device, slot, accepted, waitFor, outcome, memory, main>>

(* Entries that could not be submitted fill the submission queue.           *)
NoEntry == pendingWrites < queueDepth /\ SubmitMayFail /\ unsubmitted # {}

(* The wait for room in the queue ends when the transfer is cancelled, or   *)
(* an entry is not to be had ...                                            *)
RoomRefused ==
  /\ pc = "room"
  /\ (pendingWrites >= queueDepth /\ cancelled) \/ NoEntry
  /\ Callback(block, slot)
  /\ pc' = "fallback"
  /\ UNCHANGED <<open, counts, request, cursor, flags, replay, ring,
                 completions, device, slot, accepted, waitFor, outcome, main>>

(* ... except by submitting the others ...                                  *)
FlushEntries ==
  /\ pc = "room" /\ NoEntry
  /\ inKernel' = inKernel \cup unsubmitted
  /\ unsubmitted' = {}
  /\ UNCHANGED <<open, counts, request, cursor, flags, replay, cancelAsked,
                 completions, device, writer, memory, main>>

(* ... or when there is room: the write takes the cursor's position and is  *)
(* recorded before it is submitted.                                         *)
Prepare ==
  /\ pc = "room"
  /\ pendingWrites < queueDepth
  /\ request' = [request EXCEPT ![block] = [position |-> cursor, slot |-> slot]]
  /\ cursor' = cursor + 1
  /\ pending' = pending \cup {block}
  /\ pendingWrites' = pendingWrites + 1
  /\ unsubmitted' = unsubmitted \cup {block}
  /\ pc' = "submit"
  /\ UNCHANGED <<open, queueDepth, flags, replay, inKernel, cancelAsked,
                 completions, device, slot, accepted, waitFor, outcome, memory, main>>

(* Seeded fault: the buffer is given back as soon as it is submitted. *)
SubmitAndRelease ==
  /\ pc = "submit"
  /\ inKernel' = inKernel \cup unsubmitted
  /\ unsubmitted' = {}
  /\ freeSlots' = freeSlots \cup {slot}
  /\ accepted' = block
  /\ pc' = "idle"
  /\ UNCHANGED <<open, counts, request, cursor, flags, replay, cancelAsked,
                 completions, device, slot, waitFor, outcome, buffer, callbacks,
                 main>>

Submit ==
  /\ pc = "submit"
  /\ inKernel' = inKernel \cup unsubmitted
  /\ unsubmitted' = {}
  /\ accepted' = block
  /\ pc' = "idle"
  /\ UNCHANGED <<open, counts, request, cursor, flags, replay, cancelAsked,
                 completions, device, slot, waitFor, outcome, memory, main>>

(* io_uring_submit fails: the record is taken back, but neither the cursor  *)
(* nor the prepared entry.                                                  *)
SubmitFails ==
  /\ pc = "submit" /\ SubmitMayFail
  /\ pending' = pending \ {block}
  /\ pendingWrites' = pendingWrites - 1
  /\ Callback(block, slot)
  /\ pc' = "fallback"
  /\ UNCHANGED <<open, queueDepth, request, cursor, flags, replay, ring,
                 completions, device, slot, accepted, waitFor, outcome, main>>

(* WriteSequential, within AsyncWriteSequential ("sync") or as the fallback *)
(* of _writeFile, which then reports the buffer done for the second time.   *)
WriteSequential ==
  /\ pc \in {"sync", "fallback"} /\ open
  /\ device' = [device EXCEPT ![cursor] = buffer[slot]]
  /\ cursor' = cursor + 1
  /\ accepted' = block
  /\ IF pc = "sync"
       THEN Callback(block, slot)
       ELSE freeSlots' = freeSlots \cup {slot} /\ UNCHANGED <<buffer, callbacks>>
  /\ pc' = "idle"
  /\ UNCHANGED <<open, counts, request, flags, replay, ring, completions, slot,
                 waitFor, outcome, main>>

(* A synchronous write that fails is tried again by the fallback of         *)
(* _writeFile.  Failing there aborts a transfer that is not being cancelled *)
(* already.                                                                 *)
WriteSequentialFails ==
  /\ pc \in {"sync", "fallback"}
  /\ ~open \/ WritesMayFail
  /\ IF pc = "sync"
       THEN /\ Callback(block, slot)
            /\ pc' = "fallback"
            /\ UNCHANGED waitFor
       ELSE /\ freeSlots' = freeSlots \cup {slot}
            /\ IF threadCancelled
                 THEN pc' = "idle" /\ UNCHANGED waitFor
                 ELSE pc' = "drain" /\ waitFor' = "abort"
            /\ UNCHANGED <<buffer, callbacks>>
  /\ UNCHANGED <<open, counts, request, cursor, flags, replay, ring,
                 completions, device, slot, accepted, outcome, main>>

(* Seeded fault: the floor of the depth is forgotten. *)
HalveDepthUnfloored ==
  /\ pendingWrites <= queueDepth /\ ~syncMode
  /\ queueDepth' = queueDepth \div 2

(* A completion that took more than ten seconds halves the queue depth. *)
HalveDepth ==
  /\ queueDepth >= 2 * MinQueueDepth
  /\ pendingWrites <= queueDepth /\ ~syncMode
  /\ queueDepth' = queueDepth \div 2

(* One completion, as ProcessCompletions handles it; that of a write no     *)
(* longer recorded is dropped.                                              *)
ProcessCompletion ==
  /\ pendingWrites > 0 /\ completions # <<>>
  /\ completions' = Tail(completions)
  /\ LET c == Head(completions) IN
       IF c.block \in pending
         THEN /\ pending' = pending \ {c.block}
              /\ pendingWrites' = pendingWrites - 1
              /\ firstError' = (firstError \/ c.result = "error")
              /\ Callback(c.block, request[c.block].slot)
              /\ queueDepth' = queueDepth \/ HalveDepth
         ELSE UNCHANGED <<counts, firstError, memory>>
  /\ UNCHANGED <<open, request, cursor, cancelled, syncMode, replay, ring,
                 device, writer, main>>

(* Completions are reaped while the extract thread looks for a free slot    *)
(* and after each write, and while it waits inside the library.             *)
PollAsyncCompletions == pc = "idle" /\ ProcessCompletion
WaitForCompletion == pc \in {"room", "drain"} /\ ProcessCompletion

(* WaitForPendingWrites, for a Flush that follows a write or by             *)
(* _writeComplete, once a read into a free slot has found the end.          *)
StartWait(why) ==
  /\ pc = "idle"
  /\ IF why = "flush" THEN accepted > 0 /\ ~threadCancelled /\ waitFor = "none"
                      ELSE \/ accepted = MaxBlocks /\ freeSlots # {}
                       \/ threadCancelled
  /\ pc' = "drain" /\ waitFor' = why
  /\ UNCHANGED <<open, counts, request, cursor, flags, replay, ring,
                 completions, device, slot, accepted, outcome, memory, main>>

(* CancelAsyncIO asks the kernel to cancel what is recorded, and submits    *)
(* whatever the submission queue holds.                                     *)
CancelPending ==
  /\ cancelAsked' = cancelAsked \cup (pending \cap inKernel)
  /\ inKernel' = inKernel \cup unsubmitted
  /\ unsubmitted' = {}

WaitCancels ==
  /\ pc = "drain" /\ cancelled /\ pendingWrites > 0
  /\ CancelPending
  /\ UNCHANGED <<open, counts, request, cursor, flags, replay, completions,
                 device, writer, memory, main>>

(* Seeded fault: _writeComplete ignores the errors of asynchronous writes. *)
VerdictWithoutErrors(failed) ==
  IF waitFor = "abort" THEN IF threadCancelled THEN "cancelled" ELSE "error"
  ELSE IF threadCancelled THEN "cancelled"
  ELSE IF open THEN "ok" ELSE "error"

(* What the user is told when the wait ends: _writeComplete reports an      *)
(* error before a cancellation before a success, for which the device must  *)
(* still be open to be flushed; a transfer being aborted is no error once   *)
(* it is cancelled.                                                         *)
Verdict(failed) ==
  IF waitFor = "abort" THEN IF threadCancelled THEN "cancelled" ELSE "error"
  ELSE IF failed THEN "error"
  ELSE IF threadCancelled THEN "cancelled"
  ELSE IF open THEN "ok" ELSE "error"

(* A periodic Flush ignores the result of its wait. *)
EndWait(failed) ==
  IF waitFor = "flush"
    THEN pc' = "idle" /\ UNCHANGED outcome
    ELSE pc' = "done" /\ outcome' = Verdict(failed)

WaitReturns ==
  /\ pc = "drain" /\ pendingWrites = 0
  /\ EndWait(firstError)
  /\ UNCHANGED <<open, counts, request, cursor, flags, replay, ring,
                 completions, device, slot, accepted, waitFor, memory, main>>

(* Seeded fault: a wait without the emergency timeout. *)
WaitForEver == FALSE /\ UNCHANGED vars

(* Five minutes without the last completion: AttemptSyncFallback forgets    *)
(* the writes in flight, asks the kernel to cancel them and writes them     *)
(* again itself, in the order of their positions.                           *)
AttemptSyncFallback ==
  /\ pc = "drain" /\ pendingWrites > 0 /\ CompletionsMayBeLate
  /\ replay' = pending
  /\ CancelPending
  /\ cancelled' = TRUE /\ syncMode' = TRUE
  /\ pending' = {} /\ pendingWrites' = 0
  /\ pc' = "replay"
  /\ UNCHANGED <<open, queueDepth, request, cursor, firstError, completions,
                 device, slot, accepted, waitFor, outcome, memory, main>>

Rewrite(b) ==
  /\ device' = [device EXCEPT ![request[b].position] = buffer[request[b].slot]]
  /\ Callback(b, request[b].slot)

(* The last write takes the cursor, the cancellation and the first error    *)
(* back to where a transfer without trouble has them.                       *)
ReplayWrite ==
  /\ pc = "replay"
  /\ LET b == Min(replay) IN
       /\ Rewrite(b)
       /\ replay' = replay \ {b}
       /\ IF replay = {b}
            THEN /\ cursor' = request[b].position + 1
                 /\ cancelled' = FALSE /\ firstError' = FALSE
                 /\ pc' = "drain"
            ELSE UNCHANGED <<cursor, cancelled, firstError, pc>>
  /\ UNCHANGED <<open, counts, request, syncMode, ring, completions, slot,
                 accepted, waitFor, outcome, main>>

(* The replay gives up at the first write that fails or takes too long, or  *)
(* when that is so of the sync after the last of them; the device is let go *)
(* of what takes too long.  The writes left are forgotten.                  *)
ReplayFails ==
  /\ pc = "replay" /\ WritesMayFail
  /\ \/ UNCHANGED <<device, memory>>
     \/ \E b \in Blocks : replay = {b} /\ Rewrite(b)
  /\ open' \in BOOLEAN
  /\ replay' = {}
  /\ EndWait(TRUE)
  /\ UNCHANGED <<counts, request, cursor, flags, ring, completions, slot,
                 accepted, waitFor, main>>

-----------------------------------------------------------------------------
(* The kernel carries out a write, reading the buffer as it is by then. *)
KernelWrites(b) ==
  /\ b \in inKernel
  /\ inKernel' = inKernel \ {b}
  /\ device' = [device EXCEPT ![request[b].position] = buffer[request[b].slot]]
  /\ completions' = Append(completions, [block |-> b, result |-> "ok"])
  /\ UNCHANGED <<open, counts, request, cursor, flags, replay, unsubmitted,
                 cancelAsked, writer, memory, main>>

(* A write is refused, or cancelled on request. *)
KernelRefuses(b, result) ==
  /\ b \in inKernel
  /\ CASE result = "error" -> WritesMayFail
       [] result = "cancelled" -> b \in cancelAsked
  /\ inKernel' = inKernel \ {b}
  /\ completions' = Append(completions, [block |-> b, result |-> result])
  /\ UNCHANGED <<open, counts, request, cursor, flags, replay, unsubmitted,
                 cancelAsked, device, writer, memory, main>>

-----------------------------------------------------------------------------
(* DownloadThread::cancelDownload.  If it meets the extract thread between  *)
(* io_uring_get_sqe and io_uring_submit, the entry of the write may be lost *)
(* to that of a cancel request.                                             *)
CancelDownload ==
  /\ pc # "done" /\ ~threadCancelled /\ drain # "waiting"
  /\ threadCancelled' = TRUE /\ cancelled' = TRUE
  /\ \/ CancelPending
     \/ /\ SharedQueueRaces /\ pc = "submit"
        /\ cancelAsked' = cancelAsked \cup (pending \cap inKernel)
        /\ inKernel' = inKernel \cup (unsubmitted \ {block})
        /\ unsubmitted' = {}
  /\ UNCHANGED <<open, counts, request, cursor, firstError, syncMode, replay,
                 completions, device, writer, memory, drain>>

(* The watchdog halves the depth of a queue that has not moved. *)
ReduceQueueDepthForRecovery ==
  /\ pc # "done" /\ drain # "waiting" /\ pendingWrites > 0
  /\ LET half == IF queueDepth \div 2 > MinQueueDepth
                   THEN queueDepth \div 2 ELSE MinQueueDepth IN
       /\ half < queueDepth
       /\ queueDepth' = half
  /\ UNCHANGED <<open, pendingWrites, pending, request, cursor, flags, replay,
                 ring, completions, device, writer, memory, main>>

(* Later it asks for synchronous writes and waits for those in flight; the  *)
(* extract thread keeps writing, and reaping, meanwhile.                    *)
DrainAndSwitchToSync ==
  /\ pc # "done" /\ drain = "no" /\ pendingWrites > 0
  /\ syncMode' = TRUE
  /\ drain' = "waiting"
  /\ UNCHANGED <<open, counts, request, cursor, firstError, cancelled, replay,
                 ring, completions, device, writer, memory, threadCancelled>>

DrainEnds ==
  /\ drain = "waiting"
  /\ drain' = IF pendingWrites = 0 THEN "drained" ELSE "stalled"
  /\ UNCHANGED <<open, counts, request, cursor, flags, replay, ring,
                 completions, device, writer, memory, threadCancelled>>

-----------------------------------------------------------------------------
ExtractThread ==
  \/ \E s \in Slots : NextBlock(s)
  \/ SlotWaitStalls
  \/ EnterSync \/ EnterRefused \/ EnterAsync
  \/ RoomRefused \/ FlushEntries \/ Prepare \/ Submit \/ SubmitFails
  \/ WriteSequential \/ WriteSequentialFails
  \/ PollAsyncCompletions \/ WaitForCompletion
  \/ \E why \in {"flush", "finish"} : StartWait(why)
  \/ WaitCancels \/ WaitReturns
  \/ AttemptSyncFallback \/ ReplayWrite \/ ReplayFails

Kernel ==
  \E b \in Blocks :
    KernelWrites(b) \/ \E r \in {"error", "cancelled"} : KernelRefuses(b, r)

MainThread ==
  \/ CancelDownload
  \/ ReduceQueueDepthForRecovery
  \/ DrainAndSwitchToSync \/ DrainEnds

Ended == pc = "done" /\ UNCHANGED vars

Next == ExtractThread \/ Kernel \/ MainThread \/ Ended

Spec == Init /\ [][Next]_vars

(* The extract thread runs, and a drain ends by itself.  Either the kernel  *)
(* answers every write, or else the watchdog, which sees no progress,       *)
(* cancels the transfer.                                                    *)
ThreadFairness == WF_vars(ExtractThread) /\ WF_vars(DrainEnds)
FairSpec == Spec /\ ThreadFairness /\ WF_vars(Kernel)
WatchedSpec == Spec /\ ThreadFairness /\ WF_vars(CancelDownload)

-----------------------------------------------------------------------------
(* A transfer reported as a success has every block at its place, whatever  *)
(* the writes did on the way: queued, refused, retried, switched to         *)
(* synchronous mode half-way.                                               *)
SuccessMeansWritten == outcome = "ok" => \A b \in Blocks : device[b] = b

(* The kernel never holds a write whose buffer has been given back and      *)
(* filled with another block ("the buffer must remain valid until the write *)
(* completes", file_operations.h:195).                                      *)
BuffersStayValid ==
  \A b \in inKernel \cup unsubmitted : buffer[request[b].slot] = b

(* The callback of a write runs once, on whichever path it ends.            *)
CallbackOnce ==
  \A b \in Blocks :
    LET runs == callbacks[b] + IF b \in pending \cup replay THEN 1 ELSE 0
    IN  runs <= 1 /\ (b <= accepted => runs = 1)

(* The transfer comes to an end. *)
TransferEnds == <>(pc = "done")
=============================================================================
