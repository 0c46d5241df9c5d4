-------------------------- MODULE AsyncFileProofs ---------------------------
(***************************************************************************)
(* However many blocks, slots and writes in flight, and in whatever order   *)
(* the kernel carries them out: no buffer is refilled under a write, each   *)
(* write is called back once, and success means that every block is at its  *)
(* place.                                                                   *)
(***************************************************************************)
EXTENDS AsyncFile, Integers, FiniteSetTheorems, WellFoundedInduction, TLAPS

-----------------------------------------------------------------------------
(* The inductive invariant. *)

Stages == {"idle", "enter", "room", "submit", "sync", "fallback", "drain",
           "replay", "done"}
Writing == {"enter", "room", "submit", "sync", "fallback"}
Typed ==
  /\ pc \in Stages
  /\ waitFor \in {"none", "flush", "finish", "abort"}
  /\ outcome \in Results \cup {"none"}
  /\ drain \in {"no", "waiting", "drained", "stalled"}

Flags ==
  /\ open \in BOOLEAN /\ firstError \in BOOLEAN /\ cancelled \in BOOLEAN
  /\ syncMode \in BOOLEAN /\ threadCancelled \in BOOLEAN

(* The extract thread has a slot and a block in hand while it writes. *)
Begun == IF pc = "submit" THEN accepted + 1 ELSE accepted
InHand ==
  /\ accepted \in 0 .. MaxBlocks /\ slot \in {0} \cup Slots
  /\ pc \in Writing => slot \in Slots /\ accepted < MaxBlocks
  /\ pc \in {"drain", "replay"} => waitFor # "none"
  /\ pc \in {"drain", "replay"} /\ waitFor = "finish" =>
       accepted = MaxBlocks \/ threadCancelled

(* What is counted as pending is recorded, and what is recorded has begun.  *)
Counted ==
  /\ queueDepth \in MinQueueDepth .. QueueDepth
  /\ pending \subseteq 1 .. Begun /\ pendingWrites = Cardinality(pending)
  /\ pc = "submit" => accepted + 1 \in pending
  /\ replay \subseteq 1 .. accepted
  /\ pc = "replay" <=> replay # {}

(* What is on its way has a slot. *)
OnItsWay == pending \cup replay \cup unsubmitted \cup inKernel
Slotted ==
  /\ request \in [Blocks -> [position : {0} \cup Positions,
                             slot : {0} \cup Slots]]
  /\ unsubmitted \subseteq Blocks /\ inKernel \subseteq Blocks
  /\ cancelAsked \subseteq Blocks
  /\ \A b \in OnItsWay : request[b].slot \in Slots

Memory ==
  /\ device \in [Positions -> {0} \cup Blocks]
  /\ buffer \in [Slots -> {0} \cup Blocks]
  /\ freeSlots \subseteq Slots
  /\ callbacks \in [Blocks -> Nat]

Reaped == completions \in Seq([block : Blocks, result : Results])

(* A position may be skipped for each block, and no more. *)
GoesOn ==
  \/ pc \in {"enter", "room", "sync"}
  \/ pc = "idle" /\ ~threadCancelled
  \/ pc \in {"drain", "replay"} /\ waitFor = "flush"
Placed ==
  /\ cursor \in Nat /\ cursor >= 1
  /\ \/ cursor <= 2 * accepted + 1
     \/ cursor = 2 * accepted + 2 /\ accepted < MaxBlocks /\ ~GoesOn
  /\ \A b \in pending \cup replay :
       request[b].position \in 1 .. 2 * b - 1

(* What the last three properties need of the kernel: it takes what it is   *)
(* given, and answers within the five minutes it has.                       *)
Prompt == ~SubmitMayFail /\ ~CompletionsMayBeLate

(* A recorded write has its slot to itself, with its block in it. *)
Held ==
  /\ pc \in Writing => buffer[slot] = accepted + 1
  /\ pc \in {"enter", "room", "submit", "sync"} => slot \notin freeSlots
  /\ \A b \in pending :
       request[b].slot \notin freeSlots /\ buffer[request[b].slot] = b

(* Only what is recorded is on its way, in one place and once. *)
Answered(b) == \E i \in 1 .. Len(completions) : completions[i].block = b
AnsweredNext(b) ==
  \E i \in 1 .. Len(completions') : completions'[i].block = b
Once ==
  /\ unsubmitted \cup inKernel \subseteq pending
  /\ unsubmitted \cap inKernel = {}
  /\ \A b \in unsubmitted \cup inKernel : ~Answered(b)
  /\ \A b \in Blocks : Answered(b) => b <= Begun

(* A callback runs when its write is no longer recorded. *)
Called ==
  /\ replay = {}
  /\ \A b \in 1 .. accepted : callbacks[b] = IF b \in pending THEN 0 ELSE 1
  /\ \A b \in Blocks :
       /\ b = accepted + 1 =>
            /\ pc = "submit" \/ GoesOn => callbacks[b] = 0
            /\ pc = "fallback" => callbacks[b] = 1
            /\ callbacks[b] \in {0, 1}
       /\ b > accepted + 1 => callbacks[b] = 0

(* What has been accepted is on the device, or will be, or will be told.    *)
Due ==
  /\ cursor = Begun + 1
  /\ \A b \in pending : request[b].position = b
  /\ \A b \in 1 .. accepted :
       b \in pending \/ device[b] = b \/ firstError \/ threadCancelled
  /\ \A i \in 1 .. Len(completions) :
       LET c == completions[i] IN
         /\ c.result = "ok" => device[c.block] = c.block
         /\ c.result = "cancelled" => threadCancelled
  /\ cancelled \/ cancelAsked # {} => threadCancelled
  /\ outcome = "ok" =>
       pc = "done" /\ pending = {} /\ \A b \in Blocks : device[b] = b

IInv ==
  /\ Typed /\ Flags /\ InHand /\ Counted /\ Slotted /\ Memory /\ Reaped
  /\ Placed
  /\ ~CompletionsMayBeLate => Called
  /\ Prompt => Held /\ Once /\ Due

-----------------------------------------------------------------------------
(* The constants, as the proofs use them. *)
LEMMA Constants ==
  /\ MaxBlocks \in Nat /\ MaxBlocks > 0 /\ NumSlots \in Nat /\ NumSlots > 0
  /\ QueueDepth \in Nat /\ MinQueueDepth \in Nat /\ MinQueueDepth > 1
  /\ MinQueueDepth <= QueueDepth
  /\ SubmitMayFail \in BOOLEAN /\ CompletionsMayBeLate \in BOOLEAN
<1> QED
  BY SizeAssumption, FaultAssumption

(* Of some natural numbers one is the least. *)
LEMMA Least ==
  ASSUME NEW S \in SUBSET Nat, S # {}
  PROVE  Min(S) \in S /\ \A y \in S : Min(S) <= y
<1> DEFINE R == OpToRel(<, Nat)
<1>1. IsWellFoundedOn(R, Nat)
  BY NatLessThanWellFounded, Zenon
<1>2. \A y, x \in Nat : y < x => <<y, x>> \in R
  BY DEF OpToRel
<1> HIDE DEF R
<1>3. \E x \in S : \A y \in S : ~ (<<y, x>> \in R)
  BY <1>1, WFMin
<1>4. PICK x \in S : \A y \in S : ~ (<<y, x>> \in R)
  BY <1>3
<1>5. ASSUME NEW y \in S
      PROVE  x <= y
  <2>1. x \in Nat /\ y \in Nat /\ ~ (y < x)
    BY <1>2, <1>4
  <2> QED
    BY <2>1
<1> QED
  BY <1>5 DEF Min

(* What is in a sequence is of its kind. *)
LEMMA Elements ==
  ASSUME NEW S, NEW q \in Seq(S), NEW i \in 1 .. Len(q)
  PROVE  q[i] \in S
<1> QED
  OBVIOUS

(* The numbers of the blocks. *)
LEMMA Numbers ==
  ASSUME InHand
  PROVE  /\ accepted \in Nat /\ accepted <= MaxBlocks /\ MaxBlocks \in Nat
         /\ Begun \in Nat /\ accepted <= Begun /\ Begun <= accepted + 1
         /\ Begun <= MaxBlocks
         /\ pc \in Writing => accepted + 1 \in Blocks
         /\ 1 .. accepted \subseteq Blocks /\ 1 .. Begun \subseteq Blocks
         /\ block = accepted + 1
<1>1. /\ accepted \in 0 .. MaxBlocks /\ MaxBlocks \in Nat
      /\ pc \in Writing => accepted < MaxBlocks
  BY Constants DEF InHand
<1>2. Begun \in {accepted, accepted + 1} /\ (pc = "submit" => pc \in Writing)
  BY DEF Begun, Writing
<1>3. pc # "submit" => Begun = accepted
  BY DEF Begun
<1> QED
  BY <1>1, <1>2, <1>3 DEF Blocks, block

(* How many blocks are pending. *)
LEMMA Cardinals ==
  ASSUME InHand, Counted
  PROVE  /\ IsFiniteSet(pending) /\ pendingWrites \in 0 .. MaxBlocks
         /\ pendingWrites = 0 <=> pending = {}
         /\ \A b \in pending :
              /\ pendingWrites > 0
              /\ Cardinality(pending \ {b}) = pendingWrites - 1
         /\ \A b : b \notin pending =>
              Cardinality(pending \cup {b}) = pendingWrites + 1
<1>1. /\ pending \subseteq 1 .. MaxBlocks /\ MaxBlocks \in Nat
      /\ pendingWrites = Cardinality(pending)
  BY Numbers DEF Counted, Blocks
<1>2. IsFiniteSet(1 .. MaxBlocks) /\ Cardinality(1 .. MaxBlocks) = MaxBlocks
  <2>1. /\ 1 \in Int /\ MaxBlocks \in Int
        /\ IsFiniteSet(1 .. MaxBlocks)
        /\ Cardinality(1 .. MaxBlocks)
             = IF 1 > MaxBlocks THEN 0 ELSE MaxBlocks - 1 + 1
    BY <1>1, FS_Interval
  <2> QED
    BY <1>1, <2>1
<1>3. /\ IsFiniteSet(pending) /\ Cardinality(pending) <= MaxBlocks
      /\ Cardinality(pending) \in Nat
  BY <1>1, <1>2, FS_Subset, FS_CardinalityType
<1>4. Cardinality(pending) = 0 <=> pending = {}
  BY <1>3, FS_EmptySet
<1>5. ASSUME NEW b \in pending
      PROVE  /\ Cardinality(pending) > 0
             /\ Cardinality(pending \ {b}) = Cardinality(pending) - 1
  BY <1>3, <1>4, FS_RemoveElement
<1>6. ASSUME NEW b, b \notin pending
      PROVE  Cardinality(pending \cup {b}) = Cardinality(pending) + 1
  BY <1>3, <1>6, FS_AddElement
<1> QED
  BY <1>1, <1>3, <1>4, <1>5, <1>6

Completion == [block : Blocks, result : Results]

(* A completion is looked at: its write is recorded, or it is not. *)
Reap(c) ==
  /\ c.block \in pending
  /\ pending' = pending \ {c.block}
  /\ pendingWrites' = pendingWrites - 1
  /\ firstError' = (firstError \/ c.result = "error")
  /\ Callback(c.block, request[c.block].slot)
  /\ queueDepth' = queueDepth \/ HalveDepth
Forget(c) ==
  /\ c.block \notin pending
  /\ UNCHANGED <<queueDepth, pendingWrites, pending, firstError, buffer,
                 freeSlots, callbacks>>

(* One completion is taken from the queue and looked at. *)
LEMMA ProcessDoes ==
  ASSUME Reaped, ProcessCompletion
  PROVE  /\ completions' \in Seq(Completion)
         /\ \A i \in 1 .. Len(completions') :
              /\ i + 1 \in 1 .. Len(completions)
              /\ completions'[i] = completions[i + 1]
         /\ 1 \in 1 .. Len(completions) /\ completions[1] \in Completion
         /\ Reap(completions[1]) \/ Forget(completions[1])
         /\ UNCHANGED <<open, request, cursor, cancelled, syncMode, replay,
                        unsubmitted, inKernel, cancelAsked, device, pc, slot,
                        accepted, waitFor, outcome, threadCancelled, drain>>
<1>1. /\ completions \in Seq(Completion) /\ completions # <<>>
      /\ completions' = Tail(completions)
  BY DEF Reaped, Completion, ProcessCompletion
<1>2. Len(completions) \in Nat \ {0}
  BY <1>1
<1>3. 1 \in 1 .. Len(completions)
  BY <1>2
<1>4. Head(completions) = completions[1]
  BY <1>1
<1>5. completions[1] \in Completion
  BY <1>1, <1>3, Elements
<1>6. /\ completions' \in Seq(Completion)
      /\ Len(completions') = Len(completions) - 1
  BY <1>1
<1>7. \A i \in 1 .. Len(completions') :
        /\ i + 1 \in 1 .. Len(completions)
        /\ completions'[i] = completions[i + 1]
  BY <1>1, <1>2, <1>6
<1>8. Reap(completions[1]) \/ Forget(completions[1])
  BY <1>4 DEF ProcessCompletion, Reap, Forget, counts, memory
<1> QED
  BY <1>3, <1>5, <1>6, <1>7, <1>8 DEF ProcessCompletion, ring, writer, main

(* A completion is put at the end of the queue. *)
LEMMA KernelDoes ==
  ASSUME Reaped, NEW c \in Completion, completions' = Append(completions, c)
  PROVE  /\ completions' \in Seq(Completion)
         /\ Len(completions) \in Nat
         /\ Len(completions') = Len(completions) + 1
         /\ Len(completions') \in 1 .. Len(completions')
         /\ completions'[Len(completions')] = c
         /\ \A i \in 1 .. Len(completions) :
              /\ i \in 1 .. Len(completions')
              /\ completions'[i] = completions[i]
         /\ \A i \in 1 .. Len(completions') :
              \/ i \in 1 .. Len(completions)
              \/ completions'[i] = c
<1>1. completions \in Seq(Completion)
  BY DEF Reaped, Completion
<1>2. /\ completions' \in Seq(Completion) /\ Len(completions) \in Nat
      /\ Len(completions') = Len(completions) + 1
      /\ \A i \in 1 .. Len(completions) : completions'[i] = completions[i]
      /\ completions'[Len(completions) + 1] = c
  BY <1>1
<1>3. /\ Len(completions') \in 1 .. Len(completions')
      /\ \A i \in 1 .. Len(completions) : i \in 1 .. Len(completions')
      /\ \A i \in 1 .. Len(completions') :
           i \in 1 .. Len(completions) \/ i = Len(completions) + 1
  BY <1>2
<1> QED
  BY <1>2, <1>3

(* What a callback does to the memory. *)
LEMMA CallbackDoes ==
  ASSUME Memory, NEW b \in Blocks, NEW s \in Slots, Callback(b, s)
  PROVE  /\ callbacks' \in [Blocks -> Nat]
         /\ callbacks'[b] = callbacks[b] + 1
         /\ \A a \in Blocks : a # b => callbacks'[a] = callbacks[a]
         /\ freeSlots' = freeSlots \cup {s} /\ freeSlots' \subseteq Slots
         /\ buffer' = buffer
<1> QED
  BY DEF Memory, Callback

(* A device that is written to holds blocks. *)
LEMMA DeviceDoes ==
  ASSUME Memory, NEW p, NEW s \in Slots,
         device' = [device EXCEPT ![p] = buffer[s]]
  PROVE  /\ device' \in [Positions -> {0} \cup Blocks]
         /\ p \in Positions => device'[p] = buffer[s]
         /\ \A q \in Positions : q # p => device'[q] = device[q]
<1> QED
  BY DEF Memory

(* The depth stays within its limits. *)
LEMMA DepthStays ==
  ASSUME Counted, queueDepth' = queueDepth \/ HalveDepth
  PROVE  queueDepth' \in MinQueueDepth .. QueueDepth
<1>1. /\ queueDepth \in MinQueueDepth .. QueueDepth
      /\ MinQueueDepth \in Nat /\ QueueDepth \in Nat
  BY Constants DEF Counted
<1> QED
  BY <1>1 DEF HalveDepth

(* A pending write that is answered is no longer counted. *)
LEMMA ReapCounts ==
  ASSUME InHand, Counted, NEW c, Reap(c), pc \in {"idle", "room", "drain"},
         UNCHANGED <<pc, accepted, replay>>
  PROVE  Counted'
<1>1. /\ c.block \in pending /\ pending' = pending \ {c.block}
      /\ pendingWrites' = pendingWrites - 1
  BY DEF Reap
<1>2. pendingWrites' = Cardinality(pending')
  BY <1>1, Cardinals
<1>3. queueDepth' \in MinQueueDepth .. QueueDepth
  BY DepthStays DEF Reap
<1>4. Begun' = Begun
  BY DEF Begun
<1> QED
  BY <1>1, <1>2, <1>3, <1>4 DEF Counted

(* The replay of a write. *)
ReplayOf(b) ==
  /\ device' = [device EXCEPT ![request[b].position] =
                               buffer[request[b].slot]]
  /\ replay' = replay \ {b}
  /\ Callback(b, request[b].slot)
  /\ IF replay = {b}
       THEN /\ cursor' = request[b].position + 1
            /\ cancelled' = FALSE /\ firstError' = FALSE
            /\ pc' = "drain"
       ELSE UNCHANGED <<cursor, cancelled, firstError, pc>>

(* What is replayed is one of the writes to be replayed. *)
LEMMA ReplayDoes ==
  ASSUME InHand, Counted, ReplayWrite
  PROVE  /\ \E b \in replay : b \in Blocks /\ ReplayOf(b)
         /\ UNCHANGED <<open, queueDepth, pendingWrites, pending, request,
                        syncMode, unsubmitted, inKernel, cancelAsked,
                        completions, slot, accepted, waitFor, outcome,
                        threadCancelled, drain>>
         /\ pc = "replay"
<1>1. replay \subseteq Blocks /\ replay # {} /\ replay \subseteq Nat
  BY Numbers DEF Counted, ReplayWrite, Blocks
<1>2. Min(replay) \in replay
  BY <1>1, Least
<1>3. ReplayOf(Min(replay))
  BY DEF ReplayWrite, Rewrite, ReplayOf
<1> QED
  BY <1>1, <1>2, <1>3 DEF ReplayWrite, counts, ring, main


(* When nothing is late, nothing is replayed. *)
LEMMA NoReplay ==
  ASSUME IInv, ~CompletionsMayBeLate
  PROVE  replay = {} /\ pc # "replay"
<1> QED
  BY DEF IInv, Called, Counted

(* What a prompt kernel gives. *)
LEMMA PromptSays ==
  ASSUME IInv, Prompt
  PROVE  /\ replay = {} /\ pc # "replay"
         /\ ~SubmitMayFail /\ ~CompletionsMayBeLate
         /\ Held /\ Once /\ Due
<1> QED
  BY NoReplay DEF IInv, Prompt

(* The slot in hand is no slot of a recorded write, and no two recorded     *)
(* writes share a slot.                                                     *)
LEMMA Apart ==
  ASSUME IInv, Prompt
  PROVE  /\ \A a, b \in pending :
              a # b => request[a].slot # request[b].slot
         /\ pc \in Writing /\ pc # "submit" =>
              \A b \in pending : request[b].slot # slot
<1>1. \A b \in pending : buffer[request[b].slot] = b
  BY DEF IInv, Held
<1>2. ASSUME pc \in Writing, pc # "submit", NEW b \in pending
      PROVE  request[b].slot # slot
  <2>1. buffer[slot] = accepted + 1
    BY <1>2 DEF IInv, Held
  <2>2. b \in 1 .. accepted /\ accepted \in Nat
    BY <1>2, Numbers DEF IInv, Counted, Begun
  <2> QED
    BY <1>1, <2>1, <2>2
<1> QED
  BY <1>1, <1>2

(* A completion is of a block. *)
LEMMA Completed ==
  ASSUME Reaped, NEW i \in 1 .. Len(completions)
  PROVE  completions[i] \in Completion
<1>1. completions \in Seq(Completion)
  BY DEF Reaped, Completion
<1> QED
  BY <1>1, Elements


(* The simple types. *)
LEMMA KeepsTyped ==
  ASSUME IInv, Next
  PROVE  Typed'
<1>1. CASE ExtractThread
  <2>1. CASE PollAsyncCompletions
    <3>1. ProcessCompletion
      BY <2>1 DEF PollAsyncCompletions, WaitForCompletion
    <3> QED
      BY <2>1, <3>1, ProcessDoes DEF IInv, Typed
  <2>2. CASE WaitForCompletion
    <3>1. ProcessCompletion
      BY <2>2 DEF PollAsyncCompletions, WaitForCompletion
    <3> QED
      BY <2>2, <3>1, ProcessDoes DEF IInv, Typed
  <2>3. CASE (\E s \in Slots : NextBlock(s)) \/ SlotWaitStalls \/ EnterSync \/
          EnterRefused \/ EnterAsync \/ RoomRefused \/ Prepare \/ Submit \/
          SubmitFails \/ WriteSequential \/ WriteSequentialFails \/ (\E why \in
          {"flush", "finish"} : StartWait(why)) \/ WaitCancels \/ WaitReturns
          \/ AttemptSyncFallback \/ ReplayWrite \/ ReplayFails \/
          FlushEntries
    BY <2>3 DEF IInv, Typed, Stages, Results, InHand, writer, main, NextBlock,
      SlotWaitStalls, EnterSync, EnterRefused, EnterAsync, RoomRefused,
      Prepare, Submit, SubmitFails, WriteSequential, WriteSequentialFails,
      StartWait, WaitCancels, CancelPending, WaitReturns, EndWait, Verdict,
      AttemptSyncFallback, ReplayWrite, ReplayFails, FlushEntries
  <2> QED
    BY <1>1, <2>1, <2>2, <2>3 DEF ExtractThread
<1>2. CASE Kernel
  BY <1>2 DEF IInv, Typed, Stages, Results, InHand, writer, main, Kernel,
    KernelWrites, KernelRefuses
<1>3. CASE MainThread
  BY <1>3 DEF IInv, Typed, Stages, Results, InHand, writer, main, MainThread,
    CancelDownload, CancelPending, ReduceQueueDepthForRecovery,
    DrainAndSwitchToSync, DrainEnds
<1>4. CASE Ended
  BY <1>4 DEF IInv, Typed, Stages, Results, InHand, writer, main, Ended, vars
<1> QED
  BY <1>1, <1>2, <1>3, <1>4 DEF Next

(* The flags are flags. *)
LEMMA KeepsFlags ==
  ASSUME IInv, Next
  PROVE  Flags'
<1>1. CASE ExtractThread
  <2>1. CASE PollAsyncCompletions
    <3>1. ProcessCompletion
      BY <2>1 DEF PollAsyncCompletions, WaitForCompletion
    <3> QED
      BY <2>1, <3>1, ProcessDoes DEF IInv, Flags, Reap, Forget
  <2>2. CASE WaitForCompletion
    <3>1. ProcessCompletion
      BY <2>2 DEF PollAsyncCompletions, WaitForCompletion
    <3> QED
      BY <2>2, <3>1, ProcessDoes DEF IInv, Flags, Reap, Forget
  <2>3. CASE (\E s \in Slots : NextBlock(s)) \/ SlotWaitStalls \/ EnterSync \/
          EnterRefused \/ EnterAsync \/ RoomRefused \/ Prepare \/ Submit \/
          SubmitFails \/ WriteSequential \/ WriteSequentialFails \/ (\E why \in
          {"flush", "finish"} : StartWait(why)) \/ WaitCancels \/ WaitReturns
          \/ AttemptSyncFallback \/ ReplayWrite \/ ReplayFails \/
          FlushEntries
    BY <2>3 DEF IInv, Flags, flags, main, NextBlock, SlotWaitStalls, EnterSync,
      EnterRefused, EnterAsync, RoomRefused, Prepare, Submit, SubmitFails,
      WriteSequential, WriteSequentialFails, StartWait, WaitCancels,
      CancelPending, WaitReturns, EndWait, Verdict, AttemptSyncFallback,
      ReplayWrite, ReplayFails, FlushEntries
  <2> QED
    BY <1>1, <2>1, <2>2, <2>3 DEF ExtractThread
<1>2. CASE Kernel
  BY <1>2 DEF IInv, Flags, flags, main, Kernel, KernelWrites, KernelRefuses
<1>3. CASE MainThread
  BY <1>3 DEF IInv, Flags, flags, main, MainThread, CancelDownload,
    CancelPending, ReduceQueueDepthForRecovery, DrainAndSwitchToSync, DrainEnds
<1>4. CASE Ended
  BY <1>4 DEF IInv, Flags, flags, main, Ended, vars
<1> QED
  BY <1>1, <1>2, <1>3, <1>4 DEF Next

(* What the extract thread has in hand. *)
LEMMA KeepsInHand ==
  ASSUME IInv, Next
  PROVE  InHand'
<1>1. CASE ExtractThread
  <2>1. ASSUME NEW s \in Slots, NextBlock(s)
        PROVE  InHand'
    BY <2>1, Numbers DEF IInv, InHand, Writing, block, writer, main, NextBlock
  <2>2. CASE SlotWaitStalls
    BY <2>2, Numbers DEF IInv, InHand, Writing, block, writer, main,
      SlotWaitStalls
  <2>3. CASE EnterSync
    BY <2>3, Numbers DEF IInv, InHand, Writing, block, writer, main, EnterSync
  <2>4. CASE EnterRefused
    BY <2>4, Numbers DEF IInv, InHand, Writing, block, writer, main,
      EnterRefused
  <2>5. CASE EnterAsync
    BY <2>5, Numbers DEF IInv, InHand, Writing, block, writer, main, EnterAsync
  <2>6. CASE RoomRefused
    BY <2>6, Numbers DEF IInv, InHand, Writing, block, writer, main,
      RoomRefused
  <2>7. CASE Prepare
    BY <2>7, Numbers DEF IInv, InHand, Writing, block, writer, main, Prepare
  <2>8. CASE Submit
    BY <2>8, Numbers DEF IInv, InHand, Writing, block, writer, main, Submit
  <2>9. CASE SubmitFails
    BY <2>9, Numbers DEF IInv, InHand, Writing, block, writer, main,
      SubmitFails
  <2>10. CASE WriteSequential
    BY <2>10, Numbers DEF IInv, InHand, Writing, block, writer, main,
      WriteSequential
  <2>11. CASE WriteSequentialFails
    BY <2>11, Numbers DEF IInv, InHand, Writing, block, writer, main,
      WriteSequentialFails
  <2>12. CASE PollAsyncCompletions
    <3>1. ProcessCompletion
      BY <2>12 DEF PollAsyncCompletions, WaitForCompletion
    <3> QED
      BY <2>12, <3>1, ProcessDoes DEF IInv, InHand
  <2>13. CASE WaitForCompletion
    <3>1. ProcessCompletion
      BY <2>13 DEF PollAsyncCompletions, WaitForCompletion
    <3> QED
      BY <2>13, <3>1, ProcessDoes DEF IInv, InHand
  <2>14. ASSUME NEW why \in {"flush", "finish"}, StartWait(why)
         PROVE  InHand'
    BY <2>14, Numbers DEF IInv, InHand, Writing, block, writer, main, StartWait
  <2>15. CASE WaitCancels
    BY <2>15, Numbers DEF IInv, InHand, Writing, block, writer, main,
      WaitCancels, CancelPending
  <2>16. CASE WaitReturns
    BY <2>16, Numbers DEF IInv, InHand, Writing, block, writer, main,
      WaitReturns, EndWait, Verdict
  <2>17. CASE AttemptSyncFallback
    BY <2>17, Numbers DEF IInv, InHand, Writing, block, writer, main,
      AttemptSyncFallback, CancelPending
  <2>18. CASE ReplayWrite
    <3>1. /\ pc = "replay" /\ pc' \in {"replay", "drain"}
          /\ UNCHANGED <<accepted, slot, waitFor, threadCancelled>>
      BY <2>18, ReplayDoes DEF IInv, ReplayOf
    <3> QED
      BY <3>1 DEF IInv, InHand, Writing
  <2>19. CASE ReplayFails
    BY <2>19, Numbers DEF IInv, InHand, Writing, block, writer, main,
      ReplayFails, EndWait, Verdict
  <2>20. CASE FlushEntries
    BY <2>20, Numbers DEF IInv, InHand, Writing, block, writer, main,
      FlushEntries
  <2> QED
    BY <1>1, <2>1, <2>2, <2>3, <2>4, <2>5, <2>6, <2>7, <2>8, <2>9, <2>10,
      <2>11, <2>12, <2>13, <2>14, <2>15, <2>16, <2>17, <2>18, <2>19,
      <2>20 DEF ExtractThread
<1>2. CASE Kernel
  BY <1>2, Numbers DEF IInv, InHand, Writing, block, writer, main, Kernel,
    KernelWrites, KernelRefuses
<1>3. CASE MainThread
  BY <1>3, Numbers DEF IInv, InHand, Writing, block, writer, main, MainThread,
    CancelDownload, CancelPending, ReduceQueueDepthForRecovery,
    DrainAndSwitchToSync, DrainEnds
<1>4. CASE Ended
  BY <1>4, Numbers DEF IInv, InHand, Writing, block, writer, main, Ended, vars
<1> QED
  BY <1>1, <1>2, <1>3, <1>4 DEF Next

(* What is counted as pending is pending. *)
LEMMA KeepsCounted ==
  ASSUME IInv, Next
  PROVE  Counted'
<1>1. CASE ExtractThread
  <2>1. ASSUME NEW s \in Slots, NextBlock(s)
        PROVE  Counted'
    BY <2>1, Numbers, Cardinals, Constants DEF IInv, InHand, Counted, Begun,
      Writing, block, counts, writer, NextBlock
  <2>2. CASE SlotWaitStalls
    BY <2>2, Numbers, Cardinals, Constants DEF IInv, InHand, Counted, Begun,
      Writing, block, counts, writer, SlotWaitStalls
  <2>3. CASE EnterSync
    BY <2>3, Numbers, Cardinals, Constants DEF IInv, InHand, Counted, Begun,
      Writing, block, counts, writer, EnterSync
  <2>4. CASE EnterRefused
    BY <2>4, Numbers, Cardinals, Constants DEF IInv, InHand, Counted, Begun,
      Writing, block, counts, writer, EnterRefused
  <2>5. CASE EnterAsync
    BY <2>5, Numbers, Cardinals, Constants DEF IInv, InHand, Counted, Begun,
      Writing, block, counts, writer, EnterAsync
  <2>6. CASE RoomRefused
    BY <2>6, Numbers, Cardinals, Constants DEF IInv, InHand, Counted, Begun,
      Writing, block, counts, writer, RoomRefused
  <2>7. CASE Prepare
    BY <2>7, Numbers, Cardinals, Constants DEF IInv, InHand, Counted, Begun,
      Writing, block, counts, writer, Prepare
  <2>8. CASE Submit
    BY <2>8, Numbers, Cardinals, Constants DEF IInv, InHand, Counted, Begun,
      Writing, block, counts, writer, Submit
  <2>9. CASE SubmitFails
    BY <2>9, Numbers, Cardinals, Constants DEF IInv, InHand, Counted, Begun,
      Writing, block, counts, writer, SubmitFails
  <2>10. CASE WriteSequential
    BY <2>10, Numbers, Cardinals, Constants DEF IInv, InHand, Counted, Begun,
      Writing, block, counts, writer, WriteSequential
  <2>11. CASE WriteSequentialFails
    BY <2>11, Numbers, Cardinals, Constants DEF IInv, InHand, Counted, Begun,
      Writing, block, counts, writer, WriteSequentialFails
  <2>12. CASE PollAsyncCompletions
    <3>1. ProcessCompletion /\ pc \in {"idle", "room", "drain"}
      BY <2>12 DEF PollAsyncCompletions, WaitForCompletion
    <3>2. PICK c \in Completion : Reap(c) \/ Forget(c)
      BY <3>1, ProcessDoes DEF IInv
    <3>3. UNCHANGED <<open, request, cursor, cancelled, syncMode, replay,
                      unsubmitted, inKernel, cancelAsked, device, pc, slot,
                      accepted, waitFor, outcome, threadCancelled, drain>>
      BY <3>1, ProcessDoes DEF IInv
    <3>4. CASE Reap(c)
      BY <3>1, <3>3, <3>4, ReapCounts DEF IInv
    <3>5. CASE Forget(c)
      BY <3>3, <3>5 DEF Forget, IInv, Counted, Begun
    <3> QED
      BY <3>2, <3>4, <3>5
  <2>13. CASE WaitForCompletion
    <3>1. ProcessCompletion /\ pc \in {"idle", "room", "drain"}
      BY <2>13 DEF PollAsyncCompletions, WaitForCompletion
    <3>2. PICK c \in Completion : Reap(c) \/ Forget(c)
      BY <3>1, ProcessDoes DEF IInv
    <3>3. UNCHANGED <<open, request, cursor, cancelled, syncMode, replay,
                      unsubmitted, inKernel, cancelAsked, device, pc, slot,
                      accepted, waitFor, outcome, threadCancelled, drain>>
      BY <3>1, ProcessDoes DEF IInv
    <3>4. CASE Reap(c)
      BY <3>1, <3>3, <3>4, ReapCounts DEF IInv
    <3>5. CASE Forget(c)
      BY <3>3, <3>5 DEF Forget, IInv, Counted, Begun
    <3> QED
      BY <3>2, <3>4, <3>5
  <2>14. ASSUME NEW why \in {"flush", "finish"}, StartWait(why)
         PROVE  Counted'
    BY <2>14, Numbers, Cardinals, Constants DEF IInv, InHand, Counted, Begun,
      Writing, block, counts, writer, StartWait
  <2>15. CASE WaitCancels
    BY <2>15, Numbers, Cardinals, Constants DEF IInv, InHand, Counted, Begun,
      Writing, block, counts, writer, WaitCancels, CancelPending
  <2>16. CASE WaitReturns
    BY <2>16, Numbers, Cardinals, Constants DEF IInv, InHand, Counted, Begun,
      Writing, block, counts, writer, WaitReturns, EndWait, Verdict
  <2>17. CASE AttemptSyncFallback
    <3>1. pending # {} /\ pending \subseteq 1 .. accepted
      BY <2>17, Cardinals DEF AttemptSyncFallback, IInv, Counted, Begun
    <3>2. Cardinality({}) = 0
      BY FS_EmptySet
    <3> QED
      BY <2>17, <3>1, <3>2 DEF AttemptSyncFallback, IInv, Counted
  <2>18. CASE ReplayWrite
    <3>1. PICK b \in replay : ReplayOf(b)
      BY <2>18, ReplayDoes DEF IInv
    <3>2. UNCHANGED <<queueDepth, pending, pendingWrites, accepted>>
      BY <2>18, ReplayDoes DEF IInv
    <3>3. pc = "replay" /\ pc' \in {"replay", "drain"}
      BY <2>18, <3>1 DEF ReplayWrite, ReplayOf
    <3> QED
      BY <3>1, <3>2, <3>3 DEF ReplayOf, IInv, Counted, Begun
  <2>19. CASE ReplayFails
    BY <2>19, Numbers, Cardinals, Constants DEF IInv, InHand, Counted, Begun,
      Writing, block, counts, writer, ReplayFails, EndWait, Verdict
  <2>20. CASE FlushEntries
    BY <2>20, Numbers, Cardinals, Constants DEF IInv, InHand, Counted, Begun,
      Writing, block, counts, writer, FlushEntries
  <2> QED
    BY <1>1, <2>1, <2>2, <2>3, <2>4, <2>5, <2>6, <2>7, <2>8, <2>9, <2>10,
      <2>11, <2>12, <2>13, <2>14, <2>15, <2>16, <2>17, <2>18, <2>19,
      <2>20 DEF ExtractThread
<1>2. CASE Kernel
  BY <1>2, Numbers, Cardinals, Constants DEF IInv, InHand, Counted, Begun,
    Writing, block, counts, writer, Kernel, KernelWrites, KernelRefuses
<1>3. CASE MainThread
  <2>1. CASE CancelDownload
    BY <2>1, Numbers, Cardinals, Constants DEF IInv, InHand, Counted, Begun,
      Writing, block, counts, writer, CancelDownload, CancelPending
  <2>2. CASE ReduceQueueDepthForRecovery
    BY <2>2, Numbers, Cardinals, Constants DEF IInv, InHand, Counted, Begun,
      Writing, block, counts, writer, ReduceQueueDepthForRecovery
  <2>3. CASE DrainAndSwitchToSync
    BY <2>3, Numbers, Cardinals, Constants DEF IInv, InHand, Counted, Begun,
      Writing, block, counts, writer, DrainAndSwitchToSync
  <2>4. CASE DrainEnds
    BY <2>4, Numbers, Cardinals, Constants DEF IInv, InHand, Counted, Begun,
      Writing, block, counts, writer, DrainEnds
  <2> QED
    BY <1>3, <2>1, <2>2, <2>3, <2>4 DEF MainThread
<1>4. CASE Ended
  BY <1>4, Numbers, Cardinals, Constants DEF IInv, InHand, Counted, Begun,
    Writing, block, counts, writer, Ended, vars
<1> QED
  BY <1>1, <1>2, <1>3, <1>4 DEF Next

(* What is on its way has a slot. *)
LEMMA KeepsSlotted ==
  ASSUME IInv, Next
  PROVE  Slotted'
<1>1. CASE ExtractThread
  <2>1. ASSUME NEW s \in Slots, NextBlock(s)
        PROVE  Slotted'
    BY <2>1, Numbers DEF IInv, InHand, Counted, Slotted, Begun, Writing,
      Completion, OnItsWay, counts, ring, NextBlock
  <2>2. CASE SlotWaitStalls
    BY <2>2, Numbers DEF IInv, InHand, Counted, Slotted, Begun, Writing,
      Completion, OnItsWay, counts, ring, SlotWaitStalls
  <2>3. CASE EnterSync
    BY <2>3, Numbers DEF IInv, InHand, Counted, Slotted, Begun, Writing,
      Completion, OnItsWay, counts, ring, EnterSync
  <2>4. CASE EnterRefused
    BY <2>4, Numbers DEF IInv, InHand, Counted, Slotted, Begun, Writing,
      Completion, OnItsWay, counts, ring, EnterRefused
  <2>5. CASE EnterAsync
    BY <2>5, Numbers DEF IInv, InHand, Counted, Slotted, Begun, Writing,
      Completion, OnItsWay, counts, ring, EnterAsync
  <2>6. CASE RoomRefused
    BY <2>6, Numbers DEF IInv, InHand, Counted, Slotted, Begun, Writing,
      Completion, OnItsWay, counts, ring, RoomRefused
  <2>7. CASE Prepare
    <3>1. pc \in Writing /\ slot \in Slots /\ accepted + 1 \in Blocks
      BY <2>7, Numbers DEF Prepare, IInv, InHand, Writing
    <3>2. cursor \in Positions
      <4>1. cursor \in Nat /\ cursor >= 1 /\ cursor <= 2 * accepted + 1
        BY <2>7 DEF Prepare, IInv, Placed, GoesOn
      <4>2. accepted \in Nat /\ MaxBlocks \in Nat /\ accepted < MaxBlocks
        BY <3>1, Numbers DEF IInv, InHand
      <4> QED
        BY <4>1, <4>2 DEF Positions
    <3>3. request' = [request EXCEPT ![accepted + 1] =
                                     [position |-> cursor, slot |-> slot]]
      BY <2>7 DEF Prepare, block
    <3>4. request' \in [Blocks -> [position : {0} \cup Positions,
                                   slot : {0} \cup Slots]]
      BY <3>1, <3>2, <3>3 DEF IInv, Slotted
    <3>5. /\ request'[accepted + 1].slot = slot
          /\ \A b \in Blocks : b # accepted + 1 => request'[b] = request[b]
      BY <3>1, <3>3 DEF IInv, Slotted
    <3>6. OnItsWay \subseteq Blocks /\ OnItsWay' = OnItsWay \cup {accepted + 1}
      BY <2>7, Numbers DEF Prepare, block, IInv, Counted, Slotted, OnItsWay
    <3>7. \A b \in OnItsWay' : request'[b].slot \in Slots
      BY <3>1, <3>5, <3>6 DEF IInv, Slotted
    <3> QED
      BY <2>7, <3>1, <3>4, <3>7 DEF Prepare, block, IInv, Slotted
  <2>8. CASE Submit
    BY <2>8, Numbers DEF IInv, InHand, Counted, Slotted, Begun, Writing,
      Completion, OnItsWay, counts, ring, Submit
  <2>9. CASE SubmitFails
    BY <2>9, Numbers DEF IInv, InHand, Counted, Slotted, Begun, Writing,
      Completion, OnItsWay, counts, ring, SubmitFails
  <2>10. CASE WriteSequential
    BY <2>10, Numbers DEF IInv, InHand, Counted, Slotted, Begun, Writing,
      Completion, OnItsWay, counts, ring, WriteSequential
  <2>11. CASE WriteSequentialFails
    BY <2>11, Numbers DEF IInv, InHand, Counted, Slotted, Begun, Writing,
      Completion, OnItsWay, counts, ring, WriteSequentialFails
  <2>12. CASE PollAsyncCompletions
    <3>1. ProcessCompletion /\ pc \in {"idle", "room", "drain"}
      BY <2>12 DEF PollAsyncCompletions, WaitForCompletion
    <3>2. PICK c \in Completion : Reap(c) \/ Forget(c)
      BY <3>1, ProcessDoes DEF IInv
    <3>3. UNCHANGED <<open, request, cursor, cancelled, syncMode, replay,
                      unsubmitted, inKernel, cancelAsked, device, pc, slot,
                      accepted, waitFor, outcome, threadCancelled, drain>>
      BY <3>1, ProcessDoes DEF IInv
    <3>4. pending' \subseteq pending
      BY <3>2 DEF Reap, Forget
    <3> QED
      BY <3>3, <3>4 DEF IInv, Slotted, OnItsWay
  <2>13. CASE WaitForCompletion
    <3>1. ProcessCompletion /\ pc \in {"idle", "room", "drain"}
      BY <2>13 DEF PollAsyncCompletions, WaitForCompletion
    <3>2. PICK c \in Completion : Reap(c) \/ Forget(c)
      BY <3>1, ProcessDoes DEF IInv
    <3>3. UNCHANGED <<open, request, cursor, cancelled, syncMode, replay,
                      unsubmitted, inKernel, cancelAsked, device, pc, slot,
                      accepted, waitFor, outcome, threadCancelled, drain>>
      BY <3>1, ProcessDoes DEF IInv
    <3>4. pending' \subseteq pending
      BY <3>2 DEF Reap, Forget
    <3> QED
      BY <3>3, <3>4 DEF IInv, Slotted, OnItsWay
  <2>14. ASSUME NEW why \in {"flush", "finish"}, StartWait(why)
         PROVE  Slotted'
    BY <2>14, Numbers DEF IInv, InHand, Counted, Slotted, Begun, Writing,
      Completion, OnItsWay, counts, ring, StartWait
  <2>15. CASE WaitCancels
    BY <2>15, Numbers DEF IInv, InHand, Counted, Slotted, Begun, Writing,
      Completion, OnItsWay, counts, ring, WaitCancels, CancelPending
  <2>16. CASE WaitReturns
    BY <2>16, Numbers DEF IInv, InHand, Counted, Slotted, Begun, Writing,
      Completion, OnItsWay, counts, ring, WaitReturns, EndWait, Verdict
  <2>17. CASE AttemptSyncFallback
    BY <2>17, Numbers DEF IInv, InHand, Counted, Slotted, Begun, Writing,
      Completion, OnItsWay, counts, ring, AttemptSyncFallback, CancelPending
  <2>18. CASE ReplayWrite
    BY <2>18, Numbers DEF IInv, InHand, Counted, Slotted, Begun, Writing,
      Completion, OnItsWay, counts, ring, ReplayWrite
  <2>19. CASE ReplayFails
    BY <2>19, Numbers DEF IInv, InHand, Counted, Slotted, Begun, Writing,
      Completion, OnItsWay, counts, ring, ReplayFails, EndWait, Verdict
  <2>20. CASE FlushEntries
    BY <2>20, Numbers DEF IInv, InHand, Counted, Slotted, Begun, Writing,
      Completion, OnItsWay, counts, ring, FlushEntries
  <2> QED
    BY <1>1, <2>1, <2>2, <2>3, <2>4, <2>5, <2>6, <2>7, <2>8, <2>9, <2>10,
      <2>11, <2>12, <2>13, <2>14, <2>15, <2>16, <2>17, <2>18, <2>19,
      <2>20 DEF ExtractThread
<1>2. CASE Kernel
  BY <1>2, Numbers DEF IInv, InHand, Counted, Slotted, Begun, Writing,
    Completion, OnItsWay, counts, ring, Kernel, KernelWrites, KernelRefuses
<1>3. CASE MainThread
  BY <1>3, Numbers DEF IInv, InHand, Counted, Slotted, Begun, Writing,
    Completion, OnItsWay, counts, ring, MainThread, CancelDownload,
    CancelPending, ReduceQueueDepthForRecovery, DrainAndSwitchToSync, DrainEnds
<1>4. CASE Ended
  BY <1>4, Numbers DEF IInv, InHand, Counted, Slotted, Begun, Writing,
    Completion, OnItsWay, counts, ring, Ended, vars
<1> QED
  BY <1>1, <1>2, <1>3, <1>4 DEF Next

(* The types of the memory. *)
LEMMA KeepsMemory ==
  ASSUME IInv, Next
  PROVE  Memory'
<1>1. CASE ExtractThread
  <2>1. ASSUME NEW s \in Slots, NextBlock(s)
        PROVE  Memory'
    <3>1. accepted + 1 \in Blocks
      BY <2>1, Numbers DEF NextBlock, IInv, InHand, Blocks
    <3> QED
      BY <2>1, <3>1 DEF NextBlock, block, IInv, Memory
  <2>2. CASE SlotWaitStalls
    BY <2>2, Numbers DEF IInv, InHand, Counted, Slotted, Memory, Writing,
      memory, SlotWaitStalls
  <2>3. CASE EnterSync
    BY <2>3, Numbers DEF IInv, InHand, Counted, Slotted, Memory, Writing,
      memory, EnterSync
  <2>4. CASE EnterRefused
    <3>1. slot \in Slots /\ accepted + 1 \in Blocks
      BY <2>4, Numbers DEF EnterRefused, IInv, InHand, Writing
    <3>2. Callback(accepted + 1, slot) /\ device' = device
      BY <2>4 DEF EnterRefused, block
    <3> QED
      BY <3>1, <3>2, CallbackDoes DEF IInv, Memory
  <2>5. CASE EnterAsync
    BY <2>5, Numbers DEF IInv, InHand, Counted, Slotted, Memory, Writing,
      memory, EnterAsync
  <2>6. CASE RoomRefused
    <3>1. slot \in Slots /\ accepted + 1 \in Blocks
      BY <2>6, Numbers DEF RoomRefused, IInv, InHand, Writing
    <3>2. Callback(accepted + 1, slot) /\ device' = device
      BY <2>6 DEF RoomRefused, block
    <3> QED
      BY <3>1, <3>2, CallbackDoes DEF IInv, Memory
  <2>7. CASE Prepare
    BY <2>7, Numbers DEF IInv, InHand, Counted, Slotted, Memory, Writing,
      memory, Prepare
  <2>8. CASE Submit
    BY <2>8, Numbers DEF IInv, InHand, Counted, Slotted, Memory, Writing,
      memory, Submit
  <2>9. CASE SubmitFails
    <3>1. slot \in Slots /\ accepted + 1 \in Blocks
      BY <2>9, Numbers DEF SubmitFails, IInv, InHand, Writing
    <3>2. Callback(accepted + 1, slot) /\ device' = device
      BY <2>9 DEF SubmitFails, block
    <3> QED
      BY <3>1, <3>2, CallbackDoes DEF IInv, Memory
  <2>10. CASE WriteSequential
    <3>1. slot \in Slots /\ accepted + 1 \in Blocks
      BY <2>10, Numbers DEF WriteSequential, IInv, InHand, Writing
    <3>2. device' \in [Positions -> {0} \cup Blocks]
      BY <2>10, <3>1, DeviceDoes DEF WriteSequential, IInv
    <3>3. CASE Callback(accepted + 1, slot)
      BY <3>1, <3>2, <3>3, CallbackDoes DEF IInv, Memory
    <3>4. CASE freeSlots' = freeSlots \cup {slot}
               /\ UNCHANGED <<buffer, callbacks>>
      BY <3>1, <3>2, <3>4 DEF IInv, Memory
    <3> QED
      BY <2>10, <3>3, <3>4 DEF WriteSequential, block
  <2>11. CASE WriteSequentialFails
    <3>1. slot \in Slots /\ accepted + 1 \in Blocks
      BY <2>11, Numbers DEF WriteSequentialFails, IInv, InHand, Writing
    <3>2. device' = device
      BY <2>11 DEF WriteSequentialFails
    <3>3. CASE Callback(accepted + 1, slot)
      BY <3>1, <3>2, <3>3, CallbackDoes DEF IInv, Memory
    <3>4. CASE freeSlots' = freeSlots \cup {slot}
               /\ UNCHANGED <<buffer, callbacks>>
      BY <3>1, <3>2, <3>4 DEF IInv, Memory
    <3> QED
      BY <2>11, <3>3, <3>4 DEF WriteSequentialFails, block
  <2>12. CASE PollAsyncCompletions
    <3>1. ProcessCompletion /\ pc \in {"idle", "room", "drain"}
      BY <2>12 DEF PollAsyncCompletions, WaitForCompletion
    <3>2. PICK c \in Completion : Reap(c) \/ Forget(c)
      BY <3>1, ProcessDoes DEF IInv
    <3>3. UNCHANGED <<open, request, cursor, cancelled, syncMode, replay,
                      unsubmitted, inKernel, cancelAsked, device, pc, slot,
                      accepted, waitFor, outcome, threadCancelled, drain>>
      BY <3>1, ProcessDoes DEF IInv
    <3>4. CASE Reap(c)
      <4>1. c.block \in Blocks /\ request[c.block].slot \in Slots
        BY <3>4, Numbers DEF Reap, IInv, Counted, Slotted, OnItsWay
      <4>2. Callback(c.block, request[c.block].slot)
        BY <3>4 DEF Reap
      <4> QED
        BY <3>3, <4>1, <4>2, CallbackDoes DEF IInv, Memory
    <3>5. CASE Forget(c)
      BY <3>3, <3>5 DEF Forget, IInv, Memory
    <3> QED
      BY <3>2, <3>4, <3>5
  <2>13. CASE WaitForCompletion
    <3>1. ProcessCompletion /\ pc \in {"idle", "room", "drain"}
      BY <2>13 DEF PollAsyncCompletions, WaitForCompletion
    <3>2. PICK c \in Completion : Reap(c) \/ Forget(c)
      BY <3>1, ProcessDoes DEF IInv
    <3>3. UNCHANGED <<open, request, cursor, cancelled, syncMode, replay,
                      unsubmitted, inKernel, cancelAsked, device, pc, slot,
                      accepted, waitFor, outcome, threadCancelled, drain>>
      BY <3>1, ProcessDoes DEF IInv
    <3>4. CASE Reap(c)
      <4>1. c.block \in Blocks /\ request[c.block].slot \in Slots
        BY <3>4, Numbers DEF Reap, IInv, Counted, Slotted, OnItsWay
      <4>2. Callback(c.block, request[c.block].slot)
        BY <3>4 DEF Reap
      <4> QED
        BY <3>3, <4>1, <4>2, CallbackDoes DEF IInv, Memory
    <3>5. CASE Forget(c)
      BY <3>3, <3>5 DEF Forget, IInv, Memory
    <3> QED
      BY <3>2, <3>4, <3>5
  <2>14. ASSUME NEW why \in {"flush", "finish"}, StartWait(why)
         PROVE  Memory'
    BY <2>14, Numbers DEF IInv, InHand, Counted, Slotted, Memory, Writing,
      memory, StartWait
  <2>15. CASE WaitCancels
    BY <2>15, Numbers DEF IInv, InHand, Counted, Slotted, Memory, Writing,
      memory, WaitCancels, CancelPending
  <2>16. CASE WaitReturns
    BY <2>16, Numbers DEF IInv, InHand, Counted, Slotted, Memory, Writing,
      memory, WaitReturns, EndWait, Verdict
  <2>17. CASE AttemptSyncFallback
    BY <2>17, Numbers DEF IInv, InHand, Counted, Slotted, Memory, Writing,
      memory, AttemptSyncFallback, CancelPending
  <2>18. CASE ReplayWrite
    <3>1. PICK b \in replay : b \in Blocks /\ ReplayOf(b)
      BY <2>18, ReplayDoes DEF IInv
    <3>2. request[b].slot \in Slots
      BY <3>1 DEF IInv, Slotted, OnItsWay
    <3>3. device' \in [Positions -> {0} \cup Blocks]
      BY <3>1, <3>2, DeviceDoes DEF ReplayOf, IInv
    <3>4. Callback(b, request[b].slot)
      BY <3>1 DEF ReplayOf
    <3> QED
      BY <3>1, <3>2, <3>3, <3>4, CallbackDoes DEF IInv, Memory
  <2>19. CASE ReplayFails
    <3>1. CASE UNCHANGED <<device, memory>>
      BY <3>1 DEF memory, IInv, Memory
    <3>2. ASSUME NEW b \in Blocks, replay = {b}, Rewrite(b)
          PROVE  Memory'
      <4>1. request[b].slot \in Slots
        BY <3>2 DEF IInv, Slotted, OnItsWay
      <4>2. device' \in [Positions -> {0} \cup Blocks]
        BY <3>2, <4>1, DeviceDoes DEF Rewrite, IInv
      <4>3. Callback(b, request[b].slot)
        BY <3>2 DEF Rewrite
      <4> QED
        BY <4>1, <4>2, <4>3, CallbackDoes DEF IInv, Memory
    <3> QED
      BY <2>19, <3>1, <3>2 DEF ReplayFails
  <2>20. CASE FlushEntries
    BY <2>20, Numbers DEF IInv, InHand, Counted, Slotted, Memory, Writing,
      memory, FlushEntries
  <2> QED
    BY <1>1, <2>1, <2>2, <2>3, <2>4, <2>5, <2>6, <2>7, <2>8, <2>9, <2>10,
      <2>11, <2>12, <2>13, <2>14, <2>15, <2>16, <2>17, <2>18, <2>19,
      <2>20 DEF ExtractThread
<1>2. CASE Kernel
  <2>1. ASSUME NEW b \in Blocks, KernelWrites(b)
        PROVE  Memory'
    <3>1. request[b].slot \in Slots
      BY <2>1 DEF KernelWrites, IInv, Slotted, OnItsWay
    <3>2. device' \in [Positions -> {0} \cup Blocks]
      BY <2>1, <3>1, DeviceDoes DEF KernelWrites, IInv
    <3> QED
      BY <2>1, <3>2 DEF KernelWrites, memory, IInv, Memory
  <2>2. ASSUME NEW b \in Blocks, NEW r \in {"error", "cancelled"},
               KernelRefuses(b, r)
        PROVE  Memory'
    BY <2>2, Numbers DEF IInv, InHand, Counted, Slotted, Memory, Writing,
      memory, KernelRefuses
  <2> QED
    BY <1>2, <2>1, <2>2 DEF Kernel
<1>3. CASE MainThread
  BY <1>3, Numbers DEF IInv, InHand, Counted, Slotted, Memory, Writing, memory,
    MainThread, CancelDownload, CancelPending, ReduceQueueDepthForRecovery,
    DrainAndSwitchToSync, DrainEnds
<1>4. CASE Ended
  BY <1>4, Numbers DEF IInv, InHand, Counted, Slotted, Memory, Writing, memory,
    Ended, vars
<1> QED
  BY <1>1, <1>2, <1>3, <1>4 DEF Next

(* The completions are completions. *)
LEMMA KeepsReaped ==
  ASSUME IInv, Next
  PROVE  Reaped'
<1>1. CASE ExtractThread
  <2>1. ASSUME NEW s \in Slots, NextBlock(s)
        PROVE  Reaped'
    BY <2>1 DEF IInv, Reaped, Completion, Results, NextBlock
  <2>2. CASE SlotWaitStalls
    BY <2>2 DEF IInv, Reaped, Completion, Results, SlotWaitStalls
  <2>3. CASE EnterSync
    BY <2>3 DEF IInv, Reaped, Completion, Results, EnterSync
  <2>4. CASE EnterRefused
    BY <2>4 DEF IInv, Reaped, Completion, Results, EnterRefused
  <2>5. CASE EnterAsync
    BY <2>5 DEF IInv, Reaped, Completion, Results, EnterAsync
  <2>6. CASE RoomRefused
    BY <2>6 DEF IInv, Reaped, Completion, Results, RoomRefused
  <2>7. CASE Prepare
    BY <2>7 DEF IInv, Reaped, Completion, Results, Prepare
  <2>8. CASE Submit
    BY <2>8 DEF IInv, Reaped, Completion, Results, Submit
  <2>9. CASE SubmitFails
    BY <2>9 DEF IInv, Reaped, Completion, Results, SubmitFails
  <2>10. CASE WriteSequential
    BY <2>10 DEF IInv, Reaped, Completion, Results, WriteSequential
  <2>11. CASE WriteSequentialFails
    BY <2>11 DEF IInv, Reaped, Completion, Results, WriteSequentialFails
  <2>12. CASE PollAsyncCompletions
    <3>1. ProcessCompletion /\ pc \in {"idle", "room", "drain"}
      BY <2>12 DEF PollAsyncCompletions, WaitForCompletion
    <3> QED
      BY <3>1, ProcessDoes DEF IInv, Reaped, Completion
  <2>13. CASE WaitForCompletion
    <3>1. ProcessCompletion /\ pc \in {"idle", "room", "drain"}
      BY <2>13 DEF PollAsyncCompletions, WaitForCompletion
    <3> QED
      BY <3>1, ProcessDoes DEF IInv, Reaped, Completion
  <2>14. ASSUME NEW why \in {"flush", "finish"}, StartWait(why)
         PROVE  Reaped'
    BY <2>14 DEF IInv, Reaped, Completion, Results, StartWait
  <2>15. CASE WaitCancels
    BY <2>15 DEF IInv, Reaped, Completion, Results, WaitCancels, CancelPending
  <2>16. CASE WaitReturns
    BY <2>16 DEF IInv, Reaped, Completion, Results, WaitReturns, EndWait,
      Verdict
  <2>17. CASE AttemptSyncFallback
    BY <2>17 DEF IInv, Reaped, Completion, Results, AttemptSyncFallback,
      CancelPending
  <2>18. CASE ReplayWrite
    BY <2>18 DEF IInv, Reaped, Completion, Results, ReplayWrite
  <2>19. CASE ReplayFails
    BY <2>19 DEF IInv, Reaped, Completion, Results, ReplayFails, EndWait,
      Verdict
  <2>20. CASE FlushEntries
    BY <2>20 DEF IInv, Reaped, Completion, Results, FlushEntries
  <2> QED
    BY <1>1, <2>1, <2>2, <2>3, <2>4, <2>5, <2>6, <2>7, <2>8, <2>9, <2>10,
      <2>11, <2>12, <2>13, <2>14, <2>15, <2>16, <2>17, <2>18, <2>19,
      <2>20 DEF ExtractThread
<1>2. CASE Kernel
  <2>1. ASSUME NEW b \in Blocks, KernelWrites(b)
        PROVE  Reaped'
    <3>1. [block |-> b, result |-> "ok"] \in Completion
      BY <2>1 DEF Completion, Results
    <3> QED
      BY <2>1, <3>1, KernelDoes DEF KernelWrites, IInv, Reaped, Completion
  <2>2. ASSUME NEW b \in Blocks, NEW r \in {"error", "cancelled"},
               KernelRefuses(b, r)
        PROVE  Reaped'
    <3>1. [block |-> b, result |-> r] \in Completion
      BY <2>2 DEF Completion, Results
    <3> QED
      BY <2>2, <3>1, KernelDoes DEF KernelRefuses, IInv, Reaped, Completion
  <2> QED
    BY <1>2, <2>1, <2>2 DEF Kernel
<1>3. CASE MainThread
  BY <1>3 DEF IInv, Reaped, Completion, Results, MainThread, CancelDownload,
    CancelPending, ReduceQueueDepthForRecovery, DrainAndSwitchToSync, DrainEnds
<1>4. CASE Ended
  BY <1>4 DEF IInv, Reaped, Completion, Results, Ended, vars
<1> QED
  BY <1>1, <1>2, <1>3, <1>4 DEF Next

(* At most one position is skipped for each block. *)
LEMMA KeepsPlaced ==
  ASSUME IInv, Next
  PROVE  Placed'
<1>1. CASE ExtractThread
  <2>1. ASSUME NEW s \in Slots, NextBlock(s)
        PROVE  Placed'
    BY <2>1, Numbers DEF IInv, InHand, Counted, Placed, Begun, GoesOn, Writing,
      counts, writer, main, NextBlock
  <2>2. CASE SlotWaitStalls
    BY <2>2, Numbers DEF IInv, InHand, Counted, Placed, Begun, GoesOn, Writing,
      counts, writer, main, SlotWaitStalls
  <2>3. CASE EnterSync
    BY <2>3, Numbers DEF IInv, InHand, Counted, Placed, Begun, GoesOn, Writing,
      counts, writer, main, EnterSync
  <2>4. CASE EnterRefused
    BY <2>4, Numbers DEF IInv, InHand, Counted, Placed, Begun, GoesOn, Writing,
      counts, writer, main, EnterRefused
  <2>5. CASE EnterAsync
    BY <2>5, Numbers DEF IInv, InHand, Counted, Placed, Begun, GoesOn, Writing,
      counts, writer, main, EnterAsync
  <2>6. CASE RoomRefused
    BY <2>6, Numbers DEF IInv, InHand, Counted, Placed, Begun, GoesOn, Writing,
      counts, writer, main, RoomRefused
  <2>7. CASE Prepare
    <3>1. /\ cursor \in Nat /\ cursor >= 1 /\ cursor <= 2 * accepted + 1
          /\ \A b \in pending \cup replay :
               request[b].position \in 1 .. 2 * b - 1
      BY <2>7 DEF Prepare, IInv, Placed, GoesOn
    <3>2. /\ accepted \in Nat /\ accepted < MaxBlocks /\ MaxBlocks \in Nat
          /\ accepted + 1 \in Blocks
      BY <2>7, Numbers DEF Prepare, IInv, InHand, Writing
    <3>3. /\ pending' = pending \cup {accepted + 1} /\ replay' = replay
          /\ cursor' = cursor + 1 /\ accepted' = accepted /\ pc' = "submit"
          /\ request' = [request EXCEPT ![accepted + 1] =
                                     [position |-> cursor, slot |-> slot]]
      BY <2>7 DEF Prepare, block
    <3>4. /\ request'[accepted + 1].position = cursor
          /\ \A b \in Blocks : b # accepted + 1 => request'[b] = request[b]
      BY <3>2, <3>3 DEF IInv, Slotted
    <3>5. pending \cup replay \subseteq Blocks
      BY Numbers DEF IInv, Counted
    <3>6. cursor \in 1 .. 2 * (accepted + 1) - 1
      BY <3>1, <3>2
    <3>7. \A b \in pending' \cup replay' :
            request'[b].position \in 1 .. 2 * b - 1
      BY <3>1, <3>3, <3>4, <3>5, <3>6
    <3>8. /\ cursor' \in Nat /\ cursor' >= 1
          /\ cursor' <= 2 * accepted' + 1 \/ cursor' = 2 * accepted' + 2
      BY <3>1, <3>2, <3>3
    <3>9. ~GoesOn'
      BY <3>3 DEF GoesOn
    <3> QED
      BY <3>2, <3>3, <3>7, <3>8, <3>9 DEF Placed
  <2>8. CASE Submit
    <3>1. UNCHANGED <<cursor, request, pending, replay>>
      BY <2>8 DEF Submit, counts
    <3>2. accepted' = accepted + 1 /\ accepted \in Nat
      BY <2>8, Numbers DEF Submit, block, IInv
    <3>3. /\ cursor \in Nat /\ cursor >= 1
          /\ cursor <= 2 * accepted + 1 \/ cursor = 2 * accepted + 2
      BY DEF IInv, Placed
    <3>4. cursor <= 2 * (accepted + 1) + 1
      BY <3>2, <3>3
    <3> QED
      BY <3>1, <3>2, <3>3, <3>4 DEF IInv, Placed
  <2>9. CASE SubmitFails
    BY <2>9, Numbers DEF IInv, InHand, Counted, Placed, Begun, GoesOn, Writing,
      counts, writer, main, SubmitFails
  <2>10. CASE WriteSequential
    BY <2>10, Numbers DEF IInv, InHand, Counted, Placed, Begun, GoesOn,
      Writing, counts, writer, main, WriteSequential
  <2>11. CASE WriteSequentialFails
    BY <2>11, Numbers DEF IInv, InHand, Counted, Placed, Begun, GoesOn,
      Writing, counts, writer, main, WriteSequentialFails
  <2>12. CASE PollAsyncCompletions
    <3>1. ProcessCompletion /\ pc \in {"idle", "room", "drain"}
      BY <2>12 DEF PollAsyncCompletions, WaitForCompletion
    <3>2. PICK c \in Completion : Reap(c) \/ Forget(c)
      BY <3>1, ProcessDoes DEF IInv
    <3>3. UNCHANGED <<open, request, cursor, cancelled, syncMode, replay,
                      unsubmitted, inKernel, cancelAsked, device, pc, slot,
                      accepted, waitFor, outcome, threadCancelled, drain>>
      BY <3>1, ProcessDoes DEF IInv
    <3>4. pending' \subseteq pending
      BY <3>2 DEF Reap, Forget
    <3> QED
      BY <3>3, <3>4 DEF IInv, Placed, GoesOn
  <2>13. CASE WaitForCompletion
    <3>1. ProcessCompletion /\ pc \in {"idle", "room", "drain"}
      BY <2>13 DEF PollAsyncCompletions, WaitForCompletion
    <3>2. PICK c \in Completion : Reap(c) \/ Forget(c)
      BY <3>1, ProcessDoes DEF IInv
    <3>3. UNCHANGED <<open, request, cursor, cancelled, syncMode, replay,
                      unsubmitted, inKernel, cancelAsked, device, pc, slot,
                      accepted, waitFor, outcome, threadCancelled, drain>>
      BY <3>1, ProcessDoes DEF IInv
    <3>4. pending' \subseteq pending
      BY <3>2 DEF Reap, Forget
    <3> QED
      BY <3>3, <3>4 DEF IInv, Placed, GoesOn
  <2>14. ASSUME NEW why \in {"flush", "finish"}, StartWait(why)
         PROVE  Placed'
    BY <2>14, Numbers DEF IInv, InHand, Counted, Placed, Begun, GoesOn,
      Writing, counts, writer, main, StartWait
  <2>15. CASE WaitCancels
    BY <2>15, Numbers DEF IInv, InHand, Counted, Placed, Begun, GoesOn,
      Writing, counts, writer, main, WaitCancels, CancelPending
  <2>16. CASE WaitReturns
    BY <2>16, Numbers DEF IInv, InHand, Counted, Placed, Begun, GoesOn,
      Writing, counts, writer, main, WaitReturns, EndWait, Verdict
  <2>17. CASE AttemptSyncFallback
    BY <2>17, Numbers DEF IInv, InHand, Counted, Placed, Begun, GoesOn,
      Writing, counts, writer, main, AttemptSyncFallback, CancelPending
  <2>18. CASE ReplayWrite
    <3>1. PICK b \in replay : b \in Blocks /\ ReplayOf(b)
      BY <2>18, ReplayDoes DEF IInv
    <3>2. /\ UNCHANGED <<request, pending, accepted, waitFor>>
          /\ replay' \subseteq replay /\ pc = "replay"
          /\ UNCHANGED threadCancelled
      BY <2>18, <3>1, ReplayDoes DEF ReplayOf, IInv
    <3>3. /\ \A a \in pending' \cup replay' :
               request'[a].position \in 1 .. 2 * a - 1
          /\ request[b].position \in 1 .. 2 * b - 1
      BY <3>1, <3>2 DEF IInv, Placed
    <3>4. CASE cursor' = cursor /\ pc' = pc
      BY <3>2, <3>3, <3>4 DEF IInv, Placed, GoesOn
    <3>5. CASE cursor' = request[b].position + 1
      <4>1. b \in Nat /\ accepted \in Nat /\ b <= accepted
        BY <3>1, Numbers DEF IInv, Counted
      <4>2. cursor' \in Nat /\ cursor' >= 1 /\ cursor' <= 2 * accepted + 1
        BY <3>3, <3>5, <4>1
      <4> QED
        BY <3>2, <3>3, <4>2 DEF Placed
    <3> QED
      BY <3>1, <3>4, <3>5 DEF ReplayOf
  <2>19. CASE ReplayFails
    BY <2>19, Numbers DEF IInv, InHand, Counted, Placed, Begun, GoesOn,
      Writing, counts, writer, main, ReplayFails, EndWait, Verdict
  <2>20. CASE FlushEntries
    BY <2>20, Numbers DEF IInv, InHand, Counted, Placed, Begun, GoesOn,
      Writing, counts, writer, main, FlushEntries
  <2> QED
    BY <1>1, <2>1, <2>2, <2>3, <2>4, <2>5, <2>6, <2>7, <2>8, <2>9, <2>10,
      <2>11, <2>12, <2>13, <2>14, <2>15, <2>16, <2>17, <2>18, <2>19,
      <2>20 DEF ExtractThread
<1>2. CASE Kernel
  BY <1>2, Numbers DEF IInv, InHand, Counted, Placed, Begun, GoesOn, Writing,
    counts, writer, main, Kernel, KernelWrites, KernelRefuses
<1>3. CASE MainThread
  BY <1>3, Numbers DEF IInv, InHand, Counted, Placed, Begun, GoesOn, Writing,
    counts, writer, main, MainThread, CancelDownload, CancelPending,
    ReduceQueueDepthForRecovery, DrainAndSwitchToSync, DrainEnds
<1>4. CASE Ended
  BY <1>4, Numbers DEF IInv, InHand, Counted, Placed, Begun, GoesOn, Writing,
    counts, writer, main, Ended, vars
<1> QED
  BY <1>1, <1>2, <1>3, <1>4 DEF Next

(* What is recorded keeps its buffer. *)
LEMMA KeepsHeld ==
  ASSUME IInv, Next, Prompt
  PROVE  Held'
<1>1. CASE ExtractThread
  <2>1. ASSUME NEW s \in Slots, NextBlock(s)
        PROVE  Held'
    <3>1. /\ s \in freeSlots /\ freeSlots' = freeSlots \ {s}
          /\ buffer' = [buffer EXCEPT ![s] = accepted + 1]
          /\ slot' = s /\ pc' = "enter"
          /\ UNCHANGED <<request, pending, accepted>>
      BY <2>1 DEF NextBlock, block, counts
    <3>2. buffer'[s] = accepted + 1 /\ \A t \in Slots : t # s =>
                                         buffer'[t] = buffer[t]
      BY <3>1 DEF IInv, Memory
    <3>3. \A b \in pending : request[b].slot \in Slots
      BY DEF IInv, Slotted, OnItsWay
    <3>4. \A b \in pending : request[b].slot # s
      BY <3>1, PromptSays DEF Held
    <3> QED
      BY <3>1, <3>2, <3>3, <3>4, PromptSays DEF Held
  <2>2. CASE SlotWaitStalls
    BY <2>2, PromptSays DEF Held, Writing, counts, memory, writer,
      SlotWaitStalls
  <2>3. CASE EnterSync
    BY <2>3, PromptSays DEF Held, Writing, counts, memory, writer, EnterSync
  <2>4. CASE EnterRefused
    <3>1. /\ pc \in Writing /\ pc # "submit" /\ slot \in Slots
          /\ pc' \notin {"enter", "room", "submit", "sync"}
      BY <2>4 DEF EnterRefused, IInv, InHand, Writing
    <3>2. /\ UNCHANGED <<buffer, request, pending, slot>>
          /\ pc' \in Writing => accepted' = accepted
          /\ freeSlots' = freeSlots \cup {slot}
      BY <2>4 DEF EnterRefused, Callback, counts, Writing
    <3>3. \A b \in pending : request[b].slot # slot
      BY <3>1, Apart
    <3> QED
      BY <3>1, <3>2, <3>3, PromptSays DEF Held
  <2>5. CASE EnterAsync
    BY <2>5, PromptSays DEF Held, Writing, counts, memory, writer, EnterAsync
  <2>6. CASE RoomRefused
    <3>1. /\ pc \in Writing /\ pc # "submit" /\ slot \in Slots
          /\ pc' \notin {"enter", "room", "submit", "sync"}
      BY <2>6 DEF RoomRefused, IInv, InHand, Writing
    <3>2. /\ UNCHANGED <<buffer, request, pending, slot>>
          /\ pc' \in Writing => accepted' = accepted
          /\ freeSlots' = freeSlots \cup {slot}
      BY <2>6 DEF RoomRefused, Callback, counts, Writing
    <3>3. \A b \in pending : request[b].slot # slot
      BY <3>1, Apart
    <3> QED
      BY <3>1, <3>2, <3>3, PromptSays DEF Held
  <2>7. CASE Prepare
    <3>1. /\ pending' = pending \cup {accepted + 1} /\ pc = "room"
          /\ pc' = "submit" /\ cursor' = cursor + 1
          /\ unsubmitted' = unsubmitted \cup {accepted + 1}
          /\ request' = [request EXCEPT ![accepted + 1] =
                                     [position |-> cursor, slot |-> slot]]
          /\ UNCHANGED <<accepted, slot, buffer, freeSlots, callbacks, device,
                         firstError, threadCancelled, cancelled, cancelAsked,
                         completions, inKernel, outcome>>
      BY <2>7 DEF Prepare, block, flags, memory, main
    <3>2. accepted \in Nat /\ accepted + 1 \in Blocks
      BY <2>7, Numbers DEF Prepare, IInv, Writing
    <3>3. /\ request'[accepted + 1] = [position |-> cursor, slot |-> slot]
          /\ \A b \in Blocks : b # accepted + 1 => request'[b] = request[b]
      BY <3>1, <3>2 DEF IInv, Slotted
    <3>4. pending \subseteq Blocks /\ pending \subseteq 1 .. accepted
      BY <3>1, Numbers DEF IInv, Counted, Begun
    <3>5. request'[accepted + 1].slot = slot
      BY <3>3
    <3> QED
      BY <3>1, <3>3, <3>4, <3>5, PromptSays DEF Held, Writing
  <2>8. CASE Submit
    BY <2>8, PromptSays DEF Held, Writing, counts, memory, writer, Submit
  <2>9. CASE SubmitFails
    BY <2>9, PromptSays DEF Held, Writing, counts, memory, writer, SubmitFails
  <2>10. CASE WriteSequential
    <3>1. /\ pc \in Writing /\ pc # "submit" /\ slot \in Slots
          /\ pc' \notin {"enter", "room", "submit", "sync"}
      BY <2>10 DEF WriteSequential, IInv, InHand, Writing
    <3>2. /\ UNCHANGED <<buffer, request, pending, slot>>
          /\ pc' \in Writing => accepted' = accepted
          /\ freeSlots' = freeSlots \cup {slot}
      BY <2>10 DEF WriteSequential, Callback, counts, Writing
    <3>3. \A b \in pending : request[b].slot # slot
      BY <3>1, Apart
    <3> QED
      BY <3>1, <3>2, <3>3, PromptSays DEF Held
  <2>11. CASE WriteSequentialFails
    <3>1. /\ pc \in Writing /\ pc # "submit" /\ slot \in Slots
          /\ pc' \notin {"enter", "room", "submit", "sync"}
      BY <2>11 DEF WriteSequentialFails, IInv, InHand, Writing
    <3>2. /\ UNCHANGED <<buffer, request, pending, slot>>
          /\ pc' \in Writing => accepted' = accepted
          /\ freeSlots' = freeSlots \cup {slot}
      BY <2>11 DEF WriteSequentialFails, Callback, counts, Writing
    <3>3. \A b \in pending : request[b].slot # slot
      BY <3>1, Apart
    <3> QED
      BY <3>1, <3>2, <3>3, PromptSays DEF Held
  <2>12. CASE PollAsyncCompletions
    <3>1. ProcessCompletion /\ pc \in {"idle", "room", "drain"}
      BY <2>12 DEF PollAsyncCompletions, WaitForCompletion
    <3>2. PICK c \in Completion : Reap(c) \/ Forget(c)
      BY <3>1, ProcessDoes DEF IInv
    <3>3. UNCHANGED <<open, request, cursor, cancelled, syncMode, replay,
                      unsubmitted, inKernel, cancelAsked, device, pc, slot,
                      accepted, waitFor, outcome, threadCancelled, drain>>
      BY <3>1, ProcessDoes DEF IInv
    <3>4. CASE Reap(c)
      <4>1. /\ c.block \in pending /\ pending' = pending \ {c.block}
            /\ freeSlots' = freeSlots \cup {request[c.block].slot}
            /\ buffer' = buffer
        BY <3>4 DEF Reap, Callback
      <4>2. \A b \in pending' : request[b].slot # request[c.block].slot
        BY <4>1, Apart
      <4>3. pc = "room" => slot # request[c.block].slot
        BY <4>1, Apart DEF Writing
      <4> QED
        BY <3>1, <3>3, <4>1, <4>2, <4>3, PromptSays DEF Held, Writing
    <3>5. CASE Forget(c)
      BY <3>3, <3>5, PromptSays DEF Forget, Held
    <3> QED
      BY <3>2, <3>4, <3>5
  <2>13. CASE WaitForCompletion
    <3>1. ProcessCompletion /\ pc \in {"idle", "room", "drain"}
      BY <2>13 DEF PollAsyncCompletions, WaitForCompletion
    <3>2. PICK c \in Completion : Reap(c) \/ Forget(c)
      BY <3>1, ProcessDoes DEF IInv
    <3>3. UNCHANGED <<open, request, cursor, cancelled, syncMode, replay,
                      unsubmitted, inKernel, cancelAsked, device, pc, slot,
                      accepted, waitFor, outcome, threadCancelled, drain>>
      BY <3>1, ProcessDoes DEF IInv
    <3>4. CASE Reap(c)
      <4>1. /\ c.block \in pending /\ pending' = pending \ {c.block}
            /\ freeSlots' = freeSlots \cup {request[c.block].slot}
            /\ buffer' = buffer
        BY <3>4 DEF Reap, Callback
      <4>2. \A b \in pending' : request[b].slot # request[c.block].slot
        BY <4>1, Apart
      <4>3. pc = "room" => slot # request[c.block].slot
        BY <4>1, Apart DEF Writing
      <4> QED
        BY <3>1, <3>3, <4>1, <4>2, <4>3, PromptSays DEF Held, Writing
    <3>5. CASE Forget(c)
      BY <3>3, <3>5, PromptSays DEF Forget, Held
    <3> QED
      BY <3>2, <3>4, <3>5
  <2>14. ASSUME NEW why \in {"flush", "finish"}, StartWait(why)
         PROVE  Held'
    BY <2>14, PromptSays DEF Held, Writing, counts, memory, writer, StartWait
  <2>15. CASE WaitCancels
    BY <2>15, PromptSays DEF Held, Writing, counts, memory, writer,
      WaitCancels, CancelPending
  <2>16. CASE WaitReturns
    BY <2>16, PromptSays DEF Held, Writing, counts, memory, writer,
      WaitReturns, EndWait, Verdict
  <2>17. CASE AttemptSyncFallback
    BY <2>17, PromptSays DEF Held, Writing, counts, memory, writer,
      AttemptSyncFallback, CancelPending
  <2>18. CASE ReplayWrite
    BY <2>18, PromptSays DEF Held, Writing, counts, memory, writer, ReplayWrite
  <2>19. CASE ReplayFails
    BY <2>19, PromptSays DEF Held, Writing, counts, memory, writer,
      ReplayFails, EndWait, Verdict
  <2>20. CASE FlushEntries
    BY <2>20, PromptSays DEF Held, Writing, counts, memory, writer,
      FlushEntries
  <2> QED
    BY <1>1, <2>1, <2>2, <2>3, <2>4, <2>5, <2>6, <2>7, <2>8, <2>9, <2>10,
      <2>11, <2>12, <2>13, <2>14, <2>15, <2>16, <2>17, <2>18, <2>19,
      <2>20 DEF ExtractThread
<1>2. CASE Kernel
  BY <1>2, PromptSays DEF Held, Writing, counts, memory, writer, Kernel,
    KernelWrites, KernelRefuses
<1>3. CASE MainThread
  BY <1>3, PromptSays DEF Held, Writing, counts, memory, writer, MainThread,
    CancelDownload, CancelPending, ReduceQueueDepthForRecovery,
    DrainAndSwitchToSync, DrainEnds
<1>4. CASE Ended
  BY <1>4, PromptSays DEF Held, Writing, counts, memory, writer, Ended, vars
<1> QED
  BY <1>1, <1>2, <1>3, <1>4 DEF Next

(* A write is answered once. *)
LEMMA KeepsOnce ==
  ASSUME IInv, Next, Prompt
  PROVE  Once'
<1>1. CASE ExtractThread
  <2>1. ASSUME NEW s \in Slots, NextBlock(s)
        PROVE  Once'
    BY <2>1, PromptSays DEF Once, Begun, Answered, counts, ring, writer,
      NextBlock
  <2>2. CASE SlotWaitStalls
    BY <2>2, PromptSays DEF Once, Begun, Answered, counts, ring, writer,
      SlotWaitStalls
  <2>3. CASE EnterSync
    BY <2>3, PromptSays DEF Once, Begun, Answered, counts, ring, writer,
      EnterSync
  <2>4. CASE EnterRefused
    BY <2>4, PromptSays DEF Once, Begun, Answered, counts, ring, writer,
      EnterRefused
  <2>5. CASE EnterAsync
    BY <2>5, PromptSays DEF Once, Begun, Answered, counts, ring, writer,
      EnterAsync
  <2>6. CASE RoomRefused
    BY <2>6, PromptSays DEF Once, Begun, Answered, counts, ring, writer,
      RoomRefused
  <2>7. CASE Prepare
    <3>1. /\ pending' = pending \cup {accepted + 1} /\ pc = "room"
          /\ pc' = "submit" /\ cursor' = cursor + 1
          /\ unsubmitted' = unsubmitted \cup {accepted + 1}
          /\ request' = [request EXCEPT ![accepted + 1] =
                                     [position |-> cursor, slot |-> slot]]
          /\ UNCHANGED <<accepted, slot, buffer, freeSlots, callbacks, device,
                         firstError, threadCancelled, cancelled, cancelAsked,
                         completions, inKernel, outcome>>
      BY <2>7 DEF Prepare, block, flags, memory, main
    <3>2. accepted \in Nat /\ accepted + 1 \in Blocks
      BY <2>7, Numbers DEF Prepare, IInv, Writing
    <3>3. /\ request'[accepted + 1] = [position |-> cursor, slot |-> slot]
          /\ \A b \in Blocks : b # accepted + 1 => request'[b] = request[b]
      BY <3>1, <3>2 DEF IInv, Slotted
    <3>4. pending \subseteq Blocks /\ pending \subseteq 1 .. accepted
      BY <3>1, Numbers DEF IInv, Counted, Begun
    <3>5. unsubmitted \cup inKernel \subseteq pending
      BY PromptSays DEF Once
    <3>6. accepted + 1 \notin pending
      BY <3>2, <3>4
    <3>7. ~Answered(accepted + 1)
      BY <3>1, <3>2, PromptSays DEF Once, Begun
    <3>8. \A b \in Blocks : Answered(b) => b <= accepted + 1
      BY <3>1, <3>2, PromptSays DEF Once, Begun, Blocks
    <3>9. Begun' = accepted + 1
      BY <3>1 DEF Begun
    <3>10. \A b : AnsweredNext(b) <=> Answered(b)
      BY <3>1 DEF Answered, AnsweredNext
    <3>11. \A b \in unsubmitted' \cup inKernel' : ~AnsweredNext(b)
      BY <3>1, <3>7, <3>10, PromptSays DEF Once
    <3>12. unsubmitted' \cap inKernel' = {}
      BY <3>1, <3>5, <3>6, PromptSays DEF Once
    <3> QED
      BY <3>1, <3>5, <3>8, <3>9, <3>10, <3>11, <3>12
         DEF Once, Answered, AnsweredNext
  <2>8. CASE Submit
    <3>1. /\ UNCHANGED <<pending, completions>> /\ unsubmitted' = {}
          /\ inKernel' = inKernel \cup unsubmitted
          /\ pc = "submit" /\ pc' = "idle" /\ accepted' = accepted + 1
      BY <2>8 DEF Submit, counts, block
    <3>2. Begun' = Begun
      BY <3>1 DEF Begun
    <3> QED
      BY <3>1, <3>2, PromptSays DEF Once, Answered
  <2>9. CASE SubmitFails
    BY <2>9, PromptSays DEF Once, Begun, Answered, counts, ring, writer,
      SubmitFails
  <2>10. CASE WriteSequential
    <3>1. UNCHANGED <<pending, completions, unsubmitted, inKernel>>
      BY <2>10 DEF WriteSequential, counts, ring
    <3>2. /\ pc \in {"sync", "fallback"} /\ pc' # "submit"
          /\ accepted' = accepted + 1
      BY <2>10 DEF WriteSequential, block
    <3>3. Begun' >= Begun /\ Begun \in Nat /\ Begun' \in Nat
      BY <3>2, Numbers DEF Begun, IInv
    <3>4. \A b \in Blocks : Answered(b) => b <= Begun'
      BY <3>3, PromptSays DEF Once, Blocks
    <3> QED
      BY <3>1, <3>4, PromptSays DEF Once, Answered
  <2>11. CASE WriteSequentialFails
    <3>1. UNCHANGED <<pending, completions, unsubmitted, inKernel>>
      BY <2>11 DEF WriteSequentialFails, counts, ring
    <3>2. /\ pc \in {"sync", "fallback"} /\ pc' # "submit"
          /\ accepted' = accepted
      BY <2>11 DEF WriteSequentialFails, block
    <3>3. Begun' >= Begun /\ Begun \in Nat /\ Begun' \in Nat
      BY <3>2, Numbers DEF Begun, IInv
    <3>4. \A b \in Blocks : Answered(b) => b <= Begun'
      BY <3>3, PromptSays DEF Once, Blocks
    <3> QED
      BY <3>1, <3>4, PromptSays DEF Once, Answered
  <2>12. CASE PollAsyncCompletions
    <3>1. ProcessCompletion /\ pc \in {"idle", "room", "drain"}
      BY <2>12 DEF PollAsyncCompletions, WaitForCompletion
    <3>2. /\ completions' \in Seq(Completion)
          /\ 1 \in 1 .. Len(completions) /\ completions[1] \in Completion
          /\ Reap(completions[1]) \/ Forget(completions[1])
          /\ \A i \in 1 .. Len(completions') :
               /\ i + 1 \in 1 .. Len(completions)
               /\ completions'[i] = completions[i + 1]
      BY <3>1, ProcessDoes DEF IInv
    <3>3. UNCHANGED <<open, request, cursor, cancelled, syncMode, replay,
                      unsubmitted, inKernel, cancelAsked, device, pc, slot,
                      accepted, waitFor, outcome, threadCancelled, drain>>
      BY <3>1, ProcessDoes DEF IInv
    <3>4. Begun' = Begun /\ Begun = accepted
      BY <3>1, <3>3 DEF Begun
    <3>5. \A b : AnsweredNext(b) => Answered(b)
      BY <3>2 DEF Answered, AnsweredNext
    <3>6. /\ unsubmitted \cup inKernel \subseteq pending
          /\ \A b \in unsubmitted \cup inKernel : ~Answered(b)
          /\ \A b \in Blocks : Answered(b) => b <= Begun
          /\ unsubmitted \cap inKernel = {}
      BY PromptSays DEF Once
    <3>7. Answered(completions[1].block)
      BY <3>2 DEF Answered
    <3>8. \A b \in pending : b \in pending' \/ b = completions[1].block
      BY <3>2 DEF Reap, Forget
    <3> QED
      BY <3>3, <3>4, <3>5, <3>6, <3>7, <3>8 DEF Once, Answered, AnsweredNext
  <2>13. CASE WaitForCompletion
    <3>1. ProcessCompletion /\ pc \in {"idle", "room", "drain"}
      BY <2>13 DEF PollAsyncCompletions, WaitForCompletion
    <3>2. /\ completions' \in Seq(Completion)
          /\ 1 \in 1 .. Len(completions) /\ completions[1] \in Completion
          /\ Reap(completions[1]) \/ Forget(completions[1])
          /\ \A i \in 1 .. Len(completions') :
               /\ i + 1 \in 1 .. Len(completions)
               /\ completions'[i] = completions[i + 1]
      BY <3>1, ProcessDoes DEF IInv
    <3>3. UNCHANGED <<open, request, cursor, cancelled, syncMode, replay,
                      unsubmitted, inKernel, cancelAsked, device, pc, slot,
                      accepted, waitFor, outcome, threadCancelled, drain>>
      BY <3>1, ProcessDoes DEF IInv
    <3>4. Begun' = Begun /\ Begun = accepted
      BY <3>1, <3>3 DEF Begun
    <3>5. \A b : AnsweredNext(b) => Answered(b)
      BY <3>2 DEF Answered, AnsweredNext
    <3>6. /\ unsubmitted \cup inKernel \subseteq pending
          /\ \A b \in unsubmitted \cup inKernel : ~Answered(b)
          /\ \A b \in Blocks : Answered(b) => b <= Begun
          /\ unsubmitted \cap inKernel = {}
      BY PromptSays DEF Once
    <3>7. Answered(completions[1].block)
      BY <3>2 DEF Answered
    <3>8. \A b \in pending : b \in pending' \/ b = completions[1].block
      BY <3>2 DEF Reap, Forget
    <3> QED
      BY <3>3, <3>4, <3>5, <3>6, <3>7, <3>8 DEF Once, Answered, AnsweredNext
  <2>14. ASSUME NEW why \in {"flush", "finish"}, StartWait(why)
         PROVE  Once'
    BY <2>14, PromptSays DEF Once, Begun, Answered, counts, ring, writer,
      StartWait
  <2>15. CASE WaitCancels
    <3>1. /\ UNCHANGED <<pending, completions, pc, accepted>>
          /\ unsubmitted' = {}
          /\ inKernel' \subseteq inKernel \cup unsubmitted
      BY <2>15 DEF WaitCancels, CancelPending, counts, writer
    <3>2. Begun' = Begun
      BY <3>1 DEF Begun
    <3> QED
      BY <3>1, <3>2, PromptSays DEF Once, Answered
  <2>16. CASE WaitReturns
    BY <2>16, PromptSays DEF Once, Begun, Answered, counts, ring, writer,
      WaitReturns, EndWait, Verdict
  <2>17. CASE AttemptSyncFallback
    BY <2>17, PromptSays DEF Once, Begun, Answered, counts, ring, writer,
      AttemptSyncFallback, CancelPending
  <2>18. CASE ReplayWrite
    BY <2>18, PromptSays DEF Once, Begun, Answered, counts, ring, writer,
      ReplayWrite
  <2>19. CASE ReplayFails
    BY <2>19, PromptSays DEF Once, Begun, Answered, counts, ring, writer,
      ReplayFails, EndWait, Verdict
  <2>20. CASE FlushEntries
    BY <2>20, PromptSays DEF NoEntry, FlushEntries
  <2> QED
    BY <1>1, <2>1, <2>2, <2>3, <2>4, <2>5, <2>6, <2>7, <2>8, <2>9, <2>10,
      <2>11, <2>12, <2>13, <2>14, <2>15, <2>16, <2>17, <2>18, <2>19,
      <2>20 DEF ExtractThread
<1>2. CASE Kernel
  <2>1. ASSUME NEW b \in Blocks, KernelWrites(b)
        PROVE  Once'
    <3>1. [block |-> b, result |-> "ok"] \in Completion
      BY <2>1 DEF Completion, Results
    <3>2. /\ b \in inKernel /\ inKernel' = inKernel \ {b}
          /\ completions' = Append(completions, [block |-> b, result |-> "ok"])
          /\ UNCHANGED <<pending, unsubmitted, pc, accepted>>
      BY <2>1 DEF KernelWrites, counts, writer
    <3>3. \A x : AnsweredNext(x) => Answered(x) \/ x = b
      BY <3>1, <3>2, KernelDoes DEF IInv, Answered, AnsweredNext
    <3>4. Begun' = Begun /\ Begun \in Nat
      BY <3>2, Numbers DEF Begun, IInv
    <3>5. b \in 1 .. Begun
      BY <3>2, PromptSays DEF Once, IInv, Counted
    <3>6. /\ unsubmitted' \cup inKernel' \subseteq pending'
          /\ unsubmitted' \cap inKernel' = {}
          /\ \A x \in unsubmitted' \cup inKernel' : ~AnsweredNext(x)
      BY <3>2, <3>3, PromptSays DEF Once
    <3>7. \A x \in Blocks : AnsweredNext(x) => x <= Begun'
      BY <3>3, <3>4, <3>5, PromptSays DEF Once
    <3> QED
      BY <3>6, <3>7 DEF Once, Answered, AnsweredNext
  <2>2. ASSUME NEW b \in Blocks, NEW r \in {"error", "cancelled"},
               KernelRefuses(b, r)
        PROVE  Once'
    <3>1. [block |-> b, result |-> r] \in Completion
      BY <2>2 DEF Completion, Results
    <3>2. /\ b \in inKernel /\ inKernel' = inKernel \ {b}
          /\ completions' = Append(completions, [block |-> b, result |-> r])
          /\ UNCHANGED <<pending, unsubmitted, pc, accepted>>
      BY <2>2 DEF KernelRefuses, counts, writer
    <3>3. \A x : AnsweredNext(x) => Answered(x) \/ x = b
      BY <3>1, <3>2, KernelDoes DEF IInv, Answered, AnsweredNext
    <3>4. Begun' = Begun /\ Begun \in Nat
      BY <3>2, Numbers DEF Begun, IInv
    <3>5. b \in 1 .. Begun
      BY <3>2, PromptSays DEF Once, IInv, Counted
    <3>6. /\ unsubmitted' \cup inKernel' \subseteq pending'
          /\ unsubmitted' \cap inKernel' = {}
          /\ \A x \in unsubmitted' \cup inKernel' : ~AnsweredNext(x)
      BY <3>2, <3>3, PromptSays DEF Once
    <3>7. \A x \in Blocks : AnsweredNext(x) => x <= Begun'
      BY <3>3, <3>4, <3>5, PromptSays DEF Once
    <3> QED
      BY <3>6, <3>7 DEF Once, Answered, AnsweredNext
  <2> QED
    BY <1>2, <2>1, <2>2 DEF Kernel
<1>3. CASE MainThread
  <2>1. CASE CancelDownload
    <3>1. /\ UNCHANGED <<pending, completions, pc, accepted>>
          /\ unsubmitted' = {}
          /\ inKernel' \subseteq inKernel \cup unsubmitted
      BY <2>1 DEF CancelDownload, CancelPending, counts, writer
    <3>2. Begun' = Begun
      BY <3>1 DEF Begun
    <3> QED
      BY <3>1, <3>2, PromptSays DEF Once, Answered
  <2>2. CASE ReduceQueueDepthForRecovery
    BY <2>2, PromptSays DEF Once, Begun, Answered, counts, ring, writer,
      ReduceQueueDepthForRecovery
  <2>3. CASE DrainAndSwitchToSync
    BY <2>3, PromptSays DEF Once, Begun, Answered, counts, ring, writer,
      DrainAndSwitchToSync
  <2>4. CASE DrainEnds
    BY <2>4, PromptSays DEF Once, Begun, Answered, counts, ring, writer,
      DrainEnds
  <2> QED
    BY <1>3, <2>1, <2>2, <2>3, <2>4 DEF MainThread
<1>4. CASE Ended
  BY <1>4, PromptSays DEF Once, Begun, Answered, counts, ring, writer, Ended,
    vars
<1> QED
  BY <1>1, <1>2, <1>3, <1>4 DEF Next

(* Each write is called back once. *)
LEMMA KeepsCalled ==
  ASSUME IInv, Next, ~CompletionsMayBeLate
  PROVE  Called'
<1>1. CASE ExtractThread
  <2>1. ASSUME NEW s \in Slots, NextBlock(s)
        PROVE  Called'
    BY <2>1, NoReplay DEF IInv, Called, GoesOn, counts, memory, writer, main,
      NextBlock
  <2>2. CASE SlotWaitStalls
    BY <2>2, NoReplay DEF IInv, Called, GoesOn, counts, memory, writer, main,
      SlotWaitStalls
  <2>3. CASE EnterSync
    BY <2>3, NoReplay DEF IInv, Called, GoesOn, counts, memory, writer, main,
      EnterSync
  <2>4. CASE EnterRefused
    <3>1. /\ pc \in Writing /\ Callback(accepted + 1, slot)
          /\ pc' = "fallback" /\ UNCHANGED <<accepted, replay>>
          /\ pending' = pending
      BY <2>4 DEF EnterRefused, block, Writing, counts
    <3>2. slot \in Slots /\ accepted + 1 \in Blocks /\ accepted \in Nat
      BY <3>1, Numbers DEF IInv, InHand
    <3>3. /\ callbacks'[accepted + 1] = callbacks[accepted + 1] + 1
          /\ \A b \in Blocks : b # accepted + 1 => callbacks'[b] = callbacks[b]
      BY <3>1, <3>2, CallbackDoes DEF IInv
    <3>4. callbacks[accepted + 1] = 0
      BY <2>4, <3>2 DEF EnterRefused, IInv, Called, GoesOn
    <3>5. \A b \in 1 .. accepted : b \in Blocks /\ b # accepted + 1
      BY <3>2, Numbers DEF IInv
    <3>6. \A b \in Blocks : b > accepted + 1 => b # accepted + 1
      BY <3>2
    <3>7. ~GoesOn'
      BY <3>1 DEF GoesOn
    <3> QED
      BY <3>1, <3>3, <3>4, <3>5, <3>6, <3>7 DEF IInv, Called
  <2>5. CASE EnterAsync
    BY <2>5, NoReplay DEF IInv, Called, GoesOn, counts, memory, writer, main,
      EnterAsync
  <2>6. CASE RoomRefused
    <3>1. /\ pc \in Writing /\ Callback(accepted + 1, slot)
          /\ pc' = "fallback" /\ UNCHANGED <<accepted, replay>>
          /\ pending' = pending
      BY <2>6 DEF RoomRefused, block, Writing, counts
    <3>2. slot \in Slots /\ accepted + 1 \in Blocks /\ accepted \in Nat
      BY <3>1, Numbers DEF IInv, InHand
    <3>3. /\ callbacks'[accepted + 1] = callbacks[accepted + 1] + 1
          /\ \A b \in Blocks : b # accepted + 1 => callbacks'[b] = callbacks[b]
      BY <3>1, <3>2, CallbackDoes DEF IInv
    <3>4. callbacks[accepted + 1] = 0
      BY <2>6, <3>2 DEF RoomRefused, IInv, Called, GoesOn
    <3>5. \A b \in 1 .. accepted : b \in Blocks /\ b # accepted + 1
      BY <3>2, Numbers DEF IInv
    <3>6. \A b \in Blocks : b > accepted + 1 => b # accepted + 1
      BY <3>2
    <3>7. ~GoesOn'
      BY <3>1 DEF GoesOn
    <3> QED
      BY <3>1, <3>3, <3>4, <3>5, <3>6, <3>7 DEF IInv, Called
  <2>7. CASE Prepare
    <3>1. /\ pending' = pending \cup {accepted + 1} /\ pc = "room"
          /\ pc' = "submit" /\ UNCHANGED <<accepted, callbacks, replay>>
      BY <2>7 DEF Prepare, block, memory
    <3>2. accepted \in Nat
      BY Numbers DEF IInv
    <3>3. \A b \in 1 .. accepted : b # accepted + 1
      BY <3>2
    <3> QED
      BY <3>1, <3>3 DEF IInv, Called, GoesOn
  <2>8. CASE Submit
    <3>1. /\ accepted' = accepted + 1 /\ pc = "submit" /\ pc' = "idle"
          /\ UNCHANGED <<pending, callbacks, replay>>
      BY <2>8 DEF Submit, block, memory, counts
    <3>2. accepted \in Nat /\ accepted + 1 \in Blocks
                           /\ accepted + 1 \in pending
      BY <3>1, Numbers DEF IInv, Writing, Counted
    <3>3. callbacks[accepted + 1] = 0
      BY <3>1, <3>2 DEF IInv, Called
    <3>4. \A b \in 1 .. accepted + 1 : b \in 1 .. accepted \/ b = accepted + 1
      BY <3>2
    <3>5. /\ accepted + 1 + 1 > accepted + 1
          /\ \A b \in Blocks : b > accepted + 1 + 1 => b > accepted + 1
      BY <3>2 DEF Blocks
    <3> QED
      BY <3>1, <3>2, <3>3, <3>4, <3>5 DEF IInv, Called
  <2>9. CASE SubmitFails
    <3>1. /\ pc \in Writing /\ Callback(accepted + 1, slot)
          /\ pc' = "fallback" /\ UNCHANGED <<accepted, replay>>
          /\ pending' = pending \ {accepted + 1}
      BY <2>9 DEF SubmitFails, block, Writing, counts
    <3>2. slot \in Slots /\ accepted + 1 \in Blocks /\ accepted \in Nat
      BY <3>1, Numbers DEF IInv, InHand
    <3>3. /\ callbacks'[accepted + 1] = callbacks[accepted + 1] + 1
          /\ \A b \in Blocks : b # accepted + 1 => callbacks'[b] = callbacks[b]
      BY <3>1, <3>2, CallbackDoes DEF IInv
    <3>4. callbacks[accepted + 1] = 0
      BY <2>9, <3>2 DEF SubmitFails, IInv, Called, GoesOn
    <3>5. \A b \in 1 .. accepted : b \in Blocks /\ b # accepted + 1
      BY <3>2, Numbers DEF IInv
    <3>6. \A b \in Blocks : b > accepted + 1 => b # accepted + 1
      BY <3>2
    <3>7. ~GoesOn'
      BY <3>1 DEF GoesOn
    <3> QED
      BY <3>1, <3>3, <3>4, <3>5, <3>6, <3>7 DEF IInv, Called
  <2>10. CASE WriteSequential
    <3>1. /\ accepted' = accepted + 1 /\ pc' = "idle"
          /\ pc \in {"sync", "fallback"} /\ UNCHANGED <<pending, replay>>
          /\ IF pc = "sync" THEN Callback(accepted + 1, slot)
                            ELSE callbacks' = callbacks
      BY <2>10 DEF WriteSequential, block, counts
    <3>2. /\ accepted \in Nat /\ accepted + 1 \in Blocks /\ slot \in Slots
          /\ accepted + 1 \notin pending
      BY <3>1, Numbers DEF IInv, InHand, Writing, Counted, Begun
    <3>3. /\ pc = "sync" => callbacks[accepted + 1] = 0
          /\ pc = "fallback" => callbacks[accepted + 1] = 1
      BY <3>2 DEF IInv, Called, GoesOn
    <3>4. /\ callbacks'[accepted + 1] = 1
          /\ \A b \in Blocks : b # accepted + 1 => callbacks'[b] = callbacks[b]
      BY <3>1, <3>2, <3>3, CallbackDoes DEF IInv
    <3>5. \A b \in 1 .. accepted + 1 :
            \/ b \in 1 .. accepted /\ b \in Blocks /\ b # accepted + 1
            \/ b = accepted + 1
      BY <3>2, Numbers DEF IInv
    <3>6. /\ accepted + 1 + 1 > accepted + 1
          /\ \A b \in Blocks : b > accepted + 1 =>
               b # accepted + 1
          /\ \A b \in Blocks : b > accepted + 1 + 1 => b > accepted + 1
      BY <3>2 DEF Blocks
    <3> QED
      BY <3>1, <3>2, <3>4, <3>5, <3>6 DEF IInv, Called
  <2>11. CASE WriteSequentialFails
    <3>1. /\ UNCHANGED <<pending, accepted, replay>>
          /\ \/ /\ pc = "sync" /\ Callback(accepted + 1, slot)
                /\ pc' = "fallback"
             \/ /\ pc = "fallback" /\ callbacks' = callbacks
                /\ \/ pc' = "idle" /\ threadCancelled'
                   \/ pc' = "drain" /\ waitFor' = "abort"
      BY <2>11 DEF WriteSequentialFails, block, counts, main
    <3>2. accepted \in Nat /\ accepted + 1 \in Blocks /\ slot \in Slots
      BY <3>1, Numbers DEF IInv, InHand, Writing
    <3>3. ~GoesOn' /\ pc' # "submit"
      BY <3>1 DEF GoesOn
    <3>4. CASE callbacks' = callbacks /\ pc' # "fallback"
      BY <3>1, <3>3, <3>4 DEF IInv, Called
    <3>5. CASE pc = "sync" /\ Callback(accepted + 1, slot)
      <4>1. /\ callbacks'[accepted + 1] = callbacks[accepted + 1] + 1
            /\ \A b \in Blocks : b # accepted + 1 =>
                 callbacks'[b] = callbacks[b]
        BY <3>2, <3>5, CallbackDoes DEF IInv
      <4>2. callbacks[accepted + 1] = 0
        BY <3>2, <3>5 DEF IInv, Called, GoesOn
      <4>3. /\ \A b \in 1 .. accepted : b \in Blocks /\ b # accepted + 1
            /\ \A b \in Blocks : b > accepted + 1 => b # accepted + 1
        BY <3>2, Numbers DEF IInv
      <4> QED
        BY <3>1, <3>3, <4>1, <4>2, <4>3 DEF IInv, Called
    <3> QED
      BY <3>1, <3>4, <3>5
  <2>12. CASE PollAsyncCompletions
    <3>1. ProcessCompletion /\ pc \in {"idle", "room", "drain"}
      BY <2>12 DEF PollAsyncCompletions, WaitForCompletion
    <3>2. PICK c \in Completion : Reap(c) \/ Forget(c)
      BY <3>1, ProcessDoes DEF IInv
    <3>3. UNCHANGED <<open, request, cursor, cancelled, syncMode, replay,
                      unsubmitted, inKernel, cancelAsked, device, pc, slot,
                      accepted, waitFor, outcome, threadCancelled, drain>>
      BY <3>1, ProcessDoes DEF IInv
    <3>4. CASE Reap(c)
      <4>1. /\ c.block \in pending /\ pending' = pending \ {c.block}
            /\ Callback(c.block, request[c.block].slot)
        BY <3>4 DEF Reap
      <4>2. /\ c.block \in 1 .. accepted /\ c.block \in Blocks
            /\ accepted \in Nat /\ request[c.block].slot \in Slots
        BY <3>1, <4>1, Numbers DEF IInv, Counted, Begun, Slotted, OnItsWay
      <4>3. /\ callbacks'[c.block] = callbacks[c.block] + 1
            /\ \A b \in Blocks : b # c.block => callbacks'[b] = callbacks[b]
        BY <4>1, <4>2, CallbackDoes DEF IInv
      <4>4. callbacks[c.block] = 0
        BY <4>1, <4>2 DEF IInv, Called
      <4>5. /\ \A b \in Blocks : b >= accepted + 1 => b # c.block
            /\ \A b \in 1 .. accepted : b \in Blocks
        BY <4>2, Numbers DEF IInv
      <4>6. \A b \in Blocks : b = accepted + 1 \/ b > accepted + 1 =>
              callbacks'[b] = callbacks[b]
        BY <4>2, <4>3, <4>5 DEF Blocks
      <4>7. GoesOn' = GoesOn
        BY <3>3 DEF GoesOn
      <4> QED
        BY <3>1, <3>3, <4>1, <4>3, <4>4, <4>5, <4>6, <4>7 DEF IInv, Called
    <3>5. CASE Forget(c)
      BY <3>3, <3>5 DEF Forget, IInv, Called, GoesOn
    <3> QED
      BY <3>2, <3>4, <3>5
  <2>13. CASE WaitForCompletion
    <3>1. ProcessCompletion /\ pc \in {"idle", "room", "drain"}
      BY <2>13 DEF PollAsyncCompletions, WaitForCompletion
    <3>2. PICK c \in Completion : Reap(c) \/ Forget(c)
      BY <3>1, ProcessDoes DEF IInv
    <3>3. UNCHANGED <<open, request, cursor, cancelled, syncMode, replay,
                      unsubmitted, inKernel, cancelAsked, device, pc, slot,
                      accepted, waitFor, outcome, threadCancelled, drain>>
      BY <3>1, ProcessDoes DEF IInv
    <3>4. CASE Reap(c)
      <4>1. /\ c.block \in pending /\ pending' = pending \ {c.block}
            /\ Callback(c.block, request[c.block].slot)
        BY <3>4 DEF Reap
      <4>2. /\ c.block \in 1 .. accepted /\ c.block \in Blocks
            /\ accepted \in Nat /\ request[c.block].slot \in Slots
        BY <3>1, <4>1, Numbers DEF IInv, Counted, Begun, Slotted, OnItsWay
      <4>3. /\ callbacks'[c.block] = callbacks[c.block] + 1
            /\ \A b \in Blocks : b # c.block => callbacks'[b] = callbacks[b]
        BY <4>1, <4>2, CallbackDoes DEF IInv
      <4>4. callbacks[c.block] = 0
        BY <4>1, <4>2 DEF IInv, Called
      <4>5. /\ \A b \in Blocks : b >= accepted + 1 => b # c.block
            /\ \A b \in 1 .. accepted : b \in Blocks
        BY <4>2, Numbers DEF IInv
      <4>6. \A b \in Blocks : b = accepted + 1 \/ b > accepted + 1 =>
              callbacks'[b] = callbacks[b]
        BY <4>2, <4>3, <4>5 DEF Blocks
      <4>7. GoesOn' = GoesOn
        BY <3>3 DEF GoesOn
      <4> QED
        BY <3>1, <3>3, <4>1, <4>3, <4>4, <4>5, <4>6, <4>7 DEF IInv, Called
    <3>5. CASE Forget(c)
      BY <3>3, <3>5 DEF Forget, IInv, Called, GoesOn
    <3> QED
      BY <3>2, <3>4, <3>5
  <2>14. ASSUME NEW why \in {"flush", "finish"}, StartWait(why)
         PROVE  Called'
    BY <2>14, NoReplay DEF IInv, Called, GoesOn, counts, memory, writer, main,
      StartWait
  <2>15. CASE WaitCancels
    BY <2>15, NoReplay DEF IInv, Called, GoesOn, counts, memory, writer, main,
      WaitCancels, CancelPending
  <2>16. CASE WaitReturns
    BY <2>16, NoReplay DEF IInv, Called, GoesOn, counts, memory, writer, main,
      WaitReturns, EndWait, Verdict
  <2>17. CASE AttemptSyncFallback
    BY <2>17, NoReplay DEF IInv, Called, GoesOn, counts, memory, writer, main,
      AttemptSyncFallback, CancelPending
  <2>18. CASE ReplayWrite
    BY <2>18, NoReplay DEF IInv, Called, GoesOn, counts, memory, writer, main,
      ReplayWrite
  <2>19. CASE ReplayFails
    BY <2>19, NoReplay DEF IInv, Called, GoesOn, counts, memory, writer, main,
      ReplayFails, EndWait, Verdict
  <2>20. CASE FlushEntries
    BY <2>20, NoReplay DEF IInv, Called, GoesOn, counts, memory, writer, main,
      FlushEntries
  <2> QED
    BY <1>1, <2>1, <2>2, <2>3, <2>4, <2>5, <2>6, <2>7, <2>8, <2>9, <2>10,
      <2>11, <2>12, <2>13, <2>14, <2>15, <2>16, <2>17, <2>18, <2>19,
      <2>20 DEF ExtractThread
<1>2. CASE Kernel
  BY <1>2, NoReplay DEF IInv, Called, GoesOn, counts, memory, writer, main,
    Kernel, KernelWrites, KernelRefuses
<1>3. CASE MainThread
  BY <1>3, NoReplay DEF IInv, Called, GoesOn, counts, memory, writer, main,
    MainThread, CancelDownload, CancelPending, ReduceQueueDepthForRecovery,
    DrainAndSwitchToSync, DrainEnds
<1>4. CASE Ended
  BY <1>4, NoReplay DEF IInv, Called, GoesOn, counts, memory, writer, main,
    Ended, vars
<1> QED
  BY <1>1, <1>2, <1>3, <1>4 DEF Next

(* What is accepted is written, or told. *)
LEMMA KeepsDue ==
  ASSUME IInv, Next, Prompt
  PROVE  Due'
<1>1. CASE ExtractThread
  <2>1. ASSUME NEW s \in Slots, NextBlock(s)
        PROVE  Due'
    BY <2>1, PromptSays DEF Due, Begun, counts, flags, ring, writer, main,
      NextBlock
  <2>2. CASE SlotWaitStalls
    BY <2>2, PromptSays DEF Due, Begun, counts, flags, ring, writer, main,
      SlotWaitStalls
  <2>3. CASE EnterSync
    BY <2>3, PromptSays DEF Due, Begun, counts, flags, ring, writer, main,
      EnterSync
  <2>4. CASE EnterRefused
    BY <2>4, PromptSays DEF Due, Begun, counts, flags, ring, writer, main,
      EnterRefused
  <2>5. CASE EnterAsync
    BY <2>5, PromptSays DEF Due, Begun, counts, flags, ring, writer, main,
      EnterAsync
  <2>6. CASE RoomRefused
    BY <2>6, PromptSays DEF Due, Begun, counts, flags, ring, writer, main,
      RoomRefused
  <2>7. CASE Prepare
    <3>1. /\ pending' = pending \cup {accepted + 1} /\ pc = "room"
          /\ pc' = "submit" /\ cursor' = cursor + 1
          /\ unsubmitted' = unsubmitted \cup {accepted + 1}
          /\ request' = [request EXCEPT ![accepted + 1] =
                                     [position |-> cursor, slot |-> slot]]
          /\ UNCHANGED <<accepted, slot, buffer, freeSlots, callbacks, device,
                         firstError, threadCancelled, cancelled, cancelAsked,
                         completions, inKernel, outcome>>
      BY <2>7 DEF Prepare, block, flags, memory, main
    <3>2. accepted \in Nat /\ accepted + 1 \in Blocks
      BY <2>7, Numbers DEF Prepare, IInv, Writing
    <3>3. /\ request'[accepted + 1] = [position |-> cursor, slot |-> slot]
          /\ \A b \in Blocks : b # accepted + 1 => request'[b] = request[b]
      BY <3>1, <3>2 DEF IInv, Slotted
    <3>4. pending \subseteq Blocks /\ pending \subseteq 1 .. accepted
      BY <3>1, Numbers DEF IInv, Counted, Begun
    <3>5. cursor = accepted + 1 /\ Begun' = accepted + 1
      BY <3>1, PromptSays DEF Due, Begun
    <3>6. cursor' = Begun' + 1
      BY <3>1, <3>5
    <3>7. \A b \in pending' : request'[b].position = b
      BY <3>1, <3>3, <3>4, <3>5, PromptSays DEF Due
    <3>8. outcome # "ok"
      BY <3>1, PromptSays DEF Due
    <3> QED
      BY <3>1, <3>6, <3>7, <3>8, PromptSays DEF Due
  <2>8. CASE Submit
    <3>1. /\ pc = "submit" /\ pc' = "idle" /\ accepted' = accepted + 1
          /\ UNCHANGED <<cursor, pending, request, device, firstError,
                         threadCancelled, cancelled, cancelAsked, completions,
                         outcome>>
      BY <2>8 DEF Submit, block, counts, flags, main
    <3>2. accepted + 1 \in pending /\ accepted \in Nat
      BY <3>1, Numbers DEF IInv, Counted
    <3>3. \A b \in 1 .. accepted + 1 : b \in 1 .. accepted \/ b = accepted + 1
      BY <3>2
    <3>4. Begun' = Begun
      BY <3>1 DEF Begun
    <3>5. outcome # "ok"
      BY <3>1, PromptSays DEF Due
    <3> QED
      BY <3>1, <3>2, <3>3, <3>4, <3>5, PromptSays DEF Due
  <2>9. CASE SubmitFails
    BY <2>9, PromptSays DEF Due, Begun, counts, flags, ring, writer, main,
      SubmitFails
  <2>10. CASE WriteSequential
    <3>1. /\ pc \in {"sync", "fallback"} /\ pc' = "idle"
          /\ accepted' = accepted + 1 /\ cursor' = cursor + 1
          /\ device' = [device EXCEPT ![cursor] = buffer[slot]]
          /\ UNCHANGED <<pending, request, firstError, threadCancelled,
                         cancelled, cancelAsked, completions, outcome>>
      BY <2>10 DEF WriteSequential, block, counts, flags, main, ring
    <3>2. /\ pc \in Writing /\ slot \in Slots /\ accepted \in Nat
          /\ accepted + 1 \in Blocks /\ MaxBlocks \in Nat
      BY <3>1, Numbers DEF IInv, InHand, Writing
    <3>3. cursor = accepted + 1 /\ buffer[slot] = accepted + 1
      BY <3>1, <3>2, PromptSays DEF Due, Held, Begun
    <3>4. Blocks \subseteq Positions
      BY <3>2 DEF Blocks, Positions
    <3>5. /\ device'[accepted + 1] = accepted + 1
          /\ \A q \in Blocks : device[q] = q => device'[q] = q
      BY <3>1, <3>2, <3>3, <3>4 DEF IInv, Memory
    <3>6. \A b \in 1 .. accepted + 1 : b \in 1 .. accepted \/ b = accepted + 1
      BY <3>2
    <3>7. 1 .. accepted \subseteq Blocks
      BY Numbers DEF IInv
    <3>8. cursor' = Begun' + 1
      BY <3>1, <3>3 DEF Begun
    <3>9. outcome # "ok"
      BY <3>1, PromptSays DEF Due
    <3>10. \A b \in 1 .. accepted' :
             \/ b \in pending' \/ device'[b] = b
             \/ firstError' \/ threadCancelled'
      BY <3>1, <3>5, <3>6, <3>7, PromptSays DEF Due
    <3>11. \A i \in 1 .. Len(completions') :
             LET c == completions'[i] IN
               /\ c.result = "ok" => device'[c.block] = c.block
               /\ c.result = "cancelled" => threadCancelled'
      <4>1. \A i \in 1 .. Len(completions) : completions[i].block \in Blocks
        BY Completed DEF IInv, Completion
      <4> QED
        BY <3>1, <3>5, <4>1, PromptSays DEF Due
    <3> QED
      BY <3>1, <3>8, <3>9, <3>10, <3>11, PromptSays DEF Due
  <2>11. CASE WriteSequentialFails
    BY <2>11, PromptSays DEF Due, Begun, counts, flags, ring, writer, main,
      WriteSequentialFails
  <2>12. CASE PollAsyncCompletions
    <3>1. ProcessCompletion /\ pc \in {"idle", "room", "drain"}
      BY <2>12 DEF PollAsyncCompletions, WaitForCompletion
    <3>2. /\ completions' \in Seq(Completion)
          /\ 1 \in 1 .. Len(completions) /\ completions[1] \in Completion
          /\ Reap(completions[1]) \/ Forget(completions[1])
          /\ \A i \in 1 .. Len(completions') :
               /\ i + 1 \in 1 .. Len(completions)
               /\ completions'[i] = completions[i + 1]
      BY <3>1, ProcessDoes DEF IInv
    <3>3. UNCHANGED <<open, request, cursor, cancelled, syncMode, replay,
                      unsubmitted, inKernel, cancelAsked, device, pc, slot,
                      accepted, waitFor, outcome, threadCancelled, drain>>
      BY <3>1, ProcessDoes DEF IInv
    <3>4. Begun' = Begun /\ Begun = accepted
      BY <3>1, <3>3 DEF Begun
    <3>5. /\ pending' \subseteq pending
          /\ \A b \in pending : b \in pending' \/ b = completions[1].block
          /\ firstError => firstError'
          /\ \A b \in pending \ pending' :
               completions[1].result = "error" => firstError'
      <4>1. CASE Reap(completions[1])
        BY <4>1 DEF Reap
      <4>2. CASE Forget(completions[1])
        BY <4>2 DEF Forget
      <4> QED
        BY <3>2, <4>1, <4>2
    <3>6. /\ completions[1].result \in {"ok", "error", "cancelled"}
          /\ completions[1].result = "ok" =>
               device[completions[1].block] = completions[1].block
          /\ completions[1].result = "cancelled" => threadCancelled
      BY <3>2, PromptSays DEF Due, Completion, Results
    <3>7. ASSUME NEW b \in 1 .. accepted
          PROVE  \/ b \in pending' \/ device[b] = b \/ firstError'
                 \/ threadCancelled
      BY <3>5, <3>6, PromptSays DEF Due
    <3>8. outcome # "ok"
      BY <3>1, PromptSays DEF Due
    <3>9. \A i \in 1 .. Len(completions') :
             LET c == completions'[i] IN
               /\ c.result = "ok" => device'[c.block] = c.block
               /\ c.result = "cancelled" => threadCancelled'
      BY <3>2, <3>3, PromptSays DEF Due
    <3>10. \A b \in pending' : request'[b].position = b
      BY <3>3, <3>5, PromptSays DEF Due
    <3>11. \A b \in 1 .. accepted' :
             \/ b \in pending' \/ device'[b] = b
             \/ firstError' \/ threadCancelled'
      BY <3>3, <3>7
    <3>12. cursor' = Begun' + 1
      BY <3>3, <3>4, PromptSays DEF Due
    <3>13. cancelled' \/ cancelAsked' # {} => threadCancelled'
      BY <3>3, PromptSays DEF Due
    <3> QED
      BY <3>3, <3>8, <3>9, <3>10, <3>11, <3>12, <3>13 DEF Due
  <2>13. CASE WaitForCompletion
    <3>1. ProcessCompletion /\ pc \in {"idle", "room", "drain"}
      BY <2>13 DEF PollAsyncCompletions, WaitForCompletion
    <3>2. /\ completions' \in Seq(Completion)
          /\ 1 \in 1 .. Len(completions) /\ completions[1] \in Completion
          /\ Reap(completions[1]) \/ Forget(completions[1])
          /\ \A i \in 1 .. Len(completions') :
               /\ i + 1 \in 1 .. Len(completions)
               /\ completions'[i] = completions[i + 1]
      BY <3>1, ProcessDoes DEF IInv
    <3>3. UNCHANGED <<open, request, cursor, cancelled, syncMode, replay,
                      unsubmitted, inKernel, cancelAsked, device, pc, slot,
                      accepted, waitFor, outcome, threadCancelled, drain>>
      BY <3>1, ProcessDoes DEF IInv
    <3>4. Begun' = Begun /\ Begun = accepted
      BY <3>1, <3>3 DEF Begun
    <3>5. /\ pending' \subseteq pending
          /\ \A b \in pending : b \in pending' \/ b = completions[1].block
          /\ firstError => firstError'
          /\ \A b \in pending \ pending' :
               completions[1].result = "error" => firstError'
      <4>1. CASE Reap(completions[1])
        BY <4>1 DEF Reap
      <4>2. CASE Forget(completions[1])
        BY <4>2 DEF Forget
      <4> QED
        BY <3>2, <4>1, <4>2
    <3>6. /\ completions[1].result \in {"ok", "error", "cancelled"}
          /\ completions[1].result = "ok" =>
               device[completions[1].block] = completions[1].block
          /\ completions[1].result = "cancelled" => threadCancelled
      BY <3>2, PromptSays DEF Due, Completion, Results
    <3>7. ASSUME NEW b \in 1 .. accepted
          PROVE  \/ b \in pending' \/ device[b] = b \/ firstError'
                 \/ threadCancelled
      BY <3>5, <3>6, PromptSays DEF Due
    <3>8. outcome # "ok"
      BY <3>1, PromptSays DEF Due
    <3>9. \A i \in 1 .. Len(completions') :
             LET c == completions'[i] IN
               /\ c.result = "ok" => device'[c.block] = c.block
               /\ c.result = "cancelled" => threadCancelled'
      BY <3>2, <3>3, PromptSays DEF Due
    <3>10. \A b \in pending' : request'[b].position = b
      BY <3>3, <3>5, PromptSays DEF Due
    <3>11. \A b \in 1 .. accepted' :
             \/ b \in pending' \/ device'[b] = b
             \/ firstError' \/ threadCancelled'
      BY <3>3, <3>7
    <3>12. cursor' = Begun' + 1
      BY <3>3, <3>4, PromptSays DEF Due
    <3>13. cancelled' \/ cancelAsked' # {} => threadCancelled'
      BY <3>3, PromptSays DEF Due
    <3> QED
      BY <3>3, <3>8, <3>9, <3>10, <3>11, <3>12, <3>13 DEF Due
  <2>14. ASSUME NEW why \in {"flush", "finish"}, StartWait(why)
         PROVE  Due'
    BY <2>14, PromptSays DEF Due, Begun, counts, flags, ring, writer, main,
      StartWait
  <2>15. CASE WaitCancels
    BY <2>15, PromptSays DEF Due, Begun, counts, flags, ring, writer, main,
      WaitCancels, CancelPending
  <2>16. CASE WaitReturns
    <3>1. /\ pc = "drain" /\ pendingWrites = 0
          /\ UNCHANGED <<cursor, pending, request, device, firstError,
                         threadCancelled, cancelled, cancelAsked, completions,
                         accepted>>
      BY <2>16 DEF WaitReturns, counts, flags, main, ring
    <3>2. pc' \in {"idle", "done"}
      BY <2>16 DEF WaitReturns, EndWait
    <3>3. Begun' = Begun
      BY <3>1, <3>2 DEF Begun
    <3>4. outcome # "ok"
      BY <3>1, PromptSays DEF Due
    <3>5. pending = {}
      BY <3>1, Cardinals DEF IInv
    <3>6. ASSUME outcome' = "ok"
          PROVE  pc' = "done" /\ \A b \in Blocks : device[b] = b
      <4>1. /\ pc' = "done" /\ waitFor # "flush" /\ waitFor # "abort"
            /\ ~firstError /\ ~threadCancelled
        BY <2>16, <3>4, <3>6 DEF WaitReturns, EndWait, Verdict
      <4>2. accepted = MaxBlocks
        BY <3>1, <4>1 DEF IInv, InHand, Typed
      <4>3. Blocks = 1 .. accepted
        BY <4>2 DEF Blocks
      <4> QED
        BY <3>5, <4>1, <4>3, PromptSays DEF Due
    <3> QED
      BY <3>1, <3>3, <3>5, <3>6, PromptSays DEF Due
  <2>17. CASE AttemptSyncFallback
    BY <2>17, PromptSays DEF Due, Begun, counts, flags, ring, writer, main,
      AttemptSyncFallback, CancelPending
  <2>18. CASE ReplayWrite
    BY <2>18, PromptSays DEF Due, Begun, counts, flags, ring, writer, main,
      ReplayWrite
  <2>19. CASE ReplayFails
    BY <2>19, PromptSays DEF Due, Begun, counts, flags, ring, writer, main,
      ReplayFails, EndWait, Verdict
  <2>20. CASE FlushEntries
    BY <2>20, PromptSays DEF Due, Begun, counts, flags, ring, writer, main,
      FlushEntries
  <2> QED
    BY <1>1, <2>1, <2>2, <2>3, <2>4, <2>5, <2>6, <2>7, <2>8, <2>9, <2>10,
      <2>11, <2>12, <2>13, <2>14, <2>15, <2>16, <2>17, <2>18, <2>19,
      <2>20 DEF ExtractThread
<1>2. CASE Kernel
  <2>1. ASSUME NEW b \in Blocks, KernelWrites(b)
        PROVE  Due'
    <3>1. [block |-> b, result |-> "ok"] \in Completion
      BY <2>1 DEF Completion, Results
    <3>2. /\ b \in inKernel
          /\ completions' = Append(completions, [block |-> b, result |-> "ok"])
          /\ UNCHANGED <<cursor, pending, request, firstError, threadCancelled,
                         cancelled, cancelAsked, accepted, pc, outcome>>
      BY <2>1 DEF KernelWrites, counts, flags, main, writer
    <3>3. b \in pending /\ outcome # "ok"
      BY <3>2, PromptSays DEF Due, Once
    <3>4. Begun' = Begun
      BY <3>2 DEF Begun
    <3>5. /\ request[b].position = b /\ buffer[request[b].slot] = b
          /\ request[b].slot \in Slots
      BY <3>2, <3>3, PromptSays DEF Due, Held, IInv, Slotted, OnItsWay
    <3>6. Blocks \subseteq Positions
      BY Numbers DEF IInv, Blocks, Positions
    <3>7. /\ device'[b] = b
          /\ \A q \in Blocks : device[q] = q => device'[q] = q
      BY <2>1, <3>5, <3>6 DEF KernelWrites, IInv, Memory
    <3>8. \A q \in 1 .. accepted : q \in Blocks
      BY Numbers DEF IInv
    <3>9. \A i \in 1 .. Len(completions) : completions[i].block \in Blocks
      BY Completed DEF IInv, Completion
    <3>10. ASSUME NEW i \in 1 .. Len(completions')
           PROVE  LET c == completions'[i] IN
               /\ c.result = "ok" => device'[c.block] = c.block
               /\ c.result = "cancelled" => threadCancelled'
      <4>1. CASE /\ i \in 1 .. Len(completions)
                 /\ completions'[i] = completions[i]
        BY <3>2, <3>7, <3>9, <4>1, PromptSays DEF Due
      <4>2. CASE completions'[i] = [block |-> b, result |-> "ok"]
        BY <3>2, <3>7, <4>2
      <4> QED
        BY <3>1, <3>2, <4>1, <4>2, KernelDoes DEF IInv
    <3>11. \A a \in 1 .. accepted' :
             \/ a \in pending' \/ device'[a] = a
             \/ firstError' \/ threadCancelled'
      BY <3>2, <3>7, <3>8, PromptSays DEF Due
    <3> QED
      BY <3>2, <3>3, <3>4, <3>10, <3>11, PromptSays DEF Due
  <2>2. ASSUME NEW b \in Blocks, NEW r \in {"error", "cancelled"},
               KernelRefuses(b, r)
        PROVE  Due'
    <3>1. [block |-> b, result |-> r] \in Completion
      BY <2>2 DEF Completion, Results
    <3>2. /\ b \in inKernel
          /\ completions' = Append(completions, [block |-> b, result |-> r])
          /\ UNCHANGED <<cursor, pending, request, firstError, threadCancelled,
                         cancelled, cancelAsked, accepted, pc, outcome>>
      BY <2>2 DEF KernelRefuses, counts, flags, main, writer
    <3>3. b \in pending /\ outcome # "ok"
      BY <3>2, PromptSays DEF Due, Once
    <3>4. Begun' = Begun
      BY <3>2 DEF Begun
    <3>7. /\ r # "ok" /\ device' = device
          /\ r = "cancelled" => threadCancelled
      <4>1. r # "ok" /\ device' = device
        BY <2>2 DEF KernelRefuses
      <4>2. r = "cancelled" => b \in cancelAsked
        BY <2>2 DEF KernelRefuses
      <4> QED
        BY <4>1, <4>2, PromptSays DEF Due
    <3>8. \A q \in 1 .. accepted : q \in Blocks
      BY Numbers DEF IInv
    <3>9. \A i \in 1 .. Len(completions) : completions[i].block \in Blocks
      BY Completed DEF IInv, Completion
    <3>10. ASSUME NEW i \in 1 .. Len(completions')
           PROVE  LET c == completions'[i] IN
               /\ c.result = "ok" => device'[c.block] = c.block
               /\ c.result = "cancelled" => threadCancelled'
      <4>1. CASE /\ i \in 1 .. Len(completions)
                 /\ completions'[i] = completions[i]
        BY <3>2, <3>7, <3>9, <4>1, PromptSays DEF Due
      <4>2. CASE completions'[i] = [block |-> b, result |-> r]
        BY <3>2, <3>7, <4>2
      <4> QED
        BY <3>1, <3>2, <4>1, <4>2, KernelDoes DEF IInv
    <3>11. \A a \in 1 .. accepted' :
             \/ a \in pending' \/ device'[a] = a
             \/ firstError' \/ threadCancelled'
      BY <3>2, <3>7, <3>8, PromptSays DEF Due
    <3> QED
      BY <3>2, <3>3, <3>4, <3>10, <3>11, PromptSays DEF Due
  <2> QED
    BY <1>2, <2>1, <2>2 DEF Kernel
<1>3. CASE MainThread
  <2>1. CASE CancelDownload
    BY <2>1, PromptSays DEF Due, Begun, counts, flags, ring, writer, main,
      CancelDownload, CancelPending
  <2>2. CASE ReduceQueueDepthForRecovery
    BY <2>2, PromptSays DEF Due, Begun, counts, flags, ring, writer, main,
      ReduceQueueDepthForRecovery
  <2>3. CASE DrainAndSwitchToSync
    BY <2>3, PromptSays DEF Due, Begun, counts, flags, ring, writer, main,
      DrainAndSwitchToSync
  <2>4. CASE DrainEnds
    BY <2>4, PromptSays DEF Due, Begun, counts, flags, ring, writer, main,
      DrainEnds
  <2> QED
    BY <1>3, <2>1, <2>2, <2>3, <2>4 DEF MainThread
<1>4. CASE Ended
  BY <1>4, PromptSays DEF Due, Begun, counts, flags, ring, writer, main, Ended,
    vars
<1> QED
  BY <1>1, <1>2, <1>3, <1>4 DEF Next

-----------------------------------------------------------------------------
(* The invariant holds at first. *)
LEMMA Begins ==
  ASSUME Init
  PROVE  IInv
<1>1. Typed /\ Flags /\ InHand
  <2>1. Typed
    BY DEF Init, Typed, Stages, Results
  <2>2. Flags
    BY DEF Init, Flags
  <2>3. InHand
    <3>1. 0 \in 0 .. MaxBlocks
      BY Constants
    <3> QED
      BY <3>1 DEF Init, InHand, Writing
  <2> QED
    BY <2>1, <2>2, <2>3
<1>2. Counted
  <2>1. queueDepth \in MinQueueDepth .. QueueDepth
    BY Constants DEF Init
  <2>2. Cardinality({}) = 0
    BY FS_EmptySet
  <2> QED
    BY <2>1, <2>2 DEF Init, Counted
<1>3. /\ completions = <<>> /\ Len(completions) = 0
      /\ 1 .. Len(completions) = {}
  BY DEF Init
<1>4. Slotted /\ Memory /\ Reaped
  BY <1>3 DEF Init, Slotted, OnItsWay, Memory, Reaped
<1>5. Placed
  BY DEF Init, Placed
<1>6. MaxBlocks \in Nat /\ 1 .. accepted = {} /\ accepted = 0
  BY Constants DEF Init
<1>7. Called
  BY <1>6 DEF Init, Called, Blocks
<1>8. Held
  BY DEF Init, Held, Writing
<1>9. \A b : ~Answered(b)
  BY <1>3 DEF Answered
<1>10. Once
  BY <1>9 DEF Init, Once
<1>11. Due
  BY <1>3, <1>6 DEF Init, Due, Begun
<1> QED
  BY <1>1, <1>2, <1>4, <1>5, <1>7, <1>8, <1>10, <1>11 DEF IInv

(* No step leaves the invariant. *)
LEMMA Keeps ==
  ASSUME IInv, [Next]_vars
  PROVE  IInv'
<1>1. CASE Next
  <2>1. /\ Typed' /\ Flags' /\ InHand' /\ Counted' /\ Slotted' /\ Memory'
        /\ Reaped' /\ Placed'
    BY <1>1, KeepsTyped, KeepsFlags, KeepsInHand, KeepsCounted, KeepsSlotted,
       KeepsMemory, KeepsReaped, KeepsPlaced
  <2>2. ~CompletionsMayBeLate => Called'
    BY <1>1, KeepsCalled
  <2>3. Prompt => Held' /\ Once' /\ Due'
    BY <1>1, KeepsHeld, KeepsOnce, KeepsDue
  <2> QED
    BY <2>1, <2>2, <2>3 DEF IInv, Prompt
<1>2. CASE UNCHANGED vars
  <2>1. UNCHANGED <<open, queueDepth, pendingWrites, pending, request, cursor,
                    firstError, cancelled, syncMode, replay, unsubmitted,
                    inKernel, cancelAsked, completions, device, pc, slot,
                    accepted, waitFor, outcome, buffer, freeSlots, callbacks,
                    threadCancelled, drain>>
    BY <1>2 DEF vars, counts, flags, ring, memory, main, writer
  <2>2. /\ Typed' /\ Flags' /\ InHand' /\ Counted' /\ Slotted' /\ Memory'
        /\ Reaped' /\ Placed'
    BY <2>1 DEF IInv, Typed, Flags, InHand, Counted, Begun, Slotted, OnItsWay,
       Memory, Reaped, Placed, GoesOn
  <2>3. ~CompletionsMayBeLate => Called'
    BY <2>1 DEF IInv, Called, GoesOn
  <2>4. Prompt => Held' /\ Once' /\ Due'
    BY <2>1 DEF IInv, Held, Once, Answered, Due, Begun
  <2> QED
    BY <2>2, <2>3, <2>4 DEF IInv, Prompt
<1> QED
  BY <1>1, <1>2

(* The invariant holds always. *)
LEMMA Invariant == Spec => []IInv
<1>1. Init => IInv
  BY Begins
<1>2. IInv /\ [Next]_vars => IInv'
  BY Keeps
<1> QED
  BY <1>1, <1>2, PTL DEF Spec

-----------------------------------------------------------------------------
(* The state is of its type: the depth stays between its limits,            *)
(* pending_writes_ is the number of the records in pending_callbacks_, and  *)
(* async_write_offset_ is at most one position ahead for every block        *)
(* answered for or in hand, however many submissions, writes and replays    *)
(* fail.                                                                    *)
THEOREM TypeCorrect == Spec => []TypeOK
<1>1. IInv => TypeOK
  <2> SUFFICES ASSUME IInv PROVE TypeOK
    OBVIOUS
  <2>1. /\ pending \cup replay \subseteq Blocks
        /\ pendingWrites = Cardinality(pending)
    BY Numbers DEF IInv, Counted
  <2>2. cursor \in 1 .. 2 * accepted + 2
    <3>1. /\ cursor \in Nat /\ cursor >= 1
          /\ cursor <= 2 * accepted + 1 \/ cursor = 2 * accepted + 2
      BY DEF IInv, Placed
    <3>2. accepted \in Nat
      BY Numbers DEF IInv
    <3> QED
      BY <3>1, <3>2
  <2>3. /\ queueDepth \in MinQueueDepth .. QueueDepth
        /\ accepted \in 0 .. MaxBlocks /\ slot \in {0} \cup Slots
    BY DEF IInv, Counted, InHand
  <2>4. /\ open \in BOOLEAN /\ firstError \in BOOLEAN /\ cancelled \in BOOLEAN
        /\ syncMode \in BOOLEAN /\ threadCancelled \in BOOLEAN
    BY Zenon DEF IInv, Flags
  <2>5. /\ pc \in Stages /\ waitFor \in {"none", "flush", "finish", "abort"}
        /\ outcome \in Results \cup {"none"}
        /\ drain \in {"no", "waiting", "drained", "stalled"}
    BY DEF IInv, Typed
  <2>6. Slotted /\ Memory /\ Reaped
    BY DEF IInv
  <2> QED
    BY <2>1, <2>2, <2>3, <2>4, <2>5, <2>6
       DEF TypeOK, Stages, Slotted, Memory, Reaped
<1> QED
  BY Invariant, <1>1, PTL

(* The callback of a write runs once: when its completion is reaped, or     *)
(* when AsyncWriteSequential refuses it or writes it synchronously, also    *)
(* when submissions fail.  Only the replay after five minutes is left out:  *)
(* one that fails forgets the writes left, whose callbacks never run.       *)
THEOREM EachCallsBackOnce ==
  ASSUME ~CompletionsMayBeLate
  PROVE  Spec => []CallbackOnce
<1>1. IInv => CallbackOnce
  <2> SUFFICES ASSUME IInv, NEW b \in Blocks
               PROVE  LET runs == callbacks[b]
                                  + IF b \in pending \cup replay THEN 1 ELSE 0
                      IN  runs <= 1 /\ (b <= accepted => runs = 1)
    BY DEF CallbackOnce
  <2>1. Called /\ Counted
    BY DEF IInv
  <2>2. /\ accepted \in Nat /\ b \in Nat /\ b >= 1
        /\ pending \subseteq 1 .. Begun
        /\ Begun = IF pc = "submit" THEN accepted + 1 ELSE accepted
    BY <2>1, Numbers DEF IInv, Blocks, Counted, Begun
  <2>3. replay = {}
    BY <2>1 DEF Called
  <2>4. CASE b \in 1 .. accepted
    <3>1. callbacks[b] = IF b \in pending THEN 0 ELSE 1
      BY <2>1, <2>4 DEF Called
    <3> QED
      BY <2>3, <3>1
  <2>5. CASE b = accepted + 1
    <3>1. /\ callbacks[b] \in {0, 1} /\ ~ (b <= accepted)
          /\ b \in pending => callbacks[b] = 0
      BY <2>1, <2>2, <2>5 DEF Called
    <3> QED
      BY <2>3, <3>1
  <2>6. CASE b > accepted + 1
    <3>1. callbacks[b] = 0 /\ ~ (b <= accepted) /\ b \notin pending
      BY <2>1, <2>2, <2>6 DEF Called
    <3> QED
      BY <2>3, <3>1
  <2> QED
    BY <2>2, <2>4, <2>5, <2>6
<1> QED
  BY Invariant, <1>1, PTL

(* A buffer is not refilled before the kernel is done with it.  Submissions *)
(* must not fail and completions not be later than five minutes: in both    *)
(* cases the code gives a buffer back that the kernel may still read.  The  *)
(* main thread's race for the submission queue is allowed.                  *)
THEOREM BuffersAreKept ==
  ASSUME Prompt
  PROVE  Spec => []BuffersStayValid
<1>1. IInv => BuffersStayValid
  BY DEF IInv, Held, Once, BuffersStayValid
<1> QED
  BY Invariant, <1>1, PTL

(* A transfer that _writeComplete calls a success has every block at its    *)
(* place, under the same assumptions: a failed submission shifts what       *)
(* follows it, and a late completion writes a buffer that has changed.      *)
THEOREM SuccessIsWritten ==
  ASSUME Prompt
  PROVE  Spec => []SuccessMeansWritten
<1>1. IInv => SuccessMeansWritten
  BY DEF IInv, Due, SuccessMeansWritten
<1> QED
  BY Invariant, <1>1, PTL

=============================================================================
