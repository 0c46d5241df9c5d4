------------------------- MODULE WritePipelineProofs -------------------------
(***************************************************************************)
(* However long the stream and whatever the length of the ring: the image   *)
(* is never taken for whole before it is, the partition table comes last,   *)
(* the user gets an answer, a cancelled transfer never succeeds, and        *)
(* success means that the card holds the image.                             *)
(***************************************************************************)
EXTENDS WritePipeline, Integers, TLAPS

-----------------------------------------------------------------------------
(* The inductive invariant. *)

Curls == {"prepare", "transfer", "push", "aborting", "closing", "report",
          "cancelRing", "join", "announce", "finished"}
Extracts == {"none", "slot", "read", "write", "writeFailed", "throw", "drain",
             "check", "hash", "flush", "verify", "customise", "beforeTable",
             "table", "sync", "recheck", "announce", "ended"}
Typed ==
  /\ curl \in Curls /\ extract \in Extracts
  /\ user \in {"idle", "cancelling", "cancelled"}

Flags ==
  /\ customise \in BOOLEAN /\ open \in BOOLEAN /\ asyncError \in BOOLEAN
  /\ corrupt \in BOOLEAN /\ cancelled \in BOOLEAN /\ extractFailed \in BOOLEAN
  /\ verifyEnabled \in BOOLEAN
  /\ ringDone \in BOOLEAN /\ ringCancelled \in BOOLEAN
  /\ ringStalled \in BOOLEAN

Emitted == signals \in Seq(Causes \cup {"success"})

(* What has been received is decompressed, or queued, or in hand, in order; *)
(* nothing is lost before the transfer is.                                  *)
Lost == cancelled \/ ringCancelled \/ ringStalled
InHand == IF curl = "push" THEN 1 ELSE 0
Stream ==
  /\ imageChunks \in 1 .. Chunks /\ received \in 0 .. Chunks
  /\ queue \in Seq(1 .. Chunks) /\ decoded \in Seq(1 .. Chunks)
  /\ Len(queue) <= RingSlots
  /\ \A i \in 1 .. Len(decoded) : decoded[i] = i
  /\ \A i \in 1 .. Len(queue) : queue[i] = Len(decoded) + i
  /\ Len(decoded) + Len(queue) + InHand <= received
  /\ ~Lost => Len(decoded) + Len(queue) + InHand = received
  /\ imageChunks < Chunks => Len(decoded) <= imageChunks

(* How the two threads know of each other. *)
Threads ==
  /\ extract = "none" <=> received = 0
  /\ ringDone => curl \in {"join", "announce", "finished"}
  /\ curl \in {"join", "announce"} => ringDone
  /\ curl \in {"prepare"} => received = 0
  /\ extract \in {"write", "writeFailed"} => decoded # <<>>

(* What is lost has been answered, or asked for. *)
Reasons ==
  /\ ringCancelled => cancelled
  /\ extractFailed => cancelled
  /\ curl \in {"aborting", "cancelRing"} => cancelled
  /\ user # "idle" => cancelled
  /\ (cancelled \/ curl = "finished") /\ user = "idle" => signals # <<>>

(* The device is open until one of the threads closes it. *)
Opened ==
  extract # "ended" /\ curl \in {"transfer", "push", "aborting", "closing",
                                 "join", "announce"} => open

(* The stages of _writeComplete. *)
Judged == {"hash", "flush", "verify", "customise", "beforeTable", "table",
           "sync", "recheck", "announce"}
Drained == Judged \cup {"check", "ended"}
Whole ==
  /\ decoded # <<>>
  /\ \/ imageChunks < Chunks /\ Len(decoded) = imageChunks
     \/ ringDone /\ Len(decoded) = received
Ends ==
  /\ extract \in Judged => Whole
  /\ extract \in {"drain", "check"} /\ ~cancelled => Whole
Hashed == Judged \ {"hash"}
RightHash ==
  extract \in Hashed /\ HashKnown => Len(decoded) = imageChunks

(* What has been queued or written: the blocks after the first one, and in  *)
(* the end the settings and the first one.                                  *)
Taken == IF extract \in {"write", "writeFailed"} THEN Len(decoded) - 1
                                                 ELSE Len(decoded)
Customised == {"beforeTable", "table", "sync", "recheck", "announce"}
Tabled == {"sync", "recheck", "announce"}
Mark == IF customise THEN {Settings} ELSE {}
Blocks ==
  /\ inFlight \subseteq 2 .. Taken
  /\ extract \in Drained \cup {"none"} => inFlight = {}
  /\ extract \notin Customised \cup {"ended"} => written \subseteq 2 .. Taken
  /\ extract \in Drained \ {"ended"} => ~asyncError
  /\ ~cancelled /\ ~asyncError /\ extract # "ended" =>
       2 .. Taken \subseteq written \cup inFlight
  /\ extract \in Judged => 2 .. Len(decoded) \subseteq written
  /\ extract \in {"beforeTable", "table"} =>
       written = 2 .. Len(decoded) \cup Mark
  /\ extract \in Tabled => written = 1 .. Len(decoded) \cup Mark

Flushed ==
  /\ durable \subseteq written /\ written \subseteq 0 .. Len(decoded)
  /\ extract \in {"verify", "customise"} => durable = written
  /\ extract = "customise" => customise
  /\ extract = "beforeTable" => 2 .. Len(decoded) \subseteq durable
  /\ extract = "table" => durable = written
  /\ extract = "sync" => durable = 2 .. Len(decoded) \cup Mark
  /\ extract \in {"recheck", "announce"} => durable = written

(* A medium that lies is found out, unless nobody wants to know. *)
Verified ==
  /\ extract \in Customised \cup {"customise"} /\ ~cancelled =>
       (corrupt => ~verifyEnabled)
  /\ extract = "announce" => (corrupt => ~verifyEnabled)

(* What nothing in the code keeps from becoming a success after an error. *)
Sound == ~AsyncMayFail /\ ~CustomiseMayFail /\ ~EmptySource
Genuine ==
  Sound =>
    /\ ~asyncError
    /\ ringDone => received # 0
    /\ extract = "ended" /\ curl \in {"transfer", "push", "join"} =>
         cancelled \/ Succeeded
    /\ curl = "announce" => Succeeded
    /\ Succeeded => extract = "ended"
Believed == Sound => SuccessMeansWritten

IInv ==
  /\ Typed /\ Flags /\ Emitted /\ Stream /\ Threads /\ Reasons /\ Opened
  /\ Ends /\ RightHash /\ Blocks /\ Flushed /\ Verified /\ TableComesLast
  /\ Genuine /\ Believed

-----------------------------------------------------------------------------
(* The constants, as the proofs use them. *)
LEMMA Constants ==
  /\ Chunks \in Nat /\ Chunks > 1 /\ RingSlots \in Nat /\ RingSlots > 0
  /\ HashKnown \in BOOLEAN /\ EmptySource \in BOOLEAN
<1> QED
  BY PipelineAssumption

(* The numbers of what has been decompressed and of what is queued. *)
LEMMA Sizes ==
  ASSUME Stream
  PROVE  /\ Len(decoded) \in 0 .. Chunks /\ Len(queue) \in Nat
         /\ Len(decoded) <= received /\ received \in 0 .. Chunks
         /\ imageChunks \in 1 .. Chunks
         /\ decoded = <<>> <=> Len(decoded) = 0
         /\ queue = <<>> <=> Len(queue) = 0
         /\ InHand \in {0, 1}
<1>1. /\ Len(decoded) \in Nat /\ Len(queue) \in Nat /\ InHand \in {0, 1}
      /\ decoded = <<>> <=> Len(decoded) = 0
      /\ queue = <<>> <=> Len(queue) = 0
  BY DEF Stream, InHand
<1>2. /\ received \in 0 .. Chunks /\ imageChunks \in 1 .. Chunks
      /\ Len(decoded) + Len(queue) + InHand <= received
  BY DEF Stream
<1> QED
  BY <1>1, <1>2, Constants

(* The first block and the others. *)
LEMMA FirstAndOthers ==
  ASSUME Stream, decoded # <<>>
  PROVE  /\ 1 .. Len(decoded) = {1} \cup 2 .. Len(decoded)
         /\ 1 \notin 2 .. Len(decoded) /\ 0 \notin 2 .. Len(decoded)
<1>1. Len(decoded) \in Nat /\ Len(decoded) > 0
  BY Sizes
<1> QED
  BY <1>1

(* What has been decompressed is the image as far as it goes. *)
LEMMA InOrder ==
  ASSUME Stream, NEW n \in Nat
  PROVE  decoded = [i \in 1 .. n |-> i] <=> Len(decoded) = n
<1>1. /\ decoded \in Seq(1 .. Chunks)
      /\ \A i \in 1 .. Len(decoded) : decoded[i] = i
  BY DEF Stream
<1>2. /\ Len(decoded) \in Nat
      /\ decoded = [i \in 1 .. Len(decoded) |-> decoded[i]]
  BY <1>1
<1>3. decoded = [i \in 1 .. Len(decoded) |-> i]
  BY <1>1, <1>2
<1>4. ASSUME decoded = [i \in 1 .. n |-> i]
      PROVE  Len(decoded) = n
  <2>1. DOMAIN decoded = 1 .. n /\ DOMAIN decoded = 1 .. Len(decoded)
    BY <1>1, <1>4
  <2> QED
    BY <2>1, <1>2
<1> QED
  BY <1>3, <1>4

(* What is in a sequence is of its kind. *)
LEMMA Elements ==
  ASSUME NEW S, NEW q \in Seq(S), NEW i \in 1 .. Len(q)
  PROVE  q[i] \in S
<1> QED
  OBVIOUS

(* A chunk is taken from the queue and decompressed. *)
LEMMA ReadDoes ==
  ASSUME Stream, ReadChunk
  PROVE  /\ Len(decoded') = Len(decoded) + 1
         /\ Len(queue') = Len(queue) - 1 /\ Len(queue) > 0
         /\ queue' \in Seq(1 .. Chunks) /\ decoded' \in Seq(1 .. Chunks)
         /\ decoded' # <<>>
         /\ \A i \in 1 .. Len(decoded') : decoded'[i] = i
         /\ \A i \in 1 .. Len(queue') : queue'[i] = Len(decoded') + i
<1>1. /\ queue \in Seq(1 .. Chunks) /\ decoded \in Seq(1 .. Chunks)
      /\ queue # <<>> /\ queue' = Tail(queue)
      /\ decoded' = Append(decoded, Head(queue))
  BY DEF Stream, ReadChunk
<1>2. /\ Len(queue) \in Nat \ {0} /\ Len(decoded) \in Nat
      /\ Head(queue) = queue[1] /\ queue[1] \in 1 .. Chunks
      /\ queue' \in Seq(1 .. Chunks) /\ Len(queue') = Len(queue) - 1
      /\ \A i \in 1 .. Len(queue') : queue'[i] = queue[i + 1]
  <2>1. Len(queue) \in Nat \ {0} /\ Len(decoded) \in Nat
    BY <1>1
  <2>2. 1 \in 1 .. Len(queue)
    BY <2>1
  <2>3. Head(queue) = queue[1]
    BY <1>1
  <2>7. queue[1] \in 1 .. Chunks
    BY <1>1, <2>2, Elements
  <2>4. queue' \in Seq(1 .. Chunks) /\ Len(queue') = Len(queue) - 1
    BY <1>1
  <2>5. \A i \in 1 .. Len(queue') : queue'[i] = queue[i + 1]
    BY <1>1, <2>4
  <2> QED
    BY <2>1, <2>3, <2>4, <2>5, <2>7
<1>3. /\ decoded' \in Seq(1 .. Chunks) /\ Len(decoded') = Len(decoded) + 1
      /\ \A i \in 1 .. Len(decoded) : decoded'[i] = decoded[i]
      /\ decoded'[Len(decoded) + 1] = queue[1]
  BY <1>1, <1>2
<1>4. queue[1] = Len(decoded) + 1
  BY <1>2 DEF Stream
<1>5. \A i \in 1 .. Len(decoded') : decoded'[i] = i
  <2>1. \A i \in 1 .. Len(decoded') :
          i \in 1 .. Len(decoded) \/ i = Len(decoded) + 1
    BY <1>2, <1>3
  <2> QED
    BY <1>3, <1>4, <2>1 DEF Stream
<1>6. \A i \in 1 .. Len(queue') : queue'[i] = Len(decoded') + i
  <2>1. \A i \in 1 .. Len(queue') :
          /\ i + 1 \in 1 .. Len(queue)
          /\ Len(decoded) + (i + 1) = Len(decoded') + i
    BY <1>2, <1>3
  <2> QED
    BY <1>2, <2>1 DEF Stream
<1>7. decoded' # <<>>
  BY <1>2, <1>3
<1> QED
  BY <1>2, <1>3, <1>5, <1>6, <1>7

(* The chunk in hand is the next one, unless the transfer is lost. *)
LEMMA PushDoes ==
  ASSUME Stream, Reasons, PushQueue
  PROVE  /\ queue' \in Seq(1 .. Chunks) /\ Len(queue') = Len(queue) + 1
         /\ \A i \in 1 .. Len(queue') : queue'[i] = Len(decoded) + i
<1>1. /\ queue \in Seq(1 .. Chunks) /\ queue' = Append(queue, received)
      /\ InHand = 1 /\ ~Lost
  BY DEF Stream, PushQueue, InHand, Lost
<1>2. /\ Len(decoded) + Len(queue) + 1 = received
      /\ received \in 0 .. Chunks
  BY <1>1 DEF Stream
<1>3. Len(decoded) \in Nat /\ Len(queue) \in Nat /\ received \in 1 .. Chunks
  BY <1>2, Sizes
<1>4. /\ queue' \in Seq(1 .. Chunks) /\ Len(queue') = Len(queue) + 1
      /\ \A i \in 1 .. Len(queue) : queue'[i] = queue[i]
      /\ queue'[Len(queue) + 1] = received
  BY <1>1, <1>3
<1>5. \A i \in 1 .. Len(queue') :
        \/ i \in 1 .. Len(queue)
        \/ i = Len(queue) + 1 /\ Len(decoded) + i = received
  BY <1>2, <1>3, <1>4
<1> QED
  BY <1>4, <1>5 DEF Stream

(* What is emitted is an answer, and the only success is a success. *)
LEMMA Emits ==
  ASSUME Emitted, NEW s \in Causes \cup {"success"}, Emit(s)
  PROVE  /\ signals' \in Seq(Causes \cup {"success"})
         /\ signals' # <<>>
         /\ Succeeded' <=> Succeeded \/ s = "success"
<1>1. /\ signals \in Seq(Causes \cup {"success"})
      /\ signals' = Append(signals, s)
  BY DEF Emitted, Emit
<1>2. /\ signals' \in Seq(Causes \cup {"success"})
      /\ Len(signals) \in Nat /\ Len(signals') = Len(signals) + 1
      /\ \A i \in 1 .. Len(signals) : signals'[i] = signals[i]
      /\ signals'[Len(signals) + 1] = s
  BY <1>1
<1>3. signals' # <<>>
  BY <1>2
<1>4. /\ 1 .. Len(signals) \subseteq 1 .. Len(signals')
      /\ Len(signals) + 1 \in 1 .. Len(signals')
      /\ \A i \in 1 .. Len(signals') :
           i \in 1 .. Len(signals) \/ i = Len(signals) + 1
  BY <1>2
<1>5. Succeeded => Succeeded'
  BY <1>2, <1>4 DEF Succeeded
<1>6. s = "success" => Succeeded'
  BY <1>2, <1>4 DEF Succeeded
<1>7. Succeeded' => Succeeded \/ s = "success"
  BY <1>2, <1>4 DEF Succeeded
<1> QED
  BY <1>2, <1>3, <1>5, <1>6, <1>7

(* An error is an answer, and no success. *)
LEMMA EmitsError ==
  ASSUME Emitted, NEW s \in Causes, Emit(s)
  PROVE  /\ signals' \in Seq(Causes \cup {"success"})
         /\ signals' # <<>>
         /\ Succeeded' <=> Succeeded
<1>1. s # "success"
  BY DEF Causes
<1> QED
  BY <1>1, Emits

(* What each step says. *)
Says ==
  /\ signals' \in Seq(Causes \cup {"success"})
  /\ signals' = signals \/ signals' # <<>>
  /\ \/ Succeeded' <=> Succeeded
     \/ Succeeded' /\ (AnnounceWrite \/ AnnounceDownload)

(* Whatever is emitted is an answer. *)
LEMMA Answers ==
  ASSUME Emitted
  PROVE  \A s \in Causes \cup {"success"} : Emit(s) => signals' # <<>>
<1> QED
  BY Emits

(* An error says so. *)
LEMMA SaysError ==
  ASSUME Emitted, NEW s \in Causes, Emit(s)
  PROVE  Says
<1> QED
  BY EmitsError DEF Says

(* A step that emits nothing says nothing. *)
LEMMA SaysNothing ==
  ASSUME Emitted, signals' = signals
  PROVE  Says
<1> QED
  BY DEF Succeeded, Says, Emitted

(* The simple types. *)
LEMMA KeepsTyped ==
  ASSUME IInv, Next
  PROVE  Typed'
<1>1. CASE Network
  BY <1>1 DEF IInv, Typed, Curls, Extracts, Network, WriteData,
    TransferSucceeds, TransferFails
<1>2. CASE DownloadThread
  BY <1>2 DEF IInv, Typed, Curls, Extracts, DownloadThread, PrepareDevice,
    PushQueue, PushGivesUp, ProducerStalls, DeleteDownloadedFile,
    OnDownloadError, JoinExtractThread, AnnounceDownload
<1>3. CASE ExtractThread
  BY <1>3 DEF IInv, Typed, Curls, Extracts, ExtractThread, AcquireWriteSlot,
    ReadChunk, ReadEnds, ConsumerStalls, ReadThrows, WriteFile, WriteFileFails,
    OnWriteError, Fail, Catch, Drain, FailsQuietlyAt, Proceed, CheckCancelled,
    CheckHash, FailsAt, FlushAndSync, OnDevice, Verify, CustomizeImage,
    CustomizeFails, FlushBeforeTable, WriteTable, FinalSync, RecheckCancelled,
    AnnounceWrite
<1>4. CASE Device
  BY <1>4 DEF IInv, Typed, Curls, Extracts, Device, WriteCompletes
<1>5. CASE DeviceLies
  BY <1>5 DEF IInv, Typed, Curls, Extracts, DeviceLies
<1>6. CASE MainThread
  BY <1>6 DEF IInv, Typed, Curls, Extracts, MainThread, CancelDownload,
    SkipCurrentVerification
<1>7. CASE Ended
  BY <1>7 DEF IInv, Typed, Curls, Extracts, Ended, vars
<1> QED
  BY <1>1, <1>2, <1>3, <1>4, <1>5, <1>6, <1>7 DEF Next

(* The flags are flags. *)
LEMMA KeepsFlags ==
  ASSUME IInv, Next
  PROVE  Flags'
<1>1. CASE Network
  BY <1>1 DEF IInv, Flags, job, ring, flags, device, Network, WriteData,
    TransferSucceeds, TransferFails
<1>2. CASE DownloadThread
  <2>1. CASE PrepareDevice
    BY <2>1 DEF IInv, Flags, job, ring, flags, device, PrepareDevice
  <2>2. CASE PushQueue
    BY <2>2 DEF IInv, Flags, job, ring, flags, device, PushQueue
  <2>3. CASE PushGivesUp
    BY <2>3 DEF IInv, Flags, job, ring, flags, device, PushGivesUp
  <2>4. CASE ProducerStalls
    BY <2>4 DEF IInv, Flags, job, ring, flags, device, ProducerStalls
  <2>5. CASE DeleteDownloadedFile
    BY <2>5 DEF IInv, Flags, job, ring, flags, device, DeleteDownloadedFile
  <2>6. CASE OnDownloadError
    BY <2>6 DEF IInv, Flags, job, ring, flags, device, OnDownloadError
  <2>7. CASE JoinExtractThread
    BY <2>7 DEF IInv, Flags, job, ring, flags, device, JoinExtractThread
  <2>8. CASE AnnounceDownload
    BY <2>8 DEF IInv, Flags, job, ring, flags, device, AnnounceDownload
  <2> QED
    BY <1>2, <2>1, <2>2, <2>3, <2>4, <2>5, <2>6, <2>7, <2>8 DEF DownloadThread
<1>3. CASE ExtractThread
  <2>1. CASE AcquireWriteSlot
    BY <2>1 DEF IInv, Flags, job, ring, flags, device, AcquireWriteSlot
  <2>2. CASE ReadChunk
    BY <2>2 DEF IInv, Flags, job, ring, flags, device, ReadChunk
  <2>3. CASE ReadEnds
    BY <2>3 DEF IInv, Flags, job, ring, flags, device, ReadEnds
  <2>4. CASE ConsumerStalls
    BY <2>4 DEF IInv, Flags, job, ring, flags, device, ConsumerStalls
  <2>5. CASE ReadThrows
    BY <2>5 DEF IInv, Flags, job, ring, flags, device, ReadThrows
  <2>6. CASE WriteFile
    BY <2>6 DEF IInv, Flags, job, ring, flags, device, WriteFile
  <2>7. CASE WriteFileFails
    BY <2>7 DEF IInv, Flags, job, ring, flags, device, WriteFileFails
  <2>8. CASE OnWriteError
    BY <2>8 DEF IInv, Flags, job, ring, flags, device, OnWriteError, Fail
  <2>9. CASE Catch
    BY <2>9 DEF IInv, Flags, job, ring, flags, device, Catch
  <2>10. CASE Drain
    BY <2>10 DEF IInv, Flags, job, ring, flags, device, Drain, FailsQuietlyAt,
      Proceed
  <2>11. CASE CheckCancelled
    BY <2>11 DEF IInv, Flags, job, ring, flags, device, CheckCancelled, Proceed
  <2>12. CASE CheckHash
    BY <2>12 DEF IInv, Flags, job, ring, flags, device, CheckHash, FailsAt,
      Fail, Proceed
  <2>13. CASE FlushAndSync
    BY <2>13 DEF IInv, Flags, job, ring, flags, device, FlushAndSync, OnDevice,
      FailsAt, Fail
  <2>14. CASE Verify
    BY <2>14 DEF IInv, Flags, job, ring, flags, device, Verify, Proceed,
      FailsAt, Fail
  <2>15. CASE CustomizeImage
    BY <2>15 DEF IInv, Flags, job, ring, flags, device, CustomizeImage,
      OnDevice
  <2>16. CASE CustomizeFails
    BY <2>16 DEF IInv, Flags, job, ring, flags, device, CustomizeFails
  <2>17. CASE FlushBeforeTable
    BY <2>17 DEF IInv, Flags, job, ring, flags, device, FlushBeforeTable,
      OnDevice, FailsAt, Fail
  <2>18. CASE WriteTable
    BY <2>18 DEF IInv, Flags, job, ring, flags, device, WriteTable, OnDevice,
      FailsAt, Fail
  <2>19. CASE FinalSync
    BY <2>19 DEF IInv, Flags, job, ring, flags, device, FinalSync, OnDevice,
      FailsAt, Fail
  <2>20. CASE RecheckCancelled
    BY <2>20 DEF IInv, Flags, job, ring, flags, device, RecheckCancelled,
      Proceed
  <2>21. CASE AnnounceWrite
    BY <2>21 DEF IInv, Flags, job, ring, flags, device, AnnounceWrite
  <2> QED
    BY <1>3, <2>1, <2>2, <2>3, <2>4, <2>5, <2>6, <2>7, <2>8, <2>9, <2>10,
      <2>11, <2>12, <2>13, <2>14, <2>15, <2>16, <2>17, <2>18, <2>19, <2>20,
      <2>21 DEF ExtractThread
<1>4. CASE Device
  BY <1>4 DEF IInv, Flags, job, ring, flags, device, Device, WriteCompletes
<1>5. CASE DeviceLies
  BY <1>5 DEF IInv, Flags, job, ring, flags, device, DeviceLies
<1>6. CASE MainThread
  BY <1>6 DEF IInv, Flags, job, ring, flags, device, MainThread,
    CancelDownload, SkipCurrentVerification
<1>7. CASE Ended
  BY <1>7 DEF IInv, Flags, job, ring, flags, device, Ended, vars
<1> QED
  BY <1>1, <1>2, <1>3, <1>4, <1>5, <1>6, <1>7 DEF Next

(* How the two threads know of each other. *)
LEMMA KeepsThreads ==
  ASSUME IInv, Next
  PROVE  Threads'
<1>1. CASE Network
  <2>1. CASE WriteData
    <3>1. received \in Nat /\ received' = received + 1
      BY <2>1, Sizes DEF WriteData, IInv
    <3>2. received' # 0
      BY <3>1
    <3> QED
      BY <2>1, <3>2 DEF WriteData, IInv, Threads, job, ring
  <2>2. CASE TransferSucceeds
    BY <2>2 DEF IInv, Threads, ring, TransferSucceeds
  <2>3. CASE TransferFails
    BY <2>3 DEF IInv, Threads, ring, TransferFails
  <2> QED
    BY <1>1, <2>1, <2>2, <2>3 DEF Network
<1>2. CASE DownloadThread
  BY <1>2 DEF IInv, Threads, ring, DownloadThread, PrepareDevice, PushQueue,
    PushGivesUp, ProducerStalls, DeleteDownloadedFile, OnDownloadError,
    JoinExtractThread, AnnounceDownload
<1>3. CASE ExtractThread
  <2>1. CASE ReadChunk
    <3>1. decoded' # <<>>
      BY <2>1, ReadDoes DEF IInv
    <3> QED
      BY <2>1, <3>1 DEF ReadChunk, IInv, Threads, job, ring
  <2>2. CASE AcquireWriteSlot \/ ReadEnds \/ ConsumerStalls \/ ReadThrows \/
          WriteFile \/ WriteFileFails \/ OnWriteError \/ Catch \/ Drain \/
          CheckCancelled \/ CheckHash \/ FlushAndSync \/ Verify \/
          CustomizeImage \/ CustomizeFails \/ FlushBeforeTable \/ WriteTable \/
          FinalSync \/ RecheckCancelled \/ AnnounceWrite
    BY <2>2 DEF IInv, Threads, ring, AcquireWriteSlot, ReadEnds,
      ConsumerStalls, ReadThrows, WriteFile, WriteFileFails, OnWriteError,
      Fail, Catch, Drain, FailsQuietlyAt, Proceed, CheckCancelled, CheckHash,
      FailsAt, FlushAndSync, OnDevice, Verify, CustomizeImage, CustomizeFails,
      FlushBeforeTable, WriteTable, FinalSync, RecheckCancelled, AnnounceWrite
  <2> QED
    BY <1>3, <2>1, <2>2 DEF ExtractThread
<1>4. CASE Device
  BY <1>4 DEF IInv, Threads, ring, Device, WriteCompletes
<1>5. CASE DeviceLies
  BY <1>5 DEF IInv, Threads, ring, DeviceLies
<1>6. CASE MainThread
  BY <1>6 DEF IInv, Threads, ring, MainThread, CancelDownload,
    SkipCurrentVerification
<1>7. CASE Ended
  BY <1>7 DEF IInv, Threads, ring, Ended, vars
<1> QED
  BY <1>1, <1>2, <1>3, <1>4, <1>5, <1>6, <1>7 DEF Next

(* The device is open until it is closed. *)
LEMMA KeepsOpened ==
  ASSUME IInv, Next
  PROVE  Opened'
<1>1. CASE Network
  BY <1>1 DEF IInv, Opened, device, Network, WriteData, TransferSucceeds,
    TransferFails
<1>2. CASE DownloadThread
  BY <1>2 DEF IInv, Opened, device, DownloadThread, PrepareDevice, PushQueue,
    PushGivesUp, ProducerStalls, DeleteDownloadedFile, OnDownloadError,
    JoinExtractThread, AnnounceDownload
<1>3. CASE ExtractThread
  BY <1>3 DEF IInv, Opened, device, ExtractThread, AcquireWriteSlot, ReadChunk,
    ReadEnds, ConsumerStalls, ReadThrows, WriteFile, WriteFileFails,
    OnWriteError, Fail, Catch, Drain, FailsQuietlyAt, Proceed, CheckCancelled,
    CheckHash, FailsAt, FlushAndSync, OnDevice, Verify, CustomizeImage,
    CustomizeFails, FlushBeforeTable, WriteTable, FinalSync, RecheckCancelled,
    AnnounceWrite
<1>4. CASE Device
  BY <1>4 DEF IInv, Opened, device, Device, WriteCompletes
<1>5. CASE DeviceLies
  BY <1>5 DEF IInv, Opened, device, DeviceLies
<1>6. CASE MainThread
  BY <1>6 DEF IInv, Opened, device, MainThread, CancelDownload,
    SkipCurrentVerification
<1>7. CASE Ended
  BY <1>7 DEF IInv, Opened, device, Ended, vars
<1> QED
  BY <1>1, <1>2, <1>3, <1>4, <1>5, <1>6, <1>7 DEF Next

(* Each step says an answer or nothing. *)
LEMMA NextSays ==
  ASSUME IInv, Next
  PROVE  Says
<1>1. CASE Network
  <2>1. CASE WriteData
    <3>1. signals' = signals
      BY <2>1 DEF WriteData
    <3> QED
      BY <3>1, SaysNothing DEF IInv
  <2>2. CASE TransferSucceeds
    <3>1. signals' = signals
      BY <2>2 DEF TransferSucceeds
    <3> QED
      BY <3>1, SaysNothing DEF IInv
  <2>3. CASE TransferFails
    <3>1. signals' = signals
      BY <2>3 DEF TransferFails
    <3> QED
      BY <3>1, SaysNothing DEF IInv
  <2> QED
    BY <1>1, <2>1, <2>2, <2>3 DEF Network
<1>2. CASE DownloadThread
  <2>1. CASE PrepareDevice
    <3>1. signals' = signals \/ \E s \in Causes : Emit(s)
      BY <2>1 DEF PrepareDevice, Causes
    <3> QED
      BY <3>1, SaysNothing, SaysError DEF IInv
  <2>2. CASE PushQueue
    <3>1. signals' = signals
      BY <2>2 DEF PushQueue
    <3> QED
      BY <3>1, SaysNothing DEF IInv
  <2>3. CASE PushGivesUp
    <3>1. signals' = signals
      BY <2>3 DEF PushGivesUp
    <3> QED
      BY <3>1, SaysNothing DEF IInv
  <2>4. CASE ProducerStalls
    <3>1. signals' = signals
      BY <2>4 DEF ProducerStalls
    <3> QED
      BY <3>1, SaysNothing DEF IInv
  <2>5. CASE DeleteDownloadedFile
    <3>1. signals' = signals
      BY <2>5 DEF DeleteDownloadedFile
    <3> QED
      BY <3>1, SaysNothing DEF IInv
  <2>6. CASE OnDownloadError
    <3>1. signals' = signals \/ \E s \in Causes : Emit(s)
      BY <2>6 DEF OnDownloadError, Causes
    <3> QED
      BY <3>1, SaysNothing, SaysError DEF IInv
  <2>7. CASE JoinExtractThread
    <3>1. signals' = signals
      BY <2>7 DEF JoinExtractThread
    <3> QED
      BY <3>1, SaysNothing DEF IInv
  <2>8. CASE AnnounceDownload
    <3>1. Emit("success")
      BY <2>8 DEF AnnounceDownload
    <3> QED
      BY <2>8, <3>1, Emits DEF IInv, Says
  <2> QED
    BY <1>2, <2>1, <2>2, <2>3, <2>4, <2>5, <2>6, <2>7, <2>8 DEF DownloadThread
<1>3. CASE ExtractThread
  <2>1. CASE AcquireWriteSlot
    <3>1. signals' = signals
      BY <2>1 DEF AcquireWriteSlot
    <3> QED
      BY <3>1, SaysNothing DEF IInv
  <2>2. CASE ReadChunk
    <3>1. signals' = signals
      BY <2>2 DEF ReadChunk
    <3> QED
      BY <3>1, SaysNothing DEF IInv
  <2>3. CASE ReadEnds
    <3>1. signals' = signals
      BY <2>3 DEF ReadEnds
    <3> QED
      BY <3>1, SaysNothing DEF IInv
  <2>4. CASE ConsumerStalls
    <3>1. signals' = signals
      BY <2>4 DEF ConsumerStalls
    <3> QED
      BY <3>1, SaysNothing DEF IInv
  <2>5. CASE ReadThrows
    <3>1. signals' = signals
      BY <2>5 DEF ReadThrows
    <3> QED
      BY <3>1, SaysNothing DEF IInv
  <2>6. CASE WriteFile
    <3>1. signals' = signals
      BY <2>6 DEF WriteFile
    <3> QED
      BY <3>1, SaysNothing DEF IInv
  <2>7. CASE WriteFileFails
    <3>1. signals' = signals
      BY <2>7 DEF WriteFileFails
    <3> QED
      BY <3>1, SaysNothing DEF IInv
  <2>8. CASE OnWriteError
    <3>1. signals' = signals \/ \E s \in Causes : Emit(s)
      BY <2>8 DEF OnWriteError, Fail, Causes
    <3> QED
      BY <3>1, SaysNothing, SaysError DEF IInv
  <2>9. CASE Catch
    <3>1. signals' = signals \/ \E s \in Causes : Emit(s)
      BY <2>9 DEF Catch, Causes
    <3> QED
      BY <3>1, SaysNothing, SaysError DEF IInv
  <2>10. CASE Drain
    <3>1. signals' = signals \/ \E s \in Causes : Emit(s)
      BY <2>10 DEF Drain, FailsQuietlyAt, Proceed, Causes
    <3> QED
      BY <3>1, SaysNothing, SaysError DEF IInv
  <2>11. CASE CheckCancelled
    <3>1. signals' = signals
      BY <2>11 DEF CheckCancelled, Proceed
    <3> QED
      BY <3>1, SaysNothing DEF IInv
  <2>12. CASE CheckHash
    <3>1. signals' = signals \/ \E s \in Causes : Emit(s)
      BY <2>12 DEF CheckHash, FailsAt, Fail, Proceed, Causes
    <3> QED
      BY <3>1, SaysNothing, SaysError DEF IInv
  <2>13. CASE FlushAndSync
    <3>1. signals' = signals \/ \E s \in Causes : Emit(s)
      BY <2>13 DEF FlushAndSync, OnDevice, FailsAt, Fail, Causes
    <3> QED
      BY <3>1, SaysNothing, SaysError DEF IInv
  <2>14. CASE Verify
    <3>1. signals' = signals \/ \E s \in Causes : Emit(s)
      BY <2>14 DEF Verify, Proceed, FailsAt, Fail, Causes
    <3> QED
      BY <3>1, SaysNothing, SaysError DEF IInv
  <2>15. CASE CustomizeImage
    <3>1. signals' = signals
      BY <2>15 DEF CustomizeImage, OnDevice
    <3> QED
      BY <3>1, SaysNothing DEF IInv
  <2>16. CASE CustomizeFails
    <3>1. signals' = signals \/ \E s \in Causes : Emit(s)
      BY <2>16 DEF CustomizeFails, Causes
    <3> QED
      BY <3>1, SaysNothing, SaysError DEF IInv
  <2>17. CASE FlushBeforeTable
    <3>1. signals' = signals \/ \E s \in Causes : Emit(s)
      BY <2>17 DEF FlushBeforeTable, OnDevice, FailsAt, Fail, Causes
    <3> QED
      BY <3>1, SaysNothing, SaysError DEF IInv
  <2>18. CASE WriteTable
    <3>1. signals' = signals \/ \E s \in Causes : Emit(s)
      BY <2>18 DEF WriteTable, OnDevice, FailsAt, Fail, Causes
    <3> QED
      BY <3>1, SaysNothing, SaysError DEF IInv
  <2>19. CASE FinalSync
    <3>1. signals' = signals \/ \E s \in Causes : Emit(s)
      BY <2>19 DEF FinalSync, OnDevice, FailsAt, Fail, Causes
    <3> QED
      BY <3>1, SaysNothing, SaysError DEF IInv
  <2>20. CASE RecheckCancelled
    <3>1. signals' = signals
      BY <2>20 DEF RecheckCancelled, Proceed
    <3> QED
      BY <3>1, SaysNothing DEF IInv
  <2>21. CASE AnnounceWrite
    <3>1. Emit("success")
      BY <2>21 DEF AnnounceWrite
    <3> QED
      BY <2>21, <3>1, Emits DEF IInv, Says
  <2> QED
    BY <1>3, <2>1, <2>2, <2>3, <2>4, <2>5, <2>6, <2>7, <2>8, <2>9, <2>10,
      <2>11, <2>12, <2>13, <2>14, <2>15, <2>16, <2>17, <2>18, <2>19, <2>20,
      <2>21 DEF ExtractThread
<1>4. CASE Device
  <2>1. ASSUME NEW place \in Places, WriteCompletes(place)
        PROVE  Says
    <3>1. signals' = signals
      BY <2>1 DEF WriteCompletes
    <3> QED
      BY <3>1, SaysNothing DEF IInv
  <2> QED
    BY <1>4, <2>1 DEF Device
<1>5. CASE DeviceLies
  <2>1. CASE DeviceLies
    <3>1. signals' = signals
      BY <2>1 DEF DeviceLies
    <3> QED
      BY <3>1, SaysNothing DEF IInv
  <2> QED
    BY <1>5, <2>1 DEF DeviceLies
<1>6. CASE MainThread
  <2>1. CASE CancelDownload
    <3>1. signals' = signals
      BY <2>1 DEF CancelDownload
    <3> QED
      BY <3>1, SaysNothing DEF IInv
  <2>2. CASE SkipCurrentVerification
    <3>1. signals' = signals
      BY <2>2 DEF SkipCurrentVerification
    <3> QED
      BY <3>1, SaysNothing DEF IInv
  <2> QED
    BY <1>6, <2>1, <2>2 DEF MainThread
<1>7. CASE Ended
  <2>1. CASE Ended
    <3>1. signals' = signals
      BY <2>1 DEF Ended, vars
    <3> QED
      BY <3>1, SaysNothing DEF IInv
  <2> QED
    BY <1>7, <2>1
<1> QED
  BY <1>1, <1>2, <1>3, <1>4, <1>5, <1>6, <1>7 DEF Next

(* What is lost is answered or asked for. *)
LEMMA KeepsReasons ==
  ASSUME IInv, Next
  PROVE  Reasons'
<1>1. CASE Network
  BY <1>1, NextSays DEF IInv, Reasons, Flags, Says, flags, ring, Network,
    WriteData, TransferSucceeds, TransferFails
<1>2. CASE DownloadThread
  <2>1. CASE PrepareDevice
    <3>1. \A s \in Causes : Emit(s) => signals' # <<>>
      BY Answers DEF IInv
    <3> QED
      BY <2>1, <3>1 DEF PrepareDevice, Causes, IInv, Reasons, Flags, flags,
        ring
  <2>2. CASE PushQueue
    BY <2>2, NextSays DEF IInv, Reasons, Flags, Says, flags, ring, PushQueue
  <2>3. CASE PushGivesUp
    BY <2>3, NextSays DEF IInv, Reasons, Flags, Says, flags, ring, PushGivesUp
  <2>4. CASE ProducerStalls
    BY <2>4, NextSays DEF IInv, Reasons, Flags, Says, flags, ring,
      ProducerStalls
  <2>5. CASE DeleteDownloadedFile
    BY <2>5, NextSays DEF IInv, Reasons, Flags, Says, flags, ring,
      DeleteDownloadedFile
  <2>6. CASE OnDownloadError
    <3>1. \A s \in Causes : Emit(s) => signals' # <<>>
      BY Answers DEF IInv
    <3> QED
      BY <2>6, <3>1 DEF OnDownloadError, Causes, IInv, Reasons, Flags, flags,
        ring
  <2>7. CASE JoinExtractThread
    BY <2>7, NextSays DEF IInv, Reasons, Flags, Says, flags, ring,
      JoinExtractThread
  <2>8. CASE AnnounceDownload
    <3>1. signals' # <<>>
      BY <2>8, Answers DEF AnnounceDownload, IInv
    <3> QED
      BY <2>8, <3>1 DEF AnnounceDownload, IInv, Reasons, Flags, job, ring,
        flags, device
  <2> QED
    BY <1>2, <2>1, <2>2, <2>3, <2>4, <2>5, <2>6, <2>7, <2>8 DEF DownloadThread
<1>3. CASE ExtractThread
  <2>1. CASE AcquireWriteSlot
    BY <2>1, NextSays DEF IInv, Reasons, Flags, Says, flags, ring,
      AcquireWriteSlot
  <2>2. CASE ReadChunk
    BY <2>2, NextSays DEF IInv, Reasons, Flags, Says, flags, ring, ReadChunk
  <2>3. CASE ReadEnds
    BY <2>3, NextSays DEF IInv, Reasons, Flags, Says, flags, ring, ReadEnds
  <2>4. CASE ConsumerStalls
    BY <2>4, NextSays DEF IInv, Reasons, Flags, Says, flags, ring,
      ConsumerStalls
  <2>5. CASE ReadThrows
    BY <2>5, NextSays DEF IInv, Reasons, Flags, Says, flags, ring, ReadThrows
  <2>6. CASE WriteFile
    BY <2>6, NextSays DEF IInv, Reasons, Flags, Says, flags, ring, WriteFile
  <2>7. CASE WriteFileFails
    BY <2>7, NextSays DEF IInv, Reasons, Flags, Says, flags, ring,
      WriteFileFails
  <2>8. CASE OnWriteError
    <3>1. \A s \in Causes : Emit(s) => signals' # <<>>
      BY Answers DEF IInv
    <3> QED
      BY <2>8, <3>1 DEF OnWriteError, Fail, Causes, IInv, Reasons, Flags,
        flags, ring
  <2>9. CASE Catch
    <3>1. \A s \in Causes : Emit(s) => signals' # <<>>
      BY Answers DEF IInv
    <3> QED
      BY <2>9, <3>1 DEF Catch, Causes, IInv, Reasons, Flags, flags, ring
  <2>10. CASE Drain
    <3>1. \A s \in Causes : Emit(s) => signals' # <<>>
      BY Answers DEF IInv
    <3> QED
      BY <2>10, <3>1 DEF Drain, FailsQuietlyAt, Proceed, Causes, IInv, Reasons,
        Flags, flags, ring
  <2>11. CASE CheckCancelled
    BY <2>11, NextSays DEF IInv, Reasons, Flags, Says, flags, ring,
      CheckCancelled, Proceed
  <2>12. CASE CheckHash
    <3>1. \A s \in Causes : Emit(s) => signals' # <<>>
      BY Answers DEF IInv
    <3> QED
      BY <2>12, <3>1 DEF CheckHash, FailsAt, Fail, Proceed, Causes, IInv,
        Reasons, Flags, flags, ring
  <2>13. CASE FlushAndSync
    <3>1. \A s \in Causes : Emit(s) => signals' # <<>>
      BY Answers DEF IInv
    <3> QED
      BY <2>13, <3>1 DEF FlushAndSync, OnDevice, FailsAt, Fail, Causes, IInv,
        Reasons, Flags, flags, ring
  <2>14. CASE Verify
    <3>1. \A s \in Causes : Emit(s) => signals' # <<>>
      BY Answers DEF IInv
    <3> QED
      BY <2>14, <3>1 DEF Verify, Proceed, FailsAt, Fail, Causes, IInv, Reasons,
        Flags, flags, ring
  <2>15. CASE CustomizeImage
    BY <2>15, NextSays DEF IInv, Reasons, Flags, Says, flags, ring,
      CustomizeImage, OnDevice
  <2>16. CASE CustomizeFails
    <3>1. \A s \in Causes : Emit(s) => signals' # <<>>
      BY Answers DEF IInv
    <3> QED
      BY <2>16, <3>1 DEF CustomizeFails, Causes, IInv, Reasons, Flags, flags,
        ring
  <2>17. CASE FlushBeforeTable
    <3>1. \A s \in Causes : Emit(s) => signals' # <<>>
      BY Answers DEF IInv
    <3> QED
      BY <2>17, <3>1 DEF FlushBeforeTable, OnDevice, FailsAt, Fail, Causes,
        IInv, Reasons, Flags, flags, ring
  <2>18. CASE WriteTable
    <3>1. \A s \in Causes : Emit(s) => signals' # <<>>
      BY Answers DEF IInv
    <3> QED
      BY <2>18, <3>1 DEF WriteTable, OnDevice, FailsAt, Fail, Causes, IInv,
        Reasons, Flags, flags, ring
  <2>19. CASE FinalSync
    <3>1. \A s \in Causes : Emit(s) => signals' # <<>>
      BY Answers DEF IInv
    <3> QED
      BY <2>19, <3>1 DEF FinalSync, OnDevice, FailsAt, Fail, Causes, IInv,
        Reasons, Flags, flags, ring
  <2>20. CASE RecheckCancelled
    BY <2>20, NextSays DEF IInv, Reasons, Flags, Says, flags, ring,
      RecheckCancelled, Proceed
  <2>21. CASE AnnounceWrite
    BY <2>21, NextSays DEF IInv, Reasons, Flags, Says, flags, ring,
      AnnounceWrite
  <2> QED
    BY <1>3, <2>1, <2>2, <2>3, <2>4, <2>5, <2>6, <2>7, <2>8, <2>9, <2>10,
      <2>11, <2>12, <2>13, <2>14, <2>15, <2>16, <2>17, <2>18, <2>19, <2>20,
      <2>21 DEF ExtractThread
<1>4. CASE Device
  BY <1>4, NextSays DEF IInv, Reasons, Flags, Says, flags, ring, Device,
    WriteCompletes
<1>5. CASE DeviceLies
  BY <1>5, NextSays DEF IInv, Reasons, Flags, Says, flags, ring, DeviceLies
<1>6. CASE MainThread
  BY <1>6, NextSays DEF IInv, Reasons, Flags, Says, flags, ring, MainThread,
    CancelDownload, SkipCurrentVerification
<1>7. CASE Ended
  BY <1>7, NextSays DEF IInv, Reasons, Flags, Says, flags, ring, Ended, vars
<1> QED
  BY <1>1, <1>2, <1>3, <1>4, <1>5, <1>6, <1>7 DEF Next

(* The stream stays in order. *)
LEMMA KeepsStream ==
  ASSUME IInv, Next
  PROVE  Stream'
<1>1. CASE Network
  <2>1. CASE WriteData
    BY <2>1, Constants DEF IInv, Stream, Lost, InHand, Threads, job, ring,
      flags, WriteData
  <2>2. CASE TransferSucceeds
    BY <2>2, Constants DEF IInv, Stream, Lost, InHand, Threads, job, ring,
      flags, TransferSucceeds
  <2>3. CASE TransferFails
    BY <2>3, Constants DEF IInv, Stream, Lost, InHand, Threads, job, ring,
      flags, TransferFails
  <2> QED
    BY <1>1, <2>1, <2>2, <2>3 DEF Network
<1>2. CASE DownloadThread
  <2>1. CASE PrepareDevice
    BY <2>1, Constants DEF IInv, Stream, Lost, InHand, Threads, job, ring,
      flags, PrepareDevice
  <2>2. CASE PushQueue
    <3>1. /\ queue' \in Seq(1 .. Chunks) /\ Len(queue') = Len(queue) + 1
          /\ \A i \in 1 .. Len(queue') : queue'[i] = Len(decoded) + i
      BY <2>2, PushDoes DEF IInv
    <3>2. /\ Len(queue) + 1 <= RingSlots /\ InHand = 1 /\ InHand' = 0
          /\ Lost' = Lost
      BY <2>2, Sizes, Constants DEF PushQueue, IInv, InHand, Lost, flags
    <3>3. UNCHANGED <<imageChunks, received, decoded>>
      BY <2>2 DEF PushQueue, job
    <3>4. Len(decoded) \in Nat /\ Len(queue) \in Nat /\ received \in Nat
      BY Sizes DEF IInv
    <3> QED
      BY <3>1, <3>2, <3>3, <3>4 DEF IInv, Stream
  <2>3. CASE PushGivesUp
    BY <2>3, Constants DEF IInv, Stream, Lost, InHand, Threads, job, ring,
      flags, PushGivesUp
  <2>4. CASE ProducerStalls
    BY <2>4, Constants DEF IInv, Stream, Lost, InHand, Threads, job, ring,
      flags, ProducerStalls
  <2>5. CASE DeleteDownloadedFile
    BY <2>5, Constants DEF IInv, Stream, Lost, InHand, Threads, job, ring,
      flags, DeleteDownloadedFile
  <2>6. CASE OnDownloadError
    BY <2>6, Constants DEF IInv, Stream, Lost, InHand, Threads, job, ring,
      flags, OnDownloadError
  <2>7. CASE JoinExtractThread
    BY <2>7, Constants DEF IInv, Stream, Lost, InHand, Threads, job, ring,
      flags, JoinExtractThread
  <2>8. CASE AnnounceDownload
    BY <2>8, Constants DEF IInv, Stream, Lost, InHand, Threads, job, ring,
      flags, AnnounceDownload
  <2> QED
    BY <1>2, <2>1, <2>2, <2>3, <2>4, <2>5, <2>6, <2>7, <2>8 DEF DownloadThread
<1>3. CASE ExtractThread
  <2>1. CASE AcquireWriteSlot
    BY <2>1, Constants DEF IInv, Stream, Lost, InHand, Threads, job, ring,
      flags, AcquireWriteSlot
  <2>2. CASE ReadChunk
    <3>1. /\ queue' \in Seq(1 .. Chunks) /\ Len(queue') = Len(queue) - 1
          /\ decoded' \in Seq(1 .. Chunks)
          /\ Len(decoded') = Len(decoded) + 1
          /\ \A i \in 1 .. Len(decoded') : decoded'[i] = i
          /\ \A i \in 1 .. Len(queue') : queue'[i] = Len(decoded') + i
      BY <2>2, ReadDoes DEF IInv
    <3>2. InHand' = InHand /\ Lost' = Lost
      BY <2>2 DEF ReadChunk, InHand, Lost, flags
    <3>3. UNCHANGED <<imageChunks, received>>
      BY <2>2 DEF ReadChunk, job
    <3>4. /\ Len(decoded) \in Nat /\ Len(queue) \in Nat /\ received \in Nat
          /\ InHand \in {0, 1} /\ RingSlots \in Nat /\ imageChunks \in Nat
          /\ Len(decoded) <= received /\ received \in 0 .. Chunks
      BY Sizes, Constants DEF IInv
    <3>5. imageChunks < Chunks => Len(decoded') <= imageChunks
      <4>1. imageChunks < Chunks =>
              Len(decoded) <= imageChunks /\ Len(decoded) # imageChunks
        BY <2>2 DEF ReadChunk, ArchiveEnds, IInv, Stream
      <4> QED
        BY <3>1, <3>4, <4>1
    <3>6. /\ Len(queue') <= RingSlots
          /\ Len(decoded') + Len(queue') + InHand <= received
          /\ ~Lost => Len(decoded') + Len(queue') + InHand = received
      <4>1. /\ Len(queue) <= RingSlots
            /\ Len(decoded) + Len(queue) + InHand <= received
            /\ ~Lost => Len(decoded) + Len(queue) + InHand = received
        BY DEF IInv, Stream
      <4>2. /\ Len(queue') = Len(queue) - 1
            /\ Len(decoded') = Len(decoded) + 1
        BY <3>1
      <4> QED
        BY <3>4, <4>1, <4>2
    <3> QED
      BY <3>1, <3>2, <3>3, <3>5, <3>6 DEF IInv, Stream
  <2>3. CASE ReadEnds
    BY <2>3, Constants DEF IInv, Stream, Lost, InHand, Threads, job, ring,
      flags, ReadEnds
  <2>4. CASE ConsumerStalls
    BY <2>4, Constants DEF IInv, Stream, Lost, InHand, Threads, job, ring,
      flags, ConsumerStalls
  <2>5. CASE ReadThrows
    BY <2>5, Constants DEF IInv, Stream, Lost, InHand, Threads, job, ring,
      flags, ReadThrows
  <2>6. CASE WriteFile
    BY <2>6, Constants DEF IInv, Stream, Lost, InHand, Threads, job, ring,
      flags, WriteFile
  <2>7. CASE WriteFileFails
    BY <2>7, Constants DEF IInv, Stream, Lost, InHand, Threads, job, ring,
      flags, WriteFileFails
  <2>8. CASE OnWriteError
    BY <2>8, Constants DEF IInv, Stream, Lost, InHand, Threads, job, ring,
      flags, OnWriteError, Fail
  <2>9. CASE Catch
    BY <2>9, Constants DEF IInv, Stream, Lost, InHand, Threads, job, ring,
      flags, Catch
  <2>10. CASE Drain
    BY <2>10, Constants DEF IInv, Stream, Lost, InHand, Threads, job, ring,
      flags, Drain, FailsQuietlyAt, Proceed
  <2>11. CASE CheckCancelled
    BY <2>11, Constants DEF IInv, Stream, Lost, InHand, Threads, job, ring,
      flags, CheckCancelled, Proceed
  <2>12. CASE CheckHash
    BY <2>12, Constants DEF IInv, Stream, Lost, InHand, Threads, job, ring,
      flags, CheckHash, FailsAt, Fail, Proceed
  <2>13. CASE FlushAndSync
    BY <2>13, Constants DEF IInv, Stream, Lost, InHand, Threads, job, ring,
      flags, FlushAndSync, OnDevice, FailsAt, Fail
  <2>14. CASE Verify
    BY <2>14, Constants DEF IInv, Stream, Lost, InHand, Threads, job, ring,
      flags, Verify, Proceed, FailsAt, Fail
  <2>15. CASE CustomizeImage
    BY <2>15, Constants DEF IInv, Stream, Lost, InHand, Threads, job, ring,
      flags, CustomizeImage, OnDevice
  <2>16. CASE CustomizeFails
    BY <2>16, Constants DEF IInv, Stream, Lost, InHand, Threads, job, ring,
      flags, CustomizeFails
  <2>17. CASE FlushBeforeTable
    BY <2>17, Constants DEF IInv, Stream, Lost, InHand, Threads, job, ring,
      flags, FlushBeforeTable, OnDevice, FailsAt, Fail
  <2>18. CASE WriteTable
    BY <2>18, Constants DEF IInv, Stream, Lost, InHand, Threads, job, ring,
      flags, WriteTable, OnDevice, FailsAt, Fail
  <2>19. CASE FinalSync
    BY <2>19, Constants DEF IInv, Stream, Lost, InHand, Threads, job, ring,
      flags, FinalSync, OnDevice, FailsAt, Fail
  <2>20. CASE RecheckCancelled
    BY <2>20, Constants DEF IInv, Stream, Lost, InHand, Threads, job, ring,
      flags, RecheckCancelled, Proceed
  <2>21. CASE AnnounceWrite
    BY <2>21, Constants DEF IInv, Stream, Lost, InHand, Threads, job, ring,
      flags, AnnounceWrite
  <2> QED
    BY <1>3, <2>1, <2>2, <2>3, <2>4, <2>5, <2>6, <2>7, <2>8, <2>9, <2>10,
      <2>11, <2>12, <2>13, <2>14, <2>15, <2>16, <2>17, <2>18, <2>19, <2>20,
      <2>21 DEF ExtractThread
<1>4. CASE Device
  BY <1>4, Constants DEF IInv, Stream, Lost, InHand, Threads, job, ring, flags,
    Device, WriteCompletes
<1>5. CASE DeviceLies
  BY <1>5, Constants DEF IInv, Stream, Lost, InHand, Threads, job, ring, flags,
    DeviceLies
<1>6. CASE MainThread
  BY <1>6, Constants DEF IInv, Stream, Lost, InHand, Threads, job, ring, flags,
    MainThread, CancelDownload, SkipCurrentVerification
<1>7. CASE Ended
  BY <1>7, Constants DEF IInv, Stream, Lost, InHand, Threads, job, ring, flags,
    Ended, vars
<1> QED
  BY <1>1, <1>2, <1>3, <1>4, <1>5, <1>6, <1>7 DEF Next

(* The end of the image. *)
LEMMA KeepsEnds ==
  ASSUME IInv, Next
  PROVE  Ends'
<1>1. CASE Network
  BY <1>1 DEF IInv, Threads, Reasons, Ends, Whole, Judged, job, ring, flags,
    Network, WriteData, TransferSucceeds, TransferFails
<1>2. CASE DownloadThread
  BY <1>2 DEF IInv, Threads, Reasons, Ends, Whole, Judged, job, ring, flags,
    DownloadThread, PrepareDevice, PushQueue, PushGivesUp, ProducerStalls,
    DeleteDownloadedFile, OnDownloadError, JoinExtractThread, AnnounceDownload
<1>3. CASE ExtractThread
  <2>1. CASE AcquireWriteSlot
    BY <2>1 DEF IInv, Threads, Reasons, Ends, Whole, Judged, job, ring, flags,
      AcquireWriteSlot
  <2>2. CASE ReadChunk
    <3>1. extract' = "write"
      BY <2>2 DEF ReadChunk
    <3> QED
      BY <3>1 DEF Ends, Judged
  <2>3. CASE ReadEnds
    <3>1. /\ extract' \in {"throw", "drain"} /\ cancelled' = cancelled
          /\ extract' = "drain" => decoded # <<>>
          /\ UNCHANGED <<imageChunks, ringDone, decoded, received>>
      BY <2>3 DEF ReadEnds, job, ring, flags
    <3>2. ASSUME extract' = "drain", ~cancelled
          PROVE  Whole
      <4>1. CASE ArchiveEnds
        BY <4>1, <3>1, <3>2 DEF ArchiveEnds, Whole
      <4>2. CASE ringDone /\ queue = <<>> /\ ~ringStalled
        <5>1. ~Lost /\ InHand = 0
          BY <3>2, <4>2 DEF IInv, Reasons, Flags, Threads, Lost, InHand
        <5>2. Len(decoded) + Len(queue) + 0 = received
          BY <5>1 DEF IInv, Stream
        <5>3. Len(decoded) = received
          BY <4>2, <5>2, Sizes DEF IInv
        <5> QED
          BY <3>1, <3>2, <4>2, <5>3 DEF Whole
      <4> QED
        BY <2>3, <3>2, <4>1, <4>2 DEF ReadEnds, IInv, Reasons, Flags
    <3> QED
      BY <3>1, <3>2 DEF Ends, Whole, Judged
  <2>4. CASE ConsumerStalls
    BY <2>4 DEF IInv, Threads, Reasons, Ends, Whole, Judged, job, ring, flags,
      ConsumerStalls
  <2>5. CASE ReadThrows
    BY <2>5 DEF IInv, Threads, Reasons, Ends, Whole, Judged, job, ring, flags,
      ReadThrows
  <2>6. CASE WriteFile
    BY <2>6 DEF IInv, Threads, Reasons, Ends, Whole, Judged, job, ring, flags,
      WriteFile
  <2>7. CASE WriteFileFails
    BY <2>7 DEF IInv, Threads, Reasons, Ends, Whole, Judged, job, ring, flags,
      WriteFileFails
  <2>8. CASE OnWriteError
    BY <2>8 DEF IInv, Threads, Reasons, Ends, Whole, Judged, job, ring, flags,
      OnWriteError, Fail
  <2>9. CASE Catch
    BY <2>9 DEF IInv, Threads, Reasons, Ends, Whole, Judged, job, ring, flags,
      Catch
  <2>10. CASE Drain
    BY <2>10 DEF IInv, Threads, Reasons, Ends, Whole, Judged, job, ring, flags,
      Drain, FailsQuietlyAt, Proceed
  <2>11. CASE CheckCancelled
    BY <2>11 DEF IInv, Threads, Reasons, Ends, Whole, Judged, job, ring, flags,
      CheckCancelled, Proceed
  <2>12. CASE CheckHash
    BY <2>12 DEF IInv, Threads, Reasons, Ends, Whole, Judged, job, ring, flags,
      CheckHash, FailsAt, Fail, Proceed
  <2>13. CASE FlushAndSync
    BY <2>13 DEF IInv, Threads, Reasons, Ends, Whole, Judged, job, ring, flags,
      FlushAndSync, OnDevice, FailsAt, Fail
  <2>14. CASE Verify
    BY <2>14 DEF IInv, Threads, Reasons, Ends, Whole, Judged, job, ring, flags,
      Verify, Proceed, FailsAt, Fail
  <2>15. CASE CustomizeImage
    BY <2>15 DEF IInv, Threads, Reasons, Ends, Whole, Judged, job, ring, flags,
      CustomizeImage, OnDevice
  <2>16. CASE CustomizeFails
    BY <2>16 DEF IInv, Threads, Reasons, Ends, Whole, Judged, job, ring, flags,
      CustomizeFails
  <2>17. CASE FlushBeforeTable
    BY <2>17 DEF IInv, Threads, Reasons, Ends, Whole, Judged, job, ring, flags,
      FlushBeforeTable, OnDevice, FailsAt, Fail
  <2>18. CASE WriteTable
    BY <2>18 DEF IInv, Threads, Reasons, Ends, Whole, Judged, job, ring, flags,
      WriteTable, OnDevice, FailsAt, Fail
  <2>19. CASE FinalSync
    BY <2>19 DEF IInv, Threads, Reasons, Ends, Whole, Judged, job, ring, flags,
      FinalSync, OnDevice, FailsAt, Fail
  <2>20. CASE RecheckCancelled
    BY <2>20 DEF IInv, Threads, Reasons, Ends, Whole, Judged, job, ring, flags,
      RecheckCancelled, Proceed
  <2>21. CASE AnnounceWrite
    BY <2>21 DEF IInv, Threads, Reasons, Ends, Whole, Judged, job, ring, flags,
      AnnounceWrite
  <2> QED
    BY <1>3, <2>1, <2>2, <2>3, <2>4, <2>5, <2>6, <2>7, <2>8, <2>9, <2>10,
      <2>11, <2>12, <2>13, <2>14, <2>15, <2>16, <2>17, <2>18, <2>19, <2>20,
      <2>21 DEF ExtractThread
<1>4. CASE Device
  BY <1>4 DEF IInv, Threads, Reasons, Ends, Whole, Judged, job, ring, flags,
    Device, WriteCompletes
<1>5. CASE DeviceLies
  BY <1>5 DEF IInv, Threads, Reasons, Ends, Whole, Judged, job, ring, flags,
    DeviceLies
<1>6. CASE MainThread
  BY <1>6 DEF IInv, Threads, Reasons, Ends, Whole, Judged, job, ring, flags,
    MainThread, CancelDownload, SkipCurrentVerification
<1>7. CASE Ended
  BY <1>7 DEF IInv, Threads, Reasons, Ends, Whole, Judged, job, ring, flags,
    Ended, vars
<1> QED
  BY <1>1, <1>2, <1>3, <1>4, <1>5, <1>6, <1>7 DEF Next

(* The hash that was asked for. *)
LEMMA KeepsRightHash ==
  ASSUME IInv, Next
  PROVE  RightHash'
<1>1. CASE Network
  BY <1>1 DEF IInv, RightHash, Judged, Hashed, job, Network, WriteData,
    TransferSucceeds, TransferFails
<1>2. CASE DownloadThread
  BY <1>2 DEF IInv, RightHash, Judged, Hashed, job, DownloadThread,
    PrepareDevice, PushQueue, PushGivesUp, ProducerStalls,
    DeleteDownloadedFile, OnDownloadError, JoinExtractThread, AnnounceDownload
<1>3. CASE ExtractThread
  <2>1. CASE AcquireWriteSlot
    BY <2>1 DEF IInv, RightHash, Judged, Hashed, job, AcquireWriteSlot
  <2>2. CASE ReadChunk
    <3>1. extract' = "write"
      BY <2>2 DEF ReadChunk
    <3> QED
      BY <3>1 DEF RightHash, Judged, Hashed
  <2>3. CASE ReadEnds
    BY <2>3 DEF IInv, RightHash, Judged, Hashed, job, ReadEnds
  <2>4. CASE ConsumerStalls
    BY <2>4 DEF IInv, RightHash, Judged, Hashed, job, ConsumerStalls
  <2>5. CASE ReadThrows
    BY <2>5 DEF IInv, RightHash, Judged, Hashed, job, ReadThrows
  <2>6. CASE WriteFile
    BY <2>6 DEF IInv, RightHash, Judged, Hashed, job, WriteFile
  <2>7. CASE WriteFileFails
    BY <2>7 DEF IInv, RightHash, Judged, Hashed, job, WriteFileFails
  <2>8. CASE OnWriteError
    BY <2>8 DEF IInv, RightHash, Judged, Hashed, job, OnWriteError, Fail
  <2>9. CASE Catch
    BY <2>9 DEF IInv, RightHash, Judged, Hashed, job, Catch
  <2>10. CASE Drain
    BY <2>10 DEF IInv, RightHash, Judged, Hashed, job, Drain, FailsQuietlyAt,
      Proceed
  <2>11. CASE CheckCancelled
    BY <2>11 DEF IInv, RightHash, Judged, Hashed, job, CheckCancelled, Proceed
  <2>12. CASE CheckHash
    <3>1. /\ UNCHANGED <<decoded, imageChunks>>
          /\ \/ extract' = "ended"
             \/ ~HashKnown
             \/ decoded = [i \in 1 .. imageChunks |-> i]
      BY <2>12 DEF CheckHash, FailsAt, Fail, Proceed, job
    <3>2. /\ imageChunks \in Nat
          /\ decoded = [i \in 1 .. imageChunks |-> i] =>
               Len(decoded) = imageChunks
      BY InOrder, Sizes DEF IInv
    <3> QED
      BY <3>1, <3>2 DEF RightHash, Judged, Hashed
  <2>13. CASE FlushAndSync
    BY <2>13 DEF IInv, RightHash, Judged, Hashed, job, FlushAndSync, OnDevice,
      FailsAt, Fail
  <2>14. CASE Verify
    BY <2>14 DEF IInv, RightHash, Judged, Hashed, job, Verify, Proceed,
      FailsAt, Fail
  <2>15. CASE CustomizeImage
    BY <2>15 DEF IInv, RightHash, Judged, Hashed, job, CustomizeImage, OnDevice
  <2>16. CASE CustomizeFails
    BY <2>16 DEF IInv, RightHash, Judged, Hashed, job, CustomizeFails
  <2>17. CASE FlushBeforeTable
    BY <2>17 DEF IInv, RightHash, Judged, Hashed, job, FlushBeforeTable,
      OnDevice, FailsAt, Fail
  <2>18. CASE WriteTable
    BY <2>18 DEF IInv, RightHash, Judged, Hashed, job, WriteTable, OnDevice,
      FailsAt, Fail
  <2>19. CASE FinalSync
    BY <2>19 DEF IInv, RightHash, Judged, Hashed, job, FinalSync, OnDevice,
      FailsAt, Fail
  <2>20. CASE RecheckCancelled
    BY <2>20 DEF IInv, RightHash, Judged, Hashed, job, RecheckCancelled,
      Proceed
  <2>21. CASE AnnounceWrite
    BY <2>21 DEF IInv, RightHash, Judged, Hashed, job, AnnounceWrite
  <2> QED
    BY <1>3, <2>1, <2>2, <2>3, <2>4, <2>5, <2>6, <2>7, <2>8, <2>9, <2>10,
      <2>11, <2>12, <2>13, <2>14, <2>15, <2>16, <2>17, <2>18, <2>19, <2>20,
      <2>21 DEF ExtractThread
<1>4. CASE Device
  BY <1>4 DEF IInv, RightHash, Judged, Hashed, job, Device, WriteCompletes
<1>5. CASE DeviceLies
  BY <1>5 DEF IInv, RightHash, Judged, Hashed, job, DeviceLies
<1>6. CASE MainThread
  BY <1>6 DEF IInv, RightHash, Judged, Hashed, job, MainThread, CancelDownload,
    SkipCurrentVerification
<1>7. CASE Ended
  BY <1>7 DEF IInv, RightHash, Judged, Hashed, job, Ended, vars
<1> QED
  BY <1>1, <1>2, <1>3, <1>4, <1>5, <1>6, <1>7 DEF Next

(* What is queued and what is written. *)
LEMMA KeepsBlocks ==
  ASSUME IInv, Next
  PROVE  Blocks'
<1>1. CASE Network
  <2>1. CASE WriteData
    BY <2>1, Sizes DEF IInv, Typed, Flags, Blocks, Taken, Judged, Drained,
      Customised, Tabled, Mark, Settings, device, job, flags, WriteData
  <2>2. CASE TransferSucceeds
    BY <2>2, Sizes DEF IInv, Typed, Flags, Blocks, Taken, Judged, Drained,
      Customised, Tabled, Mark, Settings, device, job, flags, TransferSucceeds
  <2>3. CASE TransferFails
    BY <2>3, Sizes DEF IInv, Typed, Flags, Blocks, Taken, Judged, Drained,
      Customised, Tabled, Mark, Settings, device, job, flags, TransferFails
  <2> QED
    BY <1>1, <2>1, <2>2, <2>3 DEF Network
<1>2. CASE DownloadThread
  <2>1. CASE PrepareDevice
    BY <2>1, Sizes DEF IInv, Typed, Flags, Blocks, Taken, Judged, Drained,
      Customised, Tabled, Mark, Settings, device, job, flags, PrepareDevice
  <2>2. CASE PushQueue
    BY <2>2, Sizes DEF IInv, Typed, Flags, Blocks, Taken, Judged, Drained,
      Customised, Tabled, Mark, Settings, device, job, flags, PushQueue
  <2>3. CASE PushGivesUp
    BY <2>3, Sizes DEF IInv, Typed, Flags, Blocks, Taken, Judged, Drained,
      Customised, Tabled, Mark, Settings, device, job, flags, PushGivesUp
  <2>4. CASE ProducerStalls
    BY <2>4, Sizes DEF IInv, Typed, Flags, Blocks, Taken, Judged, Drained,
      Customised, Tabled, Mark, Settings, device, job, flags, ProducerStalls
  <2>5. CASE DeleteDownloadedFile
    BY <2>5, Sizes DEF IInv, Typed, Flags, Blocks, Taken, Judged, Drained,
      Customised, Tabled, Mark, Settings, device, job, flags,
      DeleteDownloadedFile
  <2>6. CASE OnDownloadError
    BY <2>6, Sizes DEF IInv, Typed, Flags, Blocks, Taken, Judged, Drained,
      Customised, Tabled, Mark, Settings, device, job, flags, OnDownloadError
  <2>7. CASE JoinExtractThread
    BY <2>7, Sizes DEF IInv, Typed, Flags, Blocks, Taken, Judged, Drained,
      Customised, Tabled, Mark, Settings, device, job, flags, JoinExtractThread
  <2>8. CASE AnnounceDownload
    BY <2>8, Sizes DEF IInv, Typed, Flags, Blocks, Taken, Judged, Drained,
      Customised, Tabled, Mark, Settings, device, job, flags, AnnounceDownload
  <2> QED
    BY <1>2, <2>1, <2>2, <2>3, <2>4, <2>5, <2>6, <2>7, <2>8 DEF DownloadThread
<1>3. CASE ExtractThread
  <2>1. CASE AcquireWriteSlot
    BY <2>1, Sizes DEF IInv, Typed, Flags, Blocks, Taken, Judged, Drained,
      Customised, Tabled, Mark, Settings, device, job, flags, AcquireWriteSlot
  <2>2. CASE ReadChunk
    <3>1. Taken' = Taken /\ Len(decoded) \in Nat
      BY <2>2, ReadDoes, Sizes DEF ReadChunk, IInv, Taken
    <3>2. /\ UNCHANGED <<inFlight, written, asyncError, cancelled>>
          /\ extract = "read" /\ extract' = "write"
      BY <2>2 DEF ReadChunk, device, flags
    <3> QED
      BY <3>1, <3>2 DEF IInv, Blocks, Judged, Drained, Customised, Tabled
  <2>3. CASE ReadEnds
    BY <2>3, Sizes DEF IInv, Typed, Flags, Blocks, Taken, Judged, Drained,
      Customised, Tabled, Mark, Settings, device, job, flags, ReadEnds
  <2>4. CASE ConsumerStalls
    BY <2>4, Sizes DEF IInv, Typed, Flags, Blocks, Taken, Judged, Drained,
      Customised, Tabled, Mark, Settings, device, job, flags, ConsumerStalls
  <2>5. CASE ReadThrows
    BY <2>5, Sizes DEF IInv, Typed, Flags, Blocks, Taken, Judged, Drained,
      Customised, Tabled, Mark, Settings, device, job, flags, ReadThrows
  <2>6. CASE WriteFile
    <3>1. /\ extract = "write" /\ extract' = "slot"
          /\ UNCHANGED <<decoded, written, asyncError, cancelled>>
          /\ inFlight' = IF cancelled \/ Len(decoded) = 1
                           THEN inFlight ELSE inFlight \cup {Len(decoded)}
      BY <2>6 DEF WriteFile, flags
    <3>2. Len(decoded) \in Nat /\ Len(decoded) > 0
      BY <3>1, Sizes DEF IInv, Threads
    <3>3. Taken = Len(decoded) - 1 /\ Taken' = Len(decoded)
      BY <3>1 DEF Taken
    <3>4. /\ 2 .. Taken \subseteq 2 .. Taken'
          /\ 2 .. Taken' \subseteq 2 .. Taken \cup {Len(decoded)}
          /\ Len(decoded) = 1 => 2 .. Taken' = {}
          /\ Len(decoded) # 1 => Len(decoded) \in 2 .. Taken'
      BY <3>2, <3>3
    <3>5. /\ inFlight \subseteq 2 .. Taken /\ written \subseteq 2 .. Taken
          /\ ~cancelled /\ ~asyncError =>
               2 .. Taken \subseteq written \cup inFlight
      BY <3>1 DEF IInv, Blocks, Customised
    <3>6. /\ inFlight' \subseteq 2 .. Taken' /\ written' \subseteq 2 .. Taken'
          /\ ~cancelled /\ ~asyncError =>
               2 .. Taken' \subseteq written' \cup inFlight'
      BY <3>1, <3>4, <3>5
    <3> QED
      BY <3>1, <3>6 DEF Blocks, Judged, Drained, Customised, Tabled
  <2>7. CASE WriteFileFails
    BY <2>7, Sizes DEF IInv, Typed, Flags, Blocks, Taken, Judged, Drained,
      Customised, Tabled, Mark, Settings, device, job, flags, WriteFileFails
  <2>8. CASE OnWriteError
    BY <2>8, Sizes DEF IInv, Typed, Flags, Blocks, Taken, Judged, Drained,
      Customised, Tabled, Mark, Settings, device, job, flags, OnWriteError,
      Fail
  <2>9. CASE Catch
    BY <2>9, Sizes DEF IInv, Typed, Flags, Blocks, Taken, Judged, Drained,
      Customised, Tabled, Mark, Settings, device, job, flags, Catch
  <2>10. CASE Drain
    BY <2>10, Sizes DEF IInv, Typed, Flags, Blocks, Taken, Judged, Drained,
      Customised, Tabled, Mark, Settings, device, job, flags, Drain,
      FailsQuietlyAt, Proceed
  <2>11. CASE CheckCancelled
    BY <2>11, Sizes DEF IInv, Typed, Flags, Blocks, Taken, Judged, Drained,
      Customised, Tabled, Mark, Settings, device, job, flags, CheckCancelled,
      Proceed
  <2>12. CASE CheckHash
    BY <2>12, Sizes DEF IInv, Typed, Flags, Blocks, Taken, Judged, Drained,
      Customised, Tabled, Mark, Settings, device, job, flags, CheckHash,
      FailsAt, Fail, Proceed
  <2>13. CASE FlushAndSync
    <3>1. /\ extract = "flush" /\ extract' \in {"ended", "verify"}
          /\ UNCHANGED <<decoded, inFlight, asyncError, customise>>
          /\ extract' # "ended" => written' = written
      BY <2>13 DEF FlushAndSync, OnDevice, FailsAt, Fail, job, device
    <3>2. /\ inFlight = {} /\ ~asyncError
          /\ written \subseteq 2 .. Len(decoded)
          /\ 2 .. Len(decoded) \subseteq written
      BY <3>1 DEF IInv, Blocks, Taken, Judged, Drained, Customised, Tabled
    <3>3. Taken' = Len(decoded) /\ Mark' = Mark
      BY <3>1 DEF Taken, Mark
    <3> QED
      BY <3>1, <3>2, <3>3 DEF Blocks, Judged, Drained, Customised, Tabled
  <2>14. CASE Verify
    <3>1. /\ extract = "verify"
          /\ extract' \in {"ended", "customise", "beforeTable"}
          /\ UNCHANGED <<decoded, inFlight, asyncError, customise>>
          /\ extract' # "ended" => 
               /\ written' = written
               /\ extract' = "beforeTable" => ~customise
      BY <2>14 DEF Verify, Proceed, FailsAt, Fail, job, device
    <3>2. /\ inFlight = {} /\ ~asyncError
          /\ written \subseteq 2 .. Len(decoded)
          /\ 2 .. Len(decoded) \subseteq written
      BY <3>1 DEF IInv, Blocks, Taken, Judged, Drained, Customised, Tabled
    <3>3. Taken' = Len(decoded) /\ Mark' = Mark
      BY <3>1 DEF Taken, Mark
    <3>4. extract' = "beforeTable" => Mark = {}
      BY <3>1 DEF Mark
    <3> QED
      BY <3>1, <3>2, <3>3, <3>4 DEF Blocks, Judged, Drained, Customised, Tabled
  <2>15. CASE CustomizeImage
    <3>1. /\ extract = "customise" /\ extract' \in {"ended", "beforeTable"}
          /\ UNCHANGED <<decoded, inFlight, asyncError, customise>>
          /\ extract' # "ended" => written' = written \cup {Settings}
      BY <2>15 DEF CustomizeImage, OnDevice, job, device
    <3>2. /\ inFlight = {} /\ ~asyncError
          /\ written \subseteq 2 .. Len(decoded)
          /\ 2 .. Len(decoded) \subseteq written
      BY <3>1 DEF IInv, Blocks, Taken, Judged, Drained, Customised, Tabled
    <3>3. Taken' = Len(decoded) /\ Mark' = Mark
      BY <3>1 DEF Taken, Mark
    <3>4. Mark = {Settings}
      BY <3>1 DEF IInv, Flushed, Mark
    <3> QED
      BY <3>1, <3>2, <3>3, <3>4 DEF Blocks, Judged, Drained, Customised, Tabled
  <2>16. CASE CustomizeFails
    BY <2>16, Sizes DEF IInv, Typed, Flags, Blocks, Taken, Judged, Drained,
      Customised, Tabled, Mark, Settings, device, job, flags, CustomizeFails
  <2>17. CASE FlushBeforeTable
    <3>1. /\ extract = "beforeTable" /\ extract' \in {"ended", "table"}
          /\ UNCHANGED <<decoded, inFlight, asyncError, customise>>
          /\ extract' # "ended" => written' = written
      BY <2>17 DEF FlushBeforeTable, OnDevice, FailsAt, Fail, job, device
    <3>2. /\ inFlight = {} /\ ~asyncError
          /\ written = 2 .. Len(decoded) \cup Mark
          /\ 2 .. Len(decoded) \subseteq written
      BY <3>1 DEF IInv, Blocks, Taken, Judged, Drained, Customised, Tabled
    <3>3. Taken' = Len(decoded) /\ Mark' = Mark
      BY <3>1 DEF Taken, Mark
    <3> QED
      BY <3>1, <3>2, <3>3 DEF Blocks, Judged, Drained, Customised, Tabled
  <2>18. CASE WriteTable
    <3>1. /\ extract = "table" /\ extract' \in {"ended", "sync"}
          /\ UNCHANGED <<decoded, inFlight, asyncError, customise>>
          /\ extract' # "ended" => written' = written \cup {1}
      BY <2>18 DEF WriteTable, OnDevice, FailsAt, Fail, job, device
    <3>2. /\ inFlight = {} /\ ~asyncError
          /\ written = 2 .. Len(decoded) \cup Mark
          /\ 2 .. Len(decoded) \subseteq written
      BY <3>1 DEF IInv, Blocks, Taken, Judged, Drained, Customised, Tabled
    <3>3. Taken' = Len(decoded) /\ Mark' = Mark
      BY <3>1 DEF Taken, Mark
    <3>4. 1 .. Len(decoded) = {1} \cup 2 .. Len(decoded)
      BY <3>1, FirstAndOthers DEF IInv, Ends, Whole, Judged
    <3> QED
      BY <3>1, <3>2, <3>3, <3>4 DEF Blocks, Judged, Drained, Customised, Tabled
  <2>19. CASE FinalSync
    <3>1. /\ extract = "sync" /\ extract' \in {"ended", "recheck"}
          /\ UNCHANGED <<decoded, inFlight, asyncError, customise>>
          /\ extract' # "ended" => written' = written
      BY <2>19 DEF FinalSync, OnDevice, FailsAt, Fail, job, device
    <3>2. /\ inFlight = {} /\ ~asyncError
          /\ written = 1 .. Len(decoded) \cup Mark
          /\ 2 .. Len(decoded) \subseteq written
      BY <3>1 DEF IInv, Blocks, Taken, Judged, Drained, Customised, Tabled
    <3>3. Taken' = Len(decoded) /\ Mark' = Mark
      BY <3>1 DEF Taken, Mark
    <3> QED
      BY <3>1, <3>2, <3>3 DEF Blocks, Judged, Drained, Customised, Tabled
  <2>20. CASE RecheckCancelled
    BY <2>20, Sizes DEF IInv, Typed, Flags, Blocks, Taken, Judged, Drained,
      Customised, Tabled, Mark, Settings, device, job, flags, RecheckCancelled,
      Proceed
  <2>21. CASE AnnounceWrite
    BY <2>21, Sizes DEF IInv, Typed, Flags, Blocks, Taken, Judged, Drained,
      Customised, Tabled, Mark, Settings, device, job, flags, AnnounceWrite
  <2> QED
    BY <1>3, <2>1, <2>2, <2>3, <2>4, <2>5, <2>6, <2>7, <2>8, <2>9, <2>10,
      <2>11, <2>12, <2>13, <2>14, <2>15, <2>16, <2>17, <2>18, <2>19, <2>20,
      <2>21 DEF ExtractThread
<1>4. CASE Device
  BY <1>4, Sizes DEF IInv, Typed, Flags, Blocks, Taken, Judged, Drained,
    Customised, Tabled, Mark, Settings, device, job, flags, Device,
    WriteCompletes
<1>5. CASE DeviceLies
  BY <1>5, Sizes DEF IInv, Typed, Flags, Blocks, Taken, Judged, Drained,
    Customised, Tabled, Mark, Settings, device, job, flags, DeviceLies
<1>6. CASE MainThread
  <2>1. CASE CancelDownload
    BY <2>1, Sizes DEF IInv, Typed, Flags, Blocks, Taken, Judged, Drained,
      Customised, Tabled, Mark, Settings, device, job, flags, CancelDownload
  <2>2. CASE SkipCurrentVerification
    BY <2>2, Sizes DEF IInv, Typed, Flags, Blocks, Taken, Judged, Drained,
      Customised, Tabled, Mark, Settings, device, job, flags,
      SkipCurrentVerification
  <2> QED
    BY <1>6, <2>1, <2>2 DEF MainThread
<1>7. CASE Ended
  BY <1>7, Sizes DEF IInv, Typed, Flags, Blocks, Taken, Judged, Drained,
    Customised, Tabled, Mark, Settings, device, job, flags, Ended, vars
<1> QED
  BY <1>1, <1>2, <1>3, <1>4, <1>5, <1>6, <1>7 DEF Next

(* What is durable. *)
LEMMA KeepsFlushed ==
  ASSUME IInv, Next
  PROVE  Flushed'
<1>1. CASE Network
  <2>1. CASE WriteData
    BY <2>1, Sizes DEF IInv, Blocks, Taken, Flushed, Judged, Drained,
      Customised, Tabled, Mark, Settings, device, job, WriteData
  <2>2. CASE TransferSucceeds
    BY <2>2, Sizes DEF IInv, Blocks, Taken, Flushed, Judged, Drained,
      Customised, Tabled, Mark, Settings, device, job, TransferSucceeds
  <2>3. CASE TransferFails
    BY <2>3, Sizes DEF IInv, Blocks, Taken, Flushed, Judged, Drained,
      Customised, Tabled, Mark, Settings, device, job, TransferFails
  <2> QED
    BY <1>1, <2>1, <2>2, <2>3 DEF Network
<1>2. CASE DownloadThread
  <2>1. CASE PrepareDevice
    BY <2>1, Sizes DEF IInv, Blocks, Taken, Flushed, Judged, Drained,
      Customised, Tabled, Mark, Settings, device, job, PrepareDevice
  <2>2. CASE PushQueue
    BY <2>2, Sizes DEF IInv, Blocks, Taken, Flushed, Judged, Drained,
      Customised, Tabled, Mark, Settings, device, job, PushQueue
  <2>3. CASE PushGivesUp
    BY <2>3, Sizes DEF IInv, Blocks, Taken, Flushed, Judged, Drained,
      Customised, Tabled, Mark, Settings, device, job, PushGivesUp
  <2>4. CASE ProducerStalls
    BY <2>4, Sizes DEF IInv, Blocks, Taken, Flushed, Judged, Drained,
      Customised, Tabled, Mark, Settings, device, job, ProducerStalls
  <2>5. CASE DeleteDownloadedFile
    BY <2>5, Sizes DEF IInv, Blocks, Taken, Flushed, Judged, Drained,
      Customised, Tabled, Mark, Settings, device, job, DeleteDownloadedFile
  <2>6. CASE OnDownloadError
    BY <2>6, Sizes DEF IInv, Blocks, Taken, Flushed, Judged, Drained,
      Customised, Tabled, Mark, Settings, device, job, OnDownloadError
  <2>7. CASE JoinExtractThread
    BY <2>7, Sizes DEF IInv, Blocks, Taken, Flushed, Judged, Drained,
      Customised, Tabled, Mark, Settings, device, job, JoinExtractThread
  <2>8. CASE AnnounceDownload
    BY <2>8, Sizes DEF IInv, Blocks, Taken, Flushed, Judged, Drained,
      Customised, Tabled, Mark, Settings, device, job, AnnounceDownload
  <2> QED
    BY <1>2, <2>1, <2>2, <2>3, <2>4, <2>5, <2>6, <2>7, <2>8 DEF DownloadThread
<1>3. CASE ExtractThread
  <2>1. CASE AcquireWriteSlot
    BY <2>1, Sizes DEF IInv, Blocks, Taken, Flushed, Judged, Drained,
      Customised, Tabled, Mark, Settings, device, job, AcquireWriteSlot
  <2>2. CASE ReadChunk
    <3>1. Len(decoded') = Len(decoded) + 1 /\ Len(decoded) \in Nat
      BY <2>2, ReadDoes, Sizes DEF IInv
    <3>2. /\ UNCHANGED <<durable, written>>
          /\ extract' = "write"
      BY <2>2 DEF ReadChunk, device
    <3> QED
      BY <3>1, <3>2 DEF IInv, Flushed
  <2>3. CASE ReadEnds
    BY <2>3, Sizes DEF IInv, Blocks, Taken, Flushed, Judged, Drained,
      Customised, Tabled, Mark, Settings, device, job, ReadEnds
  <2>4. CASE ConsumerStalls
    BY <2>4, Sizes DEF IInv, Blocks, Taken, Flushed, Judged, Drained,
      Customised, Tabled, Mark, Settings, device, job, ConsumerStalls
  <2>5. CASE ReadThrows
    BY <2>5, Sizes DEF IInv, Blocks, Taken, Flushed, Judged, Drained,
      Customised, Tabled, Mark, Settings, device, job, ReadThrows
  <2>6. CASE WriteFile
    BY <2>6, Sizes DEF IInv, Blocks, Taken, Flushed, Judged, Drained,
      Customised, Tabled, Mark, Settings, device, job, WriteFile
  <2>7. CASE WriteFileFails
    BY <2>7, Sizes DEF IInv, Blocks, Taken, Flushed, Judged, Drained,
      Customised, Tabled, Mark, Settings, device, job, WriteFileFails
  <2>8. CASE OnWriteError
    BY <2>8, Sizes DEF IInv, Blocks, Taken, Flushed, Judged, Drained,
      Customised, Tabled, Mark, Settings, device, job, OnWriteError, Fail
  <2>9. CASE Catch
    BY <2>9, Sizes DEF IInv, Blocks, Taken, Flushed, Judged, Drained,
      Customised, Tabled, Mark, Settings, device, job, Catch
  <2>10. CASE Drain
    BY <2>10, Sizes DEF IInv, Blocks, Taken, Flushed, Judged, Drained,
      Customised, Tabled, Mark, Settings, device, job, Drain, FailsQuietlyAt,
      Proceed
  <2>11. CASE CheckCancelled
    BY <2>11, Sizes DEF IInv, Blocks, Taken, Flushed, Judged, Drained,
      Customised, Tabled, Mark, Settings, device, job, CheckCancelled, Proceed
  <2>12. CASE CheckHash
    BY <2>12, Sizes DEF IInv, Blocks, Taken, Flushed, Judged, Drained,
      Customised, Tabled, Mark, Settings, device, job, CheckHash, FailsAt,
      Fail, Proceed
  <2>13. CASE FlushAndSync
    BY <2>13, Sizes DEF IInv, Blocks, Taken, Flushed, Judged, Drained,
      Customised, Tabled, Mark, Settings, device, job, FlushAndSync, OnDevice,
      FailsAt, Fail
  <2>14. CASE Verify
    BY <2>14, Sizes DEF IInv, Blocks, Taken, Flushed, Judged, Drained,
      Customised, Tabled, Mark, Settings, device, job, Verify, Proceed,
      FailsAt, Fail
  <2>15. CASE CustomizeImage
    BY <2>15, Sizes DEF IInv, Blocks, Taken, Flushed, Judged, Drained,
      Customised, Tabled, Mark, Settings, device, job, CustomizeImage, OnDevice
  <2>16. CASE CustomizeFails
    <3>1. /\ extract \in {"customise", "beforeTable", "table", "sync"}
          /\ extract' = "ended" /\ decoded' = decoded
          /\ \/ written' = written /\ durable' = durable
             \/ written' = written \cup {1} /\ durable' = written
      BY <2>16 DEF CustomizeFails
    <3>2. durable \subseteq written /\ written \subseteq 0 .. Len(decoded)
      BY DEF IInv, Flushed
    <3>3. 1 \in 0 .. Len(decoded)
      BY <3>1, Sizes DEF IInv, Ends, Whole, Judged
    <3>4. durable' \subseteq written' /\ written' \subseteq 0 .. Len(decoded')
      BY <3>1, <3>2, <3>3
    <3> QED
      BY <3>1, <3>4 DEF Flushed
  <2>17. CASE FlushBeforeTable
    BY <2>17, Sizes DEF IInv, Blocks, Taken, Flushed, Judged, Drained,
      Customised, Tabled, Mark, Settings, device, job, FlushBeforeTable,
      OnDevice, FailsAt, Fail
  <2>18. CASE WriteTable
    <3>1. /\ extract = "table" /\ extract' \in {"ended", "sync"}
          /\ UNCHANGED <<decoded, customise>>
          /\ extract' = "ended" => written' = written /\ durable' = durable
          /\ extract' = "sync" =>
               written' = written \cup {1} /\ durable' = durable
      BY <2>18 DEF WriteTable, OnDevice, FailsAt, Fail, job
    <3>2. /\ durable \subseteq written /\ written \subseteq 0 .. Len(decoded)
          /\ durable = written
      BY <3>1 DEF IInv, Flushed
    <3>3. written = 2 .. Len(decoded) \cup Mark /\ Mark' = Mark
      BY <3>1 DEF IInv, Blocks, Mark
    <3>4. 1 \in 0 .. Len(decoded)
      BY <3>1, Sizes DEF IInv, Ends, Whole, Judged
    <3>5. durable' \subseteq written' /\ written' \subseteq 0 .. Len(decoded')
      BY <3>1, <3>2, <3>4
    <3>6. durable' = 2 .. Len(decoded') \cup Mark'
      BY <3>1, <3>2, <3>3
    <3> QED
      BY <3>1, <3>5, <3>6 DEF Flushed
  <2>19. CASE FinalSync
    BY <2>19, Sizes DEF IInv, Blocks, Taken, Flushed, Judged, Drained,
      Customised, Tabled, Mark, Settings, device, job, FinalSync, OnDevice,
      FailsAt, Fail
  <2>20. CASE RecheckCancelled
    BY <2>20, Sizes DEF IInv, Blocks, Taken, Flushed, Judged, Drained,
      Customised, Tabled, Mark, Settings, device, job, RecheckCancelled,
      Proceed
  <2>21. CASE AnnounceWrite
    BY <2>21, Sizes DEF IInv, Blocks, Taken, Flushed, Judged, Drained,
      Customised, Tabled, Mark, Settings, device, job, AnnounceWrite
  <2> QED
    BY <1>3, <2>1, <2>2, <2>3, <2>4, <2>5, <2>6, <2>7, <2>8, <2>9, <2>10,
      <2>11, <2>12, <2>13, <2>14, <2>15, <2>16, <2>17, <2>18, <2>19, <2>20,
      <2>21 DEF ExtractThread
<1>4. CASE Device
  <2>1. ASSUME NEW place \in Places, WriteCompletes(place)
        PROVE  Flushed'
    <3>1. /\ UNCHANGED <<decoded, extract, durable, customise>>
          /\ place \in inFlight /\ written \subseteq written'
          /\ written' \subseteq written \cup {place}
      BY <2>1 DEF WriteCompletes, job
    <3>2. place \in 2 .. Len(decoded)
      <4>1. place \in 2 .. Taken /\ Len(decoded) \in Nat
        BY <3>1, Sizes DEF IInv, Blocks
      <4> QED
        BY <4>1 DEF Taken
    <3>3. extract \notin Drained
      BY <3>1 DEF IInv, Blocks
    <3>4. Len(decoded) \in Nat
      BY Sizes DEF IInv
    <3>5. durable' \subseteq written' /\ written' \subseteq 0 .. Len(decoded')
      BY <3>1, <3>2, <3>4 DEF IInv, Flushed
    <3> QED
      BY <3>1, <3>3, <3>5 DEF Flushed, Drained, Judged
  <2> QED
    BY <1>4, <2>1 DEF Device
<1>5. CASE DeviceLies
  BY <1>5, Sizes DEF IInv, Blocks, Taken, Flushed, Judged, Drained, Customised,
    Tabled, Mark, Settings, device, job, DeviceLies
<1>6. CASE MainThread
  <2>1. CASE CancelDownload
    BY <2>1, Sizes DEF IInv, Blocks, Taken, Flushed, Judged, Drained,
      Customised, Tabled, Mark, Settings, device, job, CancelDownload
  <2>2. CASE SkipCurrentVerification
    BY <2>2, Sizes DEF IInv, Blocks, Taken, Flushed, Judged, Drained,
      Customised, Tabled, Mark, Settings, device, job, SkipCurrentVerification
  <2> QED
    BY <1>6, <2>1, <2>2 DEF MainThread
<1>7. CASE Ended
  BY <1>7, Sizes DEF IInv, Blocks, Taken, Flushed, Judged, Drained, Customised,
    Tabled, Mark, Settings, device, job, Ended, vars
<1> QED
  BY <1>1, <1>2, <1>3, <1>4, <1>5, <1>6, <1>7 DEF Next

(* A medium that lies is found out. *)
LEMMA KeepsVerified ==
  ASSUME IInv, Next
  PROVE  Verified'
<1>1. CASE Network
  BY <1>1 DEF IInv, Flags, Reasons, Verified, Customised, flags, device,
    Network, WriteData, TransferSucceeds, TransferFails
<1>2. CASE DownloadThread
  BY <1>2 DEF IInv, Flags, Reasons, Verified, Customised, flags, device,
    DownloadThread, PrepareDevice, PushQueue, PushGivesUp, ProducerStalls,
    DeleteDownloadedFile, OnDownloadError, JoinExtractThread, AnnounceDownload
<1>3. CASE ExtractThread
  <2>1. CASE AcquireWriteSlot
    BY <2>1 DEF IInv, Flags, Reasons, Verified, Customised, flags, device,
      AcquireWriteSlot
  <2>2. CASE ReadChunk
    BY <2>2 DEF IInv, Flags, Reasons, Verified, Customised, flags, device,
      ReadChunk
  <2>3. CASE ReadEnds
    BY <2>3 DEF IInv, Flags, Reasons, Verified, Customised, flags, device,
      ReadEnds
  <2>4. CASE ConsumerStalls
    BY <2>4 DEF IInv, Flags, Reasons, Verified, Customised, flags, device,
      ConsumerStalls
  <2>5. CASE ReadThrows
    BY <2>5 DEF IInv, Flags, Reasons, Verified, Customised, flags, device,
      ReadThrows
  <2>6. CASE WriteFile
    BY <2>6 DEF IInv, Flags, Reasons, Verified, Customised, flags, device,
      WriteFile
  <2>7. CASE WriteFileFails
    BY <2>7 DEF IInv, Flags, Reasons, Verified, Customised, flags, device,
      WriteFileFails
  <2>8. CASE OnWriteError
    BY <2>8 DEF IInv, Flags, Reasons, Verified, Customised, flags, device,
      OnWriteError, Fail
  <2>9. CASE Catch
    BY <2>9 DEF IInv, Flags, Reasons, Verified, Customised, flags, device,
      Catch
  <2>10. CASE Drain
    BY <2>10 DEF IInv, Flags, Reasons, Verified, Customised, flags, device,
      Drain, FailsQuietlyAt, Proceed
  <2>11. CASE CheckCancelled
    BY <2>11 DEF IInv, Flags, Reasons, Verified, Customised, flags, device,
      CheckCancelled, Proceed
  <2>12. CASE CheckHash
    BY <2>12 DEF IInv, Flags, Reasons, Verified, Customised, flags, device,
      CheckHash, FailsAt, Fail, Proceed
  <2>13. CASE FlushAndSync
    BY <2>13 DEF IInv, Flags, Reasons, Verified, Customised, flags, device,
      FlushAndSync, OnDevice, FailsAt, Fail
  <2>14. CASE Verify
    BY <2>14 DEF IInv, Flags, Reasons, Verified, Customised, flags, device,
      Verify, Proceed, FailsAt, Fail
  <2>15. CASE CustomizeImage
    BY <2>15 DEF IInv, Flags, Reasons, Verified, Customised, flags, device,
      CustomizeImage, OnDevice
  <2>16. CASE CustomizeFails
    BY <2>16 DEF IInv, Flags, Reasons, Verified, Customised, flags, device,
      CustomizeFails
  <2>17. CASE FlushBeforeTable
    BY <2>17 DEF IInv, Flags, Reasons, Verified, Customised, flags, device,
      FlushBeforeTable, OnDevice, FailsAt, Fail
  <2>18. CASE WriteTable
    BY <2>18 DEF IInv, Flags, Reasons, Verified, Customised, flags, device,
      WriteTable, OnDevice, FailsAt, Fail
  <2>19. CASE FinalSync
    BY <2>19 DEF IInv, Flags, Reasons, Verified, Customised, flags, device,
      FinalSync, OnDevice, FailsAt, Fail
  <2>20. CASE RecheckCancelled
    BY <2>20 DEF IInv, Flags, Reasons, Verified, Customised, flags, device,
      RecheckCancelled, Proceed
  <2>21. CASE AnnounceWrite
    BY <2>21 DEF IInv, Flags, Reasons, Verified, Customised, flags, device,
      AnnounceWrite
  <2> QED
    BY <1>3, <2>1, <2>2, <2>3, <2>4, <2>5, <2>6, <2>7, <2>8, <2>9, <2>10,
      <2>11, <2>12, <2>13, <2>14, <2>15, <2>16, <2>17, <2>18, <2>19, <2>20,
      <2>21 DEF ExtractThread
<1>4. CASE Device
  BY <1>4 DEF IInv, Flags, Reasons, Verified, Customised, flags, device,
    Device, WriteCompletes
<1>5. CASE DeviceLies
  BY <1>5 DEF IInv, Flags, Reasons, Verified, Customised, flags, device,
    DeviceLies
<1>6. CASE MainThread
  BY <1>6 DEF IInv, Flags, Reasons, Verified, Customised, flags, device,
    MainThread, CancelDownload, SkipCurrentVerification
<1>7. CASE Ended
  BY <1>7 DEF IInv, Flags, Reasons, Verified, Customised, flags, device, Ended,
    vars
<1> QED
  BY <1>1, <1>2, <1>3, <1>4, <1>5, <1>6, <1>7 DEF Next

(* The partition table comes last. *)
LEMMA KeepsTable ==
  ASSUME IInv, Next
  PROVE  TableComesLast'
<1>1. CASE Network
  BY <1>1, Sizes DEF IInv, Blocks, Taken, Flushed, TableComesLast, Judged,
    Drained, Customised, Settings, device, Network, WriteData,
    TransferSucceeds, TransferFails
<1>2. CASE DownloadThread
  BY <1>2, Sizes DEF IInv, Blocks, Taken, Flushed, TableComesLast, Judged,
    Drained, Customised, Settings, device, DownloadThread, PrepareDevice,
    PushQueue, PushGivesUp, ProducerStalls, DeleteDownloadedFile,
    OnDownloadError, JoinExtractThread, AnnounceDownload
<1>3. CASE ExtractThread
  <2>1. CASE AcquireWriteSlot
    BY <2>1, Sizes DEF IInv, Blocks, Taken, Flushed, TableComesLast, Judged,
      Drained, Customised, Settings, device, AcquireWriteSlot
  <2>2. CASE ReadChunk
    <3>1. written \subseteq 2 .. Taken /\ UNCHANGED <<written, durable>>
      BY <2>2 DEF ReadChunk, device, IInv, Blocks, Customised
    <3> QED
      BY <3>1 DEF TableComesLast
  <2>3. CASE ReadEnds
    BY <2>3, Sizes DEF IInv, Blocks, Taken, Flushed, TableComesLast, Judged,
      Drained, Customised, Settings, device, ReadEnds
  <2>4. CASE ConsumerStalls
    BY <2>4, Sizes DEF IInv, Blocks, Taken, Flushed, TableComesLast, Judged,
      Drained, Customised, Settings, device, ConsumerStalls
  <2>5. CASE ReadThrows
    BY <2>5, Sizes DEF IInv, Blocks, Taken, Flushed, TableComesLast, Judged,
      Drained, Customised, Settings, device, ReadThrows
  <2>6. CASE WriteFile
    BY <2>6, Sizes DEF IInv, Blocks, Taken, Flushed, TableComesLast, Judged,
      Drained, Customised, Settings, device, WriteFile
  <2>7. CASE WriteFileFails
    BY <2>7, Sizes DEF IInv, Blocks, Taken, Flushed, TableComesLast, Judged,
      Drained, Customised, Settings, device, WriteFileFails
  <2>8. CASE OnWriteError
    BY <2>8, Sizes DEF IInv, Blocks, Taken, Flushed, TableComesLast, Judged,
      Drained, Customised, Settings, device, OnWriteError, Fail
  <2>9. CASE Catch
    BY <2>9, Sizes DEF IInv, Blocks, Taken, Flushed, TableComesLast, Judged,
      Drained, Customised, Settings, device, Catch
  <2>10. CASE Drain
    BY <2>10, Sizes DEF IInv, Blocks, Taken, Flushed, TableComesLast, Judged,
      Drained, Customised, Settings, device, Drain, FailsQuietlyAt, Proceed
  <2>11. CASE CheckCancelled
    BY <2>11, Sizes DEF IInv, Blocks, Taken, Flushed, TableComesLast, Judged,
      Drained, Customised, Settings, device, CheckCancelled, Proceed
  <2>12. CASE CheckHash
    BY <2>12, Sizes DEF IInv, Blocks, Taken, Flushed, TableComesLast, Judged,
      Drained, Customised, Settings, device, CheckHash, FailsAt, Fail, Proceed
  <2>13. CASE FlushAndSync
    BY <2>13, Sizes DEF IInv, Blocks, Taken, Flushed, TableComesLast, Judged,
      Drained, Customised, Settings, device, FlushAndSync, OnDevice, FailsAt,
      Fail
  <2>14. CASE Verify
    BY <2>14, Sizes DEF IInv, Blocks, Taken, Flushed, TableComesLast, Judged,
      Drained, Customised, Settings, device, Verify, Proceed, FailsAt, Fail
  <2>15. CASE CustomizeImage
    BY <2>15, Sizes DEF IInv, Blocks, Taken, Flushed, TableComesLast, Judged,
      Drained, Customised, Settings, device, CustomizeImage, OnDevice
  <2>16. CASE CustomizeFails
    BY <2>16, Sizes DEF IInv, Blocks, Taken, Flushed, TableComesLast, Judged,
      Drained, Customised, Settings, device, CustomizeFails
  <2>17. CASE FlushBeforeTable
    BY <2>17, Sizes DEF IInv, Blocks, Taken, Flushed, TableComesLast, Judged,
      Drained, Customised, Settings, device, FlushBeforeTable, OnDevice,
      FailsAt, Fail
  <2>18. CASE WriteTable
    BY <2>18, Sizes DEF IInv, Blocks, Taken, Flushed, TableComesLast, Judged,
      Drained, Customised, Settings, device, WriteTable, OnDevice, FailsAt,
      Fail
  <2>19. CASE FinalSync
    BY <2>19, Sizes DEF IInv, Blocks, Taken, Flushed, TableComesLast, Judged,
      Drained, Customised, Settings, device, FinalSync, OnDevice, FailsAt, Fail
  <2>20. CASE RecheckCancelled
    BY <2>20, Sizes DEF IInv, Blocks, Taken, Flushed, TableComesLast, Judged,
      Drained, Customised, Settings, device, RecheckCancelled, Proceed
  <2>21. CASE AnnounceWrite
    BY <2>21, Sizes DEF IInv, Blocks, Taken, Flushed, TableComesLast, Judged,
      Drained, Customised, Settings, device, AnnounceWrite
  <2> QED
    BY <1>3, <2>1, <2>2, <2>3, <2>4, <2>5, <2>6, <2>7, <2>8, <2>9, <2>10,
      <2>11, <2>12, <2>13, <2>14, <2>15, <2>16, <2>17, <2>18, <2>19, <2>20,
      <2>21 DEF ExtractThread
<1>4. CASE Device
  BY <1>4, Sizes DEF IInv, Blocks, Taken, Flushed, TableComesLast, Judged,
    Drained, Customised, Settings, device, Device, WriteCompletes
<1>5. CASE DeviceLies
  BY <1>5, Sizes DEF IInv, Blocks, Taken, Flushed, TableComesLast, Judged,
    Drained, Customised, Settings, device, DeviceLies
<1>6. CASE MainThread
  BY <1>6, Sizes DEF IInv, Blocks, Taken, Flushed, TableComesLast, Judged,
    Drained, Customised, Settings, device, MainThread, CancelDownload,
    SkipCurrentVerification
<1>7. CASE Ended
  BY <1>7, Sizes DEF IInv, Blocks, Taken, Flushed, TableComesLast, Judged,
    Drained, Customised, Settings, device, Ended, vars
<1> QED
  BY <1>1, <1>2, <1>3, <1>4, <1>5, <1>6, <1>7 DEF Next

(* Success means success. *)
LEMMA KeepsGenuine ==
  ASSUME IInv, Next
  PROVE  Genuine'
<1>1. CASE Network
  <2>1. CASE WriteData
    BY <2>1, NextSays DEF IInv, Flags, Threads, Reasons, Opened, Sound,
      Genuine, Says, AnnounceWrite, AnnounceDownload, ring, flags, device,
      WriteData
  <2>2. CASE TransferSucceeds
    <3>1. Sound => received' # 0
      <4>1. received' = received /\ received \in Nat /\ Chunks > 1
        BY <2>2, Sizes, Constants DEF TransferSucceeds, IInv
      <4>2. Sound => received = Chunks \/ received > 0
        BY <2>2 DEF TransferSucceeds, Sound
      <4> QED
        BY <4>1, <4>2
    <3>2. (Succeeded' <=> Succeeded) /\ curl' = "join"
      BY <2>2 DEF TransferSucceeds, Succeeded
    <3>3. Sound /\ curl' = "join" /\ extract' = "ended" =>
            cancelled' \/ Succeeded'
      BY <2>2, <3>2 DEF TransferSucceeds, IInv, Genuine, Sound, flags
    <3> QED
      BY <2>2, <3>1, <3>2, <3>3
         DEF TransferSucceeds, IInv, Genuine, Sound, device
  <2>3. CASE TransferFails
    BY <2>3, NextSays DEF IInv, Flags, Threads, Reasons, Opened, Sound,
      Genuine, Says, AnnounceWrite, AnnounceDownload, ring, flags, device,
      TransferFails
  <2> QED
    BY <1>1, <2>1, <2>2, <2>3 DEF Network
<1>2. CASE DownloadThread
  <2>1. CASE PrepareDevice
    BY <2>1, NextSays DEF IInv, Flags, Threads, Reasons, Opened, Sound,
      Genuine, Says, AnnounceWrite, AnnounceDownload, ring, flags, device,
      PrepareDevice
  <2>2. CASE PushQueue
    BY <2>2, NextSays DEF IInv, Flags, Threads, Reasons, Opened, Sound,
      Genuine, Says, AnnounceWrite, AnnounceDownload, ring, flags, device,
      PushQueue
  <2>3. CASE PushGivesUp
    BY <2>3, NextSays DEF IInv, Flags, Threads, Reasons, Opened, Sound,
      Genuine, Says, AnnounceWrite, AnnounceDownload, ring, flags, device,
      PushGivesUp
  <2>4. CASE ProducerStalls
    BY <2>4, NextSays DEF IInv, Flags, Threads, Reasons, Opened, Sound,
      Genuine, Says, AnnounceWrite, AnnounceDownload, ring, flags, device,
      ProducerStalls
  <2>5. CASE DeleteDownloadedFile
    BY <2>5, NextSays DEF IInv, Flags, Threads, Reasons, Opened, Sound,
      Genuine, Says, AnnounceWrite, AnnounceDownload, ring, flags, device,
      DeleteDownloadedFile
  <2>6. CASE OnDownloadError
    BY <2>6, NextSays DEF IInv, Flags, Threads, Reasons, Opened, Sound,
      Genuine, Says, AnnounceWrite, AnnounceDownload, ring, flags, device,
      OnDownloadError
  <2>7. CASE JoinExtractThread
    BY <2>7, NextSays DEF IInv, Flags, Threads, Reasons, Opened, Sound,
      Genuine, Says, AnnounceWrite, AnnounceDownload, ring, flags, device,
      JoinExtractThread
  <2>8. CASE AnnounceDownload
    BY <2>8, NextSays DEF IInv, Flags, Threads, Reasons, Opened, Sound,
      Genuine, Says, AnnounceWrite, AnnounceDownload, ring, flags, device
  <2> QED
    BY <1>2, <2>1, <2>2, <2>3, <2>4, <2>5, <2>6, <2>7, <2>8 DEF DownloadThread
<1>3. CASE ExtractThread
  <2>1. CASE AcquireWriteSlot
    BY <2>1, NextSays DEF IInv, Flags, Threads, Reasons, Opened, Sound,
      Genuine, Says, AnnounceWrite, AnnounceDownload, ring, flags, device,
      AcquireWriteSlot
  <2>2. CASE ReadChunk
    BY <2>2, NextSays DEF IInv, Flags, Threads, Reasons, Opened, Sound,
      Genuine, Says, AnnounceWrite, AnnounceDownload, ring, flags, device,
      ReadChunk
  <2>3. CASE ReadEnds
    BY <2>3, NextSays DEF IInv, Flags, Threads, Reasons, Opened, Sound,
      Genuine, Says, AnnounceWrite, AnnounceDownload, ring, flags, device,
      ReadEnds
  <2>4. CASE ConsumerStalls
    BY <2>4, NextSays DEF IInv, Flags, Threads, Reasons, Opened, Sound,
      Genuine, Says, AnnounceWrite, AnnounceDownload, ring, flags, device,
      ConsumerStalls
  <2>5. CASE ReadThrows
    BY <2>5, NextSays DEF IInv, Flags, Threads, Reasons, Opened, Sound,
      Genuine, Says, AnnounceWrite, AnnounceDownload, ring, flags, device,
      ReadThrows
  <2>6. CASE WriteFile
    BY <2>6, NextSays DEF IInv, Flags, Threads, Reasons, Opened, Sound,
      Genuine, Says, AnnounceWrite, AnnounceDownload, ring, flags, device,
      WriteFile
  <2>7. CASE WriteFileFails
    BY <2>7, NextSays DEF IInv, Flags, Threads, Reasons, Opened, Sound,
      Genuine, Says, AnnounceWrite, AnnounceDownload, ring, flags, device,
      WriteFileFails
  <2>8. CASE OnWriteError
    BY <2>8, NextSays DEF IInv, Flags, Threads, Reasons, Opened, Sound,
      Genuine, Says, AnnounceWrite, AnnounceDownload, ring, flags, device,
      OnWriteError, Fail
  <2>9. CASE Catch
    BY <2>9, NextSays DEF IInv, Flags, Threads, Reasons, Opened, Sound,
      Genuine, Says, AnnounceWrite, AnnounceDownload, ring, flags, device,
      Catch
  <2>10. CASE Drain
    BY <2>10, NextSays DEF IInv, Flags, Threads, Reasons, Opened, Sound,
      Genuine, Says, AnnounceWrite, AnnounceDownload, ring, flags, device,
      Drain, FailsQuietlyAt, Proceed
  <2>11. CASE CheckCancelled
    BY <2>11, NextSays DEF IInv, Flags, Threads, Reasons, Opened, Sound,
      Genuine, Says, AnnounceWrite, AnnounceDownload, ring, flags, device,
      CheckCancelled, Proceed
  <2>12. CASE CheckHash
    BY <2>12, NextSays DEF IInv, Flags, Threads, Reasons, Opened, Sound,
      Genuine, Says, AnnounceWrite, AnnounceDownload, ring, flags, device,
      CheckHash, FailsAt, Fail, Proceed
  <2>13. CASE FlushAndSync
    BY <2>13, NextSays DEF IInv, Flags, Threads, Reasons, Opened, Sound,
      Genuine, Says, AnnounceWrite, AnnounceDownload, ring, flags, device,
      FlushAndSync, OnDevice, FailsAt, Fail
  <2>14. CASE Verify
    BY <2>14, NextSays DEF IInv, Flags, Threads, Reasons, Opened, Sound,
      Genuine, Says, AnnounceWrite, AnnounceDownload, ring, flags, device,
      Verify, Proceed, FailsAt, Fail
  <2>15. CASE CustomizeImage
    BY <2>15, NextSays DEF IInv, Flags, Threads, Reasons, Opened, Sound,
      Genuine, Says, AnnounceWrite, AnnounceDownload, ring, flags, device,
      CustomizeImage, OnDevice
  <2>16. CASE CustomizeFails
    BY <2>16, NextSays DEF IInv, Flags, Threads, Reasons, Opened, Sound,
      Genuine, Says, AnnounceWrite, AnnounceDownload, ring, flags, device,
      CustomizeFails
  <2>17. CASE FlushBeforeTable
    BY <2>17, NextSays DEF IInv, Flags, Threads, Reasons, Opened, Sound,
      Genuine, Says, AnnounceWrite, AnnounceDownload, ring, flags, device,
      FlushBeforeTable, OnDevice, FailsAt, Fail
  <2>18. CASE WriteTable
    BY <2>18, NextSays DEF IInv, Flags, Threads, Reasons, Opened, Sound,
      Genuine, Says, AnnounceWrite, AnnounceDownload, ring, flags, device,
      WriteTable, OnDevice, FailsAt, Fail
  <2>19. CASE FinalSync
    BY <2>19, NextSays DEF IInv, Flags, Threads, Reasons, Opened, Sound,
      Genuine, Says, AnnounceWrite, AnnounceDownload, ring, flags, device,
      FinalSync, OnDevice, FailsAt, Fail
  <2>20. CASE RecheckCancelled
    BY <2>20, NextSays DEF IInv, Flags, Threads, Reasons, Opened, Sound,
      Genuine, Says, AnnounceWrite, AnnounceDownload, ring, flags, device,
      RecheckCancelled, Proceed
  <2>21. CASE AnnounceWrite
    <3>1. Emit("success")
      BY <2>21 DEF AnnounceWrite
    <3>2. Succeeded'
      BY <3>1, Emits DEF IInv
    <3> QED
      BY <2>21, <3>2 DEF AnnounceWrite, IInv, Threads, Genuine, Sound, ring,
        flags
  <2> QED
    BY <1>3, <2>1, <2>2, <2>3, <2>4, <2>5, <2>6, <2>7, <2>8, <2>9, <2>10,
      <2>11, <2>12, <2>13, <2>14, <2>15, <2>16, <2>17, <2>18, <2>19, <2>20,
      <2>21 DEF ExtractThread
<1>4. CASE Device
  <2>1. ASSUME NEW place \in Places, WriteCompletes(place)
        PROVE  Genuine'
    <3>1. Succeeded' <=> Succeeded
      BY <2>1 DEF WriteCompletes, Succeeded
    <3> QED
      BY <2>1, <3>1 DEF WriteCompletes, IInv, Genuine, Sound, ring, flags
  <2> QED
    BY <1>4, <2>1 DEF Device
<1>5. CASE DeviceLies
  BY <1>5, NextSays DEF IInv, Flags, Threads, Reasons, Opened, Sound, Genuine,
    Says, AnnounceWrite, AnnounceDownload, ring, flags, device, DeviceLies
<1>6. CASE MainThread
  <2>1. CASE CancelDownload
    BY <2>1, NextSays DEF IInv, Flags, Threads, Reasons, Opened, Sound,
      Genuine, Says, AnnounceWrite, AnnounceDownload, ring, flags, device,
      CancelDownload
  <2>2. CASE SkipCurrentVerification
    BY <2>2, NextSays DEF IInv, Flags, Threads, Reasons, Opened, Sound,
      Genuine, Says, AnnounceWrite, AnnounceDownload, ring, flags, device,
      SkipCurrentVerification
  <2> QED
    BY <1>6, <2>1, <2>2 DEF MainThread
<1>7. CASE Ended
  BY <1>7, NextSays DEF IInv, Flags, Threads, Reasons, Opened, Sound, Genuine,
    Says, AnnounceWrite, AnnounceDownload, ring, flags, device, Ended, vars
<1> QED
  BY <1>1, <1>2, <1>3, <1>4, <1>5, <1>6, <1>7 DEF Next

(* What the end of the extract thread leaves is left. *)
LEMMA AfterTheEnd ==
  ASSUME IInv, Next, extract = "ended"
  PROVE  /\ extract' = "ended"
         /\ UNCHANGED <<decoded, durable, customise, imageChunks, corrupt>>
         /\ verifyEnabled' => verifyEnabled
<1>1. CASE Network
  BY <1>1 DEF job, device, flags, Network, WriteData, TransferSucceeds,
    TransferFails
<1>2. CASE DownloadThread
  BY <1>2 DEF job, device, flags, DownloadThread, PrepareDevice, PushQueue,
    PushGivesUp, ProducerStalls, DeleteDownloadedFile, OnDownloadError,
    JoinExtractThread, AnnounceDownload
<1>3. CASE ExtractThread
  BY <1>3 DEF job, device, flags, ExtractThread, AcquireWriteSlot, ReadChunk,
    ReadEnds, ConsumerStalls, ReadThrows, WriteFile, WriteFileFails,
    OnWriteError, Fail, Catch, Drain, FailsQuietlyAt, Proceed, CheckCancelled,
    CheckHash, FailsAt, FlushAndSync, OnDevice, Verify, CustomizeImage,
    CustomizeFails, FlushBeforeTable, WriteTable, FinalSync, RecheckCancelled,
    AnnounceWrite
<1>4. CASE Device
  BY <1>4 DEF job, device, flags, Device, WriteCompletes
<1>5. CASE DeviceLies
  BY <1>5 DEF job, device, flags, DeviceLies
<1>6. CASE MainThread
  BY <1>6 DEF job, device, flags, MainThread, CancelDownload,
    SkipCurrentVerification
<1>7. CASE Ended
  BY <1>7 DEF job, device, flags, Ended, vars
<1> QED
  BY <1>1, <1>2, <1>3, <1>4, <1>5, <1>6, <1>7 DEF Next

(* Nobody goes on to announce what has been cancelled. *)
LEMMA CancelStays ==
  ASSUME IInv, Next, user # "idle", cancelled,
         extract # "announce", curl # "announce"
  PROVE  /\ user' # "idle"
         /\ extract' # "announce" /\ curl' # "announce"
<1>1. CASE Network
  BY <1>1 DEF Flags, flags, Network, WriteData, TransferSucceeds, TransferFails
<1>2. CASE DownloadThread
  BY <1>2 DEF Flags, flags, DownloadThread, PrepareDevice, PushQueue,
    PushGivesUp, ProducerStalls, DeleteDownloadedFile, OnDownloadError,
    JoinExtractThread, AnnounceDownload
<1>3. CASE ExtractThread
  BY <1>3 DEF Flags, flags, ExtractThread, AcquireWriteSlot, ReadChunk,
    ReadEnds, ConsumerStalls, ReadThrows, WriteFile, WriteFileFails,
    OnWriteError, Fail, Catch, Drain, FailsQuietlyAt, Proceed, CheckCancelled,
    CheckHash, FailsAt, FlushAndSync, OnDevice, Verify, CustomizeImage,
    CustomizeFails, FlushBeforeTable, WriteTable, FinalSync, RecheckCancelled,
    AnnounceWrite
<1>4. CASE Device
  BY <1>4 DEF Flags, flags, Device, WriteCompletes
<1>5. CASE DeviceLies
  BY <1>5 DEF Flags, flags, DeviceLies
<1>6. CASE MainThread
  BY <1>6 DEF Flags, flags, MainThread, CancelDownload, SkipCurrentVerification
<1>7. CASE Ended
  BY <1>7 DEF Flags, flags, Ended, vars
<1> QED
  BY <1>1, <1>2, <1>3, <1>4, <1>5, <1>6, <1>7 DEF Next

(* A success still means what it did, or is announced now. *)
LEMMA KeepsBelieved ==
  ASSUME IInv, Next
  PROVE  Believed'
<1>1. SUFFICES ASSUME Sound, Succeeded'
               PROVE  SuccessMeansWritten'
  BY DEF Believed, Sound, SuccessMeansWritten
<1>2. CASE Succeeded
  <2>1. extract = "ended" /\ SuccessMeansWritten
    BY <1>1, <1>2 DEF IInv, Genuine, Believed
  <2>2. /\ UNCHANGED <<decoded, durable, customise, imageChunks, corrupt>>
        /\ verifyEnabled' => verifyEnabled
    BY <2>1, AfterTheEnd
  <2>3. verifyEnabled \in BOOLEAN /\ verifyEnabled' \in BOOLEAN
    BY KeepsFlags DEF IInv, Flags
  <2> QED
    BY <1>2, <2>1, <2>2, <2>3 DEF SuccessMeansWritten
<1>3. CASE ~Succeeded
  <2>1. AnnounceWrite
    <3>1. AnnounceWrite \/ AnnounceDownload
      BY <1>1, <1>3, NextSays DEF Says
    <3>2. curl # "announce"
      BY <1>1, <1>3 DEF IInv, Genuine
    <3> QED
      BY <3>1, <3>2 DEF AnnounceDownload
  <2>2. /\ extract = "announce"
        /\ UNCHANGED <<decoded, durable, customise, imageChunks, corrupt,
                       verifyEnabled>>
    BY <2>1 DEF AnnounceWrite, job, flags
  <2>3. HashKnown => decoded = [i \in 1 .. imageChunks |-> i]
    <3>1. HashKnown => Len(decoded) = imageChunks
      BY <2>2 DEF IInv, RightHash, Hashed, Judged
    <3>2. imageChunks \in Nat
      BY Sizes DEF IInv
    <3> QED
      BY <3>1, <3>2, InOrder DEF IInv
  <2>4. durable = 1 .. Len(decoded) \cup Mark
    BY <2>2 DEF IInv, Flushed, Blocks, Tabled
  <2>5. decoded # <<>>
    BY <2>2 DEF IInv, Ends, Whole, Judged
  <2>6. corrupt => ~verifyEnabled
    BY <2>2 DEF IInv, Verified
  <2> QED
    BY <2>2, <2>3, <2>4, <2>5, <2>6 DEF SuccessMeansWritten, Mark
<1> QED
  BY <1>2, <1>3

(* The invariant holds at first. *)
LEMMA Begins ==
  ASSUME Init
  PROVE  IInv
<1>1. /\ Chunks - 1 \in 1 .. Chunks /\ Chunks \in 1 .. Chunks
      /\ 0 \in 0 .. Chunks /\ 0 <= RingSlots
  BY Constants
<1>2. /\ queue = <<>> /\ decoded = <<>> /\ signals = <<>>
      /\ queue \in Seq(1 .. Chunks) /\ decoded \in Seq(1 .. Chunks)
      /\ signals \in Seq(Causes \cup {"success"})
      /\ Len(queue) = 0 /\ Len(decoded) = 0 /\ Len(signals) = 0
  BY DEF Init
<1>3. Typed /\ Flags /\ Emitted /\ Threads /\ Reasons /\ Opened
  BY <1>2 DEF Init, Typed, Curls, Extracts, Flags, Emitted, Threads, Reasons,
              Opened
<1>4. Stream
  <2>1. imageChunks \in 1 .. Chunks /\ imageChunks \in Nat
    BY <1>1 DEF Init
  <2>2. received = 0 /\ InHand = 0
    BY DEF Init, InHand
  <2> QED
    BY <1>1, <1>2, <2>1, <2>2 DEF Stream
<1>5. Ends /\ RightHash /\ Verified
  BY DEF Init, Ends, RightHash, Verified, Judged, Hashed, Customised
<1>6. Blocks
  <2>1. 2 .. Taken = {}
    BY <1>2 DEF Init, Taken
  <2> QED
    BY <2>1 DEF Init, Blocks, Judged, Drained, Customised, Tabled
<1>7. Flushed /\ TableComesLast
  BY DEF Init, Flushed, TableComesLast
<1>8. Genuine /\ Believed
  <2>1. ~Succeeded
    BY <1>2 DEF Succeeded
  <2> QED
    BY <2>1 DEF Init, Genuine, Believed, SuccessMeansWritten
<1> QED
  BY <1>3, <1>4, <1>5, <1>6, <1>7, <1>8 DEF IInv

(* Every step keeps the invariant. *)
LEMMA Keeps ==
  ASSUME IInv, [Next]_vars
  PROVE  IInv'
<1>1. CASE Next
  BY <1>1, NextSays, KeepsTyped, KeepsFlags, KeepsStream, KeepsThreads,
     KeepsReasons, KeepsOpened, KeepsEnds, KeepsRightHash, KeepsBlocks,
     KeepsFlushed, KeepsVerified, KeepsTable, KeepsGenuine, KeepsBelieved
     DEF IInv, Emitted, Says
<1>2. CASE UNCHANGED vars
  <2>1. Typed' /\ Flags' /\ Emitted' /\ Threads' /\ Reasons' /\ Opened'
    BY <1>2 DEF vars, ring, flags, device, job, IInv, Typed, Flags, Emitted,
                Threads, Reasons, Opened
  <2>2. Stream'
    BY <1>2 DEF vars, ring, flags, job, IInv, Stream, InHand, Lost
  <2>3. Ends' /\ RightHash' /\ Verified' /\ TableComesLast'
    BY <1>2 DEF vars, ring, flags, device, job, IInv, Ends, Whole, RightHash,
                Verified, TableComesLast
  <2>4. Blocks' /\ Flushed'
    BY <1>2 DEF vars, flags, device, job, IInv, Blocks, Taken, Mark, Flushed
  <2>5. Genuine' /\ Believed'
    BY <1>2 DEF vars, ring, flags, device, job, IInv, Genuine, Believed,
                SuccessMeansWritten, Succeeded
  <2> QED
    BY <2>1, <2>2, <2>3, <2>4, <2>5 DEF IInv
<1> QED
  BY <1>1, <1>2

(* ... and so it is an invariant. *)
LEMMA Invariant == Spec => []IInv
<1>1. Init => IInv
  BY Begins
<1>2. IInv /\ [Next]_vars => IInv'
  BY Keeps
<1> QED
  BY <1>1, <1>2, PTL DEF Spec

-----------------------------------------------------------------------------
(* Every state is one of the states that TypeOK describes. *)
THEOREM TypeCorrect == Spec => []TypeOK
<1>1. ASSUME IInv
      PROVE  TypeOK
  <2>1. inFlight \subseteq Places /\ written \subseteq Places
    <3>1. Len(decoded) \in 0 .. Chunks /\ Chunks \in Nat
      BY <1>1, Sizes, Constants DEF IInv
    <3>2. /\ inFlight \subseteq 2 .. Taken /\ Taken \in Int
          /\ Taken <= Len(decoded) /\ written \subseteq 0 .. Len(decoded)
      BY <1>1, <3>1 DEF IInv, Blocks, Flushed, Taken
    <3> QED
      BY <3>1, <3>2 DEF Places
  <2>2. durable \subseteq written
    BY <1>1 DEF IInv, Flushed
  <2>3. /\ imageChunks \in 1 .. Chunks /\ received \in 0 .. Chunks
        /\ queue \in Seq(1 .. Chunks) /\ decoded \in Seq(1 .. Chunks)
        /\ Len(queue) <= RingSlots
        /\ signals \in Seq(Causes \cup {"success"})
    BY <1>1 DEF IInv, Stream, Emitted
  <2>4. Typed /\ Flags
    BY <1>1 DEF IInv
  <2> QED
    BY <2>1, <2>2, <2>3, <2>4 DEF TypeOK, Typed, Curls, Extracts, Flags
<1>2. IInv => TypeOK
  BY <1>1
<1> QED
  BY Invariant, <1>2, PTL

(* The partition table is never on the card before the rest of the image is *)
(* durable, whatever fails, stalls or is cancelled, and in whatever order.  *)
THEOREM TheTableComesLast == Spec => []TableComesLast
<1>1. IInv => TableComesLast
  BY DEF IInv
<1> QED
  BY Invariant, <1>1, PTL

(* What _writeComplete goes on with is the whole image: a ring cancelled    *)
(* under the decompressor is never taken for its end.                       *)
THEOREM TheEndIsGenuine == Spec => []EndIsGenuine
<1>1. ASSUME IInv, extract \in Judged
      PROVE  \/ ArchiveEnds
             \/ ringDone /\ decoded = [i \in 1 .. received |-> i]
  <2>1. Whole /\ received \in Nat
    BY <1>1, Sizes DEF IInv, Ends
  <2> QED
    BY <1>1, <2>1, InOrder DEF IInv, Whole, ArchiveEnds
<1>2. IInv => EndIsGenuine
  BY <1>1 DEF EndIsGenuine, Judged
<1> QED
  BY Invariant, <1>2, PTL

(* A transfer that nobody cancelled does not end without an answer. *)
THEOREM AnAnswerAtTheEnd == Spec => []AnswerAtTheEnd
<1>1. IInv => AnswerAtTheEnd
  BY DEF IInv, Reasons, AnswerAtTheEnd
<1> QED
  BY Invariant, <1>1, PTL

(* Success means that the card holds the image, for a transfer of something *)
(* that is not given up over a write already queued or over the settings:   *)
(* the failures that the code lets through to a success.                    *)
THEOREM SuccessIsSuccess ==
  ASSUME Sound
  PROVE  Spec => []SuccessMeansWritten
<1>1. IInv => SuccessMeansWritten
  BY DEF IInv, Believed
<1> QED
  BY Invariant, <1>1, PTL

(* A transfer cancelled before the last look at the flag never ends in a    *)
(* success, whichever of the two threads would announce it.                 *)
THEOREM ACancelledOneNeverSucceeds == Spec => CancelledNeverSucceeds
<1> DEFINE K == /\ user # "idle" /\ extract # "announce"
                /\ curl # "announce" /\ ~Succeeded
<1>1. ASSUME IInv, K, [Next]_vars
      PROVE  K'
  <2>1. CASE Next
    <3>1. ~Succeeded'
      BY <1>1, <2>1, NextSays DEF Says, AnnounceWrite, AnnounceDownload
    <3>2. cancelled
      BY <1>1 DEF IInv, Reasons
    <3>3. user' # "idle"
      BY <1>1, <2>1, <3>2, CancelStays
    <3>4. extract' # "announce" /\ curl' # "announce"
      BY <1>1, <2>1, <3>2, CancelStays
    <3> QED
      BY <3>1, <3>3, <3>4
  <2>2. CASE UNCHANGED vars
    BY <1>1, <2>2 DEF vars, Succeeded
  <2> QED
    BY <1>1, <2>1, <2>2
<1>2. IInv /\ K /\ [Next]_vars => K'
  BY <1>1
<1>3. K => ~Succeeded
  OBVIOUS
<1>4. K <=> user # "idle" /\ extract # "announce" /\ curl # "announce"
              /\ ~Succeeded
  OBVIOUS
<1> HIDE DEF K
<1> QED
  BY Invariant, <1>2, <1>3, <1>4, PTL DEF Spec, CancelledNeverSucceeds

=============================================================================
