---------------------------- MODULE WritePipeline ----------------------------
(***************************************************************************)
(* DownloadExtractThread writing an image: the life of one transfer.        *)
(*                                                                         *)
(* The download thread runs curl and pushes what it receives into the       *)
(* input ring; the extract thread, which the first data starts, takes it    *)
(* out, decompresses and writes it, and ends with _writeComplete.  Either   *)
(* may find the transfer lost and report it, and either may report the      *)
(* success; the main thread may cancel at any time.  What they share is the *)
(* device, the ring, and the flags _cancelled and _extractFailed.           *)
(*                                                                         *)
(* The input ring (RingBuffer) is a bounded queue here, and asynchronous    *)
(* writes (AsyncFile) are a set.  A chunk of the stream decompresses to one *)
(* block; the first block of the image is held back and written last.       *)
(***************************************************************************)
EXTENDS Naturals, Sequences, FiniteSets

CONSTANTS
  Chunks,           \* bound: the chunks of the stream the server has
  RingSlots,        \* slots of the input ring
  HashKnown,        \* _expectedHash is not empty
  NetworkMayFail,   \* curl_easy_perform ends with an error
  StallsHappen,     \* a side of a ring waits for 90 seconds
  DeviceMayFail,    \* a call on the device fails
  ArchiveMayBeBad,  \* libarchive finds the data corrupt
  ShortSource,      \* the server's file ends before the image does ...
  EmptySource,      \* ... or before it begins
  AsyncMayFail,     \* a write fails after it has been queued
  CustomiseMayFail  \* the image has no partition the settings can go to

ASSUME PipelineAssumption ==
  /\ Chunks \in Nat \ {0, 1} /\ RingSlots \in Nat \ {0}
  /\ {HashKnown, NetworkMayFail, StallsHappen, DeviceMayFail,
      ArchiveMayBeBad, ShortSource, EmptySource, AsyncMayFail,
      CustomiseMayFail} \subseteq BOOLEAN

Settings == 0  \* the place of the customisation, beside the blocks 1, 2, ...
Places == 0 .. Chunks
Causes == {"prepare", "network", "extract", "write", "async", "hash", "flush",
           "verify", "customise", "table", "sync"}

VARIABLES
  imageChunks,    \* the archive ends here; a zip has more after it
  customise,      \* there are settings to write to the boot partition
  \* the download thread
  curl,
  received,       \* chunks curl has delivered
  \* the input ring
  queue, ringDone, ringCancelled, ringStalled,
  \* the extract thread
  extract,
  decoded,        \* what has been decompressed
  \* shared
  cancelled,      \* _cancelled
  extractFailed,  \* _extractFailed
  verifyEnabled,  \* _verifyEnabled
  open,           \* _file->IsOpen()
  inFlight,       \* places of the writes queued
  asyncError,     \* one of them has failed
  written, durable, corrupt,  \* the device: places, and if the medium lies
  \* the main thread
  user,
  signals         \* what the threads have emitted, a success or an error

ring == <<queue, ringDone, ringCancelled, ringStalled>>
flags == <<cancelled, extractFailed, verifyEnabled>>
device == <<open, inFlight, asyncError, written, durable, corrupt>>
job == <<imageChunks, customise>>
vars == <<job, curl, received, ring, extract, decoded, flags, device,
          user, signals>>

TypeOK ==
  /\ imageChunks \in 1 .. Chunks /\ customise \in BOOLEAN
  /\ curl \in {"prepare", "transfer", "push", "aborting", "closing",
               "report", "cancelRing", "join", "announce", "finished"}
  /\ received \in 0 .. Chunks
  /\ queue \in Seq(1 .. Chunks) /\ Len(queue) <= RingSlots
  /\ extract \in {"none", "slot", "read", "write", "writeFailed", "throw",
                  "drain", "check", "hash", "flush", "verify", "customise",
                  "beforeTable", "table", "sync", "recheck", "announce",
                  "ended"}
  /\ decoded \in Seq(1 .. Chunks)
  /\ {ringDone, ringCancelled, ringStalled, cancelled, extractFailed,
      verifyEnabled, open, asyncError, corrupt} \subseteq BOOLEAN
  /\ inFlight \subseteq Places /\ written \subseteq Places
  /\ durable \subseteq written
  /\ user \in {"idle", "cancelling", "cancelled"}
  /\ signals \in Seq(Causes \cup {"success"})

Init ==
  /\ imageChunks \in {Chunks - 1, Chunks}
  /\ customise \in BOOLEAN
  /\ curl = "prepare" /\ received = 0
  /\ queue = <<>>
  /\ ringDone = FALSE /\ ringCancelled = FALSE /\ ringStalled = FALSE
  /\ extract = "none" /\ decoded = <<>>
  /\ cancelled = FALSE /\ extractFailed = FALSE /\ verifyEnabled = TRUE
  /\ open = FALSE /\ inFlight = {} /\ asyncError = FALSE
  /\ written = {} /\ durable = {} /\ corrupt = FALSE
  /\ user = "idle" /\ signals = <<>>

Emit(s) == signals' = Append(signals, s)

-----------------------------------------------------------------------------
(* The download thread. *)

PrepareDevice ==
  /\ curl = "prepare"
  /\ \/ open' = TRUE /\ curl' = "transfer" /\ UNCHANGED signals
     \/ /\ DeviceMayFail
        /\ curl' = "finished" /\ Emit("prepare") /\ UNCHANGED open
  /\ UNCHANGED <<job, received, ring, extract, decoded, flags, inFlight,
                 asyncError, written, durable, corrupt, user>>

(* curl's write callback.  The first data starts the extract thread.        *)
WriteData ==
  /\ curl = "transfer" /\ ~cancelled
  /\ received < Chunks
  /\ received' = received + 1
  /\ extract' = IF extract = "none" THEN "slot" ELSE extract
  /\ curl' = "push"
  /\ UNCHANGED <<job, ring, decoded, flags, device, user, signals>>

(* Seeded fault: chunks are pushed whether or not there is a slot. *)
PushUnbounded ==
  /\ curl = "push"
  /\ ~cancelled /\ ~ringCancelled /\ ~ringStalled
  /\ queue' = Append(queue, received)
  /\ curl' = "transfer"
  /\ UNCHANGED <<job, received, ringDone, ringCancelled, ringStalled, extract,
                 decoded, flags, device, user, signals>>

PushQueue ==
  /\ curl = "push"
  /\ Len(queue) < RingSlots
  /\ ~cancelled /\ ~ringCancelled /\ ~ringStalled
  /\ queue' = Append(queue, received)
  /\ curl' = "transfer"
  /\ UNCHANGED <<job, received, ringDone, ringCancelled, ringStalled,
                 extract, decoded, flags, device, user, signals>>

(* After a cancellation or a stall the chunk is dropped, and curl told that *)
(* it was taken.                                                            *)
PushGivesUp ==
  /\ curl = "push"
  /\ cancelled \/ ringCancelled \/ ringStalled
  /\ curl' = "transfer"
  /\ UNCHANGED <<job, received, ring, extract, decoded, flags, device,
                 user, signals>>

ProducerStalls ==
  /\ curl = "push" /\ StallsHappen
  /\ Len(queue) = RingSlots /\ ~cancelled /\ ~ringCancelled /\ ~ringStalled
  /\ ringStalled' = TRUE
  /\ UNCHANGED <<job, curl, received, queue, ringDone, ringCancelled,
                 extract, decoded, flags, device, user, signals>>

(* Both callbacks refuse to go on with a cancelled transfer; it may fail by *)
(* itself, once it is no longer tried again.  Either way                    *)
(* deleteDownloadedFile closes the device first.                            *)
TransferFails ==
  /\ curl = "transfer"
  /\ \/ cancelled /\ curl' = "aborting"
     \/ NetworkMayFail /\ curl' = "closing"
  /\ UNCHANGED <<job, received, ring, extract, decoded, flags, device,
                 user, signals>>

(* Close waits for the writes in flight. *)
DeleteDownloadedFile ==
  /\ curl \in {"aborting", "closing"}
  /\ inFlight = {}
  /\ open' = FALSE
  /\ curl' = IF curl = "closing" THEN "report" ELSE "finished"
  /\ UNCHANGED <<job, received, ring, extract, decoded, flags, inFlight,
                 asyncError, written, durable, corrupt, user, signals>>

(* Seeded fault: the ring is cancelled before the flag is set. *)
OnDownloadErrorRingFirst ==
  /\ \/ curl = "report" /\ ringCancelled' = TRUE /\ curl' = "cancelRing"
        /\ UNCHANGED <<cancelled, signals>>
     \/ curl = "cancelRing" /\ cancelled' = TRUE /\ Emit("network")
        /\ curl' = "finished" /\ UNCHANGED ringCancelled
  /\ UNCHANGED <<job, received, queue, ringDone, ringStalled, extract,
                 decoded, extractFailed, verifyEnabled, device, user>>

(* DownloadExtractThread::_onDownloadError. *)
OnDownloadError ==
  /\ \/ curl = "report" /\ cancelled' = TRUE /\ Emit("network")
        /\ curl' = "cancelRing" /\ UNCHANGED ringCancelled
     \/ curl = "cancelRing" /\ ringCancelled' = TRUE /\ curl' = "finished"
        /\ UNCHANGED <<cancelled, signals>>
  /\ UNCHANGED <<job, received, queue, ringDone, ringStalled, extract,
                 decoded, extractFailed, verifyEnabled, device, user>>

(* curl_easy_perform answers CURLE_OK. *)
TransferSucceeds ==
  /\ curl = "transfer"
  /\ \/ received = Chunks
     \/ ShortSource /\ received > 0
     \/ EmptySource /\ received = 0
  /\ ringDone' = TRUE
  /\ curl' = "join"
  /\ UNCHANGED <<job, received, queue, ringCancelled, ringStalled,
                 extract, decoded, flags, device, user, signals>>

(* Seeded fault: the flag of the extract thread is not consulted (#1603). *)
JoinIgnoringFailure ==
  /\ curl = "join"
  /\ extract \in {"none", "ended"}
  /\ curl' = "announce"
  /\ UNCHANGED <<job, received, ring, extract, decoded, flags, device,
                 user, signals>>

(* _onDownloadSuccess: the extract thread is joined, then the flags decide. *)
JoinExtractThread ==
  /\ curl = "join"
  /\ extract \in {"none", "ended"}
  /\ curl' = IF extractFailed \/ cancelled THEN "finished" ELSE "announce"
  /\ UNCHANGED <<job, received, ring, extract, decoded, flags, device,
                 user, signals>>

AnnounceDownload ==
  /\ curl = "announce"
  /\ Emit("success")
  /\ curl' = "finished"
  /\ UNCHANGED <<job, received, ring, extract, decoded, flags, device, user>>

-----------------------------------------------------------------------------
(* The extract thread: extractImageRun. *)

(* A slot of the write ring is found even in a cancelled transfer; a        *)
(* cancelled one that finds none, or one that stalls, stops looking.        *)
AcquireWriteSlot ==
  /\ extract = "slot"
  /\ \/ extract' = "read"
     \/ cancelled /\ inFlight # {} /\ extract' = "drain"
     \/ ~cancelled /\ inFlight # {} /\ StallsHappen /\ extract' = "throw"
  /\ UNCHANGED <<job, curl, received, ring, decoded, flags, device,
                 user, signals>>

(* The archive says itself where it ends, whatever the stream still has. *)
ArchiveEnds == imageChunks < Chunks /\ Len(decoded) = imageChunks

(* archive_read_data, with a chunk from _on_read. *)
ReadChunk ==
  /\ extract = "read"
  /\ ~ArchiveEnds
  /\ queue # <<>> /\ ~ringCancelled /\ ~ringStalled
  /\ queue' = Tail(queue)
  /\ decoded' = Append(decoded, Head(queue))
  /\ extract' = "write"
  /\ UNCHANGED <<job, curl, received, ringDone, ringCancelled,
                 ringStalled, flags, device, user, signals>>

(* The end of the image: that of the archive, or that of the stream, which  *)
(* a cancelled ring looks like and which nobody compares with the archive's *)
(* own.  Before its first chunk it is an error.                             *)
ReadEnds ==
  /\ extract = "read"
  /\ \/ ArchiveEnds
     \/ ~ringStalled /\ (ringCancelled \/ (ringDone /\ queue = <<>>))
  /\ extract' = IF decoded = <<>> THEN "throw" ELSE "drain"
  /\ UNCHANGED <<job, curl, received, ring, decoded, flags, device,
                 user, signals>>

(* Seeded fault: the stall clock starts again with every call. *)
ConsumerNeverStalls == FALSE /\ UNCHANGED vars

(* No data for 90 seconds. *)
ConsumerStalls ==
  /\ extract = "read"
  /\ ~ArchiveEnds
  /\ queue = <<>> /\ ~ringDone /\ ~ringCancelled /\ ~ringStalled
  /\ ringStalled' = TRUE
  /\ UNCHANGED <<job, curl, received, queue, ringDone, ringCancelled,
                 extract, decoded, flags, device, user, signals>>

(* libarchive fails: always so after a stall of the input ring, and maybe   *)
(* on what it is given, an end too early included.                          *)
ReadThrows ==
  /\ extract = "read"
  /\ ~ArchiveEnds
  /\ \/ ringStalled
     \/ ArchiveMayBeBad /\ (queue # <<>> \/ ringDone \/ ringCancelled)
  /\ extract' = "throw"
  /\ UNCHANGED <<job, curl, received, ring, decoded, flags, device,
                 user, signals>>

(* _writeFile.  Once the transfer is cancelled blocks are thrown away.  The *)
(* first block is held back; the others are queued.                         *)
WriteFile ==
  /\ extract = "write"
  /\ cancelled \/ open
  /\ inFlight' = IF cancelled \/ Len(decoded) = 1 THEN inFlight
                 ELSE inFlight \cup {Len(decoded)}
  /\ extract' = "slot"
  /\ UNCHANGED <<job, curl, received, ring, decoded, flags, open,
                 asyncError, written, durable, corrupt, user, signals>>

(* A write refused is an error unless the transfer is cancelled.            *)
WriteFileFails ==
  /\ extract = "write" /\ ~cancelled
  /\ ~open \/ DeviceMayFail
  /\ extract' = "writeFailed"
  /\ UNCHANGED <<job, curl, received, ring, decoded, flags, device,
                 user, signals>>

(* DownloadThread::_onDownloadError, as the extract thread calls it. *)
Fail(cause) ==
  /\ cancelled' = TRUE /\ open' = FALSE
  /\ Emit(cause)
  /\ extract' = "ended"

(* Seeded fault: the transfer is cancelled before its error is reported. *)
OnWriteErrorSilenced ==
  /\ extract = "writeFailed"
  /\ inFlight = {}
  /\ cancelled' = TRUE /\ ringCancelled' = TRUE
  /\ extract' = "ended"
  /\ UNCHANGED <<job, curl, received, queue, ringDone, ringStalled, decoded,
                 extractFailed, verifyEnabled, device, user, signals>>

(* WaitForPendingWrites, then _onWriteError, which is silent once the       *)
(* transfer is cancelled and otherwise cancels the ring too.                *)
OnWriteError ==
  /\ extract = "writeFailed"
  /\ inFlight = {}
  /\ IF cancelled
       THEN extract' = "ended" /\ UNCHANGED <<cancelled, ringCancelled, open, signals>>
       ELSE Fail("write") /\ ringCancelled' = TRUE
  /\ UNCHANGED <<job, curl, received, queue, ringDone, ringStalled,
                 decoded, extractFailed, verifyEnabled, inFlight, asyncError,
                 written, durable, corrupt, user>>

(* The handler of extractImageRun's exceptions. *)
Catch ==
  /\ extract = "throw"
  /\ inFlight = {}
  /\ IF cancelled
       THEN UNCHANGED <<cancelled, extractFailed, signals>>
       ELSE extractFailed' = TRUE /\ cancelled' = TRUE /\ Emit("extract")
  /\ extract' = "ended"
  /\ UNCHANGED <<job, curl, received, ring, decoded, verifyEnabled,
                 device, user>>

-----------------------------------------------------------------------------
(* The extract thread: _writeComplete. *)

(* The steps of _writeComplete that do nothing but go on, or close the      *)
(* device and end.                                                          *)
Proceed(from, to) ==
  /\ extract = from
  /\ extract' = to
  /\ open' = (open /\ to # "ended")
  /\ UNCHANGED <<job, curl, received, ring, decoded, flags, inFlight,
                 asyncError, written, durable, corrupt, user, signals>>

(* One that fails by _onDownloadError. *)
FailsAt(from, cause) ==
  /\ extract = from
  /\ Fail(cause)
  /\ UNCHANGED <<job, curl, received, ring, decoded, extractFailed,
                 verifyEnabled, inFlight, asyncError, written, durable, corrupt,
                 user>>

(* One that emits the error itself, and sets no flag. *)
FailsQuietlyAt(from, cause) ==
  /\ extract = from
  /\ Emit(cause)
  /\ open' = FALSE
  /\ extract' = "ended"
  /\ UNCHANGED <<job, curl, received, ring, decoded, flags, inFlight,
                 asyncError, written, durable, corrupt, user>>

(* One that writes to the device or makes what is there durable. *)
OnDevice(from, to, writes, flushes) ==
  /\ extract = from /\ open
  /\ extract' = to
  /\ written' = written \cup writes
  /\ durable' = IF flushes THEN written \cup writes ELSE durable
  /\ UNCHANGED <<job, curl, received, ring, decoded, flags, open,
                 inFlight, asyncError, corrupt, user, signals>>

Drain ==
  /\ inFlight = {}
  /\ IF asyncError THEN FailsQuietlyAt("drain", "async")
                   ELSE Proceed("drain", "check")

CheckCancelled == Proceed("check", IF cancelled THEN "ended" ELSE "hash")

CheckHash ==
  IF HashKnown /\ decoded # [i \in 1 .. imageChunks |-> i]
    THEN FailsAt("hash", "hash")
    ELSE Proceed("hash", "flush")

FlushAndSync ==
  \/ OnDevice("flush", "verify", {}, TRUE)
  \/ (~open \/ DeviceMayFail) /\ FailsAt("flush", "flush")

(* _verify gives up, content, when it is switched off or cancelled. *)
Verify ==
  \/ /\ ~verifyEnabled \/ cancelled \/ (open /\ ~corrupt)
     /\ Proceed("verify", IF customise THEN "customise" ELSE "beforeTable")
  \/ /\ ~open \/ DeviceMayFail \/ corrupt
     /\ FailsAt("verify", "verify")

(* _customizeImage writes the settings; its end is DeviceWrapper::sync,     *)
(* below, or the signed boot files after it.  It reports its errors itself, *)
(* and leaves a card that has the partition table nevertheless:             *)
(* ~DeviceWrapper writes what it has cached, the first block with the flush *)
(* before it.                                                               *)
CustomizeImage == OnDevice("customise", "beforeTable", {Settings}, FALSE)

CustomizeFails ==
  /\ extract \in {"customise", "beforeTable", "table", "sync"} /\ customise
  /\ ~open \/ CustomiseMayFail
  /\ Emit("customise")
  /\ open' = FALSE
  /\ extract' = "ended"
  /\ \/ UNCHANGED <<written, durable>>
     \/ open /\ written' = written \cup {1} /\ durable' = written
  /\ UNCHANGED <<job, curl, received, ring, decoded, flags, inFlight,
                 asyncError, corrupt, user>>

(* Seeded fault: the partition table is written before the rest is durable. *)
NoFlushBeforeTable == Proceed("beforeTable", "table")

(* The device is flushed, and then the first block written. *)
FlushBeforeTable ==
  \/ OnDevice("beforeTable", "table", {}, TRUE)
  \/ /\ ~customise
     /\ ~open \/ DeviceMayFail
     /\ FailsAt("beforeTable", "table")

WriteTable ==
  \/ OnDevice("table", "sync", {1}, FALSE)
  \/ /\ ~customise
     /\ ~open \/ DeviceMayFail
     /\ FailsAt("table", "table")

(* The flush that follows at once, the final flush and sync, and the        *)
(* read-back of the settings.                                               *)
FinalSync ==
  \/ OnDevice("sync", "recheck", {}, TRUE)
  \/ (~open \/ DeviceMayFail) /\ FailsAt("sync", "sync")

(* Seeded fault: the last look at the flag is forgotten. *)
NoRecheck == Proceed("recheck", "announce")

RecheckCancelled ==
  Proceed("recheck", IF cancelled THEN "ended" ELSE "announce")

(* The device is closed, then success emitted. *)
AnnounceWrite ==
  /\ extract = "announce"
  /\ Emit("success")
  /\ open' = FALSE
  /\ extract' = "ended"
  /\ UNCHANGED <<job, curl, received, ring, decoded, flags, inFlight,
                 asyncError, written, durable, corrupt, user>>

-----------------------------------------------------------------------------
(* A queued write ends.  One of a cancelled transfer may be cancelled too.  *)
WriteCompletes(place) ==
  /\ place \in inFlight
  /\ inFlight' = inFlight \ {place}
  /\ \/ written' = written \cup {place} /\ UNCHANGED asyncError
     \/ AsyncMayFail /\ asyncError' = TRUE /\ UNCHANGED written
     \/ cancelled /\ UNCHANGED <<asyncError, written>>
  /\ UNCHANGED <<job, curl, received, ring, extract, decoded, flags,
                 open, durable, corrupt, user, signals>>

(* The medium does not keep what it was given. *)
DeviceLies ==
  /\ DeviceMayFail /\ ~corrupt
  /\ extract \in {"slot", "drain", "flush"}
  /\ corrupt' = TRUE
  /\ UNCHANGED <<job, curl, received, ring, extract, decoded, flags,
                 open, inFlight, asyncError, written, durable, user, signals>>

(* DownloadExtractThread::cancelDownload: the flag, then the ring. *)
CancelDownload ==
  /\ \/ user = "idle" /\ user' = "cancelling" /\ cancelled' = TRUE
        /\ UNCHANGED ringCancelled
     \/ user = "cancelling" /\ user' = "cancelled" /\ ringCancelled' = TRUE
        /\ UNCHANGED cancelled
  /\ UNCHANGED <<job, curl, received, queue, ringDone, ringStalled,
                 extract, decoded, extractFailed, verifyEnabled, device, signals>>

SkipCurrentVerification ==
  /\ verifyEnabled
  /\ verifyEnabled' = FALSE
  /\ UNCHANGED <<job, curl, received, ring, extract, decoded, cancelled,
                 extractFailed, device, user, signals>>

-----------------------------------------------------------------------------
(* What the network does, and what the download thread does by itself.      *)
Network == WriteData \/ TransferSucceeds \/ TransferFails
DownloadThread ==
  \/ PrepareDevice
  \/ PushQueue \/ PushGivesUp \/ ProducerStalls
  \/ DeleteDownloadedFile \/ OnDownloadError
  \/ JoinExtractThread \/ AnnounceDownload

ExtractThread ==
  \/ AcquireWriteSlot
  \/ ReadChunk \/ ReadEnds \/ ConsumerStalls \/ ReadThrows
  \/ WriteFile \/ WriteFileFails \/ OnWriteError \/ Catch
  \/ Drain \/ CheckCancelled \/ CheckHash \/ FlushAndSync \/ Verify
  \/ CustomizeImage \/ CustomizeFails \/ FlushBeforeTable \/ WriteTable \/ FinalSync
  \/ RecheckCancelled \/ AnnounceWrite

Device == \E place \in Places : WriteCompletes(place)

MainThread == CancelDownload \/ SkipCurrentVerification

Ended == curl = "finished" /\ extract \in {"none", "ended"} /\ UNCHANGED vars

Next ==
  Network \/ DownloadThread \/ ExtractThread \/ Device \/ DeviceLies
    \/ MainThread \/ Ended

Spec == Init /\ [][Next]_vars

(* Both threads run, and queued writes end; the network owes nothing.       *)
FairSpec ==
  Spec /\ WF_vars(DownloadThread) /\ WF_vars(ExtractThread) /\ WF_vars(Device)

-----------------------------------------------------------------------------
Succeeded == \E i \in 1 .. Len(signals) : signals[i] = "success"

(* Success means that the card holds the image: every block of it, in its   *)
(* place, the first one too, with the settings, durable, and as it was      *)
(* written unless nobody wanted to know; also when the download announces   *)
(* it over an extraction that failed ("Emitting success() unconditionally   *)
(* here would override an already-reported error",                          *)
(* downloadextractthread.cpp:321-324).                                      *)
SuccessMeansWritten ==
  Succeeded =>
    /\ HashKnown => decoded = [i \in 1 .. imageChunks |-> i]
    /\ durable = 1 .. Len(decoded) \cup (IF customise THEN {Settings} ELSE {})
    /\ decoded # <<>>
    /\ corrupt => ~verifyEnabled

(* _writeComplete only goes on with what the stream itself ended: a ring    *)
(* that was cancelled under the decompressor is never taken for the end of  *)
(* the image.                                                               *)
EndIsGenuine ==
  extract \in {"hash", "flush", "verify", "customise", "beforeTable", "table",
              "sync", "recheck", "announce"}
    => ArchiveEnds \/ (ringDone /\ decoded = [i \in 1 .. received |-> i])

(* The card has no partition table before the rest of the image is on the   *)
(* medium: what a failed write leaves behind never looks whole.             *)
TableComesLast ==
  1 \in written =>
    /\ 2 .. Len(decoded) \subseteq durable
    /\ Settings \in written => Settings \in durable

(* A transfer cancelled before the last look at the flag never ends in a    *)
(* success.                                                                 *)
CancelledNeverSucceeds ==
  [](user # "idle" /\ extract # "announce" /\ curl # "announce" /\ ~Succeeded
       => []~Succeeded)

(* Neither thread leaves the user without an answer: a transfer that was    *)
(* not cancelled ends with a success or an error.                           *)
AnswerAtTheEnd ==
  curl = "finished" /\ extract \in {"none", "ended"} /\ user = "idle"
    => signals # <<>>

(* Once data has arrived the extract thread comes to its end, whatever the  *)
(* network does.                                                            *)
ExtractionEnds == extract # "none" ~> extract = "ended"
=============================================================================
