---------------------------- MODULE FastbootFlash ----------------------------
(***************************************************************************)
(* FastbootFlashThread: an image written to a board over USB.  Three        *)
(* threads form a pipeline of two rings: the download fills the compressed  *)
(* ring, the decompressor moves it to the decompressed ring, and the flash  *)
(* thread encodes what it takes from there into segments that it sends to   *)
(* the board.  None of them looks at another except through the rings (here *)
(* bounded queues with RingBuffer's flags) and _cancelled; the flash thread *)
(* joins the other two before it judges the whole.  The main thread may     *)
(* cancel, and ImageWriter's onError() does so when it is told of an error. *)
(*                                                                         *)
(* A chunk of the file decompresses to one block.  The erase of a board is  *)
(* the other job of the thread.                                             *)
(***************************************************************************)
EXTENDS Naturals, Sequences, SequencesExt

CONSTANTS
  Blocks,           \* blocks of the image
  Extra,            \* bound: chunks that follow the image in its archive
  CompressedSlots,
  WriteSlots

ASSUME FlashAssumption ==
  /\ {Blocks, CompressedSlots, WriteSlots} \subseteq Nat \ {0}
  /\ Extra \in Nat

EraseCommands == 3  \* erase, partinit, partapp
Rings == {"compressed", "decompressed"}

VARIABLES
  job,              \* what is asked for, and what the server has
  download, received, downloadError,
  decompress, decoded, decompressError,
  \* the two rings; the compressed one carries chunks, the other one blocks
  queue, held, producerDone, ringCancelled, stalled,
  made,             \* the rings that exist
  flash, buffered, flashed, flashError,
  erased,           \* the commands of the erase that the board has obeyed
  cancelled,        \* _cancelled
  canceller,        \* how far the main thread is in cancel()
  signals

source == <<download, received, downloadError>>
middle == <<decompress, decoded, decompressError>>
sink == <<flash, buffered, flashed, flashError, erased>>
control == <<cancelled, canceller>>
ends == <<producerDone, ringCancelled, stalled>>
ring == <<queue, held, ends>>
vars == <<job, source, middle, ring, made, sink, control, signals>>

Jobs ==
  {j \in [erase : BOOLEAN,     \* isEraseOperation()
          format : {"raw", "checked"},  \* does the format know its own end?
          chunks : 0 .. Blocks + Extra,
          hash : BOOLEAN]      \* _expectedHash is not empty
     : j.format = "raw" => j.chunks <= Blocks}

Slots(r) == IF r = "compressed" THEN CompressedSlots ELSE WriteSlots

TypeOK ==
  /\ job \in Jobs
  /\ download \in {"none", "transfer", "push", "complete", "failed", "ended"}
  /\ received \in 0 .. Blocks + Extra
  /\ {downloadError, decompressError, flashError, cancelled} \subseteq BOOLEAN
  /\ decompress \in {"none", "read", "push", "end", "stop", "ended"}
  /\ decoded \in 0 .. Blocks
  /\ \A r \in Rings : queue[r] \in Seq(1 .. Blocks + Extra)
                      /\ Len(queue[r]) + held[r] <= Slots(r)
  /\ held \in [Rings -> 0 .. 1]
  /\ {producerDone, ringCancelled, stalled} \subseteq [Rings -> BOOLEAN]
  /\ made \subseteq Rings
  /\ flash \in {"open", "erase", "command", "rings", "loop", "send", "finish",
                "join", "judge", "customise", "finalise", "ended"}
  /\ buffered \in Seq(1 .. Blocks) /\ flashed \in Seq(1 .. Blocks)
  /\ erased \in 0 .. EraseCommands
  /\ canceller \in {"idle", "compressed", "decompressed", "done"}
  /\ signals \in Seq({"success", "error"})

Init ==
  /\ job \in Jobs
  /\ download = "none" /\ received = 0 /\ downloadError = FALSE
  /\ decompress = "none" /\ decoded = 0 /\ decompressError = FALSE
  /\ queue = [r \in Rings |-> <<>>] /\ held = [r \in Rings |-> 0]
  /\ producerDone = [r \in Rings |-> FALSE]
  /\ ringCancelled = [r \in Rings |-> FALSE]
  /\ stalled = [r \in Rings |-> FALSE]
  /\ made = {}
  /\ flash = "open" /\ buffered = <<>> /\ flashed = <<>>
  /\ flashError = FALSE /\ erased = 0
  /\ cancelled = FALSE /\ canceller = "idle"
  /\ signals = <<>>

-----------------------------------------------------------------------------
(* The rings.                                                               *)
Closed(r) == ringCancelled[r] \/ stalled[r]
Full(r) == Len(queue[r]) + held[r] >= Slots(r)
Readable(r) == queue[r] # <<>> /\ ~ringCancelled[r]
Complete(r) == producerDone[r] /\ queue[r] = <<>>

Push(r, x) == queue' = [queue EXCEPT ![r] = Append(@, x)]
Pop(r) == queue' = [queue EXCEPT ![r] = Tail(@)]
Hold(r) == held' = [held EXCEPT ![r] = 1]
Release(r) == held' = [held EXCEPT ![r] = 0]
CancelIf(r, reason) ==
  ringCancelled' = [ringCancelled EXCEPT ![r] = @ \/ reason]
DoneIf(r, reason) ==
  producerDone' = [producerDone EXCEPT ![r] = @ \/ reason]

(* A side has waited for 90 seconds in all and nothing has moved. *)
Stall(r) ==
  /\ stalled' = [stalled EXCEPT ![r] = TRUE]
  /\ UNCHANGED <<queue, held, producerDone, ringCancelled>>
WriterStalls(r) == ~Closed(r) /\ Full(r) /\ Stall(r)
ReaderStalls(r) ==
  ~Closed(r) /\ queue[r] = <<>> /\ ~producerDone[r] /\ Stall(r)

-----------------------------------------------------------------------------
(* The download thread.                                                     *)
Receive ==
  /\ download = "transfer" /\ ~cancelled /\ received < job.chunks
  /\ received' = received + 1
  /\ download' = "push"
  /\ UNCHANGED <<job, downloadError, middle, ring, made, sink, control,
                 signals>>

(* Seeded fault: the slot is not waited for. *)
PushUnasked ==
  /\ download = "push" /\ ~cancelled /\ ~Closed("compressed")
  /\ Push("compressed", received) /\ UNCHANGED <<held, ends>>
  /\ download' = "transfer"
  /\ UNCHANGED <<job, received, downloadError, middle, made, sink, control,
                 signals>>

(* curlWriteToRing finds a slot for what it was given.  A chunk is what one *)
(* slot holds: one that is filled in part when curl returns is committed as *)
(* well, be it the end of the image or a failure, and is the last chunk     *)
(* that was pushed before.                                                  *)
PushChunk ==
  /\ download = "push" /\ ~cancelled
  /\ ~Closed("compressed") /\ ~Full("compressed")
  /\ Push("compressed", received) /\ UNCHANGED <<held, ends>>
  /\ download' = "transfer"
  /\ UNCHANGED <<job, received, downloadError, middle, made, sink, control,
                 signals>>

PushStalls ==
  /\ download = "push" /\ WriterStalls("compressed")
  /\ UNCHANGED <<job, source, middle, made, sink, control, signals>>

(* Seeded fault: a stall is looked at before the cancellation. *)
PushSpins ==
  /\ download = "push" /\ ~stalled["compressed"]
  /\ cancelled \/ ringCancelled["compressed"]
  /\ download' = "failed"
  /\ UNCHANGED <<job, received, downloadError, middle, ring, made, sink,
                 control, signals>>

(* It gives up on a cancellation only: a ring that has stalled refuses it   *)
(* without end, and it asks again.                                          *)
PushAborts ==
  /\ download = "push"
  /\ cancelled \/ ringCancelled["compressed"]
  /\ download' = "failed"
  /\ UNCHANGED <<job, received, downloadError, middle, ring, made, sink,
                 control, signals>>

(* curl_easy_perform returns: all is there, the network failed (or curl     *)
(* could not be set up), or the progress callback saw the cancellation.     *)
TransferEnds ==
  /\ download = "transfer"
  /\ \/ received = job.chunks /\ download' = "complete"
     \/ download' = "failed"
  /\ UNCHANGED <<job, received, downloadError, middle, ring, made, sink,
                 control, signals>>

(* The rest of downloadProducer, but for the slot filled in part (see       *)
(* PushChunk).                                                              *)
DownloadEnds ==
  /\ download \in {"complete", "failed"}
  /\ download' = "ended"
  /\ downloadError' = (~cancelled /\ download = "failed")
  /\ CancelIf("compressed", cancelled \/ download = "failed")
  /\ DoneIf("compressed", ~cancelled /\ download = "complete")
  /\ UNCHANGED <<job, received, queue, held, stalled, middle, made, sink,
                 control, signals>>

DownloadThread ==
  \/ Receive \/ PushChunk \/ PushStalls \/ PushAborts
  \/ TransferEnds \/ DownloadEnds

-----------------------------------------------------------------------------
(* The decompressor.                                                        *)
ArchiveOver == job.format = "checked" /\ decoded = Blocks

(* archiveReadFromRing finds a chunk, and libarchive makes a block of it. *)
ReadChunk ==
  /\ decompress = "read" /\ ~ArchiveOver
  /\ Readable("compressed")
  /\ Pop("compressed") /\ Hold("compressed") /\ UNCHANGED ends
  /\ decompress' = IF cancelled THEN "stop" ELSE "push"
  /\ UNCHANGED <<job, source, decoded, decompressError, made, sink, control,
                 signals>>

ReadStalls ==
  /\ decompress = "read" /\ ~ArchiveOver /\ ReaderStalls("compressed")
  /\ UNCHANGED <<job, source, middle, made, sink, control, signals>>

(* The end of the archive, or of what there is of it: a raw image ends with *)
(* the ring, cancelled or complete; an archive that is cut off, an empty    *)
(* file and a stall are errors.                                             *)
ReadEnds ==
  /\ decompress = "read"
  /\ \/ ArchiveOver /\ decompress' = "end"
     \/ /\ ~ArchiveOver /\ ~Readable("compressed")
        /\ Complete("compressed") \/ Closed("compressed")
        /\ decompress' = IF /\ job.format = "raw" /\ decoded > 0
                            /\ ~stalled["compressed"]
                           THEN "end" ELSE "stop"
  /\ UNCHANGED <<job, source, decoded, decompressError, ring, made, sink,
                 control, signals>>

(* libarchive finds the data corrupt. *)
ArchiveBad ==
  /\ decompress = "read" /\ job.format = "checked"
  /\ decompress' = "stop"
  /\ UNCHANGED <<job, source, decoded, decompressError, ring, made, sink,
                 control, signals>>

(* The block is committed to the decompressed ring, or dropped: when that   *)
(* ring is cancelled, or stalled, which is an error of its own that cancels *)
(* it.  Only the inner loop is left, and the decompression goes on.         *)
PushBlock ==
  /\ decompress = "push"
  /\ ~cancelled /\ ~Closed("decompressed") /\ ~Full("decompressed")
  /\ decoded' = decoded + 1
  /\ Push("decompressed", decoded + 1) /\ Release("compressed")
  /\ UNCHANGED ends
  /\ decompress' = "read"
  /\ UNCHANGED <<job, source, decompressError, made, sink, control, signals>>

DropBlock ==
  /\ decompress = "push"
  /\ cancelled \/ Closed("decompressed")
  /\ LET gaveUp == ~cancelled /\ ~ringCancelled["decompressed"]
     IN  /\ decompressError' = (decompressError \/ gaveUp)
         /\ CancelIf("decompressed", gaveUp)
  /\ Release("compressed")
  /\ decoded' = decoded + 1
  /\ decompress' = "read"
  /\ UNCHANGED <<job, source, queue, producerDone, stalled, made, sink,
                 control, signals>>

BlockStalls ==
  /\ decompress = "push" /\ WriterStalls("decompressed")
  /\ UNCHANGED <<job, source, middle, made, sink, control, signals>>

(* Seeded fault: whatever ended the loop, the stream is declared whole. *)
DecompressEndsAnyhow ==
  /\ decompress \in {"end", "stop"}
  /\ Release("compressed")
  /\ CancelIf("decompressed", cancelled) /\ DoneIf("decompressed", ~cancelled)
  /\ decompress' = "ended"
  /\ UNCHANGED <<job, source, decoded, decompressError, queue, stalled, made,
                 sink, control, signals>>

(* "Only ARCHIVE_EOF means the image ended; anything else means it stopped". *)
DecompressEnds ==
  /\ decompress \in {"end", "stop"}
  /\ decompressError' =
       (decompressError \/ (~cancelled /\ decompress = "stop"))
  /\ Release("compressed")
  /\ CancelIf("decompressed", cancelled \/ decompress = "stop")
  /\ DoneIf("decompressed", ~cancelled /\ decompress = "end")
  /\ decompress' = "ended"
  /\ UNCHANGED <<job, source, decoded, queue, stalled, made, sink, control,
                 signals>>

DecompressThread ==
  \/ ReadChunk \/ ReadStalls \/ ReadEnds \/ ArchiveBad
  \/ PushBlock \/ DropBlock \/ BlockStalls
  \/ DecompressEnds

-----------------------------------------------------------------------------
(* The flash thread.                                                        *)
Tell(answer) == signals' = Append(signals, answer)
Silent == UNCHANGED signals
unsent == <<buffered, flashed>>
flags == <<flashError, erased>>

(* The board is opened and asked what it is. *)
Open ==
  /\ flash = "open"
  /\ \/ Tell("error") /\ flash' = "ended"
     \/ Silent /\ flash' = IF job.erase THEN "erase" ELSE "rings"
  /\ UNCHANGED <<job, source, middle, ring, made, unsent, flags, control>>

(* performErase: the flag is looked at before the first command, and after  *)
(* each of them.                                                            *)
EraseBegins ==
  /\ flash = "erase"
  /\ IF cancelled THEN Tell("error") /\ flash' = "ended"
                  ELSE Silent /\ flash' = "command"
  /\ UNCHANGED <<job, source, middle, ring, made, unsent, flags, control>>

EraseCommand ==
  /\ flash = "command"
  /\ \E obeyed \in BOOLEAN :
       /\ erased' = IF obeyed THEN erased + 1 ELSE erased
       /\ IF cancelled \/ ~obeyed
            THEN Tell("error") /\ flash' = "ended"
            ELSE /\ Silent
                 /\ flash' = IF erased' = EraseCommands THEN "finalise"
                                                        ELSE "command"
  /\ UNCHANGED <<job, source, middle, ring, made, unsent, flashError, control>>

(* The rings are made one after the other, then the threads started. *)
MakeRing(r) ==
  /\ flash = "rings" /\ r \notin made
  /\ r = "decompressed" => "compressed" \in made
  /\ made' = made \cup {r}
  /\ UNCHANGED <<job, source, middle, ring, sink, control, signals>>

StartThreads ==
  /\ flash = "rings" /\ made = Rings
  /\ flash' = "loop" /\ download' = "transfer" /\ decompress' = "read"
  /\ UNCHANGED <<job, received, downloadError, decoded, decompressError,
                 ring, made, unsent, flags, control, signals>>

(* A block is hashed and encoded; it may complete a segment. *)
FeedBlock ==
  /\ flash = "loop" /\ ~cancelled /\ Readable("decompressed")
  /\ buffered' = Append(buffered, Head(queue["decompressed"]))
  /\ Pop("decompressed")
  /\ \/ flash' = "loop" /\ UNCHANGED held
     \/ flash' = "send" /\ Hold("decompressed")
  /\ UNCHANGED <<job, source, middle, ends, made, flashed, flags, control,
                 signals>>

(* sendSegment downloads the segment to the board and has it flashed; from  *)
(* the loop (the slot is held until then) or when the stream is finished.   *)
SendSegment ==
  /\ flash = "send" \/ (flash = "finish" /\ ~cancelled /\ buffered # <<>>)
  /\ flashed' = flashed \o buffered
  /\ buffered' = <<>>
  /\ Release("decompressed")
  /\ flash' = IF flash = "send" THEN "loop" ELSE "finish"
  /\ UNCHANGED <<job, source, middle, queue, ends, made, flags, control,
                 signals>>

SendFails ==
  /\ flash = "send" \/ (flash = "finish" /\ ~cancelled /\ buffered # <<>>)
  /\ IF cancelled THEN Silent ELSE Tell("error")
  /\ flashError' = TRUE
  /\ Release("decompressed")
  /\ flash' = "join"
  /\ UNCHANGED <<job, source, middle, queue, ends, made, unsent, erased,
                 control>>

LoopEnds ==
  /\ flash = "loop"
  /\ \/ cancelled
     \/ ringCancelled["decompressed"]
     \/ Complete("decompressed")
  /\ flash' = "finish"
  /\ UNCHANGED <<job, source, middle, ring, made, unsent, flags, control,
                 signals>>

LoopStalls ==
  /\ flash = "loop" /\ ~cancelled /\ ReaderStalls("decompressed")
  /\ UNCHANGED <<job, source, middle, made, sink, control, signals>>

(* A stall is an error: "breaking quietly would finish the sparse stream as *)
(* though the image ended where the stall began".                           *)
StallEndsLoop ==
  /\ flash = "loop" /\ ~cancelled
  /\ stalled["decompressed"] /\ queue["decompressed"] = <<>>
  /\ ~ringCancelled["decompressed"] /\ ~Complete("decompressed")
  /\ Tell("error")
  /\ flashError' = TRUE
  /\ flash' = "join"
  /\ UNCHANGED <<job, source, middle, ring, made, unsent, erased, control>>

(* Nothing is left to send. *)
FinishEnds ==
  /\ flash = "finish" /\ (cancelled \/ buffered = <<>>)
  /\ flash' = "join"
  /\ UNCHANGED <<job, source, middle, ring, made, unsent, flags, control,
                 signals>>

(* The rings are cancelled here, for a cancel() that came before they were  *)
(* made; after an error of the board they are left open.                    *)
Join ==
  /\ flash = "join"
  /\ ringCancelled' = [r \in Rings |-> ringCancelled[r] \/ cancelled]
  /\ flash' = "judge"
  /\ UNCHANGED <<job, source, middle, queue, held, producerDone, stalled,
                 made, unsent, flags, control, signals>>

Image == [i \in 1 .. Blocks |-> i]
Served == [i \in 1 .. job.chunks |-> i]

(* Seeded fault: a cancellation that nobody reports. *)
JudgeSilently ==
  /\ flash = "judge" /\ download = "ended" /\ decompress = "ended"
  /\ IF (downloadError \/ decompressError) /\ ~cancelled
       THEN Tell("error") /\ flash' = "ended"
       ELSE Silent /\ flash' = IF flashError \/ cancelled THEN "ended"
                                                         ELSE "customise"
  /\ UNCHANGED <<job, source, middle, ring, made, unsent, flags, control>>

(* Both threads have been joined.  An error of the board itself has been    *)
(* told already.                                                            *)
Judge ==
  /\ flash = "judge" /\ download = "ended" /\ decompress = "ended"
  /\ IF \/ downloadError \/ decompressError \/ cancelled
        \/ ~flashError /\ job.hash /\ flashed # Image
       THEN Tell("error") /\ flash' = "ended"
       ELSE Silent /\ flash' = IF flashError THEN "ended" ELSE "customise"
  /\ UNCHANGED <<job, source, middle, ring, made, unsent, flags, control>>

(* applyCustomisation: the first file that cannot be read or written, if    *)
(* only for a cancellation, ends the flash.                                 *)
Customise ==
  /\ flash = "customise"
  /\ \/ Silent /\ flash' = "finalise"
     \/ Tell("error") /\ flash' = "ended"
  /\ UNCHANGED <<job, source, middle, ring, made, unsent, flags, control>>

(* The registration, the boot order and the reboot may fail, and nobody     *)
(* looks at _cancelled any more.                                            *)
Finalise ==
  /\ flash = "finalise"
  /\ Tell("success")
  /\ flash' = "ended"
  /\ UNCHANGED <<job, source, middle, ring, made, unsent, flags, control>>

FlashThread ==
  \/ Open
  \/ EraseBegins \/ EraseCommand
  \/ (\E r \in Rings : MakeRing(r)) \/ StartThreads
  \/ FeedBlock \/ SendSegment \/ SendFails \/ LoopStalls \/ StallEndsLoop
  \/ LoopEnds \/ FinishEnds \/ Join \/ Judge
  \/ Customise \/ Finalise

-----------------------------------------------------------------------------
(* The main thread.                                                         *)
Cancel ==
  /\ canceller = "idle" /\ flash # "ended"
  /\ cancelled' = TRUE
  /\ canceller' = "compressed"
  /\ UNCHANGED <<job, source, middle, ring, made, sink, signals>>

(* onError() cancels a thread that has told of an error and still runs. *)
OnError == signals # <<>> /\ Head(signals) = "error" /\ Cancel

(* cancel() goes on to the rings it can see. *)
CancelRing(r) ==
  /\ canceller = r
  /\ CancelIf(r, r \in made)
  /\ canceller' = IF r = "compressed" THEN "decompressed" ELSE "done"
  /\ UNCHANGED <<job, source, middle, queue, held, producerDone, stalled,
                 made, sink, cancelled, signals>>

MainThread == OnError \/ \E r \in Rings : CancelRing(r)

Next ==
  DownloadThread \/ DecompressThread \/ FlashThread \/ MainThread \/ Cancel

Spec == Init /\ [][Next]_vars

(* The threads run; curl ends a transfer that is too slow, every command to *)
(* the board has a time limit, and a wait for a ring is counted.            *)
FairSpec ==
  /\ Spec
  /\ WF_vars(DownloadThread) /\ WF_vars(DecompressThread)
  /\ WF_vars(FlashThread) /\ WF_vars(MainThread)

-----------------------------------------------------------------------------
Succeeded == \E i \in 1 .. Len(signals) : signals[i] = "success"

(* Success means that the board holds all the server had, in its order and  *)
(* without a gap, and that this is the image wherever a hash or the archive *)
(* itself can tell; that an erase was obeyed to its end; and that no error  *)
(* was told before ("Do not fall through to hash verification /             *)
(* customisation / success()", fastbootflashthread.cpp).                    *)
SuccessMeansFlashed ==
  Succeeded =>
    /\ Len(signals) = 1
    /\ IF job.erase
         THEN erased = EraseCommands
         ELSE /\ flashed = IF job.format = "checked" THEN Image ELSE Served
              /\ job.hash => flashed = Image

(* A flash that is cancelled ends, wherever the cancellation catches its    *)
(* three threads: before the rings are made, between the two of them, in a  *)
(* wait, after a stall.                                                     *)
CancelEnds == cancelled ~> flash = "ended"

(* Every flash ends with an answer, after an error of the board as well,    *)
(* when the rings are left open and the main thread has to cancel; unless   *)
(* the compressed ring has stalled, which the download never notices.       *)
EveryFlashIsAnswered ==
  <>(stalled["compressed"] \/ (flash = "ended" /\ signals # <<>>))
=============================================================================
