------------------------- MODULE FastbootFlashProofs -------------------------
(***************************************************************************)
(* A success of the fastboot flash means that the board has the image,      *)
(* whatever the number of blocks and of slots, and wherever a cancellation, *)
(* a stall or a failure catches the three threads.                          *)
(***************************************************************************)
EXTENDS FastbootFlash, TLAPS

-----------------------------------------------------------------------------
(* The inductive invariant. *)

Answers == {"success", "error"}
Typed ==
  /\ job \in Jobs
  /\ received \in Nat /\ decoded \in Nat /\ erased \in Nat
  /\ downloadError \in BOOLEAN /\ decompressError \in BOOLEAN
  /\ flashError \in BOOLEAN /\ cancelled \in BOOLEAN
  /\ buffered \in Seq(Nat) /\ flashed \in Seq(Nat)
  /\ signals \in Seq(Answers)

RingsTyped ==
  /\ queue \in [Rings -> Seq(Nat)]
  /\ producerDone \in [Rings -> BOOLEAN]
  /\ ringCancelled \in [Rings -> BOOLEAN]

(* Before the threads run there is nothing anywhere. *)
Early == flash \in {"open", "erase", "command", "rings"}
NothingEarly ==
  Early =>
    /\ download = "none" /\ decompress = "none"
    /\ received = 0 /\ decoded = 0
    /\ ~downloadError /\ ~decompressError /\ ~flashError
    /\ buffered = <<>> /\ flashed = <<>>
    /\ \A r \in Rings : queue[r] = <<>> /\ ~producerDone[r]

(* The job goes its own way. *)
OwnWay ==
  /\ flash \in {"erase", "command"} => job.erase
  /\ flash \in {"rings", "loop", "send", "finish", "join", "judge", "customise"}
       => ~job.erase

(* Who closes a ring says why. *)
Reasons ==
  /\ ringCancelled["compressed"] => cancelled \/ downloadError
  /\ ringCancelled["decompressed"] => cancelled \/ decompressError
  /\ decompressError => ringCancelled["decompressed"]
  /\ downloadError => download = "ended"
  /\ canceller # "idle" => cancelled

(* No chunk is lost on the way to the decompressor ... *)
One(condition) == IF condition THEN 1 ELSE 0
Counted ==
  /\ ~cancelled =>
       received = decoded + One(decompress = "push")
                    + Len(queue["compressed"]) + One(download = "push")
  /\ download = "complete" \/ producerDone["compressed"] =>
       received = job.chunks
  /\ producerDone["compressed"] => download = "ended"

(* ... which does not take anything but the end for the end ... *)
EndIsEnd ==
  /\ decompress = "end" \/ producerDone["decompressed"] =>
       IF job.format = "checked"
         THEN decoded = Blocks
         ELSE cancelled \/ downloadError \/ Complete("compressed")
  /\ producerDone["decompressed"] => decompress = "ended"

(* ... and what it makes goes to the board in its order. *)
From(seq, n) == \A i \in 1 .. Len(seq) : seq[i] = n + i
InOrder ==
  /\ From(flashed, 0)
  /\ From(buffered, Len(flashed))
  /\ From(queue["decompressed"], Len(flashed) + Len(buffered))
  /\ ~cancelled /\ ~decompressError =>
       decoded = Len(flashed) + Len(buffered) + Len(queue["decompressed"])

(* The loop leaves nothing behind, unless there is a reason not to succeed. *)
Drained ==
  ~cancelled /\ ~flashError =>
    /\ flash \in {"finish", "join", "judge"} =>
         ringCancelled["decompressed"] \/ Complete("decompressed")
    /\ flash \in {"join", "judge"} => buffered = <<>>

Whole ==
  IF job.erase
    THEN erased = EraseCommands
    ELSE /\ flashed = IF job.format = "checked" THEN Image ELSE Served
         /\ job.hash => flashed = Image

Told ==
  /\ flash # "ended" /\ ~flashError => signals = <<>>
  /\ flash \in {"customise", "finalise"} => ~flashError /\ Whole
  /\ Succeeded => flash = "ended" /\ Len(signals) = 1 /\ Whole

IInv ==
  /\ Typed /\ RingsTyped /\ NothingEarly /\ OwnWay /\ Reasons /\ Counted
  /\ EndIsEnd /\ InOrder /\ Drained /\ Told

-----------------------------------------------------------------------------
(* What is expanded in all that follows. *)
USE DEF source, middle, sink, control, ring, ends, unsent, flags, Silent,
        Closed, Full, Readable, Complete, WriterStalls, ReaderStalls, Stall,
        Push, Pop, Hold, Release, CancelIf, DoneIf, Rings

(* Sums taken apart and put together again. *)
LEMMA Regroup ==
  ASSUME NEW a \in Nat, NEW b \in Nat, NEW c \in Nat
  PROVE  /\ a + (b + 1) = a + b + 1
         /\ a + (b + 1) + (c - 1) = a + b + c
         /\ a + 1 + (b - 1) + c = a + 0 + b + c
         /\ a + b + (c + 1) + 0 = a + b + c + 1
  OBVIOUS

(* A run of blocks grows at its end and is eaten from its beginning. *)
LEMMA FromAppend ==
  ASSUME NEW q \in Seq(Nat), NEW n \in Nat, From(q, n)
  PROVE  /\ From(Append(q, n + Len(q) + 1), n)
         /\ Len(Append(q, n + Len(q) + 1)) = Len(q) + 1
         /\ Len(q) \in Nat
  BY DEF From

(* What follows the first of a run is a run. *)
LEMMA FromTail ==
  ASSUME NEW q \in Seq(Nat), q # <<>>, NEW n \in Nat, From(q, n)
  PROVE  /\ From(Tail(q), n + 1)
         /\ Head(q) = n + 1
         /\ Len(q) \in Nat /\ Len(Tail(q)) = Len(q) - 1
<1>1. Len(q) \in Nat \ {0} /\ Head(q) = q[1]
  OBVIOUS
<1>2. /\ Len(Tail(q)) = Len(q) - 1
      /\ \A i \in 1 .. Len(Tail(q)) : Tail(q)[i] = q[i + 1]
  OBVIOUS
<1> QED
  BY <1>1, <1>2 DEF From

(* An error told after no success leaves it at that. *)
LEMMA ErrorTold ==
  ASSUME signals \in Seq(Answers), Tell("error")
  PROVE  signals' \in Seq(Answers) /\ (Succeeded' => Succeeded)
<1>1. /\ signals' \in Seq(Answers)
      /\ Len(signals') = Len(signals) + 1
      /\ signals'[Len(signals) + 1] = "error"
      /\ \A i \in 1 .. Len(signals) : signals'[i] = signals[i]
  BY DEF Answers, Tell
<1>2. ASSUME NEW i \in 1 .. Len(signals'), signals'[i] = "success"
      PROVE  i \in 1 .. Len(signals) /\ signals[i] = "success"
  <2>1. i # Len(signals) + 1
    BY <1>1, <1>2
  <2> QED
    BY <1>1, <1>2, <2>1
<1> QED
  BY <1>1, <1>2 DEF Succeeded

(* The first answer, when it is a success. *)
LEMMA SuccessTold ==
  ASSUME signals = <<>>, Tell("success")
  PROVE  signals' \in Seq(Answers) /\ Len(signals') = 1
  BY DEF Answers, Tell

(* The flash thread says success at its very end only. *)
LEMMA FlashTells ==
  ASSUME IInv, FlashThread
  PROVE  /\ signals' \in Seq(Answers)
         /\ Succeeded' => Finalise /\ Len(signals') = 1
<1>1. \/ UNCHANGED signals
      \/ Tell("error")
      \/ Finalise
  BY DEF FlashThread, Open, EraseBegins, EraseCommand, MakeRing,
    StartThreads, FeedBlock, SendSegment, SendFails, LoopStalls,
    StallEndsLoop, LoopEnds, FinishEnds, Join, Judge, Customise
<1>2. flash # "ended"
  BY DEF FlashThread, Open, EraseBegins, EraseCommand, MakeRing,
    StartThreads, FeedBlock, SendSegment, SendFails, LoopStalls,
    StallEndsLoop, LoopEnds, FinishEnds, Join, Judge, Customise, Finalise
<1>3. ~Succeeded /\ signals \in Seq(Answers)
  BY <1>2 DEF IInv, Told, Typed
<1>4. CASE UNCHANGED signals
  BY <1>3, <1>4 DEF Succeeded
<1>5. CASE Tell("error")
  BY <1>3, <1>5, ErrorTold
<1>6. CASE Finalise
  <2>1. signals = <<>> /\ Tell("success")
    BY <1>6 DEF Finalise, IInv, Told
  <2> QED
    BY <1>6, <2>1, SuccessTold
<1> QED
  BY <1>1, <1>4, <1>5, <1>6

(* What the judge lets through is whole: nothing was cut short, dropped or  *)
(* left behind.                                                             *)
LEMMA JudgedIsWhole ==
  ASSUME IInv, flash = "judge", download = "ended", decompress = "ended",
         ~downloadError, ~decompressError, ~cancelled, ~flashError,
         job.hash => flashed = Image
  PROVE  Whole
<1>1. Complete("decompressed") /\ buffered = <<>>
  BY DEF IInv, Drained, Reasons
<1>2. decoded = Len(flashed)
  BY <1>1 DEF IInv, InOrder, Typed
<1>3. flashed \in Seq(Nat) /\ \A i \in 1 .. Len(flashed) : flashed[i] = i
  BY DEF IInv, InOrder, From, Typed
<1>4. flashed = [i \in 1 .. Len(flashed) |-> i]
  BY <1>3
<1>5. CASE job.format = "checked"
  BY <1>1, <1>2, <1>4, <1>5 DEF IInv, EndIsEnd, Whole, Image, OwnWay
<1>6. CASE job.format # "checked"
  <2>1. Complete("compressed")
    BY <1>1, <1>6 DEF IInv, EndIsEnd
  <2>2. decoded = job.chunks
    BY <2>1 DEF IInv, Counted, One, Typed
  <2> QED
    BY <1>2, <1>4, <1>6, <2>2 DEF IInv, Whole, Served, OwnWay
<1> QED
  BY <1>5, <1>6

(* Every step keeps the types. *)
LEMMA KeepsTyped ==
  ASSUME IInv, Next
  PROVE  Typed'
<1>1. CASE DownloadThread
  <2>1. CASE Receive
    BY <2>1 DEF IInv, Typed, RingsTyped, Receive
  <2>2. CASE PushChunk
    BY <2>2 DEF IInv, Typed, RingsTyped, PushChunk
  <2>3. CASE PushStalls
    BY <2>3 DEF IInv, Typed, RingsTyped, PushStalls
  <2>4. CASE PushAborts
    BY <2>4 DEF IInv, Typed, RingsTyped, PushAborts
  <2>5. CASE TransferEnds
    BY <2>5 DEF IInv, Typed, RingsTyped, TransferEnds
  <2>6. CASE DownloadEnds
    BY <2>6 DEF IInv, Typed, RingsTyped, DownloadEnds
  <2> QED
    BY <1>1, <2>1, <2>2, <2>3, <2>4, <2>5, <2>6 DEF DownloadThread
<1>2. CASE DecompressThread
  <2>1. CASE ReadChunk
    BY <2>1 DEF IInv, Typed, RingsTyped, ReadChunk
  <2>2. CASE ReadStalls
    BY <2>2 DEF IInv, Typed, RingsTyped, ReadStalls
  <2>3. CASE ReadEnds
    BY <2>3 DEF IInv, Typed, RingsTyped, ReadEnds
  <2>4. CASE ArchiveBad
    BY <2>4 DEF IInv, Typed, RingsTyped, ArchiveBad
  <2>5. CASE PushBlock
    BY <2>5 DEF IInv, Typed, RingsTyped, PushBlock
  <2>6. CASE DropBlock
    BY <2>6 DEF IInv, Typed, RingsTyped, DropBlock
  <2>7. CASE BlockStalls
    BY <2>7 DEF IInv, Typed, RingsTyped, BlockStalls
  <2>8. CASE DecompressEnds
    BY <2>8 DEF IInv, Typed, RingsTyped, DecompressEnds
  <2> QED
    BY <1>2, <2>1, <2>2, <2>3, <2>4, <2>5, <2>6, <2>7, <2>8 DEF
      DecompressThread
<1>3. CASE FlashThread
  <2>1. CASE Open
    BY <1>3, <2>1, FlashTells DEF IInv, Typed, RingsTyped, Open
  <2>2. CASE EraseBegins
    BY <1>3, <2>2, FlashTells DEF IInv, Typed, RingsTyped, EraseBegins
  <2>3. CASE EraseCommand
    BY <1>3, <2>3, FlashTells DEF IInv, Typed, RingsTyped, EraseCommand
  <2>4. ASSUME NEW r \in Rings, MakeRing(r)
      PROVE  Typed'
    BY <2>4 DEF IInv, Typed, RingsTyped, MakeRing
  <2>5. CASE StartThreads
    BY <2>5 DEF IInv, Typed, RingsTyped, StartThreads
  <2>6. CASE FeedBlock
    BY <2>6 DEF IInv, Typed, RingsTyped, FeedBlock
  <2>7. CASE SendSegment
    BY <2>7 DEF IInv, Typed, RingsTyped, SendSegment
  <2>8. CASE SendFails
    BY <1>3, <2>8, FlashTells DEF IInv, Typed, RingsTyped, SendFails
  <2>9. CASE LoopStalls
    BY <2>9 DEF IInv, Typed, RingsTyped, LoopStalls
  <2>10. CASE StallEndsLoop
    BY <1>3, <2>10, FlashTells DEF IInv, Typed, RingsTyped, StallEndsLoop
  <2>11. CASE LoopEnds
    BY <2>11 DEF IInv, Typed, RingsTyped, LoopEnds
  <2>12. CASE FinishEnds
    BY <2>12 DEF IInv, Typed, RingsTyped, FinishEnds
  <2>13. CASE Join
    BY <2>13 DEF IInv, Typed, RingsTyped, Join
  <2>14. CASE Judge
    BY <1>3, <2>14, FlashTells DEF IInv, Typed, RingsTyped, Judge
  <2>15. CASE Customise
    BY <1>3, <2>15, FlashTells DEF IInv, Typed, RingsTyped, Customise
  <2>16. CASE Finalise
    BY <1>3, <2>16, FlashTells DEF IInv, Typed, RingsTyped, Finalise
  <2> QED
    BY <1>3, <2>1, <2>2, <2>3, <2>4, <2>5, <2>6, <2>7, <2>8, <2>9, <2>10,
      <2>11, <2>12, <2>13, <2>14, <2>15, <2>16 DEF FlashThread
<1>4. CASE MainThread \/ Cancel
  <2>1. CASE Cancel
    BY <2>1 DEF IInv, Typed, RingsTyped, Cancel
  <2>2. ASSUME NEW r \in Rings, CancelRing(r)
        PROVE  Typed'
    BY <2>2 DEF IInv, Typed, RingsTyped, CancelRing
  <2> QED
    BY <1>4, <2>1, <2>2 DEF MainThread, OnError
<1> QED
  BY <1>1, <1>2, <1>3, <1>4 DEF Next

(* ... and those of the rings. *)
LEMMA KeepsRingsTyped ==
  ASSUME IInv, Next
  PROVE  RingsTyped'
<1>1. CASE DownloadThread
  <2>1. CASE PushChunk
    BY <2>1 DEF IInv, RingsTyped, Typed, Jobs, PushChunk
  <2>2. CASE Receive \/ PushStalls \/ PushAborts \/ TransferEnds \/
    DownloadEnds
    BY <2>2 DEF IInv, RingsTyped, Typed, Jobs, Receive, PushStalls,
      PushAborts, TransferEnds, DownloadEnds
  <2> QED
    BY <1>1, <2>1, <2>2 DEF DownloadThread
<1>2. CASE DecompressThread
  <2>1. CASE ReadChunk
    BY <2>1 DEF IInv, RingsTyped, Typed, Jobs, ReadChunk
  <2>2. CASE PushBlock
    BY <2>2 DEF IInv, RingsTyped, Typed, Jobs, PushBlock
  <2>3. CASE ReadStalls \/ ReadEnds \/ ArchiveBad \/ DropBlock \/ BlockStalls
    \/ DecompressEnds
    BY <2>3 DEF IInv, RingsTyped, Typed, Jobs, ReadStalls, ReadEnds,
      ArchiveBad, DropBlock, BlockStalls, DecompressEnds
  <2> QED
    BY <1>2, <2>1, <2>2, <2>3 DEF DecompressThread
<1>3. CASE FlashThread
  <2>1. CASE FeedBlock
    BY <2>1 DEF IInv, RingsTyped, Typed, Jobs, FeedBlock
  <2>2. CASE Open \/ EraseBegins \/ EraseCommand \/ (\E r \in Rings :
    MakeRing(r)) \/ StartThreads \/ SendSegment \/ SendFails \/ LoopStalls \/
    StallEndsLoop \/ LoopEnds \/ FinishEnds \/ Join \/ Judge \/ Customise \/
    Finalise
    BY <2>2 DEF IInv, RingsTyped, Typed, Jobs, Open, EraseBegins,
      EraseCommand, MakeRing, StartThreads, SendSegment, SendFails,
      LoopStalls, StallEndsLoop, LoopEnds, FinishEnds, Join, Judge, Customise,
      Finalise
  <2> QED
    BY <1>3, <2>1, <2>2 DEF FlashThread
<1>4. CASE MainThread \/ Cancel
  BY <1>4 DEF IInv, RingsTyped, Typed, Jobs, MainThread, OnError, Cancel,
    CancelRing
<1> QED
  BY <1>1, <1>2, <1>3, <1>4 DEF Next

(* Nothing moves before the threads run. *)
LEMMA KeepsNothingEarly ==
  ASSUME IInv, Next
  PROVE  NothingEarly'
<1>1. CASE DownloadThread
  BY <1>1 DEF IInv, NothingEarly, Early, RingsTyped, Typed, DownloadThread,
    Receive, PushChunk, PushStalls, PushAborts, TransferEnds, DownloadEnds
<1>2. CASE DecompressThread
  BY <1>2 DEF IInv, NothingEarly, Early, RingsTyped, Typed, DecompressThread,
    ReadChunk, ReadStalls, ReadEnds, ArchiveBad, PushBlock, DropBlock,
    BlockStalls, DecompressEnds
<1>3. CASE FlashThread
  BY <1>3 DEF IInv, NothingEarly, Early, RingsTyped, Typed, FlashThread, Open,
    EraseBegins, EraseCommand, MakeRing, StartThreads, FeedBlock, SendSegment,
    SendFails, LoopStalls, StallEndsLoop, LoopEnds, FinishEnds, Join, Judge,
    Customise, Finalise
<1>4. CASE MainThread \/ Cancel
  BY <1>4 DEF IInv, NothingEarly, Early, RingsTyped, Typed, MainThread,
    OnError, Cancel, CancelRing
<1> QED
  BY <1>1, <1>2, <1>3, <1>4 DEF Next

(* The two jobs do not mix. *)
LEMMA KeepsOwnWay ==
  ASSUME IInv, Next
  PROVE  OwnWay'
<1>1. CASE DownloadThread
  BY <1>1 DEF IInv, OwnWay, DownloadThread, Receive, PushChunk, PushStalls,
    PushAborts, TransferEnds, DownloadEnds
<1>2. CASE DecompressThread
  BY <1>2 DEF IInv, OwnWay, DecompressThread, ReadChunk, ReadStalls, ReadEnds,
    ArchiveBad, PushBlock, DropBlock, BlockStalls, DecompressEnds
<1>3. CASE FlashThread
  BY <1>3 DEF IInv, OwnWay, FlashThread, Open, EraseBegins, EraseCommand,
    MakeRing, StartThreads, FeedBlock, SendSegment, SendFails, LoopStalls,
    StallEndsLoop, LoopEnds, FinishEnds, Join, Judge, Customise, Finalise
<1>4. CASE MainThread \/ Cancel
  BY <1>4 DEF IInv, OwnWay, MainThread, OnError, Cancel, CancelRing
<1> QED
  BY <1>1, <1>2, <1>3, <1>4 DEF Next

(* No ring is cancelled without a reason. *)
LEMMA KeepsReasons ==
  ASSUME IInv, Next
  PROVE  Reasons'
<1>1. CASE DownloadThread
  <2>1. CASE Receive
    BY <2>1 DEF IInv, Reasons, RingsTyped, Typed, NothingEarly, Early, Receive
  <2>2. CASE PushChunk
    BY <2>2 DEF IInv, Reasons, RingsTyped, Typed, NothingEarly, Early,
      PushChunk
  <2>3. CASE PushStalls
    BY <2>3 DEF IInv, Reasons, RingsTyped, Typed, NothingEarly, Early,
      PushStalls
  <2>4. CASE PushAborts
    BY <2>4 DEF IInv, Reasons, RingsTyped, Typed, NothingEarly, Early,
      PushAborts
  <2>5. CASE TransferEnds
    BY <2>5 DEF IInv, Reasons, RingsTyped, Typed, NothingEarly, Early,
      TransferEnds
  <2>6. CASE DownloadEnds
    BY <2>6 DEF IInv, Reasons, RingsTyped, Typed, NothingEarly, Early,
      DownloadEnds
  <2> QED
    BY <1>1, <2>1, <2>2, <2>3, <2>4, <2>5, <2>6 DEF DownloadThread
<1>2. CASE DecompressThread
  <2>1. CASE ReadChunk
    BY <2>1 DEF IInv, Reasons, RingsTyped, Typed, NothingEarly, Early,
      ReadChunk
  <2>2. CASE ReadStalls
    BY <2>2 DEF IInv, Reasons, RingsTyped, Typed, NothingEarly, Early,
      ReadStalls
  <2>3. CASE ReadEnds
    BY <2>3 DEF IInv, Reasons, RingsTyped, Typed, NothingEarly, Early,
      ReadEnds
  <2>4. CASE ArchiveBad
    BY <2>4 DEF IInv, Reasons, RingsTyped, Typed, NothingEarly, Early,
      ArchiveBad
  <2>5. CASE PushBlock
    BY <2>5 DEF IInv, Reasons, RingsTyped, Typed, NothingEarly, Early,
      PushBlock
  <2>6. CASE DropBlock
    BY <2>6 DEF IInv, Reasons, RingsTyped, Typed, NothingEarly, Early,
      DropBlock
  <2>7. CASE BlockStalls
    BY <2>7 DEF IInv, Reasons, RingsTyped, Typed, NothingEarly, Early,
      BlockStalls
  <2>8. CASE DecompressEnds
    BY <2>8 DEF IInv, Reasons, RingsTyped, Typed, NothingEarly, Early,
      DecompressEnds
  <2> QED
    BY <1>2, <2>1, <2>2, <2>3, <2>4, <2>5, <2>6, <2>7, <2>8 DEF
      DecompressThread
<1>3. CASE FlashThread
  <2>1. CASE Open
    BY <2>1 DEF IInv, Reasons, RingsTyped, Typed, NothingEarly, Early, Open
  <2>2. CASE EraseBegins
    BY <2>2 DEF IInv, Reasons, RingsTyped, Typed, NothingEarly, Early,
      EraseBegins
  <2>3. CASE EraseCommand
    BY <2>3 DEF IInv, Reasons, RingsTyped, Typed, NothingEarly, Early,
      EraseCommand
  <2>4. ASSUME NEW r \in Rings, MakeRing(r)
      PROVE  Reasons'
    BY <2>4 DEF IInv, Reasons, RingsTyped, Typed, NothingEarly, Early,
      MakeRing
  <2>5. CASE StartThreads
    BY <2>5 DEF IInv, Reasons, RingsTyped, Typed, NothingEarly, Early,
      StartThreads
  <2>6. CASE FeedBlock
    BY <2>6 DEF IInv, Reasons, RingsTyped, Typed, NothingEarly, Early,
      FeedBlock
  <2>7. CASE SendSegment
    BY <2>7 DEF IInv, Reasons, RingsTyped, Typed, NothingEarly, Early,
      SendSegment
  <2>8. CASE SendFails
    BY <2>8 DEF IInv, Reasons, RingsTyped, Typed, NothingEarly, Early,
      SendFails
  <2>9. CASE LoopStalls
    BY <2>9 DEF IInv, Reasons, RingsTyped, Typed, NothingEarly, Early,
      LoopStalls
  <2>10. CASE StallEndsLoop
    BY <2>10 DEF IInv, Reasons, RingsTyped, Typed, NothingEarly, Early,
      StallEndsLoop
  <2>11. CASE LoopEnds
    BY <2>11 DEF IInv, Reasons, RingsTyped, Typed, NothingEarly, Early,
      LoopEnds
  <2>12. CASE FinishEnds
    BY <2>12 DEF IInv, Reasons, RingsTyped, Typed, NothingEarly, Early,
      FinishEnds
  <2>13. CASE Join
    BY <2>13 DEF IInv, Reasons, RingsTyped, Typed, NothingEarly, Early, Join
  <2>14. CASE Judge
    BY <2>14 DEF IInv, Reasons, RingsTyped, Typed, NothingEarly, Early, Judge
  <2>15. CASE Customise
    BY <2>15 DEF IInv, Reasons, RingsTyped, Typed, NothingEarly, Early,
      Customise
  <2>16. CASE Finalise
    BY <2>16 DEF IInv, Reasons, RingsTyped, Typed, NothingEarly, Early,
      Finalise
  <2> QED
    BY <1>3, <2>1, <2>2, <2>3, <2>4, <2>5, <2>6, <2>7, <2>8, <2>9, <2>10,
      <2>11, <2>12, <2>13, <2>14, <2>15, <2>16 DEF FlashThread
<1>4. CASE MainThread \/ Cancel
  <2>1. CASE Cancel
    BY <2>1 DEF IInv, Reasons, RingsTyped, Typed, NothingEarly, Early, Cancel
  <2>2. ASSUME NEW r \in Rings, CancelRing(r)
        PROVE  Reasons'
    BY <2>2 DEF IInv, Reasons, RingsTyped, Typed, NothingEarly, Early,
      CancelRing
  <2> QED
    BY <1>4, <2>1, <2>2 DEF MainThread, OnError
<1> QED
  BY <1>1, <1>2, <1>3, <1>4 DEF Next

(* No chunk is lost. *)
LEMMA KeepsCounted ==
  ASSUME IInv, Next
  PROVE  Counted'
<1>1. CASE DownloadThread
  <2>1. CASE Receive
    BY <2>1 DEF IInv, Counted, RingsTyped, One, Typed, Reasons, NothingEarly,
      Early, Receive
  <2>2. CASE PushChunk
    <3>1. /\ queue'["compressed"] = Append(queue["compressed"], received)
          /\ queue["compressed"] \in Seq(Nat) /\ received \in Nat
      BY <2>2 DEF PushChunk, IInv, RingsTyped, Typed
    <3>2. /\ Len(queue'["compressed"]) = Len(queue["compressed"]) + 1
          /\ Len(queue["compressed"]) \in Nat
      BY <3>1
    <3>3. received = decoded + One(decompress = "push")
                       + Len(queue["compressed"]) + 1
      BY <2>2 DEF PushChunk, IInv, Counted, One
    <3>4. /\ ~producerDone["compressed"]
          /\ UNCHANGED <<received, decoded, decompress, ends>>
          /\ download' = "transfer"
      BY <2>2 DEF PushChunk, IInv, Counted
    <3>5. decoded \in Nat /\ One(decompress = "push") \in Nat
            /\ One(download' = "push") = 0
      BY <3>4 DEF IInv, Typed, One
    <3>6. received' = decoded' + One(decompress' = "push")
                       + Len(queue'["compressed"]) + One(download' = "push")
      BY <3>2, <3>3, <3>4, <3>5, Regroup
    <3> QED
      BY <3>4, <3>5, <3>6 DEF Counted
  <2>3. CASE PushStalls
    BY <2>3 DEF IInv, Counted, RingsTyped, One, Typed, Reasons, NothingEarly,
      Early, PushStalls
  <2>4. CASE PushAborts
    BY <2>4 DEF IInv, Counted, RingsTyped, One, Typed, Reasons, NothingEarly,
      Early, PushAborts
  <2>5. CASE TransferEnds
    BY <2>5 DEF IInv, Counted, RingsTyped, One, Typed, Reasons, NothingEarly,
      Early, TransferEnds
  <2>6. CASE DownloadEnds
    BY <2>6 DEF IInv, Counted, RingsTyped, One, Typed, Reasons, NothingEarly,
      Early, DownloadEnds
  <2> QED
    BY <1>1, <2>1, <2>2, <2>3, <2>4, <2>5, <2>6 DEF DownloadThread
<1>2. CASE DecompressThread
  <2>1. CASE ReadChunk
    <3>1. /\ queue'["compressed"] = Tail(queue["compressed"])
          /\ queue["compressed"] \in Seq(Nat) /\ queue["compressed"] # <<>>
      BY <2>1 DEF ReadChunk, IInv, RingsTyped
    <3>2. /\ Len(queue'["compressed"]) = Len(queue["compressed"]) - 1
          /\ Len(queue["compressed"]) \in Nat
      BY <3>1
    <3>3. decoded \in Nat /\ One(download = "push") \in Nat
      BY DEF IInv, Typed, One
    <3>4. /\ UNCHANGED <<received, decoded, download, cancelled, job, ends>>
          /\ decompress = "read" /\ (~cancelled => decompress' = "push")
      BY <2>1 DEF ReadChunk
    <3>5. /\ One(decompress = "push") = 0
          /\ ~cancelled => One(decompress' = "push") = 1
      BY <3>4 DEF One
    <3>6. ~cancelled => received = decoded + One(decompress' = "push")
                          + Len(queue'["compressed"]) + One(download = "push")
      BY <3>2, <3>3, <3>5, Regroup DEF IInv, Counted
    <3> QED
      BY <3>4, <3>6 DEF IInv, Counted, One
  <2>2. CASE ReadStalls
    BY <2>2 DEF IInv, Counted, RingsTyped, One, Typed, Reasons, NothingEarly,
      Early, ReadStalls
  <2>3. CASE ReadEnds
    BY <2>3 DEF IInv, Counted, RingsTyped, One, Typed, Reasons, NothingEarly,
      Early, ReadEnds
  <2>4. CASE ArchiveBad
    BY <2>4 DEF IInv, Counted, RingsTyped, One, Typed, Reasons, NothingEarly,
      Early, ArchiveBad
  <2>5. CASE PushBlock
    BY <2>5 DEF IInv, Counted, RingsTyped, One, Typed, Reasons, NothingEarly,
      Early, PushBlock
  <2>6. CASE DropBlock
    BY <2>6 DEF IInv, Counted, RingsTyped, One, Typed, Reasons, NothingEarly,
      Early, DropBlock
  <2>7. CASE BlockStalls
    BY <2>7 DEF IInv, Counted, RingsTyped, One, Typed, Reasons, NothingEarly,
      Early, BlockStalls
  <2>8. CASE DecompressEnds
    BY <2>8 DEF IInv, Counted, RingsTyped, One, Typed, Reasons, NothingEarly,
      Early, DecompressEnds
  <2> QED
    BY <1>2, <2>1, <2>2, <2>3, <2>4, <2>5, <2>6, <2>7, <2>8 DEF
      DecompressThread
<1>3. CASE FlashThread
  BY <1>3 DEF IInv, Counted, RingsTyped, One, Typed, Reasons, NothingEarly,
    Early, FlashThread, Open, EraseBegins, EraseCommand, MakeRing,
    StartThreads, FeedBlock, SendSegment, SendFails, LoopStalls,
    StallEndsLoop, LoopEnds, FinishEnds, Join, Judge, Customise, Finalise
<1>4. CASE MainThread \/ Cancel
  BY <1>4 DEF IInv, Counted, RingsTyped, One, Typed, Reasons, NothingEarly,
    Early, MainThread, OnError, Cancel, CancelRing
<1> QED
  BY <1>1, <1>2, <1>3, <1>4 DEF Next

(* Only the end is taken for the end. *)
LEMMA KeepsEndIsEnd ==
  ASSUME IInv, Next
  PROVE  EndIsEnd'
<1>1. CASE DownloadThread
  BY <1>1 DEF IInv, EndIsEnd, RingsTyped, ArchiveOver, Typed, Reasons,
    Counted, NothingEarly, Early, DownloadThread, Receive, PushChunk,
    PushStalls, PushAborts, TransferEnds, DownloadEnds
<1>2. CASE DecompressThread
  BY <1>2 DEF IInv, EndIsEnd, RingsTyped, ArchiveOver, Typed, Reasons,
    Counted, NothingEarly, Early, DecompressThread, ReadChunk, ReadStalls,
    ReadEnds, ArchiveBad, PushBlock, DropBlock, BlockStalls, DecompressEnds
<1>3. CASE FlashThread
  BY <1>3 DEF IInv, EndIsEnd, RingsTyped, ArchiveOver, Typed, Reasons,
    Counted, NothingEarly, Early, FlashThread, Open, EraseBegins,
    EraseCommand, MakeRing, StartThreads, FeedBlock, SendSegment, SendFails,
    LoopStalls, StallEndsLoop, LoopEnds, FinishEnds, Join, Judge, Customise,
    Finalise
<1>4. CASE MainThread \/ Cancel
  BY <1>4 DEF IInv, EndIsEnd, RingsTyped, ArchiveOver, Typed, Reasons,
    Counted, NothingEarly, Early, MainThread, OnError, Cancel, CancelRing
<1> QED
  BY <1>1, <1>2, <1>3, <1>4 DEF Next

(* The blocks keep their order. *)
LEMMA KeepsInOrder ==
  ASSUME IInv, Next
  PROVE  InOrder'
<1>1. CASE DownloadThread
  BY <1>1 DEF IInv, InOrder, RingsTyped, From, Typed, Reasons, DownloadThread,
    Receive, PushChunk, PushStalls, PushAborts, TransferEnds, DownloadEnds
<1>2. CASE DecompressThread
  <2>1. CASE ReadChunk
    BY <2>1 DEF IInv, InOrder, RingsTyped, From, Typed, Reasons, ReadChunk
  <2>2. CASE ReadStalls
    BY <2>2 DEF IInv, InOrder, RingsTyped, From, Typed, Reasons, ReadStalls
  <2>3. CASE ReadEnds
    BY <2>3 DEF IInv, InOrder, RingsTyped, From, Typed, Reasons, ReadEnds
  <2>4. CASE ArchiveBad
    BY <2>4 DEF IInv, InOrder, RingsTyped, From, Typed, Reasons, ArchiveBad
  <2>5. CASE PushBlock
    <3>1. /\ queue["decompressed"] \in Seq(Nat)
          /\ flashed \in Seq(Nat) /\ buffered \in Seq(Nat)
      BY DEF IInv, RingsTyped, Typed
    <3>2. ~cancelled /\ ~decompressError
      BY <2>5 DEF PushBlock, IInv, Reasons
    <3>3. PICK q \in Seq(Nat), n \in Nat :
            q = queue["decompressed"] /\ n = Len(flashed) + Len(buffered)
      BY <3>1
    <3>4. From(q, n) /\ decoded = n + Len(q)
      BY <3>1, <3>2, <3>3 DEF IInv, InOrder
    <3>5. /\ queue'["decompressed"] = Append(q, n + Len(q) + 1)
          /\ decoded' = n + Len(q) + 1
          /\ UNCHANGED <<flashed, buffered>>
      BY <2>5, <3>3, <3>4 DEF PushBlock, IInv, RingsTyped
    <3>6. /\ From(Append(q, n + Len(q) + 1), n)
          /\ Len(Append(q, n + Len(q) + 1)) = Len(q) + 1
          /\ Len(q) \in Nat
      BY <3>3, <3>4, FromAppend
    <3> HIDE DEF From
    <3>7. From(flashed, 0) /\ From(buffered, Len(flashed))
      BY DEF IInv, InOrder
    <3>8. decoded' = n + (Len(q) + 1)
      BY <3>5, <3>6, Regroup
    <3> QED
      BY <3>3, <3>5, <3>6, <3>7, <3>8 DEF InOrder
  <2>6. CASE DropBlock
    BY <2>6 DEF IInv, InOrder, RingsTyped, From, Typed, Reasons, DropBlock
  <2>7. CASE BlockStalls
    BY <2>7 DEF IInv, InOrder, RingsTyped, From, Typed, Reasons, BlockStalls
  <2>8. CASE DecompressEnds
    BY <2>8 DEF IInv, InOrder, RingsTyped, From, Typed, Reasons,
      DecompressEnds
  <2> QED
    BY <1>2, <2>1, <2>2, <2>3, <2>4, <2>5, <2>6, <2>7, <2>8 DEF
      DecompressThread
<1>3. CASE FlashThread
  <2>1. CASE StartThreads
    BY <2>1 DEF IInv, InOrder, RingsTyped, From, Typed, Reasons, StartThreads
  <2>2. CASE FeedBlock
    <3>1. /\ queue["decompressed"] \in Seq(Nat) /\ queue["decompressed"] # <<>>
          /\ flashed \in Seq(Nat) /\ buffered \in Seq(Nat)
      BY <2>2 DEF FeedBlock, IInv, RingsTyped, Typed
    <3>2. PICK q \in Seq(Nat), f \in Nat, b \in Seq(Nat) :
            q = queue["decompressed"] /\ f = Len(flashed) /\ b = buffered
      BY <3>1
    <3>3. From(flashed, 0) /\ From(b, f) /\ From(q, f + Len(b)) /\ q # <<>>
      BY <3>1, <3>2 DEF IInv, InOrder
    <3>4. /\ From(Append(b, f + Len(b) + 1), f)
          /\ Len(Append(b, f + Len(b) + 1)) = Len(b) + 1
          /\ Len(b) \in Nat
      BY <3>2, <3>3, FromAppend
    <3>5. f + Len(b) \in Nat
      BY <3>2, <3>4
    <3>6. /\ From(Tail(q), f + Len(b) + 1) /\ Head(q) = f + Len(b) + 1
          /\ Len(q) \in Nat /\ Len(Tail(q)) = Len(q) - 1
      BY <3>2, <3>3, <3>5, FromTail
    <3>7. /\ queue'["decompressed"] = Tail(q)
          /\ buffered' = Append(b, f + Len(b) + 1)
          /\ UNCHANGED <<flashed, decoded, cancelled, decompressError>>
      BY <2>2, <3>2, <3>6 DEF FeedBlock, IInv, RingsTyped
    <3>8. ~cancelled /\ ~decompressError => decoded = f + Len(b) + Len(q)
      BY <3>2 DEF IInv, InOrder
    <3>9. f + (Len(b) + 1) + (Len(q) - 1) = f + Len(b) + Len(q)
            /\ f + (Len(b) + 1) = f + Len(b) + 1
      BY <3>4, <3>6, Regroup
    <3> QED
      BY <3>2, <3>3, <3>4, <3>6, <3>7, <3>8, <3>9 DEF InOrder
  <2>3. CASE SendSegment
    BY <2>3 DEF IInv, InOrder, RingsTyped, From, Typed, Reasons, SendSegment
  <2>4. CASE Open \/ EraseBegins \/ EraseCommand \/ (\E r \in Rings :
    MakeRing(r)) \/ SendFails \/ LoopStalls \/ StallEndsLoop \/ LoopEnds \/
    FinishEnds \/ Join \/ Judge \/ Customise \/ Finalise
    BY <2>4 DEF IInv, InOrder, RingsTyped, From, Typed, Reasons, Open,
      EraseBegins, EraseCommand, MakeRing, SendFails, LoopStalls,
      StallEndsLoop, LoopEnds, FinishEnds, Join, Judge, Customise, Finalise
  <2> QED
    BY <1>3, <2>1, <2>2, <2>3, <2>4 DEF FlashThread
<1>4. CASE MainThread \/ Cancel
  BY <1>4 DEF IInv, InOrder, RingsTyped, From, Typed, Reasons, MainThread,
    OnError, Cancel, CancelRing
<1> QED
  BY <1>1, <1>2, <1>3, <1>4 DEF Next

(* The loop leaves nothing behind. *)
LEMMA KeepsDrained ==
  ASSUME IInv, Next
  PROVE  Drained'
<1>1. CASE DownloadThread
  BY <1>1 DEF IInv, Drained, RingsTyped, Typed, Reasons, EndIsEnd,
    DownloadThread, Receive, PushChunk, PushStalls, PushAborts, TransferEnds,
    DownloadEnds
<1>2. CASE DecompressThread
  BY <1>2 DEF IInv, Drained, RingsTyped, Typed, Reasons, EndIsEnd,
    DecompressThread, ReadChunk, ReadStalls, ReadEnds, ArchiveBad, PushBlock,
    DropBlock, BlockStalls, DecompressEnds
<1>3. CASE FlashThread
  BY <1>3 DEF IInv, Drained, RingsTyped, Typed, Reasons, EndIsEnd,
    FlashThread, Open, EraseBegins, EraseCommand, MakeRing, StartThreads,
    FeedBlock, SendSegment, SendFails, LoopStalls, StallEndsLoop, LoopEnds,
    FinishEnds, Join, Judge, Customise, Finalise
<1>4. CASE MainThread \/ Cancel
  BY <1>4 DEF IInv, Drained, RingsTyped, Typed, Reasons, EndIsEnd, MainThread,
    OnError, Cancel, CancelRing
<1> QED
  BY <1>1, <1>2, <1>3, <1>4 DEF Next

(* The answer is the only one, and it is true. *)
LEMMA KeepsTold ==
  ASSUME IInv, Next
  PROVE  Told'
<1>1. CASE DownloadThread
  BY <1>1 DEF IInv, Told, Succeeded, Whole, Image, Served, DownloadThread,
    Receive, PushChunk, PushStalls, PushAborts, TransferEnds, DownloadEnds
<1>2. CASE DecompressThread
  BY <1>2 DEF IInv, Told, Succeeded, Whole, Image, Served, DecompressThread,
    ReadChunk, ReadStalls, ReadEnds, ArchiveBad, PushBlock, DropBlock,
    BlockStalls, DecompressEnds
<1>3. CASE FlashThread
  <2>1. CASE Open
    BY <1>3, <2>1, FlashTells DEF IInv, Told, Whole, EraseCommands, Image,
      Served, Finalise, Open
  <2>2. CASE EraseBegins
    BY <1>3, <2>2, FlashTells DEF IInv, Told, Whole, EraseCommands, Image,
      Served, Finalise, EraseBegins
  <2>3. CASE EraseCommand
    BY <1>3, <2>3, FlashTells DEF IInv, Told, Whole, Finalise, NothingEarly,
      Early, OwnWay, EraseCommand
  <2>4. ASSUME NEW r \in Rings, MakeRing(r)
      PROVE  Told'
    BY <1>3, <2>4, FlashTells DEF IInv, Told, Whole, EraseCommands, Image,
      Served, Finalise, MakeRing
  <2>5. CASE StartThreads
    BY <1>3, <2>5, FlashTells DEF IInv, Told, Whole, EraseCommands, Image,
      Served, Finalise, StartThreads
  <2>6. CASE FeedBlock
    BY <1>3, <2>6, FlashTells DEF IInv, Told, Whole, EraseCommands, Image,
      Served, Finalise, FeedBlock
  <2>7. CASE SendSegment
    BY <1>3, <2>7, FlashTells DEF IInv, Told, Whole, EraseCommands, Image,
      Served, Finalise, SendSegment
  <2>8. CASE SendFails
    BY <1>3, <2>8, FlashTells DEF IInv, Told, Whole, EraseCommands, Image,
      Served, Finalise, SendFails
  <2>9. CASE LoopStalls
    BY <1>3, <2>9, FlashTells DEF IInv, Told, Whole, EraseCommands, Image,
      Served, Finalise, LoopStalls
  <2>10. CASE StallEndsLoop
    BY <1>3, <2>10, FlashTells DEF IInv, Told, Whole, EraseCommands, Image,
      Served, Finalise, StallEndsLoop
  <2>11. CASE LoopEnds
    BY <1>3, <2>11, FlashTells DEF IInv, Told, Whole, EraseCommands, Image,
      Served, Finalise, LoopEnds
  <2>12. CASE FinishEnds
    BY <1>3, <2>12, FlashTells DEF IInv, Told, Whole, EraseCommands, Image,
      Served, Finalise, FinishEnds
  <2>13. CASE Join
    BY <1>3, <2>13, FlashTells DEF IInv, Told, Whole, EraseCommands, Image,
      Served, Finalise, Join
  <2>14. CASE Judge
    <3>1. flash' = "customise" => ~flashError /\ Whole
      BY <2>14, JudgedIsWhole DEF Judge
    <3>2. /\ flash' \in {"ended", "customise"}
          /\ UNCHANGED <<job, flashed, erased, flashError>>
      BY <2>14 DEF Judge
    <3>3. Whole => Whole'
      BY <3>2 DEF Whole, Image, Served
    <3>4. ~Succeeded'
      BY <1>3, <2>14, FlashTells DEF Judge, Finalise
    <3>5. flash' = "customise" => signals' = <<>>
      BY <2>14 DEF Judge, IInv, Told
    <3> QED
      BY <3>1, <3>2, <3>3, <3>4, <3>5 DEF Told
  <2>15. CASE Customise
    BY <1>3, <2>15, FlashTells DEF IInv, Told, Whole, EraseCommands, Image,
      Served, Finalise, Customise
  <2>16. CASE Finalise
    BY <1>3, <2>16, FlashTells DEF IInv, Told, Whole, EraseCommands, Image,
      Served, Finalise
  <2> QED
    BY <1>3, <2>1, <2>2, <2>3, <2>4, <2>5, <2>6, <2>7, <2>8, <2>9, <2>10,
      <2>11, <2>12, <2>13, <2>14, <2>15, <2>16 DEF FlashThread
<1>4. CASE MainThread \/ Cancel
  BY <1>4 DEF IInv, Told, Succeeded, Whole, Image, Served, MainThread,
    OnError, Cancel, CancelRing
<1> QED
  BY <1>1, <1>2, <1>3, <1>4 DEF Next

(* The program starts in the invariant. *)
LEMMA Begins == Init => IInv
<1> SUFFICES ASSUME Init PROVE IInv
  OBVIOUS
<1>1. Typed
  <2>1. /\ signals \in Seq(Answers)
        /\ buffered \in Seq(Nat) /\ flashed \in Seq(Nat)
    BY DEF Init
  <2> QED
    BY <2>1 DEF Init, Typed
<1>6. RingsTyped
  BY DEF Init, RingsTyped
<1>2. NothingEarly /\ OwnWay /\ Reasons /\ Drained
  BY DEF Init, NothingEarly, Early, OwnWay, Reasons, Drained
<1>3. Counted /\ EndIsEnd
  BY DEF Init, Counted, One, EndIsEnd
<1>4. InOrder
  BY DEF Init, InOrder, From
<1>5. Told
  BY DEF Init, Told, Succeeded
<1> QED
  BY <1>1, <1>2, <1>3, <1>4, <1>5, <1>6 DEF IInv

(* No step of a thread leaves it, nor does any other step. *)
LEMMA Keeps == IInv /\ [Next]_vars => IInv'
<1> SUFFICES ASSUME IInv, [Next]_vars PROVE IInv'
  OBVIOUS
<1>1. CASE Next
  BY <1>1, KeepsTyped, KeepsRingsTyped, KeepsNothingEarly, KeepsOwnWay,
    KeepsReasons, KeepsCounted, KeepsEndIsEnd, KeepsInOrder, KeepsDrained,
    KeepsTold DEF IInv
<1>2. CASE UNCHANGED vars
  BY <1>2 DEF vars, IInv, Typed, RingsTyped, NothingEarly, Early, OwnWay,
    Reasons, Counted, EndIsEnd, InOrder, From, Drained, Told, Succeeded,
    Whole, Image, Served
<1> QED
  BY <1>1, <1>2

(* A success means that the board has all of the image, whatever the sizes  *)
(* of the image and of the rings: a stream that failed, stalled, was cut    *)
(* off or cancelled is never taken for one that ended.                      *)
THEOREM FlashSuccessMeansFlashed == Spec => []SuccessMeansFlashed
<1>1. Init => IInv
  BY Begins
<1>2. IInv /\ [Next]_vars => IInv'
  BY Keeps
<1>3. IInv => SuccessMeansFlashed
  BY DEF IInv, Told, Whole, SuccessMeansFlashed
<1> QED
  BY <1>1, <1>2, <1>3, PTL DEF Spec

-----------------------------------------------------------------------------
(* The rest of the types: where the threads are, and how full things are.   *)

Positions ==
  /\ download \in {"none", "transfer", "push", "complete", "failed", "ended"}
  /\ decompress \in {"none", "read", "push", "end", "stop", "ended"}
  /\ flash \in {"open", "erase", "command", "rings", "loop", "send", "finish",
                "join", "judge", "customise", "finalise", "ended"}
  /\ canceller \in {"idle", "compressed", "decompressed", "done"}
  /\ made \subseteq Rings

(* No more is received than is served, and no more made of it; a chunk may  *)
(* be dropped on the way.                                                   *)
Underway == IF decompress = "push" THEN decoded + 1 ELSE decoded
Pushed == IF download = "push" THEN received - 1 ELSE received
Reached ==
  /\ received <= job.chunks
  /\ Underway + Len(queue["compressed"]) <= Pushed
  /\ Underway <= Blocks

Obeyed ==
  /\ flash \in {"open", "erase"} => erased = 0
  /\ flash = "command" => erased < EraseCommands
  /\ erased <= EraseCommands

Fits ==
  /\ held \in [Rings -> 0 .. 1] /\ stalled \in [Rings -> BOOLEAN]
  /\ \A r \in Rings : Len(queue[r]) + held[r] <= Slots(r)

Numbered ==
  /\ queue["compressed"] \in Seq(1 .. Blocks + Extra)
  /\ queue["decompressed"] \in Seq(1 .. Blocks)
  /\ buffered \in Seq(1 .. Blocks) /\ flashed \in Seq(1 .. Blocks)

Within == Positions /\ Reached /\ Obeyed /\ Fits /\ Numbered

(* A sequence grows at its end. *)
LEMMA Grows ==
  ASSUME NEW S, NEW q \in Seq(S), NEW e \in S
  PROVE  /\ Append(q, e) \in Seq(S)
         /\ Len(Append(q, e)) = Len(q) + 1 /\ Len(q) \in Nat
  OBVIOUS

(* What is left of a sequence, and what is taken from it. *)
LEMMA Shrinks ==
  ASSUME NEW S, NEW q \in Seq(S), q # <<>>
  PROVE  /\ Tail(q) \in Seq(S) /\ Head(q) \in S
         /\ Len(Tail(q)) \in Nat /\ Len(q) \in Nat
         /\ Len(q) = Len(Tail(q)) + 1
  OBVIOUS

(* A push puts one at the end of a ring, and leaves the other ring. *)
LEMMA PushDoes ==
  ASSUME IInv, NEW r \in Rings, NEW e \in Nat, Push(r, e)
  PROVE  /\ queue'[r] = Append(queue[r], e)
         /\ \A o \in Rings : o # r => queue'[o] = queue[o]
         /\ Len(queue'[r]) = Len(queue[r]) + 1
         /\ \A o \in Rings : Len(queue[o]) \in Nat
<1>1. queue \in [Rings -> Seq(Nat)]
  BY DEF IInv, RingsTyped
<1>2. /\ queue'[r] = Append(queue[r], e)
      /\ \A o \in Rings : o # r => queue'[o] = queue[o]
  BY <1>1
<1>3. queue[r] \in Seq(Nat) /\ \A o \in Rings : queue[o] \in Seq(Nat)
  BY <1>1
<1> HIDE DEF Rings, Push
<1>4. \A o \in Rings : Len(queue[o]) \in Nat
  BY <1>3
<1>5. Len(queue'[r]) = Len(queue[r]) + 1
  BY <1>2, <1>3, Grows
<1> QED
  BY <1>2, <1>4, <1>5

(* A pop takes the first. *)
LEMMA PopDoes ==
  ASSUME IInv, NEW r \in Rings, queue[r] # <<>>, Pop(r)
  PROVE  /\ queue'[r] = Tail(queue[r])
         /\ \A o \in Rings : o # r => queue'[o] = queue[o]
         /\ Len(queue[r]) = Len(queue'[r]) + 1
         /\ Len(queue'[r]) \in Nat
         /\ \A o \in Rings : Len(queue[o]) \in Nat
<1>1. queue \in [Rings -> Seq(Nat)]
  BY DEF IInv, RingsTyped
<1>2. /\ queue'[r] = Tail(queue[r])
      /\ \A o \in Rings : o # r => queue'[o] = queue[o]
  BY <1>1
<1>3. queue[r] \in Seq(Nat) /\ \A o \in Rings : queue[o] \in Seq(Nat)
  BY <1>1
<1> HIDE DEF Rings, Pop
<1>4. \A o \in Rings : Len(queue[o]) \in Nat
  BY <1>3
<1>5. /\ Len(queue[r]) = Len(queue'[r]) + 1
      /\ Len(queue'[r]) \in Nat
  BY <1>2, <1>3, Shrinks
<1> QED
  BY <1>2, <1>4, <1>5

(* The threads are where they can be. *)
LEMMA KeepsPositions ==
  ASSUME IInv, Within, Next
  PROVE  Positions'
<1>1. CASE DownloadThread
  BY <1>1 DEF Within, Positions, DownloadThread, Receive, PushChunk,
    PushStalls, PushAborts, TransferEnds, DownloadEnds
<1>2. CASE DecompressThread
  <2>1. CASE ReadChunk
    BY <2>1 DEF Within, Positions, ReadChunk
  <2>2. CASE ReadStalls
    BY <2>2 DEF Within, Positions, ReadStalls
  <2>3. CASE ReadEnds
    BY <2>3 DEF Within, Positions, ReadEnds
  <2>4. CASE ArchiveBad
    BY <2>4 DEF Within, Positions, ArchiveBad
  <2>5. CASE PushBlock
    BY <2>5 DEF Within, Positions, PushBlock
  <2>6. CASE DropBlock
    BY <2>6 DEF Within, Positions, DropBlock
  <2>7. CASE BlockStalls
    BY <2>7 DEF Within, Positions, BlockStalls
  <2>8. CASE DecompressEnds
    BY <2>8 DEF Within, Positions, DecompressEnds
  <2> QED
    BY <1>2, <2>1, <2>2, <2>3, <2>4, <2>5, <2>6, <2>7, <2>8 DEF
      DecompressThread
<1>3. CASE FlashThread
  <2>1. CASE Open
    BY <2>1 DEF Within, Positions, Open
  <2>2. CASE EraseBegins
    BY <2>2 DEF Within, Positions, EraseBegins
  <2>3. CASE EraseCommand
    BY <2>3 DEF Within, Positions, EraseCommand
  <2>4. ASSUME NEW r \in Rings, MakeRing(r)
        PROVE  Positions'
    BY <2>4 DEF Within, Positions, MakeRing
  <2>5. CASE StartThreads
    BY <2>5 DEF Within, Positions, StartThreads
  <2>6. CASE FeedBlock
    BY <2>6 DEF Within, Positions, FeedBlock
  <2>7. CASE SendSegment
    BY <2>7 DEF Within, Positions, SendSegment
  <2>8. CASE SendFails
    BY <2>8 DEF Within, Positions, SendFails
  <2>9. CASE LoopStalls
    BY <2>9 DEF Within, Positions, LoopStalls
  <2>10. CASE StallEndsLoop
    BY <2>10 DEF Within, Positions, StallEndsLoop
  <2>11. CASE LoopEnds
    BY <2>11 DEF Within, Positions, LoopEnds
  <2>12. CASE FinishEnds
    BY <2>12 DEF Within, Positions, FinishEnds
  <2>13. CASE Join
    BY <2>13 DEF Within, Positions, Join
  <2>14. CASE Judge
    BY <2>14 DEF Within, Positions, Judge
  <2>15. CASE Customise
    BY <2>15 DEF Within, Positions, Customise
  <2>16. CASE Finalise
    BY <2>16 DEF Within, Positions, Finalise
  <2> QED
    BY <1>3, <2>1, <2>2, <2>3, <2>4, <2>5, <2>6, <2>7, <2>8, <2>9, <2>10,
      <2>11, <2>12, <2>13, <2>14, <2>15, <2>16 DEF FlashThread
<1>4. CASE MainThread \/ Cancel
  <2>1. CASE Cancel
    BY <2>1 DEF Within, Positions, Cancel
  <2>2. ASSUME NEW r \in Rings, CancelRing(r)
        PROVE  Positions'
    BY <2>2 DEF Within, Positions, CancelRing
  <2> QED
    BY <1>4, <2>1, <2>2 DEF MainThread, OnError
<1> QED
  BY <1>1, <1>2, <1>3, <1>4 DEF Next

(* No more is made than was served. *)
LEMMA KeepsReached ==
  ASSUME IInv, Within, Next
  PROVE  Reached'
<1>1. CASE DownloadThread
  <2>1. CASE Receive
    <3>0. /\ received \in Nat /\ decoded \in Nat /\ Blocks \in Nat
          /\ job.chunks \in Nat
      BY FlashAssumption DEF IInv, Typed, Jobs
    <3>1. /\ UNCHANGED <<job, queue, decoded, decompress>>
          /\ download = "transfer" /\ download' = "push"
          /\ received' = received + 1 /\ received < job.chunks
      BY <2>1 DEF Receive
    <3>3. Pushed = received /\ Pushed' = received + 1 - 1
      BY <3>0, <3>1 DEF Pushed
    <3>4. Pushed' = received /\ Underway' = Underway /\ Underway \in Nat
      BY <3>0, <3>1, <3>3 DEF Underway
    <3>5. received + 1 <= job.chunks
      BY <3>0, <3>1
    <3> QED
      BY <3>0, <3>1, <3>3, <3>4, <3>5 DEF Within, Reached
  <2>2. CASE PushChunk
    <3>0. /\ received \in Nat /\ decoded \in Nat /\ Blocks \in Nat
          /\ job.chunks \in Nat
      BY FlashAssumption DEF IInv, Typed, Jobs
    <3>1. Push("compressed", received) /\ received \in Nat
      BY <2>2 DEF PushChunk, IInv, Typed
    <3>2. /\ queue'["compressed"] = Append(queue["compressed"], received)
          /\ Len(queue'["compressed"]) = Len(queue["compressed"]) + 1
          /\ \A o \in Rings : o # "compressed" => queue'[o] = queue[o]
          /\ \A o \in Rings : Len(queue[o]) \in Nat
      BY <3>1, PushDoes
    <3>3. /\ UNCHANGED <<job, received, decoded, decompress>>
          /\ download = "push" /\ download' = "transfer"
      BY <2>2 DEF PushChunk
    <3>4. /\ Pushed = received - 1 /\ Pushed' = received
          /\ Underway' = Underway /\ Underway \in Nat
      BY <3>0, <3>3 DEF Pushed, Underway
    <3>5. Len(queue["compressed"]) \in Nat
      BY <3>2
    <3>6. Underway + (Len(queue["compressed"]) + 1) <= received
      BY <3>0, <3>4, <3>5 DEF Within, Reached
    <3> HIDE DEF Push, Pop, Rings
    <3> QED
      BY <3>0, <3>2, <3>3, <3>4, <3>6 DEF Within, Reached
  <2>3. CASE PushAborts
    <3>0. /\ received \in Nat /\ decoded \in Nat /\ Blocks \in Nat
          /\ job.chunks \in Nat
      BY FlashAssumption DEF IInv, Typed, Jobs
    <3>2. Len(queue["compressed"]) \in Nat
      <4>1. queue["compressed"] \in Seq(Nat)
        BY DEF IInv, RingsTyped
      <4> QED
        BY <4>1
    <3>1. /\ UNCHANGED <<job, queue, decoded, decompress, received>>
          /\ download = "push" /\ download' = "failed"
      BY <2>3 DEF PushAborts
    <3>3. /\ Pushed = received - 1 /\ Pushed' = received
          /\ Underway' = Underway /\ Underway \in Nat
      BY <3>0, <3>1 DEF Pushed, Underway
    <3>4. Underway + Len(queue["compressed"]) <= received
      BY <3>0, <3>2, <3>3 DEF Within, Reached
    <3> QED
      BY <3>0, <3>1, <3>3, <3>4 DEF Within, Reached
  <2>4. CASE PushStalls \/ TransferEnds \/ DownloadEnds
    BY <2>4 DEF Within, Reached, Underway, Pushed, PushStalls, TransferEnds,
      DownloadEnds
  <2> QED
    BY <1>1, <2>1, <2>2, <2>3, <2>4 DEF DownloadThread
<1>2. CASE DecompressThread
  <2>1. CASE ReadChunk
    <3>0. /\ received \in Nat /\ decoded \in Nat /\ Blocks \in Nat
          /\ job.chunks \in Nat
      BY FlashAssumption DEF IInv, Typed, Jobs
    <3>1. Pop("compressed") /\ queue["compressed"] # <<>>
      BY <2>1 DEF ReadChunk
    <3>2. /\ queue'["compressed"] = Tail(queue["compressed"])
          /\ Len(queue["compressed"]) = Len(queue'["compressed"]) + 1
          /\ Len(queue'["compressed"]) \in Nat
          /\ \A o \in Rings : o # "compressed" => queue'[o] = queue[o]
          /\ \A o \in Rings : Len(queue[o]) \in Nat
      BY <3>1, PopDoes
    <3>3. /\ UNCHANGED <<job, received, decoded, download>>
          /\ decompress = "read" /\ decompress' \in {"push", "stop"}
          /\ ~ArchiveOver
      BY <2>1 DEF ReadChunk
    <3>4. decoded + 1 <= Blocks
      <4>1. CASE job.format = "checked"
        BY <3>0, <3>3, <4>1 DEF ArchiveOver, Within, Reached, Underway, Pushed
      <4>2. CASE job.format # "checked"
        <5>1. job.chunks <= Blocks
          BY <4>2 DEF IInv, Typed, Jobs
        <5>2. /\ Len(queue["compressed"]) \in Nat
              /\ Len(queue["compressed"]) >= 1
          BY <3>2
        <5> QED
          BY <3>0, <3>3, <5>1, <5>2 DEF Within, Reached, Underway, Pushed
      <4> QED
        BY <4>1, <4>2
    <3>5. /\ Pushed' = Pushed /\ Pushed \in Int
          /\ Underway = decoded /\ Underway' \in {decoded, decoded + 1}
      BY <3>0, <3>3 DEF Pushed, Underway
    <3>6. /\ Len(queue["compressed"]) = Len(queue'["compressed"]) + 1
          /\ Len(queue'["compressed"]) \in Nat
      BY <3>2
    <3>7. Underway' + Len(queue'["compressed"]) <= Pushed
      BY <3>0, <3>5, <3>6 DEF Within, Reached
    <3>8. Underway' <= Blocks
      BY <3>0, <3>4, <3>5
    <3> HIDE DEF Push, Pop, Rings
    <3> QED
      BY <3>0, <3>3, <3>5, <3>7, <3>8 DEF Within, Reached
  <2>2. CASE ReadStalls
    BY <2>2 DEF Within, Reached, Underway, Pushed, ReadStalls
  <2>3. CASE ReadEnds
    BY <2>3 DEF Within, Reached, Underway, Pushed, ReadEnds
  <2>4. CASE ArchiveBad
    BY <2>4 DEF Within, Reached, Underway, Pushed, ArchiveBad
  <2>5. CASE PushBlock
    <3>0. /\ received \in Nat /\ decoded \in Nat /\ Blocks \in Nat
          /\ job.chunks \in Nat
      BY FlashAssumption DEF IInv, Typed, Jobs
    <3>1. Push("decompressed", decoded + 1) /\ decoded + 1 \in Nat
      BY <2>5 DEF PushBlock, IInv, Typed
    <3>2. /\ queue'["decompressed"] =
               Append(queue["decompressed"], decoded + 1)
          /\ Len(queue'["decompressed"]) = Len(queue["decompressed"]) + 1
          /\ \A o \in Rings : o # "decompressed" => queue'[o] = queue[o]
          /\ \A o \in Rings : Len(queue[o]) \in Nat
      BY <3>1, PushDoes
    <3>3. /\ UNCHANGED <<job, received, download>>
          /\ decompress = "push" /\ decompress' = "read"
          /\ decoded' = decoded + 1
      BY <2>5 DEF PushBlock
    <3>4. /\ queue'["compressed"] = queue["compressed"]
          /\ Len(queue["compressed"]) \in Nat
      BY <3>2
    <3> HIDE DEF Push, Pop, Rings
    <3> QED
      BY <3>0, <3>3, <3>4 DEF Within, Reached, Underway, Pushed
  <2>6. CASE DropBlock
    BY <2>6 DEF Within, Reached, Underway, Pushed, DropBlock
  <2>7. CASE BlockStalls
    BY <2>7 DEF Within, Reached, Underway, Pushed, BlockStalls
  <2>8. CASE DecompressEnds
    BY <2>8 DEF Within, Reached, Underway, Pushed, DecompressEnds
  <2> QED
    BY <1>2, <2>1, <2>2, <2>3, <2>4, <2>5, <2>6, <2>7, <2>8 DEF
      DecompressThread
<1>3. CASE FlashThread
  <2>1. CASE StartThreads
    <3>0. /\ received \in Nat /\ decoded \in Nat /\ Blocks \in Nat
          /\ job.chunks \in Nat
      BY FlashAssumption DEF IInv, Typed, Jobs
    <3>1. /\ queue' = queue /\ download' = "transfer" /\ decompress' = "read"
          /\ UNCHANGED <<job, received, decoded>>
      BY <2>1 DEF StartThreads
    <3>2. download = "none" /\ decompress = "none"
      BY <2>1 DEF StartThreads, IInv, NothingEarly, Early
    <3> QED
      BY <3>0, <3>1, <3>2 DEF Within, Reached, Underway, Pushed
  <2>2. CASE FeedBlock
    <3>0. /\ received \in Nat /\ decoded \in Nat /\ Blocks \in Nat
          /\ job.chunks \in Nat
      BY FlashAssumption DEF IInv, Typed, Jobs
    <3>1. Pop("decompressed") /\ queue["decompressed"] # <<>>
      BY <2>2 DEF FeedBlock
    <3>2. /\ queue'["decompressed"] = Tail(queue["decompressed"])
          /\ Len(queue["decompressed"]) = Len(queue'["decompressed"]) + 1
          /\ Len(queue'["decompressed"]) \in Nat
          /\ \A o \in Rings : o # "decompressed" => queue'[o] = queue[o]
          /\ \A o \in Rings : Len(queue[o]) \in Nat
      BY <3>1, PopDoes
    <3>3. UNCHANGED <<job, received, download, decompress, decoded>>
      BY <2>2 DEF FeedBlock
    <3>4. queue'["compressed"] = queue["compressed"]
      BY <3>2
    <3> HIDE DEF Push, Pop, Rings
    <3> QED
      BY <3>0, <3>3, <3>4 DEF Within, Reached, Underway, Pushed
  <2>3. CASE Open \/ EraseBegins \/ EraseCommand \/ (\E r \in Rings :
          MakeRing(r)) \/ SendSegment \/ SendFails \/ LoopStalls \/
          StallEndsLoop \/ LoopEnds \/ FinishEnds \/ Join \/ Judge \/ Customise
          \/ Finalise
    BY <2>3 DEF Within, Reached, Underway, Pushed, Open, EraseBegins,
      EraseCommand, MakeRing, SendSegment, SendFails, LoopStalls,
      StallEndsLoop, LoopEnds, FinishEnds, Join, Judge, Customise, Finalise
  <2> QED
    BY <1>3, <2>1, <2>2, <2>3 DEF FlashThread
<1>4. CASE MainThread \/ Cancel
  BY <1>4 DEF Within, Reached, Underway, Pushed, MainThread, OnError, Cancel,
    CancelRing
<1> QED
  BY <1>1, <1>2, <1>3, <1>4 DEF Next

(* An erase is three commands. *)
LEMMA KeepsObeyed ==
  ASSUME IInv, Within, Next
  PROVE  Obeyed'
<1>1. CASE DownloadThread
  BY <1>1 DEF Within, Obeyed, EraseCommands, IInv, Typed, DownloadThread,
    Receive, PushChunk, PushStalls, PushAborts, TransferEnds, DownloadEnds
<1>2. CASE DecompressThread
  BY <1>2 DEF Within, Obeyed, EraseCommands, IInv, Typed, DecompressThread,
    ReadChunk, ReadStalls, ReadEnds, ArchiveBad, PushBlock, DropBlock,
    BlockStalls, DecompressEnds
<1>3. CASE FlashThread
  BY <1>3 DEF Within, Obeyed, EraseCommands, IInv, Typed, FlashThread, Open,
    EraseBegins, EraseCommand, MakeRing, StartThreads, FeedBlock, SendSegment,
    SendFails, LoopStalls, StallEndsLoop, LoopEnds, FinishEnds, Join, Judge,
    Customise, Finalise
<1>4. CASE MainThread \/ Cancel
  BY <1>4 DEF Within, Obeyed, EraseCommands, IInv, Typed, MainThread, OnError,
    Cancel, CancelRing
<1> QED
  BY <1>1, <1>2, <1>3, <1>4 DEF Next

(* A ring holds no more than its slots. *)
LEMMA KeepsFits ==
  ASSUME IInv, Within, Next
  PROVE  Fits'
<1>1. CASE DownloadThread
  <2>1. CASE PushChunk
    <3>1. Push("compressed", received) /\ received \in Nat
      BY <2>1 DEF PushChunk, IInv, Typed
    <3>2. /\ queue'["compressed"] = Append(queue["compressed"], received)
          /\ Len(queue'["compressed"]) = Len(queue["compressed"]) + 1
          /\ \A o \in Rings : o # "compressed" => queue'[o] = queue[o]
          /\ \A o \in Rings : Len(queue[o]) \in Nat
      BY <3>1, PushDoes
    <3>3. /\ held' \in [Rings -> 0 .. 1] /\ stalled' = stalled
          /\ \A o \in Rings : held'[o] = held[o] \/ held'[o] = 0
          /\ held'["compressed"] = held["compressed"]
          /\ ~ (Len(queue["compressed"]) + held["compressed"]
                   >= Slots("compressed"))
          /\ "compressed" \in Rings
      BY <2>1 DEF PushChunk, Within, Fits
    <3>4. /\ \A r \in Rings : Slots(r) \in Nat /\ held[r] \in 0 .. 1
          /\ \A r \in Rings : held'[r] \in 0 .. 1
          /\ \A r \in Rings : Len(queue[r]) + held[r] <= Slots(r)
      BY <3>3, FlashAssumption DEF Slots, Within, Fits
    <3> HIDE DEF Push, Pop, Rings
    <3>5. Len(queue'["compressed"]) + held'["compressed"]
            <= Slots("compressed")
      BY <3>2, <3>3, <3>4
    <3>6. ASSUME NEW o \in Rings, o # "compressed"
          PROVE  Len(queue'[o]) + held'[o] <= Slots(o)
      BY <3>2, <3>3, <3>4, <3>6
    <3> QED
      BY <3>3, <3>5, <3>6 DEF Within, Fits, Slots
  <2>2. CASE Receive \/ PushStalls \/ PushAborts \/ TransferEnds \/
          DownloadEnds
    BY <2>2 DEF Within, Fits, Slots, Receive, PushStalls, PushAborts,
      TransferEnds, DownloadEnds
  <2> QED
    BY <1>1, <2>1, <2>2 DEF DownloadThread
<1>2. CASE DecompressThread
  <2>1. CASE ReadChunk
    <3>1. Pop("compressed") /\ queue["compressed"] # <<>>
      BY <2>1 DEF ReadChunk
    <3>2. /\ queue'["compressed"] = Tail(queue["compressed"])
          /\ Len(queue["compressed"]) = Len(queue'["compressed"]) + 1
          /\ Len(queue'["compressed"]) \in Nat
          /\ \A o \in Rings : o # "compressed" => queue'[o] = queue[o]
          /\ \A o \in Rings : Len(queue[o]) \in Nat
      BY <3>1, PopDoes
    <3>3. /\ held' \in [Rings -> 0 .. 1] /\ stalled' = stalled
          /\ \A o \in Rings : o # "compressed" => held'[o] = held[o]
          /\ "compressed" \in Rings
      BY <2>1 DEF ReadChunk, Within, Fits
    <3>4. /\ \A r \in Rings : Slots(r) \in Nat /\ held[r] \in 0 .. 1
          /\ \A r \in Rings : held'[r] \in 0 .. 1
          /\ \A r \in Rings : Len(queue[r]) + held[r] <= Slots(r)
      BY <3>3, FlashAssumption DEF Slots, Within, Fits
    <3> HIDE DEF Push, Pop, Rings
    <3>5. Len(queue'["compressed"]) + held'["compressed"]
            <= Slots("compressed")
      BY <3>2, <3>3, <3>4
    <3>6. ASSUME NEW o \in Rings, o # "compressed"
          PROVE  Len(queue'[o]) + held'[o] <= Slots(o)
      BY <3>2, <3>3, <3>4, <3>6
    <3> QED
      BY <3>3, <3>5, <3>6 DEF Within, Fits, Slots
  <2>2. CASE PushBlock
    <3>1. Push("decompressed", decoded + 1) /\ decoded + 1 \in Nat
      BY <2>2 DEF PushBlock, IInv, Typed
    <3>2. /\ queue'["decompressed"] =
               Append(queue["decompressed"], decoded + 1)
          /\ Len(queue'["decompressed"]) = Len(queue["decompressed"]) + 1
          /\ \A o \in Rings : o # "decompressed" => queue'[o] = queue[o]
          /\ \A o \in Rings : Len(queue[o]) \in Nat
      BY <3>1, PushDoes
    <3>3. /\ held' \in [Rings -> 0 .. 1] /\ stalled' = stalled
          /\ \A o \in Rings : held'[o] = held[o] \/ held'[o] = 0
          /\ held'["decompressed"] = held["decompressed"]
          /\ ~ (Len(queue["decompressed"]) + held["decompressed"]
                   >= Slots("decompressed"))
          /\ "decompressed" \in Rings
      BY <2>2 DEF PushBlock, Within, Fits
    <3>4. /\ \A r \in Rings : Slots(r) \in Nat /\ held[r] \in 0 .. 1
          /\ \A r \in Rings : held'[r] \in 0 .. 1
          /\ \A r \in Rings : Len(queue[r]) + held[r] <= Slots(r)
      BY <3>3, FlashAssumption DEF Slots, Within, Fits
    <3> HIDE DEF Push, Pop, Rings
    <3>5. Len(queue'["decompressed"]) + held'["decompressed"]
            <= Slots("decompressed")
      BY <3>2, <3>3, <3>4
    <3>6. ASSUME NEW o \in Rings, o # "decompressed"
          PROVE  Len(queue'[o]) + held'[o] <= Slots(o)
      BY <3>2, <3>3, <3>4, <3>6
    <3> QED
      BY <3>3, <3>5, <3>6 DEF Within, Fits, Slots
  <2>3. CASE DropBlock
    <3>1. queue' = queue
      BY <2>3 DEF DropBlock
    <3>2. \A r \in Rings : Len(queue[r]) \in Nat
      <4>1. \A r \in Rings : queue[r] \in Seq(Nat)
        BY DEF IInv, RingsTyped
      <4> HIDE DEF Rings
      <4> QED
        BY <4>1
    <3>3. /\ held' \in [Rings -> 0 .. 1] /\ stalled' = stalled
          /\ \A r \in Rings : held'[r] = held[r] \/ held'[r] = 0
      BY <2>3 DEF DropBlock, Within, Fits
    <3>4. /\ \A r \in Rings : Slots(r) \in Nat /\ held[r] \in 0 .. 1
          /\ \A r \in Rings : held'[r] \in 0 .. 1
          /\ \A r \in Rings : Len(queue[r]) + held[r] <= Slots(r)
      BY <3>3, FlashAssumption DEF Slots, Within, Fits
    <3> HIDE DEF Push, Pop, Rings
    <3>5. ASSUME NEW r \in Rings
          PROVE  Len(queue'[r]) + held'[r] <= Slots(r)
      BY <3>1, <3>2, <3>3, <3>4
    <3> QED
      BY <3>3, <3>5 DEF Within, Fits, Slots
  <2>4. CASE DecompressEnds
    <3>1. queue' = queue
      BY <2>4 DEF DecompressEnds
    <3>2. \A r \in Rings : Len(queue[r]) \in Nat
      <4>1. \A r \in Rings : queue[r] \in Seq(Nat)
        BY DEF IInv, RingsTyped
      <4> HIDE DEF Rings
      <4> QED
        BY <4>1
    <3>3. /\ held' \in [Rings -> 0 .. 1] /\ stalled' = stalled
          /\ \A r \in Rings : held'[r] = held[r] \/ held'[r] = 0
      BY <2>4 DEF DecompressEnds, Within, Fits
    <3>4. /\ \A r \in Rings : Slots(r) \in Nat /\ held[r] \in 0 .. 1
          /\ \A r \in Rings : held'[r] \in 0 .. 1
          /\ \A r \in Rings : Len(queue[r]) + held[r] <= Slots(r)
      BY <3>3, FlashAssumption DEF Slots, Within, Fits
    <3> HIDE DEF Push, Pop, Rings
    <3>5. ASSUME NEW r \in Rings
          PROVE  Len(queue'[r]) + held'[r] <= Slots(r)
      BY <3>1, <3>2, <3>3, <3>4
    <3> QED
      BY <3>3, <3>5 DEF Within, Fits, Slots
  <2>5. CASE ReadStalls \/ ReadEnds \/ ArchiveBad \/ BlockStalls
    BY <2>5 DEF Within, Fits, Slots, ReadStalls, ReadEnds, ArchiveBad,
      BlockStalls
  <2> QED
    BY <1>2, <2>1, <2>2, <2>3, <2>4, <2>5 DEF DecompressThread
<1>3. CASE FlashThread
  <2>1. CASE FeedBlock
    <3>1. Pop("decompressed") /\ queue["decompressed"] # <<>>
      BY <2>1 DEF FeedBlock
    <3>2. /\ queue'["decompressed"] = Tail(queue["decompressed"])
          /\ Len(queue["decompressed"]) = Len(queue'["decompressed"]) + 1
          /\ Len(queue'["decompressed"]) \in Nat
          /\ \A o \in Rings : o # "decompressed" => queue'[o] = queue[o]
          /\ \A o \in Rings : Len(queue[o]) \in Nat
      BY <3>1, PopDoes
    <3>3. /\ held' \in [Rings -> 0 .. 1] /\ stalled' = stalled
          /\ \A o \in Rings : o # "decompressed" => held'[o] = held[o]
          /\ "decompressed" \in Rings
      BY <2>1 DEF FeedBlock, Within, Fits
    <3>4. /\ \A r \in Rings : Slots(r) \in Nat /\ held[r] \in 0 .. 1
          /\ \A r \in Rings : held'[r] \in 0 .. 1
          /\ \A r \in Rings : Len(queue[r]) + held[r] <= Slots(r)
      BY <3>3, FlashAssumption DEF Slots, Within, Fits
    <3> HIDE DEF Push, Pop, Rings
    <3>5. Len(queue'["decompressed"]) + held'["decompressed"]
            <= Slots("decompressed")
      BY <3>2, <3>3, <3>4
    <3>6. ASSUME NEW o \in Rings, o # "decompressed"
          PROVE  Len(queue'[o]) + held'[o] <= Slots(o)
      BY <3>2, <3>3, <3>4, <3>6
    <3> QED
      BY <3>3, <3>5, <3>6 DEF Within, Fits, Slots
  <2>2. CASE SendSegment
    <3>1. queue' = queue
      BY <2>2 DEF SendSegment
    <3>2. \A r \in Rings : Len(queue[r]) \in Nat
      <4>1. \A r \in Rings : queue[r] \in Seq(Nat)
        BY DEF IInv, RingsTyped
      <4> HIDE DEF Rings
      <4> QED
        BY <4>1
    <3>3. /\ held' \in [Rings -> 0 .. 1] /\ stalled' = stalled
          /\ \A r \in Rings : held'[r] = held[r] \/ held'[r] = 0
      BY <2>2 DEF SendSegment, Within, Fits
    <3>4. /\ \A r \in Rings : Slots(r) \in Nat /\ held[r] \in 0 .. 1
          /\ \A r \in Rings : held'[r] \in 0 .. 1
          /\ \A r \in Rings : Len(queue[r]) + held[r] <= Slots(r)
      BY <3>3, FlashAssumption DEF Slots, Within, Fits
    <3> HIDE DEF Push, Pop, Rings
    <3>5. ASSUME NEW r \in Rings
          PROVE  Len(queue'[r]) + held'[r] <= Slots(r)
      BY <3>1, <3>2, <3>3, <3>4
    <3> QED
      BY <3>3, <3>5 DEF Within, Fits, Slots
  <2>3. CASE SendFails
    <3>1. queue' = queue
      BY <2>3 DEF SendFails
    <3>2. \A r \in Rings : Len(queue[r]) \in Nat
      <4>1. \A r \in Rings : queue[r] \in Seq(Nat)
        BY DEF IInv, RingsTyped
      <4> HIDE DEF Rings
      <4> QED
        BY <4>1
    <3>3. /\ held' \in [Rings -> 0 .. 1] /\ stalled' = stalled
          /\ \A r \in Rings : held'[r] = held[r] \/ held'[r] = 0
      BY <2>3 DEF SendFails, Within, Fits
    <3>4. /\ \A r \in Rings : Slots(r) \in Nat /\ held[r] \in 0 .. 1
          /\ \A r \in Rings : held'[r] \in 0 .. 1
          /\ \A r \in Rings : Len(queue[r]) + held[r] <= Slots(r)
      BY <3>3, FlashAssumption DEF Slots, Within, Fits
    <3> HIDE DEF Push, Pop, Rings
    <3>5. ASSUME NEW r \in Rings
          PROVE  Len(queue'[r]) + held'[r] <= Slots(r)
      BY <3>1, <3>2, <3>3, <3>4
    <3> QED
      BY <3>3, <3>5 DEF Within, Fits, Slots
  <2>4. CASE Open \/ EraseBegins \/ EraseCommand \/ (\E r \in Rings :
          MakeRing(r)) \/ StartThreads \/ LoopStalls \/ StallEndsLoop \/
          LoopEnds \/ FinishEnds \/ Join \/ Judge \/ Customise \/ Finalise
    BY <2>4 DEF Within, Fits, Slots, Open, EraseBegins, EraseCommand, MakeRing,
      StartThreads, LoopStalls, StallEndsLoop, LoopEnds, FinishEnds, Join,
      Judge, Customise, Finalise
  <2> QED
    BY <1>3, <2>1, <2>2, <2>3, <2>4 DEF FlashThread
<1>4. CASE MainThread \/ Cancel
  BY <1>4 DEF Within, Fits, Slots, MainThread, OnError, Cancel, CancelRing
<1> QED
  BY <1>1, <1>2, <1>3, <1>4 DEF Next

(* What is carried is chunks and blocks. *)
LEMMA KeepsNumbered ==
  ASSUME IInv, Within, Next
  PROVE  Numbered'
<1>1. CASE DownloadThread
  <2>1. CASE PushChunk
    <3>1. Push("compressed", received) /\ received \in Nat
      BY <2>1 DEF PushChunk, IInv, Typed
    <3>2. /\ queue'["compressed"] = Append(queue["compressed"], received)
          /\ Len(queue'["compressed"]) = Len(queue["compressed"]) + 1
          /\ \A o \in Rings : o # "compressed" => queue'[o] = queue[o]
          /\ \A o \in Rings : Len(queue[o]) \in Nat
      BY <3>1, PushDoes
    <3>3. UNCHANGED <<buffered, flashed>> /\ download = "push"
      BY <2>1 DEF PushChunk
    <3>4. received \in 1 .. Blocks + Extra
      <4>1. /\ received \in Nat /\ decoded \in Nat /\ job.chunks \in Nat
            /\ Blocks \in Nat /\ Extra \in Nat /\ job.chunks <= Blocks + Extra
        BY FlashAssumption DEF IInv, Typed, Jobs
      <4>2. Len(queue["compressed"]) \in Nat
        BY <3>2
      <4>3. Underway + Len(queue["compressed"]) <= received - 1
        BY <3>3 DEF Within, Reached, Pushed
      <4>4. Underway \in Nat
        BY <4>1 DEF Underway
      <4>5. received >= 1
        BY <4>1, <4>2, <4>3, <4>4
      <4> QED
        BY <4>1, <4>5 DEF Within, Reached
    <3>5. queue'["decompressed"] = queue["decompressed"]
      BY <3>2
    <3>6. Append(queue["compressed"], received) \in Seq(1 .. Blocks + Extra)
      BY <3>4, Grows DEF Within, Numbered
    <3> HIDE DEF Push, Rings
    <3> QED
      BY <3>2, <3>3, <3>5, <3>6 DEF Within, Numbered
  <2>2. CASE Receive \/ PushStalls \/ PushAborts \/ TransferEnds \/
          DownloadEnds
    BY <2>2 DEF Within, Numbered, Receive, PushStalls, PushAborts,
      TransferEnds, DownloadEnds
  <2> QED
    BY <1>1, <2>1, <2>2 DEF DownloadThread
<1>2. CASE DecompressThread
  <2>1. CASE ReadChunk
    <3>1. Pop("compressed") /\ queue["compressed"] # <<>>
      BY <2>1 DEF ReadChunk
    <3>2. /\ queue'["compressed"] = Tail(queue["compressed"])
          /\ Len(queue["compressed"]) = Len(queue'["compressed"]) + 1
          /\ Len(queue'["compressed"]) \in Nat
          /\ \A o \in Rings : o # "compressed" => queue'[o] = queue[o]
          /\ \A o \in Rings : Len(queue[o]) \in Nat
      BY <3>1, PopDoes
    <3>3. UNCHANGED <<buffered, flashed>>
      BY <2>1 DEF ReadChunk
    <3>4. queue'["decompressed"] = queue["decompressed"]
      BY <3>2
    <3>5. Tail(queue["compressed"]) \in Seq(1 .. Blocks + Extra)
      BY <3>1, Shrinks DEF Within, Numbered
    <3> HIDE DEF Pop, Rings
    <3> QED
      BY <3>2, <3>3, <3>4, <3>5 DEF Within, Numbered
  <2>2. CASE PushBlock
    <3>1. Push("decompressed", decoded + 1) /\ decoded + 1 \in Nat
      BY <2>2 DEF PushBlock, IInv, Typed
    <3>2. /\ queue'["decompressed"] =
               Append(queue["decompressed"], decoded + 1)
          /\ Len(queue'["decompressed"]) = Len(queue["decompressed"]) + 1
          /\ \A o \in Rings : o # "decompressed" => queue'[o] = queue[o]
          /\ \A o \in Rings : Len(queue[o]) \in Nat
      BY <3>1, PushDoes
    <3>3. UNCHANGED <<buffered, flashed>> /\ decompress = "push"
      BY <2>2 DEF PushBlock
    <3>4. decoded + 1 \in 1 .. Blocks
      <4>1. decoded \in Nat /\ Blocks \in Nat
        BY FlashAssumption DEF IInv, Typed
      <4> QED
        BY <3>3, <4>1 DEF Within, Reached, Underway, Pushed
    <3>5. queue'["compressed"] = queue["compressed"]
      BY <3>2
    <3>6. Append(queue["decompressed"], decoded + 1) \in Seq(1 .. Blocks)
      BY <3>4, Grows DEF Within, Numbered
    <3> HIDE DEF Push, Rings
    <3> QED
      BY <3>2, <3>3, <3>5, <3>6 DEF Within, Numbered
  <2>3. CASE ReadStalls \/ ReadEnds \/ ArchiveBad \/ DropBlock \/ BlockStalls
          \/ DecompressEnds
    BY <2>3 DEF Within, Numbered, ReadStalls, ReadEnds, ArchiveBad, DropBlock,
      BlockStalls, DecompressEnds
  <2> QED
    BY <1>2, <2>1, <2>2, <2>3 DEF DecompressThread
<1>3. CASE FlashThread
  <2>1. CASE FeedBlock
    <3>1. Pop("decompressed") /\ queue["decompressed"] # <<>>
      BY <2>1 DEF FeedBlock
    <3>2. /\ queue'["decompressed"] = Tail(queue["decompressed"])
          /\ Len(queue["decompressed"]) = Len(queue'["decompressed"]) + 1
          /\ Len(queue'["decompressed"]) \in Nat
          /\ \A o \in Rings : o # "decompressed" => queue'[o] = queue[o]
          /\ \A o \in Rings : Len(queue[o]) \in Nat
      BY <3>1, PopDoes
    <3>3. /\ flashed' = flashed
          /\ buffered' = Append(buffered, Head(queue["decompressed"]))
      BY <2>1 DEF FeedBlock
    <3>4. queue'["compressed"] = queue["compressed"]
      BY <3>2
    <3>5. /\ Tail(queue["decompressed"]) \in Seq(1 .. Blocks)
          /\ Head(queue["decompressed"]) \in 1 .. Blocks
      BY <3>1, Shrinks DEF Within, Numbered
    <3>6. buffered' \in Seq(1 .. Blocks)
      BY <3>3, <3>5, Grows DEF Within, Numbered
    <3> HIDE DEF Pop, Rings
    <3> QED
      BY <3>2, <3>3, <3>4, <3>5, <3>6 DEF Within, Numbered
  <2>2. CASE SendSegment
    <3>1. /\ flashed' = flashed \o buffered /\ buffered' = <<>>
          /\ queue' = queue
      BY <2>2 DEF SendSegment
    <3> QED
      BY <3>1 DEF Within, Numbered
  <2>3. CASE Open \/ EraseBegins \/ EraseCommand \/ (\E r \in Rings :
          MakeRing(r)) \/ StartThreads \/ SendFails \/ LoopStalls \/
          StallEndsLoop \/ LoopEnds \/ FinishEnds \/ Join \/ Judge \/ Customise
          \/ Finalise
    BY <2>3 DEF Within, Numbered, Open, EraseBegins, EraseCommand, MakeRing,
      StartThreads, SendFails, LoopStalls, StallEndsLoop, LoopEnds, FinishEnds,
      Join, Judge, Customise, Finalise
  <2> QED
    BY <1>3, <2>1, <2>2, <2>3 DEF FlashThread
<1>4. CASE MainThread \/ Cancel
  BY <1>4 DEF Within, Numbered, MainThread, OnError, Cancel, CancelRing
<1> QED
  BY <1>1, <1>2, <1>3, <1>4 DEF Next

(* No step of a thread leaves these either. *)
LEMMA KeepsWithin == IInv /\ Within /\ [Next]_vars => Within'
<1> SUFFICES ASSUME IInv, Within, [Next]_vars PROVE Within'
  OBVIOUS
<1>1. CASE Next
  BY <1>1, KeepsPositions, KeepsReached, KeepsObeyed, KeepsFits,
    KeepsNumbered DEF Within
<1>2. CASE UNCHANGED vars
  BY <1>2 DEF vars, Within, Positions, Reached, Underway, Pushed, Obeyed, Fits,
    Slots, Numbered
<1> QED
  BY <1>1, <1>2

(* Nothing is anywhere at first. *)
LEMMA BeginsWithin == Init => Within
<1> SUFFICES ASSUME Init PROVE Within
  OBVIOUS
<1>1. Positions /\ Obeyed
  BY DEF Init, Positions, Obeyed, EraseCommands
<1>2. /\ Blocks \in Nat /\ job.chunks \in Nat
      /\ CompressedSlots \in Nat /\ WriteSlots \in Nat
  BY FlashAssumption DEF Init, Jobs
<1>3. /\ queue["compressed"] = <<>> /\ queue["decompressed"] = <<>>
      /\ Len(queue["compressed"]) = 0 /\ Len(queue["decompressed"]) = 0
      /\ buffered = <<>> /\ flashed = <<>>
  BY DEF Init
<1>4. Reached
  BY <1>2, <1>3 DEF Init, Reached, Underway, Pushed
<1>5. Fits
  BY <1>2, <1>3 DEF Init, Fits, Slots
<1>6. Numbered
  BY <1>3 DEF Numbered
<1> QED
  BY <1>1, <1>4, <1>5, <1>6 DEF Within

(* The state is of its type: neither ring ever holds more than its slots,   *)
(* the one that is read counted in, no more blocks are made than the image  *)
(* has, and no erase goes past its last command, however the threads are    *)
(* cancelled or stall.                                                      *)
THEOREM FlashTypeOK == Spec => []TypeOK
<1>1. Init => IInv /\ Within
  BY Begins, BeginsWithin
<1>2. IInv /\ Within /\ [Next]_vars => (IInv /\ Within)'
  BY Keeps, KeepsWithin
<1>3. IInv /\ Within => TypeOK
  <2> SUFFICES ASSUME IInv, Within PROVE TypeOK
    OBVIOUS
  <2>1. /\ job \in Jobs /\ signals \in Seq({"success", "error"})
        /\ downloadError \in BOOLEAN /\ decompressError \in BOOLEAN
        /\ flashError \in BOOLEAN /\ cancelled \in BOOLEAN
    BY DEF IInv, Typed, Answers
  <2>2. /\ producerDone \in [Rings -> BOOLEAN]
        /\ ringCancelled \in [Rings -> BOOLEAN]
        /\ stalled \in [Rings -> BOOLEAN] /\ held \in [Rings -> 0 .. 1]
        /\ \A r \in Rings : Len(queue[r]) + held[r] <= Slots(r)
    BY DEF IInv, RingsTyped, Within, Fits
  <2>3. \A r \in Rings : queue[r] \in Seq(1 .. Blocks + Extra)
    <3>1. Blocks \in Nat /\ Extra \in Nat
      BY FlashAssumption
    <3>2. Seq(1 .. Blocks) \subseteq Seq(1 .. Blocks + Extra)
      BY <3>1
    <3> QED
      BY <3>2 DEF Within, Numbered
  <2>4. /\ received \in 0 .. Blocks + Extra /\ decoded \in 0 .. Blocks
        /\ erased \in 0 .. EraseCommands
    <3>1. /\ received \in Nat /\ decoded \in Nat /\ erased \in Nat
          /\ job.chunks \in Nat /\ job.chunks <= Blocks + Extra
          /\ Blocks \in Nat /\ Extra \in Nat
      BY FlashAssumption DEF IInv, Typed, Jobs
    <3> QED
      BY <3>1 DEF Within, Reached, Underway, Pushed, Obeyed, EraseCommands
  <2>5. Positions /\ buffered \in Seq(1 .. Blocks)
                  /\ flashed \in Seq(1 .. Blocks)
    BY DEF Within, Numbered
  <2>6. {downloadError, decompressError, flashError, cancelled}
          \subseteq BOOLEAN
    BY <2>1, Zenon
  <2>7. {producerDone, ringCancelled, stalled} \subseteq [Rings -> BOOLEAN]
    BY <2>2, Zenon
  <2> QED
    BY <2>1, <2>2, <2>3, <2>4, <2>5, <2>6, <2>7 DEF TypeOK, Positions
<1> QED
  BY <1>1, <1>2, <1>3, PTL DEF Spec
=============================================================================
