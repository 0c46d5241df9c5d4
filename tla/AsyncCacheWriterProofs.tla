----------------------- MODULE AsyncCacheWriterProofs -----------------------
(***************************************************************************)
(* The cached copy is the beginning of the stream and never a stream with a *)
(* hole in it; what is published is whole; and nothing without a published  *)
(* hash stays behind: for every length of the stream and of the queue.      *)
(***************************************************************************)
EXTENDS AsyncCacheWriter, TLAPS

-----------------------------------------------------------------------------
(* The inductive invariant. *)

One(condition) == IF condition THEN 1 ELSE 0
From(seq, n) == \A i \in 1 .. Len(seq) : seq[i] = n + i

Typed ==
  /\ download \in {"receive", "cache", "full", "push", "failed", "ended"}
  /\ extract \in {"decompress", "done", "mark", "join", "trim", "close",
                  "deactivate", "publish", "closeFiles", "ended"}
  /\ cancelling \in [Threads -> {"no", "stop", "wait", "deactivate", "done"}]
  /\ writer \in {"top", "write", "hung", "check", "exit", "dead"}

Flags ==
  /\ cacheEnabled \in BOOLEAN /\ errorPosted \in BOOLEAN
  /\ isActive \in BOOLEAN /\ shouldStop \in BOOLEAN /\ hasError \in BOOLEAN
  /\ finishing \in BOOLEAN /\ exists \in BOOLEAN /\ reserve \in BOOLEAN

(* The stream ends with the last piece. *)
Passed ==
  /\ sent \in 0 .. Chunks
  /\ download \in {"cache", "full", "push"} => sent < Chunks

Pieces ==
  /\ queue \in Seq(1 .. Chunks) /\ hashed \in Seq(1 .. Chunks)
  /\ contents \in Seq(1 .. Chunks) /\ published \in Seq(1 .. Chunks)
  /\ holding \in 0 .. Chunks
  /\ Len(queue) <= QueueLimit

(* What is hashed, held and queued are the pieces in their order ... *)
Held == writer \in {"write", "hung"}
InOrder ==
  /\ holding = IF Held THEN Len(hashed) + 1 ELSE 0
  /\ From(hashed, 0)
  /\ From(queue, Len(hashed) + One(Held))

(* ... and the file holds what is hashed, but for a piece that failed. *)
FileFollows ==
  /\ From(contents, 0)
  /\ Len(contents) <= Len(hashed)
  /\ Len(contents) = Len(hashed) \/ (hasError /\ writer \in {"exit", "dead"})

(* A writer that is well has every piece that has been passed on. *)
Well ==
  /\ cacheEnabled /\ ~hasError /\ ~shouldStop
  /\ isActive \/ download \in {"cache", "full"}
Counted ==
  Well => sent + One(download = "push") = Len(hashed) + One(Held) + Len(queue)

(* What each flag means. *)
Reasons ==
  /\ errorPosted => hasError
  /\ ~cacheEnabled => hasError \/ shouldStop \/ ~isActive
  /\ download \in {"cache", "full"} /\ ~hasError => cacheEnabled
  /\ \A t \in Threads : cancelling[t] \in {"wait", "deactivate"} => shouldStop
  /\ ~isActive => \/ shouldStop
                  \/ /\ writer = "dead"
                     /\ extract \in {"publish", "closeFiles", "ended"}
  /\ ~exists => hasError \/ shouldStop

(* The image is in the stream when the extract thread finishes the cache. *)
Finishing ==
  /\ extract \in {"decompress", "done", "mark"} => ~finishing
  /\ extract \in {"join", "trim", "close"} => finishing
  /\ extract \in {"done", "mark"} \/ finishing => sent >= ImageChunks
  /\ finishing /\ extract # "join" => writer = "dead"

(* A writer that stops of itself has found the end of the image. *)
CleanEnd ==
  /\ writer = "exit" /\ ~hasError /\ ~shouldStop =>
       finishing /\ Len(hashed) >= ImageChunks
  /\ writer = "dead" /\ exists =>
       finishing /\ ~hasError /\ Len(hashed) >= ImageChunks

(* Only the end of finish publishes, and what it publishes is trimmed. *)
Publishing ==
  /\ extract \notin {"closeFiles", "ended"} => published = <<>>
  /\ finishing /\ extract \in {"closeFiles", "ended"} => published = hashed
  /\ /\ finishing /\ exists
     /\ extract \in {"close", "publish", "closeFiles", "ended"}
     => ~reserve

(* The destructor comes last, and waits for the writer. *)
Destroying ==
  /\ cancelling["main"] # "no" => download = "ended" /\ extract = "ended"
  /\ cancelling["main"] \in {"deactivate", "done"} => writer = "dead"

IInv ==
  /\ Typed /\ Flags /\ Passed /\ Pieces /\ InOrder /\ FileFollows /\ Counted
  /\ Reasons /\ Finishing /\ CleanEnd /\ Publishing /\ Destroying

-----------------------------------------------------------------------------
(* Runs of pieces. *)

(* What is expanded in all that follows. *)
USE DEF users, flags, thread, file, Threads, Cleanup, Refused

(* The bounds, as numbers. *)
LEMMA Bounds ==
  /\ Chunks \in Nat /\ ImageChunks \in Nat /\ QueueLimit \in Nat
  /\ 1 <= ImageChunks /\ ImageChunks <= Chunks
  /\ 1 <= QueueLimit /\ Chunks <= ImageChunks + QueueLimit
<1>1. /\ Chunks \in Nat /\ ImageChunks \in Nat /\ QueueLimit \in Nat
      /\ 1 <= ImageChunks /\ ImageChunks <= Chunks
      /\ 1 <= QueueLimit /\ Chunks - ImageChunks <= QueueLimit
  BY CacheAssumption DEF CacheAssumption
<1> QED
  BY <1>1

(* A run grows at its end ... *)
LEMMA FromAppend ==
  ASSUME NEW S, NEW q \in Seq(S), NEW n \in Nat, From(q, n),
         NEW x \in S, x = n + Len(q) + 1
  PROVE  /\ From(Append(q, x), n)
         /\ Append(q, x) \in Seq(S)
         /\ Len(Append(q, x)) = Len(q) + 1
         /\ Len(q) \in Nat
  BY DEF From

(* ... and is taken from at its beginning. *)
LEMMA FromTail ==
  ASSUME NEW S, NEW q \in Seq(S), q # <<>>, NEW n \in Nat, From(q, n)
  PROVE  /\ From(Tail(q), n + 1)
         /\ Tail(q) \in Seq(S)
         /\ Head(q) = n + 1 /\ Head(q) \in S
         /\ Len(q) \in Nat /\ Len(Tail(q)) = Len(q) - 1
<1>1. Len(q) \in Nat \ {0} /\ Head(q) = q[1] /\ q[1] \in S
  OBVIOUS
<1>2. /\ Tail(q) \in Seq(S)
      /\ Len(Tail(q)) = Len(q) - 1
      /\ \A i \in 1 .. Len(Tail(q)) : Tail(q)[i] = q[i + 1]
  OBVIOUS
<1> QED
  BY <1>1, <1>2 DEF From

(* Nothing is in its order. *)
LEMMA FromNothing ==
  ASSUME NEW n \in Nat
  PROVE  <<>> \in Seq(1 .. Chunks) /\ From(<<>>, n) /\ Len(<<>>) = 0
  BY DEF From

(* Two runs from the beginning of the stream that are as long are the same. *)
LEMMA SameRun ==
  ASSUME NEW p \in Seq(1 .. Chunks), NEW q \in Seq(1 .. Chunks),
         From(p, 0), From(q, 0), Len(p) = Len(q)
  PROVE  p = q
<1>1. /\ Len(p) \in Nat
      /\ \A i \in 1 .. Len(p) : p[i] = q[i]
  BY DEF From
<1> QED
  BY <1>1

-----------------------------------------------------------------------------
(* The steps that move pieces. *)

(* Lengths are numbers. *)
LEMMA Lengths ==
  ASSUME Pieces
  PROVE  Len(queue) \in Nat /\ Len(hashed) \in Nat /\ Len(contents) \in Nat
  BY DEF Pieces

(* A piece that finds a place is the next one. *)
LEMMA Stores ==
  ASSUME IInv, download \in {"cache", "full"}, ~hasError, ~shouldStop,
         Len(queue) < QueueLimit
  PROVE  \E q \in Seq(1 .. Chunks) :
           /\ q = Append(queue, sent + 1)
           /\ Len(q) = Len(queue) + 1
           /\ From(q, Len(hashed) + One(Held))
           /\ sent = Len(hashed) + One(Held) + Len(queue)
<1>1. Len(queue) \in Nat /\ Len(hashed) \in Nat /\ One(Held) \in Nat
  BY Lengths DEF IInv, One
<1>2. sent = Len(hashed) + One(Held) + Len(queue)
  <2>1. Well /\ download # "push"
    BY DEF IInv, Reasons, Well
  <2>2. sent \in Nat
    BY Bounds DEF IInv, Passed
  <2> QED
    BY <1>1, <2>1, <2>2 DEF IInv, Counted, One
<1>3. sent + 1 \in 1 .. Chunks
  BY Bounds DEF IInv, Passed
<1>4. queue \in Seq(1 .. Chunks) /\ From(queue, Len(hashed) + One(Held))
  BY DEF IInv, Pieces, InOrder
<1>5. sent + 1 = (Len(hashed) + One(Held)) + Len(queue) + 1
  BY <1>1, <1>2
<1>6. Len(hashed) + One(Held) \in Nat
  BY <1>1
<1> QED
  BY <1>2, <1>3, <1>4, <1>5, <1>6, FromAppend

(* The piece that is taken out is the one that comes next. *)
LEMMA Takes ==
  ASSUME IInv, queue # <<>>, ~Held
  PROVE  \E q \in Seq(1 .. Chunks) :
           /\ q = Tail(queue)
           /\ Len(q) = Len(queue) - 1
           /\ From(q, Len(hashed) + 1)
           /\ Head(queue) = Len(hashed) + 1 /\ Head(queue) \in 1 .. Chunks
<1>1. Len(hashed) \in Nat /\ Len(hashed) + One(Held) = Len(hashed)
  BY Lengths DEF IInv, One
<1>2. queue \in Seq(1 .. Chunks) /\ From(queue, Len(hashed))
  BY <1>1 DEF IInv, Pieces, InOrder
<1> QED
  BY <1>1, <1>2, FromTail

(* The piece that is held is hashed, and written after the ones before it. *)
LEMMA Writes ==
  ASSUME IInv, Held
  PROVE  \E h, c \in Seq(1 .. Chunks) :
           /\ h = Append(hashed, holding) /\ c = Append(contents, holding)
           /\ Len(h) = Len(hashed) + 1 /\ Len(c) = Len(contents) + 1
           /\ From(h, 0) /\ From(c, 0)
           /\ Len(hashed) = Len(contents)
<1>1. /\ hashed \in Seq(1 .. Chunks) /\ contents \in Seq(1 .. Chunks)
      /\ From(hashed, 0) /\ From(contents, 0)
      /\ Len(hashed) = Len(contents)
  BY DEF IInv, Pieces, InOrder, FileFollows, Held
<1>2. holding \in 1 .. Chunks /\ holding = 0 + Len(hashed) + 1
  <2>1. holding = Len(hashed) + 1 /\ Len(hashed) \in Nat
    BY Lengths DEF IInv, InOrder
  <2>2. holding \in 0 .. Chunks
    BY DEF IInv, Pieces
  <2> QED
    BY <2>1, <2>2, Bounds
<1>3. 0 \in Nat /\ holding = 0 + Len(contents) + 1
  BY <1>1, <1>2
<1> QED
  BY <1>1, <1>2, <1>3, FromAppend

(* Once the writer has found the end there is a place for what still comes. *)
LEMMA RoomForTheRest ==
  ASSUME IInv, download = "full", ~hasError, ~shouldStop,
         writer = "dead", exists
  PROVE  Len(queue) < QueueLimit
<1>1. Len(queue) \in Nat /\ Len(hashed) \in Nat /\ sent \in Nat
  BY Lengths, Bounds DEF IInv, Passed
<1>2. sent = Len(hashed) + Len(queue)
  BY <1>1 DEF IInv, Reasons, Counted, Well, One, Held
<1>3. Len(hashed) >= ImageChunks /\ sent < Chunks
  BY DEF IInv, CleanEnd, Passed
<1> QED
  BY <1>1, <1>2, <1>3, Bounds

(* A writer that is well and has an empty queue has all there is. *)
LEMMA EndFound ==
  ASSUME IInv, finishing, queue = <<>>, writer = "check",
         ~hasError, ~shouldStop
  PROVE  Len(hashed) >= ImageChunks
<1>1. Len(hashed) \in Nat /\ sent \in Nat /\ Len(queue) = 0
  BY Lengths, Bounds DEF IInv, Passed
<1>2. Well
  BY DEF IInv, Reasons, Well
<1>3. sent + One(download = "push") = Len(hashed)
  BY <1>1, <1>2 DEF IInv, Counted, One, Held
<1>4. sent >= ImageChunks
  BY DEF IInv, Finishing
<1> QED
  BY <1>1, <1>3, <1>4, Bounds DEF One

-----------------------------------------------------------------------------
(* What each step keeps. *)

(* Where the threads are. *)
LEMMA KeepsTyped ==
  ASSUME IInv, Next
  PROVE  Typed'
<1>1. CASE DownloadThread
  BY <1>1 DEF IInv, Typed, DownloadThread, WriteCache, Write,
    WriteAfterWaiting, WriteRefused, PushQueue, TransferEnds
<1>2. CASE WriterThread
  BY <1>2 DEF IInv, Typed, WriterThread, Take, WritePiece, Check, Exit
<1>3. CASE ExtractThread
  BY <1>3 DEF IInv, Typed, ExtractThread, Decompressed, StartFinish,
    MarkFinishing, JoinWriter, Trim, Deactivate, Publish, CloseFiles
<1>4. ASSUME NEW t \in Threads, Canceller(t)
      PROVE  Typed'
  BY <1>4 DEF IInv, Typed, Canceller, Cancel, Step, CancelWaits, CancelEnds
<1>5. CASE Hang \/ Destroy \/ OnError \/ Destroyed \/ Stuck
  BY <1>5 DEF IInv, Typed, Hang, Destroy, Step, OnError, Destroyed, Stuck, vars
<1> QED
  BY <1>1, <1>2, <1>3, <1>4, <1>5 DEF Next

(* The flags are flags. *)
LEMMA KeepsFlags ==
  ASSUME IInv, Next
  PROVE  Flags'
<1>1. CASE DownloadThread
  BY <1>1 DEF IInv, Flags, DownloadThread, WriteCache, Write,
    WriteAfterWaiting, WriteRefused, PushQueue, TransferEnds
<1>2. CASE WriterThread
  BY <1>2 DEF IInv, Flags, WriterThread, Take, WritePiece, Check, Exit
<1>3. CASE ExtractThread
  BY <1>3 DEF IInv, Flags, ExtractThread, Decompressed, StartFinish,
    MarkFinishing, JoinWriter, Trim, Deactivate, Publish, CloseFiles
<1>4. ASSUME NEW t \in Threads, Canceller(t)
      PROVE  Flags'
  BY <1>4 DEF IInv, Flags, Canceller, Cancel, Step, CancelWaits, CancelEnds
<1>5. CASE Hang \/ Destroy \/ OnError \/ Destroyed \/ Stuck
  BY <1>5 DEF IInv, Flags, Hang, Destroy, Step, OnError, Destroyed, Stuck, vars
<1> QED
  BY <1>1, <1>2, <1>3, <1>4, <1>5 DEF Next

(* The stream does not go on after its last piece. *)
LEMMA KeepsPassed ==
  ASSUME IInv, Next
  PROVE  Passed'
<1>1. CASE DownloadThread
  BY <1>1, Bounds DEF IInv, Typed, Passed, DownloadThread, WriteCache, Write,
    WriteAfterWaiting, WriteRefused, PushQueue, TransferEnds
<1>2. CASE WriterThread
  BY <1>2, Bounds DEF IInv, Typed, Passed, WriterThread, Take, WritePiece,
    Check, Exit
<1>3. CASE ExtractThread
  BY <1>3, Bounds DEF IInv, Typed, Passed, ExtractThread, Decompressed,
    StartFinish, MarkFinishing, JoinWriter, Trim, Deactivate, Publish,
    CloseFiles
<1>4. ASSUME NEW t \in Threads, Canceller(t)
      PROVE  Passed'
  BY <1>4, Bounds DEF IInv, Typed, Passed, Canceller, Cancel, Step,
    CancelWaits, CancelEnds
<1>5. CASE Hang \/ Destroy \/ OnError \/ Destroyed \/ Stuck
  BY <1>5, Bounds DEF IInv, Typed, Passed, Hang, Destroy, Step, OnError,
    Destroyed, Stuck, vars
<1> QED
  BY <1>1, <1>2, <1>3, <1>4, <1>5 DEF Next

(* finish is for a whole image, and ends when the writer has. *)
LEMMA KeepsFinishing ==
  ASSUME IInv, Next
  PROVE  Finishing'
<1>1. CASE DownloadThread
  BY <1>1, Bounds DEF IInv, Typed, Passed, Finishing, DownloadThread,
    WriteCache, Write, WriteAfterWaiting, WriteRefused, PushQueue, TransferEnds
<1>2. CASE WriterThread
  BY <1>2, Bounds DEF IInv, Typed, Passed, Finishing, WriterThread, Take,
    WritePiece, Check, Exit
<1>3. CASE ExtractThread
  BY <1>3, Bounds DEF IInv, Typed, Passed, Finishing, ExtractThread,
    Decompressed, StartFinish, MarkFinishing, JoinWriter, Trim, Deactivate,
    Publish, CloseFiles
<1>4. ASSUME NEW t \in Threads, Canceller(t)
      PROVE  Finishing'
  BY <1>4, Bounds DEF IInv, Typed, Passed, Finishing, Canceller, Cancel, Step,
    CancelWaits, CancelEnds
<1>5. CASE Hang \/ Destroy \/ OnError \/ Destroyed \/ Stuck
  BY <1>5, Bounds DEF IInv, Typed, Passed, Finishing, Hang, Destroy, Step,
    OnError, Destroyed, Stuck, vars
<1> QED
  BY <1>1, <1>2, <1>3, <1>4, <1>5 DEF Next

(* A flag keeps its meaning. *)
LEMMA KeepsReasons ==
  ASSUME IInv, Next
  PROVE  Reasons'
<1>1. CASE DownloadThread
  BY <1>1 DEF IInv, Typed, Reasons, Finishing, CleanEnd, DownloadThread,
    WriteCache, Write, WriteAfterWaiting, WriteRefused, PushQueue, TransferEnds
<1>2. CASE WriterThread
  BY <1>2 DEF IInv, Typed, Reasons, Finishing, CleanEnd, WriterThread, Take,
    WritePiece, Check, Exit
<1>3. CASE ExtractThread
  BY <1>3 DEF IInv, Typed, Reasons, Finishing, CleanEnd, ExtractThread,
    Decompressed, StartFinish, MarkFinishing, JoinWriter, Trim, Deactivate,
    Publish, CloseFiles
<1>4. ASSUME NEW t \in Threads, Canceller(t)
      PROVE  Reasons'
  BY <1>4 DEF IInv, Typed, Reasons, Finishing, CleanEnd, Canceller, Cancel,
    Step, CancelWaits, CancelEnds
<1>5. CASE Hang \/ Destroy \/ OnError \/ Destroyed \/ Stuck
  BY <1>5 DEF IInv, Typed, Reasons, Finishing, CleanEnd, Hang, Destroy, Step,
    OnError, Destroyed, Stuck, vars
<1> QED
  BY <1>1, <1>2, <1>3, <1>4, <1>5 DEF Next

(* What a writer that has stopped leaves. *)
LEMMA KeepsCleanEnd ==
  ASSUME IInv, Next
  PROVE  CleanEnd'
<1>1. CASE DownloadThread
  <2>1. CASE WriteCache
    BY <2>1 DEF IInv, Typed, Reasons, Finishing, CleanEnd, WriteCache
  <2>2. CASE Write
    BY <2>2 DEF IInv, Typed, Reasons, Finishing, CleanEnd, Write
  <2>3. CASE WriteAfterWaiting
    <3>1. ~(writer = "dead" /\ exists /\ hasError')
      <4>1. CASE Len(queue) < QueueLimit
        BY <2>3, <4>1 DEF WriteAfterWaiting, IInv, CleanEnd
      <4>2. CASE ~(Len(queue) < QueueLimit)
        BY <2>3, <4>2, RoomForTheRest DEF WriteAfterWaiting
      <4> QED
        BY <4>1, <4>2
    <3>2. /\ UNCHANGED <<writer, hashed, finishing, exists, shouldStop>>
          /\ hasError => hasError'
      BY <2>3 DEF WriteAfterWaiting
    <3> QED
      BY <3>1, <3>2 DEF IInv, CleanEnd
  <2>4. CASE WriteRefused
    BY <2>4 DEF IInv, Typed, Reasons, Finishing, CleanEnd, WriteRefused
  <2>5. CASE PushQueue
    BY <2>5 DEF IInv, Typed, Reasons, Finishing, CleanEnd, PushQueue
  <2>6. CASE TransferEnds
    BY <2>6 DEF IInv, Typed, Reasons, Finishing, CleanEnd, TransferEnds
  <2> QED
    BY <1>1, <2>1, <2>2, <2>3, <2>4, <2>5, <2>6 DEF DownloadThread
<1>2. CASE WriterThread
  <2>1. CASE Take
    BY <2>1 DEF IInv, Typed, Reasons, Finishing, CleanEnd, Take
  <2>2. CASE WritePiece
    BY <2>2 DEF IInv, Typed, Reasons, Finishing, CleanEnd, WritePiece
  <2>3. CASE Check
    <3>1. writer' = "exit" /\ ~hasError /\ ~shouldStop =>
            finishing /\ Len(hashed) >= ImageChunks
      BY <2>3, EndFound DEF Check
    <3>2. /\ UNCHANGED <<hashed, finishing, exists, hasError, shouldStop>>
          /\ writer' \in {"exit", "top"}
      BY <2>3 DEF Check
    <3> QED
      BY <3>1, <3>2 DEF CleanEnd
  <2>4. CASE Exit
    BY <2>4 DEF IInv, Typed, Reasons, Finishing, CleanEnd, Exit
  <2> QED
    BY <1>2, <2>1, <2>2, <2>3, <2>4 DEF WriterThread
<1>3. CASE ExtractThread
  BY <1>3 DEF IInv, Typed, Reasons, Finishing, CleanEnd, ExtractThread,
    Decompressed, StartFinish, MarkFinishing, JoinWriter, Trim, Deactivate,
    Publish, CloseFiles
<1>4. ASSUME NEW t \in Threads, Canceller(t)
      PROVE  CleanEnd'
  BY <1>4 DEF IInv, Typed, Reasons, Finishing, CleanEnd, Canceller, Cancel,
    Step, CancelWaits, CancelEnds
<1>5. CASE Hang \/ Destroy \/ OnError \/ Destroyed \/ Stuck
  BY <1>5 DEF IInv, Typed, Reasons, Finishing, CleanEnd, Hang, Destroy, Step,
    OnError, Destroyed, Stuck, vars
<1> QED
  BY <1>1, <1>2, <1>3, <1>4, <1>5 DEF Next

(* What is published. *)
LEMMA KeepsPublishing ==
  ASSUME IInv, Next
  PROVE  Publishing'
<1>1. CASE DownloadThread
  BY <1>1 DEF IInv, Typed, Reasons, Finishing, CleanEnd, Publishing,
    DownloadThread, WriteCache, Write, WriteAfterWaiting, WriteRefused,
    PushQueue, TransferEnds
<1>2. CASE WriterThread
  BY <1>2 DEF IInv, Typed, Reasons, Finishing, CleanEnd, Publishing,
    WriterThread, Take, WritePiece, Check, Exit
<1>3. CASE ExtractThread
  <2>1. CASE Decompressed
    BY <2>1 DEF IInv, Typed, Reasons, Finishing, CleanEnd, Publishing,
      Decompressed
  <2>2. CASE StartFinish
    BY <2>2 DEF IInv, Typed, Reasons, Finishing, CleanEnd, Publishing,
      StartFinish
  <2>3. CASE MarkFinishing
    BY <2>3 DEF IInv, Typed, Reasons, Finishing, CleanEnd, Publishing,
      MarkFinishing
  <2>4. CASE JoinWriter
    BY <2>4 DEF IInv, Typed, Reasons, Finishing, CleanEnd, Publishing,
      JoinWriter
  <2>5. CASE Trim
    <3>1. /\ finishing /\ writer = "dead" /\ extract = "trim"
          /\ published = <<>>
          /\ exists => ~hasError
      BY <2>5 DEF Trim, IInv, Finishing, CleanEnd, Publishing
    <3>2. exists' => ~reserve'
      BY <2>5, <3>1 DEF Trim
    <3>3. extract' = "close" /\ UNCHANGED <<published, finishing, hashed>>
      BY <2>5 DEF Trim
    <3> QED
      BY <3>1, <3>2, <3>3 DEF Publishing
  <2>6. CASE Deactivate
    BY <2>6 DEF IInv, Typed, Reasons, Finishing, CleanEnd, Publishing,
      Deactivate
  <2>7. CASE Publish
    BY <2>7 DEF IInv, Typed, Reasons, Finishing, CleanEnd, Publishing, Publish
  <2>8. CASE CloseFiles
    BY <2>8 DEF IInv, Typed, Reasons, Finishing, CleanEnd, Publishing,
      CloseFiles
  <2> QED
    BY <1>3, <2>1, <2>2, <2>3, <2>4, <2>5, <2>6, <2>7, <2>8 DEF ExtractThread
<1>4. ASSUME NEW t \in Threads, Canceller(t)
      PROVE  Publishing'
  BY <1>4 DEF IInv, Typed, Reasons, Finishing, CleanEnd, Publishing, Canceller,
    Cancel, Step, CancelWaits, CancelEnds
<1>5. CASE Hang \/ Destroy \/ OnError \/ Destroyed \/ Stuck
  BY <1>5 DEF IInv, Typed, Reasons, Finishing, CleanEnd, Publishing, Hang,
    Destroy, Step, OnError, Destroyed, Stuck, vars
<1> QED
  BY <1>1, <1>2, <1>3, <1>4, <1>5 DEF Next

(* The destructor waits. *)
LEMMA KeepsDestroying ==
  ASSUME IInv, Next
  PROVE  Destroying'
<1>1. CASE DownloadThread
  BY <1>1 DEF IInv, Typed, Destroying, DownloadThread, WriteCache, Write,
    WriteAfterWaiting, WriteRefused, PushQueue, TransferEnds
<1>2. CASE WriterThread
  BY <1>2 DEF IInv, Typed, Destroying, WriterThread, Take, WritePiece, Check,
    Exit
<1>3. CASE ExtractThread
  BY <1>3 DEF IInv, Typed, Destroying, ExtractThread, Decompressed,
    StartFinish, MarkFinishing, JoinWriter, Trim, Deactivate, Publish,
    CloseFiles
<1>4. ASSUME NEW t \in Threads, Canceller(t)
      PROVE  Destroying'
  BY <1>4 DEF IInv, Typed, Destroying, Canceller, Cancel, Step, CancelWaits,
    CancelEnds
<1>5. CASE Hang \/ Destroy \/ OnError \/ Destroyed \/ Stuck
  BY <1>5 DEF IInv, Typed, Destroying, Hang, Destroy, Step, OnError, Destroyed,
    Stuck, vars
<1> QED
  BY <1>1, <1>2, <1>3, <1>4, <1>5 DEF Next

(* The pieces, and no more of them than there are places. *)
LEMMA KeepsPieces ==
  ASSUME IInv, Next
  PROVE  Pieces'
<1>1. CASE DownloadThread
  <2>1. CASE WriteCache
    BY <2>1, Bounds DEF IInv, Pieces, WriteCache
  <2>2. CASE Write
    <3>1. CASE UNCHANGED queue
      BY <2>2, <3>1, Bounds DEF IInv, Pieces, Write
    <3>2. CASE Len(queue) < QueueLimit
      <4>1. PICK q \in Seq(1 .. Chunks) :
              /\ q = Append(queue, sent + 1)
              /\ Len(q) = Len(queue) + 1
              /\ From(q, Len(hashed) + One(Held))
              /\ sent = Len(hashed) + One(Held) + Len(queue)
        BY <2>2, <3>2, Stores DEF Write
      <4>2. /\ queue' = q /\ download' = "push"
            /\ UNCHANGED <<sent, extract, cancelling, published, hashed,
                           contents, writer, holding, hasError, shouldStop,
                           isActive, cacheEnabled>>
        BY <2>2, <3>2, <4>1 DEF Write
      <4>3. download \in {"cache", "full"}
        BY <2>2 DEF Write
      <4> QED
        BY <3>2, <4>1, <4>2, <4>3, Lengths, Bounds DEF IInv, Pieces
    <3> QED
      BY <2>2, <3>1, <3>2 DEF Write
  <2>3. CASE WriteAfterWaiting
    <3>1. CASE UNCHANGED queue
      BY <2>3, <3>1, Bounds DEF IInv, Pieces, WriteAfterWaiting
    <3>2. CASE Len(queue) < QueueLimit
      <4>1. PICK q \in Seq(1 .. Chunks) :
              /\ q = Append(queue, sent + 1)
              /\ Len(q) = Len(queue) + 1
              /\ From(q, Len(hashed) + One(Held))
              /\ sent = Len(hashed) + One(Held) + Len(queue)
        BY <2>3, <3>2, Stores DEF WriteAfterWaiting
      <4>2. /\ queue' = q /\ download' = "push"
            /\ UNCHANGED <<sent, extract, cancelling, published, hashed,
                           contents, writer, holding, hasError, shouldStop,
                           isActive, cacheEnabled>>
        BY <2>3, <3>2, <4>1 DEF WriteAfterWaiting
      <4>3. download \in {"cache", "full"}
        BY <2>3 DEF WriteAfterWaiting
      <4> QED
        BY <3>2, <4>1, <4>2, <4>3, Lengths, Bounds DEF IInv, Pieces
    <3> QED
      BY <2>3, <3>1, <3>2 DEF WriteAfterWaiting
  <2>4. CASE WriteRefused
    BY <2>4, Bounds DEF IInv, Pieces, WriteRefused
  <2>5. CASE PushQueue
    BY <2>5, Bounds DEF IInv, Pieces, PushQueue
  <2>6. CASE TransferEnds
    BY <2>6, Bounds DEF IInv, Pieces, TransferEnds
  <2> QED
    BY <1>1, <2>1, <2>2, <2>3, <2>4, <2>5, <2>6 DEF DownloadThread
<1>2. CASE WriterThread
  <2>1. CASE Take
    <3>1. CASE UNCHANGED <<queue, holding>> /\ writer' \in {"check", "exit"}
      BY <2>1, <3>1, Bounds DEF IInv, Pieces, Take
    <3>2. CASE /\ queue # <<>> /\ queue' = Tail(queue)
               /\ holding' = Head(queue) /\ writer' = "write"
      <4>1. PICK q \in Seq(1 .. Chunks) :
              /\ q = Tail(queue)
              /\ Len(q) = Len(queue) - 1
              /\ From(q, Len(hashed) + 1)
              /\ Head(queue) = Len(hashed) + 1 /\ Head(queue) \in 1 .. Chunks
        BY <2>1, <3>2, Takes DEF Held, Take
      <4>2. /\ queue' = q /\ holding' = Head(queue) /\ writer' = "write"
            /\ UNCHANGED <<users, flags, hasError, hashed, file>>
        BY <2>1, <3>2, <4>1 DEF Take
      <4>3. writer = "top"
        BY <2>1 DEF Take
      <4> QED
        BY <4>1, <4>2, <4>3, Lengths, Bounds DEF IInv, Pieces
    <3> QED
      BY <2>1, <3>1, <3>2 DEF Take
  <2>2. CASE WritePiece
    <3>1. PICK h, c \in Seq(1 .. Chunks) :
            /\ h = Append(hashed, holding) /\ c = Append(contents, holding)
            /\ Len(h) = Len(hashed) + 1 /\ Len(c) = Len(contents) + 1
            /\ From(h, 0) /\ From(c, 0)
            /\ Len(hashed) = Len(contents)
      BY <2>2, Writes DEF Held, WritePiece
    <3>2. /\ hashed' = h /\ holding' = 0
          /\ \/ contents' = c /\ writer' = "check" /\ UNCHANGED hasError
             \/ UNCHANGED contents /\ writer' = "exit" /\ hasError' = TRUE
          /\ UNCHANGED <<users, queue, flags>>
          /\ writer = "write"
      BY <2>2, <3>1 DEF WritePiece
    <3>3. /\ Len(h) = Len(hashed) + 1 /\ Len(c) = Len(contents) + 1
          /\ From(h, 0) /\ From(c, 0)
          /\ Len(hashed) = Len(contents)
          /\ h \in Seq(1 .. Chunks) /\ c \in Seq(1 .. Chunks)
      BY <3>1
    <3> QED
      BY <3>2, <3>3, Lengths, Bounds DEF IInv, Pieces
  <2>3. CASE Check
    BY <2>3, Bounds DEF IInv, Pieces, Check
  <2>4. CASE Exit
    <3>1. CASE UNCHANGED queue
      BY <2>4, <3>1, Bounds DEF IInv, Pieces, Exit
    <3>2. CASE queue' = <<>>
      <4>1. PICK q \in Seq(1 .. Chunks) : q = <<>> /\ Len(q) = 0
        BY FromNothing
      <4>2. \A n \in Nat : From(q, n)
        BY <4>1, FromNothing
      <4>3. queue' = q
        BY <3>2, <4>1
      <4>4. UNCHANGED <<hashed, holding, contents, published>>
            /\ (UNCHANGED writer \/ (~Held /\ ~Held'))
        BY <2>4 DEF Exit, Held
      <4> QED
        BY <4>1, <4>2, <4>3, <4>4, Lengths, Bounds DEF IInv, Pieces
    <3> QED
      BY <2>4, <3>1, <3>2 DEF Exit
  <2> QED
    BY <1>2, <2>1, <2>2, <2>3, <2>4 DEF WriterThread
<1>3. CASE ExtractThread
  <2>1. CASE Decompressed
    BY <2>1, Bounds DEF IInv, Pieces, Decompressed
  <2>2. CASE StartFinish
    BY <2>2, Bounds DEF IInv, Pieces, StartFinish
  <2>3. CASE MarkFinishing
    BY <2>3, Bounds DEF IInv, Pieces, MarkFinishing
  <2>4. CASE JoinWriter
    BY <2>4, Bounds DEF IInv, Pieces, JoinWriter
  <2>5. CASE Trim
    <3>1. CASE UNCHANGED queue
      BY <2>5, <3>1, Bounds DEF IInv, Pieces, Trim
    <3>2. CASE queue' = <<>>
      <4>1. PICK q \in Seq(1 .. Chunks) : q = <<>> /\ Len(q) = 0
        BY FromNothing
      <4>2. \A n \in Nat : From(q, n)
        BY <4>1, FromNothing
      <4>3. queue' = q
        BY <3>2, <4>1
      <4>4. UNCHANGED <<hashed, holding, contents, published>>
            /\ (UNCHANGED writer \/ (~Held /\ ~Held'))
        BY <2>5 DEF Trim
      <4> QED
        BY <4>1, <4>2, <4>3, <4>4, Lengths, Bounds DEF IInv, Pieces
    <3> QED
      BY <2>5, <3>1, <3>2 DEF Trim
  <2>6. CASE Deactivate
    BY <2>6, Bounds DEF IInv, Pieces, Deactivate
  <2>7. CASE Publish
    BY <2>7, Bounds DEF IInv, Pieces, Publish
  <2>8. CASE CloseFiles
    BY <2>8, Bounds DEF IInv, Pieces, CloseFiles
  <2> QED
    BY <1>3, <2>1, <2>2, <2>3, <2>4, <2>5, <2>6, <2>7, <2>8 DEF ExtractThread
<1>4. ASSUME NEW t \in Threads, Canceller(t)
      PROVE  Pieces'
  <2>1. CASE Cancel(t)
    BY <2>1, Bounds DEF IInv, Pieces, Cancel, Step
  <2>2. CASE CancelWaits(t)
    <3>1. CASE UNCHANGED queue
      BY <2>2, <3>1, Bounds DEF IInv, Pieces, CancelWaits, Step
    <3>2. CASE queue' = <<>>
      <4>1. PICK q \in Seq(1 .. Chunks) : q = <<>> /\ Len(q) = 0
        BY FromNothing
      <4>2. \A n \in Nat : From(q, n)
        BY <4>1, FromNothing
      <4>3. queue' = q
        BY <3>2, <4>1
      <4>4. UNCHANGED <<hashed, holding, contents, published>>
            /\ (UNCHANGED writer \/ (~Held /\ ~Held'))
        BY <2>2 DEF CancelWaits, Step
      <4> QED
        BY <4>1, <4>2, <4>3, <4>4, Lengths, Bounds DEF IInv, Pieces
    <3> QED
      BY <2>2, <3>1, <3>2 DEF CancelWaits, Step
  <2>3. CASE CancelEnds(t)
    BY <2>3, Bounds DEF IInv, Pieces, CancelEnds, Step
  <2> QED
    BY <1>4, <2>1, <2>2, <2>3 DEF Canceller
<1>5. CASE Hang \/ Destroy \/ OnError \/ Destroyed \/ Stuck
  BY <1>5, Bounds DEF IInv, Pieces, Hang, Destroy, Step, OnError, Destroyed,
    Stuck, vars
<1> QED
  BY <1>1, <1>2, <1>3, <1>4, <1>5 DEF Next

(* The order of the pieces. *)
LEMMA KeepsInOrder ==
  ASSUME IInv, Next
  PROVE  InOrder'
<1>1. CASE DownloadThread
  <2>1. CASE WriteCache
    BY <2>1 DEF IInv, Typed, InOrder, Held, One, WriteCache
  <2>2. CASE Write
    <3>1. CASE UNCHANGED queue
      BY <2>2, <3>1, Bounds DEF IInv, InOrder, Held, One, Write
    <3>2. CASE Len(queue) < QueueLimit
      <4>1. PICK q \in Seq(1 .. Chunks) :
              /\ q = Append(queue, sent + 1)
              /\ Len(q) = Len(queue) + 1
              /\ From(q, Len(hashed) + One(Held))
              /\ sent = Len(hashed) + One(Held) + Len(queue)
        BY <2>2, <3>2, Stores DEF Write
      <4>2. /\ queue' = q /\ download' = "push"
            /\ UNCHANGED <<sent, extract, cancelling, published, hashed,
                           contents, writer, holding, hasError, shouldStop,
                           isActive, cacheEnabled>>
        BY <2>2, <3>2, <4>1 DEF Write
      <4>3. download \in {"cache", "full"}
        BY <2>2 DEF Write
      <4> QED
        BY <3>2, <4>1, <4>2, <4>3, Lengths, Bounds DEF IInv, InOrder, Held, One
    <3> QED
      BY <2>2, <3>1, <3>2 DEF Write
  <2>3. CASE WriteAfterWaiting
    <3>1. CASE UNCHANGED queue
      BY <2>3, <3>1, Bounds DEF IInv, InOrder, Held, One, WriteAfterWaiting
    <3>2. CASE Len(queue) < QueueLimit
      <4>1. PICK q \in Seq(1 .. Chunks) :
              /\ q = Append(queue, sent + 1)
              /\ Len(q) = Len(queue) + 1
              /\ From(q, Len(hashed) + One(Held))
              /\ sent = Len(hashed) + One(Held) + Len(queue)
        BY <2>3, <3>2, Stores DEF WriteAfterWaiting
      <4>2. /\ queue' = q /\ download' = "push"
            /\ UNCHANGED <<sent, extract, cancelling, published, hashed,
                           contents, writer, holding, hasError, shouldStop,
                           isActive, cacheEnabled>>
        BY <2>3, <3>2, <4>1 DEF WriteAfterWaiting
      <4>3. download \in {"cache", "full"}
        BY <2>3 DEF WriteAfterWaiting
      <4> QED
        BY <3>2, <4>1, <4>2, <4>3, Lengths, Bounds DEF IInv, InOrder, Held, One
    <3> QED
      BY <2>3, <3>1, <3>2 DEF WriteAfterWaiting
  <2>4. CASE WriteRefused
    BY <2>4 DEF IInv, Typed, InOrder, Held, One, WriteRefused
  <2>5. CASE PushQueue
    BY <2>5 DEF IInv, Typed, InOrder, Held, One, PushQueue
  <2>6. CASE TransferEnds
    BY <2>6 DEF IInv, Typed, InOrder, Held, One, TransferEnds
  <2> QED
    BY <1>1, <2>1, <2>2, <2>3, <2>4, <2>5, <2>6 DEF DownloadThread
<1>2. CASE WriterThread
  <2>1. CASE Take
    <3>1. CASE UNCHANGED <<queue, holding>> /\ writer' \in {"check", "exit"}
      BY <2>1, <3>1, Bounds DEF IInv, InOrder, Held, One, Take
    <3>2. CASE /\ queue # <<>> /\ queue' = Tail(queue)
               /\ holding' = Head(queue) /\ writer' = "write"
      <4>1. PICK q \in Seq(1 .. Chunks) :
              /\ q = Tail(queue)
              /\ Len(q) = Len(queue) - 1
              /\ From(q, Len(hashed) + 1)
              /\ Head(queue) = Len(hashed) + 1 /\ Head(queue) \in 1 .. Chunks
        BY <2>1, <3>2, Takes DEF Held, Take
      <4>2. /\ queue' = q /\ holding' = Head(queue) /\ writer' = "write"
            /\ UNCHANGED <<users, flags, hasError, hashed, file>>
        BY <2>1, <3>2, <4>1 DEF Take
      <4>3. writer = "top"
        BY <2>1 DEF Take
      <4> QED
        BY <4>1, <4>2, <4>3, Lengths, Bounds DEF IInv, InOrder, Held, One
    <3> QED
      BY <2>1, <3>1, <3>2 DEF Take
  <2>2. CASE WritePiece
    <3>1. PICK h, c \in Seq(1 .. Chunks) :
            /\ h = Append(hashed, holding) /\ c = Append(contents, holding)
            /\ Len(h) = Len(hashed) + 1 /\ Len(c) = Len(contents) + 1
            /\ From(h, 0) /\ From(c, 0)
            /\ Len(hashed) = Len(contents)
      BY <2>2, Writes DEF Held, WritePiece
    <3>2. /\ hashed' = h /\ holding' = 0
          /\ \/ contents' = c /\ writer' = "check" /\ UNCHANGED hasError
             \/ UNCHANGED contents /\ writer' = "exit" /\ hasError' = TRUE
          /\ UNCHANGED <<users, queue, flags>>
          /\ writer = "write"
      BY <2>2, <3>1 DEF WritePiece
    <3>3. /\ Len(h) = Len(hashed) + 1 /\ Len(c) = Len(contents) + 1
          /\ From(h, 0) /\ From(c, 0)
          /\ Len(hashed) = Len(contents)
          /\ h \in Seq(1 .. Chunks) /\ c \in Seq(1 .. Chunks)
      BY <3>1
    <3> QED
      BY <3>2, <3>3, Lengths, Bounds DEF IInv, InOrder, Held, One
  <2>3. CASE Check
    BY <2>3 DEF IInv, Typed, InOrder, Held, One, Check
  <2>4. CASE Exit
    <3>1. CASE UNCHANGED queue
      BY <2>4, <3>1, Bounds DEF IInv, InOrder, Held, One, Exit
    <3>2. CASE queue' = <<>>
      <4>1. PICK q \in Seq(1 .. Chunks) : q = <<>> /\ Len(q) = 0
        BY FromNothing
      <4>2. \A n \in Nat : From(q, n)
        BY <4>1, FromNothing
      <4>3. queue' = q
        BY <3>2, <4>1
      <4>4. UNCHANGED <<hashed, holding, contents, published>>
            /\ (UNCHANGED writer \/ (~Held /\ ~Held'))
        BY <2>4 DEF Exit, Held
      <4> QED
        BY <4>1, <4>2, <4>3, <4>4, Lengths, Bounds DEF IInv, InOrder, Held, One
    <3> QED
      BY <2>4, <3>1, <3>2 DEF Exit
  <2> QED
    BY <1>2, <2>1, <2>2, <2>3, <2>4 DEF WriterThread
<1>3. CASE ExtractThread
  <2>1. CASE Decompressed
    BY <2>1 DEF IInv, Typed, InOrder, Held, One, Decompressed
  <2>2. CASE StartFinish
    BY <2>2 DEF IInv, Typed, InOrder, Held, One, StartFinish
  <2>3. CASE MarkFinishing
    BY <2>3 DEF IInv, Typed, InOrder, Held, One, MarkFinishing
  <2>4. CASE JoinWriter
    BY <2>4 DEF IInv, Typed, InOrder, Held, One, JoinWriter
  <2>5. CASE Trim
    <3>1. CASE UNCHANGED queue
      BY <2>5, <3>1, Bounds DEF IInv, InOrder, Held, One, Trim
    <3>2. CASE queue' = <<>>
      <4>1. PICK q \in Seq(1 .. Chunks) : q = <<>> /\ Len(q) = 0
        BY FromNothing
      <4>2. \A n \in Nat : From(q, n)
        BY <4>1, FromNothing
      <4>3. queue' = q
        BY <3>2, <4>1
      <4>4. UNCHANGED <<hashed, holding, contents, published>>
            /\ (UNCHANGED writer \/ (~Held /\ ~Held'))
        BY <2>5 DEF Trim
      <4> QED
        BY <4>1, <4>2, <4>3, <4>4, Lengths, Bounds DEF IInv, InOrder, Held, One
    <3> QED
      BY <2>5, <3>1, <3>2 DEF Trim
  <2>6. CASE Deactivate
    BY <2>6 DEF IInv, Typed, InOrder, Held, One, Deactivate
  <2>7. CASE Publish
    BY <2>7 DEF IInv, Typed, InOrder, Held, One, Publish
  <2>8. CASE CloseFiles
    BY <2>8 DEF IInv, Typed, InOrder, Held, One, CloseFiles
  <2> QED
    BY <1>3, <2>1, <2>2, <2>3, <2>4, <2>5, <2>6, <2>7, <2>8 DEF ExtractThread
<1>4. ASSUME NEW t \in Threads, Canceller(t)
      PROVE  InOrder'
  <2>1. CASE Cancel(t)
    BY <2>1 DEF IInv, Typed, InOrder, Held, One, Cancel, Step
  <2>2. CASE CancelWaits(t)
    <3>1. CASE UNCHANGED queue
      BY <2>2, <3>1, Bounds DEF IInv, InOrder, Held, One, CancelWaits, Step
    <3>2. CASE queue' = <<>>
      <4>1. PICK q \in Seq(1 .. Chunks) : q = <<>> /\ Len(q) = 0
        BY FromNothing
      <4>2. \A n \in Nat : From(q, n)
        BY <4>1, FromNothing
      <4>3. queue' = q
        BY <3>2, <4>1
      <4>4. UNCHANGED <<hashed, holding, contents, published>>
            /\ (UNCHANGED writer \/ (~Held /\ ~Held'))
        BY <2>2 DEF CancelWaits, Step
      <4> QED
        BY <4>1, <4>2, <4>3, <4>4, Lengths, Bounds DEF IInv, InOrder, Held, One
    <3> QED
      BY <2>2, <3>1, <3>2 DEF CancelWaits, Step
  <2>3. CASE CancelEnds(t)
    BY <2>3 DEF IInv, Typed, InOrder, Held, One, CancelEnds, Step
  <2> QED
    BY <1>4, <2>1, <2>2, <2>3 DEF Canceller
<1>5. CASE Hang \/ Destroy \/ OnError \/ Destroyed \/ Stuck
  BY <1>5 DEF IInv, Typed, InOrder, Held, One, Hang, Destroy, Step, OnError,
    Destroyed, Stuck, vars
<1> QED
  BY <1>1, <1>2, <1>3, <1>4, <1>5 DEF Next

(* The file follows the hash. *)
LEMMA KeepsFileFollows ==
  ASSUME IInv, Next
  PROVE  FileFollows'
<1>1. CASE DownloadThread
  BY <1>1 DEF IInv, Typed, FileFollows, DownloadThread, WriteCache, Write,
    WriteAfterWaiting, WriteRefused, PushQueue, TransferEnds
<1>2. CASE WriterThread
  <2>1. CASE Take
    BY <2>1 DEF IInv, Typed, FileFollows, Take
  <2>2. CASE WritePiece
    <3>1. PICK h, c \in Seq(1 .. Chunks) :
            /\ h = Append(hashed, holding) /\ c = Append(contents, holding)
            /\ Len(h) = Len(hashed) + 1 /\ Len(c) = Len(contents) + 1
            /\ From(h, 0) /\ From(c, 0)
            /\ Len(hashed) = Len(contents)
      BY <2>2, Writes DEF Held, WritePiece
    <3>2. /\ hashed' = h /\ holding' = 0
          /\ \/ contents' = c /\ writer' = "check" /\ UNCHANGED hasError
             \/ UNCHANGED contents /\ writer' = "exit" /\ hasError' = TRUE
          /\ UNCHANGED <<users, queue, flags>>
          /\ writer = "write"
      BY <2>2, <3>1 DEF WritePiece
    <3>3. /\ Len(h) = Len(hashed) + 1 /\ Len(c) = Len(contents) + 1
          /\ From(h, 0) /\ From(c, 0)
          /\ Len(hashed) = Len(contents)
          /\ h \in Seq(1 .. Chunks) /\ c \in Seq(1 .. Chunks)
      BY <3>1
    <3> QED
      BY <3>2, <3>3, Lengths, Bounds DEF IInv, FileFollows
  <2>3. CASE Check
    BY <2>3 DEF IInv, Typed, FileFollows, Check
  <2>4. CASE Exit
    BY <2>4 DEF IInv, Typed, FileFollows, Exit
  <2> QED
    BY <1>2, <2>1, <2>2, <2>3, <2>4 DEF WriterThread
<1>3. CASE ExtractThread
  BY <1>3 DEF IInv, Typed, FileFollows, ExtractThread, Decompressed,
    StartFinish, MarkFinishing, JoinWriter, Trim, Deactivate, Publish,
    CloseFiles
<1>4. ASSUME NEW t \in Threads, Canceller(t)
      PROVE  FileFollows'
  BY <1>4 DEF IInv, Typed, FileFollows, Canceller, Cancel, Step, CancelWaits,
    CancelEnds
<1>5. CASE Hang \/ Destroy \/ OnError \/ Destroyed \/ Stuck
  BY <1>5 DEF IInv, Typed, FileFollows, Hang, Destroy, Step, OnError,
    Destroyed, Stuck, vars
<1> QED
  BY <1>1, <1>2, <1>3, <1>4, <1>5 DEF Next

(* No piece is missing from a writer that is well. *)
LEMMA KeepsCounted ==
  ASSUME IInv, Next
  PROVE  Counted'
<1>1. CASE DownloadThread
  <2>1. CASE WriteCache
    BY <2>1 DEF IInv, Typed, Reasons, Counted, Well, Held, One, WriteCache
  <2>2. CASE Write
    <3>1. CASE UNCHANGED queue
      BY <2>2, <3>1, Bounds DEF IInv, Typed, Reasons, Counted, Well, Held, One,
        Write
    <3>2. CASE Len(queue) < QueueLimit
      <4>1. PICK q \in Seq(1 .. Chunks) :
              /\ q = Append(queue, sent + 1)
              /\ Len(q) = Len(queue) + 1
              /\ From(q, Len(hashed) + One(Held))
              /\ sent = Len(hashed) + One(Held) + Len(queue)
        BY <2>2, <3>2, Stores DEF Write
      <4>2. /\ queue' = q /\ download' = "push"
            /\ UNCHANGED <<sent, extract, cancelling, published, hashed,
                           contents, writer, holding, hasError, shouldStop,
                           isActive, cacheEnabled>>
        BY <2>2, <3>2, <4>1 DEF Write
      <4>3. download \in {"cache", "full"}
        BY <2>2 DEF Write
      <4> QED
        <5>1. /\ sent \in Nat /\ Len(hashed) \in Nat /\ Len(queue) \in Nat
              /\ Held' = Held
          BY <4>2, Lengths, Bounds DEF IInv, Passed, Held
        <5>2. CASE Held
          BY <4>1, <4>2, <5>1, <5>2 DEF Counted, One
        <5>3. CASE ~Held
          BY <4>1, <4>2, <5>1, <5>3 DEF Counted, One
        <5> QED
          BY <5>2, <5>3
    <3> QED
      BY <2>2, <3>1, <3>2 DEF Write
  <2>3. CASE WriteAfterWaiting
    <3>1. CASE UNCHANGED queue
      BY <2>3, <3>1, Bounds DEF IInv, Typed, Reasons, Counted, Well, Held, One,
        WriteAfterWaiting
    <3>2. CASE Len(queue) < QueueLimit
      <4>1. PICK q \in Seq(1 .. Chunks) :
              /\ q = Append(queue, sent + 1)
              /\ Len(q) = Len(queue) + 1
              /\ From(q, Len(hashed) + One(Held))
              /\ sent = Len(hashed) + One(Held) + Len(queue)
        BY <2>3, <3>2, Stores DEF WriteAfterWaiting
      <4>2. /\ queue' = q /\ download' = "push"
            /\ UNCHANGED <<sent, extract, cancelling, published, hashed,
                           contents, writer, holding, hasError, shouldStop,
                           isActive, cacheEnabled>>
        BY <2>3, <3>2, <4>1 DEF WriteAfterWaiting
      <4>3. download \in {"cache", "full"}
        BY <2>3 DEF WriteAfterWaiting
      <4> QED
        <5>1. /\ sent \in Nat /\ Len(hashed) \in Nat /\ Len(queue) \in Nat
              /\ Held' = Held
          BY <4>2, Lengths, Bounds DEF IInv, Passed, Held
        <5>2. CASE Held
          BY <4>1, <4>2, <5>1, <5>2 DEF Counted, One
        <5>3. CASE ~Held
          BY <4>1, <4>2, <5>1, <5>3 DEF Counted, One
        <5> QED
          BY <5>2, <5>3
    <3> QED
      BY <2>3, <3>1, <3>2 DEF WriteAfterWaiting
  <2>4. CASE WriteRefused
    BY <2>4 DEF IInv, Typed, Reasons, Counted, Well, Held, One, WriteRefused
  <2>5. CASE PushQueue
    BY <2>5 DEF IInv, Typed, Reasons, Counted, Well, Held, One, PushQueue
  <2>6. CASE TransferEnds
    BY <2>6 DEF IInv, Typed, Reasons, Counted, Well, Held, One, TransferEnds
  <2> QED
    BY <1>1, <2>1, <2>2, <2>3, <2>4, <2>5, <2>6 DEF DownloadThread
<1>2. CASE WriterThread
  <2>1. CASE Take
    BY <2>1 DEF IInv, Typed, Reasons, Counted, Well, Held, One, Take
  <2>2. CASE WritePiece
    <3>1. /\ hashed' = Append(hashed, holding)
          /\ Held /\ ~Held'
          /\ Well' => Well
          /\ UNCHANGED <<sent, download, queue>>
      BY <2>2 DEF WritePiece, Held, Well
    <3>2. Len(hashed') = Len(hashed) + 1
      BY <3>1, Writes
    <3>3. sent \in Nat /\ Len(hashed) \in Nat /\ Len(queue) \in Nat
      BY Lengths, Bounds DEF IInv, Passed
    <3>4. Well => sent + One(download = "push") = Len(hashed) + 1 + Len(queue)
      BY <3>1 DEF IInv, Counted, One
    <3>5. CASE Well
      <4>1. sent + One(download = "push") = Len(hashed') + 0 + Len(queue)
        BY <3>2, <3>3, <3>4, <3>5 DEF One
      <4> QED
        BY <3>1, <4>1 DEF Counted, One
    <3> QED
      BY <3>1, <3>5 DEF Counted
  <2>3. CASE Check
    BY <2>3 DEF IInv, Typed, Reasons, Counted, Well, Held, One, Check
  <2>4. CASE Exit
    BY <2>4 DEF IInv, Typed, Reasons, Counted, Well, Held, One, Exit
  <2> QED
    BY <1>2, <2>1, <2>2, <2>3, <2>4 DEF WriterThread
<1>3. CASE ExtractThread
  BY <1>3 DEF IInv, Typed, Reasons, Counted, Well, Held, One, ExtractThread,
    Decompressed, StartFinish, MarkFinishing, JoinWriter, Trim, Deactivate,
    Publish, CloseFiles
<1>4. ASSUME NEW t \in Threads, Canceller(t)
      PROVE  Counted'
  BY <1>4 DEF IInv, Typed, Reasons, Counted, Well, Held, One, Canceller,
    Cancel, Step, CancelWaits, CancelEnds
<1>5. CASE Hang \/ Destroy \/ OnError \/ Destroyed \/ Stuck
  BY <1>5 DEF IInv, Typed, Reasons, Counted, Well, Held, One, Hang, Destroy,
    Step, OnError, Destroyed, Stuck, vars
<1> QED
  BY <1>1, <1>2, <1>3, <1>4, <1>5 DEF Next

(* The initial state. *)
LEMMA Begins == Init => IInv
<1> SUFFICES ASSUME Init PROVE IInv
  OBVIOUS
<1> USE Bounds DEF Init
<1>1. Typed /\ Flags /\ Passed
  <2>1. Typed
    BY DEF Typed
  <2>2. Flags
    BY DEF Flags
  <2>3. Passed
    BY DEF Passed
  <2> QED
    BY <2>1, <2>2, <2>3
<1>2. Pieces /\ InOrder /\ FileFollows /\ Counted
  BY FromNothing DEF Pieces, InOrder, FileFollows, Counted, Held, One, Well
<1>3. Reasons /\ Finishing /\ CleanEnd /\ Publishing /\ Destroying
  BY DEF Reasons, Finishing, CleanEnd, Publishing, Destroying
<1> QED
  BY <1>1, <1>2, <1>3 DEF IInv

(* Every step keeps the invariant. *)
LEMMA Keeps == IInv /\ [Next]_vars => IInv'
<1>1. ASSUME IInv, Next
      PROVE  IInv'
  BY <1>1, KeepsTyped, KeepsFlags, KeepsPassed, KeepsFinishing, KeepsReasons,
     KeepsCleanEnd, KeepsPublishing, KeepsDestroying, KeepsPieces,
     KeepsInOrder, KeepsFileFollows, KeepsCounted DEF IInv
<1>2. ASSUME IInv, UNCHANGED vars
      PROVE  IInv'
  BY <1>2 DEF IInv, Typed, Flags, Passed, Pieces, InOrder, FileFollows,
     Counted, Reasons, Finishing, CleanEnd, Publishing, Destroying, Well,
     Held, vars
<1> QED
  BY <1>1, <1>2

(* The invariant holds throughout. *)
LEMMA Invariant == Spec => []IInv
  BY Begins, Keeps, PTL DEF Spec

-----------------------------------------------------------------------------
(* What follows from it. *)

(* The state is of its type: the queue never holds more than it may. *)
THEOREM TypeCorrect == Spec => []TypeOK
<1>1. IInv => TypeOK
  <2> SUFFICES ASSUME IInv PROVE TypeOK
    OBVIOUS
  <2>1. {cacheEnabled, errorPosted, isActive, shouldStop, hasError, finishing,
         exists, reserve} \subseteq BOOLEAN
    BY DEF IInv, Flags
  <2>2. /\ sent \in 0 .. Chunks
        /\ queue \in Seq(1 .. Chunks) /\ Len(queue) <= QueueLimit
        /\ published \in Seq(1 .. Chunks) /\ holding \in 0 .. Chunks
        /\ hashed \in Seq(1 .. Chunks) /\ contents \in Seq(1 .. Chunks)
    BY DEF IInv, Passed, Pieces
  <2> QED
    BY <2>1, <2>2 DEF IInv, Typed, TypeOK
<1> QED
  BY Invariant, <1>1, PTL

(* However pieces are refused, dropped or given up on, the file holds the   *)
(* beginning of the stream and what is hashed begins with it.               *)
THEOREM CopyHasNoHoles == Spec => []NoHoles
<1>1. IInv => NoHoles
  <2> SUFFICES ASSUME IInv PROVE NoHoles
    OBVIOUS
  <2>1. /\ contents \in Seq(1 .. Chunks) /\ hashed \in Seq(1 .. Chunks)
        /\ Len(contents) \in Nat /\ Len(hashed) \in Nat
        /\ Len(contents) <= Len(hashed)
        /\ From(contents, 0) /\ From(hashed, 0)
    BY Lengths DEF IInv, Pieces, FileFollows, InOrder
  <2>2. /\ \A i \in 1 .. Len(contents) : contents[i] = i
        /\ \A i \in 1 .. Len(hashed) : hashed[i] = i
    BY <2>1 DEF From
  <2>3. contents = UpTo(Len(contents))
    BY <2>1, <2>2 DEF UpTo
  <2>4. IsPrefix(contents, hashed)
    BY <2>1, <2>2 DEF IsPrefix
  <2> QED
    BY <2>3, <2>4 DEF NoHoles
<1> QED
  BY Invariant, <1>1, PTL

(* A published file whose writer has ended has the hash that was published, *)
(* is trimmed, and holds all that the image is made from.                   *)
THEOREM PublishedCopyIsWhole == Spec => []PublishedIsWhole
<1>1. IInv => PublishedIsWhole
  <2> SUFFICES ASSUME IInv, published # <<>>, exists, writer = "dead"
               PROVE  /\ contents = published /\ ~reserve
                      /\ Len(contents) >= ImageChunks
    BY DEF PublishedIsWhole
  <2>1. finishing /\ ~hasError /\ Len(hashed) >= ImageChunks
    BY DEF IInv, CleanEnd
  <2>2. extract \in {"closeFiles", "ended"}
    BY DEF IInv, Publishing
  <2>3. published = hashed /\ ~reserve
    BY <2>1, <2>2 DEF IInv, Publishing
  <2>4. Len(contents) = Len(hashed)
    BY <2>1 DEF IInv, FileFollows
  <2>5. contents = hashed
    BY <2>4, SameRun DEF IInv, Pieces, FileFollows, InOrder
  <2> QED
    BY <2>1, <2>3, <2>5
<1> QED
  BY Invariant, <1>1, PTL

(* When the download is gone its writer has ended, and the file that is     *)
(* left has a published hash.                                               *)
THEOREM NothingUnpublishedStays == Spec => []NothingLeftBehind
<1>1. IInv => NothingLeftBehind
  <2> SUFFICES ASSUME IInv, cancelling["main"] = "done"
               PROVE  /\ writer = "dead"
                      /\ exists => published # <<>>
                      /\ published # <<>> => exists \/ hasError \/ shouldStop
    BY DEF NothingLeftBehind
  <2>1. writer = "dead" /\ extract = "ended"
    BY DEF IInv, Destroying
  <2>2. ASSUME exists
        PROVE  published # <<>>
    <3>1. published = hashed /\ Len(hashed) >= ImageChunks
      BY <2>1, <2>2 DEF IInv, CleanEnd, Publishing
    <3>2. Len(published) # 0
      BY <3>1, Lengths, Bounds DEF IInv
    <3> QED
      BY <3>2, FromNothing, Bounds
  <2>3. exists \/ hasError \/ shouldStop
    BY DEF IInv, Reasons
  <2> QED
    BY <2>1, <2>2, <2>3
<1> QED
  BY Invariant, <1>1, PTL

=============================================================================
