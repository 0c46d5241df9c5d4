-------------------------- MODULE AsyncCacheWriter --------------------------
(***************************************************************************)
(* AsyncCacheWriter: the copy of a download that is kept for the next time. *)
(*                                                                         *)
(* The download thread queues what it receives (write), a thread of the     *)
(* writer's own puts it in the file and hashes it (run), and the extract    *)
(* thread, once the image has the hash expected of it, waits for the rest   *)
(* (finish) and publishes the file's hash.  Any of the other threads may    *)
(* cancel, which removes the file.  The flags are atomics read outside the  *)
(* mutex, so every decision on one is a step of its own.                    *)
(*                                                                         *)
(* Pieces of the stream are numbers.  An archive may end before its stream  *)
(* does: then the extract thread finishes while data still arrives.         *)
(***************************************************************************)
EXTENDS Naturals, Sequences, SequencesExt

CONSTANTS
  Chunks,        \* bound: the pieces of the stream
  ImageChunks,   \* the image is complete with these
  QueueLimit,    \* _maxQueueSize
  DiskMayFail,   \* writing the file or trimming it fails
  WriterMayHang  \* a write to the file takes long, or never returns

(* What follows the image in its archive is a fraction of the queue, which  *)
(* has at least eight places of 16 KiB.                                     *)
ASSUME CacheAssumption ==
  /\ Chunks \in Nat \ {0} /\ ImageChunks \in 1 .. Chunks
  /\ QueueLimit \in Nat \ {0} /\ Chunks - ImageChunks <= QueueLimit
  /\ {DiskMayFail, WriterMayHang} \subseteq BOOLEAN

Threads == {"download", "extract", "main"}

VARIABLES
  \* the threads that use the writer
  download,      \* where the download thread is
  sent,          \* pieces it has passed on to the decompressor
  extract,       \* where the extract thread is
  cancelling,    \* where each thread is in cancel()
  cacheEnabled,  \* _cacheEnabled
  errorPosted,   \* error() is on its way to the main thread
  published,     \* the hash given to CacheManager, as what was hashed; <<>> if none
  \* the writer
  queue,
  isActive, shouldStop, hasError, finishing,
  writer,        \* where its own thread is
  holding,       \* the piece it has taken out, or 0
  hashed,
  \* the file
  exists,
  contents,
  reserve        \* what was preallocated has not been trimmed

users == <<download, sent, extract, cancelling, cacheEnabled, published>>
flags == <<isActive, shouldStop, finishing>>
thread == <<writer, holding, hashed>>
file == <<exists, contents, reserve>>
vars == <<users, errorPosted, queue, flags, hasError, thread, file>>

UpTo(n) == [i \in 1 .. n |-> i]

TypeOK ==
  /\ download \in {"receive", "cache", "full", "push", "failed", "ended"}
  /\ sent \in 0 .. Chunks
  /\ extract \in {"decompress", "done", "mark", "join", "trim", "close",
                  "deactivate", "publish", "closeFiles", "ended"}
  /\ cancelling \in [Threads -> {"no", "stop", "wait", "deactivate", "done"}]
  /\ {cacheEnabled, errorPosted, isActive, shouldStop, hasError, finishing,
      exists, reserve} \subseteq BOOLEAN
  /\ published \in Seq(1 .. Chunks)
  /\ queue \in Seq(1 .. Chunks) /\ Len(queue) <= QueueLimit
  /\ writer \in {"top", "write", "hung", "check", "exit", "dead"}
  /\ holding \in 0 .. Chunks
  /\ hashed \in Seq(1 .. Chunks) /\ contents \in Seq(1 .. Chunks)

(* setCacheFile has opened the file, and started the writer's thread. *)
Init ==
  /\ download = "receive" /\ sent = 0
  /\ extract = "decompress"
  /\ cancelling = [t \in Threads |-> "no"]
  /\ cacheEnabled = TRUE /\ errorPosted = FALSE /\ published = <<>>
  /\ queue = <<>>
  /\ isActive = TRUE /\ shouldStop = FALSE /\ hasError = FALSE
  /\ finishing = FALSE
  /\ writer = "top" /\ holding = 0 /\ hashed = <<>>
  /\ exists = TRUE /\ contents = <<>> /\ reserve \in BOOLEAN

-----------------------------------------------------------------------------
(* The download thread. *)

(* _writeCache: a writer that is not well is not used again.                *)
WriteCache ==
  /\ download = "receive" /\ sent < Chunks
  /\ IF cacheEnabled /\ ~hasError /\ isActive
       THEN download' = "cache" /\ UNCHANGED cacheEnabled
       ELSE /\ download' = "push"
            /\ cacheEnabled' = (cacheEnabled /\ ~hasError)
  /\ UNCHANGED <<sent, extract, cancelling, published, errorPosted, queue,
                 flags, hasError, thread, file>>

Refused == ~isActive \/ hasError \/ shouldStop

(* Seeded fault: the limit of the queue is not looked at. *)
WriteUnbounded ==
  /\ download = "cache" /\ ~Refused
  /\ queue' = Append(queue, sent + 1) /\ download' = "push"
  /\ UNCHANGED <<sent, extract, cancelling, cacheEnabled, published,
                 errorPosted, flags, hasError, thread, file>>

(* write() of a piece that finds a place, or that waits for one. *)
Write ==
  /\ download = "cache" /\ ~Refused
  /\ IF Len(queue) < QueueLimit
       THEN queue' = Append(queue, sent + 1) /\ download' = "push"
       ELSE download' = "full" /\ UNCHANGED queue
  /\ UNCHANGED <<sent, extract, cancelling, cacheEnabled, published,
                 errorPosted, flags, hasError, thread, file>>

(* Seeded fault: the wait for a place has no end. *)
WaitForPlace ==
  /\ download = "full" /\ ~shouldStop /\ ~hasError
  /\ Len(queue) < QueueLimit
  /\ queue' = Append(queue, sent + 1)
  /\ download' = "push"
  /\ UNCHANGED <<sent, extract, cancelling, cacheEnabled, published,
                 errorPosted, flags, hasError, thread, file>>

(* Seeded fault: a piece that finds no place is skipped. *)
SkipAfterWaiting ==
  /\ download = "full" /\ ~shouldStop /\ ~hasError
  /\ IF Len(queue) < QueueLimit
       THEN queue' = Append(queue, sent + 1)
       ELSE UNCHANGED queue
  /\ download' = "push"
  /\ UNCHANGED <<sent, extract, cancelling, cacheEnabled, published,
                 errorPosted, flags, hasError, thread, file>>

(* Half a second is over, or a place is free. *)
WriteAfterWaiting ==
  /\ download = "full" /\ ~shouldStop /\ ~hasError
  /\ IF Len(queue) < QueueLimit
       THEN queue' = Append(queue, sent + 1) /\ UNCHANGED <<cacheEnabled, hasError>>
       ELSE hasError' = TRUE /\ cacheEnabled' = FALSE /\ UNCHANGED queue
  /\ download' = "push"
  /\ UNCHANGED <<sent, extract, cancelling, published, errorPosted, flags,
                 thread, file>>

WriteRefused ==
  /\ \/ download = "cache" /\ Refused
     \/ download = "full" /\ (shouldStop \/ hasError)
  /\ cacheEnabled' = FALSE
  /\ download' = "push"
  /\ UNCHANGED <<sent, extract, cancelling, published, errorPosted, queue,
                 flags, hasError, thread, file>>

(* _pushQueue, after the cache has the piece. *)
PushQueue ==
  /\ download = "push"
  /\ sent' = sent + 1
  /\ download' = "receive"
  /\ UNCHANGED <<extract, cancelling, cacheEnabled, published, errorPosted,
                 queue, flags, hasError, thread, file>>

(* The transfer ends; if badly deleteDownloadedFile cancels the cache.      *)
TransferEnds ==
  /\ \/ download = "receive" /\ sent = Chunks /\ download' = "ended"
        /\ UNCHANGED cancelling
     \/ /\ download = "receive" /\ sent < Chunks
        /\ download' = "failed"
        /\ cancelling' = [cancelling EXCEPT !["download"] = "stop"]
     \/ /\ download = "failed" /\ cancelling["download"] = "done"
        /\ download' = "ended" /\ UNCHANGED cancelling
  /\ UNCHANGED <<sent, extract, cacheEnabled, published, errorPosted, queue,
                 flags, hasError, thread, file>>

-----------------------------------------------------------------------------
(* The writer's thread. *)

(* close and remove the file, drop the queue: under the mutex. *)
Cleanup == queue' = <<>> /\ exists' = FALSE

(* Seeded fault: the end of the stream is not waited for but slept on. *)
TakeOnlyData ==
  /\ writer = "top"
  /\ \/ ~shouldStop /\ queue # <<>>
        /\ holding' = Head(queue) /\ queue' = Tail(queue) /\ writer' = "write"
     \/ shouldStop /\ writer' = "exit" /\ UNCHANGED <<holding, queue>>
  /\ UNCHANGED <<users, errorPosted, flags, hasError, hashed, file>>

Take ==
  /\ writer = "top"
  /\ \/ ~shouldStop /\ queue # <<>>
        /\ holding' = Head(queue) /\ queue' = Tail(queue) /\ writer' = "write"
     \/ ~shouldStop /\ queue = <<>> /\ finishing
        /\ writer' = "check" /\ UNCHANGED <<holding, queue>>
     \/ shouldStop /\ writer' = "exit" /\ UNCHANGED <<holding, queue>>
  /\ UNCHANGED <<users, errorPosted, flags, hasError, hashed, file>>

WritePiece ==
  /\ writer = "write"
  /\ hashed' = Append(hashed, holding)
  /\ holding' = 0
  /\ \/ /\ contents' = Append(contents, holding) /\ writer' = "check"
        /\ UNCHANGED <<hasError, errorPosted>>
     \/ /\ DiskMayFail
        /\ hasError' = TRUE /\ errorPosted' = TRUE /\ writer' = "exit"
        /\ UNCHANGED contents
  /\ UNCHANGED <<users, queue, flags, exists, reserve>>

Hang ==
  /\ writer = "write" /\ WriterMayHang
  /\ writer' = "hung"
  /\ UNCHANGED <<users, errorPosted, queue, flags, hasError, holding, hashed,
                 file>>

(* Seeded fault: finishing does not wait for the queue to be empty. *)
CheckFinishingOnly ==
  /\ writer = "check"
  /\ writer' = IF finishing THEN "exit" ELSE "top"
  /\ UNCHANGED <<users, errorPosted, queue, flags, hasError, holding, hashed,
                 file>>

Check ==
  /\ writer = "check"
  /\ writer' = IF finishing /\ queue = <<>> THEN "exit" ELSE "top"
  /\ UNCHANGED <<users, errorPosted, queue, flags, hasError, holding, hashed,
                 file>>

Exit ==
  /\ writer = "exit"
  /\ writer' = "dead"
  /\ IF shouldStop \/ hasError THEN Cleanup ELSE UNCHANGED <<queue, exists>>
  /\ UNCHANGED <<users, errorPosted, flags, hasError, holding, hashed,
                 contents, reserve>>

-----------------------------------------------------------------------------
(* The extract thread. *)

(* The image ends, with the hash expected of it or badly.  A bad one closes *)
(* the files, or not: then the writer is left to the destructor.            *)
Decompressed ==
  /\ extract = "decompress"
  /\ \/ sent >= ImageChunks /\ extract' = "done" /\ UNCHANGED cancelling
     \/ extract' = "closeFiles"
        /\ cancelling' = [cancelling EXCEPT !["extract"] = "stop"]
     \/ extract' = "ended" /\ UNCHANGED cancelling
  /\ UNCHANGED <<download, sent, cacheEnabled, published, errorPosted, queue,
                 flags, hasError, thread, file>>

(* Only a cache that is well is finished.                                   *)
StartFinish ==
  /\ extract = "done"
  /\ IF cacheEnabled /\ isActive /\ ~hasError
       THEN extract' = "mark" /\ UNCHANGED cancelling
       ELSE /\ extract' = "closeFiles"
            /\ cancelling' = [cancelling EXCEPT !["extract"] = "stop"]
  /\ UNCHANGED <<download, sent, cacheEnabled, published, errorPosted, queue,
                 flags, hasError, thread, file>>

(* finish(), from its first look at _isActive to the wait for the thread.   *)
MarkFinishing ==
  /\ extract = "mark"
  /\ IF isActive THEN finishing' = TRUE /\ extract' = "join"
                 ELSE extract' = "publish" /\ UNCHANGED finishing
  /\ UNCHANGED <<download, sent, cancelling, cacheEnabled, published,
                 errorPosted, queue, isActive, shouldStop, hasError, thread,
                 file>>

JoinWriter ==
  /\ extract = "join" /\ writer = "dead"
  /\ extract' = "trim"
  /\ UNCHANGED <<download, sent, cancelling, cacheEnabled, published,
                 errorPosted, queue, flags, hasError, thread, file>>

(* The file is cut to what was written; its size is that of a file that is  *)
(* not there if it has been removed, and that is right if nothing was       *)
(* written.                                                                 *)
Trim ==
  /\ extract = "trim"
  /\ extract' = "close"
  /\ \/ /\ hasError \/ exists \/ contents = <<>>
        /\ reserve' = (hasError /\ reserve)
        /\ UNCHANGED <<hasError, errorPosted, queue, exists>>
     \/ /\ ~hasError
        /\ DiskMayFail \/ (~exists /\ contents # <<>>)
        /\ hasError' = TRUE /\ errorPosted' = TRUE /\ Cleanup
        /\ UNCHANGED reserve
  /\ UNCHANGED <<download, sent, cancelling, cacheEnabled, published, flags,
                 thread, contents>>

(* The file is closed, well or not, and the writer no longer active; a      *)
(* cancel that comes later returns at once.                                 *)
Deactivate ==
  /\ extract = "close"
  /\ isActive' = FALSE
  /\ extract' = "publish"
  /\ UNCHANGED <<download, sent, cancelling, cacheEnabled, published,
                 errorPosted, queue, shouldStop, finishing, hasError, thread,
                 file>>

(* hash() is published whatever finish() has met.                           *)
Publish ==
  /\ extract = "publish"
  /\ published' = hashed
  /\ extract' = "closeFiles"
  /\ cancelling' = [cancelling EXCEPT !["extract"] = "stop"]
  /\ UNCHANGED <<download, sent, cacheEnabled, errorPosted, queue, flags,
                 hasError, thread, file>>

CloseFiles ==
  /\ extract = "closeFiles" /\ cancelling["extract"] = "done"
  /\ extract' = "ended"
  /\ UNCHANGED <<download, sent, cancelling, cacheEnabled, published,
                 errorPosted, queue, flags, hasError, thread, file>>

-----------------------------------------------------------------------------
(* cancel(), by any of the three. *)

Step(t, to) == cancelling' = [cancelling EXCEPT ![t] = to]

(* Seeded fault: a writer that is no longer active is not stopped, even if  *)
(* its thread runs.                                                         *)
CancelOnlyActive(t) ==
  /\ cancelling[t] = "stop"
  /\ IF isActive
       THEN shouldStop' = TRUE /\ Step(t, "wait")
       ELSE Step(t, "done") /\ UNCHANGED shouldStop
  /\ UNCHANGED <<download, sent, extract, cacheEnabled, published,
                 errorPosted, queue, isActive, finishing, hasError, thread,
                 file>>

Cancel(t) ==
  /\ cancelling[t] = "stop"
  /\ IF isActive \/ writer # "dead"
       THEN shouldStop' = TRUE /\ Step(t, "wait")
       ELSE Step(t, "done") /\ UNCHANGED shouldStop
  /\ UNCHANGED <<download, sent, extract, cacheEnabled, published,
                 errorPosted, queue, isActive, finishing, hasError, thread,
                 file>>

(* The thread has stopped, or it is left to clean up behind itself.  The    *)
(* destructor cannot leave it: ~QThread ends a program whose thread runs.   *)
CancelWaits(t) ==
  /\ cancelling[t] = "wait"
  /\ \/ writer = "dead" /\ Cleanup
     \/ WriterMayHang /\ t # "main" /\ UNCHANGED <<queue, exists>>
  /\ Step(t, "deactivate")
  /\ UNCHANGED <<download, sent, extract, cacheEnabled, published,
                 errorPosted, flags, hasError, thread, contents, reserve>>

CancelEnds(t) ==
  /\ cancelling[t] = "deactivate"
  /\ isActive' = FALSE
  /\ Step(t, "done")
  /\ UNCHANGED <<download, sent, extract, cacheEnabled, published,
                 errorPosted, queue, shouldStop, finishing, hasError, thread,
                 file>>

(* ~DownloadThread, when both threads have ended. *)
Destroy ==
  /\ download = "ended" /\ extract = "ended"
  /\ cancelling["main"] = "no"
  /\ Step("main", "stop")
  /\ UNCHANGED <<download, sent, extract, cacheEnabled, published,
                 errorPosted, queue, flags, hasError, thread, file>>

(* The main thread hears of an error. *)
OnError ==
  /\ errorPosted
  /\ errorPosted' = FALSE /\ cacheEnabled' = FALSE
  /\ UNCHANGED <<download, sent, extract, cancelling, published, queue, flags,
                 hasError, thread, file>>

-----------------------------------------------------------------------------
DownloadThread ==
  WriteCache \/ Write \/ WriteAfterWaiting \/ WriteRefused \/ PushQueue
    \/ TransferEnds

WriterThread == Take \/ WritePiece \/ Check \/ Exit

ExtractThread ==
  Decompressed \/ StartFinish \/ MarkFinishing \/ JoinWriter \/ Trim
    \/ Deactivate \/ Publish \/ CloseFiles

Canceller(t) == Cancel(t) \/ CancelWaits(t) \/ CancelEnds(t)

Destroyed == cancelling["main"] = "done" /\ ~errorPosted /\ UNCHANGED vars

(* finish waits for a hung writer without a limit.  The destructor gives it *)
(* up, and ~QThread then ends the program.                                  *)
Stuck ==
  /\ writer = "hung" /\ ~errorPosted
  /\ \/ extract = "join" /\ download = "ended"
     \/ cancelling["main"] = "wait"
  /\ UNCHANGED vars

Next ==
  \/ DownloadThread \/ WriterThread \/ ExtractThread
  \/ \E t \in Threads : Canceller(t)
  \/ Hang \/ Destroy \/ OnError \/ Destroyed \/ Stuck

Spec == Init /\ [][Next]_vars

(* Every thread runs, until the disk holds the writer's for good. *)
FairSpec ==
  /\ Spec
  /\ WF_vars(DownloadThread) /\ WF_vars(WriterThread) /\ WF_vars(ExtractThread)
  /\ \A t \in Threads : WF_vars(Canceller(t))
  /\ WF_vars(Destroy)

-----------------------------------------------------------------------------
(* However pieces are dropped, skipped or refused, the file holds the       *)
(* beginning of the stream and never a stream with a hole in it.            *)
NoHoles ==
  /\ contents = UpTo(Len(contents))
  /\ IsPrefix(contents, hashed)

(* A file in its place whose hash is published has that hash, once the      *)
(* writer's thread has come to its end: nothing is missing from what was    *)
(* hashed, no reserved space follows it, and all the image was decompressed *)
(* from is there ("that hash is what the next launch verifies the cached    *)
(* file against", async_cache_writer_test.cpp).                             *)
PublishedIsWhole ==
  published # <<>> /\ exists /\ writer = "dead" =>
    /\ contents = published /\ ~reserve
    /\ Len(contents) >= ImageChunks

(* When all is over what is left under the cache's name is a file with a    *)
(* published hash, or nothing ("A cancelled cache leaves nothing behind");  *)
(* and a published file is only missing if something was wrong with it.     *)
NothingLeftBehind ==
  cancelling["main"] = "done" =>
    /\ writer = "dead"
    /\ exists => published # <<>>
    /\ published # <<>> => exists \/ hasError \/ shouldStop

(* The download is never held up for good by its cache, not even by a disk  *)
(* that never answers ("caching is automatically disabled after a brief     *)
(* backpressure wait to avoid blocking the main download").                 *)
DownloadGoesOn == download \in {"cache", "full"} ~> download \in {"push", "ended"}

(* Whatever the order in which the three threads finish, cancel and destroy *)
(* the writer, its thread comes to its end and so do they, unless the disk  *)
(* never answers.                                                           *)
WriterEnds ==
  <>(writer = "hung" \/ (writer = "dead" /\ cancelling["main"] = "done"))
=============================================================================
