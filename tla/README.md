# Raspberry Pi Imager: specifications of the write paths

TLA+ modules that model how Raspberry Pi Imager gets an image onto a card or a board (and its
icons onto the screen), TLC configurations that check them on small instances, and proofs for TLAPS. Paths are
relative to the repository (`src/...` is its `src` directory). `PROJECT.json` maps every
definition to the lines it stands for.

## 1. The system

A write is made by up to five threads. The *main thread* runs the wizard (QML) and
`ImageWriter`; it polls the write thread through `WriteProgressWatchdog`. The *download
thread* (`DownloadThread::run`) receives the image with libcurl and puts it in the input
ring. The *extract thread* (`_extractThreadClass`) takes it out, decompresses it with
libarchive into slots of the write ring and queues those slots as writes. The *kernel*
ends these in any order. A *cache thread* (`AsyncCacheWriter::run`) keeps a copy of what was
received. A *poll thread* reports the drives that come and go.

| component | state it keeps | operations | hard behaviour | what makes it correct |
|---|---|---|---|---|
| `RingBuffer` | slots, free stack, committed queue, two stall clocks, flags | acquire, commit, release on both sides; done, cancel, reset | two threads, releases out of order and twice, stalls | one owner per slot; order; nothing committed is lost; nobody waits for ever |
| `LinuxFileOperations` | pending writes, cursor, queue depth, mode, errors | queue, poll, wait, cancel, drain, replay | completions in any order, refused or lost, three threads | success means every block in its place; buffers live; one callback each; an end |
| `DownloadThread`, `DownloadExtractThread` | flags, hashes, held-back first block, what was announced | transfer, extract, `_writeComplete`, cancel | two threads announce, a dozen steps may fail | success means a whole and durable card; an answer at the end; the table last |
| `AsyncCacheWriter` | queue, file, flags, hash | write, finish, cancel, destroy | four threads, a slow or dead disk | the copy has no holes and has its hash; the download is not held up |
| `CacheManager` | status, settings on disk, verification generation | verify, update, invalidate, set up | answers that come late, restarts | a copy called valid is the image's |
| `ImageWriter` | write state, thread, selected device, pending cache check | start, cancel, slots for every signal | queued signals, two threads of two writes, removal | what the user is told is true, of this write, and said once the thread is stopped |
| `WriteProgressWatchdog` | the thread it watches, what it has tried | check | acts on another thread's device | a stall ends in recovery or in an error |
| drive list and its poll thread | list, scan mode | scan, pause, report | reports race with a write | a removed card is noticed |
| `DriveFormatThread` | none beyond the run | format | cannot be cancelled | a usable file system |
| rpiboot | stage, scanner threads | sideload, wait for re-enumeration | scanners race with the file server | the board ends in the stage asked for, or an error |
| fastboot flash | two rings, three threads, three errors, `_cancelled` | download, decompress, flash, erase, customise, cancel | a chain of rings; cancel while they are made; errors judged after a join | success means a whole image on the board; a cancel ends it; an answer at the end |
| icon fetcher | queue, transfers, waiters, cache | queue, cancel, clear, loop, deliver | coalesced, cancelled and cached fetches; the mutex is let go in mid-round | each request answered once, none lost; a cancel is only its own; the cache, its order and its byte count agree |
| device wrapper, FAT, customisation, OS list, secure boot, settings, Connect, command line | sequential | — | — | functional correctness |

The parts call each other as follows. The wizard calls `ImageWriter::startWrite`, which
makes a `DownloadExtractThread`, connects some thirty signals and starts it. Signals are
queued to the main thread, except `finalSyncStarting`, for which the write thread waits.
`cancelWrite` and `onError` set the thread's `_cancelled` directly. The watchdog reads the
thread's counters and calls into its file operations. `finished()` runs every slot
connected to it, in the order of the connections.

## 2. Modules

```
BoundedChannel  <-- refined by --  RingBuffer  <-- proofs --  RingBufferProofs
                                       |  used, abstractly, by
AsyncFile  (slots and queued writes)   |
      \______________________  WritePipeline  (one transfer)  ---- AsyncCacheWriter (its copy)
                                       |  seen from outside, by its flags and signals
                                  ImageWriter (one write after another)
                                       |  asks, and is told by
                                  CacheManager

FastbootFlash  (two rings in a row, told to cancel by ImageWriter)
IconFetcher    (beside the writes)
```

The levels are abstractions of one another rather than compositions: each gives the one
below it as much as it can see of it. `WritePipeline` has RingBuffer's channel as a bounded
queue and AsyncFile's writes as a set; `ImageWriter` has a write thread as the order in which
it looks at `_cancelled` and emits. For each module `M` of these eight there is a module `MCM`
that instantiates it for TLC and a module `MProofs` with its theorems.

**RingBuffer** (`src/ringbuffer.cpp`). Every operation holds `_mutex` throughout and is one
action. A blocking acquire is a sequence of 100 ms waits that time out
(`WriteWaitTimesOut`, `ReadWaitTimesOut`). `data`, `filling`, `reading`, `taken`, `sent` and
`received` are history: whose hands a slot is in, and what it holds. `ReleaseAgain` is the
second release of `_writeFile`'s fallback. **BoundedChannel** is what it promises: a bounded
first-in first-out channel that can be closed, aborted and given to the next transfer.

**AsyncFile** (`src/linux/file_operations_linux.cpp` under `DownloadThread::_writeFile`). The
extract thread's position is `pc`; the entry to `AsyncWriteSequential`, its wait for room,
preparation and submission are separate steps, because the main thread may cancel, lower
the depth or drain between them. `FlushEntries` and `RoomRefused` are the case in which no entry of the
submission queue is to be had, which needs entries that an earlier submission left there. `request` is the table of pending writes, `inKernel`,
`unsubmitted` and `completions` are the ring's two queues. The emergency replay is one action
per write. The kernel's own actions are marked external.

**WritePipeline** (`src/downloadextractthread.cpp`, `src/downloadthread.cpp`). `curl` and
`extract` are the positions of the two threads, `signals` what they have emitted,
`written` and `durable` what is on the card, and `_writeComplete` is a step per call that can
fail, in the source's order. The transfer is its outcomes: curl's retries are between two chunks, and
the opening of the device is one step that succeeds or not. The customisation may fail before its sync and,
where it makes signed boot files, after it.

**AsyncCacheWriter** (`src/asynccachewriter.cpp`). The flags are atomics read outside the
mutex, so each decision on one is a step. Cancellation by any of three threads is a
small program of its own (`Canceller`), and so is destruction.

**ImageWriter** (`src/imagewriter.cpp`). The main thread's handlers are atomic actions; the
write threads post `events`, which are received in order if their signal was connected
when it was emitted. `slots` is what a thread's `finished()` will run. `answers` is history:
what the user was told of each write, and by which thread's signal. `asked` is history
too. `Launch` is `_configureWriteThread` and `_startConfiguredWrite` together.

**CacheManager** (`src/cachemanager.cpp`, with what `ImageWriter` does with its answers). The
handlers of the main thread are atomic and take what the worker and the write thread have
`posted` in order; the worker opens a file in one step and answers in another, so that what it
has read may be gone by then. `status`, `generation` and `queued` are `status_`,
`verificationGeneration_` and the queued request; `settings` survives `Restart`, which is the
end of the program or a crash and its next start. A file is its content: unpacked, packed or a
part. Here a write is a check, a download with its copy, or the use of a copy. Assumed: caching is
enabled, one write ends before the next begins (what happens otherwise is in section 6), a file
that is removed is gone, and nobody edits the settings.

**FastbootFlash** (`src/fastbootflashthread.cpp`). `download`, `decompress` and `flash` are the
positions of the three threads, and `Next` is their disjunction with the main thread's
`Cancel` and `OnError`. The two rings are functions of `Rings`: `queue`, the slots `held` by the
reader, and RingBuffer's three flags. An acquire that finds a slot is a step with its use; one
that waits is no step, unless it is the wait that ends in a stall (`WriterStalls`,
`ReaderStalls`), which may happen whenever the ring gives a side nothing. A chunk decompresses to
one block, and a block to the hand of the sparse encoder (`buffered`), which makes segments of
any number of blocks; `flashed` is what the board has. `job` is what is asked for: an erase or
an image, raw (the end of the file is the end of the image) or in an archive that knows its end,
of which the server may have too little or too much, with a hash or without.
A chunk is what one slot holds, so that the slot that is filled in part when curl returns
(committed whatever curl says, 626-629) is the last chunk pushed.
`cancel()` is three steps: the flag, then each ring if it is there.

**IconFetcher** (`src/iconmultifetcher.cpp`, with the delivery of `src/iconimageprovider.cpp`).
Callers hold the mutex for one action each. The loop's round is a step per stretch between two
unlocks, and `locked` says whether it holds the mutex: `Drain` takes one request, tells it of its
cancel (letting the mutex go) or puts it aside; `StartFetch` joins one that was put aside to
the transfer of its URL, or makes a handle with the mutex let go; `TakeCancels` applies the cancels
to those who wait; `TransferDone` is curl's end of a transfer. `waiting` is the
transfers, each with those who wait for it. `answers` is history. An icon is its size; a failure is cached
as an entry without data, as in the code.

## 3. Runs

| run | question | states |
|---|---|---|
| `ring` | Is a slot ever in two hands, a chunk lost, out of order or stranded; does anybody wait for ever; is the ring a channel? | 86 000 |
| `async_write` | With an io_uring that accepts and answers, does success mean written, under refusals, cancel, depth changes and a switch to synchronous writes? | 416 000 |
| `async_faults` | With everything going wrong, does the transfer still end? | 123 000 |
| `async_submit_failure` | Is a refused submission harmless? (no) | |
| `pipeline` | Does success mean a whole and durable card, and does each thread end with an answer? | 74 000 |
| `cache_writer` | Is a kept copy whole, is nothing else left, does the download go on? | 26 000 |
| `cache_manager` | Is what is written from the copy the image asked for, is a good copy kept, does each check end? | 44 000 |
| `image_writer` | With a signal queued at every request: do two writes never overlap, is a thread that was let go not heard any more, is a failure never followed by a success, and is every cancel answered? | 901 000 |
| `image_writer_answers` | Is what the user is told of a write about that write? (no) | |
| `image_writer_cancel` | Does a cancel stop the write during a cache check? (no) | |
| `icons` | Is each request answered once, cancelled only if it is its own cancel, and does the cache keep its books? | 717 000 |
| `fastboot` | Does success mean a whole image, does a cancel end the flash wherever it is caught, is there always an answer? | 383 000 |

**Bounds.** Ring: three slots (the fewest with a slot in each of three hands), four chunks (a
slot is reused after an out-of-order release), two waits to a stall (one that is not yet a
stall, one that is). File: three blocks and three slots under a queue of four that can be
halved once; with all faults two of each. Pipeline: three chunks through a
ring of one, so that the ring is full and empty, the first block is held back, one is written
and one may be missing. Cache: four pieces through a queue of two, one after the
image. CacheManager: two images, one downloaded packed, two writes in each of two runs of the
program (a copy is made, replaced by the other's or verified, and met again after a crash).
Icons: three requests (two that share a transfer and one beside them) for two URLs, through
a queue of two, with a cache of one entry and one byte and icons of none or one, so that the queue
overflows, icons are shared, and the cache evicts for its count and for its bytes. Fastboot: an image of two
blocks, an archive that may be followed by two more chunks, and rings of one slot, so that each
ring is full, empty and held, and the download may be left with data that nobody takes.
ImageWriter: two writes, the second begun while the first thread may still run; a
thread is told to cancel at most twice. `Backlog` is how many signals may still be queued when a request of
the user, a report or a check of the watchdog is run. Qt promises no bound: a request may overtake the
handling of what was posted before it. `image_writer` and `image_writer_answers` allow one; `image_writer_cancel`,
whose counterexample needs none, allows none. Without liveness, two writes were also checked with no limit on
what is queued: `TypeOK`, `SingleWriter` and `LetGoIsSilent` hold in the 5 194 000 states. `SuccessIsClean` does
not (section 6).

**Fairness.** Both ends of the ring retry in loops of the callers, so their waits and the
acquisition of a committed slot are weakly fair; releasing and committing are not assumed.
The threads of the pipeline and of the cache writer run; the network owes nothing, and a disk
may hang where a constant says so. `async_write` assumes that the kernel answers;
`async_faults` does not, and assumes instead that the watchdog (a timer of the main thread)
cancels a transfer without progress. `cache_manager` assumes that Qt delivers what is posted to the main
thread and to the worker and that a file is read to its end. `image_writer` assumes that Qt delivers what was posted
and that no call of a write thread lasts for ever, except while it waits for the main thread.
`icons`: the loop goes round, a transfer ends (CURLOPT_TIMEOUT is a minute; strong fairness, as the
loop may be elsewhere), and Qt delivers. `fastboot`: each of the three threads and the main thread
goes on; curl gives up on a connection below 100 bytes a second for a minute, every USB command
has a time limit, and waits for a ring are counted up to a stall. `EveryFlashIsAnswered` leaves out a
stalled compressed ring: section 6 says why.

**Properties.** The type invariants apart, each property relates what a thread believes to
what another has done: they are stated, with the comment or the test they come from, at the
end of each module. The passing runs check 40 of them, and for each of these PROJECT.json names
a plausible bug (a definition headed "Seeded fault") under which it fails.

## 4. Proofs

Each module with the name of a component and `Proofs` states theorems of `Spec` for every value of
the constants that the component's ASSUME allows, and proves them from an inductive invariant
`IInv`, a conjunction of named parts. Where TLC can evaluate it, `IInv` was checked with the
constants of the component's runs before it was proved. Its proof is a lemma per action (or per
position of a thread), under it a step per part that the action can disturb; the theorems that
state an invariant follow from it in a step or two. Of the properties that the passing runs check,
all the safety properties but `SuccessIsClean` are theorems, under the hypotheses named here.

| module | theorems state | hypotheses beyond the ASSUME |
|---|---|---|
| `RingBufferProofs` | `TypeOK`, `SlotOwnership`, `CommitOrder`, `ReadStable`, `StallIsFirstCause`, `ImplementsChannel` | none |
| `AsyncFileProofs` | `TypeOK` | none |
| | `CallbackOnce` | `~CompletionsMayBeLate` |
| | `BuffersStayValid`, `SuccessMeansWritten` | `Prompt`: that and `~SubmitMayFail` |
| `WritePipelineProofs` | `TypeOK`, `TableComesLast`, `EndIsGenuine`, `AnswerAtTheEnd`, `CancelledNeverSucceeds` | none |
| | `SuccessMeansWritten` | `Sound`: `~AsyncMayFail`, `~CustomiseMayFail`, `~EmptySource` |
| `AsyncCacheWriterProofs` | `TypeOK`, `NoHoles`, `PublishedIsWhole`, `NothingLeftBehind` | none |
| `CacheManagerProofs` | `TypeOK`, `SourceIsWhole`, `GoodCopyIsKept` | none |
| `ImageWriterProofs` | `TypeOK`, `SingleWriter` | `Backlog = 0` |
| | `LetGoIsSilent` | `CheckIsOn` |
| `FastbootFlashProofs` | `TypeOK`, `SuccessMeansFlashed` | none |
| `IconFetcherProofs` | `TypeOK`, `InOnePlace`, `OnlyCancelledAreTold` | none |

The hypotheses are those of the passing runs, except `ImageWriter`'s, whose run allows a backlog. Without
any one of them TLC finds the property violated (sections 5 and 6 say how), with one exception:
`ImageWriter`'s types hold of two writes with any backlog too, but follow from an invariant that does
not. `SingleWriter` and `LetGoIsSilent` hold of two writes without their hypotheses, as TLC
shows; the first fails of three writes, the second of four.

**RingBuffer**: for every number of slots, every stall limit and every number of chunks (naturals,
the first two positive). `IInv` is the conjunction of `TypeOK`, `SlotOwnership`, `CommitOrder` and
`ReadStable` with two facts that they need. `StallClocks`: a clock below its limit as long as no
stall is declared; without it a clock could leave its type in the step that declares one.
`DoneMeansCommitted`: nothing is being filled once the producer is done, which keeps `CommitOrder`
over a late commit. `SlotOwnership` carries most of the argument: that the free stack and the
committed queue are injective and disjoint is what makes a pop, a push and a tail keep the rest,
and the lemmas `PopDistinct`, `TailDistinct` and `AppendDistinct` say so for sequences in general.
`RingImplementsChannel` maps the committed slots, read through `data`, to the channel's queue. A
commit is a Send (`CommitIsSend`, where `SlotOwnership` shows that the data of queued slots is
left alone), an acquisition a Receive (`AcquireIsReceive`, where `CommitOrder` shows that the
chunk is the next one), and a release leaves the queue as it is (`RecycleIsStutter`).

**AsyncFile**: for any image, slots and queue depth. The type invariant holds with every fault.
Beyond the types it says that `pending_writes_` is the number of records (`Counted`; one more or less and a
wait would never end, or end early), and that the cursor is at most one position ahead for each block that was
accepted or is in hand, which is the shift of section 5 bounded (`Placed`). The other three follow a block. `Held`: a recorded write has
its slot to itself, with its block in it. `Once`: what the kernel or its queues have is recorded,
in one place and once. `Called`: the callback of an accepted block has run if, and only if, it is
no longer recorded. `Due`: an accepted block is on the device, recorded, or will be told, by the
first error or the cancel. `Held` and `Once` give `BuffersStayValid`, since a slot is freed where
its record is removed; `Due` with an empty table gives `SuccessMeansWritten`. The emergency
replay, which starts only when completions are late, is excluded from the last three: its failure
leaves callbacks that never run, and it gives back buffers that the kernel still has. `Held` and
`Once` fail also at a refused submission, whose prepared entry stays in the ring. Sets lose and
gain one element per step, and the counters follow by `FiniteSetTheorems`.

**WritePipeline**: for any number of chunks, any end of the image among them and any length of the
ring. `Stream` says that what was decoded, what is queued and what is in curl's hand are one
prefix of the stream, whole unless the ring was cancelled or stalled; `Reasons` that whatever is
lost was cancelled, and that a cancel that the user did not ask for was told. `Ends`: past
`check`, all of the archive has been decoded. `Blocks` and `Flushed` follow the blocks through
`inFlight`, `written` and `durable`, one clause per stage of `_writeComplete`, and give
`TableComesLast`; `Opened` is needed there, since a device that the other thread has closed
refuses the writes that the clauses count on. `Genuine` and `Believed` are the two parts under
`Sound`. `CancelledNeverSucceeds` is proved by a second induction: once the flag is set and both
threads are away from their last look at it, no step emits a success (the property is of the form
[](P => []Q)).

**AsyncCacheWriter**: for any number of pieces and length of the queue. `InOrder`: what is hashed,
held and queued are consecutive pieces from the first one; `FileFollows`: the file has what is
hashed, and lacks of it only what was refused by the disk, after which nothing is hashed any more;
`Counted`: nothing was dropped as long as the writer is well. `Reasons` says why each flag may be
set, and `CleanEnd` that a writer that ends by itself has seen the end of the image. `Publishing`
and `Destroying` follow the two programs that end it. `NoHoles` is `InOrder` and `FileFollows`;
the other two theorems read off the last three parts.

**CacheManager**: for any images, packed or not, and any number of writes and runs
(`CacheAssumption`). For `SourceIsWhole` (what a write takes from the cache is the image that was
asked for) the invariant follows a copy through every place in which something is believed of it.
`Sound` says of the one file that the status is about that it is gone, just being written, or what
the status says. `StatusIsSound` claims that of a status that is complete and valid;
`RequestsFit`, `ReadingFits` and `AnswersFit` claim of a verification that is not superseded that
it is of this file and image and that a good result rests on a sound file, on each stage of its
way; `UpdatesFit` and `EndsLast` say that a hash posted by a write thread is of the write in hand;
`RecordFits` that what is recorded is whole. The argument has two cases. A step that leaves the
status' image alone must keep `Sound` (`SameRequestsFit`); one that does not must supersede what
was asked before (`SupersededFits`). Each action is a lemma that uses one of the two.
`GoodCopyIsKept` is the opposite direction, from a bad answer to a bad file, and has an invariant
of its own on top of the first, `Keeping`. The status knows what is recorded (`RecordIsKnown`);
the verification that is not superseded asks for the hash recorded (`RecordedIsAsked`), and what
it has read (`RecordedIsRead`) or found bad (`BadIsBad`) is bad, or has since been replaced by a
new copy whose update is on its way and comes to supersede the answer.

**ImageWriter**: for any number of writes. `InHand` and `OneWrites` are the core: a thread that
writes and has not been told to stop is the one in hand, and the state is then busy. To keep that,
a handler must not act on a thread it is not about: `Posted` says that what is in the event queue
is of the last write, and how far its thread is by then (a `finished` slot only of a thread that
has ended, the question of `finalSyncStarting` only of one that waits for its answer); `SlotsLast`
and `Tidied` that the slots of `finished()` come last, and that one of them lets go of the thread;
`Watched` that the watchdog looks at the thread in hand or at freed memory. `Posted` is what
`Backlog = 0` is for (`NothingQueued`). `LetGoIsSilent` does not rest on it, nor on that invariant, but on one
that lets anything of any write be queued, `Silent`: a thread that runs is heard only while it is the
one in hand (`CutOff`), threads are started in turn and not while a cache check is waited for
(`InTurn`), and what was posted says how far its thread was (`Arrivals`). `CheckIsOn` says that a
check is waited for only while the state is busy. A late error (section 5) breaks it: it fails the
write that waits, a third one is started, and the end of the check then takes the third one's thread out
of hand while it runs, so that a fourth write does not disconnect it.

**FastbootFlash**: for any image, any archive and any number of slots (`FlashAssumption`). The
invariant of `SuccessMeansFlashed` follows the image through the rings. `Counted`: while nobody
cancels, what was received is what was decoded with what is in the first ring and in both threads'
hands. `InOrder`: what is flashed, encoded and queued in the second ring are consecutive blocks,
and are all that was decoded unless an error has been noted. `EndIsEnd`: the decompressor says
done only at the end of the archive or of a complete stream. `Reasons`: a ring is cancelled only
after a cancel, or after an error that the judge will see; hence an open ring at the judge means
that nothing was dropped. `Drained`: the flash thread leaves its loop without an error only over a
cancelled ring or an empty one that is done. `JudgedIsWhole` puts these together: what passes the
judge is whole. `Told` carries that to the answer. Each of the ten conjuncts has one lemma with a
case per thread, and one per action where it matters. The type invariant needs a second one,
`Within`: a ring never holds more than its slots, the one being read included (`Fits`), and no
more is decoded than was received and is in the image (`Reached`).

**IconFetcher**: for any URLs, limits, sizes and number of requests (`IconAssumption`). For
`InOnePlace` and `OnlyCancelledAreTold`, `Apart` says that the queue, the list put aside, the
waiters and the answered are disjoint, `OneTransfer` that nobody waits for two transfers,
`OneAnswer` that no request has two answers; `NoneLost` that a request made is in one of the
places, and `NoneInvented` its converse, which the step that makes a request needs: a new number
is nowhere. `Once` (no request twice in a sequence) carries over a `Tail` and an `Append` by a
lemma each. Each hand-over takes a request from one place and puts it in another, and the lemma of
its action shows the five facts together. The type invariant holds the cache's books (`Books`):
the entries are those of the order list, each once, and the byte count is the sum of their sizes.
That needs facts about sums over any finite set: that there is a function that sums (`SumExists`),
what it says of a set with one element more (`SumAddsOne`) and of two parts (`SumOfBoth`). They
are proved by the smallest counterexample instead of by induction (`SmallestSet`: a set of finite
sets that is not empty has one without a proper subset in it), for the definition of
`MapThenSumSet` that the model uses (`BytesAreSum`).

**Only model-checked**: the liveness properties (`CommittedIsDrained`, `NobodyHangs`, `CheckEnds`,
`EveryRequestIsAnswered`, `CancelEnds`, `EveryFlashIsAnswered`, `TransferEnds`, `ExtractionEnds`,
`DownloadGoesOn`, `WriterEnds`, `CancelIsAnswered`), because liveness under fairness and ENABLED
are beyond TLAPS here; `SuccessIsClean`; and the violations of section 5.

## 5. Disagreements found

Each is a run that is expected to violate a property taken from the repository's own words.

1. **A refused submission shifts the rest of the image** (`async_submit_failure`).
   `AsyncWriteSequential` moves its cursor before `io_uring_submit` and leaves it there on
   failure; the synchronous fallback then writes at the moved cursor. Verification would
   notice, if it is not skipped.
2. **Cancel during the cache check starts the write** (`image_writer_cancel`): the state goes
   through Cancelling to Writing.
3. **A late signal is answered as the next write's** (`image_writer_answers`). `disconnect()` in `startWrite`
   keeps a thread from being heard any more, but what it had posted by then is delivered all the same. The
   watchdog fails write 1, whose thread then posts an error of its own; the user starts write 2 before that is
   delivered, and it fails with the error of write 1. The comment there expects the opposite. What
   `disconnect()` does achieve is `LetGoIsSilent`.

## 6. Observations without a run

Met while modelling, true of the models with other constants or of the code they abstract.

- *Emergency replay.* When a replayed write fails, `AttemptSyncFallback` stops and leaves the
  rest, but `Flush` ignores the verdict of `WaitForPendingWrites` (against
  `file_operations.h:208`, "Returns first error encountered"). `SuccessMeansWritten` fails
  with `CompletionsMayBeLate`, and so does `CallbackOnce`: the writes that are left are never called back.
  `BuffersStayValid` fails too, since the replay gives back buffers that the kernel still has.
- *A refused submission gives the buffer back* although its prepared entry stays in the submission queue and goes to
  the kernel with the next write: `BuffersStayValid` fails with `SubmitMayFail` (`file_operations.h:195`: "must
  remain valid until the write completes").
- *Success after error.* `_writeComplete` returns from some errors with neither `_cancelled`
  nor `_extractFailed` set (`downloadthread.cpp:1866-1888`, `2904-2918`), and the download thread
  then emits `success()` as well: `SuccessMeansWritten` fails with `AsyncMayFail` or
  `CustomiseMayFail`. `ImageWriter::onSuccess` hides it in state Failed.
- *An empty download succeeds*: the extract thread, which refuses an empty archive
  (`downloadextractthread.cpp:411`), is only started by the first data (309). `SuccessMeansWritten` fails with
  `EmptySource`.
- *Two threads reap the completion queue* when the network fails during a write: the download thread
  closes the device (`downloadthread.cpp:1460`) while the extract thread polls, which a comment in
  `PollAsyncCompletions` (`file_operations_linux.cpp:780`) says must not happen.
- *Which message.* A network error closes the device before `_cancelled` is set, so that a
  write error may be reported first. For a producer's stall `_on_read` says that the download
  stalled.
- *Customisation* that fails leaves a card that has its partition table only in
  the first block held back, or, when it fails later, complete without settings.
- *Short sources* without an expected hash are not noticed.
- *Cache.* The hash of the copy is published even if `finish()` met an error;
  `PublishedIsWhole` holds since such a copy is removed at the end, not before. `finish()` waits
  for a hung disk without limit, and `~AsyncCacheWriter` with a writer that never stops ends in
  `~QThread`'s qFatal.
- *A copy called valid while it is made.* `setupCacheForDownload` (`cachemanager.cpp:300-333`) leaves
  `isValid` and the hash as they are when the image is the same one. After a good copy was deleted
  by somebody, or one was published and then removed because `finish()` had failed, a download of the same
  image copies to a file that is already called verified; `imagewriter.cpp:918-920` counts on the
  opposite. A write does not meet it as long as writes do not overlap.
- *Copies of overlapping writes.* After a hard timeout the old thread may still run when the next one
  downloads to the same `lastdownload.cache`; the end of the old one removes the file of the new one.
- *A corrupt copy* is announced as "will be removed and the download will restart"
  (`downloadthread.cpp:1931-1932`); this path does neither.
- *A custom cache file* is verified against the hash of the unpacked image
  (`cachemanager.cpp:255-257`), although the download copied into it may be packed: such a copy is
  rejected and removed by the next run that names it.
- *More writes and a late error.* An error of an earlier write that is answered by the next one
  (section 5) fails it while it waits for its cache check, and leaves that check waited for. Its end
  then replaces the thread of a third write: two threads may write at once (`SingleWriter` fails of three
  writes with a backlog), and a fourth write is told of the thread that was replaced (`LetGoIsSilent` fails).
- *The restart of a stalled write dereferences a null pointer* (`OnRestart` always crashes). The slot that clears
  `_thread` (`imagewriter.cpp:1212`) is connected to `finished()` before the one of `restartWrite`, which
  deletes what `_thread` names (2996-3001), so the restart that `image_writer_test.cpp:11008` describes
  does not happen; the test covers only a restart without a thread.
- *A success after a cancel or a removal.* `onSuccess` (`imagewriter.cpp:3136-3139`) looks at the state only, and the
  state may have moved on when a queued success is delivered. `onFinalizing` (3196) overwrites Cancelling: a
  cancel pressed while `finalizing` is queued may be followed by a success, and then by its own answer. When
  the card is taken out after the thread has ended and before its success is delivered (two signals queued),
  the removal is told at once, the wizard goes back to Idle, and the success is shown too. And `setDst("")`
  takes Failed to Idle when the wizard is reset while a thread that has told a network error closes its files,
  and then emits success. `SuccessIsClean` therefore claims only that what was told as failed or cancelled stays so
  until the wizard goes back to Idle, and only of the first write, since the state of a later one may be
  overwritten by the one before. It holds with up to two signals queued; with three (finalizing, success and the
  end of the thread) a cancel is answered at once, `onFinalizing` overwrites Cancelled, and the success is shown.
- *Removal during the cache check* begins a write whose errors are ignored. When it ends, the state
  stays at Writing until the user cancels, and the watchdog checks a deleted thread
  (`CheckDangles`).
- *Too large an image* is reported in state Preparing, which the user has to cancel.
- *A hard timeout while the cache finishes* is followed by Finalizing: the state of a failed write
  may be overwritten by `onFinalizing` and verify progress, which do not look at it.
- *Erase and multi-file writes* format on a thread that `_thread` does not name: a cancel is
  answered at once while it goes on, and its success starts the write.
- *`success()`* is emitted by `_writeComplete` and again by the download thread; the wizard steps
  on twice unless it has left the page.
- *Fastboot: a stall of the compressed ring.* `curlWriteToRing` (`fastbootflashthread.cpp:553-557`) asks for a
  slot again as long as nobody has cancelled, and does not look at the stall flag. After a stall of that
  ring (less than a slot in 90 seconds from a slow server, or an archive followed by more
  than the ring can take, whose rest nobody reads) the download thread spins, and the flash
  thread waits for it in `join` with the error it would tell. The user hears nothing until they
  cancel. Without its first disjunct, `EveryFlashIsAnswered` fails so. The comment at 674-678 knows of the
  danger for the reading side ("would spin flat out rather than block").
- *Fastboot: rings after an error of the board* are left open: the other threads go on
  until `onError` cancels or their own stalls end them, and a second error may then be told.
- *Fastboot: the last look at `_cancelled`* comes before the reboot: a cancel during it, or between the
  judge and the end, may still be followed by success (against the comment at 814-817 for an erase).
- *Fastboot: exceptions* between the start and the join of the two `std::thread`s (993-1200) would end the program.
- *Icons: a full queue refuses before the cache is asked*, although the comment at `iconmultifetcher.cpp:97`
  says that cache hits still work.
- *Icons: a cancel that arrives while the mutex is let go* for a request that is still queued is cleared at
  288-289 without effect, and the icon is fetched and answered in full, although
  `iconmultifetcher.h:58` says "Cancel a pending fetch. If the fetch is in progress, it will be aborted".
- *Icons: a queued request is not checked against the cache again* when its turn comes (350-366): an icon
  may be fetched twice, and a later success does not replace a cached failure.
- *Icons: the cache may hold one entry more than its limit*, since it evicts before it adds.
- *Icons: if `curl_multi_init` fails*, the loop ends at once and nobody is answered.

## 7. Not modelled

Multi-file archives, local sources, rpiboot, the format of a card: see the plan. Of fastboot: the protocol,
the sparse encoding, the block map, what customisation writes, the registration with Connect. Eject states, statistics, suspend inhibition: they only observe. Windows and macOS file
operations: the same interface with other primitives. FAT, customisation, OS list, secure boot,
settings, Connect, command line: sequential code that unit tests reach; `PROJECT.json` lists
each with its reason. The translations (`src/i18n/*.ts`) are message texts without
behaviour. Memory-order effects of the atomics are not modelled; reads of
flags outside a mutex are separate steps. What a failed call has done before it failed is told apart only where a
property needs it: a `WriteSequential` whose seek fails after its write was made
(`file_operations_linux.cpp:536-539`) counts as a write that failed, although the block is on the device; and
`Flush` does not hand on the verdict of the emergency replay, the failure of its fsync included. The settings of a
customisation are one thing that is written or not: that a signed boot file is left in the block cache,
and that `~DeviceWrapper` (`devicewrapper.cpp:18-30`) swallows the failure to write it out, is not told apart.

## 8. Plan

1. `RingBuffer` with its refinement and proofs; `AsyncFile`; `WritePipeline`;
   `AsyncCacheWriter`; `ImageWriter`: done as above.
2. `CacheManager`; `FastbootFlash`; `IconFetcher`: done as above.
3. Proofs of all safety properties that the runs check: done as above.
4. Left to prove: that `WritePipeline`'s use of its queue is `BoundedChannel`, and its writes those of an abstract
   file that `AsyncFile` implements, so that the levels of section 2 refine one another. Left of `CacheManager`:
   writes that overlap.
5. `ImageWriter`'s special paths (format thread, rpiboot and fastboot threads beside `_thread`).
6. rpiboot's scanner and file server; the block cache of the device wrapper against a flat device.
