---------------------------- MODULE ImageWriter ----------------------------
(***************************************************************************)
(* ImageWriter: one write after another, as the user is told about them.    *)
(*                                                                         *)
(* The main thread runs the user's requests, the drive list's reports, the  *)
(* watchdog's checks, and the slots for what the write threads have posted, *)
(* each to its end.  A write is a thread (WritePipeline shows its inside);  *)
(* here it is the order in which it looks at _cancelled and emits.  A slot  *)
(* runs for whatever had been posted when it was disconnected.              *)
(*                                                                         *)
(* The image is a single one, downloaded to a block device.                 *)
(***************************************************************************)
EXTENDS Naturals, Sequences, FiniteSets, SequencesExt

CONSTANTS
  Writes,   \* bound: the writes the user starts
  Presses,  \* bound: the times a thread is told to cancel
  Backlog   \* bound: the signals that are still queued when a request, a
            \* report or a check is run; Qt promises no bound

ASSUME WriterAssumption ==
  /\ {Writes, Presses} \subseteq Nat \ {0}
  /\ Backlog \in Nat

Threads == 1 .. Writes
Answers == {"success", "error", "cancelled", "removed"}
Slots == {"tidy", "onCancelled", "restart"}
Signals == Slots \cup {"authorised", "verifyProgress", "finalizing",
                       "finalSync", "success", "error"}
Busy == {"Preparing", "Writing", "Verifying", "Finalizing", "Cancelling"}

VARIABLES
  state,           \* _writeState
  waiting,         \* _waitingForCacheVerification
  removal,         \* _cancelledDueToDeviceRemoval
  selected,        \* _dst and _selectedDeviceValid
  attempt,         \* the writes started; the last is the one in hand
  thread,          \* _thread, or 0
  watchdog,        \* the thread it watches, or 0
  drainAttempted,  \* _drainAttempted
  \* the write threads
  at,              \* where each is
  cancelled,       \* their _cancelled
  listening,       \* the signals of each that are still connected
  slots,           \* what its finished() is connected to
  \* what is on its way, and what has been said
  events,
  answers,         \* what the user was told of each write, and by whom
  asked,           \* the writes that cancelWrite was called for
  crashed

request == <<selected, attempt, asked>>
watch == <<watchdog, drainAttempted>>
threads == <<at, cancelled, listening, slots>>
vars == <<state, waiting, removal, request, thread, watch, threads, events,
          answers, crashed>>

Alive(t) == at[t] \notin {"none", "finished", "deleted"}

(* The thread pointer is empty while a cached copy is checked. *)
TypeOK ==
  /\ state \in Busy \cup {"Idle", "Succeeded", "Failed", "Cancelled"}
  /\ {waiting, removal, drainAttempted, crashed} \subseteq BOOLEAN
  /\ selected \in {"none", "valid", "gone"}
  /\ attempt \in 0 .. Writes /\ thread \in 0 .. attempt
  /\ watchdog \in 0 .. attempt
  /\ at \in [Threads -> {"none", "prepare", "write", "cache", "ask", "sync",
                         "verify", "readBack", "finalize", "announce",
                         "stream", "ending", "finished", "deleted"}]
  /\ cancelled \in [Threads -> BOOLEAN]
  /\ listening \in [Threads -> SUBSET {"error", "rest"}]
  /\ slots \in [Threads -> Seq(Slots)]
  /\ events \in Seq([of : Threads, is : Signals])
  /\ answers \in [Threads -> Seq([what : Answers, by : 0 .. Writes])]
  /\ asked \subseteq 1 .. attempt
  /\ waiting => thread = 0

Init ==
  /\ state = "Idle" /\ waiting = FALSE /\ removal = FALSE
  /\ selected = "valid" /\ attempt = 0 /\ thread = 0
  /\ watchdog = 0 /\ drainAttempted = FALSE
  /\ at = [t \in Threads |-> "none"]
  /\ cancelled = [t \in Threads |-> FALSE]
  /\ listening = [t \in Threads |-> {}]
  /\ slots = [t \in Threads |-> <<>>]
  /\ events = <<>>
  /\ answers = [t \in Threads |-> <<>>]
  /\ asked = {} /\ crashed = FALSE

-----------------------------------------------------------------------------
(* What the user is told. *)

Tell(write, what, by) ==
  answers' = [answers EXCEPT ![write] = Append(@, [what |-> what, by |-> by])]

(* _emitCancelled; the wizard then drops a device that is gone.             *)
EmitCancelled(removed, by) ==
  /\ removal' = FALSE
  /\ Tell(attempt, IF removed THEN "removed" ELSE "cancelled", by)
  /\ IF removed THEN state' = "Idle" /\ selected' = "none"
                ELSE state' = "Cancelled" /\ UNCHANGED selected

StopWatchdog(when) == watchdog' = IF when THEN 0 ELSE watchdog

(* An error is not heard of a write that is cancelled or has failed.        *)
Deaf == removal \/ state \in {"Failed", "Cancelled", "Cancelling"}

(* Seeded fault: a thread whose write has failed is left running. *)
FailOnly(by) ==
  /\ IF Deaf THEN UNCHANGED <<state, answers>>
             ELSE state' = "Failed" /\ Tell(attempt, "error", by)
  /\ UNCHANGED cancelled

(* A thread that still runs is cancelled.                                   *)
OnError(by) ==
  IF Deaf THEN UNCHANGED <<state, answers, cancelled>>
          ELSE /\ state' = "Failed" /\ Tell(attempt, "error", by)
               /\ cancelled' = [t \in Threads |->
                                  cancelled[t] \/ (t = thread /\ Alive(t))]

(* Seeded fault: a success is believed whatever was said before. *)
BelieveSuccess(by) ==
  state' = "Succeeded" /\ watchdog' = 0 /\ Tell(attempt, "success", by)

OnSuccess(by) ==
  IF state \in {"Failed", "Cancelled", "Cancelling"}
    THEN UNCHANGED <<state, watchdog, answers>>
    ELSE /\ state' = "Succeeded" /\ watchdog' = 0
         /\ Tell(attempt, "success", by)

-----------------------------------------------------------------------------
(* The user's requests, and the drive list's reports. *)

Input == Len(events) <= Backlog

(* A thread is created, connected and started; or there is no memory.       *)
Launch(write, listeners) ==
  /\ thread' = write
  /\ at' = [at EXCEPT ![write] = "prepare"]
  /\ listening' = [listeners EXCEPT ![write] = {"error", "rest"}]
  /\ slots' = [slots EXCEPT ![write] = <<"tidy">>]
  /\ state' = "Writing"
  /\ UNCHANGED <<cancelled, answers>>

DoNotLaunch(listeners) ==
  thread' = 0 /\ listening' = listeners /\ UNCHANGED <<at, cancelled, slots>>

NoMemory(write, listeners) ==
  state' = "Failed" /\ Tell(write, "error", 0) /\ DoNotLaunch(listeners)

(* Seeded fault: the last write's thread stays connected. *)
StayConnected(t) == listening

Disconnect(t) == IF t = 0 THEN listening ELSE [listening EXCEPT ![t] = {}]

(* The last write's thread is let go.  The image may be too large for the   *)
(* device, or there may be a copy of it that has to be checked first.       *)
StartWrite ==
  /\ Input /\ attempt < Writes
  /\ state \notin Busy /\ selected = "valid"
  /\ attempt' = attempt + 1
  /\ \/ Launch(attempt + 1, Disconnect(thread)) /\ UNCHANGED waiting
     \/ NoMemory(attempt + 1, Disconnect(thread)) /\ UNCHANGED waiting
     \/ /\ state' = "Preparing" /\ Tell(attempt + 1, "error", 0)
        /\ DoNotLaunch(Disconnect(thread)) /\ UNCHANGED waiting
     \/ /\ state' = "Preparing" /\ waiting' = TRUE
        /\ DoNotLaunch(Disconnect(thread)) /\ UNCHANGED answers
  /\ UNCHANGED <<removal, selected, asked, watch, events, crashed>>

(* The copy is written, or the image downloaded; or the copy has vanished.  *)
OnCacheVerificationComplete ==
  /\ Input /\ waiting
  /\ waiting' = FALSE
  /\ \/ Launch(attempt, listening) /\ UNCHANGED watchdog
     \/ NoMemory(attempt, listening) /\ UNCHANGED watchdog
     \/ OnError(0) /\ StopWatchdog(~Deaf)
        /\ UNCHANGED <<thread, at, listening, slots>>
  /\ UNCHANGED <<removal, request, drainAttempted, events, crashed>>

(* Seeded fault: the write goes on, but the check is still waited for. *)
KeepWaiting(flag) ==
  /\ removal' = flag
  /\ Launch(attempt, listening) \/ NoMemory(attempt, listening)
  /\ UNCHANGED waiting

(* The check is given up and the image downloaded.                          *)
SkipCacheVerification(flag) ==
  /\ waiting' = FALSE /\ removal' = flag
  /\ Launch(attempt, listening) \/ NoMemory(attempt, listening)

CancelDownload(t, slot) ==
  /\ cancelled' = [cancelled EXCEPT ![t] = TRUE]
  /\ slots' = [slots EXCEPT ![t] = Append(@, slot)]

(* Seeded fault: an answer is expected of a thread that does not run. *)
AwaitNobody(flag) ==
  state' = "Cancelling" /\ removal' = flag /\ UNCHANGED <<answers, selected>>

(* Nothing runs that would answer later.                                    *)
AnswerAtOnce(flag) == EmitCancelled(flag, 0)

(* cancelWrite, with the reason and the error signals that it finds.        *)
CancelWrite(flag, device, listeners) ==
  /\ asked' = asked \cup {attempt}
  /\ IF waiting
       THEN SkipCacheVerification(flag) /\ selected' = device
       ELSE /\ listening' = listeners /\ UNCHANGED <<waiting, thread, at>>
            /\ IF thread # 0 /\ Alive(thread)
                 THEN /\ state' = "Cancelling" /\ removal' = flag
                      /\ CancelDownload(thread, "onCancelled")
                      /\ selected' = device /\ UNCHANGED answers
                 ELSE AnswerAtOnce(flag) /\ UNCHANGED <<cancelled, slots>>
  /\ UNCHANGED <<attempt, watch, events, crashed>>

MayPress == thread # 0 => Len(slots[thread]) <= Presses

(* The button cancels, except that it skips a verification.                 *)
UserCancels ==
  /\ Input /\ MayPress /\ state \in Busy \ {"Verifying"}
  /\ CancelWrite(removal, selected, listening)

(* The device is gone.  A write is cancelled, its errors no longer listened *)
(* to; a user who has not begun is sent back to choose another.             *)
OnSelectedDeviceRemoved ==
  /\ Input /\ MayPress /\ selected = "valid"
  /\ IF state \in Busy
       THEN CancelWrite(TRUE, "gone",
              [t \in Threads |-> IF t = thread THEN listening[t] \ {"error"}
                                               ELSE listening[t]])
       ELSE /\ selected' = IF state = "Idle" THEN "none" ELSE "gone"
            /\ UNCHANGED <<state, waiting, removal, attempt, asked, thread,
                           watch, threads, events, answers, crashed>>

(* A device is chosen.                                                      *)
SetDst ==
  /\ Input /\ state \notin Busy /\ attempt < Writes
  /\ selected # "valid" /\ selected' = "valid"
  /\ UNCHANGED <<state, waiting, removal, attempt, asked, thread, watch,
                 threads, events, answers, crashed>>

(* The wizard begins again: no device is selected, and nothing has been     *)
(* written.                                                                 *)
ResetWizard ==
  /\ Input /\ state \notin Busy /\ attempt < Writes
  /\ selected # "none" /\ selected' = "none" /\ state' = "Idle"
  /\ UNCHANGED <<waiting, removal, attempt, asked, thread, watch, threads,
                 events, answers, crashed>>

-----------------------------------------------------------------------------
(* The watchdog's check, when there has been no progress. *)

(* The writes queued are waited for, once, and the thread goes on without a *)
(* queue; or it still has them.                                             *)
CheckDrains ==
  /\ Input /\ watchdog # 0 /\ at[watchdog] = "write" /\ ~drainAttempted
  /\ drainAttempted' = TRUE
  /\ UNCHANGED <<state, waiting, removal, request, thread, watchdog, threads,
                 events, answers, crashed>>

(* restartWrite, of a thread that runs.                                     *)
CheckRestarts ==
  /\ Input /\ watchdog # 0 /\ at[watchdog] = "write" /\ drainAttempted
  /\ watchdog = thread
  /\ watchdog' = 0
  /\ CancelDownload(thread, "restart")
  /\ UNCHANGED <<state, waiting, removal, request, thread, drainAttempted, at,
                 listening, events, answers, crashed>>

CheckTimesOut ==
  /\ Input /\ watchdog # 0 /\ at[watchdog] # "deleted"
  /\ OnError(0) /\ watchdog' = 0
  /\ UNCHANGED <<waiting, removal, request, thread, drainAttempted, at,
                 listening, slots, events, crashed>>

(* Any check, when the thread it watches has been deleted: nobody told it.  *)
CheckDangles ==
  /\ watchdog # 0 /\ at[watchdog] = "deleted"
  /\ crashed' = TRUE
  /\ UNCHANGED <<state, waiting, removal, request, thread, watch, threads,
                 events, answers>>

-----------------------------------------------------------------------------
(* The slots, in the order in which they were posted. *)

Receive(signal) ==
  events # <<>> /\ Head(events).is = signal /\ events' = Tail(events)
Sender == Head(events).of

Elsewhere == <<waiting, request, listening, slots>>

(* The device has been opened.                                              *)
StartWatchdog ==
  /\ Receive("authorised")
  /\ IF thread # 0 THEN watchdog' = thread /\ drainAttempted' = FALSE
                   ELSE UNCHANGED watch
  /\ UNCHANGED <<Elsewhere, state, removal, thread, at, cancelled, answers,
                 crashed>>

OnVerifyProgress ==
  /\ Receive("verifyProgress")
  /\ state' = IF state \in {"Finalizing", "Succeeded", "Cancelling"}
                THEN state ELSE "Verifying"
  /\ UNCHANGED <<Elsewhere, removal, thread, watch, at, cancelled, answers,
                 crashed>>

OnFinalizing ==
  /\ Receive("finalizing")
  /\ state' = "Finalizing"
  /\ UNCHANGED <<Elsewhere, removal, thread, watch, at, cancelled, answers,
                 crashed>>

(* The thread has been waiting for this before it syncs.                    *)
OnFinalSyncStarting ==
  /\ Receive("finalSync")
  /\ watchdog' = 0
  /\ at' = [at EXCEPT ![Sender] = "sync"]
  /\ UNCHANGED <<Elsewhere, state, removal, thread, drainAttempted, cancelled,
                 answers, crashed>>

HearSuccess ==
  /\ Receive("success") /\ OnSuccess(Sender)
  /\ UNCHANGED <<Elsewhere, removal, thread, drainAttempted, at, cancelled,
                 crashed>>

HearError ==
  /\ Receive("error") /\ OnError(Sender) /\ StopWatchdog(~Deaf)
  /\ UNCHANGED <<Elsewhere, removal, thread, drainAttempted, at, crashed>>

(* finished(): the slot that every thread is connected to ...               *)
Tidy ==
  /\ Receive("tidy")
  /\ at' = [at EXCEPT ![Sender] = "deleted"]
  /\ thread' = IF thread = Sender THEN 0 ELSE thread
  /\ UNCHANGED <<Elsewhere, state, removal, watch, cancelled, answers,
                 crashed>>

(* ... the one of a write that is cancelled ...                             *)
OnCancelled ==
  /\ Receive("onCancelled")
  /\ EmitCancelled(removal, Sender)
  /\ watchdog' = 0
  /\ thread' = IF thread = Sender THEN 0 ELSE thread
  /\ UNCHANGED <<waiting, attempt, asked, listening, slots, drainAttempted,
                 at, cancelled, crashed>>

(* ... and the one that would start the write again.  It deletes the thread *)
(* that the member names: none, or one that runs, and that ends the         *)
(* program.                                                                 *)
OnRestart ==
  /\ Receive("restart")
  /\ thread' = 0
  /\ crashed' = (thread = 0 \/ Alive(thread))
  /\ UNCHANGED <<Elsewhere, state, removal, watch, at, cancelled, answers>>

-----------------------------------------------------------------------------
(* The write threads. *)

Post(t, signal) ==
  events' = IF (IF signal = "error" THEN "error" ELSE "rest") \in listening[t]
              THEN Append(events, [of |-> t, is |-> signal]) ELSE events

Move(t, to) == at' = [at EXCEPT ![t] = to]

Others == <<state, waiting, removal, request, thread, watch, listening, slots,
            answers, crashed>>

PrepareDevice(t) ==
  /\ at[t] = "prepare"
  /\ Post(t, "authorised") /\ Move(t, "write")
  /\ UNCHANGED <<Others, cancelled>>

(* The image is written; it is a cancelled write's last look at the flag    *)
(* but one.                                                                 *)
WriteImage(t) ==
  /\ at[t] = "write"
  /\ Move(t, IF cancelled[t] THEN "ending" ELSE "cache")
  /\ UNCHANGED <<Others, cancelled, events>>

(* The cache has been finished, and the final sync is announced.            *)
AnnounceSync(t) ==
  /\ at[t] = "cache"
  /\ Post(t, "finalSync")
  /\ Move(t, IF "rest" \in listening[t] THEN "ask" ELSE "sync")
  /\ UNCHANGED <<Others, cancelled>>

Sync(t) ==
  at[t] = "sync" /\ Move(t, "verify") /\ UNCHANGED <<Others, cancelled, events>>

Verify(t) ==
  /\ at[t] = "verify"
  /\ Post(t, "verifyProgress") /\ Move(t, "readBack")
  /\ UNCHANGED <<Others, cancelled>>

(* Whether it was verified, or only in part, or not at all.                 *)
Finalize(t) ==
  /\ at[t] \in {"verify", "readBack"}
  /\ Post(t, "finalizing") /\ Move(t, "finalize")
  /\ UNCHANGED <<Others, cancelled>>

(* The settings and the first block are written, and the flag read again.   *)
WriteTable(t) ==
  /\ at[t] = "finalize"
  /\ Move(t, IF cancelled[t] THEN "ending" ELSE "announce")
  /\ UNCHANGED <<Others, cancelled, events>>

Announce(t) ==
  /\ at[t] = "announce"
  /\ Post(t, "success") /\ Move(t, "stream")
  /\ UNCHANGED <<Others, cancelled>>

(* What goes wrong is reported, and most of it sets the flag; after the     *)
(* rest the download thread still has its say.                              *)
Fail(t) ==
  /\ Post(t, "error")
  /\ \/ /\ at[t] \in {"prepare", "write", "sync", "readBack", "finalize"}
        /\ cancelled' = [cancelled EXCEPT ![t] = TRUE] /\ Move(t, "ending")
     \/ /\ at[t] \in {"write", "finalize"}
        /\ Move(t, "stream") /\ UNCHANGED cancelled
  /\ UNCHANGED Others

(* The stream may go on after the image, and the network fail then.         *)
NetworkFails(t) ==
  /\ at[t] \in {"cache", "ask", "sync", "verify", "readBack", "finalize",
                "announce", "stream"}
  /\ ~cancelled[t]
  /\ cancelled' = [cancelled EXCEPT ![t] = TRUE]
  /\ Post(t, "error")
  /\ Move(t, IF at[t] = "stream" THEN "ending" ELSE at[t])
  /\ UNCHANGED Others

(* The download thread announces the success once more, or it does not.     *)
StreamEnds(t) ==
  /\ at[t] = "stream"
  /\ \/ ~cancelled[t] /\ Post(t, "success")
     \/ UNCHANGED events
  /\ Move(t, "ending")
  /\ UNCHANGED <<Others, cancelled>>

Finish(t) ==
  /\ at[t] = "ending"
  /\ Move(t, "finished")
  /\ events' = IF "rest" \in listening[t]
                 THEN events \o [i \in 1 .. Len(slots[t]) |->
                                   [of |-> t, is |-> slots[t][i]]]
                 ELSE events
  /\ UNCHANGED <<Others, cancelled>>

-----------------------------------------------------------------------------
Wizard == StartWrite \/ UserCancels \/ SetDst \/ ResetWizard
Reports == OnSelectedDeviceRemoved \/ OnCacheVerificationComplete
Watchdog == CheckDrains \/ CheckRestarts \/ CheckTimesOut \/ CheckDangles
MainThread ==
  StartWatchdog \/ OnVerifyProgress \/ OnFinalizing \/ OnFinalSyncStarting
    \/ HearSuccess \/ HearError \/ Tidy \/ OnCancelled \/ OnRestart
WriteThread(t) ==
  PrepareDevice(t) \/ WriteImage(t) \/ AnnounceSync(t) \/ Sync(t) \/ Verify(t)
    \/ Finalize(t) \/ WriteTable(t) \/ Announce(t) \/ Fail(t)
    \/ NetworkFails(t) \/ StreamEnds(t) \/ Finish(t)

(* Nothing happens until the user does something; or nothing any more.      *)
Rest ==
  /\ crashed \/ (events = <<>> /\ ~waiting /\ \A t \in Threads : ~Alive(t))
  /\ UNCHANGED vars

Next ==
  \/ ~crashed /\ (Wizard \/ Reports \/ Watchdog \/ MainThread)
  \/ ~crashed /\ \E t \in Threads : WriteThread(t)
  \/ Rest

Spec == Init /\ [][Next]_vars

(* Qt handles what is posted, and no call of a write thread lasts for ever. *)
FairSpec ==
  /\ Spec
  /\ WF_vars(~crashed /\ MainThread)
  /\ \A t \in Threads : WF_vars(~crashed /\ WriteThread(t))

-----------------------------------------------------------------------------
(* Never do two threads write that nobody has told to stop, whatever the    *)
(* user makes of a write that failed or was cancelled ("a thread blocked on *)
(* macOS auth could resume writing after the user starts a new write        *)
(* attempt, causing dual-write crashes").                                   *)
SingleWriter ==
  \A s, t \in Threads :
    s # t => ~ \A w \in {s, t} :
                 /\ at[w] \in {"prepare", "write", "cache", "ask", "sync",
                               "verify", "readBack", "finalize", "announce"}
                 /\ ~cancelled[w]

(* Once the user has been told that the first write failed or was           *)
(* cancelled, it is not shown to have succeeded, however late its thread    *)
(* says so ("Were it to get through, the user would be shown a completed    *)
(* write over the top of the error explaining why it did not complete"),    *)
(* until another is started or the wizard goes back to its beginning, as it *)
(* does when the card has been taken out.  Of a cancel that overtakes three *)
(* signals or more it does not hold, since onFinalizing overwrites the      *)
(* state that onSuccess looks at.                                           *)
SuccessIsClean ==
  [][attempt = 1 /\ state # "Idle" /\ answers'[1] # answers[1]
       /\ Last(answers'[1]).what = "success" =>
     \A i \in DOMAIN answers[1] : answers[1][i].what = "success"]_vars

(* What the user is told of a write is what that write's own thread, or the *)
(* main thread, has found ("without this the previous write's queued        *)
(* signals are still delivered afterwards ... and get answered as though    *)
(* they belonged to the write now starting").                               *)
AnswerIsOwn ==
  \A w \in Threads : \A i \in 1 .. Len(answers[w]) :
    answers[w][i].by \in {0, w}

(* A thread that has been let go is not heard by the next write: all that   *)
(* is posted is of the write in hand ("Cut it off before letting go").      *)
LetGoIsSilent ==
  [][\A i \in DOMAIN events' :
       i > Len(events) => events'[i].of = attempt]_vars

(* A write that is being cancelled does not stay so ("Without this the      *)
(* state stays at Cancelling for good, and startWrite()'s re-entry guard    *)
(* ... then silently ignores every write from here on").                    *)
CancelIsAnswered == state = "Cancelling" ~> (state # "Cancelling" \/ crashed)

(* A write that was cancelled is not begun, or is told to stop ("Cancelling *)
(* before the cache check finishes stops the check, not a write").          *)
CancelStops ==
  \A w \in asked : Alive(w) => cancelled[w]
=============================================================================
