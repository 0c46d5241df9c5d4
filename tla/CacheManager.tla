---------------------------- MODULE CacheManager ----------------------------
(***************************************************************************)
(* CacheManager: the copy of the last download, and whether a write may use *)
(* it.                                                                      *)
(*                                                                         *)
(* The main thread keeps the status; a worker thread hashes files and posts *)
(* what it finds; a write thread keeps a copy of what it downloads and      *)
(* posts its hash.  What is posted is handled in order.  The program may    *)
(* end at any moment, and what it recorded in the settings is read again.   *)
(*                                                                         *)
(* An image is known by its hash.  A file is its content, which is as good  *)
(* as its hash: an image unpacked, a download that is packed, or a part.    *)
(***************************************************************************)
EXTENDS Naturals, Sequences

CONSTANTS
  Images, Packed,   \* the images, and those that are downloaded packed
  NoImage,
  MaxWrites,        \* bound: the writes in one run of the program
  MaxRuns           \* bound: how often the program is started

ASSUME CacheAssumption ==
  /\ Packed \subseteq Images /\ NoImage \notin Images
  /\ {MaxWrites, MaxRuns} \subseteq Nat \ {0}

Files == {"default", "custom"}   \* lastdownload.cache, and --cache-file
Contents == Images \X {"raw", "packed", "part"}
None == <<NoImage, "none">>

Raw(image) == <<image, "raw">>
Part(image) == <<image, "part">>
Whole(image) == <<image, IF image \in Packed THEN "packed" ELSE "raw">>

VARIABLES
  files,
  settings,      \* the last download as it is recorded
  status,        \* status_
  space,         \* what is known of the disk space
  generation,    \* verificationGeneration_
  queued,        \* queuedFile_ and queuedHash_, while verificationQueued_
  \* between the threads
  requests,      \* what the worker is asked for
  reading,       \* the verification it is at
  posted,        \* what the main thread is told
  \* the write
  write,         \* what it is at: a check, a download, a copy; or none
  wanted,        \* the image
  copy,          \* the file that the download is copied to, or "none"
  source,        \* the content of the copy that is written
  writes, runs

memory == <<status, space, generation, queued, requests, reading, posted,
            write, wanted, copy, source, writes>>
threads == <<requests, reading>>
writing == <<write, wanted, copy, source>>
bounds == <<writes, runs>>
vars == <<files, settings, memory, runs>>

NoRecord == [hash |-> NoImage, fileHash |-> None, name |-> "none"]
NotQueued == [name |-> "none", hash |-> None]
NoStatus == [name |-> "none", hash |-> NoImage, fileHash |-> None,
             valid |-> FALSE, complete |-> FALSE, custom |-> FALSE]

Records == [hash : Images \cup {NoImage}, name : {"none", "default"},
            fileHash : Contents \cup {None}]
Statuses == [name : Files \cup {"none"}, hash : Images \cup {NoImage},
             fileHash : Contents \cup {None}, valid : BOOLEAN,
             complete : BOOLEAN, custom : BOOLEAN]
Queued == [name : Files, hash : Contents] \cup {NotQueued}
Requests == [is : {"space"}]
              \cup [is : {"verify"}, name : Files,
                    hash : Contents, generation : Nat]
Reads == [name : Files, hash : Contents, generation : Nat,
          content : Contents \cup {None}]
Posts == [is : {"ended"}] \cup [is : {"space"}, enough : BOOLEAN]
           \cup [is : {"verified"}, name : Files, generation : Nat,
                 valid : BOOLEAN]
           \cup [is : {"update"}, image : Images, fileHash : Contents]

TypeOK ==
  /\ files \in [Files -> Contents \cup {None}]
  /\ settings \in Records /\ status \in Statuses
  /\ space \in {"unknown", "none", "some"}
  /\ generation \in Nat /\ queued \in Queued
  /\ requests \in Seq(Requests) /\ reading \in Reads \cup {NotQueued}
  /\ posted \in Seq(Posts)
  /\ write \in {"none", "check", "download", "local", "ending"}
  /\ wanted \in Images \cup {NoImage} /\ copy \in Files \cup {"none"}
  /\ source \in Contents \cup {None}
  /\ writes \in 0 .. MaxWrites /\ runs \in 1 .. MaxRuns
  \* somebody will hear of the verification that is queued
  /\ write = "check" => ~status.complete

(* The user may have a file of his own, of an image or of a download.       *)
Init ==
  /\ files \in {[f \in Files |-> IF f = "custom" THEN c ELSE None] :
                  c \in (Images \X {"raw", "packed"}) \cup {None}}
  /\ settings = NoRecord /\ status = NoStatus
  /\ space = "unknown" /\ generation = 0 /\ queued = NotQueued
  /\ requests = <<[is |-> "space"]>> /\ reading = NotQueued /\ posted = <<>>
  /\ write = "none" /\ wanted = NoImage /\ copy = "none" /\ source = None
  /\ writes = 0 /\ runs = 1

-----------------------------------------------------------------------------
(* The parts of the handlers. *)

Exists(name) == name # "none" /\ files[name] # None
Remove(name) ==
  IF name = "none" THEN files ELSE [files EXCEPT ![name] = None]
Unchanged == UNCHANGED <<files, settings, generation>>

SupersedeVerification == generation' = generation + 1 /\ queued' = NotQueued

Invalidated(s) ==
  [s EXCEPT !.valid = FALSE, !.complete = FALSE, !.hash = NoImage,
            !.fileHash = None, !.name = IF s.custom THEN @ ELSE "none"]

ForgetRecord == settings' = IF status.custom THEN settings ELSE NoRecord

(* Seeded fault: always the hash of the image, packed or not. *)
ImageHash(image) == Raw(image)

(* The hash a file should have: what was recorded of our own copy, and the  *)
(* image's for a file of the user's.                                        *)
HashToVerify(image) ==
  IF status.custom \/ status.fileHash = None THEN Raw(image)
                                             ELSE status.fileHash

(* A file that is being hashed for this already is not hashed again.        *)
StartVerification(image) ==
  LET name == IF ~status.custom /\ status.name = "none" THEN "default"
                                                    ELSE status.name
      hash == HashToVerify(image)
  IN /\ status' = [status EXCEPT !.name = name, !.hash = image,
                                 !.valid = FALSE, !.complete = FALSE]
     /\ IF queued = [name |-> name, hash |-> hash]
          THEN UNCHANGED <<generation, queued, requests>>
          ELSE /\ generation' = generation + 1
               /\ queued' = [name |-> name, hash |-> hash]
               /\ requests' =
                    Append(requests, [is |-> "verify", name |-> name,
                                      hash |-> hash,
                                      generation |-> generation + 1])

(* setupCacheForDownload for a status that has been invalidated or not: the *)
(* download is copied to a fresh file, if there is space and it can be      *)
(* opened.                                                                  *)
SetUpCache(image, s, fs) ==
  LET name == IF s.custom THEN s.name ELSE "default"
  IN \/ status' = s /\ files' = fs /\ copy' = "none"
     \/ /\ space = "some"
        /\ status' = [s EXCEPT !.name = name]
        /\ \/ files' = [fs EXCEPT ![name] = Part(image)] /\ copy' = name
           \/ files' = fs /\ copy' = "none"

(* The image is downloaded, and a copy that is not of it or not good goes.  *)
Download(image, s, bad) ==
  /\ write' = "download" /\ source' = None
  /\ IF bad \/ s.hash \notin {NoImage, image}
       THEN /\ SetUpCache(image, Invalidated(s), Remove(s.name))
            /\ ForgetRecord /\ SupersedeVerification
       ELSE /\ SetUpCache(image, s, files)
            /\ UNCHANGED <<settings, generation, queued>>

(* The copy is written, if it is still there.                               *)
UseCopy(name) ==
  /\ copy' = "none"
  /\ IF Exists(name) THEN write' = "local" /\ source' = files[name]
                     ELSE write' = "none" /\ source' = None
  /\ Unchanged

HasPotentialCache(image) == status.hash = image /\ Exists(status.name)

CacheFilePath(s, image) ==
  IF ~s.custom THEN "default"
    ELSE IF s.hash = image THEN s.name ELSE "none"

-----------------------------------------------------------------------------
(* The main thread. *)

(* The command line names an image and a cache file for its one write.      *)
SetCustomCacheFile(image) ==
  /\ writes = 0 /\ ~status.custom
  /\ wanted' = image
  /\ status' = [status EXCEPT
       !.name = "custom", !.custom = TRUE, !.complete = FALSE,
       !.hash = IF Exists("custom") THEN image ELSE NoImage]
  /\ SupersedeVerification
  /\ UNCHANGED <<files, settings, space, threads, posted, write, copy, source,
                 bounds>>

StartWrite(image) ==
  /\ write = "none" /\ writes < MaxWrites
  /\ status.custom => writes = 0 /\ image = wanted
  /\ writes' = writes + 1 /\ wanted' = image
  /\ \/ /\ HasPotentialCache(image) /\ ~status.complete
        /\ StartVerification(image) /\ write' = "check"
        /\ UNCHANGED <<files, settings, copy, source>>
     \/ /\ HasPotentialCache(image) /\ status.complete /\ status.valid
        /\ UseCopy(status.name) /\ UNCHANGED <<status, queued, requests>>
     \/ /\ HasPotentialCache(image) /\ status.complete /\ ~status.valid
        /\ Download(image, status, TRUE) /\ UNCHANGED requests
     \/ /\ ~HasPotentialCache(image)
        /\ Download(image, status, FALSE) /\ UNCHANGED requests
  /\ UNCHANGED <<space, reading, posted, runs>>

(* The user, or a cancel, does not wait for the check.                      *)
SkipCacheVerification ==
  /\ write = "check"
  /\ Download(wanted, status, TRUE)
  /\ UNCHANGED <<space, threads, posted, wanted, bounds>>

Receive(what) ==
  posted # <<>> /\ Head(posted).is = what /\ posted' = Tail(posted)

OnDiskSpaceCheckComplete ==
  /\ Receive("space")
  /\ space' = IF Head(posted).enough THEN "some" ELSE "none"
  /\ UNCHANGED <<files, settings, status, generation, queued, threads,
                 writing, bounds>>

(* Seeded fault: any answer will do. *)
NeverSuperseded(answer) == FALSE

IsSuperseded(answer) == answer.generation # generation

IgnoreSuperseded ==
  /\ Receive("verified") /\ IsSuperseded(Head(posted))
  /\ UNCHANGED <<files, settings, status, space, generation, queued, threads,
                 writing, bounds>>

(* Seeded fault: a write that waits is told of a good copy only. *)
TellOfGoodOnly(s) ==
  IF write = "check" /\ s.valid
    THEN UseCopy(CacheFilePath(s, wanted)) /\ status' = s /\ queued' = NotQueued
    ELSE /\ status' = s /\ queued' = NotQueued
         /\ Unchanged /\ UNCHANGED <<write, copy, source>>

(* A write that has waited goes on.                                         *)
Continue(s) ==
  \/ /\ write # "check"
     /\ status' = s /\ queued' = NotQueued
     /\ Unchanged /\ UNCHANGED <<write, copy, source>>
  \/ /\ write = "check" /\ s.valid
     /\ status' = s /\ queued' = NotQueued
     /\ UseCopy(CacheFilePath(s, wanted))
  \/ write = "check" /\ ~s.valid /\ Download(wanted, s, TRUE)

OnVerificationComplete ==
  /\ Receive("verified") /\ ~IsSuperseded(Head(posted))
  /\ Continue([status EXCEPT !.valid = Head(posted).valid, !.complete = TRUE,
                             !.name = Head(posted).name])
  /\ UNCHANGED <<space, threads, wanted, bounds>>

(* The copy that has been made is for this image.                           *)
UpdateCacheFile ==
  /\ Receive("update")
  /\ LET made == Head(posted)
     IN /\ status' = [status EXCEPT !.hash = made.image, !.valid = TRUE,
                         !.fileHash = made.fileHash, !.complete = TRUE]
        /\ settings' = IF status.custom THEN settings
                         ELSE [hash |-> made.image, name |-> status.name,
                               fileHash |-> made.fileHash]
  /\ SupersedeVerification
  /\ UNCHANGED <<files, space, threads, writing, bounds>>

WriteEnded ==
  /\ Receive("ended")
  /\ write' = "none" /\ source' = None
  /\ UNCHANGED <<files, settings, status, space, generation, queued, threads,
                 wanted, copy, bounds>>

-----------------------------------------------------------------------------
(* The worker. *)

WorkerVars == <<files, settings, status, space, generation, queued, writing,
                bounds>>

CheckDiskSpace ==
  /\ reading = NotQueued
  /\ requests # <<>> /\ Head(requests).is = "space"
  /\ requests' = Tail(requests)
  /\ \E enough \in BOOLEAN :
       posted' = Append(posted, [is |-> "space", enough |-> enough])
  /\ UNCHANGED <<WorkerVars, reading>>

(* The file is opened.  It may be removed or replaced after that, but what  *)
(* is read is what was opened.                                              *)
VerifyCacheFile ==
  /\ reading = NotQueued
  /\ requests # <<>> /\ Head(requests).is = "verify"
  /\ requests' = Tail(requests)
  /\ LET r == Head(requests)
     IN reading' = [name |-> r.name, hash |-> r.hash,
                    generation |-> r.generation, content |-> files[r.name]]
  /\ UNCHANGED <<WorkerVars, posted>>

Result == [is |-> "verified", name |-> reading.name,
           generation |-> reading.generation,
           valid |-> reading.content = reading.hash]

(* Seeded fault: no answer for a file that is not there. *)
AnswerOnlyIfRead ==
  posted' = IF reading.content = None THEN posted ELSE Append(posted, Result)

Answer == posted' = Append(posted, Result)

VerificationEnds ==
  /\ reading # NotQueued
  /\ Answer /\ reading' = NotQueued
  /\ UNCHANGED <<WorkerVars, requests>>

-----------------------------------------------------------------------------
(* The write thread. *)

ThreadVars == <<settings, status, space, generation, queued, threads, wanted,
                source, bounds>>

(* The image is good, and so is the copy, unless finish() has failed and    *)
(* removed it.  What it should be is posted either way.                     *)
CopyEnds ==
  /\ write = "download" /\ copy # "none"
  /\ files' = [files EXCEPT ![copy] = IF @ = None THEN None ELSE Whole(wanted)]
       \/ files' = Remove(copy)
  /\ posted' = Append(posted, [is |-> "update", image |-> wanted,
                               fileHash |-> Whole(wanted)])
  /\ copy' = "none" /\ UNCHANGED write
  /\ UNCHANGED ThreadVars

(* The write ends, well or not; a copy that is not finished is removed.     *)
ThreadEnds ==
  /\ write \in {"download", "local"}
  /\ write' = "ending" /\ copy' = "none"
  /\ files' = Remove(copy)
  /\ posted' = Append(posted, [is |-> "ended"])
  /\ UNCHANGED ThreadVars

-----------------------------------------------------------------------------
(* Outside. *)

(* A file is deleted by somebody else.                                      *)
Vanish(name) ==
  /\ Exists(name) /\ files' = [files EXCEPT ![name] = None]
  /\ UNCHANGED <<settings, memory, runs>>

(* The program ends, or crashes, and is started again.  A recorded file     *)
(* that is there is verified; the record of one that is not is cleared.     *)
Restart ==
  /\ runs < MaxRuns /\ runs' = runs + 1
  /\ LET loaded == settings.hash # NoImage /\ Exists(settings.name)
         hash == IF settings.fileHash = None THEN Raw(settings.hash)
                                             ELSE settings.fileHash
     IN IF loaded
          THEN /\ status' = [NoStatus EXCEPT
                    !.name = settings.name, !.hash = settings.hash,
                    !.fileHash = settings.fileHash]
               /\ generation' = 1
               /\ queued' = [name |-> settings.name, hash |-> hash]
               /\ requests' = <<[is |-> "space"],
                                [is |-> "verify", name |-> settings.name,
                                 hash |-> hash, generation |-> 1]>>
               /\ UNCHANGED settings
          ELSE /\ status' = NoStatus /\ queued' = NotQueued
               /\ generation' = IF settings.name = "none" THEN 0 ELSE 1
               /\ requests' = <<[is |-> "space"]>>
               /\ settings' = IF settings.name = "none" THEN settings ELSE NoRecord
  /\ space' = "unknown" /\ reading' = NotQueued /\ posted' = <<>>
  /\ write' = "none" /\ wanted' = NoImage /\ copy' = "none" /\ source' = None
  /\ writes' = 0
  /\ UNCHANGED files

-----------------------------------------------------------------------------
MainThread ==
  OnDiskSpaceCheckComplete \/ IgnoreSuperseded \/ OnVerificationComplete
    \/ UpdateCacheFile \/ WriteEnded
Worker == CheckDiskSpace \/ VerifyCacheFile \/ VerificationEnds
User ==
  \/ \E image \in Images : SetCustomCacheFile(image) \/ StartWrite(image)
  \/ SkipCacheVerification
WriteThread == CopyEnds \/ ThreadEnds
Outside == Restart \/ \E name \in Files : Vanish(name)

(* Nothing is left to do. *)
Rest ==
  /\ write = "none" /\ writes = (IF status.custom THEN 1 ELSE MaxWrites)
  /\ requests = <<>> /\ reading = NotQueued /\ posted = <<>>
  /\ UNCHANGED vars

Next == MainThread \/ Worker \/ User \/ WriteThread \/ Outside \/ Rest

Spec == Init /\ [][Next]_vars

(* Qt handles what is posted, and a file is read to its end.                *)
FairSpec == Spec /\ WF_vars(MainThread) /\ WF_vars(Worker)

-----------------------------------------------------------------------------
(* What is written from a copy is the image that was asked for, packed or   *)
(* not, whatever was verified before, removed, replaced or cut short by a   *)
(* crash ("handing back a cache entry that is not the image the user asked  *)
(* for writes the wrong thing to their card, silently").                    *)
SourceIsWhole ==
  write = "local" => source \in {Raw(wanted), Whole(wanted)}

(* A whole copy of our own is never taken for a bad one, packed or not: the *)
(* answer of a verification does not make it go, also after a restart ("a   *)
(* cached .xz is looked up by the archive hash but has to be verified       *)
(* against the image hash once expanded").                                  *)
GoodCopyIsKept ==
  [][OnVerificationComplete /\ settings.hash # NoImage
       /\ files["default"] = Whole(settings.hash)
     => files'["default"] = files["default"]]_vars

(* A write that waits for a check does not wait for ever: its answer comes, *)
(* for a file that is gone as well, and is not taken for a superseded one   *)
(* ("a silent failure leaves the UI on "checking cache" forever").          *)
CheckEnds == write = "check" ~> write # "check"
=============================================================================
