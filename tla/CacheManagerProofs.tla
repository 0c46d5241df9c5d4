------------------------- MODULE CacheManagerProofs -------------------------
(***************************************************************************)
(* What CacheManager promises, for any images, writes and runs: a write     *)
(* takes from the cache only the image that was asked for, and a good copy  *)
(* is kept.                                                                 *)
(***************************************************************************)
EXTENDS CacheManager, TLAPS

-----------------------------------------------------------------------------
(* The inductive invariant. *)

(* The one file that the status is about. *)
CacheName == IF status.custom THEN "custom" ELSE "default"

Good(image) == {Raw(image), Whole(image)}

(* The file is what the status says, or gone, or just being written.        *)
Sound == \/ copy = CacheName \/ files[CacheName] = None
         \/ files[CacheName] \in Good(status.hash)

NamesFit ==
  /\ status.name \in {"none", CacheName}
  /\ status.custom => status.name = "custom"

(* A write does not change what it is about, and the status follows it.     *)
WriteFits ==
  /\ write # "none" => wanted \in Images /\ writes > 0
  /\ write = "check" => status.hash = wanted
  /\ write \in {"download", "local", "ending"} =>
       status.hash \in {NoImage, wanted}
  /\ copy # "none" => write = "download" /\ copy = CacheName

(* What a copy's hash is recorded for is what the write in hand has made.   *)
UpdatesFit ==
  \A k \in DOMAIN posted : posted[k].is = "update" =>
    /\ posted[k].image = wanted /\ posted[k].fileHash = Whole(wanted)
    /\ write \in {"download", "ending"} /\ copy = "none"
    /\ files[CacheName] \in {None, Whole(wanted)}

(* The end of a write is the last that it posts.                            *)
EndsLast ==
  \A k \in DOMAIN posted : posted[k].is = "ended" =>
    /\ write = "ending"
    /\ \A m \in DOMAIN posted :
         m > k => posted[m].is \notin {"ended", "update"}

(* The verification that is not superseded is of the file and image of the  *)
(* status, on each stage of its way.                                        *)
Current(r) == r.generation = generation
Fits(r) ==
  /\ r.name = CacheName /\ status.hash # NoImage
  /\ r.hash \in Good(status.hash)

RequestsFit ==
  \A k \in DOMAIN requests : requests[k].is = "verify" =>
    /\ requests[k].generation <= generation
    /\ Current(requests[k]) => Fits(requests[k])

ReadingFits ==
  reading # NotQueued =>
    /\ reading.generation <= generation
    /\ Current(reading) =>
         Fits(reading) /\ (reading.content = reading.hash => Sound)

AnswersFit ==
  \A k \in DOMAIN posted : posted[k].is = "verified" =>
    /\ posted[k].generation <= generation
    /\ Current(posted[k]) =>
         /\ posted[k].name = CacheName /\ status.hash # NoImage
         /\ posted[k].valid => Sound

(* The hash of our own copy is recorded with its image's.                   *)
RecordFits ==
  /\ ~status.custom /\ status.hash # NoImage /\ status.fileHash # None =>
       status.fileHash = Whole(status.hash)
  /\ settings.hash # NoImage => settings.fileHash = Whole(settings.hash)

StatusIsSound ==
  status.complete /\ status.valid /\ status.hash # NoImage => Sound

IInv ==
  /\ TypeOK /\ NamesFit /\ WriteFits /\ UpdatesFit /\ EndsLast
  /\ RequestsFit /\ ReadingFits /\ AnswersFit
  /\ RecordFits /\ StatusIsSound /\ SourceIsWhole

-----------------------------------------------------------------------------
(* Queues. *)

(* What is in a queue is of its type. *)
LEMMA ElementFacts ==
  ASSUME NEW S, NEW q \in Seq(S)
  PROVE  \A k \in DOMAIN q : q[k] \in S
OBVIOUS

(* The head and the rest of a queue that is not empty. *)
LEMMA TailFacts ==
  ASSUME NEW S, NEW q \in Seq(S), q # <<>>
  PROVE  /\ Tail(q) \in Seq(S) /\ 1 \in DOMAIN q
         /\ Head(q) = q[1] /\ Head(q) \in S
         /\ \A k \in DOMAIN Tail(q) :
              /\ k \in Nat /\ k + 1 \in DOMAIN q /\ k + 1 > 1
              /\ Tail(q)[k] = q[k + 1]
OBVIOUS

(* What is in a queue after an append was there, or is the new element. *)
LEMMA AppendFacts ==
  ASSUME NEW S, NEW q \in Seq(S), NEW e \in S
  PROVE  /\ Append(q, e) \in Seq(S)
         /\ \A k \in DOMAIN Append(q, e) :
              \/ k \in DOMAIN q /\ Append(q, e)[k] = q[k]
              \/ /\ k = Len(q) + 1 /\ k \notin DOMAIN q
                 /\ Append(q, e)[k] = e
         /\ \A k \in DOMAIN q : k \in Nat /\ k < Len(q) + 1
OBVIOUS

(* A queue whose elements, or whose answers, are those of another one. *)
From(p, q) == \A k \in DOMAIN p : \E m \in DOMAIN q : p[k] = q[m]
AnswersFrom(p, q) ==
  \A k \in DOMAIN p : p[k].is = "verified" =>
    \E m \in DOMAIN q : p[k] = q[m]

(* What is posted is handled in order. *)
LEMMA TailIsFrom ==
  ASSUME IInv, posted # <<>>, posted' = Tail(posted)
  PROVE  /\ posted' \in Seq(Posts) /\ From(posted', posted)
         /\ AnswersFrom(posted', posted)
         /\ write' = write => EndsLast'
         /\ /\ UNCHANGED <<wanted, write, copy, files>>
            /\ status'.custom = status.custom
            => UpdatesFit'
<1>1. posted \in Seq(Posts)
  BY DEF IInv, TypeOK
<1>2. /\ Tail(posted) \in Seq(Posts)
      /\ \A k \in DOMAIN Tail(posted) :
           /\ k \in Nat /\ k + 1 \in DOMAIN posted
           /\ Tail(posted)[k] = posted[k + 1]
  BY <1>1, TailFacts
<1>3. From(posted', posted) /\ AnswersFrom(posted', posted)
  BY <1>2 DEF From, AnswersFrom
<1>4. ASSUME write' = write PROVE EndsLast'
  <2>1. \A k \in DOMAIN posted' : posted'[k].is = "ended" =>
          /\ write = "ending"
          /\ \A m \in DOMAIN posted :
               m > k + 1 => posted[m].is \notin {"ended", "update"}
    BY <1>2 DEF IInv, EndsLast
  <2> QED BY <2>1, <1>2, <1>4 DEF EndsLast
<1>5. ASSUME UNCHANGED <<wanted, write, copy, files>>,
             status'.custom = status.custom
      PROVE  UpdatesFit'
  BY <1>3, <1>5 DEF IInv, UpdatesFit, CacheName, From, Whole
<1> QED BY <1>2, <1>3, <1>4, <1>5

-----------------------------------------------------------------------------
(* Files and hashes. *)

(* The contents that belong to an image are contents, and are something.    *)
LEMMA WholeIsContent ==
  ASSUME NEW image \in Images
  PROVE  /\ Raw(image) \in Contents /\ Part(image) \in Contents
         /\ Whole(image) \in Contents /\ Whole(image) \in Good(image)
         /\ Raw(image) # None /\ Whole(image) # None
         /\ Good(image) \subseteq Contents
BY CacheAssumption DEF Raw, Part, Whole, Contents, Good, None

(* A status that has been invalidated rests on nothing. *)
LEMMA InvalidatedFacts ==
  ASSUME NEW s \in Statuses
  PROVE  /\ Invalidated(s) \in Statuses
         /\ Invalidated(s).hash = NoImage /\ Invalidated(s).fileHash = None
         /\ ~Invalidated(s).complete /\ ~Invalidated(s).valid
         /\ Invalidated(s).custom = s.custom
         /\ Invalidated(s).name = IF s.custom THEN s.name ELSE "none"
BY DEF Statuses, Invalidated, None

(* The name that the status gets, if any, is that of the one file. *)
LEMMA SetUpFacts ==
  ASSUME NEW image \in Images, NEW t \in Statuses, NEW name \in Files,
         name = IF t.custom THEN t.name ELSE "default",
         NEW fs \in [Files -> Contents \cup {None}], SetUpCache(image, t, fs)
  PROVE  /\ status' \in Statuses /\ status'.name \in {t.name, name}
         /\ status'.hash = t.hash /\ status'.fileHash = t.fileHash
         /\ status'.valid = t.valid /\ status'.complete = t.complete
         /\ status'.custom = t.custom
         /\ files' \in [Files -> Contents \cup {None}]
         /\ \/ copy' = "none" /\ files' = fs
            \/ copy' = name
<1>1. \/ status' = t /\ files' = fs /\ copy' = "none"
      \/ /\ status' = [t EXCEPT !.name = name]
         /\ \/ files' = [fs EXCEPT ![name] = Part(image)] /\ copy' = name
            \/ files' = fs /\ copy' = "none"
  BY DEF SetUpCache
<1>2. /\ [t EXCEPT !.name = name] \in Statuses
      /\ [t EXCEPT !.name = name].name = name
      /\ [t EXCEPT !.name = name].hash = t.hash
      /\ [t EXCEPT !.name = name].fileHash = t.fileHash
      /\ [t EXCEPT !.name = name].valid = t.valid
      /\ [t EXCEPT !.name = name].complete = t.complete
      /\ [t EXCEPT !.name = name].custom = t.custom
  BY DEF Statuses
<1>3. [fs EXCEPT ![name] = Part(image)] \in [Files -> Contents \cup {None}]
  BY WholeIsContent
<1> QED BY <1>1, <1>2, <1>3

(* What has been asked of the worker is of the past once it is superseded,  *)
(* and what is asked of it then is of the present.                          *)
LEMMA SupersededFits ==
  ASSUME IInv, generation' = generation + 1, reading' = reading,
         AnswersFrom(posted', posted),
         \/ requests' = requests
         \/ \E r \in Requests :
              /\ requests' = Append(requests, r)
              /\ r.is = "verify" => r.generation = generation' /\ Fits(r)'
  PROVE  RequestsFit' /\ ReadingFits' /\ AnswersFit'
<1>1. generation \in Nat
  BY DEF IInv, TypeOK
<1>2. \A k \in DOMAIN requests : requests[k].is = "verify" =>
        requests[k].generation \in Nat /\ requests[k].generation <= generation
  <2>1. requests \in Seq(Requests)
    BY DEF IInv, TypeOK
  <2>2. \A k \in DOMAIN requests : requests[k] \in Requests
    BY <2>1, ElementFacts
  <2> QED BY <2>2 DEF IInv, RequestsFit, Requests
<1>3. \A k \in DOMAIN posted : posted[k].is = "verified" =>
        posted[k].generation \in Nat /\ posted[k].generation <= generation
  <2>1. posted \in Seq(Posts)
    BY DEF IInv, TypeOK
  <2>2. \A k \in DOMAIN posted : posted[k] \in Posts
    BY <2>1, ElementFacts
  <2> QED BY <2>2 DEF IInv, AnswersFit, Posts
<1>4. reading # NotQueued =>
        reading.generation \in Nat /\ reading.generation <= generation
  BY DEF IInv, TypeOK, ReadingFits, Reads
<1>5. RequestsFit'
  <2>1. CASE requests' = requests
    BY <1>1, <1>2, <2>1 DEF RequestsFit, Current
  <2>2. ASSUME NEW r \in Requests, requests' = Append(requests, r),
               r.is = "verify" => r.generation = generation' /\ Fits(r)'
        PROVE  RequestsFit'
    <3>1. requests \in Seq(Requests)
      BY DEF IInv, TypeOK
    <3>2. \A k \in DOMAIN requests' :
            \/ k \in DOMAIN requests /\ requests'[k] = requests[k]
            \/ requests'[k] = r
      BY <3>1, <2>2, AppendFacts
    <3>3. ASSUME NEW k \in DOMAIN requests', requests'[k].is = "verify"
          PROVE  /\ requests'[k].generation <= generation'
                 /\ requests'[k].generation = generation' =>
                      /\ requests'[k].name = CacheName'
                      /\ status'.hash # NoImage
                      /\ requests'[k].hash \in Good(status'.hash)
      <4>1. CASE k \in DOMAIN requests /\ requests'[k] = requests[k]
        BY <1>1, <1>2, <3>3, <4>1
      <4>2. CASE requests'[k] = r
        BY <1>1, <2>2, <3>3, <4>2 DEF Fits
      <4> QED BY <3>2, <3>3, <4>1, <4>2
    <3> QED BY <3>3 DEF RequestsFit, Current, Fits
  <2> QED BY <2>1, <2>2
<1>6. ReadingFits'
  <2> SUFFICES ASSUME reading # NotQueued
               PROVE  /\ reading.generation <= generation'
                      /\ reading.generation # generation'
    BY DEF ReadingFits, Current
  <2> QED BY <1>1, <1>4
<1>7. AnswersFit'
  BY <1>1, <1>3 DEF AnswersFit, Current, AnswersFrom
<1> QED BY <1>5, <1>6, <1>7

(* What is left as it is, is left fitting. *)
LEMMA SameRequestsFit ==
  ASSUME IInv, UNCHANGED <<threads, generation>>, AnswersFrom(posted', posted),
         status'.hash = status.hash, status'.custom = status.custom,
         status.hash # NoImage /\ Sound => Sound'
  PROVE  RequestsFit' /\ ReadingFits' /\ AnswersFit'
<1>1. CacheName' = CacheName /\ Good(status.hash)' = Good(status.hash)
  BY DEF CacheName, Good, Raw, Whole
<1>2. \A r : Current(r)' = Current(r)
  BY DEF Current
<1>3. RequestsFit'
  BY <1>1 DEF IInv, RequestsFit, Fits, Current, threads
<1>4. ReadingFits'
  <2> SUFFICES ASSUME reading # NotQueued
               PROVE  /\ reading.generation <= generation
                      /\ reading.generation = generation =>
                           /\ reading.name = CacheName
                           /\ status.hash # NoImage
                           /\ reading.hash \in Good(status.hash)
                           /\ reading.content = reading.hash => Sound'
    BY <1>1 DEF ReadingFits, Current, Fits, threads
  <2> QED BY DEF IInv, ReadingFits, Current, Fits
<1>5. AnswersFit'
  BY <1>1 DEF IInv, AnswersFit, Current, AnswersFrom
<1> QED BY <1>3, <1>4, <1>5

(* The write that begins to download begins with a status that fits.        *)
LEMMA DownloadFits ==
  ASSUME IInv, NEW image \in Images, NEW s \in Statuses, NEW bad \in BOOLEAN,
         s.custom = status.custom, s.name \in {"none", CacheName},
         s.custom => s.name = "custom", bad \/ s = status,
         write \in {"none", "check"}, Download(image, s, bad),
         wanted' = image, writes' \in 1 .. MaxWrites, UNCHANGED <<space, runs>>,
         UNCHANGED threads, posted' \in Seq(Posts), From(posted', posted)
  PROVE  IInv'
<1>1. copy = "none"
  BY DEF IInv, WriteFits
<1>2. \A k \in DOMAIN posted' : posted'[k].is \notin {"update", "ended"}
  BY DEF IInv, UpdatesFit, EndsLast, From
<1>3. UpdatesFit' /\ EndsLast'
  BY <1>2 DEF UpdatesFit, EndsLast
<1>4. write' = "download" /\ source' = None /\ SourceIsWhole'
  BY DEF Download, SourceIsWhole
<1>5. /\ files \in [Files -> Contents \cup {None}]
      /\ settings \in Records /\ status \in Statuses
      /\ space \in {"unknown", "none", "some"}
      /\ generation \in Nat /\ queued \in Queued /\ NotQueued \in Queued
      /\ requests \in Seq(Requests) /\ reading \in Reads \cup {NotQueued}
      /\ writes \in 0 .. MaxWrites /\ runs \in 1 .. MaxRuns
  BY DEF IInv, TypeOK, Queued
<1>6. /\ CacheName \in Files
      /\ (IF s.custom THEN s.name ELSE "default") = CacheName
  BY DEF CacheName, Files
<1>7. MaxWrites \in Nat
  BY CacheAssumption
<1>8. CASE bad \/ s.hash \notin {NoImage, image}
  <2>1. /\ SetUpCache(image, Invalidated(s), Remove(s.name))
        /\ ForgetRecord /\ generation' = generation + 1 /\ queued' = NotQueued
    BY <1>8 DEF Download, SupersedeVerification
  <2>2. Remove(s.name) \in [Files -> Contents \cup {None}]
    BY <1>5 DEF Remove, Files
  <2> DEFINE t == Invalidated(s)
  <2>t. /\ t \in Statuses /\ t.hash = NoImage /\ t.fileHash = None
        /\ ~t.complete /\ ~t.valid /\ t.custom = s.custom
        /\ t.name = IF s.custom THEN s.name ELSE "none"
    BY InvalidatedFacts
  <2> HIDE DEF t
  <2>n. CacheName = IF t.custom THEN t.name ELSE "default"
    BY <2>t, <1>6
  <2>s. SetUpCache(image, t, Remove(s.name))
    BY <2>1 DEF t
  <2>3. /\ status' \in Statuses
        /\ status'.hash = NoImage /\ status'.fileHash = None
        /\ ~status'.complete /\ ~status'.valid
        /\ status'.custom = status.custom
        /\ status'.name \in {"none", CacheName}
        /\ status.custom => status'.name = "custom"
    BY <2>t, <2>n, <2>s, <2>2, <1>6, SetUpFacts DEF CacheName
  <2>4. /\ files' \in [Files -> Contents \cup {None}]
        /\ copy' \in {"none", CacheName}
    BY <2>t, <2>n, <2>s, <2>2, <1>6, SetUpFacts
  <2>5. settings' \in Records /\ settings' \in {settings, NoRecord}
    BY <2>1, <1>5 DEF ForgetRecord, NoRecord, Records
  <2>6. CacheName' = CacheName
    BY <2>3 DEF CacheName
  <2>7. TypeOK'
    <3>1. files' \in [Files -> Contents \cup {None}] /\ settings' \in Records /\ status' \in Statuses
      BY <2>3, <2>4, <2>5
    <3>2. space' \in {"unknown", "none", "some"} /\ generation' \in Nat /\ queued' \in Queued
      BY <2>1, <1>5
    <3>3. requests' \in Seq(Requests) /\ reading' \in Reads \cup {NotQueued}
      BY <1>5 DEF threads
    <3>4. /\ wanted' \in Images \cup {NoImage} /\ copy' \in Files \cup {"none"}
          /\ source' \in Contents \cup {None}
          /\ writes' \in 0 .. MaxWrites /\ runs' \in 1 .. MaxRuns
      BY <2>4, <1>4, <1>5, <1>6, <1>7 
    <3> QED BY <3>1, <3>2, <3>3, <3>4, <1>4 DEF TypeOK
  <2>8. NamesFit' /\ WriteFits'
    <3>1. NamesFit'
      BY <2>3, <2>6 DEF NamesFit
    <3>2. writes' > 0
      BY <1>7
    <3>3. WriteFits'
      BY <3>2, <2>3, <2>4, <2>6, <1>4 DEF WriteFits
    <3> QED BY <3>1, <3>3
  <2>9. RequestsFit' /\ ReadingFits' /\ AnswersFit'
    BY <2>1, SupersededFits DEF threads, From, AnswersFrom
  <2>10. RecordFits' /\ StatusIsSound'
    BY <2>3, <2>5 DEF IInv, RecordFits, StatusIsSound, NoRecord, Whole
  <2> QED BY <2>7, <2>8, <2>9, <2>10, <1>3, <1>4 DEF IInv
<1>9. CASE ~(bad \/ s.hash \notin {NoImage, image})
  <2>1. /\ s = status /\ status.hash \in {NoImage, image}
        /\ SetUpCache(image, status, files)
        /\ UNCHANGED <<settings, generation, queued>>
    BY <1>9 DEF Download
  <2>2. /\ status' \in Statuses
        /\ status'.hash = status.hash /\ status'.fileHash = status.fileHash
        /\ status'.complete = status.complete /\ status'.valid = status.valid
        /\ status'.custom = status.custom
        /\ status'.name \in {"none", CacheName}
        /\ status.custom => status'.name = "custom"
    BY <2>1, <1>5, <1>6, SetUpFacts DEF CacheName
  <2>3. /\ files' \in [Files -> Contents \cup {None}]
        /\ \/ copy' = "none" /\ files' = files
           \/ copy' = CacheName
    BY <2>1, <1>5, <1>6, SetUpFacts
  <2>4. CacheName' = CacheName
    BY <2>2 DEF CacheName
  <2>5. Sound => Sound'
    BY <2>2, <2>3, <2>4, <1>1, <1>6 DEF Sound, Good, Raw, Whole, Files
  <2>6. TypeOK'
    BY <2>1, <2>2, <2>3, <1>4, <1>5, <1>6, <1>7 DEF TypeOK, threads
  <2>7. NamesFit' /\ WriteFits'
    BY <2>1, <2>2, <2>3, <2>4, <1>4 DEF NamesFit, WriteFits
  <2>8. RequestsFit' /\ ReadingFits' /\ AnswersFit'
    BY <2>1, <2>2, <2>5, SameRequestsFit DEF From, AnswersFrom
  <2>9. RecordFits' /\ StatusIsSound'
    BY <2>1, <2>2, <2>5 DEF IInv, RecordFits, StatusIsSound, Whole
  <2> QED BY <2>6, <2>7, <2>8, <2>9, <1>3, <1>4 DEF IInv
<1> QED BY <1>8, <1>9

(* The write that begins to write from the copy has the image's.            *)
LEMMA UseCopyFits ==
  ASSUME IInv, NEW image \in Images, status.hash = image, Sound,
         write \in {"none", "check"}, UseCopy(CacheName),
         wanted' = image, writes' \in 1 .. MaxWrites, UNCHANGED <<space, runs>>,
         status' \in Statuses, status'.hash = status.hash,
         status'.fileHash = status.fileHash, status'.custom = status.custom,
         status'.name = CacheName, queued' \in Queued,
         UNCHANGED threads, posted' \in Seq(Posts), From(posted', posted)
  PROVE  IInv'
<1>1. /\ copy = "none" /\ copy' = "none"
      /\ UNCHANGED <<files, settings, generation>>
  BY DEF IInv, WriteFits, UseCopy, Unchanged
<1>2. \A k \in DOMAIN posted' : posted'[k].is \notin {"update", "ended"}
  BY DEF IInv, UpdatesFit, EndsLast, From
<1>3. UpdatesFit' /\ EndsLast'
  BY <1>2 DEF UpdatesFit, EndsLast
<1>4. /\ CacheName' = CacheName /\ CacheName \in Files
      /\ status.custom => CacheName = "custom"
  BY DEF CacheName, Files
<1>5. Sound /\ Sound'
  BY <1>1, <1>4 DEF Sound, Good, Raw, Whole
<1>6. /\ write' \in {"local", "none"} /\ source' \in Contents \cup {None}
      /\ write' = "local" => source' \in Good(image)
  <2>1. CASE Exists(CacheName)
    <3>1. write' = "local" /\ source' = files[CacheName]
      BY <2>1 DEF UseCopy
    <3>2. files[CacheName] # None /\ CacheName # copy
      BY <2>1, <1>1, <1>4 DEF Exists, Files
    <3>3. source' \in Good(image)
      BY <3>1, <3>2 DEF Sound
    <3> QED BY <3>1, <3>3, WholeIsContent
  <2>2. CASE ~Exists(CacheName)
    BY <2>2 DEF UseCopy
  <2> QED BY <2>1, <2>2
<1>7. TypeOK'
  <2>1. MaxWrites \in Nat
    BY CacheAssumption
  <2>2. writes' \in 0 .. MaxWrites
    BY <2>1
  <2> QED BY <1>1, <1>6, <2>2 DEF IInv, TypeOK, threads
<1>8. NamesFit'
  BY <1>4 DEF NamesFit
<1>9. WriteFits'
  <2>1. writes' > 0
    BY CacheAssumption
  <2> QED BY <2>1, <1>1, <1>6 DEF WriteFits
<1>10. SourceIsWhole'
  BY <1>6 DEF SourceIsWhole, Good, Raw, Whole
<1>11. RequestsFit' /\ ReadingFits' /\ AnswersFit'
  BY <1>1, <1>5, SameRequestsFit DEF From, AnswersFrom
<1>12. RecordFits' /\ StatusIsSound'
  BY <1>1, <1>5 DEF IInv, RecordFits, StatusIsSound, Whole
<1> QED BY <1>3, <1>7, <1>8, <1>9, <1>10, <1>11, <1>12 DEF IInv

-----------------------------------------------------------------------------
(* Init and the actions. *)

(* The first state is one of a cache that knows nothing. *)
LEMMA InitFits == ASSUME Init PROVE IInv
<1>1. /\ posted = <<>> /\ requests = <<[is |-> "space"]>>
      /\ reading = NotQueued /\ write = "none" /\ copy = "none"
      /\ status = NoStatus /\ settings = NoRecord /\ writes = 0
  BY DEF Init
<1>2. TypeOK
  <2>1. files \in [Files -> Contents \cup {None}]
    <3>1. Images \X {"raw", "packed"} \subseteq Contents
      BY DEF Contents
    <3> QED BY <3>1 DEF Init
  <2>2. settings \in Records /\ status \in Statuses
    BY <1>1 DEF Records, Statuses, NoRecord, NoStatus
  <2>3. requests \in Seq(Requests) /\ posted \in Seq(Posts)
    BY <1>1 DEF Requests
  <2>4. writes \in 0 .. MaxWrites /\ runs \in 1 .. MaxRuns
    BY CacheAssumption DEF Init
  <2> QED BY <1>1, <2>1, <2>2, <2>3, <2>4 DEF Init, TypeOK, Queued
<1>3. NamesFit /\ WriteFits /\ RecordFits /\ StatusIsSound /\ SourceIsWhole
  BY <1>1 DEF NamesFit, WriteFits, RecordFits, StatusIsSound, SourceIsWhole,
              NoStatus, NoRecord
<1>4. UpdatesFit /\ EndsLast /\ AnswersFit
  BY <1>1 DEF UpdatesFit, EndsLast, AnswersFit
<1>5. RequestsFit /\ ReadingFits
  BY <1>1 DEF RequestsFit, ReadingFits
<1> QED BY <1>2, <1>3, <1>4, <1>5 DEF IInv

(* A file of the user's supersedes what was asked of our own. *)
LEMMA SetCustomCacheFileFits ==
  ASSUME IInv, NEW image \in Images, SetCustomCacheFile(image)
  PROVE  IInv'
<1>1. /\ writes = 0 /\ wanted' = image /\ generation' = generation + 1
      /\ UNCHANGED <<files, settings, space, threads, posted, write, copy,
                     source, writes, runs>>
      /\ queued' = NotQueued
  BY DEF SetCustomCacheFile, SupersedeVerification, bounds
<1>2. /\ status' \in Statuses /\ status'.custom /\ ~status'.complete
      /\ status'.name = "custom"
  <2>1. status \in Statuses
    BY DEF IInv, TypeOK
  <2> QED BY <2>1 DEF SetCustomCacheFile, Statuses, Files
<1>3. write = "none" /\ copy = "none"
  BY <1>1 DEF IInv, WriteFits
<1>4. TypeOK'
  <2>1. generation' \in Nat /\ queued' \in Queued
    BY <1>1 DEF IInv, TypeOK, Queued
  <2> QED BY <1>1, <1>2, <2>1 DEF IInv, TypeOK, threads
<1>5. NamesFit' /\ WriteFits' /\ SourceIsWhole'
  BY <1>1, <1>2, <1>3 DEF NamesFit, WriteFits, SourceIsWhole, CacheName
<1>6. UpdatesFit' /\ EndsLast'
  BY <1>1, <1>3 DEF IInv, UpdatesFit, EndsLast
<1>7. RequestsFit' /\ ReadingFits' /\ AnswersFit'
  BY <1>1, SupersededFits DEF threads, AnswersFrom
<1>8. RecordFits' /\ StatusIsSound'
  BY <1>1, <1>2 DEF IInv, RecordFits, StatusIsSound, Whole
<1> QED BY <1>4, <1>5, <1>6, <1>7, <1>8 DEF IInv

(* The verification that a write waits for is of the image's copy. *)
LEMMA StartVerificationFits ==
  ASSUME IInv, NEW image \in Images, status.hash = image, write = "none",
         Exists(status.name), StartVerification(image), write' = "check",
         wanted' = image, writes' \in 1 .. MaxWrites,
         UNCHANGED <<files, settings, space, reading, posted, copy, source, runs>>
  PROVE  IInv'
<1>1. /\ status \in Statuses /\ copy = "none" /\ generation \in Nat
      /\ status.name = CacheName /\ queued \in Queued
      /\ CacheName \in Files /\ status.hash # NoImage
  BY CacheAssumption DEF IInv, TypeOK, NamesFit, WriteFits, Exists, CacheName, Files
<1>2. status' = [status EXCEPT !.name = CacheName, !.hash = image,
                               !.valid = FALSE, !.complete = FALSE]
  <2>1. (IF ~status.custom /\ status.name = "none" THEN "default"
                                                   ELSE status.name) = CacheName
    BY <1>1 DEF CacheName
  <2> QED BY <2>1 DEF StartVerification
<1>3. /\ status' \in Statuses /\ status'.name = CacheName
      /\ status'.hash = status.hash /\ status'.fileHash = status.fileHash
      /\ status'.custom = status.custom /\ ~status'.complete
  BY <1>1, <1>2 DEF Statuses
<1>4. CacheName' = CacheName
  BY <1>3 DEF CacheName
<1>5. HashToVerify(image) \in Good(image)
  BY <1>1 DEF IInv, RecordFits, HashToVerify, Good
<1>6. HashToVerify(image) \in Contents
  BY <1>5, WholeIsContent
<1>7. \/ UNCHANGED <<generation, queued, requests>>
      \/ \E r \in Requests :
           /\ generation' = generation + 1 /\ queued' \in Queued
           /\ requests' = Append(requests, r)
           /\ r.is = "verify" /\ r.generation = generation' /\ Fits(r)'
  <2>1. CASE UNCHANGED <<generation, queued, requests>>
    BY <2>1
  <2>2. CASE ~UNCHANGED <<generation, queued, requests>>
    <3> DEFINE r == [is |-> "verify", name |-> CacheName,
                     hash |-> HashToVerify(image), generation |-> generation + 1]
    <3>1. (IF ~status.custom /\ status.name = "none" THEN "default"
                                                     ELSE status.name) = CacheName
      BY <1>1 DEF CacheName
    <3>2. /\ generation' = generation + 1
          /\ queued' = [name |-> CacheName, hash |-> HashToVerify(image)]
          /\ requests' = Append(requests, r)
      BY <2>2, <3>1 DEF StartVerification
    <3>3. r \in Requests
      BY <1>1, <1>6 DEF Requests
    <3>4. queued' \in Queued
      BY <3>2, <1>1, <1>6 DEF Queued
    <3>5. /\ r.name = CacheName' /\ status'.hash # NoImage
          /\ r.hash \in Good(status'.hash)
      BY <1>1, <1>3, <1>4, <1>5
    <3>6. r.is = "verify" /\ r.generation = generation'
      BY <3>2
    <3> HIDE DEF r
    <3> QED BY <3>2, <3>3, <3>4, <3>5, <3>6 DEF Fits
  <2> QED BY <2>1, <2>2
<1>8. requests' \in Seq(Requests) /\ generation' \in Nat /\ queued' \in Queued
  <2>1. requests \in Seq(Requests)
    BY DEF IInv, TypeOK
  <2>2. requests' \in Seq(Requests)
    BY <1>7, <2>1, AppendFacts
  <2>3. generation' \in Nat /\ queued' \in Queued
    BY <1>1, <1>7
  <2> QED BY <2>2, <2>3
<1>9. TypeOK'
  <2>1. MaxWrites \in Nat
    BY CacheAssumption
  <2>2. writes' \in 0 .. MaxWrites
    BY <2>1
  <2> QED BY <1>3, <1>8, <2>2 DEF IInv, TypeOK
<1>10. NamesFit' /\ WriteFits' /\ SourceIsWhole'
  <2>1. writes' > 0
    BY CacheAssumption
  <2>2. NamesFit' /\ SourceIsWhole'
    BY <1>3, <1>4 DEF NamesFit, SourceIsWhole, CacheName
  <2> QED BY <2>1, <2>2, <1>1, <1>3 DEF WriteFits
<1>11. UpdatesFit' /\ EndsLast'
  BY DEF IInv, UpdatesFit, EndsLast
<1>12. Sound => Sound'
  BY <1>3, <1>4 DEF Sound, Good, Raw, Whole
<1>13. RequestsFit' /\ ReadingFits' /\ AnswersFit'
  <2>1. CASE UNCHANGED <<generation, queued, requests>>
    BY <2>1, <1>3, <1>12, SameRequestsFit DEF threads, AnswersFrom
  <2>2. CASE ~UNCHANGED <<generation, queued, requests>>
    BY <2>2, <1>7, SupersededFits DEF AnswersFrom
  <2> QED BY <2>1, <2>2
<1>14. RecordFits' /\ StatusIsSound'
  BY <1>3 DEF IInv, RecordFits, StatusIsSound, Whole
<1> QED BY <1>9, <1>10, <1>11, <1>13, <1>14 DEF IInv

(* A write begins with a check, with the copy, or with a download. *)
LEMMA StartWriteFits ==
  ASSUME IInv, NEW image \in Images, StartWrite(image)
  PROVE  IInv'
<1>1. /\ write = "none" /\ writes' = writes + 1 /\ wanted' = image
      /\ UNCHANGED <<space, reading, posted, runs>>
      /\ status \in Statuses /\ posted \in Seq(Posts) /\ queued \in Queued
      /\ From(posted, posted)
  BY DEF IInv, TypeOK, StartWrite, From
<1>2. writes' \in 1 .. MaxWrites
  BY <1>1, CacheAssumption DEF StartWrite, IInv, TypeOK
<1>3. /\ status.name \in {"none", CacheName}
      /\ status.custom => status.name = "custom"
  BY DEF IInv, NamesFit
<1>4. ASSUME HasPotentialCache(image)
      PROVE  /\ status.hash = image /\ status.name = CacheName
             /\ status.hash # NoImage
  BY <1>3, <1>4, CacheAssumption DEF HasPotentialCache, Exists
<1>5. CASE /\ HasPotentialCache(image) /\ ~status.complete
           /\ StartVerification(image) /\ write' = "check"
           /\ UNCHANGED <<files, settings, copy, source>>
  BY <1>1, <1>2, <1>4, <1>5, StartVerificationFits DEF HasPotentialCache
<1>6. CASE /\ HasPotentialCache(image) /\ status.complete /\ status.valid
           /\ UseCopy(status.name) /\ UNCHANGED <<status, queued, requests>>
  <2>1. Sound
    BY <1>4, <1>6 DEF IInv, StatusIsSound
  <2>2. UNCHANGED threads
    BY <1>1, <1>6 DEF threads
  <2> QED BY <1>1, <1>2, <1>4, <1>6, <2>1, <2>2, UseCopyFits
<1>7. CASE /\ HasPotentialCache(image) /\ status.complete /\ ~status.valid
           /\ Download(image, status, TRUE) /\ UNCHANGED requests
  BY <1>1, <1>2, <1>3, <1>7, DownloadFits DEF threads
<1>8. CASE /\ ~HasPotentialCache(image)
           /\ Download(image, status, FALSE) /\ UNCHANGED requests
  BY <1>1, <1>2, <1>3, <1>8, DownloadFits DEF threads
<1> QED BY <1>5, <1>6, <1>7, <1>8 DEF StartWrite

(* A check that nobody waits for becomes a download. *)
LEMMA SkipCacheVerificationFits ==
  ASSUME IInv, SkipCacheVerification PROVE IInv'
<1>1. /\ write = "check" /\ Download(wanted, status, TRUE)
      /\ UNCHANGED <<space, threads, posted, wanted, writes, runs>>
  BY DEF SkipCacheVerification, bounds
<1>2. /\ wanted \in Images /\ writes > 0 /\ status \in Statuses
      /\ status.name \in {"none", CacheName}
      /\ status.custom => status.name = "custom"
      /\ posted \in Seq(Posts) /\ writes \in 0 .. MaxWrites
  BY <1>1 DEF IInv, TypeOK, NamesFit, WriteFits
<1>3. writes' \in 1 .. MaxWrites
  BY <1>1, <1>2, CacheAssumption
<1>4. From(posted', posted)
  BY <1>1 DEF From
<1> QED BY <1>1, <1>2, <1>3, <1>4, DownloadFits

(* An answer that changes nothing but what is known of the space. *)
LEMMA SpaceAndSupersededFit ==
  ASSUME IInv, OnDiskSpaceCheckComplete \/ IgnoreSuperseded PROVE IInv'
<1>1. /\ posted # <<>> /\ posted' = Tail(posted)
      /\ UNCHANGED <<files, settings, status, generation, queued, threads,
                     write, wanted, copy, source, writes, runs>>
      /\ space' \in {"unknown", "none", "some"}
  BY DEF OnDiskSpaceCheckComplete, IgnoreSuperseded, Receive, writing, bounds,
         IInv, TypeOK
<1>2. /\ posted' \in Seq(Posts) /\ AnswersFrom(posted', posted)
      /\ UpdatesFit' /\ EndsLast'
  BY <1>1, TailIsFrom
<1>3. TypeOK' /\ NamesFit' /\ WriteFits' /\ SourceIsWhole'
  BY <1>1, <1>2 DEF IInv, TypeOK, NamesFit, WriteFits, SourceIsWhole, CacheName,
                    threads, Raw, Whole
<1>4. Sound => Sound'
  BY <1>1 DEF Sound, CacheName, Good, Raw, Whole
<1>5. RequestsFit' /\ ReadingFits' /\ AnswersFit'
  BY <1>1, <1>2, <1>4, SameRequestsFit
<1>6. RecordFits' /\ StatusIsSound'
  BY <1>1, <1>4 DEF IInv, RecordFits, StatusIsSound, Whole
<1> QED BY <1>2, <1>3, <1>5, <1>6 DEF IInv

(* A current answer is of the file and image of the status. *)
LEMMA OnVerificationCompleteFits ==
  ASSUME IInv, OnVerificationComplete PROVE IInv'
<1> DEFINE answer == Head(posted)
           s == [status EXCEPT !.valid = answer.valid, !.complete = TRUE,
                               !.name = answer.name]
<1>1. /\ posted # <<>> /\ posted' = Tail(posted) /\ Continue(s)
      /\ answer.is = "verified" /\ answer.generation = generation
      /\ UNCHANGED <<space, threads, wanted, writes, runs>>
  BY DEF OnVerificationComplete, Receive, IsSuperseded, bounds
<1>2. /\ answer \in Posts /\ answer = posted[1] /\ 1 \in DOMAIN posted
      /\ status \in Statuses
  BY <1>1, TailFacts DEF IInv, TypeOK
<1>3. /\ answer.name = CacheName /\ status.hash # NoImage
      /\ answer.valid => Sound
      /\ answer.valid \in BOOLEAN
  BY <1>1, <1>2 DEF IInv, AnswersFit, Current, Posts
<1>4. /\ s \in Statuses /\ s.name = CacheName /\ s.valid = answer.valid
      /\ s.hash = status.hash /\ s.fileHash = status.fileHash
      /\ s.custom = status.custom
  <2>1. CacheName \in Files
    BY DEF CacheName, Files
  <2> QED BY <1>2, <1>3, <2>1 DEF Statuses
<1>5. /\ posted' \in Seq(Posts) /\ From(posted', posted)
      /\ AnswersFrom(posted', posted)
      /\ write' = write => EndsLast'
      /\ /\ UNCHANGED <<wanted, write, copy, files>>
         /\ status'.custom = status.custom
         => UpdatesFit'
  BY <1>1, TailIsFrom
<1> HIDE DEF s
<1>6. CASE /\ write # "check" /\ status' = s /\ queued' = NotQueued
           /\ Unchanged /\ UNCHANGED <<write, copy, source>>
  <2>1. UNCHANGED <<files, settings, generation>> /\ CacheName' = CacheName
    BY <1>4, <1>6 DEF Unchanged, CacheName
  <2>2. UpdatesFit' /\ EndsLast'
    BY <1>1, <1>4, <1>5, <1>6, <2>1
  <2>3. TypeOK'
    BY <1>1, <1>4, <1>5, <1>6, <2>1 DEF IInv, TypeOK, threads, Queued
  <2>4. NamesFit' /\ WriteFits' /\ SourceIsWhole'
    <3>1. NamesFit'
      BY <1>4, <1>6, <2>1 DEF NamesFit, CacheName
    <3>2. WriteFits' /\ SourceIsWhole'
      BY <1>1, <1>4, <1>6, <2>1 DEF IInv, WriteFits, SourceIsWhole, Raw, Whole
    <3> QED BY <3>1, <3>2
  <2>5. Sound => Sound'
    BY <1>4, <1>6, <2>1 DEF Sound, Good, Raw, Whole
  <2>6. RequestsFit' /\ ReadingFits' /\ AnswersFit'
    BY <1>1, <1>4, <1>5, <1>6, <2>1, <2>5, SameRequestsFit
  <2>7. RecordFits' /\ StatusIsSound'
    BY <1>3, <1>4, <1>6, <2>1, <2>5 DEF IInv, RecordFits, StatusIsSound, Whole
  <2> QED BY <2>2, <2>3, <2>4, <2>6, <2>7 DEF IInv
<1>7. CASE /\ write = "check" /\ s.valid /\ status' = s /\ queued' = NotQueued
           /\ UseCopy(CacheFilePath(s, wanted))
  <2>1. /\ wanted \in Images /\ status.hash = wanted /\ writes > 0
        /\ writes \in 0 .. MaxWrites
    BY <1>7 DEF IInv, TypeOK, WriteFits
  <2>2. CacheFilePath(s, wanted) = CacheName
    BY <1>4, <2>1 DEF CacheFilePath, CacheName
  <2>3. writes' \in 1 .. MaxWrites
    BY <1>1, <2>1, CacheAssumption
  <2>4. Sound /\ queued' \in Queued
    BY <1>3, <1>4, <1>7 DEF Queued
  <2> QED BY <1>1, <1>4, <1>5, <1>7, <2>1, <2>2, <2>3, <2>4, UseCopyFits
<1>8. CASE write = "check" /\ ~s.valid /\ Download(wanted, s, TRUE)
  <2>1. wanted \in Images /\ writes > 0 /\ writes \in 0 .. MaxWrites
    BY <1>8 DEF IInv, TypeOK, WriteFits
  <2>2. writes' \in 1 .. MaxWrites
    BY <1>1, <2>1, CacheAssumption
  <2>3. s.custom => s.name = "custom"
    BY <1>4 DEF CacheName
  <2> QED BY <1>1, <1>4, <1>5, <1>8, <2>1, <2>2, <2>3, DownloadFits
<1> QED BY <1>1, <1>6, <1>7, <1>8 DEF Continue

(* A recorded copy is that of the write in hand. *)
LEMMA UpdateCacheFileFits ==
  ASSUME IInv, UpdateCacheFile PROVE IInv'
<1> DEFINE made == Head(posted)
<1>1. /\ posted # <<>> /\ posted' = Tail(posted) /\ made.is = "update"
      /\ UNCHANGED <<files, space, threads, write, wanted, copy, source,
                     writes, runs>>
      /\ generation' = generation + 1 /\ queued' = NotQueued
  BY DEF UpdateCacheFile, Receive, SupersedeVerification, writing, bounds
<1>2. made \in Posts /\ made = posted[1] /\ 1 \in DOMAIN posted
  BY <1>1, TailFacts DEF IInv, TypeOK
<1>3. /\ made.image = wanted /\ made.fileHash = Whole(wanted)
      /\ write \in {"download", "ending"} /\ copy = "none"
      /\ files[CacheName] \in {None, Whole(wanted)}
  BY <1>1, <1>2 DEF IInv, UpdatesFit
<1>4. wanted \in Images /\ Whole(wanted) \in Contents
  BY <1>3, WholeIsContent DEF IInv, WriteFits
<1>5. /\ status' \in Statuses /\ status'.hash = wanted
      /\ status'.fileHash = Whole(wanted) /\ status'.custom = status.custom
      /\ status'.name = status.name
  <2>1. status \in Statuses
    BY DEF IInv, TypeOK
  <2> QED BY <1>3, <1>4, <2>1 DEF UpdateCacheFile, Statuses
<1>6. /\ settings' \in Records
      /\ \/ settings' = settings
         \/ settings'.hash = wanted /\ settings'.fileHash = Whole(wanted)
  <2>1. /\ settings \in Records
        /\ ~status.custom => status.name \in {"none", "default"}
    BY DEF IInv, TypeOK, NamesFit, CacheName
  <2>2. CASE status.custom
    <3>1. settings' = settings
      BY <2>2 DEF UpdateCacheFile
    <3> QED BY <2>1, <3>1
  <2>3. CASE ~status.custom
    <3> DEFINE new == [hash |-> wanted, name |-> status.name,
                       fileHash |-> Whole(wanted)]
    <3>1. settings' = new
      BY <1>3, <2>3 DEF UpdateCacheFile
    <3>2. new \in Records /\ new.hash = wanted /\ new.fileHash = Whole(wanted)
      BY <1>4, <2>1, <2>3 DEF Records
    <3> HIDE DEF new
    <3> QED BY <3>1, <3>2
  <2> QED BY <2>2, <2>3
<1>7. CacheName' = CacheName
  BY <1>5 DEF CacheName
<1>8. TypeOK'
  <2>1. posted' \in Seq(Posts)
    BY <1>1, TailIsFrom
  <2>2. generation' \in Nat /\ queued' \in Queued
    BY <1>1 DEF IInv, TypeOK, Queued
  <2> QED BY <1>1, <1>3, <1>5, <1>6, <2>1, <2>2 DEF IInv, TypeOK, threads
<1>9. UpdatesFit' /\ EndsLast'
  BY <1>1, <1>5, TailIsFrom
<1>10. NamesFit' /\ WriteFits' /\ SourceIsWhole'
  BY <1>1, <1>3, <1>5, <1>7 DEF IInv, NamesFit, WriteFits, SourceIsWhole
<1>11. RequestsFit' /\ ReadingFits' /\ AnswersFit'
  BY <1>1, TailIsFrom, SupersededFits DEF threads
<1>12. Sound'
  BY <1>1, <1>3, <1>5, <1>7 DEF Sound, Good
<1>13. RecordFits' /\ StatusIsSound'
  BY <1>5, <1>6, <1>12 DEF IInv, RecordFits, StatusIsSound, Whole
<1> QED BY <1>8, <1>9, <1>10, <1>11, <1>13 DEF IInv

(* The end of a write is its last word. *)
LEMMA WriteEndedFits ==
  ASSUME IInv, WriteEnded PROVE IInv'
<1>1. /\ posted # <<>> /\ posted' = Tail(posted) /\ Head(posted).is = "ended"
      /\ write' = "none" /\ source' = None
      /\ UNCHANGED <<files, settings, status, space, generation, queued,
                     threads, wanted, copy, writes, runs>>
  BY DEF WriteEnded, Receive, bounds
<1>2. /\ posted[1].is = "ended" /\ 1 \in DOMAIN posted
      /\ \A k \in DOMAIN posted' :
           k + 1 \in DOMAIN posted /\ k + 1 > 1 /\ posted'[k] = posted[k + 1]
  BY <1>1, TailFacts DEF IInv, TypeOK
<1>3. /\ write = "ending" /\ copy = "none"
      /\ \A k \in DOMAIN posted' : posted'[k].is \notin {"ended", "update"}
  BY <1>2 DEF IInv, EndsLast, WriteFits
<1>4. UpdatesFit' /\ EndsLast'
  BY <1>3 DEF UpdatesFit, EndsLast
<1>5. posted' \in Seq(Posts) /\ AnswersFrom(posted', posted)
  BY <1>1, TailIsFrom
<1>6. TypeOK' /\ NamesFit' /\ WriteFits' /\ SourceIsWhole'
  BY <1>1, <1>3, <1>5 DEF IInv, TypeOK, NamesFit, WriteFits, SourceIsWhole,
                          CacheName, threads
<1>7. Sound => Sound'
  BY <1>1 DEF Sound, CacheName, Good, Raw, Whole
<1>8. RequestsFit' /\ ReadingFits' /\ AnswersFit'
  BY <1>1, <1>5, <1>7, SameRequestsFit
<1>9. RecordFits' /\ StatusIsSound'
  BY <1>1, <1>7 DEF IInv, RecordFits, StatusIsSound, Whole
<1> QED BY <1>4, <1>6, <1>8, <1>9 DEF IInv

(* The worker reads and answers what it was asked. *)
LEMMA WorkerFits ==
  ASSUME IInv, Worker PROVE IInv'
<1>1. UNCHANGED <<files, settings, status, space, generation, queued, write,
                  wanted, copy, source, writes, runs>>
  BY DEF Worker, CheckDiskSpace, VerifyCacheFile, VerificationEnds, WorkerVars,
         writing, bounds
<1>2. /\ CacheName' = CacheName /\ CacheName \in Files /\ Sound' = Sound
      /\ files \in [Files -> Contents \cup {None}] /\ status \in Statuses
      /\ requests \in Seq(Requests) /\ posted \in Seq(Posts)
      /\ reading \in Reads \cup {NotQueued}
  BY <1>1 DEF CacheName, Sound, Good, Raw, Whole, Files, IInv, TypeOK
<1>3. NamesFit' /\ WriteFits' /\ RecordFits' /\ StatusIsSound' /\ SourceIsWhole'
  BY <1>1, <1>2 DEF IInv, NamesFit, WriteFits, RecordFits, StatusIsSound,
                    SourceIsWhole, Raw, Whole
(* What is posted is an answer or of the space, and leaves the rest.        *)
<1>4. ASSUME NEW e \in Posts, posted' = Append(posted, e),
             e.is \in {"space", "verified"}
      PROVE  posted' \in Seq(Posts) /\ UpdatesFit' /\ EndsLast'
  <2>1. /\ posted' \in Seq(Posts)
        /\ \A k \in DOMAIN posted' :
             \/ k \in DOMAIN posted /\ posted'[k] = posted[k]
             \/ posted'[k] = e
    BY <1>2, <1>4, AppendFacts
  <2>2. UpdatesFit'
    BY <1>1, <1>2, <1>4, <2>1 DEF IInv, UpdatesFit, Whole
  <2>3. EndsLast'
    BY <1>1, <1>4, <2>1 DEF IInv, EndsLast
  <2> QED BY <2>1, <2>2, <2>3
(* And what is taken from the requests leaves the rest of them.             *)
<1>5. ASSUME requests # <<>>, requests' = Tail(requests)
      PROVE  requests' \in Seq(Requests) /\ RequestsFit'
  <2>1. /\ requests' \in Seq(Requests)
        /\ \A k \in DOMAIN requests' :
             k + 1 \in DOMAIN requests /\ requests'[k] = requests[k + 1]
    BY <1>2, <1>5, TailFacts
  <2> QED BY <1>1, <1>2, <2>1 DEF IInv, RequestsFit, Current, Fits
<1>6. CASE CheckDiskSpace
  <2>1. PICK enough \in BOOLEAN :
          posted' = Append(posted, [is |-> "space", enough |-> enough])
    BY <1>6 DEF CheckDiskSpace
  <2> DEFINE e == [is |-> "space", enough |-> enough]
  <2>2. e \in Posts /\ e.is = "space"
    BY DEF Posts
  <2> HIDE DEF e
  <2>3. posted' = Append(posted, e)
    BY <2>1 DEF e
  <2>4. posted' \in Seq(Posts) /\ UpdatesFit' /\ EndsLast'
    BY <1>4, <2>2, <2>3
  <2>5. /\ reading' = reading /\ requests' \in Seq(Requests) /\ RequestsFit'
    BY <1>5, <1>6 DEF CheckDiskSpace
  <2>6. TypeOK'
    BY <1>1, <2>4, <2>5 DEF IInv, TypeOK
  <2>7. ReadingFits'
    BY <1>1, <1>2, <2>5 DEF IInv, ReadingFits, Current, Fits
  <2>8. AnswersFit'
    <3>1. \A k \in DOMAIN posted' :
             \/ k \in DOMAIN posted /\ posted'[k] = posted[k]
             \/ posted'[k] = e
      BY <1>2, <2>2, <2>3, AppendFacts
    <3> QED BY <1>1, <1>2, <2>2, <3>1 DEF IInv, AnswersFit, Current
  <2> QED BY <1>3, <2>4, <2>5, <2>6, <2>7, <2>8 DEF IInv
<1>7. CASE VerifyCacheFile
  <2> DEFINE r == Head(requests)
  <2>1. /\ requests # <<>> /\ requests' = Tail(requests) /\ r.is = "verify"
        /\ reading' = [name |-> r.name, hash |-> r.hash,
                       generation |-> r.generation, content |-> files[r.name]]
        /\ posted' = posted
    BY <1>7 DEF VerifyCacheFile
  <2>2. r \in Requests /\ r = requests[1] /\ 1 \in DOMAIN requests
    BY <1>2, <2>1, TailFacts
  <2>3. /\ r.name \in Files /\ r.hash \in Contents /\ r.generation \in Nat
        /\ r.generation <= generation
        /\ r.generation = generation => Fits(r)
    BY <2>1, <2>2 DEF Requests, IInv, RequestsFit, Current
  <2> HIDE DEF r
  <2>4. /\ reading' \in Reads /\ reading'.name = r.name /\ reading'.hash = r.hash
        /\ reading'.generation = r.generation
        /\ reading'.content = files[r.name]
    BY <1>2, <2>1, <2>3 DEF Reads
  <2>5. requests' \in Seq(Requests) /\ RequestsFit'
    BY <1>5, <2>1
  <2>6. TypeOK'
    BY <1>1, <2>1, <2>4, <2>5 DEF IInv, TypeOK
  <2>7. ASSUME r.generation = generation
        PROVE  /\ r.name = CacheName /\ status.hash # NoImage
               /\ r.hash \in Good(status.hash)
               /\ files[r.name] = r.hash => Sound
    BY <2>3, <2>7 DEF Fits, Sound
  <2>8. ReadingFits'
    <3>1. /\ reading'.generation <= generation'
          /\ reading'.generation = generation' =>
               /\ reading'.name = CacheName' /\ status'.hash # NoImage
               /\ reading'.hash \in Good(status'.hash)
               /\ reading'.content = reading'.hash => Sound'
      BY <1>1, <1>2, <2>3, <2>4, <2>7
    <3> QED BY <3>1 DEF ReadingFits, Current, Fits
  <2>9. UpdatesFit' /\ EndsLast' /\ AnswersFit'
    BY <1>1, <1>2, <2>1 DEF IInv, UpdatesFit, EndsLast, AnswersFit, Current, Whole
  <2> QED BY <1>3, <2>5, <2>6, <2>8, <2>9 DEF IInv
<1>8. CASE VerificationEnds
  <2>1. /\ reading # NotQueued /\ reading' = NotQueued
        /\ posted' = Append(posted, Result) /\ requests' = requests
    BY <1>8 DEF VerificationEnds, Answer
  <2>2. /\ Result \in Posts /\ Result.is = "verified"
        /\ Result.name = reading.name /\ Result.generation = reading.generation
        /\ Result.valid <=> reading.content = reading.hash
    BY <1>2, <2>1 DEF Result, Posts, Reads
  <2>3. posted' \in Seq(Posts) /\ UpdatesFit' /\ EndsLast'
    BY <1>4, <2>1, <2>2
  <2>4. TypeOK'
    BY <1>1, <2>1, <2>3 DEF IInv, TypeOK
  <2>5. RequestsFit' /\ ReadingFits'
    BY <1>1, <1>2, <2>1 DEF IInv, RequestsFit, ReadingFits, Current, Fits
  <2>6. AnswersFit'
    <3>1. \A k \in DOMAIN posted' :
             \/ k \in DOMAIN posted /\ posted'[k] = posted[k]
             \/ posted'[k] = Result
      BY <1>2, <2>1, <2>2, AppendFacts
    <3>2. /\ reading.generation <= generation
          /\ reading.generation = generation =>
               /\ reading.name = CacheName /\ status.hash # NoImage
               /\ reading.content = reading.hash => Sound
      BY <2>1 DEF IInv, ReadingFits, Current, Fits
    <3> QED BY <1>1, <1>2, <2>2, <3>1, <3>2 DEF IInv, AnswersFit, Current
  <2> QED BY <1>3, <2>3, <2>4, <2>5, <2>6 DEF IInv
<1> QED BY <1>6, <1>7, <1>8 DEF Worker

(* The write thread finishes a copy that is whole, or removes it. *)
LEMMA WriteThreadFits ==
  ASSUME IInv, WriteThread PROVE IInv'
<1>1. /\ UNCHANGED <<settings, status, space, generation, queued, requests,
                     reading, wanted, source, writes, runs>>
      /\ write \in {"download", "local"} /\ copy' = "none"
  BY DEF WriteThread, CopyEnds, ThreadEnds, ThreadVars, threads, bounds
<1>2. /\ CacheName' = CacheName /\ CacheName \in Files
      /\ files \in [Files -> Contents \cup {None}] /\ status \in Statuses
      /\ posted \in Seq(Posts)
  BY <1>1 DEF CacheName, Files, IInv, TypeOK
<1>3. /\ wanted \in Images /\ writes > 0 /\ status.hash \in {NoImage, wanted}
      /\ copy \in {"none", CacheName}
      /\ copy = CacheName => write = "download"
      /\ Whole(wanted) \in Contents
  <2>1. wanted \in Images
    BY <1>1 DEF IInv, WriteFits
  <2> QED BY <1>1, <1>2, <2>1, WholeIsContent DEF IInv, WriteFits, Files
<1>4. \A k \in DOMAIN posted : posted[k].is # "ended"
  BY <1>1 DEF IInv, EndsLast
<1>5. CASE CopyEnds
  <2> DEFINE e == [is |-> "update", image |-> wanted, fileHash |-> Whole(wanted)]
  <2>1. /\ write = "download" /\ copy = CacheName /\ write' = write
        /\ posted' = Append(posted, e)
    BY <1>3, <1>5 DEF CopyEnds
  <2>2. /\ e \in Posts /\ e.is = "update" /\ e.image = wanted
        /\ e.fileHash = Whole(wanted)
    BY <1>3 DEF Posts
  <2> HIDE DEF e
  <2>3. /\ files' \in [Files -> Contents \cup {None}]
        /\ files'[CacheName] \in {None, Whole(wanted)}
    <3>1. \/ files' = [files EXCEPT ![CacheName] = None]
          \/ files' = [files EXCEPT ![CacheName] = Whole(wanted)]
      BY <1>2, <1>5, <2>1 DEF CopyEnds, Remove, Files, CacheName
    <3> QED BY <1>2, <1>3, <3>1
  <2>4. /\ posted' \in Seq(Posts)
        /\ \A k \in DOMAIN posted' :
             \/ k \in DOMAIN posted /\ posted'[k] = posted[k]
             \/ posted'[k] = e
    BY <1>2, <2>1, <2>2, AppendFacts
  <2>5. \A k \in DOMAIN posted : posted[k].is # "update"
    BY <1>2, <2>1 DEF IInv, UpdatesFit, Files
  <2>6. UpdatesFit' /\ EndsLast' /\ AnswersFrom(posted', posted)
    <3>1. UpdatesFit'
      BY <1>1, <1>2, <2>1, <2>2, <2>3, <2>4, <2>5 DEF UpdatesFit, Whole
    <3>2. EndsLast'
      BY <1>4, <2>2, <2>4 DEF EndsLast
    <3>3. AnswersFrom(posted', posted)
      BY <2>2, <2>4 DEF AnswersFrom
    <3> QED BY <3>1, <3>2, <3>3
  <2>7. TypeOK'
    BY <1>1, <2>1, <2>3, <2>4 DEF IInv, TypeOK
  <2>8. NamesFit' /\ WriteFits' /\ SourceIsWhole'
    BY <1>1, <1>2, <1>3, <2>1 DEF IInv, NamesFit, WriteFits, SourceIsWhole
  <2>9. status.hash # NoImage => Sound'
    <3>1. ASSUME status.hash # NoImage
          PROVE  files'[CacheName] = None \/ files'[CacheName] \in Good(status'.hash)
      BY <1>1, <1>3, <2>3, <3>1 DEF Good
    <3> QED BY <1>2, <3>1 DEF Sound
  <2>10. RequestsFit' /\ ReadingFits' /\ AnswersFit'
    BY <1>1, <2>6, <2>9, SameRequestsFit DEF threads
  <2>11. RecordFits' /\ StatusIsSound'
    BY <1>1, <2>9 DEF IInv, RecordFits, StatusIsSound, Whole
  <2> QED BY <2>6, <2>7, <2>8, <2>10, <2>11 DEF IInv
<1>6. CASE ThreadEnds
  <2> DEFINE e == [is |-> "ended"]
  <2>1. /\ write' = "ending" /\ files' = Remove(copy)
        /\ posted' = Append(posted, e)
    BY <1>6 DEF ThreadEnds
  <2>2. e \in Posts /\ e.is = "ended"
    BY DEF Posts
  <2> HIDE DEF e
  <2>3. /\ files' \in [Files -> Contents \cup {None}]
        /\ copy = CacheName => files'[CacheName] = None
        /\ copy = "none" => files' = files
    BY <1>2, <1>3, <2>1 DEF Remove, Files
  <2>4. /\ posted' \in Seq(Posts)
        /\ \A k \in DOMAIN posted' :
             \/ /\ k \in DOMAIN posted /\ posted'[k] = posted[k]
             \/ k = Len(posted) + 1 /\ posted'[k] = e
        /\ \A k \in DOMAIN posted : k \in Nat /\ k < Len(posted) + 1
    BY <1>2, <2>1, <2>2, AppendFacts
  <2>5. UpdatesFit'
    <3>1. \A k \in DOMAIN posted' : posted'[k].is = "update" =>
            k \in DOMAIN posted /\ posted'[k] = posted[k] /\ files' = files
      BY <2>2, <2>3, <2>4 DEF IInv, UpdatesFit
    <3> QED BY <1>1, <1>2, <2>1, <3>1 DEF IInv, UpdatesFit, Whole
  <2>6. EndsLast'
    <3>1. \A k \in DOMAIN posted' : posted'[k].is = "ended" => k = Len(posted) + 1
      BY <1>4, <2>4
    <3>2. \A m \in DOMAIN posted' : ~(m > Len(posted) + 1)
      <4>1. Len(posted) \in Nat
        BY <1>2
      <4> QED BY <2>4, <4>1
    <3> QED BY <2>1, <3>1, <3>2 DEF EndsLast
  <2>7. AnswersFrom(posted', posted)
    BY <2>2, <2>4 DEF AnswersFrom
  <2>8. TypeOK'
    BY <1>1, <2>1, <2>3, <2>4 DEF IInv, TypeOK
  <2>9. NamesFit' /\ WriteFits' /\ SourceIsWhole'
    BY <1>1, <1>2, <1>3, <2>1 DEF IInv, NamesFit, WriteFits, SourceIsWhole
  <2>10. Sound => Sound'
    <3>1. CASE copy = CacheName
      BY <1>2, <2>3, <3>1 DEF Sound
    <3>2. CASE copy = "none"
      BY <1>1, <1>2, <2>3, <3>2 DEF Sound, Files, Good, Raw, Whole
    <3> QED BY <1>3, <3>1, <3>2
  <2>11. RequestsFit' /\ ReadingFits' /\ AnswersFit'
    BY <1>1, <2>7, <2>10, SameRequestsFit DEF threads
  <2>12. RecordFits' /\ StatusIsSound'
    BY <1>1, <2>10 DEF IInv, RecordFits, StatusIsSound, Whole
  <2> QED BY <2>5, <2>6, <2>8, <2>9, <2>11, <2>12 DEF IInv
<1> QED BY <1>5, <1>6 DEF WriteThread

(* A file that is gone is not taken for another. *)
LEMMA VanishFits ==
  ASSUME IInv, NEW name \in Files, Vanish(name) PROVE IInv'
<1>1. /\ files' = [files EXCEPT ![name] = None]
      /\ UNCHANGED <<settings, status, space, generation, queued, requests,
                     reading, posted, write, wanted, copy, source, writes, runs>>
  BY DEF Vanish, memory
<1>2. /\ files \in [Files -> Contents \cup {None}]
      /\ CacheName' = CacheName /\ CacheName \in Files
  BY <1>1 DEF IInv, TypeOK, CacheName, Files
<1>3. /\ files' \in [Files -> Contents \cup {None}]
      /\ files'[CacheName] \in {None, files[CacheName]}
  BY <1>1, <1>2
<1>4. TypeOK' /\ NamesFit' /\ WriteFits' /\ SourceIsWhole'
  BY <1>1, <1>2, <1>3 DEF IInv, TypeOK, NamesFit, WriteFits, SourceIsWhole,
                          Raw, Whole
<1>5. UpdatesFit' /\ EndsLast'
  BY <1>1, <1>2, <1>3 DEF IInv, UpdatesFit, EndsLast, Whole
<1>6. Sound => Sound'
  BY <1>1, <1>2, <1>3 DEF Sound, Good, Raw, Whole
<1>7. RequestsFit' /\ ReadingFits' /\ AnswersFit'
  BY <1>1, <1>6, SameRequestsFit DEF threads, AnswersFrom
<1>8. RecordFits' /\ StatusIsSound'
  BY <1>1, <1>6 DEF IInv, RecordFits, StatusIsSound, Whole
<1> QED BY <1>4, <1>5, <1>7, <1>8 DEF IInv

(* What the next run believes is what the last one recorded. *)
LEMMA RestartFits ==
  ASSUME IInv, Restart PROVE IInv'
<1> DEFINE hash == IF settings.fileHash = None THEN Raw(settings.hash)
                                               ELSE settings.fileHash
<1>1. /\ runs < MaxRuns /\ runs' = runs + 1 /\ space' = "unknown"
      /\ reading' = NotQueued /\ posted' = <<>> /\ write' = "none"
      /\ wanted' = NoImage /\ copy' = "none" /\ source' = None /\ writes' = 0
      /\ files' = files
  BY DEF Restart
<1>2. /\ files \in [Files -> Contents \cup {None}] /\ settings \in Records
      /\ runs' \in 1 .. MaxRuns /\ writes' \in 0 .. MaxWrites
  BY <1>1, CacheAssumption DEF IInv, TypeOK
<1>3. UpdatesFit' /\ EndsLast' /\ AnswersFit' /\ ReadingFits' /\ SourceIsWhole'
  BY <1>1 DEF UpdatesFit, EndsLast, AnswersFit, ReadingFits, SourceIsWhole
<1>4. posted' \in Seq(Posts)
  BY <1>1
<1>5. CASE settings.hash # NoImage /\ Exists(settings.name)
  <2>1. /\ settings.hash \in Images /\ settings.name = "default"
        /\ settings.fileHash = Whole(settings.hash)
    BY <1>2, <1>5 DEF IInv, RecordFits, Records, Exists
  <2>2. /\ Whole(settings.hash) \in Contents
        /\ Whole(settings.hash) \in Good(settings.hash)
        /\ hash = Whole(settings.hash)
    BY <2>1, WholeIsContent
  <2> DEFINE r == [is |-> "verify", name |-> settings.name, hash |-> hash,
                   generation |-> 1]
  <2>3. /\ status' = [NoStatus EXCEPT !.name = settings.name,
                        !.hash = settings.hash, !.fileHash = settings.fileHash]
        /\ generation' = 1 /\ settings' = settings
        /\ queued' = [name |-> settings.name, hash |-> hash]
        /\ requests' = <<[is |-> "space"], r>>
    BY <1>5 DEF Restart
  <2>4. /\ r \in Requests /\ [is |-> "space"] \in Requests
        /\ queued' \in Queued
    BY <2>1, <2>2, <2>3 DEF Requests, Queued, Files
  <2>5. /\ status' \in Statuses /\ status'.name = "default"
        /\ status'.hash = settings.hash /\ ~status'.complete
        /\ status'.fileHash = settings.fileHash /\ ~status'.custom
    BY <1>2, <2>1, <2>2, <2>3 DEF NoStatus, Statuses, Files
  <2>6. CacheName' = "default"
    BY <2>5 DEF CacheName
  <2>7. /\ requests' \in Seq(Requests)
        /\ \A k \in DOMAIN requests' : requests'[k].is = "verify" =>
             requests'[k] = r
    <3>1. requests' = <<[is |-> "space"], r>>
      BY <2>3
    <3> HIDE DEF r
    <3> QED BY <3>1, <2>4
  <2>8. RequestsFit'
    <3>1. /\ r.name = CacheName' /\ status'.hash # NoImage
          /\ r.hash \in Good(status'.hash) /\ r.generation = generation'
          /\ generation' \in Nat
      BY <1>5, <2>1, <2>2, <2>3, <2>5, <2>6
    <3> HIDE DEF r
    <3> QED BY <2>7, <3>1 DEF RequestsFit, Current, Fits
  <2>9. TypeOK'
    BY <1>1, <1>2, <1>4, <2>3, <2>4, <2>5, <2>7 DEF TypeOK
  <2>10. NamesFit' /\ WriteFits'
    BY <1>1, <2>5, <2>6 DEF NamesFit, WriteFits
  <2>11. RecordFits' /\ StatusIsSound'
    BY <2>1, <2>3, <2>5 DEF IInv, RecordFits, StatusIsSound, Whole
  <2> QED BY <1>3, <2>8, <2>9, <2>10, <2>11 DEF IInv
<1>6. CASE ~(settings.hash # NoImage /\ Exists(settings.name))
  <2>1. /\ status' = NoStatus /\ queued' = NotQueued /\ generation' \in {0, 1}
        /\ requests' = <<[is |-> "space"]>>
        /\ settings' \in {settings, NoRecord}
    BY <1>6 DEF Restart
  <2>2. /\ status' \in Statuses /\ settings' \in Records
        /\ requests' \in Seq(Requests)
    BY <1>2, <2>1 DEF NoStatus, Statuses, NoRecord, Records, Requests
  <2>3. TypeOK'
    BY <1>1, <1>2, <1>4, <2>1, <2>2 DEF TypeOK, Queued
  <2>4. NamesFit' /\ WriteFits' /\ StatusIsSound'
    BY <1>1, <2>1 DEF NamesFit, WriteFits, StatusIsSound, NoStatus
  <2>5. RequestsFit'
    BY <2>1 DEF RequestsFit
  <2>6. RecordFits'
    <3>1. status'.hash = NoImage
      BY <2>1 DEF NoStatus
    <3>2. CASE settings' = settings
      BY <3>1, <3>2 DEF IInv, RecordFits, Whole
    <3>3. CASE settings' = NoRecord
      BY <3>1, <3>3 DEF RecordFits, NoRecord
    <3> QED BY <2>1, <3>2, <3>3
  <2> QED BY <1>3, <2>3, <2>4, <2>5, <2>6 DEF IInv
<1> QED BY <1>5, <1>6

(* The invariant is about the variables alone. *)
LEMMA StutterFits ==
  ASSUME IInv, UNCHANGED vars PROVE IInv'
<1>1. UNCHANGED <<files, settings, status, space, generation, queued, requests,
                  reading, posted, write, wanted, copy, source, writes, runs>>
  BY DEF vars, memory
<1>2. TypeOK' /\ NamesFit' /\ WriteFits' /\ UpdatesFit' /\ EndsLast'
  BY <1>1 DEF IInv, TypeOK, NamesFit, WriteFits, UpdatesFit, EndsLast,
              CacheName, Whole
<1>3. Sound => Sound'
  BY <1>1 DEF Sound, CacheName, Good, Raw, Whole
<1>4. RequestsFit' /\ ReadingFits' /\ AnswersFit'
  BY <1>1, <1>3, SameRequestsFit DEF threads, AnswersFrom
<1>5. RecordFits' /\ StatusIsSound' /\ SourceIsWhole'
  BY <1>1, <1>3 DEF IInv, RecordFits, StatusIsSound, SourceIsWhole, Raw, Whole
<1> QED BY <1>2, <1>4, <1>5 DEF IInv

(* Each step keeps the invariant. *)
LEMMA NextFits == IInv /\ [Next]_vars => IInv'
<1> SUFFICES ASSUME IInv, [Next]_vars PROVE IInv'
  OBVIOUS
<1>1. CASE MainThread
  BY <1>1, SpaceAndSupersededFit, OnVerificationCompleteFits,
     UpdateCacheFileFits, WriteEndedFits DEF MainThread
<1>2. CASE Worker
  BY <1>2, WorkerFits
<1>3. CASE User
  BY <1>3, SetCustomCacheFileFits, StartWriteFits, SkipCacheVerificationFits
  DEF User
<1>4. CASE WriteThread
  BY <1>4, WriteThreadFits
<1>5. CASE Outside
  BY <1>5, RestartFits, VanishFits DEF Outside
<1>6. CASE Rest
  BY <1>6, StutterFits DEF Rest
<1>7. CASE UNCHANGED vars
  BY <1>7, StutterFits
<1> QED BY <1>1, <1>2, <1>3, <1>4, <1>5, <1>6, <1>7 DEF Next

-----------------------------------------------------------------------------
(* Why a good copy is kept: what a current answer rests on. *)

(* There is a record of our own copy, and the copy is as recorded.          *)
Recorded == ~status.custom /\ settings.hash # NoImage
AsRecorded == files["default"] = Whole(settings.hash)

(* The record is of our own file, and the status knows it.                  *)
RecordIsKnown ==
  /\ settings.hash # NoImage => settings.name = "default"
  /\ Recorded => /\ status.hash = settings.hash
                 /\ status.fileHash = settings.fileHash

UpdateComes == \E k \in DOMAIN posted : posted[k].is = "update"

(* A copy is recorded under its name.                                       *)
CopyIsNamed == copy # "none" \/ UpdateComes => status.name = CacheName

(* The verification that is not superseded asks for the hash recorded, and  *)
(* what it finds bad is bad, or has since been replaced by a copy whose     *)
(* update supersedes it.                                                    *)
Bad == ~AsRecorded \/ UpdateComes

RecordedIsAsked ==
  Recorded => \A k \in DOMAIN requests :
    requests[k].is = "verify" /\ Current(requests[k]) =>
      requests[k].hash = Whole(settings.hash)

RecordedIsRead ==
  Recorded /\ reading # NotQueued /\ Current(reading) =>
    /\ reading.hash = Whole(settings.hash)
    /\ reading.content = reading.hash \/ Bad

BadIsBad ==
  Recorded => \A k \in DOMAIN posted :
    posted[k].is = "verified" /\ Current(posted[k]) =>
      posted[k].valid \/ Bad

Keeping == /\ RecordIsKnown /\ CopyIsNamed /\ RecordedIsAsked
           /\ RecordedIsRead /\ BadIsBad

(* Steps that do not disturb what is recorded: the answers that are there   *)
(* stay right as long as a file found bad does not become good unnoticed.   *)
LEMMA SameIsKept ==
  ASSUME Keeping, UNCHANGED <<requests, reading, generation>>,
         AnswersFrom(posted', posted),
         Recorded' => Recorded /\ settings'.hash = settings.hash,
         Recorded' /\ Bad => Bad'
  PROVE  RecordedIsAsked' /\ RecordedIsRead' /\ BadIsBad'
<1>1. ASSUME Recorded'
      PROVE  Recorded /\ Whole(settings.hash)' = Whole(settings.hash)
  BY <1>1 DEF Whole
<1>2. RecordedIsAsked'
  BY <1>1 DEF Keeping, RecordedIsAsked, Current
<1>3. RecordedIsRead'
  BY <1>1 DEF Keeping, RecordedIsRead, Current
<1>4. BadIsBad'
  <2> SUFFICES ASSUME Recorded', NEW k \in DOMAIN posted',
                      posted'[k].is = "verified",
                      posted'[k].generation = generation
               PROVE  posted'[k].valid \/ Bad'
    BY DEF BadIsBad, Current
  <2>1. PICK m \in DOMAIN posted : posted'[k] = posted[m]
    BY DEF AnswersFrom
  <2>2. posted[m].valid \/ Bad
    BY <1>1, <2>1 DEF Keeping, BadIsBad, Current
  <2> QED BY <2>1, <2>2
<1> QED BY <1>2, <1>3, <1>4

(* What is superseded says nothing; what is asked then is the hash recorded. *)
LEMMA SupersededIsKept ==
  ASSUME IInv, generation' = generation + 1, reading' = reading,
         AnswersFrom(posted', posted),
         \/ requests' = requests
         \/ \E r \in Requests :
              /\ requests' = Append(requests, r)
              /\ Recorded' /\ r.is = "verify" => r.hash = Whole(settings'.hash)
  PROVE  RecordedIsAsked' /\ RecordedIsRead' /\ BadIsBad'
<1>1. /\ generation \in Nat /\ requests \in Seq(Requests)
      /\ posted \in Seq(Posts) /\ reading \in Reads \cup {NotQueued}
  BY DEF IInv, TypeOK
<1>2. \A k \in DOMAIN requests :
        requests[k].is = "verify" => requests[k].generation # generation'
  <2>1. \A k \in DOMAIN requests : requests[k] \in Requests
    BY <1>1, ElementFacts
  <2> QED BY <1>1, <2>1 DEF IInv, RequestsFit, Requests
<1>3. \A k \in DOMAIN posted :
        posted[k].is = "verified" => posted[k].generation # generation'
  <2>1. \A k \in DOMAIN posted : posted[k] \in Posts
    BY <1>1, ElementFacts
  <2> QED BY <1>1, <2>1 DEF IInv, AnswersFit, Posts
<1>4. reading # NotQueued => reading.generation # generation'
  BY <1>1 DEF IInv, ReadingFits, Reads
<1>5. RecordedIsAsked'
  <2>1. CASE requests' = requests
    BY <1>2, <2>1 DEF RecordedIsAsked, Current
  <2>2. ASSUME NEW r \in Requests, requests' = Append(requests, r),
               Recorded' /\ r.is = "verify" => r.hash = Whole(settings'.hash)
        PROVE  RecordedIsAsked'
    <3>1. \A k \in DOMAIN requests' :
            \/ k \in DOMAIN requests /\ requests'[k] = requests[k]
            \/ requests'[k] = r
      BY <1>1, <2>2, AppendFacts
    <3> QED BY <1>2, <2>2, <3>1 DEF RecordedIsAsked, Current, Whole
  <2> QED BY <2>1, <2>2
<1>6. RecordedIsRead'
  BY <1>4 DEF RecordedIsRead, Current
<1>7. BadIsBad'
  BY <1>3 DEF BadIsBad, Current, AnswersFrom
<1> QED BY <1>5, <1>6, <1>7

(* Only a part of the file is there when a copy is begun, under its name.   *)
LEMMA SetUpNames ==
  ASSUME NEW image \in Images, NEW t \in Statuses, NEW name \in Files,
         name = IF t.custom THEN t.name ELSE "default",
         NEW fs \in [Files -> Contents \cup {None}], SetUpCache(image, t, fs)
  PROVE  /\ copy' # "none" => copy' = name /\ status'.name = name
         /\ files'["default"] \in {fs["default"], Part(image)}
         /\ name # "default" => files'["default"] = fs["default"]
<1>1. \/ status' = t /\ files' = fs /\ copy' = "none"
      \/ /\ status' = [t EXCEPT !.name = name]
         /\ \/ files' = [fs EXCEPT ![name] = Part(image)] /\ copy' = name
            \/ files' = fs /\ copy' = "none"
  BY DEF SetUpCache
<1>2. "default" \in Files /\ [t EXCEPT !.name = name].name = name
  BY DEF Statuses, Files
<1> QED BY <1>1, <1>2

(* A download in progress is not a copy. *)
LEMMA PartIsNotWhole ==
  \A image, other : Part(image) # Whole(other)
BY DEF Part, Whole

(* A download that begins forgets the record, or leaves it and what it is   *)
(* about, and has at most a part of the file.                               *)
LEMMA DownloadKeeps ==
  ASSUME IInv, Keeping, NEW image \in Images, NEW s \in Statuses,
         NEW bad \in BOOLEAN,
         s.custom = status.custom, s.name \in {"none", CacheName},
         s.custom => s.name = "custom", bad \/ s = status,
         write \in {"none", "check"}, Download(image, s, bad),
         UNCHANGED threads, posted' \in Seq(Posts), From(posted', posted)
  PROVE  Keeping'
<1>1. /\ \A k \in DOMAIN posted : posted[k].is # "update"
      /\ ~UpdateComes /\ ~UpdateComes'
  BY DEF IInv, UpdatesFit, UpdateComes, From
<1>2. /\ files \in [Files -> Contents \cup {None}]
      /\ settings \in Records /\ status \in Statuses
      /\ "default" \in Files /\ CacheName \in Files
      /\ (IF s.custom THEN s.name ELSE "default") = CacheName
  BY DEF IInv, TypeOK, CacheName, Files
<1>3. CASE bad \/ s.hash \notin {NoImage, image}
  <2>1. /\ SetUpCache(image, Invalidated(s), Remove(s.name))
        /\ ForgetRecord /\ generation' = generation + 1
    BY <1>3 DEF Download, SupersedeVerification
  <2>2. Remove(s.name) \in [Files -> Contents \cup {None}]
    BY <1>2 DEF Remove, Files
  <2> DEFINE t == Invalidated(s)
  <2>3. /\ t \in Statuses /\ t.custom = s.custom
        /\ t.name = IF s.custom THEN s.name ELSE "none"
    BY InvalidatedFacts
  <2> HIDE DEF t
  <2>4. CacheName = IF t.custom THEN t.name ELSE "default"
    BY <1>2, <2>3
  <2>5. SetUpCache(image, t, Remove(s.name))
    BY <2>1 DEF t
  <2>6. /\ status'.custom = status.custom /\ CacheName' = CacheName
        /\ copy' # "none" => status'.name = CacheName
    BY <1>2, <2>2, <2>3, <2>4, <2>5, SetUpFacts, SetUpNames DEF CacheName
  <2>7. ~Recorded' /\ settings' \in {settings, NoRecord}
    BY <2>1, <2>6 DEF ForgetRecord, Recorded, NoRecord
  <2>8. RecordIsKnown' /\ CopyIsNamed'
    BY <1>1, <2>6, <2>7 DEF Keeping, RecordIsKnown, CopyIsNamed, NoRecord
  <2>9. RecordedIsAsked' /\ RecordedIsRead' /\ BadIsBad'
    BY <2>7 DEF RecordedIsAsked, RecordedIsRead, BadIsBad
  <2> QED BY <2>8, <2>9 DEF Keeping
<1>4. CASE ~(bad \/ s.hash \notin {NoImage, image})
  <2>1. /\ s = status /\ SetUpCache(image, status, files)
        /\ UNCHANGED <<settings, generation>>
    BY <1>4 DEF Download
  <2>2. /\ status'.hash = status.hash /\ status'.fileHash = status.fileHash
        /\ status'.custom = status.custom
        /\ copy' # "none" => status'.name = CacheName
        /\ files'["default"] \in {files["default"], Part(image)}
    BY <1>2, <2>1, SetUpFacts, SetUpNames
  <2>3. CacheName' = CacheName
    BY <2>2 DEF CacheName
  <2>4. Recorded' => Recorded
    BY <2>1, <2>2 DEF Recorded
  <2>5. RecordIsKnown' /\ CopyIsNamed'
    BY <1>1, <2>1, <2>2, <2>3, <2>4 DEF Keeping, RecordIsKnown, CopyIsNamed
  <2>6. Bad => Bad'
    <3>1. Whole(settings.hash)' = Whole(settings.hash)
      BY <2>1 DEF Whole
    <3> QED BY <1>1, <2>2, <3>1, PartIsNotWhole DEF Bad, AsRecorded
  <2>7. RecordedIsAsked' /\ RecordedIsRead' /\ BadIsBad'
    BY <2>1, <2>4, <2>6, SameIsKept DEF threads, From, AnswersFrom
  <2> QED BY <2>5, <2>7 DEF Keeping
<1> QED BY <1>3, <1>4

(* The use of a copy leaves all of this alone. *)
LEMMA UseCopyKeeps ==
  ASSUME IInv, Keeping, NEW name, UseCopy(name), write \in {"none", "check"},
         status'.hash = status.hash, status'.fileHash = status.fileHash,
         status'.custom = status.custom,
         UNCHANGED threads, From(posted', posted)
  PROVE  Keeping'
<1>1. copy' = "none" /\ UNCHANGED <<files, settings, generation>>
  BY DEF UseCopy, Unchanged
<1>2. ~UpdateComes /\ ~UpdateComes'
  BY DEF IInv, UpdatesFit, UpdateComes, From
<1>3. RecordIsKnown' /\ CopyIsNamed' /\ (Recorded' => Recorded)
  BY <1>1, <1>2 DEF Keeping, RecordIsKnown, CopyIsNamed, Recorded
<1>4. Bad => Bad'
  BY <1>1, <1>2 DEF Bad, AsRecorded, Whole
<1>5. RecordedIsAsked' /\ RecordedIsRead' /\ BadIsBad'
  BY <1>1, <1>3, <1>4, SameIsKept DEF threads, From, AnswersFrom
<1> QED BY <1>3, <1>5 DEF Keeping

(* At first there is no record. *)
LEMMA InitKeeps == ASSUME Init PROVE Keeping
<1>1. /\ posted = <<>> /\ requests = <<[is |-> "space"]>>
      /\ copy = "none" /\ settings = NoRecord
  BY DEF Init
<1>2. ~Recorded /\ ~UpdateComes
  BY <1>1 DEF Recorded, UpdateComes, NoRecord
<1> QED BY <1>1, <1>2 DEF Keeping, RecordIsKnown, CopyIsNamed, RecordedIsAsked,
                          RecordedIsRead, BadIsBad, NoRecord

(* The user's file has no record of ours. *)
LEMMA SetCustomCacheFileKeeps ==
  ASSUME IInv, Keeping, NEW image \in Images, SetCustomCacheFile(image)
  PROVE  Keeping'
<1>1. /\ writes = 0 /\ status'.custom /\ generation' = generation + 1
      /\ UNCHANGED <<settings, requests, reading, posted, copy>>
  BY DEF SetCustomCacheFile, SupersedeVerification, threads, IInv, TypeOK,
         Statuses
<1>2. write = "none" /\ copy = "none" /\ ~UpdateComes
  BY <1>1 DEF IInv, WriteFits, UpdatesFit, UpdateComes
<1>3. ~Recorded' /\ ~UpdateComes'
  BY <1>1, <1>2 DEF Recorded, UpdateComes
<1> QED BY <1>1, <1>2, <1>3 DEF Keeping, RecordIsKnown, CopyIsNamed,
                                RecordedIsAsked, RecordedIsRead, BadIsBad

(* Our own copy is verified against the hash recorded. *)
LEMMA StartVerificationKeeps ==
  ASSUME IInv, Keeping, NEW image \in Images, status.hash = image,
         write = "none", Exists(status.name), StartVerification(image),
         UNCHANGED <<files, settings, reading, posted, copy>>
  PROVE  Keeping'
<1>1. /\ status \in Statuses /\ copy = "none" /\ generation \in Nat
      /\ status.name = CacheName /\ CacheName \in Files
      /\ status.hash # NoImage
  BY CacheAssumption DEF IInv, TypeOK, NamesFit, WriteFits, Exists, CacheName,
                         Files
<1>2. /\ (IF ~status.custom /\ status.name = "none" THEN "default"
                                                    ELSE status.name) = CacheName
      /\ HashToVerify(image) \in Contents
  <2>1. HashToVerify(image) \in Good(image)
    BY <1>1 DEF IInv, RecordFits, HashToVerify, Good
  <2> QED BY <1>1, <2>1, WholeIsContent DEF CacheName
<1>3. /\ status'.hash = status.hash /\ status'.fileHash = status.fileHash
      /\ status'.custom = status.custom
  BY <1>1 DEF StartVerification, Statuses
<1>4. ~UpdateComes /\ ~UpdateComes'
  BY DEF IInv, UpdatesFit, UpdateComes
<1>5. /\ RecordIsKnown' /\ CopyIsNamed'
      /\ Recorded' => Recorded /\ HashToVerify(image) = Whole(settings.hash)
  <2>1. RecordIsKnown' /\ CopyIsNamed'
    BY <1>1, <1>3, <1>4 DEF Keeping, RecordIsKnown, CopyIsNamed, Recorded
  <2>2. Recorded' => Recorded
    BY <1>3 DEF Recorded
  <2>3. ASSUME Recorded PROVE HashToVerify(image) = Whole(settings.hash)
    <3>1. /\ status.fileHash = Whole(settings.hash) /\ settings.hash \in Images
          /\ ~status.custom
      BY <2>3 DEF Keeping, RecordIsKnown, IInv, RecordFits, TypeOK, Records,
                  Recorded
    <3> QED BY <3>1, WholeIsContent DEF HashToVerify
  <2> QED BY <2>1, <2>2, <2>3
<1>6. CASE UNCHANGED <<generation, requests>>
  <2>1. Bad => Bad'
    BY <1>4 DEF Bad, AsRecorded, Whole
  <2>2. RecordedIsAsked' /\ RecordedIsRead' /\ BadIsBad'
    BY <1>5, <1>6, <2>1, SameIsKept DEF AnswersFrom
  <2> QED BY <1>5, <2>2 DEF Keeping
<1>7. CASE ~UNCHANGED <<generation, requests>>
  <2> DEFINE r == [is |-> "verify", name |-> CacheName,
                   hash |-> HashToVerify(image), generation |-> generation + 1]
  <2>1. generation' = generation + 1 /\ requests' = Append(requests, r)
    BY <1>2, <1>7 DEF StartVerification
  <2>2. r \in Requests
    BY <1>1, <1>2 DEF Requests
  <2>3. Recorded' /\ r.is = "verify" => r.hash = Whole(settings'.hash)
    BY <1>5
  <2> HIDE DEF r
  <2>4. RecordedIsAsked' /\ RecordedIsRead' /\ BadIsBad'
    BY <2>1, <2>2, <2>3, SupersededIsKept DEF AnswersFrom
  <2> QED BY <1>5, <2>4 DEF Keeping
<1> QED BY <1>6, <1>7

(* A write begins with a check, with the copy, or with a download. *)
LEMMA StartWriteKeeps ==
  ASSUME IInv, Keeping, NEW image \in Images, StartWrite(image)
  PROVE  Keeping'
<1>1. /\ write = "none" /\ UNCHANGED <<reading, posted>>
      /\ status \in Statuses /\ posted \in Seq(Posts) /\ From(posted', posted)
      /\ status.name \in {"none", CacheName}
      /\ status.custom => status.name = "custom"
  BY DEF IInv, TypeOK, NamesFit, StartWrite, From
<1>2. CASE /\ HasPotentialCache(image) /\ StartVerification(image)
           /\ UNCHANGED <<files, settings, copy, source>>
  BY <1>1, <1>2, StartVerificationKeeps DEF HasPotentialCache
<1>3. CASE UseCopy(status.name) /\ UNCHANGED <<status, queued, requests>>
  <2>1. UNCHANGED threads
    BY <1>1, <1>3 DEF threads
  <2> QED BY <1>1, <1>3, <2>1, UseCopyKeeps
<1>4. CASE Download(image, status, TRUE) /\ UNCHANGED requests
  BY <1>1, <1>4, DownloadKeeps DEF threads
<1>5. CASE Download(image, status, FALSE) /\ UNCHANGED requests
  BY <1>1, <1>5, DownloadKeeps DEF threads
<1> QED BY <1>2, <1>3, <1>4, <1>5 DEF StartWrite

(* A copy that is given up loses its record with it. *)
LEMMA SkipCacheVerificationKeeps ==
  ASSUME IInv, Keeping, SkipCacheVerification PROVE Keeping'
<1>1. /\ write = "check" /\ Download(wanted, status, TRUE)
      /\ UNCHANGED <<threads, posted>>
  BY DEF SkipCacheVerification
<1>2. /\ wanted \in Images /\ status \in Statuses
      /\ status.name \in {"none", CacheName}
      /\ status.custom => status.name = "custom"
      /\ posted \in Seq(Posts) /\ From(posted', posted)
  BY <1>1 DEF IInv, TypeOK, NamesFit, WriteFits, From
<1> QED BY <1>1, <1>2, DownloadKeeps

(* Whatever is handled is no longer to come. *)
LEMMA HandledIsFrom ==
  ASSUME IInv, posted # <<>>, posted' = Tail(posted)
  PROVE  /\ posted' \in Seq(Posts) /\ From(posted', posted)
         /\ AnswersFrom(posted', posted) /\ (UpdateComes' => UpdateComes)
         /\ Head(posted).is # "update" => (UpdateComes => UpdateComes')
<1>1. posted' \in Seq(Posts) /\ From(posted', posted) /\ AnswersFrom(posted', posted)
  BY TailIsFrom
<1>2. UpdateComes' => UpdateComes
  BY <1>1 DEF From, UpdateComes
<1>3. ASSUME Head(posted).is # "update", UpdateComes PROVE UpdateComes'
  <2>1. PICK k \in DOMAIN posted : posted[k].is = "update"
    BY <1>3 DEF UpdateComes
  <2>2. posted \in Seq(Posts) /\ Head(posted) = posted[1]
    BY TailFacts DEF IInv, TypeOK
  <2>3. k # 1 /\ k \in 1 .. Len(posted) /\ Len(posted) \in Nat
    BY <1>3, <2>1, <2>2
  <2>4. k - 1 \in DOMAIN Tail(posted) /\ Tail(posted)[k - 1] = posted[k]
    BY <2>2, <2>3
  <2> QED BY <2>1, <2>4 DEF UpdateComes
<1> QED BY <1>1, <1>2, <1>3

(* An answer that changes nothing of the copy or of its record. *)
LEMMA HandlingKeeps ==
  ASSUME IInv, Keeping, posted # <<>>, posted' = Tail(posted),
         Head(posted).is # "update",
         UNCHANGED <<files, settings, requests, reading, generation>>,
         copy' \in {"none", copy}, status'.name \in {status.name, CacheName},
         status'.hash = status.hash, status'.fileHash = status.fileHash,
         status'.custom = status.custom
  PROVE  Keeping'
<1>1. /\ AnswersFrom(posted', posted) /\ (UpdateComes' <=> UpdateComes)
      /\ CacheName' = CacheName
  BY HandledIsFrom DEF CacheName
<1>2. RecordIsKnown' /\ CopyIsNamed' /\ (Recorded' => Recorded)
  BY <1>1 DEF Keeping, RecordIsKnown, CopyIsNamed, Recorded
<1>3. Bad => Bad'
  BY <1>1 DEF Bad, AsRecorded, Whole
<1>4. RecordedIsAsked' /\ RecordedIsRead' /\ BadIsBad'
  BY <1>1, <1>2, <1>3, SameIsKept
<1> QED BY <1>2, <1>4 DEF Keeping

(* Answers about other things leave the record and the copy alone. *)
LEMMA AnswersKeep ==
  ASSUME IInv, Keeping, OnDiskSpaceCheckComplete \/ IgnoreSuperseded \/ WriteEnded
  PROVE  Keeping'
<1>1. /\ posted # <<>> /\ posted' = Tail(posted)
      /\ Head(posted).is # "update"
      /\ UNCHANGED <<files, settings, status, generation, requests, reading, copy>>
  BY DEF OnDiskSpaceCheckComplete, IgnoreSuperseded, WriteEnded, Receive,
         writing, threads
<1> QED BY <1>1, HandlingKeeps

(* What is known of the answer that is handled. *)
LEMMA AnswerFacts ==
  ASSUME IInv, OnVerificationComplete
  PROVE  LET s == [status EXCEPT !.valid = Head(posted).valid,
                                 !.complete = TRUE, !.name = Head(posted).name]
         IN /\ posted # <<>> /\ posted' = Tail(posted) /\ Continue(s)
            /\ UNCHANGED <<requests, reading, wanted>>
            /\ 1 \in DOMAIN posted /\ Head(posted) = posted[1]
            /\ posted[1].is = "verified" /\ Current(posted[1])
            /\ s \in Statuses /\ s.name = CacheName /\ s.valid = posted[1].valid
            /\ s.hash = status.hash /\ s.fileHash = status.fileHash
            /\ s.custom = status.custom
<1> DEFINE answer == Head(posted)
           s == [status EXCEPT !.valid = answer.valid, !.complete = TRUE,
                               !.name = answer.name]
<1>1. /\ posted # <<>> /\ posted' = Tail(posted) /\ Continue(s)
      /\ answer.is = "verified" /\ answer.generation = generation
      /\ UNCHANGED <<requests, reading, wanted>>
  BY DEF OnVerificationComplete, Receive, IsSuperseded, threads
<1>2. /\ answer \in Posts /\ answer = posted[1] /\ 1 \in DOMAIN posted
      /\ status \in Statuses
  BY <1>1, TailFacts DEF IInv, TypeOK
<1>3. answer.name = CacheName /\ answer.valid \in BOOLEAN
  BY <1>1, <1>2 DEF IInv, AnswersFit, Current, Posts
<1>4. /\ s \in Statuses /\ s.name = CacheName /\ s.valid = answer.valid
      /\ s.hash = status.hash /\ s.fileHash = status.fileHash
      /\ s.custom = status.custom
  <2>1. CacheName \in Files
    BY DEF CacheName, Files
  <2> QED BY <1>2, <1>3, <2>1 DEF Statuses
<1> QED BY <1>1, <1>2, <1>4 DEF Current

(* An answer leaves the record to be right of the copy, or forgets it. *)
LEMMA OnVerificationCompleteKeeps ==
  ASSUME IInv, Keeping, OnVerificationComplete PROVE Keeping'
<1> DEFINE s == [status EXCEPT !.valid = Head(posted).valid,
                               !.complete = TRUE, !.name = Head(posted).name]
<1>1. /\ posted # <<>> /\ posted' = Tail(posted) /\ Continue(s)
      /\ UNCHANGED <<requests, reading, wanted>>
      /\ Head(posted) = posted[1] /\ posted[1].is = "verified"
      /\ s \in Statuses /\ s.name = CacheName
      /\ s.hash = status.hash /\ s.fileHash = status.fileHash
      /\ s.custom = status.custom
  BY AnswerFacts
<1> HIDE DEF s
<1>2. posted' \in Seq(Posts) /\ From(posted', posted)
  BY <1>1, HandledIsFrom
<1>3. CASE write # "check" /\ status' = s /\ Unchanged /\ UNCHANGED copy
  BY <1>1, <1>3, HandlingKeeps DEF Unchanged
<1>4. CASE /\ write = "check" /\ status' = s
           /\ UseCopy(CacheFilePath(s, wanted))
  BY <1>1, <1>2, <1>4, UseCopyKeeps DEF threads
<1>5. CASE write = "check" /\ Download(wanted, s, TRUE)
  <2>1. wanted \in Images /\ (s.custom => s.name = "custom")
    BY <1>1, <1>5 DEF IInv, WriteFits, CacheName
  <2> QED BY <1>1, <1>2, <1>5, <2>1, DownloadKeeps DEF threads
<1> QED BY <1>1, <1>3, <1>4, <1>5 DEF Continue

(* A copy that has been made is recorded, and supersedes what was found.    *)
LEMMA UpdateCacheFileKeeps ==
  ASSUME IInv, Keeping, UpdateCacheFile PROVE Keeping'
<1> DEFINE made == Head(posted)
<1>1. /\ posted # <<>> /\ posted' = Tail(posted) /\ made.is = "update"
      /\ status' = [status EXCEPT !.hash = made.image, !.valid = TRUE,
                      !.fileHash = made.fileHash, !.complete = TRUE]
      /\ settings' = IF status.custom THEN settings
                       ELSE [hash |-> made.image, name |-> status.name,
                             fileHash |-> made.fileHash]
      /\ generation' = generation + 1
      /\ UNCHANGED <<requests, reading, copy>>
  BY DEF UpdateCacheFile, Receive, SupersedeVerification, threads, writing
<1>2. status \in Statuses /\ 1 \in DOMAIN posted /\ made = posted[1]
  BY <1>1, TailFacts DEF IInv, TypeOK
<1>3. /\ status'.hash = made.image /\ status'.fileHash = made.fileHash
      /\ status'.custom = status.custom /\ status'.name = status.name
      /\ CacheName' = CacheName
  BY <1>1, <1>2 DEF Statuses, CacheName
<1>4. UpdateComes /\ status.name = CacheName
  BY <1>1, <1>2 DEF UpdateComes, Keeping, CopyIsNamed
<1>5. CopyIsNamed'
  BY <1>3, <1>4 DEF CopyIsNamed
<1>6. RecordIsKnown'
  <2>1. CASE status.custom
    BY <1>1, <1>3, <2>1 DEF Keeping, RecordIsKnown, Recorded
  <2>2. CASE ~status.custom
    BY <1>1, <1>3, <1>4, <2>2 DEF RecordIsKnown, Recorded, CacheName
  <2> QED BY <2>1, <2>2
<1>7. AnswersFrom(posted', posted)
  BY <1>1, HandledIsFrom
<1>8. RecordedIsAsked' /\ RecordedIsRead' /\ BadIsBad'
  BY <1>1, <1>7, SupersededIsKept
<1> QED BY <1>5, <1>6, <1>8 DEF Keeping

(* A file that the worker finds bad is not as recorded. *)
LEMMA WorkerKeeps == ASSUME IInv, Keeping, Worker PROVE Keeping'
<1>1. /\ UNCHANGED <<files, settings, status, generation, copy>>
      /\ CacheName' = CacheName /\ (AsRecorded' <=> AsRecorded)
      /\ (Recorded' <=> Recorded)
  BY DEF Worker, CheckDiskSpace, VerifyCacheFile, VerificationEnds, WorkerVars,
         writing, CacheName, AsRecorded, Recorded, Whole
<1>2. /\ requests \in Seq(Requests) /\ posted \in Seq(Posts)
      /\ reading \in Reads \cup {NotQueued}
  BY DEF IInv, TypeOK
<1>3. ASSUME UpdateComes' <=> UpdateComes PROVE RecordIsKnown' /\ CopyIsNamed'
  BY <1>1, <1>3 DEF Keeping, RecordIsKnown, CopyIsNamed
<1>4. ASSUME NEW e \in Posts, posted' = Append(posted, e), e.is # "update"
      PROVE  /\ UpdateComes' <=> UpdateComes
             /\ \A k \in DOMAIN posted' :
                  \/ k \in DOMAIN posted /\ posted'[k] = posted[k]
                  \/ posted'[k] = e
  <2>1. /\ \A k \in DOMAIN posted' :
             \/ k \in DOMAIN posted /\ posted'[k] = posted[k]
             \/ posted'[k] = e
        /\ \A k \in DOMAIN posted :
             k \in DOMAIN posted' /\ posted'[k] = posted[k]
    BY <1>2, <1>4, AppendFacts
  <2> QED BY <1>4, <2>1 DEF UpdateComes
<1>5. ASSUME requests # <<>>, requests' = Tail(requests)
      PROVE  RecordedIsAsked' /\ Head(requests) = requests[1]
             /\ 1 \in DOMAIN requests /\ Head(requests) \in Requests
  <2>1. /\ 1 \in DOMAIN requests /\ Head(requests) = requests[1]
        /\ Head(requests) \in Requests
        /\ \A k \in DOMAIN requests' :
             k + 1 \in DOMAIN requests /\ requests'[k] = requests[k + 1]
    BY <1>2, <1>5, TailFacts
  <2> QED BY <1>1, <2>1 DEF Keeping, RecordedIsAsked, Current, Whole
<1>6. CASE CheckDiskSpace
  <2>1. /\ requests # <<>> /\ requests' = Tail(requests) /\ reading' = reading
        /\ \E enough \in BOOLEAN :
             posted' = Append(posted, [is |-> "space", enough |-> enough])
    BY <1>6 DEF CheckDiskSpace
  <2>2. PICK e \in Posts : posted' = Append(posted, e) /\ e.is = "space"
    BY <2>1 DEF Posts
  <2>3. /\ UpdateComes' <=> UpdateComes
        /\ AnswersFrom(posted', posted)
    BY <1>4, <2>2 DEF AnswersFrom
  <2>4. RecordIsKnown' /\ CopyIsNamed' /\ RecordedIsAsked'
    BY <1>3, <1>5, <2>1, <2>3
  <2>5. RecordedIsRead'
    BY <1>1, <2>1, <2>3 DEF Keeping, RecordedIsRead, Current, Bad, Whole
  <2>6. BadIsBad'
    BY <1>1, <2>3 DEF Keeping, BadIsBad, Current, Bad, AnswersFrom
  <2> QED BY <2>4, <2>5, <2>6 DEF Keeping
<1>7. CASE VerifyCacheFile
  <2> DEFINE r == Head(requests)
  <2>1. /\ requests # <<>> /\ requests' = Tail(requests) /\ posted' = posted
        /\ r.is = "verify"
        /\ reading' = [name |-> r.name, hash |-> r.hash,
                       generation |-> r.generation, content |-> files[r.name]]
    BY <1>7 DEF VerifyCacheFile
  <2>2. UpdateComes' <=> UpdateComes
    BY <2>1 DEF UpdateComes
  <2>3. RecordIsKnown' /\ CopyIsNamed' /\ RecordedIsAsked'
    BY <1>3, <1>5, <2>1, <2>2
  <2>4. ASSUME Recorded, r.generation = generation
        PROVE  r.name = "default" /\ r.hash = Whole(settings.hash)
    <3>1. r = requests[1] /\ 1 \in DOMAIN requests
      BY <1>5, <2>1
    <3> QED BY <2>1, <2>4, <3>1
            DEF IInv, RequestsFit, Fits, Current, Keeping, RecordedIsAsked,
                CacheName, Recorded
  <2>5. RecordedIsRead'
    BY <1>1, <2>1, <2>2, <2>4 DEF RecordedIsRead, Current, Bad, AsRecorded, Whole
  <2>6. BadIsBad'
    BY <1>1, <2>1, <2>2 DEF Keeping, BadIsBad, Current, Bad
  <2> QED BY <2>3, <2>5, <2>6 DEF Keeping
<1>8. CASE VerificationEnds
  <2>1. /\ reading # NotQueued /\ reading' = NotQueued
        /\ posted' = Append(posted, Result) /\ requests' = requests
    BY <1>8 DEF VerificationEnds, Answer
  <2>2. /\ Result \in Posts /\ Result.is = "verified"
        /\ Result.generation = reading.generation
        /\ Result.valid <=> reading.content = reading.hash
    BY <1>2, <2>1 DEF Result, Posts, Reads
  <2>3. /\ UpdateComes' <=> UpdateComes
        /\ \A k \in DOMAIN posted' :
             \/ k \in DOMAIN posted /\ posted'[k] = posted[k]
             \/ posted'[k] = Result
    BY <1>4, <2>1, <2>2
  <2>4. RecordIsKnown' /\ CopyIsNamed' /\ RecordedIsAsked' /\ RecordedIsRead'
    <3>1. RecordIsKnown' /\ CopyIsNamed'
      BY <1>3, <2>3
    <3> QED BY <3>1, <1>1, <2>1
            DEF Keeping, RecordedIsAsked, RecordedIsRead, Current, Whole
  <2>5. BadIsBad'
    <3>1. ASSUME Recorded, reading.generation = generation
          PROVE  Result.valid \/ Bad
      BY <2>1, <2>2, <3>1 DEF Keeping, RecordedIsRead, Current
    <3>2. Bad' <=> Bad
      BY <1>1, <2>3 DEF Bad
    <3> QED BY <1>1, <2>2, <2>3, <3>1, <3>2 DEF Keeping, BadIsBad, Current
  <2> QED BY <2>4, <2>5 DEF Keeping
<1> QED BY <1>6, <1>7, <1>8 DEF Worker

(* Only the end of a copy makes a whole file, and an update follows it.     *)
LEMMA WriteThreadKeeps == ASSUME IInv, Keeping, WriteThread PROVE Keeping'
<1>1. /\ UNCHANGED <<settings, status, generation, requests, reading>>
      /\ copy' = "none" /\ CacheName' = CacheName
      /\ posted \in Seq(Posts) /\ files \in [Files -> Contents \cup {None}]
      /\ "default" \in Files /\ (Recorded' => Recorded)
  BY DEF WriteThread, CopyEnds, ThreadEnds, ThreadVars, threads, CacheName,
         IInv, TypeOK, Files, Recorded
<1>2. RecordIsKnown'
  BY <1>1 DEF Keeping, RecordIsKnown, Recorded
<1>3. ASSUME NEW e \in Posts, posted' = Append(posted, e), e.is # "verified"
      PROVE  /\ AnswersFrom(posted', posted)
             /\ UpdateComes => UpdateComes'
             /\ e.is = "update" => UpdateComes'
             /\ e.is # "update" => (UpdateComes' => UpdateComes)
  <2>1. /\ \A k \in DOMAIN posted' :
             \/ k \in DOMAIN posted /\ posted'[k] = posted[k]
             \/ posted'[k] = e
        /\ \A k \in DOMAIN posted :
             k \in DOMAIN posted' /\ posted'[k] = posted[k]
        /\ Len(posted) + 1 \in DOMAIN posted' /\ posted'[Len(posted) + 1] = e
    BY <1>1, <1>3, AppendFacts
  <2> QED BY <1>3, <2>1 DEF AnswersFrom, UpdateComes
<1>4. CASE CopyEnds
  <2> DEFINE e == [is |-> "update", image |-> wanted, fileHash |-> Whole(wanted)]
  <2>1. write = "download" /\ copy # "none" /\ posted' = Append(posted, e)
    BY <1>4 DEF CopyEnds
  <2>2. wanted \in Images
    BY <2>1 DEF IInv, WriteFits
  <2>3. e \in Posts /\ e.is = "update"
    BY <2>2, WholeIsContent DEF Posts
  <2> HIDE DEF e
  <2>4. AnswersFrom(posted', posted) /\ UpdateComes'
    BY <1>3, <2>1, <2>3
  <2>5. CopyIsNamed'
    BY <1>1, <2>1 DEF Keeping, CopyIsNamed
  <2>6. RecordedIsAsked' /\ RecordedIsRead' /\ BadIsBad'
    BY <1>1, <2>4, SameIsKept DEF Bad
  <2> QED BY <1>2, <2>5, <2>6 DEF Keeping
<1>5. CASE ThreadEnds
  <2> DEFINE e == [is |-> "ended"]
  <2>1. posted' = Append(posted, e) /\ files' = Remove(copy)
    BY <1>5 DEF ThreadEnds
  <2>2. e \in Posts /\ e.is = "ended"
    BY DEF Posts
  <2> HIDE DEF e
  <2>3. AnswersFrom(posted', posted) /\ (UpdateComes' <=> UpdateComes)
    BY <1>3, <2>1, <2>2
  <2>4. CopyIsNamed'
    BY <1>1, <2>3 DEF Keeping, CopyIsNamed
  <2>5. ASSUME Recorded', Bad PROVE Bad'
    <3>1. files'["default"] \in {None, files["default"]}
      BY <1>1, <2>1 DEF Remove
    <3>2. settings.hash \in Images
      BY <1>1, <2>5 DEF IInv, TypeOK, Records, Recorded
    <3> QED BY <1>1, <2>3, <2>5, <3>1, <3>2, WholeIsContent
            DEF Bad, AsRecorded, Whole
  <2>6. RecordedIsAsked' /\ RecordedIsRead' /\ BadIsBad'
    BY <1>1, <2>3, <2>5, SameIsKept
  <2> QED BY <1>2, <2>4, <2>6 DEF Keeping
<1> QED BY <1>4, <1>5 DEF WriteThread

(* A file that is gone is not as recorded. *)
LEMMA VanishKeeps ==
  ASSUME IInv, Keeping, NEW name \in Files, Vanish(name) PROVE Keeping'
<1>1. /\ files' = [files EXCEPT ![name] = None]
      /\ UNCHANGED <<settings, status, generation, requests, reading, posted,
                     copy>>
      /\ files \in [Files -> Contents \cup {None}] /\ "default" \in Files
      /\ (UpdateComes' <=> UpdateComes) /\ (Recorded' <=> Recorded)
  BY DEF Vanish, memory, IInv, TypeOK, Files, UpdateComes, Recorded
<1>2. RecordIsKnown' /\ CopyIsNamed'
  BY <1>1 DEF Keeping, RecordIsKnown, CopyIsNamed, CacheName
<1>3. ASSUME Recorded', Bad PROVE Bad'
  <2>1. files'["default"] \in {None, files["default"]}
    BY <1>1
  <2>2. settings.hash \in Images
    BY <1>1, <1>3 DEF IInv, TypeOK, Records, Recorded
  <2> QED BY <1>1, <1>3, <2>1, <2>2, WholeIsContent DEF Bad, AsRecorded, Whole
<1>4. RecordedIsAsked' /\ RecordedIsRead' /\ BadIsBad'
  BY <1>1, <1>3, SameIsKept DEF AnswersFrom
<1> QED BY <1>2, <1>4 DEF Keeping

(* What is asked of the worker first is what was recorded by the last run.  *)
LEMMA RestartKeeps == ASSUME IInv, Keeping, Restart PROVE Keeping'
<1>1. reading' = NotQueued /\ posted' = <<>> /\ copy' = "none"
  BY DEF Restart
<1>2. CopyIsNamed' /\ RecordedIsRead' /\ BadIsBad'
  BY <1>1 DEF CopyIsNamed, UpdateComes, RecordedIsRead, BadIsBad
<1>3. CASE settings.hash # NoImage /\ Exists(settings.name)
  <2> DEFINE hash == IF settings.fileHash = None THEN Raw(settings.hash)
                                                 ELSE settings.fileHash
             r == [is |-> "verify", name |-> settings.name, hash |-> hash,
                   generation |-> 1]
  <2>1. /\ status' = [NoStatus EXCEPT !.name = settings.name,
                        !.hash = settings.hash, !.fileHash = settings.fileHash]
        /\ settings' = settings /\ requests' = <<[is |-> "space"], r>>
    BY <1>3 DEF Restart
  <2>2. status'.hash = settings.hash /\ status'.fileHash = settings.fileHash
    BY <2>1 DEF NoStatus
  <2>3. RecordIsKnown'
    BY <2>1, <2>2 DEF Keeping, RecordIsKnown
  <2>4. hash = Whole(settings.hash)
    <3>1. settings.hash \in Images /\ settings.fileHash = Whole(settings.hash)
      BY <1>3 DEF IInv, TypeOK, Records, RecordFits
    <3> QED BY <3>1, WholeIsContent
  <2>5. RecordedIsAsked'
    <3>1. r.hash = Whole(settings'.hash)
      BY <2>1, <2>4
    <3> HIDE DEF r
    <3>2. \A k \in DOMAIN requests' : requests'[k].is = "verify" =>
            requests'[k] = r
      BY <2>1
    <3> QED BY <3>1, <3>2 DEF RecordedIsAsked, Whole
  <2> QED BY <1>2, <2>3, <2>5 DEF Keeping
<1>4. CASE ~(settings.hash # NoImage /\ Exists(settings.name))
  <2>1. /\ requests' = <<[is |-> "space"]>>
        /\ settings' = IF settings.name = "none" THEN settings ELSE NoRecord
    BY <1>4 DEF Restart
  <2>2. settings'.hash = NoImage
    BY <2>1 DEF Keeping, RecordIsKnown, NoRecord
  <2>3. RecordIsKnown' /\ RecordedIsAsked'
    BY <2>1, <2>2 DEF RecordIsKnown, RecordedIsAsked, Recorded
  <2> QED BY <1>2, <2>3 DEF Keeping
<1> QED BY <1>3, <1>4

(* The invariant is about the variables alone. *)
LEMMA StutterKeeps == ASSUME IInv, Keeping, UNCHANGED vars PROVE Keeping'
<1>1. UNCHANGED <<files, settings, status, generation, requests, reading,
                  posted, copy>>
  BY DEF vars, memory
<1>2. RecordIsKnown' /\ CopyIsNamed' /\ (Recorded' => Recorded)
  BY <1>1 DEF Keeping, RecordIsKnown, CopyIsNamed, Recorded, UpdateComes,
              CacheName
<1>3. Bad => Bad'
  BY <1>1 DEF Bad, AsRecorded, UpdateComes, Whole
<1>4. RecordedIsAsked' /\ RecordedIsRead' /\ BadIsBad'
  BY <1>1, <1>2, <1>3, SameIsKept DEF AnswersFrom
<1> QED BY <1>2, <1>4 DEF Keeping

(* Each step keeps the second invariant. *)
LEMMA NextKeeps == IInv /\ Keeping /\ [Next]_vars => Keeping'
<1> SUFFICES ASSUME IInv, Keeping, [Next]_vars PROVE Keeping'
  OBVIOUS
<1>1. CASE MainThread
  BY <1>1, AnswersKeep, OnVerificationCompleteKeeps, UpdateCacheFileKeeps
  DEF MainThread
<1>2. CASE Worker
  BY <1>2, WorkerKeeps
<1>3. CASE User
  BY <1>3, SetCustomCacheFileKeeps, StartWriteKeeps, SkipCacheVerificationKeeps
  DEF User
<1>4. CASE WriteThread
  BY <1>4, WriteThreadKeeps
<1>5. CASE Outside
  BY <1>5, RestartKeeps, VanishKeeps DEF Outside
<1>6. CASE Rest
  BY <1>6, StutterKeeps DEF Rest
<1>7. CASE UNCHANGED vars
  BY <1>7, StutterKeeps
<1> QED BY <1>1, <1>2, <1>3, <1>4, <1>5, <1>6, <1>7 DEF Next

(* The answer of a verification leaves a good copy of our own alone: what   *)
(* it calls bad it has read when it was not what is recorded.               *)
LEMMA AnswerKeepsGoodCopy ==
  ASSUME IInv, Keeping, OnVerificationComplete, settings.hash # NoImage,
         files["default"] = Whole(settings.hash)
  PROVE  files'["default"] = files["default"]
<1> DEFINE s == [status EXCEPT !.valid = Head(posted).valid,
                               !.complete = TRUE, !.name = Head(posted).name]
<1>1. /\ Continue(s) /\ 1 \in DOMAIN posted
      /\ posted[1].is = "verified" /\ Current(posted[1])
      /\ s \in Statuses /\ s.name = CacheName /\ s.valid = posted[1].valid
      /\ s.custom = status.custom
  BY AnswerFacts
<1> HIDE DEF s
<1>2. ASSUME write = "check", ~s.valid PROVE status.custom
  <2>1. ~UpdateComes
    BY <1>2 DEF IInv, UpdatesFit, UpdateComes
  <2>2. ~Bad
    BY <2>1 DEF Bad, AsRecorded
  <2> QED BY <1>1, <1>2, <2>2 DEF Keeping, BadIsBad, Recorded
<1>3. CASE write = "check" /\ ~s.valid /\ Download(wanted, s, TRUE)
  <2>1. /\ s.custom /\ s.name = "custom" /\ wanted \in Images
        /\ files \in [Files -> Contents \cup {None}]
    BY <1>1, <1>2, <1>3 DEF IInv, TypeOK, WriteFits, CacheName
  <2>2. SetUpCache(wanted, Invalidated(s), Remove("custom"))
    BY <1>3, <2>1 DEF Download
  <2> DEFINE t == Invalidated(s)
  <2>3. t \in Statuses /\ "custom" = IF t.custom THEN t.name ELSE "default"
    BY <1>1, <2>1, InvalidatedFacts
  <2>4. /\ Remove("custom") \in [Files -> Contents \cup {None}]
        /\ Remove("custom")["default"] = files["default"]
        /\ "custom" \in Files
    BY <2>1 DEF Remove, Files
  <2> HIDE DEF t
  <2>5. SetUpCache(wanted, t, Remove("custom"))
    BY <2>2 DEF t
  <2> QED BY <2>1, <2>3, <2>4, <2>5, SetUpNames
<1>4. CASE ~(write = "check" /\ ~s.valid)
  BY <1>1, <1>4 DEF Continue, UseCopy, Unchanged
<1> QED BY <1>1, <1>3, <1>4 DEF Continue

-----------------------------------------------------------------------------
(* The results. *)

(* The invariant holds after every step. *)
LEMMA CacheInvariant == Spec => []IInv
<1>1. Init => IInv
  BY InitFits
<1> QED BY <1>1, NextFits, PTL DEF Spec

(* The state of the cache and of the threads that share it is well formed   *)
(* after every step, and no write waits for a check that has been answered  *)
(* (the early return of startVerification for a file that is queued).       *)
THEOREM CacheTypeOK == Spec => []TypeOK
<1>1. IInv => TypeOK
  BY DEF IInv
<1> QED BY <1>1, CacheInvariant, PTL

(* What a write takes from the cache is the image that was asked for,       *)
(* packed or not, however verifications, downloads, deleted files, crashes  *)
(* and answers that come late interleave.                                   *)
THEOREM CacheSourceIsWhole == Spec => []SourceIsWhole
<1>1. IInv => SourceIsWhole
  BY DEF IInv
<1> QED BY <1>1, CacheInvariant, PTL

(* A whole copy of our own is never taken for a bad one: no answer, however *)
(* late, of whatever run or file, makes it go ("a cached .xz is looked up   *)
(* by the archive hash but has to be verified against the image hash once   *)
(* expanded").                                                              *)
THEOREM CacheGoodCopyIsKept == Spec => GoodCopyIsKept
<1>1. Init => IInv /\ Keeping
  BY InitFits, InitKeeps
<1>2. (IInv /\ Keeping) /\ [Next]_vars => (IInv /\ Keeping)'
  BY NextFits, NextKeeps
<1>3. IInv /\ Keeping =>
        (OnVerificationComplete /\ settings.hash # NoImage
           /\ files["default"] = Whole(settings.hash)
         => files'["default"] = files["default"])
  BY AnswerKeepsGoodCopy
<1> QED BY <1>1, <1>2, <1>3, PTL DEF Spec, GoodCopyIsKept
=============================================================================
