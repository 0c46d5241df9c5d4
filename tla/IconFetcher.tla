----------------------------- MODULE IconFetcher -----------------------------
(***************************************************************************)
(* IconMultiFetcher: fetches the icons of the OS list.                      *)
(*                                                                         *)
(* Any thread may queue a request, cancel one or clear the cache, under     *)
(* _mutex.  One thread of its own goes round a loop: it takes the requests, *)
(* joins each to the transfer of its URL or starts one, and answers what    *)
(* curl has ended.  It lets the mutex go whenever it answers or makes a     *)
(* handle.  An answer is a signal posted to IconResponseRegistry, which     *)
(* hands it to the response, if there still is one.                         *)
(*                                                                         *)
(* An icon is known by its size; a URL has one icon.                        *)
(***************************************************************************)
EXTENDS Naturals, SequencesExt

CONSTANTS
  Urls, NoUrl,
  Unsupported,                      \* the URLs of a scheme not spoken
  MaxPendingRequests, MaxCacheBytes, MaxCacheEntries,
  MaxSize,                          \* bound: the largest icon
  MaxRequests                       \* bound: the requests made

(* curl takes nothing larger than 10 MB, and the cache has 32.              *)
ASSUME IconAssumption ==
  /\ NoUrl \notin Urls /\ Unsupported \subseteq Urls
  /\ {MaxPendingRequests, MaxCacheEntries} \subseteq Nat \ {0}
  /\ MaxCacheBytes \in Nat /\ MaxSize \in 0 .. MaxCacheBytes
  /\ MaxRequests \in Nat

Requests == 1 .. MaxRequests   \* IconResponseRegistry numbers them

VARIABLES
  url,        \* of each request; NoUrl before it is queued
  \* under the mutex
  pending,    \* _pendingRequests
  cancelled,  \* _cancelledResponses
  cache, cacheOrder, cacheBytes,
  \* the loop
  locked,     \* it holds the mutex
  round,      \* where it is in a round
  stillPending,
  waiting,    \* whom the transfer of a URL is for; nobody if there is none
  \* the responses
  answers,    \* history: what has been posted for each request
  response    \* what has come of it

shared == <<pending, cancelled>>
store == <<cache, cacheOrder, cacheBytes>>
loop == <<locked, round, stillPending, waiting>>
vars == <<url, shared, store, loop, answers, response>>

NotCached == [size |-> 0, error |-> FALSE, held |-> FALSE]
Results == [size : {0}, error : {TRUE}] \cup [size : 0 .. MaxSize, error : {FALSE}]
Entry(result) == [size |-> result.size, error |-> result.error, held |-> TRUE]

Cached == {u \in Urls : cache[u].held}
InFlight == {u \in Urls : waiting[u] # {}}

Elements(seq) == {seq[i] : i \in 1 .. Len(seq)}
Once(seq) == \A i, j \in 1 .. Len(seq) : seq[i] = seq[j] => i = j
Waiting == UNION {waiting[u] : u \in Urls}
Answered == {r \in Requests : answers[r] # <<>>}

Size(u) == cache[u].size
Bytes(urls) == MapThenSumSet(Size, urls)

(* The variables have their types, and what the cache keeps apart agrees:   *)
(* the entries, the order of their use and the count of their bytes.        *)
TypeOK ==
  /\ url \in [Requests -> Urls \cup {NoUrl}]
  /\ pending \in Seq(Requests) /\ Len(pending) <= MaxPendingRequests
  /\ cancelled \subseteq Requests
  /\ cache \in [Urls -> [size : 0 .. MaxSize, error : BOOLEAN, held : BOOLEAN]]
  /\ cacheOrder \in Seq(Urls) /\ cacheBytes \in 0 .. MaxCacheBytes
  /\ locked \in BOOLEAN
  /\ round \in {"drain", "start", "transfers", "exited"}
  /\ stillPending \in Seq(Requests)
  /\ waiting \in [Urls -> SUBSET Requests]
  /\ answers \in [Requests -> Seq({"fetched", "failed", "cancelled"})]
  /\ response \in [Requests -> {"none", "waiting", "over"}]
  /\ Elements(cacheOrder) = Cached /\ Once(cacheOrder)
  /\ cacheBytes = Bytes(Cached)
  \* the loop waits for its transfers without the mutex
  /\ round \in {"transfers", "exited"} => ~locked

Init ==
  /\ url = [r \in Requests |-> NoUrl]
  /\ pending = <<>> /\ cancelled = {}
  /\ cache = [u \in Urls |-> NotCached] /\ cacheOrder = <<>> /\ cacheBytes = 0
  /\ locked = FALSE /\ round = "transfers" /\ stillPending = <<>>
  /\ waiting = [u \in Urls |-> {}]
  /\ answers = [r \in Requests |-> <<>>]
  /\ response = [r \in Requests |-> "none"]

Answer(r, what) == answers' = [answers EXCEPT ![r] = Append(@, what)]

AnswerAll(whom, what) ==
  answers' = [r \in Requests |->
                IF r \in whom THEN Append(answers[r], what) ELSE answers[r]]

-----------------------------------------------------------------------------
(* The cache. *)

Without(u) == RemoveFirst(cacheOrder, u)
Oldest(n) == Elements(SubSeq(cacheOrder, 1, n))

(* How many of the oldest entries go before one of this size is added.      *)
Evicted(size) ==
  Min({n \in 0 .. Len(cacheOrder) :
         \/ n = Len(cacheOrder)
         \/ /\ cacheBytes + size <= MaxCacheBytes + Bytes(Oldest(n))
            /\ Len(cacheOrder) - n <= MaxCacheEntries})

(* A URL that is already there keeps its data, and takes the error.         *)
AddToCache(u, result) ==
  IF u \in Cached
    THEN /\ cache' = [cache EXCEPT ![u].error = @ \/ result.error]
         /\ UNCHANGED <<cacheOrder, cacheBytes>>
    ELSE LET n == Evicted(result.size) IN
         /\ cache' = [v \in Urls |->
                        IF v = u THEN Entry(result)
                        ELSE IF v \in Oldest(n) THEN NotCached ELSE cache[v]]
         /\ cacheOrder' = Append(SubSeq(cacheOrder, n + 1, Len(cacheOrder)), u)
         /\ cacheBytes' = cacheBytes + result.size - Bytes(Oldest(n))

-----------------------------------------------------------------------------
(* The threads that use the fetcher. *)

Full == Len(pending) >= MaxPendingRequests

(* The queue's limit comes before the cache.                                *)
QueueFetch(r, u) ==
  /\ ~locked
  /\ url[r] = NoUrl /\ \A q \in 1 .. r - 1 : url[q] # NoUrl
  /\ url' = [url EXCEPT ![r] = u]
  /\ response' = [response EXCEPT ![r] = "waiting"]
  /\ \/ /\ Full
        /\ Answer(r, "failed")
        /\ UNCHANGED <<pending, cacheOrder>>
     \/ /\ ~Full /\ u \in Cached
        /\ cacheOrder' = Append(Without(u), u)
        /\ Answer(r, IF cache[u].error THEN "failed" ELSE "fetched")
        /\ UNCHANGED pending
     \/ /\ ~Full /\ u \notin Cached
        /\ pending' = Append(pending, r)
        /\ UNCHANGED <<cacheOrder, answers>>
  /\ UNCHANGED <<cancelled, cache, cacheBytes, loop>>

(* A response may be cancelled until it has heard, answered or not.         *)
CancelFetch(r) ==
  /\ ~locked /\ response[r] = "waiting"
  /\ cancelled' = cancelled \cup {r}
  /\ UNCHANGED <<url, pending, store, loop, answers, response>>

(* Seeded fault: the count of the bytes is not reset. *)
ClearEntries ==
  /\ ~locked
  /\ cache' = [u \in Urls |-> NotCached] /\ cacheOrder' = <<>>
  /\ UNCHANGED <<cacheBytes, url, shared, loop, answers, response>>

ClearCache ==
  /\ ~locked
  /\ cache' = [u \in Urls |-> NotCached] /\ cacheOrder' = <<>> /\ cacheBytes' = 0
  /\ UNCHANGED <<url, shared, loop, answers, response>>

(* IconResponseRegistry::deliver, and onFetchComplete (which looks the data *)
(* up in the cache: what it finds there by now is left out).                *)
Deliver(r) ==
  /\ response[r] = "waiting" /\ answers[r] # <<>>
  /\ response' = [response EXCEPT ![r] = "over"]
  /\ UNCHANGED <<url, shared, store, loop, answers>>

(* A response is deleted before it has heard; what comes for it is dropped. *)
Destroy(r) ==
  /\ response[r] = "waiting"
  /\ response' = [response EXCEPT ![r] = "over"]
  /\ UNCHANGED <<url, shared, store, loop, answers>>

-----------------------------------------------------------------------------
(* The loop.  A step that begins without the mutex takes it; those that     *)
(* follow hold it until one lets it go.                                     *)

BeginRound ==
  /\ round = "transfers"
  /\ round' = "drain" /\ locked' = TRUE
  /\ UNCHANGED <<url, shared, store, stillPending, waiting, answers,
                 response>>

(* The loop has seen _shutdown: what is in flight is dropped.               *)
Exit ==
  /\ round = "transfers"
  /\ round' = "exited" /\ waiting' = [u \in Urls |-> {}]
  /\ UNCHANGED <<url, shared, store, locked, stillPending, answers,
                 response>>

(* The requests that are cancelled are answered, the others set aside.      *)
Drain ==
  /\ round = "drain" /\ pending # <<>>
  /\ pending' = Tail(pending)
  /\ LET r == Head(pending) IN
       IF r \in cancelled
         THEN /\ cancelled' = cancelled \ {r} /\ Answer(r, "cancelled")
              /\ locked' = FALSE /\ UNCHANGED stillPending
         ELSE /\ stillPending' = Append(stillPending, r)
              /\ locked' = TRUE /\ UNCHANGED <<cancelled, answers>>
  /\ UNCHANGED <<url, store, round, waiting, response>>

DrainEnds ==
  /\ round = "drain" /\ pending = <<>>
  /\ round' = "start" /\ locked' = TRUE
  /\ UNCHANGED <<url, shared, store, stillPending, waiting,
                 answers, response>>

(* Seeded fault: the transfer forgets who waited for it. *)
TakeOver(u, r) == waiting' = [waiting EXCEPT ![u] = {r}]

Join(u, r) == waiting' = [waiting EXCEPT ![u] = @ \cup {r}]

(* Seeded fault: a request without a handle is dropped in silence. *)
DropRequest(r) == UNCHANGED answers

RefuseRequest(r) == Answer(r, "failed")

(* A request set aside joins the transfer of its URL; or starts one, which  *)
(* the scheme or curl may refuse.                                           *)
StartFetch ==
  /\ round = "start" /\ stillPending # <<>>
  /\ stillPending' = Tail(stillPending)
  /\ LET r == Head(stillPending)  u == url[r] IN
       \/ /\ u \in InFlight
          /\ Join(u, r)
          /\ locked' = TRUE /\ UNCHANGED answers
       \/ /\ u \notin InFlight \cup Unsupported
          /\ waiting' = [waiting EXCEPT ![u] = {r}]
          /\ locked' = FALSE /\ UNCHANGED answers
       \/ /\ u \notin InFlight
          /\ RefuseRequest(r)
          /\ locked' = FALSE /\ UNCHANGED waiting
  /\ UNCHANGED <<url, shared, store, round, response>>

(* Seeded fault: a cancel takes the whole transfer. *)
TransferAndAll == UNION {waiting[u] : u \in {v \in Urls : waiting[v] \cap cancelled # {}}}

CancelledWaiters == Waiting \cap cancelled

(* The other cancels are taken, all of them, and the transfers left with    *)
(* nobody are dropped.                                                      *)
TakeCancels ==
  /\ round = "start" /\ stillPending = <<>>
  /\ cancelled' = {} /\ locked' = FALSE
  /\ AnswerAll(CancelledWaiters, "cancelled")
  /\ waiting' = [u \in Urls |-> waiting[u] \ CancelledWaiters]
  /\ round' = "transfers"
  /\ UNCHANGED <<url, pending, store, stillPending, response>>

(* curl has ended a transfer: its result is kept, and everybody answered.   *)
TransferDone(u, result) ==
  /\ round = "transfers" /\ u \in InFlight
  /\ AddToCache(u, result)
  /\ AnswerAll(waiting[u], IF result.error THEN "failed" ELSE "fetched")
  /\ waiting' = [waiting EXCEPT ![u] = {}]
  /\ UNCHANGED <<url, shared, locked, round, stillPending, response>>

-----------------------------------------------------------------------------
EventLoop ==
  BeginRound \/ Drain \/ DrainEnds \/ StartFetch \/ TakeCancels

(* The fetcher is shut down when the program ends.                          *)
Callers ==
  /\ round # "exited"
  /\ \/ \E r \in Requests, u \in Urls : QueueFetch(r, u)
     \/ \E r \in Requests : CancelFetch(r) \/ Destroy(r)
     \/ ClearCache

SomeTransferDone == \E u \in Urls, result \in Results : TransferDone(u, result)
SomeDelivered == \E r \in Requests : Deliver(r)

Next ==
  \/ Callers \/ EventLoop \/ Exit
  \/ SomeTransferDone \/ SomeDelivered

Spec == Init /\ [][Next]_vars

(* The loop goes on: what it waits for has a timeout.  Transfers end, after *)
(* a minute at the latest (CURLOPT_TIMEOUT), and Qt delivers signals.       *)
FairSpec ==
  /\ Spec /\ WF_vars(EventLoop)
  /\ SF_vars(SomeTransferDone) /\ WF_vars(SomeDelivered)

-----------------------------------------------------------------------------
(* Every hand-over between the threads keeps a request in one place, so     *)
(* that none is answered twice, and none forgotten before the loop ends     *)
(* ("Without this the request was dropped in silence, and                   *)
(* QQuickImageResponse::finished never fired", iconmultifetcher.cpp:275).   *)
Places == <<Elements(pending), Elements(stillPending), Waiting, Answered>>

InOnePlace ==
  /\ \A p, q \in 1 .. 4 : p # q => Places[p] \cap Places[q] = {}
  /\ Once(pending) /\ Once(stillPending)
  /\ \A u, v \in Urls : u # v => waiting[u] \cap waiting[v] = {}
  /\ \A r \in Requests : Len(answers[r]) <= 1
  /\ \A r \in Requests :
       url[r] # NoUrl /\ round # "exited" => \E p \in 1 .. 4 : r \in Places[p]

(* Nobody is told "Cancelled" who did not ask: to cancel one of several     *)
(* requests for an icon leaves the others waiting (the test "Cancelling one *)
(* request for an icon leaves the others waiting").                         *)
OnlyCancelledAreTold ==
  [][\A r \in Requests :
       answers'[r] # answers[r] /\ answers'[r][Len(answers'[r])] = "cancelled"
         => r \in cancelled]_vars

(* Every response hears of its icon, unless the program ends: the requests  *)
(* being bounded, there comes a time when nobody waits.                     *)
EveryRequestIsAnswered ==
  (\E r \in Requests : response[r] = "waiting") ~>
    (\A r \in Requests : response[r] # "waiting") \/ round = "exited"
=============================================================================
