-------------------------- MODULE IconFetcherProofs --------------------------
(***************************************************************************)
(* Every request for an icon is in one place: queued, set aside, waiting    *)
(* for a transfer, or answered, and answered once; and the cache keeps its  *)
(* books: its entries, their order and the count of their bytes agree.      *)
(***************************************************************************)
EXTENDS IconFetcher, FiniteSetTheorems, WellFoundedInduction, TLAPS

-----------------------------------------------------------------------------
(* What Append and Tail do to the elements of a sequence. *)

(* Appending adds one element. *)
LEMMA ElementsAppend ==
  ASSUME NEW S, NEW s \in Seq(S), NEW x \in S
  PROVE  Elements(Append(s, x)) = Elements(s) \cup {x}
<1>1. Len(Append(s, x)) = Len(s) + 1 /\ Append(s, x)[Len(s) + 1] = x
        /\ \A i \in 1 .. Len(s) : Append(s, x)[i] = s[i]
  OBVIOUS
<1>2. 1 .. (Len(s) + 1) = (1 .. Len(s)) \cup {Len(s) + 1}
  OBVIOUS
<1> QED
  BY <1>1, <1>2 DEF Elements

(* A new element keeps a sequence without repetition. *)
LEMMA OnceAppend ==
  ASSUME NEW S, NEW s \in Seq(S), NEW x \in S, Once(s), x \notin Elements(s)
  PROVE  Once(Append(s, x))
BY DEF Once, Elements

(* Taking the first element takes it away for good. *)
LEMMA TailOnce ==
  ASSUME NEW S, NEW s \in Seq(S), s # <<>>, Once(s)
  PROVE  /\ Tail(s) \in Seq(S) /\ Head(s) \in S /\ Head(s) \in Elements(s)
         /\ Once(Tail(s))
         /\ Elements(Tail(s)) = Elements(s) \ {Head(s)}
<1>1. /\ Tail(s) \in Seq(S) /\ Head(s) \in S /\ Head(s) = s[1] /\ Len(s) >= 1
      /\ Len(Tail(s)) = Len(s) - 1
      /\ \A i \in 1 .. Len(s) - 1 : Tail(s)[i] = s[i + 1]
  OBVIOUS
<1>2. Head(s) \in Elements(s)
  BY <1>1 DEF Elements
<1>3. Once(Tail(s))
  BY <1>1 DEF Once
<1>4. ASSUME NEW x \in Elements(Tail(s))
      PROVE  x \in Elements(s) \ {Head(s)}
  <2>1. PICK i \in 1 .. Len(s) - 1 : x = s[i + 1]
    BY <1>1 DEF Elements
  <2>2. i + 1 \in 1 .. Len(s) /\ i + 1 # 1
    BY <1>1
  <2> QED
    BY <1>1, <2>1, <2>2 DEF Elements, Once
<1>5. ASSUME NEW x \in Elements(s) \ {Head(s)}
      PROVE  x \in Elements(Tail(s))
  <2>1. PICK i \in 1 .. Len(s) : x = s[i] /\ i # 1
    BY <1>1 DEF Elements
  <2>2. i - 1 \in 1 .. Len(s) - 1 /\ Tail(s)[i - 1] = x
    BY <1>1, <2>1
  <2> QED
    BY <1>1, <2>2 DEF Elements
<1> QED
  BY <1>1, <1>2, <1>3, <1>4, <1>5

-----------------------------------------------------------------------------
(* The inductive invariant. *)

Kinds == {"fetched", "failed", "cancelled"}

RequestsTyped ==
  /\ url \in [Requests -> Urls \cup {NoUrl}]
  /\ pending \in Seq(Requests) /\ stillPending \in Seq(Requests)
  /\ waiting \in [Urls -> SUBSET Requests]
  /\ answers \in [Requests -> Seq(Kinds)]

Apart ==
  /\ Elements(pending) \cap Elements(stillPending) = {}
  /\ Elements(pending) \cap Waiting = {}
  /\ Elements(pending) \cap Answered = {}
  /\ Elements(stillPending) \cap Waiting = {}
  /\ Elements(stillPending) \cap Answered = {}
  /\ Waiting \cap Answered = {}

Somewhere == Elements(pending) \cup Elements(stillPending) \cup Waiting \cup Answered

OneTransfer == \A u, v \in Urls : u # v => waiting[u] \cap waiting[v] = {}
OneAnswer == \A r \in Requests : Len(answers[r]) <= 1
NoneLost == round # "exited" => \A r \in Requests : url[r] # NoUrl => r \in Somewhere
NoneInvented == \A r \in Requests : url[r] = NoUrl => r \notin Somewhere

IInv ==
  /\ RequestsTyped /\ Apart /\ OneTransfer /\ OneAnswer
  /\ Once(pending) /\ Once(stillPending)
  /\ NoneLost /\ NoneInvented

(* The invariant is the property that is checked, place by place. *)
LEMMA InvIsProperty == IInv => InOnePlace
<1> SUFFICES ASSUME IInv PROVE InOnePlace
  OBVIOUS
<1>1. /\ Places[1] = Elements(pending) /\ Places[2] = Elements(stillPending)
      /\ Places[3] = Waiting /\ Places[4] = Answered
  BY DEF Places
<1>2. ASSUME NEW p \in 1 .. 4, NEW q \in 1 .. 4, p # q
      PROVE  Places[p] \cap Places[q] = {}
  <2>1. p \in {1, 2, 3, 4} /\ q \in {1, 2, 3, 4}
    OBVIOUS
  <2> QED
    BY <1>1, <1>2, <2>1 DEF IInv, Apart
<1>3. ASSUME NEW r \in Requests, url[r] # NoUrl, round # "exited"
      PROVE  \E p \in 1 .. 4 : r \in Places[p]
  <2>1. r \in Elements(pending) \/ r \in Elements(stillPending)
          \/ r \in Waiting \/ r \in Answered
    BY <1>3 DEF IInv, NoneLost, Somewhere
  <2> QED
    BY <1>1, <2>1
<1> QED
  BY <1>2, <1>3 DEF IInv, InOnePlace, OneTransfer, OneAnswer

(* At first no request has been made. *)
LEMMA InitInv == Init => IInv
<1> SUFFICES ASSUME Init PROVE IInv
  OBVIOUS
<1>1. Elements(pending) = {} /\ Elements(stillPending) = {}
  BY DEF Init, Elements
<1>2. Waiting = {} /\ Answered = {}
  BY DEF Init, Waiting, Answered
<1>3. RequestsTyped /\ OneTransfer /\ OneAnswer /\ Once(pending)
                    /\ Once(stillPending)
  BY DEF Init, RequestsTyped, OneTransfer, OneAnswer, Once
<1> QED
  BY <1>1, <1>2, <1>3 DEF IInv, Apart, NoneLost, NoneInvented, Somewhere, Init

(* To answer requests that have no answer gives each of them one. *)
LEMMA AnswerAllOnce ==
  ASSUME IInv, NEW whom \in SUBSET Requests, NEW what \in Kinds,
         whom \cap Answered = {}, AnswerAll(whom, what)
  PROVE  /\ answers' \in [Requests -> Seq(Kinds)] /\ OneAnswer'
         /\ Answered' = Answered \cup whom
<1>1. \A r \in whom : answers[r] = <<>>
  BY DEF Answered
<1>2. ASSUME NEW r \in Requests
      PROVE  answers'[r] = IF r \in whom THEN <<what>> ELSE answers[r]
  <2>1. answers'[r] = IF r \in whom THEN Append(answers[r], what) ELSE answers[r]
    BY DEF AnswerAll
  <2>2. Append(<<>>, what) = <<what>>
    OBVIOUS
  <2> QED
    BY <1>1, <2>1, <2>2
<1>3. answers' \in [Requests -> Seq(Kinds)]
  <2>1. <<what>> \in Seq(Kinds)
    OBVIOUS
  <2>2. \A r \in Requests : answers'[r] \in Seq(Kinds)
    BY <1>2, <2>1 DEF IInv, RequestsTyped
  <2> QED
    BY <2>2 DEF AnswerAll
<1>4. OneAnswer'
  <2>1. Len(<<what>>) = 1
    OBVIOUS
  <2>2. ASSUME NEW r \in Requests PROVE Len(answers'[r]) <= 1
    <3>1. CASE r \in whom
      <4>1. answers'[r] = <<what>>
        BY <1>2, <3>1
      <4> QED
        BY <4>1, <2>1
    <3>2. CASE r \notin whom
      <4>1. answers'[r] = answers[r]
        BY <1>2, <3>2
      <4> QED
        BY <4>1 DEF OneAnswer, IInv
    <3> QED
      BY <3>1, <3>2
  <2> QED
    BY <2>2 DEF OneAnswer
<1>5. \A r \in Requests : answers'[r] # <<>> <=> answers[r] # <<>> \/ r \in whom
  BY <1>2
<1> QED
  BY <1>3, <1>4, <1>5 DEF Answered

(* The same for one of them. *)
LEMMA AnswerOnce ==
  ASSUME IInv, NEW r \in Requests, NEW what \in Kinds,
         r \notin Answered, Answer(r, what)
  PROVE  /\ answers' \in [Requests -> Seq(Kinds)] /\ OneAnswer'
         /\ Answered' = Answered \cup {r}
<1>1. \A q \in Requests :
        answers'[q] = IF q \in {r} THEN Append(answers[q], what) ELSE answers[q]
  BY DEF Answer, IInv, RequestsTyped
<1>2. answers' = [q \in Requests |-> IF q \in {r} THEN Append(answers[q], what)
                                                  ELSE answers[q]]
  BY <1>1 DEF Answer, IInv, RequestsTyped
<1>3. AnswerAll({r}, what)
  BY <1>2 DEF AnswerAll
<1> QED
  BY <1>3, AnswerAllOnce
-----------------------------------------------------------------------------
(* A step that leaves the requests where they are keeps the invariant. *)
LEMMA RequestsStay ==
  ASSUME IInv, UNCHANGED <<url, pending, stillPending, waiting, answers>>,
         round = "exited" => round' = "exited"
  PROVE  IInv'
<1>1. /\ Elements(pending)' = Elements(pending) /\ Waiting' = Waiting
      /\ Elements(stillPending)' = Elements(stillPending)
      /\ Answered' = Answered
  BY DEF Elements, Waiting, Answered
<1>2. RequestsTyped' /\ OneTransfer' /\ OneAnswer' /\ Once(pending)'
                     /\ Once(stillPending)'
  BY DEF IInv, RequestsTyped, OneTransfer, OneAnswer, Once
<1>3. Apart' /\ Somewhere' = Somewhere
  BY <1>1 DEF IInv, Apart, Somewhere
<1>4. NoneLost' /\ NoneInvented'
  BY <1>3 DEF IInv, NoneLost, NoneInvented
<1> QED
  BY <1>2, <1>3, <1>4 DEF IInv

(* A new request is answered at once, or is the last of those pending. *)
LEMMA QueueFetchKeeps ==
  ASSUME IInv, NEW r \in Requests, NEW u \in Urls, NoUrl \notin Urls, QueueFetch(r, u)
  PROVE  IInv'
<1>1. r \notin Somewhere
  BY DEF QueueFetch, IInv, NoneInvented
<1>2. /\ url' = [url EXCEPT ![r] = u] /\ u # NoUrl
      /\ UNCHANGED <<stillPending, waiting, round>>
  BY DEF QueueFetch, loop
<1>3. /\ Elements(stillPending)' = Elements(stillPending) /\ Waiting' = Waiting
      /\ OneTransfer' /\ Once(stillPending)'
  BY <1>2 DEF IInv, OneTransfer, Waiting, Elements, Once
<1>4. CASE pending' = pending /\ \E what \in Kinds : Answer(r, what)
  <2>1. /\ answers' \in [Requests -> Seq(Kinds)] /\ OneAnswer'
        /\ Answered' = Answered \cup {r}
    BY <1>1, <1>4, AnswerOnce DEF Somewhere
  <2>2. Elements(pending)' = Elements(pending) /\ Once(pending)'
    BY <1>4 DEF IInv, Elements, Once
  <2>3. Somewhere' = Somewhere \cup {r}
    BY <1>3, <2>1, <2>2 DEF Somewhere
  <2>4. Apart'
    BY <1>1, <1>3, <2>1, <2>2 DEF Apart, IInv, Somewhere
  <2>5. RequestsTyped'
    BY <1>2, <1>4, <2>1 DEF RequestsTyped, IInv
  <2>6. NoneLost' /\ NoneInvented'
    BY <1>2, <2>3 DEF NoneLost, NoneInvented, IInv, RequestsTyped
  <2> QED
    BY <1>3, <2>1, <2>2, <2>4, <2>5, <2>6 DEF IInv
<1>5. CASE pending' = Append(pending, r) /\ answers' = answers
  <2>1. Elements(pending') = Elements(pending) \cup {r} /\ Once(pending')
    BY <1>1, <1>5, ElementsAppend, OnceAppend DEF IInv, RequestsTyped,
      Somewhere
  <2>2. Answered' = Answered /\ OneAnswer'
    BY <1>5 DEF Answered, OneAnswer, IInv
  <2>3. Elements(pending)' = Elements(pending) \cup {r} /\ Once(pending)'
    BY <2>1 DEF Elements, Once
  <2>4. Somewhere' = Somewhere \cup {r}
    BY <1>3, <2>2, <2>3 DEF Somewhere
  <2>5. Apart'
    BY <1>1, <1>3, <2>2, <2>3 DEF Apart, IInv, Somewhere
  <2>6. RequestsTyped'
    BY <1>2, <1>5 DEF RequestsTyped, IInv
  <2>7. NoneLost' /\ NoneInvented'
    BY <1>2, <2>4 DEF NoneLost, NoneInvented, IInv, RequestsTyped
  <2> QED
    BY <1>3, <2>2, <2>3, <2>5, <2>6, <2>7 DEF IInv
<1> QED
  BY <1>4, <1>5 DEF QueueFetch, Kinds

(* The first of those pending is answered or set aside. *)
LEMMA DrainKeeps ==
  ASSUME IInv, Drain
  PROVE  IInv'
<1> DEFINE r == Head(pending)
<1>1. /\ pending \in Seq(Requests) /\ pending # <<>> /\ Once(pending)
      /\ pending' = Tail(pending) /\ UNCHANGED <<url, waiting, round>>
  BY DEF Drain, IInv, RequestsTyped
<1>2. /\ Tail(pending) \in Seq(Requests) /\ r \in Requests
      /\ r \in Elements(pending)
      /\ Once(Tail(pending))
      /\ Elements(Tail(pending)) = Elements(pending) \ {r}
  BY <1>1, TailOnce
<1>3. /\ pending' \in Seq(Requests) /\ Once(pending)'
      /\ Elements(pending)' = Elements(pending) \ {r}
  BY <1>1, <1>2 DEF Once, Elements
<1>4. r \notin Elements(stillPending) /\ r \notin Waiting /\ r \notin Answered
  BY <1>2 DEF IInv, Apart
<1>5. Waiting' = Waiting /\ OneTransfer'
  BY <1>1 DEF Waiting, OneTransfer, IInv
<1>6. CASE Answer(r, "cancelled") /\ stillPending' = stillPending
  <2>1. /\ answers' \in [Requests -> Seq(Kinds)] /\ OneAnswer'
        /\ Answered' = Answered \cup {r}
    BY <1>2, <1>4, <1>6, AnswerOnce DEF Kinds
  <2>2. Elements(stillPending)' = Elements(stillPending) /\ Once(stillPending)'
    BY <1>6 DEF IInv, Elements, Once
  <2>3. Apart' /\ Somewhere' = Somewhere
    BY <1>2, <1>3, <1>4, <1>5, <2>1, <2>2 DEF Apart, Somewhere, IInv
  <2>4. RequestsTyped'
    BY <1>1, <1>3, <1>6, <2>1 DEF RequestsTyped, IInv
  <2>5. NoneLost' /\ NoneInvented'
    BY <1>1, <2>3 DEF NoneLost, NoneInvented, IInv
  <2> QED
    BY <1>3, <1>5, <2>1, <2>2, <2>3, <2>4, <2>5 DEF IInv
<1>7. CASE stillPending' = Append(stillPending, r) /\ answers' = answers
  <2>1. Answered' = Answered /\ OneAnswer'
    BY <1>7 DEF Answered, OneAnswer, IInv
  <2>2. /\ Elements(Append(stillPending, r)) = Elements(stillPending) \cup {r}
        /\ Once(Append(stillPending, r))
    BY <1>2, <1>4, ElementsAppend, OnceAppend DEF IInv, RequestsTyped
  <2>3. Elements(stillPending)' = Elements(stillPending) \cup {r} /\ Once(stillPending)'
    BY <1>7, <2>2 DEF Elements, Once
  <2>4. Apart' /\ Somewhere' = Somewhere
    BY <1>2, <1>3, <1>4, <1>5, <2>1, <2>3 DEF Apart, Somewhere, IInv
  <2>5. RequestsTyped'
    BY <1>1, <1>2, <1>3, <1>7 DEF RequestsTyped, IInv
  <2>6. NoneLost' /\ NoneInvented'
    BY <1>1, <2>4 DEF NoneLost, NoneInvented, IInv
  <2> QED
    BY <1>3, <1>5, <2>1, <2>3, <2>4, <2>5, <2>6 DEF IInv
<1> QED
  BY <1>6, <1>7 DEF Drain

(* The first of those set aside waits for a transfer, or is answered. *)
LEMMA StartFetchKeeps ==
  ASSUME IInv, StartFetch
  PROVE  IInv'
<1> DEFINE r == Head(stillPending)
           u == url[r]
<1>1. /\ stillPending \in Seq(Requests) /\ stillPending # <<>>
      /\ Once(stillPending)
      /\ stillPending' = Tail(stillPending)
      /\ UNCHANGED <<url, pending, round>>
  BY DEF StartFetch, IInv, RequestsTyped, shared
<1>2. /\ Tail(stillPending) \in Seq(Requests) /\ r \in Requests
      /\ r \in Elements(stillPending) /\ Once(Tail(stillPending))
      /\ Elements(Tail(stillPending)) = Elements(stillPending) \ {r}
  BY <1>1, TailOnce
<1>3. /\ stillPending' \in Seq(Requests) /\ Once(stillPending)'
      /\ Elements(stillPending)' = Elements(stillPending) \ {r}
  <2>1. Once(stillPending') /\ Elements(stillPending') = Elements(stillPending) \ {r}
    BY <1>1, <1>2
  <2> QED
    BY <1>1, <1>2, <2>1 DEF Once, Elements
<1>4. r \notin Elements(pending) /\ r \notin Waiting /\ r \notin Answered
  BY <1>2 DEF IInv, Apart
<1>5. u \in Urls
  BY <1>2 DEF IInv, RequestsTyped, NoneInvented, Somewhere
<1>6. Elements(pending)' = Elements(pending) /\ Once(pending)'
  BY <1>1 DEF Elements, Once, IInv
<1>7. CASE RefuseRequest(r) /\ waiting' = waiting
  <2>1. /\ answers' \in [Requests -> Seq(Kinds)] /\ OneAnswer'
        /\ Answered' = Answered \cup {r}
    BY <1>2, <1>4, <1>7, AnswerOnce DEF Kinds, RefuseRequest
  <2>2. Waiting' = Waiting /\ OneTransfer'
    BY <1>7 DEF Waiting, OneTransfer, IInv
  <2>3. Apart' /\ Somewhere' = Somewhere
    BY <1>2, <1>3, <1>4, <1>6, <2>1, <2>2 DEF Apart, Somewhere, IInv
  <2>4. RequestsTyped'
    BY <1>1, <1>3, <1>7, <2>1 DEF RequestsTyped, IInv
  <2>5. NoneLost' /\ NoneInvented'
    BY <1>1, <2>3 DEF NoneLost, NoneInvented, IInv
  <2> QED
    BY <1>3, <1>6, <2>1, <2>2, <2>3, <2>4, <2>5 DEF IInv
<1>8. CASE waiting' = [waiting EXCEPT ![u] = waiting[u] \cup {r}] /\ answers' = answers
  <2>1. waiting' \in [Urls -> SUBSET Requests]
    BY <1>2, <1>8 DEF IInv, RequestsTyped
  <2>2. \A v \in Urls : waiting'[v] = IF v = u THEN waiting[u] \cup {r} ELSE waiting[v]
    BY <1>8 DEF IInv, RequestsTyped
  <2>3. Waiting' = Waiting \cup {r}
    BY <1>5, <2>2 DEF Waiting
  <2>4. OneTransfer'
    BY <1>4, <2>2 DEF OneTransfer, IInv, Waiting
  <2>5. Answered' = Answered /\ OneAnswer'
    BY <1>8 DEF Answered, OneAnswer, IInv
  <2>6. Apart' /\ Somewhere' = Somewhere
    BY <1>2, <1>3, <1>4, <1>6, <2>3, <2>5 DEF Apart, Somewhere, IInv
  <2>7. RequestsTyped'
    BY <1>1, <1>3, <1>8, <2>1 DEF RequestsTyped, IInv
  <2>8. NoneLost' /\ NoneInvented'
    BY <1>1, <2>6 DEF NoneLost, NoneInvented, IInv
  <2> QED
    BY <1>3, <1>6, <2>4, <2>5, <2>6, <2>7, <2>8 DEF IInv
<1>9. CASE /\ u \notin InFlight /\ waiting' = [waiting EXCEPT ![u] = {r}]
           /\ answers' = answers
  <2>1. waiting[u] = {}
    BY <1>5, <1>9 DEF InFlight
  <2>2. waiting' = [waiting EXCEPT ![u] = waiting[u] \cup {r}]
    BY <1>9, <2>1
  <2> QED
    BY <1>8, <1>9, <2>2
<1> QED
  BY <1>7, <1>8, <1>9 DEF StartFetch, Join

(* Those whose cancel is taken are answered; the others go on waiting. *)
LEMMA TakeCancelsKeeps ==
  ASSUME IInv, TakeCancels
  PROVE  IInv'
<1> DEFINE whom == CancelledWaiters
<1>1. /\ waiting' = [u \in Urls |-> waiting[u] \ whom]
      /\ AnswerAll(whom, "cancelled")
      /\ UNCHANGED <<url, pending, stillPending>> /\ round = "start"
  BY DEF TakeCancels
<1>2. whom \in SUBSET Requests /\ whom \subseteq Waiting
  BY DEF CancelledWaiters, Waiting, IInv, RequestsTyped
<1>3. whom \cap Answered = {}
  BY <1>2 DEF IInv, Apart
<1>4. /\ answers' \in [Requests -> Seq(Kinds)] /\ OneAnswer'
      /\ Answered' = Answered \cup whom
  BY <1>1, <1>2, <1>3, AnswerAllOnce DEF Kinds
<1>5. waiting' \in [Urls -> SUBSET Requests] /\ Waiting' = Waiting \ whom
                                             /\ OneTransfer'
  BY <1>1 DEF IInv, RequestsTyped, Waiting, OneTransfer
<1>6. /\ Elements(pending)' = Elements(pending) /\ Once(pending)'
      /\ Elements(stillPending)' = Elements(stillPending)
      /\ Once(stillPending)'
  BY <1>1 DEF Elements, Once, IInv
<1>7. Apart' /\ Somewhere' = Somewhere
  BY <1>2, <1>4, <1>5, <1>6 DEF Apart, Somewhere, IInv
<1>8. RequestsTyped'
  BY <1>1, <1>4, <1>5 DEF RequestsTyped, IInv
<1>9. NoneLost' /\ NoneInvented'
  BY <1>1, <1>7 DEF NoneLost, NoneInvented, IInv
<1> QED
  BY <1>4, <1>5, <1>6, <1>7, <1>8, <1>9 DEF IInv

(* All who wait for a transfer that has ended are answered. *)
LEMMA TransferDoneKeeps ==
  ASSUME IInv, NEW u \in Urls, NEW result \in Results, TransferDone(u, result)
  PROVE  IInv'
<1>1. /\ waiting' = [waiting EXCEPT ![u] = {}]
      /\ AnswerAll(waiting[u], IF result.error THEN "failed" ELSE "fetched")
      /\ UNCHANGED <<url, pending, stillPending, round>>
  BY DEF TransferDone, shared
<1>2. waiting[u] \in SUBSET Requests /\ waiting[u] \subseteq Waiting
  BY DEF Waiting, IInv, RequestsTyped
<1>3. waiting[u] \cap Answered = {}
  BY <1>2 DEF IInv, Apart
<1>4. /\ answers' \in [Requests -> Seq(Kinds)] /\ OneAnswer'
      /\ Answered' = Answered \cup waiting[u]
  <2>1. CASE result.error
    BY <1>1, <1>2, <1>3, <2>1, AnswerAllOnce DEF Kinds
  <2>2. CASE ~result.error
    BY <1>1, <1>2, <1>3, <2>2, AnswerAllOnce DEF Kinds
  <2> QED
    BY <2>1, <2>2
<1>5. \A v \in Urls : waiting'[v] = IF v = u THEN {} ELSE waiting[v]
  BY <1>1 DEF IInv, RequestsTyped
<1>6. waiting' \in [Urls -> SUBSET Requests] /\ OneTransfer'
  BY <1>1, <1>5 DEF IInv, RequestsTyped, OneTransfer
<1>7. Waiting' = Waiting \ waiting[u]
  BY <1>5 DEF Waiting, IInv, OneTransfer
<1>8. /\ Elements(pending)' = Elements(pending) /\ Once(pending)'
      /\ Elements(stillPending)' = Elements(stillPending)
      /\ Once(stillPending)'
  BY <1>1 DEF Elements, Once, IInv
<1>9. Apart' /\ Somewhere' = Somewhere
  BY <1>2, <1>4, <1>7, <1>8 DEF Apart, Somewhere, IInv
<1>10. RequestsTyped'
  BY <1>1, <1>4, <1>6 DEF RequestsTyped, IInv
<1>11. NoneLost' /\ NoneInvented'
  BY <1>1, <1>9 DEF NoneLost, NoneInvented, IInv
<1> QED
  BY <1>4, <1>6, <1>8, <1>9, <1>10, <1>11 DEF IInv

(* The end of the loop forgets those who wait, and answers nobody twice. *)
LEMMA ExitKeeps ==
  ASSUME IInv, Exit
  PROVE  IInv'
<1>1. /\ waiting' = [u \in Urls |-> {}] /\ round' = "exited"
      /\ UNCHANGED <<url, pending, stillPending, answers>>
  BY DEF Exit, shared
<1>2. Waiting' = {} /\ waiting' \in [Urls -> SUBSET Requests] /\ OneTransfer'
  BY <1>1 DEF Waiting, OneTransfer
<1>3. /\ Elements(pending)' = Elements(pending) /\ Once(pending)'
      /\ Elements(stillPending)' = Elements(stillPending)
      /\ Once(stillPending)'
      /\ Answered' = Answered /\ OneAnswer'
  BY <1>1 DEF Elements, Once, Answered, OneAnswer, IInv
<1>4. Apart' /\ Somewhere' \subseteq Somewhere
  BY <1>2, <1>3 DEF Apart, Somewhere, IInv
<1>5. RequestsTyped' /\ NoneLost' /\ NoneInvented'
  BY <1>1, <1>2, <1>4 DEF RequestsTyped, NoneLost, NoneInvented, IInv
<1> QED
  BY <1>2, <1>3, <1>4, <1>5 DEF IInv

(* Every step keeps the invariant. *)
LEMMA NextKeeps == IInv /\ [Next]_vars => IInv'
<1> SUFFICES ASSUME IInv, [Next]_vars PROVE IInv'
  OBVIOUS
<1>1. NoUrl \notin Urls
  BY IconAssumption DEF IconAssumption
<1>2. CASE UNCHANGED vars
  BY <1>2, RequestsStay DEF vars, shared, loop
<1>3. ASSUME NEW r \in Requests, NEW u \in Urls, QueueFetch(r, u) PROVE IInv'
  BY <1>1, <1>3, QueueFetchKeeps
<1>4. ASSUME NEW r \in Requests, CancelFetch(r) \/ Destroy(r) \/ Deliver(r) PROVE IInv'
  BY <1>4, RequestsStay DEF CancelFetch, Destroy, Deliver, shared, loop
<1>5. CASE ClearCache
  BY <1>5, RequestsStay DEF ClearCache, shared, loop
<1>6. CASE BeginRound \/ DrainEnds
  BY <1>6, RequestsStay DEF BeginRound, DrainEnds, shared
<1>7. CASE Drain
  BY <1>7, DrainKeeps
<1>8. CASE StartFetch
  BY <1>8, StartFetchKeeps
<1>9. CASE TakeCancels
  BY <1>9, TakeCancelsKeeps
<1>10. CASE Exit
  BY <1>10, ExitKeeps
<1>11. CASE SomeTransferDone
  BY <1>11, TransferDoneKeeps DEF SomeTransferDone
<1> QED
  BY <1>2, <1>3, <1>4, <1>5, <1>6, <1>7, <1>8, <1>9, <1>10, <1>11
  DEF Next, Callers, EventLoop, SomeDelivered

-----------------------------------------------------------------------------
(* For any URLs, limits and number of requests: no request for an icon is   *)
(* answered twice, and until the loop ends none is lost, though the mutex   *)
(* is let go in the middle of every hand-over.                              *)
THEOREM IconInOnePlace == Spec => []InOnePlace
<1>1. Init => IInv
  BY InitInv
<1>2. IInv /\ [Next]_vars => IInv'
  BY NextKeeps
<1>3. IInv => InOnePlace
  BY InvIsProperty
<1> QED
  BY <1>1, <1>2, <1>3, PTL DEF Spec

(* Who is told what, in a step that answers some with the same words. *)
LEMMA ToldOf ==
  ASSUME RequestsTyped, NEW whom, NEW what \in Kinds, AnswerAll(whom, what),
         NEW r \in Requests, answers'[r] # answers[r]
  PROVE  r \in whom /\ answers'[r][Len(answers'[r])] = what
<1>1. answers'[r] = IF r \in whom THEN Append(answers[r], what) ELSE answers[r]
  BY DEF AnswerAll
<1>2. answers[r] \in Seq(Kinds)
  BY DEF RequestsTyped
<1>3. Append(answers[r], what)[Len(Append(answers[r], what))] = what
  BY <1>2
<1> QED
  BY <1>1, <1>3

(* To answer one is to answer all of one. *)
LEMMA AnswerIsAll ==
  ASSUME RequestsTyped, NEW r \in Requests, NEW what, Answer(r, what)
  PROVE  AnswerAll({r}, what)
BY DEF Answer, AnswerAll, RequestsTyped

ToldIfAsked(r) ==
  answers'[r] # answers[r] /\ answers'[r][Len(answers'[r])] = "cancelled"
    => r \in cancelled

(* Each step that says "Cancelled" says it to who has asked. *)
LEMMA StepTells ==
  ASSUME RequestsTyped, Next, NEW r \in Requests
  PROVE  ToldIfAsked(r)
<1>1. CASE answers' = answers
  BY <1>1 DEF ToldIfAsked
<1>2. ASSUME NEW whom, NEW what \in {"fetched", "failed"}, AnswerAll(whom, what)
      PROVE  ToldIfAsked(r)
  BY <1>2, ToldOf DEF ToldIfAsked, Kinds
<1>3. ASSUME NEW whom, AnswerAll(whom, "cancelled"), whom \subseteq cancelled
      PROVE  ToldIfAsked(r)
  BY <1>3, ToldOf DEF ToldIfAsked, Kinds
<1>4. ASSUME NEW q \in Requests, NEW what \in {"fetched", "failed"}, Answer(q, what)
      PROVE  ToldIfAsked(r)
  BY <1>2, <1>4, AnswerIsAll
<1>5. ASSUME NEW q \in Requests, NEW u \in Urls, QueueFetch(q, u) PROVE ToldIfAsked(r)
  BY <1>1, <1>4, <1>5 DEF QueueFetch
<1>6. ASSUME NEW q \in Requests, CancelFetch(q) \/ Destroy(q) \/ Deliver(q)
      PROVE  ToldIfAsked(r)
  BY <1>1, <1>6 DEF CancelFetch, Destroy, Deliver
<1>7. CASE ClearCache \/ BeginRound \/ DrainEnds \/ Exit
  BY <1>1, <1>7 DEF ClearCache, BeginRound, DrainEnds, Exit
<1>8. CASE Drain
  <2>1. Head(pending) \in Requests
    BY <1>8 DEF Drain, RequestsTyped
  <2>2. CASE Head(pending) \in cancelled /\ Answer(Head(pending), "cancelled")
    <3>1. {Head(pending)} \subseteq cancelled
      BY <2>2
    <3>2. AnswerAll({Head(pending)}, "cancelled")
      BY <2>1, <2>2, AnswerIsAll
    <3> QED
      BY <3>1, <3>2, <1>3
  <2> QED
    BY <1>1, <1>8, <2>2 DEF Drain
<1>9. CASE StartFetch
  <2>1. Head(stillPending) \in Requests
    BY <1>9 DEF StartFetch, RequestsTyped
  <2>2. answers' = answers \/ Answer(Head(stillPending), "failed")
    BY <1>9 DEF StartFetch, RefuseRequest
  <2> QED
    BY <1>1, <1>4, <2>1, <2>2
<1>10. CASE TakeCancels
  BY <1>3, <1>10 DEF TakeCancels, CancelledWaiters
<1>11. ASSUME NEW u \in Urls, NEW result \in Results, TransferDone(u, result)
       PROVE  ToldIfAsked(r)
  <2>1. AnswerAll(waiting[u], IF result.error THEN "failed" ELSE "fetched")
    BY <1>11 DEF TransferDone
  <2> QED
    BY <1>2, <2>1
<1> QED
  BY <1>5, <1>6, <1>7, <1>8, <1>9, <1>10, <1>11
  DEF Next, Callers, EventLoop, SomeTransferDone, SomeDelivered

(* To cancel a request says nothing to those who wait for the same icon:    *)
(* "Cancelled" is only said to who has asked for it.                        *)
THEOREM IconOnlyCancelledAreTold == Spec => OnlyCancelledAreTold
<1>1. Init => IInv
  BY InitInv
<1>2. IInv /\ [Next]_vars => IInv'
  BY NextKeeps
<1>3. IInv /\ [Next]_vars =>
        [\A r \in Requests :
           answers'[r] # answers[r] /\ answers'[r][Len(answers'[r])] = "cancelled"
             => r \in cancelled]_vars
  <2> SUFFICES ASSUME IInv, Next, NEW r \in Requests PROVE ToldIfAsked(r)
    BY DEF ToldIfAsked
  <2> QED
    BY StepTells DEF IInv
<1> QED
  BY <1>1, <1>2, <1>3, PTL DEF Spec, OnlyCancelledAreTold

-----------------------------------------------------------------------------
(* Sums over finite sets.  What the folds compute is shown by a smallest    *)
(* counterexample: of the sets for which a claim is wrong, one contains     *)
(* none of the others.                                                      *)

(* Among finite sets there is always one that contains none of the others. *)
LEMMA SmallestSet ==
  ASSUME NEW S, IsFiniteSet(S), NEW W \in SUBSET (SUBSET S), W # {}
  PROVE  \E T \in W : \A U \in W : U \subseteq T => U = T
<1>1. FiniteSubsetsOf(S) = SUBSET S
  BY FS_FiniteSubsetsOfFinite
<1>2. IsWellFoundedOn(StrictSubsetOrdering(S), SUBSET S)
  BY <1>1, FS_StrictSubsetOrderingWellFounded
<1>3. \E T \in W : \A U \in W : ~ (<<U, T>> \in StrictSubsetOrdering(S))
  BY <1>2, WFMin
<1> QED BY <1>3 DEF StrictSubsetOrdering

Pick(s) == CHOOSE x \in s : TRUE

(* The function that the fold is: the sums of the subsets of a set.         *)
IsSum(c, f, S) ==
  f = [s \in SUBSET S |-> IF s = {} THEN 0
                          ELSE c[Pick(s)].size + f[s \ {Pick(s)}]]

Sum(c, S) == (CHOOSE f : IsSum(c, f, S))[S]

(* The bytes of some entries, now and after a step, are such a sum. *)
LEMMA BytesAreSum ==
  ASSUME NEW S
  PROVE  Bytes(S) = Sum(cache, S) /\ Bytes(S)' = Sum(cache', S)
BY Zenon DEF Bytes, Size, MapThenSumSet, MapThenFoldSet, Sum, IsSum, Pick

(* A set that is not empty has what is picked of it. *)
LEMMA PickIsIn ==
  ASSUME NEW S, S # {}
  PROVE  Pick(S) \in S
BY DEF Pick

(* Two such functions agree where both are defined. *)
LEMMA SumsAgree ==
  ASSUME NEW c, NEW S, NEW T, NEW U, IsFiniteSet(S), S \subseteq T,
         S \subseteq U, NEW f, NEW g, IsSum(c, f, T), IsSum(c, g, U)
  PROVE  f[S] = g[S]
<1> DEFINE W == {V \in SUBSET S : f[V] # g[V]}
<1> SUFFICES ASSUME W # {} PROVE FALSE
  OBVIOUS
<1>1. PICK V \in W : \A X \in W : X \subseteq V => X = V
  <2>1. W \in SUBSET (SUBSET S)
    OBVIOUS
  <2> HIDE DEF W
  <2> QED BY <2>1, SmallestSet
<1>2. V \in SUBSET T /\ V \in SUBSET U /\ f[V] # g[V]
  OBVIOUS
<1>3. V # {}
  BY <1>2 DEF IsSum
<1>4. /\ Pick(V) \in V /\ V \ {Pick(V)} \in SUBSET S
      /\ V \ {Pick(V)} \subseteq V /\ V \ {Pick(V)} # V
  BY <1>3, PickIsIn
<1>5. f[V \ {Pick(V)}] = g[V \ {Pick(V)}]
  BY <1>1, <1>4
<1>6. /\ f[V] = c[Pick(V)].size + f[V \ {Pick(V)}]
      /\ g[V] = c[Pick(V)].size + g[V \ {Pick(V)}]
  BY <1>2, <1>3 DEF IsSum
<1> QED BY <1>2, <1>5, <1>6

(* There is such a function. *)
LEMMA SumExists ==
  ASSUME NEW c, NEW S, IsFiniteSet(S)
  PROVE  \E f : IsSum(c, f, S)
<1> DEFINE W == {V \in SUBSET S : ~ \E f : IsSum(c, f, V)}
<1> SUFFICES ASSUME W # {} PROVE FALSE
  OBVIOUS
<1>1. PICK V \in W : \A X \in W : X \subseteq V => X = V
  <2>1. W \in SUBSET (SUBSET S)
    OBVIOUS
  <2> HIDE DEF W
  <2> QED BY <2>1, SmallestSet
<1> DEFINE G(X) == CHOOSE g : IsSum(c, g, X)
           f == [s \in SUBSET V |->
                   IF s = {} THEN 0
                   ELSE c[Pick(s)].size + G(s \ {Pick(s)})[s \ {Pick(s)}]]
<1>2. ASSUME NEW X \in SUBSET V, X # V PROVE IsSum(c, G(X), X)
  <2>1. \E g : IsSum(c, g, X)
    BY <1>1, <1>2
  <2> QED BY <2>1
<1>3. ASSUME NEW X \in SUBSET V, X # V PROVE f[X] = G(X)[X]
  <2> DEFINE g == G(X)
             Y == X \ {Pick(X)}
  <2>1. IsSum(c, g, X)
    BY <1>2, <1>3
  <2> HIDE DEF g
  <2>2. CASE X = {}
    BY <2>1, <2>2 DEF IsSum
  <2>3. CASE X # {}
    <3>1. Pick(X) \in X /\ Y \in SUBSET V /\ Y # V /\ Y \subseteq X
      BY <2>3, PickIsIn
    <3>2. IsSum(c, G(Y), Y) /\ IsFiniteSet(Y)
      BY <1>2, <3>1, FS_Subset
    <3> HIDE DEF G, Y
    <3>3. G(Y)[Y] = g[Y]
      BY <2>1, <3>1, <3>2, SumsAgree
    <3>4. g[X] = c[Pick(X)].size + g[Y]
      BY <2>1, <2>3 DEF IsSum, Y
    <3>5. f[X] = c[Pick(X)].size + G(Y)[Y]
      BY <2>3 DEF Y
    <3> QED BY <3>3, <3>4, <3>5 DEF g
  <2> QED BY <2>2, <2>3
<1>4. \A s \in SUBSET V : s # {} =>
        s \ {Pick(s)} \in SUBSET V /\ s \ {Pick(s)} # V
  BY PickIsIn
<1>5. \A s \in SUBSET V :
        f[s] = IF s = {} THEN 0 ELSE c[Pick(s)].size + f[s \ {Pick(s)}]
  <2> SUFFICES ASSUME NEW s \in SUBSET V, s # {}
               PROVE  f[s] = c[Pick(s)].size + f[s \ {Pick(s)}]
    <3>1. \A s \in SUBSET V : s = {} => f[s] = 0
      OBVIOUS
    <3> HIDE DEF f
    <3> QED BY <3>1
  <2>1. f[s \ {Pick(s)}] = G(s \ {Pick(s)})[s \ {Pick(s)}]
    BY <1>3, <1>4
  <2> HIDE DEF G
  <2> QED BY <2>1
<1>6. f = [s \in SUBSET V |-> f[s]]
  OBVIOUS
<1> HIDE DEF f
<1>7. IsSum(c, f, V)
  BY <1>5, <1>6 DEF IsSum
<1> QED BY <1>1, <1>7

(* The sum of nothing, and that of a set with its picked element. *)
LEMMA SumUnfolds ==
  ASSUME NEW c, NEW S, IsFiniteSet(S)
  PROVE  /\ S = {} => Sum(c, S) = 0
         /\ S # {} => Sum(c, S) = c[Pick(S)].size + Sum(c, S \ {Pick(S)})
<1> DEFINE f == CHOOSE f : IsSum(c, f, S)
           T == S \ {Pick(S)}
           g == CHOOSE g : IsSum(c, g, T)
<1>1. IsSum(c, f, S)
  BY SumExists
<1>2. IsFiniteSet(T) /\ T \subseteq S
  BY FS_RemoveElement
<1>3. IsSum(c, g, T)
  BY <1>2, SumExists
<1>4. Sum(c, S) = f[S] /\ Sum(c, T) = g[T]
  BY DEF Sum
<1> HIDE DEF f, g
<1>5. f[T] = g[T]
  BY <1>1, <1>2, <1>3, SumsAgree
<1>6. S \in SUBSET S
  OBVIOUS
<1> QED BY <1>1, <1>4, <1>5, <1>6 DEF IsSum

(* A sum of natural numbers is one. *)
LEMMA SumIsNat ==
  ASSUME NEW c, NEW S, IsFiniteSet(S), \A x \in S : c[x].size \in Nat
  PROVE  Sum(c, S) \in Nat
<1> DEFINE W == {V \in SUBSET S : Sum(c, V) \notin Nat}
<1> SUFFICES ASSUME W # {} PROVE FALSE
  OBVIOUS
<1>1. PICK V \in W : \A X \in W : X \subseteq V => X = V
  <2>1. W \in SUBSET (SUBSET S)
    OBVIOUS
  <2> HIDE DEF W
  <2> QED BY <2>1, SmallestSet
<1>2. IsFiniteSet(V)
  BY FS_Subset
<1>3. V # {}
  <2>1. Sum(c, V) \notin Nat
    OBVIOUS
  <2>2. V = {} => Sum(c, V) = 0
    BY <1>2, SumUnfolds
  <2> HIDE DEF W
  <2> QED BY <2>1, <2>2
<1>4. /\ Pick(V) \in V /\ V \ {Pick(V)} \in SUBSET S
      /\ V \ {Pick(V)} \subseteq V /\ V \ {Pick(V)} # V
  BY <1>3, PickIsIn
<1>5. Sum(c, V \ {Pick(V)}) \in Nat /\ c[Pick(V)].size \in Nat
  BY <1>1, <1>4
<1>6. Sum(c, V) = c[Pick(V)].size + Sum(c, V \ {Pick(V)})
  BY <1>2, <1>3, SumUnfolds
<1> QED BY <1>5, <1>6

(* Nothing but the sizes counts. *)
LEMMA SumDependsOnSizes ==
  ASSUME NEW c, NEW d, NEW S, IsFiniteSet(S),
         \A x \in S : c[x].size = d[x].size
  PROVE  Sum(c, S) = Sum(d, S)
<1> DEFINE W == {V \in SUBSET S : Sum(c, V) # Sum(d, V)}
<1> SUFFICES ASSUME W # {} PROVE FALSE
  OBVIOUS
<1>1. PICK V \in W : \A X \in W : X \subseteq V => X = V
  <2>1. W \in SUBSET (SUBSET S)
    OBVIOUS
  <2> HIDE DEF W
  <2> QED BY <2>1, SmallestSet
<1>2. IsFiniteSet(V)
  BY FS_Subset
<1>3. V # {}
  <2>1. Sum(c, V) # Sum(d, V)
    OBVIOUS
  <2> HIDE DEF W
  <2> QED BY <1>2, <2>1, SumUnfolds
<1>4. /\ Pick(V) \in V /\ V \ {Pick(V)} \in SUBSET S
      /\ V \ {Pick(V)} \subseteq V /\ V \ {Pick(V)} # V
  BY <1>3, PickIsIn
<1>5. /\ Sum(c, V \ {Pick(V)}) = Sum(d, V \ {Pick(V)})
      /\ c[Pick(V)].size = d[Pick(V)].size
  BY <1>1, <1>4
<1>6. /\ Sum(c, V) = c[Pick(V)].size + Sum(c, V \ {Pick(V)})
      /\ Sum(d, V) = d[Pick(V)].size + Sum(d, V \ {Pick(V)})
  BY <1>2, <1>3, SumUnfolds
<1> QED BY <1>5, <1>6

(* Whichever element was picked, one more adds its size. *)
LEMMA SumAddsOne ==
  ASSUME NEW c, NEW S, NEW u, IsFiniteSet(S), u \notin S,
         \A x \in S \cup {u} : c[x].size \in Nat
  PROVE  Sum(c, S \cup {u}) = Sum(c, S) + c[u].size
<1> DEFINE All == S \cup {u}
           W == {V \in SUBSET All : \E v \in All \ V :
                   Sum(c, V \cup {v}) # Sum(c, V) + c[v].size}
<1>1. IsFiniteSet(All)
  BY FS_AddElement
<1> SUFFICES ASSUME W # {} PROVE FALSE
  OBVIOUS
<1>2. PICK V \in W : \A X \in W : X \subseteq V => X = V
  <2>1. W \in SUBSET (SUBSET All)
    OBVIOUS
  <2> HIDE DEF W, All
  <2> QED BY <1>1, <2>1, SmallestSet
<1>3. PICK v \in All \ V : Sum(c, V \cup {v}) # Sum(c, V) + c[v].size
  OBVIOUS
<1> DEFINE x == Pick(V \cup {v})
           X == V \ {x}
<1>4. /\ IsFiniteSet(V) /\ IsFiniteSet(V \cup {v}) /\ IsFiniteSet(X)
      /\ V \subseteq All /\ X \subseteq V
  BY <1>1, FS_Subset, FS_AddElement, FS_RemoveElement
<1>5. x \in V \cup {v}
  BY PickIsIn
<1>6. Sum(c, V \cup {v}) = c[x].size + Sum(c, (V \cup {v}) \ {x})
  BY <1>4, SumUnfolds
<1>7. /\ Sum(c, V) \in Nat /\ Sum(c, X) \in Nat
      /\ c[v].size \in Nat /\ c[x].size \in Nat
  BY <1>4, <1>5, SumIsNat
<1> HIDE DEF x
<1>8. CASE x = v
  <2>1. (V \cup {v}) \ {x} = V
    BY <1>8
  <2>2. Sum(c, V \cup {v}) = c[v].size + Sum(c, V)
    BY <1>6, <1>8, <2>1
  <2> HIDE DEF W, All, X
  <2> QED BY <1>3, <1>7, <2>2
<1>9. CASE x # v
  <2>1. /\ x \in V /\ X # V /\ (V \cup {v}) \ {x} = X \cup {v}
        /\ X \cup {x} = V /\ v \in All \ X /\ x \in All \ X
    BY <1>4, <1>5, <1>9
  <2>2. X \notin W /\ X \in SUBSET All
    BY <1>2, <1>4, <2>1
  <2>3. /\ Sum(c, X \cup {v}) = Sum(c, X) + c[v].size
        /\ Sum(c, X \cup {x}) = Sum(c, X) + c[x].size
    BY <2>1, <2>2
  <2> HIDE DEF X, All, W
  <2>4. /\ Sum(c, V \cup {v}) = c[x].size + (Sum(c, X) + c[v].size)
        /\ Sum(c, V) = Sum(c, X) + c[x].size
    BY <1>6, <2>1, <2>3
  <2> QED BY <1>3, <1>7, <2>4
<1> QED BY <1>8, <1>9

(* The sum of what is apart is that of the parts. *)
LEMMA SumOfBoth ==
  ASSUME NEW c, NEW S, NEW T, IsFiniteSet(S), IsFiniteSet(T), S \cap T = {},
         \A x \in S \cup T : c[x].size \in Nat
  PROVE  Sum(c, S \cup T) = Sum(c, S) + Sum(c, T)
<1> DEFINE W == {V \in SUBSET T : Sum(c, S \cup V) # Sum(c, S) + Sum(c, V)}
<1> SUFFICES ASSUME W # {} PROVE FALSE
  OBVIOUS
<1>1. PICK V \in W : \A X \in W : X \subseteq V => X = V
  <2>1. W \in SUBSET (SUBSET T)
    OBVIOUS
  <2> HIDE DEF W
  <2> QED BY <2>1, SmallestSet
<1> DEFINE x == Pick(V)
           X == V \ {x}
<1>2. IsFiniteSet(V) /\ IsFiniteSet(X) /\ IsFiniteSet(S \cup X)
  BY FS_Subset, FS_RemoveElement, FS_Union
<1>3. /\ Sum(c, S) \in Nat /\ Sum(c, X) \in Nat
      /\ Sum(c, {}) = 0
  BY <1>2, SumIsNat, SumUnfolds, FS_EmptySet
<1>4. V # {}
  <2> SUFFICES ASSUME V = {} PROVE FALSE
    OBVIOUS
  <2>1. S \cup V = S
    OBVIOUS
  <2> QED BY <1>3, <2>1
<1>5. x \in V
  BY <1>4, PickIsIn
<1> HIDE DEF x
<1>6. /\ X \in SUBSET T /\ X \subseteq V /\ X # V /\ X \cup {x} = V
      /\ (S \cup X) \cup {x} = S \cup V /\ x \notin S \cup X /\ x \notin X
      /\ c[x].size \in Nat
  BY <1>5
<1>7. Sum(c, S \cup X) = Sum(c, S) + Sum(c, X)
  BY <1>1, <1>6
<1>8. /\ Sum(c, (S \cup X) \cup {x}) = Sum(c, S \cup X) + c[x].size
      /\ Sum(c, X \cup {x}) = Sum(c, X) + c[x].size
  <2>1. \A y \in (S \cup X) \cup {x} : c[y].size \in Nat
    BY <1>5, <1>6
  <2> HIDE DEF X
  <2> QED BY <1>2, <1>6, <2>1, SumAddsOne
<1>9. Sum(c, S \cup V) # Sum(c, S) + Sum(c, V)
  OBVIOUS
<1> HIDE DEF X, W
<1>10. /\ Sum(c, S \cup V) = (Sum(c, S) + Sum(c, X)) + c[x].size
       /\ Sum(c, V) = Sum(c, X) + c[x].size
  BY <1>6, <1>7, <1>8
<1> QED BY <1>3, <1>6, <1>9, <1>10

-----------------------------------------------------------------------------
(* The order of the cache: what is cut off, taken out and put at the end.   *)

(* The elements of a sequence are finitely many. *)
LEMMA ElementsFinite ==
  ASSUME NEW S, NEW s \in Seq(S)
  PROVE  IsFiniteSet(Elements(s)) /\ Elements(s) \subseteq S
<1> DEFINE f == [i \in 1 .. Len(s) |-> s[i]]
<1>1. Len(s) \in Nat /\ \A i \in 1 .. Len(s) : s[i] \in S
  OBVIOUS
<1>2. f \in [1 .. Len(s) -> Elements(s)]
        /\ \A x \in Elements(s) : \E i \in 1 .. Len(s) : f[i] = x
  BY DEF Elements
<1>3. ExistsSurjection(1 .. Len(s), Elements(s))
  BY <1>2 DEF ExistsSurjection, Surjection
<1> QED BY <1>1, <1>3, FS_NatSurjection DEF Elements

(* Both parts of a sequence that is cut have their elements for themselves. *)
LEMMA CutApart ==
  ASSUME NEW S, NEW s \in Seq(S), Once(s), NEW n \in 0 .. Len(s)
  PROVE  LET a == SubSeq(s, 1, n)  b == SubSeq(s, n + 1, Len(s))
         IN /\ a \in Seq(S) /\ b \in Seq(S) /\ Once(b)
            /\ Elements(a) \cup Elements(b) = Elements(s)
            /\ Elements(a) \cap Elements(b) = {}
<1> DEFINE a == SubSeq(s, 1, n)
           b == SubSeq(s, n + 1, Len(s))
<1>1. /\ Len(s) \in Nat /\ n \in Nat /\ n <= Len(s)
      /\ a \in Seq(S) /\ b \in Seq(S)
      /\ Len(a) = n /\ Len(b) = Len(s) - n
  OBVIOUS
<1>2. /\ \A i \in 1 .. n : a[i] = s[i]
      /\ \A i \in 1 .. Len(s) - n : b[i] = s[n + i]
  BY <1>1
<1> HIDE DEF a, b
<1>3. Elements(a) = {s[i] : i \in 1 .. n}
  BY <1>1, <1>2 DEF Elements
<1>4. Elements(b) = {s[i] : i \in n + 1 .. Len(s)}
  <2>1. ASSUME NEW x \in Elements(b) PROVE x \in {s[i] : i \in n + 1 .. Len(s)}
    <3>1. PICK i \in 1 .. Len(s) - n : x = b[i]
      BY <1>1 DEF Elements
    <3>2. n + i \in n + 1 .. Len(s) /\ x = s[n + i]
      BY <1>1, <1>2, <3>1
    <3> QED BY <3>2
  <2>2. ASSUME NEW i \in n + 1 .. Len(s) PROVE s[i] \in Elements(b)
    <3>1. i - n \in 1 .. Len(s) - n /\ b[i - n] = s[n + (i - n)]
      BY <1>1, <1>2
    <3>2. n + (i - n) = i
      BY <1>1
    <3> QED BY <1>1, <3>1, <3>2 DEF Elements
  <2> QED BY <2>1, <2>2
<1>5. Elements(a) \cup Elements(b) = Elements(s)
  <2>1. 1 .. Len(s) = (1 .. n) \cup (n + 1 .. Len(s))
    BY <1>1
  <2> QED BY <1>3, <1>4, <2>1 DEF Elements
<1>6. Elements(a) \cap Elements(b) = {}
  <2> SUFFICES ASSUME NEW i \in 1 .. n, NEW j \in n + 1 .. Len(s), s[i] = s[j]
               PROVE  FALSE
    BY <1>3, <1>4
  <2> QED BY <1>1 DEF Once
<1>7. Once(b)
  <2> SUFFICES ASSUME NEW i \in 1 .. Len(s) - n, NEW j \in 1 .. Len(s) - n,
                      b[i] = b[j]
               PROVE  i = j
    BY <1>1 DEF Once
  <2>1. s[n + i] = s[n + j] /\ n + i \in 1 .. Len(s) /\ n + j \in 1 .. Len(s)
    BY <1>1, <1>2
  <2> QED BY <1>1, <2>1 DEF Once
<1> QED BY <1>1, <1>5, <1>6, <1>7 DEF a, b

(* A set of natural numbers with a bound has a least element. *)
LEMMA LeastIsIn ==
  ASSUME NEW N \in Nat, NEW W \in SUBSET (0 .. N), W # {}
  PROVE  Min(W) \in W /\ \A m \in W : Min(W) <= m
<1> DEFINE Below == {0 .. n : n \in W}
           All == 0 .. N
<1>1. IsFiniteSet(All)
  BY FS_Interval
<1>2. Below \in SUBSET (SUBSET All) /\ Below # {}
  <2>1. \A n \in W : 0 .. n \subseteq All
    OBVIOUS
  <2> HIDE DEF All
  <2> QED BY <2>1
<1>3. PICK B \in Below : \A C \in Below : C \subseteq B => C = B
  <2> HIDE DEF Below, All
  <2> QED BY <1>1, <1>2, SmallestSet
<1>4. PICK n \in W : B = 0 .. n
  OBVIOUS
<1>5. ASSUME NEW m \in W PROVE n <= m
  <2>1. n \in Nat /\ m \in Nat
    OBVIOUS
  <2> SUFFICES ASSUME m < n PROVE FALSE
    BY <2>1
  <2>2. 0 .. m \subseteq 0 .. n /\ n \in 0 .. n /\ n \notin 0 .. m
    BY <2>1
  <2>3. 0 .. m = 0 .. n
    BY <1>3, <1>4, <2>2
  <2> QED BY <2>2, <2>3
<1>6. \E x \in W : \A y \in W : x =< y
  BY <1>5
<1> QED BY <1>6 DEF Min

(* To take out the one place of a URL leaves the others, each once. *)
LEMMA RemoveFirstFacts ==
  ASSUME NEW S, NEW s \in Seq(S), Once(s), NEW u \in Elements(s)
  PROVE  LET t == RemoveFirst(s, u)
         IN t \in Seq(S) /\ Once(t) /\ Elements(t) = Elements(s) \ {u}
<1> DEFINE I == {i \in 1 .. Len(s) : s[i] = u}
           k == Min(I)
           t == RemoveFirst(s, u)
<1>1. Len(s) \in Nat /\ \E i \in 1 .. Len(s) : s[i] = u
  BY DEF Elements
<1>2. t = SubSeq(s, 1, k - 1) \o SubSeq(s, k + 1, Len(s))
  <2>1. I # {}
    BY <1>1
  <2>2. SelectInSeq(s, LAMBDA v : v = u) = IF I # {} THEN Min(I) ELSE 0
    BY Zenon DEF SelectInSeq
  <2>3. t = RemoveAt(s, SelectInSeq(s, LAMBDA v : v = u))
    BY <1>1, Zenon DEF RemoveFirst
  <2> QED BY <2>1, <2>2, <2>3, Zenon DEF RemoveAt
<1>3. k \in 1 .. Len(s) /\ s[k] = u
  <2>1. I \in SUBSET (0 .. Len(s)) /\ I # {}
    BY <1>1
  <2> HIDE DEF I
  <2>2. k \in I
    BY <1>1, <2>1, LeastIsIn
  <2> QED BY <2>2 DEF I
<1> HIDE DEF k, t
<1>4. /\ t \in Seq(S) /\ Len(t) = Len(s) - 1
      /\ \A i \in 1 .. k - 1 : t[i] = s[i]
      /\ \A i \in k .. Len(s) - 1 : t[i] = s[i + 1]
  <2> DEFINE a == SubSeq(s, 1, k - 1)
             b == SubSeq(s, k + 1, Len(s))
  <2>1. /\ a \in Seq(S) /\ Len(a) = k - 1
        /\ \A i \in 1 .. k - 1 : a[i] = s[i]
    BY <1>1, <1>3
  <2>2. /\ b \in Seq(S) /\ Len(b) = Len(s) - k
        /\ \A i \in 1 .. Len(s) - k : b[i] = s[k + i]
    BY <1>1, <1>3
  <2> HIDE DEF a, b
  <2>3. /\ a \o b \in Seq(S) /\ Len(a \o b) = Len(a) + Len(b)
        /\ \A i \in 1 .. Len(a) : (a \o b)[i] = a[i]
        /\ \A i \in Len(a) + 1 .. Len(a) + Len(b) : (a \o b)[i] = b[i - Len(a)]
    BY <2>1, <2>2
  <2>4. t = a \o b
    BY <1>2 DEF a, b
  <2>5. ASSUME NEW i \in k .. Len(s) - 1 PROVE t[i] = s[i + 1]
    <3>1. i \in Len(a) + 1 .. Len(a) + Len(b) /\ i - Len(a) \in 1 .. Len(s) - k
          /\ k + (i - Len(a)) = i + 1
      BY <1>1, <1>3, <2>1, <2>2
    <3> QED BY <2>2, <2>3, <2>4, <3>1
  <2>6. \A i \in 1 .. k - 1 : t[i] = s[i]
    BY <2>1, <2>3, <2>4
  <2>7. Len(t) = Len(s) - 1
    <3>1. Len(t) = Len(a) + Len(b)
      BY <2>3, <2>4
    <3> QED BY <1>1, <1>3, <2>1, <2>2, <3>1
  <2> QED BY <2>3, <2>4, <2>5, <2>6, <2>7
<1> DEFINE p == [i \in 1 .. Len(s) - 1 |-> IF i < k THEN i ELSE i + 1]
<1>5. \A i \in 1 .. Len(s) - 1 :
        p[i] \in 1 .. Len(s) /\ p[i] # k /\ t[i] = s[p[i]]
  BY <1>1, <1>3, <1>4
<1>6. \A i, j \in 1 .. Len(s) - 1 : p[i] = p[j] => i = j
  BY <1>1, <1>3
<1>7. \A m \in 1 .. Len(s) : m # k => \E i \in 1 .. Len(s) - 1 : p[i] = m
  <2> SUFFICES ASSUME NEW m \in 1 .. Len(s), m # k
               PROVE  \E i \in 1 .. Len(s) - 1 : p[i] = m
    OBVIOUS
  <2>1. CASE m < k
    <3>1. m \in 1 .. Len(s) - 1 /\ p[m] = m
      BY <1>1, <1>3, <2>1
    <3> QED BY <3>1
  <2>2. CASE ~(m < k)
    <3>1. m - 1 \in 1 .. Len(s) - 1 /\ p[m - 1] = m
      BY <1>1, <1>3, <2>2
    <3> QED BY <3>1
  <2> QED BY <2>1, <2>2
<1> HIDE DEF p
<1>8. Once(t)
  <2> SUFFICES ASSUME NEW i \in 1 .. Len(s) - 1, NEW j \in 1 .. Len(s) - 1,
                      t[i] = t[j]
               PROVE  i = j
    BY <1>4 DEF Once
  <2>1. s[p[i]] = s[p[j]] /\ p[i] \in 1 .. Len(s) /\ p[j] \in 1 .. Len(s)
    BY <1>5
  <2>2. p[i] = p[j]
    BY <2>1 DEF Once
  <2> QED BY <1>6, <2>2
<1>9. Elements(t) = Elements(s) \ {u}
  <2>1. ASSUME NEW x \in Elements(t) PROVE x \in Elements(s) /\ x # u
    BY <1>3, <1>4, <1>5, <2>1 DEF Elements, Once
  <2>2. ASSUME NEW x \in Elements(s), x # u PROVE x \in Elements(t)
    <3>1. PICK m \in 1 .. Len(s) : x = s[m] /\ m # k
      BY <1>3, <2>2 DEF Elements
    <3>2. PICK i \in 1 .. Len(s) - 1 : p[i] = m
      BY <1>7, <3>1
    <3> QED BY <1>4, <1>5, <3>1, <3>2 DEF Elements
  <2> QED BY <2>1, <2>2
<1> QED BY <1>4, <1>8, <1>9 DEF t

-----------------------------------------------------------------------------
(* The books of the cache. *)

Entries == [size : 0 .. MaxSize, error : BOOLEAN, held : BOOLEAN]

(* The entries, the order of their use and the count of their bytes agree.  *)
Books ==
  /\ cache \in [Urls -> Entries]
  /\ cacheOrder \in Seq(Urls) /\ cacheBytes \in 0 .. MaxCacheBytes
  /\ Elements(cacheOrder) = Cached /\ Once(cacheOrder)
  /\ cacheBytes = Sum(cache, Cached)

(* The limits of the queue, and where the loop holds the mutex. *)
LoopTyped ==
  /\ Len(pending) <= MaxPendingRequests
  /\ cancelled \subseteq Requests
  /\ locked \in BOOLEAN
  /\ round \in {"drain", "start", "transfers", "exited"}
  /\ response \in [Requests -> {"none", "waiting", "over"}]
  /\ round \in {"transfers", "exited"} => ~locked

(* A result that is added has the size of an icon. *)
LEMMA EntryFacts ==
  /\ MaxSize \in Nat /\ MaxCacheBytes \in Nat /\ MaxSize <= MaxCacheBytes
  /\ MaxCacheEntries \in Nat /\ MaxPendingRequests \in Nat \ {0}
  /\ NotCached \in Entries /\ ~NotCached.held
  /\ \A result \in Results :
       /\ Entry(result) \in Entries /\ Entry(result).held
       /\ Entry(result).size = result.size /\ result.size \in 0 .. MaxSize
       /\ result.error \in BOOLEAN
<1>1. /\ MaxSize \in Nat /\ MaxCacheBytes \in Nat /\ MaxSize <= MaxCacheBytes
      /\ MaxCacheEntries \in Nat /\ MaxPendingRequests \in Nat \ {0}
  BY IconAssumption
<1>2. NotCached \in Entries /\ ~NotCached.held
  BY <1>1 DEF NotCached, Entries
<1>3. ASSUME NEW result \in Results
      PROVE  /\ result.size \in 0 .. MaxSize /\ result.error \in BOOLEAN
  <2>1. CASE result \in [size : {0}, error : {TRUE}]
    <3>1. result.size = 0 /\ result.error = TRUE
      BY <2>1
    <3>2. result.size \in 0 .. MaxSize
      BY <1>1, <3>1
    <3>3. result.error \in BOOLEAN
      BY <3>1, Zenon
    <3> QED BY <3>2, <3>3
  <2>2. CASE result \in [size : 0 .. MaxSize, error : {FALSE}]
    BY <2>2
  <2> QED BY <2>1, <2>2 DEF Results
<1>4. ASSUME NEW result \in Results
      PROVE  /\ Entry(result) \in Entries /\ Entry(result).held
             /\ Entry(result).size = result.size
  BY <1>3 DEF Entry, Entries
<1> QED BY <1>1, <1>2, <1>3, <1>4

(* The sizes of what is cached are numbers, and there are finitely many.    *)
LEMMA CachedFacts ==
  ASSUME Books
  PROVE  /\ IsFiniteSet(Cached) /\ Cached \subseteq Urls
         /\ \A u \in Urls : cache[u] \in Entries /\ cache[u].size \in Nat
<1>1. IsFiniteSet(Cached)
  BY ElementsFinite DEF Books
<1>2. \A u \in Urls : cache[u] \in Entries
  BY DEF Books
<1>3. \A e \in Entries : e.size \in Nat
  BY EntryFacts DEF Entries
<1> QED BY <1>1, <1>2, <1>3 DEF Cached

(* What is evicted makes room, or is everything. *)
LEMMA EvictedFacts ==
  ASSUME Books, NEW size \in Nat
  PROVE  LET n == Evicted(size)
         IN /\ n \in 0 .. Len(cacheOrder)
            /\ \/ n = Len(cacheOrder)
               \/ cacheBytes + size <= MaxCacheBytes + Bytes(Oldest(n))
<1> DEFINE W == {n \in 0 .. Len(cacheOrder) :
                   \/ n = Len(cacheOrder)
                   \/ /\ cacheBytes + size <= MaxCacheBytes + Bytes(Oldest(n))
                      /\ Len(cacheOrder) - n <= MaxCacheEntries}
<1>1. Len(cacheOrder) \in Nat
  BY DEF Books
<1>2. Len(cacheOrder) \in W
  BY <1>1
<1>3. W \in SUBSET (0 .. Len(cacheOrder))
  OBVIOUS
<1>4. Evicted(size) = Min(W)
  BY DEF Evicted
<1>5. Evicted(size) \in W
  <2> HIDE DEF W
  <2> QED BY <1>1, <1>2, <1>3, <1>4, LeastIsIn
<1> QED BY <1>5

(* Entries that are left in place, or in place but for their error, keep    *)
(* the books.                                                               *)
LEMMA SameEntriesKeepBooks ==
  ASSUME Books, UNCHANGED <<cache, cacheBytes>>, cacheOrder' \in Seq(Urls),
         Elements(cacheOrder') = Elements(cacheOrder), Once(cacheOrder')
  PROVE  Books'
<1>1. Cached' = Cached
  BY DEF Cached
<1>2. Elements(cacheOrder)' = Elements(cacheOrder') /\ Once(cacheOrder)' = Once(cacheOrder')
  BY DEF Elements, Once
<1>3. Sum(cache, Cached)' = Sum(cache, Cached)
  BY <1>1 DEF Sum, IsSum
<1> QED BY <1>1, <1>2, <1>3 DEF Books

(* The icon that is added is counted, and those that make room for it are   *)
(* no longer; what is left is what was held.                                *)
LEMMA AddToCacheKeepsBooks ==
  ASSUME Books, NEW u \in Urls, NEW result \in Results, AddToCache(u, result)
  PROVE  Books'
<1>1. /\ IsFiniteSet(Cached) /\ Cached \subseteq Urls
      /\ \A v \in Urls : cache[v] \in Entries /\ cache[v].size \in Nat
  BY CachedFacts
<1>2. CASE u \in Cached
  <2>1. /\ cache' = [cache EXCEPT ![u].error = @ \/ result.error]
        /\ UNCHANGED <<cacheOrder, cacheBytes>>
    BY <1>2 DEF AddToCache
  <2>2. \A v \in Urls : /\ cache'[v].size = cache[v].size
                        /\ cache'[v].held = cache[v].held
                        /\ cache'[v] \in Entries
    <3>1. cache[u] \in Entries /\ result.error \in BOOLEAN
      BY <1>1, EntryFacts
    <3>2. [cache[u] EXCEPT !.error = @ \/ result.error] \in Entries
      BY <3>1 DEF Entries
    <3> QED BY <1>1, <2>1, <3>1, <3>2 DEF Books, Entries
  <2>3. cache' \in [Urls -> Entries]
    BY <2>1, <2>2 DEF Books
  <2>4. Cached' = Cached
    BY <2>2 DEF Cached
  <2>5. Sum(cache', Cached) = Sum(cache, Cached)
    BY <1>1, <2>2, SumDependsOnSizes
  <2> QED BY <2>1, <2>3, <2>4, <2>5 DEF Books, Elements, Once
<1>3. CASE u \notin Cached
  <2> DEFINE n == Evicted(result.size)
             gone == Oldest(n)
             rest == SubSeq(cacheOrder, n + 1, Len(cacheOrder))
             kept == Elements(rest)
  <2>1. /\ cache' = [v \in Urls |-> IF v = u THEN Entry(result)
                                    ELSE IF v \in gone THEN NotCached ELSE cache[v]]
        /\ cacheOrder' = Append(rest, u)
        /\ cacheBytes' = cacheBytes + result.size - Bytes(gone)
    BY <1>3 DEF AddToCache
  <2>2. /\ result.size \in Nat /\ result.size <= MaxCacheBytes
        /\ MaxCacheBytes \in Nat /\ cacheBytes \in Nat
    BY EntryFacts DEF Books
  <2>3. /\ n \in 0 .. Len(cacheOrder)
        /\ \/ n = Len(cacheOrder)
           \/ cacheBytes + result.size <= MaxCacheBytes + Bytes(gone)
    BY <2>2, EvictedFacts
  <2>4. Bytes(gone) = Sum(cache, gone)
    BY BytesAreSum
  <2>o. gone = Elements(SubSeq(cacheOrder, 1, n))
    BY DEF Oldest
  <2> HIDE DEF n
  <2>5. /\ rest \in Seq(Urls) /\ Once(rest)
        /\ gone \cup kept = Cached /\ gone \cap kept = {}
    <3>1. cacheOrder \in Seq(Urls) /\ Once(cacheOrder)
            /\ Elements(cacheOrder) = Cached
      BY DEF Books
    <3> HIDE DEF gone
    <3> QED BY <2>3, <2>o, <3>1, CutApart
  <2>6. n = Len(cacheOrder) => kept = {}
    <3>1. cacheOrder \in Seq(Urls) /\ Len(cacheOrder) \in Nat
      BY DEF Books
    <3>2. n = Len(cacheOrder) => Len(rest) = 0
      BY <3>1
    <3> HIDE DEF rest
    <3> QED BY <3>2 DEF Elements
  <2> HIDE DEF gone, rest, kept
  <2>7. /\ IsFiniteSet(gone) /\ IsFiniteSet(kept)
        /\ gone \subseteq Urls /\ kept \subseteq Urls /\ u \notin kept
    BY <1>1, <1>3, <2>5, FS_Subset
  <2>8. \A v \in kept : cache'[v] = cache[v]
    BY <2>1, <2>5, <2>7
  <2>9. cache'[u] = Entry(result)
    BY <2>1
  <2>10. cache' \in [Urls -> Entries]
    <3>1. Entry(result) \in Entries /\ NotCached \in Entries
      BY EntryFacts
    <3> QED BY <1>1, <2>1, <3>1
  <2>11. Cached' = kept \cup {u}
    <3>1. Entry(result).held /\ ~NotCached.held
      BY EntryFacts
    <3>2. \A v \in Urls : v \in Cached <=> cache[v].held
      BY DEF Cached
    <3>3. \A v \in Urls : cache'[v].held <=> v \in kept \cup {u}
      BY <1>1, <2>1, <2>5, <3>1, <3>2
    <3>4. \A v : v \in Cached' <=> v \in Urls /\ cache'[v].held
      BY DEF Cached
    <3> QED BY <2>7, <3>3, <3>4
  <2>12. Elements(cacheOrder') = kept \cup {u} /\ Once(cacheOrder')
           /\ cacheOrder' \in Seq(Urls)
    <3>1. Elements(Append(rest, u)) = Elements(rest) \cup {u}
      BY <2>5, ElementsAppend
    <3>2. Once(Append(rest, u)) /\ Append(rest, u) \in Seq(Urls)
      BY <2>5, <2>7, OnceAppend DEF kept
    <3> QED BY <2>1, <3>1, <3>2 DEF kept
  <2>13. /\ Sum(cache, gone) \in Nat /\ Sum(cache, kept) \in Nat
         /\ cacheBytes = Sum(cache, gone) + Sum(cache, kept)
    <3>1. \A v \in gone \cup kept : cache[v].size \in Nat
      BY <1>1, <2>7
    <3>2. Sum(cache, gone) \in Nat /\ Sum(cache, kept) \in Nat
      BY <2>7, <3>1, SumIsNat
    <3>3. Sum(cache, gone \cup kept) = Sum(cache, gone) + Sum(cache, kept)
      BY <2>5, <2>7, <3>1, SumOfBoth
    <3> QED BY <2>5, <3>2, <3>3 DEF Books
  <2>14. Sum(cache', kept \cup {u}) = Sum(cache, kept) + result.size
    <3>1. \A v \in kept \cup {u} : cache'[v].size \in Nat
      BY <1>1, <2>2, <2>7, <2>8, <2>9, EntryFacts
    <3>2. Sum(cache', kept \cup {u}) = Sum(cache', kept) + cache'[u].size
      BY <2>7, <3>1, SumAddsOne
    <3>3. Sum(cache', kept) = Sum(cache, kept)
      BY <2>7, <2>8, SumDependsOnSizes
    <3>4. cache'[u].size = result.size
      BY <2>9, EntryFacts
    <3> QED BY <3>2, <3>3, <3>4
  <2>15. /\ cacheBytes' = Sum(cache, kept) + result.size
         /\ cacheBytes' \in 0 .. MaxCacheBytes
    <3>1. cacheBytes' = Sum(cache, kept) + result.size
      BY <2>1, <2>2, <2>4, <2>13
    <3>2. kept = {} => Sum(cache, kept) = 0
      BY <2>7, SumUnfolds
    <3>3. Sum(cache, kept) + result.size <= MaxCacheBytes
      BY <2>2, <2>3, <2>4, <2>6, <2>13, <3>2
    <3> QED BY <2>2, <2>13, <3>1, <3>3
  <2> QED BY <2>10, <2>11, <2>12, <2>14, <2>15 DEF Books, Elements, Once
<1> QED BY <1>2, <1>3

(* Nothing is cached at first, or after a clearing. *)
LEMMA EmptyBooks ==
  ASSUME cache' = [u \in Urls |-> NotCached], cacheOrder' = <<>>,
         cacheBytes' = 0
  PROVE  Books'
<1>1. Cached' = {}
  BY EntryFacts DEF Cached
<1>2. Sum(cache', {}) = 0
  BY FS_EmptySet, SumUnfolds
<1>3. cache' \in [Urls -> Entries] /\ MaxCacheBytes \in Nat
  BY EntryFacts
<1>4. Elements(cacheOrder') = {} /\ Once(cacheOrder')
  BY DEF Elements, Once
<1> QED BY <1>1, <1>2, <1>3, <1>4 DEF Books, Elements, Once

(* The first state has its types. *)
LEMMA InitTyped == ASSUME Init PROVE Books /\ LoopTyped
<1>1. Cached = {}
  BY EntryFacts DEF Init, Cached
<1>2. Sum(cache, {}) = 0
  BY FS_EmptySet, SumUnfolds
<1>3. cache \in [Urls -> Entries] /\ MaxCacheBytes \in Nat
  BY EntryFacts DEF Init
<1>4. Elements(cacheOrder) = {} /\ Once(cacheOrder)
  BY DEF Init, Elements, Once
<1>5. Books
  BY <1>1, <1>2, <1>3, <1>4 DEF Init, Books
<1>6. LoopTyped
  <2>1. Len(pending) <= MaxPendingRequests
    BY EntryFacts DEF Init
  <2>2. locked = FALSE /\ round = "transfers" /\ cancelled = {}
    BY DEF Init
  <2>3. response \in [Requests -> {"none", "waiting", "over"}]
    BY DEF Init
  <2> QED BY <2>1, <2>2, <2>3 DEF LoopTyped
<1> QED BY <1>5, <1>6

(* A step that does not touch the cache keeps its books. *)
LEMMA SameStoreKeepsBooks ==
  ASSUME Books, UNCHANGED store
  PROVE  Books'
<1>1. UNCHANGED <<cache, cacheBytes, cacheOrder>>
  BY DEF store
<1> QED BY <1>1, SameEntriesKeepBooks DEF Books

(* An icon that is asked for again is the last to go. *)
LEMMA QueueFetchKeepsTypes ==
  ASSUME IInv, Books, LoopTyped, NEW r \in Requests, NEW u \in Urls,
         QueueFetch(r, u)
  PROVE  Books' /\ LoopTyped'
<1>1. /\ UNCHANGED <<cancelled, cache, cacheBytes, locked, round>>
      /\ response' = [response EXCEPT ![r] = "waiting"]
  BY DEF QueueFetch, loop
<1>2. pending \in Seq(Requests) /\ MaxPendingRequests \in Nat
  BY EntryFacts DEF IInv, RequestsTyped
<1>3. Len(pending') <= MaxPendingRequests
  <2>1. CASE pending' = pending
    BY <2>1 DEF LoopTyped
  <2>2. CASE ~Full /\ pending' = Append(pending, r)
    BY <1>2, <2>2 DEF Full
  <2> QED BY <2>1, <2>2 DEF QueueFetch
<1>4. LoopTyped'
  BY <1>1, <1>3 DEF LoopTyped
<1>5. CASE UNCHANGED cacheOrder
  BY <1>1, <1>4, <1>5, SameEntriesKeepBooks DEF Books
<1>6. CASE u \in Cached /\ cacheOrder' = Append(Without(u), u)
  <2> DEFINE w == RemoveFirst(cacheOrder, u)
  <2>1. w \in Seq(Urls) /\ Once(w) /\ Elements(w) = Elements(cacheOrder) \ {u}
    BY <1>6, RemoveFirstFacts DEF Books
  <2>2. cacheOrder' = Append(w, u) /\ u \in Elements(cacheOrder)
    BY <1>6 DEF Without, Books
  <2> HIDE DEF w
  <2>3. Elements(Append(w, u)) = Elements(cacheOrder)
    <3>1. Elements(Append(w, u)) = Elements(w) \cup {u}
      BY <2>1, ElementsAppend
    <3> QED BY <2>1, <2>2, <3>1
  <2>4. Once(Append(w, u)) /\ Append(w, u) \in Seq(Urls)
    BY <2>1, OnceAppend
  <2> QED BY <1>1, <1>4, <2>2, <2>3, <2>4, SameEntriesKeepBooks
<1> QED BY <1>4, <1>5, <1>6 DEF QueueFetch

(* Each step keeps the types. *)
LEMMA NextKeepsTypes ==
  ASSUME IInv, Books, LoopTyped, [Next]_vars
  PROVE  Books' /\ LoopTyped'
<1>1. /\ pending \in Seq(Requests) /\ MaxPendingRequests \in Nat
      /\ Len(pending) <= MaxPendingRequests
  BY EntryFacts DEF IInv, RequestsTyped, LoopTyped
<1>2. ASSUME NEW r \in Requests, NEW u \in Urls, QueueFetch(r, u)
      PROVE  Books' /\ LoopTyped'
  BY <1>2, QueueFetchKeepsTypes
<1>3. ASSUME NEW r \in Requests, CancelFetch(r) \/ Destroy(r) \/ Deliver(r)
      PROVE  Books' /\ LoopTyped'
  <2>1. UNCHANGED store
    BY <1>3 DEF CancelFetch, Destroy, Deliver
  <2>2. LoopTyped'
    BY <1>3 DEF CancelFetch, Destroy, Deliver, LoopTyped, shared, loop
  <2> QED BY <2>1, <2>2, SameStoreKeepsBooks
<1>4. CASE ClearCache
  <2>1. LoopTyped'
    BY <1>4 DEF ClearCache, LoopTyped, shared, loop
  <2> QED BY <1>4, <2>1, EmptyBooks DEF ClearCache
<1>5. CASE BeginRound \/ DrainEnds \/ Exit
  <2>1. UNCHANGED store
    BY <1>5 DEF BeginRound, DrainEnds, Exit
  <2>2. LoopTyped'
    <3>1. CASE BeginRound
      BY <3>1 DEF BeginRound, LoopTyped, shared
    <3>2. CASE DrainEnds
      BY <3>2 DEF DrainEnds, LoopTyped, shared
    <3>3. CASE Exit
      BY <3>3 DEF Exit, LoopTyped, shared
    <3> QED BY <1>5, <3>1, <3>2, <3>3
  <2> QED BY <2>1, <2>2, SameStoreKeepsBooks
<1>6. CASE Drain
  <2>1. UNCHANGED <<store, round, response>> /\ round = "drain"
    BY <1>6 DEF Drain
  <2>2. Len(pending') <= MaxPendingRequests
    BY <1>1, <1>6 DEF Drain
  <2>3. cancelled' \subseteq cancelled /\ locked' \in BOOLEAN
    BY <1>6 DEF Drain
  <2>4. LoopTyped'
    BY <2>1, <2>2, <2>3 DEF LoopTyped
  <2> QED BY <2>1, <2>4, SameStoreKeepsBooks
<1>7. CASE StartFetch
  <2>1. /\ UNCHANGED <<store, pending, cancelled, round, response>>
        /\ round = "start" /\ locked' \in BOOLEAN
    BY <1>7 DEF StartFetch, shared
  <2>2. LoopTyped'
    BY <2>1 DEF LoopTyped
  <2> QED BY <2>1, <2>2, SameStoreKeepsBooks
<1>8. CASE TakeCancels
  <2>1. /\ UNCHANGED <<store, pending, response>> /\ cancelled' = {}
        /\ round' = "transfers" /\ locked' = FALSE
    BY <1>8 DEF TakeCancels
  <2>2. LoopTyped'
    BY <2>1 DEF LoopTyped
  <2> QED BY <2>1, <2>2, SameStoreKeepsBooks
<1>9. ASSUME NEW u \in Urls, NEW result \in Results, TransferDone(u, result)
      PROVE  Books' /\ LoopTyped'
  <2>1. AddToCache(u, result) /\ UNCHANGED <<shared, locked, round, response>>
    BY <1>9 DEF TransferDone
  <2>2. LoopTyped'
    BY <2>1 DEF LoopTyped, shared
  <2> QED BY <2>1, <2>2, AddToCacheKeepsBooks
<1>10. CASE UNCHANGED vars
  <2>1. UNCHANGED store /\ LoopTyped'
    BY <1>10 DEF vars, LoopTyped, shared, loop
  <2> QED BY <2>1, SameStoreKeepsBooks
<1> QED
  BY <1>2, <1>3, <1>4, <1>5, <1>6, <1>7, <1>8, <1>9, <1>10
  DEF Next, Callers, EventLoop, SomeTransferDone, SomeDelivered

(* The variables keep their types, and the cache its books, for icons of    *)
(* any sizes and any limits: the entries, the order of their use and the    *)
(* count of their bytes agree after every hit, eviction, joined transfer    *)
(* and clearing (addToCache counts the bytes that evictIfNeeded takes off). *)
THEOREM IconTypeOK == Spec => []TypeOK
<1>1. Init => IInv /\ Books /\ LoopTyped
  BY InitInv, InitTyped
<1>2. (IInv /\ Books /\ LoopTyped) /\ [Next]_vars
        => (IInv /\ Books /\ LoopTyped)'
  BY NextKeeps, NextKeepsTypes
<1>3. IInv /\ Books /\ LoopTyped => TypeOK
  <2>1. cacheBytes = Sum(cache, Cached) => cacheBytes = Bytes(Cached)
    BY BytesAreSum
  <2> QED BY <2>1 DEF IInv, RequestsTyped, Kinds, Books, Entries, LoopTyped, TypeOK
<1> QED BY <1>1, <1>2, <1>3, PTL DEF Spec
=============================================================================
