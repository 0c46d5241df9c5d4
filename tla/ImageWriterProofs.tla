-------------------------- MODULE ImageWriterProofs --------------------------
(***************************************************************************)
(* However many writes are started, cancelled and started again: never do   *)
(* two threads write that nobody has told to stop, as long as a request     *)
(* finds no signal queued; and a thread that was let go posts nothing to    *)
(* the writes after it, whatever is queued.                                 *)
(***************************************************************************)
EXTENDS ImageWriter, TLAPS

-----------------------------------------------------------------------------
(* The inductive invariant. *)

Events == [of : Threads, is : Signals]
Places == {"none", "prepare", "write", "cache", "ask", "sync", "verify",
           "readBack", "finalize", "announce", "stream", "ending",
           "finished", "deleted"}
Typed ==
  /\ state \in Busy \cup {"Idle", "Succeeded", "Failed", "Cancelled"}
  /\ selected \in {"none", "valid", "gone"}
  /\ at \in [Threads -> Places]
  /\ cancelled \in [Threads -> BOOLEAN]
  /\ listening \in [Threads -> SUBSET {"error", "rest"}]

Flags ==
  /\ waiting \in BOOLEAN /\ removal \in BOOLEAN
  /\ drainAttempted \in BOOLEAN /\ crashed \in BOOLEAN

Numbers ==
  /\ attempt \in 0 .. Writes
  /\ thread \in {0, attempt}
  /\ watchdog \in 0 .. attempt
  /\ asked \subseteq 1 .. attempt
  /\ state \in Busy => attempt # 0

Lists ==
  /\ slots \in [Threads -> Seq(Slots)]
  /\ events \in Seq(Events)
  /\ answers \in [Threads -> Seq([what : Answers, by : 0 .. Writes])]

(* What is posted, by whom and to whom. *)
Listeners == [Threads -> SUBSET {"error", "rest"}]
Loose ==
  /\ at \in [Threads -> Places] /\ listening \in Listeners
  /\ slots \in [Threads -> Seq(Slots)]
  /\ events \in Seq(Events)

(* What has not been started is nowhere yet. *)
NotYet ==
  \A t \in Threads :
    /\ at[t] = "none" =>
         ~cancelled[t] /\ listening[t] = {} /\ slots[t] = <<>>
    /\ t > attempt => at[t] = "none" /\ answers[t] = <<>>

(* Nothing else goes on while a cached copy is checked. *)
Waiting ==
  waiting =>
    /\ state = "Preparing" /\ thread = 0 /\ events = <<>>
    /\ \A t \in Threads : t = attempt => at[t] = "none" /\ answers[t] = <<>>

(* The thread in hand is the one that is heard, ... *)
InHand ==
  \A t \in Threads :
    /\ t = thread =>
         "rest" \in listening[t] /\ at[t] \notin {"none", "deleted"}
    /\ listening[t] # {} => t = thread \/ ~Alive(t)
    /\ t = attempt /\ Alive(t) => t = thread

(* ... and it is the only one that writes and has not been told to stop.   *)
Writing == {"prepare", "write", "cache", "ask", "sync", "verify", "readBack",
            "finalize", "announce"}
OneWrites ==
  \A t \in Threads :
    at[t] \in Writing /\ ~cancelled[t] => t = thread /\ state \in Busy

(* What is posted is of the last write, and says how far its thread is.    *)
Posted ==
  \A i \in 1 .. Len(events) :
    /\ events[i].of = attempt
    /\ events[i].is \in Slots =>
         /\ at[events[i].of] \in {"finished", "deleted"}
         /\ events[i].is \in ToSet(slots[events[i].of])
    /\ events[i].is = "success" =>
         at[events[i].of] \in {"stream", "ending", "finished", "deleted"}
    /\ events[i].is = "finalSync" => at[events[i].of] = "ask"
    /\ events[i].is = "authorised" =>
         /\ i = 1 /\ state \in Busy
         /\ at[events[i].of] \notin {"none", "prepare"}
         /\ "restart" \notin ToSet(slots[events[i].of])

OneSync ==
  \A i, j \in 1 .. Len(events) :
    events[i].is = "finalSync" /\ events[j].is = "finalSync" => i = j

(* What finished() is connected to comes last. *)
SlotsLast ==
  \A i, j \in 1 .. Len(events) :
    i < j /\ events[i].is \in Slots => events[j].is \in Slots

(* A thread in hand that has finished has yet to be tidied away. *)
Tidied ==
  \A t \in Threads :
    /\ Alive(t) => slots[t] # <<>> /\ slots[t][1] = "tidy"
    /\ t = thread /\ at[t] = "finished" =>
         \E i \in 1 .. Len(events) : events[i].is = "tidy"

(* A thread that has not opened the device has posted nothing. *)
Preparing ==
  \A t \in Threads :
    t = thread /\ at[t] = "prepare" =>
      state \in Busy /\ events = <<>> /\ "restart" \notin ToSet(slots[t])

(* The watchdog looks at the thread in hand, or at nobody's memory. *)
Watched ==
  watchdog # 0 =>
    \/ at[watchdog] = "deleted"
    \/ /\ watchdog = thread /\ state \in Busy
       /\ at[watchdog] # "prepare"
       /\ "restart" \notin ToSet(slots[watchdog])

IInv ==
  /\ Typed /\ Flags /\ Numbers /\ Lists /\ NotYet /\ Waiting /\ InHand
  /\ OneWrites /\ Posted /\ OneSync /\ SlotsLast /\ Tidied /\ Preparing
  /\ Watched

-----------------------------------------------------------------------------
(* What is posted and received. *)

(* What is expanded in all that follows. *)
USE DEF request, watch, threads, Others, Elsewhere

(* The bounds are numbers. *)
LEMMA Constants ==
  Writes \in Nat /\ Presses \in Nat /\ Threads = 1 .. Writes
  BY WriterAssumption DEF WriterAssumption, Threads

(* What a thread posts comes after everything else, if it is heard. *)
LEMMA Grows ==
  ASSUME events \in Seq(Events), NEW t \in Threads, NEW signal \in Signals,
         listening[t] \in SUBSET {"error", "rest"}, Post(t, signal)
  PROVE  /\ events' \in Seq(Events)
         /\ Len(events) \in Nat
         /\ \A i \in 1 .. Len(events) :
              i \in 1 .. Len(events') /\ events'[i] = events[i]
         /\ \A i \in 1 .. Len(events') :
              \/ i \in 1 .. Len(events) /\ events'[i] = events[i]
              \/ /\ i = Len(events) + 1 /\ listening[t] # {}
                 /\ events'[i].of = t /\ events'[i].is = signal
<1> DEFINE e == [of |-> t, is |-> signal]
<1>1. e \in Events
  BY DEF Events
<1>2. CASE events' = events
  BY <1>2
<1>3. CASE events' = Append(events, e) /\ listening[t] # {}
  <2>1. /\ events' \in Seq(Events) /\ Len(events') = Len(events) + 1
        /\ Len(events) \in Nat
        /\ \A i \in 1 .. Len(events) : events'[i] = events[i]
        /\ events'[Len(events) + 1] = e
    BY <1>1, <1>3
  <2> QED
    BY <1>3, <2>1
<1> QED
  BY <1>2, <1>3 DEF Post

(* What is received is the first, and the rest moves up. *)
LEMMA Shrinks ==
  ASSUME events \in Seq(Events), NEW signal, Receive(signal)
  PROVE  /\ events' \in Seq(Events)
         /\ Len(events) \in Nat /\ Len(events') \in Nat
         /\ 1 \in 1 .. Len(events)
         /\ events[1].is = signal /\ events[1].of = Sender
         /\ Sender \in Threads
         /\ \A i \in 1 .. Len(events') :
              i + 1 \in 1 .. Len(events) /\ events'[i] = events[i + 1]
         /\ \A i \in 1 .. Len(events) :
              i = 1 \/ (i - 1 \in 1 .. Len(events')
                         /\ events'[i - 1] = events[i])
<1>1. /\ events # <<>> /\ events' = Tail(events)
      /\ Head(events).is = signal
  BY DEF Receive
<1>2. /\ Len(events) \in Nat \ {0} /\ Head(events) = events[1]
      /\ events' \in Seq(Events) /\ Len(events') = Len(events) - 1
      /\ \A i \in 1 .. Len(events') : events'[i] = events[i + 1]
      /\ events[1] \in Events
  BY <1>1
<1>3. \A i \in 1 .. Len(events) : i # 1 => events[(i - 1) + 1] = events[i]
  BY <1>2
<1> QED
  BY <1>1, <1>2, <1>3 DEF Sender, Events

(* One list after the other. *)
LEMMA Joined ==
  ASSUME NEW S, NEW p \in Seq(S), NEW q \in Seq(S), NEW r, r = p \o q
  PROVE  /\ r \in Seq(S)
         /\ Len(p) \in Nat /\ Len(q) \in Nat
         /\ Len(r) = Len(p) + Len(q)
         /\ \A i \in 1 .. Len(p) : r[i] = p[i]
         /\ \A i \in 1 .. Len(r) :
              i > Len(p) => i - Len(p) \in 1 .. Len(q) /\ r[i] = q[i - Len(p)]
  OBVIOUS

(* The elements of a list. *)
LEMMA Elements ==
  ASSUME NEW S, NEW q \in Seq(S)
  PROVE  ToSet(q) = {q[i] : i \in 1 .. Len(q)}
  BY DEF ToSet

(* A thread that ends posts the slots that it is connected to. *)
LEMMA Ends ==
  ASSUME events \in Seq(Events), NEW t \in Threads,
         slots[t] \in Seq(Slots),
         listening[t] \in SUBSET {"error", "rest"}, Finish(t)
  PROVE  /\ events' \in Seq(Events)
         /\ Len(events) \in Nat
         /\ \A i \in 1 .. Len(events) :
              i \in 1 .. Len(events') /\ events'[i] = events[i]
         /\ \A i \in 1 .. Len(events') :
              \/ i \in 1 .. Len(events) /\ events'[i] = events[i]
              \/ /\ i > Len(events) /\ listening[t] # {}
                 /\ events'[i].of = t /\ events'[i].is \in Slots
                 /\ events'[i].is \in ToSet(slots[t])
         /\ "rest" \in listening[t] /\ slots[t] # <<>> =>
              \E i \in 1 .. Len(events') : events'[i].is = slots[t][1]
<1> DEFINE all == [i \in 1 .. Len(slots[t]) |-> [of |-> t, is |-> slots[t][i]]]
<1>1. /\ all \in Seq(Events) /\ Len(all) = Len(slots[t])
      /\ Len(slots[t]) \in Nat
      /\ \A i \in 1 .. Len(slots[t]) :
           all[i].of = t /\ all[i].is = slots[t][i] /\ slots[t][i] \in Slots
  BY DEF Events, Signals
<1>2. CASE "rest" \notin listening[t]
  BY <1>2 DEF Finish
<1>3. CASE "rest" \in listening[t]
  <2>1. events' = events \o all
    BY <1>3 DEF Finish
  <2> HIDE DEF all
  <2>2. /\ events' \in Seq(Events)
        /\ Len(events) \in Nat
        /\ Len(events') = Len(events) + Len(all)
        /\ \A i \in 1 .. Len(events) : events'[i] = events[i]
        /\ \A i \in 1 .. Len(events') :
             i > Len(events) => /\ i - Len(events) \in 1 .. Len(all)
                                /\ events'[i] = all[i - Len(events)]
    <3>1. events \in Seq(Events) /\ all \in Seq(Events)
      BY <1>1
    <3> QED
      BY <2>1, <3>1, Joined
  <2>3. ASSUME slots[t] # <<>>
        PROVE  \E i \in 1 .. Len(events') : events'[i].is = slots[t][1]
    <3>1. Len(slots[t]) # 0
      BY <2>3
    <3>2. /\ Len(events) + 1 \in 1 .. Len(events')
          /\ events'[Len(events) + 1] = all[1]
      BY <1>1, <2>2, <3>1
    <3>3. 1 \in 1 .. Len(slots[t])
      <4>1. Len(slots[t]) \in Nat
        BY <1>1
      <4> QED
        BY <3>1, <4>1
    <3>4. all[1].is = slots[t][1]
      BY <1>1, <3>3
    <3> QED
      BY <3>2, <3>4
  <2>4. \A i \in 1 .. Len(events) : i \in 1 .. Len(events')
    BY <1>1, <2>2
  <2>5. ASSUME NEW i \in 1 .. Len(events'), i \notin 1 .. Len(events)
        PROVE  /\ i > Len(events)
               /\ events'[i].of = t /\ events'[i].is \in Slots
               /\ events'[i].is \in ToSet(slots[t])
    <3>1. i > Len(events)
      BY <2>2, <2>5
    <3>2. /\ i - Len(events) \in 1 .. Len(slots[t])
          /\ events'[i] = all[i - Len(events)]
      BY <1>1, <2>2, <3>1
    <3>3. ToSet(slots[t]) = {slots[t][k] : k \in 1 .. Len(slots[t])}
      BY Elements
    <3> QED
      BY <1>1, <3>1, <3>2, <3>3
  <2>6. listening[t] # {}
    BY <1>3
  <2> QED
    BY <2>2, <2>3, <2>4, <2>5, <2>6
<1> QED
  BY <1>2, <1>3

(* What is said of a write, and by which. *)
Answer == [what : Answers, by : 0 .. Writes]

(* What is told is the last of the answers to its write. *)
LEMMA Tells ==
  ASSUME answers \in [Threads -> Seq(Answer)],
         NEW w, NEW what \in Answers, NEW by \in 0 .. Writes,
         Tell(w, what, by)
  PROVE  /\ answers' \in [Threads -> Seq(Answer)]
         /\ \A t \in Threads : t # w => answers'[t] = answers[t]
         /\ \A t \in Threads : t = w =>
              /\ Len(answers[t]) \in Nat
              /\ Len(answers'[t]) = Len(answers[t]) + 1
              /\ \A i \in 1 .. Len(answers[t]) :
                   answers'[t][i] = answers[t][i]
              /\ answers'[t][Len(answers[t]) + 1].what = what
              /\ answers'[t][Len(answers[t]) + 1].by = by
<1> DEFINE a == [what |-> what, by |-> by]
<1>1. a \in Answer
  BY DEF Answer
<1>2. answers' = [answers EXCEPT ![w] = Append(answers[w], a)]
  BY DEF Tell
<1>3. a.what = what /\ a.by = by
  OBVIOUS
<1> HIDE DEF a
<1>4. ASSUME NEW t \in Threads, t # w
      PROVE  answers'[t] = answers[t]
  BY <1>2, <1>4
<1>5. ASSUME NEW t \in Threads, t = w
      PROVE  answers'[t] = Append(answers[t], a)
  BY <1>2, <1>5
<1>6. ASSUME NEW t \in Threads
      PROVE  /\ Append(answers[t], a) \in Seq(Answer)
             /\ Len(answers[t]) \in Nat
             /\ Len(Append(answers[t], a)) = Len(answers[t]) + 1
             /\ \A i \in 1 .. Len(answers[t]) :
                  Append(answers[t], a)[i] = answers[t][i]
             /\ Append(answers[t], a)[Len(answers[t]) + 1] = a
  BY <1>1
<1>7. answers' \in [Threads -> Seq(Answer)]
  BY <1>2, <1>6
<1> QED
  BY <1>3, <1>4, <1>5, <1>6, <1>7

(* The other writes are not answered. *)
LEMMA TellsOne ==
  ASSUME answers \in [Threads -> Seq(Answer)],
         NEW w, NEW what, NEW by, Tell(w, what, by)
  PROVE  \A t \in Threads : t # w => answers'[t] = answers[t]
<1> DEFINE a == Append(answers[w], [what |-> what, by |-> by])
<1>1. answers' = [answers EXCEPT ![w] = a]
  BY DEF Tell
<1> HIDE DEF a
<1> QED
  BY <1>1

(* A thread that is told to cancel has one slot more. *)
LEMMA Connects ==
  ASSUME slots \in [Threads -> Seq(Slots)], NEW t \in Threads,
         NEW slot \in Slots, CancelDownload(t, slot)
  PROVE  /\ slots' \in [Threads -> Seq(Slots)]
         /\ \A u \in Threads : u # t => slots'[u] = slots[u]
         /\ ToSet(slots'[t]) = ToSet(slots[t]) \cup {slot}
         /\ cancelled' = [cancelled EXCEPT ![t] = TRUE]
         /\ slots[t] # <<>> => slots'[t] # <<>> /\ slots'[t][1] = slots[t][1]
<1>1. /\ slots' = [slots EXCEPT ![t] = Append(slots[t], slot)]
      /\ slots[t] \in Seq(Slots)
  BY DEF CancelDownload
<1>2. /\ Append(slots[t], slot) \in Seq(Slots)
      /\ Len(slots[t]) \in Nat
      /\ Len(Append(slots[t], slot)) = Len(slots[t]) + 1
      /\ \A i \in 1 .. Len(slots[t]) : Append(slots[t], slot)[i] = slots[t][i]
      /\ Append(slots[t], slot)[Len(slots[t]) + 1] = slot
  BY <1>1
<1>3. slots'[t] = Append(slots[t], slot)
  BY <1>1
<1>4. \A x : x \in ToSet(slots'[t]) <=> x \in ToSet(slots[t]) \/ x = slot
  <2>1. /\ ToSet(slots[t]) = {slots[t][i] : i \in 1 .. Len(slots[t])}
        /\ ToSet(slots'[t]) = {slots'[t][i] : i \in 1 .. Len(slots'[t])}
    <3>1. slots[t] \in Seq(Slots) /\ slots'[t] \in Seq(Slots)
      BY <1>1, <1>2, <1>3
    <3> QED
      BY <3>1, Elements
  <2>2. /\ Len(slots'[t]) = Len(slots[t]) + 1 /\ Len(slots[t]) \in Nat
        /\ \A i \in 1 .. Len(slots[t]) : slots'[t][i] = slots[t][i]
        /\ slots'[t][Len(slots[t]) + 1] = slot
    BY <1>2, <1>3
  <2>3. /\ Len(slots'[t]) \in 1 .. Len(slots'[t])
        /\ \A i \in 1 .. Len(slots[t]) : i \in 1 .. Len(slots'[t])
        /\ \A i \in 1 .. Len(slots'[t]) :
             i \in 1 .. Len(slots[t]) \/ i = Len(slots[t]) + 1
    BY <2>2
  <2> QED
    BY <2>1, <2>2, <2>3
<1>5. \A u \in Threads : u # t => slots'[u] = slots[u]
  BY <1>1
<1>6. slots' \in [Threads -> Seq(Slots)]
  BY <1>1, <1>2
<1>7. slots[t] # <<>> => slots'[t] # <<>> /\ slots'[t][1] = slots[t][1]
  <2>1. ASSUME slots[t] # <<>>
        PROVE  1 \in 1 .. Len(slots[t]) /\ Len(slots'[t]) # 0
    BY <1>2, <1>3, <2>1
  <2> QED
    BY <1>2, <1>3, <2>1
<1> QED
  BY <1>4, <1>5, <1>6, <1>7 DEF CancelDownload

-----------------------------------------------------------------------------
(* What the invariant says where a step begins. *)

(* The numbers name threads. *)
LEMMA Named ==
  ASSUME IInv
  PROVE  /\ thread # 0 => thread = attempt
         /\ attempt # 0 => attempt \in Threads
         /\ watchdog # 0 => watchdog \in Threads /\ attempt # 0
         /\ state \in Busy => attempt # 0
         /\ 0 \notin Threads
         /\ attempt \in Nat
         /\ \A t \in Threads : t > attempt => t # attempt
  BY Constants DEF IInv, Numbers

(* What is heard is of the last write, and tells how far it is. *)
LEMMA Heard ==
  ASSUME IInv, NEW signal, Receive(signal)
  PROVE  /\ Sender = attempt /\ Sender \in Threads /\ attempt # 0
         /\ attempt \in Threads
         /\ events # <<>> /\ ~waiting
         /\ signal \in Slots =>
              /\ at[attempt] \in {"finished", "deleted"}
              /\ signal \in ToSet(slots[attempt])
         /\ signal = "success" =>
              at[attempt] \in {"stream", "ending", "finished", "deleted"}
         /\ signal = "finalSync" => at[attempt] = "ask"
         /\ signal = "authorised" =>
              /\ state \in Busy
              /\ at[attempt] \notin {"none", "prepare"}
              /\ "restart" \notin ToSet(slots[attempt])
<1>1. events \in Seq(Events)
  BY DEF IInv, Lists
<1>2. /\ 1 \in 1 .. Len(events)
      /\ events[1].is = signal /\ events[1].of = Sender
      /\ Sender \in Threads
  BY <1>1, Shrinks
<1>3. Sender = attempt
  BY <1>2 DEF IInv, Posted
<1>4. events # <<>>
  BY DEF Receive
<1>5. attempt # 0
  BY <1>2, <1>3, Named
<1>6. ~waiting
  BY <1>4 DEF IInv, Waiting
<1>7. /\ signal \in Slots =>
           /\ at[attempt] \in {"finished", "deleted"}
           /\ signal \in ToSet(slots[attempt])
      /\ signal = "success" =>
           at[attempt] \in {"stream", "ending", "finished", "deleted"}
      /\ signal = "finalSync" => at[attempt] = "ask"
      /\ signal = "authorised" =>
           /\ state \in Busy
           /\ at[attempt] \notin {"none", "prepare"}
           /\ "restart" \notin ToSet(slots[attempt])
  BY <1>2, <1>3 DEF IInv, Posted
<1> QED
  BY <1>2, <1>3, <1>4, <1>5, <1>6, <1>7

(* What is heard of a success is of no other write. *)
LEMMA SuccessDoes ==
  ASSUME IInv, HearSuccess
  PROVE  /\ Sender = attempt /\ attempt \in Threads /\ ~waiting
         /\ at[attempt] \in {"stream", "ending", "finished", "deleted"}
         /\ UNCHANGED <<waiting, request, thread, at, cancelled, listening,
                        slots>>
         /\ \A t \in Threads : t # attempt => answers'[t] = answers[t]
         /\ \/ /\ state \in {"Failed", "Cancelled", "Cancelling"}
               /\ UNCHANGED <<state, watchdog, answers>>
            \/ /\ state \notin {"Failed", "Cancelled", "Cancelling"}
               /\ state' = "Succeeded" /\ watchdog' = 0
               /\ Tell(attempt, "success", attempt)
<1>1. Receive("success") /\ OnSuccess(Sender)
  BY DEF HearSuccess
<1>2. /\ Sender = attempt /\ attempt \in Threads /\ ~waiting
      /\ at[attempt] \in {"stream", "ending", "finished", "deleted"}
  BY <1>1, Heard
<1>3. answers \in [Threads -> Seq(Answer)]
  BY DEF IInv, Lists, Answer
<1>4. \A t \in Threads : t # attempt => answers'[t] = answers[t]
  BY <1>1, <1>3, TellsOne DEF OnSuccess
<1>5. UNCHANGED <<waiting, request, thread, at, cancelled, listening, slots>>
  BY DEF HearSuccess
<1> QED
  BY <1>1, <1>2, <1>4, <1>5 DEF OnSuccess

(* An answer that was awaited is of no other write. *)
LEMMA OnCancelledDoes ==
  ASSUME IInv, OnCancelled
  PROVE  /\ Sender = attempt /\ attempt \in Threads /\ ~waiting
         /\ at[attempt] \in {"finished", "deleted"}
         /\ UNCHANGED <<waiting, attempt, asked, at, cancelled, listening,
                        slots>>
         /\ thread' = 0 /\ watchdog' = 0
         /\ state' \in {"Idle", "Cancelled"}
         /\ \A t \in Threads : t # attempt => answers'[t] = answers[t]
         /\ \/ Tell(attempt, "removed", attempt)
            \/ Tell(attempt, "cancelled", attempt)
<1>1. Receive("onCancelled") /\ EmitCancelled(removal, Sender)
  BY DEF OnCancelled
<1>2. /\ Sender = attempt /\ attempt \in Threads /\ ~waiting
      /\ at[attempt] \in {"finished", "deleted"}
  <2>1. "onCancelled" \in Slots
    BY DEF Slots
  <2> QED
    BY <1>1, <2>1, Heard
<1>3. answers \in [Threads -> Seq(Answer)]
  BY DEF IInv, Lists, Answer
<1>4. \/ Tell(attempt, "removed", attempt)
      \/ Tell(attempt, "cancelled", attempt)
  BY <1>1, <1>2 DEF EmitCancelled
<1>5. \A t \in Threads : t # attempt => answers'[t] = answers[t]
  BY <1>3, <1>4, TellsOne
<1>6. UNCHANGED <<waiting, attempt, asked, at, cancelled, listening, slots>>
  BY DEF OnCancelled
<1>7. thread' = 0 /\ watchdog' = 0 /\ state' \in {"Idle", "Cancelled"}
  BY <1>1, <1>2, Named DEF OnCancelled, EmitCancelled
<1> QED
  BY <1>2, <1>4, <1>5, <1>6, <1>7

(* When nothing is on its way the thread in hand runs. *)
LEMMA InHandRuns ==
  ASSUME IInv, events = <<>>, thread # 0
  PROVE  Alive(thread) /\ thread \in Threads /\ thread = attempt
<1>1. thread \in Threads /\ thread = attempt
  BY Named
<1>2. at[thread] \notin {"none", "deleted"}
  BY <1>1 DEF IInv, InHand
<1>3. at[thread] # "finished"
  <2>1. Len(events) = 0
    OBVIOUS
  <2>2. \A i \in 1 .. Len(events) : FALSE
    BY <2>1
  <2> QED
    BY <1>1, <2>2 DEF IInv, Tidied
<1> QED
  BY <1>1, <1>2, <1>3 DEF Alive

(* Without a backlog nothing is on its way when the user acts. *)
LEMMA NothingQueued ==
  ASSUME Backlog = 0, IInv, Input
  PROVE  events = <<>>
<1>1. events \in Seq(Events)
  BY DEF IInv, Lists
<1>2. Len(events) \in Nat /\ Len(events) <= 0
  BY <1>1 DEF Input
<1> QED
  BY <1>1, <1>2

(* A thread that is not in hand is not heard. *)
LEMMA Unheard ==
  ASSUME IInv, NEW t \in Threads, Alive(t), t # thread
  PROVE  listening[t] = {}
  BY DEF IInv, InHand

-----------------------------------------------------------------------------
(* What the requests do. *)

(* A new write is begun with nothing on its way. *)
Fresh(t) ==
  /\ at[t] = "none" /\ answers[t] = <<>> /\ slots[t] = <<>>
  /\ listening[t] = {} /\ ~cancelled[t] /\ t # thread
Launched(t) ==
  /\ at'[t] = "prepare" /\ listening'[t] = {"error", "rest"}
  /\ slots'[t] = <<"tidy">> /\ answers'[t] = <<>>
  /\ t = thread' /\ state' = "Writing"
Kept(t) == at'[t] = at[t] /\ slots'[t] = slots[t]

(* A new write has no restart waiting in its slots. *)
LEMMA FirstSlot == "restart" \notin ToSet(<<"tidy">>)
<1>1. <<"tidy">> \in Seq({"tidy"}) /\ Len(<<"tidy">>) = 1
  OBVIOUS
<1>2. ToSet(<<"tidy">>) = {<<"tidy">>[i] : i \in 1 .. 1}
  BY <1>1, Elements
<1> QED
  BY <1>2

(* A write is begun as a new attempt, with nothing on its way. *)
LEMMA StartWriteDoes ==
  ASSUME Backlog = 0, IInv, StartWrite
  PROVE  /\ attempt' = attempt + 1 /\ attempt' \in Threads
         /\ attempt' # attempt /\ attempt' # 0 /\ attempt \in Nat
         /\ \A t \in Threads : t > attempt' => t > attempt /\ t # attempt'
         /\ \A t \in Threads : t = attempt' => Fresh(t)
         /\ events = <<>> /\ state \notin Busy /\ ~waiting
         /\ UNCHANGED <<removal, selected, asked, watch, events, crashed,
                        cancelled>>
         /\ \A t \in Threads : t # attempt' =>
              /\ Kept(t) /\ answers'[t] = answers[t]
              /\ listening'[t] = IF t = thread THEN {} ELSE listening[t]
         /\ \/ ~waiting' /\ thread' = attempt' /\ state' = "Writing"
               /\ \A t \in Threads : t = attempt' => Launched(t)
            \/ /\ thread' = 0
               /\ \A t \in Threads : t = attempt' =>
                    at'[t] = "none" /\ listening'[t] = {} /\ slots'[t] = <<>>
               /\ \/ state' \in {"Failed", "Preparing"} /\ ~waiting'
                     /\ Tell(attempt', "error", 0)
                  \/ state' = "Preparing" /\ waiting' /\ UNCHANGED answers
<1>1. /\ attempt' = attempt + 1 /\ attempt' \in Threads
      /\ attempt' # attempt /\ attempt' # 0
      /\ attempt \in Nat
      /\ \A t \in Threads : t > attempt' => t > attempt /\ t # attempt'
      /\ \A t \in Threads : t = attempt' => t > attempt /\ t # thread
      /\ attempt + 1 \in Threads
  BY Constants DEF StartWrite, IInv, Numbers
<1>2. \A t \in Threads : t = attempt' => Fresh(t)
  BY <1>1 DEF IInv, NotYet, Fresh
<1>3. events = <<>> /\ state \notin Busy
  BY NothingQueued DEF StartWrite
<1>4. ~waiting
  BY <1>3 DEF IInv, Waiting, Busy
<1>5. UNCHANGED <<removal, selected, asked, watch, events, crashed, cancelled>>
  BY DEF StartWrite, Launch, NoMemory, DoNotLaunch
<1>6. \A t \in Threads :
        Disconnect(thread)[t] = IF t = thread THEN {} ELSE listening[t]
  <2>1. listening \in [Threads -> SUBSET {"error", "rest"}]
    BY DEF IInv, Typed
  <2>2. thread = 0 \/ thread \in Threads
    BY Named
  <2> QED
    BY <2>1, <2>2, Named DEF Disconnect
<1>7. /\ at \in [Threads -> Places] /\ slots \in [Threads -> Seq(Slots)]
      /\ DOMAIN Disconnect(thread) = Threads
  BY DEF IInv, Typed, Lists, Disconnect
<1>8. CASE Launch(attempt + 1, Disconnect(thread)) /\ UNCHANGED waiting
  <2>1. ASSUME NEW t \in Threads, t # attempt'
        PROVE  /\ Kept(t) /\ answers'[t] = answers[t]
               /\ listening'[t] = IF t = thread THEN {} ELSE listening[t]
    BY <1>1, <1>6, <1>7, <1>8, <2>1 DEF Launch, Kept
  <2>2. ASSUME NEW t \in Threads, t = attempt'
        PROVE  Launched(t)
    BY <1>1, <1>2, <1>7, <1>8, <2>2 DEF Launch, Launched, Fresh
  <2>3. thread' = attempt' /\ state' = "Writing" /\ ~waiting'
    BY <1>1, <1>4, <1>8 DEF Launch
  <2> QED
    BY <1>1, <1>2, <1>3, <1>4, <1>5, <2>1, <2>2, <2>3
<1>9. CASE DoNotLaunch(Disconnect(thread))
  <2>1. \/ state' \in {"Failed", "Preparing"} /\ ~waiting'
           /\ Tell(attempt', "error", 0)
        \/ state' = "Preparing" /\ waiting' /\ UNCHANGED answers
    BY <1>1, <1>4, <1>9 DEF StartWrite, NoMemory, Launch, DoNotLaunch
  <2>2. ASSUME NEW t \in Threads, t # attempt'
        PROVE  answers'[t] = answers[t]
    <3>1. CASE Tell(attempt', "error", 0)
      BY <2>2, <3>1 DEF IInv, Lists, Tell
    <3>2. CASE UNCHANGED answers
      BY <3>2
    <3> QED
      BY <2>1, <3>1, <3>2
  <2>3. /\ thread' = 0 /\ UNCHANGED <<at, slots>>
        /\ listening' = Disconnect(thread)
    BY <1>9 DEF DoNotLaunch
  <2> QED
    BY <1>1, <1>2, <1>3, <1>4, <1>5, <1>6, <2>1, <2>2, <2>3
    DEF Fresh, Kept
<1> QED
  BY <1>8, <1>9 DEF StartWrite, NoMemory

(* The write that waited for the check is started at last. *)
LEMMA LaunchDoes ==
  ASSUME IInv, waiting, Launch(attempt, listening)
  PROVE  /\ thread' = attempt /\ state' = "Writing"
         /\ UNCHANGED <<cancelled, answers>>
         /\ \A t \in Threads : t = attempt => Fresh(t) /\ Launched(t)
         /\ \A t \in Threads : t # attempt =>
              Kept(t) /\ listening'[t] = listening[t]
<1>1. /\ at \in [Threads -> Places] /\ slots \in [Threads -> Seq(Slots)]
      /\ listening \in [Threads -> SUBSET {"error", "rest"}]
  BY DEF IInv, Typed, Lists
<1>2. \A t \in Threads : t = attempt => Fresh(t)
  BY Named DEF IInv, Waiting, NotYet, Fresh
<1>3. ASSUME NEW t \in Threads, t = attempt
      PROVE  Launched(t)
  BY <1>1, <1>2, <1>3 DEF Launch, Launched, Fresh
<1>4. ASSUME NEW t \in Threads, t # attempt
      PROVE  Kept(t) /\ listening'[t] = listening[t]
  BY <1>1, <1>4 DEF Launch, Kept
<1>5. thread' = attempt /\ state' = "Writing"
                        /\ UNCHANGED <<cancelled, answers>>
  BY DEF Launch
<1> QED
  BY <1>2, <1>3, <1>4, <1>5

(* A cancellation starts the write that was waiting, or tells the thread in *)
(* hand, or answers at once.                                                *)
Cancelled(listeners) ==
  /\ UNCHANGED <<attempt, watch, events, crashed>>
  /\ asked' = asked \cup {attempt}
  /\ ~waiting'
  /\ \/ /\ waiting /\ thread = 0 /\ thread' = attempt /\ state' = "Writing"
        /\ UNCHANGED <<cancelled, answers>>
        /\ \A t \in Threads : t = attempt => Fresh(t) /\ Launched(t)
        /\ \A t \in Threads : t # attempt =>
             Kept(t) /\ listening'[t] = listening[t]
     \/ /\ waiting /\ thread = 0 /\ state' = "Failed"
        /\ Tell(attempt, "error", 0)
        /\ UNCHANGED <<thread, at, cancelled, listening, slots>>
     \/ /\ thread = attempt /\ thread' = attempt /\ state' = "Cancelling"
        /\ Alive(attempt)
        /\ CancelDownload(attempt, "onCancelled")
        /\ at' = at /\ UNCHANGED answers /\ listening' = listeners
     \/ /\ thread = 0 /\ thread' = 0 /\ state' \in {"Idle", "Cancelled"}
        /\ \/ Tell(attempt, "removed", 0) \/ Tell(attempt, "cancelled", 0)
        /\ UNCHANGED <<at, cancelled, slots>> /\ listening' = listeners

(* A cancellation reaches the thread in hand, or ends the check. *)
LEMMA CancelDoes ==
  ASSUME IInv, events = <<>>, NEW flag, NEW device, NEW listeners,
         CancelWrite(flag, device, listeners)
  PROVE  Cancelled(listeners)
<1>1. CASE waiting
  <2>1. thread = 0
    BY <1>1 DEF IInv, Waiting
  <2>2. CASE Launch(attempt, listening)
    BY <1>1, <2>1, <2>2, LaunchDoes
    DEF CancelWrite, SkipCacheVerification, Cancelled
  <2>3. CASE NoMemory(attempt, listening)
    BY <1>1, <2>1, <2>3
    DEF CancelWrite, SkipCacheVerification, Cancelled, NoMemory, DoNotLaunch
  <2> QED
    BY <1>1, <2>2, <2>3 DEF CancelWrite, SkipCacheVerification
<1>2. CASE ~waiting /\ thread # 0
  BY <1>2, InHandRuns DEF CancelWrite, Cancelled
<1>3. CASE ~waiting /\ thread = 0
  BY <1>3 DEF CancelWrite, Cancelled, AnswerAtOnce, EmitCancelled
<1> QED
  BY <1>1, <1>2, <1>3

(* ... as the user asks for it, ... *)
LEMMA UserCancelsDoes ==
  ASSUME Backlog = 0, IInv, UserCancels
  PROVE  /\ events = <<>> /\ state \in Busy /\ attempt \in Threads
         /\ Cancelled(listening)
  BY NothingQueued, CancelDoes, Named DEF UserCancels

(* A device that is gone cancels a write; its errors are not heard then. *)
DeafToErrors ==
  [t \in Threads |-> IF t = thread THEN listening[t] \ {"error"}
                                   ELSE listening[t]]
(* ... and as the removal of the device does. *)
LEMMA RemovalDoes ==
  ASSUME Backlog = 0, IInv, OnSelectedDeviceRemoved
  PROVE  /\ events = <<>>
         /\ \/ state \in Busy /\ attempt \in Threads /\ Cancelled(DeafToErrors)
            \/ /\ state \notin Busy
               /\ UNCHANGED <<state, waiting, removal, attempt, asked, thread,
                              watch, threads, events, answers, crashed>>
<1>1. CASE state \in Busy
  BY <1>1, NothingQueued, CancelDoes, Named
  DEF OnSelectedDeviceRemoved, DeafToErrors
<1>2. CASE state \notin Busy
  BY <1>2, NothingQueued DEF OnSelectedDeviceRemoved
<1> QED
  BY <1>1, <1>2

(* An error fails the write, and stops the thread in hand. *)
LEMMA ErrorDoes ==
  ASSUME IInv, NEW by, OnError(by)
  PROVE  \/ Deaf /\ UNCHANGED <<state, answers, cancelled>>
         \/ /\ ~Deaf /\ state' = "Failed" /\ Tell(attempt, "error", by)
            /\ cancelled' \in [Threads -> BOOLEAN]
            /\ \A t \in Threads :
                 cancelled'[t] <=> cancelled[t] \/ (t = thread /\ Alive(t))
            /\ \A t \in Threads : t # attempt => answers'[t] = answers[t]
<1>1. CASE Deaf
  BY <1>1 DEF OnError
<1>2. CASE ~Deaf
  <2>1. cancelled' = [t \in Threads |->
                        cancelled[t] \/ (t = thread /\ Alive(t))]
    BY <1>2 DEF OnError
  <2>2. cancelled \in [Threads -> BOOLEAN]
    BY DEF IInv, Typed
  <2>3. cancelled' \in [Threads -> BOOLEAN]
    BY <2>1, <2>2 DEF Alive
  <2>4. Tell(attempt, "error", by)
    BY <1>2 DEF OnError
  <2>5. \A t \in Threads : t # attempt => answers'[t] = answers[t]
    <3>1. answers \in [Threads -> Seq(Answer)]
      BY DEF IInv, Lists, Answer
    <3> QED
      BY <2>4, <3>1, TellsOne
  <2> QED
    BY <1>2, <2>1, <2>3, <2>4, <2>5 DEF OnError
<1> QED
  BY <1>1, <1>2

(* The check of the cached copy ends. *)
LEMMA CheckedDoes ==
  ASSUME Backlog = 0, IInv, OnCacheVerificationComplete
  PROVE  /\ events = <<>> /\ waiting /\ ~waiting' /\ thread = 0
         /\ attempt \in Threads /\ state = "Preparing"
         /\ UNCHANGED <<removal, selected, attempt, asked, drainAttempted,
                        events, crashed>>
         /\ watchdog' \in {0, watchdog}
         /\ UNCHANGED cancelled
         /\ \A t \in Threads : t # attempt => answers'[t] = answers[t]
         /\ \/ /\ thread' = attempt /\ state' = "Writing"
               /\ UNCHANGED <<answers, watchdog>>
               /\ \A t \in Threads : t = attempt => Fresh(t) /\ Launched(t)
               /\ \A t \in Threads : t # attempt =>
                    Kept(t) /\ listening'[t] = listening[t]
            \/ /\ thread' = 0 /\ UNCHANGED <<at, listening, slots>>
               /\ \/ state' = "Failed" /\ UNCHANGED watchdog
                     /\ Tell(attempt, "error", 0)
                  \/ state' = "Failed" /\ watchdog' = 0
                     /\ Tell(attempt, "error", 0)
                  \/ UNCHANGED <<state, answers, watchdog>>
<1>1. /\ events = <<>> /\ waiting /\ ~waiting' /\ thread = 0
      /\ state = "Preparing"
      /\ UNCHANGED <<removal, selected, attempt, asked, drainAttempted,
                     events, crashed>>
  BY DEF OnCacheVerificationComplete, IInv, Waiting
<1>2. attempt \in Threads
  BY <1>1, Named DEF Busy
<1>3. \A t \in Threads : t # attempt => answers'[t] = answers[t]
  <2>1. answers \in [Threads -> Seq(Answer)]
    BY DEF IInv, Lists, Answer
  <2>2. UNCHANGED answers \/ Tell(attempt, "error", 0)
    BY DEF OnCacheVerificationComplete, Launch, NoMemory, OnError
  <2> QED
    BY <2>1, <2>2, TellsOne
<1>4. CASE Launch(attempt, listening) /\ UNCHANGED watchdog
  BY <1>1, <1>2, <1>3, <1>4, LaunchDoes
<1>5. CASE NoMemory(attempt, listening) /\ UNCHANGED watchdog
  BY <1>1, <1>2, <1>3, <1>5 DEF NoMemory, DoNotLaunch
<1>6. CASE /\ OnError(0) /\ StopWatchdog(~Deaf)
           /\ UNCHANGED <<thread, at, listening, slots>>
  <2>1. UNCHANGED cancelled
    <3>1. \A t \in Threads : ~(t = thread /\ Alive(t))
      BY <1>1, Named
    <3>2. CASE Deaf
      BY <1>6, <3>2 DEF OnError
    <3>3. CASE ~Deaf
      <4>1. cancelled' = [t \in Threads |->
                            cancelled[t] \/ (t = thread /\ Alive(t))]
        BY <1>6, <3>3 DEF OnError
      <4>2. cancelled \in [Threads -> BOOLEAN]
        BY DEF IInv, Typed
      <4>3. \A t \in Threads : cancelled'[t] = cancelled[t]
        BY <3>1, <4>1, <4>2
      <4> QED
        BY <4>1, <4>2, <4>3
    <3> QED
      BY <3>2, <3>3
  <2> QED
    BY <1>1, <1>2, <1>3, <1>6, <2>1 DEF OnError, StopWatchdog
<1> QED
  BY <1>4, <1>5, <1>6 DEF OnCacheVerificationComplete

(* The watchdog gives up on the thread in hand, or starts it again. *)
LEMMA TimeOutDoes ==
  ASSUME Backlog = 0, IInv, CheckTimesOut
  PROVE  /\ events = <<>> /\ thread = attempt /\ attempt \in Threads
         /\ ~waiting /\ Alive(thread) /\ OnError(0) /\ watchdog' = 0
         /\ UNCHANGED <<waiting, removal, request, thread, drainAttempted, at,
                        listening, slots, events, crashed>>
<1>1. events = <<>> /\ watchdog # 0 /\ watchdog = thread
  BY NothingQueued DEF CheckTimesOut, IInv, Watched
<1>2. thread = attempt /\ attempt \in Threads /\ Alive(thread)
  BY <1>1, InHandRuns
<1>3. ~waiting
  BY <1>1 DEF IInv, Waiting
<1> QED
  BY <1>1, <1>2, <1>3 DEF CheckTimesOut

(* The watchdog restarts the attempt in hand, which is writing. *)
LEMMA RestartsDoes ==
  ASSUME Backlog = 0, IInv, CheckRestarts
  PROVE  /\ events = <<>> /\ thread = attempt /\ attempt \in Threads
         /\ ~waiting /\ at[attempt] = "write" /\ watchdog' = 0
         /\ CancelDownload(attempt, "restart")
         /\ UNCHANGED <<state, waiting, removal, request, thread,
                        drainAttempted, at, listening, events, answers,
                        crashed>>
<1>1. events = <<>> /\ watchdog # 0 /\ watchdog = thread
  BY NothingQueued DEF CheckRestarts
<1>2. thread = attempt /\ attempt \in Threads
  BY <1>1, InHandRuns
<1>3. ~waiting
  BY <1>1 DEF IInv, Waiting
<1> QED
  BY <1>1, <1>2, <1>3 DEF CheckRestarts

(* A thread that is told to stop has the flag, and one slot more. *)
LEMMA Stops ==
  ASSUME IInv, attempt \in Threads, NEW slot \in Slots,
         CancelDownload(attempt, slot)
  PROVE  /\ slots' \in [Threads -> Seq(Slots)]
         /\ \A u \in Threads : u # attempt => slots'[u] = slots[u]
         /\ ToSet(slots'[attempt]) = ToSet(slots[attempt]) \cup {slot}
         /\ slots[attempt] # <<>> =>
              slots'[attempt] # <<>> /\ slots'[attempt][1] = slots[attempt][1]
         /\ cancelled' \in [Threads -> BOOLEAN]
         /\ \A t \in Threads : cancelled'[t] <=> cancelled[t] \/ t = attempt
<1>1. /\ slots \in [Threads -> Seq(Slots)]
      /\ cancelled \in [Threads -> BOOLEAN]
  BY DEF IInv, Lists, Typed
<1>2. cancelled' = [cancelled EXCEPT ![attempt] = TRUE]
  BY <1>1, Connects
<1>3. cancelled' \in [Threads -> BOOLEAN]
  BY <1>1, <1>2
<1>4. \A t \in Threads : cancelled'[t] <=> cancelled[t] \/ t = attempt
  BY <1>1, <1>2
<1> QED
  BY <1>1, <1>3, <1>4, Connects

(* A launch leaves threads and listeners of their types. *)
LEMMA LaunchTyped ==
  ASSUME Typed, NEW write, NEW listeners \in Listeners,
         Launch(write, listeners) \/ NoMemory(write, listeners)
           \/ DoNotLaunch(listeners)
  PROVE  /\ at' \in [Threads -> Places]
         /\ listening' \in [Threads -> SUBSET {"error", "rest"}]
         /\ cancelled' = cancelled
<1>1. CASE Launch(write, listeners)
  <2>1. at' = [at EXCEPT ![write] = "prepare"] /\ at \in [Threads -> Places]
    BY <1>1 DEF Launch, Typed
  <2>2. "prepare" \in Places
    BY DEF Places
  <2>3. at' \in [Threads -> Places]
    BY <2>1, <2>2
  <2>4. listening' = [listeners EXCEPT ![write] = {"error", "rest"}]
    BY <1>1 DEF Launch
  <2>5. listening' \in [Threads -> SUBSET {"error", "rest"}]
    BY <2>4 DEF Listeners
  <2> QED
    BY <1>1, <2>3, <2>5 DEF Launch
<1>2. CASE DoNotLaunch(listeners)
  <2>1. at \in [Threads -> Places]
    BY DEF Typed
  <2> QED
    BY <1>2, <2>1 DEF DoNotLaunch, Listeners
<1> QED
  BY <1>1, <1>2 DEF NoMemory

(* So does the start of a write, ... *)
LEMMA StartTyped ==
  ASSUME IInv, StartWrite
  PROVE  Typed' /\ Flags'
<1>1. Typed /\ Flags
  BY DEF IInv
<1>2. Disconnect(thread) \in Listeners
  <2>1. listening \in [Threads -> SUBSET {"error", "rest"}]
    BY <1>1 DEF Typed
  <2> QED
    BY <2>1 DEF Disconnect, Listeners
<1>3. /\ at' \in [Threads -> Places]
      /\ listening' \in [Threads -> SUBSET {"error", "rest"}]
      /\ cancelled' = cancelled
  BY <1>1, <1>2, LaunchTyped DEF StartWrite
<1>4. state' \in {"Writing", "Failed", "Preparing"} /\ selected' = selected
  BY DEF StartWrite, Launch, NoMemory
<1>5. waiting' \in BOOLEAN /\ UNCHANGED <<removal, drainAttempted, crashed>>
  BY <1>1 DEF StartWrite, Flags
<1>6. Typed'
  BY <1>1, <1>3, <1>4 DEF Typed, Busy
<1> QED
  BY <1>1, <1>5, <1>6 DEF Flags

(* ... a cancellation, ... *)
LEMMA CancelTyped ==
  ASSUME IInv, NEW flag \in BOOLEAN, NEW device \in {"none", "valid", "gone"},
         NEW listeners \in Listeners, CancelWrite(flag, device, listeners)
  PROVE  Typed' /\ Flags'
<1>1. Typed /\ Flags
  BY DEF IInv
<1>2. /\ state' \in {"Writing", "Failed", "Cancelling", "Idle", "Cancelled"}
      /\ selected' \in {device, "none", selected}
  BY DEF CancelWrite, SkipCacheVerification, Launch, NoMemory, AnswerAtOnce,
         EmitCancelled
<1>3. /\ waiting' \in BOOLEAN /\ removal' \in BOOLEAN
      /\ UNCHANGED <<drainAttempted, crashed>>
  BY <1>1 DEF CancelWrite, SkipCacheVerification, AnswerAtOnce, EmitCancelled,
              Flags
<1>4. /\ at' \in [Threads -> Places]
      /\ listening' \in [Threads -> SUBSET {"error", "rest"}]
      /\ cancelled' \in [Threads -> BOOLEAN]
  <2>1. CASE waiting
    <3>1. Launch(attempt, listening) \/ NoMemory(attempt, listening)
      BY <2>1 DEF CancelWrite, SkipCacheVerification
    <3>2. listening \in Listeners /\ cancelled \in [Threads -> BOOLEAN]
      BY <1>1 DEF Typed, Listeners
    <3> QED
      BY <1>1, <3>1, <3>2, LaunchTyped
  <2>2. CASE ~waiting
    <3>1. /\ at' = at /\ listening' = listeners
          /\ cancelled' \in {cancelled, [cancelled EXCEPT ![thread] = TRUE]}
      BY <2>2 DEF CancelWrite, CancelDownload, AnswerAtOnce
    <3>2. /\ at \in [Threads -> Places]
          /\ cancelled \in [Threads -> BOOLEAN]
      BY <1>1 DEF Typed
    <3>3. [cancelled EXCEPT ![thread] = TRUE] \in [Threads -> BOOLEAN]
      BY <3>2
    <3>4. cancelled' \in [Threads -> BOOLEAN]
      BY <3>1, <3>2, <3>3
    <3> QED
      BY <3>1, <3>2, <3>4 DEF Listeners
  <2> QED
    BY <2>1, <2>2
<1>5. state' \in Busy \cup {"Idle", "Succeeded", "Failed", "Cancelled"}
  BY <1>2 DEF Busy
<1>6. selected' \in {"none", "valid", "gone"}
  BY <1>1, <1>2 DEF Typed
<1>7. Typed'
  BY <1>4, <1>5, <1>6 DEF Typed
<1> QED
  BY <1>1, <1>3, <1>7 DEF Flags

(* ... whoever asks for it, ... *)
LEMMA RequestsTyped ==
  ASSUME IInv, UserCancels \/ OnSelectedDeviceRemoved
  PROVE  Typed' /\ Flags'
<1>1. Typed /\ Flags
  BY DEF IInv
<1>2. DeafToErrors \in Listeners /\ listening \in Listeners
  BY <1>1 DEF Typed, DeafToErrors, Listeners
<1>3. selected \in {"none", "valid", "gone"} /\ removal \in BOOLEAN
  BY <1>1 DEF Typed, Flags
<1>4. CASE UserCancels
  <2>1. CancelWrite(removal, selected, listening)
    BY <1>4 DEF UserCancels
  <2> QED
    BY <1>2, <1>3, <2>1, CancelTyped
<1>5. CASE OnSelectedDeviceRemoved /\ state \in Busy
  <2>1. CancelWrite(TRUE, "gone", DeafToErrors)
    BY <1>5 DEF OnSelectedDeviceRemoved, DeafToErrors
  <2> QED
    BY <1>2, <2>1, CancelTyped
<1>6. CASE OnSelectedDeviceRemoved /\ state \notin Busy
  <2>1. selected' \in {"none", "gone"}
    BY <1>6 DEF OnSelectedDeviceRemoved
  <2>2. UNCHANGED <<state, waiting, removal, attempt, asked, thread, watch,
                    threads, events, answers, crashed>>
    BY <1>6 DEF OnSelectedDeviceRemoved
  <2> QED
    BY <1>1, <2>1, <2>2 DEF Typed, Flags
<1> QED
  BY <1>4, <1>5, <1>6

(* ... and the end of the check of a cached copy. *)
LEMMA CheckTyped ==
  ASSUME IInv, OnCacheVerificationComplete
  PROVE  Typed' /\ Flags'
<1>1. Typed /\ Flags
  BY DEF IInv
<1>2. /\ listening \in Listeners /\ at \in [Threads -> Places]
      /\ cancelled \in [Threads -> BOOLEAN]
      /\ state \in Busy \cup {"Idle", "Succeeded", "Failed", "Cancelled"}
  BY <1>1 DEF Typed, Listeners
<1>3. Flags'
  BY <1>1 DEF OnCacheVerificationComplete, Flags
<1>4. CASE Launch(attempt, listening) \/ NoMemory(attempt, listening)
  <2>1. /\ at' \in [Threads -> Places]
        /\ listening' \in [Threads -> SUBSET {"error", "rest"}]
        /\ cancelled' = cancelled
    BY <1>1, <1>2, <1>4, LaunchTyped
  <2>2. state' \in {"Writing", "Failed"} /\ selected' = selected
    BY <1>4 DEF OnCacheVerificationComplete, Launch, NoMemory
  <2>3. cancelled' \in [Threads -> BOOLEAN]
    BY <1>2, <2>1
  <2>4. state' \in Busy \cup {"Idle", "Succeeded", "Failed", "Cancelled"}
    BY <2>2 DEF Busy
  <2>5. selected' \in {"none", "valid", "gone"}
    BY <1>1, <2>2 DEF Typed
  <2>6. /\ at' \in [Threads -> Places]
        /\ listening' \in [Threads -> SUBSET {"error", "rest"}]
    BY <2>1
  <2> QED
    BY <1>3, <2>3, <2>4, <2>5, <2>6 DEF Typed
<1>5. CASE OnError(0) /\ UNCHANGED <<thread, at, listening, slots>>
  <2>1. cancelled' \in [Threads -> BOOLEAN]
    BY <1>2, <1>5, ErrorDoes
  <2>2. state' = state \/ state' = "Failed"
    BY <1>5 DEF OnError
  <2>3. UNCHANGED <<selected, at, listening>>
    BY <1>5 DEF OnCacheVerificationComplete
  <2>4. state' \in Busy \cup {"Idle", "Succeeded", "Failed", "Cancelled"}
    BY <1>2, <2>2
  <2>5. selected' \in {"none", "valid", "gone"}
    BY <1>1, <2>3 DEF Typed
  <2>6. /\ at' \in [Threads -> Places]
        /\ listening' \in [Threads -> SUBSET {"error", "rest"}]
    BY <1>2, <2>3 DEF Listeners
  <2> QED
    BY <1>3, <2>1, <2>4, <2>5, <2>6 DEF Typed
<1> QED
  BY <1>3, <1>4, <1>5 DEF OnCacheVerificationComplete

(* A cancellation leaves the earlier writes alone. *)
Softer(t) ==
  /\ listening'[t] \subseteq listening[t]
  /\ "rest" \in listening[t] => "rest" \in listening'[t]

CancelledWrites ==
  /\ \A t \in Threads : t # attempt =>
       /\ Kept(t) /\ answers'[t] = answers[t]
       /\ cancelled'[t] = cancelled[t] /\ Softer(t)
  /\ \A t \in Threads : t = attempt =>
       \/ /\ Fresh(t) /\ Launched(t) /\ cancelled'[t] = cancelled[t]
       \/ /\ thread = 0 /\ thread' = 0 /\ Kept(t) /\ Softer(t)
          /\ cancelled'[t] = cancelled[t]
       \/ /\ thread = t /\ thread' = t /\ Alive(t) /\ at'[t] = at[t]
          /\ cancelled'[t] /\ state' = "Cancelling" /\ Softer(t)
          /\ answers'[t] = answers[t]
          /\ ToSet(slots'[t]) = ToSet(slots[t]) \cup {"onCancelled"}
          /\ slots[t] # <<>> =>
               slots'[t] # <<>> /\ slots'[t][1] = slots[t][1]

(* What a cancellation does to each write. *)
LEMMA CancelledDoes ==
  ASSUME IInv, attempt \in Threads,
         NEW listeners \in {listening, DeafToErrors}, Cancelled(listeners)
  PROVE  CancelledWrites
<1>1. /\ answers \in [Threads -> Seq(Answer)]
      /\ listening \in [Threads -> SUBSET {"error", "rest"}]
  BY DEF IInv, Lists, Typed, Answer
<1>2. ASSUME NEW t \in Threads
      PROVE  /\ listeners[t] \subseteq listening[t]
             /\ "rest" \in listening[t] => "rest" \in listeners[t]
  BY <1>1 DEF DeafToErrors
<1>3. CASE /\ thread' = attempt /\ state' = "Writing"
           /\ UNCHANGED <<cancelled, answers>>
           /\ \A t \in Threads : t = attempt => Fresh(t) /\ Launched(t)
           /\ \A t \in Threads : t # attempt =>
                Kept(t) /\ listening'[t] = listening[t]
  BY <1>3 DEF CancelledWrites, Softer
<1>4. CASE /\ thread = 0 /\ Tell(attempt, "error", 0)
           /\ UNCHANGED <<thread, at, cancelled, listening, slots>>
  <2>1. \A t \in Threads : t # attempt => answers'[t] = answers[t]
    BY <1>1, <1>4, TellsOne
  <2> QED
    BY <1>4, <2>1 DEF CancelledWrites, Softer, Kept
<1>5. CASE /\ thread = attempt /\ thread' = attempt
           /\ state' = "Cancelling" /\ Alive(attempt)
           /\ CancelDownload(attempt, "onCancelled")
           /\ at' = at /\ UNCHANGED answers /\ listening' = listeners
  <2>1. "onCancelled" \in Slots
    BY DEF Slots
  <2>2. /\ \A u \in Threads : u # attempt => slots'[u] = slots[u]
        /\ ToSet(slots'[attempt]) = ToSet(slots[attempt]) \cup {"onCancelled"}
        /\ slots[attempt] # <<>> =>
             /\ slots'[attempt] # <<>>
             /\ slots'[attempt][1] = slots[attempt][1]
        /\ cancelled' \in [Threads -> BOOLEAN]
        /\ \A t \in Threads : cancelled'[t] <=> cancelled[t] \/ t = attempt
    BY <1>5, <2>1, Stops
  <2>3. ASSUME NEW t \in Threads, t # attempt
        PROVE  cancelled'[t] = cancelled[t]
    <3>1. cancelled \in [Threads -> BOOLEAN]
      BY DEF IInv, Typed
    <3>2. cancelled'[t] <=> cancelled[t]
      BY <2>2, <2>3
    <3> QED
      BY <2>2, <3>1, <3>2
  <2> QED
    BY <1>2, <1>5, <2>2, <2>3 DEF CancelledWrites, Softer, Kept
<1>6. CASE /\ thread = 0 /\ thread' = 0
           /\ \/ Tell(attempt, "removed", 0) \/ Tell(attempt, "cancelled", 0)
           /\ UNCHANGED <<at, cancelled, slots>> /\ listening' = listeners
  <2>1. \A t \in Threads : t # attempt => answers'[t] = answers[t]
    BY <1>1, <1>6, TellsOne
  <2> QED
    BY <1>2, <1>6, <2>1 DEF CancelledWrites, Softer, Kept
<1> QED
  BY <1>3, <1>4, <1>5, <1>6 DEF Cancelled

(* Both requests cancel the attempt in hand, with nothing on its way. *)
LEMMA RequestsDo ==
  ASSUME Backlog = 0, IInv,
         UserCancels \/ (OnSelectedDeviceRemoved /\ state \in Busy)
  PROVE  /\ events = <<>> /\ attempt \in Threads /\ ~waiting'
         /\ UNCHANGED <<attempt, watch, events, crashed>>
         /\ state \in Busy /\ attempt \in Nat
         /\ CancelledWrites
<1>1. /\ events = <<>> /\ attempt \in Threads /\ state \in Busy
      /\ Cancelled(listening) \/ Cancelled(DeafToErrors)
  BY UserCancelsDoes, RemovalDoes
<1>2. CancelledWrites
  BY <1>1, CancelledDoes
<1> QED
  BY <1>1, <1>2, Named DEF Cancelled

(* A cancellation is of the write in hand. *)
LEMMA CancelledNumbers ==
  ASSUME IInv, attempt \in Threads, NEW listeners, Cancelled(listeners)
  PROVE  Numbers'
<1>1. /\ attempt' = attempt /\ watchdog' = watchdog
      /\ asked' = asked \cup {attempt}
      /\ thread' \in {0, attempt}
  BY Named DEF Cancelled, watch
<1>2. asked \subseteq 1 .. attempt /\ watchdog \in 0 .. attempt
  BY DEF IInv, Numbers
<1>3. attempt \in 1 .. Writes /\ attempt \in 1 .. attempt /\ attempt # 0
  BY Constants
<1>4. attempt' \in 0 .. Writes /\ asked' \subseteq 1 .. attempt'
  BY <1>1, <1>2, <1>3, Constants
<1> QED
  BY <1>1, <1>2, <1>3, <1>4 DEF Numbers

(* A write thread moves by itself, and says something only if it is heard. *)
LEMMA ThreadMoves ==
  ASSUME IInv, NEW t \in Threads, WriteThread(t)
  PROVE  /\ UNCHANGED <<state, waiting, removal, request, thread, watch,
                        listening, slots, answers, crashed>>
         /\ Alive(t) /\ at'[t] \notin {"none", "prepare", "deleted"}
         /\ \A u \in Threads : u # t => at'[u] = at[u]
         /\ \A u \in Threads : cancelled[u] => cancelled'[u]
         /\ \A u \in Threads : u # t => (cancelled'[u] <=> cancelled[u])
         /\ listening[t] = {} => events' = events
<1>1. /\ at \in [Threads -> Places] /\ cancelled \in [Threads -> BOOLEAN]
  BY DEF IInv, Typed
<1>2. /\ UNCHANGED <<state, waiting, removal, request, thread, watch,
                     listening, slots, answers, crashed>>
      /\ Alive(t)
  BY DEF WriteThread, PrepareDevice, WriteImage, AnnounceSync, Sync, Verify,
         Finalize, WriteTable, Announce, Fail, NetworkFails, StreamEnds,
         Finish, Alive
<1>3. PICK to \in Places \ {"none", "prepare", "deleted"} : Move(t, to)
  BY <1>1 DEF WriteThread, PrepareDevice, WriteImage, AnnounceSync, Sync,
         Verify, Finalize, WriteTable, Announce, Fail, NetworkFails,
         StreamEnds, Finish, Places
<1>4. at'[t] = to /\ \A u \in Threads : u # t => at'[u] = at[u]
  BY <1>1, <1>3 DEF Move
<1>5. cancelled' = cancelled \/ cancelled' = [cancelled EXCEPT ![t] = TRUE]
  BY DEF WriteThread, PrepareDevice, WriteImage, AnnounceSync, Sync, Verify,
         Finalize, WriteTable, Announce, Fail, NetworkFails, StreamEnds,
         Finish
<1>6. /\ \A u \in Threads : cancelled[u] => cancelled'[u]
      /\ \A u \in Threads : u # t => (cancelled'[u] <=> cancelled[u])
  BY <1>1, <1>5
<1>7. ASSUME listening[t] = {}
      PROVE  events' = events
  BY <1>7 DEF WriteThread, PrepareDevice, WriteImage, AnnounceSync, Sync,
         Verify, Finalize, WriteTable, Announce, Fail, NetworkFails,
         StreamEnds, Finish, Post
<1> QED
  BY <1>2, <1>3, <1>4, <1>6, <1>7

(* A request, a report or a check finds nothing on its way. *)
LEMMA Quiet ==
  ASSUME Backlog = 0, IInv, Wizard \/ Reports \/ Watchdog
  PROVE  \/ /\ events = <<>> /\ events' = <<>>
            /\ \A i \in 1 .. Len(events') : FALSE
         \/ /\ crashed'
            /\ UNCHANGED <<state, waiting, removal, request, thread, watch,
                           threads, events, answers>>
<1>1. CASE Wizard
  BY <1>1, NothingQueued DEF Wizard, StartWrite, UserCancels, SetDst,
                             ResetWizard, CancelWrite
<1>2. CASE Reports
  <2>1. events = <<>>
    BY <1>2, NothingQueued DEF Reports, OnSelectedDeviceRemoved,
                               OnCacheVerificationComplete
  <2>2. CASE OnSelectedDeviceRemoved
    BY <2>1, <2>2, RemovalDoes DEF Cancelled
  <2>3. CASE OnCacheVerificationComplete
    BY <2>1, <2>3 DEF OnCacheVerificationComplete
  <2> QED
    BY <1>2, <2>2, <2>3 DEF Reports
<1>3. CASE Watchdog
  BY <1>3, NothingQueued DEF Watchdog, CheckDrains, CheckRestarts,
                             CheckTimesOut, CheckDangles
<1> QED
  BY <1>1, <1>2, <1>3

(* What a write thread says, and when. *)
Says(t, what) ==
  \/ what = "authorised" /\ at[t] = "prepare" /\ at'[t] = "write"
  \/ what = "finalSync" /\ at[t] = "cache" /\ at'[t] = "ask"
  \/ what = "verifyProgress" /\ at[t] = "verify" /\ at'[t] = "readBack"
  \/ what = "finalizing" /\ at[t] \in {"verify", "readBack"}
       /\ at'[t] = "finalize"
  \/ what = "success" /\ at[t] = "announce" /\ at'[t] = "stream"
  \/ what = "success" /\ at[t] = "stream" /\ at'[t] = "ending"
       /\ ~cancelled[t]
  \/ what = "error"
  \/ /\ what \in Slots /\ at[t] = "ending" /\ at'[t] = "finished"
     /\ what \in ToSet(slots[t])

(* A thread posts one event at most, about itself, and only as Says. *)
LEMMA HeardSays ==
  ASSUME Loose, NEW t \in Threads, WriteThread(t)
  PROVE  /\ events' \in Seq(Events) /\ Len(events) \in Nat
         /\ \A i \in 1 .. Len(events) :
              i \in 1 .. Len(events') /\ events'[i] = events[i]
         /\ \A i \in 1 .. Len(events') :
              \/ i \in 1 .. Len(events) /\ events'[i] = events[i]
              \/ /\ i > Len(events) /\ listening[t] # {}
                 /\ events'[i].of = t /\ Says(t, events'[i].is)
                 /\ events'[i].is \notin Slots => i = Len(events) + 1
<1>1. /\ events \in Seq(Events) /\ slots[t] \in Seq(Slots)
      /\ listening[t] \in SUBSET {"error", "rest"}
  BY DEF Loose, Listeners
<1>2. at \in [Threads -> Places]
  BY DEF Loose
<1>3. CASE events' = events
  <2>1. Len(events) \in Nat
    BY <1>1
  <2> QED
    BY <1>1, <1>3, <2>1
<1>4. ASSUME NEW signal \in Signals, signal \notin Slots, Post(t, signal),
             listening[t] # {} => Says(t, signal)
      PROVE  /\ events' \in Seq(Events) /\ Len(events) \in Nat
             /\ \A i \in 1 .. Len(events) :
                  i \in 1 .. Len(events') /\ events'[i] = events[i]
             /\ \A i \in 1 .. Len(events') :
                  \/ i \in 1 .. Len(events) /\ events'[i] = events[i]
                  \/ /\ i > Len(events) /\ listening[t] # {}
                     /\ events'[i].of = t /\ Says(t, events'[i].is)
                     /\ events'[i].is \notin Slots => i = Len(events) + 1
  <2>1. /\ events' \in Seq(Events) /\ Len(events) \in Nat
        /\ \A i \in 1 .. Len(events) :
             i \in 1 .. Len(events') /\ events'[i] = events[i]
        /\ \A i \in 1 .. Len(events') :
             \/ i \in 1 .. Len(events) /\ events'[i] = events[i]
             \/ /\ i = Len(events) + 1 /\ listening[t] # {}
                /\ events'[i].of = t /\ events'[i].is = signal
    BY <1>1, <1>4, Grows
  <2>2. Len(events) + 1 > Len(events)
    BY <2>1
  <2> QED
    BY <1>4, <2>1, <2>2
<1>5. CASE PrepareDevice(t)
  BY <1>2, <1>4, <1>5 DEF PrepareDevice, Move, Says, Signals, Slots
<1>6. CASE WriteImage(t) \/ Sync(t) \/ WriteTable(t)
  BY <1>3, <1>6 DEF WriteImage, Sync, WriteTable
<1>7. CASE AnnounceSync(t)
  <2>1. CASE "rest" \in listening[t]
    BY <1>2, <1>4, <1>7, <2>1 DEF AnnounceSync, Move, Says, Signals, Slots
  <2>2. CASE "rest" \notin listening[t]
    BY <1>3, <1>7, <2>2 DEF AnnounceSync, Post
  <2> QED
    BY <2>1, <2>2
<1>8. CASE Verify(t)
  BY <1>2, <1>4, <1>8 DEF Verify, Move, Says, Signals, Slots
<1>9. CASE Finalize(t)
  BY <1>2, <1>4, <1>9 DEF Finalize, Move, Says, Signals, Slots
<1>10. CASE Announce(t)
  BY <1>2, <1>4, <1>10 DEF Announce, Move, Says, Signals, Slots
<1>11. CASE Fail(t)
  <2>1. Post(t, "error") /\ "error" \in Signals /\ "error" \notin Slots
    BY <1>11 DEF Fail, Signals, Slots
  <2>2. Says(t, "error")
    BY DEF Says
  <2> QED
    BY <1>4, <2>1, <2>2
<1>12. CASE NetworkFails(t)
  <2>1. Post(t, "error") /\ "error" \in Signals /\ "error" \notin Slots
    BY <1>12 DEF NetworkFails, Signals, Slots
  <2>2. Says(t, "error")
    BY DEF Says
  <2> QED
    BY <1>4, <2>1, <2>2
<1>13. CASE StreamEnds(t)
  <2>1. CASE events' = events
    BY <1>3, <2>1
  <2>2. CASE ~cancelled[t] /\ Post(t, "success")
    BY <1>2, <1>4, <1>13, <2>2 DEF StreamEnds, Move, Says, Signals, Slots
  <2> QED
    BY <1>13, <2>1, <2>2 DEF StreamEnds
<1>14. CASE Finish(t)
  <2>1. at[t] = "ending" /\ at'[t] = "finished"
    BY <1>2, <1>14 DEF Finish, Move
  <2>2. /\ events' \in Seq(Events) /\ Len(events) \in Nat
        /\ \A i \in 1 .. Len(events) :
             i \in 1 .. Len(events') /\ events'[i] = events[i]
        /\ \A i \in 1 .. Len(events') :
             \/ i \in 1 .. Len(events) /\ events'[i] = events[i]
             \/ /\ i > Len(events) /\ listening[t] # {}
                /\ events'[i].of = t /\ events'[i].is \in Slots
                /\ events'[i].is \in ToSet(slots[t])
    BY <1>1, <1>14, Ends
  <2>3. \A what : what \in Slots /\ what \in ToSet(slots[t]) => Says(t, what)
    BY <2>1 DEF Says
  <2> QED
    BY <2>2, <2>3
<1> QED
  BY <1>5, <1>6, <1>7, <1>8, <1>9, <1>10, <1>11, <1>12, <1>13, <1>14
  DEF WriteThread

(* ... and so under the invariant. *)
LEMMA ThreadSays ==
  ASSUME IInv, NEW t \in Threads, WriteThread(t)
  PROVE  /\ events' \in Seq(Events) /\ Len(events) \in Nat
         /\ \A i \in 1 .. Len(events) :
              i \in 1 .. Len(events') /\ events'[i] = events[i]
         /\ \A i \in 1 .. Len(events') :
              \/ i \in 1 .. Len(events) /\ events'[i] = events[i]
              \/ /\ i > Len(events) /\ listening[t] # {}
                 /\ events'[i].of = t /\ Says(t, events'[i].is)
                 /\ events'[i].is \notin Slots => i = Len(events) + 1
<1>1. Loose
  BY DEF IInv, Typed, Lists, Loose, Listeners
<1> QED
  BY <1>1, HeardSays

(* What a step tells the user is of the last write, from its own thread or  *)
(* from the main thread.                                                    *)
Speaks ==
  \/ answers' = answers
  \/ \E what \in Answers, by \in {0, attempt'} :
       /\ attempt' \in Threads /\ Tell(attempt', what, by)
       /\ what = "success" => HearSuccess

(* A request answers the attempt in hand. *)
LEMMA RequestsSpeak ==
  ASSUME Backlog = 0, IInv,
         UserCancels \/ (OnSelectedDeviceRemoved /\ state \in Busy)
  PROVE  Speaks
<1>1. /\ attempt \in Threads /\ attempt' = attempt
  BY RequestsDo
<1>2. Cancelled(listening) \/ Cancelled(DeafToErrors)
  BY UserCancelsDoes, RemovalDoes
<1>3. \/ answers' = answers \/ Tell(attempt, "error", 0)
      \/ Tell(attempt, "removed", 0) \/ Tell(attempt, "cancelled", 0)
  BY <1>2 DEF Cancelled
<1> QED
  BY <1>1, <1>3 DEF Speaks, Answers

(* A request leaves lists of slots. *)
LEMMA RequestsList ==
  ASSUME Backlog = 0, IInv,
         UserCancels \/ (OnSelectedDeviceRemoved /\ state \in Busy)
  PROVE  slots' \in [Threads -> Seq(Slots)]
<1>1. slots \in [Threads -> Seq(Slots)] /\ <<"tidy">> \in Seq(Slots)
  BY DEF IInv, Lists, Slots
<1>2. \/ UNCHANGED slots
      \/ slots' = [slots EXCEPT ![attempt] = <<"tidy">>]
      \/ thread \in Threads /\ CancelDownload(thread, "onCancelled")
  BY Named DEF UserCancels, OnSelectedDeviceRemoved, CancelWrite,
               SkipCacheVerification, Launch, NoMemory, DoNotLaunch
<1>3. "onCancelled" \in Slots
  BY DEF Slots
<1> QED
  BY <1>1, <1>2, <1>3, Connects

(* A thread goes from one place to the next. *)
LEMMA ThreadSteps ==
  ASSUME IInv, NEW t \in Threads, WriteThread(t)
  PROVE  /\ at[t] = "ask" => at'[t] = "ask"
         /\ at[t] = "stream" => at'[t] = "ending"
         /\ at[t] = "ending" => at'[t] = "finished"
         /\ at'[t] = "announce" /\ at[t] # "announce" =>
              at[t] = "finalize" /\ ~cancelled[t]
         /\ at[t] = "announce" => at'[t] \in {"announce", "stream"}
         /\ at'[t] = "stream" => cancelled' = cancelled
<1>1. /\ at \in [Threads -> Places] /\ cancelled \in [Threads -> BOOLEAN]
  BY DEF IInv, Typed
<1> QED
  BY <1>1 DEF WriteThread, PrepareDevice, WriteImage, AnnounceSync, Sync,
              Verify, Finalize, WriteTable, Announce, Fail, NetworkFails,
              StreamEnds, Finish, Move

(* Only the thread in hand is heard, and it belongs to the last write. *)
LEMMA HeardThread ==
  ASSUME IInv, NEW t \in Threads, WriteThread(t), listening[t] # {}
  PROVE  t = thread /\ t = attempt /\ attempt' = attempt /\ thread' = thread
         /\ slots' = slots /\ state' = state
<1>1. Alive(t) /\ UNCHANGED <<attempt, thread, slots, state>>
  BY ThreadMoves
<1>2. t = thread
  BY <1>1, Unheard
<1> QED
  BY <1>1, <1>2, Named

(* The main thread hears the first of what is on its way. *)
LEMMA Hears ==
  ASSUME IInv, MainThread
  PROVE  /\ attempt \in Threads
         /\ UNCHANGED <<attempt, waiting, listening, slots>>
         /\ Len(events) \in Nat /\ Len(events') \in Nat
         /\ 1 \in 1 .. Len(events) /\ events[1].of = attempt
         /\ \A i \in 1 .. Len(events') :
              i + 1 \in 1 .. Len(events) /\ events'[i] = events[i + 1]
         /\ \A i \in 1 .. Len(events) :
              i = 1 \/ (i - 1 \in 1 .. Len(events')
                         /\ events'[i - 1] = events[i])
         /\ \A t \in Threads : t # attempt => at'[t] = at[t]
         /\ \/ at' = at
            \/ /\ at[attempt] \in {"finished", "deleted"}
               /\ at'[attempt] = "deleted" /\ events[1].is = "tidy"
            \/ /\ at[attempt] = "ask" /\ at'[attempt] = "sync"
               /\ events[1].is = "finalSync"
<1>1. PICK signal : Receive(signal)
  BY DEF MainThread, StartWatchdog, OnVerifyProgress, OnFinalizing,
         OnFinalSyncStarting, HearSuccess, HearError, Tidy, OnCancelled,
         OnRestart
<1>2. Sender = attempt /\ attempt \in Threads
  BY <1>1, Heard
<1>3. events \in Seq(Events) /\ at \in [Threads -> Places]
  BY DEF IInv, Lists, Typed
<1>4. /\ Len(events) \in Nat /\ Len(events') \in Nat
      /\ 1 \in 1 .. Len(events) /\ events[1].of = attempt
      /\ \A i \in 1 .. Len(events') :
           i + 1 \in 1 .. Len(events) /\ events'[i] = events[i + 1]
      /\ \A i \in 1 .. Len(events) :
           i = 1 \/ (i - 1 \in 1 .. Len(events')
                      /\ events'[i - 1] = events[i])
  BY <1>1, <1>2, <1>3, Shrinks
<1>5. UNCHANGED <<attempt, waiting, listening, slots>>
  BY DEF MainThread, StartWatchdog, OnVerifyProgress, OnFinalizing,
         OnFinalSyncStarting, HearSuccess, HearError, Tidy, OnCancelled,
         OnRestart
<1>6. CASE Tidy
  <2>1. /\ Receive("tidy") /\ "tidy" \in Slots
        /\ at' = [at EXCEPT ![Sender] = "deleted"]
    BY <1>6 DEF Tidy, Slots
  <2>2. at[attempt] \in {"finished", "deleted"}
    BY <2>1, Heard
  <2>3. events[1].is = "tidy"
    BY <1>3, <2>1, Shrinks
  <2> QED
    BY <1>2, <1>3, <1>4, <1>5, <2>1, <2>2, <2>3
<1>7. CASE OnFinalSyncStarting
  <2>1. /\ Receive("finalSync")
        /\ at' = [at EXCEPT ![Sender] = "sync"]
    BY <1>7 DEF OnFinalSyncStarting
  <2>2. at[attempt] = "ask"
    BY <2>1, Heard
  <2>3. events[1].is = "finalSync"
    BY <1>3, <2>1, Shrinks
  <2> QED
    BY <1>2, <1>3, <1>4, <1>5, <2>1, <2>2, <2>3
<1>8. CASE at' = at
  BY <1>2, <1>4, <1>5, <1>8
<1> QED
  BY <1>6, <1>7, <1>8
  DEF MainThread, StartWatchdog, OnVerifyProgress, OnFinalizing, HearSuccess,
      HearError, OnCancelled, OnRestart

-----------------------------------------------------------------------------
(* What each step keeps. *)

(* The simple types. *)
LEMMA KeepsTyped ==
  ASSUME Backlog = 0, IInv, Next
  PROVE  Typed'
<1>1. CASE ~crashed /\ Wizard
  <2>1. CASE StartWrite
    BY <2>1, StartTyped
  <2>2. CASE UserCancels
    BY <2>2, RequestsTyped
  <2>3. CASE SetDst \/ ResetWizard
    BY <2>3, Named DEF IInv, Typed, Busy, Places, SetDst, Input, ResetWizard
  <2> QED
    BY <1>1, <2>1, <2>2, <2>3 DEF Wizard
<1>2. CASE ~crashed /\ Reports
  <2>1. CASE OnSelectedDeviceRemoved /\ state \in Busy
    BY <2>1, RequestsTyped
  <2>2. CASE OnSelectedDeviceRemoved /\ state \notin Busy
    BY <2>2, RequestsTyped
  <2>3. CASE OnCacheVerificationComplete
    BY <2>3, CheckTyped
  <2> QED
    BY <1>2, <2>1, <2>2, <2>3 DEF Reports
<1>3. CASE ~crashed /\ Watchdog
  BY <1>3, Named, RestartsDoes, Stops, TimeOutDoes, ErrorDoes DEF IInv, Typed,
    Busy, Places, Watchdog, CheckDrains, Input, Slots, CheckDangles
<1>4. CASE ~crashed /\ MainThread
  <2>1. CASE HearSuccess
    BY <2>1 DEF HearSuccess, OnSuccess, IInv, Typed, Flags
  <2>2. CASE OnCancelled
    BY <2>2 DEF OnCancelled, EmitCancelled, IInv, Typed, Flags
  <2>3. CASE StartWatchdog \/ OnVerifyProgress \/ OnFinalizing \/
          OnFinalSyncStarting \/ HearError \/ Tidy \/ OnRestart
    BY <2>3, Heard, Named, ErrorDoes DEF IInv, Typed, Busy, Places,
      StartWatchdog, OnVerifyProgress, OnFinalizing, OnFinalSyncStarting,
      HearError, StopWatchdog, Tidy, Slots, OnRestart
  <2> QED
    BY <1>4, <2>1, <2>2, <2>3 DEF MainThread
<1>5. ASSUME NEW t \in Threads, ~crashed /\ WriteThread(t)
      PROVE  Typed'
  BY <1>5, Named, Unheard DEF IInv, Typed, Busy, Places, WriteThread,
    PrepareDevice, Move, WriteImage, AnnounceSync, Sync, Verify, Finalize,
    WriteTable, Announce, Fail, NetworkFails, StreamEnds, Finish
<1>6. CASE Rest
  BY <1>6 DEF IInv, Typed, Busy, Places, Rest, vars
<1> QED
  BY <1>1, <1>2, <1>3, <1>4, <1>5, <1>6 DEF Next

(* The flags are flags. *)
LEMMA KeepsFlags ==
  ASSUME Backlog = 0, IInv, Next
  PROVE  Flags'
<1>1. CASE ~crashed /\ Wizard
  <2>1. CASE StartWrite
    BY <2>1, StartTyped
  <2>2. CASE UserCancels
    BY <2>2, RequestsTyped
  <2>3. CASE SetDst \/ ResetWizard
    BY <2>3, Named DEF IInv, Flags, SetDst, Input, ResetWizard
  <2> QED
    BY <1>1, <2>1, <2>2, <2>3 DEF Wizard
<1>2. CASE ~crashed /\ Reports
  <2>1. CASE OnSelectedDeviceRemoved /\ state \in Busy
    BY <2>1, RequestsTyped
  <2>2. CASE OnSelectedDeviceRemoved /\ state \notin Busy
    BY <2>2, RequestsTyped
  <2>3. CASE OnCacheVerificationComplete
    BY <2>3, CheckTyped
  <2> QED
    BY <1>2, <2>1, <2>2, <2>3 DEF Reports
<1>3. CASE ~crashed /\ Watchdog
  BY <1>3, Named, RestartsDoes, Stops, TimeOutDoes, ErrorDoes DEF IInv, Flags,
    Watchdog, CheckDrains, Input, Slots, CheckDangles
<1>4. CASE ~crashed /\ MainThread
  <2>1. CASE HearSuccess
    BY <2>1 DEF HearSuccess, OnSuccess, IInv, Typed, Flags
  <2>2. CASE OnCancelled
    BY <2>2 DEF OnCancelled, EmitCancelled, IInv, Typed, Flags
  <2>3. CASE StartWatchdog \/ OnVerifyProgress \/ OnFinalizing \/
          OnFinalSyncStarting \/ HearError \/ Tidy \/ OnRestart
    BY <2>3, Heard, Named, ErrorDoes DEF IInv, Flags, StartWatchdog,
      OnVerifyProgress, OnFinalizing, OnFinalSyncStarting, HearError,
      StopWatchdog, Tidy, Slots, OnRestart
  <2> QED
    BY <1>4, <2>1, <2>2, <2>3 DEF MainThread
<1>5. ASSUME NEW t \in Threads, ~crashed /\ WriteThread(t)
      PROVE  Flags'
  BY <1>5, Named, Unheard DEF IInv, Flags, WriteThread, PrepareDevice, Move,
    WriteImage, AnnounceSync, Sync, Verify, Finalize, WriteTable, Announce,
    Fail, NetworkFails, StreamEnds, Finish
<1>6. CASE Rest
  BY <1>6 DEF IInv, Flags, Rest, vars
<1> QED
  BY <1>1, <1>2, <1>3, <1>4, <1>5, <1>6 DEF Next

(* The numbers. *)
LEMMA KeepsNumbers ==
  ASSUME Backlog = 0, IInv, Next
  PROVE  Numbers'
<1>1. CASE ~crashed /\ Wizard
  <2>1. CASE StartWrite
    <3>1. /\ attempt' = attempt + 1 /\ attempt' \in Threads /\ attempt \in Nat
          /\ thread' \in {0, attempt'} /\ watchdog' = watchdog
          /\ asked' = asked
      BY <2>1, StartWriteDoes
    <3>2. /\ attempt' \in 1 .. Writes /\ watchdog \in 0 .. attempt
          /\ asked \subseteq 1 .. attempt
      BY <3>1, Constants DEF IInv, Numbers
    <3> QED
      BY <3>1, <3>2, Constants DEF Numbers
  <2>2. CASE UserCancels
    BY <2>2, UserCancelsDoes, CancelledNumbers
  <2>3. CASE SetDst
    BY <2>3, Constants DEF IInv, Numbers, Busy, SetDst, Input
  <2>4. CASE ResetWizard
    BY <2>4, Constants, Named DEF IInv, Numbers, Busy, ResetWizard, Input
  <2> QED
    BY <1>1, <2>1, <2>2, <2>3, <2>4 DEF Wizard
<1>2. CASE ~crashed /\ Reports
  <2>1. CASE OnSelectedDeviceRemoved /\ state \in Busy
    BY <2>1, RemovalDoes, CancelledNumbers
  <2>2. CASE OnSelectedDeviceRemoved /\ state \notin Busy
    BY <2>2, RemovalDoes DEF IInv, Numbers, Busy
  <2>3. CASE OnCacheVerificationComplete
    <3>1. /\ attempt' = attempt /\ asked' = asked /\ attempt \in Threads
          /\ thread' \in {0, attempt} /\ watchdog' \in {0, watchdog}
      BY <2>3, CheckedDoes, Constants
    <3> QED
      BY <3>1, Constants DEF IInv, Numbers
  <2> QED
    BY <1>2, <2>1, <2>2, <2>3 DEF Reports
<1>3. CASE ~crashed /\ Watchdog
  <2>1. CASE CheckDrains
    BY <2>1, Constants, Named DEF IInv, Numbers, Busy, CheckDrains, Input
  <2>2. CASE CheckRestarts
    BY <2>2 DEF CheckRestarts, IInv, Numbers, Busy
  <2>3. CASE CheckTimesOut
    <3>1. state' \in {state, "Failed"} /\ watchdog' = 0
      BY <2>3 DEF CheckTimesOut, OnError
    <3>2. UNCHANGED <<attempt, asked, thread>>
      BY <2>3 DEF CheckTimesOut
    <3> QED
      BY <3>1, <3>2, Constants DEF IInv, Numbers, Busy
  <2>4. CASE CheckDangles
    BY <2>4, Constants DEF IInv, Numbers, Busy, CheckDangles
  <2> QED
    BY <1>3, <2>1, <2>2, <2>3, <2>4 DEF Watchdog
<1>4. CASE ~crashed /\ MainThread
  <2>1. CASE StartWatchdog
    BY <2>1, Constants, Heard, Named DEF IInv, Numbers, Busy, StartWatchdog
  <2>2. CASE OnVerifyProgress
    BY <2>2, Constants, Heard, Named DEF IInv, Numbers, Busy, OnVerifyProgress
  <2>3. CASE OnFinalizing
    BY <2>3, Constants, Heard, Named DEF IInv, Numbers, Busy, OnFinalizing
  <2>4. CASE OnFinalSyncStarting
    BY <2>4, Constants, Heard, Named DEF IInv, Numbers, Busy,
      OnFinalSyncStarting
  <2>5. CASE HearSuccess
    BY <2>5, Named DEF HearSuccess, OnSuccess, IInv, Numbers, Busy
  <2>6. CASE HearError
    BY <2>6, Constants, Heard, Named, ErrorDoes DEF IInv, Numbers, Busy,
      HearError, StopWatchdog
  <2>7. CASE Tidy
    BY <2>7, Constants, Heard, Named DEF IInv, Numbers, Busy, Tidy, Slots
  <2>8. CASE OnCancelled
    BY <2>8, Named DEF OnCancelled, EmitCancelled, IInv, Numbers, Busy
  <2>9. CASE OnRestart
    BY <2>9, Constants, Heard, Named DEF IInv, Numbers, Busy, OnRestart, Slots
  <2> QED
    BY <1>4, <2>1, <2>2, <2>3, <2>4, <2>5, <2>6, <2>7, <2>8, <2>9 DEF
      MainThread
<1>5. ASSUME NEW t \in Threads, ~crashed /\ WriteThread(t)
      PROVE  Numbers'
  BY <1>5, Constants, Named, Unheard DEF IInv, Numbers, Busy, WriteThread,
    PrepareDevice, Move, WriteImage, AnnounceSync, Sync, Verify, Finalize,
    WriteTable, Announce, Fail, NetworkFails, StreamEnds, Finish
<1>6. CASE Rest
  BY <1>6, Constants DEF IInv, Numbers, Busy, Rest, vars
<1> QED
  BY <1>1, <1>2, <1>3, <1>4, <1>5, <1>6 DEF Next

(* What has not been started. *)
LEMMA KeepsNotYet ==
  ASSUME Backlog = 0, IInv, Next
  PROVE  NotYet'
<1>1. CASE ~crashed /\ Wizard
  <2>1. CASE StartWrite
    BY <2>1, StartWriteDoes, Named DEF IInv, Typed, NotYet, Fresh, Launched,
      Kept, Alive
  <2>2. CASE UserCancels
    BY <2>2, RequestsDo, Named DEF IInv, Typed, NotYet, Fresh, Launched, Kept,
      Alive, CancelledWrites, Softer
  <2>3. CASE SetDst
    BY <2>3 DEF IInv, Typed, NotYet, Fresh, Launched, Kept, Alive, SetDst,
      Input
  <2>4. CASE ResetWizard
    BY <2>4, Named DEF IInv, Typed, NotYet, Fresh, Launched, Kept, Alive,
      ResetWizard, Input
  <2> QED
    BY <1>1, <2>1, <2>2, <2>3, <2>4 DEF Wizard
<1>2. CASE ~crashed /\ Reports
  <2>1. CASE OnSelectedDeviceRemoved /\ state \in Busy
    BY <2>1, RequestsDo, Named DEF IInv, Typed, NotYet, Fresh, Launched, Kept,
      Alive, CancelledWrites, Softer
  <2>2. CASE OnSelectedDeviceRemoved /\ state \notin Busy
    BY <2>2, RemovalDoes, Named DEF IInv, Typed, NotYet, Fresh, Launched, Kept,
      Alive
  <2>3. CASE OnCacheVerificationComplete
    BY <2>3, CheckedDoes, Named DEF IInv, Typed, NotYet, Fresh, Launched, Kept,
      Alive
  <2> QED
    BY <1>2, <2>1, <2>2, <2>3 DEF Reports
<1>3. CASE ~crashed /\ Watchdog
  <2>1. CASE CheckDrains
    BY <2>1, Named DEF IInv, Typed, NotYet, Fresh, Launched, Kept, Alive,
      CheckDrains, Input
  <2>2. CASE CheckRestarts
    BY <2>2, RestartsDoes, Stops, Named DEF IInv, Typed, NotYet, Fresh,
      Launched, Kept, Alive, Slots
  <2>3. CASE CheckTimesOut
    BY <2>3, TimeOutDoes, ErrorDoes, Named DEF IInv, Typed, NotYet, Fresh,
      Launched, Kept, Alive
  <2>4. CASE CheckDangles
    BY <2>4 DEF IInv, Typed, NotYet, Fresh, Launched, Kept, Alive, CheckDangles
  <2> QED
    BY <1>3, <2>1, <2>2, <2>3, <2>4 DEF Watchdog
<1>4. CASE ~crashed /\ MainThread
  <2>1. CASE StartWatchdog
    BY <2>1, Heard, Named DEF IInv, Typed, NotYet, Fresh, Launched, Kept,
      Alive, StartWatchdog
  <2>2. CASE OnVerifyProgress
    BY <2>2, Heard, Named DEF IInv, Typed, NotYet, Fresh, Launched, Kept,
      Alive, OnVerifyProgress
  <2>3. CASE OnFinalizing
    BY <2>3, Heard, Named DEF IInv, Typed, NotYet, Fresh, Launched, Kept,
      Alive, OnFinalizing
  <2>4. CASE OnFinalSyncStarting
    BY <2>4, Heard, Named DEF IInv, Typed, NotYet, Fresh, Launched, Kept,
      Alive, OnFinalSyncStarting
  <2>5. CASE HearSuccess
    BY <2>5, SuccessDoes, Named DEF IInv, Typed, NotYet, Fresh, Launched, Kept,
      Alive
  <2>6. CASE HearError
    BY <2>6, Heard, Named, ErrorDoes DEF IInv, Typed, NotYet, Fresh, Launched,
      Kept, Alive, HearError, StopWatchdog
  <2>7. CASE Tidy
    BY <2>7, Heard, Named DEF IInv, Typed, NotYet, Fresh, Launched, Kept,
      Alive, Tidy, Slots
  <2>8. CASE OnCancelled
    BY <2>8, OnCancelledDoes, Named DEF IInv, Typed, NotYet, Fresh, Launched,
      Kept, Alive
  <2>9. CASE OnRestart
    BY <2>9, Heard, Named DEF IInv, Typed, NotYet, Fresh, Launched, Kept,
      Alive, OnRestart, Slots
  <2> QED
    BY <1>4, <2>1, <2>2, <2>3, <2>4, <2>5, <2>6, <2>7, <2>8, <2>9 DEF
      MainThread
<1>5. ASSUME NEW t \in Threads, ~crashed /\ WriteThread(t)
      PROVE  NotYet'
  BY <1>5, Named, Unheard DEF IInv, Typed, NotYet, Fresh, Launched, Kept,
    Alive, WriteThread, PrepareDevice, Move, WriteImage, AnnounceSync, Sync,
    Verify, Finalize, WriteTable, Announce, Fail, NetworkFails, StreamEnds,
    Finish
<1>6. CASE Rest
  BY <1>6 DEF IInv, Typed, NotYet, Fresh, Launched, Kept, Alive, Rest, vars
<1> QED
  BY <1>1, <1>2, <1>3, <1>4, <1>5, <1>6 DEF Next

(* The check of a cached copy. *)
LEMMA KeepsWaiting ==
  ASSUME Backlog = 0, IInv, Next
  PROVE  Waiting'
<1>1. CASE ~crashed /\ Wizard
  <2>1. CASE StartWrite
    BY <2>1, StartWriteDoes, Named DEF IInv, Waiting, Fresh, Kept, Busy
  <2>2. CASE UserCancels
    BY <2>2, RequestsDo, Named DEF IInv, Waiting, Fresh, Kept, Busy,
      CancelledWrites, Softer
  <2>3. CASE SetDst
    BY <2>3 DEF IInv, Waiting, Fresh, Kept, Busy, SetDst, Input
  <2>4. CASE ResetWizard
    BY <2>4, Named DEF IInv, Waiting, Fresh, Kept, Busy, ResetWizard, Input
  <2> QED
    BY <1>1, <2>1, <2>2, <2>3, <2>4 DEF Wizard
<1>2. CASE ~crashed /\ Reports
  <2>1. CASE OnSelectedDeviceRemoved /\ state \in Busy
    BY <2>1, RequestsDo, Named DEF IInv, Waiting, Fresh, Kept, Busy,
      CancelledWrites, Softer
  <2>2. CASE OnSelectedDeviceRemoved /\ state \notin Busy
    BY <2>2, RemovalDoes, Named DEF IInv, Waiting, Fresh, Kept, Busy
  <2>3. CASE OnCacheVerificationComplete
    BY <2>3, CheckedDoes, Named DEF IInv, Waiting, Fresh, Kept, Busy
  <2> QED
    BY <1>2, <2>1, <2>2, <2>3 DEF Reports
<1>3. CASE ~crashed /\ Watchdog
  <2>1. CASE CheckDrains
    BY <2>1, Named DEF IInv, Waiting, Fresh, Kept, Busy, CheckDrains, Input
  <2>2. CASE CheckRestarts
    BY <2>2, RestartsDoes, Stops, Named DEF IInv, Waiting, Fresh, Kept, Busy,
      Slots
  <2>3. CASE CheckTimesOut
    BY <2>3, TimeOutDoes, ErrorDoes, Named DEF IInv, Waiting, Fresh, Kept, Busy
  <2>4. CASE CheckDangles
    BY <2>4 DEF IInv, Waiting, Fresh, Kept, Busy, CheckDangles
  <2> QED
    BY <1>3, <2>1, <2>2, <2>3, <2>4 DEF Watchdog
<1>4. CASE ~crashed /\ MainThread
  <2>1. CASE StartWatchdog
    BY <2>1, Heard, Named DEF IInv, Waiting, Fresh, Kept, Busy, StartWatchdog
  <2>2. CASE OnVerifyProgress
    BY <2>2, Heard, Named DEF IInv, Waiting, Fresh, Kept, Busy,
      OnVerifyProgress
  <2>3. CASE OnFinalizing
    BY <2>3, Heard, Named DEF IInv, Waiting, Fresh, Kept, Busy, OnFinalizing
  <2>4. CASE OnFinalSyncStarting
    BY <2>4, Heard, Named DEF IInv, Waiting, Fresh, Kept, Busy,
      OnFinalSyncStarting
  <2>5. CASE HearSuccess
    BY <2>5, SuccessDoes, Named DEF IInv, Waiting, Fresh, Kept, Busy
  <2>6. CASE HearError
    BY <2>6, Heard, Named, ErrorDoes DEF IInv, Waiting, Fresh, Kept, Busy,
      HearError, StopWatchdog
  <2>7. CASE Tidy
    BY <2>7, Heard, Named DEF IInv, Waiting, Fresh, Kept, Busy, Tidy, Slots
  <2>8. CASE OnCancelled
    BY <2>8, OnCancelledDoes, Named DEF IInv, Waiting, Fresh, Kept, Busy
  <2>9. CASE OnRestart
    BY <2>9, Heard, Named DEF IInv, Waiting, Fresh, Kept, Busy, OnRestart,
      Slots
  <2> QED
    BY <1>4, <2>1, <2>2, <2>3, <2>4, <2>5, <2>6, <2>7, <2>8, <2>9 DEF
      MainThread
<1>5. ASSUME NEW t \in Threads, ~crashed /\ WriteThread(t)
      PROVE  Waiting'
  BY <1>5, ThreadMoves, Unheard, Named DEF IInv, Waiting, Alive
<1>6. CASE Rest
  BY <1>6 DEF IInv, Waiting, Fresh, Kept, Busy, Rest, vars
<1> QED
  BY <1>1, <1>2, <1>3, <1>4, <1>5, <1>6 DEF Next

(* The thread in hand. *)
LEMMA KeepsInHand ==
  ASSUME Backlog = 0, IInv, Next
  PROVE  InHand'
<1>1. CASE ~crashed /\ Wizard
  <2>1. CASE StartWrite
    BY <2>1, StartWriteDoes, Named DEF IInv, Typed, InHand, Alive, Kept,
      Launched, Fresh
  <2>2. CASE UserCancels
    BY <2>2, RequestsDo, Named DEF IInv, Typed, InHand, Alive, Kept, Launched,
      Fresh, CancelledWrites, Softer
  <2>3. CASE SetDst
    BY <2>3 DEF IInv, Typed, InHand, Alive, Kept, Launched, Fresh, SetDst,
      Input
  <2>4. CASE ResetWizard
    BY <2>4, Named DEF IInv, Typed, InHand, Alive, Kept, Launched, Fresh,
      ResetWizard, Input
  <2> QED
    BY <1>1, <2>1, <2>2, <2>3, <2>4 DEF Wizard
<1>2. CASE ~crashed /\ Reports
  <2>1. CASE OnSelectedDeviceRemoved /\ state \in Busy
    BY <2>1, RequestsDo, Named DEF IInv, Typed, InHand, Alive, Kept, Launched,
      Fresh, CancelledWrites, Softer
  <2>2. CASE OnSelectedDeviceRemoved /\ state \notin Busy
    BY <2>2, RemovalDoes, Named DEF IInv, Typed, InHand, Alive, Kept, Launched,
      Fresh
  <2>3. CASE OnCacheVerificationComplete
    BY <2>3, CheckedDoes, Named DEF IInv, Typed, InHand, Alive, Kept, Launched,
      Fresh
  <2> QED
    BY <1>2, <2>1, <2>2, <2>3 DEF Reports
<1>3. CASE ~crashed /\ Watchdog
  <2>1. CASE CheckDrains
    BY <2>1, Named DEF IInv, Typed, InHand, Alive, Kept, Launched, Fresh,
      CheckDrains, Input
  <2>2. CASE CheckRestarts
    BY <2>2, RestartsDoes, Stops, Named DEF IInv, Typed, InHand, Alive, Kept,
      Launched, Fresh, Slots
  <2>3. CASE CheckTimesOut
    BY <2>3, TimeOutDoes, ErrorDoes, Named DEF IInv, Typed, InHand, Alive,
      Kept, Launched, Fresh
  <2>4. CASE CheckDangles
    BY <2>4 DEF IInv, Typed, InHand, Alive, Kept, Launched, Fresh, CheckDangles
  <2> QED
    BY <1>3, <2>1, <2>2, <2>3, <2>4 DEF Watchdog
<1>4. CASE ~crashed /\ MainThread
  <2>1. CASE StartWatchdog
    BY <2>1, Heard, Named DEF IInv, Typed, InHand, Alive, Kept, Launched,
      Fresh, StartWatchdog
  <2>2. CASE OnVerifyProgress
    BY <2>2, Heard, Named DEF IInv, Typed, InHand, Alive, Kept, Launched,
      Fresh, OnVerifyProgress
  <2>3. CASE OnFinalizing
    BY <2>3, Heard, Named DEF IInv, Typed, InHand, Alive, Kept, Launched,
      Fresh, OnFinalizing
  <2>4. CASE OnFinalSyncStarting
    BY <2>4, Heard, Named DEF IInv, Typed, InHand, Alive, Kept, Launched,
      Fresh, OnFinalSyncStarting
  <2>5. CASE HearSuccess
    BY <2>5, SuccessDoes, Named DEF IInv, Typed, InHand, Alive, Kept, Launched,
      Fresh
  <2>6. CASE HearError
    BY <2>6, Heard, Named, ErrorDoes DEF IInv, Typed, InHand, Alive, Kept,
      Launched, Fresh, HearError, StopWatchdog
  <2>7. CASE Tidy
    BY <2>7, Heard, Named DEF IInv, Typed, InHand, Alive, Kept, Launched,
      Fresh, Tidy, Slots
  <2>8. CASE OnCancelled
    BY <2>8, OnCancelledDoes, Named DEF IInv, Typed, InHand, Alive, Kept,
      Launched, Fresh
  <2>9. CASE OnRestart
    BY <2>9, Heard, Named DEF IInv, Typed, InHand, Alive, Kept, Launched,
      Fresh, OnRestart, Slots
  <2> QED
    BY <1>4, <2>1, <2>2, <2>3, <2>4, <2>5, <2>6, <2>7, <2>8, <2>9 DEF
      MainThread
<1>5. ASSUME NEW t \in Threads, ~crashed /\ WriteThread(t)
      PROVE  InHand'
  BY <1>5, Named, Unheard DEF IInv, Typed, InHand, Alive, Kept, Launched,
    Fresh, WriteThread, PrepareDevice, Move, WriteImage, AnnounceSync, Sync,
    Verify, Finalize, WriteTable, Announce, Fail, NetworkFails, StreamEnds,
    Finish
<1>6. CASE Rest
  BY <1>6 DEF IInv, Typed, InHand, Alive, Kept, Launched, Fresh, Rest, vars
<1> QED
  BY <1>1, <1>2, <1>3, <1>4, <1>5, <1>6 DEF Next

(* One thread writes. *)
LEMMA KeepsOneWrites ==
  ASSUME Backlog = 0, IInv, Next
  PROVE  OneWrites'
<1>1. CASE ~crashed /\ Wizard
  <2>1. CASE StartWrite
    BY <2>1, StartWriteDoes, Named DEF IInv, Typed, InHand, Alive, Kept,
      Launched, Fresh, OneWrites, Writing, Busy
  <2>2. CASE UserCancels
    BY <2>2, RequestsDo, Named DEF IInv, Typed, InHand, Alive, Kept, Launched,
      Fresh, OneWrites, Writing, Busy, CancelledWrites, Softer
  <2>3. CASE SetDst
    BY <2>3 DEF IInv, Typed, InHand, Alive, Kept, Launched, Fresh, OneWrites,
      Writing, Busy, SetDst, Input
  <2>4. CASE ResetWizard
    BY <2>4, Named DEF IInv, Typed, InHand, Alive, Kept, Launched, Fresh,
      OneWrites, Writing, Busy, ResetWizard, Input
  <2> QED
    BY <1>1, <2>1, <2>2, <2>3, <2>4 DEF Wizard
<1>2. CASE ~crashed /\ Reports
  <2>1. CASE OnSelectedDeviceRemoved /\ state \in Busy
    BY <2>1, RequestsDo, Named DEF IInv, Typed, InHand, Alive, Kept, Launched,
      Fresh, OneWrites, Writing, Busy, CancelledWrites, Softer
  <2>2. CASE OnSelectedDeviceRemoved /\ state \notin Busy
    BY <2>2, RemovalDoes, Named DEF IInv, Typed, InHand, Alive, Kept, Launched,
      Fresh, OneWrites, Writing, Busy
  <2>3. CASE OnCacheVerificationComplete
    BY <2>3, CheckedDoes, Named DEF IInv, Typed, InHand, Alive, Kept, Launched,
      Fresh, OneWrites, Writing, Busy
  <2> QED
    BY <1>2, <2>1, <2>2, <2>3 DEF Reports
<1>3. CASE ~crashed /\ Watchdog
  <2>1. CASE CheckDrains
    BY <2>1, Named DEF IInv, Typed, InHand, Alive, Kept, Launched, Fresh,
      OneWrites, Writing, Busy, CheckDrains, Input
  <2>2. CASE CheckRestarts
    BY <2>2, RestartsDoes, Stops, Named DEF IInv, Typed, InHand, Alive, Kept,
      Launched, Fresh, OneWrites, Writing, Busy, Slots
  <2>3. CASE CheckTimesOut
    BY <2>3, TimeOutDoes, ErrorDoes, Named DEF IInv, Typed, InHand, Alive,
      Kept, Launched, Fresh, OneWrites, Writing, Busy
  <2>4. CASE CheckDangles
    BY <2>4 DEF IInv, Typed, InHand, Alive, Kept, Launched, Fresh, OneWrites,
      Writing, Busy, CheckDangles
  <2> QED
    BY <1>3, <2>1, <2>2, <2>3, <2>4 DEF Watchdog
<1>4. CASE ~crashed /\ MainThread
  <2>1. CASE StartWatchdog
    BY <2>1, Heard, Named DEF IInv, Typed, InHand, Alive, Kept, Launched,
      Fresh, OneWrites, Writing, Busy, StartWatchdog
  <2>2. CASE OnVerifyProgress
    BY <2>2, Heard, Named DEF IInv, Typed, InHand, Alive, Kept, Launched,
      Fresh, OneWrites, Writing, Busy, OnVerifyProgress
  <2>3. CASE OnFinalizing
    BY <2>3, Heard, Named DEF IInv, Typed, InHand, Alive, Kept, Launched,
      Fresh, OneWrites, Writing, Busy, OnFinalizing
  <2>4. CASE OnFinalSyncStarting
    BY <2>4, Heard, Named DEF IInv, Typed, InHand, Alive, Kept, Launched,
      Fresh, OneWrites, Writing, Busy, OnFinalSyncStarting
  <2>5. CASE HearSuccess
    BY <2>5, SuccessDoes, Named DEF IInv, Typed, InHand, Alive, Kept, Launched,
      Fresh, OneWrites, Writing, Busy
  <2>6. CASE HearError
    BY <2>6, Heard, Named, ErrorDoes DEF IInv, Typed, InHand, Alive, Kept,
      Launched, Fresh, OneWrites, Writing, Busy, HearError, StopWatchdog
  <2>7. CASE Tidy
    BY <2>7, Heard, Named DEF IInv, Typed, InHand, Alive, Kept, Launched,
      Fresh, OneWrites, Writing, Busy, Tidy, Slots
  <2>8. CASE OnCancelled
    BY <2>8, OnCancelledDoes, Named DEF IInv, Typed, InHand, Alive, Kept,
      Launched, Fresh, OneWrites, Writing, Busy
  <2>9. CASE OnRestart
    BY <2>9, Heard, Named DEF IInv, Typed, InHand, Alive, Kept, Launched,
      Fresh, OneWrites, Writing, Busy, OnRestart, Slots
  <2> QED
    BY <1>4, <2>1, <2>2, <2>3, <2>4, <2>5, <2>6, <2>7, <2>8, <2>9 DEF
      MainThread
<1>5. ASSUME NEW t \in Threads, ~crashed /\ WriteThread(t)
      PROVE  OneWrites'
  BY <1>5, Named, Unheard DEF IInv, Typed, InHand, Alive, Kept, Launched,
    Fresh, OneWrites, Writing, Busy, WriteThread, PrepareDevice, Move,
    WriteImage, AnnounceSync, Sync, Verify, Finalize, WriteTable, Announce,
    Fail, NetworkFails, StreamEnds, Finish
<1>6. CASE Rest
  BY <1>6 DEF IInv, Typed, InHand, Alive, Kept, Launched, Fresh, OneWrites,
    Writing, Busy, Rest, vars
<1> QED
  BY <1>1, <1>2, <1>3, <1>4, <1>5, <1>6 DEF Next

(* The slots are lists of slots. *)
LEMMA KeepsSlots ==
  ASSUME Backlog = 0, IInv, Next
  PROVE  slots' \in [Threads -> Seq(Slots)]
<1>1. CASE ~crashed /\ Wizard
  <2>1. CASE StartWrite
    <3>1. Disconnect(thread) \in [Threads -> SUBSET {"error", "rest"}]
      BY DEF IInv, Typed, Disconnect
    <3>2. slots' = slots \/ slots' = [slots EXCEPT ![attempt + 1] = <<"tidy">>]
      BY <2>1 DEF StartWrite, Launch, NoMemory, DoNotLaunch
    <3>3. slots \in [Threads -> Seq(Slots)] /\ <<"tidy">> \in Seq(Slots)
      BY DEF IInv, Lists, Slots
    <3> QED
      BY <3>2, <3>3
  <2>2. CASE UserCancels
    BY <2>2, RequestsList
  <2>3. CASE SetDst
    BY <2>3 DEF IInv, Lists, Slots, SetDst, Input
  <2>4. CASE ResetWizard
    BY <2>4, Named DEF IInv, Lists, Slots, ResetWizard, Input
  <2> QED
    BY <1>1, <2>1, <2>2, <2>3, <2>4 DEF Wizard
<1>2. CASE ~crashed /\ Reports
  <2>1. CASE OnSelectedDeviceRemoved /\ state \in Busy
    BY <2>1, RequestsList
  <2>2. CASE OnSelectedDeviceRemoved /\ state \notin Busy
    BY <2>2 DEF OnSelectedDeviceRemoved, IInv, Lists
  <2>3. CASE OnCacheVerificationComplete
    <3>1. slots' = slots \/ slots' = [slots EXCEPT ![attempt] = <<"tidy">>]
      BY <2>3 DEF OnCacheVerificationComplete, Launch, NoMemory, DoNotLaunch
    <3>2. slots \in [Threads -> Seq(Slots)] /\ <<"tidy">> \in Seq(Slots)
      BY DEF IInv, Lists, Slots
    <3> QED
      BY <3>1, <3>2
  <2> QED
    BY <1>2, <2>1, <2>2, <2>3 DEF Reports
<1>3. CASE ~crashed /\ Watchdog
  <2>1. CASE CheckDrains
    BY <2>1, Named DEF IInv, Lists, Slots, CheckDrains, Input
  <2>2. CASE CheckRestarts
    <3>1. "restart" \in Slots
      BY DEF Slots
    <3> QED
      BY <2>2, <3>1, RestartsDoes, Stops
  <2>3. CASE CheckTimesOut
    BY <2>3, TimeOutDoes, ErrorDoes, Named DEF IInv, Lists, Slots
  <2>4. CASE CheckDangles
    BY <2>4 DEF IInv, Lists, Slots, CheckDangles
  <2> QED
    BY <1>3, <2>1, <2>2, <2>3, <2>4 DEF Watchdog
<1>4. CASE ~crashed /\ MainThread
  BY <1>4 DEF MainThread, StartWatchdog, OnVerifyProgress, OnFinalizing,
           OnFinalSyncStarting, HearSuccess, HearError, Tidy, OnCancelled,
           OnRestart, IInv, Lists
<1>5. ASSUME NEW t \in Threads, ~crashed /\ WriteThread(t)
      PROVE  slots' \in [Threads -> Seq(Slots)]
  BY <1>5, ThreadMoves DEF IInv, Lists
<1>6. CASE Rest
  BY <1>6 DEF IInv, Lists, Slots, Rest, vars
<1> QED
  BY <1>1, <1>2, <1>3, <1>4, <1>5, <1>6 DEF Next

(* What is on its way is a list. *)
LEMMA KeepsEvents ==
  ASSUME Backlog = 0, IInv, Next
  PROVE  events' \in Seq(Events)
<1>1. CASE ~crashed /\ Wizard
  BY <1>1, Quiet DEF IInv, Lists
<1>2. CASE ~crashed /\ Reports
  BY <1>2, Quiet DEF IInv, Lists
<1>3. CASE ~crashed /\ Watchdog
  BY <1>3, Quiet DEF IInv, Lists
<1>4. CASE ~crashed /\ MainThread
  <2>1. \E signal : Receive(signal)
    BY <1>4 DEF MainThread, StartWatchdog, OnVerifyProgress, OnFinalizing,
             OnFinalSyncStarting, HearSuccess, HearError, Tidy, OnCancelled,
             OnRestart
  <2> QED
    BY <2>1, Shrinks DEF IInv, Lists
<1>5. ASSUME NEW t \in Threads, ~crashed /\ WriteThread(t)
      PROVE  events' \in Seq(Events)
  BY <1>5, ThreadSays
<1>6. CASE Rest
  BY <1>6 DEF IInv, Lists, Rest, vars
<1> QED
  BY <1>1, <1>2, <1>3, <1>4, <1>5, <1>6 DEF Next

(* Each step speaks so. *)
LEMMA NextSpeaks ==
  ASSUME Backlog = 0, IInv, Next
  PROVE  Speaks
<1>1. CASE ~crashed /\ Wizard
  <2>1. CASE StartWrite
    <3>1. attempt' = attempt + 1 /\ attempt' \in Threads
      BY <2>1, StartWriteDoes
    <3>2. answers' = answers \/ Tell(attempt + 1, "error", 0)
      BY <2>1 DEF StartWrite, Launch, NoMemory
    <3> QED
      BY <3>1, <3>2 DEF Speaks, Answers
  <2>2. CASE UserCancels
    BY <2>2, RequestsSpeak
  <2>3. CASE SetDst
    BY <2>3 DEF Speaks, Answers, SetDst, Input
  <2>4. CASE ResetWizard
    BY <2>4, Named DEF Speaks, Answers, ResetWizard, Input
  <2> QED
    BY <1>1, <2>1, <2>2, <2>3, <2>4 DEF Wizard
<1>2. CASE ~crashed /\ Reports
  <2>1. CASE OnSelectedDeviceRemoved /\ state \in Busy
    BY <2>1, RequestsSpeak
  <2>2. CASE OnSelectedDeviceRemoved /\ state \notin Busy
    BY <2>2, RemovalDoes, Named DEF Speaks, Answers
  <2>3. CASE OnCacheVerificationComplete
    BY <2>3, CheckedDoes, Named DEF Speaks, Answers
  <2> QED
    BY <1>2, <2>1, <2>2, <2>3 DEF Reports
<1>3. CASE ~crashed /\ Watchdog
  <2>1. CASE CheckDrains
    BY <2>1, Named DEF Speaks, Answers, CheckDrains, Input
  <2>2. CASE CheckRestarts
    BY <2>2 DEF CheckRestarts, Speaks
  <2>3. CASE CheckTimesOut
    <3>1. attempt \in Threads /\ attempt' = attempt /\ OnError(0)
      BY <2>3, TimeOutDoes
    <3>2. answers' = answers \/ Tell(attempt, "error", 0)
      BY <3>1 DEF OnError
    <3> QED
      BY <3>1, <3>2 DEF Speaks, Answers
  <2>4. CASE CheckDangles
    BY <2>4 DEF Speaks, Answers, CheckDangles
  <2> QED
    BY <1>3, <2>1, <2>2, <2>3, <2>4 DEF Watchdog
<1>4. CASE ~crashed /\ MainThread
  <2>1. CASE StartWatchdog
    BY <2>1, Heard, Named DEF Speaks, Answers, StartWatchdog
  <2>2. CASE OnVerifyProgress
    BY <2>2, Heard, Named DEF Speaks, Answers, OnVerifyProgress
  <2>3. CASE OnFinalizing
    BY <2>3, Heard, Named DEF Speaks, Answers, OnFinalizing
  <2>4. CASE OnFinalSyncStarting
    BY <2>4, Heard, Named DEF Speaks, Answers, OnFinalSyncStarting
  <2>5. CASE HearSuccess
    BY <2>5, SuccessDoes, Named DEF Speaks, Answers
  <2>6. CASE HearError
    <3>1. Sender = attempt /\ attempt \in Threads
      BY <2>6, Heard DEF HearError
    <3>2. answers' = answers \/ Tell(attempt, "error", attempt)
      BY <2>6, <3>1 DEF HearError, OnError
    <3>3. attempt' = attempt
      BY <2>6 DEF HearError
    <3> QED
      BY <3>1, <3>2, <3>3 DEF Speaks, Answers
  <2>7. CASE Tidy
    BY <2>7, Heard, Named DEF Speaks, Answers, Tidy, Slots
  <2>8. CASE OnCancelled
    BY <2>8, OnCancelledDoes, Named DEF Speaks, Answers
  <2>9. CASE OnRestart
    BY <2>9, Heard, Named DEF Speaks, Answers, OnRestart, Slots
  <2> QED
    BY <1>4, <2>1, <2>2, <2>3, <2>4, <2>5, <2>6, <2>7, <2>8, <2>9 DEF
      MainThread
<1>5. ASSUME NEW t \in Threads, ~crashed /\ WriteThread(t)
      PROVE  Speaks
  BY <1>5, ThreadMoves DEF Speaks
<1>6. CASE Rest
  BY <1>6 DEF Speaks, Answers, Rest, vars
<1> QED
  BY <1>1, <1>2, <1>3, <1>4, <1>5, <1>6 DEF Next

(* Every thread that runs will be tidied away. *)
LEMMA KeepsFirstSlot ==
  ASSUME Backlog = 0, IInv, Next
  PROVE  \A t \in Threads :
           at'[t] \notin {"none", "finished", "deleted"} =>
             slots'[t] # <<>> /\ slots'[t][1] = "tidy"
<1>1. CASE ~crashed /\ Wizard
  <2>1. CASE StartWrite
    <3>1. ASSUME NEW t \in Threads, t # attempt'
          PROVE  at'[t] = at[t] /\ slots'[t] = slots[t]
      BY <2>1, <3>1, StartWriteDoes DEF Kept
    <3>2. ASSUME NEW t \in Threads, t = attempt'
          PROVE  at'[t] = "none" \/ slots'[t] = <<"tidy">>
      BY <2>1, <3>2, StartWriteDoes DEF Launched
    <3> QED
      BY <3>1, <3>2 DEF IInv, Tidied, Alive
  <2>2. CASE UserCancels
    BY <2>2, RequestsDo, Named DEF IInv, Tidied, Alive, Kept, Launched,
      CancelledWrites, Softer
  <2>3. CASE SetDst
    BY <2>3 DEF IInv, Tidied, Alive, Kept, Launched, SetDst, Input
  <2>4. CASE ResetWizard
    BY <2>4, Named DEF IInv, Tidied, Alive, Kept, Launched, ResetWizard, Input
  <2> QED
    BY <1>1, <2>1, <2>2, <2>3, <2>4 DEF Wizard
<1>2. CASE ~crashed /\ Reports
  <2>1. CASE OnSelectedDeviceRemoved /\ state \in Busy
    BY <2>1, RequestsDo, Named DEF IInv, Tidied, Alive, Kept, Launched,
      CancelledWrites, Softer
  <2>2. CASE OnSelectedDeviceRemoved /\ state \notin Busy
    BY <2>2, RemovalDoes, Named DEF IInv, Tidied, Alive, Kept, Launched
  <2>3. CASE OnCacheVerificationComplete
    BY <2>3, CheckedDoes, Named DEF IInv, Tidied, Alive, Kept, Launched
  <2> QED
    BY <1>2, <2>1, <2>2, <2>3 DEF Reports
<1>3. CASE ~crashed /\ Watchdog
  <2>1. CASE CheckDrains
    BY <2>1, Named DEF IInv, Tidied, Alive, Kept, Launched, CheckDrains, Input
  <2>2. CASE CheckRestarts
    BY <2>2, RestartsDoes, Stops, Named DEF IInv, Tidied, Alive, Kept,
      Launched, Slots
  <2>3. CASE CheckTimesOut
    BY <2>3, TimeOutDoes, ErrorDoes, Named DEF IInv, Tidied, Alive, Kept,
      Launched
  <2>4. CASE CheckDangles
    BY <2>4 DEF IInv, Tidied, Alive, Kept, Launched, CheckDangles
  <2> QED
    BY <1>3, <2>1, <2>2, <2>3, <2>4 DEF Watchdog
<1>4. CASE ~crashed /\ MainThread
  <2>1. slots' = slots /\ \A t \in Threads : t # attempt => at'[t] = at[t]
    BY <1>4, Hears
  <2>2. at'[attempt] \notin {"none", "finished", "deleted"} => Alive(attempt)
    BY <1>4, Hears DEF IInv, Typed, Places, Alive
  <2> QED
    BY <2>1, <2>2 DEF IInv, Tidied, Alive
<1>5. ASSUME NEW t \in Threads, ~crashed /\ WriteThread(t)
      PROVE  \A v \in Threads :
           at'[v] \notin {"none", "finished", "deleted"} =>
             slots'[v] # <<>> /\ slots'[v][1] = "tidy"
  <2>1. slots' = slots /\ \A u \in Threads : u # t => at'[u] = at[u]
    BY <1>5, ThreadMoves
  <2>2. Alive(t)
    BY <1>5, ThreadMoves
  <2> QED
    BY <2>1, <2>2 DEF IInv, Tidied, Alive
<1>6. CASE Rest
  BY <1>6 DEF IInv, Tidied, Alive, Kept, Launched, Rest, vars
<1> QED
  BY <1>1, <1>2, <1>3, <1>4, <1>5, <1>6 DEF Next

(* A thread that prepares has posted nothing. *)
LEMMA KeepsPreparing ==
  ASSUME Backlog = 0, IInv, Next
  PROVE  Preparing'
<1>1. CASE ~crashed /\ Wizard
  <2>1. CASE StartWrite
    BY <2>1, StartWriteDoes, FirstSlot, Named
    DEF Preparing, Launched, Busy
  <2>2. CASE UserCancels
    <3>1. CancelledWrites /\ UNCHANGED events
      BY <2>2, RequestsDo
    <3> QED
      BY <2>2, <3>1, RequestsDo, FirstSlot, Named
      DEF CancelledWrites, IInv, Preparing, Kept, Launched, Alive, Fresh, Busy
  <2>3. CASE SetDst
    BY <2>3 DEF IInv, Preparing, Kept, Launched, Alive, Fresh, Busy, SetDst,
      Input
  <2>4. CASE ResetWizard
    BY <2>4, Named DEF IInv, Preparing, Kept, Launched, Alive, Fresh, Busy,
      ResetWizard, Input
  <2> QED
    BY <1>1, <2>1, <2>2, <2>3, <2>4 DEF Wizard
<1>2. CASE ~crashed /\ Reports
  <2>1. CASE OnSelectedDeviceRemoved /\ state \in Busy
    BY <2>1, RequestsDo, FirstSlot, Named
    DEF CancelledWrites, IInv, Preparing, Kept, Launched, Alive, Fresh, Busy
  <2>2. CASE OnSelectedDeviceRemoved /\ state \notin Busy
    BY <2>2, RemovalDoes, Named DEF IInv, Preparing, Kept, Launched, Alive,
      Fresh, Busy
  <2>3. CASE OnCacheVerificationComplete
    BY <2>3, CheckedDoes, FirstSlot, Named DEF Preparing, Launched, Busy
  <2> QED
    BY <1>2, <2>1, <2>2, <2>3 DEF Reports
<1>3. CASE ~crashed /\ Watchdog
  <2>1. CASE CheckDrains
    BY <2>1, Named DEF IInv, Preparing, Kept, Launched, Alive, Fresh, Busy,
      CheckDrains, Input
  <2>2. CASE CheckRestarts
    BY <2>2, RestartsDoes, Stops, Named DEF IInv, Preparing, Kept, Launched,
      Alive, Fresh, Busy, Slots
  <2>3. CASE CheckTimesOut
    <3>1. /\ watchdog # 0 /\ at[watchdog] # "deleted"
          /\ UNCHANGED <<thread, at>>
      BY <2>3 DEF CheckTimesOut
    <3>2. watchdog = thread /\ at[watchdog] # "prepare"
      BY <3>1 DEF IInv, Watched
    <3> QED
      BY <3>1, <3>2 DEF Preparing
  <2>4. CASE CheckDangles
    BY <2>4 DEF IInv, Preparing, Kept, Launched, Alive, Fresh, Busy,
      CheckDangles
  <2> QED
    BY <1>3, <2>1, <2>2, <2>3, <2>4 DEF Watchdog
<1>4. CASE ~crashed /\ MainThread
  <2>1. CASE StartWatchdog
    BY <2>1, Heard, Named DEF IInv, Preparing, Kept, Launched, Alive, Fresh,
      Busy, StartWatchdog
  <2>2. CASE OnVerifyProgress
    BY <2>2, Heard, Named DEF IInv, Preparing, Kept, Launched, Alive, Fresh,
      Busy, OnVerifyProgress
  <2>3. CASE OnFinalizing
    BY <2>3, Heard, Named DEF IInv, Preparing, Kept, Launched, Alive, Fresh,
      Busy, OnFinalizing
  <2>4. CASE OnFinalSyncStarting
    BY <2>4, Heard, Named DEF IInv, Preparing, Kept, Launched, Alive, Fresh,
      Busy, OnFinalSyncStarting
  <2>5. CASE HearSuccess
    BY <2>5, SuccessDoes, Named DEF IInv, Preparing, Kept, Launched, Alive,
      Fresh, Busy
  <2>6. CASE HearError
    BY <2>6, Heard, Named, ErrorDoes DEF IInv, Preparing, Kept, Launched,
      Alive, Fresh, Busy, HearError, StopWatchdog
  <2>7. CASE Tidy
    BY <2>7, Heard, Named DEF IInv, Preparing, Kept, Launched, Alive, Fresh,
      Busy, Tidy, Slots
  <2>8. CASE OnCancelled
    BY <2>8, OnCancelledDoes, Named DEF IInv, Preparing, Kept, Launched, Alive,
      Fresh, Busy
  <2>9. CASE OnRestart
    BY <2>9, Heard, Named DEF IInv, Preparing, Kept, Launched, Alive, Fresh,
      Busy, OnRestart, Slots
  <2> QED
    BY <1>4, <2>1, <2>2, <2>3, <2>4, <2>5, <2>6, <2>7, <2>8, <2>9 DEF
      MainThread
<1>5. ASSUME NEW t \in Threads, ~crashed /\ WriteThread(t)
      PROVE  Preparing'
  BY <1>5, ThreadMoves, Unheard, Named DEF IInv, Preparing
<1>6. CASE Rest
  BY <1>6 DEF IInv, Preparing, Kept, Launched, Alive, Fresh, Busy, Rest, vars
<1> QED
  BY <1>1, <1>2, <1>3, <1>4, <1>5, <1>6 DEF Next

(* What the watchdog looks at. *)
LEMMA KeepsWatched ==
  ASSUME Backlog = 0, IInv, Next
  PROVE  Watched'
<1>1. CASE ~crashed /\ Wizard
  <2>1. CASE StartWrite
    BY <2>1, StartWriteDoes, Named DEF IInv, Watched, Kept, Launched, Alive,
      Fresh, Busy
  <2>2. CASE UserCancels
    BY <2>2, RequestsDo, Named DEF IInv, Watched, Kept, Launched, Alive, Fresh,
      Busy, CancelledWrites, Softer
  <2>3. CASE SetDst
    BY <2>3 DEF IInv, Watched, Kept, Launched, Alive, Fresh, Busy, SetDst,
      Input
  <2>4. CASE ResetWizard
    BY <2>4, Named DEF IInv, Watched, Kept, Launched, Alive, Fresh, Busy,
      ResetWizard, Input
  <2> QED
    BY <1>1, <2>1, <2>2, <2>3, <2>4 DEF Wizard
<1>2. CASE ~crashed /\ Reports
  <2>1. CASE OnSelectedDeviceRemoved /\ state \in Busy
    BY <2>1, RequestsDo, Named DEF IInv, Watched, Kept, Launched, Alive, Fresh,
      Busy, CancelledWrites, Softer
  <2>2. CASE OnSelectedDeviceRemoved /\ state \notin Busy
    BY <2>2, RemovalDoes, Named DEF IInv, Watched, Kept, Launched, Alive,
      Fresh, Busy
  <2>3. CASE OnCacheVerificationComplete
    BY <2>3, CheckedDoes, Named DEF IInv, Watched, Kept, Launched, Alive,
      Fresh, Busy
  <2> QED
    BY <1>2, <2>1, <2>2, <2>3 DEF Reports
<1>3. CASE ~crashed /\ Watchdog
  <2>1. CASE CheckDrains
    BY <2>1, Named DEF IInv, Watched, Kept, Launched, Alive, Fresh, Busy,
      CheckDrains, Input
  <2>2. CASE CheckRestarts
    BY <2>2, RestartsDoes, Stops, Named DEF IInv, Watched, Kept, Launched,
      Alive, Fresh, Busy, Slots
  <2>3. CASE CheckTimesOut
    BY <2>3, TimeOutDoes, ErrorDoes, Named DEF IInv, Watched, Kept, Launched,
      Alive, Fresh, Busy
  <2>4. CASE CheckDangles
    BY <2>4 DEF IInv, Watched, Kept, Launched, Alive, Fresh, Busy, CheckDangles
  <2> QED
    BY <1>3, <2>1, <2>2, <2>3, <2>4 DEF Watchdog
<1>4. CASE ~crashed /\ MainThread
  <2>1. CASE StartWatchdog
    BY <2>1, Heard, Named DEF IInv, Watched, Kept, Launched, Alive, Fresh,
      Busy, StartWatchdog
  <2>2. CASE OnVerifyProgress
    BY <2>2, Heard, Named DEF IInv, Watched, Kept, Launched, Alive, Fresh,
      Busy, OnVerifyProgress
  <2>3. CASE OnFinalizing
    BY <2>3, Heard, Named DEF IInv, Watched, Kept, Launched, Alive, Fresh,
      Busy, OnFinalizing
  <2>4. CASE OnFinalSyncStarting
    BY <2>4, Heard, Named DEF IInv, Watched, Kept, Launched, Alive, Fresh,
      Busy, OnFinalSyncStarting
  <2>5. CASE HearSuccess
    BY <2>5, SuccessDoes, Named DEF IInv, Watched, Kept, Launched, Alive,
      Fresh, Busy
  <2>6. CASE HearError
    BY <2>6, Heard, Named, ErrorDoes DEF IInv, Watched, Kept, Launched, Alive,
      Fresh, Busy, HearError, StopWatchdog
  <2>7. CASE Tidy
    <3>1. /\ Receive("tidy") /\ at' = [at EXCEPT ![Sender] = "deleted"]
          /\ thread' = IF thread = Sender THEN 0 ELSE thread
          /\ UNCHANGED <<watchdog, state, slots>>
      BY <2>7 DEF Tidy
    <3>2. Sender \in Threads /\ at \in [Threads -> Places]
      BY <3>1, Heard DEF IInv, Typed
    <3>3. watchdog # 0 => watchdog \in Threads
      BY Named
    <3> QED
      BY <3>1, <3>2, <3>3 DEF IInv, Watched
  <2>8. CASE OnCancelled
    BY <2>8, OnCancelledDoes, Named DEF IInv, Watched, Kept, Launched, Alive,
      Fresh, Busy
  <2>9. CASE OnRestart
    BY <2>9, Heard, Named DEF IInv, Watched, Kept, Launched, Alive, Fresh,
      Busy, OnRestart, Slots
  <2> QED
    BY <1>4, <2>1, <2>2, <2>3, <2>4, <2>5, <2>6, <2>7, <2>8, <2>9 DEF
      MainThread
<1>5. ASSUME NEW t \in Threads, ~crashed /\ WriteThread(t)
      PROVE  Watched'
  BY <1>5, ThreadMoves, Named DEF IInv, Watched, Alive
<1>6. CASE Rest
  BY <1>6 DEF IInv, Watched, Kept, Launched, Alive, Fresh, Busy, Rest, vars
<1> QED
  BY <1>1, <1>2, <1>3, <1>4, <1>5, <1>6 DEF Next

(* What has been said is a list of answers, each about its own write. *)
LEMMA KeepsAnswers ==
  ASSUME Backlog = 0, IInv, Next
  PROVE  answers' \in [Threads -> Seq(Answer)]
<1>1. answers \in [Threads -> Seq(Answer)]
  BY DEF IInv, Lists, Answer
<1>2. CASE answers' = answers
  BY <1>1, <1>2
<1>3. ASSUME NEW what \in Answers, NEW by \in {0, attempt'},
             attempt' \in Threads, Tell(attempt', what, by)
      PROVE  answers' \in [Threads -> Seq(Answer)]
  <2>1. by \in 0 .. Writes
    BY <1>3, Constants
  <2> QED
    BY <1>1, <1>3, <2>1, Tells
<1> QED
  BY <1>2, <1>3, NextSpeaks DEF Speaks

(* Slots, events and answers are lists. *)
LEMMA KeepsLists ==
  ASSUME Backlog = 0, IInv, Next
  PROVE  Lists'
  BY KeepsSlots, KeepsEvents, KeepsAnswers DEF Lists, Answer

(* What is posted keeps telling how far its thread is. *)
LEMMA KeepsPosted ==
  ASSUME Backlog = 0, IInv, Next
  PROVE  Posted'
<1>1. CASE Wizard \/ Reports \/ Watchdog
  BY <1>1, Quiet DEF IInv, Posted
<1>2. CASE MainThread
  <2>1. Posted /\ OneSync
    BY DEF IInv
  <2>2. ASSUME NEW i \in 1 .. Len(events')
        PROVE  /\ events'[i].of = attempt'
               /\ events'[i].is \in Slots =>
                    /\ at'[attempt] \in {"finished", "deleted"}
                    /\ events'[i].is \in ToSet(slots'[attempt])
               /\ events'[i].is = "success" =>
                    at'[attempt] \in {"stream", "ending", "finished",
                                      "deleted"}
               /\ events'[i].is = "finalSync" => at'[attempt] = "ask"
               /\ events'[i].is # "authorised"
    <3>1. /\ i + 1 \in 1 .. Len(events) /\ events'[i] = events[i + 1]
          /\ i + 1 # 1 /\ 1 \in 1 .. Len(events)
          /\ attempt' = attempt /\ slots' = slots
      BY <1>2, <2>2, Hears
    <3>2. \/ at' = at
          \/ /\ at[attempt] \in {"finished", "deleted"}
             /\ at'[attempt] = "deleted"
          \/ at[attempt] = "ask" /\ events[1].is = "finalSync"
      BY <1>2, Hears
    <3>3. events[1].is = "finalSync" => events[i + 1].is # "finalSync"
      BY <2>1, <3>1 DEF OneSync
    <3>4. /\ events[i + 1].of = attempt
          /\ events[i + 1].is \in Slots =>
               /\ at[attempt] \in {"finished", "deleted"}
               /\ events[i + 1].is \in ToSet(slots[attempt])
          /\ events[i + 1].is = "success" =>
               at[attempt] \in {"stream", "ending", "finished", "deleted"}
          /\ events[i + 1].is = "finalSync" => at[attempt] = "ask"
          /\ events[i + 1].is # "authorised"
      BY <2>1, <3>1 DEF Posted
    <3> QED
      BY <3>1, <3>2, <3>3, <3>4
  <2>3. attempt' = attempt
    BY <1>2, Hears
  <2> QED
    BY <2>2, <2>3 DEF Posted
<1>3. ASSUME NEW t \in Threads, WriteThread(t)
      PROVE  Posted'
  <2>1. Posted
    BY DEF IInv
  <2>2. ASSUME NEW i \in 1 .. Len(events)
        PROVE  /\ events'[i].of = attempt'
               /\ events'[i].is \in Slots =>
                    /\ at'[attempt'] \in {"finished", "deleted"}
                    /\ events'[i].is \in ToSet(slots'[attempt'])
               /\ events'[i].is = "success" =>
                    at'[attempt'] \in {"stream", "ending", "finished",
                                       "deleted"}
               /\ events'[i].is = "finalSync" => at'[attempt'] = "ask"
               /\ events'[i].is = "authorised" =>
                    /\ i = 1 /\ state' \in Busy
                    /\ at'[attempt'] \notin {"none", "prepare"}
                    /\ "restart" \notin ToSet(slots'[attempt'])
    <3>1. /\ events'[i] = events[i] /\ attempt' = attempt
          /\ slots' = slots /\ state' = state /\ Alive(t)
      BY <1>3, <2>2, ThreadSays, ThreadMoves
    <3>2. /\ at[t] = "ask" => at'[t] = "ask"
          /\ at[t] = "stream" => at'[t] = "ending"
          /\ at[t] = "ending" => at'[t] = "finished"
          /\ at'[t] \notin {"none", "prepare"}
      BY <1>3, ThreadSteps, ThreadMoves
    <3>3. attempt \in Threads
      <4>1. events \in Seq(Events)
        BY DEF IInv, Lists
      <4>2. events[i] \in Events
        BY <2>2, <4>1
      <4>3. events[i].of \in Threads
        BY <4>2 DEF Events
      <4> QED
        BY <2>1, <2>2, <4>3 DEF Posted
    <3>4. t # attempt => at'[attempt] = at[attempt]
      BY <1>3, <3>3, ThreadMoves
    <3> QED
      BY <2>1, <2>2, <3>1, <3>2, <3>4 DEF Posted, Alive
  <2>3. ASSUME NEW i \in 1 .. Len(events'), i > Len(events),
               listening[t] # {}, events'[i].of = t, Says(t, events'[i].is),
               events'[i].is \notin Slots => i = Len(events) + 1
        PROVE  /\ events'[i].of = attempt'
               /\ events'[i].is \in Slots =>
                    /\ at'[attempt'] \in {"finished", "deleted"}
                    /\ events'[i].is \in ToSet(slots'[attempt'])
               /\ events'[i].is = "success" =>
                    at'[attempt'] \in {"stream", "ending", "finished",
                                       "deleted"}
               /\ events'[i].is = "finalSync" => at'[attempt'] = "ask"
               /\ events'[i].is = "authorised" =>
                    /\ i = 1 /\ state' \in Busy
                    /\ at'[attempt'] \notin {"none", "prepare"}
                    /\ "restart" \notin ToSet(slots'[attempt'])
    <3>1. /\ t = thread /\ t = attempt /\ attempt' = attempt
          /\ slots' = slots /\ state' = state
      BY <1>3, <2>3, HeardThread
    <3>2. ASSUME events'[i].is = "authorised"
          PROVE  /\ i = 1 /\ state \in Busy /\ at'[t] = "write"
                 /\ "restart" \notin ToSet(slots[t])
      <4>1. at[t] = "prepare" /\ at'[t] = "write"
        BY <2>3, <3>2 DEF Says, Slots
      <4>2. /\ state \in Busy /\ events = <<>>
            /\ "restart" \notin ToSet(slots[t])
        BY <3>1, <4>1 DEF IInv, Preparing
      <4>3. i = Len(events) + 1
        BY <2>3, <3>2 DEF Slots
      <4>4. Len(events) = 0
        BY <4>2
      <4> QED
        BY <4>1, <4>2, <4>3, <4>4
    <3> QED
      BY <2>3, <3>1, <3>2 DEF Says, Slots
  <2>4. \A i \in 1 .. Len(events') :
          \/ i \in 1 .. Len(events)
          \/ /\ i > Len(events) /\ listening[t] # {}
             /\ events'[i].of = t /\ Says(t, events'[i].is)
             /\ events'[i].is \notin Slots => i = Len(events) + 1
    BY <1>3, ThreadSays
  <2>5. \A i \in 1 .. Len(events') : events'[i].of = attempt'
    BY <2>2, <2>3, <2>4
  <2> QED
    BY <2>2, <2>3, <2>4, <2>5 DEF Posted
<1>4. CASE Rest
  BY <1>4 DEF Rest, vars, IInv, Posted
<1> QED
  BY <1>1, <1>2, <1>3, <1>4 DEF Next

(* The final sync is announced once. *)
LEMMA KeepsOneSync ==
  ASSUME Backlog = 0, IInv, Next
  PROVE  OneSync'
<1>1. CASE Wizard \/ Reports \/ Watchdog
  BY <1>1, Quiet DEF IInv, OneSync
<1>2. CASE MainThread
  <2>1. ASSUME NEW i \in 1 .. Len(events'), NEW j \in 1 .. Len(events'),
               events'[i].is = "finalSync", events'[j].is = "finalSync"
        PROVE  i = j
    <3>1. /\ i + 1 \in 1 .. Len(events) /\ events'[i] = events[i + 1]
          /\ j + 1 \in 1 .. Len(events) /\ events'[j] = events[j + 1]
      BY <1>2, Hears
    <3>2. i + 1 = j + 1
      BY <2>1, <3>1 DEF IInv, OneSync
    <3> QED
      BY <3>2
  <2> QED
    BY <2>1 DEF OneSync
<1>3. ASSUME NEW t \in Threads, WriteThread(t)
      PROVE  OneSync'
  <2>1. \A i \in 1 .. Len(events') :
          \/ i \in 1 .. Len(events) /\ events'[i] = events[i]
          \/ /\ i > Len(events) /\ listening[t] # {}
             /\ events'[i].of = t /\ Says(t, events'[i].is)
             /\ events'[i].is \notin Slots => i = Len(events) + 1
    BY <1>3, ThreadSays
  <2>2. ASSUME NEW i \in 1 .. Len(events'), i \notin 1 .. Len(events),
               events'[i].is = "finalSync"
        PROVE  /\ i = Len(events) + 1
               /\ \A j \in 1 .. Len(events) : events[j].is # "finalSync"
    <3>1. /\ i = Len(events) + 1 /\ at[t] = "cache" /\ listening[t] # {}
      BY <2>1, <2>2 DEF Says, Slots
    <3>2. t = attempt
      BY <1>3, <3>1, HeardThread
    <3> QED
      BY <3>1, <3>2 DEF IInv, Posted
  <2> QED
    BY <2>1, <2>2 DEF IInv, OneSync
<1>4. CASE Rest
  BY <1>4 DEF Rest, vars, IInv, OneSync
<1> QED
  BY <1>1, <1>2, <1>3, <1>4 DEF Next

(* What finished() is connected to stays last. *)
LEMMA KeepsSlotsLast ==
  ASSUME Backlog = 0, IInv, Next
  PROVE  SlotsLast'
<1>1. CASE Wizard \/ Reports \/ Watchdog
  BY <1>1, Quiet DEF IInv, SlotsLast
<1>2. CASE MainThread
  <2>1. ASSUME NEW i \in 1 .. Len(events'), NEW j \in 1 .. Len(events'),
               i < j, events'[i].is \in Slots
        PROVE  events'[j].is \in Slots
    <3>1. /\ i + 1 \in 1 .. Len(events) /\ events'[i] = events[i + 1]
          /\ j + 1 \in 1 .. Len(events) /\ events'[j] = events[j + 1]
      BY <1>2, Hears
    <3>2. i + 1 < j + 1
      BY <2>1
    <3> QED
      BY <2>1, <3>1, <3>2 DEF IInv, SlotsLast
  <2> QED
    BY <2>1 DEF SlotsLast
<1>3. ASSUME NEW t \in Threads, WriteThread(t)
      PROVE  SlotsLast'
  <2>1. \A i \in 1 .. Len(events') :
          \/ i \in 1 .. Len(events) /\ events'[i] = events[i]
          \/ /\ i > Len(events) /\ listening[t] # {}
             /\ events'[i].of = t /\ Says(t, events'[i].is)
             /\ events'[i].is \notin Slots => i = Len(events) + 1
    BY <1>3, ThreadSays
  <2>2. ASSUME NEW i \in 1 .. Len(events'), NEW j \in 1 .. Len(events'),
               i < j, events'[i].is \in Slots
        PROVE  events'[j].is \in Slots
    <3>1. CASE j \in 1 .. Len(events)
      <4>1. i \in 1 .. Len(events) /\ Len(events) \in Nat
        BY <1>3, <2>2, <3>1, ThreadSays
      <4> QED
        BY <1>3, <2>2, <3>1, <4>1, ThreadSays DEF IInv, SlotsLast
    <3>2. CASE i \in 1 .. Len(events) /\ j \notin 1 .. Len(events)
      <4>1. events[i].is \in Slots /\ events[i].of = attempt
        BY <1>3, <2>2, <3>2, ThreadSays DEF IInv, Posted
      <4>2. at[attempt] \in {"finished", "deleted"}
        BY <3>2, <4>1 DEF IInv, Posted
      <4>3. t = attempt /\ Alive(t)
        BY <1>3, <2>1, <3>2, HeardThread, ThreadMoves
      <4> QED
        BY <4>2, <4>3 DEF Alive
    <3>3. CASE i \notin 1 .. Len(events) /\ j \notin 1 .. Len(events)
      <4>1. i > Len(events) /\ (events'[j].is \notin Slots =>
                                 j = Len(events) + 1)
        BY <2>1, <3>3
      <4>2. j # Len(events) + 1
        <5>1. Len(events) \in Nat
          BY <1>3, ThreadSays
        <5> QED
          BY <2>2, <4>1, <5>1
      <4> QED
        BY <4>1, <4>2
    <3> QED
      BY <3>1, <3>2, <3>3
  <2> QED
    BY <2>2 DEF SlotsLast
<1>4. CASE Rest
  BY <1>4 DEF Rest, vars, IInv, SlotsLast
<1> QED
  BY <1>1, <1>2, <1>3, <1>4 DEF Next

(* A thread in hand that has finished is still to be tidied away. *)
LEMMA KeepsToTidy ==
  ASSUME Backlog = 0, IInv, Next,
         NEW t \in Threads, t = thread', at'[t] = "finished"
  PROVE  \E i \in 1 .. Len(events') : events'[i].is = "tidy"
<1> DEFINE Goal == \E i \in 1 .. Len(events') : events'[i].is = "tidy"
<1>1. thread' = t /\ thread' # 0
  BY Named
<1>2. CASE Wizard \/ Reports \/ Watchdog
  <2>1. at[t] = "finished" /\ thread = t
    <3>1. CASE StartWrite
      BY <1>1, <3>1, StartWriteDoes DEF Launched, Kept
    <3>2. CASE UserCancels \/ (OnSelectedDeviceRemoved /\ state \in Busy)
      BY <1>1, <3>2, RequestsDo, Named DEF CancelledWrites, Launched, Kept,
        Fresh, Alive
    <3>3. CASE OnCacheVerificationComplete
      BY <1>1, <3>3, CheckedDoes DEF Launched, Kept
    <3>4. CASE OnSelectedDeviceRemoved /\ state \notin Busy
      BY <3>4, RemovalDoes
    <3> QED
      BY <1>2, <3>1, <3>2, <3>3, <3>4
      DEF Wizard, Reports, Watchdog, SetDst, ResetWizard, CheckDrains,
          CheckRestarts, CheckTimesOut, CheckDangles
  <2>2. \E i \in 1 .. Len(events) : events[i].is = "tidy"
    BY <2>1 DEF IInv, Tidied
  <2>3. events' = events
    BY <1>2, Quiet
  <2> QED
    BY <2>2, <2>3
<1>3. CASE MainThread
  <2>1. attempt \in Threads /\ thread' \in {0, thread}
    BY <1>3, Hears
    DEF MainThread, StartWatchdog, OnVerifyProgress, OnFinalizing,
        OnFinalSyncStarting, HearSuccess, HearError, Tidy, OnCancelled,
        OnRestart
  <2>2. thread = t /\ t = attempt
    BY <1>1, <2>1, Named
  <2>3. at[t] = "finished" /\ events[1].is # "tidy"
    <3>1. CASE Tidy
      <4>1. Receive("tidy") /\ thread' = IF thread = Sender THEN 0 ELSE thread
        BY <3>1 DEF Tidy
      <4>2. Sender = attempt
        BY <4>1, Heard
      <4> QED
        BY <1>1, <2>2, <4>1, <4>2
    <3>2. CASE events[1].is # "tidy"
      <4>1. at' = at \/ at'[attempt] = "sync"
        BY <1>3, <3>2, Hears
      <4> QED
        BY <2>2, <3>2, <4>1
    <3>3. CASE ~Tidy /\ events[1].is = "tidy"
      <4>1. \E signal \in Signals \ {"tidy"} : Receive(signal)
        BY <1>3, <3>3
        DEF MainThread, StartWatchdog, OnVerifyProgress, OnFinalizing,
            OnFinalSyncStarting, HearSuccess, HearError, OnCancelled,
            OnRestart, Signals, Slots
      <4>2. events \in Seq(Events)
        BY DEF IInv, Lists
      <4>3. events[1].is # "tidy"
        BY <4>1, <4>2, Shrinks
      <4> QED
        BY <3>3, <4>3
    <3> QED
      BY <3>1, <3>2, <3>3
  <2>4. PICK i \in 1 .. Len(events) : events[i].is = "tidy"
    BY <2>2, <2>3 DEF IInv, Tidied
  <2>5. i # 1
    BY <2>3, <2>4
  <2>6. i - 1 \in 1 .. Len(events') /\ events'[i - 1] = events[i]
    BY <1>3, <2>5, Hears
  <2> QED
    BY <2>4, <2>6
<1>4. ASSUME NEW u \in Threads, WriteThread(u)
      PROVE  Goal
  <2>1. /\ thread' = thread /\ slots' = slots /\ Alive(u)
        /\ u # t => at'[t] = at[t]
    BY <1>4, ThreadMoves
  <2>2. CASE u = t
    <3>1. "rest" \in listening[t] /\ slots[t] # <<>> /\ slots[t][1] = "tidy"
      BY <2>1, <2>2 DEF IInv, InHand, Tidied
    <3>2. Finish(t)
      BY <1>4, <2>2
      DEF WriteThread, PrepareDevice, WriteImage, AnnounceSync, Sync, Verify,
          Finalize, WriteTable, Announce, Fail, NetworkFails, StreamEnds,
          Finish, Move, Alive, IInv, Typed
    <3>3. /\ events \in Seq(Events) /\ slots[t] \in Seq(Slots)
          /\ listening[t] \in SUBSET {"error", "rest"}
      BY DEF IInv, Lists, Typed
    <3> QED
      BY <3>1, <3>2, <3>3, Ends
  <2>3. CASE u # t
    <3>1. PICK i \in 1 .. Len(events) : events[i].is = "tidy"
      BY <2>1, <2>3 DEF IInv, Tidied
    <3>2. i \in 1 .. Len(events') /\ events'[i] = events[i]
      BY <1>4, ThreadSays
    <3> QED
      BY <3>1, <3>2
  <2> QED
    BY <2>2, <2>3
<1>5. CASE Rest
  BY <1>5 DEF Rest, vars, IInv, Tidied
<1> QED
  BY <1>2, <1>3, <1>4, <1>5 DEF Next

-----------------------------------------------------------------------------
(* A write that has gone wrong is not believed to have succeeded. *)

-----------------------------------------------------------------------------
(* At first nothing has been started. *)
LEMMA Begins ==
  ASSUME Init
  PROVE  IInv
<1>1. /\ events = <<>> /\ Len(events) = 0
      /\ \A i \in 1 .. Len(events) : FALSE
  BY DEF Init
<1>3. Typed /\ Flags /\ NotYet /\ Waiting
  BY DEF Init, Typed, Flags, NotYet, Waiting, Places, Busy
<1>4. Numbers /\ Watched
  BY Constants DEF Init, Numbers, Watched, Busy
<1>5. Lists
  BY DEF Init, Lists, Slots, Answers, Events
<1>6. InHand /\ OneWrites /\ Preparing
  BY Constants DEF Init, InHand, OneWrites, Preparing, Alive, Writing
<1>7. Posted /\ OneSync /\ SlotsLast
  BY <1>1 DEF Posted, OneSync, SlotsLast
<1>8. Tidied
  BY DEF Init, Tidied, Alive
<1> QED
  BY <1>3, <1>4, <1>5, <1>6, <1>7, <1>8 DEF IInv

(* The invariant is inductive. *)
LEMMA Keeps ==
  ASSUME Backlog = 0, IInv, [Next]_vars
  PROVE  IInv'
<1>1. CASE Next
  <2>1. Typed' /\ Flags' /\ Numbers' /\ Lists' /\ NotYet' /\ Waiting'
    BY <1>1, KeepsTyped, KeepsFlags, KeepsNumbers, KeepsLists, KeepsNotYet,
       KeepsWaiting
  <2>2. InHand' /\ OneWrites' /\ Posted' /\ OneSync' /\ SlotsLast'
    BY <1>1, KeepsInHand, KeepsOneWrites, KeepsPosted, KeepsOneSync,
       KeepsSlotsLast
  <2>3. Tidied'
    BY <1>1, KeepsFirstSlot, KeepsToTidy DEF Tidied, Alive
  <2>4. Preparing' /\ Watched'
    BY <1>1, KeepsPreparing, KeepsWatched
  <2> QED
    BY <2>1, <2>2, <2>3, <2>4 DEF IInv
<1>2. CASE UNCHANGED vars
  <2>1. Typed' /\ Flags' /\ Numbers' /\ Lists' /\ NotYet' /\ Waiting'
    BY <1>2 DEF vars, IInv, Typed, Flags, Numbers, Lists, NotYet, Waiting
  <2>2. InHand' /\ OneWrites' /\ Posted' /\ OneSync' /\ SlotsLast'
    BY <1>2 DEF vars, IInv, InHand, OneWrites, Posted, OneSync, SlotsLast,
                Alive
  <2>3. Tidied' /\ Preparing' /\ Watched'
    BY <1>2 DEF vars, IInv, Tidied, Preparing, Watched, Alive
  <2> QED
    BY <2>1, <2>2, <2>3 DEF IInv
<1> QED
  BY <1>1, <1>2

(* ... and so it is an invariant. *)
LEMMA Invariant ==
  ASSUME Backlog = 0
  PROVE  Spec => []IInv
  BY Begins, Keeps, PTL DEF Spec

(* Every variable keeps its type, and a cached copy is checked before there *)
(* is a thread.                                                             *)
THEOREM TypeCorrect ==
  ASSUME Backlog = 0
  PROVE  Spec => []TypeOK
<1>1. IInv => TypeOK
  <2>1. ASSUME IInv
        PROVE  TypeOK
    <3>1. /\ state \in Busy \cup {"Idle", "Succeeded", "Failed", "Cancelled"}
          /\ selected \in {"none", "valid", "gone"}
          /\ at \in [Threads -> {"none", "prepare", "write", "cache", "ask",
                                 "sync", "verify", "readBack", "finalize",
                                 "announce", "stream", "ending", "finished",
                                 "deleted"}]
          /\ cancelled \in [Threads -> BOOLEAN]
          /\ listening \in [Threads -> SUBSET {"error", "rest"}]
      BY <2>1 DEF IInv, Typed, Places
    <3>2. {waiting, removal, drainAttempted, crashed} \subseteq BOOLEAN
      BY <2>1 DEF IInv, Flags
    <3>3. /\ attempt \in 0 .. Writes /\ thread \in 0 .. attempt
          /\ watchdog \in 0 .. attempt /\ asked \subseteq 1 .. attempt
      BY <2>1, Constants DEF IInv, Numbers
    <3>4. /\ slots \in [Threads -> Seq(Slots)]
          /\ events \in Seq([of : Threads, is : Signals])
          /\ answers \in [Threads -> Seq([what : Answers, by : 0 .. Writes])]
      BY <2>1 DEF IInv, Lists, Events
    <3>5. waiting => thread = 0
      BY <2>1 DEF IInv, Waiting
    <3> QED
      BY <3>1, <3>2, <3>3, <3>4, <3>5 DEF TypeOK
  <2> QED
    BY <2>1
<1> QED
  BY Invariant, <1>1, PTL

(* Never do two threads write that nobody has told to stop: a write that is *)
(* let go has been told so, or has ended.                                   *)
THEOREM OneThreadWrites ==
  ASSUME Backlog = 0
  PROVE  Spec => []SingleWriter
<1>1. IInv => SingleWriter
  BY DEF IInv, OneWrites, SingleWriter, Writing
<1> QED
  BY Invariant, <1>1, PTL

(* Whatever is on its way is of some thread. *)
LEMMA SomeonesEvent ==
  ASSUME events \in Seq(Events), NEW i \in 1 .. Len(events)
  PROVE  events[i].of \in Threads
<1>1. events[i] \in Events
  OBVIOUS
<1> QED
  BY <1>1 DEF Events

-----------------------------------------------------------------------------
(* What is let go stays silent, whatever of it is still on its way.  This   *)
(* does not rest on Backlog = 0, nor on the invariant above.                *)

(* A thread is started where there was none. *)
InTurn ==
  /\ attempt \in 0 .. Writes
  /\ thread \in {0, attempt}
  /\ \A t \in Threads : t > attempt => at[t] = "none"
  /\ waiting => thread = 0 /\ \A t \in Threads : t = attempt => at[t] = "none"

(* A thread that runs is heard only while it is in hand. *)
CutOff ==
  \A t \in Threads : Alive(t) /\ listening[t] # {} => t = thread \/ crashed

(* What was posted says how far its thread was, whichever it is. *)
Arrivals ==
  /\ \A i \in 1 .. Len(events) :
       /\ events[i].is \in Slots =>
            at[events[i].of] \in {"finished", "deleted"}
       /\ events[i].is = "finalSync" => at[events[i].of] = "ask"
  /\ \A i, j \in 1 .. Len(events) :
       /\ events[i].is = "finalSync" /\ events[j].is = "finalSync"
       /\ events[i].of = events[j].of
       => i = j

Silent == Loose /\ InTurn /\ CutOff /\ Arrivals

(* The check of a cached copy is waited for by a write in hand.  A late     *)
(* error of an earlier write breaks this: it fails the write that waits,    *)
(* and the wait goes on.                                                    *)
CheckIsOn == waiting => state \in Busy

(* No thread starts, and none is heard that was not.                        *)
Steady ==
  /\ UNCHANGED <<attempt, thread, at, events>>
  /\ waiting' => waiting
  /\ listening' \in Listeners
  /\ \A t \in Threads : listening'[t] \subseteq listening[t]
  /\ slots' \in [Threads -> Seq(Slots)]
  /\ crashed => crashed'

(* ... and so nothing is lost. *)
LEMMA SteadyKeeps ==
  ASSUME Silent, Steady
  PROVE  Silent'
<1>1. Loose'
  BY DEF Silent, Steady, Loose
<1>2. InTurn'
  BY DEF Silent, Steady, InTurn
<1>3. CutOff'
  BY DEF Silent, Steady, CutOff, Alive
<1>4. Arrivals'
  BY DEF Silent, Steady, Arrivals
<1> QED
  BY <1>1, <1>2, <1>3, <1>4 DEF Silent

(* A new thread is the one in hand: nobody else that runs is heard.         *)
LEMMA LaunchKeeps ==
  ASSUME Silent, NEW write, NEW listeners \in Listeners,
         attempt' \in 0 .. Writes, attempt' = write, attempt' >= attempt,
         \A t \in Threads : t = write => at[t] = "none",
         \A t \in Threads : Alive(t) => listeners[t] = {},
         \/ Launch(write, listeners) /\ ~waiting'
         \/ DoNotLaunch(listeners),
         UNCHANGED events, crashed => crashed'
  PROVE  Silent'
<1>1. /\ at \in [Threads -> Places] /\ slots \in [Threads -> Seq(Slots)]
      /\ events \in Seq(Events) /\ <<"tidy">> \in Seq(Slots)
      /\ listeners \in [Threads -> SUBSET {"error", "rest"}]
      /\ attempt \in Nat /\ Threads = 1 .. Writes
  BY Constants DEF Silent, Loose, Slots, Listeners, InTurn
<1>2. /\ at' \in [Threads -> Places] /\ slots' \in [Threads -> Seq(Slots)]
      /\ listening' \in Listeners
      /\ \A t \in Threads : t # write => /\ at'[t] = at[t]
                                         /\ listening'[t] = listeners[t]
  <2>1. CASE Launch(write, listeners)
    BY <1>1, <2>1 DEF Launch, Places, Listeners
  <2>2. CASE DoNotLaunch(listeners)
    BY <1>1, <2>2 DEF DoNotLaunch
  <2> QED
    BY <2>1, <2>2
<1>3. thread' = write \/ (thread' = 0 /\ at' = at /\ listening' = listeners)
  BY DEF Launch, DoNotLaunch
<1>4. Loose'
  BY <1>1, <1>2 DEF Loose
<1>5. InTurn'
  <2>1. ASSUME NEW t \in Threads, t > attempt'
        PROVE  at'[t] = "none"
    BY <1>1, <1>2, <2>1 DEF Silent, InTurn
  <2>2. waiting' => thread' = 0 /\ \A t \in Threads :
                                     t = attempt' => at'[t] = "none"
    BY DEF DoNotLaunch
  <2> QED
    BY <1>3, <2>1, <2>2 DEF InTurn
<1>6. CutOff'
  BY <1>1, <1>2, <1>3 DEF CutOff, Alive
<1>7. Arrivals'
  <2>1. ASSUME NEW i \in 1 .. Len(events), events[i].of # write
        PROVE  at'[events[i].of] = at[events[i].of]
    <3>1. events[i].of \in Threads
      BY <1>1, SomeonesEvent
    <3> QED
      BY <1>2, <2>1, <3>1
  <2>2. ASSUME NEW i \in 1 .. Len(events), events[i].of = write
        PROVE  events[i].is \notin Slots /\ events[i].is # "finalSync"
    <3>1. events[i].of \in Threads
      BY <1>1, SomeonesEvent
    <3> QED
      BY <2>2, <3>1 DEF Silent, Arrivals
  <2> QED
    BY <2>1, <2>2 DEF Silent, Arrivals
<1> QED
  BY <1>4, <1>5, <1>6, <1>7 DEF Silent

(* The last write's thread is cut off before the next one is started. *)
LEMMA StartKeeps ==
  ASSUME Silent, CheckIsOn, ~crashed, StartWrite
  PROVE  Silent'
<1> DEFINE listeners == Disconnect(thread)
<1>1. ~waiting /\ attempt' = attempt + 1 /\ attempt < Writes
  BY DEF StartWrite, CheckIsOn
<1>2. /\ attempt \in Nat /\ attempt' \in 0 .. Writes
      /\ attempt' >= attempt /\ attempt' > attempt
  BY <1>1, Constants DEF Silent, InTurn
<1>3. \A t \in Threads : t = attempt + 1 => at[t] = "none"
  BY <1>1, <1>2 DEF Silent, InTurn
<1>4. listeners \in Listeners
  BY DEF Silent, Loose, Listeners, Disconnect
<1>5. ASSUME NEW t \in Threads, Alive(t)
      PROVE  listeners[t] = {}
  <2>1. 0 \notin Threads /\ listening \in [Threads -> SUBSET {"error", "rest"}]
    BY Constants DEF Silent, Loose, Listeners
  <2>2. listening[t] # {} => t = thread
    BY <1>5 DEF Silent, CutOff
  <2> QED
    BY <2>1, <2>2 DEF Disconnect
<1>6. /\ \/ Launch(attempt + 1, listeners) /\ ~waiting'
         \/ DoNotLaunch(listeners)
      /\ UNCHANGED events
  BY <1>1 DEF StartWrite, NoMemory
<1> HIDE DEF listeners
<1> QED
  BY <1>1, <1>2, <1>3, <1>4, <1>5, <1>6, LaunchKeeps

(* Nor is anybody heard when a check of the cached copy ends. *)
LEMMA CheckedKeeps ==
  ASSUME Silent, ~crashed, waiting, attempt' = attempt, UNCHANGED events,
         \/ Launch(attempt, listening) /\ ~waiting'
         \/ NoMemory(attempt, listening)
  PROVE  Silent'
<1>1. attempt \in 0 .. Writes /\ attempt \in Nat /\ 0 \notin Threads
  BY Constants DEF Silent, InTurn
<1>2. /\ thread = 0 /\ listening \in Listeners
      /\ \A t \in Threads : t = attempt => at[t] = "none"
  BY DEF Silent, InTurn, Loose
<1>3. \A t \in Threads : Alive(t) => listening[t] = {}
  BY <1>1, <1>2 DEF Silent, CutOff
<1>4. \/ Launch(attempt, listening) /\ ~waiting'
      \/ DoNotLaunch(listening)
  BY DEF NoMemory
<1>5. attempt' >= attempt
  BY <1>1
<1> QED
  BY <1>1, <1>2, <1>3, <1>4, <1>5, LaunchKeeps

(* A cancellation starts the write that was waiting, or changes no thread. *)
LEMMA CancelKeeps ==
  ASSUME Silent, ~crashed, NEW flag, NEW device, NEW listeners \in Listeners,
         \A t \in Threads : listeners[t] \subseteq listening[t],
         CancelWrite(flag, device, listeners)
  PROVE  Silent'
<1>1. CASE waiting
  BY <1>1, CheckedKeeps DEF CancelWrite, SkipCacheVerification
<1>2. CASE ~waiting
  <2>1. slots' \in [Threads -> Seq(Slots)]
    <3>1. slots \in [Threads -> Seq(Slots)] /\ "onCancelled" \in Slots
      BY DEF Silent, Loose, Slots
    <3>2. thread # 0 => thread \in Threads
      BY Constants DEF Silent, InTurn
    <3>3. \/ slots' = slots
          \/ thread # 0 /\ CancelDownload(thread, "onCancelled")
      BY <1>2 DEF CancelWrite
    <3> QED
      BY <3>1, <3>2, <3>3, Connects
  <2>2. Steady
    BY <1>2, <2>1 DEF CancelWrite, AnswerAtOnce, Steady
  <2> QED
    BY <2>2, SteadyKeeps
<1> QED
  BY <1>1, <1>2

(* What the user asks for, what is reported and what the watchdog does.     *)
LEMMA RequestsKeep ==
  ASSUME Silent, CheckIsOn, ~crashed, Wizard \/ Reports \/ Watchdog
  PROVE  Silent'
<1>1. /\ slots \in [Threads -> Seq(Slots)] /\ listening \in Listeners
      /\ \A t \in Threads : listening[t] \subseteq listening[t]
  BY DEF Silent, Loose
<1>2. CASE StartWrite
  BY <1>2, StartKeeps
<1>3. CASE UserCancels
  <2>1. CancelWrite(removal, selected, listening)
    BY <1>3 DEF UserCancels
  <2> QED
    BY <1>1, <2>1, CancelKeeps
<1>4. CASE OnSelectedDeviceRemoved /\ state \in Busy
  <2>1. CancelWrite(TRUE, "gone", DeafToErrors)
    BY <1>4 DEF OnSelectedDeviceRemoved, DeafToErrors
  <2>2. /\ DeafToErrors \in Listeners
        /\ \A t \in Threads : DeafToErrors[t] \subseteq listening[t]
    BY <1>1 DEF DeafToErrors, Listeners
  <2> QED
    BY <2>1, <2>2, CancelKeeps
<1>5. CASE \/ OnSelectedDeviceRemoved /\ state \notin Busy
           \/ SetDst \/ ResetWizard \/ CheckDrains \/ CheckTimesOut
           \/ CheckDangles
  <2>1. /\ UNCHANGED <<attempt, thread, at, events, waiting, listening, slots>>
        /\ crashed => crashed'
    BY <1>5 DEF OnSelectedDeviceRemoved, SetDst, ResetWizard, CheckDrains,
                CheckTimesOut, CheckDangles
  <2>2. Steady
    BY <1>1, <2>1 DEF Steady
  <2> QED
    BY <2>2, SteadyKeeps
<1>6. CASE CheckRestarts
  <2>1. /\ CancelDownload(thread, "restart")
        /\ UNCHANGED <<attempt, thread, at, events, waiting, listening,
                       crashed>>
    BY <1>6 DEF CheckRestarts
  <2>2. thread \in Threads /\ "restart" \in Slots
    BY <1>6, Constants DEF CheckRestarts, Silent, InTurn, Slots
  <2>3. slots' \in [Threads -> Seq(Slots)]
    BY <1>1, <2>1, <2>2, Connects
  <2>4. Steady
    BY <1>1, <2>1, <2>3 DEF Steady
  <2> QED
    BY <2>4, SteadyKeeps
<1>7. CASE OnCacheVerificationComplete
  <2>1. /\ waiting /\ ~waiting' /\ UNCHANGED <<attempt, events, crashed>>
        /\ \/ Launch(attempt, listening) \/ NoMemory(attempt, listening)
           \/ UNCHANGED <<thread, at, listening, slots>>
    BY <1>7 DEF OnCacheVerificationComplete
  <2>2. CASE Launch(attempt, listening) \/ NoMemory(attempt, listening)
    BY <2>1, <2>2, CheckedKeeps
  <2>3. CASE UNCHANGED <<thread, at, listening, slots>>
    <3>1. Steady
      BY <1>1, <2>1, <2>3 DEF Steady
    <3> QED
      BY <3>1, SteadyKeeps
  <2> QED
    BY <2>1, <2>2, <2>3
<1> QED
  BY <1>2, <1>3, <1>4, <1>5, <1>6, <1>7 DEF Wizard, Reports, Watchdog

(* A slot lets go only of a thread that has ended, or ends the program. *)
LEMMA HearingKeeps ==
  ASSUME Silent, ~crashed, MainThread
  PROVE  Silent'
<1>1. PICK signal : Receive(signal)
  BY DEF MainThread, StartWatchdog, OnVerifyProgress, OnFinalizing,
         OnFinalSyncStarting, HearSuccess, HearError, Tidy, OnCancelled,
         OnRestart
<1>2. /\ events \in Seq(Events) /\ at \in [Threads -> Places]
      /\ listening \in Listeners /\ slots \in [Threads -> Seq(Slots)]
  BY DEF Silent, Loose
<1>3. /\ events' \in Seq(Events)
      /\ Len(events) \in Nat /\ Len(events') \in Nat
      /\ 1 \in 1 .. Len(events) /\ events[1].is = signal
      /\ events[1].of = Sender /\ Sender \in Threads
      /\ \A i \in 1 .. Len(events') :
           i + 1 \in 1 .. Len(events) /\ events'[i] = events[i + 1]
  BY <1>1, <1>2, Shrinks
<1>4. UNCHANGED <<attempt, waiting, listening, slots>>
  BY DEF MainThread, StartWatchdog, OnVerifyProgress, OnFinalizing,
         OnFinalSyncStarting, HearSuccess, HearError, Tidy, OnCancelled,
         OnRestart
(* What the slot does to its thread, and to the one in hand. *)
<1>5. \/ at' = at
      \/ /\ at[Sender] \in {"finished", "deleted"}
         /\ at' = [at EXCEPT ![Sender] = "deleted"]
      \/ /\ at[Sender] = "ask" /\ signal = "finalSync"
         /\ at' = [at EXCEPT ![Sender] = "sync"]
  <2>1. CASE Tidy
    <3>1. events[1].is = "tidy" /\ "tidy" \in Slots
      BY <1>2, <2>1, Shrinks DEF Tidy, Slots
    <3> QED
      BY <1>3, <2>1, <3>1 DEF Tidy, Silent, Arrivals
  <2>2. CASE OnFinalSyncStarting
    <3>1. events[1].is = "finalSync"
      BY <1>2, <2>2, Shrinks DEF OnFinalSyncStarting
    <3> QED
      BY <1>3, <2>2, <3>1 DEF OnFinalSyncStarting, Silent, Arrivals
  <2> QED
    BY <2>1, <2>2 DEF MainThread, StartWatchdog, OnVerifyProgress,
      OnFinalizing, HearSuccess, HearError, OnCancelled, OnRestart
<1>6. \/ thread' = thread
      \/ /\ thread' = 0
         /\ \/ crashed' \/ thread = 0
            \/ at'[thread] \in {"none", "finished", "deleted"}
  <2>1. CASE Tidy
    BY <1>2, <1>3, <2>1 DEF Tidy
  <2>2. CASE OnCancelled
    <3>1. events[1].is = "onCancelled" /\ "onCancelled" \in Slots
      BY <1>2, <2>2, Shrinks DEF OnCancelled, Slots
    <3>2. at[Sender] \in {"finished", "deleted"} /\ at' = at
      BY <1>3, <2>2, <3>1 DEF OnCancelled, Silent, Arrivals
    <3> QED
      BY <2>2, <3>2 DEF OnCancelled
  <2>3. CASE OnRestart
    BY <2>3 DEF OnRestart, Alive
  <2> QED
    BY <2>1, <2>2, <2>3 DEF MainThread, StartWatchdog, OnVerifyProgress,
      OnFinalizing, OnFinalSyncStarting, HearSuccess, HearError
<1>7. Loose'
  BY <1>2, <1>3, <1>4, <1>5 DEF Loose, Places
<1>8. InTurn'
  <2>1. ASSUME NEW t \in Threads, at[t] = "none"
        PROVE  at'[t] = "none"
    BY <1>2, <1>5, <2>1
  <2>2. waiting => thread' = 0
    BY <1>6 DEF Silent, InTurn
  <2> QED
    BY <1>4, <1>6, <2>1, <2>2 DEF Silent, InTurn
<1>9. CutOff'
  <2>1. SUFFICES ASSUME NEW t \in Threads, ~crashed', listening[t] # {},
                        at'[t] \notin {"none", "finished", "deleted"}
                 PROVE  t = thread'
    BY <1>4 DEF CutOff, Alive
  <2>2. Alive(t)
    BY <1>2, <1>3, <1>5, <2>1 DEF Alive
  <2>3. t = thread /\ t # 0
    BY <2>1, <2>2, Constants DEF Silent, CutOff
  <2> QED
    BY <1>6, <2>1, <2>3
<1>10. ASSUME NEW i \in 1 .. Len(events')
       PROVE  /\ events'[i].is \in Slots =>
                   at'[events'[i].of] \in {"finished", "deleted"}
              /\ events'[i].is = "finalSync" => at'[events'[i].of] = "ask"
  <2>1. /\ i + 1 \in 1 .. Len(events) /\ events'[i] = events[i + 1]
        /\ events[i + 1].of \in Threads /\ i + 1 # 1
    BY <1>2, <1>3, SomeonesEvent
  <2>2. /\ events[i + 1].is \in Slots =>
             at[events[i + 1].of] \in {"finished", "deleted"}
        /\ events[i + 1].is = "finalSync" => at[events[i + 1].of] = "ask"
    BY <2>1 DEF Silent, Arrivals
  <2>3. CASE events[i + 1].of # Sender
    BY <1>2, <1>5, <2>1, <2>2, <2>3
  <2>4. CASE events[i + 1].of = Sender
    <3>1. signal = "finalSync" => events[i + 1].is # "finalSync"
      BY <1>3, <2>1, <2>4 DEF Silent, Arrivals
    <3> QED
      BY <1>2, <1>3, <1>5, <2>1, <2>2, <2>4, <3>1
  <2> QED
    BY <2>3, <2>4
<1>11. ASSUME NEW i \in 1 .. Len(events'), NEW j \in 1 .. Len(events'),
              events'[i].is = "finalSync", events'[j].is = "finalSync",
              events'[i].of = events'[j].of
       PROVE  i = j
  <2>1. /\ i + 1 \in 1 .. Len(events) /\ events'[i] = events[i + 1]
        /\ j + 1 \in 1 .. Len(events) /\ events'[j] = events[j + 1]
    BY <1>3
  <2>2. i + 1 = j + 1
    BY <1>11, <2>1 DEF Silent, Arrivals
  <2> QED
    BY <2>2
<1> QED
  BY <1>7, <1>8, <1>9, <1>10, <1>11 DEF Silent, Arrivals

(* A write thread moves by itself. *)
LEMMA LooseMoves ==
  ASSUME Loose, NEW t \in Threads, WriteThread(t)
  PROVE  /\ UNCHANGED <<attempt, waiting, thread, listening, slots, crashed>>
         /\ Alive(t) /\ at' \in [Threads -> Places]
         /\ at'[t] \notin {"none", "deleted"}
         /\ \A u \in Threads : u # t => at'[u] = at[u]
         /\ at[t] = "ask" => at'[t] = "ask"
         /\ listening[t] = {} => events' = events
<1>1. at \in [Threads -> Places]
  BY DEF Loose
<1>2. UNCHANGED <<attempt, waiting, thread, listening, slots, crashed>>
      /\ Alive(t)
  BY DEF WriteThread, PrepareDevice, WriteImage, AnnounceSync, Sync, Verify,
         Finalize, WriteTable, Announce, Fail, NetworkFails, StreamEnds,
         Finish, Alive
<1>3. PICK to \in Places \ {"none", "deleted"} :
        Move(t, to) /\ (at[t] = "ask" => to = "ask")
  BY <1>1 DEF WriteThread, PrepareDevice, WriteImage, AnnounceSync, Sync,
         Verify, Finalize, WriteTable, Announce, Fail, NetworkFails,
         StreamEnds, Finish, Places
<1>4. ASSUME listening[t] = {}
      PROVE  events' = events
  BY <1>4 DEF WriteThread, PrepareDevice, WriteImage, AnnounceSync, Sync,
         Verify, Finalize, WriteTable, Announce, Fail, NetworkFails,
         StreamEnds, Finish, Post
<1> QED
  BY <1>1, <1>2, <1>3, <1>4 DEF Move

(* Only the thread in hand has anything to say. *)
LEMMA OnlyInHandSpeaks ==
  ASSUME Silent, ~crashed, NEW t \in Threads, WriteThread(t)
  PROVE  /\ Len(events) \in Nat
         /\ \A i \in 1 .. Len(events) :
              i \in 1 .. Len(events') /\ events'[i] = events[i]
         /\ \A i \in 1 .. Len(events') :
              \/ i \in 1 .. Len(events) /\ events'[i] = events[i]
              \/ /\ i > Len(events) /\ t = attempt
                 /\ events'[i].of = t /\ Says(t, events'[i].is)
                 /\ events'[i].is \notin Slots => i = Len(events) + 1
<1>1. Alive(t) /\ Loose
  BY LooseMoves DEF Silent
<1>2. listening[t] # {} => t = attempt
  BY <1>1, Constants DEF Silent, CutOff, InTurn
<1> QED
  BY <1>1, <1>2, HeardSays

(* What a thread says tells how far it is. *)
LEMMA SpeakingKeeps ==
  ASSUME Silent, ~crashed, NEW t \in Threads, WriteThread(t)
  PROVE  Silent'
<1>1. /\ UNCHANGED <<attempt, waiting, thread, listening, slots, crashed>>
      /\ Alive(t) /\ at' \in [Threads -> Places]
      /\ at'[t] \notin {"none", "deleted"}
      /\ \A u \in Threads : u # t => at'[u] = at[u]
      /\ at[t] = "ask" => at'[t] = "ask"
  BY LooseMoves DEF Silent
<1>2. /\ events' \in Seq(Events) /\ events \in Seq(Events)
      /\ Len(events) \in Nat
  BY HeardSays DEF Silent, Loose
<1>3. \A i \in 1 .. Len(events') :
        \/ i \in 1 .. Len(events) /\ events'[i] = events[i]
        \/ /\ events'[i].of = t /\ Says(t, events'[i].is)
           /\ events'[i].is \notin Slots => i = Len(events) + 1
  BY OnlyInHandSpeaks
<1>4. Loose'
  BY <1>1, <1>2 DEF Silent, Loose
<1>5. InTurn'
  <2>1. \A u \in Threads : at[u] = "none" => at'[u] = "none"
    BY <1>1 DEF Alive
  <2> QED
    BY <1>1, <2>1 DEF Silent, InTurn
<1>6. CutOff'
  <2>1. \A u \in Threads : Alive(u)' => Alive(u)
    BY <1>1 DEF Alive
  <2> QED
    BY <1>1, <2>1 DEF Silent, CutOff
<1>7. ASSUME NEW i \in 1 .. Len(events')
      PROVE  /\ events'[i].is \in Slots =>
                  at'[events'[i].of] \in {"finished", "deleted"}
             /\ events'[i].is = "finalSync" => at'[events'[i].of] = "ask"
  <2>1. CASE i \in 1 .. Len(events) /\ events'[i] = events[i]
    <3>1. /\ events[i].of \in Threads
          /\ events[i].is \in Slots =>
               at[events[i].of] \in {"finished", "deleted"}
          /\ events[i].is = "finalSync" => at[events[i].of] = "ask"
      BY <1>2, <2>1, SomeonesEvent DEF Silent, Arrivals
    <3>2. CASE events[i].of = t
      BY <1>1, <2>1, <3>1, <3>2 DEF Alive
    <3>3. CASE events[i].of # t
      BY <1>1, <2>1, <3>1, <3>3
    <3> QED
      BY <3>2, <3>3
  <2>2. CASE events'[i].of = t /\ Says(t, events'[i].is)
    BY <2>2 DEF Says, Slots
  <2> QED
    BY <1>3, <2>1, <2>2
<1>8. ASSUME NEW i \in 1 .. Len(events'), NEW j \in 1 .. Len(events'),
             events'[i].is = "finalSync", events'[j].is = "finalSync",
             events'[i].of = events'[j].of
      PROVE  i = j
  <2>1. ASSUME NEW k \in 1 .. Len(events'), events'[k].is = "finalSync"
        PROVE  \/ /\ k \in 1 .. Len(events) /\ events'[k] = events[k]
                  /\ at[events[k].of] = "ask"
               \/ /\ k = Len(events) + 1 /\ events'[k].of = t
                  /\ at[t] = "cache"
    <3>1. CASE k \in 1 .. Len(events) /\ events'[k] = events[k]
      BY <2>1, <3>1 DEF Silent, Arrivals
    <3>2. CASE /\ events'[k].of = t /\ Says(t, events'[k].is)
               /\ events'[k].is \notin Slots => k = Len(events) + 1
      BY <2>1, <3>2 DEF Says, Slots
    <3> QED
      BY <1>3, <3>1, <3>2
  <2>2. CASE i \in 1 .. Len(events) /\ j \in 1 .. Len(events)
             /\ events'[i] = events[i] /\ events'[j] = events[j]
    BY <1>8, <2>2 DEF Silent, Arrivals
  <2>3. CASE i = Len(events) + 1 /\ j = Len(events) + 1
    BY <2>3
  <2> QED
    BY <1>8, <2>1, <2>2, <2>3
<1> QED
  BY <1>4, <1>5, <1>6, <1>7, <1>8 DEF Silent, Arrivals

(* At first no thread runs. *)
LEMMA BeginsSilent ==
  ASSUME Init
  PROVE  Silent
<1>1. /\ events = <<>> /\ Len(events) = 0
      /\ \A i \in 1 .. Len(events) : FALSE
  BY DEF Init
<1>2. Loose
  BY DEF Init, Loose, Places, Listeners, Events, Slots
<1>3. InTurn /\ CutOff
  BY Constants DEF Init, InTurn, CutOff, Alive
<1> QED
  BY <1>1, <1>2, <1>3 DEF Silent, Arrivals

(* Every step keeps the invariant, ... *)
LEMMA KeepsSilent ==
  ASSUME Silent, CheckIsOn, [Next]_vars
  PROVE  Silent'
<1>1. CASE UNCHANGED vars
  <2>1. Steady
    BY <1>1 DEF vars, Steady, Silent, Loose
  <2> QED
    BY <2>1, SteadyKeeps
<1>2. CASE ~crashed /\ (Wizard \/ Reports \/ Watchdog)
  BY <1>2, RequestsKeep
<1>3. CASE ~crashed /\ MainThread
  BY <1>3, HearingKeeps
<1>4. ASSUME ~crashed, NEW t \in Threads, WriteThread(t)
      PROVE  Silent'
  BY <1>4, SpeakingKeeps
<1> QED
  BY <1>1, <1>2, <1>3, <1>4 DEF Next, Rest

(* ... and posts nothing that is not of the write in hand. *)
LEMMA PostsItsOwn ==
  ASSUME Silent, Next, NEW i \in DOMAIN events', i > Len(events)
  PROVE  events'[i].of = attempt
<1>1. events \in Seq(Events) /\ Len(events) \in Nat
  BY DEF Silent, Loose
<1>2. CASE events' = events
  BY <1>1, <1>2
<1>3. CASE ~crashed /\ MainThread
  <2>1. PICK signal : Receive(signal)
    BY <1>3 DEF MainThread, StartWatchdog, OnVerifyProgress, OnFinalizing,
           OnFinalSyncStarting, HearSuccess, HearError, Tidy, OnCancelled,
           OnRestart
  <2>2. events' \in Seq(Events) /\ i \in 1 .. Len(events')
    BY <1>1, <2>1, Shrinks
  <2>3. i + 1 \in 1 .. Len(events)
    BY <1>1, <2>1, <2>2, Shrinks
  <2> QED
    BY <1>1, <2>3
<1>4. ASSUME ~crashed, NEW t \in Threads, WriteThread(t)
      PROVE  events'[i].of = attempt
  <2>1. events' \in Seq(Events) /\ i \in 1 .. Len(events')
    BY <1>4, HeardSays DEF Silent
  <2>2. i \notin 1 .. Len(events)
    BY <1>1
  <2> QED
    BY <1>4, <2>1, <2>2, OnlyInHandSpeaks
<1>5. CASE ~crashed /\ (Wizard \/ Reports \/ Watchdog)
  <2>1. events' = events
    BY <1>5 DEF Wizard, Reports, Watchdog, StartWrite, UserCancels, SetDst,
      ResetWizard, OnSelectedDeviceRemoved, OnCacheVerificationComplete,
      CancelWrite, CheckDrains, CheckRestarts, CheckTimesOut, CheckDangles
  <2> QED
    BY <1>2, <2>1
<1>6. CASE Rest
  BY <1>2, <1>6 DEF Rest, vars
<1> QED
  BY <1>3, <1>4, <1>5, <1>6 DEF Next

(* A thread that has been let go is not heard by the next write: whatever   *)
(* is posted after a write has begun is of that write, in whatever order    *)
(* the signals, the user's requests and the reports come.  The hypothesis   *)
(* says that the wait for a check of the cached copy is over when the next  *)
(* write begins, which startWrite does not see to itself.                   *)
THEOREM LetGoStaysSilent ==
  Spec /\ []CheckIsOn => LetGoIsSilent
<1> DEFINE Step ==
      \A i \in DOMAIN events' : i > Len(events) => events'[i].of = attempt
<1>1. Silent /\ [Next]_vars => [Step]_vars
  BY PostsItsOwn
<1>2. Silent /\ CheckIsOn /\ [Next]_vars => Silent'
  BY KeepsSilent
<1> QED
  BY BeginsSilent, <1>1, <1>2, PTL DEF Spec, LetGoIsSilent

=============================================================================
