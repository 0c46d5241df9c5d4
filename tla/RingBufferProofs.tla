--------------------------- MODULE RingBufferProofs ---------------------------
(***************************************************************************)
(* The slot ring is correct for every number of slots, every stall timeout *)
(* and every number of chunks.                                             *)
(***************************************************************************)
EXTENDS RingBuffer, SequenceTheorems, FiniteSetTheorems, TLAPS

(* The elements of a sequence are what stands at its positions. *)
LEMMA ElementsOfSeq ==
  ASSUME NEW S, NEW q \in Seq(S)
  PROVE  /\ Len(q) \in Nat
         /\ DOMAIN q = 1 .. Len(q)
         /\ \A i \in 1 .. Len(q) : q[i] \in Range(q) /\ q[i] \in S
         /\ \A x \in Range(q) : \E i \in 1 .. Len(q) : q[i] = x
         /\ q # <<>> => Len(q) >= 1
BY DEF Range

(* Appending a new element to a queue without repetitions. *)
LEMMA AppendDistinct ==
  ASSUME NEW S, NEW q \in Seq(S), NEW e \in S, IsInjective(q), e \notin Range(q)
  PROVE  /\ Append(q, e) \in Seq(S)
         /\ IsInjective(Append(q, e))
         /\ Range(Append(q, e)) = Range(q) \cup {e}
<1>1. Append(q, e) \in Seq(S) /\ Len(Append(q, e)) = Len(q) + 1
  OBVIOUS
<1>2. \A i \in 1 .. Len(q) : Append(q, e)[i] = q[i] /\ q[i] \in Range(q)
  BY DEF Range
<1>3. Append(q, e)[Len(q) + 1] = e
  OBVIOUS
<1>4. Len(q) \in Nat
  OBVIOUS
<1>5. IsInjective(Append(q, e))
  <2> SUFFICES ASSUME NEW i \in 1 .. Len(q) + 1, NEW j \in 1 .. Len(q) + 1,
                      Append(q, e)[i] = Append(q, e)[j]
               PROVE  i = j
    BY <1>1 DEF IsInjective
  <2>1. CASE i \in 1 .. Len(q) /\ j \in 1 .. Len(q)
    BY <2>1, <1>2 DEF IsInjective
  <2>2. CASE i = Len(q) + 1 \/ j = Len(q) + 1
    BY <2>2, <1>2, <1>3, <1>4
  <2> QED BY <2>1, <2>2, <1>4
<1>6. Range(Append(q, e)) = Range(q) \cup {e}
  BY <1>1, <1>2, <1>3, <1>4 DEF Range
<1> QED BY <1>1, <1>5, <1>6

(* Taking the top off a stack without repetitions. *)
LEMMA PopDistinct ==
  ASSUME NEW S, NEW q \in Seq(S), q # <<>>, IsInjective(q)
  PROVE  /\ Pop(q) \in Seq(S)
         /\ Top(q) \in S
         /\ IsInjective(Pop(q))
         /\ Range(Pop(q)) = Range(q) \ {Top(q)}
         /\ Top(q) \in Range(q)
<1>1. Len(q) \in Nat /\ Len(q) >= 1
  OBVIOUS
<1>2. \A i \in 1 .. Len(q) - 1 : q[i] \in S
  BY <1>1
<1>3. /\ Pop(q) \in Seq(S)
      /\ Len(Pop(q)) = Len(q) - 1
      /\ \A i \in 1 .. Len(q) - 1 : Pop(q)[i] = q[i]
  <2> DEFINE n == Len(q) - 1
  <2>1. n \in Int /\ 1 \in Int
    BY <1>1
  <2>2. \A i \in 1 .. n : q[i] \in S
    BY <1>2
  <2> HIDE DEF n
  <2>3. /\ SubSeq(q, 1, n) \in Seq(S)
        /\ Len(SubSeq(q, 1, n)) = IF 1 <= n THEN n - 1 + 1 ELSE 0
        /\ \A i \in 1 .. n - 1 + 1 : SubSeq(q, 1, n)[i] = q[1 + i - 1]
    BY <2>1, <2>2, SubSeqProperties
  <2>4. Pop(q) = SubSeq(q, 1, n) /\ n = Len(q) - 1
    BY DEF Pop, n
  <2> QED BY <2>3, <2>4, <1>1
<1>4. IsInjective(Pop(q))
  BY <1>1, <1>3 DEF IsInjective
<1>5. Range(Pop(q)) = Range(q) \ {Top(q)}
  BY <1>1, <1>3 DEF Range, Top, IsInjective
<1>6. Top(q) \in Range(q) /\ Top(q) \in S
  BY <1>1, ElementsOfSeq DEF Top
<1> QED BY <1>3, <1>4, <1>5, <1>6

(* Taking the head off a queue without repetitions. *)
LEMMA TailDistinct ==
  ASSUME NEW S, NEW q \in Seq(S), q # <<>>, IsInjective(q)
  PROVE  /\ Tail(q) \in Seq(S)
         /\ Head(q) \in S
         /\ Len(Tail(q)) = Len(q) - 1
         /\ IsInjective(Tail(q))
         /\ Range(Tail(q)) = Range(q) \ {Head(q)}
         /\ Head(q) \in Range(q)
         /\ \A i \in 1 .. Len(q) - 1 : Tail(q)[i] = q[i + 1]
<1>1. Len(q) \in Nat /\ Len(q) >= 1 /\ Head(q) = q[1]
  OBVIOUS
<1>2. Tail(q) \in Seq(S) /\ Len(Tail(q)) = Len(q) - 1
  OBVIOUS
<1>3. \A i \in 1 .. Len(q) - 1 : Tail(q)[i] = q[i + 1]
  OBVIOUS
<1>4. IsInjective(Tail(q))
  BY <1>1, <1>2, <1>3 DEF IsInjective
<1>5. Range(Tail(q)) = Range(q) \ {Head(q)}
  <2>1. ASSUME NEW x \in Range(q), x # Head(q) PROVE x \in Range(Tail(q))
    <3>1. PICK k \in 1 .. Len(q) : q[k] = x
      BY <2>1 DEF Range
    <3>2. k - 1 \in 1 .. Len(q) - 1 /\ Tail(q)[k - 1] = x
      BY <3>1, <2>1, <1>1, <1>3
    <3> QED BY <3>2, <1>2, ElementsOfSeq
  <2>2. ASSUME NEW x \in Range(Tail(q)) PROVE x \in Range(q) /\ x # Head(q)
    BY <2>2, <1>1, <1>2, <1>3 DEF Range, IsInjective
  <2> QED BY <2>1, <2>2
<1>6. Head(q) \in Range(q) /\ Head(q) \in S
  BY <1>1, ElementsOfSeq
<1> QED BY <1>2, <1>3, <1>4, <1>5, <1>6

(* The initial stack holds every slot once. *)
LEMMA AllFreeDistinct ==
  /\ AllFree \in Seq(Slots)
  /\ IsInjective(AllFree)
  /\ Range(AllFree) = Slots
<1>1. AllFree \in Seq(Slots) /\ Len(AllFree) = NumSlots
  <2>1. AllFree \in [1 .. NumSlots -> Slots]
    BY NumSlotsAssumption DEF AllFree, Slots
  <2> QED BY <2>1, NumSlotsAssumption DEF AllFree
<1>2. \A i \in 1 .. NumSlots : AllFree[i] = NumSlots - i
  BY DEF AllFree
<1>3. IsInjective(AllFree)
  BY <1>1, <1>2, NumSlotsAssumption DEF IsInjective
<1>4. Range(AllFree) = Slots
  <2>1. ASSUME NEW s \in Slots PROVE s \in Range(AllFree)
    <3>1. NumSlots - s \in 1 .. NumSlots /\ AllFree[NumSlots - s] = s
      BY <1>2, NumSlotsAssumption DEF Slots
    <3> QED BY <3>1, <1>1 DEF Range
  <2> QED BY <2>1, <1>1, <1>2 DEF Range
<1> QED BY <1>1, <1>3, <1>4

-----------------------------------------------------------------------------
(* The stall flag goes up when a clock reaches the timeout, no later. *)
StallClocks ==
  stallType = "None" => producerStall < StallTimeout /\ consumerStall < StallTimeout

(* Nothing is being filled once the producer has said it is done. *)
DoneMeansCommitted == producerDone => filling = {}

IInv ==
  /\ TypeOK
  /\ StallClocks
  /\ DoneMeansCommitted
  /\ SlotOwnership
  /\ CommitOrder
  /\ ReadStable

(* An empty ring satisfies the invariant: the initial states and Reset. *)
LEMMA InitInv == Init => IInv
<1> SUFFICES ASSUME Init PROVE IInv
  OBVIOUS
<1> USE NumSlotsAssumption, StallTimeoutAssumption
<1>1. TypeOK
  <2>1. freeSlots \in Seq(Slots) /\ committedSlots \in Seq(Slots)
    BY AllFreeDistinct DEF Init
  <2>2. stallType \in StallTypes
    BY DEF Init, StallTypes
  <2>3. /\ slotInUse \in [Slots -> BOOLEAN]
        /\ data \in [Slots -> Nat] /\ taken \in [Slots -> Nat]
    BY DEF Init
  <2>4. producerStall \in 0 .. StallTimeout /\ consumerStall \in 0 .. StallTimeout
    BY DEF Init
  <2>5. producerDone \in BOOLEAN /\ cancelled \in BOOLEAN
    BY DEF Init
  <2>6. /\ filling \subseteq Slots /\ reading \subseteq Slots
        /\ sent \in Nat /\ received \in Nat
    BY DEF Init
  <2> QED BY <2>1, <2>2, <2>3, <2>4, <2>5, <2>6 DEF TypeOK
<1>2. Range(committedSlots) = {} /\ IsInjective(committedSlots)
  BY DEF Init, Range, IsInjective
<1>3. SlotOwnership
  BY AllFreeDistinct, <1>2 DEF Init, SlotOwnership
<1>4. CommitOrder /\ ReadStable /\ StallClocks /\ DoneMeansCommitted
  BY DEF Init, CommitOrder, ReadStable, StallClocks, DoneMeansCommitted
<1> QED BY <1>1, <1>3, <1>4 DEF IInv

(* A reset empties every place, so that nothing is left to disagree. *)
LEMMA ResetInv == Reset => IInv'
<1> SUFFICES ASSUME Reset PROVE IInv'
  OBVIOUS
<1> USE NumSlotsAssumption, StallTimeoutAssumption
<1>1. TypeOK'
  <2>1. freeSlots' \in Seq(Slots) /\ committedSlots' \in Seq(Slots)
    BY AllFreeDistinct DEF Reset
  <2>2. stallType' \in StallTypes
    BY DEF Reset, StallTypes
  <2>3. /\ slotInUse' \in [Slots -> BOOLEAN]
        /\ data' \in [Slots -> Nat] /\ taken' \in [Slots -> Nat]
    BY DEF Reset
  <2>4. producerStall' \in 0 .. StallTimeout /\ consumerStall' \in 0 .. StallTimeout
    BY DEF Reset
  <2>5. producerDone' \in BOOLEAN /\ cancelled' \in BOOLEAN
    BY DEF Reset
  <2>6. /\ filling' \subseteq Slots /\ reading' \subseteq Slots
        /\ sent' \in Nat /\ received' \in Nat
    BY DEF Reset
  <2> QED BY <2>1, <2>2, <2>3, <2>4, <2>5, <2>6 DEF TypeOK
<1>2. Range(committedSlots') = {} /\ IsInjective(committedSlots')
  BY DEF Reset, Range, IsInjective
<1>3. SlotOwnership'
  BY AllFreeDistinct, <1>2 DEF Reset, SlotOwnership
<1>4. CommitOrder' /\ ReadStable' /\ StallClocks' /\ DoneMeansCommitted'
  BY DEF Reset, CommitOrder, ReadStable, StallClocks, DoneMeansCommitted
<1> QED BY <1>1, <1>3, <1>4 DEF IInv

(* The slot that is popped was in the free stack only, and now is being filled. *)
LEMMA AcquireWriteSlotInv == IInv /\ AcquireWriteSlot => IInv'
<1> SUFFICES ASSUME IInv, AcquireWriteSlot PROVE IInv'
  OBVIOUS
<1> USE StallTimeoutAssumption DEF AcquireWriteSlot, flags
<1> DEFINE s == Top(freeSlots)
<1>1. /\ freeSlots' \in Seq(Slots) /\ IsInjective(freeSlots')
      /\ s \in Slots /\ s \in Range(freeSlots)
      /\ Range(freeSlots') = Range(freeSlots) \ {s}
  BY PopDistinct DEF IInv, TypeOK, SlotOwnership
<1>2. ~slotInUse[s] /\ s \notin filling \cup reading \cup Range(committedSlots)
  BY <1>1 DEF IInv, SlotOwnership
<1> HIDE DEF s
<1>3. freeSlots' = Pop(freeSlots) /\ slotInUse' = [slotInUse EXCEPT ![s] = TRUE]
      /\ filling' = filling \cup {s}
  BY DEF s
<1>4. TypeOK'
  BY <1>1, <1>3 DEF IInv, TypeOK
<1>5. SlotOwnership'
  BY <1>1, <1>2, <1>3 DEF IInv, TypeOK, SlotOwnership
<1>6. CommitOrder' /\ ReadStable' /\ StallClocks' /\ DoneMeansCommitted'
  BY DEF IInv, TypeOK, CommitOrder, ReadStable, StallClocks, DoneMeansCommitted
<1> QED BY <1>4, <1>5, <1>6 DEF IInv

(* The slot that was filled goes to the end of the queue, with the next chunk. *)
LEMMA CommitWriteSlotInv ==
  ASSUME IInv, NEW s \in Slots, CommitWriteSlot(s)
  PROVE  IInv'
<1> USE DEF CommitWriteSlot, flags, clocks
<1>1. s \notin reading /\ s \notin Range(committedSlots)
  BY DEF IInv, SlotOwnership
<1>2. /\ committedSlots' \in Seq(Slots) /\ IsInjective(committedSlots')
      /\ Range(committedSlots') = Range(committedSlots) \cup {s}
  BY <1>1, AppendDistinct DEF IInv, TypeOK, SlotOwnership
<1>3. TypeOK'
  BY <1>2 DEF IInv, TypeOK
<1>4. SlotOwnership'
  BY <1>1, <1>2 DEF IInv, TypeOK, SlotOwnership
<1>5. CommitOrder'
  <2>1. /\ Len(committedSlots) \in Nat
        /\ \A i \in 1 .. Len(committedSlots) :
             committedSlots[i] # s /\ committedSlots[i] \in Slots
    BY <1>1, ElementsOfSeq DEF IInv, TypeOK
  <2>2. /\ Len(committedSlots') = Len(committedSlots) + 1
        /\ committedSlots'[Len(committedSlots) + 1] = s
        /\ \A i \in 1 .. Len(committedSlots) : committedSlots'[i] = committedSlots[i]
    BY DEF IInv, TypeOK
  <2>3. data'[s] = sent + 1 /\ \A t \in Slots \ {s} : data'[t] = data[t]
    BY DEF IInv, TypeOK
  <2>4. sent' = received' + Len(committedSlots')
    BY <2>1, <2>2 DEF IInv, TypeOK, CommitOrder
  <2>5. ASSUME NEW i \in 1 .. Len(committedSlots')
        PROVE  data'[committedSlots'[i]] = received' + i
    <3>1. CASE i \in 1 .. Len(committedSlots)
      BY <3>1, <2>1, <2>2, <2>3 DEF IInv, TypeOK, CommitOrder
    <3>2. CASE i = Len(committedSlots) + 1
      BY <3>2, <2>1, <2>2, <2>3 DEF IInv, TypeOK, CommitOrder
    <3> QED BY <3>1, <3>2, <2>1, <2>2
  <2> QED BY <2>4, <2>5 DEF CommitOrder
<1>6. ReadStable'
  BY <1>1 DEF IInv, TypeOK, ReadStable
<1>7. StallClocks' /\ DoneMeansCommitted'
  BY DEF IInv, StallClocks, DoneMeansCommitted
<1> QED BY <1>3, <1>4, <1>5, <1>6, <1>7 DEF IInv

(* The head of the queue goes to the reader, and the rest keeps its order. *)
LEMMA AcquireReadSlotInv == IInv /\ AcquireReadSlot => IInv'
<1> SUFFICES ASSUME IInv, AcquireReadSlot PROVE IInv'
  OBVIOUS
<1> USE StallTimeoutAssumption DEF HandOver, AcquireReadSlot, flags
<1> DEFINE s == Head(committedSlots)
<1>1. /\ committedSlots' \in Seq(Slots) /\ IsInjective(committedSlots')
      /\ Len(committedSlots') = Len(committedSlots) - 1
      /\ s \in Slots /\ s \in Range(committedSlots)
      /\ Range(committedSlots') = Range(committedSlots) \ {s}
      /\ \A i \in 1 .. Len(committedSlots) - 1 :
           committedSlots'[i] = committedSlots[i + 1]
  BY TailDistinct DEF IInv, TypeOK, SlotOwnership
<1>2. Len(committedSlots) \in Nat /\ Len(committedSlots) >= 1 /\ s = committedSlots[1]
  BY ElementsOfSeq DEF IInv, TypeOK
<1>3. s \notin filling /\ s \notin reading
  BY <1>1 DEF IInv, SlotOwnership
<1> HIDE DEF s
<1>4. reading' = reading \cup {s} /\ taken' = [taken EXCEPT ![s] = data[s]]
  BY DEF s
<1>5. TypeOK'
  BY <1>1, <1>4 DEF IInv, TypeOK
<1>6. SlotOwnership'
  BY <1>1, <1>3, <1>4 DEF IInv, TypeOK, SlotOwnership
<1>7. CommitOrder'
  BY <1>1, <1>2 DEF IInv, TypeOK, CommitOrder
<1>8. ReadStable'
  <2>1. data[s] = received + 1
    BY <1>2 DEF IInv, CommitOrder
  <2> QED BY <1>1, <1>4, <2>1 DEF IInv, TypeOK, ReadStable
<1>9. StallClocks' /\ DoneMeansCommitted'
  BY DEF IInv, StallClocks, DoneMeansCommitted
<1> QED BY <1>5, <1>6, <1>7, <1>8, <1>9 DEF IInv

(* The three releases differ in where the slot comes from; Recycle puts a   *)
(* slot in use, and only such a slot, back on the free stack.               *)
LEMMA RecycleOwnership ==
  ASSUME IInv, NEW s \in Slots, Recycle(s),
         s \notin Range(committedSlots), committedSlots' = committedSlots,
         filling' = filling \ {s}, reading' = reading \ {s}
  PROVE  /\ freeSlots' \in Seq(Slots)
         /\ slotInUse' \in [Slots -> BOOLEAN]
         /\ SlotOwnership'
<1>1. CASE slotInUse[s]
  <2>1. s \notin Range(freeSlots)
    BY <1>1 DEF IInv, SlotOwnership
  <2>2. freeSlots' = Append(freeSlots, s) /\ slotInUse' = [slotInUse EXCEPT ![s] = FALSE]
    BY <1>1 DEF Recycle
  <2>3. /\ freeSlots' \in Seq(Slots) /\ IsInjective(freeSlots')
        /\ Range(freeSlots') = Range(freeSlots) \cup {s}
    BY <2>1, <2>2, AppendDistinct DEF IInv, TypeOK, SlotOwnership
  <2> QED BY <2>2, <2>3 DEF IInv, TypeOK, SlotOwnership
<1>2. CASE ~slotInUse[s]
  BY <1>2 DEF Recycle, IInv, TypeOK, SlotOwnership
<1> QED BY <1>1, <1>2

(* A slot out of the queue that is recycled is then free and in no hand. *)
LEMMA RecycleInv ==
  ASSUME IInv, NEW s \in Slots, Recycle(s),
         s \notin Range(committedSlots), committedSlots' = committedSlots,
         filling' = filling \ {s}, reading' = reading \ {s},
         UNCHANGED <<flags, clocks, taken, sent, received>>
  PROVE  IInv'
<1> USE DEF flags, clocks
<1>1. SlotOwnership' /\ freeSlots' \in Seq(Slots) /\ slotInUse' \in [Slots -> BOOLEAN]
  BY RecycleOwnership
<1>2. data' = [data EXCEPT ![s] = 0]
  BY DEF Recycle
<1>3. TypeOK'
  BY <1>1, <1>2 DEF IInv, TypeOK
<1>4. CommitOrder'
  <2>1. \A i \in 1 .. Len(committedSlots) :
          committedSlots[i] # s /\ committedSlots[i] \in Slots
    BY ElementsOfSeq DEF IInv, TypeOK
  <2> QED BY <1>2, <2>1 DEF IInv, TypeOK, CommitOrder
<1>5. ReadStable'
  BY <1>2 DEF IInv, TypeOK, ReadStable
<1>6. StallClocks' /\ DoneMeansCommitted'
  BY DEF IInv, StallClocks, DoneMeansCommitted
<1> QED BY <1>1, <1>3, <1>4, <1>5, <1>6 DEF IInv

(* Each of the three releases recycles a slot that is not in the queue. *)
LEMMA ReleaseInv ==
  ASSUME IInv, NEW s \in Slots,
         ReleaseReadSlot(s) \/ ReleaseWriteSlot(s) \/ ReleaseAgain(s)
  PROVE  IInv'
<1>1. CASE ReleaseReadSlot(s)
  <2>1. s \notin Range(committedSlots) /\ s \notin filling
    BY <1>1 DEF ReleaseReadSlot, IInv, SlotOwnership
  <2>2. filling' = filling \ {s}
    BY <1>1, <2>1 DEF ReleaseReadSlot
  <2> QED BY <1>1, <2>1, <2>2, RecycleInv DEF ReleaseReadSlot
<1>2. CASE ReleaseWriteSlot(s)
  <2>1. s \notin Range(committedSlots) /\ s \notin reading
    BY <1>2 DEF ReleaseWriteSlot, IInv, SlotOwnership
  <2>2. reading' = reading \ {s}
    BY <1>2, <2>1 DEF ReleaseWriteSlot
  <2> QED BY <1>2, <2>1, <2>2, RecycleInv DEF ReleaseWriteSlot
<1>3. CASE ReleaseAgain(s)
  <2>1. s \notin Range(committedSlots)
    BY <1>3, ElementsOfSeq DEF ReleaseAgain, IInv, TypeOK
  <2>2. filling' = filling \ {s} /\ reading' = reading \ {s}
    BY <1>3 DEF ReleaseAgain
  <2> QED BY <1>3, <2>1, <2>2, RecycleInv DEF ReleaseAgain
<1> QED BY <1>1, <1>2, <1>3

(* The steps that touch neither slots nor data. *)
LEMMA FlagInv ==
  ASSUME IInv, WriteWaitTimesOut \/ ReadWaitTimesOut \/ ProducerDone \/ Cancel
  PROVE  IInv'
<1> USE StallTimeoutAssumption DEF clocks, flags
<1>1. UNCHANGED <<freeSlots, committedSlots, slotInUse, data, filling, reading,
                  taken, sent, received>>
  BY DEF WriteWaitTimesOut, ReadWaitTimesOut, ProducerDone, Cancel
<1>2. SlotOwnership' /\ CommitOrder' /\ ReadStable'
  BY <1>1 DEF IInv, SlotOwnership, CommitOrder, ReadStable
<1>3. CASE WriteWaitTimesOut
  <2>1. producerStall < StallTimeout
    BY <1>3 DEF WriteWaitTimesOut, stallTimeoutExceeded, IInv, StallClocks
  <2>2. TypeOK'
    BY <1>3, <1>1, <2>1 DEF WriteWaitTimesOut, IInv, TypeOK, StallTypes
  <2>3. StallClocks' /\ DoneMeansCommitted'
    BY <1>3, <1>1, <2>1 DEF WriteWaitTimesOut, stallTimeoutExceeded, IInv, TypeOK,
                             StallClocks, DoneMeansCommitted
  <2> QED BY <1>2, <2>2, <2>3 DEF IInv
<1>4. CASE ReadWaitTimesOut
  <2>1. consumerStall < StallTimeout
    BY <1>4 DEF ReadWaitTimesOut, stallTimeoutExceeded, IInv, StallClocks
  <2>2. TypeOK'
    BY <1>4, <1>1, <2>1 DEF ReadWaitTimesOut, IInv, TypeOK, StallTypes
  <2>3. StallClocks' /\ DoneMeansCommitted'
    BY <1>4, <1>1, <2>1 DEF ReadWaitTimesOut, stallTimeoutExceeded, IInv, TypeOK,
                             StallClocks, DoneMeansCommitted
  <2> QED BY <1>2, <2>2, <2>3 DEF IInv
<1>5. CASE ProducerDone
  BY <1>5, <1>1, <1>2 DEF ProducerDone, IInv, TypeOK, StallClocks, DoneMeansCommitted
<1>6. CASE Cancel
  BY <1>6, <1>1, <1>2 DEF Cancel, IInv, TypeOK, StallClocks, DoneMeansCommitted
<1> QED BY <1>3, <1>4, <1>5, <1>6

(* Every step keeps the invariant: one case for each action. *)
LEMMA NextInv == IInv /\ [Next]_vars => IInv'
<1> SUFFICES ASSUME IInv, [Next]_vars PROVE IInv'
  OBVIOUS
<1>1. CASE Producer
  BY <1>1, AcquireWriteSlotInv, FlagInv, CommitWriteSlotInv, ReleaseInv DEF Producer
<1>2. CASE Consumer
  BY <1>2, AcquireReadSlotInv, FlagInv, ReleaseInv DEF Consumer
<1>3. CASE \E s \in Slots : ReleaseAgain(s)
  BY <1>3, ReleaseInv
<1>4. CASE Cancel
  BY <1>4, FlagInv
<1>5. CASE Reset
  BY <1>5, ResetInv
<1>6. CASE UNCHANGED vars
  <2>1. TypeOK' /\ StallClocks' /\ DoneMeansCommitted'
    BY <1>6 DEF vars, IInv, TypeOK, StallClocks, DoneMeansCommitted
  <2>2. SlotOwnership' /\ CommitOrder' /\ ReadStable'
    BY <1>6 DEF vars, IInv, SlotOwnership, CommitOrder, ReadStable
  <2> QED BY <2>1, <2>2 DEF IInv
<1> QED BY <1>1, <1>2, <1>3, <1>4, <1>5, <1>6 DEF Next

(* The ring's bookkeeping stays well formed (src/ringbuffer.cpp). *)
THEOREM RingInvariant == Spec => []IInv
<1>1. Init => IInv
  BY InitInv
<1>2. IInv /\ [Next]_vars => IInv'
  BY NextInv
<1> QED BY <1>1, <1>2, PTL DEF Spec

(* The variables keep their types, and no more slots are in use than there are. *)
THEOREM RingTypeOK == Spec => []TypeOK
BY RingInvariant, PTL DEF IInv

(* No slot is in two hands, whatever the order of the releases and however  *)
(* often a slot is released: the fix of #1598, for every number of slots.   *)
THEOREM RingSlotOwnership == Spec => []SlotOwnership
BY RingInvariant, PTL DEF IInv

(* The consumer gets the chunks in the order of commit, none twice and none *)
(* skipped.                                                                 *)
THEOREM RingCommitOrder == Spec => []CommitOrder
BY RingInvariant, PTL DEF IInv

(* A slot being read is overwritten by nobody. *)
THEOREM RingReadStable == Spec => []ReadStable
BY RingInvariant, PTL DEF IInv

(* A stall keeps the name of the side that gave up first. *)
THEOREM RingStallIsFirstCause == Spec => StallIsFirstCause
<1>1. ASSUME [Next]_vars
      PROVE  [/\ stallType = "None" /\ stallType' = "ProducerStall" =>
                   freeSlots = <<>> /\ ~cancelled
              /\ stallType = "None" /\ stallType' = "ConsumerStall" =>
                   committedSlots = <<>> /\ ~cancelled /\ ~producerDone
              /\ stallTimeoutExceeded /\ stallType' # stallType => Reset]_vars
  <2>1. CASE stallType' = stallType
    BY <2>1 DEF stallTimeoutExceeded
  <2>2. CASE WriteWaitTimesOut \/ ReadWaitTimesOut \/ Reset
    BY <2>2 DEF WriteWaitTimesOut, ReadWaitTimesOut, Reset, stallTimeoutExceeded
  <2>3. stallType' = stallType \/ WriteWaitTimesOut \/ ReadWaitTimesOut \/ Reset
    BY <1>1 DEF Next, Producer, Consumer, AcquireWriteSlot, CommitWriteSlot,
                HandOver, AcquireReadSlot, ReleaseReadSlot, ReleaseWriteSlot, ReleaseAgain,
                ProducerDone, Cancel, flags, vars
  <2> QED BY <2>1, <2>2, <2>3
<1> QED BY <1>1, PTL DEF Spec, StallIsFirstCause

-----------------------------------------------------------------------------
(* The refinement of BoundedChannel.  What the mapping makes of the         *)
(* committed slots is the channel's queue.                                  *)
Queue == [i \in 1 .. Len(committedSlots) |-> data[committedSlots[i]]]

(* A slot that is not queued leaves room in the queue. *)
LEMMA QueueHasRoom ==
  ASSUME NEW q \in Seq(Slots), IsInjective(q), NEW s \in Slots, s \notin Range(q)
  PROVE  Len(q) < NumSlots
<1>1. /\ IsFiniteSet(Slots) /\ Cardinality(Slots) = NumSlots
  BY FS_Interval, NumSlotsAssumption DEF Slots
<1>2. /\ IsFiniteSet(Slots \ {s}) /\ Cardinality(Slots \ {s}) = NumSlots - 1
  BY <1>1, FS_RemoveElement
<1>3. q \in Injection(1 .. Len(q), Slots \ {s})
  <2>1. DOMAIN q = 1 .. Len(q) /\ \A i \in 1 .. Len(q) : q[i] \in Slots \ {s}
    BY ElementsOfSeq
  <2>2. q \in [1 .. Len(q) -> Slots \ {s}]
    BY <2>1
  <2> QED BY <2>2 DEF Injection
<1>4. Cardinality(1 .. Len(q)) <= NumSlots - 1
  BY <1>2, <1>3, FS_Injection
<1>5. Cardinality(1 .. Len(q)) = Len(q)
  <2>1. Len(q) \in Nat
    OBVIOUS
  <2>2. Len(q) \in Int /\ 1 \in Int
    BY <2>1
  <2>3. Cardinality(1 .. Len(q)) = IF 1 > Len(q) THEN 0 ELSE Len(q) - 1 + 1
    BY <2>2, FS_Interval
  <2> QED BY <2>1, <2>3
<1> QED BY <1>4, <1>5, NumSlotsAssumption

(* The channel's queue is a sequence as long as that of the committed slots. *)
LEMMA QueueIsSeq == IInv => Queue \in Seq(Nat) /\ Len(Queue) = Len(committedSlots)
<1> SUFFICES ASSUME IInv PROVE Queue \in Seq(Nat) /\ Len(Queue) = Len(committedSlots)
  OBVIOUS
<1>1. Len(committedSlots) \in Nat /\ \A i \in 1 .. Len(committedSlots) : committedSlots[i] \in Slots
  BY ElementsOfSeq DEF IInv, TypeOK
<1>2. Queue \in [1 .. Len(committedSlots) -> Nat]
  BY <1>1 DEF Queue, IInv, TypeOK
<1> QED BY <1>1, <1>2

(* The same, after a step. *)
LEMMA QueueIsSeqNext ==
  IInv' => Queue' \in Seq(Nat) /\ Len(Queue') = Len(committedSlots')
<1>1. (IInv => Queue \in Seq(Nat) /\ Len(Queue) = Len(committedSlots))'
  BY QueueIsSeq, PTL
<1> QED BY <1>1

(* A commit is a send, of the next chunk in order, into a channel that is   *)
(* neither closed nor full.                                                 *)
LEMMA CommitIsSend ==
  ASSUME IInv, IInv', NEW s \in Slots, CommitWriteSlot(s)
  PROVE  Channel!Send
<1>1. ~producerDone
  BY DEF CommitWriteSlot, IInv, DoneMeansCommitted
<1>2. s \notin Range(committedSlots)
  BY DEF CommitWriteSlot, IInv, SlotOwnership
<1>3. Len(Queue) < NumSlots
  BY <1>2, QueueHasRoom, QueueIsSeq DEF IInv, TypeOK, SlotOwnership
<1>4. Queue' = Append(Queue, received + Len(Queue) + 1)
  <2> DEFINE n == Len(committedSlots)
  <2>1. /\ n \in Nat /\ Len(committedSlots') = n + 1
        /\ committedSlots'[n + 1] = s
        /\ \A i \in 1 .. n : committedSlots'[i] = committedSlots[i]
    BY DEF CommitWriteSlot, IInv, TypeOK
  <2>2. \A i \in 1 .. n : committedSlots[i] # s /\ committedSlots[i] \in Slots
    <3>1. committedSlots \in Seq(Slots)
      BY DEF IInv, TypeOK
    <3> QED BY <1>2, <3>1, ElementsOfSeq
  <2>3. /\ data'[s] = received + n + 1
        /\ \A t \in Slots \ {s} : data'[t] = data[t]
    BY DEF CommitWriteSlot, IInv, TypeOK, CommitOrder
  <2>4. Queue \in Seq(Nat) /\ Len(Queue) = n /\ \A i \in 1 .. n : Queue[i] = data[committedSlots[i]]
    BY QueueIsSeq DEF Queue
  <2>5. Queue' \in Seq(Nat) /\ Len(Queue') = n + 1
        /\ \A i \in 1 .. n + 1 : Queue'[i] = data'[committedSlots'[i]]
    <3>1. Queue' \in Seq(Nat) /\ Len(Queue') = Len(committedSlots')
      BY QueueIsSeqNext
    <3>2. \A i \in 1 .. Len(committedSlots') : Queue'[i] = data'[committedSlots'[i]]
      BY DEF Queue
    <3> QED BY <3>1, <3>2, <2>1
  <2> HIDE DEF n
  <2>6. \A i \in 1 .. n + 1 : Queue'[i] = Append(Queue, received + n + 1)[i]
    <3>1. ASSUME NEW i \in 1 .. n PROVE Queue'[i] = Queue[i]
      BY <2>1, <2>2, <2>3, <2>4, <2>5
    <3>2. Queue'[n + 1] = received + n + 1
      BY <2>1, <2>3, <2>5
    <3> QED BY <3>1, <3>2, <2>1, <2>4
  <2>7. received \in Nat
    BY DEF IInv, TypeOK
  <2>8. /\ Append(Queue, received + n + 1) \in Seq(Nat)
        /\ Len(Append(Queue, received + n + 1)) = n + 1
    BY <2>1, <2>4, <2>7
  <2>9. \A p, q \in Seq(Nat) : Len(p) = Len(q) /\ (\A i \in 1 .. Len(p) : p[i] = q[i]) => p = q
    BY SeqEqual
  <2> QED BY <2>4, <2>5, <2>6, <2>8, <2>9
<1> QED BY <1>1, <1>3, <1>4 DEF CommitWriteSlot, Channel!Send, Queue, flags

(* Acquiring a slot to read is a receive of the oldest chunk. *)
LEMMA AcquireIsReceive ==
  ASSUME IInv, IInv', AcquireReadSlot
  PROVE  Channel!Receive
<1> DEFINE n == Len(committedSlots)
<1>1. /\ n \in Nat /\ n >= 1 /\ Len(committedSlots') = n - 1
      /\ \A i \in 1 .. n - 1 : committedSlots'[i] = committedSlots[i + 1]
  BY TailDistinct, ElementsOfSeq DEF HandOver, AcquireReadSlot, IInv, TypeOK, SlotOwnership
<1>2. Queue \in Seq(Nat) /\ Len(Queue) = n /\ \A i \in 1 .. n : Queue[i] = data[committedSlots[i]]
  BY QueueIsSeq DEF Queue
<1>3. Queue' \in Seq(Nat) /\ Len(Queue') = n - 1
      /\ \A i \in 1 .. n - 1 : Queue'[i] = data[committedSlots[i + 1]]
  <2>1. Queue' \in Seq(Nat) /\ Len(Queue') = Len(committedSlots')
    BY QueueIsSeqNext
  <2>2. \A i \in 1 .. Len(committedSlots') : Queue'[i] = data'[committedSlots'[i]]
    BY DEF Queue
  <2> QED BY <2>1, <2>2, <1>1 DEF HandOver, AcquireReadSlot
<1> HIDE DEF n
<1>4. Queue # <<>> /\ Head(Queue) = received + 1
  BY <1>1, <1>2 DEF n, IInv, CommitOrder
<1>5. Queue' = Tail(Queue)
  <2>1. Tail(Queue) \in Seq(Nat) /\ Len(Tail(Queue)) = n - 1
        /\ \A i \in 1 .. n - 1 : Tail(Queue)[i] = Queue[i + 1]
    BY <1>1, <1>2, <1>4
  <2>2. ASSUME NEW i \in 1 .. n - 1 PROVE Queue'[i] = Tail(Queue)[i]
    <3>1. i + 1 \in 1 .. n
      BY <1>1
    <3> QED BY <1>2, <1>3, <2>1, <3>1
  <2>3. \A p, q \in Seq(Nat) : Len(p) = Len(q) /\ (\A i \in 1 .. Len(p) : p[i] = q[i]) => p = q
    BY SeqEqual
  <2> QED BY <1>3, <2>1, <2>2, <2>3
<1> QED BY <1>4, <1>5 DEF HandOver, AcquireReadSlot, Channel!Receive, Queue, flags

(* A step that leaves the queued slots' data alone leaves the channel's     *)
(* queue alone.                                                             *)
LEMMA QueueUnchanged ==
  ASSUME IInv, committedSlots' = committedSlots,
         \A t \in Range(committedSlots) : data'[t] = data[t]
  PROVE  Queue' = Queue
<1>1. \A i \in 1 .. Len(committedSlots) : data'[committedSlots[i]] = data[committedSlots[i]]
  BY ElementsOfSeq DEF IInv, TypeOK
<1> QED BY <1>1 DEF Queue

(* The free stack is no part of the channel: a release changes nothing there. *)
LEMMA RecycleIsStutter ==
  ASSUME IInv, NEW s \in Slots,
         ReleaseReadSlot(s) \/ ReleaseWriteSlot(s) \/ ReleaseAgain(s)
  PROVE  UNCHANGED Channel!chVars
<1> USE DEF ReleaseReadSlot, ReleaseWriteSlot, ReleaseAgain
<1>0. committedSlots \in Seq(Slots)
  BY DEF IInv, TypeOK
<1>1. s \notin Range(committedSlots)
  BY <1>0, ElementsOfSeq DEF IInv, SlotOwnership
<1>2. committedSlots' = committedSlots /\ data' = [data EXCEPT ![s] = 0]
  BY DEF Recycle
<1>3. Range(committedSlots) \subseteq Slots
  BY <1>0, ElementsOfSeq
<1>4. Queue' = Queue
  BY <1>1, <1>2, <1>3, QueueUnchanged DEF IInv, TypeOK
<1> QED BY <1>4 DEF Channel!chVars, Queue, flags

(* The ring, with its recycled slots, its flags and its stall clocks, is a  *)
(* bounded first-in first-out channel, for every number of slots.           *)
THEOREM RingImplementsChannel == Spec => ImplementsChannel
<1>1. Init => Channel!ChInit
  <2> SUFFICES ASSUME Init PROVE Channel!ChInit
    OBVIOUS
  <2>1. Queue = <<>>
    BY DEF Init, Queue
  <2> QED BY <2>1 DEF Init, Channel!ChInit, Queue
<1>2. IInv /\ IInv' /\ [Next]_vars => [Channel!ChNext]_(Channel!chVars)
  <2> SUFFICES ASSUME IInv, IInv', [Next]_vars
               PROVE  Channel!ChNext \/ UNCHANGED Channel!chVars
    OBVIOUS
  <2>1. CASE \E s \in Slots : CommitWriteSlot(s)
    BY <2>1, CommitIsSend DEF Channel!ChNext
  <2>2. CASE AcquireReadSlot
    BY <2>2, AcquireIsReceive DEF Channel!ChNext
  <2>3. CASE \E s \in Slots : ReleaseReadSlot(s) \/ ReleaseWriteSlot(s) \/ ReleaseAgain(s)
    BY <2>3, RecycleIsStutter
  <2>4. CASE AcquireWriteSlot \/ WriteWaitTimesOut \/ ReadWaitTimesOut \/ UNCHANGED vars
    <3>1. UNCHANGED <<committedSlots, data, received, producerDone, cancelled>>
      BY <2>4 DEF AcquireWriteSlot, WriteWaitTimesOut, ReadWaitTimesOut, vars, flags
    <3> QED BY <3>1 DEF Channel!chVars
  <2>5. CASE ProducerDone
    BY <2>5 DEF ProducerDone, Channel!ChNext, Channel!Close
  <2>6. CASE Cancel
    BY <2>6 DEF Cancel, Channel!ChNext, Channel!Abort
  <2>7. CASE Reset
    <3>1. Queue' = <<>>
      BY <2>7 DEF Reset, Queue
    <3> QED BY <2>7, <3>1 DEF Reset, Channel!ChNext, Channel!Reopen, Queue
  <2> QED BY <2>1, <2>2, <2>3, <2>4, <2>5, <2>6, <2>7 DEF Next, Producer, Consumer
<1>3. Spec => []IInv
  BY RingInvariant
<1> QED BY <1>1, <1>2, <1>3, PTL DEF Spec, ImplementsChannel, Channel!ChSpec
=============================================================================
