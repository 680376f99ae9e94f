----------------------------- MODULE FIFO_proofs -----------------------------
(* Proofs about the ring buffer, for every length and every set of events. *)
EXTENDS FIFO, SequenceTheorems, TLAPS

(***************************************************************************)
(* The inductive invariant.  The two tasks share no lock: what keeps them  *)
(* apart is that the producer, between its test and its index store, knows *)
(* a free slot that only it can consume, and the consumer, between its     *)
(* test and its index store, knows a full slot that only it can free.      *)
(***************************************************************************)
Live(i) == IF tail <= head THEN tail <= i /\ i < head
                           ELSE tail <= i \/ i < head

LiveSlotsHoldEvents == \A i \in Slots : Live(i) => data[i] \in Events

ProducerKnowsRoom ==
  ppc # "idle" => NextSlot(head) # tail /\ pval \in Events

ProducerWroteSlot == ppc = "publish" => data[head] = pval

ConsumerReadSlot == cpc = "advance" => cval = data[tail]

IInv ==
  /\ TypeOK
  /\ LiveSlotsHoldEvents
  /\ ProducerKnowsRoom
  /\ ProducerWroteSlot
  /\ PopFindsEvent
  /\ ConsumerReadSlot

(* Wrapping an index stays inside the buffer and always moves. *)
LEMMA NextSlotMoves ==
  ASSUME NEW i \in Slots
  PROVE  NextSlot(i) \in Slots /\ NextSlot(i) # i
BY LengthAssumption DEF Slots, NextSlot


(* The initial buffer satisfies the invariant. *)
LEMMA InitIInv == Init => IInv
BY LengthAssumption, JunkAssumption
DEF Init, IInv, TypeOK, Slots, LiveSlotsHoldEvents, Live, ProducerKnowsRoom,
    ProducerWroteSlot, PopFindsEvent, ConsumerReadSlot, Empty

(* Every step of either task keeps the invariant. *)
LEMMA StepIInv == IInv /\ [Next]_vars => IInv'
<1> SUFFICES ASSUME IInv, [Next]_vars PROVE IInv'
  OBVIOUS
<1> USE LengthAssumption, ZeroAssumption DEF IInv, TypeOK, Slots
<1>1. CASE PushFull
  BY <1>1 DEF PushFull, consumerVars, LiveSlotsHoldEvents, Live,
     ProducerKnowsRoom, ProducerWroteSlot, PopFindsEvent, ConsumerReadSlot, Empty
<1>2. ASSUME NEW e \in Events, PushRoom(e) PROVE IInv'
  BY <1>2 DEF PushRoom, consumerVars, LiveSlotsHoldEvents, Live, NextSlot,
     ProducerKnowsRoom, ProducerWroteSlot, PopFindsEvent, ConsumerReadSlot, Empty
<1>3. CASE PushWrite
  <2>1. data'[head] = pval /\ \A i \in Slots : i # head => data'[i] = data[i]
    BY <1>3 DEF PushWrite
  <2>2. TypeOK' /\ ProducerKnowsRoom' /\ ProducerWroteSlot' /\ PopFindsEvent'
    BY <1>3, <2>1 DEF PushWrite, consumerVars, ProducerKnowsRoom,
       ProducerWroteSlot, PopFindsEvent, Empty, NextSlot
  <2>3. LiveSlotsHoldEvents' /\ ConsumerReadSlot'
    BY <1>3, <2>1 DEF PushWrite, consumerVars, LiveSlotsHoldEvents, Live,
       PopFindsEvent, Empty, ConsumerReadSlot, ProducerKnowsRoom
  <2> QED BY <2>2, <2>3
<1>4. CASE PushPublish
  <2>1. TypeOK' /\ ProducerKnowsRoom' /\ ProducerWroteSlot'
    BY <1>4 DEF PushPublish, consumerVars, NextSlot, ProducerKnowsRoom, ProducerWroteSlot
  <2>2. LiveSlotsHoldEvents'
    BY <1>4 DEF PushPublish, LiveSlotsHoldEvents, Live, NextSlot,
       ProducerKnowsRoom, ProducerWroteSlot
  <2>3. PopFindsEvent' /\ ConsumerReadSlot'
    BY <1>4 DEF PushPublish, consumerVars, PopFindsEvent, ConsumerReadSlot,
       Empty, NextSlot, ProducerKnowsRoom
  <2> QED BY <2>1, <2>2, <2>3
<1>5. CASE Poll
  BY <1>5 DEF Poll, producerVars, LiveSlotsHoldEvents, Live,
     ProducerKnowsRoom, ProducerWroteSlot, PopFindsEvent, ConsumerReadSlot, Empty
<1>6. CASE PopCheck
  BY <1>6 DEF PopCheck, producerVars, LiveSlotsHoldEvents, Live,
     ProducerKnowsRoom, ProducerWroteSlot, PopFindsEvent, ConsumerReadSlot, Empty
<1>7. CASE PopRead
  <2>1. data[tail] \in Events
    BY <1>7 DEF PopRead, LiveSlotsHoldEvents, Live, PopFindsEvent, Empty
  <2> QED
    BY <1>7, <2>1 DEF PopRead, producerVars, LiveSlotsHoldEvents, Live,
       ProducerKnowsRoom, ProducerWroteSlot, PopFindsEvent, ConsumerReadSlot, Empty
<1>8. CASE PopAdvance
  <2>1. TypeOK' /\ PopFindsEvent' /\ ConsumerReadSlot'
    BY <1>8 DEF PopAdvance, producerVars, NextSlot, PopFindsEvent, Empty, ConsumerReadSlot
  <2>2. LiveSlotsHoldEvents'
    BY <1>8 DEF PopAdvance, LiveSlotsHoldEvents, Live, NextSlot, PopFindsEvent, Empty
  <2>3. ProducerKnowsRoom' /\ ProducerWroteSlot'
    BY <1>8 DEF PopAdvance, producerVars, ProducerKnowsRoom, ProducerWroteSlot,
       NextSlot, PopFindsEvent, Empty
  <2> QED BY <2>1, <2>2, <2>3
<1>9. CASE UNCHANGED vars
  BY <1>9 DEF vars, LiveSlotsHoldEvents, Live, ProducerKnowsRoom,
     ProducerWroteSlot, PopFindsEvent, ConsumerReadSlot, Empty
<1> QED
  BY <1>1, <1>2, <1>3, <1>4, <1>5, <1>6, <1>7, <1>8, <1>9
  DEF Next, Producer, Consumer

(* The invariant holds in every reachable state. *)
THEOREM Invariance == Spec => []IInv
BY InitIInv, StepIInv, PTL DEF Spec

(* Type correctness: indices stay inside the allocated buffer, and only    *)
(* events that were pushed are ever popped (never what malloc left).       *)
THEOREM TypeCorrect == Spec => []TypeOK
<1>1. IInv => TypeOK  BY DEF IInv
<1> QED BY <1>1, Invariance, PTL

(* The producer never writes the slot the consumer reads. *)
THEOREM RaceFree == Spec => []NoSlotRace
<1>1. IInv => NoSlotRace
  BY DEF IInv, NoSlotRace, PopFindsEvent, Empty
<1> QED BY <1>1, Invariance, PTL

(* A pop that follows a successful poll returns an element. *)
THEOREM PopNeverEmpty == Spec => []PopFindsEvent
<1>1. IInv => PopFindsEvent  BY DEF IInv
<1> QED BY <1>1, Invariance, PTL

-----------------------------------------------------------------------------
(* The refinement: the ring implements the bounded queue.                  *)

(* The slot of the i-th waiting element.                                   *)
LEMMA ContentsDomain ==
  ASSUME TypeOK
  PROVE  /\ Count \in 0 .. Length - 1
         /\ Contents \in Seq(Events \cup {Junk})
         /\ Len(Contents) = Count
         /\ \A i \in 1 .. Count : /\ SlotAt(tail, i - 1) \in Slots
                                  /\ Contents[i] = data[SlotAt(tail, i - 1)]
<1> USE LengthAssumption DEF TypeOK, Slots
<1>1. Count \in 0 .. Length - 1
  BY DEF Count
<1>2. \A i \in 1 .. Count : SlotAt(tail, i - 1) \in Slots
  BY <1>1 DEF SlotAt, Count
<1>3. \A i \in 1 .. Count : data[SlotAt(tail, i - 1)] \in Events \cup {Junk}
  BY <1>2
<1>4. Contents \in Seq(Events \cup {Junk}) /\ Len(Contents) = Count
  BY <1>1, <1>3 DEF Contents
<1>5. \A i \in 1 .. Count : Contents[i] = data[SlotAt(tail, i - 1)]
  BY DEF Contents
<1> QED BY <1>1, <1>2, <1>4, <1>5

(* Storing the head index appends the element in the head slot. *)
LEMMA PublishAppends ==
  ASSUME IInv, PushPublish
  PROVE  Contents' = Append(Contents, pval) /\ Len(Contents) < Length - 1
<1> USE LengthAssumption DEF IInv, TypeOK, Slots
<1>1. /\ data' = data /\ tail' = tail /\ head' = NextSlot(head)
      /\ NextSlot(head) # tail /\ data[head] = pval /\ NextSlot(head) \in Slots
  BY NextSlotMoves DEF PushPublish, ProducerKnowsRoom, ProducerWroteSlot
<1>2. Count \in 0 .. Length - 2 /\ Count' = Count + 1 /\ SlotAt(tail, Count) = head
  BY <1>1 DEF Count, NextSlot, SlotAt
<1>3. \A i \in 1 .. Count : SlotAt(tail', i - 1) = SlotAt(tail, i - 1)
  BY <1>1 DEF SlotAt
<1>4. SlotAt(tail', Count) = head
  BY <1>1, <1>2 DEF SlotAt
<1>5. Len(Contents) = Count /\ Contents \in Seq(Events \cup {Junk})
  BY ContentsDomain
<1>6. Contents' = [i \in 1 .. Count + 1 |-> data[SlotAt(tail', i - 1)]]
  BY <1>1, <1>2 DEF Contents
<1>7. Append(Contents, pval) = [i \in 1 .. Count + 1 |-> IF i = Count + 1 THEN pval ELSE Contents[i]]
  BY <1>2, <1>5
<1>8. ASSUME NEW i \in 1 .. Count + 1
      PROVE  data[SlotAt(tail', i - 1)] = IF i = Count + 1 THEN pval ELSE Contents[i]
  <2>1. CASE i = Count + 1
    <3>1. i - 1 = Count  BY <2>1, <1>2
    <3> QED BY <2>1, <3>1, <1>1, <1>4
  <2>2. CASE i # Count + 1
    <3>1. i \in 1 .. Count  BY <2>2, <1>2
    <3>2. Contents[i] = data[SlotAt(tail, i - 1)]  BY <3>1, ContentsDomain
    <3> QED BY <2>2, <3>1, <3>2, <1>3
  <2> QED BY <2>1, <2>2
<1>9. Contents' = Append(Contents, pval)
  BY <1>6, <1>7, <1>8
<1> QED BY <1>2, <1>5, <1>9

(* Storing the tail index removes the oldest element. *)
LEMMA AdvanceRemovesHead ==
  ASSUME IInv, PopAdvance
  PROVE  Contents # <<>> /\ Contents' = Tail(Contents) /\ cval = Head(Contents)
<1> USE LengthAssumption DEF IInv, TypeOK, Slots
<1>1. /\ data' = data /\ head' = head /\ tail' = NextSlot(tail)
      /\ tail # head /\ cval = data[tail] /\ NextSlot(tail) \in Slots
  BY NextSlotMoves DEF PopAdvance, PopFindsEvent, Empty, ConsumerReadSlot
<1>2. Count \in 1 .. Length - 1
  BY <1>1 DEF Count
<1>3. Count' = Count - 1
  BY <1>1, SMTT(30) DEF Count, NextSlot
<1>4. \A i \in 1 .. Count - 1 : SlotAt(tail', i - 1) = SlotAt(tail, i)
  BY <1>1, <1>2, SMTT(30) DEF SlotAt, NextSlot
<1>5. Len(Contents) = Count /\ Contents \in Seq(Events \cup {Junk})
  BY ContentsDomain
<1>6. Contents[1] = data[tail]
  BY <1>2, ContentsDomain DEF SlotAt
<1>7. Contents # <<>> /\ Head(Contents) = cval
  BY <1>1, <1>2, <1>5, <1>6
<1>8. /\ Tail(Contents) \in Seq(Events \cup {Junk})
      /\ Len(Tail(Contents)) = Count - 1
      /\ \A i \in 1 .. Count - 1 : Tail(Contents)[i] = Contents[i + 1]
  BY <1>5, <1>7, HeadTailProperties
<1>9. Contents' = [i \in 1 .. Count - 1 |-> data[SlotAt(tail', i - 1)]]
  BY <1>1, <1>3 DEF Contents
<1>10. \A i \in 1 .. Count - 1 : data[SlotAt(tail', i - 1)] = Contents[i + 1]
  <2> TAKE i \in 1 .. Count - 1
  <2>1. i + 1 \in 1 .. Count /\ (i + 1) - 1 = i  BY <1>2
  <2>2. Contents[i + 1] = data[SlotAt(tail, i)]  BY <2>1, ContentsDomain
  <2> QED BY <2>2, <1>4
<1>11. /\ Contents' \in Seq(Events \cup {Junk})
       /\ Len(Contents') = Count - 1
       /\ \A i \in 1 .. Count - 1 : Contents'[i] = Tail(Contents)[i]
  <2>1. \A i \in 1 .. Count - 1 : Contents[i + 1] \in Events \cup {Junk}
    BY <1>2, <1>5
  <2>2. \A i \in 1 .. Count - 1 : Contents'[i] = Contents[i + 1]
    BY <1>9, <1>10
  <2>3. Contents' \in [1 .. Count - 1 -> Events \cup {Junk}]
    BY <1>9, <1>10, <2>1
  <2> QED BY <1>2, <1>8, <2>2, <2>3
<1>12. Contents' = Tail(Contents)
  BY <1>8, <1>11, SeqEqual
<1> QED BY <1>7, <1>12

(* Writing the free slot does not touch a waiting element. *)
LEMMA WriteKeepsContents ==
  ASSUME IInv, PushWrite
  PROVE  Contents' = Contents
<1> USE LengthAssumption DEF IInv, TypeOK, Slots
<1>1. /\ head' = head /\ tail' = tail /\ NextSlot(head) # tail
      /\ \A i \in Slots : i # head => data'[i] = data[i]
  BY DEF PushWrite, ProducerKnowsRoom
<1>2. Count' = Count /\ Count \in 0 .. Length - 1
  BY <1>1, ContentsDomain DEF Count
<1>3. ASSUME NEW i \in 1 .. Count
      PROVE  data'[SlotAt(tail', i - 1)] = data[SlotAt(tail, i - 1)]
  <2>1. SlotAt(tail', i - 1) = SlotAt(tail, i - 1)  BY <1>1 DEF SlotAt
  <2>2. SlotAt(tail, i - 1) \in Slots /\ SlotAt(tail, i - 1) # head
    BY <1>2 DEF SlotAt, Count
  <2> QED BY <2>1, <2>2, <1>1
<1> QED BY <1>2, <1>3 DEF Contents

(* Every step of the ring is a step of the bounded queue or a stutter. *)
LEMMA StepRefines == IInv /\ [Next]_vars => [EQ!QueueNext]_(EQ!qvars)
<1> SUFFICES ASSUME IInv, [Next]_vars
             PROVE  EQ!QueueNext \/ UNCHANGED <<Contents, pushed, popped>>
  BY DEF EQ!qvars
<1>1. CASE PushFull
  <2>1. Len(Contents) = Length - 1
    BY <1>1, ContentsDomain, LengthAssumption
    DEF PushFull, IInv, TypeOK, Slots, Count, NextSlot
  <2>2. Contents' = Contents
    BY <1>1 DEF PushFull, Contents, Count, SlotAt
  <2> QED BY <1>1, <2>1, <2>2 DEF PushFull, consumerVars, EQ!QueueNext, EQ!Refuse
<1>2. ASSUME NEW e \in Events, PushRoom(e)
      PROVE  UNCHANGED <<Contents, pushed, popped>>
  BY <1>2 DEF PushRoom, consumerVars, Contents, Count, SlotAt
<1>3. CASE PushWrite
  BY <1>3, WriteKeepsContents DEF PushWrite, consumerVars
<1>4. CASE PushPublish
  <2>1. pval \in Events
    BY <1>4 DEF PushPublish, IInv, ProducerKnowsRoom
  <2>2. EQ!Accept(pval)
    BY <1>4, PublishAppends DEF PushPublish, consumerVars, EQ!Accept
  <2> QED BY <2>1, <2>2 DEF EQ!QueueNext
<1>5. CASE Poll
  BY <1>5 DEF Poll, producerVars, Contents, Count, SlotAt
<1>6. CASE PopCheck
  BY <1>6 DEF PopCheck, producerVars, Contents, Count, SlotAt, IInv, PopFindsEvent
<1>7. CASE PopRead
  BY <1>7 DEF PopRead, producerVars, Contents, Count, SlotAt
<1>8. CASE PopAdvance
  <2>1. EQ!Deliver
    BY <1>8, AdvanceRemovesHead DEF PopAdvance, producerVars, EQ!Deliver
  <2> QED BY <2>1 DEF EQ!QueueNext
<1>9. CASE UNCHANGED vars
  BY <1>9 DEF vars, Contents, Count, SlotAt
<1> QED
  BY <1>1, <1>2, <1>3, <1>4, <1>5, <1>6, <1>7, <1>8, <1>9
  DEF Next, Producer, Consumer

(* The ring buffer implements the bounded queue: an event is refused only  *)
(* when Length - 1 events wait; none is lost, repeated or reordered.       *)
THEOREM Refinement == Spec => ImplementsQueue
<1>1. Init => EQ!QueueInit
  BY LengthAssumption DEF Init, Slots, Contents, Count, EQ!QueueInit
<1> QED BY <1>1, StepRefines, Invariance, PTL DEF Spec, ImplementsQueue, EQ!QueueSpec

=============================================================================
