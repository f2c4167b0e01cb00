-------------------------- MODULE SyncQueueProofs ---------------------------
(***************************************************************************)
(* Theorems about SyncQueue for every Capacity, every set of values and    *)
(* every batch size.                                                       *)
(***************************************************************************)
EXTENDS SyncQueue, TLAPS, SequenceTheorems

-----------------------------------------------------------------------------
(* Arithmetic of the ring.                                                 *)

(* One conditional subtraction does the work of %, which Z3 handles badly. *)
LEMMA SlotValue ==
    ASSUME NEW h \in Slots, NEW i \in 0..Capacity
    PROVE  Slot(h, i) = IF h + i < Capacity THEN h + i ELSE h + i - Capacity
<1>1. CASE h + i < Capacity
    BY <1>1, CapacityAssumption, SMT DEF Slot, Slots
<1>2. CASE h + i >= Capacity
    <2>1. h + i = 1 * Capacity + (h + i - Capacity)
        BY CapacityAssumption, SMT DEF Slots
    <2> QED
        BY <1>2, <2>1, CapacityAssumption, SMT DEF Slot, Slots
<1> QED
    BY <1>1, <1>2, CapacityAssumption, SMT DEF Slots

(* Moving on from a slot stays inside the ring. *)
LEMMA SlotInRing ==
    ASSUME NEW h \in Slots, NEW i \in 0..Capacity
    PROVE  Slot(h, i) \in Slots
BY SlotValue, CapacityAssumption, SMT DEF Slots

(* Two moves are one. *)
LEMMA SlotTwice ==
    ASSUME NEW h \in Slots, NEW n \in Nat, NEW i \in Nat, n + i <= Capacity
    PROVE  Slot(Slot(h, n), i) = Slot(h, n + i)
<1>1. n \in 0..Capacity /\ i \in 0..Capacity /\ n + i \in 0..Capacity
    BY CapacityAssumption, SMT
<1>2. Slot(h, n) \in Slots
    BY <1>1, SlotInRing
<1>3. Slot(h, n) = IF h + n < Capacity THEN h + n ELSE h + n - Capacity
    BY <1>1, SlotValue
<1>4. Slot(Slot(h, n), i) = IF Slot(h, n) + i < Capacity THEN Slot(h, n) + i
                                                        ELSE Slot(h, n) + i - Capacity
    BY <1>1, <1>2, SlotValue
<1>5. Slot(h, n + i) = IF h + (n + i) < Capacity THEN h + (n + i)
                                               ELSE h + (n + i) - Capacity
    BY <1>1, SlotValue
<1> QED
    BY <1>3, <1>4, <1>5, CapacityAssumption, SMT DEF Slots

(* Fewer than Capacity moves from a slot never meet: the slots of a queue  *)
(* are distinct.                                                           *)
LEMMA SlotDistinct ==
    ASSUME NEW h \in Slots, NEW i \in 0..(Capacity - 1), NEW j \in 0..(Capacity - 1),
           Slot(h, i) = Slot(h, j)
    PROVE  i = j
<1>1. i \in 0..Capacity /\ j \in 0..Capacity
    BY CapacityAssumption, SMT
<1>2. Slot(h, i) = IF h + i < Capacity THEN h + i ELSE h + i - Capacity
    BY <1>1, SlotValue
<1>3. Slot(h, j) = IF h + j < Capacity THEN h + j ELSE h + j - Capacity
    BY <1>1, SlotValue
<1>4. (IF h + i < Capacity THEN h + i ELSE h + i - Capacity)
        = (IF h + j < Capacity THEN h + j ELSE h + j - Capacity)
    BY <1>2, <1>3
<1>5. h \in Int /\ i \in Int /\ j \in Int /\ Capacity \in Int
    BY CapacityAssumption, SMT DEF Slots
<1>6. 0 <= h /\ h < Capacity /\ 0 <= i /\ i < Capacity /\ 0 <= j /\ j < Capacity
    BY CapacityAssumption, SMT DEF Slots
<1> QED
    BY <1>4, <1>5, <1>6, SMT

(* size() of indices inside the ring: never more than Capacity - 1, and 0  *)
(* exactly when they meet.  The tail is size() slots after the head.       *)
LEMMA SizeFacts ==
    ASSUME NEW h \in Slots, NEW t \in Slots
    PROVE  /\ Size(h, t) \in 0..(Capacity - 1)
           /\ (Size(h, t) = 0) <=> (h = t)
           /\ Slot(h, Size(h, t)) = t
<1>1. /\ Size(h, t) \in 0..(Capacity - 1)
      /\ (Size(h, t) = 0) <=> (h = t)
    BY CapacityAssumption, SMT DEF Slots, Size
<1>2. Size(h, t) \in 0..Capacity
    BY <1>1, CapacityAssumption, SMT
<1>3. Slot(h, Size(h, t)) = IF h + Size(h, t) < Capacity THEN h + Size(h, t)
                                                       ELSE h + Size(h, t) - Capacity
    BY <1>2, SlotValue
<1>4. Slot(h, Size(h, t)) = t
    BY <1>3, CapacityAssumption, SMT DEF Slots, Size
<1> QED
    BY <1>1, <1>4

(* A push adds one, and is refused exactly when Capacity - 1 are queued. *)
LEMMA SizePush ==
    ASSUME NEW h \in Slots, NEW t \in Slots
    PROVE  /\ Slot(t, 1) # h => Size(h, Slot(t, 1)) = Size(h, t) + 1
           /\ Slot(t, 1) = h => Size(h, t) = Capacity - 1
<1>1. Slot(t, 1) = IF t + 1 < Capacity THEN t + 1 ELSE t + 1 - Capacity
    BY SlotValue, CapacityAssumption, SMT
<1> QED
    BY <1>1, CapacityAssumption, SMT DEF Slots, Size

(* A pop of n takes n away. *)
LEMMA SizePop ==
    ASSUME NEW h \in Slots, NEW t \in Slots, NEW n \in 0..Size(h, t)
    PROVE  /\ Slot(h, n) \in Slots
           /\ Size(Slot(h, n), t) = Size(h, t) - n
<1>1. Size(h, t) \in 0..(Capacity - 1)
    BY SizeFacts
<1>2. n \in 0..Capacity
    BY <1>1, CapacityAssumption, SMT
<1>3. Slot(h, n) = IF h + n < Capacity THEN h + n ELSE h + n - Capacity
    BY <1>2, SlotValue
<1> QED
    BY <1>1, <1>3, CapacityAssumption, SMT DEF Slots, Size

-----------------------------------------------------------------------------
(* Safety of the two threads' calls.                                       *)

(* The initial ring satisfies the inductive invariant. *)
LEMMA InitInv == Init => TypeOK /\ RingInv
<1> SUFFICES ASSUME Init PROVE TypeOK /\ RingInv
    OBVIOUS
<1>1. 0 \in Slots
    BY CapacityAssumption, SMT DEF Slots
<1>2. <<>> \in Seq(Values \cup {Null}) /\ Len(<<>>) = 0
    BY EmptySeq
<1>3. TypeOK
    BY <1>1, <1>2, MaxBatchAssumption DEF Init, TypeOK
<1>4. RingInv
    BY DEF Init, RingInv, ProducerInv, ConsumerInv
<1> QED
    BY <1>3, <1>4

(* Every step of either thread keeps the variables in their types.         *)
LEMMA TypeStep ==
    ASSUME TypeOK, RingInv, [Next]_vars
    PROVE  TypeOK'
<1> USE DEF TypeOK
<1>1. 0 \in Slots /\ 1 \in 0..Capacity
    BY CapacityAssumption, SMT DEF Slots
<1>2. ASSUME NEW v \in Values, PushLoadTail(v) PROVE TypeOK'
    BY <1>2 DEF PushLoadTail, consumerVars
<1>3. CASE PushFull
    BY <1>3 DEF PushFull, consumerVars
<1>4. CASE PushRoom
    BY <1>4 DEF PushRoom, consumerVars
<1>5. CASE PushWriteSlot
    BY <1>5 DEF PushWriteSlot, consumerVars
<1>6. CASE PushPublish
    BY <1>1, <1>6, SlotInRing DEF PushPublish, consumerVars
<1>7. ASSUME NEW op \in {"pop", "popWait", "popBatch"}, PopLoadHead(op) PROVE TypeOK'
    <2>1. <<>> \in Seq(Values \cup {Null}) /\ Len(<<>>) = 0
        BY EmptySeq
    <2> QED
        BY <1>7, <2>1, MaxBatchAssumption DEF PopLoadHead, producerVars
<1>8. CASE PopEmpty
    BY <1>8, EmptySeq DEF PopEmpty, producerVars
<1>9. CASE PopRetry
    BY <1>9 DEF PopRetry, producerVars
<1>10. CASE PopFound
    BY <1>10, MaxBatchAssumption DEF PopFound, producerVars
<1>11. CASE BatchReloadHead
    BY <1>11 DEF BatchReloadHead, producerVars
<1>12. CASE BatchCount
    <2>1. Size(chead, tail) \in Nat
        BY SizeFacts, CapacityAssumption, SMT
    <2>2. ccount' \in 0..MaxBatch
        BY <1>12, <2>1, MaxBatchAssumption, SMT DEF BatchCount, Least
    <2> QED
        BY <1>12, <2>2 DEF BatchCount, producerVars
<1>13. CASE PopCopySlot
    <2>1. Len(batch) \in 0..(Capacity - 1)
        <3>1. Size(head, tail) \in 0..(Capacity - 1)
            BY SizeFacts
        <3>2. Len(batch) \in Nat
            BY LenProperties
        <3>3. Len(batch) < ccount /\ ccount \in 1..Size(head, tail)
            BY <1>13 DEF PopCopySlot, RingInv, ConsumerInv
        <3> QED
            BY <3>1, <3>2, <3>3, CapacityAssumption, SMT
    <2>2. Slot(chead, Len(batch)) \in Slots
        BY <2>1, SlotInRing, CapacityAssumption, SMT
    <2>3. batch' \in Seq(Values \cup {Null}) /\ Len(batch') = Len(batch) + 1
        BY <1>13, <2>2, AppendProperties DEF PopCopySlot
    <2> QED
        BY <1>13, <2>1, <2>3, MaxBatchAssumption, SMT DEF PopCopySlot, producerVars
<1>14. CASE PopAdvance
    <2>1. ccount \in 0..Capacity
        BY <1>14, SizeFacts, CapacityAssumption, SMT
           DEF PopAdvance, RingInv, ConsumerInv
    <2> QED
        BY <1>14, <2>1, SlotInRing DEF PopAdvance, producerVars
<1>15. CASE UNCHANGED vars
    BY <1>15 DEF vars, producerVars, consumerVars
<1> QED
    BY <1>2, <1>3, <1>4, <1>5, <1>6, <1>7, <1>8, <1>9, <1>10, <1>11, <1>12,
       <1>13, <1>14, <1>15 DEF Next, Producer, Consumer

(* The producer's steps keep what both threads know: it writes and         *)
(* publishes a slot that is not yet between head and tail.                 *)
LEMMA ProducerStep ==
    ASSUME TypeOK, RingInv, Producer
    PROVE  RingInv'
<1>1. ASSUME NEW v \in Values, PushLoadTail(v) PROVE RingInv'
    BY <1>1 DEF PushLoadTail, consumerVars, RingInv, ProducerInv, ConsumerInv, TypeOK
<1>2. CASE PushFull
    BY <1>2 DEF PushFull, consumerVars, RingInv, ProducerInv, ConsumerInv, TypeOK
<1>3. CASE PushRoom
    BY <1>3 DEF PushRoom, consumerVars, RingInv, ProducerInv, ConsumerInv, TypeOK
<1>4. CASE PushWriteSlot
    <2>1. ptail = tail /\ buffer' = [buffer EXCEPT ![tail] = pval]
        BY <1>4 DEF PushWriteSlot, RingInv, ProducerInv
    <2>2. ProducerInv'
        BY <1>4, <2>1 DEF PushWriteSlot, RingInv, ProducerInv, TypeOK
    <2>3. ASSUME cpc = "copy", NEW i \in 1..Len(batch)
          PROVE  buffer'[Slot(head, i - 1)] = buffer[Slot(head, i - 1)]
        <3>1. Size(head, tail) \in 0..(Capacity - 1) /\ Slot(head, Size(head, tail)) = tail
            BY SizeFacts DEF TypeOK
        <3>2. Len(batch) \in Nat
            BY LenProperties DEF TypeOK
        <3>3. Len(batch) <= ccount /\ ccount \in 1..Size(head, tail)
            BY <2>3 DEF RingInv, ConsumerInv
        <3>4. i - 1 \in 0..(Capacity - 1) /\ i - 1 # Size(head, tail)
            BY <3>1, <3>2, <3>3, CapacityAssumption, SMT
        <3>5. Slot(head, i - 1) # tail
            BY <3>1, <3>4, SlotDistinct DEF TypeOK
        <3>6. Slot(head, i - 1) \in Slots
            BY <3>4, SlotInRing, CapacityAssumption, SMT DEF TypeOK
        <3> QED
            BY <2>1, <3>5, <3>6 DEF TypeOK
    <2>4. ConsumerInv'
        BY <1>4, <2>3 DEF PushWriteSlot, consumerVars, RingInv, ConsumerInv
    <2> QED
        BY <2>2, <2>4 DEF RingInv
<1>5. CASE PushPublish
    <2>1. ptail = tail /\ Slot(tail, 1) # head /\ tail' = Slot(tail, 1)
        BY <1>5 DEF PushPublish, RingInv, ProducerInv
    <2>2. Size(head, tail') = Size(head, tail) + 1
        BY <2>1, SizePush DEF TypeOK
    <2>3. Size(head, tail) \in 0..(Capacity - 1)
        BY SizeFacts DEF TypeOK
    <2>4. cpc = "copy" => ccount \in 1..Size(head, tail')
        BY <2>2, <2>3, CapacityAssumption, SMT DEF RingInv, ConsumerInv
    <2> QED
        BY <1>5, <2>1, <2>4
           DEF PushPublish, consumerVars, RingInv, ProducerInv, ConsumerInv
<1> QED
    BY <1>1, <1>2, <1>3, <1>4, <1>5 DEF Producer

(* The consumer's steps keep it too: it moves the head no further than the *)
(* values it has copied, which only makes more room for the producer.      *)
LEMMA ConsumerStep ==
    ASSUME TypeOK, RingInv, Consumer
    PROVE  RingInv'
<1>1. ASSUME NEW op \in {"pop", "popWait", "popBatch"}, PopLoadHead(op) PROVE RingInv'
    BY <1>1 DEF PopLoadHead, producerVars, RingInv, ProducerInv, ConsumerInv, TypeOK
<1>2. CASE PopEmpty
    BY <1>2 DEF PopEmpty, producerVars, RingInv, ProducerInv, ConsumerInv, TypeOK
<1>3. CASE PopRetry
    BY <1>3 DEF PopRetry, producerVars, RingInv, ProducerInv, ConsumerInv, TypeOK
<1>4. CASE PopFound
    <2>1. chead = head /\ batch = <<>> /\ head # tail
        BY <1>4 DEF PopFound, RingInv, ConsumerInv
    <2>2. Size(head, tail) \in 0..(Capacity - 1) /\ Size(head, tail) # 0
        BY <2>1, SizeFacts DEF TypeOK
    <2>3. 1 \in 1..Size(head, tail) /\ Len(batch) = 0
        BY <2>1, <2>2, EmptySeq, CapacityAssumption, SMT
    <2>4. ConsumerInv'
        BY <1>4, <2>1, <2>3, SMT DEF PopFound, producerVars, ConsumerInv
    <2> QED
        BY <1>4, <2>4 DEF PopFound, producerVars, RingInv, ProducerInv
<1>5. CASE BatchReloadHead
    BY <1>5 DEF BatchReloadHead, producerVars, RingInv, ProducerInv, ConsumerInv, TypeOK
<1>6. CASE BatchCount
    <2>1. chead = head /\ batch = <<>> /\ head # tail
        BY <1>6 DEF BatchCount, RingInv, ConsumerInv
    <2>2. Size(head, tail) \in 0..(Capacity - 1) /\ Size(head, tail) # 0
        BY <2>1, SizeFacts DEF TypeOK
    <2>3. ccount' \in 1..Size(head, tail) /\ Len(batch) = 0
        BY <1>6, <2>1, <2>2, EmptySeq, MaxBatchAssumption, CapacityAssumption, SMT
           DEF BatchCount, Least
    <2> QED
        BY <1>6, <2>1, <2>3, SMT DEF BatchCount, producerVars, RingInv, ProducerInv, ConsumerInv
<1>7. CASE PopCopySlot
    <2>1. chead = head /\ Len(batch) < ccount /\ ccount \in 1..Size(head, tail)
        BY <1>7 DEF PopCopySlot, RingInv, ConsumerInv
    <2>2. Len(batch) \in Nat
        BY LenProperties DEF TypeOK
    <2>3. Size(head, tail) \in 0..(Capacity - 1)
        BY SizeFacts DEF TypeOK
    <2>4. Len(batch) \in 0..Capacity
        BY <2>1, <2>2, <2>3, CapacityAssumption, SMT
    <2>5. buffer[Slot(head, Len(batch))] \in Values \cup {Null}
        BY <2>4, SlotInRing DEF TypeOK
    <2>6. /\ Len(batch') = Len(batch) + 1
          /\ \A i \in 1..Len(batch) : batch'[i] = batch[i]
          /\ batch'[Len(batch) + 1] = buffer[Slot(head, Len(batch))]
        BY <1>7, <2>1, <2>5, AppendProperties DEF PopCopySlot, TypeOK
    <2>7. ASSUME NEW i \in 1..Len(batch') PROVE batch'[i] = buffer[Slot(head, i - 1)]
        <3>1. CASE i \in 1..Len(batch)
            BY <1>7, <3>1, <2>6 DEF PopCopySlot, RingInv, ConsumerInv
        <3>2. CASE i = Len(batch) + 1
            <4>1. i - 1 = Len(batch)
                BY <3>2, <2>2, SMT
            <4> QED
                BY <3>2, <4>1, <2>6
        <3> QED
            BY <3>1, <3>2, <2>2, <2>6, SMT
    <2>8. Len(batch') <= ccount
        BY <2>1, <2>2, <2>3, <2>6, SMT
    <2> QED
        BY <1>7, <2>1, <2>7, <2>8 DEF PopCopySlot, producerVars, RingInv, ProducerInv, ConsumerInv
<1>8. CASE PopAdvance
    <2>1. /\ head' = Slot(head, ccount)
          /\ ccount \in 1..Size(head, tail)
        BY <1>8 DEF PopAdvance, RingInv, ConsumerInv
    <2>2. Size(head, tail) \in 0..(Capacity - 1)
        BY SizeFacts DEF TypeOK
    <2>3. ccount \in 0..Size(head, tail)
        BY <2>1, <2>2, CapacityAssumption, SMT
    <2>4. head' \in Slots /\ Size(head', tail) = Size(head, tail) - ccount
        BY <2>1, <2>3, SizePop DEF TypeOK
    <2>5. Slot(tail, 1) # head => Slot(tail, 1) # head'
        <3>1. Slot(tail, 1) = head' => Size(head', tail) = Capacity - 1
            BY <2>4, SizePush DEF TypeOK
        <3> QED
            BY <3>1, <2>1, <2>2, <2>4, CapacityAssumption, SMT
    <2> QED
        BY <1>8, <2>5 DEF PopAdvance, producerVars, RingInv, ProducerInv, ConsumerInv
<1> QED
    BY <1>1, <1>2, <1>3, <1>4, <1>5, <1>6, <1>7, <1>8 DEF Consumer

(* The inductive step as a whole. *)
LEMMA InvStep ==
    ASSUME TypeOK, RingInv, [Next]_vars
    PROVE  TypeOK' /\ RingInv'
<1>1. TypeOK'
    BY TypeStep
<1>2. CASE UNCHANGED vars
    BY <1>1, <1>2 DEF vars, producerVars, consumerVars, RingInv, ProducerInv, ConsumerInv
<1> QED
    BY <1>1, <1>2, ProducerStep, ConsumerStep DEF Next

(***************************************************************************)
(* The variables keep their types and each thread's knowledge of the ring  *)
(* stays true while the other runs: push, pop, popWait and popBatch need   *)
(* no lock.                                                                *)
(***************************************************************************)
THEOREM RingInvariant == Spec => [](TypeOK /\ RingInv)
<1>1. Init => TypeOK /\ RingInv
    BY InitInv
<1>2. (TypeOK /\ RingInv) /\ [Next]_vars => (TypeOK /\ RingInv)'
    BY InvStep
<1> QED
    BY <1>1, <1>2, PTL DEF Spec

(***************************************************************************)
(* A push never writes a slot the consumer is copying, however large the   *)
(* ring and the batch: the slots need no synchronisation of their own.     *)
(***************************************************************************)
THEOREM SlotsNeverRace == Spec => []NoSlotRace
<1>1. TypeOK /\ RingInv => NoSlotRace
    <2> SUFFICES ASSUME TypeOK, RingInv, ppc = "write", cpc = "copy",
                        NEW i \in Len(batch)..(ccount - 1)
                 PROVE  Slot(chead, i) # ptail
        BY DEF NoSlotRace, Unread
    <2>1. chead = head /\ ptail = tail /\ ccount \in 1..Size(head, tail)
        BY DEF RingInv, ProducerInv, ConsumerInv
    <2>2. Size(head, tail) \in 0..(Capacity - 1) /\ Slot(head, Size(head, tail)) = tail
        BY SizeFacts DEF TypeOK
    <2>3. Len(batch) \in Nat
        BY LenProperties DEF TypeOK
    <2>4. i \in 0..(Capacity - 1) /\ i # Size(head, tail)
        BY <2>1, <2>2, <2>3, CapacityAssumption, SMT
    <2> QED
        BY <2>1, <2>2, <2>4, SlotDistinct DEF TypeOK
<1> QED
    BY <1>1, RingInvariant, PTL

-----------------------------------------------------------------------------
(* The calls implement the atomic operations of BoundedQueue.              *)

(* The values from one slot to another form a sequence of size() values. *)
LEMMA QueuedSeq ==
    ASSUME NEW V, NEW b \in [Slots -> V], NEW h \in Slots, NEW t \in Slots
    PROVE  /\ Queued(b, h, t) \in Seq(V)
           /\ Len(Queued(b, h, t)) = Size(h, t)
           /\ \A i \in 1..Size(h, t) : Queued(b, h, t)[i] = b[Slot(h, i - 1)]
<1>1. Size(h, t) \in 0..(Capacity - 1)
    BY SizeFacts
<1>2. ASSUME NEW i \in 1..Size(h, t)
      PROVE  b[Slot(h, i - 1)] \in V
    <2>1. i - 1 \in 0..Capacity
        BY <1>1, CapacityAssumption, SMT
    <2> QED
        BY <2>1, SlotInRing
<1>3. Queued(b, h, t) \in [1..Size(h, t) -> V]
    BY <1>2 DEF Queued
<1>4. Size(h, t) \in Nat
    BY <1>1, CapacityAssumption, SMT
<1>5. Queued(b, h, t) \in Seq(V)
    BY <1>3, <1>4, SeqDef
<1>6. Len(Queued(b, h, t)) = Size(h, t)
    BY <1>3, <1>4, <1>5, LenProperties, SMT
<1> QED
    BY <1>5, <1>6 DEF Queued

(* Storing into the free slot at the tail leaves the queued values alone. *)
LEMMA WriteFreeSlot ==
    ASSUME NEW b, NEW c, NEW h \in Slots, NEW t \in Slots,
           \A k \in Slots : k # t => c[k] = b[k]
    PROVE  Queued(c, h, t) = Queued(b, h, t)
<1>1. Size(h, t) \in 0..(Capacity - 1) /\ Slot(h, Size(h, t)) = t
    BY SizeFacts
<1>2. ASSUME NEW i \in 1..Size(h, t) PROVE c[Slot(h, i - 1)] = b[Slot(h, i - 1)]
    <2>1. i - 1 \in 0..(Capacity - 1) /\ i - 1 # Size(h, t)
        BY <1>1, CapacityAssumption, SMT
    <2>2. Slot(h, i - 1) # t
        BY <1>1, <2>1, SlotDistinct
    <2>3. Slot(h, i - 1) \in Slots
        BY <2>1, SlotInRing, CapacityAssumption, SMT
    <2> QED
        BY <2>2, <2>3
<1> QED
    BY <1>2 DEF Queued

(* Moving the tail past a slot appends its value. *)
LEMMA PublishAppends ==
    ASSUME NEW V, NEW b \in [Slots -> V], NEW h \in Slots, NEW t \in Slots,
           Slot(t, 1) # h
    PROVE  Queued(b, h, Slot(t, 1)) = Append(Queued(b, h, t), b[t])
<1> DEFINE n == Size(h, t)
           old == Queued(b, h, t)
           new == Queued(b, h, Slot(t, 1))
<1>1. n \in 0..(Capacity - 1) /\ Slot(h, n) = t
    BY SizeFacts
<1>2. Slot(t, 1) \in Slots /\ Size(h, Slot(t, 1)) = n + 1
    BY SlotInRing, SizePush, CapacityAssumption, SMT
<1>3. /\ old \in Seq(V) /\ Len(old) = n
      /\ \A i \in 1..n : old[i] = b[Slot(h, i - 1)]
    BY QueuedSeq
<1>4. /\ new \in Seq(V) /\ Len(new) = n + 1
      /\ \A i \in 1..(n + 1) : new[i] = b[Slot(h, i - 1)]
    <2> DEFINE u == Slot(t, 1)
    <2>1. /\ Queued(b, h, u) \in Seq(V) /\ Len(Queued(b, h, u)) = Size(h, u)
          /\ \A i \in 1..Size(h, u) : Queued(b, h, u)[i] = b[Slot(h, i - 1)]
        <3> HIDE DEF u
        <3>1. u \in Slots
            BY <1>2 DEF u
        <3> QED
            BY <3>1, QueuedSeq
    <2> QED
        BY <1>2, <2>1
<1>5. b[t] \in V
    OBVIOUS
<1>6. /\ Append(old, b[t]) \in Seq(V) /\ Len(Append(old, b[t])) = n + 1
      /\ \A i \in 1..n : Append(old, b[t])[i] = old[i]
      /\ Append(old, b[t])[n + 1] = b[t]
    <2> HIDE DEF old, n
    <2>1. Len(old) = n /\ old \in Seq(V) /\ b[t] \in V
        BY <1>3, <1>5
    <2> QED
        BY <2>1, AppendProperties
<1>7. ASSUME NEW i \in 1..(n + 1) PROVE new[i] = Append(old, b[t])[i]
    <2>1. CASE i \in 1..n
        BY <2>1, <1>3, <1>4, <1>6
    <2>2. CASE i = n + 1
        <3>1. i - 1 = n
            BY <1>1, <2>2, CapacityAssumption, SMT
        <3>2. new[i] = b[Slot(h, i - 1)]
            BY <1>4
        <3>3. Slot(h, i - 1) = t
            BY <1>1, <3>1
        <3> QED
            BY <1>6, <2>2, <3>2, <3>3
    <2>3. i \in 1..n \/ i = n + 1
        <3> HIDE DEF n
        <3> QED BY <1>1, CapacityAssumption, SMT
    <2> QED
        BY <2>1, <2>2, <2>3
<1> QED
    BY <1>4, <1>6, <1>7, SeqEqual

(* Moving the head past k values leaves the rest. *)
LEMMA AdvanceDrops ==
    ASSUME NEW V, NEW b \in [Slots -> V], NEW h \in Slots, NEW t \in Slots,
           NEW k \in 0..Size(h, t)
    PROVE  Queued(b, Slot(h, k), t) = SubSeq(Queued(b, h, t), k + 1, Size(h, t))
<1> DEFINE n == Size(h, t)
           old == Queued(b, h, t)
           new == Queued(b, Slot(h, k), t)
           rest == SubSeq(old, k + 1, n)
<1>1. n \in 0..(Capacity - 1) /\ k \in 0..n
    BY SizeFacts
<1>2. Slot(h, k) \in Slots /\ Size(Slot(h, k), t) = n - k
    BY SizePop
<1>3. /\ old \in Seq(V) /\ Len(old) = n
      /\ \A i \in 1..n : old[i] = b[Slot(h, i - 1)]
    BY QueuedSeq
<1>4. /\ new \in Seq(V) /\ Len(new) = n - k
      /\ \A i \in 1..(n - k) : new[i] = b[Slot(Slot(h, k), i - 1)]
    <2> DEFINE g == Slot(h, k)
    <2>1. /\ Queued(b, g, t) \in Seq(V) /\ Len(Queued(b, g, t)) = Size(g, t)
          /\ \A i \in 1..Size(g, t) : Queued(b, g, t)[i] = b[Slot(g, i - 1)]
        <3> HIDE DEF g
        <3>1. g \in Slots
            BY <1>2 DEF g
        <3> QED
            BY <3>1, QueuedSeq
    <2> QED
        BY <1>2, <2>1
<1>5. k + 1 \in 1..(n + 1) /\ n \in k..n
    BY <1>1, CapacityAssumption, SMT
<1>6. /\ rest \in Seq(V) /\ Len(rest) = n - k
      /\ \A i \in 1..(n - k) : rest[i] = old[k + i]
    <2> HIDE DEF old, n
    <2>1. \A i \in (k + 1)..n : old[i] \in V
        BY <1>1, <1>3, ElementOfSeq, CapacityAssumption, SMT
    <2>2. k + 1 \in Int /\ n \in Int
        BY <1>1, CapacityAssumption, SMT
    <2>3. /\ rest \in Seq(V)
          /\ Len(rest) = IF k + 1 <= n THEN n - (k + 1) + 1 ELSE 0
          /\ \A i \in 1..(n - (k + 1) + 1) : rest[i] = old[(k + 1) + i - 1]
        BY <2>1, <2>2, SubSeqProperties
    <2> HIDE DEF rest
    <2> QED
        BY <1>1, <2>2, <2>3, CapacityAssumption, SMT
<1>7. ASSUME NEW i \in 1..(n - k) PROVE new[i] = rest[i]
    <2>1. k \in Nat /\ i - 1 \in Nat /\ k + (i - 1) <= Capacity /\ k + i \in 1..n
             /\ k + (i - 1) = (k + i) - 1
        BY <1>1, CapacityAssumption, SMT
    <2>2. Slot(Slot(h, k), i - 1) = Slot(h, (k + i) - 1)
        BY <2>1, SlotTwice
    <2> QED
        BY <1>3, <1>4, <1>6, <2>1, <2>2
<1> QED
    BY <1>4, <1>6, <1>7, SeqEqual

(* A batch copied slot by slot is a prefix of the queued values. *)
LEMMA CopiedPrefix ==
    ASSUME NEW V, NEW b \in [Slots -> V], NEW h \in Slots, NEW t \in Slots,
           NEW s \in Seq(V), Len(s) \in 0..Size(h, t),
           \A i \in 1..Len(s) : s[i] = b[Slot(h, i - 1)]
    PROVE  s = SubSeq(Queued(b, h, t), 1, Len(s))
<1> DEFINE q == Queued(b, h, t)
           pre == SubSeq(q, 1, Len(s))
<1>1. /\ q \in Seq(V) /\ Len(q) = Size(h, t)
      /\ \A i \in 1..Size(h, t) : q[i] = b[Slot(h, i - 1)]
    BY QueuedSeq
<1>2. Size(h, t) \in Nat /\ Len(s) \in Nat
    BY SizeFacts, LenProperties, CapacityAssumption, SMT
<1> HIDE DEF q
<1>3. \A i \in 1..Len(s) : i \in 1..Len(q)
    BY <1>1, <1>2, SMT
<1>4. \A i \in 1..Len(s) : q[i] \in V
    BY <1>1, <1>3, ElementOfSeq
<1>5. /\ pre \in Seq(V)
      /\ Len(pre) = IF 1 <= Len(s) THEN Len(s) - 1 + 1 ELSE 0
      /\ \A i \in 1..(Len(s) - 1 + 1) : pre[i] = q[1 + i - 1]
    BY <1>2, <1>4, SubSeqProperties, SMT
<1> HIDE DEF pre
<1>6. Len(pre) = Len(s) /\ \A i \in 1..Len(s) : pre[i] = q[i]
    BY <1>2, <1>5, SMT
<1>7. \A i \in 1..Len(s) : s[i] = pre[i]
    BY <1>1, <1>3, <1>6
<1>8. s = pre
    BY <1>5, <1>6, <1>7, SeqEqual
<1> QED
    BY <1>8 DEF pre, q

(* Every step of the two threads is an operation of the abstract queue or  *)
(* invisible to it: a push takes effect when it publishes the tail, a      *)
(* refusal when it finds the queue full, a pop when it stores the head,    *)
(* and an empty result when the tail is loaded.                            *)
LEMMA QueueStep ==
    ASSUME TypeOK, RingInv, [Next]_vars
    PROVE  [Abs!Next]_(Abs!vars)
<1> DEFINE V == Values \cup {Null}
<1> USE DEF Contents
<1>1. /\ buffer \in [Slots -> V] /\ head \in Slots /\ tail \in Slots
      /\ pval \in V /\ batch \in Seq(V)
    BY DEF TypeOK
<1>2. /\ Contents \in Seq(V) /\ Len(Contents) = Size(head, tail)
      /\ Size(head, tail) \in 0..(Capacity - 1)
    BY <1>1, QueuedSeq, SizeFacts
<1>3. ASSUME UNCHANGED <<buffer, head, tail, accepted, out>>
      PROVE  UNCHANGED Abs!vars
    BY <1>3 DEF Abs!vars
<1>4. ASSUME NEW v \in Values, PushLoadTail(v) PROVE UNCHANGED Abs!vars
    BY <1>3, <1>4 DEF PushLoadTail, consumerVars
<1>5. CASE PushFull
    <2>1. Size(head, tail) = Capacity - 1
        BY <1>1, <1>5, SizePush DEF PushFull, RingInv, ProducerInv
    <2>2. Abs!Refuse
        BY <1>2, <1>5, <2>1 DEF PushFull, consumerVars, Abs!Refuse
    <2> QED
        BY <2>2 DEF Abs!Next
<1>6. CASE PushRoom
    BY <1>3, <1>6 DEF PushRoom, consumerVars
<1>7. CASE PushWriteSlot
    <2>1. ptail = tail /\ buffer' = [buffer EXCEPT ![tail] = pval]
        BY <1>7 DEF PushWriteSlot, RingInv, ProducerInv
    <2>2. UNCHANGED <<head, tail, accepted, out>>
        BY <1>7 DEF PushWriteSlot, consumerVars
    <2>3. Queued(buffer', head, tail) = Queued(buffer, head, tail)
        <3>1. \A k \in Slots : k # tail => buffer'[k] = buffer[k]
            BY <1>1, <2>1
        <3> QED
            BY <1>1, <3>1, WriteFreeSlot
    <2>4. Contents' = Contents
        BY <2>1, <2>2, <2>3
    <2> QED
        BY <2>2, <2>4 DEF Abs!vars
<1>8. CASE PushPublish
    <2>1. /\ ptail = tail /\ Slot(tail, 1) # head /\ buffer[tail] = pval
          /\ pval \in Values
          /\ tail' = Slot(tail, 1) /\ accepted' = TRUE
          /\ UNCHANGED <<buffer, head, out>>
        BY <1>8 DEF PushPublish, consumerVars, RingInv, ProducerInv
    <2>2. Queued(buffer, head, Slot(tail, 1)) = Append(Contents, buffer[tail])
        BY <1>1, <2>1, PublishAppends
    <2>3. Contents' = Append(Contents, pval)
        BY <2>1, <2>2
    <2>4. Slot(tail, 1) \in Slots /\ Size(head, Slot(tail, 1)) = Size(head, tail) + 1
        BY <1>1, <2>1, SizePush, SlotInRing, CapacityAssumption, SMT
    <2>5. Size(head, Slot(tail, 1)) \in 0..(Capacity - 1)
        BY <1>1, <2>4, SizeFacts
    <2>6. Len(Contents) < Capacity - 1
        BY <1>2, <2>4, <2>5, CapacityAssumption, SMT
    <2>7. Abs!Put(pval)
        BY <2>1, <2>3, <2>6 DEF Abs!Put
    <2> QED
        BY <2>1, <2>7 DEF Abs!Next
<1>9. ASSUME NEW op \in {"pop", "popWait", "popBatch"}, PopLoadHead(op)
      PROVE  UNCHANGED Abs!vars
    BY <1>3, <1>9 DEF PopLoadHead, producerVars
<1>10. CASE PopEmpty
    <2>1. Size(head, tail) = 0
        BY <1>1, <1>10, SizeFacts DEF PopEmpty, RingInv, ConsumerInv
    <2>2. Contents = <<>>
        BY <1>2, <2>1, EmptySeq
    <2>3. UNCHANGED <<buffer, head, tail, accepted>> /\ out' = <<>>
        BY <1>10 DEF PopEmpty, producerVars
    <2>4. Abs!TakeNothing
        BY <2>2, <2>3 DEF Abs!TakeNothing
    <2> QED
        BY <2>4 DEF Abs!Next
<1>11. CASE PopRetry
    BY <1>3, <1>11 DEF PopRetry, producerVars
<1>12. CASE PopFound
    BY <1>3, <1>12 DEF PopFound, producerVars
<1>13. CASE BatchReloadHead
    BY <1>3, <1>13 DEF BatchReloadHead, producerVars
<1>14. CASE BatchCount
    BY <1>3, <1>14 DEF BatchCount, producerVars
<1>15. CASE PopCopySlot
    BY <1>3, <1>15 DEF PopCopySlot, producerVars
<1>16. CASE PopAdvance
    <2>1. /\ chead = head /\ ccount \in 1..Size(head, tail)
          /\ Len(batch) <= ccount /\ Len(batch) >= ccount
          /\ \A i \in 1..Len(batch) : batch[i] = buffer[Slot(head, i - 1)]
          /\ head' = Slot(head, ccount) /\ out' = batch
          /\ UNCHANGED <<buffer, tail, accepted>>
        BY <1>16 DEF PopAdvance, producerVars, RingInv, ConsumerInv
    <2>2. Len(batch) \in Nat /\ ccount \in 0..MaxBatch
        BY <1>1, LenProperties DEF TypeOK
    <2>3. Len(batch) = ccount /\ ccount \in 0..Size(head, tail) /\ ccount \in 1..MaxBatch
        BY <1>2, <2>1, <2>2, MaxBatchAssumption, CapacityAssumption, SMT
    <2>4. batch = SubSeq(Contents, 1, ccount)
        BY <1>1, <2>1, <2>3, CopiedPrefix
    <2>5. Contents' = SubSeq(Contents, ccount + 1, Size(head, tail))
        BY <1>1, <2>1, <2>3, AdvanceDrops
    <2>6. ccount <= Len(Contents)
        BY <1>2, <2>3, CapacityAssumption, SMT
    <2>7. Abs!Take(ccount)
        BY <1>2, <2>1, <2>4, <2>5, <2>6 DEF Abs!Take
    <2> QED
        BY <2>3, <2>7 DEF Abs!Next
<1>17. CASE UNCHANGED vars
    BY <1>3, <1>17 DEF vars, producerVars, consumerVars
<1> QED
    BY <1>4, <1>5, <1>6, <1>7, <1>8, <1>9, <1>10, <1>11, <1>12, <1>13, <1>14,
       <1>15, <1>16, <1>17 DEF Next, Producer, Consumer

(***************************************************************************)
(* SyncQueue is a bounded FIFO: for every Capacity, set of values and      *)
(* batch size, whatever one producer and one consumer do at once, what     *)
(* they see is what the one-step operations of BoundedQueue allow.         *)
(***************************************************************************)
THEOREM QueueIsFifo == Spec => ImplementsQueue
<1>1. Init => Abs!Init
    <2> SUFFICES ASSUME Init PROVE Abs!Init
        OBVIOUS
    <2>1. TypeOK
        BY InitInv
    <2>2. /\ Contents \in Seq(Values \cup {Null}) /\ Len(Contents) = Size(head, tail)
          /\ Size(head, tail) = 0
        BY <2>1, QueuedSeq, SizeFacts DEF TypeOK, Contents, Init
    <2>3. Contents = <<>>
        BY <2>2, EmptySeq
    <2> QED
        BY <2>3 DEF Init, Abs!Init
<1>2. TypeOK /\ RingInv /\ [Next]_vars => [Abs!Next]_(Abs!vars)
    BY QueueStep
<1> QED
    BY <1>1, <1>2, RingInvariant, PTL DEF Spec, ImplementsQueue, Abs!Spec
=============================================================================
