------------------------ MODULE PacketPipelineProofs ------------------------
(***************************************************************************)
(* What holds of PacketPipeline for any number of Buffers, sizes of the    *)
(* queues and the pool, packets and sessions, as long as no clear() hits a *)
(* popBatch that holds indices: a Buffer is in one place at a time         *)
(* (ExclusiveBuffers), and packets are decoded in order (HandledInOrder).  *)
(* The arithmetic of the ring is SyncQueueProofs'.  At the end: what holds *)
(* of InputFile for every recording (RecordingRight), and of InputSock for *)
(* any number of descriptors (DescriptorsRight).                           *)
(***************************************************************************)
EXTENDS PacketPipeline, InputFile, TLAPS, FiniteSetTheorems, SequenceTheorems, WellFoundedInduction

R == INSTANCE SyncQueueProofs WITH Values <- Buffers

-----------------------------------------------------------------------------
(* The types.                                                              *)

RingOK ==
    /\ buffer \in [Q!Slots -> Buffers \cup {Null}] /\ head \in Q!Slots /\ tail \in Q!Slots
    /\ ppc \in {"idle", "check", "write", "publish", "clear", "clearHead", "clearTail"}
    /\ pval \in Buffers \cup {Null} /\ ptail \in Q!Slots
    /\ cpc \in {"idle", "check", "count", "copy"} /\ (cpc # "idle" => cop = "popBatch")
    /\ chead \in Q!Slots /\ ccount \in Nat /\ batch \in Seq(Buffers \cup {Null})

RecvOK ==
    /\ rpc \in {"off", "select", "fill", "push", "overflow"}
    /\ free \in Seq(Buffers) /\ pool \in [Pool -> Buffers \cup {Null}]
    /\ content \in [Buffers -> Nat] /\ received \in Nat /\ ready \subseteq Pool

HandleOK ==
    /\ hpc \in {"off", "loop", "batch", "decode", "recycle", "crashed"}
    /\ todo \in Seq(Buffers \cup {Null}) /\ handled \in Nat

TypeOK == RingOK /\ RecvOK /\ HandleOK

-----------------------------------------------------------------------------
(* Where the threads are.                                                  *)

Clearing == ppc \in {"clearHead", "clearTail"}

\* recv_thread pushes a Buffer of its pool, or clears.
RecvInv ==
    /\ IF rpc \in {"push", "overflow"}
       THEN ready # {} /\ \A k \in ready : pool[k] \in Buffers
       ELSE ready = {}
    /\ ppc \in {"check", "write", "publish"} =>
          rpc = "push" /\ pval = pool[First(ready)] /\ ptail = tail
    /\ ppc = "clear" \/ Clearing => rpc = "overflow"
    /\ rpc = "overflow" => ppc = "idle" \/ ppc = "clear" \/ Clearing
    /\ rpc = "overflow" \/ raced => overflowed

\* handle_thread_ is inside popBatch, or has packets to decode.
HandleInv ==
    /\ hpc = "batch" <=> cpc # "idle"
    /\ hpc \in {"off", "loop", "batch"} => todo = <<>>
    /\ hpc \in {"decode", "recycle"} => todo # <<>>
    /\ hpc = "recycle" => Head(todo) \in Buffers

\* There are no threads outside a session.
UserInv ==
    /\ upc # "idle" => startFlag
    /\ ~startFlag => rpc = "off" /\ hpc \in {"off", "crashed"}
    /\ upc = "joinHandle" => rpc = "off"

\* What the two know of the ring: as in SyncQueue, except that popBatch's
\* first look at it may be out of date.
QueueInv ==
    ~raced =>
       /\ Clearing => cpc \in {"idle", "check"}
       /\ ppc = "clearTail" => head = 0
       /\ ppc = "clearHead" => tail = 0
       /\ ppc \in {"write", "publish"} => Q!Slot(tail, 1) # head
       /\ ppc = "publish" => buffer[tail] = pval
       /\ cpc \in {"check", "count"} => batch = <<>>
       /\ cpc \in {"count", "copy"} => chead = head
       /\ cpc = "copy" =>
             /\ ccount <= Q!Size(head, tail) /\ Len(batch) <= ccount
             /\ \A i \in 1 .. Len(batch) : batch[i] = buffer[Q!Slot(head, i - 1)]

-----------------------------------------------------------------------------
(* Where the Buffers are, and what is in them.                             *)

InPool == {pool[k] : k \in Pool} \ {Null}
PoolOnce == \A j, k \in Pool : pool[j] = pool[k] /\ pool[j] # Null => j = k

\* No packet is null, and no Buffer in two places.
OwnedInv ==
    ~raced =>
       /\ hpc # "crashed"
       /\ Pending \in Seq(Buffers) /\ todo \in Seq(Buffers)
       /\ IsInjective(free) /\ PoolOnce /\ IsInjective(Pending) /\ IsInjective(todo)
       /\ ToSet(free) \cap InPool = {} /\ ToSet(free) \cap ToSet(Pending) = {}
       /\ ToSet(free) \cap ToSet(todo) = {} /\ InPool \cap ToSet(Pending) = {}
       /\ InPool \cap ToSet(todo) = {} /\ ToSet(Pending) \cap ToSet(todo) = {}

\* The packets that left the pool, and the place of k among those that wait in it.
Left == received - Cardinality(ready)
Place(k) == Cardinality({j \in ready : j <= k})

\* The last packet before those of todo.
Before == IF hpc = "recycle" THEN handled - 1 ELSE handled

\* Packets ascend from the one decoded last to the one received last.
Ascending ==
    /\ \A i \in 1 .. Len(todo) :
          /\ Before < content[todo[i]] /\ content[todo[i]] <= Left
          /\ \A j \in 1 .. Len(todo) : i < j => content[todo[i]] < content[todo[j]]
    /\ \A i \in 1 .. Len(Pending) :
          /\ handled < content[Pending[i]] /\ content[Pending[i]] <= Left
          /\ \A j \in 1 .. Len(todo) : content[todo[j]] < content[Pending[i]]
          /\ \A j \in 1 .. Len(Pending) : i < j => content[Pending[i]] < content[Pending[j]]
    /\ handled <= Left

\* Without a gap, until pkt_queue_ overflows.
Gapless ==
    /\ \A i \in 1 .. Len(todo) : content[todo[i]] = Before + i
    /\ \A i \in 1 .. Len(Pending) : content[Pending[i]] = Before + Len(todo) + i
    /\ Left = Before + Len(todo) + Len(Pending)

OrderInv ==
    ~raced =>
       /\ hpc = "recycle" => content[Head(todo)] = handled
       /\ \A k \in ready : content[pool[k]] = Left + Place(k)
       /\ Ascending
       /\ ~overflowed => Gapless

IInv == TypeOK /\ RecvInv /\ HandleInv /\ UserInv /\ QueueInv /\ OwnedInv /\ OrderInv

-----------------------------------------------------------------------------
(* The ring: SyncQueueProofs' facts, for the ring of pkt_queue_.           *)

\* Every slot counted from one of the ring is one of the ring.
LEMMA SlotIn ==
    ASSUME NEW h \in Q!Slots, NEW i \in Nat
    PROVE  Q!Slot(h, i) \in Q!Slots
<1>1. h + i \in Int /\ Capacity \in Nat \ {0}
    BY PipelineAssumption DEF Q!Slots
<1> QED
    BY <1>1 DEF Q!Slot, Q!Slots

\* What size() returns, and when it is zero.
LEMMA SizeIn ==
    ASSUME NEW h \in Q!Slots, NEW t \in Q!Slots
    PROVE  Q!Size(h, t) \in Nat /\ Q!Size(h, t) <= Capacity - 1 /\ (Q!Size(h, t) = 0 <=> h = t)
    BY PipelineAssumption DEF Q!Size, Q!Slots

\* A push into a ring with room makes it one longer; an advance of the head by n
\* makes it n shorter.
LEMMA SizeSteps ==
    ASSUME NEW h \in Q!Slots, NEW t \in Q!Slots
    PROVE  /\ Q!Slot(t, 1) # h => Q!Size(h, Q!Slot(t, 1)) = Q!Size(h, t) + 1
           /\ \A n \in 0 .. Q!Size(h, t) : Q!Size(Q!Slot(h, n), t) = Q!Size(h, t) - n
<1>1. R!Slot(t, 1) # h => R!Size(h, R!Slot(t, 1)) = R!Size(h, t) + 1
    BY R!SizePush, PipelineAssumption DEF Q!Slots, R!Slots
<1>2. \A n \in 0 .. R!Size(h, t) : R!Size(R!Slot(h, n), t) = R!Size(h, t) - n
    BY R!SizePop, PipelineAssumption DEF Q!Slots, R!Slots
<1>3. /\ \A x, n : R!Slot(x, n) = Q!Slot(x, n)
      /\ \A x, y : R!Size(x, y) = Q!Size(x, y)
    BY DEF R!Slot, Q!Slot, R!Size, Q!Size
<1> QED
    BY <1>1, <1>2, <1>3

\* What is queued between two indices.
LEMMA QueuedIs ==
    ASSUME NEW V, NEW b \in [Q!Slots -> V], NEW h \in Q!Slots, NEW t \in Q!Slots
    PROVE  /\ Q!Queued(b, h, t) \in Seq(V) /\ Len(Q!Queued(b, h, t)) = Q!Size(h, t)
           /\ \A i \in 1 .. Q!Size(h, t) : Q!Queued(b, h, t)[i] = b[Q!Slot(h, i - 1)]
<1>1. /\ R!Queued(b, h, t) \in Seq(V) /\ Len(R!Queued(b, h, t)) = R!Size(h, t)
      /\ \A i \in 1 .. R!Size(h, t) : R!Queued(b, h, t)[i] = b[R!Slot(h, i - 1)]
    BY R!QueuedSeq, PipelineAssumption DEF Q!Slots, R!Slots
<1>2. /\ R!Queued(b, h, t) = Q!Queued(b, h, t) /\ R!Size(h, t) = Q!Size(h, t)
      /\ \A x, n : R!Slot(x, n) = Q!Slot(x, n)
    BY DEF R!Queued, Q!Queued, R!Size, Q!Size, R!Slot, Q!Slot
<1> QED
    BY <1>1, <1>2

\* A store to the slot at the tail leaves what is queued.
LEMMA QueuedWrite ==
    ASSUME NEW b, NEW h \in Q!Slots, NEW t \in Q!Slots, NEW v
    PROVE  Q!Queued([b EXCEPT ![t] = v], h, t) = Q!Queued(b, h, t)
<1> DEFINE c == [b EXCEPT ![t] = v]
<1>1. \A k \in Q!Slots : k # t => c[k] = b[k]
    OBVIOUS
<1> HIDE DEF c
<1>2. R!Queued(c, h, t) = R!Queued(b, h, t)
    BY <1>1, R!WriteFreeSlot, PipelineAssumption DEF Q!Slots, R!Slots
<1>3. R!Queued(c, h, t) = Q!Queued(c, h, t) /\ R!Queued(b, h, t) = Q!Queued(b, h, t)
    BY DEF R!Queued, Q!Queued, R!Size, Q!Size, R!Slot, Q!Slot
<1> QED
    BY <1>2, <1>3 DEF c

\* The next tail makes that slot the last one queued.
LEMMA QueuedPublish ==
    ASSUME NEW V, NEW b \in [Q!Slots -> V], NEW h \in Q!Slots, NEW t \in Q!Slots,
           Q!Slot(t, 1) # h
    PROVE  Q!Queued(b, h, Q!Slot(t, 1)) = Append(Q!Queued(b, h, t), b[t])
<1>1. /\ \A x, n : R!Slot(x, n) = Q!Slot(x, n)
      /\ \A x, y : R!Queued(b, x, y) = Q!Queued(b, x, y)
    BY DEF R!Slot, Q!Slot, R!Queued, Q!Queued, R!Size, Q!Size
<1>2. R!Slot(t, 1) # h
    BY <1>1
<1>3. R!Queued(b, h, R!Slot(t, 1)) = Append(R!Queued(b, h, t), b[t])
    BY <1>2, R!PublishAppends, PipelineAssumption DEF Q!Slots, R!Slots
<1> QED
    BY <1>1, <1>3

\* The next head leaves out what popBatch has copied.
LEMMA QueuedAdvance ==
    ASSUME NEW V, NEW b \in [Q!Slots -> V], NEW h \in Q!Slots, NEW t \in Q!Slots,
           NEW k \in 0 .. Q!Size(h, t), NEW s \in Seq(V), Len(s) = k,
           \A i \in 1 .. k : s[i] = b[Q!Slot(h, i - 1)]
    PROVE  /\ s = SubSeq(Q!Queued(b, h, t), 1, k)
           /\ Q!Queued(b, Q!Slot(h, k), t) = SubSeq(Q!Queued(b, h, t), k + 1, Q!Size(h, t))
<1>1. /\ \A x, n : R!Slot(x, n) = Q!Slot(x, n)
      /\ \A x, y : R!Queued(b, x, y) = Q!Queued(b, x, y)
      /\ R!Size(h, t) = Q!Size(h, t)
    BY DEF R!Slot, Q!Slot, R!Queued, Q!Queued, R!Size, Q!Size
<1>2. k \in 0 .. R!Size(h, t) /\ \A i \in 1 .. Len(s) : s[i] = b[R!Slot(h, i - 1)]
    BY <1>1
<1>3. R!Queued(b, R!Slot(h, k), t) = SubSeq(R!Queued(b, h, t), k + 1, R!Size(h, t))
    BY <1>2, R!AdvanceDrops, PipelineAssumption DEF Q!Slots, R!Slots
<1>4. s = SubSeq(R!Queued(b, h, t), 1, Len(s))
    BY <1>2, R!CopiedPrefix, PipelineAssumption DEF Q!Slots, R!Slots
<1> QED
    BY <1>1, <1>3, <1>4

-----------------------------------------------------------------------------
(* Sequences without repetition.                                           *)

\* A queue grows by what is not in it.
LEMMA AppendOnce ==
    ASSUME NEW S, NEW q \in Seq(S), NEW m \in S, IsInjective(q), m \notin ToSet(q)
    PROVE  IsInjective(Append(q, m)) /\ ToSet(Append(q, m)) = ToSet(q) \cup {m}
<1>1. /\ Len(q) \in Nat /\ DOMAIN q = 1 .. Len(q) /\ DOMAIN Append(q, m) = 1 .. Len(q) + 1
      /\ Append(q, m)[Len(q) + 1] = m /\ \A i \in 1 .. Len(q) : Append(q, m)[i] = q[i]
    BY AppendProperties
<1>2. \A i \in 1 .. Len(q) : q[i] # m
    BY <1>1 DEF ToSet
<1>3. IsInjective(Append(q, m))
    BY <1>1, <1>2 DEF IsInjective
<1> QED
    BY <1>1, <1>3 DEF ToSet

\* And loses its first.
LEMMA TailOnce ==
    ASSUME NEW S, NEW q \in Seq(S), q # <<>>, IsInjective(q)
    PROVE  /\ Tail(q) \in Seq(S) /\ IsInjective(Tail(q))
           /\ Head(q) \in ToSet(q) /\ Head(q) \in S /\ ToSet(Tail(q)) = ToSet(q) \ {Head(q)}
           /\ Len(q) \in Nat \ {0} /\ Len(Tail(q)) = Len(q) - 1 /\ Head(q) = q[1]
           /\ \A i \in 1 .. Len(Tail(q)) : Tail(q)[i] = q[i + 1]
<1>1. /\ Tail(q) \in Seq(S) /\ Head(q) = q[1] /\ q[1] \in S
      /\ Len(q) \in Nat \ {0} /\ Len(Tail(q)) = Len(q) - 1
      /\ DOMAIN q = 1 .. Len(q) /\ DOMAIN Tail(q) = 1 .. Len(q) - 1
      /\ \A i \in 1 .. Len(q) - 1 : Tail(q)[i] = q[i + 1]
    BY HeadTailProperties
<1>2. IsInjective(Tail(q))
    BY <1>1 DEF IsInjective
<1>3. \A i \in 2 .. Len(q) : q[i] # q[1] /\ q[i] = Tail(q)[i - 1]
    BY <1>1 DEF IsInjective
<1>4. ToSet(Tail(q)) = ToSet(q) \ {q[1]}
  <2>1. ASSUME NEW x \in ToSet(Tail(q)) PROVE x \in ToSet(q) \ {q[1]}
      BY <1>1, <1>3 DEF ToSet
  <2>2. ASSUME NEW x \in ToSet(q) \ {q[1]} PROVE x \in ToSet(Tail(q))
    <3>1. PICK i \in 1 .. Len(q) : x = q[i]
        BY <1>1 DEF ToSet
    <3>2. i \in 2 .. Len(q) /\ i - 1 \in 1 .. Len(q) - 1
        BY <1>1, <2>2, <3>1
    <3> QED
        BY <1>1, <1>3, <3>1, <3>2 DEF ToSet
  <2> QED
      BY <2>1, <2>2
<1>5. Head(q) \in ToSet(q)
    BY <1>1 DEF ToSet
<1> QED
    BY <1>1, <1>2, <1>4, <1>5

\* A batch and what stays behind.
LEMMA SplitOnce ==
    ASSUME NEW S, NEW q \in Seq(S), IsInjective(q), NEW n \in 0 .. Len(q)
    PROVE  LET a == SubSeq(q, 1, n)
               b == SubSeq(q, n + 1, Len(q))
           IN  /\ a \in Seq(S) /\ Len(a) = n /\ \A i \in 1 .. n : a[i] = q[i]
               /\ b \in Seq(S) /\ Len(b) = Len(q) - n
               /\ \A i \in 1 .. Len(q) - n : b[i] = q[n + i]
               /\ IsInjective(a) /\ IsInjective(b)
               /\ ToSet(a) \subseteq ToSet(q) /\ ToSet(b) \subseteq ToSet(q)
               /\ ToSet(a) \cap ToSet(b) = {}
<1> DEFINE L == Len(q)
           a == SubSeq(q, 1, n)
           b == SubSeq(q, n + 1, Len(q))
<1>1. L \in Nat /\ DOMAIN q = 1 .. L /\ \A i \in 1 .. L : q[i] \in S
    BY LenProperties, ElementOfSeq
<1>2. \A i, j \in 1 .. L : q[i] = q[j] => i = j
    BY <1>1 DEF IsInjective
<1> HIDE DEF L, a, b
<1>3. n \in Nat /\ n <= L
    BY <1>1 DEF L
<1>4. a \in Seq(S) /\ Len(a) = n /\ \A i \in 1 .. n : a[i] = q[i]
  <2>1. /\ a \in Seq(S) /\ Len(a) = IF 1 <= n THEN n - 1 + 1 ELSE 0
        /\ \A i \in 1 .. n - 1 + 1 : a[i] = q[1 + i - 1]
    <3>1. \A i \in 1 .. n : q[i] \in S
        BY <1>1, <1>3
    <3> QED
        BY <1>3, <3>1, SubSeqProperties DEF a
  <2>2. \A i \in 1 .. n : 1 + i - 1 = i /\ i \in 1 .. n - 1 + 1
      BY <1>3
  <2> QED
      BY <1>3, <2>1, <2>2
<1>5. b \in Seq(S) /\ Len(b) = L - n /\ \A i \in 1 .. L - n : b[i] = q[n + i]
  <2>1. /\ b \in Seq(S) /\ Len(b) = IF n + 1 <= L THEN L - (n + 1) + 1 ELSE 0
        /\ \A i \in 1 .. L - (n + 1) + 1 : b[i] = q[n + 1 + i - 1]
    <3>1. \A i \in n + 1 .. L : q[i] \in S
        BY <1>1, <1>3
    <3> QED
        BY <1>1, <1>3, <3>1, SubSeqProperties DEF L, b
  <2>2. \A i \in 1 .. L - n : n + 1 + i - 1 = n + i /\ i \in 1 .. L - (n + 1) + 1
      BY <1>1, <1>3
  <2>3. Len(b) = L - n
      BY <1>1, <1>3, <2>1
  <2> QED
      BY <2>1, <2>2, <2>3
<1>6. DOMAIN a = 1 .. n /\ DOMAIN b = 1 .. L - n
    BY <1>1, <1>3, <1>4, <1>5
<1>7. IsInjective(a)
  <2>1. \A i \in 1 .. n : i \in 1 .. L
      BY <1>1, <1>3
  <2> QED
      BY <1>2, <1>4, <1>6, <2>1 DEF IsInjective
<1>8. IsInjective(b)
  <2>1. \A i \in 1 .. L - n : n + i \in 1 .. L
      BY <1>1, <1>3
  <2>2. \A i, j \in 1 .. L - n : n + i = n + j => i = j
      BY <1>1, <1>3
  <2> QED
      BY <1>2, <1>5, <1>6, <2>1, <2>2 DEF IsInjective
<1>9. ASSUME NEW x \in ToSet(a) PROVE x \in ToSet(q) /\ x \notin ToSet(b)
  <2>1. PICK i \in 1 .. n : x = q[i]
      BY <1>4, <1>6 DEF ToSet
  <2>2. i \in 1 .. L /\ \A j \in 1 .. L - n : n + j \in 1 .. L /\ n + j # i
      BY <1>1, <1>3
  <2>3. x \in ToSet(q)
      BY <1>1, <2>1, <2>2 DEF ToSet
  <2>4. \A j \in 1 .. L - n : b[j] # x
      BY <1>2, <1>5, <2>1, <2>2
  <2>5. x \notin ToSet(b)
      BY <1>6, <2>4 DEF ToSet
  <2> QED
      BY <2>3, <2>5
<1>10. ToSet(b) \subseteq ToSet(q)
  <2>1. \A j \in 1 .. L - n : n + j \in 1 .. L
      BY <1>1, <1>3
  <2> QED
      BY <1>1, <1>5, <1>6, <2>1 DEF ToSet
<1> QED
    BY <1>4, <1>5, <1>7, <1>8, <1>9, <1>10 DEF L, a, b

-----------------------------------------------------------------------------
(* The pool's slots that are pushed, first to last.                        *)

\* First is the least of a set of numbers.
LEMMA FirstIs ==
    ASSUME NEW S \in SUBSET Nat, S # {}
    PROVE  First(S) \in S /\ \A j \in S : First(S) <= j
<1> DEFINE less == OpToRel(<, Nat)
<1>1. /\ IsWellFoundedOn(less, Nat)
      /\ \A x, y \in Nat : <<x, y>> \in less <=> x < y
    BY NatLessThanWellFounded, Zenon DEF OpToRel
<1> HIDE DEF less
<1>2. PICK x \in S : \A y \in S : ~(<<y, x>> \in less)
  <2>1. S \subseteq Nat /\ IsWellFoundedOn(less, Nat)
      BY <1>1, Zenon
  <2> QED
      BY <2>1, WFMin
<1>3. \A y \in S : ~(y < x)
    BY <1>1, <1>2, Zenon
<1>4. \A y \in S : x <= y
    BY <1>3
<1> QED
    BY <1>4 DEF First

\* A slot's place among them.
LEMMA PlaceIs ==
    ASSUME NEW S \in SUBSET Pool, S # {}
    PROVE  /\ First(S) \in S /\ IsFiniteSet(S) /\ Cardinality(S) \in Nat \ {0}
           /\ Cardinality(S \ {First(S)}) = Cardinality(S) - 1
           /\ Cardinality({j \in S : j <= First(S)}) = 1
           /\ \A k \in S \ {First(S)} :
                 Cardinality({j \in S \ {First(S)} : j <= k})
                     = Cardinality({j \in S : j <= k}) - 1
<1> DEFINE f == First(S)
<1>1. /\ \A j \in S : j \in Nat
      /\ f \in S /\ \A j \in S : f <= j
    BY FirstIs, PipelineAssumption DEF Pool
<1>2. IsFiniteSet(S)
  <2>1. IsFiniteSet(Pool)
      BY FS_Interval, PipelineAssumption DEF Pool
  <2> QED
      BY <2>1, FS_Subset
<1> HIDE DEF f
<1>3. /\ Cardinality(S) \in Nat \ {0} /\ Cardinality(S \ {f}) = Cardinality(S) - 1
    BY <1>1, <1>2, FS_CardinalityType, FS_EmptySet, FS_RemoveElement
<1>4. Cardinality({j \in S : j <= f}) = 1
  <2>1. {j \in S : j <= f} = {f}
      BY <1>1
  <2> QED
      BY <2>1, FS_Singleton
<1>5. ASSUME NEW k \in S \ {f}
      PROVE  Cardinality({j \in S \ {f} : j <= k}) = Cardinality({j \in S : j <= k}) - 1
  <2> DEFINE T == {j \in S : j <= k}
  <2>1. {j \in S \ {f} : j <= k} = T \ {f} /\ f \in T /\ IsFiniteSet(T)
      BY <1>1, <1>2, FS_Subset
  <2> HIDE DEF T
  <2>2. Cardinality(T \ {f}) = Cardinality(T) - 1
      BY <2>1, FS_RemoveElement
  <2> QED
      BY <2>1, <2>2 DEF T
<1> QED
    BY <1>1, <1>2, <1>3, <1>4, <1>5 DEF f

-----------------------------------------------------------------------------
(* The types, and where the threads are, step by step.                     *)

Threads == TypeOK /\ RecvInv /\ HandleInv /\ UserInv

\* A call or a join of the user's.
LEMMA UserThreads ==
    ASSUME Threads, User
    PROVE  Threads'
<1> USE DEF Threads, TypeOK, qVars, recvVars, handleVars, userVars
<1>1. RingOK' /\ RecvInv'
    BY DEF User, Start, StopRecv, StopHandle, StopDone, RingOK, RecvOK, RecvInv, UserInv, Clearing
<1>2. RecvOK' /\ HandleOK'
    BY DEF User, Start, StopRecv, StopHandle, StopDone, RecvOK, HandleOK
<1>3. HandleInv' /\ UserInv'
    BY DEF User, Start, StopRecv, StopHandle, StopDone, HandleInv, UserInv, RingOK
<1> QED
    BY <1>1, <1>2, <1>3

\* A step of recv_thread.
LEMMA RecvThreads ==
    ASSUME Threads, Recv
    PROVE  Threads'
<1> USE DEF Threads, TypeOK
<1> DEFINE f == First(ready)
<1>1. 0 \in Q!Slots /\ \A h \in Q!Slots : Q!Slot(h, 1) \in Q!Slots
    BY SlotIn, PipelineAssumption DEF Q!Slots
<1>2. rpc \in {"push", "overflow"} => f \in ready /\ f \in Pool /\ pool[f] \in Buffers
    BY PlaceIs DEF RecvInv, RecvOK
<1>3. HandleOK' /\ HandleInv' /\ UserInv'
  <2>1. /\ UNCHANGED <<handleVars, userVars, cpc>>
        /\ rpc = "off" => rpc' = "off"
      BY DEF Recv, RecvExit, RecvReadable, RecvRefill, RecvMmsg, RecvPush, RecvPushed, RecvFull,
             RecvClearBegin, RecvClear, ByRecv, qVars, recvVars, Q!PushLoadTail, Q!PushRoom,
             Q!PushWriteSlot, Q!PushPublish, Q!PushFull, Q!ClearBegin, Q!ClearHead, Q!ClearTail,
             Q!consumerVars, Pushed
  <2> QED
      BY <2>1 DEF handleVars, userVars, HandleOK, HandleInv, UserInv
<1>4. RingOK' /\ RecvOK' /\ RecvInv'
  <2> USE DEF RingOK, RecvOK, RecvInv, Clearing, ByRecv, qVars, recvVars
  <2>1. CASE RecvExit
      BY <2>1 DEF RecvExit, EmptyPool
  <2>2. CASE RecvReadable
      BY <2>2 DEF RecvReadable
  <2>3. CASE RecvRefill
    <3> DEFINE empty == {k \in Pool : pool[k] = Null}
    <3>1. First(empty) \in Pool
      <4>1. empty \in SUBSET Pool /\ empty # {}
          BY <2>3 DEF RecvRefill
      <4> HIDE DEF empty
      <4> QED
          BY <4>1, PlaceIs
    <3>2. free # <<>> => Head(free) \in Buffers /\ Tail(free) \in Seq(Buffers)
        BY HeadTailProperties
    <3>3. Buffers \ Live # {} => (CHOOSE b \in Buffers \ Live : TRUE) \in Buffers
        OBVIOUS
    <3> QED
        BY <2>3, <3>1, <3>2, <3>3 DEF RecvRefill
  <2>4. ASSUME NEW n \in 0 .. PoolSize, NEW good \in SUBSET (1 .. n), RecvMmsg(n, good)
        PROVE  RingOK' /\ RecvOK' /\ RecvInv'
    <3>1. n \in Nat /\ n <= PoolSize /\ PoolSize \in Nat /\ \A k \in 1 .. n : k \in Pool
        BY PipelineAssumption DEF Pool
    <3>2. \A S \in SUBSET good : Cardinality(S) \in Nat
      <4>1. IsFiniteSet(1 .. n)
          BY <3>1, FS_Interval
      <4>2. ASSUME NEW S \in SUBSET good PROVE IsFiniteSet(S)
          BY <4>1, FS_Subset
      <4> QED
          BY <4>2, FS_CardinalityType
    <3>3. received' \in Nat /\ ready' \subseteq Pool
      <4>1. Cardinality(good) \in Nat
          BY <3>2
      <4>2. received' = received + Cardinality(good) /\ ready' = good
          BY <2>4 DEF RecvMmsg
      <4> QED
          BY <3>1, <4>1, <4>2
    <3>4. content' \in [Buffers -> Nat]
      <4> DEFINE
            C(b) == {j \in good : \E k \in good : pool[k] = b /\ j <= k}
            c(b) == IF \E k \in good : pool[k] = b THEN received + Cardinality(C(b))
                    ELSE IF \E k \in 1..n : pool[k] = b THEN 0 ELSE content[b]
      <4>1. \A b \in Buffers : Cardinality(C(b)) \in Nat
          BY <3>2
      <4> HIDE DEF C
      <4>2. \A b \in Buffers : c(b) \in Nat
          BY <4>1
      <4> HIDE DEF c
      <4>3. content' = [b \in Buffers |-> c(b)]
          BY <2>4 DEF RecvMmsg, c, C
      <4> QED
          BY <4>2, <4>3
    <3>5. \A k \in Pool : pool[k] \in Buffers
        BY <2>4 DEF RecvMmsg
    <3> QED
        BY <2>4, <3>1, <3>3, <3>4, <3>5 DEF RecvMmsg
  <2>5. CASE RecvPush
    <3>1. CASE Q!PushLoadTail(pool[f])
        BY <1>2, <2>5, <3>1 DEF RecvPush, Q!PushLoadTail, Q!consumerVars
    <3>2. CASE Q!PushRoom
        BY <2>5, <3>2 DEF RecvPush, Q!PushRoom, Q!consumerVars
    <3>3. CASE Q!PushWriteSlot
        BY <2>5, <3>3 DEF RecvPush, Q!PushWriteSlot, Q!consumerVars
    <3> QED
        BY <2>5, <3>1, <3>2, <3>3 DEF RecvPush
  <2>6. CASE RecvFull
      BY <2>6 DEF RecvFull, Q!PushFull, Q!consumerVars
  <2>7. CASE RecvClearBegin
      BY <2>7 DEF RecvClearBegin, Q!ClearBegin, Q!consumerVars
  <2>8. ASSUME Pushed, rpc \in {"push", "overflow"}
        PROVE  /\ pool' \in [Pool -> Buffers \cup {Null}] /\ ready' \subseteq Pool
               /\ \A k \in ready' : pool'[k] \in Buffers
               /\ IF ready' = {} THEN rpc' = "select" ELSE rpc' = "push"
    <3>1. \A k \in ready : k # f => pool'[k] = pool[k]
        BY <2>8 DEF Pushed
    <3> QED
        BY <1>2, <2>8, <3>1 DEF Pushed
  <2>9. CASE RecvPushed
      BY <1>1, <1>2, <2>8, <2>9 DEF RecvPushed, Q!PushPublish, Q!consumerVars
  <2>10. CASE RecvClear
    <3>1. /\ rpc = "overflow" /\ ppc \in {"clear", "clearHead", "clearTail"}
          /\ ppc' \in {"idle", "clearHead", "clearTail"} /\ RingOK'
          /\ UNCHANGED <<free, content, received>>
        BY <1>1, <2>10 DEF RecvClear, Q!ClearHead, Q!ClearTail, Q!consumerVars
    <3>2. CASE ppc' = "idle"
        BY <1>2, <2>8, <2>10, <3>1, <3>2 DEF RecvClear
    <3>3. CASE ppc' # "idle"
        BY <2>10, <3>1, <3>3 DEF RecvClear
    <3> QED
        BY <3>2, <3>3
  <2> QED
      BY <2>1, <2>2, <2>3, <2>4, <2>5, <2>6, <2>7, <2>9, <2>10 DEF Recv
<1> QED
    BY <1>3, <1>4

\* A step of handle_thread_.
LEMMA HandleThreads ==
    ASSUME Threads, Handle
    PROVE  Threads'
<1> USE DEF Threads, TypeOK, ByHandle, qVars, recvVars, handleVars, userVars, Q!producerVars
<1>1. RecvOK'
  <2>1. todo # <<>> => Head(todo) \in Buffers \cup {Null}
      BY HeadTailProperties DEF HandleOK
  <2>2. hpc = "recycle" => Append(free, Head(todo)) \in Seq(Buffers)
      BY AppendProperties DEF HandleInv, RecvOK
  <2> QED
      BY <2>2
      DEF Handle, HandleExit, HandlePoll, HandleBatch, HandleNothing, HandleGot, HandleDecode,
          HandleRecycle, RecvOK
<1>2. RecvInv'
  <2>1. UNCHANGED <<rpc, ready, pool, ppc, pval, ptail, tail, overflowed>>
      BY DEF Handle, HandleExit, HandlePoll, HandleBatch, HandleNothing, HandleGot, HandleDecode,
             HandleRecycle, Q!PopLoadHead, Q!PopRetry, Q!BatchReloadHead, Q!BatchCount,
             Q!PopCopySlot, Q!PopEmpty, Q!PopAdvance
  <2>2. CASE HandleBatch
    <3>1. raced' => raced \/ Clearing
        BY <2>2 DEF HandleBatch, Clearing
    <3>2. /\ raced => overflowed
          /\ Clearing => rpc = "overflow"
          /\ rpc = "overflow" => overflowed
        BY DEF RecvInv
    <3>3. raced' => overflowed
        BY <3>1, <3>2
    <3> QED
        BY <2>1, <3>3 DEF RecvInv, Clearing
  <2>3. CASE raced' = raced
      BY <2>1, <2>3 DEF RecvInv, Clearing
  <2> QED
      BY <2>2, <2>3
      DEF Handle, HandleExit, HandlePoll, HandleNothing, HandleGot, HandleDecode, HandleRecycle
<1>3. RingOK'
  <2> USE DEF RingOK
  <2>1. Q!Slot(chead, ccount) \in Q!Slots /\ Q!Slot(chead, Len(batch)) \in Q!Slots
    <3>1. Len(batch) \in Nat
        BY LenProperties
    <3> QED
        BY <3>1, SlotIn
  <2>2. Q!Least(MaxBatch, Q!Size(chead, tail)) \in Nat
      BY SizeIn, PipelineAssumption DEF Q!Least
  <2>3. <<>> \in Seq(Buffers \cup {Null})
      OBVIOUS
  <2>4. Append(batch, buffer[Q!Slot(chead, Len(batch))]) \in Seq(Buffers \cup {Null})
      BY <2>1, AppendProperties
  <2>5. CASE HandlePoll
      BY <2>3, <2>5 DEF HandlePoll, Q!PopLoadHead
  <2>6. CASE HandleBatch
      BY <2>2, <2>4, <2>6
      DEF HandleBatch, Q!PopRetry, Q!BatchReloadHead, Q!BatchCount, Q!PopCopySlot
  <2>7. CASE HandleNothing \/ HandleGot
      BY <2>1, <2>7 DEF HandleNothing, HandleGot, Q!PopEmpty, Q!PopAdvance
  <2>8. CASE HandleExit \/ HandleDecode \/ HandleRecycle
      BY <2>8 DEF HandleExit, HandleDecode, HandleRecycle
  <2> QED
      BY <2>5, <2>6, <2>7, <2>8 DEF Handle
<1>4. HandleOK' /\ HandleInv' /\ UserInv'
  <2> USE DEF HandleOK, HandleInv, UserInv
  <2>1. CASE HandlePoll
      BY <2>1 DEF HandlePoll, Q!PopLoadHead
  <2>2. CASE HandleBatch
      BY <2>2 DEF HandleBatch, Q!PopRetry, Q!BatchReloadHead, Q!BatchCount, Q!PopCopySlot
  <2>3. CASE HandleNothing
      BY <2>3 DEF HandleNothing, Q!PopEmpty
  <2>4. CASE HandleGot
      BY <2>4 DEF HandleGot, Q!PopAdvance, RingOK
  <2>5. CASE HandleExit
      BY <2>5 DEF HandleExit
  <2>6. todo # <<>> =>
          Head(todo) \in Buffers \cup {Null} /\ Tail(todo) \in Seq(Buffers \cup {Null})
      BY HeadTailProperties
  <2>7. CASE HandleDecode
      BY <2>6, <2>7 DEF HandleDecode, RecvOK
  <2>8. CASE HandleRecycle
    <3>1. Len(todo) = 1 <=> Tail(todo) = <<>>
      <4>1. todo # <<>>
          BY <2>8 DEF HandleRecycle
      <4>2. /\ Tail(todo) \in Seq(Buffers \cup {Null}) /\ Len(Tail(todo)) = Len(todo) - 1
            /\ Len(todo) \in Nat
          BY <4>1, HeadTailProperties
      <4>3. Tail(todo) = <<>> <=> Len(Tail(todo)) = 0
          BY <4>2, EmptySeq
      <4> QED
          BY <4>2, <4>3
    <3> QED
        BY <2>6, <2>8, <3>1 DEF HandleRecycle
  <2> QED
      BY <2>1, <2>2, <2>3, <2>4, <2>5, <2>7, <2>8 DEF Handle
<1> QED
    BY <1>1, <1>2, <1>3, <1>4

\* Types and program counters stay right whatever clear() does.
LEMMA ThreadsStep ==
    ASSUME Threads, [Next]_vars
    PROVE  Threads'
<1>1. CASE UNCHANGED vars
    BY <1>1
    DEF Threads, TypeOK, RingOK, RecvOK, HandleOK, RecvInv, HandleInv, UserInv, Clearing, vars,
        qVars, recvVars, handleVars, userVars
<1> QED
    BY <1>1, UserThreads, RecvThreads, HandleThreads DEF Next, Ended

-----------------------------------------------------------------------------
(* The ring, step by step.                                                 *)

\* Both threads' knowledge of the ring survives the other's steps; only a clear()
\* during the last part of a popBatch could spoil it, and then raced is set.
LEMMA QueueStep ==
    ASSUME Threads, QueueInv, [Next]_vars
    PROVE  QueueInv'
<1> SUFFICES ASSUME ~raced' PROVE QueueInv'
    BY DEF QueueInv
<1> USE DEF Clearing
<1>1. RingOK /\ RecvInv /\ HandleInv
    BY DEF Threads, TypeOK
<1>2. ~raced
    BY DEF Next, User, Recv, Handle, Ended, vars, Start, StopRecv, StopHandle, StopDone, RecvExit,
           RecvReadable, RecvRefill, RecvMmsg, RecvPush, RecvPushed, RecvFull, RecvClearBegin,
           RecvClear, HandleExit, HandlePoll, HandleBatch, HandleNothing, HandleGot, HandleDecode,
           HandleRecycle
<1>3. CASE UNCHANGED qVars
    BY <1>2, <1>3 DEF QueueInv, qVars
<1>4. CASE RecvPush
  <2> USE DEF RecvPush, Q!PushLoadTail, Q!PushRoom, Q!PushWriteSlot, Q!consumerVars
  <2>1. ppc' # "publish" => QueueInv'
      BY <1>1, <1>2, <1>4 DEF QueueInv, RecvInv
  <2>2. CASE Q!PushWriteSlot
    <3>1. /\ buffer \in [Q!Slots -> Buffers \cup {Null}] /\ head \in Q!Slots /\ tail \in Q!Slots
          /\ buffer' = [buffer EXCEPT ![tail] = pval] /\ pval \in Buffers \cup {Null}
          /\ buffer' \in [Q!Slots -> Buffers \cup {Null}]
        BY <1>1, <2>2 DEF RingOK, RecvInv
    <3>2. Q!Queued(buffer', head, tail) = Q!Queued(buffer, head, tail)
        BY <3>1, QueuedWrite
    <3> DEFINE
          S == Q!Size(head, tail)
          At(b, i) == b[Q!Slot(head, i - 1)]
    <3>3. \A i \in 1 .. S : At(buffer', i) = At(buffer, i)
      <4> HIDE DEF RecvPush, Q!PushLoadTail, Q!PushRoom, Q!PushWriteSlot, Q!consumerVars
      <4>1. ASSUME NEW b \in [Q!Slots -> Buffers \cup {Null}]
            PROVE  /\ Q!Queued(b, head, tail) \in Seq(Buffers \cup {Null})
                   /\ \A i \in 1 .. S : Q!Queued(b, head, tail)[i] = At(b, i)
        <5>1. head \in Q!Slots /\ tail \in Q!Slots
            BY <3>1
        <5> QED
            BY ONLY <4>1, <5>1, QueuedIs
      <4>2. /\ \A i \in 1 .. S : Q!Queued(buffer, head, tail)[i] = At(buffer, i)
            /\ \A i \in 1 .. S : Q!Queued(buffer', head, tail)[i] = At(buffer', i)
          BY <3>1, <4>1
      <4> QED
          BY <3>2, <4>2
    <3>4. S \in Nat /\ Len(batch) \in Nat /\ ccount \in Nat
        BY <1>1, <3>1, SizeIn, LenProperties DEF RingOK
    <3>5. cpc = "copy" => \A i \in 1 .. Len(batch) : At(buffer', i) = At(buffer, i)
        BY <1>2, <3>3, <3>4 DEF QueueInv
    <3> QED
        BY <1>1, <1>2, <2>2, <3>1, <3>5 DEF QueueInv, RecvInv
  <2> QED
      BY <1>4, <2>1, <2>2
<1>5. CASE RecvPushed
  <2>1. /\ tail' = Q!Slot(tail, 1) /\ ppc' = "idle" /\ ppc = "publish"
        /\ UNCHANGED <<buffer, head, cpc, chead, ccount, batch>>
        /\ head \in Q!Slots /\ tail \in Q!Slots /\ Q!Slot(tail, 1) # head
      BY <1>1, <1>2, <1>5 DEF RecvPushed, Q!PushPublish, Q!consumerVars, RecvInv, RingOK, QueueInv
  <2>2. /\ Q!Size(head, tail') = Q!Size(head, tail) + 1
        /\ Q!Size(head, tail) \in Nat /\ ccount \in Nat
      BY <1>1, <2>1, SizeSteps, SizeIn DEF RingOK
  <2>3. ccount <= Q!Size(head, tail) => ccount <= Q!Size(head, tail')
      BY <2>2
  <2> QED
      BY <1>2, <2>1, <2>3 DEF QueueInv
<1>6. CASE RecvFull
    BY <1>1, <1>2, <1>6 DEF RecvFull, Q!PushFull, Q!consumerVars, QueueInv
<1>7. CASE RecvClearBegin
    BY <1>1, <1>2, <1>7 DEF RecvClearBegin, Q!ClearBegin, Q!consumerVars, QueueInv
<1>8. CASE RecvClear
  <2>1. cpc \in {"idle", "check"}
      BY <1>1, <1>8 DEF RecvClear, HoldsIndices, RingOK
  <2> QED
      BY <1>1, <1>2, <1>8, <2>1 DEF RecvClear, Q!ClearHead, Q!ClearTail, Q!consumerVars, QueueInv
<1>9. CASE HandlePoll
    BY <1>1, <1>2, <1>9 DEF HandlePoll, Q!PopLoadHead, Q!producerVars, QueueInv
<1>10. CASE HandleBatch
  <2> USE DEF HandleBatch, Q!producerVars
  <2>1. CASE Q!PopRetry
      BY <1>1, <1>2, <1>10, <2>1 DEF Q!PopRetry, QueueInv
  <2>2. CASE Q!BatchReloadHead
      BY <1>1, <1>2, <1>10, <2>2 DEF Q!BatchReloadHead, QueueInv
  <2>3. CASE Q!BatchCount
    <3>1. /\ Q!Size(head, tail) \in Nat /\ MaxBatch \in Nat
          /\ Q!Least(MaxBatch, Q!Size(head, tail)) \in Nat
          /\ Q!Least(MaxBatch, Q!Size(head, tail)) <= Q!Size(head, tail)
        BY <1>1, SizeIn, PipelineAssumption DEF RingOK, Q!Least
    <3>2. Len(<<>>) = 0 /\ \A i \in 1 .. 0 : FALSE
        OBVIOUS
    <3> QED
        BY <1>1, <1>2, <1>10, <2>3, <3>1, <3>2 DEF Q!BatchCount, QueueInv
  <2>4. CASE Q!PopCopySlot
    <3>1. /\ Len(batch) \in Nat /\ ccount \in Nat /\ Len(batch) < ccount /\ chead = head
          /\ batch' = Append(batch, buffer[Q!Slot(head, Len(batch))])
          /\ batch \in Seq(Buffers \cup {Null})
          /\ buffer[Q!Slot(head, Len(batch))] \in Buffers \cup {Null}
      <4>1. Len(batch) \in Nat /\ head \in Q!Slots /\ buffer \in [Q!Slots -> Buffers \cup {Null}]
          BY <1>1, LenProperties DEF RingOK
      <4>2. Q!Slot(head, Len(batch)) \in Q!Slots
          BY <4>1, SlotIn
      <4> QED
          BY <1>1, <1>2, <2>4, <4>1, <4>2 DEF Q!PopCopySlot, QueueInv, RingOK
    <3>2. /\ Len(batch') = Len(batch) + 1 /\ \A i \in 1 .. Len(batch) : batch'[i] = batch[i]
          /\ batch'[Len(batch) + 1] = buffer[Q!Slot(head, Len(batch))]
        BY <3>1, AppendProperties
    <3>3. Len(batch') <= ccount
        BY <3>1, <3>2
    <3>4. ASSUME NEW i \in 1 .. Len(batch') PROVE batch'[i] = buffer[Q!Slot(head, i - 1)]
      <4>1. CASE i \in 1 .. Len(batch)
          BY <1>2, <2>4, <3>2, <4>1 DEF Q!PopCopySlot, QueueInv
      <4>2. CASE i = Len(batch) + 1
        <5>1. i - 1 = Len(batch)
            BY <3>1, <4>2
        <5> QED
            BY <3>2, <4>2, <5>1
      <4> QED
          BY <3>1, <3>2, <4>1, <4>2
    <3> QED
        BY <1>1, <1>2, <1>10, <2>4, <3>1, <3>3, <3>4 DEF Q!PopCopySlot, QueueInv
  <2> QED
      BY <1>10, <2>1, <2>2, <2>3, <2>4
<1>11. CASE HandleNothing
    BY <1>1, <1>2, <1>11 DEF HandleNothing, Q!PopEmpty, Q!producerVars, QueueInv
<1>12. CASE HandleGot
  <2>1. /\ head' = Q!Slot(head, ccount) /\ cpc' = "idle" /\ cpc = "copy"
        /\ UNCHANGED <<buffer, tail, ppc, pval>> /\ ~Clearing
        /\ head \in Q!Slots /\ tail \in Q!Slots /\ ccount \in 0 .. Q!Size(head, tail)
      BY <1>1, <1>2, <1>12, SizeIn DEF HandleGot, Q!PopAdvance, Q!producerVars, RingOK, QueueInv
  <2>2. ppc \in {"write", "publish"} => Q!Slot(tail, 1) # head'
    <3> SUFFICES ASSUME Q!Slot(tail, 1) # head, Q!Slot(tail, 1) = head' PROVE FALSE
        BY <1>2 DEF QueueInv
    <3>1. /\ head' \in Q!Slots /\ Q!Size(head', tail) = Q!Size(head, tail) - ccount
          /\ Q!Size(head, Q!Slot(tail, 1)) = Q!Size(head, tail) + 1
        BY <2>1, SizeSteps, SlotIn
    <3>2. Q!Size(head, head') <= Capacity - 1 /\ Q!Size(head, tail) + 1 = Q!Size(head, head')
        BY <2>1, <3>1, SizeIn
    <3>3. Q!Size(head', tail) = Capacity - 1
        BY <1>1, <2>1, <3>1, R!SizePush, PipelineAssumption
        DEF Q!Slots, R!Slots, R!Slot, Q!Slot, R!Size, Q!Size
    <3> QED
        BY <2>1, <3>1, <3>2, <3>3, SizeIn, PipelineAssumption
  <2> QED
      BY <1>2, <2>1, <2>2 DEF QueueInv
<1> QED
  <2>1. \/ UNCHANGED qVars \/ RecvPush \/ RecvPushed \/ RecvFull \/ RecvClearBegin \/ RecvClear
        \/ HandlePoll \/ HandleBatch \/ HandleNothing \/ HandleGot
      BY DEF Next, User, Recv, Handle, Ended, vars, Start, StopRecv, StopHandle, StopDone,
             RecvExit, RecvReadable, RecvRefill, RecvMmsg, HandleExit, HandleDecode, HandleRecycle
  <2> QED
      BY <1>3, <1>4, <1>5, <1>6, <1>7, <1>8, <1>9, <1>10, <1>11, <1>12, <2>1

-----------------------------------------------------------------------------
(* What is queued, and in which kinds of steps it changes.                 *)

\* No step takes an overflow or a hit of clear() back.
LEMMA HistoryStep ==
    ASSUME [Next]_vars
    PROVE  (raced => raced') /\ (overflowed => overflowed')
<1>1. CASE RecvClear
    BY <1>1 DEF RecvClear
<1>5. CASE RecvFull
  <2>1. raced' = raced /\ overflowed'
      BY <1>5 DEF RecvFull
  <2> QED
      BY <2>1
<1>2. CASE HandleBatch
    BY <1>2 DEF HandleBatch, ByHandle
<1>3. CASE UNCHANGED <<raced, overflowed>>
    BY <1>3
<1>4. RecvClear \/ RecvFull \/ HandleBatch \/ UNCHANGED <<raced, overflowed>>
    BY DEF Next, User, Recv, Handle, Ended, vars, Start, StopRecv, StopHandle, StopDone, RecvExit,
           RecvReadable, RecvRefill, RecvMmsg, RecvPush, RecvPushed, RecvClearBegin, HandleExit,
           HandlePoll, HandleNothing, HandleGot, HandleDecode, HandleRecycle, ByHandle
<1> QED
    BY <1>1, <1>2, <1>3, <1>4, <1>5

\* What is pending is a sequence of slots' values, empty in the middle of a clear().
LEMMA PendingIs ==
    ASSUME Threads
    PROVE  /\ Pending \in Seq(Buffers \cup {Null})
           /\ Clearing => Pending = <<>>
           /\ ~Clearing => Pending = Q!Queued(buffer, head, tail)
<1>1. buffer \in [Q!Slots -> Buffers \cup {Null}] /\ head \in Q!Slots /\ tail \in Q!Slots
    BY DEF Threads, TypeOK, RingOK
<1>2. Q!Queued(buffer, head, tail) \in Seq(Buffers \cup {Null})
    BY <1>1, QueuedIs
<1>3. <<>> \in Seq(Buffers \cup {Null})
    OBVIOUS
<1> QED
    BY <1>2, <1>3 DEF Pending, Clearing, Q!Contents

\* The steps that leave what is pending alone, stores to a free slot among them.
LEMMA PendingKept ==
    ASSUME Threads, QueueInv, ~raced,
           UNCHANGED qVars \/ RecvPush \/ RecvFull \/ RecvClearBegin
               \/ HandlePoll \/ HandleBatch \/ HandleNothing
    PROVE  Pending' = Pending
<1>1. CASE UNCHANGED <<buffer, head, tail>> /\ (Clearing' <=> Clearing)
    BY <1>1 DEF Pending, Clearing, Q!Contents, Q!Queued, Q!Size, Q!Slot
<1>2. CASE Q!PushWriteSlot
  <2>1. head \in Q!Slots /\ tail \in Q!Slots /\ ptail = tail
      BY <1>2 DEF Threads, TypeOK, RingOK, RecvInv, Q!PushWriteSlot
  <2>2. Q!Queued(buffer', head, tail) = Q!Queued(buffer, head, tail)
      BY <1>2, <2>1, QueuedWrite DEF Q!PushWriteSlot
  <2>3. Q!Contents' = Q!Queued(buffer', head, tail) /\ ~Clearing /\ ~Clearing'
      BY <1>2 DEF Q!Contents, Clearing, Q!PushWriteSlot, Q!Queued, Q!Size, Q!Slot
  <2> QED
      BY <2>2, <2>3 DEF Pending, Clearing, Q!Contents
<1>3. Q!PushWriteSlot \/ (UNCHANGED <<buffer, head, tail>> /\ (Clearing' <=> Clearing))
    BY DEF qVars, RecvPush, RecvFull, RecvClearBegin, HandlePoll, HandleBatch, HandleNothing,
           Q!PushLoadTail, Q!PushRoom, Q!PushFull, Q!ClearBegin, Q!PopLoadHead, Q!PopRetry,
           Q!BatchReloadHead, Q!BatchCount, Q!PopCopySlot, Q!PopEmpty, Q!producerVars, Clearing
<1> QED
    BY <1>1, <1>2, <1>3

\* A push that returns has appended the pool's Buffer ...
LEMMA PendingGrows ==
    ASSUME Threads, QueueInv, ~raced, RecvPushed
    PROVE  Pending' = Append(Pending, pool[First(ready)])
<1>1. /\ buffer \in [Q!Slots -> Buffers \cup {Null}] /\ head \in Q!Slots /\ tail \in Q!Slots
      /\ Q!Slot(tail, 1) # head /\ buffer[tail] = pool[First(ready)]
      /\ buffer' = buffer /\ head' = head /\ tail' = Q!Slot(tail, 1)
    BY DEF RecvPushed, Q!PushPublish, Threads, TypeOK, RingOK, RecvInv, QueueInv
<1>2. Q!Queued(buffer, head, tail') = Append(Q!Queued(buffer, head, tail), buffer[tail])
    BY <1>1, QueuedPublish
<1>3. Q!Contents' = Q!Queued(buffer, head, tail')
    BY <1>1 DEF Q!Contents, Q!Queued, Q!Size, Q!Slot
<1>4. ~Clearing /\ ~Clearing'
    BY DEF RecvPushed, Q!PushPublish, Clearing
<1> QED
    BY <1>1, <1>2, <1>3, <1>4 DEF Pending, Clearing, Q!Contents

\* ... a store of clear() leaves nothing pending ...
LEMMA PendingCleared ==
    ASSUME Threads, QueueInv, ~raced, RecvClear
    PROVE  Pending' = <<>>
<1>1. CASE Clearing'
    BY <1>1 DEF Pending, Clearing
<1>2. CASE ~Clearing'
  <2>1. head' = 0 /\ tail' = 0
      BY <1>2 DEF RecvClear, Q!ClearHead, Q!ClearTail, QueueInv, Clearing
  <2>2. Q!Size(0, 0) = 0
      BY DEF Q!Size
  <2>3. Q!Contents' = <<>>
      BY <2>1, <2>2 DEF Q!Contents, Q!Queued, Q!Size
  <2> QED
      BY <1>2, <2>3 DEF Pending, Clearing
<1> QED
    BY <1>1, <1>2

\* ... and a popBatch that returns has taken a prefix.
LEMMA PendingTaken ==
    ASSUME Threads, QueueInv, ~raced, HandleGot
    PROVE  /\ Len(batch) \in 0 .. Len(Pending)
           /\ todo' = SubSeq(Pending, 1, Len(batch))
           /\ Pending' = SubSeq(Pending, Len(batch) + 1, Len(Pending))
<1>1. /\ buffer \in [Q!Slots -> Buffers \cup {Null}] /\ head \in Q!Slots /\ tail \in Q!Slots
      /\ batch \in Seq(Buffers \cup {Null}) /\ Len(batch) = ccount
      /\ ccount \in 0 .. Q!Size(head, tail)
      /\ \A i \in 1 .. ccount : batch[i] = buffer[Q!Slot(head, i - 1)]
      /\ buffer' = buffer /\ head' = Q!Slot(head, ccount) /\ tail' = tail /\ todo' = batch
  <2>1. Len(batch) \in Nat
      BY LenProperties DEF Threads, TypeOK, RingOK
  <2> QED
      BY <2>1, SizeIn
      DEF HandleGot, Q!PopAdvance, Q!producerVars, Threads, TypeOK, RingOK, QueueInv
<1>2. /\ batch = SubSeq(Q!Queued(buffer, head, tail), 1, ccount)
      /\ Q!Queued(buffer, Q!Slot(head, ccount), tail)
             = SubSeq(Q!Queued(buffer, head, tail), ccount + 1, Q!Size(head, tail))
      /\ Len(Q!Queued(buffer, head, tail)) = Q!Size(head, tail)
  <2>1. PICK s, k : s = batch /\ k = ccount
      OBVIOUS
  <2>2. /\ s \in Seq(Buffers \cup {Null}) /\ Len(s) = k /\ k \in 0 .. Q!Size(head, tail)
        /\ \A i \in 1 .. k : s[i] = buffer[Q!Slot(head, i - 1)]
      BY <1>1, <2>1
  <2>3. /\ s = SubSeq(Q!Queued(buffer, head, tail), 1, k)
        /\ Q!Queued(buffer, Q!Slot(head, k), tail)
               = SubSeq(Q!Queued(buffer, head, tail), k + 1, Q!Size(head, tail))
    <3>1. /\ buffer \in [Q!Slots -> Buffers \cup {Null}]
          /\ head \in Q!Slots /\ tail \in Q!Slots
        BY <1>1
    <3> HIDE DEF Q!Slots
    <3> QED
        BY <2>2, <3>1, QueuedAdvance
  <2>4. Len(Q!Queued(buffer, head, tail)) = Q!Size(head, tail)
      BY <1>1, QueuedIs
  <2> QED
      BY <2>1, <2>3, <2>4
<1>3. ~Clearing /\ ~Clearing'
    BY DEF HandleGot, Q!PopAdvance, Q!producerVars, QueueInv, Clearing
<1>4. Pending = Q!Queued(buffer, head, tail)
    BY <1>3 DEF Pending, Clearing, Q!Contents
<1>5. Pending' = Q!Queued(buffer, Q!Slot(head, ccount), tail)
    BY <1>1, <1>3 DEF Pending, Clearing, Q!Contents, Q!Queued, Q!Size, Q!Slot
<1> QED
    BY <1>1, <1>2, <1>4, <1>5

-----------------------------------------------------------------------------
(* The Buffers and the packets in them, kind of step by kind of step.      *)

\* What is known before a step of every kind.
Unraced == Threads /\ QueueInv /\ OwnedInv /\ OrderInv /\ ~raced

\* Steps in which no Buffer moves and no packet is received or decoded.
LEMMA Quiet ==
    ASSUME Unraced, UNCHANGED <<free, pool, ready, content, received, todo, handled>>,
           Pending' = Pending, hpc' # "crashed", hpc = "recycle" <=> hpc' = "recycle",
           overflowed => overflowed'
    PROVE  OwnedInv' /\ OrderInv'
<1>1. OwnedInv'
    BY DEF Unraced, OwnedInv, InPool, PoolOnce
<1>2. Before' = Before /\ Left' = Left /\ \A k : Place(k)' = Place(k)
    BY DEF Before, Left, Place
<1>3. OrderInv'
    BY <1>2 DEF Unraced, OrderInv, Ascending, Gapless
<1> QED
    BY <1>1, <1>3

\* recv_thread ends, and its pool with it.
LEMMA ExitStep ==
    ASSUME Unraced, RecvExit
    PROVE  OwnedInv' /\ OrderInv'
<1>1. /\ UNCHANGED <<free, ready, content, received, todo, handled, hpc, raced, overflowed>>
      /\ UNCHANGED qVars
      /\ pool' = EmptyPool
    BY DEF RecvExit, ByRecv, handleVars
<1>2. Pending' = Pending
    BY <1>1, PendingKept DEF Unraced
<1>3. InPool' = {} /\ PoolOnce'
    BY <1>1 DEF InPool, PoolOnce, EmptyPool
<1>4. OwnedInv'
    BY <1>1, <1>2, <1>3 DEF Unraced, OwnedInv
<1>5. ready = {} /\ ready' = {}
    BY <1>1 DEF Unraced, Threads, RecvInv, RecvExit
<1>6. Before' = Before /\ Left' = Left
    BY <1>1 DEF Before, Left
<1>7. OrderInv'
    BY <1>1, <1>2, <1>5, <1>6 DEF Unraced, OrderInv, Ascending, Gapless
<1> QED
    BY <1>4, <1>7

\* packetGet() takes a free Buffer, or one that nothing points to.
LEMMA RefillStep ==
    ASSUME Unraced, RecvRefill
    PROVE  OwnedInv' /\ OrderInv'
<1> DEFINE empty == {k \in Pool : pool[k] = Null}
           e == First(empty)
           fresh == CHOOSE b \in Buffers \ Live : TRUE
<1>1. /\ UNCHANGED <<ready, content, received, todo, handled, hpc, raced, overflowed>>
      /\ UNCHANGED qVars
    BY DEF RecvRefill, ByRecv, handleVars
<1>2. Pending' = Pending
    BY <1>1, PendingKept DEF Unraced
<1>3. ready = {} /\ ready' = {}
    BY <1>1 DEF Unraced, Threads, RecvInv, RecvRefill
<1>4. Before' = Before /\ Left' = Left
    BY <1>1 DEF Before, Left
<1>5. OrderInv'
    BY <1>1, <1>2, <1>3, <1>4 DEF Unraced, OrderInv, Ascending, Gapless
<1>6. e \in Pool /\ pool[e] = Null
  <2>1. empty \in SUBSET Pool /\ empty # {}
      BY DEF RecvRefill
  <2> HIDE DEF empty
  <2>2. First(empty) \in empty
      BY <2>1, PlaceIs
  <2> QED
      BY <2>2 DEF empty
<1>7. /\ free \in Seq(Buffers) /\ pool \in [Pool -> Buffers \cup {Null}] /\ Null \notin Buffers
      /\ IsInjective(free) /\ PoolOnce
      /\ ToSet(free) \cap InPool = {} /\ ToSet(free) \cap ToSet(Pending) = {}
      /\ ToSet(free) \cap ToSet(todo) = {} /\ InPool \cap ToSet(Pending) = {}
      /\ InPool \cap ToSet(todo) = {}
    BY PipelineAssumption DEF Unraced, OwnedInv, Threads, TypeOK, RecvOK
<1>8. ASSUME NEW b \in Buffers, pool' = [pool EXCEPT ![e] = b], b \notin InPool
      PROVE  InPool' = InPool \cup {b} /\ PoolOnce'
  <2>1. \A k \in Pool : pool'[k] = IF k = e THEN b ELSE pool[k]
      BY <1>7, <1>8
  <2>2. \A k \in Pool : pool[k] # b
      BY <1>7, <1>8 DEF InPool
  <2>3. PoolOnce'
      BY <1>7, <2>1, <2>2 DEF PoolOnce
  <2>4. InPool' = InPool \cup {b}
      BY <1>6, <1>7, <2>1 DEF InPool
  <2> QED
      BY <2>3, <2>4
<1>9. CASE free # <<>>
  <2>1. /\ pool' = [pool EXCEPT ![e] = Head(free)] /\ free' = Tail(free)
      BY <1>9 DEF RecvRefill
  <2>2. /\ Head(free) \in ToSet(free) /\ Head(free) \in Buffers
        /\ ToSet(free') = ToSet(free) \ {Head(free)} /\ IsInjective(free')
      BY <1>7, <1>9, <2>1, TailOnce
  <2>3. InPool' = InPool \cup {Head(free)} /\ PoolOnce'
      BY <1>7, <1>8, <2>1, <2>2
  <2> QED
      BY <1>1, <1>2, <1>5, <1>7, <2>2, <2>3 DEF Unraced, OwnedInv
<1>10. CASE free = <<>>
  <2>1. /\ pool' = [pool EXCEPT ![e] = fresh] /\ free' = free /\ Buffers \ Live # {}
      BY <1>10 DEF RecvRefill
  <2>2. fresh \in Buffers /\ fresh \notin Live
      BY <2>1
  <2> HIDE DEF fresh
  <2>3. fresh \notin InPool /\ fresh \notin ToSet(free) /\ fresh \notin ToSet(todo)
      BY <2>2 DEF Live, InPool
  <2>4. fresh \notin ToSet(Pending)
    <3>1. \A i \in Q!Slots : fresh # buffer[i]
        BY <2>2 DEF Live
    <3>2. CASE Clearing
        BY <3>2, PendingIs DEF Unraced, ToSet
    <3>3. CASE ~Clearing
      <4>1. /\ buffer \in [Q!Slots -> Buffers \cup {Null}] /\ head \in Q!Slots /\ tail \in Q!Slots
            /\ Pending = Q!Queued(buffer, head, tail)
          BY <3>3, PendingIs DEF Unraced, Threads, TypeOK, RingOK
      <4>2. /\ DOMAIN Pending = 1 .. Q!Size(head, tail)
            /\ \A i \in 1 .. Q!Size(head, tail) : Pending[i] = buffer[Q!Slot(head, i - 1)]
          BY <4>1 DEF Q!Queued
      <4>3. \A i \in 1 .. Q!Size(head, tail) : Q!Slot(head, i - 1) \in Q!Slots
          BY <4>1, SlotIn, SizeIn
      <4> QED
          BY <3>1, <4>2, <4>3 DEF ToSet
    <3> QED
        BY <3>2, <3>3
  <2>5. InPool' = InPool \cup {fresh} /\ PoolOnce'
      BY <1>8, <2>1, <2>2, <2>3
  <2> QED
      BY <1>1, <1>2, <1>5, <1>7, <2>1, <2>3, <2>4, <2>5 DEF Unraced, OwnedInv
<1> QED
    BY <1>9, <1>10

\* recvmmsg numbers the packets it fills the pool with in the order of the slots.
LEMMA MmsgStep ==
    ASSUME Unraced, NEW n \in 0 .. PoolSize, NEW good \in SUBSET (1 .. n), RecvMmsg(n, good)
    PROVE  OwnedInv' /\ OrderInv'
<1>1. /\ UNCHANGED <<free, pool, todo, handled, hpc, raced, overflowed>> /\ UNCHANGED qVars
      /\ ready' = good /\ received' = received + Cardinality(good)
      /\ \A k \in Pool : pool[k] # Null
    BY DEF RecvMmsg, ByRecv, handleVars
<1>2. Pending' = Pending
    BY <1>1, PendingKept DEF Unraced
<1>3. OwnedInv'
    BY <1>1, <1>2 DEF Unraced, OwnedInv, InPool, PoolOnce
<1>4. /\ content \in [Buffers -> Nat] /\ received \in Nat /\ ready = {}
      /\ Pending \in Seq(Buffers) /\ todo \in Seq(Buffers) /\ PoolOnce
      /\ InPool \cap ToSet(Pending) = {} /\ InPool \cap ToSet(todo) = {}
      /\ pool \in [Pool -> Buffers \cup {Null}]
    BY DEF Unraced, OwnedInv, Threads, TypeOK, RecvOK, RecvInv, RecvMmsg
<1>5. good \in SUBSET Pool /\ \A k \in 1 .. n : k \in Pool
  <2>1. n \in Nat /\ n <= PoolSize /\ PoolSize \in Nat
      BY PipelineAssumption
  <2> QED
      BY <2>1 DEF Pool
<1>6. Left' = Left /\ Left = received
  <2>1. IsFiniteSet(good)
    <3>1. IsFiniteSet(Pool)
        BY FS_Interval, PipelineAssumption DEF Pool
    <3> QED
        BY <1>5, <3>1, FS_Subset
  <2>2. Cardinality(good) \in Nat /\ Cardinality(ready) = 0
      BY <1>4, <2>1, FS_CardinalityType, FS_EmptySet
  <2> QED
      BY <1>1, <1>4, <2>2 DEF Left
<1>7. ASSUME NEW b \in Buffers, b \notin InPool PROVE content'[b] = content[b]
  <2>1. \A k \in Pool : pool[k] # b
      BY <1>1, <1>7 DEF InPool
  <2>2. /\ ~\E k \in good : pool[k] = b
        /\ ~\E k \in 1 .. n : pool[k] = b
      BY <1>5, <2>1
  <2> QED
      BY <1>4, <2>2 DEF RecvMmsg
<1>8. ASSUME NEW k \in good PROVE content'[pool[k]] = Left' + Place(k)'
  <2>1. pool[k] \in Buffers
      BY <1>1, <1>4, <1>5
  <2>2. \A i \in good : pool[i] = pool[k] => i = k
      BY <1>1, <1>4, <1>5 DEF PoolOnce
  <2>3. {j \in good : \E i \in good : pool[i] = pool[k] /\ j <= i} = {j \in good : j <= k}
      BY <2>2
  <2>4. content'[pool[k]]
          = received + Cardinality({j \in good : \E i \in good : pool[i] = pool[k] /\ j <= i})
      BY <1>4, <2>1 DEF RecvMmsg
  <2>5. Place(k)' = Cardinality({j \in good : j <= k})
      BY <1>1 DEF Place
  <2> QED
      BY <1>6, <2>3, <2>4, <2>5
<1>9. /\ \A i \in 1 .. Len(todo) : content'[todo[i]] = content[todo[i]]
      /\ \A i \in 1 .. Len(Pending) : content'[Pending[i]] = content[Pending[i]]
  <2>1. /\ \A i \in 1 .. Len(todo) : todo[i] \in Buffers /\ todo[i] \in ToSet(todo)
        /\ \A i \in 1 .. Len(Pending) : Pending[i] \in Buffers /\ Pending[i] \in ToSet(Pending)
      BY <1>4, ElementOfSeq, LenProperties DEF ToSet
  <2> QED
      BY <1>4, <1>7, <2>1
<1>10. Before' = Before
    BY <1>1 DEF Before
<1>11. Ascending' /\ (Gapless => Gapless')
    BY <1>1, <1>2, <1>6, <1>9, <1>10 DEF Unraced, OrderInv, Ascending, Gapless
<1>12. hpc = "recycle" => content'[Head(todo)] = handled
  <2> SUFFICES ASSUME hpc = "recycle" PROVE content'[Head(todo)] = handled
      OBVIOUS
  <2>1. todo # <<>> /\ content[Head(todo)] = handled
      BY DEF Unraced, Threads, HandleInv, OrderInv
  <2>2. Head(todo) = todo[1] /\ 1 \in 1 .. Len(todo)
      BY <1>4, <2>1, HeadTailProperties
  <2> QED
      BY <1>9, <2>1, <2>2
<1>13. \A k \in ready' : content'[pool'[k]] = Left' + Place(k)'
    BY <1>1, <1>8
<1> QED
    BY <1>1, <1>3, <1>11, <1>12, <1>13 DEF Unraced, OrderInv

\* The pool and the places of its packets, when the first of them leaves it.
LEMMA PushedIs ==
    ASSUME Unraced, Pushed, rpc \in {"push", "overflow"}, UNCHANGED <<content, received>>
    PROVE  LET b == pool[First(ready)]
           IN  /\ b \in Buffers /\ b \in InPool /\ InPool' = InPool \ {b} /\ PoolOnce'
               /\ content \in [Buffers -> Nat] /\ content[b] = Left + 1
               /\ Left \in Int /\ Left' = Left + 1
               /\ \A k \in ready' : content'[pool'[k]] = Left' + Place(k)'
<1> DEFINE f == First(ready)
           b == pool[f]
<1>1. /\ ready # {} /\ ready \in SUBSET Pool /\ \A k \in ready : pool[k] \in Buffers
      /\ pool \in [Pool -> Buffers \cup {Null}] /\ Null \notin Buffers /\ PoolOnce
      /\ content \in [Buffers -> Nat] /\ received \in Nat
      /\ \A k \in ready : content[pool[k]] = Left + Place(k)
    BY PipelineAssumption DEF Unraced, Threads, TypeOK, RecvOK, RecvInv, OwnedInv, OrderInv
<1>2. /\ f \in ready /\ Cardinality(ready) \in Nat \ {0}
      /\ Cardinality(ready \ {f}) = Cardinality(ready) - 1
      /\ Place(f) = 1
      /\ \A k \in ready \ {f} :
            Cardinality({j \in ready \ {f} : j <= k}) = Place(k) - 1
    BY <1>1, PlaceIs DEF Place
<1>3. pool' = [pool EXCEPT ![f] = Null] /\ ready' = ready \ {f}
    BY DEF Pushed
<1> HIDE DEF f
<1>4. b \in Buffers /\ b \in InPool
    BY <1>1, <1>2 DEF InPool
<1>5. \A k \in Pool : pool'[k] = IF k = f THEN Null ELSE pool[k]
    BY <1>1, <1>3
<1>6. InPool' = InPool \ {b} /\ PoolOnce'
  <2>1. \A k \in Pool : k # f => pool[k] # b
      BY <1>1, <1>2, <1>4 DEF PoolOnce
  <2>2. InPool' = InPool \ {b}
      BY <1>2, <1>5, <2>1 DEF InPool
  <2> QED
      BY <1>1, <1>5, <2>2 DEF PoolOnce
<1>7. Left \in Int /\ Left' = Left + 1 /\ content[b] = Left + 1
  <2>1. content[b] = Left + Place(f)
      BY <1>1, <1>2
  <2>2. Left = received - Cardinality(ready) /\ Left' = received - Cardinality(ready \ {f})
      BY <1>3 DEF Left
  <2> QED
      BY <1>1, <1>2, <2>1, <2>2
<1>8. ASSUME NEW k \in ready' PROVE content'[pool'[k]] = Left' + Place(k)'
  <2>1. k \in ready /\ k # f /\ pool'[k] = pool[k]
      BY <1>1, <1>3, <1>5, <1>8
  <2>2. Place(k)' = Place(k) - 1
      BY <1>2, <1>3, <2>1 DEF Place
  <2>3. Place(k) \in Int
    <3>1. content[pool[k]] \in Nat /\ IsFiniteSet(ready)
        BY <1>1, <2>1, PlaceIs
    <3>2. Cardinality({j \in ready : j <= k}) \in Nat
        BY <3>1, FS_Subset, FS_CardinalityType
    <3> QED
        BY <3>2 DEF Place
  <2>4. content[pool[k]] = Left + Place(k)
      BY <1>1, <2>1
  <2> QED
      BY <1>7, <2>1, <2>2, <2>3, <2>4
<1> QED
    BY <1>1, <1>4, <1>6, <1>7, <1>8 DEF f

\* The first packet of the pool becomes the last one pending.
LEMMA PushedStep ==
    ASSUME Unraced, RecvPushed
    PROVE  OwnedInv' /\ OrderInv'
<1> DEFINE b == pool[First(ready)]
<1>1. /\ UNCHANGED <<free, content, received, todo, handled, hpc, raced, overflowed>>
      /\ Pushed /\ rpc = "push"
    BY DEF RecvPushed, ByRecv, handleVars
<1>2. Pending' = Append(Pending, b)
    BY PendingGrows DEF Unraced
<1>3. /\ b \in Buffers /\ b \in InPool /\ InPool' = InPool \ {b} /\ PoolOnce'
      /\ content \in [Buffers -> Nat] /\ content[b] = Left + 1
      /\ Left \in Int /\ Left' = Left + 1
      /\ \A k \in ready' : content'[pool'[k]] = Left' + Place(k)'
    BY <1>1, PushedIs
<1> HIDE DEF b
<1>4. /\ Pending \in Seq(Buffers) /\ todo \in Seq(Buffers)
      /\ IsInjective(Pending) /\ b \notin ToSet(Pending)
    BY <1>3 DEF Unraced, OwnedInv
<1>5. IsInjective(Pending') /\ ToSet(Pending') = ToSet(Pending) \cup {b}
    BY <1>2, <1>3, <1>4, AppendOnce
<1>6. /\ Pending' \in Seq(Buffers) /\ Len(Pending) \in Nat /\ Len(Pending') = Len(Pending) + 1
      /\ Pending'[Len(Pending) + 1] = b
      /\ \A i \in 1 .. Len(Pending) : Pending'[i] = Pending[i]
    BY <1>2, <1>3, <1>4, AppendProperties, LenProperties
<1>7. OwnedInv'
    BY <1>1, <1>3, <1>5, <1>6 DEF Unraced, OwnedInv
<1>8. Before' = Before /\ handled \in Nat /\ Before \in Int /\ Len(todo) \in Nat
    BY <1>1, <1>4, LenProperties DEF Before, Unraced, Threads, TypeOK, HandleOK
<1>9. /\ \A i \in 1 .. Len(todo) : content[todo[i]] \in Nat
      /\ \A i \in 1 .. Len(Pending) : content[Pending[i]] \in Nat
    BY <1>3, <1>4, ElementOfSeq
<1>10. Ascending /\ (~overflowed => Gapless)
    BY DEF Unraced, OrderInv
<1>11. ASSUME NEW i \in 1 .. Len(todo)
       PROVE  /\ Before' < content'[todo'[i]] /\ content'[todo'[i]] <= Left'
              /\ \A j \in 1 .. Len(todo') : i < j => content'[todo'[i]] < content'[todo'[j]]
    BY <1>1, <1>3, <1>8, <1>9, <1>10 DEF Ascending
<1>12. ASSUME NEW i \in 1 .. Len(Pending')
       PROVE  /\ handled' < content'[Pending'[i]] /\ content'[Pending'[i]] <= Left'
              /\ \A j \in 1 .. Len(todo') : content'[todo'[j]] < content'[Pending'[i]]
              /\ \A j \in 1 .. Len(Pending') :
                    i < j => content'[Pending'[i]] < content'[Pending'[j]]
  <2>1. CASE i \in 1 .. Len(Pending)
    <3>1. \A j \in 1 .. Len(Pending') : j \in 1 .. Len(Pending) \/ j = Len(Pending) + 1
        BY <1>6
    <3>2. Pending'[i] = Pending[i] /\ content[Pending[i]] \in Nat
        BY <1>6, <1>9, <2>1
    <3>3. handled < content[Pending[i]] /\ content[Pending[i]] <= Left
        BY <1>10, <2>1 DEF Ascending
    <3>4. \A j \in 1 .. Len(todo) : content[todo[j]] < content[Pending[i]]
        BY <1>10, <2>1 DEF Ascending
    <3>5. ASSUME NEW j \in 1 .. Len(Pending'), i < j
          PROVE  content[Pending[i]] < content[Pending'[j]]
      <4>1. CASE j \in 1 .. Len(Pending)
          BY <1>6, <1>10, <2>1, <3>5, <4>1 DEF Ascending
      <4>2. CASE j = Len(Pending) + 1
          BY <1>3, <1>6, <3>2, <3>3, <4>2
      <4> QED
          BY <3>1, <4>1, <4>2
    <3>6. content[Pending[i]] <= Left'
        BY <1>3, <3>2, <3>3
    <3> QED
        BY <1>1, <3>2, <3>3, <3>4, <3>5, <3>6
  <2>2. CASE i = Len(Pending) + 1
    <3>1. content'[Pending'[i]] = Left + 1 /\ ~\E j \in 1 .. Len(Pending') : i < j
        BY <1>1, <1>3, <1>6, <2>2
    <3> QED
        BY <1>1, <1>3, <1>8, <1>9, <1>10, <3>1 DEF Ascending
  <2> QED
      BY <1>6, <2>1, <2>2
<1>13. Ascending'
  <2>1. handled' <= Left'
      BY <1>1, <1>3, <1>8, <1>10 DEF Ascending
  <2> QED
      BY <1>1, <1>11, <1>12, <2>1 DEF Ascending
<1>14. Gapless => Gapless'
  <2> SUFFICES ASSUME Gapless PROVE Gapless'
      OBVIOUS
  <2>1. Left' = Before' + Len(todo') + Len(Pending')
      BY <1>1, <1>3, <1>6, <1>8 DEF Gapless
  <2>2. \A i \in 1 .. Len(Pending') : content'[Pending'[i]] = Before' + Len(todo') + i
    <3>1. ASSUME NEW i \in 1 .. Len(Pending')
          PROVE  content'[Pending'[i]] = Before' + Len(todo') + i
      <4>1. CASE i \in 1 .. Len(Pending)
          BY <1>1, <1>6, <1>8, <4>1 DEF Gapless
      <4>2. CASE i = Len(Pending) + 1
          BY <1>1, <1>3, <1>6, <1>8, <4>2 DEF Gapless
      <4> QED
          BY <1>6, <4>1, <4>2
    <3> QED
        BY <3>1
  <2> QED
      BY <1>1, <1>8, <2>1, <2>2 DEF Gapless
<1>15. hpc' = "recycle" => content'[Head(todo')] = handled'
    BY <1>1 DEF Unraced, OrderInv
<1> QED
    BY <1>1, <1>3, <1>7, <1>10, <1>13, <1>14, <1>15 DEF OrderInv

\* An overflow drops what is pending and the packet that found no room.
LEMMA ClearStep ==
    ASSUME Unraced, RecvClear
    PROVE  OwnedInv' /\ OrderInv'
<1>1. /\ UNCHANGED <<free, content, received, todo, handled, hpc, overflowed>>
      /\ rpc = "overflow" /\ overflowed' /\ Pending' = <<>>
    BY PendingCleared DEF RecvClear, ByRecv, handleVars, Unraced, Threads, RecvInv
<1>2. /\ Pending' \in Seq(Buffers) /\ Len(Pending') = 0
      /\ IsInjective(Pending') /\ ToSet(Pending') = {}
    BY <1>1 DEF IsInjective, ToSet
<1>3. Before' = Before /\ handled \in Nat
    BY <1>1 DEF Before, Unraced, Threads, TypeOK, HandleOK
<1>4. /\ \A i \in 1 .. Len(todo) : content[todo[i]] \in Nat
      /\ received \in Nat /\ Ascending
  <2>1. content \in [Buffers -> Nat] /\ todo \in Seq(Buffers) /\ received \in Nat /\ Ascending
      BY DEF Unraced, Threads, TypeOK, RecvOK, OwnedInv, OrderInv
  <2> QED
      BY <2>1, ElementOfSeq
<1>5. CASE ppc' = "idle"
  <2> DEFINE b == pool[First(ready)]
  <2>1. Pushed
      BY <1>5 DEF RecvClear
  <2>2. /\ InPool' = InPool \ {b} /\ PoolOnce'
        /\ Left \in Int /\ Left' = Left + 1
        /\ \A k \in ready' : content'[pool'[k]] = Left' + Place(k)'
      BY <1>1, <2>1, PushedIs
  <2> HIDE DEF b
  <2>3. OwnedInv'
      BY <1>1, <1>2, <2>2 DEF Unraced, OwnedInv
  <2>4. Ascending'
      BY <1>1, <1>2, <1>3, <1>4, <2>2 DEF Ascending
  <2> QED
      BY <1>1, <2>2, <2>3, <2>4 DEF Unraced, OrderInv
<1>6. CASE UNCHANGED <<pool, ready>>
  <2>1. Left' = Left /\ \A k : Place(k)' = Place(k)
      BY <1>1, <1>6 DEF Left, Place
  <2>2. OwnedInv'
      BY <1>1, <1>2, <1>6 DEF Unraced, OwnedInv, InPool, PoolOnce
  <2>3. Ascending'
      BY <1>1, <1>2, <1>3, <1>4, <2>1 DEF Ascending
  <2> QED
      BY <1>1, <1>6, <2>1, <2>2, <2>3 DEF Unraced, OrderInv
<1> QED
    BY <1>5, <1>6 DEF RecvClear

\* popBatch returns: a prefix of what was pending is to be decoded.
LEMMA GotStep ==
    ASSUME Unraced, HandleGot
    PROVE  OwnedInv' /\ OrderInv'
<1> DEFINE m == Len(batch)
           L == Len(Pending)
<1>1. /\ UNCHANGED <<free, pool, ready, content, received, handled, overflowed, raced>>
      /\ hpc = "batch" /\ hpc' \in {"loop", "decode"} /\ todo = <<>>
    BY DEF HandleGot, ByHandle, recvVars, Unraced, Threads, HandleInv
<1>2. m \in 0 .. L /\ todo' = SubSeq(Pending, 1, m) /\ Pending' = SubSeq(Pending, m + 1, L)
    BY PendingTaken DEF Unraced
<1>3. Pending \in Seq(Buffers) /\ IsInjective(Pending) /\ L \in Nat
    BY LenProperties DEF Unraced, OwnedInv
<1> HIDE DEF m
<1>4. /\ todo' \in Seq(Buffers) /\ Len(todo') = m /\ \A i \in 1 .. m : todo'[i] = Pending[i]
      /\ Pending' \in Seq(Buffers) /\ Len(Pending') = L - m
      /\ \A i \in 1 .. L - m : Pending'[i] = Pending[m + i]
      /\ IsInjective(todo') /\ IsInjective(Pending')
      /\ ToSet(todo') \subseteq ToSet(Pending) /\ ToSet(Pending') \subseteq ToSet(Pending)
      /\ ToSet(todo') \cap ToSet(Pending') = {}
  <2> DEFINE a == SubSeq(Pending, 1, m)
             b == SubSeq(Pending, m + 1, Len(Pending))
  <2>1. /\ a \in Seq(Buffers) /\ Len(a) = m /\ \A i \in 1 .. m : a[i] = Pending[i]
        /\ b \in Seq(Buffers) /\ Len(b) = Len(Pending) - m
        /\ \A i \in 1 .. Len(Pending) - m : b[i] = Pending[m + i]
        /\ IsInjective(a) /\ IsInjective(b)
        /\ ToSet(a) \subseteq ToSet(Pending) /\ ToSet(b) \subseteq ToSet(Pending)
        /\ ToSet(a) \cap ToSet(b) = {}
    <3>1. Pending \in Seq(Buffers) /\ IsInjective(Pending) /\ m \in 0 .. Len(Pending)
        BY <1>2, <1>3
    <3> QED
        BY ONLY <3>1, SplitOnce
  <2>2. todo' = a /\ Pending' = b
      BY <1>2
  <2> HIDE DEF a, b
  <2> QED
      BY <2>1, <2>2
<1>5. OwnedInv'
  <2>1. InPool' = InPool /\ (PoolOnce => PoolOnce')
      BY <1>1 DEF InPool, PoolOnce
  <2> QED
      BY <1>1, <1>4, <2>1 DEF Unraced, OwnedInv
<1>6. /\ Before' = handled /\ Before = handled /\ Left' = Left /\ handled \in Nat
      /\ Len(todo) = 0
      /\ \A k : Place(k)' = Place(k)
    BY <1>1 DEF Before, Left, Place, Unraced, Threads, TypeOK, HandleOK
<1>7. Ascending /\ (~overflowed => Gapless) /\ \A i \in 1 .. L : content[Pending[i]] \in Nat
    BY <1>3, ElementOfSeq DEF Unraced, OrderInv, Threads, TypeOK, RecvOK
<1> HIDE DEF L
<1>8. m \in Nat /\ m <= L /\ L \in Nat
    BY <1>2, <1>3
<1>9. Ascending'
  <2>1. \A i, j \in 1 .. L : i < j => content[Pending[i]] < content[Pending[j]]
      BY <1>7 DEF Ascending, L
  <2>2. \A i \in 1 .. L : handled < content[Pending[i]] /\ content[Pending[i]] <= Left
      BY <1>7 DEF Ascending, L
  <2>3. /\ \A i \in 1 .. m : i \in 1 .. L
        /\ \A i \in 1 .. L - m : m + i \in 1 .. L
        /\ \A i \in 1 .. m, j \in 1 .. L - m : i < m + j
        /\ \A i, j \in 1 .. L - m : i < j => m + i < m + j
      BY <1>8
  <2>4. ASSUME NEW i \in 1 .. m
        PROVE  /\ handled < content[todo'[i]] /\ content[todo'[i]] <= Left
               /\ \A j \in 1 .. m : i < j => content[todo'[i]] < content[todo'[j]]
      BY <1>4, <2>1, <2>2, <2>3
  <2>5. ASSUME NEW i \in 1 .. L - m
        PROVE  /\ handled < content[Pending'[i]] /\ content[Pending'[i]] <= Left
               /\ \A j \in 1 .. m : content[todo'[j]] < content[Pending'[i]]
               /\ \A j \in 1 .. L - m : i < j => content[Pending'[i]] < content[Pending'[j]]
      BY <1>4, <2>1, <2>2, <2>3
  <2> QED
      BY <1>1, <1>4, <1>6, <1>7, <2>4, <2>5 DEF Ascending
<1>10. Gapless => Gapless'
  <2> SUFFICES ASSUME Gapless PROVE Gapless'
      OBVIOUS
  <2>1. \A i \in 1 .. L : content[Pending[i]] = handled + i
      BY <1>6 DEF Gapless, L
  <2>2. Left = handled + L
      BY <1>3, <1>6 DEF Gapless, L
  <2>3. \A i \in 1 .. m : content[todo'[i]] = handled + i
      BY <1>4, <1>8, <2>1
  <2>4. \A i \in 1 .. L - m : content[Pending'[i]] = handled + m + i
    <3>1. \A i \in 1 .. L - m : m + i \in 1 .. L
        BY <1>8
    <3>2. \A i \in 1 .. L - m : handled + (m + i) = handled + m + i
        BY <1>6, <1>8
    <3>3. \A i \in 1 .. L - m : content[Pending[m + i]] = handled + (m + i)
        BY <2>1, <3>1
    <3> QED
        BY <1>4, <3>2, <3>3
  <2>5. Left' = handled + m + (L - m)
      BY <1>6, <1>8, <2>2
  <2> QED
      BY <1>1, <1>4, <1>6, <2>3, <2>4, <2>5 DEF Gapless
<1> QED
    BY <1>1, <1>5, <1>6, <1>7, <1>9, <1>10 DEF Unraced, OrderInv

\* What is left to decode, and its first packet.
LEMMA TodoIs ==
    ASSUME Unraced, hpc \in {"decode", "recycle"}
    PROVE  /\ todo \in Seq(Buffers) /\ Len(todo) \in Nat \ {0} /\ Head(todo) = todo[1]
           /\ Head(todo) \in Buffers /\ Head(todo) \in ToSet(todo)
           /\ Tail(todo) \in Seq(Buffers) /\ Len(Tail(todo)) = Len(todo) - 1
           /\ \A i \in 1 .. Len(todo) - 1 : Tail(todo)[i] = todo[i + 1]
           /\ IsInjective(Tail(todo)) /\ ToSet(Tail(todo)) = ToSet(todo) \ {Head(todo)}
           /\ \A i \in 1 .. Len(todo) : content[todo[i]] \in Nat
           /\ \A i \in 1 .. Len(Pending) : content[Pending[i]] \in Nat
           /\ Len(Pending) \in Nat /\ handled \in Nat /\ Ascending /\ (~overflowed => Gapless)
<1>1. /\ todo \in Seq(Buffers) /\ IsInjective(todo) /\ todo # <<>>
      /\ content \in [Buffers -> Nat] /\ Pending \in Seq(Buffers)
      /\ handled \in Nat /\ Ascending /\ (~overflowed => Gapless)
    BY DEF Unraced, Threads, TypeOK, RecvOK, HandleOK, HandleInv, OwnedInv, OrderInv
<1>2. /\ Tail(todo) \in Seq(Buffers) /\ IsInjective(Tail(todo))
      /\ Head(todo) \in ToSet(todo) /\ Head(todo) \in Buffers
      /\ ToSet(Tail(todo)) = ToSet(todo) \ {Head(todo)}
      /\ Len(todo) \in Nat \ {0} /\ Len(Tail(todo)) = Len(todo) - 1 /\ Head(todo) = todo[1]
      /\ \A i \in 1 .. Len(Tail(todo)) : Tail(todo)[i] = todo[i + 1]
    BY ONLY <1>1, TailOnce
<1>3. /\ \A i \in 1 .. Len(todo) : content[todo[i]] \in Nat
      /\ \A i \in 1 .. Len(Pending) : content[Pending[i]] \in Nat
    BY <1>1, ElementOfSeq
<1>4. Len(Pending) \in Nat
    BY <1>1, LenProperties
<1> QED
    BY <1>1, <1>2, <1>3, <1>4

\* The first packet to decode is a later one than the last, the next one without
\* an overflow, and is not null.
LEMMA DecodeStep ==
    ASSUME Unraced, HandleDecode
    PROVE  /\ OwnedInv' /\ OrderInv'
           /\ handled' > handled /\ (~overflowed => handled' = handled + 1)
<1>1. /\ UNCHANGED <<free, pool, ready, content, received, todo, overflowed, raced>>
      /\ UNCHANGED qVars /\ hpc = "decode"
    BY DEF HandleDecode, ByHandle, recvVars
<1>2. /\ Len(todo) \in Nat \ {0} /\ Head(todo) = todo[1] /\ Head(todo) \in Buffers
      /\ \A i \in 1 .. Len(todo) : content[todo[i]] \in Nat
      /\ \A i \in 1 .. Len(Pending) : content[Pending[i]] \in Nat
      /\ Len(Pending) \in Nat /\ handled \in Nat /\ Ascending /\ (~overflowed => Gapless)
    BY <1>1, TodoIs
<1>3. hpc' = "recycle" /\ handled' = content[todo[1]]
    BY <1>2, PipelineAssumption DEF HandleDecode
<1>4. Pending' = Pending
    BY <1>1, PendingKept DEF Unraced
<1>5. OwnedInv'
    BY <1>1, <1>3, <1>4 DEF Unraced, OwnedInv, InPool, PoolOnce
<1>6. Before = handled /\ Before' = handled' - 1 /\ Left' = Left /\ \A k : Place(k)' = Place(k)
    BY <1>1, <1>3 DEF Before, Left, Place
<1>7. handled < handled' /\ handled' <= Left /\ handled' \in Nat /\ 1 \in 1 .. Len(todo)
    BY <1>2, <1>3, <1>6 DEF Ascending
<1>8. Ascending'
  <2>1. ASSUME NEW i \in 1 .. Len(todo)
        PROVE  /\ Before' < content[todo[i]] /\ content[todo[i]] <= Left
               /\ \A j \in 1 .. Len(todo) : i < j => content[todo[i]] < content[todo[j]]
    <3>1. /\ content[todo[i]] <= Left
          /\ \A j \in 1 .. Len(todo) : i < j => content[todo[i]] < content[todo[j]]
        BY <1>2 DEF Ascending
    <3>2. i = 1 \/ content[todo[1]] < content[todo[i]]
        BY <1>2, <1>7 DEF Ascending
    <3>3. Before' < content[todo[i]]
        BY <1>2, <1>3, <1>6, <1>7, <3>2
    <3> QED
        BY <3>1, <3>3
  <2>2. ASSUME NEW i \in 1 .. Len(Pending)
        PROVE  /\ handled' < content[Pending[i]] /\ content[Pending[i]] <= Left
               /\ \A j \in 1 .. Len(todo) : content[todo[j]] < content[Pending[i]]
               /\ \A j \in 1 .. Len(Pending) : i < j => content[Pending[i]] < content[Pending[j]]
      BY <1>2, <1>3, <1>7 DEF Ascending
  <2> QED
      BY <1>1, <1>4, <1>6, <1>7, <2>1, <2>2 DEF Ascending
<1>9. ASSUME Gapless PROVE Gapless' /\ handled' = handled + 1
  <2>1. handled' = Before + 1
      BY <1>3, <1>7, <1>9 DEF Gapless
  <2>2. Before' = Before /\ handled' = handled + 1
      BY <1>2, <1>6, <2>1
  <2> QED
      BY <1>1, <1>4, <1>6, <1>9, <2>2 DEF Gapless
<1>10. OrderInv'
    BY <1>1, <1>2, <1>3, <1>6, <1>8, <1>9 DEF Unraced, OrderInv
<1> QED
    BY <1>2, <1>5, <1>7, <1>9, <1>10

\* Its Buffer is free again, or dropped.
LEMMA RecycleStep ==
    ASSUME Unraced, HandleRecycle
    PROVE  OwnedInv' /\ OrderInv'
<1> DEFINE b == Head(todo)
<1>1. /\ UNCHANGED <<pool, ready, content, received, handled, overflowed, raced>>
      /\ UNCHANGED qVars /\ hpc = "recycle" /\ hpc' \in {"loop", "decode"} /\ todo' = Tail(todo)
    BY DEF HandleRecycle, ByHandle, recvVars
<1>2. /\ Len(todo) \in Nat \ {0} /\ b = todo[1] /\ b \in Buffers /\ b \in ToSet(todo)
      /\ todo' \in Seq(Buffers) /\ Len(todo') = Len(todo) - 1
      /\ \A i \in 1 .. Len(todo) - 1 : todo'[i] = todo[i + 1]
      /\ IsInjective(todo') /\ ToSet(todo') = ToSet(todo) \ {b}
      /\ \A i \in 1 .. Len(todo) : content[todo[i]] \in Nat
      /\ \A i \in 1 .. Len(Pending) : content[Pending[i]] \in Nat
      /\ Len(Pending) \in Nat /\ handled \in Nat /\ Ascending /\ (~overflowed => Gapless)
    BY <1>1, TodoIs
<1>3. Pending' = Pending
    BY <1>1, PendingKept DEF Unraced
<1> HIDE DEF b
<1>4. /\ free \in Seq(Buffers) /\ IsInjective(free) /\ b \notin ToSet(free)
      /\ b \notin InPool /\ b \notin ToSet(Pending)
    BY <1>2 DEF Unraced, OwnedInv, Threads, TypeOK, RecvOK
<1>5. IsInjective(free') /\ ToSet(free') \subseteq ToSet(free) \cup {b}
  <2>1. free' = Append(free, b) \/ free' = free
      BY DEF HandleRecycle, b
  <2>2. IsInjective(Append(free, b)) /\ ToSet(Append(free, b)) = ToSet(free) \cup {b}
      BY ONLY <1>2, <1>4, AppendOnce
  <2> QED
      BY <1>4, <2>1, <2>2
<1>6. OwnedInv'
  <2>1. InPool' = InPool /\ (PoolOnce => PoolOnce')
      BY <1>1 DEF InPool, PoolOnce
  <2> QED
      BY <1>1, <1>2, <1>3, <1>4, <1>5, <2>1 DEF Unraced, OwnedInv
<1>7. Before = handled - 1 /\ Before' = handled /\ Left' = Left /\ \A k : Place(k)' = Place(k)
    BY <1>1 DEF Before, Left, Place
<1>8. content[todo[1]] = handled /\ 1 \in 1 .. Len(todo)
    BY <1>1, <1>2 DEF Unraced, OrderInv
<1>9. \A i \in 1 .. Len(todo) - 1 : i + 1 \in 1 .. Len(todo) /\ 1 < i + 1
    BY <1>2
<1>10. Ascending'
  <2>1. ASSUME NEW i \in 1 .. Len(todo) - 1
        PROVE  /\ handled < content[todo[i + 1]] /\ content[todo[i + 1]] <= Left
               /\ \A j \in 1 .. Len(todo) - 1 :
                     i < j => content[todo[i + 1]] < content[todo[j + 1]]
    <3>1. \A j \in 1 .. Len(todo) - 1 : i < j => i + 1 < j + 1
        OBVIOUS
    <3> QED
        BY <1>2, <1>8, <1>9, <3>1 DEF Ascending
  <2>2. ASSUME NEW i \in 1 .. Len(Pending)
        PROVE  \A j \in 1 .. Len(todo) - 1 : content[todo[j + 1]] < content[Pending[i]]
      BY <1>2, <1>9 DEF Ascending
  <2> QED
      BY <1>1, <1>2, <1>3, <1>7, <2>1, <2>2 DEF Ascending
<1>11. ASSUME Gapless PROVE Gapless'
  <2>1. \A i \in 1 .. Len(todo) - 1 : content[todo[i + 1]] = handled + i
    <3>1. \A i \in 1 .. Len(todo) - 1 : content[todo[i + 1]] = Before + (i + 1)
        BY <1>9, <1>11 DEF Gapless
    <3>2. handled \in Int
        BY <1>2
    <3>3. PICK H : H = handled /\ H \in Int /\ Before = H - 1
        BY <1>7, <3>2
    <3>4. ASSUME NEW i \in 1 .. Len(todo) - 1 PROVE content[todo[i + 1]] = H + i
      <4>1. content[todo[i + 1]] = Before + (i + 1) /\ i \in Int
          BY <3>1
      <4> QED
          BY <3>3, <4>1
    <3> QED
        BY <3>3, <3>4
  <2>2. \A i \in 1 .. Len(Pending) : content[Pending[i]] = handled + (Len(todo) - 1) + i
    <3>1. \A i \in 1 .. Len(Pending) : content[Pending[i]] = Before + Len(todo) + i
        BY <1>11 DEF Gapless
    <3> QED
        BY <1>2, <1>7, <3>1
  <2>3. Left = handled + (Len(todo) - 1) + Len(Pending)
      BY <1>2, <1>7, <1>11 DEF Gapless
  <2> QED
      BY <1>1, <1>2, <1>3, <1>7, <2>1, <2>2, <2>3 DEF Gapless
<1>12. OrderInv'
    BY <1>1, <1>2, <1>7, <1>10, <1>11 DEF Unraced, OrderInv
<1> QED
    BY <1>6, <1>12

-----------------------------------------------------------------------------
(* The invariant.                                                          *)

\* Every step is of one of these kinds.
LEMMA DataStep ==
    ASSUME Unraced, [Next]_vars, ~raced'
    PROVE  OwnedInv' /\ OrderInv'
<1>1. hpc # "crashed"
    BY DEF Unraced, OwnedInv
<1>2. CASE \/ User \/ RecvReadable \/ RecvPush \/ RecvFull \/ RecvClearBegin
           \/ HandleExit \/ HandlePoll \/ HandleBatch \/ HandleNothing \/ UNCHANGED vars
  <2>1. /\ UNCHANGED <<free, pool, ready, content, received, todo, handled>>
        /\ hpc' # "crashed"
      BY <1>1, <1>2
      DEF User, Start, StopRecv, StopHandle, StopDone, RecvReadable, RecvPush, RecvFull,
          RecvClearBegin, HandleExit, HandlePoll, HandleBatch, HandleNothing, vars, ByRecv,
          ByHandle, recvVars, handleVars
  <2>2. hpc = "recycle" <=> hpc' = "recycle"
      BY <1>2
      DEF User, Start, StopRecv, StopHandle, StopDone, RecvReadable, RecvPush, RecvFull,
          RecvClearBegin, HandleExit, HandlePoll, HandleBatch, HandleNothing, vars, ByRecv,
          ByHandle, recvVars, handleVars, Unraced, Threads, UserInv
  <2>3. \/ UNCHANGED qVars \/ RecvPush \/ RecvFull \/ RecvClearBegin
        \/ HandlePoll \/ HandleBatch \/ HandleNothing
      BY <1>2 DEF User, Start, StopRecv, StopHandle, StopDone, RecvReadable, HandleExit, vars
  <2>4. Pending' = Pending
      BY <2>3, PendingKept DEF Unraced
  <2> QED
      BY <2>1, <2>2, <2>4, HistoryStep, Quiet
<1>3. CASE \E n \in 0 .. PoolSize : \E good \in SUBSET (1 .. n) : RecvMmsg(n, good)
    BY <1>3, MmsgStep
<1> QED
    BY <1>2, <1>3, ExitStep, RefillStep, PushedStep, ClearStep, GotStep, DecodeStep, RecycleStep
    DEF Next, Recv, Handle, Ended

\* Before the first start() nothing is anywhere.
LEMMA InitInv == Init => IInv
<1> SUFFICES ASSUME Init PROVE IInv
    OBVIOUS
<1> USE DEF Init, Q!Init
<1>1. 0 \in Q!Slots
    BY PipelineAssumption DEF Q!Slots
<1>2. /\ <<>> \in Seq(Buffers) /\ <<>> \in Seq(Buffers \cup {Null})
      /\ ToSet(<<>>) = {} /\ IsInjective(<<>>) /\ Len(<<>>) = 0
    BY DEF ToSet, IsInjective
<1>3. TypeOK
    BY <1>1, <1>2 DEF TypeOK, RingOK, RecvOK, HandleOK
<1>4. RecvInv /\ HandleInv /\ UserInv /\ QueueInv
    BY <1>1 DEF RecvInv, HandleInv, UserInv, QueueInv, Clearing
<1>5. Pending = <<>>
  <2>1. Q!Size(0, 0) = 0
      BY DEF Q!Size
  <2> QED
      BY <2>1 DEF Pending, Q!Contents, Q!Queued
<1>6. OwnedInv
    BY <1>2, <1>5 DEF OwnedInv, InPool, PoolOnce, EmptyPool
<1>7. OrderInv
  <2>1. Left = 0 /\ Before = 0
      BY FS_EmptySet DEF Left, Before
  <2> QED
      BY <1>2, <1>5, <2>1 DEF OrderInv, Ascending, Gapless
<1> QED
    BY <1>3, <1>4, <1>6, <1>7 DEF IInv

\* Every step keeps the invariant; nothing is said of the Buffers once raced.
LEMMA NextInv == IInv /\ [Next]_vars => IInv'
<1> SUFFICES ASSUME IInv, [Next]_vars PROVE IInv'
    OBVIOUS
<1>1. Threads
    BY DEF IInv, Threads
<1>2. Threads' /\ QueueInv'
    BY <1>1, ThreadsStep, QueueStep DEF IInv
<1>3. OwnedInv' /\ OrderInv'
  <2>1. CASE raced'
      BY <2>1 DEF OwnedInv, OrderInv
  <2>2. CASE ~raced'
    <3>1. ~raced
        BY <2>2, HistoryStep
    <3> QED
        BY <1>1, <2>2, <3>1, DataStep DEF IInv, Unraced
  <2> QED
      BY <2>1, <2>2
<1> QED
    BY <1>2, <1>3 DEF IInv, Threads

\* What the two threads and the ring are like in every reachable state.
THEOREM Invariant == Spec => []IInv
<1>1. IInv /\ UNCHANGED vars => IInv'
    BY NextInv
<1> QED
    BY InitInv, NextInv, <1>1, PTL DEF Spec

\* A sequence without repetition has none among its entries that are not null.
LEMMA OnceIs ==
    ASSUME NEW S, NEW s \in Seq(S), IsInjective(s)
    PROVE  NoneTwice(s)
BY DEF IsInjective, NoneTwice

(***************************************************************************)
(* However many Buffers, packets and sessions there are and whatever the   *)
(* sizes of the queues: unless a clear() has hit a popBatch that held      *)
(* indices, no Buffer is in two places and no null packet was popped.      *)
(***************************************************************************)
THEOREM BuffersAreExclusive == Spec => []ExclusiveBuffers
<1>1. ASSUME IInv PROVE ExclusiveBuffers
  <2> SUFFICES ASSUME ~raced PROVE ExclusiveBuffers
      BY DEF ExclusiveBuffers
  <2>1. /\ hpc # "crashed" /\ free \in Seq(Buffers) /\ pool \in [Pool -> Buffers \cup {Null}]
        /\ Pending \in Seq(Buffers) /\ todo \in Seq(Buffers)
        /\ IsInjective(free) /\ PoolOnce /\ IsInjective(Pending) /\ IsInjective(todo)
        /\ ToSet(free) \cap InPool = {} /\ ToSet(free) \cap ToSet(Pending) = {}
        /\ ToSet(free) \cap ToSet(todo) = {} /\ InPool \cap ToSet(Pending) = {}
        /\ InPool \cap ToSet(todo) = {} /\ ToSet(Pending) \cap ToSet(todo) = {}
      BY <1>1 DEF IInv, OwnedInv, TypeOK, RecvOK
  <2>2. /\ DOMAIN Places = 1 .. 4 /\ Places[1] = free /\ Places[2] = pool
        /\ Places[3] = Pending /\ Places[4] = todo
      BY DEF Places
  <2>3. ToSet(pool) \ {Null} = InPool
      BY <2>1 DEF ToSet, InPool
  <2>4. Apart
    <3>1. /\ Owned(1) \subseteq ToSet(free) /\ Owned(2) = InPool
          /\ Owned(3) \subseteq ToSet(Pending) /\ Owned(4) \subseteq ToSet(todo)
        BY <2>2, <2>3 DEF Owned
    <3>2. \A p \in 1 .. 4 : p = 1 \/ p = 2 \/ p = 3 \/ p = 4
        OBVIOUS
    <3> QED
        BY <2>1, <2>2, <3>1, <3>2 DEF Apart
  <2>5. NoneTwice(free) /\ NoneTwice(Pending) /\ NoneTwice(todo)
      BY <2>1, OnceIs
  <2>6. NoneTwice(pool)
      BY <2>1 DEF PoolOnce, NoneTwice
  <2>7. \A p \in 1 .. 4 : NoneTwice(Places[p])
    <3>1. \A p \in 1 .. 4 : p = 1 \/ p = 2 \/ p = 3 \/ p = 4
        OBVIOUS
    <3> QED
        BY <2>2, <2>5, <2>6, <3>1
  <2> QED
      BY <2>1, <2>2, <2>4, <2>7 DEF ExclusiveBuffers
<1> QED
    BY <1>1, Invariant, PTL

(***************************************************************************)
(* Each packet handle_thread_ decodes came later than the one before it,   *)
(* and is the next one as long as pkt_queue_ never overflowed, across any  *)
(* number of sessions.                                                     *)
(***************************************************************************)
THEOREM PacketsAreHandledInOrder == Spec => HandledInOrder
<1> DEFINE InOrder == /\ raced' \/ handled' > handled
                      /\ overflowed' \/ handled' = handled + 1
<1>1. ASSUME IInv, [Next]_vars, handled' # handled PROVE InOrder
  <2>1. HandleDecode
      BY <1>1
      DEF Next, User, Recv, Handle, Ended, vars, Start, StopRecv, StopHandle, StopDone, RecvExit,
          RecvReadable, RecvRefill, RecvMmsg, RecvPush, RecvPushed, RecvFull, RecvClearBegin,
          RecvClear, HandleExit, HandlePoll, HandleBatch, HandleNothing, HandleGot, HandleRecycle,
          ByRecv, handleVars
  <2>2. raced' = raced /\ overflowed' = overflowed
      BY <2>1 DEF HandleDecode, ByHandle
  <2>3. CASE raced
      BY <1>1, <2>2, <2>3 DEF IInv, RecvInv
  <2>4. CASE ~raced
      BY <1>1, <2>1, <2>2, <2>4, DecodeStep DEF IInv, Unraced, Threads
  <2> QED
      BY <2>3, <2>4
<1>2. IInv /\ [Next]_vars => [InOrder]_handled
    BY <1>1
<1> QED
    BY <1>2, Invariant, PTL DEF Spec, HandledInOrder

-----------------------------------------------------------------------------
(* The inputs that play a recording (InputFile).                           *)

FileSpec == FileInit /\ [][FileNext]_fileVars

\* The thread is at a file that is not open only as ReadsOpenFile says.
FileOpenInv ==
    /\ recv \in {"run", "crashed"} /\ pcap = "null" => refused \/ restarted
    /\ recv = "crashed" => pcap = "null"

\* From the packet last pushed to the present place there is none in between.
PlayedTo ==
    /\ pos \in 0..Len(Recording) /\ passes \in Nat
    /\ \E a \in Nat, b \in Nat :
        /\ pushed = <<a, b>> /\ a <= passes
        /\ a = passes => b <= pos /\ \A p \in b + 1..pos : Recording[p] \notin filters
        /\ a < passes => /\ \A p \in 1..pos : Recording[p] \notin filters
                         /\ b > 0 => \A p \in b + 1..Len(Recording) : Recording[p] \notin filters
                         /\ passes > a + 1 => \A p \in DOMAIN Recording :
                                                 Recording[p] \notin filters

PlayInv == kind = "pcap" => PlayedTo

\* Before the file is opened nothing is played.
UnopenedInv == ~init_flag /\ kind # "raw" => recv = "off" /\ pcap = "null" /\ pos = 0 /\ passes = 0 /\ pushed = <<0, 0>>

\* What is put together of a datagram with an id are its first parts.
Parts == (DOMAIN Datagrams) \X Nat
BufferOf(d) ==
    /\ jumbo.ip_id = Datagrams[d].id /\ Len(jumbo.buf) \in 1..Datagrams[d].size - 1
    /\ \A x \in 1..Len(jumbo.buf) : jumbo.buf[x] = <<d, x - 1>>

JumboInv ==
    /\ jumbo \in [ip_id : Nat, buf : Seq(Parts)]
    /\ jumbo.ip_id # 0 => \E d \in DOMAIN Datagrams : BufferOf(d)

\* Of a datagram that came in one go so far, as much is put together.
RunInv ==
    \A d \in DOMAIN Datagrams, n \in Nat \ {0} :
        Datagrams[d].id # 0 /\ run = [of |-> d, units |-> n] /\ n < Datagrams[d].size
            => jumbo.ip_id = Datagrams[d].id /\ Len(jumbo.buf) >= n

Completed ==
    udp # <<>> =>
        \E d \in DOMAIN Datagrams :
            udp[Len(udp)][1] = d /\ (Datagrams[d].id # 0 => udp = Whole(d))
RunComplete ==
    \A d \in DOMAIN Datagrams :
        Datagrams[d].id # 0 /\ run = [of |-> d, units |-> Datagrams[d].size]
            => udp = Whole(d)

FileInv == FileOpenInv /\ UnopenedInv /\ PlayInv /\ JumboInv /\ RunInv /\ Completed /\ RunComplete

\* A sequence that has all parts of a datagram in their places is the whole.
LEMMA WholeRight ==
    ASSUME NEW d \in DOMAIN Datagrams, NEW s \in Seq(Parts),
           Len(s) = Datagrams[d].size, \A x \in 1..Len(s) : s[x] = <<d, x - 1>>
    PROVE  s = Whole(d)
<1>1. DOMAIN s = 1..Datagrams[d].size /\ s \in [1..Datagrams[d].size -> Parts]
    BY LenProperties
<1>2. Whole(d) = [x \in 1..Datagrams[d].size |-> <<d, x - 1>>]
    BY DEF Whole, Unit
<1>3. \A x \in 1..Datagrams[d].size : s[x] = Whole(d)[x]
    BY <1>2
<1> QED
    BY <1>1, <1>2, <1>3

\* What a fragment makes of it.
LEMMA FragmentStep ==
    ASSUME FileInv,
           NEW d \in DOMAIN Datagrams, NEW k \in 0..Datagrams[d].size - 1,
           JumboRecord(d, k)
    PROVE  JumboInv' /\ RunInv' /\ Completed' /\ RunComplete'
<1>1. PICK id, size, f, j, u, r :
        /\ id = Datagrams[d].id /\ size = Datagrams[d].size
        /\ f = [id |-> id, off |-> k, more |-> k + 1 < size, data |-> <<d, k>>]
        /\ j = jumbo' /\ u = udp' /\ r = run'
    OBVIOUS
<1>2. /\ id \in Nat /\ size \in Nat \ {0} /\ k \in Nat /\ k < size
      /\ jumbo \in [ip_id : Nat, buf : Seq(Parts)] /\ <<d, k>> \in Parts
    BY <1>1, RecordingAssumption DEF FileInv, JumboInv, Parts
<1>3. PICK n \in Nat : n = Len(jumbo.buf)
    BY <1>2, LenProperties
<1>4. PICK all, one : all = Append(jumbo.buf, <<d, k>>) /\ one = <<<<d, k>>>>
    OBVIOUS
<1>5. /\ j = new_fragment(jumbo, f).jumbo /\ u = new_fragment(jumbo, f).udp
      /\ r = IF k = 0 THEN [of |-> d, units |-> 1]
             ELSE IF run = [of |-> d, units |-> k] THEN [of |-> d, units |-> k + 1]
             ELSE [of |-> 0, units |-> 0]
    BY <1>1 DEF JumboRecord, Fragment, Unit, NoRun
<1>6. f.id = id /\ f.off = k /\ (f.more <=> k + 1 < size) /\ f.data = <<d, k>>
    BY <1>1
\* The cases of new_fragment.
<1>7. \/ /\ id = jumbo.ip_id /\ k # n /\ j = jumbo /\ u = <<>>
      \/ /\ id = jumbo.ip_id /\ k = n /\ k + 1 < size
         /\ j = [jumbo EXCEPT !.buf = all] /\ u = <<>>
      \/ /\ id = jumbo.ip_id /\ k = n /\ k + 1 = size
         /\ j = [ip_id |-> 0, buf |-> all] /\ u = all
      \/ /\ id # jumbo.ip_id /\ k # 0 /\ j = jumbo /\ u = <<>>
      \/ /\ id # jumbo.ip_id /\ k = 0 /\ 1 < size
         /\ j = [ip_id |-> id, buf |-> one] /\ u = <<>>
      \/ /\ id # jumbo.ip_id /\ k = 0 /\ size = 1 /\ j = jumbo /\ u = one
    BY <1>2, <1>3, <1>4, <1>5, <1>6 DEF new_fragment, NoDatagram
<1>8. /\ all \in Seq(Parts) /\ Len(all) = n + 1 /\ all[n + 1] = <<d, k>>
      /\ \A x \in 1..n : all[x] = jumbo.buf[x]
      /\ one \in Seq(Parts) /\ Len(one) = 1 /\ one[1] = <<d, k>>
    BY <1>2, <1>3, <1>4, AppendProperties
\* The datagram being put together, if it is this one.
<1>9. ASSUME id # 0, id = jumbo.ip_id
      PROVE  n \in 1..size - 1 /\ \A x \in 1..n : jumbo.buf[x] = <<d, x - 1>>
  <2>1. PICK e \in DOMAIN Datagrams : BufferOf(e)
      BY <1>9 DEF FileInv, JumboInv
  <2>2. e = d
      BY <1>1, <1>9, <2>1, RecordingAssumption DEF BufferOf
  <2> QED
      BY <1>1, <1>3, <2>1, <2>2 DEF BufferOf
\* Of the run, what came before was of this datagram too.
<1>10. ASSUME NEW e \in DOMAIN Datagrams, NEW m \in Nat \ {0}, r = [of |-> e, units |-> m]
       PROVE  e = d /\ m = k + 1 /\ (k # 0 => run = [of |-> d, units |-> k])
  <2>1. CASE k = 0
      BY <1>5, <1>10, <2>1
  <2>2. CASE k # 0 /\ run = [of |-> d, units |-> k]
      BY <1>5, <1>10, <2>2
  <2>3. CASE k # 0 /\ run # [of |-> d, units |-> k]
      BY <1>5, <1>10, <2>3
  <2> QED
      BY <2>1, <2>2, <2>3
<1>11. ASSUME id # 0, k # 0, run = [of |-> d, units |-> k]
       PROVE  jumbo.ip_id = id /\ n >= k /\ n < size
  <2>1. k \in Nat \ {0} /\ k < Datagrams[d].size /\ Datagrams[d].id # 0
      BY <1>1, <1>2, <1>11
  <2>2. jumbo.ip_id = Datagrams[d].id /\ Len(jumbo.buf) >= k
      BY <1>11, <2>1 DEF FileInv, RunInv
  <2>3. jumbo.ip_id = id /\ n >= k
      BY <1>1, <1>3, <2>2
  <2>4. n \in 1..size - 1
      BY <1>9, <1>11, <2>3
  <2> QED
      BY ONLY <1>2, <2>3, <2>4
<1>12. j \in [ip_id : Nat, buf : Seq(Parts)]
  <2>1. CASE j = jumbo
      BY <1>2, <2>1
  <2>2. CASE j = [jumbo EXCEPT !.buf = all]
      BY <1>2, <1>8, <2>2
  <2>3. CASE j = [ip_id |-> 0, buf |-> all]
      BY <1>8, <2>3
  <2>4. CASE j = [ip_id |-> id, buf |-> one]
      BY <1>2, <1>8, <2>4
  <2> QED
      BY <1>7, <2>1, <2>2, <2>3, <2>4
<1>13. j.ip_id # 0 => \E e \in DOMAIN Datagrams :
          /\ j.ip_id = Datagrams[e].id /\ Len(j.buf) \in 1..Datagrams[e].size - 1
          /\ \A x \in 1..Len(j.buf) : j.buf[x] = <<e, x - 1>>
  <2> HAVE j.ip_id # 0
  <2>1. CASE j = jumbo
      BY <2>1 DEF FileInv, JumboInv, BufferOf
  <2>2. CASE /\ id = jumbo.ip_id /\ k = n /\ k + 1 < size
             /\ j = [jumbo EXCEPT !.buf = all]
    <3>1. j.ip_id = id /\ j.buf = all /\ id # 0
        BY <1>2, <2>2
    <3>2. n \in 1..size - 1 /\ \A x \in 1..n : jumbo.buf[x] = <<d, x - 1>>
        BY <1>9, <2>2, <3>1
    <3>3. Len(all) \in 1..size - 1
        BY <1>2, <1>8, <2>2
    <3>4. \A x \in 1..Len(all) : all[x] = <<d, x - 1>>
      <4> TAKE x \in 1..Len(all)
      <4>1. x \in 1..n \/ x = n + 1
          BY <1>8
      <4>2. CASE x \in 1..n
          BY <1>8, <3>2, <4>2
      <4>3. CASE x = n + 1
        <5>1. x - 1 = k
            BY <1>2, <2>2, <4>3
        <5> QED
            BY <1>8, <4>3, <5>1
      <4> QED
          BY <4>1, <4>2, <4>3
    <3> QED
        BY <1>1, <3>1, <3>3, <3>4
  <2>3. CASE k = 0 /\ 1 < size /\ j = [ip_id |-> id, buf |-> one]
    <3>1. j.ip_id = id /\ j.buf = one /\ Len(one) \in 1..size - 1
        BY <1>2, <1>8, <2>3
    <3>2. \A x \in 1..Len(one) : one[x] = <<d, x - 1>>
        BY <1>8, <2>3
    <3> QED
        BY <1>1, <3>1, <3>2
  <2>4. ~(j = [ip_id |-> 0, buf |-> all])
      OBVIOUS
  <2> QED
      BY <1>7, <2>1, <2>2, <2>3, <2>4
<1>14. JumboInv'
    BY <1>1, <1>12, <1>13 DEF JumboInv, BufferOf, Parts
<1>15. RunInv'
  <2>1. ASSUME NEW e \in DOMAIN Datagrams, NEW m \in Nat \ {0}, Datagrams[e].id # 0,
               r = [of |-> e, units |-> m], m < Datagrams[e].size
        PROVE  j.ip_id = Datagrams[e].id /\ Len(j.buf) >= m
    <3>1. e = d /\ m = k + 1 /\ (k # 0 => run = [of |-> d, units |-> k])
        BY <1>10, <2>1
    <3>2. id # 0 /\ k + 1 < size
        BY <1>1, <2>1, <3>1
    <3>3. k # 0 => jumbo.ip_id = id /\ n >= k
        BY <1>11, <3>1, <3>2
    <3>4. CASE id = jumbo.ip_id
      <4>1. n \in 1..size - 1
          BY <1>9, <3>2, <3>4
      <4>2. CASE k # n
        <5>1. j = jumbo
            BY <1>7, <3>4, <4>2
        <5>2. n >= k + 1
            BY <1>2, <3>3, <4>1, <4>2
        <5> QED
            BY <1>1, <1>3, <3>1, <3>4, <5>1, <5>2
      <4>3. CASE k = n
        <5>1. j = [jumbo EXCEPT !.buf = all]
            BY <1>2, <1>7, <3>2, <3>4, <4>3
        <5>2. j.ip_id = id /\ Len(j.buf) = k + 1
            BY <1>2, <1>8, <3>4, <4>3, <5>1
        <5> QED
            BY <1>1, <1>2, <3>1, <5>2
      <4> QED
          BY <4>2, <4>3
    <3>5. CASE id # jumbo.ip_id
      <4>1. k = 0 /\ size # 1
          BY <1>2, <3>2, <3>3, <3>5
      <4>2. j = [ip_id |-> id, buf |-> one]
          BY <1>7, <3>5, <4>1
      <4>3. j.ip_id = id /\ j.buf = one
          BY <4>2
      <4>4. m = 1 /\ Len(j.buf) = 1
          BY <1>8, <3>1, <4>1, <4>3
      <4> QED
          BY <1>1, <3>1, <4>3, <4>4
    <3> QED
        BY <3>4, <3>5
  <2> QED
      BY <1>1, <2>1 DEF RunInv
\* What is completed is one datagram.
<1>16. u # <<>> => /\ u[Len(u)][1] = d /\ (id # 0 => u = Whole(d))
  <2> HAVE u # <<>>
  <2>1. CASE /\ id = jumbo.ip_id /\ k = n /\ k + 1 = size /\ u = all
    <3>1. u[Len(u)][1] = d
        BY <1>8, <2>1
    <3>2. ASSUME id # 0 PROVE u = Whole(d)
      <4>1. \A x \in 1..n : jumbo.buf[x] = <<d, x - 1>>
          BY <1>9, <2>1, <3>2
      <4>2. \A x \in 1..Len(all) : all[x] = <<d, x - 1>>
        <5> TAKE x \in 1..Len(all)
        <5>1. x \in 1..n \/ x = n + 1
            BY <1>8
        <5>2. CASE x \in 1..n
            BY <1>8, <4>1, <5>2
        <5>3. CASE x = n + 1
          <6>1. x - 1 = k
              BY <1>2, <2>1, <5>3
          <6> QED
              BY <1>8, <5>3, <6>1
        <5> QED
            BY <5>1, <5>2, <5>3
      <4>3. Len(all) = Datagrams[d].size
          BY <1>1, <1>8, <2>1
      <4> QED
          BY <1>8, <2>1, <4>2, <4>3, WholeRight
    <3> QED
        BY <3>1, <3>2
  <2>2. CASE k = 0 /\ size = 1 /\ u = one
    <3>1. u[Len(u)][1] = d
      <4>1. u[Len(u)] = <<d, k>>
          BY <1>8, <2>2
      <4> QED
          BY <4>1
    <3>2. \A x \in 1..Len(one) : one[x] = <<d, x - 1>>
        BY <1>8, <2>2
    <3>3. Len(one) = Datagrams[d].size
        BY <1>1, <1>8, <2>2
    <3>4. u = Whole(d)
        BY <1>8, <2>2, <3>2, <3>3, WholeRight
    <3> QED
        BY <3>1, <3>4
  <2> QED
      BY <1>7, <2>1, <2>2
<1>17. Completed'
  <2>1. (Whole(d))' = Whole(d)
      BY DEF Whole
  <2> QED
      BY <1>1, <1>16, <2>1 DEF Completed, Whole
<1>18. RunComplete'
  <2>1. ASSUME NEW e \in DOMAIN Datagrams, Datagrams[e].id # 0,
               r = [of |-> e, units |-> Datagrams[e].size]
        PROVE  u = Whole(e)
    <3>1. Datagrams[e].size \in Nat \ {0}
        BY RecordingAssumption
    <3>2. e = d /\ size = k + 1 /\ id # 0 /\ (k # 0 => run = [of |-> d, units |-> k])
        BY <1>1, <1>10, <2>1, <3>1
    <3>3. k # 0 => jumbo.ip_id = id /\ n >= k /\ n < size
        BY <1>11, <3>2
    <3>4. k = 0 => id # jumbo.ip_id
        BY <1>2, <1>9, <3>2
    <3>5. k # 0 => n = k
        BY <1>2, <3>2, <3>3
    <3>6. u = all \/ u = one
      <4>1. CASE k = 0
          BY <1>2, <1>7, <3>2, <3>4, <4>1
      <4>2. CASE k # 0
        <5>1. id = jumbo.ip_id /\ k = n /\ k + 1 = size
            BY <3>2, <3>3, <3>5, <4>2
        <5> QED
            BY <1>2, <1>7, <5>1
      <4> QED
          BY <4>1, <4>2
    <3>7. u # <<>>
      <4>1. Len(u) # 0
        <5>1. CASE u = all
          <6>1. Len(u) = n + 1
              BY <1>8, <5>1
          <6>2. n + 1 # 0
              OBVIOUS
          <6> QED
              BY <6>1, <6>2
        <5>2. CASE u = one
          <6>1. Len(u) = 1
              BY <1>8, <5>2
          <6> QED
              BY <6>1
        <5> QED
            BY <3>6, <5>1, <5>2
      <4>2. Len(<<>>) = 0
          OBVIOUS
      <4> QED
          BY <4>1, <4>2
    <3> QED
        BY <1>16, <3>2, <3>7
  <2> QED
      BY <1>1, <2>1 DEF RunComplete, Whole
<1> QED
    BY <1>14, <1>15, <1>17, <1>18

\* A record of the file: a packet of the lidar's is pushed.
LEMMA RecordStep ==
    ASSUME FileInv, PcapRecord
    PROVE  /\ PlayInv'
           /\ kind = "pcap" /\ pushed' # pushed =>
                /\ pushed'[1] > pushed[1] \/ (pushed'[1] = pushed[1] /\ pushed'[2] > pushed[2])
                /\ ~Between(pushed, pushed')
<1>1. /\ kind = "pcap" /\ pos < Len(Recording) /\ pos' = pos + 1
      /\ pushed' = IF Recording[pos + 1] \in filters THEN <<passes, pos + 1>> ELSE pushed
      /\ UNCHANGED <<passes, kind, filters>>
    BY DEF PcapRecord, ctlVars
<1>2. PlayedTo /\ Len(Recording) \in Nat /\ DOMAIN Recording = 1..Len(Recording)
    BY <1>1, LenProperties, RecordingAssumption DEF FileInv, PlayInv
<1>3. pos \in Nat /\ passes \in Nat /\ pos' \in 0..Len(Recording)
    BY <1>1, <1>2 DEF PlayedTo
<1>4. PICK a \in Nat, b \in Nat :
        /\ pushed = <<a, b>> /\ a <= passes
        /\ a = passes => b <= pos /\ \A p \in b + 1..pos : Recording[p] \notin filters
        /\ a < passes => /\ \A p \in 1..pos : Recording[p] \notin filters
                         /\ b > 0 => \A p \in b + 1..Len(Recording) : Recording[p] \notin filters
                         /\ passes > a + 1 => \A p \in DOMAIN Recording :
                                                 Recording[p] \notin filters
    BY <1>2 DEF PlayedTo
<1>5. CASE Recording[pos + 1] \in filters
  <2>1. pushed' = <<passes, pos + 1>>
      BY <1>1, <1>5
  <2>2. PlayedTo'
    <3>1. pos + 1 \in Nat /\ \A p \in (pos + 1) + 1..pos' : Recording[p] \notin filters
        BY <1>1, <1>3
    <3> QED
        BY <1>1, <1>3, <2>1, <3>1 DEF PlayedTo
  <2>3. passes > a \/ (passes = a /\ pos + 1 > b)
      BY <1>3, <1>4
  <2>4. ~Between(<<a, b>>, <<passes, pos + 1>>)
    <3>1. CASE a = passes
        BY <1>3, <1>4, <3>1 DEF Between, Wanted
    <3>2. CASE a # passes
      <4>1. a < passes /\ ~(passes > a + 1 /\ \E p \in DOMAIN Recording : Recording[p] \in filters)
          BY <1>3, <1>4, <3>2
      <4>2. ~\E p \in b + 1..Len(Recording) : b > 0 /\ Recording[p] \in filters
          BY <1>4, <4>1
      <4>3. ~\E p \in 1..(pos + 1) - 1 : Recording[p] \in filters
          BY <1>3, <1>4, <4>1
      <4> QED
          BY <3>2, <4>1, <4>2, <4>3 DEF Between, Wanted
    <3> QED
        BY <3>1, <3>2
  <2> QED
      BY <1>4, <2>1, <2>2, <2>3, <2>4 DEF PlayInv
<1>6. CASE Recording[pos + 1] \notin filters
  <2>1. pushed' = pushed
      BY <1>1, <1>6
  <2>2. \A p \in Int : p <= pos' => p <= pos \/ p = pos + 1
      BY <1>1, <1>3
  <2>3. a = passes => b <= pos' /\ \A p \in b + 1..pos' : Recording[p] \notin filters
      BY <1>1, <1>3, <1>4, <1>6, <2>2
  <2>4. a < passes => \A p \in 1..pos' : Recording[p] \notin filters
      BY <1>3, <1>4, <1>6, <2>2
  <2>5. PlayedTo'
      BY <1>1, <1>3, <1>4, <2>1, <2>3, <2>4 DEF PlayedTo
  <2> QED
      BY <2>1, <2>5 DEF PlayInv
<1> QED
    BY <1>5, <1>6

\* The end of the file: what was looked for up to here, was to the end.
LEMMA EndStep ==
    ASSUME FileInv, FileEnd
    PROVE  PlayInv' /\ FileOpenInv'
<1>1. /\ recv = "run" /\ UNCHANGED <<kind, filters, pcap_repeat, restarted, pushed>>
      /\ kind = "pcap" => pos = Len(Recording)
      /\ \/ /\ pcap' = "open" /\ passes' = passes + 1 /\ pos' = 0
            /\ UNCHANGED <<recv, refused>>
         \/ /\ pcap' = "null" /\ refused' /\ UNCHANGED <<pos, passes, recv>>
         \/ /\ pcap' = "null" /\ recv' = "ended" /\ UNCHANGED <<pos, passes, refused>>
    BY DEF FileEnd, ctlVars
<1>2. FileOpenInv'
    BY <1>1 DEF FileOpenInv
<1>3. PlayInv'
  <2> SUFFICES ASSUME kind = "pcap" PROVE PlayedTo'
      BY <1>1 DEF PlayInv
  <2>1. PlayedTo /\ pos = Len(Recording) /\ Len(Recording) \in Nat
        /\ DOMAIN Recording = 1..Len(Recording)
      BY <1>1, LenProperties, RecordingAssumption DEF FileInv, PlayInv
  <2>2. CASE UNCHANGED <<pos, passes>>
      BY <1>1, <2>1, <2>2 DEF PlayedTo
  <2>3. CASE passes' = passes + 1 /\ pos' = 0
    <3>1. PICK a \in Nat, b \in Nat :
            /\ pushed = <<a, b>> /\ a <= passes
            /\ a = passes => b <= pos /\ \A p \in b + 1..pos : Recording[p] \notin filters
            /\ a < passes => /\ \A p \in 1..pos : Recording[p] \notin filters
                             /\ b > 0 => \A p \in b + 1..Len(Recording) : Recording[p] \notin filters
                             /\ passes > a + 1 => \A p \in DOMAIN Recording :
                                                     Recording[p] \notin filters
        BY <2>1 DEF PlayedTo
    <3>2. /\ passes \in Nat /\ passes' \in Nat /\ a <= passes' /\ a # passes' /\ a < passes'
          /\ passes' > a + 1 => a < passes
        BY <2>1, <2>3, <3>1 DEF PlayedTo
    <3>3. \A p \in 1..pos' : Recording[p] \notin filters
        BY <2>3
    <3>4. b > 0 => \A p \in b + 1..Len(Recording) : Recording[p] \notin filters
        BY <2>1, <3>1, <3>2
    <3>5. passes' > a + 1 => \A p \in DOMAIN Recording : Recording[p] \notin filters
        BY <2>1, <3>1, <3>2
    <3>6. pos' \in 0..Len(Recording) /\ pushed' = <<a, b>> /\ filters' = filters
        BY <1>1, <2>1, <2>3, <3>1
    <3> QED
        BY <3>2, <3>3, <3>4, <3>5, <3>6 DEF PlayedTo
  <2> QED
      BY <1>1, <2>2, <2>3
<1> QED
    BY <1>2, <1>3

\* To begin with there is nothing between the two.
LEMMA Unplayed ==
    ASSUME Len(Recording) \in Nat, pos = 0, passes = 0, pushed = <<0, 0>>
    PROVE  PlayedTo
<1> DEFINE a == 0
           b == 0
<1>1. a \in Nat /\ b \in Nat /\ pushed = <<a, b>> /\ a <= passes /\ ~(a < passes) /\ b <= pos
    OBVIOUS
<1>2. \A p \in b + 1..pos : Recording[p] \notin filters
    OBVIOUS
<1> HIDE DEF a, b
<1> QED
    BY <1>1, <1>2 DEF PlayedTo

\* input_pcap.hpp, input_pcap_jumbo.hpp, jumbo.hpp: whatever the recording and
\* the fragments in it, and however often sessions are stopped and started, a
\* recording is played in its order without gaps or repetitions, a closed file
\* is read only after opening it again has failed or a finished playback is
\* started again, and jumbo datagrams with an id are put together whole.
THEOREM RecordingIsRight == FileSpec => RecordingRight
<1>1. FileInit => FileInv
  <2> SUFFICES ASSUME FileInit PROVE FileInv
      OBVIOUS
  <2>1. /\ pos = 0 /\ passes = 0 /\ jumbo = [ip_id |-> 0, buf |-> <<>>] /\ recv = "off"
        /\ pcap = "null" /\ pushed = <<0, 0>> /\ udp = <<>> /\ run = [of |-> 0, units |-> 0]
      BY DEF FileInit, JumboInit, NoDatagram, NoRun
  <2>2. JumboInv
    <3>1. <<>> \in Seq(Parts)
        OBVIOUS
    <3> QED
        BY <2>1, <3>1 DEF JumboInv
  <2>3. RunInv /\ Completed
      BY <2>1 DEF RunInv, Completed
  <2>4. RunComplete
      BY <2>1, RecordingAssumption DEF RunComplete
  <2>5. PlayedTo
    <3>1. Len(Recording) \in Nat
        BY LenProperties, RecordingAssumption
    <3> QED
        BY <2>1, <3>1, Unplayed
  <2> QED
      BY <2>1, <2>2, <2>3, <2>4, <2>5 DEF FileInv, FileOpenInv, UnopenedInv, PlayInv
<1>2. FileInv /\ [FileNext]_fileVars => FileInv'
  <2> SUFFICES ASSUME FileInv, [FileNext]_fileVars PROVE FileInv'
      OBVIOUS
  <2>1. ASSUME UNCHANGED <<jumbo, udp, run>>, FileOpenInv', UnopenedInv', PlayInv' PROVE FileInv'
      BY <2>1 DEF FileInv, JumboInv, BufferOf, RunInv, Completed, RunComplete, Whole
  <2>2. ASSUME UNCHANGED <<kind, filters, pos, passes, pushed>> PROVE PlayInv'
      BY <2>2 DEF FileInv, PlayInv, PlayedTo
  <2>3. ASSUME UNCHANGED <<kind, init_flag, pcap, pos, passes, pushed>>,
               recv' = recv \/ init_flag \/ recv' = "off"
        PROVE  UnopenedInv'
      BY <2>3 DEF FileInv, UnopenedInv
  <2>4. CASE FileOpen
    <3>1. /\ UNCHANGED <<jumbo, udp, run, kind, filters, pos, pushed>>
          /\ pcap' = "open" /\ passes' = 1 /\ ~init_flag /\ init_flag' /\ kind # "raw"
        BY <2>4 DEF FileOpen
    <3>2. pos' = 0 /\ pushed' = <<0, 0>>
        BY <3>1 DEF FileInv, UnopenedInv
    <3>3. PlayedTo'
      <4>1. Len(Recording) \in Nat
          BY LenProperties, RecordingAssumption
      <4> DEFINE a == 0
                 b == 0
      <4>2. a \in Nat /\ b \in Nat /\ pushed' = <<a, b>> /\ a < passes' /\ a <= passes'
            /\ a # passes' /\ ~(b > 0) /\ ~(passes' > a + 1)
          BY <3>1, <3>2
      <4>3. pos' \in 0..Len(Recording) /\ passes' \in Nat
          BY <3>1, <3>2, <4>1
      <4>4. \A p \in 1..pos' : Recording[p] \notin filters'
          BY <3>2
      <4> HIDE DEF a, b
      <4> QED
          BY <4>2, <4>3, <4>4 DEF PlayedTo
    <3>4. FileOpenInv'
      <4>1. recv' = recv
          BY <2>4 DEF FileOpen
      <4>2. recv # "crashed"
          BY <3>1 DEF FileInv, FileOpenInv, UnopenedInv
      <4> QED
          BY <3>1, <4>1, <4>2 DEF FileOpenInv
    <3>5. UnopenedInv' /\ PlayInv'
        BY <3>1, <3>3 DEF UnopenedInv, PlayInv
    <3> QED
        BY <2>1, <3>1, <3>4, <3>5
  <2>5. CASE FileStart
    <3>1. /\ UNCHANGED <<jumbo, udp, run, kind, filters, pos, passes, pushed, pcap, init_flag>>
          /\ restarted' = (restarted \/ pcap = "null") /\ init_flag /\ recv' = "run"
        BY <2>5 DEF FileStart, playVars
    <3>2. FileOpenInv'
        BY <3>1 DEF FileOpenInv
    <3> QED
        BY <2>1, <2>2, <2>3, <3>1, <3>2
  <2>6. CASE FileStopTold
    <3>1. UNCHANGED <<jumbo, udp, run, kind, filters, pos, passes, pushed, pcap, init_flag,
                      recv, refused, restarted>>
        BY <2>6 DEF FileStopTold, playVars
    <3>2. FileOpenInv'
        BY <3>1 DEF FileInv, FileOpenInv
    <3> QED
        BY <2>1, <2>2, <2>3, <3>1, <3>2
  <2>7. CASE FileStopJoined
    <3>1. /\ UNCHANGED <<jumbo, udp, run, kind, filters, pos, passes, pushed, pcap, init_flag>>
          /\ recv' = "off"
        BY <2>7 DEF FileStopJoined, playVars
    <3>2. FileOpenInv'
        BY <3>1 DEF FileOpenInv
    <3> QED
        BY <2>1, <2>2, <2>3, <3>1, <3>2
  <2>8. CASE feedPacket
    <3>1. UNCHANGED <<jumbo, udp, run, kind, pcap, recv, refused, restarted>> /\ kind = "raw"
        BY <2>8 DEF feedPacket, ctlVars
    <3> QED
        BY <2>1, <3>1 DEF FileInv, FileOpenInv, UnopenedInv, PlayInv
  <2>9. CASE FileExit
    <3>1. /\ UNCHANGED <<jumbo, udp, run, kind, filters, pos, passes, pushed, pcap, init_flag>>
          /\ recv' = "ended" /\ recv = "run"
        BY <2>9 DEF FileExit, playVars, ctlVars
    <3>2. FileOpenInv'
        BY <3>1 DEF FileOpenInv
    <3>3. UnopenedInv'
        BY <3>1 DEF FileInv, UnopenedInv
    <3> QED
        BY <2>1, <2>2, <3>1, <3>2, <3>3
  <2>10. CASE FileCrash
    <3>1. /\ UNCHANGED <<jumbo, udp, run, kind, filters, pos, passes, pushed, pcap, init_flag,
                         refused, restarted>>
          /\ recv = "run" /\ recv' = "crashed" /\ pcap = "null"
        BY <2>10 DEF FileCrash, playVars, ctlVars
    <3>2. FileOpenInv'
        BY <3>1 DEF FileInv, FileOpenInv
    <3>3. UnopenedInv'
        BY <3>1 DEF FileInv, UnopenedInv
    <3> QED
        BY <2>1, <2>2, <3>1, <3>2, <3>3
  <2>11. CASE FileEnd
    <3>1. UNCHANGED <<jumbo, udp, run, kind, init_flag>> /\ pcap = "open"
        BY <2>11 DEF FileEnd, ctlVars
    <3>2. UnopenedInv'
        BY <3>1 DEF FileInv, UnopenedInv
    <3> QED
        BY <2>1, <2>11, <3>1, <3>2, EndStep
  <2>12. CASE PcapRecord
    <3>1. /\ UNCHANGED <<jumbo, udp, run, kind, pcap, init_flag, recv, refused, restarted>>
          /\ pcap = "open"
        BY <2>12 DEF PcapRecord, ctlVars
    <3>2. FileOpenInv' /\ UnopenedInv'
        BY <3>1 DEF FileInv, FileOpenInv, UnopenedInv
    <3> QED
        BY <2>1, <2>12, <3>1, <3>2, RecordStep
  <2>13. ASSUME NEW d \in DOMAIN Datagrams, NEW k \in 0..Datagrams[d].size - 1,
                JumboRecord(d, k)
         PROVE  FileInv'
    <3>1. UNCHANGED <<kind, filters, pos, passes, pushed, pcap, init_flag, recv, refused,
                      restarted>>
        BY <2>13 DEF JumboRecord, ctlVars
    <3>2. FileOpenInv'
        BY <3>1 DEF FileInv, FileOpenInv
    <3>3. JumboInv' /\ RunInv' /\ Completed' /\ RunComplete'
        BY <2>13, FragmentStep
    <3> QED
        BY <2>2, <2>3, <3>1, <3>2, <3>3 DEF FileInv
  <2>14. CASE UNCHANGED fileVars
    <3>1. UNCHANGED <<jumbo, udp, run, kind, filters, pos, passes, pushed, pcap, init_flag,
                      recv, refused, restarted>>
        BY <2>14 DEF fileVars
    <3>2. FileOpenInv'
        BY <3>1 DEF FileInv, FileOpenInv
    <3> QED
        BY <2>1, <2>2, <2>3, <3>1, <3>2
  <2> QED
      BY <2>4, <2>5, <2>6, <2>7, <2>8, <2>9, <2>10, <2>11, <2>12, <2>13, <2>14 DEF FileNext
<1>3. FileInv => ReadsOpenFile /\ DatagramsWhole
  <2> SUFFICES ASSUME FileInv PROVE ReadsOpenFile /\ DatagramsWhole
      OBVIOUS
  <2>1. ReadsOpenFile
    <3>1. recv = "crashed" => pcap = "null"
        BY DEF FileInv, FileOpenInv
    <3> QED
        BY <3>1 DEF FileInv, FileOpenInv, ReadsOpenFile
  <2>2. DatagramsWhole
      BY DEF FileInv, Completed, RunComplete, DatagramsWhole, NoDatagram
  <2> QED
      BY <2>1, <2>2
\* Nothing is pushed but by these two.
<1>4. FileInv /\ [FileNext]_fileVars =>
        (kind = "pcap" /\ pushed' # pushed =>
            /\ pushed'[1] > pushed[1] \/ (pushed'[1] = pushed[1] /\ pushed'[2] > pushed[2])
            /\ ~Between(pushed, pushed'))
  <2> SUFFICES ASSUME FileInv, [FileNext]_fileVars, kind = "pcap", pushed' # pushed
               PROVE  /\ pushed'[1] > pushed[1] \/ (pushed'[1] = pushed[1] /\ pushed'[2] > pushed[2])
                      /\ ~Between(pushed, pushed')
      OBVIOUS
  <2>1. PcapRecord
      BY DEF FileNext, fileVars, FileOpen, FileStart, FileStopTold,
             FileStopJoined, feedPacket, FileExit, FileCrash, FileEnd,
             JumboRecord, playVars, ctlVars
  <2> QED
      BY <2>1, RecordStep
<1> QED
    BY <1>1, <1>2, <1>3, <1>4, PTL DEF FileSpec, RecordingRight, PlayedInOrder

-----------------------------------------------------------------------------
(* The descriptors of a socket input (InputSock).                          *)

CONSTANTS MaxFd, MaxOthers, MaxDatagrams
VARIABLES input, ports, owner, fds, epfd, sock_init, failed, gone, sock_start, sock_exit,
          sock_recv, events, waiting, arrived, leaked, broken, robbed    \* of InputSock

Sock == INSTANCE InputSock WITH
    kind <- input, init_flag <- sock_init, start_flag <- sock_start,
    to_exit_recv <- sock_exit, recv <- sock_recv

SockSpec == Sock!SockInit /\ [][Sock!SockNext]_Sock!sockVars

\* The epoll variant forgets the socket of the IMU.
Forgets == input = "epoll" /\ "imu" \in ports

NoInput == \A f \in Sock!Fds : owner[f] # "input"

\* Until init() nothing is open, after its failure only what createSocket has
\* left; until it is destroyed the object knows all it has opened, and under
\* select nothing else.
SockInv ==
    /\ input \in {"select", "epoll", "win"} /\ ports \subseteq {"difop", "imu"}
    /\ owner \in [Sock!Fds -> {"none", "input", "other"}]
    /\ fds = [r \in Sock!Roles |-> fds[r]]
    /\ ~(sock_init /\ failed) /\ (leaked => failed)
    /\ ~sock_init /\ ~leaked => NoInput
    /\ sock_init /\ ~gone =>
          /\ ~Forgets => \A f \in Sock!Fds : owner[f] = "input" => f \in Sock!Closed
          /\ input # "epoll" => \A f \in Sock!Closed \cap Sock!Fds : owner[f] = "input"
    /\ gone => (sock_init \/ failed) /\ Sock!DescriptorsRight

\* The elements of sequences put together.
LEMMA ElementsOf ==
    ASSUME NEW S, NEW s \in Seq(S), NEW t \in Seq(S)
    PROVE  Sock!Range(s \o t) = Sock!Range(s) \cup Sock!Range(t)
<1>1. \A f : Sock!Range(f) = Range(f)
    BY DEF Sock!Range, Range
<1>2. Range(s \o t) = Range(s) \cup Range(t)
    BY RangeConcatenation
<1> QED
    BY <1>1, <1>2, Zenon

LEMMA ElementsOfOne == Sock!Range(<<>>) = {} /\ \A x : Sock!Range(<<x>>) = {x}
BY DEF Sock!Range

\* The socket of MSOP is always opened, the others if they are configured.
LEMMA OpenedAre ==
    ASSUME ports \subseteq {"difop", "imu"}
    PROVE  Sock!Range(Sock!Opened) =
              (IF input = "epoll" THEN {"epoll"} ELSE {}) \cup {"msop"} \cup ports
<1>1. PICK S : S = {"epoll", "msop", "difop", "imu"}
    OBVIOUS
<1>2. PICK a : a = IF input = "epoll" THEN <<"epoll">> ELSE <<>>
    OBVIOUS
<1>3. PICK b : b = <<"msop">>
    OBVIOUS
<1>4. PICK c : c = IF "difop" \in ports THEN <<"difop">> ELSE <<>>
    OBVIOUS
<1>5. PICK d : d = IF "imu" \in ports THEN <<"imu">> ELSE <<>>
    OBVIOUS
<1>6. Sock!Opened = ((a \o b) \o c) \o d
    BY <1>2, <1>3, <1>4, <1>5 DEF Sock!Opened
<1>7. a \in Seq(S) /\ b \in Seq(S) /\ c \in Seq(S) /\ d \in Seq(S)
  <2>1. \A x \in S : <<x>> \in Seq(S)
      OBVIOUS
  <2>2. <<>> \in Seq(S)
      OBVIOUS
  <2> QED
      BY <1>1, <1>2, <1>3, <1>4, <1>5, <2>1, <2>2
<1>8. /\ Sock!Range(a) = IF input = "epoll" THEN {"epoll"} ELSE {}
      /\ Sock!Range(b) = {"msop"}
      /\ Sock!Range(c) = IF "difop" \in ports THEN {"difop"} ELSE {}
      /\ Sock!Range(d) = IF "imu" \in ports THEN {"imu"} ELSE {}
    BY <1>2, <1>3, <1>4, <1>5, ElementsOfOne, Zenon
<1>9. a \o b \in Seq(S) /\ (a \o b) \o c \in Seq(S)
    BY <1>7
<1>10. Sock!Range(((a \o b) \o c) \o d) =
          ((Sock!Range(a) \cup Sock!Range(b)) \cup Sock!Range(c)) \cup Sock!Range(d)
  <2>1. Sock!Range(a \o b) = Sock!Range(a) \cup Sock!Range(b)
      BY <1>7, ElementsOf
  <2>2. Sock!Range((a \o b) \o c) = Sock!Range(a \o b) \cup Sock!Range(c)
      BY <1>7, <1>9, ElementsOf
  <2>3. Sock!Range(((a \o b) \o c) \o d) = Sock!Range((a \o b) \o c) \cup Sock!Range(d)
      BY <1>7, <1>9, ElementsOf
  <2> QED
      BY <2>1, <2>2, <2>3, Zenon
<1>11. ports = (IF "difop" \in ports THEN {"difop"} ELSE {})
                 \cup (IF "imu" \in ports THEN {"imu"} ELSE {})
    OBVIOUS
<1>12. Sock!Range(Sock!Opened) =
          ((Sock!Range(a) \cup Sock!Range(b)) \cup Sock!Range(c)) \cup Sock!Range(d)
    BY <1>6, <1>10, Zenon
<1> QED
    BY <1>8, <1>11, <1>12

\* The kernel hands out a descriptor that is free.
LEMMA LowestIsFree == ASSUME Sock!Free # {} PROVE Sock!Min(Sock!Free) \in Sock!Free
<1>1. PICK S : S = Sock!Free
    OBVIOUS
<1>2. S \subseteq Nat /\ S # {}
    BY <1>1 DEF Sock!Free, Sock!Fds
<1> DEFINE less == OpToRel(<, Nat)
<1>3. /\ IsWellFoundedOn(less, Nat)
      /\ \A x, y \in Nat : <<x, y>> \in less <=> x < y
    BY NatLessThanWellFounded, Zenon DEF OpToRel
<1> HIDE DEF less
<1>4. PICK x \in S : \A y \in S : ~(<<y, x>> \in less)
  <2>1. IsWellFoundedOn(less, Nat)
      BY <1>3, Zenon
  <2> QED
      BY <1>2, <2>1, WFMin
<1>5. \A y \in S : ~(y < x)
    BY <1>2, <1>3, <1>4, Zenon
<1>6. \A y \in S : x <= y
    BY <1>2, <1>5
<1>7. Sock!Min(S) \in S
    BY <1>6 DEF Sock!Min
<1> QED
    BY <1>1, <1>7

\* What init() has opened is what the destructor closes, but for the socket
\* the epoll variant forgets.
LEMMA InitStores ==
    ASSUME SockInv, Sock!InitOk
    PROVE  SockInv'
<1>1. Sock!Range(Sock!Opened) = (IF input = "epoll" THEN {"epoll"} ELSE {}) \cup {"msop"} \cup ports
    BY OpenedAre DEF SockInv
<1>2. /\ \A f \in Sock!Fds : owner[f] # "input"
      /\ ~gone /\ ~leaked /\ ~failed
    BY DEF SockInv, NoInput, Sock!InitOk
<1>3. /\ \A r \in {"msop", "difop", "imu"} : r \notin Sock!Range(Sock!Opened) => Sock!Got(r) = -1
      /\ -1 \notin Sock!Fds
    BY DEF Sock!Got, Sock!Fds
<1>4. /\ sock_init' /\ ~failed' /\ ~gone' /\ ~leaked' /\ input' = input /\ ports' = ports
      /\ owner' = [f \in Sock!Fds |->
            IF \E r \in Sock!Range(Sock!Opened) : f = Sock!Got(r) THEN "input" ELSE owner[f]]
    BY <1>2 DEF Sock!InitOk
<1>5. CASE input # "epoll"
  <2>1. fds' = [msop |-> Sock!Got("msop"), difop |-> Sock!Got("difop"), imu |-> Sock!Got("imu")]
      BY <1>5 DEF Sock!InitOk, Sock!Store, Sock!SelectStores, Sock!WinStores, SockInv
  <2>2. Sock!Closed' = {Sock!Got("msop"), Sock!Got("difop"), Sock!Got("imu")}
      BY <1>4, <1>5, <2>1 DEF Sock!Closed, Sock!Roles
  <2>3. \A f \in Sock!Fds : owner'[f] = "input" <=> f \in Sock!Closed'
      BY <1>1, <1>2, <1>3, <1>4, <1>5, <2>2 DEF SockInv
  <2>4. fds' = [r \in Sock!Roles |-> fds'[r]]
      BY <2>1 DEF Sock!Roles
  <2>5. owner' \in [Sock!Fds -> {"none", "input", "other"}]
      BY <1>4 DEF SockInv
  <2> QED
      BY <1>4, <1>5, <2>3, <2>4, <2>5 DEF SockInv, Forgets
<1>6. CASE input = "epoll"
  <2>1. /\ fds' = [fds EXCEPT !.msop = Sock!Got("msop"), !.difop = Sock!Got("difop")]
        /\ epfd' = Sock!Got("epoll")
      BY <1>6 DEF Sock!InitOk, Sock!Store, Sock!EpollStores
  <2>2. PICK m, d, e : m = Sock!Got("msop") /\ d = Sock!Got("difop") /\ e = Sock!Got("epoll")
      OBVIOUS
  <2>3. /\ fds' = [fds EXCEPT !.msop = m, !.difop = d] /\ epfd' = e
      BY <2>1, <2>2
  <2>4. fds' = [r \in Sock!Roles |-> fds'[r]]
      BY <2>3 DEF SockInv, Sock!Roles
  <2>5. {m, d, e} \subseteq Sock!Closed'
    <3>1. fds'["msop"] = m /\ fds'["difop"] = d
        BY <2>3 DEF SockInv, Sock!Roles
    <3> QED
        BY <1>4, <1>6, <2>3, <3>1 DEF Sock!Closed, Sock!Roles
  <2>6. ASSUME ~Forgets, NEW f \in Sock!Fds, owner'[f] = "input" PROVE f \in Sock!Closed'
    <3>1. PICK r \in Sock!Range(Sock!Opened) : f = Sock!Got(r)
        BY <1>2, <1>4, <2>6
    <3>2. r \in {"epoll", "msop", "difop"}
        BY <1>1, <1>6, <2>6 DEF Forgets, SockInv
    <3> QED
        BY <2>2, <2>5, <3>1, <3>2
  <2>7. owner' \in [Sock!Fds -> {"none", "input", "other"}]
      BY <1>4 DEF SockInv
  <2> QED
      BY <1>4, <1>6, <2>4, <2>6, <2>7 DEF SockInv, Forgets
<1> QED
    BY <1>5, <1>6

\* Before init() and after its failure the rest of the process cannot make a
\* descriptor the object's.
LEMMA OthersStep ==
    ASSUME SockInv, Sock!OtherOpens \/ \E f \in Sock!Fds : Sock!OtherCloses(f)
    PROVE  SockInv'
<1>1. PICK g \in Sock!Fds, o \in {"none", "other"} :
         owner[g] # "input" /\ owner' = [owner EXCEPT ![g] = o]
  <2>1. CASE Sock!OtherOpens
      BY <2>1, LowestIsFree DEF Sock!OtherOpens, Sock!Free
  <2>2. ASSUME NEW f \in Sock!Fds, Sock!OtherCloses(f)
        PROVE  owner[f] # "input" /\ owner' = [owner EXCEPT ![f] = "none"]
      BY <2>2 DEF Sock!OtherCloses
  <2> QED
      BY <2>1, <2>2
<1>2. \A f \in Sock!Fds : owner'[f] = "input" <=> owner[f] = "input"
    BY <1>1 DEF SockInv
<1>3. UNCHANGED <<input, ports, fds, epfd, sock_init, failed, gone, leaked, robbed>>
    BY DEF Sock!OtherOpens, Sock!OtherCloses
<1>4. owner' \in [Sock!Fds -> {"none", "input", "other"}]
    BY <1>1 DEF SockInv
<1>5. Sock!Closed' = Sock!Closed
    BY <1>3 DEF Sock!Closed
<1>6. Sock!DescriptorsRight => Sock!DescriptorsRight'
    BY <1>2, <1>3 DEF Sock!DescriptorsRight
<1> QED
    BY <1>2, <1>3, <1>4, <1>5, <1>6 DEF SockInv, NoInput, Forgets

\* The destructor closes what is left, and under select nobody else's.
LEMMA DestroyStep ==
    ASSUME SockInv, Sock!Destroy
    PROVE  SockInv'
<1>1. /\ gone' /\ robbed' = {f \in Sock!Closed \cap Sock!Fds : owner[f] = "other"}
      /\ owner' = [f \in Sock!Fds |-> IF f \in Sock!Closed THEN "none" ELSE owner[f]]
      /\ UNCHANGED <<input, ports, fds, sock_init, failed, leaked>> /\ ~gone /\ (sock_init \/ failed)
    BY DEF Sock!Destroy
<1>2. sock_init /\ input # "epoll" => robbed' = {}
    BY <1>1 DEF SockInv
<1>3. ~leaked /\ ~Forgets => \A f \in Sock!Fds : owner'[f] # "input"
  <2>1. CASE sock_init
      BY <1>1, <2>1 DEF SockInv
  <2>2. CASE ~sock_init
      BY <1>1, <2>2 DEF SockInv, NoInput
  <2> QED
      BY <2>1, <2>2
<1>4. Sock!DescriptorsRight'
    BY <1>1, <1>2, <1>3 DEF Sock!DescriptorsRight, Forgets
<1>5. owner' \in [Sock!Fds -> {"none", "input", "other"}]
    BY <1>1 DEF SockInv
<1>6. ~sock_init' /\ ~leaked' => NoInput'
    BY <1>1 DEF SockInv, NoInput
<1> QED
    BY <1>1, <1>4, <1>5, <1>6 DEF SockInv

\* An init() that fails has closed what it opened, or left one socket open.
LEMMA FailsStep ==
    ASSUME SockInv, NEW role, NEW leaks \in BOOLEAN, Sock!InitFails(role, leaks)
    PROVE  SockInv'
<1>1. /\ ~sock_init /\ ~failed /\ ~leaked /\ ~gone /\ NoInput
      /\ failed' /\ leaked' = leaks /\ UNCHANGED <<input, ports, sock_init, gone>>
      /\ owner' = IF leaks THEN [owner EXCEPT ![Sock!Got(role)] = "input"] ELSE owner
    BY DEF Sock!InitFails, SockInv
<1>2. owner' \in [Sock!Fds -> {"none", "input", "other"}]
    BY <1>1 DEF SockInv
<1>3. ~leaked' => NoInput'
    BY <1>1 DEF NoInput
<1>4. fds' = [r \in Sock!Roles |-> fds'[r]]
    BY DEF SockInv, Sock!InitFails, Sock!Store, Sock!SelectStores, Sock!EpollStores,
           Sock!WinStores, Sock!Roles
<1> QED
    BY <1>1, <1>2, <1>3, <1>4 DEF SockInv

LEMMA SockStep == SockInv /\ [Sock!SockNext]_Sock!sockVars => SockInv'
<1> SUFFICES ASSUME SockInv, [Sock!SockNext]_Sock!sockVars PROVE SockInv'
    OBVIOUS
<1>1. ASSUME UNCHANGED <<input, ports, owner, fds, epfd, sock_init, failed, gone, leaked, robbed>>
      PROVE  SockInv'
    BY <1>1 DEF SockInv, NoInput, Forgets, Sock!Closed, Sock!DescriptorsRight
<1>2. CASE Sock!Start \/ Sock!StopTold \/ Sock!StopJoined
    BY <1>1, <1>2 DEF Sock!Start, Sock!StopTold, Sock!StopJoined
<1>3. CASE Sock!Wait \/ Sock!WaitFails \/ Sock!Read
    BY <1>1, <1>3 DEF Sock!Wait, Sock!WaitFails, Sock!Read, Sock!ReadSelect, Sock!ReadWin,
                      Sock!ReadEpoll, Sock!ByRecv
<1>4. CASE \E r \in Sock!Roles : Sock!Arrive(r)
    BY <1>1, <1>4 DEF Sock!Arrive
<1>5. CASE UNCHANGED Sock!sockVars
    BY <1>1, <1>5 DEF Sock!sockVars
<1> QED
    BY <1>2, <1>3, <1>4, <1>5, InitStores, FailsStep, DestroyStep, OthersStep DEF Sock!SockNext

(***************************************************************************)
(* input_sock_*.hpp: whatever descriptors other threads open and close     *)
(* meanwhile and wherever init() fails, an object of the select variants   *)
(* whose init() succeeded closes what is its own and nothing else; nothing *)
(* is left open but what createSocket or the epoll variant forgets.        *)
(***************************************************************************)
THEOREM DescriptorsAreRight == SockSpec => []Sock!DescriptorsRight
<1>1. Sock!SockInit => SockInv
  <2> SUFFICES ASSUME Sock!SockInit PROVE SockInv
      OBVIOUS
  <2>1. /\ owner \in [Sock!Fds -> {"none", "input", "other"}] /\ NoInput
        /\ input \in {"select", "epoll", "win"} /\ ports \subseteq {"difop", "imu"}
        /\ ~sock_init /\ ~failed /\ ~gone /\ ~leaked
        /\ fds = [r \in Sock!Roles |-> fds[r]]
      BY DEF Sock!SockInit, NoInput, Sock!Roles
  <2> QED
      BY <2>1 DEF SockInv
<1>2. SockInv => Sock!DescriptorsRight
    BY DEF SockInv, Sock!DescriptorsRight
<1> QED
    BY <1>1, <1>2, SockStep, PTL DEF SockSpec
=============================================================================
