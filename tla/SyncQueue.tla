----------------------------- MODULE SyncQueue ------------------------------
(***************************************************************************)
(* utility/sync_queue.hpp: the ring buffer that hands packets and point    *)
(* clouds from one thread to another.  head and tail are atomics, the      *)
(* slots are plain objects, and nothing locks: every load, store and slot  *)
(* access is one step here.                                                *)
(*                                                                         *)
(* One producer and one consumer thread call the queue.  Next holds their  *)
(* push, pop, popWait and popBatch calls.  clear() is defined below it:    *)
(* only LidarDriverImpl calls it, from the producer (PacketPipeline).      *)
(***************************************************************************)
EXTENDS Integers, Sequences

CONSTANTS
    Capacity,   \* template parameter: the number of slots
    Values,     \* what is queued (shared_ptr targets)
    Null,       \* the default-constructed value
    MaxBatch    \* max_count of popBatch

ASSUME CapacityAssumption == Capacity \in Nat /\ Capacity >= 2
ASSUME MaxBatchAssumption == MaxBatch \in Nat \ {0}
ASSUME NullAssumption == Null \notin Values

VARIABLES
    buffer,     \* buffer_
    head,       \* head_, the oldest value's slot
    tail,       \* tail_, the slot of the next push
    ppc,        \* where the producer is in its call
    pval,       \* push: value
    ptail,      \* push: current_tail
    accepted,   \* did the last push store its value (else it returned -1)
    cpc,        \* where the consumer is in its call
    cop,        \* which call that is
    chead,      \* pop, popWait, popBatch: current_head
    ccount,     \* popBatch: real_count; 1 for the others
    batch,      \* out_batch, or the one value read so far
    out         \* what the consumer's last call returned

producerVars == <<ppc, pval, ptail, accepted>>
consumerVars == <<cpc, cop, chead, ccount, batch, out>>
vars == <<buffer, head, tail, producerVars, consumerVars>>

Slots == 0..(Capacity - 1)

\* The slot i places after h.
Slot(h, i) == (h + i) % Capacity

\* size() of a queue whose indices read h and t.
Size(h, t) == IF t >= h THEN t - h ELSE Capacity - h + t

Least(a, b) == IF a <= b THEN a ELSE b

Init ==
    /\ buffer = [i \in Slots |-> Null]
    /\ head = 0 /\ tail = 0
    /\ ppc = "idle" /\ pval = Null /\ ptail = 0 /\ accepted = TRUE
    /\ cpc = "idle" /\ cop = "pop" /\ chead = 0 /\ ccount = 0
    /\ batch = <<>> /\ out = <<>>

-----------------------------------------------------------------------------
(* The producer: push(value).                                              *)

PushLoadTail(v) ==
    /\ ppc = "idle"
    /\ ppc' = "check"
    /\ pval' = v
    /\ ptail' = tail
    /\ UNCHANGED <<buffer, head, tail, accepted, consumerVars>>

\* next_tail == head: the queue is full, push returns -1.
PushFull ==
    /\ ppc = "check"
    /\ Slot(ptail, 1) = head
    /\ ppc' = "idle"
    /\ accepted' = FALSE
    /\ UNCHANGED <<buffer, head, tail, pval, ptail, consumerVars>>

\* Broken variant of PushRoom: push() does not look for room.
PushRoomUnchecked ==
    /\ ppc = "check"
    /\ ppc' = "write"
    /\ UNCHANGED <<buffer, head, tail, pval, ptail, accepted, consumerVars>>

\* Broken variant of PushRoom: tail_ is stored before the slot is.
PushRoomPublishing ==
    /\ ppc = "check"
    /\ Slot(ptail, 1) # head
    /\ tail' = Slot(ptail, 1)
    /\ ppc' = "write"
    /\ UNCHANGED <<buffer, head, pval, ptail, accepted, consumerVars>>

PushRoom ==
    /\ ppc = "check"
    /\ Slot(ptail, 1) # head
    /\ ppc' = "write"
    /\ UNCHANGED <<buffer, head, tail, pval, ptail, accepted, consumerVars>>

PushWriteSlot ==
    /\ ppc = "write"
    /\ buffer' = [buffer EXCEPT ![ptail] = pval]
    /\ ppc' = "publish"
    /\ UNCHANGED <<head, tail, pval, ptail, accepted, consumerVars>>

\* The size() that push returns afterwards changes nothing and no caller uses it.
PushPublish ==
    /\ ppc = "publish"
    /\ tail' = Slot(ptail, 1)
    /\ accepted' = TRUE
    /\ ppc' = "idle"
    /\ UNCHANGED <<buffer, head, pval, ptail, consumerVars>>

-----------------------------------------------------------------------------
(* The consumer: pop(), popWait(usec), popBatch(out_batch, max, usec).     *)

PopLoadHead(op) ==
    /\ cpc = "idle"
    /\ cop' = op
    /\ chead' = head
    /\ batch' = <<>>
    /\ cpc' = "check"
    /\ UNCHANGED <<buffer, head, tail, producerVars, ccount, out>>

\* The queue looks empty: pop, or a wait whose time is up, returns nothing.
PopEmpty ==
    /\ cpc = "check"
    /\ chead = tail
    /\ out' = <<>>
    /\ cpc' = "idle"
    /\ UNCHANGED <<buffer, head, tail, producerVars, cop, chead, ccount, batch>>

\* popWait and popBatch sleep for 1 ms and look again until usec have passed.
PopRetry ==
    /\ cpc = "check"
    /\ cop # "pop"
    /\ chead = tail
    /\ chead' = head
    /\ UNCHANGED <<buffer, head, tail, producerVars, cpc, cop, ccount, batch, out>>

PopFound ==
    /\ cpc = "check"
    /\ cop # "popBatch"
    /\ chead # tail
    /\ ccount' = 1
    /\ cpc' = "copy"
    /\ UNCHANGED <<buffer, head, tail, producerVars, cop, chead, batch, out>>

\* popBatch leaves its polling loop and loads the head a second time ...
BatchReloadHead ==
    /\ cpc = "check"
    /\ cop = "popBatch"
    /\ chead # tail
    /\ chead' = head
    /\ cpc' = "count"
    /\ UNCHANGED <<buffer, head, tail, producerVars, cop, ccount, batch, out>>

\* Broken variant of BatchCount: max_count values, however many there are.
BatchCountMax ==
    /\ cpc = "count"
    /\ ccount' = MaxBatch
    /\ cpc' = "copy"
    /\ UNCHANGED <<buffer, head, tail, producerVars, cop, chead, batch, out>>

\* ... then the tail, and takes what lies between, at most max_count.
BatchCount ==
    /\ cpc = "count"
    /\ ccount' = Least(MaxBatch, Size(chead, tail))
    /\ cpc' = "copy"
    /\ UNCHANGED <<buffer, head, tail, producerVars, cop, chead, batch, out>>

PopCopySlot ==
    /\ cpc = "copy"
    /\ Len(batch) < ccount
    /\ batch' = Append(batch, buffer[Slot(chead, Len(batch))])
    /\ UNCHANGED <<buffer, head, tail, producerVars, cpc, cop, chead, ccount, out>>

\* Broken variant of PopAdvance: the head skips what the batch had no room for.
PopAdvanceToTail ==
    /\ cpc = "copy"
    /\ Len(batch) >= ccount
    /\ head' = tail
    /\ out' = batch
    /\ cpc' = "idle"
    /\ UNCHANGED <<buffer, tail, producerVars, cop, chead, ccount, batch>>

PopAdvance ==
    /\ cpc = "copy"
    /\ Len(batch) >= ccount
    /\ head' = Slot(chead, ccount)
    /\ out' = batch
    /\ cpc' = "idle"
    /\ UNCHANGED <<buffer, tail, producerVars, cop, chead, ccount, batch>>

-----------------------------------------------------------------------------
Producer ==
    \/ \E v \in Values : PushLoadTail(v)
    \/ PushFull
    \/ PushRoom
    \/ PushWriteSlot
    \/ PushPublish

Consumer ==
    \/ \E op \in {"pop", "popWait", "popBatch"} : PopLoadHead(op)
    \/ PopEmpty
    \/ PopRetry
    \/ PopFound
    \/ BatchReloadHead
    \/ BatchCount
    \/ PopCopySlot
    \/ PopAdvance

Next == Producer \/ Consumer

Spec == Init /\ [][Next]_vars

\* The consumer threads poll their queue until they are told to exit.
FairSpec == Spec /\ WF_vars(Consumer)

-----------------------------------------------------------------------------
(* clear(): two relaxed stores, which may take effect in either order.     *)

ClearBegin ==
    /\ ppc = "idle"
    /\ ppc' = "clear"
    /\ UNCHANGED <<buffer, head, tail, pval, ptail, accepted, consumerVars>>

ClearHead ==
    /\ ppc \in {"clear", "clearHead"}
    /\ head' = 0
    /\ ppc' = IF ppc = "clear" THEN "clearTail" ELSE "idle"
    /\ UNCHANGED <<buffer, tail, pval, ptail, accepted, consumerVars>>

ClearTail ==
    /\ ppc \in {"clear", "clearTail"}
    /\ tail' = 0
    /\ ppc' = IF ppc = "clear" THEN "clearHead" ELSE "idle"
    /\ UNCHANGED <<buffer, head, pval, ptail, accepted, consumerVars>>

-----------------------------------------------------------------------------
(* Properties.                                                             *)

TypeOK ==
    /\ buffer \in [Slots -> Values \cup {Null}]
    /\ head \in Slots /\ tail \in Slots
    /\ ppc \in {"idle", "check", "write", "publish"}
    /\ pval \in Values \cup {Null}
    /\ ptail \in Slots
    /\ accepted \in BOOLEAN
    /\ cpc \in {"idle", "check", "count", "copy"}
    /\ cop \in {"pop", "popWait", "popBatch"}
    /\ chead \in Slots
    /\ ccount \in 0..MaxBatch
    /\ batch \in Seq(Values \cup {Null}) /\ Len(batch) <= MaxBatch
    /\ out \in Seq(Values \cup {Null})

(***************************************************************************)
(* What the two threads know of the ring between two of their own steps.   *)
(* The producer: nobody else moves the tail, and once it has seen room the *)
(* room stays.  The consumer: nobody else moves the head, what it saw      *)
(* queued stays queued, and what it copied is what the slots still hold.   *)
(* With TypeOK these two are inductive; the proofs rest on them.           *)
(***************************************************************************)
ProducerInv ==
    /\ ppc # "idle" => pval \in Values /\ ptail = tail
    /\ ppc \in {"write", "publish"} => Slot(tail, 1) # head
    /\ ppc = "publish" => buffer[tail] = pval

ConsumerInv ==
    /\ cpc # "idle" => chead = head
    /\ cpc \in {"check", "count"} => batch = <<>>
    /\ cpc = "count" => head # tail
    /\ cpc = "copy" =>
          /\ ccount \in 1..Size(head, tail)
          /\ Len(batch) <= ccount
          /\ \A i \in 1..Len(batch) : batch[i] = buffer[Slot(head, i - 1)]

RingInv == ProducerInv /\ ConsumerInv

\* The slots the consumer has still to read in its current call.
Unread == {Slot(chead, i) : i \in Len(batch)..(ccount - 1)}

(***************************************************************************)
(* No slot is written and read at once: the slots are plain shared_ptrs,   *)
(* so a push that stores into a slot a popBatch is copying would be a data *)
(* race on the reference count.                                            *)
(***************************************************************************)
NoSlotRace == ppc = "write" /\ cpc = "copy" => ptail \notin Unread

\* The values from slot h up to slot t, oldest first, and those of the queue.
Queued(b, h, t) == [i \in 1..Size(h, t) |-> b[Slot(h, i - 1)]]
Contents == Queued(buffer, head, tail)

Abs == INSTANCE BoundedQueue
         WITH items <- Contents, Bound <- Capacity - 1

(***************************************************************************)
(* The lock-free calls of the two threads behave as the atomic operations  *)
(* of a bounded FIFO: nothing is lost, duplicated or reordered, a push is  *)
(* refused only when Capacity - 1 values are queued and a pop returns      *)
(* nothing only when the queue is empty.                                   *)
(***************************************************************************)
ImplementsQueue == Abs!Spec

(***************************************************************************)
(* A consumer that keeps polling is handed every value that was pushed,    *)
(* whatever mix of pop, popWait and popBatch it uses and even if the       *)
(* producer never moves again.                                             *)
(***************************************************************************)
EventuallyTaken ==
    \A v \in Values :
        (\E i \in 1..Size(head, tail) : Contents[i] = v)
            ~> (\E i \in 1..Len(out) : out[i] = v)
=============================================================================
