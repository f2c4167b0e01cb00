--------------------------- MODULE PacketPipeline ---------------------------
(***************************************************************************)
(* LidarDriverImpl (driver/lidar_driver_impl.hpp) between its input and    *)
(* its decoder: recv_thread takes Buffers from free_pkt_queue_, fills them *)
(* from the socket (driver/input/unix/input_sock_select.hpp) and pushes    *)
(* them to pkt_queue_; handle_thread_ pops batches, decodes the packets    *)
(* and returns the Buffers; the user starts and stops the session.         *)
(*                                                                         *)
(* pkt_queue_ is the SyncQueue of module SyncQueue, atomic step by atomic  *)
(* step, with the clear() that packetPut() calls on overflow.              *)
(* free_pkt_queue_ has one producer (handle_thread_) and one consumer      *)
(* (recv_thread) and is never cleared: by the theorem QueueIsFifo it is a  *)
(* bounded FIFO, and its calls are one step each.                          *)
(***************************************************************************)
EXTENDS Integers, Sequences, FiniteSets, SequencesExt

CONSTANTS
    Buffers,        \* Buffer objects
    Null,           \* the null shared_ptr
    Capacity,       \* slots of pkt_queue_
    FreeBound,      \* Buffers that free_pkt_queue_ holds
    MaxBatch,       \* 50 in processPacket()
    PoolSize,       \* VLEN in recvPacket()
    MaxPackets,     \* bound: packets that arrive
    MaxSessions     \* bound: calls of start()

\* The ring has room for one packet and popBatch takes at least one (module
\* SyncQueue assumes as much), and a Buffer is not null.
ASSUME PipelineAssumption ==
    /\ Capacity \in Nat /\ Capacity >= 2 /\ MaxBatch \in Nat \ {0}
    /\ PoolSize \in Nat /\ FreeBound \in Nat /\ Null \notin Buffers

VARIABLES
    \* pkt_queue_ and the two threads' calls of it (module SyncQueue)
    buffer, head, tail, ppc, pval, ptail, accepted,
    cpc, cop, chead, ccount, batch, out,
    free,           \* free_pkt_queue_
    content,        \* the number of the packet in each Buffer, 0 if none
    received,       \* packets received so far; they are numbered from 1
    pool,           \* recvPacket(): pkt_pool
    ready,          \* pool slots recvmmsg filled that are still to be pushed
    rpc,            \* recv_thread: "off", "select", "fill", "push", "overflow"
    hpc,            \* handle_thread_: "off", "loop", "batch", "decode",
                    \* "recycle", or "crashed" on a null packet
    todo,           \* processPacket(): what is left of pkt_batch
    handled,        \* the number of the last packet decoded
    upc,            \* the user's call: "idle", "joinRecv", "joinHandle"
    startFlag,      \* start_flag_
    toExitRecv,     \* to_exit_recv_
    toExitHandle,   \* to_exit_handle_
    sessions,       \* how often start() has run
    overflowed,     \* history: has a push found pkt_queue_ full?
    raced           \* history: has clear() hit a popBatch between its loads
                    \* of the indices and its store of the head?

qVars == <<buffer, head, tail, ppc, pval, ptail, accepted,
           cpc, cop, chead, ccount, batch, out>>
recvVars == <<content, received, pool, ready, rpc>>
handleVars == <<hpc, todo, handled>>
userVars == <<upc, startFlag, toExitRecv, toExitHandle, sessions>>
vars == <<qVars, free, recvVars, handleVars, userVars, overflowed, raced>>

Q == INSTANCE SyncQueue WITH Values <- Buffers

Pool == 1..PoolSize
EmptyPool == [k \in Pool |-> Null]
\* Broken variant of First: the pool is worked off from its end.
LastOf(S) == CHOOSE k \in S : \A j \in S : k >= j
First(S) == CHOOSE k \in S : \A j \in S : k <= j

\* The Buffers some shared_ptr still points to.  A slot of the ring keeps
\* its pointer after the pop: pop and popBatch copy it.
Live == {buffer[i] : i \in Q!Slots} \cup {pool[k] : k \in Pool}
          \cup ToSet(free) \cup ToSet(todo) \cup ToSet(batch)

Init ==
    /\ Q!Init
    /\ free = <<>>
    /\ content = [b \in Buffers |-> 0]
    /\ received = 0
    /\ pool = EmptyPool /\ ready = {} /\ rpc = "off"
    /\ hpc = "off" /\ todo = <<>> /\ handled = 0
    /\ upc = "idle" /\ startFlag = FALSE
    /\ toExitRecv = FALSE /\ toExitHandle = FALSE
    /\ sessions = 0
    /\ overflowed = FALSE /\ raced = FALSE

-----------------------------------------------------------------------------
(* The user's thread.                                                      *)

\* Broken variant of Start: to_exit_handle_ keeps the value stop() gave it.
StartStale ==
    /\ hpc # "crashed"
    /\ upc = "idle" /\ ~startFlag
    /\ sessions < MaxSessions
    /\ sessions' = sessions + 1
    /\ hpc' = "loop"
    /\ toExitRecv' = FALSE /\ rpc' = "select"
    /\ startFlag' = TRUE
    /\ UNCHANGED <<qVars, free, content, received, pool, ready, todo, handled,
                   upc, toExitHandle, overflowed, raced>>

Start ==
    /\ hpc # "crashed"
    /\ upc = "idle" /\ ~startFlag
    /\ sessions < MaxSessions
    /\ sessions' = sessions + 1
    /\ toExitHandle' = FALSE /\ hpc' = "loop"
    /\ toExitRecv' = FALSE /\ rpc' = "select"
    /\ startFlag' = TRUE
    /\ UNCHANGED <<qVars, free, content, received, pool, ready, todo, handled,
                   upc, overflowed, raced>>

\* stop(): input_ptr_->stop() raises its flag and waits for recv_thread ...
StopRecv ==
    /\ hpc # "crashed"
    /\ upc = "idle" /\ startFlag
    /\ toExitRecv' = TRUE
    /\ upc' = "joinRecv"
    /\ UNCHANGED <<qVars, free, recvVars, handleVars, startFlag, toExitHandle,
                   sessions, overflowed, raced>>

\* Broken variant of StopHandle: handle_thread_ is joined without being told.
StopHandleUntold ==
    /\ hpc # "crashed"
    /\ upc = "joinRecv" /\ rpc = "off"
    /\ upc' = "joinHandle"
    /\ UNCHANGED <<qVars, free, recvVars, handleVars, startFlag, toExitRecv,
                   toExitHandle, sessions, overflowed, raced>>

\* ... then handle_thread_ is told to exit ...
StopHandle ==
    /\ hpc # "crashed"
    /\ upc = "joinRecv" /\ rpc = "off"
    /\ toExitHandle' = TRUE
    /\ upc' = "joinHandle"
    /\ UNCHANGED <<qVars, free, recvVars, handleVars, startFlag, toExitRecv,
                   sessions, overflowed, raced>>

\* ... and joined.  The points collected so far are cleared; pkt_queue_ is not.
StopDone ==
    /\ upc = "joinHandle" /\ hpc = "off"
    /\ startFlag' = FALSE
    /\ upc' = "idle"
    /\ UNCHANGED <<qVars, free, recvVars, handleVars, toExitRecv, toExitHandle,
                   sessions, overflowed, raced>>

-----------------------------------------------------------------------------
(* recv_thread: recvPacket(), packetGet() and packetPut().                 *)

\* A step of recv_thread, while the process lives.
ByRecv == hpc # "crashed" /\ UNCHANGED <<handleVars, userVars>>

\* The loop ends on to_exit_recv_, or on an error of select.  The pool is a
\* local of the thread function and dies with it.
RecvExit ==
    /\ rpc = "select"
    /\ rpc' = "off"
    /\ pool' = EmptyPool
    /\ ByRecv
    /\ UNCHANGED <<qVars, free, content, received, ready, overflowed, raced>>

\* select reports a readable socket.  (On its 1 s timeout the loop restarts.)
RecvReadable ==
    /\ rpc = "select" /\ ~toExitRecv
    /\ received < MaxPackets
    /\ rpc' = "fill"
    /\ ByRecv
    /\ UNCHANGED <<qVars, free, content, received, pool, ready, overflowed, raced>>

\* packetGet(): a recycled Buffer if there is one, else a new one.
RecvRefill ==
    LET empty == {k \in Pool : pool[k] = Null}
        k == First(empty)
    IN  /\ rpc = "fill" /\ empty # {}
        /\ IF free # <<>>
             THEN /\ pool' = [pool EXCEPT ![k] = Head(free)]
                  /\ free' = Tail(free)
             ELSE /\ Buffers \ Live # {}
                  /\ pool' = [pool EXCEPT ![k] = CHOOSE b \in Buffers \ Live : TRUE]
                  /\ UNCHANGED free
        /\ ByRecv
        /\ UNCHANGED <<qVars, content, received, ready, rpc, overflowed, raced>>

\* recvmmsg fills the first n Buffers of the pool, or fails (n = 0).  Those
\* in good hold more than the user and tail layers and will be pushed; a
\* shorter datagram leaves its Buffer in the pool.
RecvMmsg(n, good) ==
    /\ rpc = "fill" /\ \A k \in Pool : pool[k] # Null
    /\ received + Cardinality(good) <= MaxPackets
    /\ received' = received + Cardinality(good)
    /\ content' = [b \in Buffers |->
                     IF \E k \in good : pool[k] = b
                       THEN received + Cardinality({j \in good : \E k \in good : pool[k] = b /\ j <= k})
                       ELSE IF \E k \in 1..n : pool[k] = b THEN 0 ELSE content[b]]
    /\ ready' = good
    /\ rpc' = IF good = {} THEN "select" ELSE "push"
    /\ ByRecv
    /\ UNCHANGED <<qVars, free, pool, overflowed, raced>>

\* Broken variant of Pushed: the pool keeps the Buffer it has pushed.
PushedKept ==
    LET k == First(ready)
    IN  /\ ready' = ready \ {k}
        /\ rpc' = IF ready = {k} THEN "select" ELSE "push"
        /\ UNCHANGED pool

\* pushPacket(pkt_pool[k]) and pkt_pool[k] = nullptr, once packetPut returned.
Pushed ==
    LET k == First(ready)
    IN  /\ pool' = [pool EXCEPT ![k] = Null]
        /\ ready' = ready \ {k}
        /\ rpc' = IF ready = {k} THEN "select" ELSE "push"

\* packetPut(): pkt_queue_.push(pkt) up to its outcome.
RecvPush ==
    /\ rpc = "push"
    /\ \/ Q!PushLoadTail(pool[First(ready)])
       \/ Q!PushRoom
       \/ Q!PushWriteSlot
    /\ ByRecv
    /\ UNCHANGED <<free, recvVars, overflowed, raced>>

RecvPushed ==
    /\ rpc = "push"
    /\ Q!PushPublish
    /\ Pushed
    /\ ByRecv
    /\ UNCHANGED <<free, content, received, overflowed, raced>>

\* push returned -1: ERRCODE_PKTBUFOVERFLOW is reported ...
RecvFull ==
    /\ rpc = "push"
    /\ Q!PushFull
    /\ rpc' = "overflow"
    /\ overflowed' = TRUE
    /\ ByRecv
    /\ UNCHANGED <<free, content, received, pool, ready, raced>>

\* ... and recv_thread, the producer, clears pkt_queue_.
RecvClearBegin ==
    /\ rpc = "overflow"
    /\ Q!ClearBegin
    /\ ByRecv
    /\ UNCHANGED <<free, recvVars, overflowed, raced>>

\* The indices that popBatch works with after its second load of the head.
HoldsIndices == cpc \in {"count", "copy"}

RecvClear ==
    /\ rpc = "overflow"
    /\ Q!ClearHead \/ Q!ClearTail
    /\ raced' = (raced \/ HoldsIndices)
    /\ IF ppc' = "idle" THEN Pushed ELSE UNCHANGED <<pool, ready, rpc>>
    /\ ByRecv
    /\ UNCHANGED <<free, content, received, overflowed>>

-----------------------------------------------------------------------------
(* handle_thread_: processPacket() and internalProcessPacket().            *)

\* A step of handle_thread_; none follows a crash.
ByHandle == UNCHANGED <<recvVars, userVars, overflowed>>

HandleExit ==
    /\ hpc = "loop" /\ toExitHandle
    /\ hpc' = "off"
    /\ ByHandle
    /\ UNCHANGED <<qVars, free, todo, handled, raced>>

HandlePoll ==
    /\ hpc = "loop" /\ ~toExitHandle
    /\ Q!PopLoadHead("popBatch")
    /\ hpc' = "batch"
    /\ ByHandle
    /\ UNCHANGED <<free, todo, handled, raced>>

\* The steps inside popBatch.
HandleBatch ==
    /\ hpc = "batch"
    /\ \/ Q!PopRetry
       \/ Q!BatchReloadHead
       \/ Q!BatchCount
       \/ Q!PopCopySlot
    /\ raced' = (raced \/ (cpc' = "count" /\ ppc \in {"clearHead", "clearTail"}))
    /\ ByHandle
    /\ UNCHANGED <<free, handleVars>>

\* popBatch returns nothing after 500 ms, or what it copied.
HandleNothing ==
    /\ hpc = "batch"
    /\ Q!PopEmpty
    /\ hpc' = "loop"
    /\ ByHandle
    /\ UNCHANGED <<free, todo, handled, raced>>

HandleGot ==
    /\ hpc = "batch"
    /\ Q!PopAdvance
    /\ todo' = batch
    /\ hpc' = IF batch = <<>> THEN "loop" ELSE "decode"
    /\ ByHandle
    /\ UNCHANGED <<free, handled, raced>>

\* internalProcessPacket(): decode the packet in the Buffer ...
HandleDecode ==
    /\ hpc = "decode"
    /\ IF Head(todo) = Null
         THEN hpc' = "crashed" /\ UNCHANGED handled
         ELSE hpc' = "recycle" /\ handled' = content[Head(todo)]
    /\ ByHandle
    /\ UNCHANGED <<qVars, free, todo, raced>>

\* ... and give it back; a push to a full free_pkt_queue_ drops the Buffer.
HandleRecycle ==
    /\ hpc = "recycle"
    /\ free' = IF Len(free) < FreeBound THEN Append(free, Head(todo)) ELSE free
    /\ todo' = Tail(todo)
    /\ hpc' = IF Len(todo) = 1 THEN "loop" ELSE "decode"
    /\ ByHandle
    /\ UNCHANGED <<qVars, handled, raced>>

-----------------------------------------------------------------------------
User == Start \/ StopRecv \/ StopHandle \/ StopDone

Recv ==
    \/ RecvExit \/ RecvReadable \/ RecvRefill
    \/ \E n \in 0..PoolSize : \E good \in SUBSET (1..n) : RecvMmsg(n, good)
    \/ RecvPush \/ RecvPushed \/ RecvFull \/ RecvClearBegin \/ RecvClear

Handle ==
    \/ HandleExit \/ HandlePoll \/ HandleBatch \/ HandleNothing \/ HandleGot
    \/ HandleDecode \/ HandleRecycle

\* A crash ends the process, and the model ends when the last session does.
Ended ==
    /\ \/ hpc = "crashed"
       \/ upc = "idle" /\ ~startFlag /\ sessions = MaxSessions
    /\ UNCHANGED vars

Next ==
    \/ User
    \/ Recv
    \/ Handle
    \/ Ended

Spec == Init /\ [][Next]_vars

\* Threads that can move do: recv_thread leaves its loop once it is told to
\* and finishes the round it is in (the arrival of packets and the failure of
\* select are not promised), handle_thread_ keeps polling, and a user inside
\* stop() goes on when the thread it joins has ended.
RecvProgress ==
    \/ toExitRecv /\ RecvExit
    \/ rpc # "select" /\ Recv
StopProgress == StopHandle \/ StopDone

FairSpec ==
    /\ Spec
    /\ WF_vars(RecvProgress)
    /\ WF_vars(Handle)
    /\ WF_vars(StopProgress)

-----------------------------------------------------------------------------
(* Properties.                                                             *)

\* What pkt_queue_ holds; nothing while clear() is between its two stores.
Pending == IF ppc \in {"clearHead", "clearTail"} THEN <<>> ELSE Q!Contents

\* The places that own a Buffer, and whose they are.
Places == <<free, pool, Pending, todo>>
Owned(p) == ToSet(Places[p]) \ {Null}

NoneTwice(s) == \A i, j \in DOMAIN s : s[i] = s[j] /\ s[i] # Null => i = j
Apart == \A p, q \in DOMAIN Places : p # q => Owned(p) \cap Owned(q) = {}

(***************************************************************************)
(* A Buffer is in one place at a time: free, in recv_thread's pool, queued *)
(* or with handle_thread_.  Otherwise the kernel would write a packet into *)
(* a Buffer that is being decoded.  It survives overflows as long as no    *)
(* clear() hits a popBatch that holds loaded indices.  And handle_thread_  *)
(* pops nothing but pushed packets: it never meets a null one.             *)
(***************************************************************************)
ExclusiveBuffers ==
    raced \/ /\ hpc # "crashed"
             /\ Apart /\ \A p \in DOMAIN Places : NoneTwice(Places[p])

(***************************************************************************)
(* Packets are decoded in the order they arrived and at most once; as long *)
(* as pkt_queue_ never overflowed, none is missing, whatever sessions end  *)
(* and begin in between.                                                   *)
(***************************************************************************)
HandledInOrder ==
    [][/\ raced' \/ handled' > handled
       /\ overflowed' \/ handled' = handled + 1]_handled

(***************************************************************************)
(* stop() returns: both threads see their flag and can be joined, however  *)
(* full pkt_queue_ is and even if clear() has corrupted it.                *)
(***************************************************************************)
StopReturns == (upc # "idle") ~> (upc = "idle" \/ hpc = "crashed")

(***************************************************************************)
(* While a session goes on and pkt_queue_ has not overflowed, every packet *)
(* received is decoded, those left over from the last session included.    *)
(***************************************************************************)
EventuallyDecoded ==
    \A p \in 1..MaxPackets :
        (startFlag /\ received >= p)
            ~> (handled >= p \/ overflowed \/ toExitRecv)

(***************************************************************************)
(* What the thread model document says of an overflow: packets are         *)
(* discarded.  None is decoded twice or after a later one.                 *)
(***************************************************************************)
OverflowOnlyDiscards == [][handled' > handled]_handled

=============================================================================
