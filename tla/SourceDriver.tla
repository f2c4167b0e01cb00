---------------------------- MODULE SourceDriver ----------------------------
(***************************************************************************)
(* The rslidar_sdk node: main and NodeManager set up a SourceDriver, run   *)
(* it until ctrl+c and tear it down.  handle_thread_ of LidarDriverImpl    *)
(* fills point clouds (and, built with ENABLE_IMU_DATA_PARSE, IMU          *)
(* samples), hands each finished one over through a queue and takes a free *)
(* one; a thread per stream sends what it finds to the destinations and    *)
(* returns the message through a second queue.                             *)
(*                                                                         *)
(* Both queues of a stream are SyncQueues with one producer and one        *)
(* consumer that nobody clears: by the theorem QueueIsFifo each call is    *)
(* one step of a bounded FIFO.                                             *)
(***************************************************************************)
EXTENDS Integers, Sequences, FiniteSets, SequencesExt

CONSTANTS
    Streams,        \* {"cloud"}, or {"cloud", "imu"} with IMU parsing
    Messages,       \* LidarPointCloudMsg and ImuData objects
    Null,           \* the null shared_ptr
    QueueBound,     \* messages that fit a queue
    MaxFrames,      \* bound: clouds that are completed
    MaxSamples      \* bound: IMU samples that are completed

ASSUME StreamsAssumption == "cloud" \in Streams /\ Streams \subseteq {"cloud", "imu"}

\* make_shared always finds an object nobody points to: the program points to
\* two per stream (one filled, one sent) and to those in its queues.
ASSUME MessagesAssumption ==
    /\ Null \notin Messages /\ QueueBound \in Nat
    /\ IsFiniteSet(Messages) =>
          Cardinality(Messages) > Cardinality(Streams) * (2 * QueueBound + 2)

VARIABLES
    main,           \* where main() is
    hpc,            \* handle_thread_: "off", "run", "put", "get"
    splitting,      \* the stream whose message is handed over at "put", "get"
    filling,        \* point_cloud_ and imuDataPtr_ of the decoder
    data,           \* the frames whose data a message holds
    seq,            \* the number in a message's header
    frames,         \* messages completed by each stream
    stuffed,        \* point_cloud_queue_, imu_data_queue_
    spare,          \* free_point_cloud_queue_, free_imu_data_queue_
    ppc,            \* the processing threads: "off", "poll", "send", "free"
    item,           \* the message a processing thread has popped
    published,      \* the number of the last message sent
    toExit,         \* to_exit_process_
    toExitHandle,   \* the exit flags of LidarDriverImpl and its input
    lost            \* history: streams whose queue has refused a message

exitVars == <<toExit, toExitHandle>>
fillVars == <<hpc, splitting, filling, data, seq, frames, lost>>
sendVars == <<ppc, item, published>>
queues == <<stuffed, spare>>
vars == <<main, exitVars, fillVars, sendVars, queues>>

\* The bound of each stream.
Bound(s) == IF s = "cloud" THEN MaxFrames ELSE MaxSamples

\* main() ends the process by exit(-1) or by std::terminate.
Alive == main \notin {"exited", "aborted"}

\* The messages some shared_ptr of the program points to.
Live == UNION {{filling[s], item[s]} \cup ToSet(stuffed[s]) \cup ToSet(spare[s]) : s \in Streams}

\* What make_shared returns.
Fresh == CHOOSE m \in Messages : m \notin Live

Init ==
    /\ main = "init"
    /\ toExit = FALSE /\ toExitHandle = FALSE
    /\ hpc = "off" /\ splitting = "cloud"
    /\ filling = [s \in Streams |-> Null]
    /\ data = [m \in Messages |-> {}]
    /\ seq = [m \in Messages |-> 0]
    /\ frames = [s \in Streams |-> 0]
    /\ lost = {}
    /\ ppc = [s \in Streams |-> "off"]
    /\ item = [s \in Streams |-> Null]
    /\ published = [s \in Streams |-> 0]
    /\ stuffed = [s \in Streams |-> <<>>]
    /\ spare = [s \in Streams |-> <<>>]

-----------------------------------------------------------------------------
(* main(), NodeManager and SourceDriver::init, start, stop, ~SourceDriver. *)

Goes(from, to) == main = from /\ main' = to

\* init(): the processing threads start before the driver is initialised.
InitThreads ==
    /\ Goes("init", "driver")
    /\ ppc' = [s \in Streams |-> "poll"]
    /\ UNCHANGED <<exitVars, fillVars, item, published, queues>>

\* LidarDriverImpl::init: the decoder gets its first messages, new ones since
\* nothing was returned yet.
InitDriver ==
    /\ Goes("driver", "register")
    /\ filling' = CHOOSE f \in [Streams -> Messages] : IsInjective(f)
    /\ UNCHANGED <<exitVars, hpc, splitting, data, seq, frames,
                   lost, sendVars, queues>>

\* The input could not be opened: exit(-1), with threads still running.
InitFails ==
    /\ Goes("driver", "exited")
    /\ UNCHANGED <<exitVars, fillVars, sendVars, queues>>

\* NodeManager::init registers the packet destination after source->init.
Register ==
    /\ Goes("register", "start")
    /\ UNCHANGED <<exitVars, fillVars, sendVars, queues>>

Start ==
    /\ Goes("start", "spin")
    /\ hpc' = "run"
    /\ UNCHANGED <<exitVars, splitting, filling, data, seq, frames,
                   lost, sendVars, queues>>

\* ctrl+c ends ros::spin(), main() returns, and ~NodeManager calls stop(),
\* which stops the driver first.
Stop ==
    /\ Goes("spin", "joinHandle")
    /\ toExitHandle' = TRUE
    /\ UNCHANGED <<toExit, fillVars, sendVars, queues>>

\* Broken variant of StopProcess: the processing thread is joined untold.
StopProcessUntold ==
    /\ hpc = "off"
    /\ Goes("joinHandle", "joinProcess")
    /\ data' = [data EXCEPT ![filling["cloud"]] = {}]
    /\ UNCHANGED <<exitVars, hpc, splitting, filling, seq, frames,
                   lost, sendVars, queues>>

\* handle_thread_ has ended; the points collected so far are cleared, and
\* the processing threads are told to end.
StopProcess ==
    /\ hpc = "off"
    /\ Goes("joinHandle", "joinProcess")
    /\ data' = [data EXCEPT ![filling["cloud"]] = {}]
    /\ toExit' = TRUE
    /\ UNCHANGED <<toExitHandle, hpc, splitting, filling, seq, frames,
                   lost, sendVars, queues>>

\* The cloud thread is joined; the IMU thread is not.
StopDone ==
    /\ ppc["cloud"] = "off"
    /\ Goes("joinProcess", "stopped")
    /\ UNCHANGED <<exitVars, fillVars, sendVars, queues>>

\* Then the sources are destroyed, and ~SourceDriver calls stop() again: the
\* driver is stopped already, but join() of a thread that has been joined
\* throws std::system_error, and a destructor that throws ends the process.
Destroy ==
    /\ Goes("stopped", "aborted")
    /\ UNCHANGED <<exitVars, fillVars, sendVars, queues>>

Main ==
    \/ InitThreads \/ InitDriver \/ InitFails \/ Register \/ Start
    \/ Stop \/ StopProcess \/ StopDone \/ Destroy

-----------------------------------------------------------------------------
(* handle_thread_: the decoder's callbacks.                                *)

ByHandle == Alive /\ UNCHANGED <<main, exitVars, sendVars>>

\* A packet adds points to the cloud, or fills the IMU sample.
Decode(s) ==
    /\ hpc = "run" /\ ~toExitHandle
    /\ frames[s] < Bound(s)
    /\ data' = [data EXCEPT ![filling[s]] = @ \cup {frames[s] + 1}]
    /\ ByHandle
    /\ UNCHANGED <<hpc, splitting, filling, seq, frames, lost, queues>>

\* splitFrame() or putImuData(): a message that holds something is numbered.
Split(s) ==
    /\ hpc = "run" /\ ~toExitHandle
    /\ data[filling[s]] # {}
    /\ frames' = [frames EXCEPT ![s] = @ + 1]
    /\ seq' = [seq EXCEPT ![filling[s]] = frames[s] + 1]
    /\ splitting' = s
    /\ hpc' = "put"
    /\ ByHandle
    /\ UNCHANGED <<filling, data, lost, queues>>

\* putPointCloud(), putImuData(): what push() returns is not looked at.
Put ==
    LET s == splitting
    IN  /\ hpc = "put"
        /\ IF Len(stuffed[s]) < QueueBound
             THEN /\ stuffed' = [stuffed EXCEPT ![s] = Append(@, filling[s])]
                  /\ UNCHANGED lost
             ELSE /\ lost' = lost \cup {s}
                  /\ UNCHANGED stuffed
        /\ hpc' = "get"
        /\ ByHandle
        /\ UNCHANGED <<splitting, filling, data, seq, frames, spare>>

\* Broken variant of Get: a recycled message keeps its data.
GetUncleared ==
    LET s == splitting
    IN  /\ hpc = "get"
        /\ IF spare[s] # <<>>
             THEN /\ filling' = [filling EXCEPT ![s] = Head(spare[s])]
                  /\ spare' = [spare EXCEPT ![s] = Tail(@)]
                  /\ UNCHANGED data
             ELSE /\ filling' = [filling EXCEPT ![s] = Fresh]
                  /\ data' = [data EXCEPT ![Fresh] = {}]
                  /\ UNCHANGED spare
        /\ hpc' = "run"
        /\ ByHandle
        /\ UNCHANGED <<splitting, seq, frames, lost, stuffed>>

\* getPointCloud(), getImuData(): a returned message or a new one, cleared.
Get ==
    LET s == splitting
    IN  /\ hpc = "get"
        /\ IF spare[s] # <<>>
             THEN /\ filling' = [filling EXCEPT ![s] = Head(spare[s])]
                  /\ spare' = [spare EXCEPT ![s] = Tail(@)]
             ELSE /\ filling' = [filling EXCEPT ![s] = Fresh]
                  /\ UNCHANGED spare
        /\ data' = [data EXCEPT ![filling'[s]] = {}]
        /\ hpc' = "run"
        /\ ByHandle
        /\ UNCHANGED <<splitting, seq, frames, lost, stuffed>>

HandleExit ==
    /\ hpc = "run" /\ toExitHandle
    /\ hpc' = "off"
    /\ ByHandle
    /\ UNCHANGED <<splitting, filling, data, seq, frames, lost, queues>>

Handle ==
    \/ \E s \in Streams : Decode(s) \/ Split(s)
    \/ Put \/ Get \/ HandleExit

-----------------------------------------------------------------------------
(* processPointCloud() and processImuData(), one thread per stream.        *)

Moves(s, from, to) ==
    /\ ppc[s] = from
    /\ ppc' = [ppc EXCEPT ![s] = to]
    /\ Alive
    /\ UNCHANGED <<main, exitVars, fillVars>>

ProcessExit(s) ==
    /\ toExit
    /\ Moves(s, "poll", "off")
    /\ UNCHANGED <<item, published, queues>>

\* Broken variant of PopWait: the newest message is taken.
PopWaitNewest(s) ==
    /\ ~toExit /\ stuffed[s] # <<>>
    /\ Moves(s, "poll", "send")
    /\ item' = [item EXCEPT ![s] = Last(stuffed[s])]
    /\ stuffed' = [stuffed EXCEPT ![s] = Front(@)]
    /\ UNCHANGED <<published, spare>>

\* Broken variant of PopWait: the thread waits until two messages are queued.
PopWaitBatch(s) ==
    /\ ~toExit /\ Len(stuffed[s]) > 1
    /\ Moves(s, "poll", "send")
    /\ item' = [item EXCEPT ![s] = Head(stuffed[s])]
    /\ stuffed' = [stuffed EXCEPT ![s] = Tail(@)]
    /\ UNCHANGED <<published, spare>>

\* popWait() finds a message.  (It returns null after its timeout, and the
\* loop starts again.)
PopWait(s) ==
    /\ ~toExit /\ stuffed[s] # <<>>
    /\ Moves(s, "poll", "send")
    /\ item' = [item EXCEPT ![s] = Head(stuffed[s])]
    /\ stuffed' = [stuffed EXCEPT ![s] = Tail(@)]
    /\ UNCHANGED <<published, spare>>

\* Every destination sends its copy of the message.
Send(s) ==
    /\ Moves(s, "send", "free")
    /\ published' = [published EXCEPT ![s] = seq[item[s]]]
    /\ UNCHANGED <<item, queues>>

\* The message goes back; if the queue of free ones is full it is released.
Free(s) ==
    /\ Moves(s, "free", "poll")
    /\ spare' = [spare EXCEPT ![s] =
                    IF Len(@) < QueueBound THEN Append(@, item[s]) ELSE @]
    /\ item' = [item EXCEPT ![s] = Null]
    /\ UNCHANGED <<published, stuffed>>

Process(s) == ProcessExit(s) \/ PopWait(s) \/ Send(s) \/ Free(s)

Ended == ~Alive /\ UNCHANGED vars

Next ==
    \/ Main
    \/ Handle
    \/ \E s \in Streams : Process(s)
    \/ Ended

Spec == Init /\ [][Next]_vars

\* main() goes on, except that nobody has to press ctrl+c; handle_thread_
\* finishes what it has begun, with no promise that packets arrive; the
\* processing threads keep polling.
FairSpec ==
    /\ Spec
    /\ WF_vars(main # "spin" /\ Main)
    /\ WF_vars(Put \/ Get \/ HandleExit)
    /\ \A s \in Streams : WF_vars(Process(s))

-----------------------------------------------------------------------------
(* Properties.                                                             *)

Places == {"filling", "stuffed", "sending", "spare"}

\* The messages a place of stream s owns; between put and get handle_thread_
\* still points to the one it has handed over.
Owned(s, place) ==
    (CASE place = "filling" -> IF hpc = "get" /\ splitting = s THEN {} ELSE {filling[s]}
       [] place = "stuffed" -> ToSet(stuffed[s])
       [] place = "sending" -> {item[s]}
       [] place = "spare"   -> ToSet(spare[s])) \ {Null}

NoneTwice == \A s \in Streams : IsInjective(stuffed[s]) /\ IsInjective(spare[s])
Apart == \A s, t \in Streams : \A p, q \in Places :
            s # t \/ p # q => Owned(s, p) \cap Owned(t, q) = {}

\* A message is with the decoder, queued, being sent or free, never two of
\* them or twice in one, and of one stream.
ExclusiveMessages == NoneTwice /\ Apart

\* What is sent is one whole frame, the one its header names.
WholeFrames ==
    \A s \in Streams : ppc[s] = "send" => data[item[s]] = {seq[item[s]]}

(***************************************************************************)
(* The decoder never writes to a cloud that a destination converts or that *)
(* waits to be sent, and a recycled cloud brings no points of the frame it *)
(* held before.                                                            *)
(***************************************************************************)
MessagesRight == ExclusiveMessages /\ WholeFrames

(***************************************************************************)
(* Frames are sent in order and once, and all of them unless the queue was *)
(* full when one was handed over.                                          *)
(***************************************************************************)
PublishedInOrder ==
    [][\A s \in Streams :
         published'[s] # published[s] =>
           /\ published'[s] > published[s]
           /\ s \in lost \/ published'[s] = published[s] + 1]_published

(***************************************************************************)
(* A finished frame is sent, unless its queue was full or the node is      *)
(* being stopped.                                                          *)
(***************************************************************************)
EventuallyPublished ==
    \A s \in Streams : \A n \in 1..Bound(s) :
        frames[s] >= n ~> (published[s] >= n \/ s \in lost \/ main # "spin")

(***************************************************************************)
(* Stopping the node ends: every thread that is joined sees its flag.      *)
(***************************************************************************)
StopEnds == main = "joinHandle" ~> main = "stopped"

(***************************************************************************)
(* ctrl+c stops the driver in an orderly way, as main's signal handler     *)
(* announces and main's "return 0" supposes: the process is not aborted.   *)
(***************************************************************************)
CleanExit == main # "aborted"

=============================================================================
