# Verification of the Astrall 1.0.5 workspace

This directory holds TLA+ models of the control software around the Astrall
quadruped: the ROS driver node and the nodes that use it, the RoboSense lidar
driver, and the odometry that consumes lidar and IMU. TLC checks the models on
small instances, TLAPS proves the safety invariants of most of them for every
value of their constants.

Paths below are relative to `src/`; `rs_driver/` stands for
`src/rslidar_sdk/src/rs_driver/src/rs_driver/`.

## 1. The system

| Component | State | Operations | Talks to |
| --- | --- | --- | --- |
| `SyncQueue` (`rs_driver/utility/sync_queue.hpp`) | ring slots, atomic head and tail | push, pop, popWait, popBatch, clear, size | the two threads of its owner |
| `LidarDriverImpl` (`rs_driver/driver/lidar_driver_impl.hpp`) | free and packet queue, exit flags, session flag, sequence counters | init, start, stop, packetGet, packetPut, processPacket, splitFrame | Input (callbacks on `recv_thread`), Decoder (on `handle_thread_`), user callbacks |
| Input (`rs_driver/driver/input/`) | descriptors or pcap handle, flags, packet pool | init, start, stop, recvPacket, feedPacket | LidarDriverImpl callbacks, the kernel |
| Jumbo (`rs_driver/driver/input/jumbo.hpp`) | ip id, write offset, buffer | new_fragment | pcap input of long-packet lidars |
| Decoder (`rs_driver/driver/decoder/`) | angles ready, return mode, timing, split strategy, times of the first and the last point, point cloud | processMsopPkt, processDifopPkt, isNewFrame, splitting | LidarDriverImpl callbacks |
| Cloud messages (`src/rslidar_sdk/src/source/source_pointcloud_ros.hpp`) | none | toRosMsg | sources |
| Sources and `NodeManager` (`src/rslidar_sdk/src/`) | free, stuffed cloud and IMU queues, exit flag, threads | init, start, stop, getPointCloud, putPointCloud, processPointCloud | LidarDriver, ROS |
| Driver node (`src/astrall_ros1/astrall_ros1/src/astrall_driver_node.cpp`) | stop_motion_, last_cmd_time_, full-down flags, camera retry, IMU time base | cmd_vel, services, status and heartbeat timers, SDK callbacks | SDK and robot, ROS |
| Keyboard teleop node (same directory) | motion active, last key time, sport status | key handling, publishing | driver node over topics and services |
| H.264 camera node (same directory) | pipe, child process, frame | read and publish | ffmpeg, ROS |
| SDK demo (`demo/src`) | velocities shared by two threads | keys, a loop of 20 ms | SDK |
| FAST-LIO's front (`src/FAST_LIO/src/laserMapping.cpp`, `IMU_Processing.hpp`) | lidar, time and IMU buffers, IMU initialisation, box of the map | callbacks, sync_packages, Process, main loop, lasermap_fov_segment | ROS topics, ikd-Tree |
| FAST-LIO's preprocessing (`src/FAST_LIO/src/preprocess.cpp`) | times and marks of a cloud's points | process, handlers, give_feature | callbacks |
| ikd-Tree (`src/FAST_LIO/include/ikd-Tree/`) | tree, rebuild pointer, logger, flags, mutexes | build, add, delete, search, background rebuild | FAST-LIO |
| Filter on manifolds, gscam | state and covariance; GStreamer pipeline | predict, update; grab and publish | not modelled |

What is hard about it:

- **Threads without locks.** `SyncQueue` orders its slots by two atomics only;
  `clear()` is a third writer of both.
- **Threads that stop and start.** Every session joins two threads that poll
  plain flags, and leaves the queues as they were.
- **Commands that fail.** The driver node ignores several SDK results; the
  robot executes modes over seconds and its joystick may intervene.
- **Time.** A watchdog, a full-down timeout, retries, stamps of three clocks that
  may be set, and buffers of stamps that must stay in step with what they stamp.
- **Reordering and loss** of fragments, packets, clouds, commands and IMU samples.
- **Lazy deletion and concurrent rebuilding** of a search tree that other threads
  read meanwhile.
- **Indices that jump**, and sizes that must agree without being compared: rows and
  columns of a cloud, planes of a scan line, the box of the map.

The hazards, line by line, are the `hazards` list of `PROJECT.json`, each with
the properties that would catch it going wrong.

## 2. The modules

### BoundedQueue

The abstract promise of `SyncQueue`: an atomic FIFO of at most `Bound` values
with `Put`, `Refuse`, `Take(n)` and `TakeNothing`.

### SyncQueue, SyncQueueProofs

The ring, one step per atomic access or slot access. The producer's `push` is
`PushLoadTail`, `PushFull` or `PushRoom`, `PushWriteSlot`, `PushPublish`. The
consumer's three calls share their steps: `PopLoadHead(op)`, `PopEmpty` (or
`PopRetry`, the 1 ms polling), `PopFound` or, for `popBatch`, `BatchReloadHead`
and `BatchCount`, then `PopCopySlot` once per value and `PopAdvance`. A step
sees the latest value of the other thread's index: the acquire and release
orders make an index and the slots it publishes visible together, and a stale
index only makes the queue look fuller or emptier than it is, which the
interleaving of the load itself covers. `clear()` is two relaxed stores in
either order; it is not part of `Next`, because no correct client of a ring
with one producer and one consumer could call it. `PacketPipeline` does.

Proved for every capacity, batch size and set of values (`SyncQueueProofs`):

- `RingInvariant`: type correctness and `RingInv`. `NoSlotRace` and the
  refinement are not inductive by themselves: one has to know that between two
  of its own steps nobody moves a thread's own index, that room once seen stays,
  and that a copied value is still what the slot holds. `ProducerInv` and
  `ConsumerInv` say exactly this.
- `SlotsNeverRace`: the slot a push writes is not among those a pop has still
  to read. From the invariant: the producer's slot is the tail, the unread ones
  lie between head and tail, and the ring keeps one slot empty.
- `QueueIsFifo`: every step maps to a step of `BoundedQueue` or to a stutter,
  with `items <- Contents`, the values between head and tail. `PushPublish` is
  `Put`, `PushFull` is `Refuse`, `PopAdvance` is `Take(ccount)`, `PopEmpty` is
  `TakeNothing`. `PushFull` compares a tail nobody else moves with the current
  head, so a refused push really saw a full queue; `PopEmpty` likewise. The
  lemmas before it do the arithmetic of the ring (`Slot`, `Size`) once.

### PacketPipeline, PacketPipelineProofs

`LidarDriverImpl` between the socket input and the decoder. `recv_thread`
(`Recv...` actions, `input_sock_select.hpp` with `packetGet` and `packetPut`)
refills its pool, receives, and pushes; `handle_thread_` (`Handle...` actions)
pops batches, decodes and recycles; the user starts and stops (`Start`,
`StopRecv`, `StopHandle`, `StopDone`). `pkt_queue_` is an `INSTANCE` of
`SyncQueue`, every atomic step of it interleaved, including the `clear()` of
`packetPut`. `free_pkt_queue_` has one producer and one consumer and is never
cleared, so `QueueIsFifo` justifies its calls as single steps of a bounded
FIFO. `stop()` leaves both queues as they are, so a session begins with what the
last one left in `pkt_queue_`; `HandledInOrder` and `EventuallyDecoded` cover
these packets. A Buffer is alive while any shared_ptr points to it; a popped slot keeps
its pointer, so `make_shared` may not reuse it (`Live`).

Proved for any number of Buffers, packets and sessions and any sizes of the ring, the free
queue, the pool and a batch (`PacketPipelineProofs`):

- `Invariant`: the inductive invariant. Its first part holds whatever `clear()` does: types,
  `RecvInv` (recv_thread pushes a Buffer of its pool or clears after an overflow),
  `HandleInv` (handle_thread_ is inside popBatch or has packets to decode) and `UserInv` (no
  threads outside a session). The rest holds until `raced`, that is until a `clear()` hits a
  popBatch that holds indices.
- `BuffersAreExclusive`: `ExclusiveBuffers`. Where a Buffer is depends on what the two
  threads may do next with the ring, so the invariant needs `QueueInv`, SyncQueue's
  invariant again, with one difference: the head popBatch loaded first may be out of date
  here, because `clear()` moves it, and only the second load (`BatchReloadHead`) makes the
  batch right. What is queued changes in three ways only (`PendingGrows`,
  `PendingCleared`, `PendingTaken`), by the lemmas of `SyncQueueProofs` about the ring.
- `PacketsAreHandledInOrder`: `HandledInOrder`. `OrderInv` numbers the packets along the
  way: the last one decoded, those of the batch, those in the ring, those still in the
  pool. They ascend, and without an overflow no number is missing.

The same module has the theorems about the recorded and raw inputs (see below).

### AstrallDriver, AstrallDriverProofs

The driver node. ROS runs its callbacks one after another on one thread, but
each reads the robot's status and commands it in separate SDK calls: a callback
is one step per SDK call, `pc` says where it is. Between two calls the robot
begins or finishes a mode change (`RobotBegin`, `RobotFinish`), the joystick
takes over (`JoystickTake`, `JoystickMode`) and the timeouts elapse
(`CmdExpires`, `FullDownExpires`). SDK and robot are external; the model takes
from their use that velocities act in MOVE only, that commands need the control
authority, and that leaving MOVE or losing the authority ends the velocity. What the
SDK does not say varies: the constant `Outcomes` (a call may succeed, be lost, or
take effect with a failure result) and the variable `immediate`, chosen at first
(does an accepted mode show in the status at once).

Proved for every choice of `Outcomes` and `immediate` unless stated
(`AstrallDriverProofs`):

- `TypeCorrect`.
- `MovingIsWatched` and `DownIsAtRest`, if `"lost" \notin Outcomes`: `WatchdogArmed` and
  `DownOnlyAtRest` (which a lost call violates: finding 2; no run repeats the theorem
  without lost calls). The strengthening `MotionInv` adds that a velocity is
  executed only in MOVE under the SDK's authority (so the disarming of the
  watchdog outside MOVE is harmless), that handleCmdVel has armed the watchdog
  before it moves the robot, and that the robot rests between the stop and the
  mode command of a service.
- `FullDownIsStill`: `StillDuringFullDown`. `QuietInv`: a velocity on its way
  means the sequence is not pending.
- `FullDownDampsLyingDown`: `DampsOnlyLyingDown`, whose condition is that `immediate`
  holds.
  `DampInv`: while the sequence is about to send DAMPING, a robot under the
  SDK's authority is in FIXEDDOWN, since only the joystick could move it and
  taking over makes the DAMPING ineffective.

### Teleop, ImuStamp, Cameras, Demo, MCAstrall

`Teleop` is the keyboard node together with `AstrallDriver`, which it EXTENDS: a round
of its loop (`NoKey`, `MotionKey`, `StopKey`, `ServiceKey`) up to a service call, which
blocks it until `CallReturns`. Messages on /cmd_vel, calls and the published status
travel separately and overtake one another, and a message may give way to a newer
one (`Published`); the node may end in any round (`Exit`). It assumes a robot that
shows accepted modes at once and a joystick that is not used.

`ImuStamp` is `imuStamp()` with the clock of the robot and that of the computer as
offsets to a common time. Either may be set between two samples; samples are lost,
repeated and late. The unit of the robot's time stamps is detected from the first
two samples, by the ratio to the configured period.

`Cameras` is the stream the driver node asks for from its status timer, with failing
calls and retries (`StreamStarts`: granted or given up in the end, and then neither asked
for again nor reset), and the H.264 node with its child process: ffmpeg writes into a
pipe, `read()` returns any part of it, is interrupted, or finds the end. Nothing says that
ffmpeg writes on: `VideoEnds` lets a node that was told to stop wait in `read()` on an
empty pipe for as long as ffmpeg runs in silence, and in no other place.

`Demo` is the SDK's demo: the keyboard thread writes the velocities one by one while
`main()` reads them one by one, without a lock.

`MCAstrall` puts these beside the driver: the variable `part` says which of them a
behaviour is about, the others keep their initial state.

Proved in `AstrallDriverProofs`, `ImuStampsRight` and the safety conjuncts of `CamerasRight`
about the H.264 node:

- `ImuStampsAreRight`: `ImuStampsRight`, for every factor between units, limit, delay
  and gap that satisfies `ImuAssumption`. `ImuInv` says what the last stamp is made of:
  the time of the callback the stamps were anchored at plus the robot's time since, in
  the unit found, so that it is the time of the last sample late by one fixed delay, as
  long as no clock was set. `UnitRight` is the arithmetic: the unit closest by ratio is
  the robot's if the gap's square is below the factor.
- `ImagesAreWhole`: `ImagesWhole`, for images of any number of pieces and pipes of any
  size (`CameraAssumption`). What the node has read of an image, what the pipe holds and
  what ffmpeg writes next follow one another in the video (`InStep`), wherever a `read()`
  ends and however often the stream is begun again.

### SourceDriver, SourceDriverProofs

The node above the driver: `main`, `NodeManager` and one `SourceDriver`. The
variable `main` follows the main thread from `init` through `start` and `spin`
to ctrl+c, `stop()` and the destructors (`InitThreads`, `InitDriver`, `InitFails`,
`Register`, `Start`, `Stop`, `StopProcess`, `StopDone`, `Destroy`).
`handle_thread_` decodes into the message it is filling and hands it over at a
split (`Decode`, `Split`, `Put`, `Get`, `HandleExit`); one thread per stream, clouds
and IMU samples, pops, sends and returns it (`PopWait`, `Send`, `Free`,
`ProcessExit`). The two queues of a stream have one producer and one consumer and
are never cleared: `QueueIsFifo` justifies bounded FIFOs whose calls are single
steps. A message is alive while a `shared_ptr` points to it; `getPointCloud`
takes a returned message or allocates one that is not alive.

Proved for all bounds of the queues and any number of frames, with or without IMU
(`SourceDriverProofs`):

- `MessagesAreRight`: `MessagesRight`. `ExclusiveMessages`, its first half, is inductive
  with the types; that a message in a queue or on its way out holds exactly the frame it
  names needs `DataInv`, which says the same of the message handle_thread_ is about to
  hand over and bounds what the one it fills may hold.
- `FramesAreSentInOrder`: `PublishedInOrder`. `OrderInv` relates the number sent last, the
  one being sent, those queued and the frame split last: they ascend, and follow one
  another without a gap in a stream that lost nothing.

`MessagesAssumption` gives `getPointCloud` a message to allocate: there are more than can
be pointed to, that is two of each stream beside its two queues.

### SplitStrategy, BlockIterator, LidarModels, Decoder, DecoderProofs, CloudLayout, MCDecoder

The decoder, from a packet to finished clouds. `SplitStrategy` and
`BlockIterator` are pure: the decision to split and the times of a packet's
blocks. `LidarModels` has a record for each lidar of the factory with the
constants and choices that timing and splitting depend on: block duration, time
of the last channel, block iterator per return mode, the packet that tells the
return mode, the first sequence number, the second split of the RSM1. `Decoder`
composes them with a lidar: a mechanical one turns, fires only inside its field
of view and stamps packets by its own clock; a solid-state one numbers packets.
`ReceiveMsop` delivers the next packet after up to `MaxLost` lost ones, of which
one may be late (`ReceiveLate`, solid-state only); `ReceiveDifop` comes at any
time. `Decode` is `processMsopPkt` with the whole `decodeMsopPkt` below it,
including every cloud it splits off; `Difop` is `decodeDifopCommon` with the
return mode that each `decodeDifopPkt` reads. The first packet of an RSBP V4, an
RSP80 or an RSAIRY replaces the constructor's timing (`timing`); an RSAIRY with 96
channels waits with it for the DIFOP packet that tells how it is installed.

A point is reduced to the frame it belongs to and to its firing; a cloud keeps the
set of its frames, the range of its time stamps, whether firings came in order,
and whether the timing was already described by a DIFOP packet. `out` holds the
clouds of the last packet, `done` the frames of all earlier ones, `skew` how far the
packet's blocks are timed from when they were fired. Times are integers of
nanoseconds; block durations with fractions of a nanosecond do not occur.

Proved for every choice of models among the 26 of `ModelOf`, all speeds up to 20 revolutions
per second, fields of view, split angles, settings, lengths of a frame and losses within
`DecoderAssumption` and `FramesAssumption` (`DecoderProofs`):

- `DecoderInv`: the types and `Inv`, which relates the split strategy to what the lidar
  has sent. For a mechanical lidar (`OnRound`) the cloud in the making belongs to the
  revolution of the last block decoded and to no other, `prevAngle` is that block's azimuth,
  and all clouds handed over are of earlier revolutions. `SplitBetweenRounds` and
  `NextIsBridged` are the core: between a block and one less than a revolution later
  `ByAngle` splits exactly if the split angle was passed. For a solid-state lidar
  (`Followed`, `FrameEnded`) `prev_seq_` is at most `RANGE` away from the newest packet
  of its frame (`BySeqInRange`), so a late packet is never taken for a new frame and a new
  frame never for a late packet.
- `CloudIsOneFrameHolds`, `FrameIsOneCloudHolds`, `StampOfOwnPointHolds`: the three
  properties from `Inv`. The last two ask (`EndSplitsLossless`) that the RSM1, which
  splits after the largest number seen, loses no packet: finding 4.
- `TimesHold`: a second invariant, `TimeInv`, about times. `IteratorFindsGroups` shows that
  the iterators of the 26 lidars find the firing each block belongs to, and
  `OffsetsMeasure` that the offsets they sum up are the time between firings plus `Error`
  for each time the blind zone is crossed (`Measured`). From one firing to the next this
  leaves room for a block's last channel (`LaterGroup`, `NextBlockTs`), so a cloud in the
  making ends before the next block begins.
- `BlockTimesHold`, `PointsInOrderHolds`: the two properties from it, each under a condition on the
  numbers of the lidar that is connected. `BlindZoneTimed`: the `Error` times the crossings
  a packet can have is at most two firings. `FiringsApart`: with the `Error` the last
  channel comes before the next firing. Every lidar of the run `Decoder` meets both; the
  lidars and fields of view that do not are described after the findings.

`internDecodeMsopPkt`'s loop over the blocks and `BlockIterator`'s over the groups are
recursive functions; `Recursion` and `SetInduction` give what induction over the blocks
needs, from the well-foundedness of the naturals, without an operator parameter.

`CloudLayout` follows the points of a packet into the rows and columns of a message:
`internDecodeMsopPkt` of 21 lidars block by block, up to a block with a wrong id;
`setPointCloudHeader`; and `toRosMsg` by rows or in order. The RSAIRY and the RSFAIRY
with 96 channels make one firing out of two blocks. Beside it `isNewFrame` goes
through the same packet with a split strategy of its own. The decoders' constants are in
`PacketOf`, by their names.

### InputSock, InputFile, Jumbo, MCPipeline

`InputSock` is the lifecycle of a socket input in its variants (select, epoll,
Windows) over the process's table of descriptors, from which the kernel hands out the
lowest free one while other threads open and close theirs. `init()` may fail at every
call (`InitFails`). `epfd_` is uninitialised and two entries of `fds_` start at 0, as in
the code. `InputFile` plays a recording, stops and starts in the middle, repeats, and
ends; `InputRaw` is fed. `Jumbo` is the pure reassembly of a datagram; `InputFile` gives
it fragments in any order, lost and repeated. `MCPipeline` puts them beside
`PacketPipeline`.

Proved in `PacketPipelineProofs`, for every recording, repetition and set of datagrams
(`RecordingIsRight`): `RecordingRight`. Its parts need `PlayInv` and `FileOpenInv` (where the
file stands, and that reading a closed one has one of two causes) and `JumboInv`: until a
fragment is out of its place, the buffer holds the parts of one datagram from its first byte
on, so that the last fragment completes it. Datagrams that are told apart by an id of their
own must not share it (`RecordingAssumption`).

`DescriptorsAreRight`, for any number of descriptors: `DescriptorsRight`, the safety half of
`SocketsRight`. `SockInv` compares the table of descriptors with what the object remembers:
after `init()` it knows all it has opened, and under select nothing else; after a failure
only the socket that `createSocket` leaves is open.

### FastLio, FastLioProofs, GiveFeature, Preprocess, Preparation, PreprocessProofs, LocalMap, MCFastLio

`FastLio` is the mapping node up to the filter: the two callbacks, `sync_packages`, the
main loop, and `ImuProcess`. Everything runs on one thread, so a turn of the loop is
one step. Stamps are ticks and may jump back, which empties a sensor's buffer (but
not `time_buffer`). A cloud is its stamp and the offsets of its points; what remains
of the filter is the time of each prediction (`Spans`) and which pose moves which point
(`Moves`). `last_lidar_end_time_` is uninitialised. Whether a cloud has points enough
for the map or for an update is a choice.

Proved for all clouds and steps of the two clocks, any number of scans, samples and jumps
back, and every order of the callbacks and the loop's turns (`FastLioProofs`); a sample may
repeat the stamp of the last one:

- `StampsAreAligned`: `StampsAligned`, with the types.
- `GroupsAreComplete`: `GroupComplete`. That every sample up to a scan's end is handed on
  with it and none twice needs three parts. `ScanInv`: until the lidar's clock jumps
  back, each scan ends after the one before it, although the end of a scan is a guess, its
  begin plus the mean scan time, whenever its cloud is too short. `MeanInv`: that mean is
  never longer than the time between two scans. `ImuInv`: until either clock jumps back,
  `imu_buffer` ascends and holds all samples since the end of the last scan.
- `ScansAreRegisteredInOrder`: `OwnCloud`, from `RegisteredInv`.
- `ScansAreUndistortedRight`: `UndistortionRight`. The predictions of a scan follow one
  another from the end of the last scan to that of this one, and no point but the first
  is moved twice, if the samples of a scan ascend from the last one processed on. This
  is `LineInv`, the order on the time line of the last sample processed, the end of the
  last scan, the samples waiting and the last one received; `UndistortedInv` remembers it
  for the scan undistorted last, and `UndistortedRight` gets from it what the loops over
  samples and points do. A scan whose lidar or IMU clock was set is excepted, and the
  first one, since `last_lidar_end_time_` is uninitialised.

`FastLioAssumption` gives the constants their types. `ScansAssumption` is about the lidar:
a scan takes some time, and is over when the next one is stamped. If it were not, the end
of a scan, and with it the choice of its samples, would overtake the next one.

`Preprocess` gives every point of a cloud the time since the scan began, from the
message or from how far the lidar has turned since the ring's first point.
`GiveFeature` is `give_feature`'s four loops over a scan line with their jumping
indices; what the coordinates decide is a choice. `Preparation` puts the two side by side.

Proved in `PreprocessProofs`:

- `FeaturesAreRight`: `FeaturesRight`, for lines of any length and any blind points. For
  the last loop `SampleInv` says what of the line has been put out and which row of plane
  points it is in the middle of.
- `OffsetsAreRight`: `OffsetsRight`, for any rings, starting angles and steps, if a ring
  returns a point in every revolution and a cloud has less than two revolutions, as
  `Point` says. `RingRight` relates the first angle and the last time of a ring to how far the lidar has
  turned, which tells a second passage of the first angle from the first one.
- `CloudsArePrepared`: `CloudsPrepared`, both at once.

`LocalMap` is `lasermap_fov_segment`: the box that follows the lidar, and what each jump
deletes. `RangeIsMapped` (`FastLioProofs`) proves `MapAroundLidar` for all lengths,
axes and movements that satisfy `LocalMapAssumption`: the box holds three detection
ranges, and the lidar moves at most half of one per scan. `MapAroundLidar` is not
inductive by itself: one has to know that the box keeps its length, so that a lidar near
one face is far from the other (`BoxInv`). Then the lidar is still half a range inside
the box after a movement, so that the distance to a face, of which the code takes the
absolute value, is on the right side; a jump starts at 1.5 ranges, and whatever its
length it brings the face back beyond the range and leaves the far one beyond it
(`AxisMoves`).

### PointSet, IkdTree, IkdRebuild, IkdRebuildProofs, MCIkd

`PointSet` is what the ikd-Tree promises: a set of points that Build replaces, that gains
a point (or, with downsampling, keeps one point of each voxel), and from which
boxes are deleted. `IkdTree` is the tree as one thread sees it, with nodes, sizes,
ranges, lazy flags, pushing down, rebuilding; recursion over the tree is in
operators. Its `Refines` states that it implements `PointSet`, with the points of
`flatten` for the set. The searches are operators of the state.

`IkdRebuild` is the protocol of the rebuild thread with the mapping thread and the
search threads: a father, `Root_Node`, with two large sons, each a set of points, alive or
deleted; the mutexes, the flags, the counter of searches, the log and its replay, the
swap. What is rebuilt is a son or the root itself. `Operate` is the look that
`Add_Points` and `Delete_Point_Boxes` take at `*Rebuild_Ptr == Root_Node`: then the whole
operation is done and logged under `working_flag_mutex` (`RootLocked`, `RootFlagged`),
otherwise it goes down the tree and looks again at each son. A downsampling
(`Add_Points_Downsampled`) first searches the voxel, without a lock at the root (:501),
then deletes it and adds the point that is kept (`AddKept`). `walk` says which nodes a
thread is in and what has been swapped out under it: where that happens the model lets the
program end (`WalkFreed`), since the rebuild thread frees the nodes (:354); what a search
that gets away with it reads is not modelled. A step lies between two accesses to what
another thread may change. `Rebuild_Ptr` is read without a lock where the code does so;
`Rebuild_Ptr == nullptr || *Rebuild_Ptr != ...` (:810, :1103, :1370) is one read, which is
what `-O3` (`src/FAST_LIO/CMakeLists.txt:8`) makes of it. Three simplifications: a subtree
given to the rebuild thread does not shrink below `Multi_Thread_Rebuild_Point_Num` while it
waits (else `Rebuild_Ptr` is set to null again, :843 and :1051), the point a downsampling
keeps belongs to a son, and a new root parts the points as the old one did. `MCIkd` runs
the two side by side.

Proved for any number of search threads and operations, all sons and boxes
(`IkdRebuildProofs`), from an inductive invariant with a part for each thing that keeps the
threads apart: who holds which mutex while the rebuild is where (`RebuildInv`), what
`search_mutex_counter` counts (`CountInv`), who walks which nodes (`WalkInv`), where flags are
pending (`FlagInv`), what is left of an operation (`OpInv`), what the log is worth
(`LogInv`) and what the tree holds (`MapInv`):

- `MapIsRight`: `MapRight`, as long as no rebuild begins with a log that is not empty
  (finding 5) and no addition missed the log (after the findings). Between operations only
  the alive points matter, but in the middle of one a son may lack what is still to be
  done to it, and while the log is drained the copy lags behind: `LogInv` says that the
  points on the way from the copy through the entries of the log (`Replay`) end in those
  of the subtree that is replaced, a son or the whole tree (`Target`).
- `WalksAreExcluded`: `WalksExcluded`, with its limits: search threads are kept out of the
  subtree that is copied or swapped, whether it is a son or the root, and never walk
  replaced nodes. A search thread there is counted, and then the copy and the swap wait;
  `SearcherInv` adds that one that took no lock walks something else. The mapping thread
  is held to less: in a son of a root that stays, which it entered under
  `search_flag_mutex`, the old nodes are kept until it leaves (`MainWalkInv`). Where it
  has no lock, at the root and in a covered father, it does meet the swap and the free.
- `FlagsAreDeletions`: flags wait to be pushed only below a father that is deleted itself,
  where a search thread turns back before it comes to push them. So the branch of the
  searches that pushes flags, under mutexes they share with the rebuild, never runs in
  this part of the tree. `FlagInv` is what it rests on: `working_flag` keeps the refresh
  at the end of the swap away from a father an operation works on.

`IkdRebuildAssumption` says that the two sons share no point, that the father's is in
neither, and that there are finitely many search threads (one per OpenMP worker).

## 3. The runs

| Run | Instance | Shows |
| --- | --- | --- |
| `SyncQueue` | 4 slots, 2 values, batches of 2 | `RingInv`, `NoSlotRace`, refinement `ImplementsQueue`, and `EventuallyTaken` under a polling consumer |
| `PacketPipeline` | 2 sessions, 3 packets, ring of 3, pool of 2, batches of 2; three socket inputs; recordings of 6 records, 5 datagrams | `ExclusiveBuffers`, `HandledInOrder`, `StopReturns`, `EventuallyDecoded`, `SocketsRight`, `RecordingRight` |
| `PacketPipelineOverflow` | 1 session, 5 packets | finds `OverflowOnlyDiscards` violated |
| `AstrallDriver` | calls succeed or their answer is lost, immediate and delayed modes; teleop, stamps, cameras, demo | `WatchdogArmed`, `DampsOnlyLyingDown`, `StillDuringFullDown`, `StaleCommandsStop`, `FullDownEnds`, `OperatorObeyed`, `ImuStampsRight`, `CamerasRight` |
| `AstrallDriverLostStop` | lost calls | finds `DownOnlyAtRest` violated |
| `SourceDriver` | clouds and IMU, queues of 2, 4 clouds, 1 sample | `MessagesRight`, `PublishedInOrder`, `EventuallyPublished`, `StopEnds` |
| `SourceDriverExit` | clouds only | finds `CleanExit` violated |
| `Decoder` | 16 lidars, single and dual return, 2 speeds, 2 fields of view, 2 settings, 3 frames; the layout of 21 lidars | `CloudIsOneFrame`, `FrameIsOneCloud`, `BlockTimesRight`, `PointsInOrder`, `StampOfOwnPoint`, `LayoutRight` |
| `DecoderEndOfFrame` | RSM1, packets lost and swapped | finds `FrameIsOneCloud` violated |
| `FastLio` | stamps up to 12 ticks, 1 jump back, repeated IMU stamps, 2 clouds waiting; lines of 7 points; 2 rings; a box on 2 axes | `StampsAligned`, `GroupComplete`, `UndistortionRight`, `CloudsPrepared`, `MapAroundLidar`, `OwnCloud`, `ScansTaken` |
| `Ikd` | 5 points, 3 boxes, 6 nodes; rebuilds of sons and root under 3 operations or searches of 2 threads, 2 boxes | `MapRight`, `WalksExcluded`, `AnswersRight`, `Refines`, `NobodyStuck` |
| `IkdRebuildLog` | 4 operations, 1 search thread | finds `LogEmptyAtRebuild` violated |

Where a run has several parts (`part` in the MC modules), a behaviour is about one of
them, so the sizes of their state spaces add up and do not multiply. A property named
after a whole part (`SocketsRight`, `CamerasRight`, `CloudsPrepared`, `AnswersRight`, ...)
is the conjunction of the properties stated in that part's module, where each has its
comment.

**Bounds of the queues.** A ring of 3 or 4 slots wraps, fills and empties within a few
calls and holds more than one batch; two values distinguish order. In the pipeline a
ring of 3 (2 packets) overflows with the third packet, the pool of 2 and batches
of 2 leave packets on both sides of a queue, and 10 Buffers are more than can be
alive at once, so `make_shared` never runs out. Two sessions show everything a
restart can inherit; the overflow's run has 5 packets in one session instead,
so that packets are decoded after the overflow. In `SourceDriver` queues of 2 and
4 clouds let a queue fill, refuse and drain; 13 messages are more than can be
alive.

**Bounds of the inputs.** Six descriptors, one of them another thread's besides standard
input, let a number that the input closes belong to somebody else and leave one for
every socket and the epoll instance. The recording has every kind of record, one kind twice; three passes give
a repeat after a restart. Datagrams of 1, 2 and 3 fragments, two of them with the id 0
that also stands for none, and fragments without bound.

**Bounds of the Astrall nodes.** `AstrallDriver` has no bound: its state is finite. Two
messages wait on /cmd_vel (the driver's queue holds 10): a stale one behind a new one is
the case that matters. IMU units are a factor of 10 apart instead of 1000 and stamps may
be 3 periods off instead of a second; then a gap of 4 periods is more than the square
root of the factor, beyond which the unit found is wrong, and 6 periods hold the
anchoring, the detection and a set clock after it. `camera_stream_max_retries` is 2; 0,
in the code, retries for ever. An image of 3 pieces and a pipe of 4 let every read
begin and end inside an image.

**Bounds of the decoder.** The fields of view, of 5 degrees, make a revolution a few
packets long, so that every alignment of packets with the split angle and the
blind zone occurs within three revolutions; one field spans the split angle, the
other has it inside the blind zone. An outage is shorter than a revolution, or
within the safe range of a solid-state lidar, and at most two packets in a row:
beyond that the angle strategy cannot know that a round went by, and the safe range
is the code's stated limit. A solid-state frame has 24 packets, more than twice
the safe range, so that a frame's middle, its beginning and its end are
different cases. A packet is late only within its frame. The RSM1 appears without
loss in the passing run, because with loss its second split is finding 4. Four of the
factory's mechanical lidars differ from one in the run only in their numbers, by a
few percent, and are left to a change of the `.cfg`; so are the solid-state
lidars with the control of the RSM2. In the layout a revolution takes a little
less than three packets and nine are sent, so a cloud begins at different blocks; one
packet is lost or has a wrong block id, at any block and in either byte. A solid-state
frame has 13 packets there, just more than the safe range, and two frames are sent.

**Bounds of FAST-LIO.** Twelve ticks hold the scans of the initialisations and those
registered after them, with one that has no samples between; the IMU steps by 2 or 3 ticks.
A stamp of the IMU is repeated when its first sample waits alone, so that two equal stamps
meet inside a scan and at its end, where only one of them is taken. The samples of a scan of
2 ticks lie at its begin, inside and at its end, or are missing; one jump back of either
sensor, in either order with everything else. Two clouds waiting are enough for one to be
taken with the stamp of another. Lines of up to 7
points with groups of 2 let a plane, an edge and a blind point meet in every order.
A revolution of 6 parts crosses the jump of the angle and goes on into the second
revolution. The box is four detection ranges long (it has to be more than three), on two axes,
and jumps within a few scans in both directions and on both axes at once.

**Bounds of the ikd-Tree.** Six nodes with rebuilding from 3 on: every rebuild criterion,
flags pending over two levels, and a voxel with two points occur. In the rebuild 3
operations or rounds of searches are one that asks for it, one during it and one after it,
each of them in turn a downsampling with its search, deletion and addition; one box lies
across both sons, the other covers the father's whole range. Two search threads are counted one after the other and together. The run that
looks for finding 5 has 4 operations and one search thread.

`CHECK_DEADLOCK FALSE` where a sensor may be switched off, and is at the bound
(`Decoder`, `FastLio`). The other runs check for deadlock, with end states allowed
explicitly.

**Fairness.** The consumer of a queue and `handle_thread_` poll in a loop, and a
thread that can run does (weak fairness). `recv_thread` leaves its loop once it
is told to and finishes the round it is in; neither the arrival of packets nor
an error of select is promised. A user inside `stop()` continues when the
joined thread has ended. The thread of a socket input goes on when there is something
to read or it has been told to stop. In the driver node SDK calls return within their
timeout, so a callback goes on to its end (weak); the callback queue is served
in order, so the status timer is not starved by other callbacks (strong);
wall-clock timeouts elapse (weak). Teleop's loop goes round and its calls return, its
key timeout elapses (weak), and a message under way is delivered in the end unless it
gives way to a newer one (strong). The two threads of the demo go on (weak), and
`AstrallMove` is not lost each time (strong). The H.264 node goes on (weak), and a
`read()` that could return is not interrupted each time (strong); nothing is promised of
ffmpeg, which may fall silent without ending. In
`SourceDriver` the main thread goes on except that nobody has to press ctrl+c,
`handle_thread_` finishes a hand-over and sees its exit flag, and the sending threads
poll (all weak). FAST-LIO's loop turns and the IMU goes on sending (weak); nothing
promises clouds. The threads of the ikd-Tree go on (weak each); mutexes need no
fairness of their own, since waiting is polling in the code. `Decoder` states no
liveness: nothing promises that packets arrive.

Every property of a passing run is also checked against a broken variant of the
code (the operators commented "Broken variant of"), which it must reject.

**What each proof assumes.** The assumptions on constants are the `ASSUME`s of the modules
that declare them; TLC evaluates them in the runs.

| Proofs | Assumed | Why |
| --- | --- | --- |
| `SyncQueueProofs` | 2 slots or more, a positive batch, a null that is no value; one producer and one consumer, no `clear()` | `CAPACITY` is a template constant; the class is documented for two threads |
| `PacketPipelineProofs` | the same of `pkt_queue_` (`PipelineAssumption`); the theorems stop at the first `clear()` that hits a popBatch (`raced`) | afterwards they are false: finding 1 |
| the same, recordings | `RecordingAssumption`: datagrams with an id differ in it | IP ids repeat after 65536 datagrams, and 0 stands for none |
| `SourceDriverProofs` | more messages than can be pointed to (`MessagesAssumption`); one or two streams | messages come from `make_shared` |
| `AstrallDriverProofs` | the robot as described above; where stated, calls that are not lost or modes that show at once | finding 2, and the conditions listed after the findings |
| the same, IMU and camera | `ImuAssumption`: callbacks within the second after which stamps are anchored anew; `CameraAssumption`: an image is not empty | a later callback anchors anew in the code too |
| `DecoderProofs` | `DecoderAssumption`: a split angle not in the blind zone before 0; `FramesAssumption`: frames of more than 20 packets; where stated, `EndSplitsLossless`, `BlindZoneTimed`, `FiringsApart` | `newBlock` misses such splits (below); the safe range; finding 4; rounded azimuths (below) |
| `FastLioProofs` | `FastLioAssumption` (points sorted by time), `ScansAssumption`; properties that end with a jump back of a clock say so | `standard_pcl_cbk` empties the clouds but not their stamps |
| the same, local map | `LocalMapAssumption` | beyond it the box loses the lidar |
| `PreprocessProofs` | `LineAssumption`, `CloudAssumption`: types, and parameters that are not 0 | a row of no points, or every 0th point, is no configuration |
| `IkdRebuildProofs` | `IkdRebuildAssumption`; `MapRight` until a rebuild begins with a log or an addition misses it | finding 5, and after the findings |

The inductive invariants were first checked by TLC on small instances. Every theorem also
names, in `PROJECT.json`, the property some run checks, if there is one.

**What is only model-checked**: all liveness and what is ENABLED; of the decoder
`LayoutRight`, whose foretelling of splits depends on the bound of faults; `AnswersRight` and `Refines`, about a tree of
RECURSIVE operators; the liveness parts of `SocketsRight`, `OperatorObeyed` and `CamerasRight`, and `StreamStarts`.

## 4. Findings

1. **`clear()` on overflow** (`rs_driver/driver/lidar_driver_impl.hpp:405`). The
   producer's thread resets both indices while `popBatch` may hold old ones;
   packets are then decoded twice, out of order, or a Buffer is refilled while
   it is decoded. The documentation promises that packets are discarded.
2. **The stop before FIXEDDOWN is not checked** (`astrall_driver_node.cpp:581`).
   The result of `AstrallMove(0, 0, 0)` is ignored, so FIXEDDOWN may be
   requested of a walking robot, with the watchdog disarmed.
3. **The second `stop()` aborts** (`src/rslidar_sdk/src/source/source_driver.hpp:188`).
   `~NodeManager` stops every source and `~SourceDriver` stops it again: the
   join of a joined thread throws inside a destructor, so ctrl+c always ends in
   `std::terminate`.
4. **The RSM1's second split** (`rs_driver/driver/decoder/decoder_RSM1.hpp:307`).
   It takes the largest sequence number seen so far for the end of the frame.
   Packets lost or swapped at the end of a frame spread it over two clouds,
   which the safe range is documented to prevent.
5. **A rebuild begins with a log** (`src/FAST_LIO/include/ikd-Tree/ikd_Tree.cpp`, in
   `multi_thread_rebuild`, line 351). `rebuild_flag` falls only after `working_flag_mutex`
   is released, so an operation that waited for the mutex is done on the new subtree and
   put into a log that is no longer drained. The next rebuild finds the log not empty,
   which the code itself reports as an error, and replays the operation on whatever
   subtree it is about.

What the models showed about behaviour that no document promises otherwise, and that
the properties therefore state as conditions:

- `DampsOnlyLyingDown` needs `immediate`. If the status still read FIXEDDOWN after an
  accepted stand command, the full-down sequence would send its DAMPING to a robot
  standing up.
- The driver's packet callback is registered after `init` has looked for it
  (`src/rslidar_sdk/src/manager/node_manager.cpp:118`), so recorded packets keep the
  lidar's stamp; and with `ts_first_point` the first cloud is stamped 0
  (`decoder.hpp:430`), since the first point's time is stored after a split.
- FAST-LIO: a scan without IMU samples registers the cloud of an earlier scan again;
  after a jump back of the lidar's clock clouds are taken with the stamps of clouds
  thrown away, for good; the first point of a cloud is moved by every earlier pose. The
  box of `mapping_avia.launch` is smaller than `LocalMapAssumption` asks.
- `give_feature` reads one place past a line of blind points, and marks one past a plane
  that reaches the end.
- A half wrong block id separates `isNewFrame` of an RSAIRY from its decoder; a wrong id
  in the upper half of a firing of 96 channels shifts the rest of the cloud by half a
  column, and its width is rounded down.
- The unit of the IMU's stamps is detected once; a gap or a set clock at that moment
  decides it wrongly for good.
- An epoll input reads DIFOP's socket when a datagram is at the IMU's; if there is none
  its thread ends. After a failed `init()` descriptor 0 is closed.
- The H.264 node blocks in `read()` (`astrall_h264_camera_node.cpp:128`) and looks at
  `ros::ok()` only around it: told to stop while the pipe is empty, it waits until ffmpeg
  writes or ends, which without video may be never.
- The demo's velocities survive leaving MOVE and act again on entering it.
- `SplitStrategyByAngle::newBlock` misses a split if the azimuth goes from below the split
  angle to a smaller one: when an outage leaps so, when the split angle is in the blind
  zone between the end of the field of view and 0 (a field from 10 to 15 degrees is never
  split at 20), or when no block lies between it and 360 degrees. The default of 0 is safe.
  `DecoderAssumption` and `Bridged` exclude these.
- `MAX_AZ_DIFF` is 1 degree: a blind zone narrower than that counts as one firing. The
  modelled lidar turns by the same rounded angle, in 0.01 degree, from firing to firing, and
  the rounding adds up over the revolution, which a real one may even out. So
  `BlindZoneTimed` fails in wide fields: from 200 degrees of the RS16 with dual returns and
  315 degrees of the RS32 and RSBP at 10 revolutions per second, nowhere at 20; at 5
  already from 100 and 160 degrees, and of the RSFAIRY in nearly all. `FiringsApart` fails in
  full circles of half of the lidars, and from 166 degrees (RSP128, RSP80) in a few fields
  that end right before a firing; there a few firings are out of order by microseconds.
- The mapping thread searches a voxel from `Root_Node` (`ikd_Tree.cpp:501`; so
  does `Box_Search`, :467) without looking whether the root is being rebuilt,
  and `flatten`s a father that the voxel covers (:1257 to :1260) without a lock. The
  rebuild thread may swap and free these nodes meanwhile (:354): `WalkFreed`.
- After a downsampling has deleted a voxel, `Add_by_point` at :519 takes neither a lock nor
  the log, although that deletion may just have given the root to the rebuild thread
  (:513 to :519). If the copy has been made the point that was kept is lost (`EndUnlogged`);
  `MapRight` excepts it.
- `last_lidar_end_time_` of FAST-LIO is not initialised: with a value later than its
  samples the first scan has no pose and is not undistorted. A point at offset 0 is moved
  once if a sample lies between its scan and the one before.
- Jumbo fragments of two datagrams with the same id run into one another.

## 5. Not modelled, and the plan

TLAPS cannot prove liveness under fairness or ENABLED; these stay with TLC. So do `IkdTree`
and every module that uses RECURSIVE operators over trees or sequences. Recursive functions
over the naturals and folds are within reach, through the well-foundedness of the naturals.

Left out altogether:

- floating-point geometry: coordinates and angles of points, azimuth sections
  (`section.hpp`), trigonometric tables, the filter on manifolds, the choices that
  coordinates decide in `give_feature` and in plane fitting;
- decoding: splitting by a number of blocks, ring numbers, per-point time fields of
  the messages; the layout of the RSM1_JUMBO;
- FAST-LIO: the Livox callback and handler (`avia_handler` is not built here), loading
  and saving of poses;
- ikd-Tree: `Delete_Points` and `Add_Point_Boxes`, which nothing calls, what is read in
  freed nodes, and what follows when an empty subtree is rebuilt, which dereferences a
  null pointer (`Copied` ends there);
- teleop with a joystick or with delayed modes; gscam, whose work is GStreamer's; ROS as
  the packet source; the ROS 2 main; SDK internals, which are not in the repository;
- message formatting, configuration files, logging, plotting.

What would come next:

1. Proofs: `IkdTree` with functions over the nodes instead of RECURSIVE operators;
   `LayoutRight`, packet by packet.
2. Azimuth sections and ring numbering as pure models; splitting by blocks.
3. Teleop over a robot with delayed modes; the mapping node over the rebuild thread, as
   one composition.
