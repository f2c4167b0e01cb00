------------------------------- MODULE FastLio -------------------------------
(***************************************************************************)
(* The front of FAST-LIO: laserMapping.cpp's buffers, sync_packages and    *)
(* main loop, and ImuProcess (IMU_Processing.hpp).  Callbacks and loop run *)
(* on one thread (ros::spinOnce), so a turn of the loop is one step.       *)
(* Stamps are ticks, a cloud is the stamp of its message and the offsets   *)
(* of its points; poses and noise are left out: what remains of a          *)
(* prediction is the time it covers.                                       *)
(***************************************************************************)
EXTENDS Integers, Sequences, FiniteSets, SequencesExt, FiniteSetsExt

CONSTANTS Clouds,           \* the point offsets a cloud may have, sorted
          LidarSteps, ImuSteps,   \* ticks from stamp to stamp; the negative
                                  \* ones are jumps back
          MAX_INI_COUNT,    \* IMU samples the initialisation needs
          INIT_TIME,        \* ticks before the filter counts as initialised
          MinFeatures,      \* points an update needs; a first map needs more
          Uninitialised,    \* what last_lidar_end_time_ may hold at first
          MaxTime,          \* bound: stamps
          MaxLoopBacks,     \* bound: jumps back in time
          MaxRepeated,      \* bound: samples waiting when the last one's stamp comes again
          MaxClouds         \* bound: clouds in lidar_buffer

ASSUME FastLioAssumption ==
    /\ Clouds \subseteq Seq(Nat)
    /\ \A c \in Clouds : \A j, k \in DOMAIN c : j < k => c[j] <= c[k]
    /\ LidarSteps \subseteq Int /\ ImuSteps \subseteq Int
    /\ MAX_INI_COUNT \in Nat /\ INIT_TIME \in Int /\ MinFeatures \in Int
    /\ Uninitialised \subseteq Int /\ MaxTime \in Nat

\* A scan takes time, but is over when the next one is stamped.
ASSUME ScansAssumption ==
    \E period \in 0 .. MaxTime :
       /\ \A c \in Clouds : Len(c) > 1 => Last(c) \in 1 .. period
       /\ \A d \in LidarSteps : d >= 0 => d >= period /\ d > 0

VARIABLES
    lidar_buffer, time_buffer, imu_buffer,
    last_timestamp_lidar, last_timestamp_imu,
    lidar_pushed, meas,                    \* Measures
    scan_num, lidar_mean_scantime,
    flg_first_scan, first_lidar_time, flg_EKF_inited,
    proc,              \* ImuProcess: its members
    feats_undistort,
    map,               \* does ikdtree have a root?
    loops,             \* history: jumps back in time
    stamps,            \* history: the stamps the IMU sent
    ends,              \* history: the ends of the last two scans taken
    undistorted,       \* history: what UndistortPcl last started from
    registered         \* history: the last registration

buffers == <<lidar_buffer, time_buffer, imu_buffer>>
sensors == <<last_timestamp_lidar, last_timestamp_imu, loops, stamps>>
sync    == <<lidar_pushed, meas, scan_num, lidar_mean_scantime>>
process == <<proc, feats_undistort, undistorted>>
mapping == <<flg_first_scan, first_lidar_time, flg_EKF_inited, process, map,
             registered, ends>>
vars == <<buffers, sensors, sync, mapping>>

None == [stamp |-> -1, offsets |-> <<>>]

Init ==
    /\ lidar_buffer = <<>> /\ time_buffer = <<>> /\ imu_buffer = <<>>
    /\ last_timestamp_lidar = 0 /\ last_timestamp_imu = -1
    /\ lidar_pushed = FALSE /\ scan_num = 0 /\ lidar_mean_scantime = 0
    /\ meas = [lidar |-> None, beg |-> 0, end |-> 0, imu |-> <<>>]
    /\ flg_first_scan = TRUE /\ first_lidar_time = 0
    /\ flg_EKF_inited = FALSE
    /\ \E garbage \in Uninitialised :
         proc = [b_first_frame |-> TRUE, imu_need_init |-> TRUE, init_iter_num |-> 1,
                 last_imu |-> 0, last_lidar_end_time |-> garbage]
    /\ feats_undistort = None /\ map = FALSE
    /\ loops = [lidar |-> 0, imu |-> 0] /\ stamps = {} /\ ends = [before |-> -1, last |-> -1]
    /\ undistorted = [proc |-> proc, meas |-> meas, first |-> TRUE]
    /\ registered = [cloud |-> None, beg |-> -1, end |-> -1]

-----------------------------------------------------------------------------
(* The callbacks.  A stamp before the last one empties the sensor's        *)
(* buffer, but not time_buffer.                                            *)

standard_pcl_cbk(cloud) ==
    /\ LET back == cloud.stamp < last_timestamp_lidar
       IN  /\ back => loops.lidar + loops.imu < MaxLoopBacks
           /\ lidar_buffer' = Append(IF back THEN <<>> ELSE lidar_buffer, cloud)
           /\ loops' = [loops EXCEPT !.lidar = @ + (IF back THEN 1 ELSE 0)]
    /\ time_buffer' = Append(time_buffer, cloud.stamp)
    /\ last_timestamp_lidar' = cloud.stamp
    /\ UNCHANGED <<imu_buffer, last_timestamp_imu, stamps, sync, mapping>>

imu_cbk(timestamp) ==
    /\ LET back == timestamp < last_timestamp_imu
       IN  /\ back => loops.lidar + loops.imu < MaxLoopBacks
           /\ imu_buffer' = Append(IF back THEN <<>> ELSE imu_buffer, timestamp)
           /\ loops' = [loops EXCEPT !.imu = @ + (IF back THEN 1 ELSE 0)]
    /\ last_timestamp_imu' = timestamp
    /\ stamps' = stamps \cup {timestamp}
    /\ UNCHANGED <<lidar_buffer, time_buffer, last_timestamp_lidar, sync, mapping>>

-----------------------------------------------------------------------------
(* sync_packages.                                                          *)

\* The oldest cloud with the end of its scan: its last point's time, or the
\* mean scan time if it has too few points or its last point came too early.
Pushed ==
    LET cloud == Head(lidar_buffer)
        beg   == Head(time_buffer)
        m(end) == [meas EXCEPT !.lidar = cloud, !.beg = beg, !.end = end]
    IN  IF lidar_pushed
        THEN [meas |-> meas, num |-> scan_num, mean |-> lidar_mean_scantime]
        ELSE IF Len(cloud.offsets) <= 1 \/ 2 * Last(cloud.offsets) < lidar_mean_scantime
        THEN [meas |-> m(beg + lidar_mean_scantime), num |-> scan_num,
              mean |-> lidar_mean_scantime]
        ELSE LET last == Last(cloud.offsets)
             IN  [meas |-> m(beg + last), num |-> scan_num + 1,
                  mean |-> lidar_mean_scantime
                           + (last - lidar_mean_scantime) \div (scan_num + 1)]

\* Broken variant of TakesImu: the sample after the end is taken as well.
TakesImuPast(imu, end) ==
    LET before == Cardinality({i \in DOMAIN imu : imu[i] < end})
    IN  IF before \in 1 .. Len(imu) - 1 THEN before + 1 ELSE before

\* The samples taken: those before the end of the scan, then one at its end.
TakesImu(imu, end) ==
    LET before == Cardinality({i \in DOMAIN imu : imu[i] < end})
    IN  IF before \in 1 .. Len(imu) - 1 /\ imu[before + 1] = end
        THEN before + 1 ELSE before

-----------------------------------------------------------------------------
(* ImuProcess.                                                             *)

IMU_init(p, imu) ==
    LET n == (IF p.b_first_frame THEN 1 ELSE p.init_iter_num) + Len(imu)
    IN  [p EXCEPT !.b_first_frame = FALSE, !.init_iter_num = n,
                  !.last_imu = Last(imu), !.imu_need_init = n <= MAX_INI_COUNT]

Abs(x) == IF x < 0 THEN -x ELSE x

\* The pairs of samples that reach past the end of the last scan, by the loop
\* that leaves out the others.
Pairs(p, m) ==
    LET v == <<p.last_imu>> \o m.imu
        upTo[i \in 0 .. Len(m.imu)] ==
            IF i = 0 THEN <<>>
            ELSE IF v[i + 1] < p.last_lidar_end_time THEN upTo[i - 1]
            ELSE Append(upTo[i - 1], [head |-> v[i], tail |-> v[i + 1]])
    IN  upTo[Len(m.imu)]

\* Broken variant of Spans: the first sample counts from its own stamp.
SpansWhole(p, m) ==
    [i \in DOMAIN Pairs(p, m) |-> Pairs(p, m)[i].tail - Pairs(p, m)[i].head]
    \o <<Abs(m.end - Last(m.imu))>>

\* The time of each prediction: from sample to sample, starting at the end of
\* the last scan, and from the last sample to the end of this scan.
Spans(p, m) ==
    [i \in DOMAIN Pairs(p, m) |->
        LET pair == Pairs(p, m)[i]
        IN  pair.tail - (IF pair.head < p.last_lidar_end_time
                         THEN p.last_lidar_end_time ELSE pair.head)]
    \o <<Abs(m.end - Last(m.imu))>>

\* Broken variant of Move: the point moved last is not stepped over.
MoveStays(head, st, points) ==
    LET after == {x \in 1 .. st.at : points[x] > head}
    IN  IF after = {} THEN st
        ELSE [at |-> Min(after),
              count |-> [x \in DOMAIN points |->
                           st.count[x] + (IF x \in after THEN 1 ELSE 0)]]

\* The points from st.at down that come after a pose are moved by it; the
\* first point is never stepped over.
Move(head, st, points) ==
    LET after == {x \in 1 .. st.at : points[x] > head}
    IN  IF after = {} THEN st
        ELSE [at |-> Max({1, Min(after) - 1}),
              count |-> [x \in DOMAIN points |->
                           st.count[x] + (IF x \in after THEN 1 ELSE 0)]]

\* How often each point is moved: the poses at the begin of the scan and at
\* each sample but the last, latest first.
Moves(p, m) ==
    LET points == m.lidar.offsets
        poses == Front(<<0>> \o [i \in DOMAIN Pairs(p, m) |-> Pairs(p, m)[i].tail - m.beg])
        from[i \in 1 .. Len(poses) + 1] ==
            IF i > Len(poses)
            THEN [at |-> Len(points), count |-> [x \in DOMAIN points |-> 0]]
            ELSE Move(poses[i], from[i + 1], points)
    IN  from[1].count

\* Process returns early without samples, and then feats_undistort keeps the
\* cloud of an earlier scan.
Process(m) ==
    IF m.imu = <<>> THEN UNCHANGED process
    ELSE IF proc.imu_need_init
    THEN /\ proc' = IMU_init(proc, m.imu)
         /\ UNCHANGED <<feats_undistort, undistorted>>
    ELSE /\ feats_undistort' = m.lidar
         /\ undistorted' = [proc |-> proc, meas |-> m, first |-> feats_undistort = None]
         /\ proc' = [proc EXCEPT !.last_imu = Last(m.imu), !.last_lidar_end_time = m.end]

-----------------------------------------------------------------------------
\* The body of the main loop for a group of measurements: initialise, build
\* the map from the first cloud with enough points, or register the cloud and
\* add it to the map.  size points are left by the downsampling.
Map(m) ==
    IF flg_first_scan
    THEN /\ flg_first_scan' = FALSE /\ first_lidar_time' = m.beg
         /\ UNCHANGED <<process, flg_EKF_inited, map, registered>>
    ELSE /\ Process(m)
         /\ UNCHANGED <<flg_first_scan, first_lidar_time>>
         /\ IF feats_undistort'.offsets = <<>>
            THEN UNCHANGED <<flg_EKF_inited, map, registered>>
            ELSE /\ flg_EKF_inited' = (m.beg - first_lidar_time >= INIT_TIME)
                 /\ \E size \in {1, Len(feats_undistort'.offsets)} :
                      IF ~map
                      THEN map' = (size > MinFeatures) /\ UNCHANGED registered
                      ELSE /\ registered' = IF size < MinFeatures THEN registered
                                ELSE [cloud |-> feats_undistort', beg |-> m.beg, end |-> m.end]
                           /\ UNCHANGED map

\* Broken variant of Popped: the stamp is left in time_buffer.
PoppedCloud(n) == /\ lidar_buffer' = Tail(lidar_buffer)
                  /\ UNCHANGED time_buffer
                  /\ imu_buffer' = SubSeq(imu_buffer, n + 1, Len(imu_buffer))

Popped(n) == /\ lidar_buffer' = Tail(lidar_buffer)
             /\ time_buffer' = Tail(time_buffer)
             /\ imu_buffer' = SubSeq(imu_buffer, n + 1, Len(imu_buffer))

\* Broken variant of Waits: the lidar's clock is looked at.
WaitsLidar(end) == last_timestamp_lidar < end

\* The scan is not over for the IMU.
Waits(end) == last_timestamp_imu < end

\* A turn of the loop.  A scan whose end the IMU has not reached waits, with
\* its cloud already in meas.
Turn ==
    /\ lidar_buffer # <<>> /\ imu_buffer # <<>>
    /\ \E pushed \in {Pushed} :
        /\ scan_num' = pushed.num /\ lidar_mean_scantime' = pushed.mean
        /\ IF Waits(pushed.meas.end)
           THEN /\ ~lidar_pushed
                /\ lidar_pushed' = TRUE /\ meas' = pushed.meas
                /\ UNCHANGED <<buffers, mapping>>
           ELSE \E n \in {TakesImu(imu_buffer, pushed.meas.end)} :
                /\ meas' = [pushed.meas EXCEPT !.imu = SubSeq(imu_buffer, 1, n)]
                /\ lidar_pushed' = FALSE
                /\ Popped(n)
                /\ ends' = [before |-> ends.last, last |-> pushed.meas.end]
                /\ Map(meas')
    /\ UNCHANGED <<sensors>>

\* A bound: within MaxTime the IMU can step over the end of every scan.
ReachedByImu(end) == \E d \in ImuSteps : d > 0 /\ end + d <= MaxTime

Lidar == \E d \in LidarSteps, o \in Clouds :
            LET s == last_timestamp_lidar + d
            IN  /\ Len(lidar_buffer) < MaxClouds
                /\ 1 <= s /\ \A c \in Clouds \ {<<>>} : ReachedByImu(s + Last(c))
                /\ standard_pcl_cbk([stamp |-> s, offsets |-> o])

ImuBy(steps) == \E d \in steps :
    LET t == last_timestamp_imu + d
    IN  /\ 0 <= t /\ t <= MaxTime
        /\ d = 0 => Len(imu_buffer) \in 1 .. MaxRepeated
        /\ imu_cbk(t)
Imu == ImuBy(ImuSteps)
ImuAdvances == ImuBy({d \in ImuSteps : d > 0})

Next == Lidar \/ Imu \/ Turn

\* The loop turns, and the IMU goes on to MaxTime.
Spec == /\ Init /\ [][Next]_vars
        /\ WF_vars(Turn)
        /\ WF_vars(ImuAdvances)
-----------------------------------------------------------------------------
Total(s) ==
    LET sum[i \in 0 .. Len(s)] == IF i = 0 THEN 0 ELSE sum[i - 1] + s[i]
    IN  sum[Len(s)]

NoLoopBack == loops.lidar = 0 /\ loops.imu = 0

\* time_buffer is not emptied with lidar_buffer: it keeps the stamps of the
\* clouds thrown away in front of those of the clouds kept, and every cloud is
\* taken with its own stamp only as long as no cloud was thrown away.
StampsAligned ==
    LET extra == Len(time_buffer) - Len(lidar_buffer)
    IN  /\ extra >= 0
        /\ \A i \in DOMAIN lidar_buffer :
              lidar_buffer[i].stamp = time_buffer[i + extra]
        /\ loops.lidar = 0 => extra = 0 /\ meas.lidar.stamp \in {-1, meas.beg}

\* Every IMU sample is used for the scan it lies in: a group holds all samples
\* sent between the ends of the last two scans and none from before or after,
\* however late a cloud or a sample came and however often the loop waited.
GroupComplete ==
    NoLoopBack =>
        /\ {t \in stamps : ends.before < t /\ t < ends.last} \subseteq Range(meas.imu)
        /\ \A t \in Range(meas.imu) : ends.before <= t /\ t <= ends.last

\* The filter's predictions of a scan add up to the time from the end of the
\* last scan processed to the end of this one, whatever scans without samples
\* lie between; none goes back in time, even after jumps of the stamps (except
\* a jump of the IMU during the initialisation, which does not set
\* last_lidar_end_time_).
PredictionsCover ==
    feats_undistort # None =>
        LET u == undistorted
            spans == Spans(u.proc, u.meas)
        IN  /\ NoLoopBack /\ ~u.first =>
                 Total(spans) = u.meas.end - u.proc.last_lidar_end_time
            /\ ~(u.first /\ loops.imu > 0) => \A i \in DOMAIN spans : spans[i] >= 0

\* Undistorting moves no point but the first twice, whatever jumps back, and
\* every point later than the begin of the scan at all; except in the first
\* scan, where the uninitialised end of the last one may leave no pose.  (A
\* point at the begin is moved if a sample lies between the scans; the first
\* point is moved by every earlier pose.)
PointsMovedOnce ==
    feats_undistort # None =>
        LET u == undistorted
            moves == Moves(u.proc, u.meas)
        IN  \A x \in 2 .. Len(moves) :
                /\ moves[x] <= 1
                /\ NoLoopBack /\ ~u.first /\ feats_undistort.offsets[x] > 0 => moves[x] = 1

\* What undistorting a scan does to its time line and to its points.
UndistortionRight == PredictionsCover /\ PointsMovedOnce

\* A scan is registered with the cloud of an earlier one only if the IMU sent
\* nothing during the scan; and the odometry's stamps advance.
OwnCloud ==
    [][NoLoopBack' /\ registered' # registered =>
        /\ registered'.end > registered.end
        /\ \/ registered'.cloud.stamp = registered'.beg
           \/ \A t \in stamps : t <= ends'.before \/ t >= ends'.last]_vars

\* As long as the IMU goes on, every cloud is taken, whatever jumps back.
ScansTaken == (lidar_buffer # <<>>) ~> (lidar_buffer = <<>>)
=============================================================================
