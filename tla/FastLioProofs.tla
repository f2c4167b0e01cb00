---------------------------- MODULE FastLioProofs ----------------------------
(***************************************************************************)
(* What holds of FastLio for all clouds and all orders of the callbacks    *)
(* and the loop's turns: clouds are taken with their own stamps            *)
(* (StampsAligned), groups hold the IMU samples of their scan              *)
(* (GroupComplete), scans are registered in order, with their own clouds   *)
(* (OwnCloud), and undistorting a scan covers its time and moves its       *)
(* points once (UndistortionRight).  And what holds of LocalMap for all    *)
(* cubes, ranges and motions (MapAroundLidar).                             *)
(***************************************************************************)
EXTENDS FastLio, LocalMap, TLAPS, FiniteSetTheorems, SequenceTheorems, WellFoundedInduction

-----------------------------------------------------------------------------
(* The types.                                                              *)

Cloud == [stamp : Int, offsets : Seq(Nat)]
Measures == [lidar : Cloud, beg : Int, end : Int, imu : Seq(Int)]
ImuState == [b_first_frame : BOOLEAN, imu_need_init : BOOLEAN, init_iter_num : Nat,
             last_imu : Int, last_lidar_end_time : Int]

BuffersOK == /\ lidar_buffer \in Seq([stamp : Int, offsets : Clouds])
             /\ time_buffer \in Seq(Int) /\ imu_buffer \in Seq(Int)
             /\ last_timestamp_lidar \in Int /\ last_timestamp_imu \in Int
             /\ loops \in [lidar : Nat, imu : Nat] /\ stamps \subseteq Int

SyncOK == /\ lidar_pushed \in BOOLEAN /\ meas \in Measures
          /\ scan_num \in Nat /\ lidar_mean_scantime \in Nat

MappingOK == /\ flg_first_scan \in BOOLEAN /\ first_lidar_time \in Int
             /\ flg_EKF_inited \in BOOLEAN /\ map \in BOOLEAN
             /\ proc \in ImuState /\ feats_undistort \in Cloud
             /\ registered \in [cloud : Cloud, beg : Int, end : Int]
             /\ ends \in [before : Int, last : Int]

TypeOK == BuffersOK /\ SyncOK /\ MappingOK

-----------------------------------------------------------------------------
(* The invariant.                                                          *)

\* The length of a scan: at least that of its points, at most the time until
\* the next one.
Period == CHOOSE n \in 0 .. MaxTime :
             /\ \A c \in Clouds : Len(c) > 1 => Last(c) \in 1 .. n
             /\ \A d \in LidarSteps : d >= 0 => d >= n /\ d > 0

\* The mean scan time is one of a scan, once one was measured.
MeanInv == lidar_mean_scantime <= Period /\ (scan_num > 0 => lidar_mean_scantime > 0)

\* Until the lidar's clock jumps back, every scan ends after the one before
\* it: the ends taken, the one waited for and those to come.
ScanInv ==
    loops.lidar = 0 =>
       /\ \A i \in DOMAIN time_buffer :
             /\ time_buffer[i] <= last_timestamp_lidar
             /\ ends.last <= time_buffer[i]
             /\ lidar_mean_scantime = 0 => ends.last < time_buffer[i]
             /\ \A j \in DOMAIN time_buffer :
                   i < j => time_buffer[i] + Period <= time_buffer[j]
                            /\ time_buffer[i] < time_buffer[j]
       /\ ends.last <= last_timestamp_lidar + Period
       /\ lidar_mean_scantime = 0 => ends.last <= last_timestamp_lidar
       /\ lidar_pushed =>
             /\ lidar_buffer # <<>> /\ meas.beg = Head(time_buffer)
             /\ meas.lidar = Head(lidar_buffer)
             /\ meas.beg <= meas.end /\ meas.end <= meas.beg + Period
             /\ ends.last < meas.end
             /\ lidar_mean_scantime = 0 => meas.end = meas.beg

\* Until a clock jumps back, imu_buffer ascends from the end of the last scan
\* on, and no later sample is missing from it.
ImuInv ==
    NoLoopBack =>
       /\ \A i \in DOMAIN imu_buffer :
             /\ ends.last <= imu_buffer[i] /\ imu_buffer[i] <= last_timestamp_imu
             /\ \A j \in DOMAIN imu_buffer : i < j => imu_buffer[i] <= imu_buffer[j]
       /\ ends.last <= last_timestamp_imu
       /\ {t \in stamps : ends.last < t} \subseteq Range(imu_buffer)

\* Nothing is registered before the IMU's initialisation, nor ahead of the
\* scans taken.
RegisteredInv ==
    /\ proc.imu_need_init => feats_undistort = None
    /\ loops.lidar = 0 => registered.end <= ends.last

IInv == /\ TypeOK /\ StampsAligned /\ MeanInv /\ ScanInv /\ ImuInv /\ GroupComplete
        /\ RegisteredInv

-----------------------------------------------------------------------------
(* Lengths of scans, and the samples before the end of one.                *)

\* There is such a length.
LEMMA PeriodRight ==
    /\ Period \in Nat
    /\ \A c \in Clouds : Len(c) > 1 => Last(c) \in 1 .. Period
    /\ \A d \in LidarSteps : d >= 0 => d >= Period /\ d > 0
<1> DEFINE P(n) == /\ \A c \in Clouds : Len(c) > 1 => Last(c) \in 1 .. n
                   /\ \A d \in LidarSteps : d >= 0 => d >= n /\ d > 0
<1>1. PICK n \in 0 .. MaxTime : P(n)
    BY ScansAssumption
<1>2. Period = CHOOSE k \in 0 .. MaxTime : P(k)
    BY DEF Period
<1> HIDE DEF P
<1>3. Period \in 0 .. MaxTime /\ P(Period)
    BY <1>1, <1>2
<1> QED
    BY <1>3, FastLioAssumption DEF P

\* A mean moves towards the new value, by less than the whole way.
LEMMA MeanBounds ==
    ASSUME NEW mean \in Nat, NEW last \in Nat \ {0}, NEW n \in Nat,
           n > 0 => mean > 0, mean <= Period, last <= Period
    PROVE  mean + (last - mean) \div (n + 1) \in 1 .. Period
<1>1. Period \in Nat
    BY PeriodRight
<1> SUFFICES ASSUME NEW d \in Nat, d = n + 1, NEW x \in Int, x = last - mean
             PROVE  mean + x \div d \in 1 .. Period
    OBVIOUS
<1>2. CASE n = 0
  <2>1. x \div 1 = x /\ d = 1
      BY <1>2
  <2> QED
      BY <1>1, <2>1
<1>3. CASE n > 0 /\ x >= 0
  <2>1. x \div d >= 0 /\ x \div d <= x /\ x \div d \in Int
      BY <1>3
  <2> QED
      BY <1>1, <1>3, <2>1
<1>4. CASE n > 0 /\ x < 0
  <2>1. x \div d < 0 /\ x \div d >= x /\ x \div d \in Int
      BY <1>4
  <2> QED
      BY <1>1, <1>4, <2>1
<1> QED
    BY <1>2, <1>3, <1>4

\* TakesImu takes a prefix: nothing later than the end of the scan, and
\* everything before it.
LEMMA TakesPrefix ==
    ASSUME NEW imu \in Seq(Int), NEW end \in Int,
           \A i, j \in DOMAIN imu : i < j => imu[i] <= imu[j]
    PROVE  /\ TakesImu(imu, end) \in 0 .. Len(imu)
           /\ \A i \in 1 .. TakesImu(imu, end) : imu[i] <= end
           /\ \A i \in TakesImu(imu, end) + 1 .. Len(imu) : imu[i] >= end
<1> DEFINE B == {i \in DOMAIN imu : imu[i] < end}
           c == Cardinality(B)
           L == Len(imu)
<1>1. L \in Nat /\ DOMAIN imu = 1 .. L /\ \A i \in 1 .. L : imu[i] \in Int
    BY LenProperties
<1>2. /\ IsFiniteSet(1 .. L) /\ Cardinality(1 .. L) = L
      /\ B \subseteq 1 .. L /\ IsFiniteSet(B) /\ c \in Nat /\ c <= L
  <2>1. IsFiniteSet(1 .. L) /\ Cardinality(1 .. L) = L
      BY <1>1, FS_Interval
  <2>2. B \subseteq 1 .. L
      BY <1>1
  <2>3. IsFiniteSet(B) /\ Cardinality(B) <= L
      BY <2>1, <2>2, FS_Subset
  <2> QED
      BY <2>1, <2>2, <2>3, FS_CardinalityType
<1>3. B \subseteq 1 .. c
  <2> SUFFICES ASSUME NEW k \in B PROVE k <= c
      BY <1>1, <1>2
  <2>1. k \in Nat /\ k >= 1 /\ \A i \in 1 .. k : i \in 1 .. L /\ (i = k \/ i < k)
      BY <1>1
  <2>2. 1 .. k \subseteq B
      BY <1>1, <2>1
  <2>3. Cardinality(1 .. k) = k
      BY <2>1, FS_Interval
  <2> QED
      BY <1>2, <2>2, <2>3, FS_Subset
<1>4. B = 1 .. c
  <2>1. \A k \in Nat : IsFiniteSet(1 .. k) /\ Cardinality(1 .. k) = k
      BY FS_Interval
  <2>2. IsFiniteSet(1 .. c) /\ Cardinality(1 .. c) = c
      BY <1>2, <2>1
  <2> QED
      BY <1>3, <2>2, FS_Subset
<1>5. TakesImu(imu, end) = IF c \in 1 .. L - 1 /\ imu[c + 1] = end THEN c + 1 ELSE c
    BY DEF TakesImu
<1> HIDE DEF c, L
<1>6. \A i \in 1 .. c : imu[i] < end
    BY <1>4
<1>7. \A i \in c + 1 .. L : imu[i] >= end
    BY <1>1, <1>2, <1>4
<1> QED
    BY <1>1, <1>2, <1>5, <1>6, <1>7 DEF L

-----------------------------------------------------------------------------
(* A turn of the loop: the cloud with the end of its scan, and then either *)
(* waiting for the IMU or taking the group.                                *)

Bounded(P) == P.mean <= Period /\ (P.num > 0 => P.mean > 0)

\* Pushed, when lidar_pushed is not set yet.
LEMMA PushedNew ==
    ASSUME TypeOK, MeanInv, lidar_buffer # <<>>, time_buffer # <<>>, ~lidar_pushed,
           NEW P, P = Pushed
    PROVE  \E e \in 0 .. Period :
              /\ P.meas = [meas EXCEPT !.lidar = Head(lidar_buffer), !.beg = Head(time_buffer),
                                       !.end = Head(time_buffer) + e]
              /\ P.num \in Nat /\ P.mean \in Nat /\ P.mean <= Period
              /\ P.num > 0 => P.mean > 0
              /\ P.mean = 0 => lidar_mean_scantime = 0 /\ e = 0
              /\ e = 0 => lidar_mean_scantime = 0
<1> DEFINE cloud == Head(lidar_buffer)
           beg == Head(time_buffer)
           mean == lidar_mean_scantime
           Short == Len(cloud.offsets) <= 1 \/ 2 * Last(cloud.offsets) < mean
<1>1. /\ cloud.offsets \in Clouds /\ mean \in Nat /\ scan_num \in Nat /\ mean <= Period
      /\ scan_num > 0 => mean > 0
      /\ Period \in Nat
  <2>1. cloud \in [stamp : Int, offsets : Clouds]
      BY HeadTailProperties DEF TypeOK, BuffersOK
  <2> HIDE DEF cloud
  <2> QED
      BY <2>1, PeriodRight DEF TypeOK, SyncOK, MeanInv
<1>2. CASE Short
  <2>1. P = [meas |-> [meas EXCEPT !.lidar = cloud, !.beg = beg, !.end = beg + mean],
             num |-> scan_num, mean |-> mean]
      BY <1>2 DEF Pushed
  <2> HIDE DEF cloud, beg
  <2>2. mean \in 0 .. Period
      BY <1>1
  <2>3. /\ P.meas = [meas EXCEPT !.lidar = cloud, !.beg = beg, !.end = beg + mean]
        /\ P.num = scan_num /\ P.mean = mean
      BY <2>1
  <2> WITNESS mean \in 0 .. Period
  <2> QED
      BY <1>1, <2>3 DEF cloud, beg
<1>3. CASE ~Short
  <2> DEFINE last == Last(cloud.offsets)
             new == mean + (last - mean) \div (scan_num + 1)
  <2>1. P = [meas |-> [meas EXCEPT !.lidar = cloud, !.beg = beg, !.end = beg + last],
             num |-> scan_num + 1, mean |-> new]
      BY <1>3 DEF Pushed
  <2>2. Len(cloud.offsets) > 1
      BY <1>1, <1>3, FastLioAssumption, LenProperties
  <2>3. last \in 1 .. Period
      BY <1>1, <2>2, PeriodRight
  <2> HIDE DEF last, cloud, beg
  <2>4. new \in 1 .. Period
      BY <1>1, <2>3, MeanBounds
  <2> HIDE DEF new
  <2>5. /\ P.meas = [meas EXCEPT !.lidar = cloud, !.beg = beg, !.end = beg + last]
        /\ P.num = scan_num + 1 /\ P.mean = new
      BY <2>1
  <2>6. last \in 0 .. Period /\ last # 0 /\ new # 0 /\ new \in Nat /\ new <= Period
      BY <1>1, <2>3, <2>4
  <2> last \in 0 .. Period
      BY <2>6
  <2> WITNESS last \in 0 .. Period
  <2> QED
      BY <1>1, <2>5, <2>6 DEF cloud, beg
<1> QED
    BY <1>2, <1>3

\* While the loop waits, the cloud stays in meas.
LEMMA PushedOld ==
    ASSUME lidar_pushed, NEW P, P = Pushed
    PROVE  P = [meas |-> meas, num |-> scan_num, mean |-> lidar_mean_scantime]
    BY DEF Pushed

Waiting(P) ==
    /\ P = Pushed /\ lidar_buffer # <<>> /\ imu_buffer # <<>>
    /\ scan_num' = P.num /\ lidar_mean_scantime' = P.mean
    /\ Waits(P.meas.end) /\ ~lidar_pushed /\ lidar_pushed' = TRUE /\ meas' = P.meas
    /\ UNCHANGED <<buffers, mapping, sensors>>

Taking(P, n, m) ==
    /\ P = Pushed /\ lidar_buffer # <<>> /\ imu_buffer # <<>>
    /\ scan_num' = P.num /\ lidar_mean_scantime' = P.mean
    /\ ~Waits(P.meas.end) /\ n = TakesImu(imu_buffer, P.meas.end)
    /\ m = [P.meas EXCEPT !.imu = SubSeq(imu_buffer, 1, n)]
    /\ meas' = m /\ lidar_pushed' = FALSE /\ Popped(n)
    /\ ends' = [before |-> ends.last, last |-> P.meas.end]
    /\ Map(m)
    /\ UNCHANGED sensors

\* A turn of the loop either waits or takes a group.
LEMMA TurnCases ==
    ASSUME Turn
    PROVE  \E P : Waiting(P) \/ \E n, m : Taking(P, n, m)
<1>1. PICK P : P = Pushed
    OBVIOUS
<1>2. CASE Waits(P.meas.end)
  <2>1. Waiting(P)
      BY <1>1, <1>2 DEF Turn, Waiting
  <2> QED
      BY <2>1
<1>3. CASE ~Waits(P.meas.end)
  <2>1. PICK n : n = TakesImu(imu_buffer, P.meas.end)
      OBVIOUS
  <2>2. Taking(P, n, meas')
      BY <1>1, <1>3, <2>1 DEF Turn, Taking
  <2> QED
      BY <2>2
<1> QED
    BY <1>2, <1>3

\* A cloud in lidar_buffer has its stamp in time_buffer.
LEMMA HasStamp ==
    ASSUME TypeOK, StampsAligned, lidar_buffer # <<>>
    PROVE  time_buffer # <<>>
<1>1. Len(lidar_buffer) > 0 /\ Len(lidar_buffer) \in Nat
    BY DEF TypeOK, BuffersOK
<1>2. Len(time_buffer) - Len(lidar_buffer) >= 0 /\ Len(time_buffer) \in Nat
    BY DEF StampsAligned, TypeOK, BuffersOK
<1> QED
    BY <1>1, <1>2

\* The types of what Pushed returns.
LEMMA PushedType ==
    ASSUME TypeOK, MeanInv, StampsAligned, lidar_buffer # <<>>, NEW P, P = Pushed
    PROVE  /\ P.meas \in Measures /\ P.meas.imu = meas.imu
           /\ P.num \in Nat /\ P.mean \in Nat
           /\ Bounded(P)
<1>1. CASE lidar_pushed
    BY <1>1, PushedOld DEF TypeOK, SyncOK, MeanInv, Bounded
<1>2. CASE ~lidar_pushed
  <2>1. PICK e \in 0 .. Period :
              /\ P.meas = [meas EXCEPT !.lidar = Head(lidar_buffer), !.beg = Head(time_buffer),
                                       !.end = Head(time_buffer) + e]
              /\ P.num \in Nat /\ P.mean \in Nat /\ P.mean <= Period
              /\ P.num > 0 => P.mean > 0
      BY <1>2, PushedNew, HasStamp
  <2>2. Head(lidar_buffer) \in Cloud /\ Head(time_buffer) \in Int
    <3>1. Head(lidar_buffer) \in [stamp : Int, offsets : Clouds]
        BY HeadTailProperties DEF TypeOK, BuffersOK
    <3>2. Head(time_buffer) \in Int
        BY HasStamp, HeadTailProperties DEF TypeOK, BuffersOK
    <3> QED
        BY <3>1, <3>2, FastLioAssumption DEF Cloud
  <2>3. Head(time_buffer) + e \in Int
      BY <2>2, PeriodRight
  <2>4. meas \in Measures
      BY DEF TypeOK, SyncOK
  <2> QED
      BY <2>1, <2>2, <2>3, <2>4 DEF Measures, Bounded
<1> QED
    BY <1>1, <1>2

\* What processing a group does.
LEMMA ProcessEffect ==
    ASSUME proc \in ImuState, feats_undistort \in Cloud, NEW m \in Measures, Process(m),
           proc.imu_need_init => feats_undistort = None
    PROVE  /\ proc' \in ImuState /\ feats_undistort' \in Cloud
           /\ proc'.imu_need_init => feats_undistort' = None
           /\ feats_undistort' = m.lidar \/ m.imu = <<>> \/ feats_undistort' = None
<1>1. CASE m.imu = <<>>
    BY <1>1 DEF Process, process
<1>2. CASE m.imu # <<>>
  <2>1. m.imu \in Seq(Int) /\ Last(m.imu) \in Int /\ Len(m.imu) \in Nat /\ m.lidar \in Cloud
        /\ m.end \in Int
    <3>1. m.imu \in Seq(Int) /\ m.lidar \in Cloud /\ m.end \in Int
        BY DEF Measures
    <3>2. Len(m.imu) \in Nat \ {0} /\ Len(m.imu) \in 1 .. Len(m.imu)
        BY <1>2, <3>1, EmptySeq, LenProperties
    <3> QED
        BY <3>1, <3>2, ElementOfSeq DEF Last
  <2>2. CASE proc.imu_need_init
    <3>1. proc' = IMU_init(proc, m.imu) /\ feats_undistort' = feats_undistort
        BY <1>2, <2>2 DEF Process
    <3>2. PICK n \in Nat, need \in BOOLEAN :
             proc' = [proc EXCEPT !.b_first_frame = FALSE, !.init_iter_num = n,
                                  !.last_imu = Last(m.imu), !.imu_need_init = need]
      <4>1. PICK n \in Nat :
               n = (IF proc.b_first_frame THEN 1 ELSE proc.init_iter_num) + Len(m.imu)
          BY <2>1 DEF ImuState
      <4>2. (n <= MAX_INI_COUNT) \in BOOLEAN
          OBVIOUS
      <4> QED
          BY <3>1, <4>1, <4>2 DEF IMU_init
    <3>3. proc' \in ImuState
        BY <2>1, <3>2 DEF ImuState
    <3> QED
        BY <2>2, <3>1, <3>3
  <2>3. CASE ~proc.imu_need_init
    <3>1. /\ feats_undistort' = m.lidar
          /\ proc' = [proc EXCEPT !.last_imu = Last(m.imu), !.last_lidar_end_time = m.end]
        BY <1>2, <2>3 DEF Process
    <3>2. proc' \in ImuState /\ proc'.imu_need_init = proc.imu_need_init
        BY <2>1, <3>1 DEF ImuState
    <3> QED
        BY <2>1, <2>3, <3>1, <3>2
  <2> QED
      BY <2>2, <2>3
<1> QED
    BY <1>1, <1>2

\* What the main loop does with it: a scan that is registered is registered
\* with its own cloud, or had no samples.
LEMMA MapEffect ==
    ASSUME TypeOK, RegisteredInv, NEW m \in Measures, Map(m)
    PROVE  /\ flg_first_scan' \in BOOLEAN /\ first_lidar_time' \in Int
           /\ flg_EKF_inited' \in BOOLEAN /\ map' \in BOOLEAN
           /\ proc' \in ImuState /\ feats_undistort' \in Cloud
           /\ proc'.imu_need_init => feats_undistort' = None
           /\ \/ registered' = registered
              \/ /\ registered' = [cloud |-> feats_undistort', beg |-> m.beg, end |-> m.end]
                 /\ feats_undistort' = m.lidar \/ m.imu = <<>>
<1>1. /\ flg_first_scan \in BOOLEAN /\ first_lidar_time \in Int
      /\ flg_EKF_inited \in BOOLEAN /\ map \in BOOLEAN
      /\ proc \in ImuState /\ feats_undistort \in Cloud
      /\ proc.imu_need_init => feats_undistort = None
      /\ m.beg \in Int
    BY DEF TypeOK, MappingOK, RegisteredInv, Measures
<1>2. CASE flg_first_scan
    BY <1>1, <1>2 DEF Map, process
<1>3. CASE ~flg_first_scan
  <2>1. /\ Process(m) /\ flg_first_scan' = flg_first_scan /\ first_lidar_time' = first_lidar_time
        /\ IF feats_undistort'.offsets = <<>>
           THEN UNCHANGED <<flg_EKF_inited, map, registered>>
           ELSE /\ flg_EKF_inited' = (m.beg - first_lidar_time >= INIT_TIME)
                /\ \E size \in {1, Len(feats_undistort'.offsets)} :
                      IF ~map
                      THEN map' = (size > MinFeatures) /\ UNCHANGED registered
                      ELSE /\ registered' = IF size < MinFeatures THEN registered
                                ELSE [cloud |-> feats_undistort', beg |-> m.beg, end |-> m.end]
                           /\ UNCHANGED map
      BY <1>3 DEF Map
  <2>2. /\ proc' \in ImuState /\ feats_undistort' \in Cloud
        /\ proc'.imu_need_init => feats_undistort' = None
        /\ feats_undistort' = m.lidar \/ m.imu = <<>> \/ feats_undistort' = None
      BY <1>1, <2>1, ProcessEffect
  <2>3. CASE feats_undistort'.offsets = <<>>
      BY <1>1, <2>1, <2>2, <2>3
  <2>4. CASE feats_undistort'.offsets # <<>>
    <3>1. feats_undistort' # None
        BY <2>4 DEF None
    <3>2. map' \in BOOLEAN /\ flg_EKF_inited' \in BOOLEAN
      <4>1. (m.beg - first_lidar_time >= INIT_TIME) \in BOOLEAN
            /\ \A size : (size > MinFeatures) \in BOOLEAN
          OBVIOUS
      <4>2. flg_EKF_inited' \in BOOLEAN
          BY <2>1, <2>4, <4>1
      <4>3. map' = map \/ \E size : map' = (size > MinFeatures)
          BY <2>1, <2>4
      <4>4. map' \in BOOLEAN
          BY <1>1, <4>1, <4>3
      <4> QED
          BY <4>2, <4>4
    <3>3. \/ registered' = registered
          \/ registered' = [cloud |-> feats_undistort', beg |-> m.beg, end |-> m.end]
        BY <2>1, <2>4
    <3> QED
        BY <1>1, <2>1, <2>2, <3>1, <3>2, <3>3
  <2> QED
      BY <2>3, <2>4
<1> QED
    BY <1>2, <1>3

\* What is left of the buffers.
LEMMA PoppedEffect ==
    ASSUME TypeOK, StampsAligned, lidar_buffer # <<>>, NEW n \in 0 .. Len(imu_buffer), Popped(n)
    PROVE  /\ lidar_buffer' \in Seq([stamp : Int, offsets : Clouds])
           /\ time_buffer' \in Seq(Int) /\ imu_buffer' \in Seq(Int)
           /\ Len(lidar_buffer') = Len(lidar_buffer) - 1
           /\ \A i \in 1 .. Len(lidar_buffer') : lidar_buffer'[i] = lidar_buffer[i + 1]
           /\ Len(time_buffer') = Len(time_buffer) - 1
           /\ \A i \in 1 .. Len(time_buffer') : time_buffer'[i] = time_buffer[i + 1]
           /\ Len(imu_buffer') = Len(imu_buffer) - n
           /\ \A i \in 1 .. Len(imu_buffer') : imu_buffer'[i] = imu_buffer[n + i]
<1>1. time_buffer # <<>>
    BY HasStamp
<1>2. /\ lidar_buffer \in Seq([stamp : Int, offsets : Clouds])
      /\ time_buffer \in Seq(Int) /\ imu_buffer \in Seq(Int)
    BY DEF TypeOK, BuffersOK
<1>3. lidar_buffer' = Tail(lidar_buffer) /\ time_buffer' = Tail(time_buffer)
      /\ imu_buffer' = SubSeq(imu_buffer, n + 1, Len(imu_buffer))
    BY DEF Popped
<1>4. /\ lidar_buffer' \in Seq([stamp : Int, offsets : Clouds])
      /\ Len(lidar_buffer') = Len(lidar_buffer) - 1
      /\ \A i \in 1 .. Len(lidar_buffer') : lidar_buffer'[i] = lidar_buffer[i + 1]
    BY <1>2, <1>3, HeadTailProperties
<1>5. /\ time_buffer' \in Seq(Int)
      /\ Len(time_buffer') = Len(time_buffer) - 1
      /\ \A i \in 1 .. Len(time_buffer') : time_buffer'[i] = time_buffer[i + 1]
    BY <1>1, <1>2, <1>3, HeadTailProperties
<1>6. /\ imu_buffer' \in Seq(Int)
      /\ Len(imu_buffer') = Len(imu_buffer) - n
      /\ \A i \in 1 .. Len(imu_buffer') : imu_buffer'[i] = imu_buffer[n + i]
  <2> DEFINE L == Len(imu_buffer)
  <2>1. L \in Nat /\ n \in Nat /\ \A i \in n + 1 .. L : imu_buffer[i] \in Int
      BY <1>2
  <2> HIDE DEF L
  <2>2. /\ SubSeq(imu_buffer, n + 1, L) \in Seq(Int)
        /\ Len(SubSeq(imu_buffer, n + 1, L)) = IF n + 1 <= L THEN L - (n + 1) + 1 ELSE 0
        /\ \A i \in 1 .. L - (n + 1) + 1 :
              SubSeq(imu_buffer, n + 1, L)[i] = imu_buffer[n + 1 + i - 1]
      BY <2>1, SubSeqProperties
  <2>3. n <= L
      BY DEF L
  <2>4. Len(imu_buffer') = L - n
      BY <1>3, <2>1, <2>2, <2>3 DEF L
  <2>5. ASSUME NEW i \in 1 .. L - n PROVE imu_buffer'[i] = imu_buffer[n + i]
    <3>1. i \in 1 .. L - (n + 1) + 1 /\ n + 1 + i - 1 = n + i
        BY <2>1
    <3> QED
        BY <1>3, <2>2, <3>1 DEF L
  <2> QED
      BY <1>3, <2>2, <2>4, <2>5 DEF L
<1> QED
    BY <1>4, <1>5, <1>6

\* The group that is taken.
LEMMA TakenGroup ==
    ASSUME TypeOK, NEW P, P.meas \in Measures, NEW n \in 0 .. Len(imu_buffer), NEW m,
           m = [P.meas EXCEPT !.imu = SubSeq(imu_buffer, 1, n)]
    PROVE  /\ m \in Measures
           /\ m.lidar = P.meas.lidar /\ m.beg = P.meas.beg /\ m.end = P.meas.end
           /\ Len(m.imu) = n /\ \A i \in 1 .. n : m.imu[i] = imu_buffer[i]
<1>1. imu_buffer \in Seq(Int) /\ n \in Nat /\ \A i \in 1 .. n : imu_buffer[i] \in Int
    BY DEF TypeOK, BuffersOK
<1>2. /\ SubSeq(imu_buffer, 1, n) \in Seq(Int) /\ Len(SubSeq(imu_buffer, 1, n)) = n
      /\ \A i \in 1 .. n : SubSeq(imu_buffer, 1, n)[i] = imu_buffer[i]
  <2>1. /\ SubSeq(imu_buffer, 1, n) \in Seq(Int)
        /\ Len(SubSeq(imu_buffer, 1, n)) = IF 1 <= n THEN n - 1 + 1 ELSE 0
        /\ \A i \in 1 .. n - 1 + 1 : SubSeq(imu_buffer, 1, n)[i] = imu_buffer[1 + i - 1]
      BY <1>1, SubSeqProperties
  <2>2. \A i \in 1 .. n : 1 + i - 1 = i /\ i \in 1 .. n - 1 + 1
      BY <1>1
  <2> QED
      BY <1>1, <2>1, <2>2
<1>3. /\ m \in Measures
      /\ m.lidar = P.meas.lidar /\ m.beg = P.meas.beg /\ m.end = P.meas.end
      /\ m.imu = SubSeq(imu_buffer, 1, n)
    BY <1>2 DEF Measures
<1> QED
    BY <1>2, <1>3

-----------------------------------------------------------------------------
(* The callbacks.                                                          *)

\* What standard_pcl_cbk does to the buffers: the cloud is appended, after the
\* other clouds are thrown away if the clock jumped back.
LEMMA LidarEffect ==
    ASSUME TypeOK, NEW cloud \in [stamp : Int, offsets : Clouds], standard_pcl_cbk(cloud)
    PROVE  /\ lidar_buffer' \in Seq([stamp : Int, offsets : Clouds])
           /\ time_buffer' \in Seq(Int) /\ loops' \in [lidar : Nat, imu : Nat]
           /\ loops'.imu = loops.imu
           /\ last_timestamp_lidar' = cloud.stamp
           /\ Len(time_buffer') = Len(time_buffer) + 1
           /\ time_buffer'[Len(time_buffer) + 1] = cloud.stamp
           /\ \A i \in 1 .. Len(time_buffer) : time_buffer'[i] = time_buffer[i]
           /\ \/ /\ cloud.stamp >= last_timestamp_lidar /\ loops' = loops
                 /\ Len(lidar_buffer') = Len(lidar_buffer) + 1
                 /\ lidar_buffer'[Len(lidar_buffer) + 1] = cloud
                 /\ \A i \in 1 .. Len(lidar_buffer) : lidar_buffer'[i] = lidar_buffer[i]
              \/ /\ loops'.lidar = loops.lidar + 1 /\ lidar_buffer' = <<cloud>>
           /\ UNCHANGED <<imu_buffer, last_timestamp_imu, stamps, sync, mapping>>
<1>1. /\ lidar_buffer \in Seq([stamp : Int, offsets : Clouds]) /\ time_buffer \in Seq(Int)
      /\ loops \in [lidar : Nat, imu : Nat] /\ last_timestamp_lidar \in Int
      /\ cloud.stamp \in Int
    BY DEF TypeOK, BuffersOK
<1>2. /\ time_buffer' = Append(time_buffer, cloud.stamp) /\ last_timestamp_lidar' = cloud.stamp
      /\ UNCHANGED <<imu_buffer, last_timestamp_imu, stamps, sync, mapping>>
    BY DEF standard_pcl_cbk
<1>3. /\ time_buffer' \in Seq(Int)
      /\ Len(time_buffer') = Len(time_buffer) + 1
      /\ time_buffer'[Len(time_buffer) + 1] = cloud.stamp
      /\ \A i \in 1 .. Len(time_buffer) : time_buffer'[i] = time_buffer[i]
    BY <1>1, <1>2, AppendProperties
<1>4. CASE cloud.stamp < last_timestamp_lidar
  <2>1. /\ lidar_buffer' = Append(<<>>, cloud)
        /\ loops' = [loops EXCEPT !.lidar = @ + 1]
      BY <1>4 DEF standard_pcl_cbk
  <2>2. lidar_buffer' = <<cloud>> /\ lidar_buffer' \in Seq([stamp : Int, offsets : Clouds])
      BY <2>1
  <2>3. /\ loops' \in [lidar : Nat, imu : Nat] /\ loops'.lidar = loops.lidar + 1
        /\ loops'.imu = loops.imu
      BY <1>1, <2>1
  <2> QED
      BY <1>2, <1>3, <2>2, <2>3
<1>5. CASE ~(cloud.stamp < last_timestamp_lidar)
  <2>1. lidar_buffer' = Append(lidar_buffer, cloud) /\ loops' = [loops EXCEPT !.lidar = @ + 0]
      BY <1>5 DEF standard_pcl_cbk
  <2>2. /\ lidar_buffer' \in Seq([stamp : Int, offsets : Clouds])
        /\ Len(lidar_buffer') = Len(lidar_buffer) + 1
        /\ lidar_buffer'[Len(lidar_buffer) + 1] = cloud
        /\ \A i \in 1 .. Len(lidar_buffer) : lidar_buffer'[i] = lidar_buffer[i]
      BY <1>1, <2>1, AppendProperties
  <2>3. loops' = loops
      BY <1>1, <2>1
  <2>4. cloud.stamp >= last_timestamp_lidar
      BY <1>1, <1>5
  <2> QED
      BY <1>1, <1>2, <1>3, <2>2, <2>3, <2>4
<1> QED
    BY <1>4, <1>5

\* What imu_cbk does to imu_buffer and its history.
LEMMA ImuEffect ==
    ASSUME TypeOK, NEW t \in Int, imu_cbk(t)
    PROVE  /\ imu_buffer' \in Seq(Int) /\ loops' \in [lidar : Nat, imu : Nat]
           /\ loops'.lidar = loops.lidar
           /\ last_timestamp_imu' = t /\ stamps' = stamps \cup {t}
           /\ \/ /\ t >= last_timestamp_imu /\ loops' = loops
                 /\ Len(imu_buffer') = Len(imu_buffer) + 1
                 /\ imu_buffer'[Len(imu_buffer) + 1] = t
                 /\ \A i \in 1 .. Len(imu_buffer) : imu_buffer'[i] = imu_buffer[i]
              \/ loops'.imu = loops.imu + 1 /\ imu_buffer' = <<t>>
           /\ UNCHANGED <<lidar_buffer, time_buffer, last_timestamp_lidar, sync, mapping>>
<1>1. /\ imu_buffer \in Seq(Int) /\ loops \in [lidar : Nat, imu : Nat]
      /\ last_timestamp_imu \in Int
    BY DEF TypeOK, BuffersOK
<1>2. /\ last_timestamp_imu' = t /\ stamps' = stamps \cup {t}
      /\ UNCHANGED <<lidar_buffer, time_buffer, last_timestamp_lidar, sync, mapping>>
    BY DEF imu_cbk
<1>3. CASE t < last_timestamp_imu
  <2>1. imu_buffer' = Append(<<>>, t) /\ loops' = [loops EXCEPT !.imu = @ + 1]
      BY <1>3 DEF imu_cbk
  <2>2. imu_buffer' = <<t>> /\ imu_buffer' \in Seq(Int)
      BY <2>1
  <2>3. /\ loops' \in [lidar : Nat, imu : Nat] /\ loops'.imu = loops.imu + 1
        /\ loops'.lidar = loops.lidar
      BY <1>1, <2>1
  <2> QED
      BY <1>2, <2>2, <2>3
<1>4. CASE ~(t < last_timestamp_imu)
  <2>1. imu_buffer' = Append(imu_buffer, t) /\ loops' = [loops EXCEPT !.imu = @ + 0]
      BY <1>4 DEF imu_cbk
  <2>2. /\ imu_buffer' \in Seq(Int) /\ Len(imu_buffer') = Len(imu_buffer) + 1
        /\ imu_buffer'[Len(imu_buffer) + 1] = t
        /\ \A i \in 1 .. Len(imu_buffer) : imu_buffer'[i] = imu_buffer[i]
      BY <1>1, <2>1, AppendProperties
  <2>3. loops' = loops /\ t >= last_timestamp_imu
      BY <1>1, <1>2, <1>4, <2>1
  <2> QED
      BY <1>1, <1>2, <2>2, <2>3
<1> QED
    BY <1>3, <1>4

\* Every step is one of these.
LEMMA NextCases ==
    ASSUME TypeOK, [Next]_vars
    PROVE  \/ \E cloud \in [stamp : Int, offsets : Clouds] :
                 /\ standard_pcl_cbk(cloud)
                 /\ \E d \in LidarSteps : cloud.stamp = last_timestamp_lidar + d
           \/ \E t \in Int : imu_cbk(t)
           \/ \E P : Waiting(P) \/ \E n, m : Taking(P, n, m)
           \/ UNCHANGED vars
<1>1. CASE Lidar
  <2>1. PICK d \in LidarSteps, o \in Clouds :
               standard_pcl_cbk([stamp |-> last_timestamp_lidar + d, offsets |-> o])
      BY <1>1 DEF Lidar
  <2>2. last_timestamp_lidar + d \in Int
      BY FastLioAssumption DEF TypeOK, BuffersOK
  <2> QED
      BY <2>1, <2>2
<1>2. CASE Imu
  <2>1. PICK d \in ImuSteps : imu_cbk(last_timestamp_imu + d)
      BY <1>2 DEF Imu, ImuBy
  <2>2. last_timestamp_imu + d \in Int
      BY FastLioAssumption DEF TypeOK, BuffersOK
  <2> QED
      BY <2>1, <2>2
<1> QED
    BY <1>1, <1>2, TurnCases DEF Next

\* What a group that is taken consists of.
LEMMA TakingEffect ==
    ASSUME TypeOK, MeanInv, StampsAligned, NEW P, NEW n, NEW m, Taking(P, n, m),
           n \in 0 .. Len(imu_buffer)
    PROVE  /\ m \in Measures /\ meas' = m
           /\ m.lidar = P.meas.lidar /\ m.beg = P.meas.beg /\ m.end = P.meas.end
           /\ Len(m.imu) = n /\ \A i \in 1 .. n : m.imu[i] = imu_buffer[i]
           /\ ends' = [before |-> ends.last, last |-> m.end]
    BY PushedType, TakenGroup DEF Taking

\* A prefix is taken, whatever order the samples are in.
LEMMA TakesSome ==
    ASSUME NEW imu \in Seq(Int), NEW end \in Int
    PROVE  TakesImu(imu, end) \in 0 .. Len(imu)
<1> DEFINE c == Cardinality({i \in DOMAIN imu : imu[i] < end})
<1>1. Len(imu) \in Nat /\ DOMAIN imu = 1 .. Len(imu)
    BY LenProperties
<1>2. c \in Nat /\ c <= Len(imu)
  <2>1. IsFiniteSet(1 .. Len(imu)) /\ Cardinality(1 .. Len(imu)) = Len(imu)
      BY <1>1, FS_Interval
  <2>2. {i \in DOMAIN imu : imu[i] < end} \subseteq 1 .. Len(imu)
      BY <1>1
  <2> QED
      BY <2>1, <2>2, FS_Subset, FS_CardinalityType
<1>3. TakesImu(imu, end) = IF c \in 1 .. Len(imu) - 1 /\ imu[c + 1] = end THEN c + 1 ELSE c
    BY DEF TakesImu
<1> HIDE DEF c
<1> QED
    BY <1>1, <1>2, <1>3

\* The number of samples taken.
LEMMA TakingSome ==
    ASSUME TypeOK, MeanInv, StampsAligned, NEW P, NEW n, NEW m, Taking(P, n, m)
    PROVE  n \in 0 .. Len(imu_buffer)
<1>1. P.meas.end \in Int
    BY PushedType DEF Taking, Measures
<1> QED
    BY <1>1, TakesSome DEF Taking, TypeOK, BuffersOK

-----------------------------------------------------------------------------
(* Every step keeps the types, and the clouds with their stamps.           *)

\* The types, and the bounds of the mean scan time.
LEMMA TypeStep ==
    ASSUME TypeOK, StampsAligned, MeanInv, RegisteredInv, [Next]_vars
    PROVE  TypeOK' /\ MeanInv'
<1>1. ASSUME NEW cloud \in [stamp : Int, offsets : Clouds], standard_pcl_cbk(cloud)
      PROVE  TypeOK' /\ MeanInv'
  <2>1. BuffersOK'
      BY <1>1, LidarEffect DEF TypeOK, BuffersOK
  <2>2. SyncOK' /\ MappingOK' /\ MeanInv'
      BY <1>1, LidarEffect DEF TypeOK, SyncOK, MappingOK, MeanInv, sync, mapping, process
  <2> QED
      BY <2>1, <2>2 DEF TypeOK
<1>2. ASSUME NEW t \in Int, imu_cbk(t) PROVE TypeOK' /\ MeanInv'
  <2>1. BuffersOK'
      BY <1>2, ImuEffect DEF TypeOK, BuffersOK
  <2>2. SyncOK' /\ MappingOK' /\ MeanInv'
      BY <1>2, ImuEffect DEF TypeOK, SyncOK, MappingOK, MeanInv, sync, mapping, process
  <2> QED
      BY <2>1, <2>2 DEF TypeOK
<1>3. ASSUME NEW P, Waiting(P) PROVE TypeOK' /\ MeanInv'
  <2>1. P.meas \in Measures /\ P.num \in Nat /\ P.mean \in Nat /\ Bounded(P)
      BY <1>3, PushedType DEF Waiting
  <2>2. SyncOK' /\ MeanInv'
      BY <1>3, <2>1 DEF Waiting, SyncOK, MeanInv, Bounded
  <2>3. BuffersOK' /\ MappingOK'
      BY <1>3 DEF Waiting, TypeOK, BuffersOK, MappingOK, buffers, mapping, process, sensors
  <2> QED
      BY <2>2, <2>3 DEF TypeOK
<1>4. ASSUME NEW P, NEW n, NEW m, Taking(P, n, m) PROVE TypeOK' /\ MeanInv'
  <2>1. n \in 0 .. Len(imu_buffer)
      BY <1>4, TakingSome
  <2>2. P.num \in Nat /\ P.mean \in Nat /\ Bounded(P)
      BY <1>4, PushedType DEF Taking
  <2>3. m \in Measures /\ meas' = m /\ ends' = [before |-> ends.last, last |-> m.end]
      BY <1>4, <2>1, TakingEffect
  <2>4. SyncOK' /\ MeanInv'
      BY <1>4, <2>2, <2>3 DEF Taking, SyncOK, MeanInv, Bounded
  <2>5. BuffersOK'
      BY <1>4, <2>1, PoppedEffect DEF Taking, TypeOK, BuffersOK, sensors
  <2>6. /\ flg_first_scan' \in BOOLEAN /\ first_lidar_time' \in Int
        /\ flg_EKF_inited' \in BOOLEAN /\ map' \in BOOLEAN
        /\ proc' \in ImuState /\ feats_undistort' \in Cloud
        /\ \/ registered' = registered
           \/ registered' = [cloud |-> feats_undistort', beg |-> m.beg, end |-> m.end]
      BY <1>4, <2>3, MapEffect DEF Taking
  <2>7. registered' \in [cloud : Cloud, beg : Int, end : Int]
      BY <2>3, <2>6 DEF TypeOK, MappingOK, Measures
  <2>8. ends' \in [before : Int, last : Int]
      BY <2>3 DEF TypeOK, MappingOK, Measures
  <2> QED
      BY <2>4, <2>5, <2>6, <2>7, <2>8 DEF TypeOK, MappingOK
<1>5. CASE UNCHANGED vars
    BY <1>5
    DEF vars, buffers, sensors, sync, mapping, process, TypeOK, BuffersOK, SyncOK, MappingOK,
        MeanInv
<1> QED
    BY <1>1, <1>2, <1>3, <1>4, <1>5, NextCases

-----------------------------------------------------------------------------
\* While no cloud was thrown away, the heads of the buffers belong together.
LEMMA HeadsAligned ==
    ASSUME TypeOK, StampsAligned, lidar_buffer # <<>>, loops.lidar = 0
    PROVE  Head(lidar_buffer).stamp = Head(time_buffer)
<1>1. Len(lidar_buffer) = Len(time_buffer)
    BY DEF StampsAligned, TypeOK, BuffersOK
<1>2. 1 \in DOMAIN lidar_buffer
    BY DEF TypeOK, BuffersOK
<1>3. lidar_buffer[1].stamp = time_buffer[1 + (Len(time_buffer) - Len(lidar_buffer))]
    BY <1>2 DEF StampsAligned
<1>4. 1 + (Len(time_buffer) - Len(lidar_buffer)) = 1
    BY <1>1 DEF TypeOK, BuffersOK
<1>5. Head(lidar_buffer) = lidar_buffer[1] /\ Head(time_buffer) = time_buffer[1]
    BY HasStamp, HeadTailProperties DEF TypeOK, BuffersOK
<1> QED
    BY <1>3, <1>4, <1>5

\* The cloud that is looked at has its own stamp.
LEMMA PushedAligned ==
    ASSUME TypeOK, MeanInv, StampsAligned, lidar_buffer # <<>>, loops.lidar = 0,
           NEW P, P = Pushed
    PROVE  P.meas.lidar.stamp \in {-1, P.meas.beg}
<1>1. CASE lidar_pushed
    BY <1>1, PushedOld DEF StampsAligned
<1>2. CASE ~lidar_pushed
  <2>1. PICK e \in 0 .. Period :
           P.meas = [meas EXCEPT !.lidar = Head(lidar_buffer), !.beg = Head(time_buffer),
                                 !.end = Head(time_buffer) + e]
      BY <1>2, PushedNew, HasStamp
  <2>2. P.meas.lidar = Head(lidar_buffer) /\ P.meas.beg = Head(time_buffer)
      BY <2>1 DEF TypeOK, SyncOK, Measures
  <2>3. Head(lidar_buffer).stamp = Head(time_buffer)
      BY HeadsAligned
  <2> QED
      BY <2>2, <2>3
<1> QED
    BY <1>1, <1>2

\* Clouds and stamps stay in step: both deques grow by one and shrink by one,
\* and a jump back leaves a fixed number of stamps behind.
LEMMA AlignStep ==
    ASSUME TypeOK, StampsAligned, MeanInv, [Next]_vars
    PROVE  StampsAligned'
<1> DEFINE L == Len(lidar_buffer)
           T == Len(time_buffer)
<1>1. /\ L \in Nat /\ T \in Nat /\ DOMAIN lidar_buffer = 1 .. L
      /\ T - L >= 0 /\ \A i \in 1 .. L : lidar_buffer[i].stamp = time_buffer[i + (T - L)]
      /\ loops.lidar = 0 => T - L = 0 /\ meas.lidar.stamp \in {-1, meas.beg}
      /\ loops.lidar \in Nat
    BY DEF StampsAligned, TypeOK, BuffersOK
<1>2. ASSUME NEW cloud \in [stamp : Int, offsets : Clouds], standard_pcl_cbk(cloud)
      PROVE  StampsAligned'
  <2>1. /\ time_buffer' \in Seq(Int) /\ Len(time_buffer') = T + 1
        /\ lidar_buffer' \in Seq([stamp : Int, offsets : Clouds])
        /\ time_buffer'[T + 1] = cloud.stamp
        /\ \A i \in 1 .. T : time_buffer'[i] = time_buffer[i]
        /\ \/ /\ loops' = loops /\ Len(lidar_buffer') = L + 1
              /\ lidar_buffer'[L + 1] = cloud
              /\ \A i \in 1 .. L : lidar_buffer'[i] = lidar_buffer[i]
           \/ loops'.lidar = loops.lidar + 1 /\ lidar_buffer' = <<cloud>>
        /\ meas' = meas
      BY <1>2, LidarEffect DEF sync
  <2> HIDE DEF L, T
  <2>2. CASE /\ loops' = loops /\ Len(lidar_buffer') = L + 1
             /\ lidar_buffer'[L + 1] = cloud
             /\ \A i \in 1 .. L : lidar_buffer'[i] = lidar_buffer[i]
    <3>1. Len(time_buffer') - Len(lidar_buffer') = T - L /\ DOMAIN lidar_buffer' = 1 .. L + 1
        BY <1>1, <2>1, <2>2
    <3>2. ASSUME NEW i \in 1 .. L + 1
          PROVE  lidar_buffer'[i].stamp = time_buffer'[i + (T - L)]
      <4>1. CASE i = L + 1
        <5>1. i + (T - L) = T + 1
            BY <1>1, <4>1
        <5> QED
            BY <2>1, <2>2, <4>1, <5>1
      <4>2. CASE i \in 1 .. L
        <5>1. i + (T - L) \in 1 .. T
            BY <1>1, <4>2
        <5> QED
            BY <1>1, <2>1, <2>2, <4>2, <5>1
      <4> QED
          BY <1>1, <4>1, <4>2
    <3> QED
        BY <1>1, <2>1, <2>2, <3>1, <3>2 DEF StampsAligned
  <2>3. CASE loops'.lidar = loops.lidar + 1 /\ lidar_buffer' = <<cloud>>
    <3>1. /\ Len(lidar_buffer') = 1 /\ DOMAIN lidar_buffer' = 1 .. 1 /\ lidar_buffer'[1] = cloud
          /\ Len(time_buffer') - Len(lidar_buffer') = T
        BY <1>1, <2>1, <2>3
    <3>2. \A i \in 1 .. 1 : lidar_buffer'[i].stamp = time_buffer'[i + T]
      <4>1. \A i \in 1 .. 1 : i = 1 /\ i + T = T + 1
          BY <1>1
      <4> QED
          BY <2>1, <3>1, <4>1
    <3>3. loops'.lidar # 0 /\ T >= 0
        BY <1>1, <2>3
    <3> QED
        BY <3>1, <3>2, <3>3 DEF StampsAligned
  <2> QED
      BY <2>1, <2>2, <2>3
<1>3. ASSUME NEW t \in Int, imu_cbk(t) PROVE StampsAligned'
  <2>1. UNCHANGED <<lidar_buffer, time_buffer, meas>> /\ loops'.lidar = loops.lidar
      BY <1>3, ImuEffect DEF sync
  <2> QED
      BY <2>1 DEF StampsAligned
<1>4. ASSUME NEW P, Waiting(P) PROVE StampsAligned'
  <2>1. UNCHANGED <<lidar_buffer, time_buffer, loops>> /\ meas' = P.meas
      BY <1>4 DEF Waiting, buffers, sensors
  <2>2. loops.lidar = 0 => P.meas.lidar.stamp \in {-1, P.meas.beg}
      BY <1>4, PushedAligned DEF Waiting
  <2> QED
      BY <2>1, <2>2 DEF StampsAligned
<1>5. ASSUME NEW P, NEW n, NEW m, Taking(P, n, m) PROVE StampsAligned'
  <2>1. n \in 0 .. Len(imu_buffer)
      BY <1>5, TakingSome
  <2>2. meas'.lidar = P.meas.lidar /\ meas'.beg = P.meas.beg /\ loops' = loops
      BY <1>5, <2>1, TakingEffect DEF Taking, sensors
  <2>3. loops.lidar = 0 => P.meas.lidar.stamp \in {-1, P.meas.beg}
      BY <1>5, PushedAligned DEF Taking
  <2>4. /\ lidar_buffer' \in Seq([stamp : Int, offsets : Clouds])
        /\ Len(lidar_buffer') = L - 1 /\ Len(time_buffer') = T - 1
        /\ \A i \in 1 .. Len(lidar_buffer') : lidar_buffer'[i] = lidar_buffer[i + 1]
        /\ \A i \in 1 .. Len(time_buffer') : time_buffer'[i] = time_buffer[i + 1]
      BY <1>5, <2>1, PoppedEffect DEF Taking
  <2>5. L > 0
      BY <1>5 DEF Taking, TypeOK, BuffersOK
  <2> HIDE DEF L, T
  <2>6. Len(time_buffer') - Len(lidar_buffer') = T - L /\ DOMAIN lidar_buffer' = 1 .. L - 1
      BY <1>1, <2>4, <2>5
  <2>7. ASSUME NEW i \in 1 .. L - 1
        PROVE  lidar_buffer'[i].stamp = time_buffer'[i + (T - L)]
    <3>1. i + 1 \in 1 .. L /\ i + (T - L) \in 1 .. T - 1 /\ i + 1 + (T - L) = i + (T - L) + 1
        BY <1>1
    <3>2. lidar_buffer[i + 1].stamp = time_buffer[i + 1 + (T - L)]
        BY <1>1, <3>1
    <3> QED
        BY <2>4, <3>1, <3>2
  <2> QED
      BY <1>1, <2>2, <2>3, <2>6, <2>7 DEF StampsAligned
<1>6. CASE UNCHANGED vars
    BY <1>6 DEF vars, buffers, sensors, sync, StampsAligned
<1> QED
    BY <1>2, <1>3, <1>4, <1>5, <1>6, NextCases

-----------------------------------------------------------------------------
(* Every step keeps the ends of the scans in order.                        *)

\* The scan that is looked at ends after the one taken last.
LEMMA PushedEnd ==
    ASSUME TypeOK, MeanInv, StampsAligned, ScanInv, lidar_buffer # <<>>, loops.lidar = 0,
           NEW P, P = Pushed
    PROVE  /\ P.meas.beg = Head(time_buffer) /\ P.meas.lidar = Head(lidar_buffer)
           /\ P.meas.beg <= P.meas.end /\ P.meas.end <= P.meas.beg + Period
           /\ ends.last < P.meas.end
           /\ P.mean = 0 => P.meas.end = P.meas.beg /\ lidar_mean_scantime = 0
<1>1. CASE lidar_pushed
    BY <1>1, PushedOld DEF ScanInv
<1>2. CASE ~lidar_pushed
  <2>1. PICK e \in 0 .. Period :
           /\ P.meas = [meas EXCEPT !.lidar = Head(lidar_buffer), !.beg = Head(time_buffer),
                                    !.end = Head(time_buffer) + e]
           /\ P.mean = 0 => lidar_mean_scantime = 0 /\ e = 0
           /\ e = 0 => lidar_mean_scantime = 0
      BY <1>2, PushedNew, HasStamp
  <2>2. /\ P.meas.lidar = Head(lidar_buffer) /\ P.meas.beg = Head(time_buffer)
        /\ P.meas.end = Head(time_buffer) + e
      BY <2>1 DEF TypeOK, SyncOK, Measures
  <2>3. Head(time_buffer) = time_buffer[1] /\ 1 \in DOMAIN time_buffer /\ time_buffer[1] \in Int
      BY HasStamp, HeadTailProperties DEF TypeOK, BuffersOK
  <2>4. /\ ends.last <= time_buffer[1]
        /\ lidar_mean_scantime = 0 => ends.last < time_buffer[1]
      BY <2>3 DEF ScanInv
  <2>5. ends.last \in Int /\ Period \in Nat /\ e \in Nat /\ e <= Period
      BY PeriodRight DEF TypeOK, MappingOK
  <2> QED
      BY <2>1, <2>2, <2>3, <2>4, <2>5
<1> QED
    BY <1>1, <1>2

\* A scan ends at most a Period after its stamp, and the next one is stamped
\* at least a Period later.
LEMMA ScanStep ==
    ASSUME TypeOK, StampsAligned, MeanInv, ScanInv, [Next]_vars
    PROVE  ScanInv'
<1> SUFFICES ASSUME loops'.lidar = 0 PROVE ScanInv'
    BY DEF ScanInv
<1> DEFINE T == Len(time_buffer)
<1>1. /\ T \in Nat /\ DOMAIN time_buffer = 1 .. T /\ \A i \in 1 .. T : time_buffer[i] \in Int
      /\ last_timestamp_lidar \in Int /\ ends.last \in Int /\ loops.lidar \in Nat
      /\ Period \in Nat
    BY PeriodRight DEF TypeOK, BuffersOK, MappingOK
<1>2. loops.lidar = 0 =>
         /\ \A i \in 1 .. T :
               /\ time_buffer[i] <= last_timestamp_lidar
               /\ ends.last <= time_buffer[i]
               /\ lidar_mean_scantime = 0 => ends.last < time_buffer[i]
               /\ \A j \in 1 .. T :
                     i < j => time_buffer[i] + Period <= time_buffer[j]
                              /\ time_buffer[i] < time_buffer[j]
         /\ ends.last <= last_timestamp_lidar + Period
         /\ lidar_mean_scantime = 0 => ends.last <= last_timestamp_lidar
    BY <1>1 DEF ScanInv
<1>3. ASSUME NEW cloud \in [stamp : Int, offsets : Clouds], standard_pcl_cbk(cloud),
             NEW d \in LidarSteps, cloud.stamp = last_timestamp_lidar + d
      PROVE  ScanInv'
  <2>1. /\ time_buffer' \in Seq(Int) /\ Len(time_buffer') = T + 1
        /\ lidar_buffer' \in Seq([stamp : Int, offsets : Clouds])
        /\ time_buffer'[T + 1] = cloud.stamp
        /\ \A i \in 1 .. T : time_buffer'[i] = time_buffer[i]
        /\ last_timestamp_lidar' = cloud.stamp
        /\ meas' = meas /\ lidar_pushed' = lidar_pushed /\ ends' = ends
        /\ lidar_mean_scantime' = lidar_mean_scantime
      BY <1>3, LidarEffect DEF sync, mapping
  <2>2. /\ loops' = loops /\ Len(lidar_buffer') = Len(lidar_buffer) + 1
        /\ \A i \in 1 .. Len(lidar_buffer) : lidar_buffer'[i] = lidar_buffer[i]
        /\ cloud.stamp >= last_timestamp_lidar
    <3>1. loops'.lidar # loops.lidar + 1
        BY <1>1
    <3> QED
        BY <1>3, <3>1, LidarEffect
  <2>3. cloud.stamp \in Int /\ d \in Int /\ d >= Period /\ d > 0
    <3>1. cloud.stamp \in Int /\ d \in Int
        BY FastLioAssumption
    <3>2. d >= 0
        BY <1>1, <1>3, <2>2, <3>1
    <3> QED
        BY <3>1, <3>2, PeriodRight
  <2>4. lidar_pushed => lidar_buffer' # <<>> /\ Head(lidar_buffer') = Head(lidar_buffer)
                        /\ Head(time_buffer') = Head(time_buffer)
    <3> HAVE lidar_pushed
    <3>1. lidar_buffer # <<>> /\ lidar_buffer \in Seq([stamp : Int, offsets : Clouds])
          /\ time_buffer \in Seq(Int)
        BY <2>2 DEF ScanInv, TypeOK, BuffersOK
    <3>2. time_buffer # <<>>
        BY <3>1, HasStamp
    <3>3. /\ 1 \in 1 .. Len(lidar_buffer) /\ 1 \in 1 .. T
          /\ Head(lidar_buffer) = lidar_buffer[1] /\ Head(time_buffer) = time_buffer[1]
        BY <3>1, <3>2, HeadTailProperties
    <3>4. lidar_buffer' # <<>> /\ time_buffer' # <<>>
        BY <1>1, <2>1, <2>2, <3>3
    <3>5. Head(lidar_buffer') = lidar_buffer'[1] /\ Head(time_buffer') = time_buffer'[1]
        BY <2>1, <3>4, HeadTailProperties
    <3> QED
        BY <2>1, <2>2, <3>3, <3>4, <3>5
  <2> HIDE DEF T
  <2>5. ASSUME NEW i \in 1 .. T + 1
        PROVE  /\ time_buffer'[i] <= last_timestamp_lidar'
               /\ ends.last <= time_buffer'[i]
               /\ lidar_mean_scantime = 0 => ends.last < time_buffer'[i]
               /\ \A j \in 1 .. T + 1 :
                     i < j => time_buffer'[i] + Period <= time_buffer'[j]
                              /\ time_buffer'[i] < time_buffer'[j]
    <3>1. CASE i = T + 1
        BY <1>1, <1>2, <1>3, <2>1, <2>2, <2>3, <3>1
    <3>2. CASE i \in 1 .. T
      <4>1. /\ time_buffer'[i] = time_buffer[i] /\ time_buffer[i] \in Int
            /\ time_buffer[i] <= last_timestamp_lidar /\ ends.last <= time_buffer[i]
            /\ lidar_mean_scantime = 0 => ends.last < time_buffer[i]
          BY <1>1, <1>2, <2>1, <2>2, <3>2
      <4>2. ASSUME NEW j \in 1 .. T + 1, i < j
            PROVE  time_buffer'[i] + Period <= time_buffer'[j]
                   /\ time_buffer'[i] < time_buffer'[j]
        <5>1. CASE j = T + 1
            BY <1>1, <1>3, <2>1, <2>3, <4>1, <5>1
        <5>2. CASE j \in 1 .. T
            BY <1>2, <2>1, <2>2, <3>2, <4>2, <5>2
        <5> QED
            BY <1>1, <5>1, <5>2
      <4> QED
          BY <1>1, <1>3, <2>1, <2>3, <4>1, <4>2
    <3> QED
        BY <1>1, <3>1, <3>2
  <2>6. DOMAIN time_buffer' = 1 .. T + 1
      BY <1>1, <2>1
  <2>7. /\ ends.last <= last_timestamp_lidar' + Period
        /\ lidar_mean_scantime = 0 => ends.last <= last_timestamp_lidar'
      BY <1>1, <1>2, <1>3, <2>1, <2>2, <2>3
  <2>8. lidar_pushed =>
             /\ lidar_buffer' # <<>> /\ meas.beg = Head(time_buffer')
             /\ meas.lidar = Head(lidar_buffer')
             /\ meas.beg <= meas.end /\ meas.end <= meas.beg + Period
             /\ ends.last < meas.end
             /\ lidar_mean_scantime = 0 => meas.end = meas.beg
      BY <2>2, <2>4 DEF ScanInv
  <2> QED
      BY <2>1, <2>5, <2>6, <2>7, <2>8 DEF ScanInv
<1>4. ASSUME NEW t \in Int, imu_cbk(t) PROVE ScanInv'
  <2>1. /\ UNCHANGED <<lidar_buffer, time_buffer, last_timestamp_lidar, sync, ends>>
        /\ loops'.lidar = loops.lidar
      BY <1>4, ImuEffect DEF mapping
  <2> QED
      BY <2>1 DEF ScanInv, sync
<1>5. ASSUME NEW P, Waiting(P) PROVE ScanInv'
  <2>1. /\ UNCHANGED <<lidar_buffer, time_buffer, last_timestamp_lidar, ends, loops>>
        /\ meas' = P.meas /\ lidar_mean_scantime' = P.mean
        /\ lidar_buffer # <<>> /\ P = Pushed
      BY <1>5 DEF Waiting, buffers, sensors, mapping
  <2>2. /\ P.meas.beg = Head(time_buffer) /\ P.meas.lidar = Head(lidar_buffer)
        /\ P.meas.beg <= P.meas.end /\ P.meas.end <= P.meas.beg + Period
        /\ ends.last < P.meas.end
        /\ P.mean = 0 => P.meas.end = P.meas.beg /\ lidar_mean_scantime = 0
      BY <2>1, PushedEnd
  <2> QED
      BY <2>1, <2>2 DEF ScanInv
<1>6. ASSUME NEW P, NEW n, NEW m, Taking(P, n, m) PROVE ScanInv'
  <2>1. n \in 0 .. Len(imu_buffer)
      BY <1>6, TakingSome
  <2>2. /\ ends'.last = P.meas.end /\ loops' = loops /\ lidar_mean_scantime' = P.mean
        /\ last_timestamp_lidar' = last_timestamp_lidar /\ ~lidar_pushed'
        /\ lidar_buffer # <<>> /\ P = Pushed
      BY <1>6, <2>1, TakingEffect DEF Taking, sensors
  <2>3. /\ P.meas.beg = Head(time_buffer) /\ P.meas.end <= P.meas.beg + Period
        /\ P.mean = 0 => P.meas.end = P.meas.beg
        /\ P.meas.end \in Int
      BY <2>2, PushedEnd, PushedType DEF Measures
  <2>4. /\ time_buffer' \in Seq(Int) /\ Len(time_buffer') = T - 1
        /\ \A i \in 1 .. Len(time_buffer') : time_buffer'[i] = time_buffer[i + 1]
      BY <1>6, <2>1, PoppedEffect DEF Taking
  <2>5. time_buffer[1] = Head(time_buffer) /\ 1 \in 1 .. T
      BY <2>2, HasStamp, HeadTailProperties DEF TypeOK, BuffersOK
  <2> HIDE DEF T
  <2>6. DOMAIN time_buffer' = 1 .. T - 1
      BY <1>1, <2>4, <2>5
  <2>7. ASSUME NEW i \in 1 .. T - 1
        PROVE  /\ time_buffer'[i] <= last_timestamp_lidar
               /\ P.meas.end <= time_buffer'[i]
               /\ P.mean = 0 => P.meas.end < time_buffer'[i]
               /\ \A j \in 1 .. T - 1 :
                     i < j => time_buffer'[i] + Period <= time_buffer'[j]
                              /\ time_buffer'[i] < time_buffer'[j]
    <3>1. i + 1 \in 1 .. T /\ 1 < i + 1 /\ time_buffer'[i] = time_buffer[i + 1]
        BY <1>1, <2>4, <2>5
    <3>2. /\ time_buffer[i + 1] <= last_timestamp_lidar
          /\ time_buffer[1] + Period <= time_buffer[i + 1]
          /\ time_buffer[1] < time_buffer[i + 1]
        BY <1>2, <2>2, <2>5, <3>1
    <3>3. ASSUME NEW j \in 1 .. T - 1, i < j
          PROVE  time_buffer'[i] + Period <= time_buffer'[j] /\ time_buffer'[i] < time_buffer'[j]
      <4>1. j + 1 \in 1 .. T /\ i + 1 < j + 1 /\ time_buffer'[j] = time_buffer[j + 1]
          BY <1>1, <2>4, <2>5, <3>3
      <4> QED
          BY <1>2, <2>2, <3>1, <4>1
    <3>4. P.meas.end <= time_buffer[i + 1] /\ (P.mean = 0 => P.meas.end < time_buffer[i + 1])
        BY <1>1, <2>3, <2>5, <3>1, <3>2
    <3> QED
        BY <3>1, <3>2, <3>3, <3>4
  <2>8. /\ P.meas.end <= last_timestamp_lidar + Period
        /\ P.mean = 0 => P.meas.end <= last_timestamp_lidar
    <3>1. time_buffer[1] \in Int /\ time_buffer[1] <= last_timestamp_lidar
        BY <1>1, <1>2, <2>2, <2>5
    <3> QED
        BY <1>1, <2>3, <2>5, <3>1
  <2> QED
      BY <2>2, <2>6, <2>7, <2>8 DEF ScanInv
<1>7. CASE UNCHANGED vars
    BY <1>7 DEF vars, buffers, sensors, sync, mapping, ScanInv
<1> QED
    BY <1>3, <1>4, <1>5, <1>6, <1>7, NextCases

-----------------------------------------------------------------------------
(* The samples that are taken and those that stay, and the groups.         *)

\* Jumps back are not forgotten.
LEMMA LoopsGrow ==
    ASSUME TypeOK, [Next]_vars, NoLoopBack'
    PROVE  NoLoopBack /\ loops' = loops
<1>1. loops \in [lidar : Nat, imu : Nat]
    BY DEF TypeOK, BuffersOK
<1>2. loops.lidar + 1 # 0 /\ loops.imu + 1 # 0
    BY <1>1
<1>3. ASSUME NEW cloud \in [stamp : Int, offsets : Clouds], standard_pcl_cbk(cloud)
      PROVE  loops' = loops
    BY <1>2, <1>3, LidarEffect DEF NoLoopBack
<1>4. ASSUME NEW t \in Int, imu_cbk(t) PROVE loops' = loops
    BY <1>2, <1>4, ImuEffect DEF NoLoopBack
<1>5. ASSUME NEW P, Waiting(P) \/ \E n, m : Taking(P, n, m) PROVE loops' = loops
    BY <1>5 DEF Waiting, Taking, sensors
<1>6. CASE UNCHANGED vars
    BY <1>6 DEF vars, sensors, NoLoopBack
<1>7. loops' = loops
    BY <1>3, <1>4, <1>5, <1>6, NextCases
<1> QED
    BY <1>7 DEF NoLoopBack

\* A group is cut at the end of its scan, which is later than that of the one
\* before.
LEMMA TakingOrder ==
    ASSUME TypeOK, StampsAligned, MeanInv, ScanInv, ImuInv, NoLoopBack,
           NEW P, NEW n, NEW m, Taking(P, n, m)
    PROVE  /\ n \in 0 .. Len(imu_buffer) /\ m.end \in Int
           /\ ends.last < m.end /\ m.end <= last_timestamp_imu
           /\ \A i \in 1 .. n : imu_buffer[i] <= m.end
           /\ \A i \in n + 1 .. Len(imu_buffer) : imu_buffer[i] >= m.end
<1>1. n \in 0 .. Len(imu_buffer)
    BY TakingSome
<1>2. m.end = P.meas.end /\ m.end \in Int
    BY <1>1, TakingEffect DEF Measures
<1>3. ends.last < m.end
    BY <1>2, PushedEnd DEF Taking, NoLoopBack
<1>4. m.end <= last_timestamp_imu
    BY <1>2 DEF Taking, Waits, TypeOK, BuffersOK
<1>5. \A i, j \in DOMAIN imu_buffer : i < j => imu_buffer[i] <= imu_buffer[j]
    BY DEF ImuInv
<1>6. n = TakesImu(imu_buffer, m.end) /\ imu_buffer \in Seq(Int)
    BY <1>2 DEF Taking, TypeOK, BuffersOK
<1> QED
    BY <1>1, <1>2, <1>3, <1>4, <1>5, <1>6, TakesPrefix

\* imu_buffer keeps, in order, the samples from the end of the last scan on.
LEMMA ImuStep ==
    ASSUME TypeOK, StampsAligned, MeanInv, ScanInv, ImuInv, [Next]_vars
    PROVE  ImuInv'
<1> SUFFICES ASSUME NoLoopBack' PROVE ImuInv'
    BY DEF ImuInv
<1> DEFINE I == Len(imu_buffer)
<1>1. NoLoopBack /\ loops' = loops
    BY LoopsGrow
<1>2. /\ I \in Nat /\ DOMAIN imu_buffer = 1 .. I /\ \A i \in 1 .. I : imu_buffer[i] \in Int
      /\ last_timestamp_imu \in Int /\ ends.last \in Int /\ stamps \subseteq Int
      /\ loops \in [lidar : Nat, imu : Nat]
    BY DEF TypeOK, BuffersOK, MappingOK
<1>3. /\ \A i \in 1 .. I :
             /\ ends.last <= imu_buffer[i] /\ imu_buffer[i] <= last_timestamp_imu
             /\ \A j \in 1 .. I : i < j => imu_buffer[i] <= imu_buffer[j]
      /\ ends.last <= last_timestamp_imu
      /\ \A t \in stamps : ends.last < t => \E k \in 1 .. I : t = imu_buffer[k]
    BY <1>1, <1>2 DEF ImuInv, Range
<1>4. ASSUME NEW cloud \in [stamp : Int, offsets : Clouds], standard_pcl_cbk(cloud)
      PROVE  ImuInv'
  <2>1. UNCHANGED <<imu_buffer, last_timestamp_imu, stamps, ends>>
      BY <1>4, LidarEffect DEF mapping
  <2> QED
      BY <1>1, <2>1 DEF ImuInv
<1>5. ASSUME NEW t \in Int, imu_cbk(t) PROVE ImuInv'
  <2>1. /\ imu_buffer' \in Seq(Int) /\ last_timestamp_imu' = t /\ stamps' = stamps \cup {t}
        /\ t >= last_timestamp_imu /\ Len(imu_buffer') = I + 1 /\ imu_buffer'[I + 1] = t
        /\ \A i \in 1 .. I : imu_buffer'[i] = imu_buffer[i]
        /\ ends' = ends
    <3>1. loops'.imu # loops.imu + 1
        BY <1>1, <1>2
    <3> QED
        BY <1>5, <3>1, ImuEffect DEF mapping
  <2> HIDE DEF I
  <2>2. DOMAIN imu_buffer' = 1 .. I + 1
      BY <1>2, <2>1
  <2>3. ASSUME NEW i \in 1 .. I + 1
        PROVE  /\ ends.last <= imu_buffer'[i] /\ imu_buffer'[i] <= t
               /\ \A j \in 1 .. I + 1 : i < j => imu_buffer'[i] <= imu_buffer'[j]
    <3>1. CASE i = I + 1
        BY <1>2, <1>3, <2>1, <3>1
    <3>2. CASE i \in 1 .. I
      <4>1. /\ imu_buffer'[i] = imu_buffer[i] /\ imu_buffer[i] \in Int
            /\ ends.last <= imu_buffer[i] /\ imu_buffer[i] <= last_timestamp_imu
          BY <1>2, <1>3, <2>1, <3>2
      <4>2. ASSUME NEW j \in 1 .. I + 1, i < j PROVE imu_buffer'[i] <= imu_buffer'[j]
        <5>1. CASE j = I + 1
            BY <1>2, <2>1, <4>1, <5>1
        <5>2. CASE j \in 1 .. I
            BY <1>3, <2>1, <3>2, <4>2, <5>2
        <5> QED
            BY <1>2, <5>1, <5>2
      <4> QED
          BY <1>2, <2>1, <4>1, <4>2
    <3> QED
        BY <1>2, <3>1, <3>2
  <2>4. ASSUME NEW s \in stamps', ends.last < s PROVE s \in Range(imu_buffer')
    <3>1. CASE s = t
        BY <1>2, <2>1, <2>2, <3>1 DEF Range
    <3>2. CASE s \in stamps
      <4>1. PICK k \in 1 .. I : s = imu_buffer[k]
          BY <1>3, <2>4, <3>2
      <4>2. k \in 1 .. I + 1 /\ s = imu_buffer'[k]
          BY <1>2, <2>1, <4>1
      <4> QED
          BY <2>2, <4>2 DEF Range
    <3> QED
        BY <2>1, <2>4, <3>1, <3>2
  <2>5. ends.last <= t
      BY <1>2, <1>3, <2>1
  <2> QED
      BY <2>1, <2>2, <2>3, <2>4, <2>5 DEF ImuInv
<1>6. ASSUME NEW P, Waiting(P) PROVE ImuInv'
  <2>1. UNCHANGED <<imu_buffer, last_timestamp_imu, stamps, ends>>
      BY <1>6 DEF Waiting, buffers, sensors, mapping
  <2> QED
      BY <1>1, <2>1 DEF ImuInv
<1>7. ASSUME NEW P, NEW n, NEW m, Taking(P, n, m) PROVE ImuInv'
  <2>1. /\ n \in 0 .. I /\ m.end \in Int /\ ends.last < m.end /\ m.end <= last_timestamp_imu
        /\ \A i \in 1 .. n : imu_buffer[i] <= m.end
        /\ \A i \in n + 1 .. I : imu_buffer[i] >= m.end
      BY <1>1, <1>7, TakingOrder
  <2>2. /\ imu_buffer' \in Seq(Int) /\ Len(imu_buffer') = I - n
        /\ \A i \in 1 .. Len(imu_buffer') : imu_buffer'[i] = imu_buffer[n + i]
      BY <1>7, <2>1, PoppedEffect DEF Taking
  <2>3. /\ UNCHANGED <<last_timestamp_imu, stamps>> /\ ends'.last = m.end
      BY <1>7, <2>1, TakingEffect DEF Taking, sensors
  <2> HIDE DEF I
  <2>4. DOMAIN imu_buffer' = 1 .. I - n
      BY <1>2, <2>1, <2>2
  <2>5. ASSUME NEW i \in 1 .. I - n
        PROVE  /\ m.end <= imu_buffer'[i] /\ imu_buffer'[i] <= last_timestamp_imu
               /\ \A j \in 1 .. I - n : i < j => imu_buffer'[i] <= imu_buffer'[j]
    <3>1. n + i \in n + 1 .. I /\ n + i \in 1 .. I /\ imu_buffer'[i] = imu_buffer[n + i]
        BY <1>2, <2>1, <2>2
    <3>2. m.end <= imu_buffer[n + i] /\ imu_buffer[n + i] <= last_timestamp_imu
        BY <1>2, <1>3, <2>1, <3>1
    <3>3. ASSUME NEW j \in 1 .. I - n, i < j PROVE imu_buffer'[i] <= imu_buffer'[j]
      <4>1. n + j \in 1 .. I /\ n + i < n + j /\ imu_buffer'[j] = imu_buffer[n + j]
          BY <1>2, <2>1, <2>2, <3>3
      <4> QED
          BY <1>3, <3>1, <4>1
    <3> QED
        BY <3>1, <3>2, <3>3
  <2>6. ASSUME NEW t \in stamps, m.end < t PROVE t \in Range(imu_buffer')
    <3>1. PICK k \in 1 .. I : t = imu_buffer[k]
        BY <1>2, <1>3, <2>1, <2>6
    <3>2. ~(k <= n)
        BY <1>2, <2>1, <2>6, <3>1
    <3>3. k - n \in 1 .. I - n /\ n + (k - n) = k
        BY <1>2, <2>1, <3>2
    <3>4. t = imu_buffer'[k - n]
        BY <2>1, <2>2, <3>1, <3>3
    <3> QED
        BY <2>4, <3>3, <3>4 DEF Range
  <2> QED
      BY <2>1, <2>3, <2>4, <2>5, <2>6 DEF ImuInv
<1>8. CASE UNCHANGED vars
    BY <1>8 DEF vars, buffers, sensors, mapping, ImuInv, NoLoopBack
<1> QED
    BY <1>4, <1>5, <1>6, <1>7, <1>8, NextCases

\* So a group holds those between the ends of two scans.
LEMMA GroupStep ==
    ASSUME TypeOK, StampsAligned, MeanInv, ScanInv, ImuInv, GroupComplete, [Next]_vars
    PROVE  GroupComplete'
<1> SUFFICES ASSUME NoLoopBack' PROVE GroupComplete'
    BY DEF GroupComplete
<1>1. NoLoopBack /\ loops' = loops
    BY LoopsGrow
<1>2. ASSUME NEW cloud \in [stamp : Int, offsets : Clouds], standard_pcl_cbk(cloud)
      PROVE  GroupComplete'
    BY <1>1, <1>2, LidarEffect DEF GroupComplete, sync, mapping
<1>3. ASSUME NEW t \in Int, imu_cbk(t) PROVE GroupComplete'
  <2>1. /\ stamps' = stamps \cup {t} /\ meas' = meas /\ ends' = ends
        /\ t >= last_timestamp_imu
    <3>1. loops'.imu # loops.imu + 1
        BY <1>1 DEF TypeOK, BuffersOK
    <3> QED
        BY <1>3, <3>1, ImuEffect DEF sync, mapping
  <2>2. ends.last <= last_timestamp_imu /\ ends.last \in Int /\ last_timestamp_imu \in Int
      BY <1>1 DEF ImuInv, TypeOK, BuffersOK, MappingOK
  <2>3. ~(t < ends.last)
      BY <2>1, <2>2
  <2> QED
      BY <1>1, <2>1, <2>3 DEF GroupComplete
<1>4. ASSUME NEW P, Waiting(P) PROVE GroupComplete'
  <2>1. meas'.imu = meas.imu /\ UNCHANGED <<stamps, ends>>
      BY <1>4, PushedType DEF Waiting, sensors, mapping
  <2> QED
      BY <1>1, <2>1 DEF GroupComplete
<1>5. ASSUME NEW P, NEW n, NEW m, Taking(P, n, m) PROVE GroupComplete'
  <2> DEFINE I == Len(imu_buffer)
  <2>1. /\ n \in 0 .. I /\ m.end \in Int /\ ends.last < m.end
        /\ \A i \in 1 .. n : imu_buffer[i] <= m.end
        /\ \A i \in n + 1 .. I : imu_buffer[i] >= m.end
      BY <1>1, <1>5, TakingOrder
  <2>2. /\ meas' = m /\ stamps' = stamps /\ m.imu \in Seq(Int)
        /\ Len(m.imu) = n /\ \A i \in 1 .. n : m.imu[i] = imu_buffer[i]
        /\ ends' = [before |-> ends.last, last |-> m.end]
    <3>1. /\ meas' = m /\ m \in Measures
          /\ Len(m.imu) = n /\ \A i \in 1 .. n : m.imu[i] = imu_buffer[i]
          /\ ends' = [before |-> ends.last, last |-> m.end]
        BY <1>5, <2>1, TakingEffect
    <3>2. m.imu \in Seq(Int) /\ stamps' = stamps
        BY <1>5, <3>1 DEF Measures, Taking, sensors
    <3> QED
        BY <3>1, <3>2
  <2>3. /\ I \in Nat /\ \A i \in 1 .. I : imu_buffer[i] \in Int /\ ends.last <= imu_buffer[i]
        /\ \A t \in stamps : ends.last < t => \E k \in 1 .. I : t = imu_buffer[k]
        /\ stamps \subseteq Int /\ ends.last \in Int
      BY <1>1 DEF ImuInv, TypeOK, BuffersOK, MappingOK, Range
  <2> HIDE DEF I
  <2>4. DOMAIN m.imu = 1 .. n
      BY <2>1, <2>2
  <2>5. ASSUME NEW t \in stamps, ends.last < t, t < m.end PROVE t \in Range(m.imu)
    <3>1. PICK k \in 1 .. I : t = imu_buffer[k]
        BY <2>3, <2>5
    <3>2. k <= n
        BY <2>1, <2>3, <2>5, <3>1
    <3> QED
        BY <2>1, <2>2, <2>4, <3>1, <3>2 DEF Range
  <2>6. ASSUME NEW t \in Range(m.imu) PROVE ends.last <= t /\ t <= m.end
    <3>1. PICK i \in 1 .. n : t = imu_buffer[i]
        BY <2>2, <2>4 DEF Range
    <3> QED
        BY <2>1, <2>3, <3>1
  <2> QED
      BY <2>2, <2>5, <2>6 DEF GroupComplete
<1>6. CASE UNCHANGED vars
    BY <1>1, <1>6 DEF vars, sensors, sync, mapping, GroupComplete
<1> QED
    BY <1>2, <1>3, <1>4, <1>5, <1>6, NextCases

-----------------------------------------------------------------------------
(* What is registered.                                                     *)

\* What is registered is of a scan already taken.
LEMMA RegisteredStep ==
    ASSUME TypeOK, StampsAligned, MeanInv, ScanInv, RegisteredInv, [Next]_vars
    PROVE  RegisteredInv'
<1>1. ASSUME NEW cloud \in [stamp : Int, offsets : Clouds], standard_pcl_cbk(cloud)
      PROVE  RegisteredInv'
  <2>1. UNCHANGED mapping /\ (loops'.lidar = 0 => loops.lidar = 0)
    <3>1. loops.lidar + 1 # 0
        BY DEF TypeOK, BuffersOK
    <3> QED
        BY <1>1, <3>1, LidarEffect
  <2> QED
      BY <2>1 DEF RegisteredInv, mapping, process
<1>2. ASSUME NEW t \in Int, imu_cbk(t) PROVE RegisteredInv'
    BY <1>2, ImuEffect DEF RegisteredInv, mapping, process
<1>3. ASSUME NEW P, Waiting(P) PROVE RegisteredInv'
    BY <1>3 DEF Waiting, RegisteredInv, mapping, process, sensors
<1>4. ASSUME NEW P, NEW n, NEW m, Taking(P, n, m) PROVE RegisteredInv'
  <2>1. n \in 0 .. Len(imu_buffer)
      BY <1>4, TakingSome
  <2>2. m \in Measures /\ m.end = P.meas.end /\ ends' = [before |-> ends.last, last |-> m.end]
      BY <1>4, <2>1, TakingEffect
  <2>3. /\ proc'.imu_need_init => feats_undistort' = None
        /\ \/ registered' = registered
           \/ registered' = [cloud |-> feats_undistort', beg |-> m.beg, end |-> m.end]
      BY <1>4, <2>2, MapEffect DEF Taking
  <2>4. loops' = loops /\ lidar_buffer # <<>> /\ P = Pushed
      BY <1>4 DEF Taking, sensors
  <2>5. ASSUME loops.lidar = 0 PROVE registered'.end <= ends'.last
    <3>1. ends.last < m.end /\ registered.end <= ends.last
        BY <2>2, <2>4, <2>5, PushedEnd DEF RegisteredInv
    <3>2. ends.last \in Int /\ m.end \in Int /\ registered.end \in Int
        BY <2>2 DEF Measures, TypeOK, MappingOK
    <3>3. ends'.last = m.end /\ (registered'.end = registered.end \/ registered'.end = m.end)
        BY <2>2, <2>3
    <3> QED
        BY <3>1, <3>2, <3>3
  <2> QED
      BY <2>3, <2>4, <2>5 DEF RegisteredInv
<1>5. CASE UNCHANGED vars
    BY <1>5 DEF vars, sensors, mapping, process, RegisteredInv
<1> QED
    BY <1>1, <1>2, <1>3, <1>4, <1>5, NextCases

OwnScan ==
    NoLoopBack' /\ registered' # registered =>
        /\ registered'.end > registered.end
        /\ \/ registered'.cloud.stamp = registered'.beg
           \/ \A t \in stamps : t <= ends'.before \/ t >= ends'.last

\* A registration is of a scan later than the last one, and of its own cloud
\* unless the group had no samples.
LEMMA RegisteredOwn ==
    ASSUME IInv, IInv', [Next]_vars
    PROVE  OwnScan
<1> SUFFICES ASSUME NoLoopBack', registered' # registered
             PROVE  /\ registered'.end > registered.end
                    /\ \/ registered'.cloud.stamp = registered'.beg
                       \/ \A t \in stamps : t <= ends'.before \/ t >= ends'.last
    BY DEF OwnScan
<1>1. /\ TypeOK /\ StampsAligned /\ MeanInv /\ ScanInv /\ ImuInv /\ RegisteredInv
      /\ GroupComplete' /\ TypeOK'
    BY DEF IInv
<1>2. NoLoopBack /\ loops' = loops
    BY <1>1, LoopsGrow
<1>3. PICK P, n, m : Taking(P, n, m)
  <2>1. ASSUME NEW cloud \in [stamp : Int, offsets : Clouds], standard_pcl_cbk(cloud)
        PROVE  registered' = registered
      BY <1>1, <2>1, LidarEffect DEF mapping
  <2>2. ASSUME NEW t \in Int, imu_cbk(t) PROVE registered' = registered
      BY <1>1, <2>2, ImuEffect DEF mapping
  <2>3. ASSUME NEW P, Waiting(P) PROVE registered' = registered
      BY <2>3 DEF Waiting, mapping
  <2>4. CASE UNCHANGED vars
      BY <2>4 DEF vars, mapping
  <2> QED
      BY <1>1, <2>1, <2>2, <2>3, <2>4, NextCases
<1>4. n \in 0 .. Len(imu_buffer)
    BY <1>1, <1>3, TakingSome
<1>5. /\ m \in Measures /\ meas' = m /\ Len(m.imu) = n
      /\ m.lidar = P.meas.lidar /\ m.beg = P.meas.beg
      /\ ends' = [before |-> ends.last, last |-> m.end]
    BY <1>1, <1>3, <1>4, TakingEffect
<1>6. /\ registered' = [cloud |-> feats_undistort', beg |-> m.beg, end |-> m.end]
      /\ feats_undistort' = m.lidar \/ m.imu = <<>>
    BY <1>1, <1>3, <1>5, MapEffect DEF Taking
<1>7. registered'.end > registered.end
  <2>1. ends.last < m.end
      BY <1>1, <1>2, <1>3, TakingOrder
  <2>2. registered.end <= ends.last
      BY <1>1, <1>2 DEF RegisteredInv, NoLoopBack
  <2>3. ends.last \in Int /\ m.end \in Int /\ registered.end \in Int
      BY <1>1, <1>5 DEF Measures, TypeOK, MappingOK
  <2> QED
      BY <1>6, <2>1, <2>2, <2>3
<1>8. CASE feats_undistort' = m.lidar
  <2>1. P.meas.beg = Head(time_buffer) /\ P.meas.lidar = Head(lidar_buffer)
      BY <1>1, <1>2, <1>3, PushedEnd DEF Taking, NoLoopBack
  <2>2. Head(lidar_buffer).stamp = Head(time_buffer)
      BY <1>1, <1>2, <1>3, HeadsAligned DEF Taking, NoLoopBack
  <2> QED
      BY <1>5, <1>6, <1>7, <1>8, <2>1, <2>2
<1>9. CASE m.imu = <<>>
  <2>1. Range(meas'.imu) = {}
      BY <1>5, <1>9 DEF Range
  <2>2. \A t \in stamps' : ~(ends'.before < t /\ t < ends'.last)
      BY <1>1, <2>1 DEF GroupComplete
  <2>3. stamps' = stamps
      BY <1>3 DEF Taking, sensors
  <2>4. ends'.before \in Int /\ ends'.last \in Int /\ \A t \in stamps : t \in Int
      BY <1>1 DEF TypeOK, BuffersOK, MappingOK
  <2> QED
      BY <1>7, <2>2, <2>3, <2>4
<1> QED
    BY <1>6, <1>8, <1>9

-----------------------------------------------------------------------------
\* The invariant holds at first.
LEMMA InitInv ==
    ASSUME Init
    PROVE  IInv
<1>1. None \in Cloud
    BY DEF None, Cloud
<1>2. BuffersOK
  <2>1. loops \in [lidar : Nat, imu : Nat]
      BY DEF Init
  <2> QED
      BY <2>1 DEF Init, BuffersOK
<1>3. SyncOK
  <2>1. meas \in Measures
      BY <1>1 DEF Init, Measures
  <2>2. lidar_pushed = FALSE /\ scan_num = 0 /\ lidar_mean_scantime = 0
      BY DEF Init
  <2> QED
      BY <2>1, <2>2 DEF SyncOK
<1>4. MappingOK
  <2>1. proc \in ImuState
      BY FastLioAssumption DEF Init, ImuState
  <2>2. /\ registered \in [cloud : Cloud, beg : Int, end : Int]
        /\ ends \in [before : Int, last : Int]
      BY <1>1 DEF Init
  <2>3. /\ flg_first_scan \in BOOLEAN /\ first_lidar_time \in Int
        /\ flg_EKF_inited \in BOOLEAN /\ map \in BOOLEAN /\ feats_undistort \in Cloud
    <3>1. /\ flg_first_scan = TRUE /\ first_lidar_time = 0 /\ flg_EKF_inited = FALSE
          /\ map = FALSE /\ feats_undistort = None
        BY DEF Init
    <3>2. flg_first_scan \in BOOLEAN
        BY <3>1
    <3>3. flg_EKF_inited \in BOOLEAN
        BY <3>1
    <3>4. map \in BOOLEAN
        BY <3>1
    <3>5. feats_undistort \in Cloud /\ first_lidar_time \in Int
        BY <1>1, <3>1
    <3> QED
        BY <3>2, <3>3, <3>4, <3>5
  <2> QED
      BY <2>1, <2>2, <2>3 DEF MappingOK
<1>5. StampsAligned
    BY DEF Init, StampsAligned, None
<1>6. MeanInv /\ ScanInv
    BY PeriodRight DEF Init, MeanInv, ScanInv
<1>7. ImuInv /\ GroupComplete
    BY DEF Init, ImuInv, GroupComplete, Range
<1>8. RegisteredInv
    BY DEF Init, RegisteredInv
<1> QED
    BY <1>2, <1>3, <1>4, <1>5, <1>6, <1>7, <1>8 DEF IInv, TypeOK

\* And every step keeps it.
LEMMA NextInv ==
    ASSUME IInv, [Next]_vars
    PROVE  IInv'
<1>1. TypeOK /\ StampsAligned /\ MeanInv /\ ScanInv /\ ImuInv /\ GroupComplete /\ RegisteredInv
    BY DEF IInv
<1>2. TypeOK' /\ MeanInv'
    BY <1>1, TypeStep
<1>3. StampsAligned' /\ ScanInv'
    BY <1>1, AlignStep, ScanStep
<1>4. ImuInv' /\ GroupComplete'
    BY <1>1, ImuStep, GroupStep
<1>5. RegisteredInv'
    BY <1>1, RegisteredStep
<1> QED
    BY <1>2, <1>3, <1>4, <1>5 DEF IInv

\* The types, and what the theorems below rest on: scans end in order, and
\* until a clock jumps back imu_buffer holds, in order, exactly the samples
\* from the end of the last scan on.
THEOREM Invariant == Spec => []IInv
<1>1. Init => IInv
    BY InitInv
<1>2. IInv /\ [Next]_vars => IInv'
    BY NextInv
<1> QED
    BY <1>1, <1>2, PTL DEF Spec

\* lidar_buffer and time_buffer, two deques that are pushed and popped by
\* separate statements, never fall out of step, but for the stamps that
\* standard_pcl_cbk keeps when it throws clouds away; then by a fixed number.
THEOREM StampsAreAligned == Spec => []StampsAligned
<1>1. IInv => StampsAligned
    BY DEF IInv
<1> QED
    BY <1>1, Invariant, PTL

\* sync_packages hands on every IMU sample with the scan it lies in, none
\* twice and none left out, in whatever order clouds and samples arrive and
\* however often it has to wait.
THEOREM GroupsAreComplete == Spec => []GroupComplete
<1>1. IInv => GroupComplete
    BY DEF IInv
<1> QED
    BY <1>1, Invariant, PTL

\* The main loop registers scans in the order of their ends, each with its
\* own cloud; feats_undistort, which Process leaves alone without samples, is
\* a scan's before only if the IMU sent nothing during the scan.
THEOREM ScansAreRegisteredInOrder == Spec => OwnCloud
<1>1. IInv /\ IInv' /\ [Next]_vars => [OwnScan]_vars
    BY RegisteredOwn
<1>2. OwnCloud <=> [][OwnScan]_vars
    BY DEF OwnCloud, OwnScan
<1> QED
    BY <1>1, <1>2, Invariant, PTL DEF Spec

-----------------------------------------------------------------------------
(* Recursive functions.  Undistortion adds up predictions and moves points *)
(* pose by pose; the induction it takes is about sets and functions, for   *)
(* the theorems of NaturalsInduction are about operators.                  *)

\* A set of natural numbers has a least.
LEMMA Least ==
    ASSUME NEW T, T \subseteq Nat, T # {}
    PROVE  \E x \in T : \A y \in T : x <= y
<1> DEFINE less == OpToRel(<, Nat)
<1>1. /\ IsWellFoundedOn(less, Nat)
      /\ \A x, y \in Nat : <<x, y>> \in less <=> x < y
    BY NatLessThanWellFounded, Zenon DEF OpToRel
<1> HIDE DEF less
<1>2. PICK x \in T : \A y \in T : ~(<<y, x>> \in less)
  <2>1. IsWellFoundedOn(less, Nat)
      BY <1>1, Zenon
  <2> QED
      BY <2>1, WFMin
<1>3. \A y \in T : ~(y < x)
    BY <1>1, <1>2, Zenon
<1> QED
    BY <1>3

\* One with 0 and the successors of its members has them all.
LEMMA SetInduction ==
    ASSUME NEW S, 0 \in S, \A n \in Nat : n \in S => n + 1 \in S
    PROVE  Nat \subseteq S
<1> SUFFICES ASSUME Nat \ S # {} PROVE FALSE
    OBVIOUS
<1>1. PICK n \in Nat \ S : \A y \in Nat \ S : n <= y
    BY Least
<1>2. n - 1 \in Nat /\ (n - 1) + 1 = n /\ ~(n <= n - 1)
    OBVIOUS
<1> QED
    BY <1>1, <1>2

\* n steps in a set D, and the values f that they take from d.
StepFunctions(D, n) == [1..n -> [D -> D]]
RunFrom(D, d, n, step, f) ==
    f \in [0..n -> D] /\ f[0] = d /\ \A b \in 1..n : f[b] = step[b][f[b - 1]]

\* A run of any number of steps exists: the value of a recursive function.
LEMMA Recursion ==
    ASSUME NEW D, NEW d \in D, NEW n \in Nat, NEW step \in StepFunctions(D, n)
    PROVE  \E f : RunFrom(D, d, n, step, f)
<1> DEFINE Runs(m, f) == f[0] = d /\ \A b \in 1..m : f[b] = step[b][f[b - 1]]
           S == {m \in Nat : m <= n => \E f \in [0..m -> D] : Runs(m, f)}
<1>0. step \in [1..n -> [D -> D]]
    BY DEF StepFunctions
<1>1. 0 \in S
    <2>1. [b \in 0..0 |-> d] \in [0..0 -> D] /\ Runs(0, [b \in 0..0 |-> d])
        OBVIOUS
    <2> QED
        BY <2>1
<1>2. ASSUME NEW m \in Nat, m \in S PROVE m + 1 \in S
    <2> SUFFICES ASSUME m + 1 <= n PROVE \E f \in [0..m + 1 -> D] : Runs(m + 1, f)
        OBVIOUS
    <2>1. PICK f \in [0..m -> D] : Runs(m, f)
        BY <1>2
    <2> DEFINE g == [b \in 0..m + 1 |-> IF b = m + 1 THEN step[m + 1][f[m]] ELSE f[b]]
    <2>2. step[m + 1] \in [D -> D] /\ f[m] \in D
        BY <1>0
    <2>3. g \in [0..m + 1 -> D]
        BY <2>2
    <2>4. Runs(m + 1, g)
        <3>1. g[0] = d
            BY <2>1
        <3>2. ASSUME NEW b \in 1..m + 1 PROVE g[b] = step[b][g[b - 1]]
            <4>1. b - 1 \in 0..m /\ g[b - 1] = f[b - 1]
                OBVIOUS
            <4>2. CASE b = m + 1
                <5>1. m \in 0..m + 1 /\ g[m] = f[m] /\ b - 1 = m
                    BY <4>2
                <5> QED
                    BY <4>2, <5>1
            <4>3. CASE b \in 1..m
                BY <2>1, <4>1, <4>3
            <4> QED
                BY <4>2, <4>3
        <3> QED
            BY <3>1, <3>2
    <2> QED
        BY <2>3, <2>4
<1>3. Nat \subseteq S
    <2> HIDE DEF S
    <2> QED
        BY <1>1, <1>2, SetInduction
<1>4. n \in S
    BY <1>3
<1>5. PICK f \in [0..n -> D] : Runs(n, f)
    BY <1>4
<1>6. RunFrom(D, d, n, step, f)
    BY <1>5 DEF RunFrom
<1> QED
    BY <1>6

-----------------------------------------------------------------------------
(* Undistortion: the predictions between the samples of a group, and the   *)
(* poses that move the points.                                             *)

\* A telescope: spans between moments add up to the time between the first
\* and the last moment.
LEMMA TotalOfSpans ==
    ASSUME NEW s \in Seq(Int), NEW at \in [0 .. Len(s) -> Int],
           \A i \in 1 .. Len(s) : s[i] = at[i] - at[i - 1]
    PROVE  Total(s) = at[Len(s)] - at[0]
<1> DEFINE n == Len(s)
           G(f) == [i \in 0 .. n |-> IF i = 0 THEN 0 ELSE f[i - 1] + s[i]]
           sum == CHOOSE f : f = G(f)
           g == [i \in 0 .. n |-> at[i] - at[0]]
<1>1. /\ n \in Nat /\ \A i \in 1 .. n : s[i] \in Int /\ s[i] = at[i] - at[i - 1]
      /\ \A i \in 0 .. n : at[i] \in Int
    OBVIOUS
<1> HIDE DEF n
<1>2. g = G(g)
  <2>1. ASSUME NEW i \in 0 .. n PROVE g[i] = IF i = 0 THEN 0 ELSE g[i - 1] + s[i]
    <3>1. CASE i = 0
        BY <1>1, <3>1
    <3>2. CASE i \in 1 .. n
      <4>1. i - 1 \in 0 .. n /\ at[i] \in Int /\ at[i - 1] \in Int /\ at[0] \in Int
          BY <1>1, <3>2
      <4>2. g[i] = at[i] - at[0] /\ g[i - 1] = at[i - 1] - at[0] /\ s[i] = at[i] - at[i - 1]
          BY <3>2, <4>1
      <4> HIDE DEF g
      <4> QED
          BY <3>2, <4>1, <4>2
    <3> QED
        BY <1>1, <3>1, <3>2
  <2> QED
      BY <2>1
<1>3. sum = G(sum)
  <2> HIDE DEF G, g
  <2> QED
      BY <1>2
<1>4. Total(s) = sum[n]
    BY DEF Total, n
<1> HIDE DEF sum
<1>5. sum[0] = 0 /\ \A i \in 1 .. n : sum[i] = sum[i - 1] + s[i]
    BY <1>1, <1>3
<1> DEFINE S == {i \in Nat : i <= n => sum[i] = at[i] - at[0]}
<1>6. 0 \in S
    BY <1>1, <1>5
<1>7. ASSUME NEW i \in Nat, i \in S PROVE i + 1 \in S
  <2> SUFFICES ASSUME i + 1 <= n PROVE sum[i + 1] = at[i + 1] - at[0]
      OBVIOUS
  <2>1. i + 1 \in 1 .. n /\ (i + 1) - 1 = i /\ sum[i] = at[i] - at[0]
      BY <1>1, <1>7
  <2>2. sum[i + 1] = sum[i] + s[i + 1] /\ s[i + 1] = at[i + 1] - at[i]
    <3>1. sum[i + 1] = sum[(i + 1) - 1] + s[i + 1]
        BY <1>5, <2>1
    <3>2. s[i + 1] = at[i + 1] - at[(i + 1) - 1]
        BY <1>1, <2>1
    <3> QED
        BY <2>1, <3>1, <3>2
  <2>3. at[i] \in Int /\ at[i + 1] \in Int /\ at[0] \in Int
    <3>1. i \in 0 .. n /\ i + 1 \in 0 .. n /\ 0 \in 0 .. n
        BY <1>1, <2>1
    <3> QED
        BY <1>1, <3>1
  <2> QED
      BY <2>1, <2>2, <2>3
<1>8. Nat \subseteq S
  <2> HIDE DEF S
  <2> QED
      BY <1>6, <1>7, SetInduction
<1>9. n \in S
    BY <1>1, <1>8
<1> QED
    BY <1>4, <1>9 DEF n

Pair == [head : Int, tail : Int]

\* The samples in their order, the first with the last one before them.
PairAt(p, m, i) == [head |-> IF i = 1 THEN p.last_imu ELSE m.imu[i - 1], tail |-> m.imu[i]]

\* What Pairs leaves of them.
PairsOf(p, m, n, s) ==
    /\ s \in Seq(Pair)
    /\ \A k \in 1 .. Len(s) :
          /\ s[k].tail >= p.last_lidar_end_time
          /\ \E i \in 1 .. n : s[k] = PairAt(p, m, i)
    /\ (\A i \in 1 .. n : m.imu[i] >= p.last_lidar_end_time) =>
          Len(s) = n /\ \A k \in 1 .. n : s[k] = PairAt(p, m, k)

\* One more sample.
LEMMA NextPair ==
    ASSUME NEW p \in ImuState, NEW m \in Measures, NEW n \in 0 .. Len(m.imu) - 1, NEW s,
           PairsOf(p, m, n, s)
    PROVE  PairsOf(p, m, n + 1, IF m.imu[n + 1] < p.last_lidar_end_time THEN s
                                ELSE Append(s, PairAt(p, m, n + 1)))
<1> DEFINE e == PairAt(p, m, n + 1)
           r == Append(s, e)
<1>1. /\ m.imu \in Seq(Int) /\ p.last_imu \in Int /\ p.last_lidar_end_time \in Int
      /\ n \in Nat /\ n + 1 \in 1 .. Len(m.imu) /\ s \in Seq(Pair) /\ Len(s) \in Nat
    BY DEF Measures, ImuState, PairsOf
<1>2. /\ m.imu[n + 1] \in Int /\ (n + 1 # 1 => n \in 1 .. Len(m.imu) /\ m.imu[n] \in Int)
      /\ (n + 1) - 1 = n
    BY <1>1
<1>3. e \in Pair /\ e.tail = m.imu[n + 1]
    BY <1>1, <1>2 DEF PairAt, Pair
<1> HIDE DEF e
<1>4. CASE m.imu[n + 1] < p.last_lidar_end_time
  <2>1. ~ \A i \in 1 .. n + 1 : m.imu[i] >= p.last_lidar_end_time
      BY <1>1, <1>2, <1>4
  <2>2. \A i \in 1 .. n : i \in 1 .. n + 1
      BY <1>1
  <2> QED
      BY <1>4, <2>1, <2>2 DEF PairsOf
<1>5. CASE ~(m.imu[n + 1] < p.last_lidar_end_time)
  <2>1. /\ r \in Seq(Pair) /\ Len(r) = Len(s) + 1 /\ r[Len(s) + 1] = e
        /\ \A k \in 1 .. Len(s) : r[k] = s[k]
      BY <1>1, <1>3, AppendProperties
  <2> HIDE DEF r
  <2>2. \A i \in 1 .. n : i \in 1 .. n + 1
      BY <1>1
  <2>3. ASSUME NEW k \in 1 .. Len(s) + 1
        PROVE  /\ r[k].tail >= p.last_lidar_end_time
               /\ \E i \in 1 .. n + 1 : r[k] = PairAt(p, m, i)
    <3>1. CASE k \in 1 .. Len(s)
        BY <2>1, <2>2, <3>1 DEF PairsOf
    <3>2. CASE k = Len(s) + 1
      <4>1. r[k] = PairAt(p, m, n + 1) /\ n + 1 \in 1 .. n + 1
          BY <1>1, <2>1, <3>2 DEF e
      <4>2. r[k].tail >= p.last_lidar_end_time
          BY <1>1, <1>2, <1>3, <1>5, <2>1, <3>2
      <4> QED
          BY <4>1, <4>2
    <3> QED
        BY <1>1, <3>1, <3>2
  <2>4. ASSUME \A i \in 1 .. n + 1 : m.imu[i] >= p.last_lidar_end_time
        PROVE  Len(r) = n + 1 /\ \A k \in 1 .. n + 1 : r[k] = PairAt(p, m, k)
    <3>1. Len(s) = n /\ \A k \in 1 .. n : s[k] = PairAt(p, m, k)
        BY <2>2, <2>4 DEF PairsOf
    <3>2. \A k \in 1 .. n + 1 : k \in 1 .. n \/ k = n + 1
        BY <1>1
    <3> QED
        BY <2>1, <3>1, <3>2 DEF e
  <2>5. PairsOf(p, m, n + 1, r)
      BY <2>1, <2>3, <2>4 DEF PairsOf
  <2> QED
      BY <1>5, <2>5 DEF e, r
<1> QED
    BY <1>4, <1>5

LEMMA PairsRight ==
    ASSUME NEW p \in ImuState, NEW m \in Measures
    PROVE  PairsOf(p, m, Len(m.imu), Pairs(p, m))
<1> DEFINE v == <<p.last_imu>> \o m.imu
           n == Len(m.imu)
           late == p.last_lidar_end_time
           e(i) == [head |-> v[i], tail |-> v[i + 1]]
           Block(i, s) == IF v[i + 1] < late THEN s ELSE Append(s, e(i))
           G(f) == [i \in 0 .. n |-> IF i = 0 THEN <<>>
                                     ELSE IF v[i + 1] < late THEN f[i - 1]
                                     ELSE Append(f[i - 1], e(i))]
           upTo == CHOOSE f : f = G(f)
           step == [i \in 1 .. n |-> [s \in Seq(Pair) |-> Block(i, s)]]
<1>1. m.imu \in Seq(Int) /\ p.last_imu \in Int /\ late \in Int /\ n \in Nat
    BY DEF Measures, ImuState
<1>2. \A i \in 1 .. n : v[i + 1] = m.imu[i] /\ v[i] = (IF i = 1 THEN p.last_imu ELSE m.imu[i - 1])
  <2>1. /\ Len(<<p.last_imu>>) = 1 /\ <<p.last_imu>> \in Seq(Int)
        /\ Len(v) = 1 + n
        /\ \A i \in 1 .. 1 + n : v[i] = IF i <= 1 THEN <<p.last_imu>>[i] ELSE m.imu[i - 1]
      BY <1>1, ConcatProperties
  <2>2. \A i \in 1 .. n : i \in 1 .. 1 + n /\ i + 1 \in 1 .. 1 + n /\ ~(i + 1 <= 1) /\ (i + 1) - 1 = i
                          /\ (i <= 1 <=> i = 1)
      BY <1>1
  <2> HIDE DEF v
  <2> QED
      BY <2>1, <2>2
<1>3. \A i \in 1 .. n : e(i) = PairAt(p, m, i) /\ PairAt(p, m, i) \in Pair /\ v[i + 1] = m.imu[i]
  <2> SUFFICES ASSUME NEW i \in 1 .. n PROVE e(i) = PairAt(p, m, i) /\ PairAt(p, m, i) \in Pair
      BY <1>2
  <2>1. e(i) = PairAt(p, m, i)
      BY <1>2 DEF PairAt
  <2>2. m.imu[i] \in Int /\ (i # 1 => i - 1 \in 1 .. n /\ m.imu[i - 1] \in Int)
      BY <1>1
  <2>3. PairAt(p, m, i) \in Pair
      BY <1>1, <2>2 DEF PairAt, Pair
  <2> QED
      BY <2>1, <2>3
<1> HIDE DEF v
<1>4. Pairs(p, m) = upTo[n]
    BY DEF Pairs, v
<1>5. \A i \in 1 .. n, s \in Seq(Pair) : Block(i, s) \in Seq(Pair)
    BY <1>3, AppendProperties
<1>6. upTo = G(upTo)
  <2>1. step \in StepFunctions(Seq(Pair), n)
      BY <1>5 DEF StepFunctions
  <2>2. <<>> \in Seq(Pair)
      OBVIOUS
  <2> HIDE DEF step
  <2>3. PICK f : RunFrom(Seq(Pair), <<>>, n, step, f)
      BY <1>1, <2>1, <2>2, Recursion, Zenon
  <2>4. f \in [0 .. n -> Seq(Pair)] /\ f[0] = <<>> /\ \A i \in 1 .. n : f[i] = Block(i, f[i - 1])
    <3>1. f \in [0 .. n -> Seq(Pair)] /\ f[0] = <<>> /\ \A i \in 1 .. n : f[i] = step[i][f[i - 1]]
        BY <2>3 DEF RunFrom
    <3>2. \A i \in 1 .. n : i - 1 \in 0 .. n
        BY <1>1
    <3>3. \A i \in 1 .. n : step[i][f[i - 1]] = Block(i, f[i - 1])
        BY <3>1, <3>2 DEF step
    <3> QED
        BY <3>1, <3>3
  <2>5. f = G(f)
    <3>1. f = [i \in 0 .. n |-> f[i]]
        BY <2>4
    <3>2. ASSUME NEW i \in 0 .. n PROVE f[i] = G(f)[i]
      <4>1. CASE i = 0
          BY <1>1, <2>4, <4>1
      <4>2. CASE i \in 1 .. n
        <5>1. f[i] = Block(i, f[i - 1])
            BY <2>4, <4>2
        <5>2. i # 0
            BY <4>2
        <5> HIDE DEF e
        <5> QED
            BY <5>1, <5>2
      <4> QED
          BY <1>1, <4>1, <4>2
    <3>3. G(f) = [i \in 0 .. n |-> G(f)[i]]
        OBVIOUS
    <3> HIDE DEF G
    <3> QED
        BY <3>1, <3>2, <3>3
  <2> HIDE DEF G
  <2> QED
      BY <2>5
<1> HIDE DEF upTo
<1>7. upTo[0] = <<>> /\ \A i \in 1 .. n : upTo[i] = Block(i, upTo[i - 1])
  <2>1. upTo[0] = G(upTo)[0]
      BY <1>6
  <2>2. \A i \in 1 .. n : upTo[i] = G(upTo)[i]
      BY <1>6
  <2>3. G(upTo)[0] = <<>>
      BY <1>1
  <2>4. ASSUME NEW i \in 1 .. n PROVE G(upTo)[i] = Block(i, upTo[i - 1])
    <3>1. i \in 0 .. n /\ i # 0
        OBVIOUS
    <3> HIDE DEF e
    <3> QED
        BY <3>1
  <2> HIDE DEF G, Block
  <2> QED
      BY <2>1, <2>2, <2>3, <2>4
<1> DEFINE S == {i \in Nat : i <= n => PairsOf(p, m, i, upTo[i])}
<1>8. 0 \in S
  <2>1. PairsOf(p, m, 0, <<>>)
    <3>1. <<>> \in Seq(Pair) /\ Len(<<>>) = 0 /\ 1 .. 0 = {}
        OBVIOUS
    <3> QED
        BY <3>1 DEF PairsOf
  <2> QED
      BY <1>7, <2>1
<1>9. ASSUME NEW i \in Nat, i \in S PROVE i + 1 \in S
  <2> SUFFICES ASSUME i + 1 <= n PROVE PairsOf(p, m, i + 1, upTo[i + 1])
      OBVIOUS
  <2>1. i \in 0 .. n - 1 /\ i + 1 \in 1 .. n /\ (i + 1) - 1 = i /\ PairsOf(p, m, i, upTo[i])
      BY <1>1, <1>9
  <2>2. upTo[i + 1] = IF m.imu[i + 1] < late THEN upTo[i] ELSE Append(upTo[i], PairAt(p, m, i + 1))
    <3> HIDE DEF e
    <3> QED
        BY <1>3, <1>7, <2>1
  <2>3. PairsOf(p, m, i + 1, IF m.imu[i + 1] < late THEN upTo[i] ELSE Append(upTo[i], PairAt(p, m, i + 1)))
      BY <2>1, NextPair
  <2> QED
      BY <2>2, <2>3
<1>10. Nat \subseteq S
  <2> HIDE DEF S
  <2> QED
      BY <1>8, <1>9, SetInduction
<1>11. PairsOf(p, m, n, upTo[n])
    BY <1>1, <1>10
<1> QED
    BY <1>4, <1>11

\* One more element at the end.
LEMMA OneMore ==
    ASSUME NEW a \in Seq(Int), NEW n \in Nat, n = Len(a), NEW e \in Int
    PROVE  /\ a \o <<e>> \in Seq(Int) /\ Len(a \o <<e>>) = n + 1
           /\ \A i \in 1 .. n : (a \o <<e>>)[i] = a[i]
           /\ (a \o <<e>>)[n + 1] = e
<1>1. PICK b : b = <<e>>
    OBVIOUS
<1>2. b \in Seq(Int) /\ Len(b) = 1 /\ b[1] = e
    BY <1>1
<1>3. PICK c : c = a \o b
    OBVIOUS
<1>4. /\ c \in Seq(Int) /\ Len(c) = n + 1
      /\ \A i \in 1 .. n + 1 : c[i] = IF i <= n THEN a[i] ELSE b[i - n]
  <2>1. /\ c \in Seq(Int) /\ Len(c) = Len(a) + Len(b)
        /\ \A i \in 1 .. Len(a) + Len(b) : c[i] = IF i <= Len(a) THEN a[i] ELSE b[i - Len(a)]
      BY <1>2, <1>3, ConcatProperties
  <2> QED
      BY <1>2, <2>1
<1>5. \A i \in 1 .. n : c[i] = a[i]
    BY <1>4
<1>6. c[n + 1] = e
  <2>1. n + 1 \in 1 .. n + 1 /\ ~(n + 1 <= n) /\ (n + 1) - n = 1
      OBVIOUS
  <2> QED
      BY <1>2, <1>4, <2>1
<1> QED
    BY <1>1, <1>3, <1>4, <1>5, <1>6

\* The samples of a group ascend, to the end of the scan at most, from the last
\* sample before them or from the end of the last scan.
Ascending(p, m) ==
    /\ Len(m.imu) > 0
    /\ \A i, j \in 1 .. Len(m.imu) : i < j => m.imu[i] <= m.imu[j]
    /\ m.imu[Len(m.imu)] <= m.end

\* So no prediction goes back in time.
LEMMA SpansForward ==
    ASSUME NEW p \in ImuState, NEW m \in Measures, Ascending(p, m),
           p.last_imu <= p.last_lidar_end_time \/ p.last_imu <= m.imu[1]
    PROVE  \A i \in DOMAIN Spans(p, m) : Spans(p, m)[i] >= 0
<1> DEFINE late == p.last_lidar_end_time
           n == Len(m.imu)
           s == [i \in DOMAIN Pairs(p, m) |->
                   Pairs(p, m)[i].tail
                   - (IF Pairs(p, m)[i].head < late THEN late ELSE Pairs(p, m)[i].head)]
           end == <<Abs(m.end - Last(m.imu))>>
<1>1. /\ m.imu \in Seq(Int) /\ p.last_imu \in Int /\ late \in Int /\ m.end \in Int /\ n \in Nat
      /\ n \in 1 .. n /\ \A i \in 1 .. n : m.imu[i] \in Int
    BY DEF Measures, ImuState, Ascending
<1>2. PairsOf(p, m, n, Pairs(p, m))
    BY PairsRight
<1>3. DOMAIN Pairs(p, m) = 1 .. Len(Pairs(p, m)) /\ Len(Pairs(p, m)) \in Nat
    BY <1>2 DEF PairsOf
<1>4. ASSUME NEW k \in 1 .. Len(Pairs(p, m)) PROVE s[k] \in Int /\ s[k] >= 0
  <2>1. PICK i \in 1 .. n : Pairs(p, m)[k] = PairAt(p, m, i)
      BY <1>2 DEF PairsOf
  <2>2. Pairs(p, m)[k].tail >= late
      BY <1>2 DEF PairsOf
  <2>3. /\ Pairs(p, m)[k].tail = m.imu[i]
        /\ Pairs(p, m)[k].head = IF i = 1 THEN p.last_imu ELSE m.imu[i - 1]
      BY <2>1 DEF PairAt
  <2>4. s[k] = Pairs(p, m)[k].tail
               - (IF Pairs(p, m)[k].head < late THEN late ELSE Pairs(p, m)[k].head)
      BY <1>3
  <2>5. CASE i = 1
      BY <1>1, <2>2, <2>3, <2>4, <2>5
  <2>6. CASE i # 1
    <3>1. i - 1 \in 1 .. n /\ i - 1 < i
        BY <1>1, <2>6
    <3>2. m.imu[i - 1] <= m.imu[i] /\ m.imu[i - 1] \in Int /\ m.imu[i] \in Int
        BY <1>1, <3>1 DEF Ascending
    <3> QED
        BY <1>1, <2>2, <2>3, <2>4, <2>6, <3>2
  <2> QED
      BY <2>5, <2>6
<1>5. Abs(m.end - Last(m.imu)) \in Int /\ Abs(m.end - Last(m.imu)) >= 0
  <2>1. Last(m.imu) = m.imu[n]
      BY DEF Last
  <2> QED
      BY <1>1, <2>1 DEF Abs
<1>6. Spans(p, m) = s \o end
    BY DEF Spans
<1>7. s \in Seq(Int) /\ Len(s) = Len(Pairs(p, m)) /\ end \in Seq(Int) /\ Len(end) = 1
      /\ end[1] = Abs(m.end - Last(m.imu))
  <2>1. DOMAIN s = 1 .. Len(Pairs(p, m)) /\ \A k \in 1 .. Len(Pairs(p, m)) : s[k] \in Int
      BY <1>3, <1>4
  <2>2. s = [k \in 1 .. Len(Pairs(p, m)) |-> s[k]]
      BY <1>3
  <2> HIDE DEF s
  <2>3. s \in Seq(Int) /\ Len(s) = Len(Pairs(p, m))
      BY <1>3, <2>1, <2>2
  <2> QED
      BY <1>5, <2>3
<1>8. PICK e \in Int : e = Abs(m.end - Last(m.imu))
    BY <1>5
<1>9. PICK N \in Nat : N = Len(Pairs(p, m))
    BY <1>3
<1>10. /\ N = Len(s) /\ Spans(p, m) = s \o <<e>> /\ e >= 0
       /\ \A k \in 1 .. N : s[k] >= 0
    BY <1>4, <1>5, <1>6, <1>7, <1>8, <1>9
<1>11. s \in Seq(Int)
    BY <1>7
<1> HIDE DEF s
<1>12. /\ Spans(p, m) \in Seq(Int) /\ Len(Spans(p, m)) = N + 1
       /\ \A i \in 1 .. N : Spans(p, m)[i] = s[i]
       /\ Spans(p, m)[N + 1] = e
    BY <1>10, <1>11, OneMore
<1>13. DOMAIN Spans(p, m) = 1 .. N + 1 /\ \A i \in 1 .. N + 1 : i \in 1 .. N \/ i = N + 1
    BY <1>12, LenProperties
<1> QED
    BY <1>10, <1>12, <1>13

\* And if all samples come after the last scan they cover the time from its
\* end to that of this one.
LEMMA SpansTotal ==
    ASSUME NEW p \in ImuState, NEW m \in Measures, Ascending(p, m),
           p.last_imu <= p.last_lidar_end_time, p.last_lidar_end_time <= m.imu[1]
    PROVE  Total(Spans(p, m)) = m.end - p.last_lidar_end_time
<1> DEFINE late == p.last_lidar_end_time
           n == Len(m.imu)
           q == Pairs(p, m)
           s == Spans(p, m)
           at == [i \in 0 .. n + 1 |-> IF i = 0 THEN late ELSE IF i = n + 1 THEN m.end ELSE m.imu[i]]
<1>1. /\ m.imu \in Seq(Int) /\ p.last_imu \in Int /\ late \in Int /\ m.end \in Int /\ n \in Nat
      /\ n \in 1 .. n /\ 1 \in 1 .. n /\ \A i \in 1 .. n : m.imu[i] \in Int
    BY DEF Measures, ImuState, Ascending
<1>2. \A i \in 1 .. n : m.imu[i] >= late /\ (i # 1 => m.imu[i - 1] >= late /\ m.imu[i - 1] \in Int)
  <2>1. \A i \in 1 .. n : m.imu[i] >= late
    <3> TAKE i \in 1 .. n
    <3>1. CASE i = 1
        BY <3>1
    <3>2. CASE i # 1
      <4>1. m.imu[1] <= m.imu[i]
          BY <1>1, <3>2 DEF Ascending
      <4> QED
          BY <1>1, <4>1
    <3> QED
        BY <3>1, <3>2
  <2>2. \A i \in 1 .. n : i # 1 => i - 1 \in 1 .. n
      BY <1>1
  <2> QED
      BY <1>1, <2>1, <2>2
<1>3. q \in Seq(Pair) /\ Len(q) = n /\ \A k \in 1 .. n : q[k] = PairAt(p, m, k)
    BY <1>2, PairsRight DEF PairsOf
<1> HIDE DEF q, s, n
<1> DEFINE r == [i \in DOMAIN q |-> q[i].tail - (IF q[i].head < late THEN late ELSE q[i].head)]
           end == <<Abs(m.end - Last(m.imu))>>
<1>4. s = r \o end
    BY DEF Spans, q, s
<1>5. DOMAIN q = 1 .. n
    BY <1>1, <1>3
<1>6. ASSUME NEW i \in 1 .. n PROVE r[i] = m.imu[i] - (IF i = 1 THEN late ELSE m.imu[i - 1])
  <2>1. q[i].tail = m.imu[i] /\ q[i].head = IF i = 1 THEN p.last_imu ELSE m.imu[i - 1]
      BY <1>3 DEF PairAt
  <2>2. r[i] = q[i].tail - (IF q[i].head < late THEN late ELSE q[i].head)
      BY <1>5
  <2>3. /\ late \in Int /\ p.last_imu \in Int /\ p.last_imu <= late
        /\ i # 1 => m.imu[i - 1] \in Int /\ m.imu[i - 1] >= late
      BY <1>1, <1>2
  <2> HIDE DEF r, late
  <2>4. CASE i = 1
      BY <2>1, <2>2, <2>3, <2>4
  <2>5. CASE i # 1
      BY <2>1, <2>2, <2>3, <2>5
  <2> QED
      BY <2>4, <2>5
<1>7. Last(m.imu) = m.imu[n] /\ m.imu[n] \in Int /\ m.imu[n] <= m.end
    BY <1>1 DEF Last, Ascending, n
<1>8. end = <<m.end - m.imu[n]>>
    BY <1>1, <1>7 DEF Abs
<1>9. r \in Seq(Int) /\ Len(r) = n
  <2>1. r = [k \in 1 .. n |-> r[k]]
      BY <1>5
  <2>2. ASSUME NEW k \in 1 .. n PROVE r[k] \in Int
    <3>1. m.imu[k] \in Int /\ (k # 1 => m.imu[k - 1] \in Int) /\ late \in Int
        BY <1>1, <1>2
    <3>2. r[k] = m.imu[k] - (IF k = 1 THEN late ELSE m.imu[k - 1])
        BY <1>6
    <3> HIDE DEF r
    <3> QED
        BY <3>1, <3>2
  <2> HIDE DEF r
  <2> QED
      BY <1>1, <2>1, <2>2
<1>10. PICK e \in Int : e = m.end - m.imu[n]
    BY <1>1, <1>7
<1>11. s = r \o <<e>>
    BY <1>4, <1>8, <1>10
<1> HIDE DEF r, end
<1>12. /\ s \in Seq(Int) /\ Len(s) = n + 1 /\ s[n + 1] = e
        /\ \A i \in 1 .. n : s[i] = r[i]
    BY <1>1, <1>9, <1>11, OneMore
<1>13. at \in [0 .. n + 1 -> Int]
  <2>1. \A i \in 0 .. n + 1 : i = 0 \/ i = n + 1 \/ i \in 1 .. n
      BY <1>1
  <2> QED
      BY <1>1, <2>1
<1>14. ASSUME NEW i \in 1 .. n + 1 PROVE s[i] = at[i] - at[i - 1]
  <2>1. i - 1 \in 0 .. n + 1 /\ i \in 0 .. n + 1 /\ i # 0 /\ i - 1 # n + 1
      BY <1>1
  <2>2. /\ at[i] = IF i = n + 1 THEN m.end ELSE m.imu[i]
        /\ at[i - 1] = IF i - 1 = 0 THEN late ELSE m.imu[i - 1]
      BY <2>1
  <2> HIDE DEF at
  <2>3. CASE i = n + 1
    <3>1. n \in Nat /\ n # 0
        BY <1>1
    <3>2. i - 1 = n
        BY ONLY <2>3, <3>1
    <3>3. s[i] = e
        BY ONLY <1>12, <2>3
    <3> QED
        BY <1>10, <2>2, <2>3, <3>1, <3>2, <3>3
  <2>4. CASE i # n + 1
    <3>1. i \in 1 .. n /\ s[i] = r[i] /\ (i - 1 = 0 <=> i = 1)
        BY <1>1, <1>12, <2>4
    <3> QED
        BY <1>6, <2>2, <2>4, <3>1
  <2> QED
      BY <2>3, <2>4
<1>15. at[n + 1] = m.end /\ at[0] = late
    BY <1>1
<1> HIDE DEF at
<1>16. Total(s) = at[Len(s)] - at[0]
    BY <1>12, <1>13, <1>14, TotalOfSpans
<1> QED
    BY <1>12, <1>15, <1>16 DEF s

\* Min is the least of a set of numbers.
LEMMA Smallest ==
    ASSUME NEW S, S \subseteq Nat, S # {}
    PROVE  Min(S) \in S /\ \A y \in S : Min(S) <= y
    BY Least DEF Min

\* The points of a cloud, in the order of their times.
Sorted(points) == \A j, k \in 1 .. Len(points) : j < k => points[j] <= points[k]

\* Points are moved from the last one down: those above at once, those up to
\* at never so far; but the first.
MoveStates(points) ==
    {st \in [at : 0 .. Len(points), count : [1 .. Len(points) -> Nat]] :
        \A x \in 2 .. Len(points) : st.count[x] = IF x <= st.at THEN 0 ELSE 1}

LEMMA MaxWithOne ==
    ASSUME NEW k \in Int
    PROVE  Max({1, k}) \in {1, k} /\ Max({1, k}) >= 1 /\ Max({1, k}) >= k
<1>1. \E x \in {1, k} : \A y \in {1, k} : x >= y
    OBVIOUS
<1>2. Max({1, k}) \in {1, k} /\ \A y \in {1, k} : Max({1, k}) >= y
    BY <1>1 DEF Max
<1> QED
    BY <1>2

LEMMA MoveKeeps ==
    ASSUME NEW points \in Seq(Nat), Sorted(points), NEW head \in Int,
           NEW st \in MoveStates(points), NEW r, r = Move(head, st, points)
    PROVE  /\ r \in MoveStates(points)
           /\ \A x \in 2 .. Len(points) : points[x] > head => x > r.at
<1> DEFINE n == Len(points)
           after == {x \in 1 .. st.at : points[x] > head}
           count == [x \in DOMAIN points |-> st.count[x] + (IF x \in after THEN 1 ELSE 0)]
<1>1. /\ n \in Nat /\ DOMAIN points = 1 .. n /\ \A x \in 1 .. n : points[x] \in Nat
      /\ st.at \in 0 .. n /\ st.count \in [1 .. n -> Nat]
      /\ \A x \in 2 .. n : st.count[x] = IF x <= st.at THEN 0 ELSE 1
    BY LenProperties DEF MoveStates
<1>2. \A x \in 2 .. n : x \in 1 .. n /\ x \in Nat
    BY <1>1
<1>3. CASE after = {}
  <2>1. r = st
      BY <1>3 DEF Move
  <2>2. ASSUME NEW x \in 2 .. n, points[x] > head PROVE x > st.at
    <3>1. x \notin 1 .. st.at
        BY <1>3, <2>2
    <3> QED
        BY <1>1, <1>2, <3>1
  <2> QED
      BY <2>1, <2>2
<1>4. CASE after # {}
  <2>1. after \subseteq Nat
      BY <1>1
  <2>2. PICK low \in after : low = Min(after) /\ \A y \in after : low <= y
    <3> HIDE DEF after
    <3> QED
        BY <1>4, <2>1, Smallest
  <2>3. PICK at : at = Max({1, low - 1})
      OBVIOUS
  <2>4. low \in 1 .. st.at /\ points[low] > head /\ low \in 1 .. n
      BY <1>1
  <2>5. at \in 1 .. st.at /\ at >= low - 1 /\ \A x \in 2 .. n : x >= low => x > at
    <3>1. PICK k \in Int : k = low - 1
        BY <1>1, <2>4
    <3>2. at \in {1, k} /\ at >= 1 /\ at >= k
        BY <2>3, <3>1, MaxWithOne
    <3>3. st.at \in Nat /\ low \in Nat /\ 1 <= low /\ low <= st.at
        BY <1>1, <2>4
    <3> HIDE DEF after
    <3> QED
        BY <1>1, <3>1, <3>2, <3>3
  <2>6. r = [at |-> at, count |-> count]
      BY <1>4, <2>2, <2>3 DEF Move
  <2>7. ASSUME NEW x \in 2 .. n PROVE (x \in after <=> x > at /\ x <= st.at)
    <3>1. x \in Nat /\ x \in 1 .. n /\ x > 1
        BY <1>1
    <3>2. CASE x \in after
        BY <1>1, <2>2, <2>5, <3>1, <3>2
    <3>3. CASE x > at /\ x <= st.at
      <4>1. x >= low /\ x \in 1 .. st.at
          BY <1>1, <2>4, <2>5, <3>1, <3>3
      <4>2. low \in 1 .. n /\ points[low] <= points[x]
        <5>1. low \in 1 .. n
            BY <1>1, <2>4
        <5>2. low = x \/ low < x
            BY <3>1, <4>1, <5>1
        <5>3. CASE low < x
          <6> HIDE DEF after
          <6> QED
              BY <3>1, <5>1, <5>3 DEF Sorted
        <5>4. CASE low = x
            BY <1>1, <3>1, <5>4
        <5> QED
            BY <5>1, <5>2, <5>3, <5>4
      <4>3. points[x] > head
        <5>1. points[low] \in Nat /\ points[x] \in Nat /\ points[low] > head
            BY <1>1, <2>4, <3>1
        <5> HIDE DEF after
        <5> QED
            BY <4>2, <5>1
      <4> QED
          BY <3>3, <4>1, <4>3
    <3> QED
        BY <3>2, <3>3
  <2> HIDE DEF after
  <2>8. count \in [1 .. n -> Nat]
      BY <1>1
  <2>9. ASSUME NEW x \in 2 .. n PROVE count[x] = IF x <= at THEN 0 ELSE 1
    <3>1. count[x] = st.count[x] + (IF x \in after THEN 1 ELSE 0) /\ x \in Nat
        BY <1>1, <1>2
    <3>2. st.count[x] = IF x <= st.at THEN 0 ELSE 1
        BY <1>1
    <3> HIDE DEF count
    <3> QED
        BY <1>1, <2>5, <2>7, <3>1, <3>2
  <2>10. ASSUME NEW x \in 2 .. n, points[x] > head PROVE x > at
    <3>1. CASE x > st.at
        BY <1>1, <2>5, <3>1
    <3>2. CASE ~(x > st.at)
      <4>1. x \in 1 .. st.at
          BY <1>1, <3>2
      <4>2. x \in after
          BY <2>10, <4>1 DEF after
      <4> QED
          BY <2>7, <4>2
    <3> QED
        BY <3>1, <3>2
  <2> HIDE DEF count
  <2>11. at \in 0 .. n
      BY <1>1, <2>5
  <2> QED
      BY <2>6, <2>8, <2>9, <2>10, <2>11 DEF MoveStates
<1> QED
    BY <1>3, <1>4

\* The poses: one at the begin of the scan, one at every sample but the last.
Poses(p, m) == Front(<<0>> \o [i \in DOMAIN Pairs(p, m) |-> Pairs(p, m)[i].tail - m.beg])

LEMMA PosesRight ==
    ASSUME NEW p \in ImuState, NEW m \in Measures
    PROVE  /\ Poses(p, m) \in Seq(Int) /\ Len(Poses(p, m)) = Len(Pairs(p, m))
           /\ Len(Pairs(p, m)) > 0 => Poses(p, m)[1] = 0
<1> DEFINE q == Pairs(p, m)
           N == Len(q)
           tails == [i \in DOMAIN q |-> q[i].tail - m.beg]
           one == <<0>>
           c == one \o tails
<1>1. q \in Seq(Pair) /\ N \in Nat /\ DOMAIN q = 1 .. N /\ m.beg \in Int
    BY PairsRight, LenProperties DEF PairsOf, Measures
<1>2. tails \in Seq(Int) /\ Len(tails) = N
  <2>1. ASSUME NEW i \in 1 .. N PROVE q[i].tail - m.beg \in Int
    <3> HIDE DEF q
    <3>1. q[i] \in Pair
        BY <1>1
    <3> QED
        BY <1>1, <3>1 DEF Pair
  <2>2. tails = [i \in 1 .. N |-> tails[i]] /\ \A i \in 1 .. N : tails[i] \in Int
      BY <1>1, <2>1
  <2> HIDE DEF tails
  <2> QED
      BY <1>1, <2>2
<1>3. one \in Seq(Int) /\ Len(one) = 1 /\ one[1] = 0
    OBVIOUS
<1>4. Poses(p, m) = Front(c)
    BY DEF Poses
<1> HIDE DEF q, tails, one, N
<1>5. c \in Seq(Int) /\ Len(c) = N + 1 /\ c[1] = 0
  <2>1. /\ c \in Seq(Int) /\ Len(c) = Len(one) + Len(tails)
        /\ \A i \in 1 .. Len(one) + Len(tails) :
              c[i] = IF i <= Len(one) THEN one[i] ELSE tails[i - Len(one)]
      BY <1>2, <1>3, ConcatProperties
  <2>2. 1 \in 1 .. Len(one) + Len(tails) /\ 1 <= Len(one)
      BY <1>1, <1>2, <1>3
  <2> QED
      BY <1>1, <1>2, <1>3, <2>1, <2>2
<1> HIDE DEF c
<1>6. Poses(p, m) = [i \in 1 .. N |-> c[i]]
  <2>1. Front(c) = SubSeq(c, 1, N)
      BY <1>1, <1>5 DEF Front
  <2> QED
      BY <1>1, <1>4, <1>5, <2>1
<1>7. \A i \in 1 .. N : c[i] \in Int
    BY <1>1, <1>5
<1>8. Poses(p, m) \in Seq(Int) /\ Len(Poses(p, m)) = N
    BY <1>1, <1>6, <1>7
<1>9. N > 0 => Poses(p, m)[1] = 0
    BY <1>1, <1>5, <1>6
<1> QED
    BY <1>8, <1>9 DEF N, q

\* Every pose moves the points after it that no later one has moved: no point
\* but the first is moved twice, and all after the first pose are moved.
LEMMA MovesRight ==
    ASSUME NEW p \in ImuState, NEW m \in Measures, NEW points \in Seq(Nat), Sorted(points),
           points = m.lidar.offsets
    PROVE  /\ Moves(p, m) \in [1 .. Len(points) -> Nat]
           /\ \A x \in 2 .. Len(points) :
                 /\ Moves(p, m)[x] <= 1
                 /\ Len(Pairs(p, m)) > 0 /\ points[x] > 0 => Moves(p, m)[x] = 1
<1> DEFINE poses == Poses(p, m)
           L == Len(poses)
           n == Len(points)
           start == [at |-> n, count |-> [x \in DOMAIN points |-> 0]]
           G(f) == [i \in 1 .. L + 1 |-> IF i > L THEN start ELSE Move(poses[i], f[i + 1], points)]
           from == CHOOSE f : f = G(f)
           D == MoveStates(points)
           step == [b \in 1 .. L |-> [st \in D |-> Move(poses[L + 1 - b], st, points)]]
<1>1. poses \in Seq(Int) /\ L = Len(Pairs(p, m)) /\ (L > 0 => poses[1] = 0) /\ L \in Nat
      /\ \A i \in 1 .. L : poses[i] \in Int
    BY PosesRight
<1>2. n \in Nat /\ DOMAIN points = 1 .. n
    BY LenProperties
<1>3. Moves(p, m) = from[1].count
    BY DEF Moves, Poses
<1> HIDE DEF poses, L
<1>4. start \in D
  <2>1. [x \in DOMAIN points |-> 0] \in [1 .. n -> Nat] /\ n \in 0 .. n
      BY <1>2
  <2>2. \A x \in 2 .. n : x \in 1 .. n /\ x <= n
      BY <1>2
  <2> QED
      BY <1>2, <2>1, <2>2 DEF MoveStates
<1> HIDE DEF start, D
<1>5. \A h \in Int, st \in D : Move(h, st, points) \in D
    BY MoveKeeps DEF D
<1>6. step \in StepFunctions(D, L)
  <2>1. \A b \in 1 .. L : L + 1 - b \in 1 .. L
      BY <1>1
  <2>2. \A b \in 1 .. L, st \in D : Move(poses[L + 1 - b], st, points) \in D
      BY <1>1, <1>5, <2>1
  <2> QED
      BY <2>2 DEF StepFunctions
<1> HIDE DEF step
<1>7. PICK f : RunFrom(D, start, L, step, f)
    BY <1>1, <1>4, <1>6, Recursion, Zenon
<1>8. /\ f \in [0 .. L -> D] /\ f[0] = start
      /\ \A b \in 1 .. L : f[b] = Move(poses[L + 1 - b], f[b - 1], points)
  <2>1. f \in [0 .. L -> D] /\ f[0] = start /\ \A b \in 1 .. L : f[b] = step[b][f[b - 1]]
      BY <1>7 DEF RunFrom
  <2>2. \A b \in 1 .. L : b - 1 \in 0 .. L
      BY <1>1
  <2>3. \A b \in 1 .. L : step[b][f[b - 1]] = Move(poses[L + 1 - b], f[b - 1], points)
      BY <2>1, <2>2 DEF step
  <2> QED
      BY <2>1, <2>3
<1> DEFINE g == [i \in 1 .. L + 1 |-> f[L + 1 - i]]
<1>9. g = G(g)
  <2>1. ASSUME NEW i \in 1 .. L + 1 PROVE g[i] = G(g)[i]
    <3>1. G(g)[i] = IF i > L THEN start ELSE Move(poses[i], g[i + 1], points)
        OBVIOUS
    <3>2. g[i] = f[L + 1 - i] /\ L + 1 - i \in 0 .. L
        BY <1>1
    <3>3. CASE i > L
      <4>1. L + 1 - i = 0
          BY <1>1, <3>3
      <4> HIDE DEF g, G
      <4> QED
          BY <1>8, <3>1, <3>2, <3>3, <4>1
    <3>4. CASE ~(i > L)
      <4>1. /\ i + 1 \in 1 .. L + 1 /\ g[i + 1] = f[L + 1 - (i + 1)]
            /\ L + 1 - i \in 1 .. L /\ L + 1 - (L + 1 - i) = i
            /\ L + 1 - (i + 1) = (L + 1 - i) - 1
          BY <1>1, <3>4
      <4>2. PICK b \in 1 .. L : b = L + 1 - i
          BY <4>1
      <4>3. f[b] = Move(poses[L + 1 - b], f[b - 1], points)
          BY <1>8
      <4> HIDE DEF g, G
      <4> QED
          BY <3>1, <3>2, <3>4, <4>1, <4>2, <4>3
    <3> QED
        BY <3>3, <3>4
  <2>2. g = [i \in 1 .. L + 1 |-> g[i]] /\ G(g) = [i \in 1 .. L + 1 |-> G(g)[i]]
      OBVIOUS
  <2> HIDE DEF g, G
  <2> QED
      BY <2>1, <2>2
<1>10. from = G(from)
  <2> HIDE DEF g, G
  <2> QED
      BY <1>9
<1> HIDE DEF from
<1>11. /\ from[L + 1] = start
       /\ \A i \in 1 .. L : from[i] = Move(poses[i], from[i + 1], points)
  <2>1. \A i \in 1 .. L + 1 : from[i] = G(from)[i]
      BY <1>10
  <2>2. \A i \in 1 .. L + 1 :
           G(from)[i] = IF i > L THEN start ELSE Move(poses[i], from[i + 1], points)
      OBVIOUS
  <2> HIDE DEF G
  <2>3. L + 1 \in 1 .. L + 1 /\ L + 1 > L /\ \A i \in 1 .. L : i \in 1 .. L + 1 /\ ~(i > L)
      BY <1>1
  <2> QED
      BY <2>1, <2>2, <2>3
<1> DEFINE S == {k \in Nat : k <= L => from[L + 1 - k] \in D}
<1>12. Nat \subseteq S
  <2>1. 0 \in S
    <3>1. L + 1 - 0 = L + 1
        BY <1>1
    <3> QED
        BY <1>4, <1>11, <3>1
  <2>2. ASSUME NEW k \in Nat, k \in S PROVE k + 1 \in S
    <3> SUFFICES ASSUME k + 1 <= L PROVE from[L + 1 - (k + 1)] \in D
        OBVIOUS
    <3>1. PICK i \in 1 .. L : i = L + 1 - (k + 1)
        BY <1>1
    <3>2. i + 1 = L + 1 - k /\ k <= L
        BY <1>1, <3>1
    <3>3. from[i + 1] \in D
        BY <2>2, <3>2
    <3> QED
        BY <1>1, <1>5, <1>11, <3>1, <3>3
  <2> HIDE DEF S
  <2> QED
      BY <2>1, <2>2, SetInduction
<1>13. \A i \in 1 .. L + 1 : from[i] \in D
  <2> TAKE i \in 1 .. L + 1
  <2>1. L + 1 - i \in Nat /\ L + 1 - i <= L /\ L + 1 - (L + 1 - i) = i
      BY <1>1
  <2>2. L + 1 - i \in S
      BY <1>12, <2>1
  <2> QED
      BY <2>1, <2>2
<1>14. from[1] \in D
    BY <1>1, <1>13
<1>15. /\ from[1].count \in [1 .. n -> Nat]
       /\ \A x \in 2 .. n : from[1].count[x] = IF x <= from[1].at THEN 0 ELSE 1
    BY <1>14 DEF D, MoveStates
<1>16. ASSUME NEW x \in 2 .. n, L > 0, points[x] > 0 PROVE ~(x <= from[1].at)
  <2>1. 1 \in 1 .. L /\ 1 + 1 \in 1 .. L + 1
      BY <1>1, <1>16
  <2>2. from[1] = Move(0, from[1 + 1], points) /\ from[1 + 1] \in MoveStates(points)
      BY <1>1, <1>11, <1>13, <1>16, <2>1 DEF D
  <2>3. PICK st \in MoveStates(points) : st = from[1 + 1]
      BY <2>2
  <2>4. x > from[1].at
      BY <1>16, <2>2, <2>3, MoveKeeps
  <2>5. x \in Nat /\ from[1].at \in Int
      BY <1>14 DEF D, MoveStates
  <2> QED
      BY <2>4, <2>5
<1> HIDE DEF n
<1>17. ASSUME NEW x \in 2 .. n
       PROVE  /\ from[1].count[x] <= 1
              /\ Len(Pairs(p, m)) > 0 /\ points[x] > 0 => from[1].count[x] = 1
    BY <1>1, <1>15, <1>16
<1> QED
    BY <1>3, <1>15, <1>17 DEF n

\* The time line: imu_buffer ascends even after jumps back, for a jump empties
\* it.  Unless the IMU jumped back the last sample processed comes before those
\* in it; and from the first scan undistorted on not after the end of the last
\* one, which until the lidar jumps back is not after that of the last taken.
LineInv ==
    /\ \A i \in DOMAIN imu_buffer :
          /\ imu_buffer[i] <= last_timestamp_imu
          /\ \A j \in DOMAIN imu_buffer : i < j => imu_buffer[i] <= imu_buffer[j]
    /\ Sorted(meas.lidar.offsets)
    /\ loops.imu = 0 /\ ~proc.imu_need_init =>
          /\ proc.last_imu <= last_timestamp_imu
          /\ \A i \in DOMAIN imu_buffer : proc.last_imu <= imu_buffer[i]
    /\ feats_undistort # None =>
          /\ proc.last_imu <= proc.last_lidar_end_time
          /\ loops.lidar = 0 => proc.last_lidar_end_time <= ends.last

\* What the last undistortion started from.
UndistortedInv ==
    feats_undistort # None =>
        LET u == undistorted
        IN  /\ u.proc \in ImuState /\ u.meas \in Measures
            /\ u.meas.lidar = feats_undistort /\ Sorted(feats_undistort.offsets)
            /\ Ascending(u.proc, u.meas)
            /\ ~u.first => u.proc.last_imu <= u.proc.last_lidar_end_time
            /\ loops.imu = 0 => u.proc.last_imu <= u.meas.imu[1]
            /\ NoLoopBack /\ ~u.first => u.proc.last_lidar_end_time <= u.meas.imu[1]

\* That much gives the time covered and the points moved.
LEMMA UndistortedRight ==
    ASSUME TypeOK, UndistortedInv
    PROVE  UndistortionRight
<1> SUFFICES ASSUME feats_undistort # None PROVE UndistortionRight
    BY DEF UndistortionRight, PredictionsCover, PointsMovedOnce
<1>0. PICK first : first = undistorted.first
    OBVIOUS
<1>1. PICK p \in ImuState, m \in Measures :
         /\ p = undistorted.proc /\ m = undistorted.meas /\ first = undistorted.first
         /\ m.lidar = feats_undistort /\ Sorted(m.lidar.offsets)
         /\ Ascending(p, m)
         /\ ~first => p.last_imu <= p.last_lidar_end_time
         /\ loops.imu = 0 => p.last_imu <= m.imu[1]
         /\ NoLoopBack /\ ~first => p.last_lidar_end_time <= m.imu[1]
    BY <1>0 DEF UndistortedInv
<1>2. PredictionsCover
  <2>1. ASSUME NoLoopBack, ~first
        PROVE  Total(Spans(p, m)) = m.end - p.last_lidar_end_time
      BY <1>1, <2>1, SpansTotal
  <2>2. ASSUME ~(first /\ loops.imu > 0)
        PROVE  \A i \in DOMAIN Spans(p, m) : Spans(p, m)[i] >= 0
    <3>1. loops.imu \in Nat
        BY DEF TypeOK, BuffersOK
    <3>2. ~first \/ loops.imu = 0
        BY <2>2, <3>1
    <3> QED
        BY <1>1, <3>2, SpansForward
  <2> QED
      BY <1>1, <2>1, <2>2 DEF PredictionsCover
<1>3. PointsMovedOnce
  <2>1. PICK points \in Seq(Nat) : points = m.lidar.offsets
      BY DEF Measures, Cloud
  <2>2. /\ Moves(p, m) \in [1 .. Len(points) -> Nat]
        /\ \A x \in 2 .. Len(points) :
              /\ Moves(p, m)[x] <= 1
              /\ Len(Pairs(p, m)) > 0 /\ points[x] > 0 => Moves(p, m)[x] = 1
      BY <1>1, <2>1, MovesRight
  <2>3. Len(Moves(p, m)) = Len(points)
    <3>1. Len(points) \in Nat
        BY LenProperties
    <3> QED
        BY <2>2, <3>1, LenProperties
  <2>4. ASSUME NoLoopBack, ~first PROVE Len(Pairs(p, m)) > 0
    <3>1. \A i \in 1 .. Len(m.imu) : m.imu[i] >= p.last_lidar_end_time
      <4> TAKE i \in 1 .. Len(m.imu)
      <4>1. m.imu \in Seq(Int) /\ p.last_lidar_end_time \in Int /\ Len(m.imu) \in Nat
            /\ m.imu[i] \in Int /\ 1 \in 1 .. Len(m.imu) /\ m.imu[1] \in Int
          BY LenProperties DEF Measures, ImuState
      <4>2. i = 1 \/ m.imu[1] <= m.imu[i]
          BY <1>1, <4>1 DEF Ascending
      <4> QED
          BY <1>1, <2>4, <4>1, <4>2
    <3>2. PairsOf(p, m, Len(m.imu), Pairs(p, m))
        BY PairsRight
    <3> QED
        BY <1>1, <3>1, <3>2 DEF PairsOf, Ascending
  <2>5. ASSUME NEW x \in 2 .. Len(points)
        PROVE  /\ Moves(p, m)[x] <= 1
               /\ NoLoopBack /\ ~first /\ points[x] > 0 => Moves(p, m)[x] = 1
      BY <2>2, <2>4
  <2>6. \A x \in 2 .. Len(Moves(p, m)) :
           /\ Moves(p, m)[x] <= 1
           /\ NoLoopBack /\ ~first /\ feats_undistort.offsets[x] > 0 => Moves(p, m)[x] = 1
      BY <1>1, <2>1, <2>3, <2>5
  <2> QED
      BY <1>1, <2>6 DEF PointsMovedOnce
<1> QED
    BY <1>2, <1>3 DEF UndistortionRight

\* What the main loop does to the filter: nothing, initialise it with a
\* group, or undistort the group's scan.
LEMMA MapCases ==
    ASSUME TypeOK, NEW m \in Measures, Map(m)
    PROVE  \/ UNCHANGED process
           \/ /\ m.imu # <<>> /\ proc.imu_need_init
              /\ UNCHANGED <<feats_undistort, undistorted>>
              /\ proc'.last_imu = Last(m.imu)
           \/ /\ m.imu # <<>> /\ ~proc.imu_need_init /\ feats_undistort' = m.lidar
              /\ undistorted' = [proc |-> proc, meas |-> m, first |-> feats_undistort = None]
              /\ proc'.last_imu = Last(m.imu) /\ proc'.last_lidar_end_time = m.end
<1>1. CASE flg_first_scan
    BY <1>1 DEF Map
<1>2. CASE ~flg_first_scan /\ m.imu = <<>>
    BY <1>2 DEF Map, Process
<1>3. CASE ~flg_first_scan /\ m.imu # <<>> /\ proc.imu_need_init
  <2>1. proc' = IMU_init(proc, m.imu) /\ UNCHANGED <<feats_undistort, undistorted>>
      BY <1>3 DEF Map, Process
  <2>2. proc \in ImuState
      BY DEF TypeOK, MappingOK
  <2>3. proc'.last_imu = Last(m.imu)
    <3>1. PICK n, need : proc' = [proc EXCEPT !.b_first_frame = FALSE, !.init_iter_num = n,
                                  !.last_imu = Last(m.imu), !.imu_need_init = need]
        BY <2>1 DEF IMU_init
    <3> QED
        BY <2>2, <3>1 DEF ImuState
  <2> QED
      BY <1>3, <2>1, <2>3
<1>4. CASE ~flg_first_scan /\ m.imu # <<>> /\ ~proc.imu_need_init
  <2>1. /\ feats_undistort' = m.lidar
        /\ undistorted' = [proc |-> proc, meas |-> m, first |-> feats_undistort = None]
        /\ proc' = [proc EXCEPT !.last_imu = Last(m.imu), !.last_lidar_end_time = m.end]
      BY <1>4 DEF Map, Process
  <2>2. proc \in ImuState
      BY DEF TypeOK, MappingOK
  <2>3. proc'.last_imu = Last(m.imu) /\ proc'.last_lidar_end_time = m.end
      BY <2>1, <2>2 DEF ImuState
  <2> QED
      BY <1>4, <2>1, <2>3
<1> QED
    BY <1>1, <1>2, <1>3, <1>4

\* The clouds a turn of the loop looks at are sorted.
LEMMA PushedSorted ==
    ASSUME TypeOK, MeanInv, StampsAligned, LineInv, lidar_buffer # <<>>, NEW P, P = Pushed
    PROVE  Sorted(P.meas.lidar.offsets)
<1>1. CASE lidar_pushed
    BY <1>1, PushedOld DEF LineInv
<1>2. CASE ~lidar_pushed
  <2>1. P.meas.lidar = Head(lidar_buffer)
    <3>1. PICK e : P.meas = [meas EXCEPT !.lidar = Head(lidar_buffer), !.beg = Head(time_buffer),
                                         !.end = Head(time_buffer) + e]
        BY <1>2, PushedNew, HasStamp
    <3>2. meas \in Measures
        BY DEF TypeOK, SyncOK
    <3> QED
        BY <3>1, <3>2 DEF Measures
  <2>2. Head(lidar_buffer) \in [stamp : Int, offsets : Clouds]
      BY HeadTailProperties DEF TypeOK, BuffersOK
  <2>3. PICK c \in Clouds : c = P.meas.lidar.offsets
      BY <2>1, <2>2
  <2>4. c \in Seq(Nat) /\ \A j, k \in DOMAIN c : j < k => c[j] <= c[k]
      BY FastLioAssumption
  <2>5. DOMAIN c = 1 .. Len(c)
      BY <2>4, LenProperties
  <2>6. Sorted(c)
      BY <2>4, <2>5 DEF Sorted
  <2> QED
      BY <2>3, <2>6
<1> QED
    BY <1>1, <1>2

\* A group ascends to the end of its scan, even after jumps back.
LEMMA TakingLine ==
    ASSUME TypeOK, MeanInv, StampsAligned, LineInv, NEW P, NEW n, NEW m, Taking(P, n, m)
    PROVE  /\ n \in 0 .. Len(imu_buffer) /\ m \in Measures /\ meas' = m
           /\ Len(m.imu) = n /\ \A i \in 1 .. n : m.imu[i] = imu_buffer[i]
           /\ Sorted(m.lidar.offsets)
           /\ ends' = [before |-> ends.last, last |-> m.end]
           /\ m.imu # <<>> => n > 0 /\ Last(m.imu) = m.imu[n] /\ Ascending(proc, m)
<1>1. n \in 0 .. Len(imu_buffer)
    BY TakingSome
<1>2. /\ m \in Measures /\ meas' = m
      /\ m.lidar = P.meas.lidar /\ m.end = P.meas.end
      /\ Len(m.imu) = n /\ \A i \in 1 .. n : m.imu[i] = imu_buffer[i]
      /\ ends' = [before |-> ends.last, last |-> m.end]
    BY <1>1, TakingEffect
<1>3. Sorted(m.lidar.offsets)
    BY <1>2, PushedSorted DEF Taking
<1>4. /\ imu_buffer \in Seq(Int) /\ m.end \in Int /\ m.imu \in Seq(Int)
      /\ DOMAIN imu_buffer = 1 .. Len(imu_buffer)
    BY <1>2, LenProperties DEF TypeOK, BuffersOK, Measures
<1>5. \A i \in 1 .. n : imu_buffer[i] <= m.end
  <2>1. n = TakesImu(imu_buffer, m.end)
      BY <1>2 DEF Taking
  <2>2. \A i, j \in DOMAIN imu_buffer : i < j => imu_buffer[i] <= imu_buffer[j]
      BY DEF LineInv
  <2> QED
      BY <1>4, <2>1, <2>2, TakesPrefix
<1>6. ASSUME m.imu # <<>> PROVE n > 0 /\ Last(m.imu) = m.imu[n] /\ Ascending(proc, m)
  <2>1. n > 0 /\ n \in Nat /\ n \in 1 .. n
      BY <1>2, <1>4, <1>6
  <2>2. Last(m.imu) = m.imu[n]
      BY <1>2 DEF Last
  <2>3. \A i, j \in 1 .. n : i < j => m.imu[i] <= m.imu[j]
    <3>1. \A i \in 1 .. n : i \in 1 .. Len(imu_buffer)
        BY <1>1, <1>4
    <3> QED
        BY <1>2, <1>4, <3>1 DEF LineInv
  <2>4. m.imu[n] <= m.end
      BY <1>2, <1>5, <2>1
  <2> QED
      BY <1>2, <2>1, <2>2, <2>3, <2>4 DEF Ascending
<1> QED
    BY <1>1, <1>2, <1>3, <1>6

\* Every step keeps the time line in order.
LEMMA LineStep ==
    ASSUME IInv, LineInv, [Next]_vars
    PROVE  LineInv'
<1> DEFINE I == Len(imu_buffer)
<1>1. /\ TypeOK /\ MeanInv /\ StampsAligned /\ ScanInv /\ ImuInv /\ RegisteredInv
    BY DEF IInv
<1>2. /\ imu_buffer \in Seq(Int) /\ I \in Nat /\ DOMAIN imu_buffer = 1 .. I
      /\ \A i \in 1 .. I : imu_buffer[i] \in Int
      /\ last_timestamp_imu \in Int /\ proc.last_imu \in Int /\ proc.last_lidar_end_time \in Int
      /\ loops.lidar \in Nat /\ loops.imu \in Nat /\ ends.last \in Int
    BY <1>1, LenProperties DEF TypeOK, BuffersOK, MappingOK, ImuState
<1>3. /\ \A i, j \in 1 .. I : i < j => imu_buffer[i] <= imu_buffer[j]
      /\ \A i \in 1 .. I : imu_buffer[i] <= last_timestamp_imu
      /\ loops.imu = 0 /\ ~proc.imu_need_init => 
            proc.last_imu <= last_timestamp_imu /\ \A i \in 1 .. I : proc.last_imu <= imu_buffer[i]
    BY <1>2 DEF LineInv
<1>4. ASSUME NEW cloud \in [stamp : Int, offsets : Clouds], standard_pcl_cbk(cloud)
      PROVE  LineInv'
  <2>1. /\ UNCHANGED <<imu_buffer, last_timestamp_imu, meas, proc, feats_undistort, ends>>
        /\ loops'.imu = loops.imu /\ (loops'.lidar = 0 => loops.lidar = 0)
    <3>1. loops.lidar + 1 # 0
        BY <1>2
    <3> QED
        BY <1>1, <1>4, <3>1, LidarEffect DEF sync, mapping, process
  <2> QED
      BY <2>1 DEF LineInv
<1>5. ASSUME NEW t \in Int, imu_cbk(t) PROVE LineInv'
  <2>1. /\ UNCHANGED <<meas, proc, feats_undistort, ends>>
        /\ loops'.lidar = loops.lidar /\ last_timestamp_imu' = t
      BY <1>1, <1>5, ImuEffect DEF sync, mapping, process
  <2>2. /\ Sorted(meas'.lidar.offsets)
        /\ feats_undistort' # None =>
              /\ proc'.last_imu <= proc'.last_lidar_end_time
              /\ loops'.lidar = 0 => proc'.last_lidar_end_time <= ends'.last
      BY <2>1 DEF LineInv
  <2>3. CASE t >= last_timestamp_imu /\ loops' = loops
    <3>1. /\ imu_buffer' \in Seq(Int) /\ Len(imu_buffer') = I + 1 /\ imu_buffer'[I + 1] = t
          /\ \A i \in 1 .. I : imu_buffer'[i] = imu_buffer[i]
      <4>1. loops'.imu # loops.imu + 1
          BY <1>2, <2>3
      <4> QED
          BY <1>1, <1>5, <4>1, ImuEffect
    <3> HIDE DEF I
    <3>2. DOMAIN imu_buffer' = 1 .. I + 1
        BY <3>1, LenProperties
    <3>3. ASSUME NEW i \in 1 .. I + 1
          PROVE  /\ imu_buffer'[i] <= t
                 /\ \A j \in 1 .. I + 1 : i < j => imu_buffer'[i] <= imu_buffer'[j]
                 /\ loops.imu = 0 /\ ~proc.imu_need_init => proc.last_imu <= imu_buffer'[i]
      <4>1. CASE i = I + 1
          BY <1>2, <1>3, <2>3, <3>1, <4>1
      <4>2. CASE i \in 1 .. I
        <5>1. imu_buffer'[i] = imu_buffer[i] /\ imu_buffer[i] <= last_timestamp_imu
              /\ imu_buffer[i] \in Int
            BY <1>2, <1>3, <3>1, <4>2
        <5>2. ASSUME NEW j \in 1 .. I + 1, i < j PROVE imu_buffer'[i] <= imu_buffer'[j]
          <6>1. CASE j = I + 1
              BY <1>2, <2>3, <3>1, <5>1, <6>1
          <6>2. CASE j \in 1 .. I
              BY <1>3, <3>1, <4>2, <5>1, <5>2, <6>2
          <6> QED
              BY <1>2, <6>1, <6>2
        <5> QED
            BY <1>2, <1>3, <2>3, <4>2, <5>1, <5>2
      <4> QED
          BY <1>2, <4>1, <4>2
    <3>4. loops.imu = 0 /\ ~proc.imu_need_init => proc.last_imu <= t
        BY <1>2, <1>3, <2>3
    <3> QED
        BY <2>1, <2>2, <2>3, <3>2, <3>3, <3>4 DEF LineInv
  <2>4. CASE loops'.imu = loops.imu + 1 /\ imu_buffer' = <<t>>
    <3>1. loops'.imu # 0
        BY <1>2, <2>4
    <3>2. DOMAIN imu_buffer' = {1} /\ imu_buffer'[1] = t /\ t <= t
        BY <2>4
    <3>3. \A i, j \in {1} : ~(i < j)
        OBVIOUS
    <3> QED
        BY <2>1, <2>2, <3>1, <3>2, <3>3 DEF LineInv
  <2> QED
      BY <1>1, <1>5, <2>3, <2>4, ImuEffect
<1>6. ASSUME NEW P, Waiting(P) PROVE LineInv'
  <2>1. UNCHANGED <<imu_buffer, last_timestamp_imu, proc, feats_undistort, ends, loops>>
      BY <1>6 DEF Waiting, buffers, sensors, mapping, process
  <2>2. Sorted(meas'.lidar.offsets)
      BY <1>1, <1>6, PushedSorted DEF Waiting
  <2> QED
      BY <2>1, <2>2 DEF LineInv
<1>7. ASSUME NEW P, NEW n, NEW m, Taking(P, n, m) PROVE LineInv'
  <2>1. /\ n \in 0 .. I /\ m \in Measures /\ meas' = m
        /\ Len(m.imu) = n /\ \A i \in 1 .. n : m.imu[i] = imu_buffer[i]
        /\ Sorted(m.lidar.offsets)
        /\ ends' = [before |-> ends.last, last |-> m.end]
        /\ m.imu # <<>> => n > 0 /\ Last(m.imu) = m.imu[n] /\ Ascending(proc, m)
      BY <1>1, <1>7, TakingLine
  <2>2. /\ imu_buffer' \in Seq(Int) /\ Len(imu_buffer') = I - n
        /\ \A i \in 1 .. Len(imu_buffer') : imu_buffer'[i] = imu_buffer[n + i]
      BY <1>1, <1>7, <2>1, PoppedEffect DEF Taking
  <2>3. /\ UNCHANGED <<last_timestamp_imu, loops>> /\ ends'.last = m.end /\ m.end \in Int
        /\ m.imu \in Seq(Int)
      BY <1>7, <2>1 DEF Taking, sensors, Measures
  <2>4. loops.lidar = 0 => ends.last < m.end
      BY <1>1, <1>7, <2>1, PushedEnd, TakingEffect DEF Taking
  <2>5. Map(m)
      BY <1>7 DEF Taking
  <2> HIDE DEF I
  <2>6. DOMAIN imu_buffer' = 1 .. I - n
      BY <1>2, <2>1, <2>2
  <2>7. ASSUME NEW i \in 1 .. I - n
        PROVE  /\ n + i \in 1 .. I /\ imu_buffer'[i] = imu_buffer[n + i]
               /\ imu_buffer'[i] <= last_timestamp_imu
               /\ \A j \in 1 .. I - n : i < j => imu_buffer'[i] <= imu_buffer'[j]
    <3>1. n + i \in 1 .. I /\ imu_buffer'[i] = imu_buffer[n + i]
        BY <1>2, <2>1, <2>2
    <3>2. ASSUME NEW j \in 1 .. I - n, i < j PROVE imu_buffer'[i] <= imu_buffer'[j]
      <4>1. n + j \in 1 .. I /\ n + i < n + j /\ imu_buffer'[j] = imu_buffer[n + j]
          BY <1>2, <2>1, <2>2, <3>2
      <4> QED
          BY <1>3, <3>1, <4>1
    <3> QED
        BY <1>3, <3>1, <3>2
  \* A last sample of this group comes before those left and the end of the scan.
  <2>8. ASSUME m.imu # <<>>
        PROVE  /\ Last(m.imu) <= last_timestamp_imu /\ Last(m.imu) <= m.end
               /\ \A i \in 1 .. I - n : Last(m.imu) <= imu_buffer'[i]
    <3>1. n \in 1 .. I /\ n \in 1 .. n /\ Last(m.imu) = imu_buffer[n] /\ imu_buffer[n] \in Int
        BY <1>2, <2>1, <2>8
    <3>2. Last(m.imu) <= m.end
        BY <2>1, <2>8 DEF Ascending
    <3>3. ASSUME NEW i \in 1 .. I - n PROVE Last(m.imu) <= imu_buffer'[i]
      <4>1. n + i \in 1 .. I /\ n < n + i /\ imu_buffer'[i] = imu_buffer[n + i]
          BY <1>2, <2>1, <2>7, <3>1
      <4>2. imu_buffer[n] <= imu_buffer[n + i] /\ imu_buffer[n + i] \in Int
          BY <1>2, <1>3, <3>1, <4>1
      <4> QED
          BY <3>1, <4>1, <4>2
    <3> QED
        BY <1>3, <3>1, <3>2, <3>3
  \* The filter after the turn.
  <2>9. /\ loops.imu = 0 /\ ~proc'.imu_need_init =>
              /\ proc'.last_imu <= last_timestamp_imu
              /\ \A i \in 1 .. I - n : proc'.last_imu <= imu_buffer'[i]
        /\ feats_undistort' # None =>
              /\ proc'.last_imu <= proc'.last_lidar_end_time
              /\ loops.lidar = 0 => proc'.last_lidar_end_time <= m.end
    <3>1. CASE UNCHANGED process
      <4>1. proc' = proc /\ feats_undistort' = feats_undistort
          BY <3>1 DEF process
      <4>2. ASSUME loops.lidar = 0, feats_undistort # None
            PROVE  proc.last_lidar_end_time <= m.end
        <5>1. proc.last_lidar_end_time <= ends.last
            BY <4>2 DEF LineInv
        <5> QED
            BY <1>2, <2>3, <2>4, <4>2, <5>1
      <4>3. feats_undistort # None => proc.last_imu <= proc.last_lidar_end_time
          BY DEF LineInv
      <4> QED
          BY <1>3, <2>7, <4>1, <4>2, <4>3
    <3>2. CASE /\ m.imu # <<>> /\ proc.imu_need_init
               /\ UNCHANGED <<feats_undistort, undistorted>>
               /\ proc'.last_imu = Last(m.imu)
      <4>1. feats_undistort' = None
          BY <1>1, <3>2 DEF RegisteredInv
      <4> QED
          BY <2>8, <3>2, <4>1
    <3>3. CASE /\ m.imu # <<>> /\ proc'.last_imu = Last(m.imu)
               /\ proc'.last_lidar_end_time = m.end
        BY <2>3, <2>8, <3>3
    <3> QED
        BY <1>1, <2>1, <2>5, <3>1, <3>2, <3>3, MapCases
  <2> QED
      BY <2>1, <2>3, <2>6, <2>7, <2>9 DEF LineInv
<1>8. CASE UNCHANGED vars
    BY <1>8 DEF vars, buffers, sensors, sync, mapping, process, LineInv
<1> QED
    BY <1>1, <1>4, <1>5, <1>6, <1>7, <1>8, NextCases

\* And a scan is undistorted from the end of the last one.
LEMMA UndistortedStep ==
    ASSUME IInv, LineInv, UndistortedInv, [Next]_vars
    PROVE  UndistortedInv'
<1>1. /\ TypeOK /\ MeanInv /\ StampsAligned /\ ScanInv /\ ImuInv /\ RegisteredInv
    BY DEF IInv
<1>2. (loops'.imu = 0 => loops.imu = 0) /\ (NoLoopBack' => NoLoopBack)
  <2>1. ASSUME loops'.imu = 0 PROVE loops.imu = 0
    <3>1. ASSUME NEW cloud \in [stamp : Int, offsets : Clouds], standard_pcl_cbk(cloud)
          PROVE  loops'.imu = loops.imu
        BY <1>1, <3>1, LidarEffect
    <3>2. ASSUME NEW t \in Int, imu_cbk(t) PROVE loops'.imu = loops.imu
      <4>1. loops.imu + 1 # 0
          BY <1>1 DEF TypeOK, BuffersOK
      <4> QED
          BY <1>1, <2>1, <3>2, <4>1, ImuEffect
    <3>3. ASSUME NEW P, Waiting(P) \/ \E n, m : Taking(P, n, m) PROVE loops'.imu = loops.imu
      <4>1. loops' = loops
          BY <3>3 DEF Waiting, Taking, sensors
      <4> QED
          BY <4>1
    <3>4. ASSUME UNCHANGED vars PROVE loops'.imu = loops.imu
      <4>1. loops' = loops
          BY <3>4 DEF vars, sensors
      <4> QED
          BY <4>1
    <3>5. loops'.imu = loops.imu
        BY <1>1, <3>1, <3>2, <3>3, <3>4, NextCases
    <3> QED
        BY <2>1, <3>5
  <2> QED
      BY <1>1, <2>1, LoopsGrow
<1>3. ASSUME UNCHANGED process PROVE UndistortedInv'
    BY <1>2, <1>3 DEF process, UndistortedInv
<1>4. ASSUME UNCHANGED <<feats_undistort, undistorted>> PROVE UndistortedInv'
    BY <1>2, <1>4 DEF UndistortedInv
<1>5. ASSUME NEW P, NEW n, NEW m, Taking(P, n, m) PROVE UndistortedInv'
  <2>1. /\ n \in 0 .. Len(imu_buffer) /\ m \in Measures
        /\ Len(m.imu) = n /\ \A i \in 1 .. n : m.imu[i] = imu_buffer[i]
        /\ Sorted(m.lidar.offsets)
        /\ m.imu # <<>> => n > 0 /\ Ascending(proc, m)
      BY <1>1, <1>5, TakingLine
  <2>2. Map(m) /\ loops' = loops
      BY <1>5 DEF Taking, sensors
  <2>3. CASE /\ m.imu # <<>> /\ ~proc.imu_need_init /\ feats_undistort' = m.lidar
             /\ undistorted' = [proc |-> proc, meas |-> m, first |-> feats_undistort = None]
    <3>1. /\ proc \in ImuState /\ imu_buffer \in Seq(Int) /\ Len(imu_buffer) \in Nat
          /\ DOMAIN imu_buffer = 1 .. Len(imu_buffer)
        BY <1>1, LenProperties DEF TypeOK, BuffersOK, MappingOK
    <3>2. 1 \in 1 .. Len(imu_buffer) /\ m.imu[1] = imu_buffer[1]
        BY <2>1, <2>3, <3>1
    <3>3. loops.imu = 0 => proc.last_imu <= m.imu[1]
        BY <2>3, <3>1, <3>2 DEF LineInv
    <3>4. feats_undistort # None => proc.last_imu <= proc.last_lidar_end_time
        BY DEF LineInv
    <3>5. ASSUME NoLoopBack, feats_undistort # None
          PROVE  proc.last_lidar_end_time <= m.imu[1]
      <4>1. proc.last_lidar_end_time <= ends.last /\ ends.last <= imu_buffer[1]
          BY <1>1, <3>1, <3>2, <3>5 DEF LineInv, NoLoopBack, ImuInv
      <4>2. proc.last_lidar_end_time \in Int /\ ends.last \in Int /\ imu_buffer[1] \in Int
          BY <1>1, <3>1, <3>2 DEF ImuState, TypeOK, MappingOK
      <4> QED
          BY <3>2, <4>1, <4>2
    <3>6. PICK u : u = undistorted'
        OBVIOUS
    <3>7. /\ u.proc = proc /\ u.meas = m /\ (u.first <=> feats_undistort = None)
          /\ Ascending(proc, m) /\ m.lidar = feats_undistort'
        BY <2>1, <2>3, <3>6
    <3>8. NoLoopBack' <=> NoLoopBack
        BY <2>2 DEF NoLoopBack
    <3> QED
        BY <2>1, <2>2, <2>3, <3>1, <3>3, <3>4, <3>5, <3>6, <3>7, <3>8 DEF UndistortedInv
  <2> QED
      BY <1>1, <1>3, <1>4, <2>1, <2>2, <2>3, MapCases
<1>6. ASSUME NEW cloud \in [stamp : Int, offsets : Clouds], standard_pcl_cbk(cloud)
      PROVE  UNCHANGED process
    BY <1>1, <1>6, LidarEffect DEF mapping
<1>7. ASSUME NEW t \in Int, imu_cbk(t) PROVE UNCHANGED process
    BY <1>1, <1>7, ImuEffect DEF mapping
<1>8. ASSUME NEW P, Waiting(P) PROVE UNCHANGED process
    BY <1>8 DEF Waiting, mapping
<1>9. CASE UNCHANGED vars
    BY <1>3, <1>9 DEF vars, mapping
<1> QED
    BY <1>1, <1>3, <1>5, <1>6, <1>7, <1>8, <1>9, NextCases

\* The filter's predictions of a scan cover exactly the time from the end of
\* the last scan to that of this one, none goes back in time, and no point but
\* the first is moved twice: for any clouds whose points are sorted by time and
\* any order of the callbacks and the loop's turns.  It rests on the order of
\* the time line: the last sample processed, the end of the last scan, the
\* samples waiting, the last one received.
THEOREM ScansAreUndistortedRight == Spec => []UndistortionRight
<1>1. Init => LineInv /\ UndistortedInv
    BY DEF Init, LineInv, UndistortedInv, Sorted, None
<1>2. IInv /\ LineInv /\ UndistortedInv /\ [Next]_vars => LineInv' /\ UndistortedInv'
    BY LineStep, UndistortedStep
<1>3. IInv /\ UndistortedInv => UndistortionRight
    BY UndistortedRight DEF IInv
<1> QED
    BY <1>1, <1>2, <1>3, Invariant, PTL DEF Spec

-----------------------------------------------------------------------------
(* LocalMap, for every cube, detection range and motion that satisfies     *)
(* LocalMapAssumption and any number of axes.  MapAroundLidar is not       *)
(* inductive: the box has to keep its length, so that a lidar close to one *)
(* face is far from the other.                                             *)

Box == [min : Int, max : Int]

LMTypeOK ==
    /\ Localmap_Initialized \in BOOLEAN
    /\ LocalMap_Points \in [Axes -> Box]
    /\ pos_lid \in [Axes -> Int]
    /\ cub_needrm \subseteq [axis : Axes, slab : Box]

\* The lidar at q sees nothing beyond the box b, which is as long as the cube.
Holds(b, q) == /\ b.max = b.min + Cube
               /\ b.min <= q - Det /\ q + Det <= b.max

BoxInv == Localmap_Initialized =>
    /\ \A a \in Axes : Holds(LocalMap_Points[a], pos_lid[a])
    /\ \A c \in cub_needrm : \/ c.slab.max <= pos_lid[c.axis] - Det
                             \/ pos_lid[c.axis] + Det <= c.slab.min

LEMMA MovDist == /\ mov_dist \in Int
                 /\ mov_dist >= 10 * DetRange
                 /\ 20 * CubeLen - mov_dist >= 50 * DetRange
  BY LocalMapAssumption, SMT DEF LocalMapAssumption, mov_dist, Larger

\* One axis: a box that moves with the lidar at p, still inside it, holds what
\* the lidar sees from p, and what is deleted lies outside that.
LEMMA AxisMoves ==
    ASSUME NEW b \in Box, NEW p \in Int, b.max = b.min + Cube,
           b.min + 10 * DetRange <= p, p + 10 * DetRange <= b.max
    PROVE  /\ Moved(p, b) \in Box /\ Removed(p, b) \in Box
           /\ Holds(Moved(p, b), p)
           /\ AtMin(p, b) \/ AtMax(p, b) =>
                 \/ Removed(p, b).max <= p - Det
                 \/ p + Det <= Removed(p, b).min
<1>1. /\ b.min \in Int /\ b.max \in Int /\ DetRange \in Nat /\ CubeLen \in Nat
      /\ b.max = b.min + 20 * CubeLen
  BY LocalMapAssumption DEF LocalMapAssumption, Box, Cube
<1>2. /\ Distance(p, b.min) = p - b.min
      /\ Distance(p, b.max) = b.max - p
  BY <1>1, SMT DEF Distance
<1>3. CASE AtMin(p, b)
  <2> DEFINE m == [min |-> b.min - mov_dist, max |-> b.max - mov_dist]
             r == [min |-> b.max - mov_dist, max |-> b.max]
  <2>1. p - b.min <= 30 * DetRange
    BY <1>2, <1>3 DEF AtMin, Near
  <2>2. Moved(p, b) = m /\ Removed(p, b) = r
    BY <1>3 DEF Moved, Removed
  <2>3. /\ m \in Box /\ r \in Box
        /\ m.min = b.min - mov_dist /\ m.max = b.max - mov_dist /\ r.min = b.max - mov_dist
    BY <1>1, MovDist, SMT DEF Box
  <2> HIDE DEF m, r
  <2>4. Holds(m, p)
    BY <2>1, <2>3, <1>1, MovDist, SMT DEF Holds, Det, Cube
  <2>5. p + Det <= r.min
    BY <2>1, <2>3, <1>1, MovDist, SMT DEF Det
  <2> QED
    BY <2>2, <2>3, <2>4, <2>5
<1>4. CASE AtMax(p, b)
  <2> DEFINE m == [min |-> b.min + mov_dist, max |-> b.max + mov_dist]
             r == [min |-> b.min, max |-> b.min + mov_dist]
  <2>1. b.max - p <= 30 * DetRange
    BY <1>2, <1>4 DEF AtMax, Near
  <2>2. Moved(p, b) = m /\ Removed(p, b) = r
    BY <1>4 DEF Moved, Removed, AtMax
  <2>3. /\ m \in Box /\ r \in Box
        /\ m.min = b.min + mov_dist /\ m.max = b.max + mov_dist /\ r.max = b.min + mov_dist
    BY <1>1, MovDist, SMT DEF Box
  <2> HIDE DEF m, r
  <2>4. Holds(m, p)
    BY <2>1, <2>3, <1>1, MovDist, SMT DEF Holds, Det, Cube
  <2>5. r.max <= p - Det
    BY <2>1, <2>3, <1>1, MovDist, SMT DEF Det
  <2> QED
    BY <2>2, <2>3, <2>4, <2>5
<1>5. CASE ~AtMin(p, b) /\ ~AtMax(p, b)
  <2>1. p - b.min > 30 * DetRange /\ b.max - p > 30 * DetRange
    BY <1>1, <1>2, <1>5, SMT DEF AtMin, AtMax, Near
  <2>2. Moved(p, b) = b
    BY <1>5 DEF Moved
  <2>3. Removed(p, b) = [min |-> b.min, max |-> b.min + mov_dist]
    BY <1>5 DEF Removed
  <2>4. Removed(p, b) \in Box
    BY <2>3, <1>1, MovDist, SMT DEF Box
  <2>5. Holds(b, p)
    BY <2>1, <1>1, SMT DEF Holds, Det, Cube
  <2> QED
    BY <2>2, <2>4, <2>5, <1>5
<1> QED
  BY <1>3, <1>4, <1>5

LEMMA LMInitInv == LMInit => LMTypeOK /\ BoxInv
<1> SUFFICES ASSUME LMInit PROVE LMTypeOK /\ BoxInv
  OBVIOUS
<1>1. Localmap_Initialized = FALSE /\ cub_needrm = {}
  BY DEF LMInit
<1>2. [min |-> 0, max |-> 0] \in Box
  BY DEF Box
<1>3. LocalMap_Points \in [Axes -> Box]
  BY <1>2 DEF LMInit
<1>4. pos_lid \in [Axes -> Int]
  BY DEF LMInit
<1> QED
  BY <1>1, <1>3, <1>4 DEF LMTypeOK, BoxInv

LEMMA LMNextInv == LMTypeOK /\ BoxInv /\ [LMNext]_lmVars => LMTypeOK' /\ BoxInv'
<1> SUFFICES ASSUME LMTypeOK, BoxInv, [LMNext]_lmVars
             PROVE  LMTypeOK' /\ BoxInv'
  OBVIOUS
<1>1. CASE LMNext
  <2>1. PICK d \in [Axes -> Steps] : Segment([a \in Axes |-> pos_lid[a] + d[a]])
    BY <1>1 DEF LMNext
  <2> DEFINE p == [a \in Axes |-> pos_lid[a] + d[a]]
             b == LocalMap_Points
  <2>2. /\ pos_lid' = p /\ Localmap_Initialized' = TRUE
        /\ \A a \in Axes : p[a] = pos_lid[a] + d[a]
    BY <2>1 DEF Segment
  <2>3. \A a \in Axes : pos_lid[a] \in Int /\ d[a] \in Steps /\ d[a] \in Int
    BY LocalMapAssumption DEF LMTypeOK, LocalMapAssumption
  <2>4. p \in [Axes -> Int]
    BY <2>3, SMT
  <2>5. CASE ~Localmap_Initialized
    <3>1. /\ LocalMap_Points' = [a \in Axes |-> [min |-> p[a] - 10 * CubeLen,
                                                 max |-> p[a] + 10 * CubeLen]]
          /\ cub_needrm' = {}
      BY <2>1, <2>5 DEF Segment
    <3>2. \A a \in Axes : /\ LocalMap_Points'[a] \in Box
                          /\ Holds(LocalMap_Points'[a], p[a])
      <4> TAKE a \in Axes
      <4>1. LocalMap_Points'[a] = [min |-> p[a] - 10 * CubeLen, max |-> p[a] + 10 * CubeLen]
        BY <3>1
      <4>2. p[a] \in Int /\ CubeLen \in Nat /\ DetRange \in Nat /\ 3 * DetRange < CubeLen
        BY <2>4, LocalMapAssumption DEF LocalMapAssumption
      <4> QED
        BY <4>1, <4>2, SMT DEF Holds, Cube, Det, Box
    <3> QED
      BY <2>2, <2>4, <3>1, <3>2 DEF LMTypeOK, BoxInv
  <2>6. CASE Localmap_Initialized
    <3>1. LocalMap_Points' = [a \in Axes |-> Moved(p[a], b[a])]
      BY <2>1, <2>6 DEF Segment
    <3>2. cub_needrm' = {[axis |-> a, slab |-> Removed(p[a], b[a])] :
                           a \in {a \in Axes : AtMin(p[a], b[a]) \/ AtMax(p[a], b[a])}}
      BY <2>1, <2>6 DEF Segment
    <3>3. \A a \in Axes :
             /\ Moved(p[a], b[a]) \in Box /\ Removed(p[a], b[a]) \in Box
             /\ Holds(Moved(p[a], b[a]), p[a])
             /\ AtMin(p[a], b[a]) \/ AtMax(p[a], b[a]) =>
                   \/ Removed(p[a], b[a]).max <= p[a] - Det
                   \/ p[a] + Det <= Removed(p[a], b[a]).min
      <4> TAKE a \in Axes
      <4>1. b[a] \in Box /\ Holds(b[a], pos_lid[a])
        BY <2>6 DEF LMTypeOK, BoxInv
      <4>2. /\ p[a] \in Int /\ p[a] = pos_lid[a] + d[a]
            /\ pos_lid[a] \in Int /\ d[a] \in Int
            /\ -10 * DetRange <= d[a] /\ d[a] <= 10 * DetRange
        BY <2>2, <2>3, <2>4, LocalMapAssumption DEF LocalMapAssumption
      <4> HIDE DEF p, b
      <4>3. /\ b[a].max = b[a].min + Cube
            /\ b[a].min + 10 * DetRange <= p[a] /\ p[a] + 10 * DetRange <= b[a].max
        BY <4>1, <4>2, LocalMapAssumption, SMT DEF Holds, Det, Box, LocalMapAssumption
      <4> QED
        BY <4>1, <4>2, <4>3, AxisMoves
    <3> HIDE DEF p, b
    <3>4. \A c \in cub_needrm' : /\ c \in [axis : Axes, slab : Box]
                                 /\ \/ c.slab.max <= p[c.axis] - Det
                                    \/ p[c.axis] + Det <= c.slab.min
      <4> TAKE c \in cub_needrm'
      <4>1. PICK a \in Axes : /\ AtMin(p[a], b[a]) \/ AtMax(p[a], b[a])
                              /\ c = [axis |-> a, slab |-> Removed(p[a], b[a])]
        BY <3>2
      <4> QED
        BY <4>1, <3>3
    <3>5. \A a \in Axes : LocalMap_Points'[a] = Moved(p[a], b[a])
      BY <3>1
    <3>6. LocalMap_Points' \in [Axes -> Box]
      BY <3>1, <3>3
    <3> QED
      BY <2>2, <2>4, <3>3, <3>4, <3>5, <3>6 DEF LMTypeOK, BoxInv
  <2> QED
    BY <2>5, <2>6
<1>2. CASE UNCHANGED lmVars
  BY <1>2 DEF lmVars, LMTypeOK, BoxInv
<1> QED
  BY <1>1, <1>2

\* Whatever the cube, the range and the motion are (within the assumption),
\* the map always holds all that the lidar may see.
THEOREM RangeIsMapped == LMSpec => []MapAroundLidar
<1>1. LMTypeOK /\ BoxInv => MapAroundLidar
  BY DEF BoxInv, Holds, MapAroundLidar
<1> QED
  BY <1>1, LMInitInv, LMNextInv, PTL DEF LMSpec
=============================================================================
