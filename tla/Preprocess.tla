----------------------------- MODULE Preprocess -----------------------------
(***************************************************************************)
(* Preprocess::process (preprocess.cpp): from a cloud message to the points *)
(* FAST-LIO works with.  Every point gets the time since the scan began in *)
(* its curvature, from the message or, if that has none, from how far the  *)
(* lidar has turned since the first point of the same ring.  Angles are    *)
(* parts of a revolution, times the angle turned meanwhile; coordinates are *)
(* left out.  Extracting features from a ring is GiveFeature.              *)
(***************************************************************************)
EXTENDS Integers

CONSTANTS Revolution,        \* an even number of parts
          Rings, N_SCANS,    \* the lidar's rings, and how many are configured
          Starts,            \* the angles a ring may start at
          Steps,             \* how far the lidar turns from point to point
          point_filter_num

VARIABLES
    handler,          \* the handler at work, "none" between clouds
    feature_enabled, given_offset_time,
    start,            \* the angle each ring starts at
    turn, at,         \* history: the angle turned, and at each ring's last point
    began,            \* history: ... and at its first one
    i,                \* the point's index modulo point_filter_num
    is_first, yaw_fp, time_last,
    put               \* the point last put into pl_surf or pl_buff

cloudVars == <<handler, feature_enabled, given_offset_time, start>>
history   == <<turn, at, began>>
ringVars  == <<is_first, yaw_fp, time_last>>
vars == <<cloudVars, history, i, ringVars, put>>

NoPoint == [ring |-> -1, curvature |-> 0, elapsed |-> 0]
Each(v) == [r \in Rings |-> v]

Init ==
    /\ handler = "none" /\ feature_enabled \in BOOLEAN
    /\ given_offset_time = FALSE /\ start = Each(0)
    /\ turn = 0 /\ at = Each(0) /\ began = Each(0) /\ i = 0
    /\ is_first = Each(TRUE) /\ yaw_fp = Each(0) /\ time_last = Each(0)
    /\ put = NoPoint

\* A cloud arrives; its last point tells whether its points carry a time.
process(h) ==
    /\ handler = "none"
    /\ handler' = h
    /\ given_offset_time' \in IF h = "velodyne" THEN BOOLEAN ELSE {TRUE}
    /\ start' \in [Rings -> Starts]
    /\ turn' = 0 /\ at' = Each(0) /\ began' = Each(0) /\ i' = 0
    /\ is_first' = Each(TRUE) /\ yaw_fp' = Each(0) /\ time_last' = Each(0)
    /\ put' = NoPoint
    /\ UNCHANGED feature_enabled

\* atan2: in (-1/2, 1/2] of a revolution; the lidar turns clockwise.
yaw_angle(r, t) ==
    LET a == (start[r] - t) % Revolution
    IN  IF 2 * a > Revolution THEN a - Revolution ELSE a

\* Broken variant of Offset: the second revolution is not told from the first.
OffsetOnce(r, yaw) ==
    IF yaw <= yaw_fp[r] THEN yaw_fp[r] - yaw ELSE yaw_fp[r] - yaw + Revolution

Offset(r, yaw) ==
    LET turned == IF yaw <= yaw_fp[r] THEN yaw_fp[r] - yaw
                  ELSE yaw_fp[r] - yaw + Revolution
    IN  IF turned < time_last[r] THEN turned + Revolution ELSE turned

Put(r, curvature) ==
    put' = [ring |-> r, curvature |-> curvature, elapsed |-> turn' - began[r]]

\* velodyne_handler.  Without features, and without times in the message, the
\* rings index vectors of N_SCANS entries unchecked: they are taken to be
\* configured.  The first point of a ring only sets the ring's angle.
velodyne_handler(r, near) ==
    /\ handler = "velodyne"
    /\ r < N_SCANS \/ feature_enabled \/ given_offset_time
    /\ LET kept == IF feature_enabled THEN r < N_SCANS
                   ELSE i % point_filter_num = 0 /\ ~near
           yaw  == yaw_angle(r, turn')
       IN  IF given_offset_time \/ r >= N_SCANS
           THEN /\ IF kept THEN Put(r, turn') ELSE UNCHANGED put
                /\ UNCHANGED <<ringVars, began>>
           ELSE IF is_first[r]
           THEN /\ is_first' = [is_first EXCEPT ![r] = FALSE]
                /\ yaw_fp' = [yaw_fp EXCEPT ![r] = yaw]
                /\ time_last' = [time_last EXCEPT ![r] = 0]
                /\ began' = [began EXCEPT ![r] = turn']
                /\ UNCHANGED put
           ELSE /\ time_last' = [time_last EXCEPT ![r] = Offset(r, yaw)]
                /\ IF kept THEN Put(r, Offset(r, yaw)) ELSE UNCHANGED put
                /\ UNCHANGED <<is_first, yaw_fp, began>>

\* oust64_handler: times are given; near points are dropped in either case.
oust64_handler(r, near) ==
    /\ handler = "oust64"
    /\ IF ~near /\ (IF feature_enabled THEN r < N_SCANS ELSE i % point_filter_num = 0)
       THEN Put(r, turn') ELSE UNCHANGED put
    /\ UNCHANGED <<ringVars, began>>

\* sim_handler: a snapshot, all points at the time of the message.
sim_handler(r, near) ==
    /\ handler = "sim"
    /\ IF ~near THEN put' = [ring |-> r, curvature |-> 0, elapsed |-> 0] ELSE UNCHANGED put
    /\ UNCHANGED <<ringVars, began>>

\* The next point of the message.  A ring returns a point in every revolution,
\* and a cloud has less than two revolutions.
Point ==
    \E r \in Rings, d \in Steps, near \in BOOLEAN :
        /\ turn + d < 2 * Revolution /\ turn + d - at[r] < Revolution
        /\ turn' = turn + d /\ at' = [at EXCEPT ![r] = turn + d]
        /\ i' = (i + 1) % point_filter_num
        /\ \/ velodyne_handler(r, near) \/ oust64_handler(r, near) \/ sim_handler(r, near)
        /\ UNCHANGED cloudVars

Done == /\ handler # "none" /\ turn > 0
        /\ handler' = "none"
        /\ UNCHANGED <<feature_enabled, given_offset_time, start, history, i, ringVars, put>>

Next == Point \/ Done \/ \E h \in {"velodyne", "oust64", "sim"} : process(h)
Spec == Init /\ [][Next]_vars

-----------------------------------------------------------------------------
\* The time made up from the angles is the time since the ring's first point,
\* wherever the ring starts, across the jump of the angle at half a turn and
\* into the second revolution of a cloud.
OffsetsRight == put # NoPoint => put.curvature = put.elapsed
=============================================================================
