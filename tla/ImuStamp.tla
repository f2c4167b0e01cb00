------------------------------ MODULE ImuStamp ------------------------------
(***************************************************************************)
(* handleImu() and imuStamp() of astrall_driver_node.cpp: the robot's IMU  *)
(* timestamps, of an unknown unit, become ROS stamps.                      *)
(*                                                                         *)
(* Time counts IMU periods.  The robot's clock may be set, the computer's  *)
(* may be set, samples are lost, repeated and late.                        *)
(***************************************************************************)
EXTENDS Integers

CONSTANTS
    Factor,     \* between two units: 1000 of ms, us and ns in the code
    Limit,      \* of |stamp - now|, one second in the code
    MaxDelay,   \* bound: periods between a sample and its callback
    Gaps,       \* bound: periods between two samples
    Clocks,     \* bound: what a clock may be set to
    MaxTime     \* bound: periods the model runs

\* Units lie a factor apart, and a callback is not later than the second
\* after which stamps are anchored anew.
ASSUME ImuAssumption ==
    /\ Factor \in Nat /\ Factor > 1 /\ Limit \in Nat
    /\ MaxDelay \in Nat /\ MaxDelay <= Limit /\ Gaps \subseteq Nat /\ Clocks \subseteq Int

VARIABLES
    tick,           \* time
    robotClock,     \* the robot's clock is tick + robotClock
    rosClock,       \* ros::Time::now() is tick + rosClock
    unit,           \* robot ticks in a period, 0: it gives no time
    base, last,     \* imu_timestamp_base_, imu_timestamp_last_
    rosBase,        \* imu_ros_time_base_, in 1/Finest periods
    scale,          \* imu_timestamp_scale_, as ticks in a period, or 0
    stamp,          \* history: of the last message, in 1/Finest periods
    steady          \* history: no clock was set since the stamps were anchored

imuVars == <<tick, robotClock, rosClock, unit, base, last, rosBase, scale, stamp, steady>>

Finest == Factor * Factor
Units == {1, Factor, Finest}

ImuInit ==
    /\ tick = 0 /\ robotClock \in Clocks /\ rosClock \in Clocks
    /\ unit \in Units \cup {0}
    /\ base = 0 /\ last = 0 /\ rosBase = 0 /\ scale = 0
    /\ stamp = 0 /\ steady = FALSE

Ratio(x, y) == IF x >= y THEN <<x, y>> ELSE <<y, x>>

\* |log(x)| of one quotient is below that of the other.
Closer(p, q) == p[1] * q[2] < q[1] * p[2]

\* Broken variant of UnitOf: the closest by difference.
UnitByDifference(delta) ==
    LET error(c) == (IF delta > c THEN delta - c ELSE c - delta) * (Finest \div c)
    IN  CHOOSE c \in Units : \A d \in Units \ {c} :
            error(c) < error(d) \/ (error(c) = error(d) /\ c < d)

\* The unit that puts one sample closest to the configured period; of two that
\* are as close, the first of ms, us and ns.
UnitOf(delta) ==
    CHOOSE c \in Units : \A d \in Units \ {c} :
        \/ Closer(Ratio(delta, c), Ratio(delta, d))
        \/ ~Closer(Ratio(delta, d), Ratio(delta, c)) /\ c < d

\* Anchored at this sample, the stamp is the time of the callback.
AnchorAt(raw, now) ==
    base' = raw /\ last' = raw /\ rosBase' = now /\ stamp' = now

\* imuStamp() for the timestamp raw at ROS time now (in 1/Finest periods).
imuStamp(raw, now) ==
    IF raw <= 0 THEN stamp' = now /\ UNCHANGED <<base, last, rosBase, scale>>
    ELSE IF base = 0 \/ raw < last THEN AnchorAt(raw, now) /\ scale' = 0
    ELSE LET found   == IF scale = 0 THEN UnitOf(raw - last) ELSE scale
             elapsed == (raw - base) * (Finest \div found)
             at      == rosBase + elapsed
             off     == at - now
         IN  /\ scale' = found
             /\ IF off > Limit * Finest \/ -off > Limit * Finest
                  THEN AnchorAt(raw, now)
                  ELSE last' = raw /\ stamp' = at /\ UNCHANGED <<base, rosBase>>

\* A sample gap periods after the last one, called back delay periods later;
\* before it one clock may have been set.
handleImu(gap, delay) ==
    /\ tick + gap <= MaxTime
    /\ tick' = tick + gap
    /\ \E c \in Clocks : \/ robotClock' = c /\ UNCHANGED rosClock
                         \/ rosClock' = c /\ UNCHANGED robotClock
    /\ LET raw    == (tick' + robotClock') * unit
           unset  == robotClock' = robotClock /\ rosClock' = rosClock
       IN  /\ unit # 0 => raw > 0
           /\ IF last # 0 /\ raw = last
                THEN /\ UNCHANGED <<base, last, rosBase, scale, stamp>>
                     /\ steady' = (steady /\ unset)
                ELSE /\ imuStamp(raw, (tick' + rosClock' + delay) * Finest)
                     /\ steady' = (base' = raw \/ (steady /\ unset))
    /\ UNCHANGED unit

ImuNext == \E gap \in Gaps, delay \in 0..MaxDelay : handleImu(gap, delay)

-----------------------------------------------------------------------------
(***************************************************************************)
(* Between two samples of clocks that were not set since the stamps were   *)
(* anchored, the stamps differ by exactly the time between the samples,    *)
(* however late the callbacks come: the unit found is the robot's, unless  *)
(* more than sqrt(Factor) periods were lost while it was looked for.       *)
(***************************************************************************)
Calm == steady /\ unit # 0 /\ scale \in {0, unit}
          /\ robotClock' = robotClock /\ rosClock' = rosClock

ImuStampsRight ==
    [][Calm /\ (scale # 0 \/ (tick' - tick) * (tick' - tick) < Factor)
         => /\ stamp' - stamp = (tick' - tick) * Finest
            /\ scale' \in {0, unit}]_imuVars
=============================================================================
