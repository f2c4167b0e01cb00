------------------------ MODULE AstrallDriverProofs -------------------------
(***************************************************************************)
(* What the driver node guarantees whatever the robot, the joystick and    *)
(* the callers of its services do.  One of the theorems needs the SDK to   *)
(* be better than the code requires, and says so in its assumption; the    *)
(* run AstrallDriverLostStop shows what happens without it.                *)
(***************************************************************************)
EXTENDS AstrallDriver, ImuStamp, Cameras, TLAPS, SequenceTheorems

\* A mode command puts the robot into one of its modes.
LEMMA SetModeType ==
    ASSUME TypeOK, NEW cmd \in ModeCmds
    PROVE  Begun(cmd) \in Modes
BY DEF TypeOK, Begun, ModeCmds, Modes

\* Type correctness of one step.
LEMMA TypeStep == TypeOK /\ [Next]_vars => TypeOK'
<1> SUFFICES ASSUME TypeOK, [Next]_vars PROVE TypeOK'
    OBVIOUS
<1> USE SetModeType
        DEF TypeOK, Modes, ModeCmds, Velocities, cmdVars, downVars, robotVars
<1>1. CASE RobotBegin
    BY <1>1 DEF RobotBegin, SetMode
<1>2. CASE RobotFinish
    BY <1>2 DEF RobotFinish
<1>3. CASE JoystickTake
    BY <1>3 DEF JoystickTake
<1>4. ASSUME NEW cmd \in ModeCmds, JoystickMode(cmd) PROVE TypeOK'
    BY <1>4 DEF JoystickMode, SetMode
<1>5. CASE CmdExpires
    <2>1. cmdFresh' \in BOOLEAN
        BY <1>5 DEF CmdExpires
    <2> QED
        BY <1>5, <2>1 DEF CmdExpires
<1>6. CASE FullDownExpires
    <2>1. downFresh' \in BOOLEAN
        BY <1>6 DEF FullDownExpires
    <2> QED
        BY <1>6, <2>1 DEF FullDownExpires
<1>7. ASSUME NEW v \in Velocities, CmdVel(v) PROVE TypeOK'
    BY <1>7 DEF CmdVel
<1>8. ASSUME NEW data \in BOOLEAN, SetSdkAuth(data) PROVE TypeOK'
    BY <1>8 DEF SetSdkAuth, CancelFullDown
<1>9. CASE SetMoveModeOn
    BY <1>9 DEF SetMoveModeOn, CancelFullDown, AstrallSportModeControl, SetMode
<1>10. CASE SetMoveModeOff
    <2>1. full_down_pending' \in BOOLEAN /\ full_down_damping_requested' \in BOOLEAN
        BY <1>10 DEF SetMoveModeOff, CancelFullDown
    <2>2. downFresh' \in BOOLEAN
        BY <1>10 DEF SetMoveModeOff, CancelFullDown
    <2> QED
        BY <1>10, <2>1, <2>2 DEF SetMoveModeOff
<1>11. ASSUME NEW cmd \in {"FIXEDSTAND", "FIXEDDOWN"}, Posture(cmd) PROVE TypeOK'
    <2>1. full_down_pending' \in BOOLEAN /\ full_down_damping_requested' \in BOOLEAN
        BY <1>11 DEF Posture, CancelFullDown
    <2>2. downFresh' \in BOOLEAN
        BY <1>11 DEF Posture, CancelFullDown
    <2> QED
        BY <1>11, <2>1, <2>2 DEF Posture
<1>12. CASE FullDown
    BY <1>12 DEF FullDown
<1>13. CASE StatusTimer
    <2>1. /\ full_down_pending' \in BOOLEAN
          /\ full_down_damping_requested' \in BOOLEAN
        BY <1>13 DEF StatusTimer
    <2>2. pc' \in {"damp", "watchdog"}
        BY <1>13 DEF StatusTimer
    <2>3. UNCHANGED <<robotVars, arg, cmdVars, downFresh>>
        BY <1>13 DEF StatusTimer
    <2> QED
        BY <2>1, <2>2, <2>3
<1>14. CASE CmdMove
    BY <1>14 DEF CmdMove, AstrallMove
<1>15. CASE StopMotion
    BY <1>15 DEF StopMotion, AstrallMove
<1>16. CASE RequestMode
    BY <1>16 DEF RequestMode, AstrallSportModeControl, SetMode
<1>17. CASE FullDownStatus
    BY <1>17 DEF FullDownStatus
<1>18. CASE FullDownMode
    BY <1>18 DEF FullDownMode, AstrallSportModeControl, SetMode, Succeeded
<1>19. CASE FullDownDamp
    BY <1>19 DEF FullDownDamp, AstrallSportModeControl, SetMode, Succeeded
<1>20. CASE Watchdog
    BY <1>20 DEF Watchdog, AstrallMove
<1>21. CASE UNCHANGED vars
    BY <1>21 DEF vars
<1> QED
    BY <1>1, <1>2, <1>3, <1>4, <1>5, <1>6, <1>7, <1>8, <1>9, <1>10, <1>11,
       <1>12, <1>13, <1>14, <1>15, <1>16, <1>17, <1>18, <1>19, <1>20, <1>21
       DEF Next, Robot, Time, Service, Callback

\* Every variable keeps its type.
THEOREM TypeCorrect == Spec => []TypeOK
<1>1. Init => TypeOK
    BY DEF Init, TypeOK, Modes, ModeCmds, Velocities
<1> QED
    BY <1>1, TypeStep, PTL DEF Spec

-----------------------------------------------------------------------------
(* The watchdog.                                                           *)

(***************************************************************************)
(* A velocity is executed in MOVE and under the SDK's authority only.  So  *)
(* the places that disarm the watchdog without stopping the robot, which   *)
(* have just read another status, leave nothing unstopped; and between the *)
(* stop and the mode command of a service nothing starts the robot again.  *)
(***************************************************************************)
MotionInv ==
    /\ velocity # "rest" => mode = "MOVE" /\ authority = "sdk" /\ ~stop_motion
    /\ pc = "cmdMove" => ~stop_motion
    /\ pc = "mode" => velocity = "rest"

LEMMA MotionStep ==
    ASSUME "lost" \notin Outcomes, TypeOK, MotionInv, [Next]_vars
    PROVE  MotionInv'
<1> USE DEF TypeOK, MotionInv, Velocities, cmdVars, downVars, robotVars
<1>1. CASE RobotBegin
    BY <1>1 DEF RobotBegin, SetMode, Begun
<1>2. CASE RobotFinish
    BY <1>2 DEF RobotFinish
<1>3. CASE JoystickTake
    BY <1>3 DEF JoystickTake
<1>4. ASSUME NEW cmd \in ModeCmds, JoystickMode(cmd) PROVE MotionInv'
    BY <1>4 DEF JoystickMode, SetMode
<1>5. CASE CmdExpires \/ FullDownExpires
    BY <1>5 DEF CmdExpires, FullDownExpires
<1>6. ASSUME NEW v \in Velocities, CmdVel(v) PROVE MotionInv'
    BY <1>6 DEF CmdVel
<1>7. ASSUME NEW data \in BOOLEAN, SetSdkAuth(data) PROVE MotionInv'
    BY <1>7 DEF SetSdkAuth, CancelFullDown
<1>8. CASE SetMoveModeOn
    BY <1>8 DEF SetMoveModeOn, CancelFullDown, AstrallSportModeControl,
                SetMode, Begun
<1>9. CASE SetMoveModeOff
    BY <1>9 DEF SetMoveModeOff, CancelFullDown
<1>10. ASSUME NEW cmd \in {"FIXEDSTAND", "FIXEDDOWN"}, Posture(cmd) PROVE MotionInv'
    BY <1>10 DEF Posture, CancelFullDown
<1>11. CASE FullDown
    BY <1>11 DEF FullDown
<1>12. CASE StatusTimer
    BY <1>12 DEF StatusTimer
<1>13. CASE CmdMove
    BY <1>13 DEF CmdMove, AstrallMove
<1>14. CASE StopMotion
    BY <1>14 DEF StopMotion, AstrallMove
<1>15. CASE RequestMode
    BY <1>15 DEF RequestMode, AstrallSportModeControl, SetMode
<1>16. CASE FullDownStatus
    BY <1>16 DEF FullDownStatus
<1>17. CASE FullDownMode
    BY <1>17 DEF FullDownMode, AstrallSportModeControl, SetMode, Begun
<1>18. CASE FullDownDamp
    BY <1>18 DEF FullDownDamp, AstrallSportModeControl, SetMode, Begun
<1>19. CASE Watchdog
    BY <1>19 DEF Watchdog, AstrallMove
<1>20. CASE UNCHANGED vars
    BY <1>20 DEF vars
<1> QED
    BY <1>1, <1>2, <1>3, <1>4, <1>5, <1>6, <1>7, <1>8, <1>9, <1>10, <1>11,
       <1>12, <1>13, <1>14, <1>15, <1>16, <1>17, <1>18, <1>19, <1>20
       DEF Next, Robot, Time, Service, Callback

\* What holds of a robot that moves, and while a call is made for it.
LEMMA MotionInvariant ==
    ASSUME "lost" \notin Outcomes
    PROVE  Spec => []MotionInv
<1>1. Init => TypeOK /\ MotionInv
    BY DEF Init, TypeOK, MotionInv, Modes, ModeCmds, Velocities
<1>2. TypeOK /\ MotionInv /\ [Next]_vars => TypeOK' /\ MotionInv'
    BY TypeStep, MotionStep
<1> QED
    BY <1>1, <1>2, PTL DEF Spec

(***************************************************************************)
(* If AstrallMove is never lost, the watchdog is armed whenever the robot  *)
(* moves: stop_motion_ is false, and checkCmdTimeout looks at the command. *)
(***************************************************************************)
THEOREM MovingIsWatched ==
    ASSUME "lost" \notin Outcomes
    PROVE  Spec => []WatchdogArmed
<1>1. MotionInv => WatchdogArmed
    BY DEF MotionInv, WatchdogArmed
<1> QED
    BY <1>1, MotionInvariant, PTL

(***************************************************************************)
(* Nor does down() then request FIXEDDOWN of a robot that moves: the stop  *)
(* it sends first has been taken.                                          *)
(***************************************************************************)
THEOREM DownIsAtRest ==
    ASSUME "lost" \notin Outcomes
    PROVE  Spec => []DownOnlyAtRest
<1>1. MotionInv => DownOnlyAtRest
    BY DEF MotionInv, DownOnlyAtRest
<1> QED
    BY <1>1, MotionInvariant, PTL

-----------------------------------------------------------------------------
(* The full-down sequence.                                                 *)

\* Only handleCmdVel starts motion, and not while the sequence is pending.
QuietInv == pc = "cmdMove" => ~full_down_pending

LEMMA QuietStep == TypeOK /\ QuietInv /\ [Next]_vars => QuietInv'
<1> SUFFICES ASSUME TypeOK, QuietInv, [Next]_vars PROVE QuietInv'
    OBVIOUS
<1> USE DEF TypeOK, QuietInv, Velocities, cmdVars, downVars, robotVars
<1>1. CASE Robot \/ Time \/ UNCHANGED vars
    BY <1>1 DEF Robot, Time, RobotBegin, RobotFinish, JoystickTake, JoystickMode,
                CmdExpires, FullDownExpires, vars
<1>2. ASSUME NEW v \in Velocities, CmdVel(v) PROVE QuietInv'
    BY <1>2 DEF CmdVel
<1>3. CASE Service
    BY <1>3 DEF Service, SetSdkAuth, SetMoveModeOn, SetMoveModeOff, Posture,
                FullDown, CancelFullDown
<1>4. CASE StatusTimer
    BY <1>4 DEF StatusTimer
<1>5. CASE Callback
    BY <1>5 DEF Callback, CmdMove, StopMotion, RequestMode, FullDownStatus,
                FullDownMode, FullDownDamp, Watchdog
<1> QED
    BY <1>1, <1>2, <1>3, <1>4, <1>5 DEF Next

\* What one step may do to the velocity while the sequence is pending.
LEMMA StillStep ==
    ASSUME TypeOK, QuietInv, [Next]_vars, full_down_pending
    PROVE  velocity' \in {velocity, "rest"}
<1> USE DEF TypeOK, QuietInv, Velocities, cmdVars, downVars, robotVars
<1>1. CASE Robot \/ Time \/ UNCHANGED vars
    BY <1>1 DEF Robot, Time, RobotBegin, RobotFinish, JoystickTake, JoystickMode,
                SetMode, CmdExpires, FullDownExpires, vars
<1>2. ASSUME NEW v \in Velocities, CmdVel(v) PROVE velocity' \in {velocity, "rest"}
    BY <1>2 DEF CmdVel
<1>3. CASE Service
    BY <1>3 DEF Service, SetSdkAuth, SetMoveModeOn, SetMoveModeOff, Posture,
                FullDown, AstrallSportModeControl, SetMode
<1>4. CASE StatusTimer
    BY <1>4 DEF StatusTimer
<1>5. CASE CmdMove \/ StopMotion \/ Watchdog
    BY <1>5 DEF CmdMove, StopMotion, Watchdog, AstrallMove
<1>6. CASE RequestMode \/ FullDownStatus \/ FullDownMode \/ FullDownDamp
    BY <1>6 DEF RequestMode, FullDownStatus, FullDownMode, FullDownDamp,
                AstrallSportModeControl, SetMode
<1> QED
    BY <1>1, <1>2, <1>3, <1>4, <1>5, <1>6 DEF Next, Callback

(***************************************************************************)
(* While the full-down sequence is pending no step sets the robot in       *)
(* motion, without any assumption on the SDK.                              *)
(***************************************************************************)
THEOREM FullDownIsStill == Spec => StillDuringFullDown
<1>1. Init => TypeOK /\ QuietInv
    BY DEF Init, TypeOK, QuietInv, Modes, ModeCmds, Velocities
<1>2. TypeOK /\ QuietInv /\ [Next]_vars => TypeOK' /\ QuietInv'
    BY TypeStep, QuietStep
<1>3. TypeOK /\ QuietInv /\ [Next]_vars
        => [full_down_pending => velocity' \in {velocity, "rest"}]_vars
    BY StillStep
<1> QED
    BY <1>1, <1>2, <1>3, PTL DEF Spec, StillDuringFullDown

(***************************************************************************)
(* With immediate mode changes, a robot the SDK controls still lies down   *)
(* when the DAMPING that was decided on that status is sent.               *)
(***************************************************************************)
DampInv ==
    immediate => /\ target = "none"
                 /\ pc = "damp" /\ authority = "sdk" => mode = "FIXEDDOWN"

LEMMA DampStep ==
    ASSUME TypeOK, DampInv, [Next]_vars
    PROVE  DampInv'
<1> USE DEF TypeOK, DampInv, cmdVars, downVars, robotVars
<1>1. CASE Robot \/ Time \/ UNCHANGED vars
    BY <1>1 DEF Robot, Time, RobotBegin, RobotFinish, JoystickTake, JoystickMode,
                CmdExpires, FullDownExpires, vars
<1>2. ASSUME NEW v \in Velocities, CmdVel(v) PROVE DampInv'
    BY <1>2 DEF CmdVel
<1>3. CASE Service
    BY <1>3 DEF Service, SetSdkAuth, SetMoveModeOn, SetMoveModeOff, Posture,
                FullDown, AstrallSportModeControl
<1>4. CASE StatusTimer
    BY <1>4 DEF StatusTimer
<1>5. CASE Callback
    BY <1>5 DEF Callback, CmdMove, StopMotion, RequestMode, FullDownStatus,
                FullDownMode, FullDownDamp, Watchdog, AstrallMove,
                AstrallSportModeControl
<1> QED
    BY <1>1, <1>2, <1>3, <1>4, <1>5 DEF Next

\* Only FullDownDamp sends a DAMPING in the name of the sequence.
LEMMA DampsLyingStep ==
    ASSUME TypeOK, DampInv, [Next]_vars,
           immediate, mode' = "DAMPING", origin' = "fullDown", mode' # mode
    PROVE  mode = "FIXEDDOWN"
<1> USE DEF TypeOK, DampInv, cmdVars, downVars, robotVars
<1>1. CASE Robot \/ Time \/ UNCHANGED vars
    BY <1>1 DEF Robot, Time, RobotBegin, RobotFinish, JoystickTake, JoystickMode,
                CmdExpires, FullDownExpires, vars
<1>2. ASSUME NEW v \in Velocities, CmdVel(v) PROVE mode = "FIXEDDOWN"
    BY <1>2 DEF CmdVel
<1>3. CASE Service
    BY <1>3 DEF Service, SetSdkAuth, SetMoveModeOn, SetMoveModeOff, Posture,
                FullDown, AstrallSportModeControl
<1>4. CASE StatusTimer
    BY <1>4 DEF StatusTimer
<1>5. CASE FullDownDamp
    BY <1>5 DEF FullDownDamp, AstrallSportModeControl
<1>6. CASE FullDownMode
    BY <1>6 DEF FullDownMode, AstrallSportModeControl, SetMode, Begun
<1>7. CASE CmdMove \/ StopMotion \/ RequestMode \/ FullDownStatus \/ Watchdog
    BY <1>7 DEF CmdMove, StopMotion, RequestMode, FullDownStatus, Watchdog,
                AstrallMove, AstrallSportModeControl
<1> QED
    BY <1>1, <1>2, <1>3, <1>4, <1>5, <1>6, <1>7 DEF Next, Callback

(***************************************************************************)
(* If mode commands show in the status at once, a full-down sequence never *)
(* takes the support from a robot that stands or walks: not when a call    *)
(* fails, not when the joystick comes in between.                          *)
(***************************************************************************)
THEOREM FullDownDampsLyingDown == Spec => DampsOnlyLyingDown
<1>1. Init => TypeOK /\ DampInv
    BY DEF Init, TypeOK, DampInv, Modes, ModeCmds, Velocities
<1>2. TypeOK /\ DampInv /\ [Next]_vars => TypeOK' /\ DampInv'
    BY TypeStep, DampStep
<1>3. TypeOK /\ DampInv /\ [Next]_vars
        => [immediate /\ mode' = "DAMPING" /\ origin' = "fullDown"
               => mode \in {"FIXEDDOWN", "DAMPING"}]_mode
    BY DampsLyingStep
<1> QED
    BY <1>1, <1>2, <1>3, PTL DEF Spec, DampsOnlyLyingDown

-----------------------------------------------------------------------------
(* The stamps of the IMU (ImuStamp).                                       *)

ImuSpec == ImuInit /\ [][ImuNext]_imuVars

\* The last timestamp is of the present period, and the stamp the time of that
\* period, late by a delay: that of the sample the stamps are anchored at.
Anchored ==
    /\ last = (tick + robotClock) * unit /\ last > 0
    /\ stamp = rosBase + (last - base) * (Finest \div unit)
    /\ scale = 0 => base = last
    /\ \E d \in 0 .. MaxDelay : stamp = (tick + rosClock + d) * Finest

ImuInv ==
    /\ tick \in Nat /\ robotClock \in Int /\ rosClock \in Int /\ unit \in Units \cup {0}
    /\ base \in Nat /\ last \in Nat /\ base <= last /\ (base = 0 => last = 0)
    /\ steady \in BOOLEAN
    /\ unit = 0 => base = 0
    /\ base # 0 => rosBase \in Int
    /\ steady /\ unit # 0 /\ scale \in {0, unit} => base # 0 /\ Anchored

\* Every unit divides the finest.
LEMMA UnitsDivide ==
    ASSUME NEW u \in Units
    PROVE  u \in Nat \ {0} /\ Finest \in Nat \ {0} /\ Finest \div u \in Nat
           /\ u * (Finest \div u) = Finest
<1>1. Factor \in Nat \ {0} /\ Finest = Factor * Factor
    BY ImuAssumption DEF Finest
<1>2. Finest \in Nat \ {0}
    BY <1>1
<1>3. u = 1 \/ u = Factor \/ u = Finest
    BY DEF Units
<1>4. ASSUME NEW n \in Nat \ {0}, NEW m \in Nat \ {0} PROVE (n * m) \div m = n
    BY <1>4
<1>5. CASE u = 1
    BY <1>2, <1>5
<1>6. CASE u = Factor
    BY <1>1, <1>2, <1>4, <1>6
<1>7. CASE u = Finest
  <2>1. (1 * Finest) \div Finest = 1
      BY <1>2, <1>4
  <2> QED
      BY <1>2, <1>7, <2>1
<1> QED
    BY <1>3, <1>5, <1>6, <1>7

\* Quotients and their order, by products.
LEMMA RatioRight ==
    ASSUME NEW x \in Nat \ {0}, NEW y \in Nat \ {0}
    PROVE  /\ Ratio(x, y)[1] \in Nat \ {0} /\ Ratio(x, y)[2] \in Nat \ {0}
           /\ x >= y => Ratio(x, y) = <<x, y>>
           /\ x < y => Ratio(x, y) = <<y, x>>
BY DEF Ratio

LEMMA Cancel ==
    ASSUME NEW x \in Nat, NEW y \in Nat, NEW z \in Nat \ {0}
    PROVE  /\ x < y <=> x * z < y * z
           /\ x <= y <=> x * z <= y * z
OBVIOUS

\* Being closer is a strict order, and being as close is transitive.
LEMMA CloserOrder ==
    ASSUME NEW p \in (Nat \ {0}) \X (Nat \ {0}), NEW q \in (Nat \ {0}) \X (Nat \ {0}),
           NEW r \in (Nat \ {0}) \X (Nat \ {0})
    PROVE  /\ ~(Closer(p, q) /\ Closer(q, p))
           /\ Closer(p, q) /\ ~Closer(r, q) => Closer(p, r)
           /\ ~Closer(q, p) /\ Closer(q, r) => Closer(p, r)
           /\ ~Closer(q, p) /\ ~Closer(r, q) => ~Closer(r, p)
<1>1. PICK a, b, c, d, e, f \in Nat \ {0} :
        p[1] = a /\ p[2] = b /\ q[1] = c /\ q[2] = d /\ r[1] = e /\ r[2] = f
    OBVIOUS
<1>2. PICK ad, cb, cf, ed, af, eb \in Nat :
        ad = a * d /\ cb = c * b /\ cf = c * f /\ ed = e * d /\ af = a * f /\ eb = e * b
    OBVIOUS
<1>3. /\ Closer(p, q) <=> ad < cb
      /\ Closer(q, p) <=> cb < ad
      /\ Closer(q, r) <=> cf < ed
      /\ Closer(r, q) <=> ed < cf
      /\ Closer(p, r) <=> af < eb
      /\ Closer(r, p) <=> eb < af
    BY <1>1, <1>2 DEF Closer
<1>4. PICK X, Y, Z \in Nat : X = ad * f /\ Y = cb * f /\ Z = ed * b
    OBVIOUS
<1>5. X = af * d /\ Y = cf * b /\ Z = eb * d
    BY <1>2, <1>4
<1>6. /\ ad < cb <=> X < Y
      /\ cb < ad <=> Y < X
      /\ cf < ed <=> Y < Z
      /\ ed < cf <=> Z < Y
      /\ af < eb <=> X < Z
      /\ eb < af <=> Z < X
    BY <1>4, <1>5, Cancel
<1> QED
    BY <1>3, <1>6

\* Of the units, one puts a sample closest to the configured period.
LEMMA UnitFound ==
    ASSUME NEW delta \in Nat \ {0}
    PROVE  UnitOf(delta) \in Units
<1> DEFINE R(c) == Ratio(delta, c)
           Best(c, d) == Closer(R(c), R(d)) \/ (~Closer(R(d), R(c)) /\ c < d)
<1>1. \A c \in Units : c \in Nat \ {0} /\ R(c) \in (Nat \ {0}) \X (Nat \ {0})
  <2> TAKE c \in Units
  <2>1. c \in Nat \ {0}
      BY UnitsDivide
  <2> QED
      BY <2>1 DEF Ratio
<1>2. \A c, d \in Units : c # d => Best(c, d) \/ Best(d, c)
  <2> SUFFICES ASSUME NEW c \in Units, NEW d \in Units, c # d PROVE Best(c, d) \/ Best(d, c)
      OBVIOUS
  <2>1. c \in Nat /\ d \in Nat
      BY <1>1
  <2>2. c < d \/ d < c
      BY <2>1
  <2> QED
      BY <2>2
<1>3. \A c, d, e \in Units : Best(c, d) /\ Best(d, e) => Best(c, e)
  <2> SUFFICES ASSUME NEW c \in Units, NEW d \in Units, NEW e \in Units,
                      Best(c, d), Best(d, e)
               PROVE  Best(c, e)
      OBVIOUS
  <2>1. c \in Nat /\ d \in Nat /\ e \in Nat
      BY <1>1
  <2>2. PICK p, q, r \in (Nat \ {0}) \X (Nat \ {0}) : p = R(c) /\ q = R(d) /\ r = R(e)
      BY <1>1
  <2>3. /\ ~(Closer(p, q) /\ Closer(q, p))
        /\ Closer(p, q) /\ ~Closer(r, q) => Closer(p, r)
        /\ ~Closer(q, p) /\ Closer(q, r) => Closer(p, r)
        /\ ~Closer(q, p) /\ ~Closer(r, q) => ~Closer(r, p)
      BY CloserOrder
  <2>4. ~(Closer(q, r) /\ Closer(r, q))
      BY CloserOrder
  <2>5. c < d /\ d < e => c < e
      BY <2>1
  <2>6. /\ Closer(p, q) \/ (~Closer(q, p) /\ c < d)
        /\ Closer(q, r) \/ (~Closer(r, q) /\ d < e)
      BY <2>2
  <2>7. Closer(p, r) \/ (~Closer(r, p) /\ c < e)
      BY <2>3, <2>4, <2>5, <2>6
  <2> QED
      BY <2>2, <2>7
<1>4. \E c \in Units : \A d \in Units \ {c} : Best(c, d)
  <2> HIDE DEF Best
  <2>1. Units = {1, Factor, Finest}
      BY DEF Units
  <2> QED
      BY <1>2, <1>3, <2>1
<1>5. UnitOf(delta) = CHOOSE c \in Units : \A d \in Units \ {c} : Best(c, d)
    BY DEF UnitOf
<1> QED
  <2> HIDE DEF Best
  <2> QED
      BY <1>4, <1>5

\* A sample at most sqrt(Factor) periods after the last one is closest in the
\* robot's unit: another one is a factor away.
LEMMA UnitApart ==
    ASSUME NEW u \in Nat \ {0}, NEW d \in Nat \ {0}, NEW m \in Nat,
           m >= Factor, d = u * m \/ u = d * m,
           NEW g \in Nat \ {0}, g * g < Factor
    PROVE  /\ Closer(Ratio(g * u, u), Ratio(g * u, d))
           /\ ~Closer(Ratio(g * u, d), Ratio(g * u, u))
<1>1. PICK w \in Nat \ {0} : w = g * u
    OBVIOUS
<1>2. g <= g * g /\ g < m /\ g * g < m /\ m > 1
    BY ImuAssumption
<1>3. w >= u /\ Ratio(w, u) = <<w, u>>
    BY <1>1, RatioRight
<1>4. Closer(Ratio(w, u), Ratio(w, d))
  <2>1. CASE d = u * m
    <3>1. w < d
        BY <1>1, <1>2, <2>1
    <3>2. Ratio(w, d) = <<d, w>>
        BY <3>1, RatioRight
    <3>3. w * w < d * u
      <4>1. PICK s \in Nat \ {0} : s = u * u
          OBVIOUS
      <4>2. w * w = (g * g) * s /\ d * u = m * s
          BY <1>1, <2>1, <4>1
      <4>3. g * g \in Nat
          OBVIOUS
      <4> QED
          BY <1>2, <4>1, <4>2, <4>3, Cancel
    <3> QED
        BY <1>3, <3>2, <3>3 DEF Closer
  <2>2. CASE u = d * m
    <3>1. d < u
        BY <1>2, <2>2
    <3>2. Ratio(w, d) = <<w, d>>
        BY <1>1, <1>3, <3>1, RatioRight
    <3>3. w * d < w * u
        BY <3>1
    <3> QED
        BY <1>3, <3>2, <3>3 DEF Closer
  <2> QED
      BY <2>1, <2>2
<1>5. Ratio(w, u) \in (Nat \ {0}) \X (Nat \ {0}) /\ Ratio(w, d) \in (Nat \ {0}) \X (Nat \ {0})
    BY DEF Ratio
<1>6. ~(Closer(Ratio(w, u), Ratio(w, d)) /\ Closer(Ratio(w, d), Ratio(w, u)))
    BY <1>5, CloserOrder
<1> QED
    BY <1>1, <1>4, <1>6

LEMMA UnitRight ==
    ASSUME NEW u \in Units, NEW g \in Nat \ {0}, g * g < Factor
    PROVE  UnitOf(g * u) = u
<1>1. PICK delta : delta = g * u
    OBVIOUS
<1>2. u \in Nat \ {0} /\ Factor \in Nat /\ Factor > 1 /\ Units = {1, Factor, Factor * Factor}
    BY UnitsDivide, ImuAssumption DEF Units, Finest
<1>3. ASSUME NEW d \in Units, d # u
      PROVE  Closer(Ratio(delta, u), Ratio(delta, d)) /\ ~Closer(Ratio(delta, d), Ratio(delta, u))
  <2>1. d \in Nat \ {0}
      BY UnitsDivide
  <2>2. \E m \in Nat : m >= Factor /\ (d = u * m \/ u = d * m)
    <3>1. PICK f \in Nat : f = Factor * Factor
        BY <1>2
    <3>2. f >= Factor /\ f = 1 * f /\ Factor = 1 * Factor /\ f = Factor * Factor
        BY <1>2, <3>1
    <3>3. u \in {1, Factor, f} /\ d \in {1, Factor, f}
        BY <1>2, <3>1
    <3> QED
        BY <1>2, <1>3, <3>2, <3>3
  <2> QED
      BY <1>1, <1>2, <2>1, <2>2, UnitApart
<1>4. UnitOf(delta) = CHOOSE c \in Units : \A d \in Units \ {c} :
        \/ Closer(Ratio(delta, c), Ratio(delta, d))
        \/ ~Closer(Ratio(delta, d), Ratio(delta, c)) /\ c < d
    BY DEF UnitOf
<1>5. \A d \in Units \ {u} :
        \/ Closer(Ratio(delta, u), Ratio(delta, d))
        \/ ~Closer(Ratio(delta, d), Ratio(delta, u)) /\ u < d
    BY <1>3
<1>6. ASSUME NEW c \in Units, \A d \in Units \ {c} :
                \/ Closer(Ratio(delta, c), Ratio(delta, d))
                \/ ~Closer(Ratio(delta, d), Ratio(delta, c)) /\ c < d
      PROVE  c = u
    BY <1>3, <1>6
<1>7. UnitOf(delta) = u
    BY <1>4, <1>5, <1>6
<1> QED
    BY <1>1, <1>7

\* A sample of clocks that are not set, when the stamps are anchored: the
\* same timestamp again, or one a gap later, and then the stamp is a gap later.
LEMMA CalmSample ==
    ASSUME ImuInv, base # 0, Anchored, unit # 0, scale \in {0, unit},
           NEW gap \in Gaps, NEW delay \in 0 .. MaxDelay, handleImu(gap, delay),
           robotClock' = robotClock, rosClock' = rosClock
    PROVE  /\ unit' = unit /\ tick' = tick + gap
           /\ \/ /\ gap = 0
                 /\ UNCHANGED <<base, last, rosBase, scale, stamp>> /\ steady' = steady
              \/ /\ gap > 0 /\ scale' = (IF scale = 0 THEN UnitOf(gap * unit) ELSE unit)
                 /\ scale' = unit =>
                      /\ stamp' = stamp + gap * Finest
                      /\ base' = base /\ rosBase' = rosBase
                      /\ last' = (tick' + robotClock') * unit
                      /\ stamp' = rosBase + (last' - base) * (Finest \div unit)
<1>1. PICK raw, now, diff : /\ raw = (tick + gap + robotClock) * unit
                            /\ now = (tick' + rosClock + delay) * Finest
                            /\ diff = gap * unit
    OBVIOUS
<1>2. /\ tick \in Nat /\ gap \in Nat /\ delay \in Nat /\ delay <= MaxDelay
      /\ robotClock \in Int /\ rosClock \in Int /\ unit \in Units /\ unit \in Nat \ {0}
      /\ base \in Nat \ {0} /\ last \in Nat \ {0} /\ base <= last /\ rosBase \in Int
      /\ Limit \in Nat /\ MaxDelay \in Nat /\ MaxDelay <= Limit
      /\ tick' = tick + gap /\ unit' = unit
    BY UnitsDivide, ImuAssumption DEF ImuInv, handleImu, Anchored
<1>3. Finest \in Nat \ {0} /\ Finest \div unit \in Nat /\ unit * (Finest \div unit) = Finest
    BY <1>2, UnitsDivide
<1>4. raw = last + diff /\ diff \in Nat /\ (diff = 0 <=> gap = 0) /\ raw \in Nat \ {0}
  <2>1. diff \in Nat /\ (diff = 0 <=> gap = 0)
      BY <1>1, <1>2
  <2>2. PICK x \in Int : x = tick + robotClock
      BY <1>2
  <2>3. raw = (x + gap) * unit /\ last = x * unit
      BY <1>1, <1>2, <2>2 DEF Anchored
  <2>4. (x + gap) * unit = x * unit + gap * unit
      BY <1>2
  <2> QED
      BY <1>1, <1>2, <2>1, <2>3, <2>4
<1>5. /\ raw = last =>
           UNCHANGED <<base, last, rosBase, scale, stamp>> /\ steady' = steady
      /\ raw # last => imuStamp(raw, now)
  <2>1. raw = (tick' + robotClock') * unit /\ now = (tick' + rosClock' + delay) * Finest
      BY <1>1, <1>2
  <2>2. raw = last => UNCHANGED <<base, last, rosBase, scale, stamp>>
                      /\ steady' = (steady /\ robotClock' = robotClock /\ rosClock' = rosClock)
      BY <1>2, <2>1 DEF handleImu
  <2>3. steady \in BOOLEAN
      BY DEF ImuInv
  <2>4. raw # last => imuStamp(raw, now)
      BY <1>2, <2>1 DEF handleImu
  <2> QED
      BY <2>2, <2>3, <2>4
<1>6. CASE gap = 0
  <2>1. raw = last
      BY <1>2, <1>4, <1>6
  <2> QED
      BY <1>2, <1>5, <1>6, <2>1
<1>7. CASE gap # 0
  <2>1. gap > 0 /\ raw > last /\ raw - last = gap * unit
      BY <1>1, <1>2, <1>4, <1>7
  <2>2. imuStamp(raw, now) /\ ~(raw <= 0) /\ ~(base = 0 \/ raw < last)
      BY <1>2, <1>4, <1>5, <2>1
  <2>3. PICK found, at : /\ found = IF scale = 0 THEN UnitOf(raw - last) ELSE scale
                         /\ at = rosBase + (raw - base) * (Finest \div found)
      OBVIOUS
  <2>4. /\ scale' = found
        /\ IF at - now > Limit * Finest \/ -(at - now) > Limit * Finest
             THEN AnchorAt(raw, now)
             ELSE last' = raw /\ stamp' = at /\ UNCHANGED <<base, rosBase>>
      BY <2>2, <2>3 DEF imuStamp
  <2>5. found = IF scale = 0 THEN UnitOf(gap * unit) ELSE unit
      BY <2>1, <2>3
  <2>6. ASSUME found = unit
        PROVE  /\ at = stamp + gap * Finest /\ at = rosBase + (raw - base) * (Finest \div unit)
               /\ ~(at - now > Limit * Finest) /\ ~(-(at - now) > Limit * Finest)
    <3>1. PICK q, A, B, G \in Int :
             /\ q = Finest \div unit /\ A = (last - base) * q /\ B = diff * q
             /\ G = gap * Finest
        BY <1>2, <1>3, <1>4
    <3>2. B = G
      <4>1. diff * q = gap * (unit * q)
          BY <1>1, <1>2, <3>1
      <4> QED
          BY <1>3, <3>1, <4>1
    <3>3. (raw - base) * q = A + B
      <4>1. raw - base = (last - base) + diff
          BY <1>2, <1>4
      <4>2. ((last - base) + diff) * q = (last - base) * q + diff * q
          BY <1>2, <1>4, <3>1
      <4> QED
          BY <3>1, <4>1, <4>2
    <3>4. stamp = rosBase + A
        BY <3>1 DEF Anchored
    <3>5. at = stamp + G
        BY <1>2, <2>3, <2>6, <3>1, <3>2, <3>3, <3>4
    <3>6. PICK d \in 0 .. MaxDelay : stamp = (tick + rosClock + d) * Finest
        BY DEF Anchored
    <3>7. at - now = (d - delay) * Finest
      <4>1. PICK x \in Int : x = tick + rosClock
          BY <1>2
      <4>2. now = (x + gap + delay) * Finest /\ stamp = (x + d) * Finest
          BY <1>1, <1>2, <3>6, <4>1
      <4>3. (x + d) * Finest + gap * Finest - (x + gap + delay) * Finest = (d - delay) * Finest
          BY <1>2, <1>3
      <4> QED
          BY <3>1, <3>5, <4>2, <4>3
    <3>8. d - delay <= Limit /\ delay - d <= Limit /\ d - delay \in Int
        BY <1>2
    <3>9. (d - delay) * Finest <= Limit * Finest /\ -((d - delay) * Finest) <= Limit * Finest
      <4>1. ASSUME NEW a \in Int, NEW b \in Int, a <= b PROVE a * Finest <= b * Finest
          BY <1>3, <4>1
      <4>2. -((d - delay) * Finest) = (delay - d) * Finest
          BY <1>2, <1>3
      <4> QED
          BY <1>2, <3>8, <4>1, <4>2
    <3>10. Limit * Finest \in Int /\ (d - delay) * Finest \in Int
        BY <1>2, <1>3
    <3> QED
        BY <2>3, <2>6, <3>1, <3>5, <3>7, <3>9, <3>10
  <2> QED
      BY <1>1, <1>2, <2>1, <2>4, <2>5, <2>6
<1> QED
    BY <1>6, <1>7

\* Every sample keeps the invariant.
LEMMA ImuStep ==
    ASSUME ImuInv, NEW gap \in Gaps, NEW delay \in 0 .. MaxDelay,
           handleImu(gap, delay)
    PROVE  ImuInv'
<1>1. PICK raw, now : /\ raw = (tick' + robotClock') * unit
                      /\ now = (tick' + rosClock' + delay) * Finest
    OBVIOUS
<1>2. /\ tick' = tick + gap /\ unit' = unit
      /\ robotClock' \in Clocks \/ robotClock' = robotClock
      /\ rosClock' \in Clocks \/ rosClock' = rosClock
      /\ unit # 0 => raw > 0
      /\ \/ /\ last # 0 /\ raw = last
            /\ UNCHANGED <<base, last, rosBase, scale, stamp>>
            /\ steady' = (steady /\ robotClock' = robotClock /\ rosClock' = rosClock)
         \/ /\ ~(last # 0 /\ raw = last)
            /\ imuStamp(raw, now)
            /\ steady' = (base' = raw \/ (steady /\ robotClock' = robotClock
                                                 /\ rosClock' = rosClock))
    BY <1>1 DEF handleImu
<1>3. /\ tick' \in Nat /\ robotClock' \in Int /\ rosClock' \in Int
      /\ unit' \in Units \cup {0} /\ unit' \in Nat /\ delay \in Nat
      /\ base \in Nat /\ last \in Nat /\ base <= last /\ (base = 0 => last = 0)
      /\ (unit = 0 => base = 0) /\ (base # 0 => rosBase \in Int)
      /\ Finest \in Nat \ {0} /\ steady' \in BOOLEAN
  <2>1. Finest \in Nat \ {0} /\ unit \in Nat
      BY UnitsDivide DEF ImuInv, Units
  <2>2. steady' \in BOOLEAN
      BY <1>2 DEF ImuInv
  <2>3. tick' \in Nat /\ delay \in Nat
      BY <1>2, ImuAssumption DEF ImuInv
  <2>4. robotClock' \in Int /\ rosClock' \in Int
      BY <1>2, ImuAssumption DEF ImuInv
  <2>5. /\ base \in Nat /\ last \in Nat /\ base <= last /\ (base = 0 => last = 0)
        /\ (unit = 0 => base = 0) /\ (base # 0 => rosBase \in Int)
      BY DEF ImuInv
  <2>6. unit' \in Units \cup {0} /\ unit' \in Nat
      BY <1>2, <2>1 DEF ImuInv
  <2> QED
      BY <2>1, <2>2, <2>3, <2>4, <2>5, <2>6
<1>4. raw \in Int /\ now \in Int /\ (unit = 0 => raw = 0) /\ (unit # 0 => raw \in Nat)
    BY <1>1, <1>2, <1>3
<1>5. ASSUME AnchorAt(raw, now), unit # 0
      PROVE  base' # 0 /\ (scale' \in {0, unit} => Anchored')
  <2>1. base' = raw /\ last' = raw /\ rosBase' = now /\ stamp' = now /\ raw > 0 /\ unit' = unit
      BY <1>2, <1>5 DEF AnchorAt
  <2>2. Finest \div unit \in Nat /\ (raw - raw) * (Finest \div unit) = 0 /\ now + 0 = now
      BY <1>3, <1>4, <1>5, <1>2, UnitsDivide
  <2>3. (Finest \div unit)' = Finest \div unit
      BY <2>1 DEF Finest
  <2>4. last' = (tick' + robotClock') * unit' /\ last' > 0 /\ base' = last'
      BY <1>1, <2>1
  <2>5. stamp' = rosBase' + (last' - base') * (Finest \div unit)'
      BY <2>1, <2>2, <2>3
  <2>6. \E d \in 0 .. MaxDelay : stamp' = (tick' + rosClock' + d) * Finest
      BY <1>1, <2>1
  <2>7. Anchored'
      BY <2>4, <2>5, <2>6 DEF Anchored, Finest
  <2> QED
      BY <1>3, <1>4, <2>1, <2>7
<1>6. CASE /\ unit # 0 /\ steady /\ scale \in {0, unit}
           /\ robotClock' = robotClock /\ rosClock' = rosClock
  <2>1. base # 0 /\ Anchored
      BY <1>6 DEF ImuInv
  <2>2. \/ /\ gap = 0
           /\ UNCHANGED <<base, last, rosBase, scale, stamp>> /\ steady' = steady
        \/ /\ gap > 0 /\ scale' = (IF scale = 0 THEN UnitOf(gap * unit) ELSE unit)
           /\ scale' = unit =>
                /\ stamp' = stamp + gap * Finest
                /\ base' = base /\ rosBase' = rosBase
                /\ last' = (tick' + robotClock') * unit
                /\ stamp' = rosBase + (last' - base) * (Finest \div unit)
      BY <1>6, <2>1, CalmSample
  <2>3. CASE gap = 0
    <3>1. /\ UNCHANGED <<base, last, rosBase, scale, stamp, tick, robotClock, rosClock, unit>>
          /\ steady' = steady
        BY <1>2, <1>6, <2>2, <2>3 DEF ImuInv
    <3> QED
        BY <3>1 DEF ImuInv, Anchored, Finest, Units
  <2>4. CASE gap # 0 /\ scale' = unit
    <3>1. /\ stamp' = stamp + gap * Finest /\ base' = base /\ rosBase' = rosBase
          /\ last' = raw /\ stamp' = rosBase + (last' - base) * (Finest \div unit)
        BY <1>1, <2>2, <2>4
    <3>2. gap \in Nat /\ tick \in Nat /\ rosClock \in Int /\ robotClock \in Int /\ unit \in Nat \ {0}
      <4>1. unit \in Nat \ {0}
          BY <1>2, <1>3, <1>6
      <4> QED
          BY <4>1, ImuAssumption DEF ImuInv
    <3>3. raw >= last /\ last > 0
      <4>1. PICK x \in Int : x = tick + robotClock
          BY <3>2
      <4>2. raw = (x + gap) * unit /\ last = x * unit /\ last > 0
          BY <1>1, <1>2, <1>6, <2>1, <3>2, <4>1 DEF Anchored
      <4>3. (x + gap) * unit = x * unit + gap * unit /\ gap * unit >= 0
          BY <3>2
      <4>4. x * unit \in Int /\ gap * unit \in Int
          BY <3>2
      <4> QED
          BY <4>2, <4>3, <4>4
    <3>4. \E d \in 0 .. MaxDelay : stamp' = (tick' + rosClock' + d) * Finest
      <4>1. PICK d \in 0 .. MaxDelay : stamp = (tick + rosClock + d) * Finest
          BY <2>1 DEF Anchored
      <4>2. stamp' = (tick + rosClock + d) * Finest + gap * Finest
          BY <3>1, <4>1
      <4>3. tick' + rosClock' + d = (tick + rosClock + d) + gap
          BY <1>2, <1>6, <3>2
      <4>4. ((tick + rosClock + d) + gap) * Finest = (tick + rosClock + d) * Finest + gap * Finest
          BY <1>3, <3>2
      <4> QED
          BY <4>2, <4>3, <4>4
    <3>5. Anchored'
      <4>1. last' = (tick' + robotClock') * unit' /\ last' > 0
          BY <1>1, <1>2, <1>3, <1>4, <3>1, <3>3
      <4>2. scale' # 0
          BY <1>6, <2>4
      <4>3. stamp' = rosBase' + (last' - base') * (Finest \div unit')
          BY <1>2, <3>1
      <4> QED
          BY <3>4, <4>1, <4>2, <4>3 DEF Anchored, Finest
    <3>6. base' # 0 /\ last' \in Nat /\ base' <= last'
        BY <1>3, <1>4, <2>1, <1>6, <3>1, <3>3
    <3>7. rosBase' \in Int /\ base' \in Nat /\ unit' # 0
        BY <1>2, <1>3, <1>6, <2>1, <3>1
    <3>8. unit' \in (Units \cup {0})'
        BY <1>3 DEF Units, Finest
    <3> QED
        BY <1>3, <3>5, <3>6, <3>7, <3>8 DEF ImuInv
  <2>5. CASE gap # 0 /\ scale' # unit
    <3>1. scale = 0 /\ scale' = UnitOf(gap * unit)
        BY <2>2, <2>5, <1>6
    <3>2. gap * unit \in Nat \ {0}
        BY <1>2, <1>3, <1>6, <2>5, ImuAssumption
    <3>3. scale' \in Units
        BY <3>1, <3>2, UnitFound
    <3>4. scale' # 0
        BY <3>3, UnitsDivide
    <3>5. ~(scale' \in {0, unit'})
        BY <1>2, <2>5, <3>4
    <3>6. /\ base' \in Nat /\ last' \in Nat /\ base' <= last' /\ (base' = 0 => last' = 0)
          /\ (base' # 0 => rosBase' \in Int)
      <4>1. CASE last # 0 /\ raw = last
          BY <1>2, <1>3, <4>1
      <4>2. CASE ~(last # 0 /\ raw = last)
        <5>1. raw > 0 /\ raw \in Nat /\ imuStamp(raw, now)
            BY <1>2, <1>4, <1>6, <4>2
        <5>2. AnchorAt(raw, now) \/ (last' = raw /\ UNCHANGED <<base, rosBase>> /\ raw >= last)
            BY <1>3, <1>4, <5>1 DEF imuStamp
        <5> QED
            BY <1>3, <1>4, <2>1, <5>1, <5>2 DEF AnchorAt
      <4> QED
          BY <4>1, <4>2
    <3>7. unit' # 0 /\ unit' \in (Units \cup {0})'
        BY <1>2, <1>3, <1>6 DEF Units, Finest
    <3> QED
        BY <1>3, <3>5, <3>6, <3>7 DEF ImuInv
  <2> QED
      BY <2>3, <2>4, <2>5
<1>7. CASE ~(/\ unit # 0 /\ steady /\ scale \in {0, unit}
             /\ robotClock' = robotClock /\ rosClock' = rosClock)
  <2>1. /\ base' \in Nat /\ last' \in Nat /\ base' <= last' /\ (base' = 0 => last' = 0)
        /\ (base' # 0 => rosBase' \in Int) /\ (unit = 0 => base' = 0)
        /\ steady' /\ unit # 0 /\ scale' \in {0, unit} => base' # 0 /\ Anchored'
    <3>1. CASE last # 0 /\ raw = last
      <4>1. UNCHANGED <<base, last, rosBase, scale, stamp>>
          BY <1>2, <3>1
      <4>2. ~(steady' /\ unit # 0 /\ scale' \in {0, unit})
          BY <1>2, <1>7, <3>1, <4>1
      <4> QED
          BY <1>3, <4>1, <4>2
    <3>2. CASE ~(last # 0 /\ raw = last) /\ unit = 0
      <4>1. raw = 0 /\ imuStamp(raw, now)
          BY <1>2, <1>4, <3>2
      <4>2. UNCHANGED <<base, last, rosBase>>
          BY <4>1 DEF imuStamp
      <4> QED
          BY <1>3, <3>2, <4>2
    <3>3. CASE ~(last # 0 /\ raw = last) /\ unit # 0
      <4>1. raw > 0 /\ raw \in Nat /\ imuStamp(raw, now)
          BY <1>2, <1>4, <3>3
      <4>2. \/ AnchorAt(raw, now)
            \/ /\ last' = raw /\ UNCHANGED <<base, rosBase>> /\ base # 0 /\ raw >= last
               /\ scale' = (IF scale = 0 THEN UnitOf(raw - last) ELSE scale)
          BY <1>3, <1>4, <4>1 DEF imuStamp
      <4>3. CASE AnchorAt(raw, now)
          BY <1>4, <1>5, <3>3, <4>1, <4>3 DEF AnchorAt
      <4>4. CASE /\ last' = raw /\ UNCHANGED <<base, rosBase>> /\ base # 0 /\ raw >= last
                 /\ scale' = (IF scale = 0 THEN UnitOf(raw - last) ELSE scale)
        <5>1. raw > last /\ base' # raw
            BY <1>3, <3>3, <4>1, <4>4
        <5>2. steady' = (base' = raw \/ (steady /\ robotClock' = robotClock
                                                /\ rosClock' = rosClock))
            BY <1>2, <3>3
        <5>3. scale' \in {0, unit} => scale \in {0, unit}
            BY <4>4
        <5>4. ~(steady' /\ unit # 0 /\ scale' \in {0, unit})
            BY <1>7, <5>1, <5>2, <5>3
        <5> QED
            BY <1>3, <3>3, <4>1, <4>4, <5>1, <5>4
      <4> QED
          BY <4>2, <4>3, <4>4
    <3> QED
        BY <3>1, <3>2, <3>3
  <2>2. unit' = unit /\ unit' \in (Units \cup {0})'
      BY <1>2, <1>3 DEF Units, Finest
  <2> QED
      BY <1>3, <2>1, <2>2 DEF ImuInv
<1> QED
    BY <1>6, <1>7

\* astrall_driver_node.cpp, handleImu() and imuStamp(): however late the
\* callbacks come, whatever samples are lost or come again, and whatever the
\* clocks were set to before, stamps are exactly as far apart as their samples,
\* and the unit found is the robot's, unless more than sqrt(Factor) periods
\* were lost while it was looked for.
THEOREM ImuStampsAreRight == ImuSpec => ImuStampsRight
<1>1. ImuInit => ImuInv
  <2> SUFFICES ASSUME ImuInit PROVE ImuInv
      OBVIOUS
  <2>1. robotClock \in Int /\ rosClock \in Int
      BY ImuAssumption DEF ImuInit
  <2>2. /\ tick = 0 /\ base = 0 /\ last = 0 /\ ~steady /\ steady \in BOOLEAN
        /\ unit \in Units \cup {0}
      BY DEF ImuInit
  <2> QED
      BY <2>1, <2>2 DEF ImuInv
<1>2. ImuInv /\ [ImuNext]_imuVars => ImuInv'
  <2> SUFFICES ASSUME ImuInv, [ImuNext]_imuVars PROVE ImuInv'
      OBVIOUS
  <2>1. CASE UNCHANGED imuVars
      BY <2>1 DEF ImuInv, Anchored, imuVars, Units, Finest
  <2> QED
      BY <2>1, ImuStep DEF ImuNext
<1>3. ImuInv /\ [ImuNext]_imuVars =>
        [Calm /\ (scale # 0 \/ (tick' - tick) * (tick' - tick) < Factor)
           => /\ stamp' - stamp = (tick' - tick) * Finest
              /\ scale' \in {0, unit}]_imuVars
  <2> SUFFICES ASSUME ImuInv, NEW gap \in Gaps, NEW delay \in 0 .. MaxDelay,
                      handleImu(gap, delay), Calm,
                      scale # 0 \/ (tick' - tick) * (tick' - tick) < Factor
               PROVE  stamp' - stamp = (tick' - tick) * Finest /\ scale' \in {0, unit}
      BY DEF ImuNext
  <2>1. base # 0 /\ Anchored /\ unit # 0 /\ scale \in {0, unit}
        /\ robotClock' = robotClock /\ rosClock' = rosClock
      BY DEF Calm, ImuInv
  <2>2. /\ unit' = unit /\ tick' = tick + gap
        /\ \/ gap = 0 /\ UNCHANGED <<base, last, rosBase, scale, stamp>>
           \/ /\ gap > 0 /\ scale' = (IF scale = 0 THEN UnitOf(gap * unit) ELSE unit)
              /\ scale' = unit => stamp' = stamp + gap * Finest
      BY <2>1, CalmSample
  <2>3. /\ tick \in Nat /\ gap \in Nat /\ tick' - tick = gap /\ unit \in Units
        /\ Finest \in Nat /\ rosClock \in Int
      BY <2>1, <2>2, UnitsDivide, ImuAssumption DEF ImuInv
  <2>4. stamp \in Int
    <3>1. PICK d \in 0 .. MaxDelay : stamp = (tick + rosClock + d) * Finest
        BY <2>1 DEF Anchored
    <3> QED
        BY <2>3, <3>1, ImuAssumption
  <2>5. CASE gap = 0
      BY <2>1, <2>2, <2>3, <2>4, <2>5
  <2>6. CASE gap # 0
    <3>1. scale' = unit
      <4>1. scale = 0 => gap * gap < Factor
          BY <2>3
      <4>2. scale = 0 => UnitOf(gap * unit) = unit
          BY <2>3, <2>6, <4>1, UnitRight
      <4> QED
          BY <2>1, <2>2, <2>6, <4>2
    <3>2. stamp' = stamp + gap * Finest
        BY <2>2, <2>6, <3>1
    <3>3. gap * Finest \in Int
        BY <2>3
    <3> QED
        BY <2>3, <2>4, <3>1, <3>2, <3>3
  <2> QED
      BY <2>5, <2>6
<1> QED
    BY <1>1, <1>2, <1>3, PTL DEF ImuSpec, ImuStampsRight

-----------------------------------------------------------------------------
(* The images of the H.264 node (Cameras).                                 *)

VideoSpec == CameraInit /\ [][VideoNext]_videoVars

\* The piece at a place of the video, counted in two frames.
Piece(x) == <<(x % (2 * FrameSize)) \div FrameSize, (x % (2 * FrameSize)) % FrameSize>>
FrameOf(k) == [x \in 1..FrameSize |-> <<k, x - 1>>]

\* Of frame k of the video, offset pieces are in their places; those in the
\* pipe come next, and then what ffmpeg writes.
InStep(k) ==
    /\ \A x \in 1..offset : frame[x] = <<k, x - 1>>
    /\ \A x \in 1..Len(pipe) : pipe[x] = Piece(k * FrameSize + offset + x - 1)
    /\ made = ((k * FrameSize + offset + Len(pipe)) % (2 * FrameSize))

Pieces == Nat \X Nat

VideoInv ==
    /\ offset \in 0..FrameSize /\ pipe \in Seq(Pieces) /\ made \in 0..2 * FrameSize - 1
    /\ frame \in [1..FrameSize -> Pieces]
    /\ npc = "read" => offset < FrameSize
    /\ npc = "publish" => offset = FrameSize
    /\ npc = "ended" => ~fd /\ child \in {"none", "reaped"}
    /\ npc = "start" => child = "none"
    /\ ImagesWhole
    /\ \E k \in {0, 1} : InStep(k)

\* Places are counted in two frames: one turn more is the same place.
LEMMA TwoFrames ==
    ASSUME NEW x \in Nat
    PROVE  /\ (x % (2 * FrameSize)) \in 0..2 * FrameSize - 1
           /\ ((x + 2 * FrameSize) % (2 * FrameSize)) = (x % (2 * FrameSize))
           /\ (((x % (2 * FrameSize)) + 1) % (2 * FrameSize)) = ((x + 1) % (2 * FrameSize))
           /\ x < 2 * FrameSize => (x % (2 * FrameSize)) = x
<1>1. PICK F \in Nat \ {0} : F = 2 * FrameSize
    BY CameraAssumption
<1>2. PICK r, q : r = (x % F) /\ q = x \div F
    OBVIOUS
<1>3. r \in 0..F - 1 /\ q \in Int /\ x = F * q + r
    BY <1>1, <1>2
<1>4. ASSUME NEW y \in Nat, NEW p \in Int, NEW s \in 0..F - 1, y = F * p + s
      PROVE  (y % F) = s
  <2>1. PICK t, u : t = (y % F) /\ u = y \div F
      OBVIOUS
  <2>2. t \in 0..F - 1 /\ u \in Int /\ y = F * u + t
    <3>1. F \in Nat \ {0} /\ y \in Nat
        BY <1>1, <1>4
    <3>2. (y % F) \in 0..F - 1 /\ y \div F \in Int /\ y = F * (y \div F) + (y % F)
        BY <3>1
    <3> QED
        BY <2>1, <3>2
  <2>3. F * (u - p) = s - t
      BY <1>1, <1>4, <2>2
  <2>4. s - t < F /\ s - t > 0 - F
      BY <1>1, <1>4, <2>2
  <2>5. PICK z \in Int : z = u - p
      BY <1>4, <2>2
  <2>6. z >= 1 => F * z >= F
      BY <1>1
  <2>7. z <= -1 => F * z <= 0 - F
      BY <1>1
  <2>8. z = 0
      BY <1>1, <2>3, <2>4, <2>5, <2>6, <2>7
  <2>9. F * z = 0
      BY <1>1, <2>8
  <2> QED
      BY <1>4, <2>1, <2>2, <2>3, <2>5, <2>9
<1>5. ((x + F) % F) = r
  <2>1. x + F = F * (q + 1) + r /\ q + 1 \in Int /\ x + F \in Nat
      BY <1>1, <1>3
  <2> QED
      BY <1>3, <1>4, <2>1
<1>6. ((r + 1) % F) = ((x + 1) % F)
  <2>1. CASE r + 1 < F
    <3>1. x + 1 = F * q + (r + 1) /\ r + 1 = F * 0 + (r + 1)
        BY <1>1, <1>3
    <3> QED
        BY <1>3, <1>4, <2>1, <3>1
  <2>2. CASE r + 1 = F
    <3>1. x + 1 = F * (q + 1) + 0 /\ r + 1 = F * 1 + 0
        BY <1>1, <1>3, <2>2
    <3>2. ((x + 1) % F) = 0
        BY <1>1, <1>3, <1>4, <3>1
    <3>3. ((r + 1) % F) = 0
        BY <1>1, <1>3, <1>4, <3>1
    <3> QED
        BY <3>2, <3>3
  <2> QED
      BY <1>1, <1>3, <2>1, <2>2
<1>7. x < F => (x % F) = x
    BY <1>1
<1> QED
    BY <1>1, <1>2, <1>3, <1>5, <1>6, <1>7

\* The places of frame k.
LEMMA PieceRight ==
    /\ \A k \in {0, 1}, x \in 1..FrameSize : Piece(k * FrameSize + x - 1) = <<k, x - 1>>
    /\ \A x \in Nat : /\ Piece(x) \in Pieces /\ Piece(x + 2 * FrameSize) = Piece(x)
                      /\ x < 2 * FrameSize => Piece(x) = <<x \div FrameSize, x % FrameSize>>
<1>1. FrameSize \in Nat \ {0}
    BY CameraAssumption
<1>2. ASSUME NEW x \in Nat
      PROVE  /\ Piece(x) \in Pieces /\ Piece(x + 2 * FrameSize) = Piece(x)
             /\ x < 2 * FrameSize => Piece(x) = <<x \div FrameSize, x % FrameSize>>
  <2>1. PICK r \in Nat : r = (x % (2 * FrameSize))
      BY <1>2, TwoFrames
  <2>2. Piece(x) = <<r \div FrameSize, r % FrameSize>>
      BY <2>1 DEF Piece
  <2>3. r \div FrameSize \in Nat /\ r % FrameSize \in Nat
      BY <1>1
  <2>4. Piece(x + 2 * FrameSize) = Piece(x)
      BY <1>2, TwoFrames DEF Piece
  <2>5. x < 2 * FrameSize => r = x
      BY <1>2, <2>1, TwoFrames
  <2> QED
      BY <2>2, <2>3, <2>4, <2>5 DEF Pieces
<1>3. ASSUME NEW k \in {0, 1}, NEW x \in 1..FrameSize
      PROVE  Piece(k * FrameSize + x - 1) = <<k, x - 1>>
  <2>1. PICK y \in Nat : y = k * FrameSize + x - 1
      BY <1>1
  <2>2. y < 2 * FrameSize
      BY <1>1, <2>1
  <2>3. y = FrameSize * k + (x - 1) /\ x - 1 \in 0..FrameSize - 1
      BY <1>1, <2>1
  <2>4. y \div FrameSize = k /\ (y % FrameSize) = x - 1
    <3>1. CASE k = 0
        BY <1>1, <2>3, <3>1
    <3>2. CASE k = 1
        BY <1>1, <2>3, <3>2
    <3> QED
        BY <3>1, <3>2
  <2> QED
      BY <1>2, <2>1, <2>2, <2>4
<1> QED
    BY <1>2, <1>3

\* ffmpeg's next piece.
LEMMA WriteStep ==
    ASSUME VideoInv, FfmpegWrites
    PROVE  VideoInv'
<1>1. /\ FrameSize \in Nat \ {0} /\ offset \in 0..FrameSize /\ pipe \in Seq(Pieces)
      /\ Len(pipe) \in Nat /\ made \in 0..2 * FrameSize - 1
    BY LenProperties, CameraAssumption DEF VideoInv
<1>2. PICK n \in Nat : n = Len(pipe)
    BY <1>1
<1>3. PICK k \in {0, 1} : InStep(k)
    BY DEF VideoInv
<1>4. PICK x \in Nat : x = k * FrameSize + offset + n
    BY <1>1, <1>2
<1>5. PICK piece : piece = <<made \div FrameSize, made % FrameSize>>
    OBVIOUS
<1>6. /\ pipe' = Append(pipe, piece) /\ made' = ((made + 1) % (2 * FrameSize))
      /\ UNCHANGED <<npc, rosOk, child, fd, frame, offset, image>>
    BY <1>5 DEF FfmpegWrites
<1>7. made = (x % (2 * FrameSize)) /\ piece = Piece(x) /\ piece \in Pieces
  <2>1. made = (x % (2 * FrameSize))
      BY <1>2, <1>3, <1>4 DEF InStep
  <2> QED
      BY <1>5, <2>1, PieceRight DEF Piece
<1>8. /\ made' = ((x + 1) % (2 * FrameSize)) /\ made' \in 0..2 * FrameSize - 1
    BY <1>6, <1>7, TwoFrames
<1>9. /\ pipe' \in Seq(Pieces) /\ Len(pipe') = n + 1
      /\ \A m \in 1..n : pipe'[m] = pipe[m]
      /\ pipe'[n + 1] = piece
    BY <1>1, <1>2, <1>6, <1>7, AppendProperties
<1>10. InStep(k)'
  <2>1. \A m \in 1..Len(pipe') : pipe'[m] = Piece(k * FrameSize + offset + m - 1)
    <3> TAKE m \in 1..Len(pipe')
    <3>1. m \in 1..n \/ m = n + 1
        BY <1>9
    <3>2. CASE m \in 1..n
        BY <1>2, <1>3, <1>9, <3>2 DEF InStep
    <3>3. CASE m = n + 1
      <4>1. k * FrameSize + offset + m - 1 = x
          BY <1>1, <1>4, <3>3
      <4> QED
          BY <1>7, <1>9, <3>3, <4>1
    <3> QED
        BY <3>1, <3>2, <3>3
  <2>2. k * FrameSize + offset + Len(pipe') = x + 1
    <3>1. PICK K \in Nat : K = k * FrameSize
        BY <1>1
    <3>2. x = K + offset + n
        BY <1>4, <3>1
    <3>3. K + offset + (n + 1) = x + 1
        BY <1>1, <3>2
    <3> QED
        BY <1>9, <3>1, <3>3
  <2>3. made' = ((k * FrameSize + offset + Len(pipe')) % (2 * FrameSize))
      BY <1>8, <2>2
  <2>4. \A m \in 1..offset : frame[m] = <<k, m - 1>>
      BY <1>3 DEF InStep
  <2> QED
      BY <1>6, <2>1, <2>3, <2>4 DEF InStep, Piece
<1> QED
    BY <1>6, <1>8, <1>9, <1>10 DEF VideoInv, ImagesWhole

\* read() puts what it returns behind what is there.
LEMMA ReadStep ==
    ASSUME VideoInv, Read
    PROVE  VideoInv'
<1>1. /\ FrameSize \in Nat \ {0} /\ offset \in 0..FrameSize /\ pipe \in Seq(Pieces)
      /\ Len(pipe) \in Nat /\ frame \in [1..FrameSize -> Pieces] /\ npc = "read"
    BY LenProperties, CameraAssumption DEF VideoInv, Read
<1>2. PICK n \in 1..FrameSize - offset :
        /\ n <= Len(pipe) /\ frame' = Placed(n) /\ offset' = offset + n
        /\ pipe' = SubSeq(pipe, n + 1, Len(pipe))
    BY DEF Read
<1>3. npc' = "check" /\ UNCHANGED <<rosOk, child, fd, made, image>>
    BY DEF Read
<1>4. PICK k \in {0, 1} : InStep(k)
    BY DEF VideoInv
<1>5. /\ pipe' \in Seq(Pieces) /\ Len(pipe') = Len(pipe) - n
      /\ \A x \in 1..Len(pipe') : pipe'[x] = pipe[x + n]
  <2>1. n + 1 \in 1..Len(pipe) + 1 /\ Len(pipe) \in n..Len(pipe)
      BY <1>1, <1>2
  <2>2. \A x \in n + 1..Len(pipe) : pipe[x] \in Pieces
      BY <1>1, <1>2, ElementOfSeq
  <2>3. pipe' \in Seq(Pieces)
      BY <1>1, <1>2, <2>1, <2>2, SubSeqProperties
  <2>4. Len(pipe') = Len(pipe) - n /\ \A x \in 1..Len(pipe') : pipe'[x] = pipe[x + n]
    <3>1. n + 1 <= Len(pipe) + 1 /\ n + 1 \in Nat
        BY <1>1, <1>2
    <3> QED
        BY <1>1, <1>2, <2>1, <3>1, SubSeqProperties
  <2> QED
      BY <2>3, <2>4
<1>6. offset' \in 0..FrameSize /\ n \in Nat
    BY <1>1, <1>2
<1>7. frame' \in [1..FrameSize -> Pieces] /\ \A x \in 1..offset' : frame'[x] = <<k, x - 1>>
  <2>1. frame' = [x \in 1..FrameSize |->
                    IF x \in offset + 1..offset + n THEN pipe[x - offset] ELSE frame[x]]
      BY <1>2 DEF Placed
  <2>2. ASSUME NEW x \in offset + 1..offset + n
        PROVE  pipe[x - offset] = <<k, x - 1>> /\ pipe[x - offset] \in Pieces
    <3>1. x - offset \in 1..Len(pipe) /\ x \in 1..FrameSize
        BY <1>1, <1>2, <2>2
    <3>2. pipe[x - offset] = Piece(k * FrameSize + offset + (x - offset) - 1)
        BY <1>4, <3>1 DEF InStep
    <3>3. k * FrameSize + offset + (x - offset) - 1 = k * FrameSize + x - 1
        BY <1>1, <3>1
    <3>4. Piece(k * FrameSize + x - 1) = <<k, x - 1>>
        BY <3>1, PieceRight
    <3>5. pipe[x - offset] \in Pieces
        BY <1>1, <3>1, ElementOfSeq
    <3> QED
        BY <3>2, <3>3, <3>4, <3>5
  <2>3. frame' \in [1..FrameSize -> Pieces]
      BY <1>1, <2>1, <2>2
  <2>4. ASSUME NEW x \in 1..offset' PROVE frame'[x] = <<k, x - 1>>
    <3>1. x \in 1..FrameSize /\ (x \in 1..offset \/ x \in offset + 1..offset + n)
        BY <1>1, <1>2, <1>6, <2>4
    <3>2. CASE x \in offset + 1..offset + n
        BY <2>1, <2>2, <3>1, <3>2
    <3>3. CASE x \in 1..offset
      <4>1. x \notin offset + 1..offset + n
          BY <1>1, <3>3
      <4> QED
          BY <1>4, <2>1, <3>1, <3>3, <4>1 DEF InStep
    <3> QED
        BY <3>1, <3>2, <3>3
  <2> QED
      BY <2>3, <2>4
<1>8. InStep(k)'
  <2>1. ASSUME NEW x \in 1..Len(pipe') PROVE pipe'[x] = Piece(k * FrameSize + offset' + x - 1)
    <3>1. x + n \in 1..Len(pipe) /\ pipe'[x] = pipe[x + n]
        BY <1>1, <1>2, <1>5, <2>1
    <3>2. pipe[x + n] = Piece(k * FrameSize + offset + (x + n) - 1)
        BY <1>4, <3>1 DEF InStep
    <3>3. k * FrameSize + offset + (x + n) - 1 = k * FrameSize + offset' + x - 1
        BY <1>1, <1>2, <1>5, <1>6, <2>1
    <3> QED
        BY <3>1, <3>2, <3>3
  <2>2. k * FrameSize + offset' + Len(pipe') = k * FrameSize + offset + Len(pipe)
    <3>1. PICK K \in Nat : K = k * FrameSize
        BY <1>1
    <3>2. K + (offset + n) + (Len(pipe) - n) = K + offset + Len(pipe)
        BY <1>1, <1>6, <3>1
    <3> QED
        BY <1>2, <1>5, <3>1, <3>2
  <2>3. made' = ((k * FrameSize + offset' + Len(pipe')) % (2 * FrameSize))
      BY <1>3, <1>4, <2>2 DEF InStep
  <2> QED
      BY <1>7, <2>1, <2>3 DEF InStep, Piece
<1>9. made' \in 0..2 * FrameSize - 1 /\ ImagesWhole'
    BY <1>3 DEF VideoInv, ImagesWhole
<1> QED
    BY <1>3, <1>5, <1>6, <1>7, <1>8, <1>9 DEF VideoInv

\* A whole frame is published, and the next one begun.
LEMMA PublishStep ==
    ASSUME VideoInv, Publish
    PROVE  VideoInv'
<1>1. /\ FrameSize \in Nat \ {0} /\ offset = FrameSize /\ pipe \in Seq(Pieces)
      /\ Len(pipe) \in Nat /\ frame \in [1..FrameSize -> Pieces]
    BY LenProperties, CameraAssumption DEF VideoInv, Publish
<1>2. /\ image' = frame /\ offset' = 0 /\ npc' \in {"check", "stop"}
      /\ UNCHANGED <<rosOk, child, fd, pipe, made, frame>>
    BY DEF Publish
<1>3. PICK k \in {0, 1} : InStep(k)
    BY DEF VideoInv
<1>4. frame = [x \in 1..FrameSize |-> <<k, x - 1>>]
    BY <1>1, <1>3 DEF InStep
<1>5. ImagesWhole'
    BY <1>2, <1>4 DEF ImagesWhole
<1>6. \E l \in {0, 1} : InStep(l)'
  <2>1. CASE k = 0
    <3>1. \A y \in Int : 0 * FrameSize + FrameSize + y = 1 * FrameSize + 0 + y
        BY <1>1
    <3>2. \A m \in 1..Len(pipe) : pipe[m] = Piece(1 * FrameSize + 0 + m - 1)
      <4> TAKE m \in 1..Len(pipe)
      <4>1. pipe[m] = Piece(0 * FrameSize + FrameSize + m - 1)
          BY <1>1, <1>3, <2>1 DEF InStep
      <4>2. 0 * FrameSize + FrameSize + m - 1 = 1 * FrameSize + 0 + m - 1
          BY <1>1
      <4> QED
          BY <4>1, <4>2
    <3>3. made = ((1 * FrameSize + 0 + Len(pipe)) % (2 * FrameSize))
      <4>1. made = ((0 * FrameSize + FrameSize + Len(pipe)) % (2 * FrameSize))
          BY <1>1, <1>3, <2>1 DEF InStep
      <4> QED
          BY <1>1, <3>1, <4>1
    <3>4. \A m \in 1..0 : frame[m] = <<1, m - 1>>
        OBVIOUS
    <3>5. InStep(1)'
        BY <1>2, <3>2, <3>3, <3>4 DEF InStep, Piece
    <3> QED
        BY <3>5
  <2>2. CASE k = 1
    <3>1. \A m \in 1..Len(pipe) : pipe[m] = Piece(0 * FrameSize + 0 + m - 1)
      <4> TAKE m \in 1..Len(pipe)
      <4>1. pipe[m] = Piece(1 * FrameSize + FrameSize + m - 1)
          BY <1>1, <1>3, <2>2 DEF InStep
      <4>2. PICK y \in Nat : y = m - 1
          BY <1>1
      <4>3. 1 * FrameSize + FrameSize + m - 1 = y + 2 * FrameSize
            /\ 0 * FrameSize + 0 + m - 1 = y
          BY <1>1, <4>2
      <4>4. Piece(y + 2 * FrameSize) = Piece(y)
          BY PieceRight
      <4> QED
          BY <4>1, <4>3, <4>4
    <3>2. made = ((0 * FrameSize + 0 + Len(pipe)) % (2 * FrameSize))
      <4>1. made = ((1 * FrameSize + FrameSize + Len(pipe)) % (2 * FrameSize))
          BY <1>1, <1>3, <2>2 DEF InStep
      <4>2. PICK y \in Nat : y = Len(pipe)
          BY <1>1
      <4>3. 1 * FrameSize + FrameSize + Len(pipe) = y + 2 * FrameSize
            /\ 0 * FrameSize + 0 + Len(pipe) = y
          BY <1>1, <4>2
      <4>4. ((y + 2 * FrameSize) % (2 * FrameSize)) = (y % (2 * FrameSize))
          BY TwoFrames
      <4> QED
          BY <4>1, <4>3, <4>4
    <3>3. \A m \in 1..0 : frame[m] = <<0, m - 1>>
        OBVIOUS
    <3>4. InStep(0)'
        BY <1>2, <3>1, <3>2, <3>3 DEF InStep, Piece
    <3> QED
        BY <3>4
  <2> QED
      BY <2>1, <2>2
<1>7. made' \in 0..2 * FrameSize - 1 /\ offset' \in 0..FrameSize
    BY <1>1, <1>2 DEF VideoInv
<1> QED
    BY <1>1, <1>2, <1>5, <1>6, <1>7 DEF VideoInv

\* astrall_h264_camera_node.cpp, readFrame(): however read() cuts the bytes and
\* whenever the node is told to stop or ffmpeg ends, a published image is one
\* frame of the video, and a node that has ended has closed the pipe and waited
\* for its child.
THEOREM ImagesAreWhole ==
    VideoSpec => []ImagesWhole /\ [](npc = "ended" => ~fd /\ child \in {"none", "reaped"})
<1>1. CameraInit => VideoInv
  <2> SUFFICES ASSUME CameraInit PROVE VideoInv
      OBVIOUS
  <2>1. /\ FrameSize \in Nat \ {0} /\ npc = "start" /\ child = "none" /\ pipe = <<>> /\ made = 0
        /\ frame = [x \in 1..FrameSize |-> <<2, 0>>] /\ offset = 0 /\ image = <<>>
      BY CameraAssumption DEF CameraInit
  <2>2. pipe \in Seq(Pieces) /\ Len(pipe) = 0
      BY <2>1
  <2>3. frame \in [1..FrameSize -> Pieces]
      BY <2>1 DEF Pieces
  <2>4. InStep(0)
    <3>1. ((0 * FrameSize + 0 + 0) % (2 * FrameSize)) = 0
      <4>1. 0 * FrameSize + 0 + 0 = 0 /\ 0 < 2 * FrameSize
          BY <2>1
      <4>2. (0 % (2 * FrameSize)) = 0
          BY <4>1, TwoFrames
      <4> QED
          BY <4>1, <4>2
    <3> QED
        BY <2>1, <2>2, <3>1 DEF InStep
  <2> QED
      BY <2>1, <2>2, <2>3, <2>4 DEF VideoInv, ImagesWhole
<1>2. VideoInv /\ [VideoNext]_videoVars => VideoInv'
  <2> SUFFICES ASSUME VideoInv, [VideoNext]_videoVars PROVE VideoInv'
      OBVIOUS
  <2>1. ASSUME UNCHANGED <<pipe, made, frame, offset, image>>,
               npc' = "read" => offset < FrameSize,
               npc' = "publish" => offset = FrameSize,
               npc' = "ended" => ~fd' /\ child' \in {"none", "reaped"},
               npc' = "start" => child' = "none"
        PROVE  VideoInv'
      BY <2>1 DEF VideoInv, ImagesWhole, InStep, Piece
  <2>2. CASE StartFfmpeg
      BY <2>1, <2>2 DEF StartFfmpeg
  <2>3. CASE ReadOn
    <3>1. FrameSize \in Nat /\ offset \in 0..FrameSize
        BY CameraAssumption DEF VideoInv
    <3>2. /\ UNCHANGED <<pipe, made, frame, offset, image>>
          /\ npc' = IF offset = FrameSize THEN "publish" ELSE IF rosOk THEN "read" ELSE "stop"
        BY <2>3 DEF ReadOn
    <3> QED
        BY <2>1, <3>1, <3>2
  <2>4. CASE ReadEnds
      BY <2>1, <2>4 DEF ReadEnds
  <2>5. CASE StopFfmpeg
    <3>1. /\ UNCHANGED <<pipe, made, frame, offset, image>> /\ npc' = "ended" /\ ~fd'
          /\ child' \in {"none", "reaped"}
        BY <2>5 DEF StopFfmpeg
    <3> QED
        BY <2>1, <3>1
  <2>6. CASE Interrupted
      BY <2>1, <2>6 DEF Interrupted
  <2>7. CASE FfmpegEnds
    <3>1. /\ UNCHANGED <<pipe, made, frame, offset, image, npc, fd>>
          /\ child = "running"
        BY <2>7 DEF FfmpegEnds
    <3>2. npc # "ended" /\ npc # "start"
        BY <3>1 DEF VideoInv
    <3> QED
        BY <2>1, <3>1, <3>2 DEF VideoInv
  <2>8. CASE Shutdown
      BY <2>1, <2>8 DEF Shutdown, VideoInv
  <2>9. CASE UNCHANGED videoVars
      BY <2>1, <2>9 DEF videoVars, VideoInv
  <2> QED
      BY <2>2, <2>3, <2>4, <2>5, <2>6, <2>7, <2>8, <2>9, WriteStep, ReadStep, PublishStep
         DEF VideoNext, Node
<1>3. VideoInv => ImagesWhole /\ (npc = "ended" => ~fd /\ child \in {"none", "reaped"})
    BY DEF VideoInv
<1> QED
    BY <1>1, <1>2, <1>3, PTL DEF VideoSpec
=============================================================================
