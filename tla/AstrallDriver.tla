---------------------------- MODULE AstrallDriver ----------------------------
(***************************************************************************)
(* astrall_driver_node.cpp: velocity commands, posture services, the       *)
(* full-down sequence and the cmd_vel watchdog.                            *)
(*                                                                         *)
(* All callbacks run on the thread of ros::spin(), one after another, but  *)
(* each asks the robot for its status and then commands it in separate SDK *)
(* calls; the robot and its joystick act between them.  A callback is      *)
(* therefore one step per SDK call, and pc says where it is.               *)
(*                                                                         *)
(* The SDK (sdk/include/interface.h) and the robot are external and        *)
(* modelled from their use: velocities act in MOVE only, commands need the *)
(* control authority, leaving MOVE or losing the authority ends the        *)
(* commanded velocity, and a status read returns the robot's mode.         *)
(***************************************************************************)
CONSTANTS
    Outcomes    \* of a call: "ok", "lost" (no effect, a failure result) or
                \* "unanswered" (it takes effect, the result is a failure)

ASSUME OutcomesAssumption == Outcomes \subseteq {"ok", "lost", "unanswered"}

VARIABLES
    mode,           \* AstrallGetSportStatus()
    target,         \* the accepted mode command the robot has yet to begin
    velocity,       \* the commanded velocity it executes: "rest" or "moving"
    authority,      \* who controls the robot: "sdk" or "joystick"
    immediate,      \* does an accepted mode command show in this robot's status
                    \* at once?  The SDK does not say; it never changes
    pc,             \* "spin", or the SDK call the running callback makes next
    arg,            \* its argument: a velocity or what the service asked for
    stop_motion,    \* stop_motion_: there is nothing for the watchdog to stop
    cmdFresh,       \* last_cmd_time_ is less than cmd_vel_timeout_ms ago
    full_down_pending,
    full_down_damping_requested,
    downFresh,      \* full_down_started_ is less than full_down_timeout_sec ago
    origin          \* history: who sent the last mode command in effect

robotVars == <<mode, target, velocity, authority, origin, immediate>>
downVars == <<full_down_pending, full_down_damping_requested, downFresh>>
cmdVars == <<stop_motion, cmdFresh>>
vars == <<robotVars, pc, arg, cmdVars, downVars>>

Modes == {"DAMPING", "FIXEDDOWN", "FIXEDDOWNING", "FIXEDSTAND", "FIXEDSTANDING", "MOVE"}
Velocities == {"rest", "moving"}
ModeCmds == {"DAMPING", "FIXEDDOWN", "FIXEDSTAND", "MOVE"}

\* The driver may be started at any time; readParameters() and initSdk() leave
\* the authority with whoever obtained it.
Init ==
    /\ mode \in ModeCmds
    /\ target = "none" /\ velocity = "rest"
    /\ authority \in {"sdk", "joystick"}
    /\ pc = "spin" /\ arg = "none"
    /\ stop_motion = TRUE /\ cmdFresh = FALSE
    /\ full_down_pending = FALSE /\ full_down_damping_requested = FALSE
    /\ downFresh = FALSE
    /\ origin = "none"
    /\ immediate \in BOOLEAN

-----------------------------------------------------------------------------
(* The robot.                                                              *)

\* The status once the robot begins to execute a mode command.
Begun(cmd) ==
    CASE cmd = "FIXEDSTAND" /\ mode # "FIXEDSTAND" -> "FIXEDSTANDING"
      [] cmd = "FIXEDDOWN" /\ mode # "FIXEDDOWN" -> "FIXEDDOWNING"
      [] OTHER -> cmd

SetMode(m) ==
    /\ mode' = m
    /\ velocity' = IF m = "MOVE" THEN velocity ELSE "rest"

\* AstrallMove(): outcome o.  No caller acts on the result.
AstrallMove(v, o) ==
    /\ velocity' = IF o # "lost" /\ authority = "sdk" /\ mode = "MOVE"
                     THEN v ELSE velocity
    /\ UNCHANGED <<mode, target, authority, origin, immediate>>

\* AstrallSportModeControl() sent by who, with outcome o.
AstrallSportModeControl(cmd, who, o) ==
    /\ IF o = "lost" \/ authority # "sdk"
         THEN UNCHANGED <<mode, target, velocity, origin>>
         ELSE /\ origin' = who
              /\ IF immediate
                   THEN SetMode(Begun(cmd)) /\ target' = "none"
                   ELSE target' = cmd /\ UNCHANGED <<mode, velocity>>
    /\ UNCHANGED <<authority, immediate>>

\* ... returns ASTRALL_RES_SUCCESSED.
Succeeded(o) == o = "ok" /\ authority = "sdk"

RobotBegin ==
    /\ target # "none"
    /\ SetMode(Begun(target))
    /\ target' = "none"
    /\ UNCHANGED <<authority, origin, immediate, pc, arg, cmdVars, downVars>>

RobotFinish ==
    /\ \/ mode = "FIXEDSTANDING" /\ mode' = "FIXEDSTAND"
       \/ mode = "FIXEDDOWNING" /\ mode' = "FIXEDDOWN"
    /\ UNCHANGED <<target, velocity, authority, origin, immediate, pc, arg, cmdVars, downVars>>

\* The operator takes over with the joystick ...
JoystickTake ==
    /\ authority = "sdk"
    /\ authority' = "joystick"
    /\ velocity' = "rest" /\ target' = "none"
    /\ UNCHANGED <<mode, origin, immediate, pc, arg, cmdVars, downVars>>

\* ... and changes the robot's mode.
JoystickMode(cmd) ==
    /\ authority = "joystick"
    /\ SetMode(Begun(cmd))
    /\ origin' = "joystick"
    /\ UNCHANGED <<target, authority, immediate, pc, arg, cmdVars, downVars>>

-----------------------------------------------------------------------------
(* Time.                                                                   *)

CmdExpires ==
    /\ cmdFresh
    /\ cmdFresh' = FALSE
    /\ UNCHANGED <<robotVars, pc, arg, stop_motion, downVars>>

FullDownExpires ==
    /\ full_down_pending /\ downFresh
    /\ downFresh' = FALSE
    /\ UNCHANGED <<robotVars, pc, arg, cmdVars, full_down_pending,
                   full_down_damping_requested>>

-----------------------------------------------------------------------------
(* handleCmdVel().  During a full-down sequence the message is ignored.    *)

\* Broken variant of CmdVel: the full-down sequence is not looked at.
CmdVelAlways(v) ==
    /\ pc = "spin"
    /\ IF mode # "MOVE"
         THEN stop_motion' = TRUE /\ UNCHANGED <<cmdFresh, pc, arg>>
         ELSE /\ cmdFresh' = TRUE
              /\ stop_motion' = FALSE
              /\ pc' = "cmdMove" /\ arg' = v
    /\ UNCHANGED <<robotVars, downVars>>

CmdVel(v) ==
    /\ pc = "spin"
    /\ ~full_down_pending
    /\ IF mode # "MOVE"
         THEN stop_motion' = TRUE /\ UNCHANGED <<cmdFresh, pc, arg>>
         ELSE /\ cmdFresh' = TRUE
              /\ stop_motion' = FALSE
              /\ pc' = "cmdMove" /\ arg' = v
    /\ UNCHANGED <<robotVars, downVars>>

CmdMove ==
    /\ pc = "cmdMove"
    /\ \E o \in Outcomes : AstrallMove(arg, o)
    /\ pc' = "spin" /\ arg' = "none"
    /\ UNCHANGED <<cmdVars, downVars>>

-----------------------------------------------------------------------------
(* The services.                                                           *)

CancelFullDown ==
    /\ full_down_pending' = FALSE
    /\ full_down_damping_requested' =
          IF full_down_pending THEN FALSE ELSE full_down_damping_requested
    /\ UNCHANGED downFresh

SetSdkAuth(data) ==
    /\ pc = "spin"
    /\ IF data THEN UNCHANGED downVars ELSE CancelFullDown
    /\ \E o \in Outcomes :
          IF o = "lost" \/ data = (authority = "sdk")
            THEN UNCHANGED <<authority, velocity, target>>
            ELSE /\ authority' = IF data THEN "sdk" ELSE "joystick"
                 /\ velocity' = "rest" /\ target' = "none"
    /\ UNCHANGED <<mode, origin, immediate, pc, arg, cmdVars>>

SetMoveModeOn ==
    /\ pc = "spin"
    /\ CancelFullDown
    /\ \E o \in Outcomes : AstrallSportModeControl("MOVE", "service", o)
    /\ UNCHANGED <<pc, arg, cmdVars>>

\* Broken variant of SetMoveModeOff: the motion is not stopped first.
SetMoveModeOffUnstopped ==
    /\ pc = "spin"
    /\ CancelFullDown
    /\ pc' = "mode" /\ arg' = "DAMPING"
    /\ stop_motion' = TRUE
    /\ UNCHANGED <<robotVars, cmdFresh>>

\* Out of MOVE there is no motion to stop before the soft emergency stop.
SetMoveModeOff ==
    /\ pc = "spin"
    /\ CancelFullDown
    /\ arg' = "DAMPING"
    /\ IF mode = "MOVE"
         THEN pc' = "stop" /\ UNCHANGED stop_motion
         ELSE pc' = "mode" /\ stop_motion' = TRUE
    /\ UNCHANGED <<robotVars, cmdFresh>>

\* stand() and down().
Posture(cmd) ==
    /\ pc = "spin"
    /\ CancelFullDown
    /\ pc' = "stop" /\ arg' = cmd
    /\ UNCHANGED <<robotVars, cmdVars>>

FullDown ==
    /\ pc = "spin"
    /\ pc' = "stop" /\ arg' = "fullDown"
    /\ UNCHANGED <<robotVars, cmdVars, downVars>>

\* AstrallMove(0, 0, 0) and stop_motion_ = true.
StopMotion ==
    /\ pc = "stop"
    /\ \E o \in Outcomes : AstrallMove("rest", o)
    /\ stop_motion' = TRUE
    /\ pc' = IF arg = "fullDown" THEN "downStatus" ELSE "mode"
    /\ UNCHANGED <<arg, cmdFresh, downVars>>

RequestMode ==
    /\ pc = "mode"
    /\ \E o \in Outcomes : AstrallSportModeControl(arg, "service", o)
    /\ pc' = "spin" /\ arg' = "none"
    /\ UNCHANGED <<cmdVars, downVars>>

\* fullDown() reads the status and starts the sequence ...
FullDownStatus ==
    /\ pc = "downStatus"
    /\ full_down_pending' = (mode # "DAMPING")
    /\ full_down_damping_requested' = FALSE
    /\ downFresh' = IF mode = "DAMPING" THEN downFresh ELSE TRUE
    /\ pc' = IF mode \in {"DAMPING", "FIXEDDOWN", "FIXEDDOWNING"}
               THEN "spin" ELSE "downMode"
    /\ arg' = "none"
    /\ UNCHANGED <<robotVars, cmdVars>>

\* ... with FIXEDDOWN, unless the robot already is or goes there.
FullDownMode ==
    /\ pc = "downMode"
    /\ \E o \in Outcomes :
          /\ AstrallSportModeControl("FIXEDDOWN", "fullDown", o)
          /\ full_down_pending' = Succeeded(o)
    /\ pc' = "spin"
    /\ UNCHANGED <<arg, cmdVars, full_down_damping_requested, downFresh>>

-----------------------------------------------------------------------------
(* statusTimer(): advanceFullDown(), then enforceCmdVelTimeout().          *)

\* Broken variant of StatusTimer: DAMPING whatever the posture.
StatusTimerEager ==
    /\ pc = "spin"
    /\ IF full_down_pending /\ (~downFresh \/ mode = "DAMPING")
         THEN full_down_pending' = FALSE /\ full_down_damping_requested' = FALSE
         ELSE UNCHANGED <<full_down_pending, full_down_damping_requested>>
    /\ pc' = IF full_down_pending' /\ ~full_down_damping_requested
               THEN "damp" ELSE "watchdog"
    /\ UNCHANGED <<robotVars, arg, cmdVars, downFresh>>

\* Broken variant of StatusTimer: the sequence never times out.
StatusTimerPatient ==
    /\ pc = "spin"
    /\ IF full_down_pending /\ mode = "DAMPING"
         THEN full_down_pending' = FALSE /\ full_down_damping_requested' = FALSE
         ELSE UNCHANGED <<full_down_pending, full_down_damping_requested>>
    /\ pc' = IF full_down_pending' /\ mode = "FIXEDDOWN" /\ ~full_down_damping_requested
               THEN "damp" ELSE "watchdog"
    /\ UNCHANGED <<robotVars, arg, cmdVars, downFresh>>

\* advanceFullDown() up to its mode command.
StatusTimer ==
    /\ pc = "spin"
    /\ IF full_down_pending /\ (~downFresh \/ mode = "DAMPING")
         THEN full_down_pending' = FALSE /\ full_down_damping_requested' = FALSE
         ELSE UNCHANGED <<full_down_pending, full_down_damping_requested>>
    /\ pc' = IF full_down_pending' /\ mode = "FIXEDDOWN" /\ ~full_down_damping_requested
               THEN "damp" ELSE "watchdog"
    /\ UNCHANGED <<robotVars, arg, cmdVars, downFresh>>

FullDownDamp ==
    /\ pc = "damp"
    /\ \E o \in Outcomes :
          /\ AstrallSportModeControl("DAMPING", "fullDown", o)
          /\ full_down_pending' = Succeeded(o)
          /\ full_down_damping_requested' = Succeeded(o)
    /\ pc' = "watchdog"
    /\ UNCHANGED <<arg, cmdVars, downFresh>>

\* Broken variant of Watchdog: the flag is set, the robot is not stopped.
WatchdogFlagOnly ==
    /\ pc = "watchdog"
    /\ stop_motion' = (stop_motion \/ ~cmdFresh)
    /\ pc' = "spin"
    /\ UNCHANGED <<robotVars, arg, cmdFresh, downVars>>

Watchdog ==
    /\ pc = "watchdog"
    /\ IF ~stop_motion /\ ~cmdFresh
         THEN stop_motion' = TRUE /\ \E o \in Outcomes : AstrallMove("rest", o)
         ELSE UNCHANGED <<stop_motion, robotVars>>
    /\ pc' = "spin"
    /\ UNCHANGED <<arg, cmdFresh, downVars>>

-----------------------------------------------------------------------------
Robot ==
    \/ RobotBegin \/ RobotFinish
    \/ JoystickTake
    \/ \E cmd \in ModeCmds : JoystickMode(cmd)

Time == CmdExpires \/ FullDownExpires

Service ==
    \/ \E data \in BOOLEAN : SetSdkAuth(data)
    \/ SetMoveModeOn
    \/ SetMoveModeOff
    \/ \E cmd \in {"FIXEDSTAND", "FIXEDDOWN"} : Posture(cmd)
    \/ FullDown

\* A callback that has begun goes on to its end.
Callback ==
    \/ CmdMove \/ StopMotion \/ RequestMode
    \/ FullDownStatus \/ FullDownMode
    \/ FullDownDamp \/ Watchdog

Next ==
    \/ Robot
    \/ Time
    \/ \E v \in Velocities : CmdVel(v)
    \/ Service
    \/ StatusTimer
    \/ Callback

Spec == Init /\ [][Next]_vars

\* SDK calls return within their timeout, the callback queue is first come,
\* first served, so the timer gets its turn, and the 15 s do elapse.
FairSpec ==
    /\ Spec
    /\ WF_vars(Callback)
    /\ SF_vars(StatusTimer)
    /\ WF_vars(FullDownExpires)

-----------------------------------------------------------------------------
(* Properties.                                                             *)

TypeOK ==
    /\ mode \in Modes
    /\ target \in ModeCmds \cup {"none"}
    /\ velocity \in Velocities
    /\ authority \in {"sdk", "joystick"}
    /\ immediate \in BOOLEAN
    /\ pc \in {"spin", "cmdMove", "stop", "mode", "downStatus", "downMode", "damp", "watchdog"}
    /\ pc = "cmdMove" => arg \in Velocities
    /\ pc = "stop" => arg \in {"DAMPING", "FIXEDSTAND", "FIXEDDOWN", "fullDown"}
    /\ pc = "mode" => arg \in {"DAMPING", "FIXEDSTAND", "FIXEDDOWN"}
    /\ stop_motion \in BOOLEAN /\ cmdFresh \in BOOLEAN
    /\ full_down_pending \in BOOLEAN /\ full_down_damping_requested \in BOOLEAN
    /\ downFresh \in BOOLEAN
    /\ origin \in {"none", "service", "fullDown", "joystick"}

(***************************************************************************)
(* The robot never executes a velocity of the SDK that the watchdog would  *)
(* not stop: wherever the services, the status changes and the joystick    *)
(* come in between, a moving robot means stop_motion_ is false.  It needs  *)
(* AstrallMove(0, 0, 0) never to be lost, since its result is ignored.     *)
(***************************************************************************)
WatchdogArmed == velocity # "rest" => ~stop_motion

(***************************************************************************)
(* fullDown(): "Always reach the mechanically safe FIXEDDOWN posture first *)
(* instead of damping from standing/MOVE."  A DAMPING that the sequence    *)
(* sent takes the support only from a robot that lies down, provided that  *)
(* its status shows an accepted mode command at once.                      *)
(***************************************************************************)
DampsOnlyLyingDown ==
    [][immediate /\ mode' = "DAMPING" /\ origin' = "fullDown" => mode \in {"FIXEDDOWN", "DAMPING"}]_mode

(***************************************************************************)
(* While the full-down sequence runs nothing sets the robot in motion: not *)
(* a cmd_vel that passed its checks before the sequence began, and not a   *)
(* mode change.                                                            *)
(***************************************************************************)
StillDuringFullDown == [][full_down_pending => velocity' \in {velocity, "rest"}]_vars

(***************************************************************************)
(* down(): "Never request FIXEDDOWN while a stale non-zero command is      *)
(* active."                                                                *)
(***************************************************************************)
DownOnlyAtRest == pc = "mode" /\ arg = "FIXEDDOWN" => velocity = "rest"

(***************************************************************************)
(* Once the commands stay away, the robot comes to rest and stays so.      *)
(***************************************************************************)
StaleCommandsStop == <>[](~cmdFresh) => <>[](velocity = "rest")

(***************************************************************************)
(* A full-down sequence does not last for ever: it completes, fails, times *)
(* out or is cancelled, and cmd_vel is heard again, whatever the robot and *)
(* the joystick do, unless full_down is called again and again.            *)
(***************************************************************************)
FullDownEnds ==
    <>[](pc # "downStatus") => (full_down_pending ~> ~full_down_pending)
=============================================================================
