------------------------------ MODULE MCAstrall ------------------------------
(***************************************************************************)
(* The Astrall nodes.  In a behaviour the driver node works with callers   *)
(* who do as they please (AstrallDriver) or with the operator's teleop     *)
(* node (Teleop), converts IMU stamps (ImuStamp), starts its stream or the *)
(* H.264 node cuts images (Cameras), or the SDK's demo runs (Demo).        *)
(***************************************************************************)
EXTENDS Teleop, ImuStamp, Cameras

VARIABLES
    part,
    speed, kpc, left, mpc, unread, args, robot, moves, zeroed, late

SdkDemo == INSTANCE Demo WITH Axes <- {"vx", "vy"}

demoVars == <<speed, kpc, left, mpc, unread, args, robot, moves, zeroed, late>>
operatorVars == <<vars, teleVars>>
sensorVars == <<imuVars, streamVars, videoVars>>
mcVars == <<part, operatorVars, sensorVars, demoVars>>

\* The choices of a part that is not at work are fixed.  Teleop meets a robot
\* that shows an accepted mode at once, and no joystick.
MCInit ==
    /\ part \in {"driver", "teleop", "stamps", "stream", "video", "demo"}
    /\ Init /\ TeleopInit /\ ImuInit /\ CameraInit /\ SdkDemo!DemoInit
    /\ part # "driver" => authority = "sdk" /\ immediate = TRUE
    /\ part \notin {"driver", "teleop"} => mode = "DAMPING"
    /\ part # "stamps" => robotClock = rosClock /\ rosClock = 1 /\ unit = 0
    /\ part # "stream" => ~registered /\ ~streaming
    /\ part # "demo" => ~robot

MCNext ==
    \/ part = "driver" /\ Next /\ UNCHANGED <<part, teleVars, sensorVars, demoVars>>
    \/ part = "teleop" /\ TeleopNext /\ UNCHANGED <<part, sensorVars, demoVars>>
    \/ part = "stamps" /\ ImuNext /\ UNCHANGED <<part, operatorVars, streamVars, videoVars, demoVars>>
    \/ part = "stream" /\ StreamNext /\ UNCHANGED <<part, operatorVars, imuVars, videoVars, demoVars>>
    \/ part = "video" /\ VideoNext /\ UNCHANGED <<part, operatorVars, imuVars, streamVars, demoVars>>
    \/ part = "demo" /\ SdkDemo!DemoNext /\ UNCHANGED <<part, operatorVars, sensorVars>>
    \/ part \in {"stamps", "stream", "video"} /\ UNCHANGED mcVars     \* may end

\* The fairness of FairSpec.
DriverFair ==
    /\ WF_vars(part = "driver" /\ Callback)
    /\ SF_vars(part = "driver" /\ StatusTimer)
    /\ WF_vars(part = "driver" /\ FullDownExpires)

\* Teleop's loop goes round, its calls return, time passes; the driver serves
\* its timer and its messages in turn.
TeleopFair ==
    /\ WF_operatorVars(part = "teleop" /\ NoKey)
    /\ WF_operatorVars(part = "teleop" /\ CallReturns)
    /\ WF_operatorVars(part = "teleop" /\ KeyExpires)
    /\ WF_operatorVars(part = "teleop" /\ CmdExpires /\ UNCHANGED teleVars)
    /\ SF_operatorVars(part = "teleop" /\ StatusTimer /\ UNCHANGED teleVars)
    /\ SF_operatorVars(part = "teleop" /\ Delivered)
    /\ WF_operatorVars(part = "teleop" /\ StatusPublished)
    /\ WF_operatorVars(part = "teleop" /\ (CmdMove \/ StopMotion \/ RequestMode)
                                       /\ UNCHANGED teleVars)

\* Time passes, the H.264 node goes on, and a read() that could return is not
\* interrupted each time.  ffmpeg may fall silent whenever it likes.
CameraFair ==
    /\ WF_streamVars(part = "stream" /\ StreamNext)
    /\ WF_videoVars(part = "video" /\ Node)
    /\ SF_videoVars(part = "video" /\ (Read \/ ReadEnds))

\* Both threads go on, and AstrallMove is not lost each time.
DemoFair ==
    /\ WF_demoVars(part = "demo" /\ (SdkDemo!Zero \/ SdkDemo!Accelerate))
    /\ SF_demoVars(part = "demo" /\ SdkDemo!Wake)
    /\ WF_demoVars(part = "demo" /\ SdkDemo!Argument)
    /\ WF_demoVars(part = "demo" /\ \E lost \in BOOLEAN : SdkDemo!Move(lost))
    /\ SF_demoVars(part = "demo" /\ SdkDemo!Move(FALSE))

MCSpec == MCInit /\ [][MCNext]_mcVars /\ DriverFair /\ TeleopFair /\ CameraFair /\ DemoFair

-----------------------------------------------------------------------------
\* The robot rests when the operator's keys have come to an end (Teleop), and
\* the stop key of the demo ends its motion (Demo).
OperatorObeyed == (part = "teleop" => OperatorReleases) /\ SdkDemo!ZeroKeyStops

\* The images of either camera: the stream starts and stays, images cut from the
\* pipe are whole, and the H.264 node ends where the code lets it (Cameras).
CamerasRight == StreamStarts /\ []ImagesWhole /\ VideoEnds
=============================================================================
