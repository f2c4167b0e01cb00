------------------------------ MODULE Cameras ------------------------------
(***************************************************************************)
(* The two ways to the robot's images.  astrall_driver_node.cpp registers  *)
(* a load task once and asks for the RGB stream from statusTimer() until   *)
(* the SDK grants it; astrall_h264_camera_node.cpp has ffmpeg decode the   *)
(* video and cuts images from the bytes of its pipe.                       *)
(***************************************************************************)
EXTENDS Naturals, Sequences

CONSTANTS
    Attempts,       \* bound: camera_stream_max_retries, which may be 0, without end
    FrameSize,      \* bound: pieces of an image
    PipeSize        \* bound: pieces the pipe holds

\* An image is not empty.
ASSUME CameraAssumption == FrameSize \in Nat \ {0}

VARIABLES
    registered,     \* camera_load_task_registered_
    reset,          \* camera_stream_reset_done_
    active,         \* camera_stream_active_
    attempts,       \* camera_stream_attempts_
    due,            \* the start delay or the retry interval has passed
    streaming,      \* the SDK's stream
    npc,            \* the H.264 node: "start", "check", "read", "publish",
                    \* "stop" or "ended"
    rosOk,          \* ros::ok()
    child,          \* ffmpeg: "none", "running", "ended" or "reaped"
    fd,             \* is ffmpeg_stdout_ open?
    pipe,           \* pieces <<frame, place>> in the pipe; two frames in turn
    made,           \* how many ffmpeg has written, in those two frames
    frame, offset,  \* of readFrame()
    image           \* history: the last one published

streamVars == <<registered, reset, active, attempts, due, streaming>>
videoVars == <<npc, rosOk, child, fd, pipe, made, frame, offset, image>>

CameraInit ==
    /\ registered \in BOOLEAN               \* initCameraStream()
    /\ reset = FALSE /\ active = FALSE /\ attempts = 0
    /\ due = FALSE /\ streaming \in BOOLEAN
    /\ npc = "start" /\ rosOk = TRUE /\ child = "none" /\ fd = FALSE
    /\ pipe = <<>> /\ made = 0
    /\ frame = [i \in 1..FrameSize |-> <<2, 0>>] /\ offset = 0 /\ image = <<>>

-----------------------------------------------------------------------------
(* The stream of the driver node.                                          *)

TimePasses ==
    /\ ~due /\ due' = TRUE
    /\ UNCHANGED <<registered, reset, active, attempts, streaming>>

\* retryCameraStream() has nothing to do yet, or any more.
Waits == active \/ ~registered \/ ~due \/ (reset /\ attempts >= Attempts)

\* The stream an earlier process may have left is closed; the result is not
\* looked at.
Reset ==
    /\ ~Waits /\ ~reset
    /\ reset' = TRUE /\ due' = FALSE
    /\ streaming' \in {streaming, FALSE}
    /\ UNCHANGED <<registered, active, attempts>>

\* requestCameraStream(): granted, or refused though it may have taken effect.
Request ==
    /\ ~Waits /\ reset
    /\ due' = FALSE
    /\ attempts' = attempts + 1
    /\ \/ active' = TRUE /\ streaming' = TRUE
       \/ UNCHANGED active /\ streaming' \in {streaming, TRUE}
    /\ UNCHANGED <<registered, reset>>

StreamNext == TimePasses \/ Reset \/ Request

-----------------------------------------------------------------------------
(* The H.264 node.                                                         *)

\* startFfmpeg(): pipe() or fork() may fail.
StartFfmpeg ==
    /\ npc = "start"
    /\ \/ npc' = "check" /\ child' = "running" /\ fd' = TRUE
       \/ npc' = "stop" /\ UNCHANGED <<child, fd>>
    /\ UNCHANGED <<rosOk, pipe, made, frame, offset, image>>

FfmpegWrites ==
    /\ child = "running" /\ fd /\ Len(pipe) < PipeSize
    /\ pipe' = Append(pipe, <<made \div FrameSize, made % FrameSize>>)
    /\ made' = (made + 1) % (2 * FrameSize)
    /\ UNCHANGED <<npc, rosOk, child, fd, frame, offset, image>>

\* It could not be executed, was interrupted, or there is no video any more.
FfmpegEnds ==
    /\ child = "running" /\ child' = "ended"
    /\ UNCHANGED <<npc, rosOk, fd, pipe, made, frame, offset, image>>

\* readFrame() before each read(): a whole frame, or the node has been told to
\* stop.
ReadOn ==
    /\ npc = "check"
    /\ npc' = IF offset = FrameSize THEN "publish" ELSE IF rosOk THEN "read" ELSE "stop"
    /\ UNCHANGED <<rosOk, child, fd, pipe, made, frame, offset, image>>

\* The frame with n pieces read after those it has.
Placed(n) ==
    [i \in 1..FrameSize |->
        IF i \in offset + 1..offset + n THEN pipe[i - offset] ELSE frame[i]]

\* read() returns some of what is there.
Read ==
    /\ npc = "read"
    /\ \E n \in 1..FrameSize - offset :
          /\ n <= Len(pipe)
          /\ frame' = Placed(n)
          /\ offset' = offset + n
          /\ pipe' = SubSeq(pipe, n + 1, Len(pipe))
    /\ npc' = "check"
    /\ UNCHANGED <<rosOk, child, fd, made, image>>

\* EINTR; nothing sends the signal to a node that is only shut down.
Interrupted ==
    /\ npc = "read"
    /\ npc' = "check"
    /\ UNCHANGED <<rosOk, child, fd, pipe, made, frame, offset, image>>

\* Broken variant of ReadEnds: the end of the pipe is taken for an interruption.
ReadTriedAgain ==
    /\ npc = "read" /\ pipe = <<>> /\ child = "ended"
    /\ npc' = "check"
    /\ UNCHANGED <<rosOk, child, fd, pipe, made, frame, offset, image>>

\* read() fails, or the pipe is empty and ffmpeg has ended.
ReadEnds ==
    /\ npc = "read" /\ pipe = <<>> /\ child = "ended"
    /\ npc' = "stop"
    /\ UNCHANGED <<rosOk, child, fd, pipe, made, frame, offset, image>>

Publish ==
    /\ npc = "publish"
    /\ image' = frame /\ offset' = 0
    /\ npc' = IF rosOk THEN "check" ELSE "stop"
    /\ UNCHANGED <<rosOk, child, fd, pipe, made, frame>>

\* stopFfmpeg(): close(), kill() and waitpid().
StopFfmpeg ==
    /\ npc = "stop"
    /\ npc' = "ended" /\ fd' = FALSE
    /\ child' = IF child = "none" THEN "none" ELSE "reaped"
    /\ UNCHANGED <<rosOk, pipe, made, frame, offset, image>>

Shutdown ==
    /\ rosOk /\ rosOk' = FALSE
    /\ UNCHANGED <<npc, child, fd, pipe, made, frame, offset, image>>

Node == StartFfmpeg \/ ReadOn \/ Read \/ ReadEnds \/ Publish \/ StopFfmpeg
VideoNext == Node \/ Interrupted \/ FfmpegWrites \/ FfmpegEnds \/ Shutdown

-----------------------------------------------------------------------------
\* However read() cuts the bytes, a published image is one frame of the video.
ImagesWhole ==
    image # <<>> => \E k \in {0, 1} : image = [i \in 1..FrameSize |-> <<k, i - 1>>]

\* read() has nothing to return: nobody but ffmpeg ends the wait.
Blocked == npc = "read" /\ pipe = <<>> /\ child = "running"

(***************************************************************************)
(* A node whose ffmpeg has ended ends, whatever is left in the pipe and    *)
(* however often read() is interrupted.  A node told to stop ends too, or  *)
(* stays in read() for good: nothing in the code ends the wait for a       *)
(* running ffmpeg that writes no more.  A node that has ended has waited   *)
(* for its child and closed the pipe.                                      *)
(***************************************************************************)
VideoEnds ==
    /\ child = "ended" ~> npc = "ended"
    /\ <>[](rosOk \/ npc = "ended" \/ Blocked)
    /\ [](npc = "ended" => ~fd /\ child \in {"none", "reaped"})

\* The stream is granted in the end unless all attempts were refused.  One that
\* is granted runs; it is not asked for again, and no reset closes it.
StreamStarts ==
    /\ registered ~> (active \/ attempts = Attempts)
    /\ [][active => streaming /\ UNCHANGED <<attempts, streaming>>]_streamVars
=============================================================================
