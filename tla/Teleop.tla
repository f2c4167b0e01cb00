------------------------------- MODULE Teleop -------------------------------
(***************************************************************************)
(* astrall_keyboard_teleop_node.cpp together with the driver node: the     *)
(* operator's keys become messages on /cmd_vel and calls of the driver's   *)
(* services, and the driver publishes the sport status teleop decides on.  *)
(* Messages, calls and the status travel on connections of their own and   *)
(* overtake one another.  One round of teleop's loop is a step, up to its  *)
(* service call, which blocks it.                                          *)
(***************************************************************************)
EXTENDS AstrallDriver, Integers, Sequences

CONSTANTS MaxQueued      \* bound: messages on /cmd_vel, the oldest of which
                         \* gives way to a new one
VARIABLES
    tpc,             \* "loop", "stand", "down" or "move" (the call is made),
                     \* "served" (its callback has begun) or "ended"
    motion_active,   \* command is the last motion key's
    keyFresh,        \* last_motion_key is less than key_timeout ago
    sport_status,    \* the last status teleop has received
    statusMsg,       \* the last one the driver has published
    cmd_vel          \* messages under way

teleVars == <<tpc, motion_active, keyFresh, sport_status, statusMsg, cmd_vel>>
teleCtl  == <<tpc, motion_active, keyFresh, sport_status>>

TeleopInit ==
    /\ tpc = "loop" /\ motion_active = FALSE /\ keyFresh = FALSE
    /\ sport_status = "none" /\ statusMsg = "none" /\ cmd_vel = <<>>

\* With the messages msgs published.
Published(msgs) ==
    LET all == cmd_vel \o msgs
    IN  IF Len(all) <= MaxQueued THEN all
        ELSE SubSeq(all, Len(all) - MaxQueued + 1, Len(all))

\* Broken variant of RoundEnds: the last motion key counts for ever.
RoundEndsLate(active, fresh, sent) ==
    LET moving == active /\ sport_status = "MOVE"
    IN  /\ motion_active' = moving
        /\ cmd_vel' = Published(sent \o (IF moving THEN <<"moving">> ELSE <<>>))
        /\ sport_status' \in {sport_status, statusMsg}

\* The end of a round: the key's timeout, the status, and publishing while in
\* motion; spinOnce() takes what has arrived of the status.  active and fresh
\* are as the key left them, sent what it published.
RoundEnds(active, fresh, sent) ==
    LET moving == active /\ fresh /\ sport_status = "MOVE"
    IN  /\ motion_active' = moving
        /\ cmd_vel' = Published(sent \o (IF active /\ ~fresh THEN <<"rest">> ELSE <<>>)
                                     \o (IF moving THEN <<"moving">> ELSE <<>>))
        /\ sport_status' \in {sport_status, statusMsg}

\* A round without a key, or with one that means nothing.
NoKey ==
    /\ tpc = "loop"
    /\ RoundEnds(motion_active, keyFresh, <<>>)
    /\ UNCHANGED <<vars, tpc, keyFresh, statusMsg>>

\* w, s, a, d, q and e.
MotionKey ==
    /\ tpc = "loop"
    /\ keyFresh' = (keyFresh \/ sport_status = "MOVE")
    /\ IF sport_status = "MOVE" THEN RoundEnds(TRUE, TRUE, <<>>)
       ELSE RoundEnds(motion_active, keyFresh, <<>>)
    /\ UNCHANGED <<vars, tpc, statusMsg>>

\* x and space.
StopKey ==
    /\ tpc = "loop"
    /\ RoundEnds(FALSE, keyFresh, <<"rest">>)
    /\ UNCHANGED <<vars, tpc, keyFresh, statusMsg>>

\* 2, 3 and 4: a zero velocity first, then the service.
ServiceKey(call) ==
    /\ tpc = "loop"
    /\ call = "move" => sport_status = "FIXEDSTAND"
    /\ tpc' = call
    /\ motion_active' = FALSE
    /\ cmd_vel' = Published(<<"rest">>)
    /\ UNCHANGED <<vars, keyFresh, sport_status, statusMsg>>

\* The driver begins to serve the call.
Served ==
    /\ \/ tpc = "stand" /\ Posture("FIXEDSTAND")
       \/ tpc = "down" /\ Posture("FIXEDDOWN")
       \/ tpc = "move" /\ SetMoveModeOn
    /\ tpc' = "served"
    /\ UNCHANGED <<motion_active, keyFresh, sport_status, statusMsg, cmd_vel>>

\* The call returns, served or not, and the round ends.
CallReturns ==
    /\ (tpc = "served" /\ pc = "spin") \/ tpc \in {"stand", "down", "move"}
    /\ tpc' = "loop"
    /\ RoundEnds(motion_active, keyFresh, <<>>)
    /\ UNCHANGED <<vars, keyFresh, statusMsg>>

\* Ctrl-C, with a last zero velocity that may not get out any more, or an
\* exception or a crash without one.
Exit ==
    /\ tpc = "loop"
    /\ tpc' = "ended" /\ motion_active' = FALSE
    /\ cmd_vel' \in {cmd_vel, Published(<<"rest">>)}
    /\ UNCHANGED <<vars, keyFresh, sport_status, statusMsg>>

KeyExpires ==
    /\ keyFresh /\ keyFresh' = FALSE
    /\ UNCHANGED <<vars, tpc, motion_active, sport_status, statusMsg, cmd_vel>>

\* The driver takes the next message.
Delivered ==
    /\ cmd_vel # <<>>
    /\ \/ CmdVel(Head(cmd_vel))
       \/ pc = "spin" /\ full_down_pending /\ UNCHANGED vars
    /\ cmd_vel' = Tail(cmd_vel)
    /\ UNCHANGED <<teleCtl, statusMsg>>

\* publishStatus(), between the sequence and the watchdog.
StatusPublished ==
    /\ Watchdog
    /\ statusMsg' = mode
    /\ UNCHANGED <<teleCtl, cmd_vel>>

DriverAlone ==
    /\ \/ RobotBegin \/ RobotFinish \/ CmdExpires \/ StatusTimer
       \/ CmdMove \/ StopMotion \/ RequestMode
    /\ UNCHANGED teleVars

TeleopNext ==
    \/ NoKey \/ MotionKey \/ StopKey \/ CallReturns \/ Exit \/ KeyExpires
    \/ \E call \in {"stand", "down", "move"} : ServiceKey(call)
    \/ Served \/ Delivered \/ StatusPublished \/ DriverAlone

-----------------------------------------------------------------------------
(***************************************************************************)
(* When the operator's keys have come to an end, by release, by lost       *)
(* focus or because teleop is gone, the robot comes to rest and stays so,  *)
(* whatever messages were still under way or have been dropped.            *)
(***************************************************************************)
OperatorReleases == <>[](~keyFresh) => <>[](velocity = "rest")
=============================================================================
