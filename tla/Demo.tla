-------------------------------- MODULE Demo --------------------------------
(***************************************************************************)
(* The SDK's demo (demo/src): a thread of KeyBoard handles the keys while  *)
(* main() sends the velocity every 20 ms.  Both ask the robot and share    *)
(* vx, vy and vyaw without a lock.  Nothing outside the demo stops the     *)
(* robot; it is modelled as in AstrallDriver.                              *)
(***************************************************************************)
EXTENDS Naturals

CONSTANTS Axes      \* bound: some of vx, vy and vyaw

VARIABLES
    speed,      \* is vx, vy, vyaw non-zero?
    kpc, left,  \* KeyBoard's thread: "select", "zero" with the axes left to
                \* clear, or "axis" with the one a motion key asks for
    mpc,        \* main(): "sleep", "args" or "move"
    unread, args,   \* AstrallMove's arguments, and those still to be read
    robot,      \* AstrallGetSportStatus() = ASTRALL_SPORT_STATUS_MOVE
    moves,      \* the robot executes a non-zero velocity
    zeroed,     \* history: '0' was the last velocity key, and has been handled
    late        \* history: non-zero AstrallMove() since then, at most 2 counted

demoVars == <<speed, kpc, left, mpc, unread, args, robot, moves, zeroed, late>>

DemoInit ==
    /\ speed = [a \in Axes |-> FALSE] /\ kpc = "select" /\ left = {}
    /\ mpc = "sleep" /\ unread = {} /\ args = [a \in Axes |-> FALSE]
    /\ robot \in BOOLEAN /\ moves = FALSE /\ zeroed = FALSE /\ late = 0

-----------------------------------------------------------------------------
(* keyboardHandle().                                                       *)

Key0 ==
    /\ kpc = "select"
    /\ kpc' = "zero" /\ left' = Axes
    /\ UNCHANGED <<speed, mpc, unread, args, robot, moves, zeroed, late>>

Zero ==
    /\ kpc = "zero"
    /\ \E a \in left : speed' = [speed EXCEPT ![a] = FALSE] /\ left' = left \ {a}
    /\ IF left' = {} THEN kpc' = "select" /\ zeroed' = TRUE /\ late' = 0
                     ELSE UNCHANGED <<kpc, zeroed, late>>
    /\ UNCHANGED <<mpc, unread, args, robot, moves>>

\* w, s, a, d, q and e: ignored out of MOVE.
MotionKey(a) ==
    /\ kpc = "select" /\ robot
    /\ kpc' = "axis" /\ left' = {a}
    /\ zeroed' = FALSE /\ late' = 0
    /\ UNCHANGED <<speed, mpc, unread, args, robot, moves>>

\* A key more of its direction, or one back to zero.
Accelerate ==
    /\ kpc = "axis"
    /\ \E a \in left, on \in BOOLEAN : speed' = [speed EXCEPT ![a] = on]
    /\ kpc' = "select" /\ left' = {}
    /\ UNCHANGED <<mpc, unread, args, robot, moves, zeroed, late>>

\* 1 to 6 and 9, or the joystick: the robot enters or leaves MOVE, and the
\* velocities stay as they are.
Mode ==
    /\ kpc = "select"
    /\ robot' = ~robot /\ moves' = FALSE
    /\ UNCHANGED <<speed, kpc, left, mpc, unread, args, zeroed, late>>

-----------------------------------------------------------------------------
(* A round of main().                                                      *)

Wake ==
    /\ mpc = "sleep" /\ robot
    /\ mpc' = "args" /\ unread' = Axes
    /\ UNCHANGED <<speed, kpc, left, args, robot, moves, zeroed, late>>

\* The arguments are read one by one, in no fixed order.
Argument ==
    /\ mpc = "args"
    /\ \E a \in unread :
          args' = [args EXCEPT ![a] = speed[a]] /\ unread' = unread \ {a}
    /\ mpc' = IF unread' = {} THEN "move" ELSE "args"
    /\ UNCHANGED <<speed, kpc, left, robot, moves, zeroed, late>>

Move(lost) ==
    /\ mpc = "move"
    /\ LET moving == \E a \in Axes : args[a]
       IN  /\ moves' = IF robot /\ ~lost THEN moving ELSE moves
           /\ late' = IF zeroed /\ moving /\ late < 2 THEN late + 1 ELSE late
    /\ mpc' = "sleep"
    /\ UNCHANGED <<speed, kpc, left, unread, args, robot, zeroed>>

DemoNext ==
    \/ Key0 \/ Zero \/ Accelerate \/ Mode
    \/ \E a \in Axes : MotionKey(a)
    \/ Wake \/ Argument \/ \E lost \in BOOLEAN : Move(lost)

-----------------------------------------------------------------------------
\* After '0' at most one more non-zero velocity is sent, the one whose
\* arguments were being read, until a motion key; and if none is pressed any
\* more the robot comes to rest, also if it leaves MOVE and enters it again.
ZeroKeyStops ==
    /\ [](late <= 1)
    /\ <>[]zeroed => <>[](~moves)
=============================================================================
