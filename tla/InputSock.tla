------------------------------ MODULE InputSock ------------------------------
(***************************************************************************)
(* InputSock (driver/input) in its three variants: select and epoll under  *)
(* unix, and select under Windows.  A process has one table of descriptors *)
(* of which the kernel hands out the lowest free one; other threads open   *)
(* and close theirs meanwhile, and standard input is 0.                    *)
(***************************************************************************)
EXTENDS Integers, FiniteSets, Sequences, SequencesExt, FiniteSetsExt

CONSTANTS MaxFd,         \* bound: descriptors
          MaxOthers,     \* bound: descriptors other threads have opened
          MaxDatagrams   \* bound: datagrams sent to a socket

VARIABLES
    kind,          \* the variant compiled in
    ports,         \* the ports configured, apart from that of MSOP
    owner,         \* of each descriptor: "none", "input" or "other"
    fds, epfd,     \* fds_ by what they receive; epfd_
    init_flag,
    failed,        \* has init() failed?
    gone,          \* is the object destroyed?
    start_flag, to_exit_recv,
    recv,          \* the thread: "off", "wait", "read", "ended"
    events,        \* what select or epoll_wait reported and is still to be read
    waiting,       \* datagrams at each socket
    arrived,       \* history: datagrams sent to it
    leaked,        \* history: createSocket left a socket open
    broken,        \* history: select or epoll_wait failed
    robbed         \* history: descriptors of others that were closed

sockVars == <<kind, ports, owner, fds, epfd, init_flag, failed, gone, start_flag,
              to_exit_recv, recv, events, waiting, arrived, leaked, broken, robbed>>

Fds == 0 .. MaxFd
Roles == {"msop", "difop", "imu"}
Free == {f \in Fds : owner[f] = "none"}

\* epfd_ is not initialised, and int fds_[3]{-1} initialises only one to -1.
SockInit ==
    /\ kind \in {"select", "epoll", "win"}
    /\ ports \in SUBSET {"difop", "imu"}
    /\ owner = [f \in Fds |-> IF f = 0 THEN "other" ELSE "none"]
    /\ fds = [msop |-> -1, difop |-> 0, imu |-> 0]
    /\ epfd \in IF kind = "epoll" THEN {-1, 0, 1} ELSE {-1}
    /\ init_flag = FALSE /\ failed = FALSE /\ gone = FALSE
    /\ start_flag = FALSE /\ to_exit_recv = FALSE
    /\ recv = "off" /\ events = {} /\ waiting = [r \in Roles |-> 0]
    /\ arrived = [r \in Roles |-> 0]
    /\ leaked = FALSE /\ broken = FALSE /\ robbed = {}

-----------------------------------------------------------------------------
(* The user's thread.                                                      *)

\* What init() opens, in its order.
Opened == (IF kind = "epoll" THEN <<"epoll">> ELSE <<>>) \o <<"msop">>
             \o (IF "difop" \in ports THEN <<"difop">> ELSE <<>>)
             \o (IF "imu" \in ports THEN <<"imu">> ELSE <<>>)

\* The descriptor it gets for a role, -1 if it does not ask for one.
Got(role) ==
    IF role \notin Range(Opened) THEN -1
    ELSE LET k == CHOOSE k \in DOMAIN Opened : Opened[k] = role
         IN  CHOOSE f \in Free : Cardinality({g \in Free : g < f}) = k - 1

\* fds_ when init() returns, from the failure to open a role or from its end:
\* under unix it is set before the socket of the IMU is asked for, which the
\* epoll variant never stores.
SelectStores(at) ==
    IF at \notin {"imu", "end"} THEN fds
    ELSE [msop |-> Got("msop"), difop |-> Got("difop"),
          imu |-> IF at = "end" THEN Got("imu") ELSE fds.imu]
EpollStores(at) ==
    IF at \notin {"imu", "end"} THEN fds
    ELSE [fds EXCEPT !.msop = Got("msop"), !.difop = Got("difop")]
WinStores(at) ==
    IF at # "end" THEN fds
    ELSE [msop |-> Got("msop"), difop |-> Got("difop"), imu |-> Got("imu")]

Store(at) ==
    /\ fds' = CASE kind = "select" -> SelectStores(at)
                [] kind = "epoll"  -> EpollStores(at)
                [] kind = "win"    -> WinStores(at)
    /\ epfd' = IF kind = "epoll" /\ at \in {"imu", "end"} THEN Got("epoll") ELSE epfd

InitOk ==
    /\ ~init_flag /\ ~failed /\ Cardinality(Free) >= Len(Opened)
    /\ owner' = [f \in Fds |-> IF \E r \in Range(Opened) : f = Got(r) THEN "input" ELSE owner[f]]
    /\ Store("end")
    /\ init_flag' = TRUE
    /\ UNCHANGED <<kind, ports, failed, gone, start_flag, to_exit_recv, recv, events,
                   waiting, arrived, leaked, broken, robbed>>

\* The select variant's createSocket returns without closing the socket if its
\* receive buffer cannot be set.
Leaks == kind = "select"

\* Some descriptor is not to be had: those before it are closed again.
InitFails(role, leaks) ==
    /\ ~init_flag /\ ~failed
    /\ role \in Range(Opened) /\ Cardinality(Free) >= Len(Opened)
    /\ leaks => Leaks
    /\ Store(role)
    /\ owner' = IF leaks THEN [owner EXCEPT ![Got(role)] = "input"] ELSE owner
    /\ leaked' = leaks
    /\ failed' = TRUE
    /\ UNCHANGED <<kind, ports, init_flag, gone, start_flag, to_exit_recv, recv, events,
                   waiting, arrived, broken, robbed>>

Start ==
    /\ init_flag /\ ~start_flag /\ ~gone
    /\ to_exit_recv' = FALSE /\ recv' = "wait" /\ start_flag' = TRUE
    /\ UNCHANGED <<kind, ports, owner, fds, epfd, init_flag, failed, gone, events,
                   waiting, arrived, leaked, broken, robbed>>

StopTold ==
    /\ start_flag /\ ~to_exit_recv
    /\ to_exit_recv' = TRUE
    /\ UNCHANGED <<kind, ports, owner, fds, epfd, init_flag, failed, gone, start_flag, recv,
                   events, waiting, arrived, leaked, broken, robbed>>

StopJoined ==
    /\ start_flag /\ to_exit_recv /\ recv = "ended"
    /\ start_flag' = FALSE /\ recv' = "off"
    /\ UNCHANGED <<kind, ports, owner, fds, epfd, init_flag, failed, gone, to_exit_recv,
                   events, waiting, arrived, leaked, broken, robbed>>

\* Broken variant of Closed: the socket of the IMU is forgotten.
ClosedTwo == {fds.msop, fds.difop} \cup (IF kind = "epoll" THEN {epfd} ELSE {})

\* What the destructor closes.
Closed == {fds[r] : r \in Roles} \cup (IF kind = "epoll" THEN {epfd} ELSE {})

\* The driver drops the input after init() has failed, or with itself.
Destroy ==
    /\ (init_flag \/ failed) /\ ~start_flag /\ ~gone
    /\ gone' = TRUE
    /\ robbed' = {f \in Closed \cap Fds : owner[f] = "other"}
    /\ owner' = [f \in Fds |-> IF f \in Closed THEN "none" ELSE owner[f]]
    /\ UNCHANGED <<kind, ports, fds, epfd, init_flag, failed, start_flag, to_exit_recv, recv,
                   events, waiting, arrived, leaked, broken>>

-----------------------------------------------------------------------------
(* recv_thread.                                                            *)

ByRecv == UNCHANGED <<kind, ports, owner, fds, epfd, init_flag, failed, gone, start_flag,
                      to_exit_recv, arrived, leaked, robbed>>

\* The sockets that are waited for.
Watched == {r \in Roles : r = "msop" \/ r \in ports}

\* select or epoll_wait; on its timeout, or a signal, the loop restarts.
Wait ==
    /\ recv = "wait" /\ UNCHANGED <<waiting, broken>> /\ ByRecv
    /\ IF to_exit_recv THEN recv' = "ended" /\ UNCHANGED events
       ELSE /\ events' = {r \in Watched : waiting[r] > 0} /\ events' # {}
            /\ recv' = "read"

WaitFails ==
    /\ recv = "wait" /\ ~to_exit_recv
    /\ broken' = TRUE /\ recv' = "ended"
    /\ UNCHANGED <<waiting, events>> /\ ByRecv

\* What is left to read, once r has been.
ReadOn(r) == /\ events' = events \ {r}
             /\ recv' = IF events = {r} THEN "wait" ELSE "read"

\* select: recvmmsg takes all that waits (up to VLEN); its errors are passed over.
ReadSelect(r) ==
    /\ kind = "select" /\ recv = "read" /\ r \in events
    /\ \A q \in events : q = r \/ r = "msop" \/ q = "imu"   \* in the order of fds_
    /\ waiting' = [waiting EXCEPT ![r] = 0]
    /\ ReadOn(r) /\ UNCHANGED broken /\ ByRecv

\* select under Windows: one datagram from each.
ReadWin(r) ==
    /\ kind = "win" /\ recv = "read" /\ r \in events
    /\ \A q \in events : q = r \/ r = "msop" \/ q = "imu"
    /\ waiting' = [waiting EXCEPT ![r] = @ - 1]
    /\ ReadOn(r) /\ UNCHANGED broken /\ ByRecv

\* epoll: the event of the IMU's socket carries the descriptor of DIFOP's, and
\* nothing to read there ends the thread.
ReadEpoll(r) ==
    LET from == IF r = "imu" THEN "difop" ELSE r
    IN  /\ kind = "epoll" /\ recv = "read" /\ r \in events
        /\ IF waiting[from] > 0
           THEN waiting' = [waiting EXCEPT ![from] = @ - 1] /\ ReadOn(r)
           ELSE recv' = "ended" /\ events' = {} /\ UNCHANGED waiting
        /\ UNCHANGED broken /\ ByRecv

Read == \E r \in Roles : ReadSelect(r) \/ ReadWin(r) \/ ReadEpoll(r)

-----------------------------------------------------------------------------
(* The network and the process's other threads.                            *)

Arrive(r) ==
    /\ r \in Watched /\ init_flag /\ ~gone /\ arrived[r] < MaxDatagrams
    /\ arrived' = [arrived EXCEPT ![r] = @ + 1]
    /\ waiting' = [waiting EXCEPT ![r] = @ + 1]
    /\ UNCHANGED <<kind, ports, owner, fds, epfd, init_flag, failed, gone, start_flag,
                   to_exit_recv, recv, events, leaked, broken, robbed>>

OtherOpens ==
    /\ Free # {} /\ Cardinality({f \in Fds : owner[f] = "other"}) <= MaxOthers
    /\ owner' = [owner EXCEPT ![Min(Free)] = "other"]
    /\ UNCHANGED <<kind, ports, fds, epfd, init_flag, failed, gone, start_flag,
                   to_exit_recv, recv, events, waiting, arrived, leaked, broken, robbed>>

OtherCloses(f) ==
    /\ f > 0 /\ owner[f] = "other"
    /\ owner' = [owner EXCEPT ![f] = "none"]
    /\ UNCHANGED <<kind, ports, fds, epfd, init_flag, failed, gone, start_flag,
                   to_exit_recv, recv, events, waiting, arrived, leaked, broken, robbed>>

SockNext ==
    \/ InitOk \/ (\E r \in Roles \cup {"epoll"}, l \in BOOLEAN : InitFails(r, l))
    \/ Start \/ StopTold \/ StopJoined \/ Destroy
    \/ Wait \/ WaitFails \/ Read
    \/ \E r \in Roles : Arrive(r)
    \/ OtherOpens \/ \E f \in Fds : OtherCloses(f)

-----------------------------------------------------------------------------
\* Whoever opens descriptors meanwhile: an object whose init() succeeded closes
\* all of its own and none of another thread's; that holds of both select
\* variants.  With epoll_wait, or after a failed init(), 0 and numbers that may
\* by now be another thread's are closed too; but nothing is left open unless
\* the epoll variant has an IMU's socket or createSocket has left one.
DescriptorsRight ==
    gone =>
        /\ init_flag /\ kind # "epoll" => robbed = {}
        /\ ~leaked /\ ~(kind = "epoll" /\ "imu" \in ports) =>
             \A f \in Fds : owner[f] # "input"

\* While the thread is not told to stop, and select does not fail, it goes on
\* to read every socket; not so with epoll_wait and an IMU's socket.
SocketsServed ==
    \A r \in Roles :
        (recv # "off" /\ waiting[r] > 0)
            ~> (waiting[r] = 0 \/ to_exit_recv \/ broken \/ (kind = "epoll" /\ "imu" \in ports))
=============================================================================
