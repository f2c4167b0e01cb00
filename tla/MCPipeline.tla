------------------------------ MODULE MCPipeline ------------------------------
(***************************************************************************)
(* The driver's inputs beside its packet pipeline.  In a behaviour packets *)
(* go from the socket through the queues to the decoder (PacketPipeline),  *)
(* or one of the inputs works by itself (InputSock, InputFile).            *)
(***************************************************************************)
EXTENDS PacketPipeline, InputFile

VARIABLES
    part,
    input, ports, owner, fds, epfd, sock_init, failed, gone, sock_start, sock_exit, sock_recv,
    events, waiting, arrived, leaked, broken, robbed

sockVars == <<input, ports, owner, fds, epfd, sock_init, failed, gone, sock_start, sock_exit,
              sock_recv, events, waiting, arrived, leaked, broken, robbed>>
mcVars == <<part, vars, sockVars, fileVars>>

Sock == INSTANCE InputSock WITH
    MaxFd <- 5, MaxOthers <- 1, MaxDatagrams <- 2,
    kind <- input, init_flag <- sock_init, start_flag <- sock_start,
    to_exit_recv <- sock_exit, recv <- sock_recv

MCRecording == <<"msop", "difop", "wrong", "imu", "other", "msop">>

\* Datagrams 3 and 5 have the id that also stands for none.
MCDatagrams ==
    <<[id |-> 1, size |-> 3], [id |-> 2, size |-> 2], [id |-> 0, size |-> 3],
      [id |-> 3, size |-> 1], [id |-> 0, size |-> 1]>>

\* The choices of a part that is not at work are fixed.
MCInit ==
    /\ part \in {"pipeline", "socket", "file"}
    /\ Init /\ Sock!SockInit /\ FileInit
    /\ part # "socket" => input = "select" /\ ports = {}
    /\ part # "file" => kind = "raw"

MCNext ==
    \/ part = "pipeline" /\ Next /\ UNCHANGED <<part, sockVars, fileVars>>
    \/ part = "socket" /\ Sock!SockNext /\ UNCHANGED <<part, vars, fileVars>>
    \/ part = "file" /\ FileNext /\ UNCHANGED <<part, vars, sockVars>>
    \/ part # "pipeline" /\ UNCHANGED mcVars      \* only the pipeline must not get stuck

\* FairSpec's fairness, and that of a socket's thread: it goes on when there
\* is something to read or it has been told to stop.
MCSpec ==
    /\ MCInit /\ [][MCNext]_mcVars
    /\ WF_vars(part = "pipeline" /\ RecvProgress)
    /\ WF_vars(part = "pipeline" /\ Handle)
    /\ WF_vars(part = "pipeline" /\ StopProgress)
    /\ WF_sockVars(part = "socket" /\ Sock!Wait)
    /\ WF_sockVars(part = "socket" /\ Sock!Read)

\* A socket input closes what is its own, and its thread reads every socket
\* (InputSock).
SocketsRight == part = "socket" => ([]Sock!DescriptorsRight /\ Sock!SocketsServed)
=============================================================================
