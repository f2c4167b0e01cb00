------------------------------ MODULE InputFile ------------------------------
(***************************************************************************)
(* The inputs without a socket: InputPcap and InputPcapJumbo play a        *)
(* recording from recv_thread, InputRaw gets packets fed by the user.  The *)
(* recording, and what became of a jumbo datagram's fragments on their way *)
(* into it, is not bounded: fragments may be lost, repeated and in any     *)
(* order.                                                                  *)
(***************************************************************************)
EXTENDS Jumbo, FiniteSets

CONSTANTS
    Recording,       \* an InputPcap's file: a sequence of records, each
                     \* "msop", "difop", "imu", "other" or of "wrong" length
    MaxPasses        \* bound: how often it is played, or packets are fed

\* Datagrams have a part at least, and those that are told apart by their ids
\* have different ones.
ASSUME RecordingAssumption ==
    /\ Recording \in Seq({"msop", "difop", "imu", "other", "wrong"})
    /\ \A d \in DOMAIN Datagrams : Datagrams[d].id \in Nat /\ Datagrams[d].size \in Nat \ {0}
    /\ \A d, e \in DOMAIN Datagrams :
          Datagrams[d].id = Datagrams[e].id /\ Datagrams[d].id # 0 => d = e

VARIABLES
    kind,            \* what InputFactory made
    filters,         \* the records that are packets of this lidar
    pcap_repeat,
    pcap,            \* pcap_: "open" or "null"
    pos,             \* records read
    passes,          \* how often the file was opened
    jumbo,           \* jumbo_
    init_flag, start_flag, to_exit_recv,
    recv,            \* the thread: "off", "run", "ended", "crashed"
    pushed,          \* history: the last packet pushed, pass and record
    udp,             \* history: what the last fragment completed
    run,             \* history: how much of a datagram came in one go
    refused,         \* history: opening the file again failed
    restarted        \* history: was a finished playback started again?

fileVars == <<kind, filters, pcap_repeat, pcap, pos, passes, jumbo, init_flag, start_flag,
              to_exit_recv, recv, pushed, udp, run, refused, restarted>>
playVars == <<pos, passes, jumbo, pushed, udp, run>>
ctlVars  == <<kind, filters, pcap_repeat, init_flag, start_flag, to_exit_recv, restarted>>

NoRun == [of |-> 0, units |-> 0]

\* The three constructors.
InputPcap ==
    /\ kind = "pcap" /\ pcap_repeat \in BOOLEAN
    /\ filters \in {{"msop"} \cup S : S \in SUBSET {"difop", "imu"}}
InputPcapJumbo ==
    /\ kind = "pcapJumbo" /\ pcap_repeat \in BOOLEAN
    /\ filters = {}             \* udp; the port is looked at later
InputRaw == kind = "raw" /\ pcap_repeat = FALSE /\ filters = {}

createInput == InputPcap \/ InputPcapJumbo \/ InputRaw

FileInit ==
    /\ createInput
    /\ pcap = "null" /\ pos = 0 /\ passes = 0 /\ jumbo = JumboInit
    /\ init_flag = FALSE /\ start_flag = FALSE /\ to_exit_recv = FALSE
    /\ recv = "off" /\ pushed = <<0, 0>> /\ udp = NoDatagram /\ run = NoRun
    /\ refused = FALSE /\ restarted = FALSE

-----------------------------------------------------------------------------
(* The user's thread.                                                      *)

\* A file that cannot be opened ends it here.
FileOpen ==
    /\ kind # "raw" /\ ~init_flag
    /\ pcap' = "open" /\ passes' = 1 /\ init_flag' = TRUE
    /\ UNCHANGED <<kind, filters, pcap_repeat, pos, jumbo, start_flag, to_exit_recv, recv,
                   pushed, udp, run, refused, restarted>>

FileStart ==
    /\ init_flag /\ ~start_flag /\ recv # "crashed"
    /\ to_exit_recv' = FALSE /\ recv' = "run" /\ start_flag' = TRUE
    /\ restarted' = (restarted \/ pcap = "null")
    /\ UNCHANGED <<kind, filters, pcap_repeat, pcap, playVars, init_flag, refused>>

FileStopTold ==
    /\ start_flag /\ ~to_exit_recv /\ recv # "crashed"
    /\ to_exit_recv' = TRUE
    /\ UNCHANGED <<kind, filters, pcap_repeat, pcap, playVars, init_flag, start_flag, recv,
                   refused, restarted>>

FileStopJoined ==
    /\ start_flag /\ to_exit_recv /\ recv = "ended"
    /\ start_flag' = FALSE /\ recv' = "off"
    /\ UNCHANGED <<kind, filters, pcap_repeat, pcap, playVars, init_flag, to_exit_recv,
                   refused, restarted>>

\* feedPacket, on the thread of whoever calls decodePacket, started or not.
feedPacket ==
    /\ kind = "raw" /\ passes < MaxPasses
    /\ passes' = passes + 1 /\ pushed' = <<passes', 1>>
    /\ UNCHANGED <<ctlVars, pcap, pos, jumbo, recv, udp, run, refused>>

-----------------------------------------------------------------------------
(* recv_thread.  pcap_next_ex of a file that is not open ends the process. *)

FileExit ==
    /\ recv = "run" /\ to_exit_recv
    /\ recv' = "ended"
    /\ UNCHANGED <<ctlVars, pcap, playVars, refused>>

FileCrash ==
    /\ recv = "run" /\ ~to_exit_recv /\ pcap = "null"
    /\ recv' = "crashed"
    /\ UNCHANGED <<ctlVars, pcap, playVars, refused>>

\* The end of the file: it is closed, and if it is to be repeated opened again,
\* which may fail.
FileEnd ==
    /\ recv = "run" /\ ~to_exit_recv /\ pcap = "open"
    /\ IF kind = "pcap" THEN pos = Len(Recording) ELSE TRUE
    /\ IF pcap_repeat
       THEN /\ passes < MaxPasses
            /\ \/ /\ pcap' = "open" /\ passes' = passes + 1 /\ pos' = 0
                  /\ UNCHANGED <<refused, run>>
               \/ pcap' = "null" /\ refused' = TRUE /\ UNCHANGED <<pos, passes, run>>
            /\ UNCHANGED recv
       ELSE /\ pcap' = "null" /\ recv' = "ended"
            /\ UNCHANGED <<pos, passes, run, refused>>
    /\ UNCHANGED <<ctlVars, jumbo, pushed, udp>>

\* InputPcap: a record of one of the three ports, and of a possible length.
PcapRecord ==
    /\ kind = "pcap" /\ recv = "run" /\ ~to_exit_recv /\ pcap = "open"
    /\ pos < Len(Recording)
    /\ pos' = pos + 1
    /\ pushed' = IF Recording[pos'] \in filters THEN <<passes, pos'>> ELSE pushed
    /\ UNCHANGED <<ctlVars, pcap, passes, jumbo, recv, udp, run, refused>>

\* InputPcapJumbo: a fragment of any datagram.
JumboRecord(d, k) ==
    /\ kind = "pcapJumbo" /\ recv = "run" /\ ~to_exit_recv /\ pcap = "open"
    /\ LET r == new_fragment(jumbo, Fragment(d, k))
       IN  jumbo' = r.jumbo /\ udp' = r.udp
    /\ run' = IF k = 0 THEN [of |-> d, units |-> 1]
              ELSE IF run = [of |-> d, units |-> k] THEN [of |-> d, units |-> k + 1]
              ELSE NoRun
    /\ UNCHANGED <<ctlVars, pcap, pos, passes, recv, pushed, refused>>

FileNext ==
    \/ FileOpen \/ FileStart \/ FileStopTold \/ FileStopJoined \/ feedPacket
    \/ FileExit \/ FileCrash \/ FileEnd \/ PcapRecord
    \/ \E d \in DOMAIN Datagrams : \E k \in 0 .. Datagrams[d].size - 1 : JumboRecord(d, k)

-----------------------------------------------------------------------------
Wanted(p) == Recording[p] \in filters
Between(a, b) ==
    IF a[1] = b[1] THEN \E p \in a[2] + 1 .. b[2] - 1 : Wanted(p)
    ELSE \/ b[1] > a[1] + 1 /\ \E p \in DOMAIN Recording : Wanted(p)
         \/ \E p \in a[2] + 1 .. Len(Recording) : a[2] > 0 /\ Wanted(p)
         \/ \E p \in 1 .. b[2] - 1 : Wanted(p)

\* A recording is played in its order and without gaps or repetitions, however
\* often sessions are stopped and started in the middle, and pass after pass.
PlayedInOrder ==
    [][kind = "pcap" /\ pushed' # pushed =>
        /\ pushed'[1] > pushed[1] \/ (pushed'[1] = pushed[1] /\ pushed'[2] > pushed[2])
        /\ ~Between(pushed, pushed')]_fileVars

\* Reading goes on without a file only if opening it again failed, or if a
\* session is started after the recording was played to its end.
ReadsOpenFile == recv = "crashed" => refused \/ restarted

\* Whatever fragments are lost, repeated or in another order, a datagram put
\* together has all parts of one datagram in their places, and one whose
\* fragments come in one go is put together.  This does not hold of the id 0,
\* which also stands for no datagram.
DatagramsWhole ==
    LET fine(d) == Datagrams[d].id # 0
    IN  /\ udp # NoDatagram =>
             \E d \in DOMAIN Datagrams : udp[Len(udp)][1] = d /\ (fine(d) => udp = Whole(d))
        /\ \A d \in DOMAIN Datagrams :
             fine(d) /\ run = [of |-> d, units |-> Datagrams[d].size] => udp = Whole(d)

\* All of it, in one session after another.
RecordingRight == [](ReadsOpenFile /\ DatagramsWhole) /\ PlayedInOrder
=============================================================================
