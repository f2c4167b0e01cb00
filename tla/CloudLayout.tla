--------------------------- MODULE CloudLayout ---------------------------
(***************************************************************************)
(* Where the points of a packet end up: in the rows and columns of a       *)
(* cloud, whose header is written when a frame is split off, and of the    *)
(* message the cloud becomes.  A decoder goes through the blocks of a      *)
(* packet and their channels; it stops at a block without the block id.    *)
(* Beside it isNewFrame looks for the split in the packet alone.  A cloud  *)
(* is the sequence of its blocks: a block has n points, of one group of    *)
(* blocks that were fired together, and its channels begin at a base.      *)
(***************************************************************************)
EXTENDS SplitStrategy, LidarModels, FiniteSets, FiniteSetsExt

CONSTANTS
    Start,           \* azimuth of the first firing, in 0.01 degree
    PacketsPerFrame, \* packets of a solid-state frame
    Blind,           \* packets in which no point is valid
    MaxPackets,      \* bound: packets a mechanical lidar sends
    MaxFaults        \* bound: packets lost or with a wrong block id; so few
                     \* that no outage lasts the rest of a revolution, after
                     \* which isNewFrame may miss one

VARIABLES
    scanner,       \* the lidar, its return mode, and the parameter dense_points
    taken,         \* the last packet that was received
    faults,        \* the packets so far that were lost or had a wrong block id
    strategy,      \* split_strategy_: the last azimuth or the numbers so far
    pre_strategy,  \* pre_split_strategy_, pre_split_strategy_comm_
    points,        \* point_cloud_: its blocks, and whether a firing is cut in half
    clouds,        \* history: the clouds split off by the last packet
    foreseen,      \* history: what isNewFrame and the decoder said of that packet
    misread        \* history: they have read different blocks of a packet

layoutVars == <<scanner, taken, faults, strategy, pre_strategy, points, clouds,
               foreseen, misread>>

-----------------------------------------------------------------------------
(* Of each lidar the lasers, the blocks of a packet, the channels of a     *)
(* block, and how many bytes of the block id decoding and isNewFrame       *)
(* compare.                                                                *)

Packets(lasers, blocks, channels, idBytes, preBytes) ==
    [lasers |-> lasers, blocks |-> blocks, channels |-> channels,
     idBytes |-> idBytes, preBytes |-> preBytes]

RS16_Packet == Packets(16, 12, 32, 2, 2)
RSHELIOS_16P_Packet == Packets(16, 12, 32, 2, 2)
RS32_Packet == Packets(32, 12, 32, 2, 2)
RSBP_Packet == Packets(32, 12, 32, 2, 2)
RSHELIOS_Packet == Packets(32, 12, 32, 2, 2)
RS48_Packet == Packets(48, 8, 48, 1, 1)
RSP48_Packet == Packets(48, 8, 48, 1, 1)
RS80_Packet == Packets(80, 4, 80, 1, 1)
RSP80_Packet == Packets(80, 4, 80, 1, 1)
RS128_Packet == Packets(128, 3, 128, 1, 1)
RSP128_Packet == Packets(128, 3, 128, 1, 1)
RSAIRY_Packet(lasers) == Packets(lasers, 8, 48, 2, 1)
RSFAIRY_Packet(lasers) == Packets(lasers, 8, 48, 2, 1)
RSM1_Packet == Packets(5, 25, 5, 0, 0)
RSM2_Packet == Packets(5, 25, 5, 0, 0)
RSM3_Packet == Packets(28, 5, 28, 0, 0)
RSE1_Packet == Packets(1, 96, 1, 0, 0)
RSMX_Packet == Packets(2, 50, 2, 0, 0)
RSEMX_Packet == Packets(1, 192, 1, 0, 0)

PacketOf ==
    [RS16 |-> RS16_Packet, RSHELIOS_16P |-> RSHELIOS_16P_Packet, RS32 |-> RS32_Packet,
     RSBP |-> RSBP_Packet, RSHELIOS |-> RSHELIOS_Packet, RS48 |-> RS48_Packet,
     RSP48 |-> RSP48_Packet, RS80 |-> RS80_Packet, RSP80 |-> RSP80_Packet,
     RS128 |-> RS128_Packet, RSP128 |-> RSP128_Packet,
     RSAIRY_48 |-> RSAIRY_Packet(48), RSAIRY_96 |-> RSAIRY_Packet(96),
     RSFAIRY_48 |-> RSFAIRY_Packet(48), RSFAIRY_96 |-> RSFAIRY_Packet(96),
     RSM1 |-> RSM1_Packet, RSM2 |-> RSM2_Packet, RSM3 |-> RSM3_Packet,
     RSE1 |-> RSE1_Packet, RSMX |-> RSMX_Packet, RSEMX |-> RSEMX_Packet]

P == PacketOf[scanner.model]
M == ModelOf[scanner.model]
IsMech == M.kind = "mech"
It == M.iterator[IF scanner.dual THEN "dual" ELSE "single"]
\* Two blocks make the channels of one firing.
Halves == P.lasers = 2 * P.channels

-----------------------------------------------------------------------------
(* The lidar.  A revolution takes a little less than three packets.        *)

GroupOf(p, b) == ((p - 1) * P.blocks + b - 1) \div It.per
Step == RS_ONE_ROUND \div ((3 * P.blocks - 1) \div It.per)
Azimuth(p, b) == (Start + GroupOf(p, b) * Step) % RS_ONE_ROUND
\* The number in the header of a packet, and what the decoder makes of it.
RawSeq(p) == ((p - 1) % PacketsPerFrame) + 1
PktSeq(p) == RawSeq(p) + M.first - 1

Scanners ==
    {l \in [model : DOMAIN PacketOf, dual : BOOLEAN, dense : BOOLEAN] :
        ModelOf[l.model].kind = "seq" /\ l.model # "RSMX" => ~l.dual}

NoPoints == [blocks |-> <<>>, size |-> 0, cut |-> FALSE]

Init ==
    /\ scanner \in Scanners
    /\ taken = 0 /\ faults = 0
    /\ strategy = IF IsMech THEN 0 ELSE InitSeq
    /\ pre_strategy = strategy
    /\ points = NoPoints /\ clouds = <<>>
    /\ foreseen = <<FALSE, FALSE>> /\ misread = FALSE

-----------------------------------------------------------------------------
(* Decoding.                                                               *)

\* setPointCloudHeader.
Header(c, lasers) ==
    [blocks |-> c.blocks, size |-> c.size, cut |-> c.cut,
     height |-> IF scanner.dense THEN 1 ELSE lasers,
     width  |-> IF scanner.dense THEN c.size ELSE c.size \div lasers]

\* Broken variant of SplitFrame: the height is always that of two halves.
SplitFrameOfHalves(d) ==
    IF d.points.size = 0 THEN d
    ELSE [d EXCEPT !.clouds = Append(@, Header(d.points, IF P.channels = 48 THEN 96 ELSE P.lasers)),
                   !.points = NoPoints]

\* cb_split_frame_: a cloud with points gets its header and is handed over.
SplitFrame(d) ==
    IF d.points.size = 0 THEN d
    ELSE [d EXCEPT !.clouds = Append(@, Header(d.points, P.lasers)), !.points = NoPoints]

\* The points of a block join the cloud; without dense_points each of the n
\* channels gives one, valid or not.
AddBlock(d, p, group, base, n) ==
    LET got == IF scanner.dense /\ p \in Blind THEN 0 ELSE n
    IN  [d EXCEPT !.points.blocks = Append(@, [group |-> group, base |-> base, n |-> got]),
                  !.points.size = @ + got]

\* One block of internDecodeMsopPkt: the second one of two halves holds the
\* upper channels.
DecodeBlock(d, p, b) ==
    LET s == ByAngle(0, d.strategy, Azimuth(p, b))
        a == [(IF s.split THEN SplitFrame(d) ELSE d)
                EXCEPT !.strategy = s.prev, !.ret = @ \/ s.split]
    IN  AddBlock(a, p, GroupOf(p, b), IF Halves /\ b % 2 = 0 THEN P.channels ELSE 0, P.channels)

Before == [strategy |-> strategy, points |-> points, clouds |-> <<>>, ret |-> FALSE]

\* The blocks before the wrong one, of whose id the first right bytes are right.
Accepted(wrong, right, bytes) ==
    IF wrong = 0 \/ right >= bytes THEN P.blocks ELSE wrong - 1

DecodeMech(p, n) ==
    LET after[b \in 0..n] == IF b = 0 THEN Before ELSE DecodeBlock(after[b - 1], p, b)
    IN  [after[n] EXCEPT !.points.cut = @ \/ (Halves /\ n % 2 = 1)]

\* A packet of a solid-state lidar; an RSMX may put out every channel twice.
DecodeSeq(p) ==
    LET s == BySeq(strategy, PktSeq(p))
        d == [(IF s.split THEN SplitFrame(Before) ELSE Before)
                EXCEPT !.strategy = s.state, !.ret = s.split]
        a == AddBlock(d, p, p, 0, (IF scanner.dual THEN 2 ELSE 1) * P.blocks * P.channels)
    IN  IF M.endSplit /\ MaxSeq(s.state) = PktSeq(p) THEN SplitFrame(a) ELSE a

\* isNewFrame of a mechanical lidar follows the blocks to the first split.
NewFrame(p, n) ==
    LET before(b) == IF b = 1 THEN pre_strategy ELSE Azimuth(p, b - 1)
        splits    == {b \in 1..n : ByAngle(0, before(b), Azimuth(p, b)).split}
        last      == IF splits = {} THEN n ELSE Min(splits)
    IN  [split |-> splits # {}, state |-> before(last + 1)]

\* isNewFrameCommon takes the number as it is.
NewFrameCommon(p) == BySeq(pre_strategy, RawSeq(p))

Takes(p, d, pre) ==
    /\ taken' = p
    /\ strategy' = d.strategy /\ points' = d.points /\ clouds' = d.clouds
    /\ pre_strategy' = pre.state
    /\ foreseen' = <<pre.split, d.ret>>
    /\ UNCHANGED scanner

\* The next packet of a mechanical lidar; some may be lost before it.  A block
\* may bear a wrong id, of which the first byte may be right.
ReceiveMech ==
    /\ IsMech
    /\ \E p \in taken + 1 .. Min({taken + 1 + MaxFaults - faults, MaxPackets}) :
       \E wrong \in IF p - taken - 1 + faults < MaxFaults THEN 0 .. P.blocks ELSE {0} :
       \E right \in {0, Min({wrong, 1})} :
        LET n   == Accepted(wrong, right, P.idBytes)
            pre == Accepted(wrong, right, P.preBytes)
        IN  /\ faults' = faults + (p - taken - 1) + Min({wrong, 1})
            /\ Takes(p, DecodeMech(p, n), NewFrame(p, pre))
            /\ misread' = (misread \/ n # pre)

\* The same of a solid-state lidar, whose blocks have no id.
ReceiveSeq ==
    /\ ~IsMech
    /\ \E p \in taken + 1 .. Min({taken + 1 + MaxFaults - faults, 2 * PacketsPerFrame + 2}) :
        /\ faults' = faults + (p - taken - 1)
        /\ Takes(p, DecodeSeq(p), NewFrameCommon(p))
        /\ UNCHANGED misread

Next == ReceiveMech \/ ReceiveSeq

-----------------------------------------------------------------------------
(* The message of a cloud, by toRosMsg.  Points are numbered from 0.       *)

\* Its places.  Without send_by_rows width and height are exchanged, and all
\* points are put into it in their order.
Places(c) == c.width * c.height

\* With send_by_rows: the point at column j of row i.
ByRows(c, i, j) == i + j * c.height

\* The group and the laser of point k of a cloud without a cut firing; an
\* RSMX with two returns has the laser twice.
GroupOfPoint(c, k) ==
    LET n == c.blocks[1].n IN <<c.blocks[k \div n + 1].group, (k % n) \div P.lasers>>
Laser(c, k) ==
    LET n == c.blocks[1].n IN (c.blocks[k \div n + 1].base + (k % n)) % P.lasers

-----------------------------------------------------------------------------
(* Properties.                                                             *)

\* Sent by rows no point is left out, sent in order none is put past the end.
NothingLost(c) == Places(c) = c.size

\* A row has the points of one laser, a column those of one firing.
RowsAreLasers(c) ==
    \A j \in 0 .. c.width - 1 : \A i \in 0 .. c.height - 1 :
        LET k == ByRows(c, i, j)
        IN  /\ Laser(c, k) = i
            /\ GroupOfPoint(c, k) = GroupOfPoint(c, ByRows(c, 0, j))

(***************************************************************************)
(* Whatever packets are lost or broken off at a wrong block id, the points *)
(* of a cloud fill a message to its last place; without dense_points its   *)
(* rows are the lasers and its columns firings.  Only a wrong id in the    *)
(* upper half of a firing of 96 channels spoils that for the rest of the   *)
(* cloud, and the second return of an RSMX takes the place of a laser.     *)
(* isNewFrame foretells the splits of the decoder until a half wrong id,   *)
(* which it takes for right, separates them.                               *)
(***************************************************************************)
LayoutRight ==
    /\ \A n \in DOMAIN clouds :
        LET c == clouds[n]
        IN  /\ ~c.cut \/ scanner.dense => NothingLost(c)
            /\ ~c.cut /\ ~scanner.dense /\ ~(scanner.model = "RSMX" /\ scanner.dual)
                 => RowsAreLasers(c)
    /\ ~misread => foreseen[1] = foreseen[2]
=============================================================================
