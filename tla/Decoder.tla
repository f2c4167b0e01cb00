----------------------------- MODULE Decoder -----------------------------
(***************************************************************************)
(* A decoder fed by the packets of its lidar.  A mechanical lidar turns    *)
(* and fires inside its field of view; a solid-state lidar numbers the     *)
(* packets of a frame.  MSOP packets may be lost, those of a solid-state   *)
(* lidar also swapped; a DIFOP packet, which describes the lidar, arrives  *)
(* at any time.  Clouds are told apart by the frames their points belong   *)
(* to, times are the lidar's, in nanoseconds.                              *)
(***************************************************************************)
EXTENDS SplitStrategy, LidarModels, FiniteSets, FiniteSetsExt

CONSTANTS
    Models,        \* names of lidars, DOMAIN ModelOf or a part of it
    Speeds,        \* revolutions per second
    Fields,        \* fields of view <<start, end>> in 0.01 degree
    SplitAngle,    \* 100 times the parameter split_angle
    Settings,      \* values of the parameters ts_first_point, config_from_file
    PacketsPerFrame, \* bound: packets of a solid-state frame
    MaxFrames,     \* bound: revolutions or frames the lidar sends
    MaxLost,       \* bound: packets lost in a row
    Lossless       \* models whose packets all arrive in order

\* The width of a field of view; full circles are written both ways.
FieldWidth(f) == ((f[2] - f[1] + RS_ONE_ROUND - 1) % RS_ONE_ROUND) + 1

\* Lidars turn at 5, 10 or 20 revolutions per second, where even a field of
\* 1.6 degrees holds more than one group of blocks.  ByAngle needs a block
\* between the split angle and 0: the split angle lies neither behind the end
\* of the field of view nor right below 360 degrees.
ASSUME DecoderAssumption ==
    /\ Models \subseteq DOMAIN ModelOf
    /\ Speeds \subseteq 1 .. 20
    /\ SplitAngle \in Nat /\ SplitAngle + 160 <= RS_ONE_ROUND
    /\ \A f \in Fields : /\ f[1] \in Nat /\ f[1] < RS_ONE_ROUND /\ f[2] \in Nat
                         /\ FieldWidth(f) > 160
                         /\ SplitAngle + 160 <= f[1] + FieldWidth(f)
    /\ Settings \subseteq [tsFirst : BOOLEAN, fromFile : BOOLEAN]
    /\ MaxFrames \in Nat /\ MaxLost \in Nat

\* A frame is longer than the safe range back and forth, so that a number on
\* either side of its end is told from a swapped packet.
ASSUME FramesAssumption == PacketsPerFrame \in Nat /\ PacketsPerFrame > 2 * RANGE

VARIABLES
    lidar,      \* the lidar that is connected, and the parameters
    sent,       \* the last packet that was received in order
    held,       \* packets that are late
    ready,      \* angles_ready_
    described,  \* history: a DIFOP packet has told the lidar's speed
    installed,  \* loaded_install_info_
    echo,       \* echo_mode_
    timing,     \* mech_const_param_
    blind,      \* fov_blind_ts_diff_
    prevAngle,  \* split_strategy_ of a mechanical lidar
    seqs,       \* split_strategy_ of a solid-state lidar
    cloud,      \* point_cloud_
    firstTs,    \* first_point_ts_
    prevTs,     \* prev_point_ts_
    out,        \* history: the clouds the last packet split off
    done,       \* history: the frames of the clouds before them
    skew        \* history: how far off the last packet's blocks are timed

decodeVars == <<timing, echo, prevAngle, seqs, cloud, firstTs, prevTs, out, done, skew>>
vars == <<lidar, sent, held, ready, described, installed, blind, decodeVars>>

-----------------------------------------------------------------------------
(* The lidar.                                                              *)

M == ModelOf[lidar.model]
IsMech == M.kind = "mech"
Mode == IF lidar.dual THEN "dual" ELSE "single"

\* The packets of a mechanical lidar: the time and angle between two groups
\* of blocks, the groups of a revolution, and those of packet p.
RoundTime == 1000000000 \div lidar.rps
GroupDuration == M.iterator[Mode].scale * M.actual.duration
GroupAngle ==
    M.iterator[Mode].scale * ((36 * lidar.rps * M.actual.duration + 500000) \div 1000000)
FieldRange == FieldWidth(lidar.field)
GroupsPerRound == (FieldRange + GroupAngle - 1) \div GroupAngle
GroupOf(p, b) == ((p - 1) * M.blocks + b - 1) \div M.iterator[Mode].per
Azimuth(g) == (lidar.field[1] + (g % GroupsPerRound) * GroupAngle) % RS_ONE_ROUND
\* The clock of the lidar does not begin with 0.
GroupTs(g) == RoundTime + (g \div GroupsPerRound) * RoundTime + (g % GroupsPerRound) * GroupDuration
\* The revolution from one passage of the split angle to the next.
RoundOf(g) ==
    (g \div GroupsPerRound)
      + (lidar.field[1] + (g % GroupsPerRound) * GroupAngle - SplitAngle) \div RS_ONE_ROUND

\* The packets of a solid-state lidar.
PacketDuration == 40000
SeqOf(p) == ((p - 1) % PacketsPerFrame) + M.first
FrameOf(p) == (p - 1) \div PacketsPerFrame
PacketTs(p) == p * PacketDuration

\* An outage between groups g and h that ByAngle is made for: shorter than a
\* revolution, and not from before the split angle to a smaller azimuth.
Bridged(g, h) ==
    /\ h - g < GroupsPerRound
    /\ ~(Azimuth(h) < Azimuth(g) /\ Azimuth(g) < SplitAngle)

\* p is sent within the bound, and follows the last packet after an outage
\* the splitting is made for; BySeq's is the safe range.
Follows(p) ==
    /\ IF IsMech THEN GroupOf(p, M.blocks) < MaxFrames * GroupsPerRound
                 ELSE FrameOf(p) < MaxFrames
    /\ IF IsMech THEN cloud.frames # {} => Bridged(cloud.group, GroupOf(p, 1))
                 ELSE sent # 0 => p - sent <= RANGE
    /\ lidar.model \in Lossless => p = sent + 1

Lidars ==
    {l \in [model : Models, dual : BOOLEAN, rps : Speeds, field : Fields, set : Settings] :
        ModelOf[l.model].kind = "seq" =>
            /\ ~l.dual /\ l.rps = Min(Speeds)
            /\ l.field = CHOOSE f \in Fields : TRUE}

NoCloud == [frames |-> {}, from |-> 0, to |-> 0, group |-> 0, timed |-> TRUE, sorted |-> TRUE]

Init ==
    /\ lidar \in Lidars
    /\ sent = 0 /\ held = {}
    /\ ready = IF IsMech THEN lidar.set.fromFile ELSE ~M.anglesInDifop
    /\ described = FALSE /\ installed = FALSE
    /\ echo = "single"
    /\ timing = IF IsMech THEN M.initial ELSE Timing(0, 0, 0)
    /\ blind = 0
    /\ prevAngle = SplitAngle /\ seqs = InitSeq
    /\ cloud = NoCloud /\ firstTs = 0 /\ prevTs = 0
    /\ out = <<>> /\ done = {} /\ skew = 0

-----------------------------------------------------------------------------
(* processDifopPkt: the packet is repeated by the lidar; valid tells       *)
(* whether its angle table can be used.  An RSEMX sends its angles so.     *)

\* fov_blind_ts_diff_, in an order of operations that fits 32 bits.
BlindTime(rps) == (((RS_ONE_ROUND - FieldRange) * 25000) \div (9 * rps)) * 10

\* Broken variant of Difop: the return mode is not read.
DifopKeepsEcho(valid, rpm) ==
    /\ described' = (rpm # 0)
    /\ blind' = BlindTime(IF rpm = 0 THEN 10 ELSE rpm \div 60)
    /\ ready' = (ready \/ (valid /\ ~lidar.set.fromFile))
    /\ installed' = M.install
    /\ UNCHANGED <<lidar, sent, held, decodeVars>>

\* decodeDifopCommon and the decodeDifopPkt around it.
Difop(valid, rpm) ==
    /\ described' = (rpm # 0)
    /\ blind' = BlindTime(IF rpm = 0 THEN 10 ELSE rpm \div 60)
    /\ ready' = (ready \/ (valid /\ ~lidar.set.fromFile))
    /\ installed' = M.install
    /\ echo' = IF M.echoIn = "difop" THEN Mode ELSE echo
    /\ UNCHANGED <<lidar, sent, held, timing, prevAngle, seqs, cloud, firstTs,
                   prevTs, out, done, skew>>

ReceiveDifop ==
    \/ /\ IsMech
       /\ \E valid \in BOOLEAN : Difop(valid, 60 * lidar.rps)
    \/ IsMech /\ sent = 0 /\ Difop(TRUE, 0)   \* not turning yet
    \/ /\ ~IsMech /\ M.anglesInDifop
       /\ ready' = TRUE
       /\ UNCHANGED <<lidar, sent, held, described, installed, blind, decodeVars>>

-----------------------------------------------------------------------------
(* processMsopPkt.                                                         *)

\* wait_for_difop, which a file of angles switches off.
Accepts == (IsMech /\ lidar.set.fromFile) \/ ready

\* cb_split_frame_: a cloud with points is stamped by cloudTs() and handed
\* over; the next one is empty.
SplitFrame(d) ==
    IF d.cloud.frames = {} THEN d
    ELSE [d EXCEPT !.out = Append(@, [cloud |-> d.cloud,
                                      ts |-> IF lidar.set.tsFirst THEN d.firstTs ELSE d.prevTs]),
                   !.cloud = NoCloud]

\* The points of a group, or a packet, join the cloud.
AddPoints(d, frame, group, from, to) ==
    LET c == d.cloud
        isNew == c.frames = {}
    IN  [d EXCEPT
           !.cloud = [frames |-> c.frames \cup {frame},
                      from   |-> IF isNew THEN from ELSE Min({c.from, from}),
                      to     |-> Max({c.to, to}),
                      group  |-> group,
                      timed  |-> c.timed /\ described,
                      sorted |-> c.sorted /\ (isNew \/ group = c.group \/ from >= c.to)],
           !.prevTs = to]

\* Broken variant of DecodeBlock: the first point's time stays as it was.
DecodeBlockKeepsFirst(d, p, b, az, ts, last) ==
    LET g == GroupOf(p, b)
        s == ByAngle(SplitAngle, d.prevAngle, az)
        a == [(IF s.split THEN SplitFrame(d) ELSE d)
                EXCEPT !.prevAngle = s.prev,
                       !.skew = Max({@, ts - GroupTs(g), GroupTs(g) - ts})]
    IN  AddPoints(a, RoundOf(g), g, ts, ts + last)

\* One block of internDecodeMsopPkt.
DecodeBlock(d, p, b, az, ts, last) ==
    LET g == GroupOf(p, b)
        s == ByAngle(SplitAngle, d.prevAngle, az)
        a == [(IF s.split THEN [SplitFrame(d) EXCEPT !.firstTs = ts] ELSE d)
                EXCEPT !.prevAngle = s.prev,
                       !.skew = Max({@, ts - GroupTs(g), GroupTs(g) - ts})]
    IN  AddPoints(a, RoundOf(g), g, ts, ts + last)

\* The decoder before a packet.
Before ==
    [cloud |-> cloud, firstTs |-> firstTs, prevTs |-> prevTs, prevAngle |-> prevAngle,
     out |-> <<>>, skew |-> 0]

\* The decoder after a packet, whose clouds have left.
Becomes(d) ==
    /\ cloud' = d.cloud /\ firstTs' = d.firstTs /\ prevTs' = d.prevTs
    /\ prevAngle' = d.prevAngle /\ out' = d.out /\ skew' = d.skew
    /\ done' = done \cup UNION {out[i].cloud.frames : i \in DOMAIN out}

\* A packet of a mechanical lidar, of which the first n blocks bear a block
\* id: the header may correct timing and echo mode, then block by block.
DecodeMech(p, n) ==
    LET params  == IF M.install /\ ~installed THEN timing ELSE M.actual
        mode    == IF M.echoIn = "msop" THEN Mode ELSE echo
        az      == [b \in 1..M.blocks |-> Azimuth(GroupOf(p, b))]
        offsets == BlockOffsets(M.iterator[mode], az, params.duration, blind)
        after[b \in 0..n] ==
            IF b = 0 THEN Before
            ELSE DecodeBlock(after[b - 1], p, b, az[b],
                             GroupTs(GroupOf(p, 1)) + offsets[b], params.last[mode])
    IN  /\ timing' = params
        /\ echo' = mode
        /\ Becomes(after[n])
        /\ UNCHANGED seqs

\* A packet of a solid-state lidar.
DecodeSeq(p) ==
    LET s == BySeq(seqs, SeqOf(p))
        d == IF s.split THEN [SplitFrame(Before) EXCEPT !.firstTs = PacketTs(p)] ELSE Before
        a == AddPoints(d, FrameOf(p), p, PacketTs(p), PacketTs(p) + M.span)
    IN  /\ seqs' = s.state
        /\ Becomes(IF M.endSplit /\ MaxSeq(s.state) = SeqOf(p) THEN SplitFrame(a) ELSE a)
        /\ UNCHANGED <<timing, echo>>

Decode(p) ==
    IF ~Accepts THEN UNCHANGED decodeVars
    ELSE IF IsMech THEN \E n \in {1, M.blocks} : DecodeMech(p, n)
    ELSE DecodeSeq(p)

\* The next packet, after up to MaxLost that are lost; one of them may only
\* be late, if its frame goes on.
ReceiveMsop ==
    \E p \in sent + 1 .. sent + 1 + MaxLost :
        /\ Follows(p)
        /\ sent' = p
        /\ held' \in {{}, held} \cup
              (IF IsMech \/ lidar.model \in Lossless \/ ~Accepts THEN {}
               ELSE {{q} : q \in sent + 1 .. p - 1})
        /\ \A q \in held' : FrameOf(q) = FrameOf(p) /\ p - q <= RANGE
        /\ Decode(p)
        /\ UNCHANGED <<lidar, ready, described, installed, blind>>

ReceiveLate ==
    \E q \in held :
        /\ held' = held \ {q}
        /\ Decode(q)
        /\ UNCHANGED <<lidar, sent, ready, described, installed, blind>>

Next == ReceiveDifop \/ ReceiveMsop \/ ReceiveLate

Spec == Init /\ [][Next]_vars

-----------------------------------------------------------------------------
(* Properties.                                                             *)

(***************************************************************************)
(* A cloud, finished or not, has the points of one frame: of one           *)
(* revolution, split at the split angle, or of one solid-state frame,      *)
(* whatever packets are lost or swapped within the safe range.             *)
(***************************************************************************)
CloudIsOneFrame ==
    /\ \A i \in DOMAIN out : Cardinality(out[i].cloud.frames) = 1
    /\ Cardinality(cloud.frames) <= 1

(***************************************************************************)
(* The points of a frame are not spread over two clouds.                   *)
(***************************************************************************)
FrameIsOneCloud ==
    \A i \in DOMAIN out :
        /\ out[i].cloud.frames \cap done = {}
        /\ \A j \in 1 .. i - 1 : out[i].cloud.frames \cap out[j].cloud.frames = {}

(***************************************************************************)
(* Once a DIFOP packet has described the lidar, every block is timed as it *)
(* was fired, up to two firings: across the blind zone of the field of     *)
(* view, and with the return mode's number of blocks per firing.           *)
(***************************************************************************)
BlockTimesRight == IsMech /\ cloud.timed /\ described => skew <= 2 * GroupDuration

(***************************************************************************)
(* The firings of such a cloud are in the order of their time stamps.      *)
(***************************************************************************)
PointsInOrder ==
    IsMech => \A i \in DOMAIN out : out[i].cloud.timed => out[i].cloud.sorted

(***************************************************************************)
(* A cloud's stamp lies within the time stamps of its own points; with     *)
(* ts_first_point from the second cloud on.                                *)
(***************************************************************************)
StampOfOwnPoint ==
    \A i \in DOMAIN out :
        \/ out[i].cloud.from <= out[i].ts /\ out[i].ts <= out[i].cloud.to
        \/ lidar.set.tsFirst /\ done = {} /\ i = 1

=============================================================================
