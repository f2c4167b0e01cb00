--------------------------- MODULE LidarModels ---------------------------
(***************************************************************************)
(* The lidars of the decoder factory: of each its decoder's constants and  *)
(* choices that timing and splitting depend on.  Times are in nanoseconds. *)
(***************************************************************************)
EXTENDS BlockIterator

\* The time between two firings, and that of the last channel of a block.
Timing(duration, lastSingle, lastDual) ==
    [duration |-> duration, last |-> [single |-> lastSingle, dual |-> lastDual]]

\* A mechanical lidar.  initial is what its decoder is constructed with,
\* actual what it uses from the first packet on, or if install from the
\* first one after a DIFOP packet; echoIn names the packet that tells the
\* return mode.
Mechanical(blocks, single, dual, initial, actual, echoIn) ==
    [kind |-> "mech", blocks |-> blocks,
     iterator |-> [single |-> single, dual |-> dual],
     initial |-> initial, actual |-> actual, echoIn |-> echoIn, install |-> FALSE]

Mech(blocks, single, dual, duration, last) ==
    Mechanical(blocks, single, dual, Timing(duration, last, last),
               Timing(duration, last, last), "difop")

Rs16Like(duration, lastSingle, lastDual) ==
    LET t == Timing(duration, lastSingle, lastDual)
    IN  Mechanical(12, Rs16SingleReturn, Rs16DualReturn, t, t, "difop")

RS16 == Rs16Like(55500, 97500, 42000)
RSHELIOS_16P == Rs16Like(55560, 53630, 25950)
RS32 == Mech(12, SingleReturn, DualReturn, 55520, 46080)
RSBP == Mech(12, SingleReturn, DualReturn, 55520, 44880)
RS48 == Mech(8, SingleReturn, DualReturn, 55552, 48540)
RS80 == Mech(4, SingleReturn, DualReturn, 55552, 48540)
RS128 == Mech(3, SingleReturn, ABDualReturn, 55550, 48540)
RSHELIOS == Mech(12, SingleReturn, DualReturn, 55560, 53630)
RSP48 == Mech(8, SingleReturn, DualReturn, 55560, 40666)
RSP128 == Mech(3, SingleReturn, ABDualReturn, 55560, 53771)

\* The header of the first packet tells the fourth version of the RSBP and
\* the variant 80v of the RSP80.
RSBP_V4 ==
    Mechanical(12, SingleReturn, DualReturn, Timing(55520, 44880, 44880),
               Timing(55560, 51710, 51710), "difop")
RSP80 ==
    Mechanical(4, SingleReturn, DualReturn, Timing(55560, 0, 0),
               Timing(55560, 53771, 53771), "difop")
RSP80V ==
    Mechanical(4, SingleReturn, DualReturn, Timing(55560, 0, 0),
               Timing(55560, 31963, 31963), "difop")

\* The header tells the number of channels and the return mode, too; of 96
\* channels a block holds one half, and both halves count with the last one.
\* How an RSAIRY with 96 channels is installed comes with the DIFOP packet.
Airy(single, dual, duration, initialLast, last) ==
    Mechanical(8, single, dual, Timing(duration, initialLast, initialLast),
               Timing(duration, last, last), "msop")

RSAIRY_48 == Airy(SingleReturn, DualReturn, 111080, 97104, 97104)
Installed(last) ==
    [Airy(TwoInOne, FourInOne, 111080, 97104, last) EXCEPT !.install = TRUE]
RSAIRY_96 == Installed(93296)
RSAIRY_96_SIDE == Installed(99008)
RSAIRY_96_M == Installed(97104)
RSFAIRY_48 == Airy(SingleReturn, DualReturn, 69462, 53856, 51040)
RSFAIRY_96 == Airy(TwoInOne, FourInOne, 69462, 53856, 53856)

\* A solid-state lidar: the number of a frame's first packet, the time of a
\* packet's last block, whether the packet with the largest number ends the
\* frame, and whether the angles come with a DIFOP packet.
SolidState(first, span, endSplit, anglesInDifop) ==
    [kind |-> "seq", first |-> first, span |-> span, endSplit |-> endSplit,
     anglesInDifop |-> anglesInDifop]

\* The frames of these have different numbers of packets, and the offsets of
\* their blocks come with the packet.
BlockSpan == 40000
RSM1 == SolidState(1, BlockSpan, TRUE, FALSE)
RSM1_JUMBO == SolidState(1, BlockSpan, FALSE, FALSE)
RSM2 == SolidState(1, BlockSpan, FALSE, FALSE)
RSM3 == SolidState(1, BlockSpan, FALSE, FALSE)
RSE1 == SolidState(1, BlockSpan, FALSE, FALSE)
RSMX == SolidState(1, BlockSpan, FALSE, FALSE)
\* An RSEMX counts from 0 and times all points with the packet.
RSEMX == SolidState(0, 0, FALSE, TRUE)

ModelOf ==
    [RS16 |-> RS16, RSHELIOS_16P |-> RSHELIOS_16P, RS32 |-> RS32, RSBP |-> RSBP,
     RSBP_V4 |-> RSBP_V4, RS48 |-> RS48, RS80 |-> RS80, RS128 |-> RS128,
     RSHELIOS |-> RSHELIOS, RSP48 |-> RSP48, RSP80 |-> RSP80, RSP80V |-> RSP80V,
     RSP128 |-> RSP128, RSAIRY_48 |-> RSAIRY_48, RSAIRY_96 |-> RSAIRY_96,
     RSAIRY_96_SIDE |-> RSAIRY_96_SIDE, RSAIRY_96_M |-> RSAIRY_96_M,
     RSFAIRY_48 |-> RSFAIRY_48, RSFAIRY_96 |-> RSFAIRY_96, RSM1 |-> RSM1,
     RSM1_JUMBO |-> RSM1_JUMBO, RSM2 |-> RSM2, RSM3 |-> RSM3, RSE1 |-> RSE1,
     RSMX |-> RSMX, RSEMX |-> RSEMX]
=============================================================================
