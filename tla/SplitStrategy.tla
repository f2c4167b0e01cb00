-------------------------- MODULE SplitStrategy --------------------------
(***************************************************************************)
(* How the decoders find the boundary between two frames.                  *)
(***************************************************************************)
EXTENDS Integers

RS_ONE_ROUND == 36000

\* Broken variant of ByAngle: an azimuth smaller than the last one is not
\* taken as a new round.
ByAngleNoWrap(splitAngle, prevAngle, angle) ==
    [split |-> prevAngle < splitAngle /\ splitAngle <= angle, prev |-> angle]

\* SplitStrategyByAngle::newBlock of a mechanical lidar.  Angles are in units
\* of 0.01 degree; the strategy starts with prevAngle = splitAngle.
ByAngle(splitAngle, prevAngle, angle) ==
    LET before == IF angle < prevAngle THEN prevAngle - RS_ONE_ROUND ELSE prevAngle
    IN  [split |-> before < splitAngle /\ splitAngle <= angle, prev |-> angle]

\* How far two packets may be swapped, or lost, within a frame.
RANGE == 10

InitSeq == [prev |-> 0, max |-> 0, looped |-> FALSE]

\* Broken variant of BySeq: without the safe range every decrease splits.
BySeqUnsafe(s, seq) ==
    LET rewind == seq < s.prev
    IN  [split |-> rewind,
         state |-> [prev |-> seq, max |-> IF seq > s.max THEN seq ELSE s.max,
                    looped |-> s.looped \/ rewind]]

\* SplitStrategyBySeq::newPacket of a solid-state lidar: a number below the
\* safe range begins a frame; a number above it is not followed, unless
\* nothing has been followed yet.
BySeq(s, seq) ==
    LET safeMin == IF s.prev > RANGE THEN s.prev - RANGE ELSE 0
        rewind  == seq < safeMin
        follow  == \/ rewind
                   \/ seq >= s.prev /\ (seq <= s.prev + RANGE \/ s.prev = 0)
    IN  [split |-> rewind,
         state |-> [prev   |-> IF follow THEN seq ELSE s.prev,
                    max    |-> IF seq > s.max THEN seq ELSE s.max,
                    looped |-> s.looped \/ rewind]]

\* SplitStrategyBySeq::maxSeq.
MaxSeq(s) == IF s.looped THEN s.max ELSE 0
=============================================================================
