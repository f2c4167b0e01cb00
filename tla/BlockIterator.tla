-------------------------- MODULE BlockIterator --------------------------
(***************************************************************************)
(* How the blocks of a packet of a mechanical lidar are timed.  The blocks *)
(* of one firing form a group: per blocks, and with an alternating         *)
(* iterator AAB or ABB.  A block of scale 2 holds two firings.             *)
(***************************************************************************)
EXTENDS Integers, Sequences

Iterator(per, scale, alternating) ==
    [per |-> per, scale |-> scale, alternating |-> alternating]

SingleReturn == Iterator(1, 1, FALSE)
DualReturn == Iterator(2, 1, FALSE)
TwoInOne == Iterator(2, 1, FALSE)
FourInOne == Iterator(4, 1, FALSE)
ABDualReturn == Iterator(2, 1, TRUE)
Rs16SingleReturn == Iterator(1, 2, FALSE)
Rs16DualReturn == Iterator(1, 1, FALSE)

\* The group of block b, the first one being 0, given the blocks' azimuths.
GroupIn(it, az, b) ==
    IF ~it.alternating THEN (b - 1) \div it.per
    ELSE IF az[1] = az[2] THEN b \div 3 ELSE (IF b = 1 THEN 0 ELSE 1)

\* A larger difference of azimuths crosses the blind zone of the field of view.
MAX_AZ_DIFF == 100

\* Broken variant of GroupTime: the blind zone is not noticed.
GroupTimeSighted(it, az, duration, blind, b, next) == it.scale * duration

\* The time between the group that block b begins and the next one.
GroupTime(it, az, duration, blind, b, next) ==
    LET diff == (az[next] - az[b] + 36000) % 36000
    IN  IF diff > MAX_AZ_DIFF THEN blind ELSE it.scale * duration

\* The time of every block after the first one.
BlockOffsets(it, az, duration, blind) ==
    LET offset[k \in 0..Len(az)] ==
            IF k = 0 THEN 0
            ELSE LET b    == IF it.alternating THEN 1 ELSE (k - 1) * it.per + 1
                     next == IF it.alternating THEN 3 ELSE k * it.per + 1
                 IN  offset[k - 1] + GroupTime(it, az, duration, blind, b, next)
    IN  [b \in DOMAIN az |-> offset[GroupIn(it, az, b)]]
=============================================================================
