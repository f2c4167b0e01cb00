------------------------------ MODULE LocalMap ------------------------------
(***************************************************************************)
(* lasermap_fov_segment (laserMapping.cpp): the map is kept in a box that  *)
(* follows the lidar in jumps; what a jump leaves behind is deleted from   *)
(* the ikd-Tree.  Lengths are in twentieths of the unit CubeLen and        *)
(* DetRange are given in, so that all of the code's factors are integers.  *)
(***************************************************************************)
EXTENDS Integers

CONSTANTS Axes,
          CubeLen, DetRange,    \* cube_len and DET_RANGE
          Steps,                \* what the lidar moves from scan to scan, per axis
          MaxPos                \* bound: positions, for TLC

Cube == 20 * CubeLen
Det  == 20 * DetRange
Near == 30 * DetRange           \* MOV_THRESHOLD * DET_RANGE

\* The box holds the detection range on both sides and half of it to spare
\* (all launch files but mapping_avia.launch), and the lidar gets no farther
\* than half the range from one scan to the next.
ASSUME LocalMapAssumption ==
    /\ CubeLen \in Nat /\ DetRange \in Nat
    /\ 3 * DetRange < CubeLen
    /\ \A d \in Steps : d \in Int /\ -10 * DetRange <= d /\ d <= 10 * DetRange
    /\ MaxPos \in Nat

VARIABLES
    Localmap_Initialized,
    LocalMap_Points,    \* axis -> [min, max]
    pos_lid,
    cub_needrm          \* the boxes deleted: their axis and its [min, max];
                        \* on the other axes they are as long as the old box

lmVars == <<Localmap_Initialized, LocalMap_Points, pos_lid, cub_needrm>>

LMInit ==
    /\ Localmap_Initialized = FALSE
    /\ pos_lid = [a \in Axes |-> 0]
    /\ LocalMap_Points = [a \in Axes |-> [min |-> 0, max |-> 0]]
    /\ cub_needrm = {}

Larger(x, y) == IF x >= y THEN x ELSE y
mov_dist == Larger(9 * CubeLen - 27 * DetRange, 10 * DetRange)

\* fabs of the distance to a face, which does not tell inside from outside.
Distance(x, y) == IF x <= y THEN y - x ELSE x - y
AtMin(p, b) == Distance(p, b.min) <= Near
AtMax(p, b) == ~AtMin(p, b) /\ Distance(p, b.max) <= Near

\* Broken variant of Moved: the lower face stays where it is.
MovedStretched(p, b) ==
    IF AtMin(p, b) THEN [min |-> b.min - mov_dist, max |-> b.max - mov_dist]
    ELSE IF AtMax(p, b) THEN [min |-> b.min, max |-> b.max - mov_dist]
    ELSE b

\* One axis of the box, for a lidar at p.
Moved(p, b) ==
    IF AtMin(p, b) THEN [min |-> b.min - mov_dist, max |-> b.max - mov_dist]
    ELSE IF AtMax(p, b) THEN [min |-> b.min + mov_dist, max |-> b.max + mov_dist]
    ELSE b

\* What is deleted for it: the far end of the old box.
Removed(p, b) ==
    IF AtMin(p, b) THEN [min |-> b.max - mov_dist, max |-> b.max]
    ELSE [min |-> b.min, max |-> b.min + mov_dist]

Segment(p) ==
    /\ pos_lid' = p
    /\ IF ~Localmap_Initialized
       THEN /\ LocalMap_Points' = [a \in Axes |-> [min |-> p[a] - 10 * CubeLen,
                                                   max |-> p[a] + 10 * CubeLen]]
            /\ cub_needrm' = {}
       ELSE LET b == LocalMap_Points
            IN  /\ LocalMap_Points' = [a \in Axes |-> Moved(p[a], b[a])]
                /\ cub_needrm' = {[axis |-> a, slab |-> Removed(p[a], b[a])] :
                                    a \in {a \in Axes : AtMin(p[a], b[a]) \/ AtMax(p[a], b[a])}}
    /\ Localmap_Initialized' = TRUE

\* The next scan, from wherever the lidar got.
LMNext == \E d \in [Axes -> Steps] :
    LET p == [a \in Axes |-> pos_lid[a] + d[a]]
    IN  /\ \A a \in Axes : -MaxPos <= p[a] /\ p[a] <= MaxPos
        /\ Segment(p)
LMSpec == LMInit /\ [][LMNext]_lmVars

-----------------------------------------------------------------------------
\* After every scan the box holds everything within the detection range of the
\* lidar, and what was deleted lay outside it: the map never loses a point
\* that the lidar may see from where it is.
MapAroundLidar ==
    Localmap_Initialized =>
        /\ \A a \in Axes : /\ LocalMap_Points[a].min <= pos_lid[a] - Det
                           /\ pos_lid[a] + Det <= LocalMap_Points[a].max
        /\ \A c \in cub_needrm : \/ c.slab.max <= pos_lid[c.axis] - Det
                                 \/ pos_lid[c.axis] + Det <= c.slab.min
=============================================================================
