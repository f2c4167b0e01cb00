------------------------------ MODULE PointSet ------------------------------
(***************************************************************************)
(* What an incremental k-d tree promises: a set of points of a plane that  *)
(* can be built, extended, thinned to one point per voxel, and cut by      *)
(* boxes.  A box <<lo, hi>> holds the points p with lo <= p < hi on both   *)
(* axes.                                                                   *)
(***************************************************************************)
EXTENDS Integers, FiniteSets

CONSTANTS Points,   \* the points that occur, pairs of integers
          Boxes,    \* the boxes that are deleted
          Voxel     \* downsample_size

VARIABLE live       \* the points of the set

Axes == {1, 2}

Inside(p, box) == \A a \in Axes : box[1][a] <= p[a] /\ p[a] < box[2][a]

\* The voxel of a point, and twice its centre.
VoxelOf(p) == LET lo == [a \in Axes |-> (p[a] \div Voxel) * Voxel]
              IN  <<lo, [a \in Axes |-> lo[a] + Voxel]>>
DistToCentre(p, box) ==
    LET d(a) == 2 * p[a] - box[1][a] - box[2][a]
    IN  d(1) * d(1) + d(2) * d(2)

Init == live = {}

Build == live = {} /\ live' \in SUBSET Points \ {{}}

Add(p) == p \notin live /\ live' = live \cup {p}

\* One point of the voxel stays: the one nearest to its centre, the stored
\* ones before the new one only when they are strictly nearer.
AddThinned(p) ==
    LET box   == VoxelOf(p)
        rival == {q \in live : Inside(q, box)}
    IN  \E q \in rival \cup {p} :
            /\ \A r \in rival \cup {p} :
                  DistToCentre(q, box) <= DistToCentre(r, box)
            /\ live' = (live \ rival) \cup {q}

DeleteBox(box) == live' = {p \in live : ~Inside(p, box)}

Next == \/ Build
        \/ \E p \in Points : Add(p) \/ AddThinned(p)
        \/ \E box \in Boxes : DeleteBox(box)

Spec == Init /\ [][Next]_live
=============================================================================
