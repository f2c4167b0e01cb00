----------------------------- MODULE GiveFeature -----------------------------
(***************************************************************************)
(* Preprocess::give_feature (preprocess.cpp): the points of one scan line  *)
(* are marked as planes, edges or wires, and a thinned set of plane points *)
(* is put out.  What the coordinates decide is a choice; kept are the      *)
(* indices, which jump, and the marks, which later loops read.  Indices    *)
(* start at 0 as in the code.                                              *)
(***************************************************************************)
EXTENDS Integers, Sequences, FiniteSets, SequencesExt, FiniteSetsExt

CONSTANTS Lines,              \* lines: sequences telling which points are blind
          group_size, point_filter_num

\* A group, and what a filter makes one point of, are of one point at least.
ASSUME LineAssumption ==
    /\ Lines \subseteq Seq(BOOLEAN)
    /\ group_size \in Nat \ {0} /\ point_filter_num \in Nat \ {0}

VARIABLES
    line,           \* of the point at index i: is its range below blind?
    ftype,          \* the marks
    loop,           \* the loop the code is in
    i, i_nex, last_state, last_surface,
    pl_surf, pl_corn,   \* the indices each point put out stands for
    past            \* has the line been left at its end?

lineVars == <<line, ftype, loop, i, i_nex, last_state, last_surface, pl_surf, pl_corn, past>>

Size == Len(line)
Indices == 0 .. Size - 1
Blind(k) == line[k + 1]
Planes == {"Poss_Plane", "Real_Plane"}

\* The first point that is not blind.
Head0 == Min({k \in Indices : ~Blind(k)} \cup {Size})

LineInit == /\ line = <<>> /\ ftype = <<>> /\ loop = "idle"
        /\ i = 0 /\ i_nex = 0 /\ last_state = 0 /\ last_surface = -1
        /\ pl_surf = <<>> /\ pl_corn = <<>> /\ past = FALSE

\* The line's head is looked for without a bound: a line of blind points
\* only is left at its end.
Begin(l) ==
    /\ loop = "idle" /\ l # <<>>
    /\ line' = l
    /\ ftype' = [k \in 0 .. Len(l) - 1 |-> "Nor"]
    /\ i_nex' = 0 /\ last_state' = 0 /\ last_surface' = -1
    /\ pl_surf' = <<>> /\ pl_corn' = <<>>
    /\ LET head == Min({k \in 0 .. Len(l) - 1 : ~l[k + 1]} \cup {Len(l)})
       IN  /\ past' = (head = Len(l))
           /\ loop' = IF head = Len(l) THEN "left" ELSE "surf"
           /\ i' = head

-----------------------------------------------------------------------------
(* First loop: planes.                                                     *)

\* plane_judge, where it stops and what it says: 2 at a blind point, 1 for a
\* plane, 0 for none.  The group grows past group_size up to the line's end.
Judged ==
    LET stop == Min({k \in i .. Size - 1 : Blind(k)} \cup {Size})
        far  == IF stop < Size THEN stop - 1 ELSE Size
    IN  {[type |-> t, nex |-> k] : t \in {0, 1}, k \in i + group_size .. far}
        \cup (IF stop < Size THEN {[type |-> 2, nex |-> stop]} ELSE {})

\* The marks of a plane from i to nex; the first point is an edge, or surely
\* inside, if a plane came right before.
MarkPlane(nex, first) ==
    [k \in Indices |->
        IF k = i THEN first
        ELSE IF k = nex THEN "Poss_Plane"
        ELSE IF i < k /\ k < nex THEN "Real_Plane" ELSE ftype[k]]

SurfEnd == IF Size > group_size THEN Size - group_size ELSE 0

\* One turn: after a plane the next turn starts at its last point, which may
\* be the point past the end of the line, and is marked all the same.
Surf ==
    /\ loop = "surf" /\ i < SurfEnd /\ ~Blind(i)
    /\ \E j \in Judged :
        /\ i_nex' = j.nex
        /\ IF j.type = 1
           THEN /\ \E first \in IF last_state = 1 THEN {"Edge_Plane", "Real_Plane", "Poss_Plane"}
                                ELSE {"Poss_Plane"} : ftype' = MarkPlane(j.nex, first)
                /\ past' = (past \/ j.nex = Size)
                /\ i' = j.nex /\ last_state' = 1
           ELSE /\ i' = j.nex + 1 /\ last_state' = 0
                /\ UNCHANGED <<ftype, past>>
    /\ UNCHANGED <<line, loop, last_surface, pl_surf, pl_corn>>

SkipBlind ==
    /\ loop = "surf" /\ i < SurfEnd /\ Blind(i)
    /\ i' = i + 1
    /\ UNCHANGED <<line, ftype, loop, i_nex, last_state, last_surface, pl_surf, pl_corn, past>>

SurfDone ==
    /\ loop = "surf" /\ i >= SurfEnd
    /\ loop' = "edge" /\ i' = Head0 + 3
    /\ UNCHANGED <<line, ftype, i_nex, last_state, last_surface, pl_surf, pl_corn, past>>

-----------------------------------------------------------------------------
(* Second loop: edges and wires among what is no plane.  Third loop: small *)
(* planes among what is left.                                              *)

Beside(k) == {k - 1, k + 1}

\* edge_jump_judge wants two points on the near side that are not blind.
JumpPossible(k) == \/ ~Blind(k - 1) /\ ~Blind(k - 2)
                   \/ ~Blind(k + 1) /\ ~Blind(k + 2)

EdgeMarks(k) ==
    IF Blind(k) \/ ftype[k] \notin {"Nor", "Poss_Plane"} THEN {ftype[k]}
    ELSE {ftype[k]} \cup (IF JumpPossible(k) THEN {"Edge_Jump"} ELSE {})
                    \cup (IF ftype[k] = "Nor" THEN {"Wire"} ELSE {})

Edge ==
    /\ loop = "edge"
    /\ IF i < Size - 3
       THEN /\ \E m \in EdgeMarks(i) : ftype' = [ftype EXCEPT ![i] = m]
            /\ i' = i + 1 /\ UNCHANGED loop
       ELSE loop' = "small" /\ i' = Head0 + 1 /\ UNCHANGED ftype
    /\ UNCHANGED <<line, i_nex, last_state, last_surface, pl_surf, pl_corn, past>>

Small ==
    /\ loop = "small"
    /\ IF i < Size - 1
       THEN /\ \/ UNCHANGED ftype
               \/ /\ ftype[i] = "Nor" /\ ~Blind(i) /\ \A k \in Beside(i) : ~Blind(k)
                  /\ ftype' = [k \in Indices |->
                       IF k \in Beside(i) \cup {i} /\ ftype[k] = "Nor"
                       THEN "Real_Plane" ELSE ftype[k]]
            /\ i' = i + 1 /\ UNCHANGED loop
       ELSE loop' = "sample" /\ i' = Head0 /\ UNCHANGED ftype
    /\ UNCHANGED <<line, i_nex, last_state, last_surface, pl_surf, pl_corn, past>>

-----------------------------------------------------------------------------
(* Last loop: of every point_filter_num plane points in a row the last is  *)
(* put out, of a shorter row that ends the mean; a row cut off by the end  *)
(* of the line is dropped.                                                 *)

\* Broken variant of Row: a row that another kind of point ends is dropped.
RowDropped(from) == pl_surf

\* The mean of a row that another kind of point has ended.
Row(from) == IF from = -1 THEN pl_surf ELSE Append(pl_surf, <<from, i - 1>>)

Sample ==
    /\ loop = "sample" /\ i < Size
    /\ i' = i + 1
    /\ IF ftype[i] \in Planes
       THEN LET from == IF last_surface = -1 THEN i ELSE last_surface
                full == i = from + point_filter_num - 1
            IN  /\ last_surface' = IF full THEN -1 ELSE from
                /\ pl_surf' = IF full THEN Append(pl_surf, <<from, i>>) ELSE pl_surf
                /\ UNCHANGED pl_corn
       ELSE /\ last_surface' = -1
            /\ pl_corn' = IF ftype[i] \in {"Edge_Jump", "Edge_Plane"}
                          THEN Append(pl_corn, i) ELSE pl_corn
            /\ pl_surf' = Row(last_surface)
    /\ UNCHANGED <<line, ftype, loop, i_nex, last_state, past>>

PutOut ==
    /\ loop = "sample" /\ i >= Size
    /\ loop' = "done"
    /\ UNCHANGED <<line, ftype, i, i_nex, last_state, last_surface, pl_surf, pl_corn, past>>

LineNext == \/ \E l \in Lines : Begin(l)
        \/ Surf \/ SkipBlind \/ SurfDone \/ Edge \/ Small \/ Sample \/ PutOut

LineSpec == LineInit /\ [][LineNext]_lineVars

-----------------------------------------------------------------------------
\* The jumping indices stay in the line, but for the one place past its end
\* that a plane reaching the end, or a line of blind points, leads to.
IndicesInLine ==
    /\ loop \in {"surf", "edge", "small"} => i <= Size + 3
    /\ i_nex <= Size /\ (i_nex = Size /\ last_state = 1 => past)

\* A blind point is never marked, so none is put out: planes end before it,
\* and the small planes ask their neighbours.
BlindUnmarked == \A k \in Indices : Blind(k) => ftype[k] = "Nor"

\* Every plane point stands behind exactly one point put out, in order,
\* unless its row is cut off by the end of the line; no other point does.
PlanesPutOut ==
    loop = "done" =>
        /\ \A n \in DOMAIN pl_surf :
             LET a == pl_surf[n][1]
                 b == pl_surf[n][2]
             IN  /\ b - a < point_filter_num
                 /\ \A k \in a .. b : ftype[k] \in Planes
                 /\ n > 1 => pl_surf[n - 1][2] < a
        /\ \A k \in Indices : ftype[k] \in Planes =>
             \/ \E n \in DOMAIN pl_surf : pl_surf[n][1] <= k /\ k <= pl_surf[n][2]
             \/ /\ Size - k < point_filter_num
                /\ \A m \in k .. Size - 1 : ftype[m] \in Planes

\* What feature extraction makes of a line, whatever its points look like and
\* wherever the blind ones lie.
FeaturesRight == IndicesInLine /\ BlindUnmarked /\ PlanesPutOut
=============================================================================
