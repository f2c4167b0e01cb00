------------------------------ MODULE IkdTree ------------------------------
(***************************************************************************)
(* The incremental k-d tree of FAST-LIO's map (ikd_Tree.cpp), as one       *)
(* thread sees it.  Deleting is lazy: a covered subtree is only flagged,   *)
(* the flags travel down when a later operation passes, and a node's range *)
(* shrinks to the points still there; unbalanced or mostly deleted         *)
(* subtrees are built again.  The rebuild of large subtrees in a second    *)
(* thread is the subject of IkdRebuild.                                    *)
(***************************************************************************)
EXTENDS Integers, FiniteSets, FiniteSetsExt

CONSTANTS Points, Boxes, Voxel,
          Minimal_Unbalanced_Tree_Size,
          MaxNodes,         \* bound: nodes of the tree, deleted ones included
          Queries           \* the points whose neighbours are asked for

VARIABLE Root_Node

Axes == {1, 2}
INFINITY == 1000000

(***************************************************************************)
(* A tree is its root node with its sons inside.  The null pointer is a    *)
(* tree of size 0 that counts as deleted.                                  *)
(***************************************************************************)
Nil == [TreeSize |-> 0, invalid |-> 0, down_del |-> 0,
        tree_deleted |-> TRUE, tree_down |-> TRUE]

IsNil(t) == t.TreeSize = 0

Hull(parts) ==
    [lo |-> [a \in Axes |-> Min({r.lo[a] : r \in parts})],
     hi |-> [a \in Axes |-> Max({r.hi[a] : r \in parts})]]

\* A node's sizes, flags and range from its sons'.
Update(t) ==
    LET l == t.left
        r == t.right
        sons  == {s \in {l, r} : ~IsNil(s)}
        self  == [lo |-> t.point, hi |-> t.point]
        range(s) == [lo |-> s.range.lo, hi |-> s.range.hi]
        gone  == l.tree_deleted /\ r.tree_deleted /\ t.deleted
        whole == gone \/ (~t.deleted /\ \A s \in sons : ~s.tree_deleted)
        parts == {range(s) : s \in {s \in sons : whole \/ ~s.tree_deleted}}
                 \cup (IF whole \/ ~t.deleted THEN {self} ELSE {})
    IN  [t EXCEPT !.TreeSize = l.TreeSize + r.TreeSize + 1,
                  !.invalid  = l.invalid + r.invalid + (IF t.deleted THEN 1 ELSE 0),
                  !.down_del = l.down_del + r.down_del + (IF t.down THEN 1 ELSE 0),
                  !.tree_down = l.tree_down /\ r.tree_down /\ t.down,
                  !.tree_deleted = gone,
                  !.range = Hull(parts)]

Node(p, axis, l, r) ==
    Update([point |-> p, axis |-> axis, left |-> l, right |-> r,
            TreeSize |-> 1, invalid |-> 0, down_del |-> 0,
            deleted |-> FALSE, tree_deleted |-> FALSE,
            down |-> FALSE, tree_down |-> FALSE,
            push_left |-> FALSE, push_right |-> FALSE,
            range |-> [lo |-> p, hi |-> p]])

\* Broken variant of Inherit: the flags stop at the son.
InheritStops(t, s) ==
    LET gone == t.tree_deleted \/ t.tree_down \/ s.tree_down
    IN  [s EXCEPT !.tree_down = @ \/ t.tree_down, !.down = @ \/ t.tree_down,
                  !.tree_deleted = gone, !.deleted = gone \/ s.down,
                  !.invalid = IF t.tree_deleted THEN s.TreeSize ELSE s.down_del]

\* What a father's pending flags do to a son.
Inherit(t, s) ==
    LET treeDown == s.tree_down \/ t.tree_down
        down     == s.down \/ t.tree_down
        gone     == t.tree_deleted \/ treeDown
        downDel  == IF t.tree_down THEN s.TreeSize ELSE s.down_del
    IN  [s EXCEPT !.tree_down = treeDown, !.down = down,
                  !.tree_deleted = gone, !.deleted = gone \/ down,
                  !.down_del = downDel,
                  !.invalid = IF t.tree_deleted THEN s.TreeSize ELSE downDel,
                  !.push_left = TRUE, !.push_right = TRUE]

\* A flag for a son that does not exist stays set.
Push_Down(t) ==
    LET pl == t.push_left /\ ~IsNil(t.left)
        pr == t.push_right /\ ~IsNil(t.right)
    IN  [t EXCEPT !.left  = IF pl THEN Inherit(t, t.left) ELSE @,
                  !.right = IF pr THEN Inherit(t, t.right) ELSE @,
                  !.push_left = @ /\ ~pl, !.push_right = @ /\ ~pr]

RECURSIVE flatten(_)
flatten(t) ==
    IF IsNil(t) THEN {}
    ELSE LET u == Push_Down(t)
         IN  (IF u.deleted THEN {} ELSE {u.point})
             \cup flatten(u.left) \cup flatten(u.right)

(***************************************************************************)
(* Building: the longest axis divides, the median is the root.             *)
(***************************************************************************)
Precedes(p, q, a) == \/ p[a] < q[a]
                     \/ p[a] = q[a] /\ p[3 - a] < q[3 - a]

RECURSIVE BuildTree(_)
BuildTree(S) ==
    IF S = {} THEN Nil
    ELSE LET h     == Hull({[lo |-> p, hi |-> p] : p \in S})
             width(a) == h.hi[a] - h.lo[a]
             axis  == IF width(2) > width(1) THEN 2 ELSE 1
             below(p) == {q \in S : Precedes(q, p, axis)}
             mid   == CHOOSE p \in S :
                        Cardinality(below(p)) = (Cardinality(S) - 1) \div 2
         IN  Node(mid, axis, BuildTree(below(mid)),
                  BuildTree(S \ (below(mid) \cup {mid})))

Rebuild(t) == BuildTree(flatten(t))

\* More than half deleted, or a son with more than 60% or less than 40%.
Criterion_Check(t) ==
    LET son == IF IsNil(t.left) THEN t.right ELSE t.left
    IN  /\ t.TreeSize > Minimal_Unbalanced_Tree_Size
        /\ \/ 2 * t.invalid > t.TreeSize
           \/ 10 * son.TreeSize > 6 * (t.TreeSize - 1)
           \/ 10 * son.TreeSize < 4 * (t.TreeSize - 1)

\* The way back up through a node: refresh it, rebuild it if it degenerated.
Leave(t) == LET u == Update(t)
            IN  IF Criterion_Check(u) THEN Rebuild(u) ELSE u

GoesLeft(t, p) == p[t.axis] < t.point[t.axis]

RECURSIVE Add_by_point(_, _, _)
Add_by_point(t, p, father_axis) ==
    IF IsNil(t) THEN Node(p, 3 - father_axis, Nil, Nil)
    ELSE LET u == Push_Down(t)
         IN  Leave(IF GoesLeft(u, p)
                   THEN [u EXCEPT !.left = Add_by_point(@, p, u.axis)]
                   ELSE [u EXCEPT !.right = Add_by_point(@, p, u.axis)])

Inside(p, box)  == \A a \in Axes : box[1][a] <= p[a] /\ p[a] < box[2][a]
Misses(t, box)  == \E a \in Axes : \/ box[2][a] <= t.range.lo[a]
                                   \/ box[1][a] > t.range.hi[a]
\* Broken variant of Covers: the upper bound of the box is taken as inside.
CoversClosed(box, t) == \A a \in Axes : /\ box[1][a] <= t.range.lo[a]
                                        /\ box[2][a] >= t.range.hi[a]
Covers(box, t)  == \A a \in Axes : /\ box[1][a] <= t.range.lo[a]
                                   /\ box[2][a] > t.range.hi[a]

\* Broken variant of FlagDeleted: the count of invalid points is left alone.
FlagDeletedUncounted(t, is_downsample) ==
    [t EXCEPT !.tree_deleted = TRUE, !.deleted = TRUE,
              !.push_left = TRUE, !.push_right = TRUE,
              !.tree_down = @ \/ is_downsample, !.down = @ \/ is_downsample]

\* A covered subtree is only flagged; its points go when the flags get there.
FlagDeleted(t, is_downsample) ==
    [t EXCEPT !.tree_deleted = TRUE, !.deleted = TRUE,
              !.push_left = TRUE, !.push_right = TRUE, !.invalid = t.TreeSize,
              !.tree_down = @ \/ is_downsample, !.down = @ \/ is_downsample,
              !.down_del = IF is_downsample THEN t.TreeSize ELSE @]

RECURSIVE Delete_by_range(_, _, _)
Delete_by_range(t, box, is_downsample) ==
    IF IsNil(t) \/ t.tree_deleted THEN t
    ELSE LET u   == Push_Down(t)
             hit == ~u.deleted /\ Inside(u.point, box)
         IN  CASE Misses(u, box) -> u
               [] Covers(box, u) -> FlagDeleted(u, is_downsample)
               [] OTHER ->
                    Leave([u EXCEPT
                      !.deleted = @ \/ hit, !.down = @ \/ (hit /\ is_downsample),
                      !.left  = Delete_by_range(@, box, is_downsample),
                      !.right = Delete_by_range(@, box, is_downsample)])

RECURSIVE Search_by_range(_, _)
Search_by_range(t, box) ==
    IF IsNil(t) THEN {}
    ELSE LET u == Push_Down(t)
         IN  CASE Misses(u, box) -> {}
               [] Covers(box, u) -> flatten(u)
               [] OTHER -> {p \in {u.point} : ~u.deleted /\ Inside(p, box)}
                           \cup Search_by_range(u.left, box)
                           \cup Search_by_range(u.right, box)

\* The tree a flatten and a search by range leave: flags pushed on the way.
RECURSIVE Flattened(_)
Flattened(t) ==
    IF IsNil(t) THEN t
    ELSE [Push_Down(t) EXCEPT !.left = Flattened(@), !.right = Flattened(@)]

RECURSIVE Searched(_, _)
Searched(t, box) ==
    IF IsNil(t) THEN t
    ELSE LET u == Push_Down(t)
         IN  CASE Misses(u, box) -> u
               [] Covers(box, u) -> Flattened(u)
               [] OTHER -> [u EXCEPT !.left = Searched(@, box),
                                     !.right = Searched(@, box)]

(***************************************************************************)
(* Nearest neighbours: the k best so far are kept in a heap whose top is   *)
(* the farthest; a son is visited only if its range can still improve it.  *)
(***************************************************************************)
calc_dist(p, q) == (p[1] - q[1]) * (p[1] - q[1]) + (p[2] - q[2]) * (p[2] - q[2])

calc_box_dist(t, p) ==
    IF IsNil(t) THEN INFINITY
    ELSE LET out(a) == IF p[a] < t.range.lo[a] THEN t.range.lo[a] - p[a]
                       ELSE IF p[a] > t.range.hi[a] THEN p[a] - t.range.hi[a]
                       ELSE 0
         IN  out(1) * out(1) + out(2) * out(2)

Farthest(q, p) == CHOOSE x \in q : \A y \in q : calc_dist(y, p) <= calc_dist(x, p)

\* Broken variant of Improves: a subtree is cut off although the heap is
\* not yet full.
ImprovesEarly(q, k, p, d) == q = {} \/ d < calc_dist(Farthest(q, p), p)

\* May a subtree at distance d still improve the heap q?
Improves(q, k, p, d) == Cardinality(q) < k \/ d < calc_dist(Farthest(q, p), p)

Offer(q, k, p, x) ==
    IF ~Improves(q, k, p, calc_dist(x, p)) THEN q
    ELSE (IF Cardinality(q) >= k THEN q \ {Farthest(q, p)} ELSE q) \cup {x}

RECURSIVE Search(_, _, _, _)
Search(t, k, p, q) ==
    IF IsNil(t) \/ t.tree_deleted THEN q
    ELSE LET u    == Push_Down(t)
             q0   == IF u.deleted THEN q ELSE Offer(q, k, p, u.point)
             d(s) == calc_box_dist(s, p)
             near == IF d(u.left) <= d(u.right) THEN u.left ELSE u.right
             far  == IF d(u.left) <= d(u.right) THEN u.right ELSE u.left
             visit(s, h) == IF Improves(h, k, p, d(s)) THEN Search(s, k, p, h) ELSE h
         IN  IF \A s \in {near, far} : Improves(q0, k, p, d(s))
             THEN visit(far, Search(near, k, p, q0))
             ELSE visit(u.right, visit(u.left, q0))

-----------------------------------------------------------------------------
validnum == Root_Node.TreeSize - Root_Node.invalid

Init == Root_Node = Nil

Build(S) ==
    /\ IsNil(Root_Node)
    /\ Root_Node' = BuildTree(S)

\* Add_Points reads Root_Node->division_axis: the callers see to it that the
\* tree exists.
Add_Point(p) ==
    /\ Root_Node.TreeSize \in 1 .. MaxNodes
    /\ p \notin flatten(Root_Node)
    /\ Root_Node' = Add_by_point(Root_Node, p, Root_Node.axis)

VoxelOf(p) == LET lo == [a \in Axes |-> (p[a] \div Voxel) * Voxel]
              IN  <<lo, [a \in Axes |-> lo[a] + Voxel]>>

DistToCentre(p, box) ==
    LET d(a) == 2 * p[a] - box[1][a] - box[2][a]
    IN  d(1) * d(1) + d(2) * d(2)

\* The tree after the rivals of p's voxel have been deleted.
Thinned(p) ==
    LET box == VoxelOf(p)
        t   == Searched(Root_Node, box)
    IN  IF Search_by_range(Root_Node, box) = {} THEN t
        ELSE Delete_by_range(t, box, TRUE)

Add_Point_Downsampled(p) ==
    LET box    == VoxelOf(p)
        rivals == Search_by_range(Root_Node, box)
        nearer == {q \in rivals : DistToCentre(q, box) < DistToCentre(p, box)}
    IN  /\ Root_Node.TreeSize \in 1 .. MaxNodes
        /\ \E result \in IF nearer = {} THEN {p}
                         ELSE {q \in nearer : \A r \in nearer :
                                 DistToCentre(q, box) <= DistToCentre(r, box)} :
              IF Cardinality(rivals) > 1 \/ result = p
              THEN Root_Node' = Add_by_point(Thinned(p), result, Thinned(p).axis)
              ELSE Root_Node' = Searched(Root_Node, box)

Delete_Point_Box(box) == Root_Node' = Delete_by_range(Root_Node, box, FALSE)

Next == \/ \E S \in SUBSET Points \ {{}} : Build(S)
        \/ \E p \in Points : Add_Point(p) \/ Add_Point_Downsampled(p)
        \/ \E box \in Boxes : Delete_Point_Box(box)

Spec == Init /\ [][Next]_Root_Node

-----------------------------------------------------------------------------
live == flatten(Root_Node)

\* The tree is a set of points to its users: Build, Add_Points and
\* Delete_Point_Boxes have the effect they have on the set, and rebuilding and
\* pushing flags have none.
PS == INSTANCE PointSet WITH live <- live
Refines == PS!Spec

\* In every state, and with flags pending anywhere, a search by range returns
\* the points alive in the box, those on its lower bounds included.
BoxSearchRight == \A box \in Boxes :
    Search_by_range(Root_Node, box) = {p \in live : Inside(p, box)}

\* Nearest_Search returns min(k, size) points alive, and none it leaves out
\* is nearer: pruning by ranges that shrank with the deletions loses nothing.
NearestRight == \A p \in Queries, k \in {1, 2} :
    LET q == Search(Root_Node, k, p, {})
    IN  /\ q \subseteq live
        /\ Cardinality(q) = Min({k, Cardinality(live)})
        /\ \A x \in q, y \in live \ q : calc_dist(x, p) <= calc_dist(y, p)

\* validnum counts the points alive without walking the tree: every count on
\* the way is right while deletions are pending below.
ValidnumRight == validnum = Cardinality(live)

\* Whichever way the tree is asked, it tells the truth about the set of points,
\* wherever flags that came from boxes, additions and rebuilds are pending.
AnswersRight == BoxSearchRight /\ NearestRight /\ ValidnumRight

\* Add_Points reads Root_Node->division_axis after it has deleted the voxel's
\* points: the deletion, which may rebuild, never empties the tree.
RootSurvives == ~IsNil(Root_Node) => \A p \in Points : ~IsNil(Thinned(p))
=============================================================================
