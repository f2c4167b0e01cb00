----------------------------- MODULE IkdRebuild -----------------------------
(***************************************************************************)
(* The ikd-Tree's second thread (ikd_Tree.cpp): it copies a large subtree, *)
(* builds it again without a lock while the mapping thread goes on         *)
(* changing the old one, replays what was logged meanwhile, and swaps the  *)
(* new subtree in.  The tree is a father, Root_Node, with two large sons;  *)
(* the subtree is one of the sons or all of it, and a son is the set of    *)
(* its points, those alive and those only flagged deleted (IkdTree has the *)
(* nodes).  The search threads are the OpenMP threads of h_share_model:    *)
(* they run while the mapping thread waits for them.                       *)
(*                                                                         *)
(* Rebuild_Ptr == nullptr || *Rebuild_Ptr != x is one read here: the -O3   *)
(* of FAST_LIO/CMakeLists.txt loads the pointer once, and what it points   *)
(* at, a father's field or Root_Node, stays when Rebuild_Ptr is cleared.   *)
(***************************************************************************)
EXTENDS Integers, Sequences, FiniteSets

CONSTANTS LeftPoints, RightPoints,   \* the points of the two sons
          FatherPoint,               \* the father's own point
          Boxes,                     \* the points in a box or in a voxel
          Searchers,
          MaxOps                     \* bound: operations and searches

\* The two halves of the tree are apart, and the search threads, of which
\* OpenMP starts finitely many, are not the two others.
ASSUME IkdRebuildAssumption ==
    /\ LeftPoints \cap RightPoints = {}
    /\ FatherPoint \notin LeftPoints \cup RightPoints
    /\ IsFiniteSet(Searchers) /\ "main" \notin Searchers /\ "rebuild" \notin Searchers

Sons == {"left", "right"}
Subtrees == Sons \cup {"root"}
None == "none"
Threads == {"main", "rebuild"} \cup Searchers
PointsOf(s) == IF s = "left" THEN LeftPoints ELSE RightPoints
SideOf(p) == IF p \in LeftPoints THEN "left" ELSE "right"

VARIABLES
    tree,            \* son -> [alive, dead]
    father,          \* [alive, tree_deleted, working_flag] of the father
    push_down,       \* son -> need_push_down_to_left, ..._to_right
    push_mutex,      \* holder of the father's push_down_mutex_lock
    Rebuild_Ptr, rebuild_flag, Rebuild_Logger,
    rebuild_ptr_mutex, working_mutex,   \* held by the rebuild thread
    search_flag_mutex,                  \* held by a Search_by_range of main
    search_mutex_counter,
    slot, copy,      \* the rebuild thread's *Rebuild_Ptr and new tree
    termination_flag,
    pc, op, todo,    \* main's operation and the sons it still visits
    walk,            \* history: thread -> the nodes it is in, see NoWalk
    live,            \* history: what the map should hold
    confused,        \* history: a rebuild began with entries in the log
    unlogged,        \* history: an addition missed the log, see EndUnlogged
    ops

tvars == <<tree, father, push_down>>
rvars == <<Rebuild_Ptr, rebuild_flag, Rebuild_Logger, slot, copy>>
mutexes == <<push_mutex, rebuild_ptr_mutex, working_mutex, search_flag_mutex,
             search_mutex_counter>>
mvars == <<op, todo, live, ops>>
history == <<confused, unlogged>>
vars == <<tvars, rvars, mutexes, mvars, termination_flag, pc, walk, history>>

Goto(t, label) == pc' = [pc EXCEPT ![t] = label]

\* Whether a thread is below Root_Node, in which son ("root": in either), on
\* search_mutex_counter or not, and what was swapped out under it meanwhile.
NoWalk == [root |-> FALSE, son |-> None, counted |-> FALSE, old |-> {}]
AtRoot(counted) == [root |-> TRUE, son |-> None, counted |-> counted, old |-> {}]

-----------------------------------------------------------------------------
Content(alive, dead) == [alive |-> alive, dead |-> dead]

\* run_operation, and the same operation on the tree in place.  Nothing
\* brings back what a downsampling deletes.
run_operation(c, o) ==
    CASE o.kind = "add"        -> Content(c.alive \cup {o.point}, c.dead)
      [] o.kind = "delete"     -> Content(c.alive \ o.box, c.dead \cup (c.alive \cap o.box))
      [] o.kind = "downsample" -> Content(c.alive \ o.box, c.dead)
      [] o.kind = "push"       -> IF o.tree_deleted
                                  THEN Content({}, c.alive \cup c.dead)
                                  ELSE Content(c.alive \cup c.dead, {})

PushOp == [kind |-> "push", tree_deleted |-> father.tree_deleted]
AddOf(p) == [kind |-> "add", point |-> p]

\* An operation on the two sons, of which an addition reaches one.
SonsOf(o) == IF o.kind = "add" THEN <<SideOf(o.point)>> ELSE <<"left", "right">>
Below(o, t) == [s \in Sons |-> IF o.kind = "add" /\ s # SideOf(o.point) THEN t[s]
                               ELSE run_operation(t[s], o)]
Removes(o, p) == o.kind # "add" /\ p \in o.box

\* The same on the points the map should hold.
After(o, A) == IF o.kind = "add" THEN A \cup {o.point} ELSE A \ o.box

\* The sons as Push_Down leaves them.
Settled == [s \in Sons |-> IF push_down[s] THEN run_operation(tree[s], PushOp) ELSE tree[s]]
NoFlags == [s \in Sons |-> FALSE]

\* The father's flags from its sons' (Update).
Update(f, t) ==
    [f EXCEPT !.tree_deleted = ~f.alive /\ \A s \in Sons : t[s].alive = {}]

\* What a search finds, and the father's own part of it.
OfFather == IF father.alive THEN {FatherPoint} ELSE {}
Shown(s) == IF ~push_down[s] THEN tree[s].alive
            ELSE IF father.tree_deleted THEN {}
            ELSE tree[s].alive \cup tree[s].dead
Held == Shown("left") \cup Shown("right") \cup OfFather

Log(os) == Rebuild_Logger' = IF rebuild_flag THEN Rebuild_Logger \o os
                             ELSE Rebuild_Logger

\* An operation on a son that is not being rebuilt, and on one that is: the
\* latter waits for working_flag_mutex and logs what it did.
Direct(s, o) == /\ tree' = [tree EXCEPT ![s] = run_operation(@, o)]
                /\ UNCHANGED Rebuild_Logger
Locked(s, o) == /\ ~working_mutex
                /\ tree' = [tree EXCEPT ![s] = run_operation(@, o)]
                /\ Log(<<o>>)

\* Criterion_Check and Rebuild: a degenerated subtree is given to the rebuild
\* thread if the try-lock succeeds and it is larger than the one given before.
MayRebuild(x) ==
    \/ UNCHANGED Rebuild_Ptr
    \/ /\ ~rebuild_ptr_mutex
       /\ x \in Sons => Rebuild_Ptr # "root"
       /\ Rebuild_Ptr' = x

-----------------------------------------------------------------------------
Init ==
    /\ tree = [s \in Sons |-> Content(PointsOf(s), {})]
    /\ father = [alive |-> TRUE, tree_deleted |-> FALSE, working_flag |-> FALSE]
    /\ push_down = NoFlags
    /\ Rebuild_Ptr = None /\ rebuild_flag = FALSE /\ Rebuild_Logger = <<>>
    /\ slot = None /\ copy = Content({}, {})
    /\ push_mutex = None /\ search_mutex_counter = 0
    /\ rebuild_ptr_mutex = FALSE /\ working_mutex = FALSE /\ search_flag_mutex = FALSE
    /\ termination_flag = FALSE
    /\ pc = [t \in Threads |-> IF t = "rebuild" THEN "poll" ELSE "idle"]
    /\ op = [kind |-> None] /\ todo = <<>>
    /\ walk = [t \in Threads \ {"rebuild"} |-> NoWalk]
    /\ live = LeftPoints \cup RightPoints \cup {FatherPoint}
    /\ confused = FALSE /\ unlogged = FALSE /\ ops = 0

-----------------------------------------------------------------------------
(* The mapping thread: Add_Points, Delete_Point_Boxes, the searches.       *)

\* Add_by_point or Delete_by_range begins at the father.
BeginPass(o) ==
    /\ op' = o /\ todo' = SonsOf(o) /\ live' = After(o, live)
    /\ father' = [father EXCEPT !.working_flag = TRUE]
    /\ Goto("main", "push")

\* Add_Points and Delete_Point_Boxes see whether the root is being rebuilt.
Operate(o) ==
    IF Rebuild_Ptr = "root"
    THEN op' = o /\ Goto("main", "root_lock") /\ UNCHANGED <<todo, live, father>>
    ELSE BeginPass(o)

Add_Points(p) ==
    /\ pc["main"] = "idle" /\ ops < MaxOps /\ p \notin live
    /\ Operate(AddOf(p)) /\ ops' = ops + 1
    /\ UNCHANGED <<tree, push_down, rvars, mutexes, termination_flag, walk, history>>

\* With downsampling: p is the point of the voxel that is kept, the new one
\* or one the search finds there.
Add_Points_Downsampled(p, voxel) ==
    /\ pc["main"] = "idle" /\ ops < MaxOps /\ p \in voxel
    /\ op' = [kind |-> "search", box |-> voxel, point |-> p]
    /\ walk' = [walk EXCEPT !["main"] = AtRoot(FALSE)]
    /\ ops' = ops + 1
    /\ Goto("main", "push")
    /\ UNCHANGED <<tvars, rvars, todo, live, mutexes, termination_flag, history>>

\* Search_by_range below the father: all of it at once and without a lock if
\* the voxel covers it (flatten), or son by son.
EnterSons ==
    /\ pc["main"] = "push" /\ op.kind = "search" /\ \A s \in Sons : ~push_down[s]
    /\ IF Held \subseteq op.box
       THEN walk' = [walk EXCEPT !["main"].son = "root"] /\ todo' = <<>>
       ELSE todo' = <<"left", "right">> /\ UNCHANGED walk
    /\ Goto("main", "search")
    /\ UNCHANGED <<tvars, rvars, mutexes, op, live, ops, termination_flag, history>>

Search_by_range(s) ==
    /\ pc["main"] = "search" /\ todo # <<>> /\ Head(todo) = s
    /\ IF Rebuild_Ptr = s
       THEN Goto("main", "search_lock") /\ UNCHANGED walk
       ELSE /\ walk' = [walk EXCEPT !["main"].son = s]
            /\ Goto("main", "searching")
    /\ UNCHANGED <<tvars, rvars, mvars, mutexes, termination_flag, history>>

LockSearch ==
    /\ pc["main"] = "search_lock"
    /\ ~search_flag_mutex
    /\ search_flag_mutex' = TRUE
    /\ walk' = [walk EXCEPT !["main"].son = Head(todo)]
    /\ Goto("main", "searching")
    /\ UNCHANGED <<tvars, rvars, mvars, push_mutex, rebuild_ptr_mutex, working_mutex,
                   search_mutex_counter, termination_flag, history>>

EndSearch_by_range ==
    /\ pc["main"] = "searching"
    /\ walk' = [walk EXCEPT !["main"].son = None, !["main"].old = @ \cap {"root"}]
    /\ search_flag_mutex' = FALSE
    /\ todo' = Tail(todo)
    /\ Goto("main", "search")
    /\ UNCHANGED <<tvars, rvars, op, live, ops, push_mutex, rebuild_ptr_mutex,
                   working_mutex, search_mutex_counter, termination_flag, history>>

\* What was found decides: nothing to do, only an addition, or the voxel's
\* points go and one is added.
Downsample ==
    /\ pc["main"] = "search" /\ todo = <<>>
    /\ walk' = [walk EXCEPT !["main"] = NoWalk]
    /\ LET found == op.box \cap Held
       IN IF found = {op.point}
          THEN Goto("main", "idle") /\ UNCHANGED <<op, todo, live, father>>
          ELSE Operate(IF found = {} THEN AddOf(op.point)
                       ELSE [op EXCEPT !.kind = "downsample"])
    /\ UNCHANGED <<tree, push_down, rvars, ops, mutexes, termination_flag, history>>

\* The search walks nodes that the rebuild of the root has freed under it:
\* the program may end (or read what the nodes held).
WalkFreed ==
    /\ walk["main"].old # {} /\ pc["rebuild"] \notin {"swapped", "free"}
    /\ Goto("main", "crashed")
    /\ UNCHANGED <<tvars, rvars, mvars, mutexes, termination_flag, walk, history>>

Delete_Point_Boxes(box) ==
    /\ pc["main"] = "idle" /\ ops < MaxOps
    /\ ~father.tree_deleted /\ box \cap live # {}
    /\ Operate([kind |-> "delete", box |-> box]) /\ ops' = ops + 1
    /\ UNCHANGED <<tree, push_down, rvars, mutexes, termination_flag, walk, history>>

\* The root is being rebuilt: the operation, a downsampling with its
\* addition, is done and logged under working_flag_mutex.
RootLocked ==
    /\ pc["main"] = "root_lock" /\ ~working_mutex
    /\ ~(op.kind = "delete" /\ Held \subseteq op.box)
    /\ IF op.kind = "downsample"
       THEN LET add == AddOf(op.point)
            IN /\ tree' = Below(add, Below(op, Settled))
               /\ live' = After(add, After(op, live))
               /\ Log(<<op, add>>)
       ELSE /\ tree' = Below(op, Settled)
            /\ live' = After(op, live)
            /\ Log(<<op>>)
    /\ father' = Update([father EXCEPT !.alive = @ /\ ~Removes(op, FatherPoint),
                                       !.working_flag = FALSE], tree')
    /\ push_down' = NoFlags
    /\ Goto("main", "idle")
    /\ UNCHANGED <<Rebuild_Ptr, rebuild_flag, slot, copy, mutexes, op, todo, ops,
                   termination_flag, walk, history>>

\* Broken variant of FlagFather: the early return clears working_flag.
FlagFatherDone(f) == [f EXCEPT !.alive = FALSE, !.tree_deleted = TRUE,
                               !.working_flag = FALSE]

\* Delete_by_range on a father whose range the box covers: everything below
\* is flagged, and the return leaves working_flag set.
FlagFather(f) == [f EXCEPT !.alive = FALSE, !.tree_deleted = TRUE,
                           !.working_flag = TRUE]

RootFlagged ==
    /\ pc["main"] = "root_lock" /\ ~working_mutex
    /\ op.kind = "delete" /\ Held \subseteq op.box
    /\ live' = After(op, live)
    /\ father' = FlagFather(father)
    /\ push_down' = [s \in Sons |-> TRUE]
    /\ Log(<<op>>)
    /\ Goto("main", "idle")
    /\ UNCHANGED <<tree, Rebuild_Ptr, rebuild_flag, slot, copy, mutexes, op, todo, ops,
                   termination_flag, walk, history>>

\* Push_Down of the father, son by son, by main or by a search thread.
Push_Down(t, s) ==
    /\ pc[t] = "push" /\ push_down[s]
    /\ s = "right" => ~push_down["left"]
    /\ IF Rebuild_Ptr = s
       THEN /\ Goto(t, "push_lock")
            /\ UNCHANGED <<tree, push_down, Rebuild_Logger>>
       ELSE /\ Direct(s, PushOp)
            /\ push_down' = [push_down EXCEPT ![s] = FALSE]
            /\ UNCHANGED pc
    /\ UNCHANGED <<father, Rebuild_Ptr, rebuild_flag, slot, copy, mutexes, mvars,
                   termination_flag, walk, history>>

Push_Down_Locked(t, s) ==
    /\ pc[t] = "push_lock" /\ push_down[s]
    /\ s = "right" => ~push_down["left"]
    /\ Locked(s, PushOp)
    /\ push_down' = [push_down EXCEPT ![s] = FALSE]
    /\ Goto(t, "push")
    /\ UNCHANGED <<father, Rebuild_Ptr, rebuild_flag, slot, copy, mutexes, mvars,
                   termination_flag, walk, history>>

\* A box that covers the father's range flags everything; any other takes
\* the father's point and goes on to the sons.
AtFather ==
    /\ pc["main"] = "push" /\ op.kind # "search" /\ \A s \in Sons : ~push_down[s]
    /\ IF op.kind # "add" /\ Held \subseteq op.box
       THEN /\ father' = FlagFather(father)
            /\ push_down' = [s \in Sons |-> TRUE]
            /\ Goto("main", IF op.kind = "delete" THEN "idle" ELSE "add")
       ELSE /\ father' = [father EXCEPT !.alive = @ /\ ~Removes(op, FatherPoint)]
            /\ UNCHANGED push_down
            /\ Goto("main", "visit")
    /\ UNCHANGED <<tree, rvars, mutexes, mvars, termination_flag, walk, history>>

Visit(s) ==
    /\ pc["main"] = "visit" /\ todo # <<>> /\ Head(todo) = s
    /\ IF Rebuild_Ptr = s
       THEN /\ Goto("main", "visit_lock")
            /\ UNCHANGED <<tree, Rebuild_Logger, Rebuild_Ptr, todo>>
       ELSE /\ Direct(s, op)
            /\ todo' = Tail(todo)
            /\ MayRebuild(s)
            /\ UNCHANGED pc
    /\ UNCHANGED <<father, push_down, rebuild_flag, slot, copy, mutexes, op, live, ops,
                   termination_flag, walk, history>>

VisitLocked(s) ==
    /\ pc["main"] = "visit_lock" /\ Head(todo) = s
    /\ Locked(s, op)
    /\ todo' = Tail(todo)
    /\ Goto("main", "visit")
    /\ UNCHANGED <<father, push_down, Rebuild_Ptr, rebuild_flag, slot, copy, mutexes, op,
                   live, ops, termination_flag, walk, history>>

Return ==
    /\ pc["main"] = "visit" /\ todo = <<>>
    /\ father' = [Update(father, tree) EXCEPT !.working_flag = FALSE]
    /\ MayRebuild("root")
    /\ Goto("main", IF op.kind = "downsample" THEN "add" ELSE "idle")
    /\ UNCHANGED <<tree, push_down, rebuild_flag, Rebuild_Logger, slot, copy, mutexes,
                   mvars, termination_flag, walk, history>>

\* The addition after a downsampling does not look at Rebuild_Ptr again: if
\* the deletion has just asked for the root to be rebuilt, it goes on there
\* without a lock and without a log.
AddKept ==
    /\ pc["main"] = "add"
    /\ IF Rebuild_Ptr = "root"
       THEN /\ walk' = [walk EXCEPT !["main"] = AtRoot(FALSE)]
            /\ Goto("main", "unlogged")
            /\ UNCHANGED <<op, todo, live, father>>
       ELSE BeginPass(AddOf(op.point)) /\ UNCHANGED walk
    /\ UNCHANGED <<tree, push_down, rvars, ops, mutexes, termination_flag, history>>

\* The point is lost if the root has been swapped out meanwhile, and will be
\* if it has been copied.
EndUnlogged ==
    /\ pc["main"] = "unlogged"
    /\ IF "root" \in walk["main"].old
       THEN UNCHANGED tvars
       ELSE /\ tree' = Below(AddOf(op.point), Settled)
            /\ push_down' = NoFlags
            /\ father' = [Update(father, tree') EXCEPT !.working_flag = FALSE]
    /\ unlogged' = (\/ unlogged \/ "root" \in walk["main"].old
                    \/ pc["rebuild"] \in {"copied", "drain", "lock_search_again", "swap"})
    /\ live' = After(AddOf(op.point), live)
    /\ walk' = [walk EXCEPT !["main"] = NoWalk]
    /\ MayRebuild("root")
    /\ Goto("main", "idle")
    /\ UNCHANGED <<rebuild_flag, Rebuild_Logger, slot, copy, mutexes, op, todo, ops,
                   termination_flag, confused>>

\* h_share_model: all search threads start, main goes on when all have ended.
StartSearches ==
    /\ pc["main"] = "idle" /\ ops < MaxOps
    /\ pc' = [t \in Threads |-> CASE t = "main" -> "searches"
                                  [] t \in Searchers -> "at_root"
                                  [] OTHER -> pc[t]]
    /\ ops' = ops + 1
    /\ UNCHANGED <<tvars, rvars, mutexes, op, todo, live, termination_flag, walk, history>>

EndSearches ==
    /\ pc["main"] = "searches" /\ \A t \in Searchers : pc[t] = "idle"
    /\ Goto("main", "idle")
    /\ UNCHANGED <<tvars, rvars, mutexes, mvars, termination_flag, walk, history>>

\* stop_thread: the rebuild thread is told to end and joined.
stop_thread ==
    /\ pc["main"] = "idle" /\ ~termination_flag
    /\ termination_flag' = TRUE
    /\ Goto("main", "join")
    /\ UNCHANGED <<tvars, rvars, mutexes, mvars, walk, history>>

Join ==
    /\ pc["main"] = "join" /\ pc["rebuild"] = "ended"
    /\ Goto("main", "ended")
    /\ UNCHANGED <<tvars, rvars, mutexes, mvars, termination_flag, walk, history>>

-----------------------------------------------------------------------------
(* A search thread (Nearest_Search, Search): flags are pushed under the    *)
(* node's mutex; a subtree that is being rebuilt, the root or a son, is    *)
(* entered through search_mutex_counter.                                   *)

Nearest_Search(t) ==
    /\ pc[t] = "at_root"
    /\ IF Rebuild_Ptr = "root"
       THEN walk' = [walk EXCEPT ![t].son = "root"] /\ Goto(t, "count")
       ELSE walk' = [walk EXCEPT ![t] = AtRoot(FALSE)] /\ Goto(t, "at_father")
    /\ UNCHANGED <<tvars, rvars, mutexes, mvars, termination_flag, history>>

EnterFather(t) ==
    /\ pc[t] = "at_father"
    /\ IF father.tree_deleted
       THEN Goto(t, "inside") /\ UNCHANGED push_mutex
       ELSE IF \E s \in Sons : push_down[s]
       THEN push_mutex = None /\ push_mutex' = t /\ Goto(t, "push")
       ELSE Goto(t, "choose") /\ UNCHANGED push_mutex
    /\ UNCHANGED <<tvars, rvars, rebuild_ptr_mutex, working_mutex, search_flag_mutex,
                   search_mutex_counter, mvars, termination_flag, walk, history>>

Pushed(t) ==
    /\ pc[t] = "push" /\ push_mutex = t /\ \A s \in Sons : ~push_down[s]
    /\ push_mutex' = None
    /\ Goto(t, "choose")
    /\ UNCHANGED <<tvars, rvars, rebuild_ptr_mutex, working_mutex, search_flag_mutex,
                   search_mutex_counter, mvars, termination_flag, walk, history>>

Search(t, s) ==
    /\ pc[t] = "choose"
    /\ walk' = [walk EXCEPT ![t].son = s]
    /\ Goto(t, IF Rebuild_Ptr = s THEN "count" ELSE "inside")
    /\ UNCHANGED <<tvars, rvars, mutexes, mvars, termination_flag, history>>

\* What is entered is read again under the mutex: Root_Node, or the son.
CountIn(t) ==
    /\ pc[t] = "count"
    /\ ~search_flag_mutex /\ search_mutex_counter # -1
    /\ search_mutex_counter' = search_mutex_counter + 1
    /\ IF walk[t].son = "root"
       THEN walk' = [walk EXCEPT ![t] = AtRoot(TRUE)]
            /\ Goto(t, "at_father")
       ELSE walk' = [walk EXCEPT ![t].counted = TRUE] /\ Goto(t, "inside")
    /\ UNCHANGED <<tvars, rvars, push_mutex, rebuild_ptr_mutex, working_mutex,
                   search_flag_mutex, mvars, termination_flag, history>>

CountOut(t) ==
    /\ pc[t] = "inside"
    /\ walk[t].counted => ~search_flag_mutex
    /\ search_mutex_counter' = search_mutex_counter - (IF walk[t].counted THEN 1 ELSE 0)
    /\ walk' = [walk EXCEPT ![t] = NoWalk]
    /\ Goto(t, "idle")
    /\ UNCHANGED <<tvars, rvars, push_mutex, rebuild_ptr_mutex, working_mutex,
                   search_flag_mutex, mvars, termination_flag, history>>

-----------------------------------------------------------------------------
(* The rebuild thread (multi_thread_rebuild).                              *)

Poll ==
    /\ pc["rebuild"] = "poll"
    /\ IF termination_flag
       THEN Goto("rebuild", "ended") /\ UNCHANGED rebuild_ptr_mutex
       ELSE rebuild_ptr_mutex' = TRUE /\ Goto("rebuild", "lock")
    /\ UNCHANGED <<tvars, rvars, push_mutex, working_mutex, search_flag_mutex,
                   search_mutex_counter, mvars, termination_flag, walk, history>>

Begin ==
    /\ pc["rebuild"] = "lock"
    /\ IF Rebuild_Ptr = None
       THEN /\ rebuild_ptr_mutex' = FALSE
            /\ Goto("rebuild", "poll")
            /\ UNCHANGED <<rebuild_flag, slot, working_mutex, confused>>
       ELSE /\ working_mutex' = TRUE
            /\ rebuild_flag' = TRUE /\ slot' = Rebuild_Ptr
            /\ confused' = (confused \/ Rebuild_Logger # <<>>)
            /\ Goto("rebuild", "lock_search")
            /\ UNCHANGED rebuild_ptr_mutex
    /\ UNCHANGED <<tvars, Rebuild_Ptr, Rebuild_Logger, copy, push_mutex, search_flag_mutex,
                   search_mutex_counter, mvars, termination_flag, walk, unlogged>>

\* Broken variant of LockSearches: the searches inside are not waited for.
LockSearchesAtOnce(from, to) ==
    /\ pc["rebuild"] = from
    /\ ~search_flag_mutex
    /\ search_mutex_counter' = -1
    /\ Goto("rebuild", to)
    /\ UNCHANGED <<tvars, rvars, push_mutex, rebuild_ptr_mutex, working_mutex,
                   search_flag_mutex, mvars, termination_flag, walk, history>>

\* Searches are kept out while the subtree is copied, and while it is swapped.
LockSearches(from, to) ==
    /\ pc["rebuild"] = from
    /\ ~search_flag_mutex /\ search_mutex_counter = 0
    /\ search_mutex_counter' = -1
    /\ Goto("rebuild", to)
    /\ UNCHANGED <<tvars, rvars, push_mutex, rebuild_ptr_mutex, working_mutex,
                   search_flag_mutex, mvars, termination_flag, walk, history>>

\* flatten takes the points; of the root's it pushes the father's flags first.
Flatten ==
    /\ pc["rebuild"] = "flatten"
    /\ IF slot = "root"
       THEN /\ copy' = Content(Held, {})
            /\ tree' = Settled /\ push_down' = NoFlags
       ELSE copy' = Content(tree[slot].alive, {}) /\ UNCHANGED <<tree, push_down>>
    /\ Goto("rebuild", "copied")
    /\ UNCHANGED <<father, Rebuild_Ptr, rebuild_flag, Rebuild_Logger, slot, mutexes,
                   mvars, termination_flag, walk, history>>

\* A subtree without points left is not built, and its null pointer is read
\* when the sizes are compared: the program ends.
Copied ==
    /\ pc["rebuild"] = "copied" /\ ~search_flag_mutex
    /\ search_mutex_counter' = 0
    /\ working_mutex' = FALSE
    /\ Goto("rebuild", IF copy.alive = {} THEN "crashed" ELSE "drain")
    /\ UNCHANGED <<tvars, rvars, push_mutex, rebuild_ptr_mutex, search_flag_mutex,
                   mvars, termination_flag, walk, history>>

\* One logged operation at a time; the lock is kept once the log is empty.
Drain ==
    /\ pc["rebuild"] = "drain"
    /\ IF Rebuild_Logger = <<>>
       THEN /\ working_mutex' = TRUE
            /\ Goto("rebuild", "lock_search_again")
            /\ UNCHANGED <<copy, Rebuild_Logger>>
       ELSE /\ copy' = run_operation(copy, Head(Rebuild_Logger))
            /\ Rebuild_Logger' = Tail(Rebuild_Logger)
            /\ UNCHANGED <<pc, working_mutex>>
    /\ UNCHANGED <<tvars, Rebuild_Ptr, rebuild_flag, slot, push_mutex, rebuild_ptr_mutex,
                   search_flag_mutex, search_mutex_counter, mvars, termination_flag,
                   walk, history>>

\* Whether a thread is in the nodes of a subtree.
In(t, x) == /\ walk[t].root
            /\ x = "root" \/ (pc[t] # "count" /\ walk[t].son \in {x, "root"})

\* The new subtree takes the old one's place; the father's flags are
\* refreshed unless an operation is at work there.  A new root is taken to
\* part the points as the old one did.
Swap ==
    /\ pc["rebuild"] = "swap"
    /\ IF slot = "root"
       THEN /\ tree' = [s \in Sons |-> Content(copy.alive \cap PointsOf(s),
                                               copy.dead \cap PointsOf(s))]
            /\ father' = [alive |-> FatherPoint \in copy.alive,
                          tree_deleted |-> copy.alive = {}, working_flag |-> FALSE]
            /\ push_down' = NoFlags
       ELSE /\ tree' = [tree EXCEPT ![slot] = copy]
            /\ father' = IF father.working_flag THEN father ELSE Update(father, tree')
            /\ UNCHANGED push_down
    /\ walk' = [t \in DOMAIN walk |->
                   IF In(t, slot) THEN [walk[t] EXCEPT !.old = @ \cup {slot}] ELSE walk[t]]
    /\ Goto("rebuild", "swapped")
    /\ UNCHANGED <<rvars, mutexes, mvars, termination_flag, history>>

\* Broken variant of Swapped: working_flag_mutex is not released.
SwappedKeepsLock ==
    /\ pc["rebuild"] = "swapped" /\ ~search_flag_mutex
    /\ search_mutex_counter' = 0
    /\ Rebuild_Ptr' = None
    /\ Goto("rebuild", "free")
    /\ UNCHANGED <<tvars, rebuild_flag, Rebuild_Logger, slot, copy, push_mutex,
                   rebuild_ptr_mutex, working_mutex, search_flag_mutex, mvars,
                   termination_flag, walk, history>>

Swapped ==
    /\ pc["rebuild"] = "swapped" /\ ~search_flag_mutex
    /\ search_mutex_counter' = 0
    /\ Rebuild_Ptr' = None
    /\ working_mutex' = FALSE
    /\ Goto("rebuild", "free")
    /\ UNCHANGED <<tvars, rebuild_flag, Rebuild_Logger, slot, copy, push_mutex,
                   rebuild_ptr_mutex, search_flag_mutex, mvars, termination_flag,
                   walk, history>>

\* Broken variant of Free: rebuild_flag is left set.
FreeKeepsFlag ==
    /\ pc["rebuild"] = "free"
    /\ slot' = None
    /\ rebuild_ptr_mutex' = FALSE
    /\ copy' = Content({}, {})
    /\ Goto("rebuild", "poll")
    /\ UNCHANGED <<tvars, Rebuild_Ptr, rebuild_flag, Rebuild_Logger, push_mutex,
                   working_mutex, search_flag_mutex, search_mutex_counter, mvars,
                   termination_flag, walk, history>>

\* rebuild_flag falls after the lock is gone; the old nodes are freed.
Free ==
    /\ pc["rebuild"] = "free"
    /\ rebuild_flag' = FALSE
    /\ slot' = None
    /\ rebuild_ptr_mutex' = FALSE
    /\ copy' = Content({}, {})
    /\ Goto("rebuild", "poll")
    /\ UNCHANGED <<tvars, Rebuild_Ptr, Rebuild_Logger, push_mutex, working_mutex,
                   search_flag_mutex, search_mutex_counter, mvars, termination_flag,
                   walk, history>>

-----------------------------------------------------------------------------
Main == \/ \E p \in LeftPoints \cup RightPoints :
             \/ Add_Points(p)
             \/ \E voxel \in Boxes : Add_Points_Downsampled(p, voxel)
        \/ \E box \in Boxes : Delete_Point_Boxes(box)
        \/ EnterSons \/ LockSearch \/ EndSearch_by_range \/ Downsample \/ WalkFreed
        \/ \E s \in Sons : \/ Search_by_range(s)
                           \/ Push_Down("main", s) \/ Push_Down_Locked("main", s)
                           \/ Visit(s) \/ VisitLocked(s)
        \/ AtFather \/ Return \/ AddKept \/ EndUnlogged \/ RootLocked \/ RootFlagged
        \/ StartSearches \/ EndSearches \/ stop_thread \/ Join

Searcher(t) == \/ Nearest_Search(t) \/ EnterFather(t) \/ Pushed(t)
               \/ CountIn(t) \/ CountOut(t)
               \/ \E s \in Sons : \/ Push_Down(t, s) \/ Push_Down_Locked(t, s)
                                  \/ Search(t, s)

Rebuilder == \/ Poll \/ Begin
             \/ LockSearches("lock_search", "flatten")
             \/ LockSearches("lock_search_again", "swap")
             \/ Flatten \/ Copied \/ Drain \/ Swap \/ Swapped \/ Free

Running == pc["rebuild"] # "crashed" /\ pc["main"] # "crashed"
Ended == (pc["main"] = "ended" \/ ~Running) /\ UNCHANGED vars

Next == \/ Running /\ (Main \/ Rebuilder \/ \E t \in Searchers : Searcher(t))
        \/ Ended

Spec == /\ Init /\ [][Next]_vars
        /\ WF_vars(Running /\ Rebuilder)
        /\ WF_vars(Running /\ Main)
        /\ \A t \in Searchers : WF_vars(Running /\ Searcher(t))

-----------------------------------------------------------------------------
\* Whenever the mapping thread is between operations the tree holds what
\* the operations made of it, whether a rebuild is under way, was swapped in
\* behind pending flags, or never happened: no add is lost, no deleted point
\* comes back.  (Unless a rebuild began with entries of the last one in its
\* log, see LogEmptyAtRebuild, or an addition missed the log, EndUnlogged.)
MapRight ==
    pc["main"] \in {"idle", "searches"} /\ ~confused /\ ~unlogged => live = Held

\* No search thread is in a subtree, the root's included, while it is copied
\* or swapped, so that none ever walks replaced nodes, which the rebuild
\* thread frees; and where the mapping thread's Search_by_range takes
\* search_flag_mutex, in a son of a root that is still in place, the rebuild
\* thread waits with the son's old nodes.  They read Rebuild_Ptr bare.  (The
\* mapping thread has no such lock where the root is rebuilt or the box covers
\* a father: see WalkFreed.)
WalksExcluded ==
    /\ \A t \in Searchers :
         /\ walk[t].old = {}
         /\ pc["rebuild"] \in {"flatten", "copied", "swap", "swapped"} => ~In(t, slot)
    /\ walk["main"].son \in Sons /\ "root" \notin walk["main"].old =>
         walk["main"].old = {} \/ pc["rebuild"] = "swapped"

\* multi_thread_rebuild prints "ERROR!!!" when a rebuild begins with entries
\* in its log.
LogEmptyAtRebuild == ~confused

\* A rebuild that began ends, whatever the searches and operations do: nobody
\* keeps a mutex or the search counter for ever.
RebuildEnds == rebuild_flag ~> (~rebuild_flag \/ ~Running)

\* The mapping thread gets its turn: every operation returns.
OperationsEnd == (pc["main"] \notin {"idle", "ended"})
                     ~> (pc["main"] \in {"idle", "ended"} \/ ~Running)

\* Neither thread waits for the other, or for a lock, for ever.
NobodyStuck == RebuildEnds /\ OperationsEnd
=============================================================================
